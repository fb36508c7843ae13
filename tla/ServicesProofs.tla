--------------------------- MODULE ServicesProofs ---------------------------
(***************************************************************************)
(* Theorems of the parts explored side by side in MCServices: the mail     *)
(* session, the scanner's dialogue, the rate limiter, imports, alerts, and *)
(* the routes and requests of the HTTP service.                            *)
(***************************************************************************)
EXTENDS MCServices, SequenceTheorems, FiniteSetTheorems, WellFoundedInduction, TLAPS

-----------------------------------------------------------------------------
(* The mail session.                                                       *)

Replies == [code : M!Codes, offers : M!Offers, inside : BOOLEAN]
Fates == {"none", "delivered", "rejected", "timeout", "failed"}

SessionTyped ==
    /\ mode \in {"none", "starttls", "implicit", "disabled"} /\ user \in BOOLEAN
    /\ stage \in M!Stages \cup {"before", "connect", "handshake", "over"}
    /\ secure \in BOOLEAN /\ took \in BOOLEAN /\ fate \in Fates
    /\ wire \in Seq(Replies) /\ buffer \in Seq(Replies)
    /\ Len(wire) + Len(buffer) <= MaxAhead
    /\ left \in 0 .. Recipients
    /\ inClear \subseteq M!Stages /\ heardClear \subseteq M!Stages

(* Nothing is on its way before there is a session.                        *)
BeforeSession ==
    /\ fate = "none" <=> stage # "over"
    /\ stage \in {"before", "connect"} =>
          ~secure /\ wire = <<>> /\ buffer = <<>> /\ inClear = {} /\ heardClear = {}
    /\ stage \notin {"before", "over"} => mode # "none" /\ (user => mode # "disabled")
    /\ mode = "none" => inClear = {} /\ heardClear = {}

(* The channel at each stage, and what can be on it.                       *)
Clear == {"greeting", "ehlo", "starttls"}
ChannelAtStage ==
    /\ stage \in M!Stages => (secure <=> mode = "implicit" \/ (mode = "starttls" /\ stage \notin Clear))
    /\ stage = "handshake" => mode = "starttls" /\ ~secure /\ buffer = <<>>
    /\ stage \in {"starttls", "ehloInside"} => mode = "starttls"
    /\ stage \in {"plain", "login", "loginUser", "password"} => user
    /\ secure /\ stage # "over" =>
          /\ \A i \in 1 .. Len(wire) : wire[i].inside
          /\ \A i \in 1 .. Len(buffer) : buffer[i].inside

ClearIsClear ==
    /\ inClear \cap M!Secrets = {}
    /\ mode = "starttls" => inClear \cup heardClear \subseteq Clear
    /\ mode = "implicit" => inClear \cup heardClear = {}

(* The recipients left and the reply to the message.                       *)
Envelope ==
    /\ stage \notin {"data", "message", "quit", "over"} => left > 0
    /\ stage \in {"data", "message", "quit"} => left = 0
    /\ stage # "over" => (took <=> stage = "quit")
    /\ fate = "delivered" => left = 0
    /\ fate # "none" => (took <=> fate = "delivered")

SessionInv == SessionTyped /\ BeforeSession /\ ChannelAtStage /\ ClearIsClear /\ Envelope

LEMMA StagesNamed ==
    M!Stages = {"greeting", "ehlo", "starttls", "ehloInside", "login", "loginUser", "password", "plain",
                "mail", "rcpt", "data", "message", "quit"}
  BY DEF M!Stages, M!Accepts

(* Taking the first of a sequence of replies, and adding one.              *)
LEMMA Taking ==
    ASSUME NEW q \in Seq(Replies), q # <<>>
    PROVE  /\ Head(q) \in Replies /\ Head(q) = q[1]
           /\ Tail(q) \in Seq(Replies) /\ Len(q) \in Nat /\ Len(q) > 0 /\ Len(Tail(q)) = Len(q) - 1
           /\ (\A i \in 1 .. Len(q) : q[i].inside) =>
                  Head(q).inside /\ \A i \in 1 .. Len(Tail(q)) : Tail(q)[i].inside
  <1>1. /\ Len(q) \in Nat /\ Len(q) > 0 /\ Head(q) = q[1] /\ q[1] \in Replies
        /\ Tail(q) \in Seq(Replies) /\ Len(Tail(q)) = Len(q) - 1
        /\ \A i \in 1 .. Len(Tail(q)) : Tail(q)[i] = q[i + 1]
    BY EmptySeq, HeadTailProperties
  <1>2. QED
    BY <1>1

LEMMA Adding ==
    ASSUME NEW q \in Seq(Replies), NEW r \in Replies
    PROVE  /\ Append(q, r) \in Seq(Replies) /\ Len(q) \in Nat /\ Len(Append(q, r)) = Len(q) + 1
           /\ r.inside /\ (\A i \in 1 .. Len(q) : q[i].inside) =>
                  \A i \in 1 .. Len(Append(q, r)) : Append(q, r)[i].inside
  BY AppendProperties

(* The end of a session, however it comes about.                           *)
LEMMA OverKeeps ==
    ASSUME SessionInv, stage \notin {"before", "over"}, NEW what \in Fates \ {"none"}, M!Over(what),
           inClear' = inClear, heardClear' \subseteq heardClear \cup ({stage} \cap M!Stages),
           ~secure \/ heardClear' = heardClear, took' = (what = "delivered"),
           what = "delivered" => left = 0, stage \in M!Stages \/ heardClear' = heardClear
    PROVE  SessionInv'
  <1>1. /\ stage' = "over" /\ fate' = what /\ wire' = <<>> /\ buffer' = <<>>
        /\ UNCHANGED <<mode, user, secure, left>>
    BY DEF M!Over, M!settingVars
  <1>2. SessionTyped'
    BY <1>1, EmptySeq, ServicesAssumption DEF SessionInv, SessionTyped, Fates, M!SmtpAssumption
  <1>3. ClearIsClear'
    BY <1>1, StagesNamed DEF SessionInv, BeforeSession, ChannelAtStage, ClearIsClear
  <1>4. BeforeSession'
    BY <1>1 DEF SessionInv, BeforeSession
  <1>5. ChannelAtStage' /\ Envelope'
    BY <1>1, StagesNamed DEF SessionInv, ChannelAtStage, Envelope
  <1>6. QED
    BY <1>2, <1>3, <1>4, <1>5 DEF SessionInv

LEMMA SessionStep ==
    ASSUME SessionInv, [M!Next]_(M!smtpVars)
    PROVE  SessionInv'
  <1> USE ServicesAssumption DEF M!SmtpAssumption
  <1> DEFINE s == stage
  <1>1. CASE M!Begin
    <2>1. /\ UNCHANGED <<secure, left, buffer, wire, far, inClear, heardClear, took>>
          /\ stage = "before" /\ mode' \in {"starttls", "implicit", "disabled"} /\ user' \in BOOLEAN
          /\ \/ fate' = "failed" /\ stage' = "over"
             \/ fate' = fate /\ stage' = "connect" /\ (user' => mode' # "disabled")
      BY <1>1 DEF M!Begin, M!netVars, M!seenVars
    <2>2. QED
      BY <2>1, StagesNamed DEF SessionInv, SessionTyped, BeforeSession, ChannelAtStage, ClearIsClear,
         Envelope, Fates
  <1>2. CASE M!Connected
    <2>1. /\ stage = "connect" /\ stage' = "greeting" /\ secure' = (mode = "implicit")
          /\ UNCHANGED <<mode, user, left, buffer, wire, far, fate, inClear, heardClear, took>>
      BY <1>2 DEF M!Connected, M!settingVars, M!netVars, M!seenVars
    <2>2. /\ buffer = <<>> /\ wire = <<>> /\ Len(buffer) = 0 /\ Len(wire) = 0
          /\ inClear = {} /\ heardClear = {} /\ mode # "none"
      BY <2>1, EmptySeq DEF SessionInv, BeforeSession
    <2>3. SessionTyped' /\ BeforeSession' /\ ClearIsClear' /\ Envelope'
      BY <2>1, <2>2, StagesNamed DEF SessionInv, SessionTyped, BeforeSession, ClearIsClear, Envelope
    <2>4. ChannelAtStage'
      <3>1. secure' <=> mode' = "implicit"
        BY <2>1
      <3>2. /\ stage' = "greeting" /\ "greeting" \in Clear
            /\ \A i \in 1 .. Len(wire') : wire'[i].inside
            /\ \A i \in 1 .. Len(buffer') : buffer'[i].inside
        BY <2>1, <2>2 DEF Clear
      <3>3. QED
        BY <3>1, <3>2 DEF ChannelAtStage
    <2>5. QED
      BY <2>3, <2>4 DEF SessionInv
  <1>3. CASE M!ConnectFails
    <2>1. /\ stage \in {"connect", "handshake"} /\ M!Over("failed")
          /\ UNCHANGED <<inClear, heardClear, took>>
      BY <1>3 DEF M!ConnectFails, M!seenVars
    <2>2. took' = FALSE
      BY <2>1 DEF SessionInv, SessionTyped, Envelope
    <2>3. QED
      BY <2>1, <2>2, OverKeeps DEF Fates
  <1>4. CASE M!Proceed
    <2> DEFINE next == M!Following
    <2>1. /\ stage \in M!Stages \ {"starttls", "quit"} /\ fate = "none" /\ buffer # <<>>
          /\ next # "unsupported" /\ stage' = next /\ buffer' = Tail(buffer)
          /\ inClear' = IF secure THEN inClear ELSE inClear \cup {next}
          /\ heardClear' = IF Head(buffer).inside THEN heardClear ELSE heardClear \cup {stage}
          /\ took' = (took \/ stage = "message")
          /\ left' = IF stage = "rcpt" THEN left - 1 ELSE left
          /\ UNCHANGED <<mode, user, secure, wire, far, fate>>
      BY <1>4 DEF M!Proceed, M!Accepted, M!Answered, M!Talking, M!Reply, M!Heard, M!Write, M!settingVars, M!netVars
    <2>2. /\ stage = "greeting" => next = "ehlo"
          /\ stage = "ehlo" /\ mode = "starttls" => next = "starttls"
          /\ stage \in {"ehlo", "ehloInside"} /\ ~(stage = "ehlo" /\ mode = "starttls") =>
                next \in {"mail", "plain", "login"} /\ (next # "mail" => user)
          /\ stage = "login" => next = "loginUser"
          /\ stage = "loginUser" => next = "password"
          /\ stage \in {"plain", "password"} => next = "mail"
          /\ stage = "mail" => next = "rcpt"
          /\ stage = "rcpt" => next = IF left > 1 THEN "rcpt" ELSE "data"
          /\ stage = "data" => next = "message"
          /\ stage = "message" => next = "quit"
      BY <2>1 DEF M!Following, M!Follows, M!AfterHello
    <2> HIDE DEF next
    <2>3. next \in M!Stages \ {"greeting", "ehloInside"}
      BY <2>1, <2>2, StagesNamed
    <2>4. SessionTyped'
      <3>1. /\ buffer' \in Seq(Replies) /\ Len(buffer') = Len(buffer) - 1
        BY <2>1, Taking DEF SessionInv, SessionTyped
      <3>2. left' \in 0 .. Recipients
        BY <2>1 DEF SessionInv, SessionTyped, Envelope
      <3>3. wire' \in Seq(Replies) /\ Len(wire') + Len(buffer') <= MaxAhead
        BY <2>1, <3>1, EmptySeq, LenProperties DEF SessionInv, SessionTyped
      <3>4. inClear' \subseteq M!Stages /\ heardClear' \subseteq M!Stages /\ took' \in BOOLEAN
        BY <2>1, <2>3 DEF SessionInv, SessionTyped
      <3>5. QED
        BY <2>1, <2>3, <3>1, <3>2, <3>3, <3>4 DEF SessionInv, SessionTyped
    <2>5. BeforeSession'
      BY <2>1, <2>3, StagesNamed DEF SessionInv, BeforeSession
    <2>6. ChannelAtStage'
      <3>1. secure' => /\ \A i \in 1 .. Len(wire') : wire'[i].inside
                       /\ \A i \in 1 .. Len(buffer') : buffer'[i].inside
        BY <2>1, StagesNamed, Taking DEF SessionInv, SessionTyped, ChannelAtStage
      <3>2. next \in {"plain", "login", "loginUser", "password"} => user
        BY <2>1, <2>2, StagesNamed DEF SessionInv, ChannelAtStage
      <3>3. next = "starttls" => mode = "starttls"
        BY <2>1, <2>2, StagesNamed
      <3>4. secure <=> mode = "implicit" \/ (mode = "starttls" /\ next \notin Clear)
        BY <2>1, <2>2, StagesNamed DEF SessionInv, ChannelAtStage, Clear
      <3>5. QED
        BY <2>1, <2>3, <3>1, <3>2, <3>3, <3>4, StagesNamed DEF ChannelAtStage
    <2>7. ClearIsClear'
      <3>1. secure => inClear' = inClear /\ heardClear' = heardClear
        BY <2>1, StagesNamed, Taking DEF SessionInv, SessionTyped, ChannelAtStage
      <3>2. ~secure => next \notin M!Secrets
        <4>1. CASE stage \in {"ehlo", "ehloInside"} /\ ~(stage = "ehlo" /\ mode = "starttls")
          <5>1. ~secure => ~user
            BY <2>1, <4>1 DEF SessionInv, SessionTyped, BeforeSession, ChannelAtStage, Clear
          <5>2. QED
            BY <2>2, <4>1, <5>1 DEF M!Secrets
        <4>2. CASE stage \in {"login", "loginUser"}
          <5>1. secure
            BY <2>1, <4>2 DEF SessionInv, SessionTyped, BeforeSession, ChannelAtStage, Clear
          <5>2. QED
            BY <5>1
        <4>3. CASE stage \notin {"login", "loginUser"} /\ ~(stage \in {"ehlo", "ehloInside"} /\ ~(stage = "ehlo" /\ mode = "starttls"))
          BY <2>1, <2>2, <4>3, StagesNamed DEF M!Secrets
        <4>4. QED
          BY <4>1, <4>2, <4>3
      <3>3. ~secure /\ mode = "starttls" => stage \in Clear /\ next \in Clear
        BY <2>1, <2>2, StagesNamed DEF SessionInv, ChannelAtStage, Clear
      <3>4. mode = "implicit" => secure
        BY <2>1 DEF SessionInv, ChannelAtStage
      <3>5. QED
        BY <2>1, <3>1, <3>2, <3>3, <3>4 DEF SessionInv, ClearIsClear
    <2>8. Envelope'
      <3>1. left \in Nat
        BY DEF SessionInv, SessionTyped
      <3>2. took' <=> stage' = "quit"
        BY <2>1, <2>2, StagesNamed DEF SessionInv, BeforeSession, Envelope
      <3>3. /\ stage' \notin {"data", "message", "quit", "over"} => left' > 0
            /\ stage' \in {"data", "message", "quit"} => left' = 0
        BY <2>1, <2>2, <3>1, StagesNamed DEF SessionInv, Envelope
      <3>4. QED
        BY <2>1, <3>2, <3>3 DEF Envelope
    <2>9. QED
      BY <2>4, <2>5, <2>6, <2>7, <2>8 DEF SessionInv
  <1>5. CASE M!GiveUp
    <2>1. PICK what \in {"failed", "rejected"} : M!Over(what)
      BY <1>5 DEF M!GiveUp
    <2>2. /\ stage \in M!Stages \ {"quit"} /\ buffer # <<>> /\ inClear' = inClear
          /\ heardClear' = IF Head(buffer).inside THEN heardClear ELSE heardClear \cup {stage}
          /\ took' = (took \/ (stage = "message" /\ M!Accepted))
      BY <1>5 DEF M!GiveUp, M!Answered, M!Talking, M!Heard, M!Reply
    <2>3. ~(stage = "message" /\ M!Accepted)
      BY <1>5 DEF M!GiveUp, M!Accepted, M!Following, M!Follows
    <2>4. took' = FALSE
      BY <2>2, <2>3, StagesNamed DEF SessionInv, SessionTyped, Envelope
    <2>5. ~secure \/ heardClear' = heardClear
      BY <2>2, StagesNamed, Taking DEF SessionInv, SessionTyped, ChannelAtStage
    <2>6. QED
      BY <2>1, <2>2, <2>4, <2>5, OverKeeps, StagesNamed DEF Fates
  <1>6. CASE M!Upgrade
    <2>1. /\ stage = "starttls" /\ buffer # <<>> /\ inClear' = inClear /\ stage \in M!Stages
          /\ heardClear' = IF Head(buffer).inside THEN heardClear ELSE heardClear \cup {stage}
          /\ took' = took
      BY <1>6, StagesNamed DEF M!Upgrade, M!Accepted, M!Answered, M!Talking, M!Heard, M!Reply, SessionInv,
         SessionTyped
    <2>2. CASE M!Over("failed")
      <3>1. took' = FALSE /\ ~secure
        BY <2>1 DEF SessionInv, SessionTyped, Envelope, ChannelAtStage, Clear
      <3>2. QED
        BY <2>1, <2>2, <3>1, OverKeeps DEF Fates
    <2>3. CASE /\ stage' = "handshake" /\ buffer' = <<>>
               /\ UNCHANGED <<mode, user, secure, left, wire, far, fate>>
      <3>1. Len(wire) \in Nat /\ Len(buffer) \in Nat /\ Len(wire) <= MaxAhead
        BY LenProperties DEF SessionInv, SessionTyped
      <3>2. SessionTyped'
        BY <2>1, <2>3, <3>1, EmptySeq DEF SessionInv, SessionTyped
      <3>3. BeforeSession' /\ Envelope'
        BY <2>1, <2>3, StagesNamed DEF SessionInv, BeforeSession, Envelope
      <3>4. ChannelAtStage' /\ ClearIsClear'
        BY <2>1, <2>3, StagesNamed DEF SessionInv, ChannelAtStage, ClearIsClear, Clear
      <3>5. QED
        BY <3>2, <3>3, <3>4 DEF SessionInv
    <2>4. QED
      BY <1>6, <2>2, <2>3 DEF M!Upgrade, M!settingVars, M!netVars
  <1>7. CASE M!Encrypted
    <2>1. /\ stage = "handshake" /\ wire = <<>> /\ secure' = TRUE /\ stage' = "ehloInside"
          /\ UNCHANGED <<mode, user, left, buffer, wire, far, fate, inClear, heardClear, took>>
      BY <1>7 DEF M!Encrypted, M!settingVars, M!netVars, M!seenVars
    <2>2. buffer = <<>> /\ mode = "starttls" /\ Len(buffer) = 0 /\ Len(wire) = 0
      BY <2>1, EmptySeq DEF SessionInv, ChannelAtStage
    <2>3. SessionTyped' /\ BeforeSession' /\ ClearIsClear' /\ Envelope'
      BY <2>1, <2>2, StagesNamed DEF SessionInv, SessionTyped, BeforeSession, ClearIsClear, Envelope
    <2>4. ChannelAtStage'
      BY <2>1, <2>2, StagesNamed DEF ChannelAtStage, Clear
    <2>5. QED
      BY <2>3, <2>4 DEF SessionInv
  <1>8. CASE M!Quit
    <2>1. /\ stage = "quit" /\ stage \in M!Stages /\ buffer # <<>> /\ inClear' = inClear
          /\ heardClear' = IF Head(buffer).inside THEN heardClear ELSE heardClear \cup {stage}
          /\ M!Over("delivered") /\ (took => took')
      BY <1>8 DEF M!Quit, M!Answered, M!Talking, M!Heard, M!Reply
    <2>2. left = 0 /\ took' = TRUE
      <3>1. left = 0 /\ took = TRUE
        BY <2>1 DEF SessionInv, SessionTyped, Envelope
      <3>2. took' = took
        BY <1>8, <2>1, <3>1 DEF M!Quit, M!Heard
      <3>3. QED
        BY <3>1, <3>2
    <2>3. ~secure \/ heardClear' = heardClear
      BY <2>1, StagesNamed, Taking DEF SessionInv, SessionTyped, ChannelAtStage
    <2>4. QED
      BY <2>1, <2>2, <2>3, OverKeeps DEF Fates
  <1>9. CASE M!Arrives
    <2>1. /\ stage \in M!Stages /\ wire # <<>> /\ buffer' = Append(buffer, Head(wire)) /\ wire' = Tail(wire)
          /\ UNCHANGED <<mode, user, stage, secure, left, far, fate, inClear, heardClear, took>>
      BY <1>9 DEF M!Arrives, M!Talking, M!settingVars, M!seenVars
    <2>2. /\ Head(wire) \in Replies /\ wire' \in Seq(Replies) /\ buffer' \in Seq(Replies)
          /\ Len(wire') + Len(buffer') = Len(wire) + Len(buffer)
      BY <2>1, Taking, Adding DEF SessionInv, SessionTyped
    <2>3. secure => /\ \A i \in 1 .. Len(wire') : wire'[i].inside
                    /\ \A i \in 1 .. Len(buffer') : buffer'[i].inside
      BY <2>1, <2>2, StagesNamed, Taking, Adding DEF SessionInv, SessionTyped, ChannelAtStage
    <2>4. SessionTyped' /\ BeforeSession' /\ ClearIsClear' /\ Envelope'
      BY <2>1, <2>2, StagesNamed DEF SessionInv, SessionTyped, BeforeSession, ClearIsClear, Envelope
    <2>5. ChannelAtStage'
      BY <2>1, <2>3, StagesNamed DEF SessionInv, ChannelAtStage
    <2>6. QED
      BY <2>4, <2>5 DEF SessionInv
  <1>10. CASE M!Hangup \/ M!Deadline
    <2>1. PICK what \in Fates \ {"none"} :
             /\ M!Over(what) /\ (what = "delivered" <=> stage = "quit")
             /\ UNCHANGED <<inClear, heardClear, took>> /\ stage \notin {"before", "over"}
      BY <1>10, StagesNamed DEF M!Hangup, M!Deadline, M!AfterAll, M!Talking, M!seenVars, SessionInv,
         BeforeSession, Fates
    <2>2. took' = (what = "delivered") /\ (what = "delivered" => left = 0)
      BY <2>1 DEF SessionInv, SessionTyped, Envelope
    <2>3. QED
      BY <2>1, <2>2, OverKeeps DEF SessionInv
  <1>11. CASE M!Says
    <2>1. PICK r \in Replies :
             /\ wire' = Append(wire, r) /\ r.inside = secure
             /\ Len(wire) + Len(buffer) < MaxAhead /\ stage \in M!Stages \cup {"handshake"}
             /\ UNCHANGED <<mode, user, stage, secure, left, buffer, fate, inClear, heardClear, took>>
      <3>1. PICK c \in M!Codes, offers \in M!Offers :
               wire' = Append(wire, [code |-> c, offers |-> offers, inside |-> secure])
        BY <1>11 DEF M!Says
      <3>2. [code |-> c, offers |-> offers, inside |-> secure] \in Replies
        BY DEF Replies, SessionInv, SessionTyped
      <3>3. QED
        BY <1>11, <3>1, <3>2 DEF M!Says, M!settingVars, M!seenVars
    <2>2. /\ wire' \in Seq(Replies) /\ Len(wire') = Len(wire) + 1 /\ Len(wire) \in Nat /\ Len(buffer) \in Nat
      BY <2>1, Adding, LenProperties DEF SessionInv, SessionTyped
    <2>3. Len(wire') + Len(buffer') <= MaxAhead
      BY <2>1, <2>2
    <2>4. secure => \A i \in 1 .. Len(wire') : wire'[i].inside
      BY <2>1, StagesNamed, Adding DEF SessionInv, SessionTyped, ChannelAtStage
    <2>5. SessionTyped' /\ BeforeSession' /\ ClearIsClear' /\ Envelope'
      BY <2>1, <2>2, <2>3, StagesNamed DEF SessionInv, SessionTyped, BeforeSession, ClearIsClear, Envelope
    <2>6. ChannelAtStage'
      BY <2>1, <2>4, StagesNamed DEF SessionInv, ChannelAtStage
    <2>7. QED
      BY <2>5, <2>6 DEF SessionInv
  <1>12. CASE M!GoesAway \/ UNCHANGED M!smtpVars
    <2>1. UNCHANGED <<mode, user, stage, secure, left, wire, buffer, fate, inClear, heardClear, took>>
      BY <1>12 DEF M!GoesAway, M!smtpVars, M!settingVars, M!seenVars
    <2>2. QED
      BY <2>1 DEF SessionInv, SessionTyped, BeforeSession, ChannelAtStage, ClearIsClear, Envelope
  <1>13. QED
    BY <1>1, <1>2, <1>3, <1>4, <1>5, <1>6, <1>7, <1>8, <1>9, <1>10, <1>11, <1>12 DEF M!Next, M!Step

LEMMA SmtpWithin == [Next]_vars => [M!Next]_(M!smtpVars)
  <1> SUFFICES ASSUME [Next]_vars PROVE [M!Next]_(M!smtpVars)
    OBVIOUS
  <1>1. ASSUME UNCHANGED smtp PROVE UNCHANGED M!smtpVars
    BY <1>1 DEF smtp, M!smtpVars
  <1>2. CASE UNCHANGED vars
    BY <1>1, <1>2 DEF vars
  <1>3. CASE Next
    BY <1>1, <1>3 DEF Next, ImportsStep, ScannerStep, LimiterStep, AlertsStep, ApiStep
  <1>4. QED
    BY <1>2, <1>3

LEMMA SmtpRuns == Spec => M!Init /\ [][M!Next]_(M!smtpVars)
  <1>1. Init => M!Init
    BY DEF Init
  <1>2. QED
    BY <1>1, SmtpWithin, PTL DEF Spec

(* With any number of recipients and however many replies come ahead:      *)
(* credentials are written only inside an encrypted session, with STARTTLS *)
(* and implicit TLS so is the submission and every reply that counts, and  *)
(* "delivered" is said exactly when the message was accepted for everyone. *)
THEOREM MailIsHonest == Spec => []SubmissionIsHonest
  <1>1. M!Init => SessionInv
    <2> SUFFICES ASSUME M!Init PROVE SessionInv
      OBVIOUS
    <2>1. /\ mode = "none" /\ user = FALSE /\ stage = "before" /\ secure = FALSE /\ left = Recipients
          /\ wire = <<>> /\ buffer = <<>> /\ fate = "none" /\ inClear = {} /\ heardClear = {} /\ took = FALSE
      BY DEF M!Init
    <2>2. Recipients \in Nat \ {0} /\ MaxAhead \in Nat
      BY ServicesAssumption DEF M!SmtpAssumption
    <2>3. SessionTyped
      <3>1. wire \in Seq(Replies) /\ buffer \in Seq(Replies) /\ Len(wire) = 0 /\ Len(buffer) = 0
        BY <2>1, EmptySeq
      <3>2. left \in 0 .. Recipients /\ Len(wire) + Len(buffer) <= MaxAhead
        BY <2>1, <2>2, <3>1
      <3>3. QED
        BY <2>1, <3>1, <3>2 DEF SessionTyped, Fates
    <2>4. BeforeSession /\ ClearIsClear
      BY <2>1 DEF BeforeSession, ClearIsClear
    <2>5. ChannelAtStage /\ Envelope
      BY <2>1, <2>2, StagesNamed DEF ChannelAtStage, Envelope
    <2>6. QED
      BY <2>3, <2>4, <2>5 DEF SessionInv
  <1>2. SessionInv => SubmissionIsHonest
    BY StagesNamed DEF SessionInv, SessionTyped, ClearIsClear, Envelope, SubmissionIsHonest, Clear,
       M!SubmissionIsHonest, M!TypeOK, Fates
  <1>3. QED
    BY <1>1, <1>2, SessionStep, SmtpRuns, PTL

-----------------------------------------------------------------------------
(* The scanner's dialogue.                                                 *)

ScanTyped ==
    /\ task \in {"none", "scan", "ping"} /\ file \in S!Files /\ fits \in BOOLEAN
    /\ place \in {"idle", "paths", "open", "read", "connect", "connected", "done"}
    /\ peer \in {"none", "open", "ended", "reset"}
    /\ bytes \in Seq(S!Files) /\ written \in Seq(S!Tokens) /\ response \in Seq(S!Tokens)
    /\ disturbed \in 0 .. MaxDisturbances
    /\ place = "done" <=> outcome # "none"

HeardPart ==
    /\ Len(response) <= Len(written)
    /\ \A i \in 1 .. Len(response) : response[i] = written[i]

(* What a call has seen when it has come to its place.                     *)
Placed ==
    /\ task = "none" <=> place = "idle"
    /\ place \in {"paths", "open", "read"} => task = "scan"
    /\ place \in {"open", "read", "connect", "connected"} /\ task = "scan" => fits
    /\ place \in {"connect", "connected"} /\ task = "scan" => bytes = <<"intact", "intact">>

IsTrue(what) ==
    /\ what \in {"clean", "infected"} =>
          /\ fits /\ bytes = <<"intact", "intact">>
          /\ peer = "ended"
          /\ written = << IF what = "clean" THEN "OK" ELSE "FOUND", "NUL" >>
    /\ what = "TRUE" => peer = "ended" /\ written = <<"PONG", "NUL">>
    /\ what = "MALWARE_SCANNER_MALFORMED_RESPONSE" =>
          written \notin {<<"OK", "NUL">>, <<"FOUND", "NUL">>}

ScanInv == ScanTyped /\ HeardPart /\ Placed /\ IsTrue(outcome)

(* A settled call is done; nothing it saw is touched.                      *)
LEMMA SettledIsTrue ==
    ASSUME ScanInv, NEW what, S!Settle(what), what # "none", place # "idle", IsTrue(what)
    PROVE  ScanInv'
  <1>1. /\ outcome' = what /\ place' = "done"
        /\ UNCHANGED <<task, file, bytes, fits, disturbed, written, response, peer>>
    BY DEF S!Settle, S!fileVars, S!wireVars
  <1>2. ScanTyped' /\ HeardPart' /\ Placed'
    BY <1>1 DEF ScanInv, ScanTyped, HeardPart, Placed
  <1>3. IsTrue(outcome)'
    BY <1>1 DEF IsTrue
  <1>4. QED
    BY <1>2, <1>3 DEF ScanInv

(* A step that settles nothing concludes nothing.                          *)
LEMMA StillPending ==
    ASSUME outcome' = "none"
    PROVE  IsTrue(outcome)'
  BY DEF IsTrue

LEMMA WholeIsIntact ==
    ASSUME NEW q \in Seq(S!Files), Len(q) = 2, S!ToSet(q) = {"intact"}
    PROVE  q = <<"intact", "intact">>
  <1>1. q[1] = "intact" /\ q[2] = "intact"
    <2>1. DOMAIN q = 1 .. 2
      BY LenProperties
    <2>2. q[1] \in S!ToSet(q) /\ q[2] \in S!ToSet(q)
      BY <2>1 DEF S!ToSet
    <2>3. QED
      BY <2>2
  <1>2. <<"intact", "intact">> \in Seq(S!Files) /\ Len(<<"intact", "intact">>) = 2
    BY DEF S!Files
  <1>3. QED
    BY <1>1, <1>2, SeqEqual

LEMMA ScanStep ==
    ASSUME ScanInv, [S!Next]_(S!scannerVars)
    PROVE  ScanInv'
  <1> USE ServicesAssumption DEF S!ScannerAssumption
  <1>0. Len(response) \in Nat /\ Len(written) \in Nat /\ Len(bytes) \in Nat
    BY LenProperties DEF ScanInv, ScanTyped
  <1>1. CASE S!Scan \/ S!Ping
    <2>1. /\ task = "none" /\ UNCHANGED <<bytes, disturbed, outcome, written, response, peer>>
          /\ \/ task' = "scan" /\ place' = "paths" /\ file' \in S!Files /\ fits' \in BOOLEAN
             \/ task' = "ping" /\ place' = "connect" /\ UNCHANGED <<file, fits>>
      BY <1>1 DEF S!Scan, S!Ping, S!fileVars, S!wireVars
    <2>2. outcome = "none"
      BY <2>1 DEF ScanInv, ScanTyped, Placed
    <2>3. ScanTyped' /\ HeardPart' /\ Placed'
      BY <2>1, <2>2 DEF ScanInv, ScanTyped, HeardPart, Placed
    <2>4. QED
      BY <2>1, <2>2, <2>3, StillPending DEF ScanInv
  <1>2. ASSUME NEW what \in {"EVIDENCE_INTEGRITY_MISMATCH", "EVIDENCE_STORAGE_UNAVAILABLE", "STORAGE_PATH_INVALID",
                             "FALSE", "MALWARE_SCANNER_UNAVAILABLE", "MALWARE_SCAN_TIMEOUT"},
               S!Settle(what), place # "idle"
        PROVE  ScanInv'
    BY <1>2, SettledIsTrue DEF IsTrue
  <1>3. ASSUME outcome = "none", UNCHANGED <<task, file, fits, disturbed, outcome, written, response, peer>>,
               bytes' \in Seq(S!Files), place' \in {"open", "read", "connect"}, Placed'
        PROVE  ScanInv'
    BY <1>3, StillPending DEF ScanInv, ScanTyped, HeardPart
  <1>4. CASE S!ResolvePaths \/ S!Open
    <2>1. CASE \E what \in {"EVIDENCE_INTEGRITY_MISMATCH", "EVIDENCE_STORAGE_UNAVAILABLE", "STORAGE_PATH_INVALID"} :
                  S!Settle(what)
      BY <1>2, <1>4, <2>1 DEF S!ResolvePaths, S!Open, S!Go
    <2>2. CASE /\ outcome = "none" /\ UNCHANGED <<task, file, bytes, fits, disturbed, outcome, written, response, peer>>
               /\ \/ place = "paths" /\ place' = "open" /\ fits
                  \/ place = "open" /\ place' = "read"
      <3>1. Placed' /\ bytes' \in Seq(S!Files) /\ place' \in {"open", "read", "connect"}
        BY <2>2 DEF ScanInv, ScanTyped, Placed
      <3>2. QED
        BY <1>3, <2>2, <3>1
    <2>3. QED
      BY <1>4, <2>1, <2>2 DEF S!ResolvePaths, S!Open, S!Go, S!Pending, S!fileVars, S!wireVars
  <1>5. CASE S!ReadPiece
    <2>1. /\ place = "read" /\ outcome = "none" /\ bytes' = Append(bytes, file)
          /\ UNCHANGED <<task, place, file, fits, disturbed, outcome, written, response, peer>>
      BY <1>5 DEF S!ReadPiece, S!Pending, S!wireVars
    <2>2. bytes' \in Seq(S!Files) /\ Placed'
      BY <2>1, AppendProperties DEF ScanInv, ScanTyped, Placed
    <2>3. QED
      BY <1>3, <2>1, <2>2
  <1>6. CASE S!Check
    <2>1. CASE S!Settle("EVIDENCE_INTEGRITY_MISMATCH")
      BY <1>2, <1>6, <2>1 DEF S!Check
    <2>2. CASE /\ S!ToSet(bytes) = {"intact"} /\ place' = "connect"
               /\ UNCHANGED <<task, file, bytes, fits, disturbed, outcome, written, response, peer>>
      <3>1. place = "read" /\ outcome = "none" /\ Len(bytes) = 2
        BY <1>6 DEF S!Check, S!Pending
      <3>2. bytes = <<"intact", "intact">>
        BY <2>2, <3>1, WholeIsIntact DEF ScanInv, ScanTyped
      <3>3. Placed' /\ bytes' \in Seq(S!Files)
        BY <2>2, <3>1, <3>2 DEF ScanInv, ScanTyped, Placed
      <3>4. QED
        BY <1>3, <2>2, <3>1, <3>3
    <2>3. QED
      BY <1>6, <2>1, <2>2 DEF S!Check, S!fileVars, S!wireVars
  <1>7. CASE S!Connect
    <2>1. place = "connect" /\ outcome = "none"
      BY <1>7 DEF S!Connect, S!Pending
    <2>2. CASE S!Settle(S!Refused)
      <3>1. S!Refused \in {"FALSE", "MALWARE_SCANNER_UNAVAILABLE"}
        BY DEF S!Refused
      <3>2. QED
        BY <1>2, <2>1, <2>2, <3>1
    <2>3. CASE place' = "connected" /\ peer' = "open"
               /\ UNCHANGED <<task, written, response, outcome, file, bytes, fits, disturbed>>
      <3>1. ScanTyped' /\ HeardPart' /\ Placed'
        BY <2>1, <2>3 DEF ScanInv, ScanTyped, HeardPart, Placed
      <3>2. QED
        BY <2>1, <2>3, <3>1, StillPending DEF ScanInv
    <2>4. QED
      BY <1>7, <2>2, <2>3 DEF S!Connect, S!fileVars
  <1>8. CASE S!Data
    <2>1. PICK n \in Len(response) + 1 .. Len(written) :
             LET heard == SubSeq(written, 1, n)
             IN  /\ S!Heard(heard)
                 /\ IF S!TooLong(heard)
                    THEN /\ outcome' = IF task = "ping" THEN "FALSE" ELSE "MALWARE_SCANNER_MALFORMED_RESPONSE"
                         /\ place' = "done"
                    ELSE UNCHANGED <<outcome, place>>
      BY <1>8 DEF S!Data
    <2>2. /\ response' = SubSeq(written, 1, n) /\ place = "connected" /\ outcome = "none"
          /\ UNCHANGED <<task, written, peer, file, bytes, fits, disturbed>>
      BY <1>8, <2>1 DEF S!Heard, S!Data, S!Waiting, S!Pending, S!fileVars
    <2>3. /\ response' \in Seq(S!Tokens) /\ Len(response') = n /\ n <= Len(written)
          /\ \A i \in 1 .. n : response'[i] = written[i]
      BY <1>0, <2>1, <2>2, SubSeqProperties DEF ScanInv, ScanTyped
    <2>4. HeardPart'
      BY <2>2, <2>3 DEF HeardPart
    <2>5. \/ outcome' = outcome /\ place' = place
          \/ /\ place' = "done" /\ outcome' \in {"FALSE", "MALWARE_SCANNER_MALFORMED_RESPONSE"}
             /\ outcome' = "FALSE" \/ n > MaxResponse
      BY <2>1, <2>2, <2>3 DEF S!TooLong
    <2>6. ScanTyped' /\ Placed'
      BY <2>2, <2>3, <2>5 DEF ScanInv, ScanTyped, Placed
    <2>7. IsTrue(outcome)'
      <3>1. n > MaxResponse => Len(written) > 2
        BY <1>0, <2>1, <2>3
      <3>2. written \in {<<"OK", "NUL">>, <<"FOUND", "NUL">>} => Len(written) = 2
        OBVIOUS
      <3>3. QED
        BY <2>2, <2>5, <3>1, <3>2 DEF IsTrue
    <2>8. QED
      BY <2>4, <2>6, <2>7 DEF ScanInv
  <1>9. CASE S!End
    <2>1. /\ place = "connected" /\ outcome = "none" /\ peer = "ended" /\ response = written
          /\ S!Settle(S!Judged(response))
      BY <1>9 DEF S!End, S!Waiting, S!Pending
    <2>2. PICK what : what = S!Judged(response)
      OBVIOUS
    <2>3. \/ task = "ping" /\ what = "TRUE" /\ response = <<"PONG", "NUL">>
          \/ task = "ping" /\ what = "FALSE"
          \/ task = "scan" /\ what = "clean" /\ response = <<"OK", "NUL">>
          \/ task = "scan" /\ what = "infected" /\ response = <<"FOUND", "NUL">>
          \/ /\ what = "MALWARE_SCANNER_MALFORMED_RESPONSE"
             /\ response \notin {<<"OK", "NUL">>, <<"FOUND", "NUL">>}
      <3>1. task \in {"ping", "scan"}
        BY <2>1 DEF ScanInv, ScanTyped, Placed
      <3>2. QED
        BY <2>2, <3>1 DEF S!Judged
    <2>4. IsTrue(what) /\ what # "none"
      BY <2>1, <2>3 DEF IsTrue, ScanInv, Placed
    <2>5. QED
      BY <2>1, <2>2, <2>4, SettledIsTrue
  <1>10. CASE S!Error \/ S!Timeout
    <2>1. \E what \in {"FALSE", "MALWARE_SCANNER_UNAVAILABLE", "MALWARE_SCAN_TIMEOUT"} :
             S!Settle(what) /\ place # "idle"
      BY <1>10 DEF S!Error, S!Timeout, S!Refused, S!TimedOut, S!Waiting
    <2>2. QED
      BY <1>2, <2>1
  <1>11. CASE S!Disturb
    <2>1. /\ outcome = "none" /\ disturbed < MaxDisturbances /\ disturbed' = disturbed + 1 /\ file' \in S!Files
          /\ UNCHANGED <<task, place, bytes, fits, outcome, written, response, peer>>
      BY <1>11 DEF S!Disturb, S!Pending, S!wireVars, S!Files
    <2>2. ScanTyped' /\ HeardPart' /\ Placed'
      BY <2>1 DEF ScanInv, ScanTyped, HeardPart, Placed
    <2>3. QED
      BY <2>1, <2>2, StillPending DEF ScanInv
  <1>12. CASE S!Write
    <2>1. PICK t \in S!Tokens :
             /\ written' = Append(written, t) /\ outcome = "none"
             /\ UNCHANGED <<task, place, response, peer, outcome, file, bytes, fits, disturbed>>
      BY <1>12 DEF S!Write, S!Waiting, S!Pending, S!fileVars
    <2>2. /\ written' \in Seq(S!Tokens) /\ Len(written') = Len(written) + 1
          /\ \A i \in 1 .. Len(written) : written'[i] = written[i]
      BY <2>1, AppendProperties DEF ScanInv, ScanTyped
    <2>3. HeardPart'
      BY <1>0, <2>1, <2>2 DEF ScanInv, HeardPart
    <2>4. ScanTyped' /\ Placed'
      BY <2>1, <2>2 DEF ScanInv, ScanTyped, Placed
    <2>5. QED
      BY <2>1, <2>3, <2>4, StillPending DEF ScanInv
  <1>13. CASE S!Hang
    <2>1. /\ outcome = "none" /\ peer' \in {"ended", "reset"}
          /\ UNCHANGED <<task, place, written, response, outcome, file, bytes, fits, disturbed>>
      BY <1>13 DEF S!Hang, S!Waiting, S!Pending, S!fileVars
    <2>2. ScanTyped' /\ HeardPart' /\ Placed'
      BY <2>1 DEF ScanInv, ScanTyped, HeardPart, Placed
    <2>3. QED
      BY <2>1, <2>2, StillPending DEF ScanInv
  <1>14. CASE UNCHANGED S!scannerVars
    BY <1>14 DEF S!scannerVars, S!fileVars, S!wireVars, ScanInv, ScanTyped, HeardPart, Placed, IsTrue
  <1>15. QED
    BY <1>1, <1>4, <1>5, <1>6, <1>7, <1>8, <1>9, <1>10, <1>11, <1>12, <1>13, <1>14 DEF S!Next, S!Step

LEMMA ScannerWithin == [Next]_vars => [S!Next]_(S!scannerVars)
  <1> SUFFICES ASSUME [Next]_vars PROVE [S!Next]_(S!scannerVars)
    OBVIOUS
  <1>1. ASSUME UNCHANGED scanner PROVE UNCHANGED S!scannerVars
    BY <1>1 DEF scanner, S!scannerVars, S!fileVars, S!wireVars
  <1>2. CASE UNCHANGED vars
    BY <1>1, <1>2 DEF vars
  <1>3. CASE Next
    BY <1>1, <1>3 DEF Next, ImportsStep, LimiterStep, SmtpStep, AlertsStep, ApiStep
  <1>4. QED
    BY <1>2, <1>3

LEMMA ScannerRuns == Spec => S!Init /\ [][S!Next]_(S!scannerVars)
  <1>1. Init => S!Init
    BY DEF Init
  <1>2. QED
    BY <1>1, ScannerWithin, PTL DEF Spec

(* Whatever the peer writes, in whatever pieces, and whoever changes the   *)
(* file under the reader: a verdict is about the recorded bytes and is all *)
(* the scanner said up to its end of the connection, a probe that succeeds *)
(* heard PONG, and no proper verdict is called malformed.                  *)
THEOREM ScansAreJudgedWhole == Spec => []VerdictIsTheWholeAnswer
  <1>1. S!Init => ScanInv
    <2> SUFFICES ASSUME S!Init PROVE ScanInv
      OBVIOUS
    <2>1. /\ written \in Seq(S!Tokens) /\ response \in Seq(S!Tokens) /\ bytes \in Seq(S!Files)
          /\ Len(written) = 0 /\ Len(response) = 0
      BY EmptySeq DEF S!Init
    <2>2. QED
      BY <2>1, ServicesAssumption DEF S!ScannerAssumption, S!Init, ScanInv, ScanTyped, HeardPart, Placed,
         IsTrue, S!Files
  <1>2. ScanInv => VerdictIsTheWholeAnswer
    <2> SUFFICES ASSUME ScanInv PROVE VerdictIsTheWholeAnswer
      OBVIOUS
    <2>1. Len(response) \in Nat /\ Len(written) \in Nat
      BY LenProperties DEF ScanInv, ScanTyped
    <2>2. SubSeq(response, 1, Len(response)) = SubSeq(written, 1, Len(response))
      <3>1. /\ SubSeq(response, 1, Len(response)) = response
            /\ SubSeq(written, 1, Len(response)) \in Seq(S!Tokens)
            /\ Len(SubSeq(written, 1, Len(response))) = Len(response)
            /\ \A i \in 1 .. Len(response) : SubSeq(written, 1, Len(response))[i] = written[i]
        BY <2>1, SubSeqFull, SubSeqProperties DEF ScanInv, ScanTyped, HeardPart
      <3>2. QED
        BY <3>1, SeqEqual DEF ScanInv, ScanTyped, HeardPart
    <2>3. S!IsPrefix(response, written)
      BY <2>2 DEF S!IsPrefix, ScanInv, HeardPart
    <2>4. QED
      BY <2>3 DEF ScanInv, ScanTyped, IsTrue, VerdictIsTheWholeAnswer, S!VerdictIsTheWholeAnswer, S!TypeOK
  <1>3. QED
    BY <1>1, <1>2, ScanStep, ScannerRuns, PTL

-----------------------------------------------------------------------------
(* The rate limiter, for any rules and callers.                            *)

ChargesMade == [rule : DOMAIN Rules, at : 0 .. MaxTime, count : Nat \ {0}]
RequestsMade ==
    [ids : Callers, charges : Seq(ChargesMade), reading : 0 .. R!Unread,
     verdict : {"none", "passed", "refused"}]

Made(q) == {q.charges[k] : k \in DOMAIN q.charges}
Key(q, c) == <<c.rule, q.ids[c.rule], R!Window(c.rule, c.at)>>
Counters(rs, b) == {r \in DOMAIN rs : \E c \in Made(rs[r]) : Key(rs[r], c) = b}

(* No two requests were given the same number by one bucket, unless it     *)
(* began again, as those of lt did.                                        *)
Numbered(rs, lt) ==
    \A r, s \in DOMAIN rs : \A c \in Made(rs[r]), d \in Made(rs[s]) :
        /\ Key(rs[r], c) = Key(rs[s], d) /\ c.count = d.count
        /\ Key(rs[r], c) \notin lt
        => r = s

(* A number is at most the number of those the bucket counted ...          *)
Counted(rs) ==
    \A r \in DOMAIN rs : \A c \in Made(rs[r]) : c.count <= Cardinality(Counters(rs, Key(rs[r], c)))

(* ... and a bucket that is kept has counted them all ...                  *)
Kept(rs, bs, lt) ==
    /\ \A b \in DOMAIN bs : bs[b] \in Nat \ {0} /\ bs[b] <= Cardinality(Counters(rs, b))
    /\ \A r \in DOMAIN rs : \A c \in Made(rs[r]) :
          Key(rs[r], c) \in DOMAIN bs \ lt => c.count <= bs[Key(rs[r], c)]

(* ... and one that is not is of a window whose hour is over.              *)
Gone(rs, bs, now) ==
    \A r \in DOMAIN rs : \A c \in Made(rs[r]) :
        \/ Key(rs[r], c) \in DOMAIN bs
        \/ Key(rs[r], c)[3] * Rules[c.rule].window + Retain < now

Underway(q, now) ==
    /\ q.reading # R!Unread =>
          /\ R!Due(q) # {} /\ q.verdict = "none"
          /\ q.reading <= now
    /\ q.verdict # "none" => q.verdict = IF R!Exceeds(q) THEN "refused" ELSE "passed"

Ledger(rs, bs, lt, now) == Numbered(rs, lt) /\ Counted(rs) /\ Kept(rs, bs, lt) /\ Gone(rs, bs, now)

LimiterInv ==
    /\ time \in 0 .. MaxTime /\ requests \in Seq(RequestsMade)
    /\ \A r \in DOMAIN requests : Underway(requests[r], time)
    /\ Ledger(requests, buckets, late, time)

(* The limiter's own instance of Cardinality is the usual one.             *)
LEMMA SameCardinality ==
    ASSUME NEW set
    PROVE  R!Cardinality(set) = Cardinality(set)
  BY Zenon DEF R!Cardinality, Cardinality

(* Integer division, the only facts about it that are used below.          *)
LEMMA WindowBegins ==
    ASSUME NEW t \in Nat, NEW d \in Nat, d > 0
    PROVE  /\ t \div d \in Nat
           /\ (t \div d) * d <= t /\ t < (t \div d) * d + d
  OBVIOUS

LEMMA FewerTimes ==
    ASSUME NEW a \in Nat, NEW b \in Nat, NEW d \in Nat, d > 0, a * d < b * d
    PROVE  a < b
  <1>1. SUFFICES ASSUME b <= a PROVE FALSE
    OBVIOUS
  <1>2. PICK e \in Nat : a = b + e
    BY <1>1
  <1>3. a * d = b * d + e * d
    BY <1>2
  <1>4. e * d \in Nat /\ b * d \in Nat
    OBVIOUS
  <1>5. QED
    BY <1>3, <1>4

(* An interval as long as a window meets two windows at most.              *)
LEMMA TwoWindows ==
    ASSUME NEW t \in Nat, NEW u \in Nat, NEW d \in Nat, d > 0, t <= u, u <= t + d - 1
    PROVE  u \div d \in {t \div d, t \div d + 1}
  <1> DEFINE a == t \div d
             b == u \div d
  <1>1. /\ a \in Nat /\ a * d <= t /\ t < a * d + d
        /\ b \in Nat /\ b * d <= u /\ u < b * d + d
    BY WindowBegins
  <1> HIDE DEF a, b
  <1>2. (b + 1) * d = b * d + d /\ (a + 2) * d = a * d + d + d
    BY <1>1
  <1>3. b * d < (a + 2) * d /\ a * d < (b + 1) * d
    <2>1. a * d \in Nat /\ b * d \in Nat
      BY <1>1
    <2>2. QED
      BY <1>1, <1>2, <2>1
  <1>4. b < a + 2 /\ a < b + 1
    BY <1>1, <1>3, FewerTimes
  <1>5. b \in {a, a + 1}
    BY <1>1, <1>4
  <1>6. QED
    BY <1>5 DEF a, b

(* A further charge is one more of those made.                             *)
LEMMA OneMore ==
    ASSUME NEW q, NEW c \in ChargesMade, q.charges \in Seq(ChargesMade),
           NEW p, p.charges = Append(q.charges, c)
    PROVE  /\ p.charges \in Seq(ChargesMade)
           /\ Made(p) = Made(q) \cup {c}
  <1>1. /\ p.charges \in Seq(ChargesMade) /\ Len(q.charges) \in Nat
        /\ DOMAIN q.charges = 1 .. Len(q.charges)
        /\ DOMAIN p.charges = 1 .. Len(q.charges) + 1
        /\ p.charges[Len(q.charges) + 1] = c
        /\ \A k \in 1 .. Len(q.charges) : p.charges[k] = q.charges[k]
    BY AppendProperties, LenProperties
  <1>2. ASSUME NEW x PROVE x \in Made(p) <=> x \in Made(q) \/ x = c
    BY <1>1 DEF Made
  <1>3. QED
    BY <1>1, <1>2

LEMMA MadeAreCharges ==
    ASSUME NEW q \in RequestsMade, NEW c \in Made(q)
    PROVE  /\ c \in ChargesMade /\ c.rule \in DOMAIN Rules /\ c.at \in 0 .. MaxTime /\ c.count \in Nat \ {0}
           /\ q.charges \in Seq(ChargesMade)
  <1>1. q.charges \in Seq(ChargesMade)
    BY DEF RequestsMade
  <1>2. c \in ChargesMade
    BY <1>1, LenProperties DEF Made
  <1>3. QED
    BY <1>1, <1>2 DEF ChargesMade

LEMMA CountersFinite ==
    ASSUME NEW rs \in Seq(RequestsMade), NEW b
    PROVE  IsFiniteSet(Counters(rs, b)) /\ Cardinality(Counters(rs, b)) \in Nat
  <1>1. DOMAIN rs = 1 .. Len(rs) /\ Len(rs) \in Nat
    BY LenProperties
  <1>2. IsFiniteSet(DOMAIN rs)
    BY <1>1, FS_Interval
  <1>3. Counters(rs, b) \in SUBSET DOMAIN rs
    BY DEF Counters
  <1>4. QED
    BY <1>2, <1>3, FS_Subset, FS_CardinalityType

(* What is due is known by the charges that were made.                     *)
LEMMA DueByMade ==
    ASSUME NEW q
    PROVE  R!Due(q) = {i \in DOMAIN Rules : q.ids[i] # Unknown /\ \A c \in Made(q) : c.rule < i}
  BY DEF R!Due, Made

(* The turn of the next rule leaves ids and charges alone.                 *)
LEMMA TurnPasses ==
    ASSUME NEW q \in RequestsMade, q.reading = R!Unread, q.verdict = "none", time \in 0 .. MaxTime,
           MaxTime \in Nat
    PROVE  /\ R!Onward(q) \in RequestsMade
           /\ R!Onward(q).ids = q.ids /\ R!Onward(q).charges = q.charges
           /\ Underway(R!Onward(q), time)
  <1>1. CASE R!Due(q) # {}
    <2>1. R!Onward(q) = [q EXCEPT !.reading = time]
      BY <1>1 DEF R!Onward
    <2>2. /\ R!Onward(q) \in RequestsMade
          /\ R!Onward(q).ids = q.ids /\ R!Onward(q).charges = q.charges
          /\ R!Onward(q).reading = time /\ R!Onward(q).verdict = "none"
      BY <2>1 DEF RequestsMade, R!Unread
    <2>3. R!Due(R!Onward(q)) = R!Due(q)
      BY <2>2 DEF R!Due
    <2>4. QED
      BY <1>1, <2>2, <2>3 DEF Underway
  <1>2. CASE R!Due(q) = {}
    <2> DEFINE v == IF R!Exceeds(q) THEN "refused" ELSE "passed"
    <2>1. R!Onward(q) = [q EXCEPT !.verdict = v]
      BY <1>2 DEF R!Onward
    <2>2. /\ R!Onward(q) \in RequestsMade
          /\ R!Onward(q).ids = q.ids /\ R!Onward(q).charges = q.charges
          /\ R!Onward(q).reading = R!Unread /\ R!Onward(q).verdict = v
      BY <2>1 DEF RequestsMade
    <2>3. R!Exceeds(R!Onward(q)) <=> R!Exceeds(q)
      BY <2>2 DEF R!Exceeds
    <2>4. QED
      BY <2>2, <2>3 DEF Underway
  <1>3. QED
    BY <1>1, <1>2

(* Requests may come and take turns: the ledger is about charges.          *)
LEMMA LedgerOfCharges ==
    ASSUME NEW rs, NEW ss, NEW bs, NEW lt, NEW now,
           DOMAIN rs \subseteq DOMAIN ss,
           \A r \in DOMAIN rs : ss[r].ids = rs[r].ids /\ ss[r].charges = rs[r].charges,
           \A r \in DOMAIN ss \ DOMAIN rs : Made(ss[r]) = {},
           Ledger(rs, bs, lt, now)
    PROVE  Ledger(ss, bs, lt, now)
  <1>1. ASSUME NEW r \in DOMAIN ss, NEW c \in Made(ss[r])
        PROVE  r \in DOMAIN rs /\ c \in Made(rs[r]) /\ Key(ss[r], c) = Key(rs[r], c)
    <2>1. r \in DOMAIN rs
      OBVIOUS
    <2>2. QED
      BY <2>1 DEF Made, Key
  <1>2. ASSUME NEW r \in DOMAIN rs, NEW c \in Made(rs[r])
        PROVE  r \in DOMAIN ss /\ c \in Made(ss[r]) /\ Key(ss[r], c) = Key(rs[r], c)
    BY DEF Made, Key
  <1>3. ASSUME NEW b PROVE Counters(ss, b) = Counters(rs, b)
    BY <1>1, <1>2 DEF Counters
  <1>4. Numbered(ss, lt)
    BY <1>1 DEF Numbered, Ledger
  <1>5. Counted(ss)
    BY <1>1, <1>3 DEF Counted, Ledger
  <1>6. Kept(ss, bs, lt)
    BY <1>1, <1>3 DEF Kept, Ledger
  <1>7. Gone(ss, bs, now)
    BY <1>1 DEF Gone, Ledger
  <1>8. QED
    BY <1>4, <1>5, <1>6, <1>7 DEF Ledger

(* Request r of rs makes charge n of bucket b, which may have gone when    *)
(* its hour was over: then ss, cs and kt hold.                             *)
Charging(rs, ss, bs, cs, lt, kt, now, r, n, b) ==
    /\ rs \in Seq(RequestsMade) /\ ss \in Seq(RequestsMade) /\ r \in DOMAIN rs /\ n \in ChargesMade
    /\ DOMAIN ss = DOMAIN rs /\ \A s \in DOMAIN rs \ {r} : ss[s] = rs[s]
    /\ ss[r].ids = rs[r].ids /\ Made(ss[r]) = Made(rs[r]) \cup {n}
    /\ \A d \in Made(rs[r]) : d.rule < n.rule
    /\ b = Key(rs[r], n) /\ lt \subseteq kt
    /\ b[3] * Rules[n.rule].window + Retain < now => b \in DOMAIN bs \cup kt
    /\ n.count = IF b \in DOMAIN bs THEN bs[b] + 1 ELSE 1
    /\ cs = [x \in DOMAIN bs \cup {b} |-> IF x = b THEN n.count ELSE bs[x]]

(* A charge gets a number of its own, one more than the bucket counted.    *)
LEMMA LedgerCharged ==
    ASSUME NEW rs, NEW ss, NEW bs, NEW cs, NEW lt, NEW kt, NEW now, NEW r, NEW n, NEW b,
           Charging(rs, ss, bs, cs, lt, kt, now, r, n, b), DOMAIN Rules \subseteq Nat,
           Ledger(rs, bs, lt, now)
    PROVE  Ledger(ss, cs, kt, now)
  <1> USE DEF Charging
  <1>1. ASSUME NEW s \in DOMAIN ss, NEW d \in Made(ss[s])
        PROVE  /\ s \in DOMAIN rs
               /\ \/ d \in Made(rs[s]) /\ Key(ss[s], d) = Key(rs[s], d)
                  \/ s = r /\ d = n /\ Key(ss[s], d) = b
    <2>1. CASE s = r
      BY <2>1 DEF Key
    <2>2. CASE s # r
      BY <2>2
    <2>3. QED
      BY <2>1, <2>2
  <1>2. ASSUME NEW s \in DOMAIN rs, NEW d \in Made(rs[s])
        PROVE  /\ s \in DOMAIN ss /\ d \in Made(ss[s]) /\ Key(ss[s], d) = Key(rs[s], d)
               /\ d.count \in Nat \ {0}
    <2>1. d.count \in Nat \ {0}
      BY ElementOfSeq, LenProperties, MadeAreCharges
    <2>2. CASE s = r
      BY <2>1, <2>2 DEF Key
    <2>3. CASE s # r
      BY <2>1, <2>3
    <2>4. QED
      BY <2>2, <2>3
  <1>3. n \in Made(ss[r]) /\ Key(ss[r], n) = b /\ n.count \in Nat \ {0}
    BY DEF Key, ChargesMade
  <1>4. ASSUME NEW x PROVE Counters(ss, x) = IF x = b THEN Counters(rs, b) \cup {r} ELSE Counters(rs, x)
    <2>1. ASSUME NEW s PROVE s \in Counters(ss, x) <=> s \in Counters(rs, x) \/ (s = r /\ x = b)
      BY <1>1, <1>2, <1>3 DEF Counters
    <2>2. CASE x = b
      BY <2>1, <2>2
    <2>3. CASE x # b
      BY <2>1, <2>3
    <2>4. QED
      BY <2>2, <2>3
  <1>5. r \notin Counters(rs, b)
    <2>1. ASSUME NEW d \in Made(rs[r]), Key(rs[r], d) = b PROVE FALSE
      <3>1. d.rule = n.rule
        BY <2>1 DEF Key
      <3>2. d.rule < n.rule /\ n.rule \in Nat
        BY DEF ChargesMade
      <3>3. QED
        BY <3>1, <3>2
    <2>2. QED
      BY <2>1 DEF Counters
  <1>6. /\ Cardinality(Counters(ss, b)) = Cardinality(Counters(rs, b)) + 1
        /\ Cardinality(Counters(rs, b)) \in Nat
    BY <1>4, <1>5, CountersFinite, FS_AddElement
  (* The number is new to the bucket, unless it began again, and counts no *)
  (* more than it did.                                                     *)
  <1>7. /\ n.count <= Cardinality(Counters(ss, b))
        /\ b \notin kt =>
              \A s \in DOMAIN rs : \A d \in Made(rs[s]) : Key(rs[s], d) = b => d.count < n.count
    <2>1. CASE b \in DOMAIN bs
      <3>1. bs[b] \in Nat /\ bs[b] <= Cardinality(Counters(rs, b)) /\ n.count = bs[b] + 1
        BY <2>1 DEF Ledger, Kept
      <3>2. ASSUME NEW s \in DOMAIN rs, NEW d \in Made(rs[s]), Key(rs[s], d) = b, b \notin kt
            PROVE  d.count <= bs[b] /\ d.count \in Nat
        BY <1>2, <2>1, <3>2 DEF Ledger, Kept
      <3>3. QED
        BY <1>6, <3>1, <3>2
    <2>2. CASE b \notin DOMAIN bs
      <3>1. ASSUME NEW s \in DOMAIN rs, NEW d \in Made(rs[s]), Key(rs[s], d) = b, b \notin kt
            PROVE  FALSE
        <4>1. d.rule = n.rule
          BY <3>1 DEF Key
        <4>2. QED
          BY <2>2, <3>1, <4>1 DEF Ledger, Gone
      <3>2. QED
        BY <1>6, <2>2, <3>1
    <2>3. QED
      BY <2>1, <2>2
  <1>8. Numbered(ss, kt)
    <2> SUFFICES ASSUME NEW s \in DOMAIN ss, NEW t \in DOMAIN ss, NEW c \in Made(ss[s]), NEW d \in Made(ss[t]),
                        Key(ss[s], c) = Key(ss[t], d), c.count = d.count, Key(ss[s], c) \notin kt
                 PROVE  s = t
      BY DEF Numbered
    <2>1. CASE c \in Made(rs[s]) /\ Key(ss[s], c) = Key(rs[s], c) /\ d \in Made(rs[t]) /\ Key(ss[t], d) = Key(rs[t], d)
      <3>1. Numbered(rs, lt) /\ s \in DOMAIN rs /\ t \in DOMAIN rs
        BY DEF Ledger
      <3>2. Key(rs[s], c) = Key(rs[t], d)
        BY <2>1
      <3>3. QED
        BY <2>1, <3>1, <3>2 DEF Numbered
    <2>2. CASE s = r /\ c = n /\ Key(ss[s], c) = b /\ d \in Made(rs[t]) /\ Key(ss[t], d) = Key(rs[t], d)
      <3>1. d.count < n.count /\ d.count \in Nat
        BY <1>1, <1>2, <1>7, <2>2
      <3>2. QED
        BY <1>3, <2>2, <3>1
    <2>3. CASE t = r /\ d = n /\ Key(ss[t], d) = b /\ c \in Made(rs[s]) /\ Key(ss[s], c) = Key(rs[s], c)
      <3>1. c.count < n.count /\ c.count \in Nat
        BY <1>1, <1>2, <1>7, <2>3
      <3>2. QED
        BY <1>3, <2>3, <3>1
    <2>4. QED
      BY <1>1, <2>1, <2>2, <2>3
  <1>9. Counted(ss)
    <2> SUFFICES ASSUME NEW s \in DOMAIN ss, NEW d \in Made(ss[s])
                 PROVE  d.count <= Cardinality(Counters(ss, Key(ss[s], d)))
      BY DEF Counted
    <2>1. CASE s = r /\ d = n /\ Key(ss[s], d) = b
      BY <1>7, <2>1
    <2>2. CASE d \in Made(rs[s]) /\ Key(ss[s], d) = Key(rs[s], d)
      <3>1. d.count <= Cardinality(Counters(rs, Key(rs[s], d))) /\ d.count \in Nat
        BY <1>1, <1>2, <2>2 DEF Ledger, Counted
      <3>2. Cardinality(Counters(rs, Key(rs[s], d))) <= Cardinality(Counters(ss, Key(rs[s], d)))
        <4>1. CASE Key(rs[s], d) = b
          BY <1>6, <4>1
        <4>2. CASE Key(rs[s], d) # b
          BY <1>4, <4>2, CountersFinite
        <4>3. QED
          BY <4>1, <4>2
      <3>3. QED
        BY <2>2, <3>1, <3>2, CountersFinite
    <2>3. QED
      BY <1>1, <2>1, <2>2
  <1>10. Kept(ss, cs, kt)
    <2>1. /\ DOMAIN cs = DOMAIN bs \cup {b} /\ cs[b] = n.count
          /\ \A x \in DOMAIN bs \ {b} : cs[x] = bs[x]
      OBVIOUS
    <2>2. ASSUME NEW x \in DOMAIN cs
          PROVE  cs[x] \in Nat \ {0} /\ cs[x] <= Cardinality(Counters(ss, x))
      <3>1. CASE x = b
        BY <1>3, <1>7, <2>1, <3>1
      <3>2. CASE x # b
        BY <1>4, <2>1, <3>2 DEF Ledger, Kept
      <3>3. QED
        BY <3>1, <3>2
    <2>3. ASSUME NEW s \in DOMAIN ss, NEW d \in Made(ss[s]), Key(ss[s], d) \in DOMAIN cs \ kt
          PROVE  d.count <= cs[Key(ss[s], d)]
      <3>1. CASE Key(ss[s], d) = b
        <4>1. CASE d \in Made(rs[s]) /\ Key(rs[s], d) = b
          <5>1. b \notin kt
            BY <2>3, <3>1
          <5>2. d.count < n.count /\ d.count \in Nat /\ n.count \in Nat
            BY <1>1, <1>2, <1>3, <1>7, <4>1, <5>1
          <5>3. QED
            BY <2>1, <3>1, <5>2
        <4>2. CASE d = n
          BY <1>3, <2>1, <3>1, <4>2
        <4>3. QED
          BY <1>1, <3>1, <4>1, <4>2
      <3>2. CASE Key(ss[s], d) # b
        BY <1>1, <2>1, <2>3, <3>2 DEF Ledger, Kept
      <3>3. QED
        BY <3>1, <3>2
    <2>4. QED
      BY <2>2, <2>3 DEF Kept
  <1>11. Gone(ss, cs, now)
    <2>1. DOMAIN cs = DOMAIN bs \cup {b}
      OBVIOUS
    <2>2. QED
      BY <1>1, <2>1 DEF Ledger, Gone
  <1>12. QED
    BY <1>8, <1>9, <1>10, <1>11 DEF Ledger

LEMMA RuleFacts ==
    ASSUME R!RateLimitAssumption
    PROVE  /\ DOMAIN Rules \subseteq Nat
           /\ \A i \in DOMAIN Rules :
                /\ Rules[i].window \in Nat /\ Rules[i].window > 0 /\ Rules[i].max \in Nat
           /\ Retain \in Nat /\ MaxTime \in Nat
  <1>1. Rules \in Seq([window : Nat, max : Nat])
    BY DEF R!RateLimitAssumption
  <1>2. DOMAIN Rules = 1 .. Len(Rules) /\ Len(Rules) \in Nat /\ Rules \in [1 .. Len(Rules) -> [window : Nat, max : Nat]]
    BY <1>1, LenProperties
  <1>3. QED
    BY <1>2 DEF R!RateLimitAssumption

LEMMA KeysHaveTimes ==
    ASSUME R!RateLimitAssumption, NEW q \in RequestsMade, NEW c \in Made(q)
    PROVE  /\ Key(q, c)[1] = c.rule /\ Key(q, c)[3] = R!Window(c.rule, c.at)
           /\ Key(q, c)[3] * Rules[c.rule].window \in Nat
  <1>1. c.at \in Nat /\ c.rule \in DOMAIN Rules
    BY MadeAreCharges, RuleFacts
  <1>2. Rules[c.rule].window \in Nat /\ Rules[c.rule].window > 0
    BY <1>1, RuleFacts
  <1>3. R!Window(c.rule, c.at) \in Nat
    BY <1>1, <1>2, WindowBegins DEF R!Window
  <1>4. QED
    BY <1>2, <1>3 DEF Key

(* The least rule due is due, and beyond all that were charged.            *)
LEMMA NextIsDue ==
    ASSUME R!RateLimitAssumption, NEW q, R!Due(q) # {}
    PROVE  /\ R!NextDue(q) \in DOMAIN Rules /\ q.ids[R!NextDue(q)] # Unknown
           /\ \A c \in Made(q) : c.rule < R!NextDue(q)
  <1>1. R!Due(q) \subseteq Nat
    BY RuleFacts DEF R!Due
  <1>2. \E i \in R!Due(q) : \A j \in R!Due(q) : i <= j
    <2>1. PICK i \in R!Due(q) : \A j \in R!Due(q) : ~(<<j, i>> \in OpToRel(<, Nat))
      BY <1>1, WFMin, NatLessThanWellFounded, Zenon
    <2>2. ASSUME NEW j \in R!Due(q) PROVE ~(j < i)
      BY <1>1, <2>1, Zenon DEF OpToRel
    <2>3. QED
      BY <1>1, <2>2
  <1>3. R!NextDue(q) \in R!Due(q)
    BY <1>2 DEF R!NextDue
  <1>4. QED
    BY <1>3, DueByMade

LEMMA Rewritten ==
    ASSUME NEW q \in RequestsMade, NEW cs \in Seq(ChargesMade), NEW t \in 0 .. R!Unread
    PROVE  [q EXCEPT !.charges = cs, !.reading = t] \in RequestsMade
  BY DEF RequestsMade

LEMMA ChargeStep ==
    ASSUME R!RateLimitAssumption, LimiterInv, NEW r \in DOMAIN requests, R!Charge(r)
    PROVE  LimiterInv'
  <1> DEFINE q == requests[r]
             i == R!NextDue(q)
             b == <<i, q.ids[i], R!Window(i, q.reading)>>
             number == IF b \in DOMAIN buckets THEN buckets[b] + 1 ELSE 1
             charge == [rule |-> i, at |-> q.reading, count |-> number]
             made == [q EXCEPT !.charges = Append(@, charge), !.reading = R!Unread]
             next == IF R!Due(made) = {} THEN R!Onward(made) ELSE made
  <1>1. /\ R!Bucket(r) = b /\ R!Count(r) = number
        /\ q.reading # R!Unread
        /\ buckets' = [x \in DOMAIN buckets \cup {b} |-> IF x = b THEN number ELSE buckets[x]]
        /\ requests' = [requests EXCEPT ![r] = next]
        /\ time' = time
    BY DEF R!Charge, R!Bucket, R!Count, R!Ids, R!Reading
  <1>2. /\ requests \in Seq(RequestsMade) /\ Len(requests) \in Nat /\ DOMAIN requests = 1 .. Len(requests)
        /\ q \in RequestsMade /\ time \in 0 .. MaxTime /\ Underway(q, time)
        /\ Ledger(requests, buckets, late, time)
    BY LenProperties DEF LimiterInv
  <1>3. /\ R!Due(q) # {} /\ q.verdict = "none" /\ q.reading <= time
        /\ q.reading \in 0 .. MaxTime
    BY <1>1, <1>2, RuleFacts DEF Underway, RequestsMade, R!Unread
  <1>4. i \in DOMAIN Rules /\ \A c \in Made(q) : c.rule < i
    BY <1>3, NextIsDue
  <1>5. number \in Nat \ {0}
    BY <1>2 DEF Ledger, Kept
  <1>6. charge \in ChargesMade /\ charge.rule = i /\ charge.at = q.reading /\ charge.count = number
    BY <1>3, <1>4, <1>5 DEF ChargesMade
  <1>7. /\ late \subseteq late'
        /\ b[3] * Rules[i].window + Retain < time => b \in DOMAIN buckets \cup late'
    <2>1. late' = late \cup {x \in {b} \ DOMAIN buckets : R!Old(x)}
      BY <1>1 DEF R!Charge
    <2>2. b[1] = i
      OBVIOUS
    <2>3. QED
      BY <2>1, <2>2 DEF R!Old
  <1>8. b = Key(q, charge)
    BY <1>6 DEF Key
  <1> HIDE DEF b, number, i, charge
  <1>9. /\ made.charges = Append(q.charges, charge) /\ made.ids = q.ids
        /\ made.reading = R!Unread /\ made.verdict = "none"
    BY <1>2, <1>3 DEF RequestsMade
  <1>10. Made(made) = Made(q) \cup {charge} /\ made.charges \in Seq(ChargesMade)
    BY <1>2, <1>6, <1>9, OneMore DEF RequestsMade
  <1>11. made \in RequestsMade
    <2>1. Append(q.charges, charge) \in Seq(ChargesMade) /\ R!Unread \in 0 .. R!Unread
      BY <1>9, <1>10, RuleFacts DEF R!Unread
    <2>2. QED
      BY <1>2, <2>1, Rewritten
  <1> HIDE DEF made
  <1>12. /\ next \in RequestsMade /\ next.ids = q.ids /\ Made(next) = Made(q) \cup {charge}
         /\ Underway(next, time)
    <2>1. CASE R!Due(made) = {}
      <3>1. /\ next = R!Onward(made) /\ R!Onward(made) \in RequestsMade
            /\ R!Onward(made).ids = made.ids /\ R!Onward(made).charges = made.charges
            /\ Underway(R!Onward(made), time)
        BY <1>2, <1>9, <1>11, <2>1, TurnPasses, RuleFacts
      <3>2. Made(next) = Made(made)
        BY <3>1 DEF Made
      <3>3. QED
        BY <1>9, <1>10, <3>1, <3>2
    <2>2. CASE R!Due(made) # {}
      <3>1. Underway(made, time)
        BY <1>9 DEF Underway
      <3>2. QED
        BY <1>9, <1>10, <1>11, <2>2, <3>1
    <2>3. QED
      BY <2>1, <2>2
  <1> HIDE DEF next
  <1>13. PICK rs : rs = requests'
    OBVIOUS
  <1>14. /\ rs \in Seq(RequestsMade) /\ DOMAIN rs = DOMAIN requests
         /\ rs[r] = next /\ \A s \in DOMAIN requests \ {r} : rs[s] = requests[s]
    BY <1>1, <1>2, <1>12, <1>13, ExceptSeq, LenProperties
  <1>15. Ledger(rs, buckets', late', time)
    <2>1. PICK bs, lt : bs = buckets' /\ lt = late'
      OBVIOUS
    <2>2. bs = [x \in DOMAIN buckets \cup {b} |-> IF x = b THEN charge.count ELSE buckets[x]]
      BY <1>1, <1>6, <2>1
    <2>3. /\ rs[r].ids = requests[r].ids /\ Made(rs[r]) = Made(requests[r]) \cup {charge}
          /\ \A d \in Made(requests[r]) : d.rule < charge.rule
          /\ b = Key(requests[r], charge) /\ late \subseteq lt
          /\ b[3] * Rules[charge.rule].window + Retain < time => b \in DOMAIN buckets \cup lt
          /\ charge.count = IF b \in DOMAIN buckets THEN buckets[b] + 1 ELSE 1
      BY <1>4, <1>6, <1>7, <1>8, <1>12, <1>14, <2>1 DEF number
    <2>4. Ledger(rs, bs, lt, time)
      <3>1. DOMAIN Rules \subseteq Nat
        BY RuleFacts
      <3>2. Charging(requests, rs, buckets, bs, late, lt, time, r, charge, b)
        BY <1>2, <1>6, <1>14, <2>2, <2>3 DEF Charging
      <3>3. QED
        BY <1>2, <3>1, <3>2, LedgerCharged
    <2>5. QED
      BY <2>1, <2>4
  <1>16. \A s \in DOMAIN rs : Underway(rs[s], time)
    BY <1>12, <1>14 DEF LimiterInv
  <1>17. QED
    BY <1>1, <1>2, <1>13, <1>14, <1>15, <1>16 DEF LimiterInv

LEMMA CleanUpStep ==
    ASSUME R!RateLimitAssumption, LimiterInv, R!CleanUp
    PROVE  LimiterInv'
  <1>1. PICK bs : bs = [b \in {c \in DOMAIN buckets : ~R!Old(c)} |-> buckets[b]]
    OBVIOUS
  <1>2. buckets' = bs /\ time' = time /\ requests' = requests /\ late' = late
    BY <1>1 DEF R!CleanUp
  <1>3. /\ DOMAIN bs = {c \in DOMAIN buckets : ~R!Old(c)}
        /\ \A b \in DOMAIN bs : bs[b] = buckets[b]
    BY <1>1
  <1>4. Kept(requests, bs, late)
    BY <1>3 DEF LimiterInv, Ledger, Kept
  <1>5. Gone(requests, bs, time)
    <2> SUFFICES ASSUME NEW r \in DOMAIN requests, NEW c \in Made(requests[r])
                 PROVE  \/ Key(requests[r], c) \in DOMAIN bs
                        \/ Key(requests[r], c)[3] * Rules[c.rule].window + Retain < time
      BY DEF Gone
    <2>1. Key(requests[r], c)[1] = c.rule
      BY DEF Key
    <2>2. \/ Key(requests[r], c) \in DOMAIN buckets
          \/ Key(requests[r], c)[3] * Rules[c.rule].window + Retain < time
      BY DEF LimiterInv, Ledger, Gone
    <2>3. R!Old(Key(requests[r], c)) => Key(requests[r], c)[3] * Rules[c.rule].window + Retain < time
      BY <2>1 DEF R!Old
    <2>4. QED
      BY <1>3, <2>2, <2>3
  <1>6. QED
    BY <1>2, <1>4, <1>5 DEF LimiterInv, Ledger

LEMMA TickStep ==
    ASSUME R!RateLimitAssumption, LimiterInv, R!Tick
    PROVE  LimiterInv'
  <1>1. /\ time' = time + 1 /\ time' \in 0 .. MaxTime /\ time \in Nat
        /\ UNCHANGED <<buckets, requests, late>>
    BY RuleFacts DEF LimiterInv, R!Tick
  <1>2. ASSUME NEW r \in DOMAIN requests
        PROVE  Underway(requests[r], time + 1)
    <2>1. requests[r].reading \in Nat
      <3>1. requests[r] \in RequestsMade
        BY LenProperties DEF LimiterInv
      <3>2. QED
        BY <3>1, RuleFacts DEF RequestsMade, R!Unread
    <2>2. QED
      BY <1>1, <2>1, RuleFacts DEF LimiterInv, Underway
  <1>3. Gone(requests, buckets, time + 1)
    <2> SUFFICES ASSUME NEW r \in DOMAIN requests, NEW c \in Made(requests[r]),
                        Key(requests[r], c) \notin DOMAIN buckets
                 PROVE  Key(requests[r], c)[3] * Rules[c.rule].window + Retain < time + 1
      BY DEF Gone
    <2>1. requests[r] \in RequestsMade
      BY LenProperties DEF LimiterInv
    <2>2. Key(requests[r], c)[3] * Rules[c.rule].window \in Nat
      BY <2>1, KeysHaveTimes
    <2>3. Key(requests[r], c)[3] * Rules[c.rule].window + Retain < time
      BY DEF LimiterInv, Ledger, Gone
    <2>4. QED
      BY <1>1, <2>2, <2>3, RuleFacts
  <1>4. QED
    BY <1>1, <1>2, <1>3 DEF LimiterInv, Ledger

LEMMA LimiterKeeps ==
    ASSUME R!RateLimitAssumption, LimiterInv, [R!Next]_(R!limiterVars)
    PROVE  LimiterInv'
  <1>1. /\ requests \in Seq(RequestsMade) /\ Len(requests) \in Nat /\ DOMAIN requests = 1 .. Len(requests)
        /\ time \in 0 .. MaxTime /\ Ledger(requests, buckets, late, time)
        /\ \A r \in DOMAIN requests : Underway(requests[r], time)
    BY LenProperties DEF LimiterInv
  <1>2. CASE R!Arrive
    <2>1. PICK c \in Callers :
             requests' = Append(requests, R!Onward([ids |-> c, charges |-> <<>>, reading |-> R!Unread,
                                                    verdict |-> "none"]))
      BY <1>2 DEF R!Arrive
    <2> DEFINE q == [ids |-> c, charges |-> <<>>, reading |-> R!Unread, verdict |-> "none"]
    <2>2. PICK rs, p : p = R!Onward(q) /\ rs = Append(requests, p)
      OBVIOUS
    <2>3. <<>> \in Seq(ChargesMade) /\ DOMAIN <<>> = {} /\ R!Unread \in 0 .. R!Unread
      BY EmptySeq, RuleFacts DEF R!Unread
    <2>4. q \in RequestsMade /\ q.reading = R!Unread /\ q.verdict = "none" /\ q.charges = <<>>
      BY <2>3 DEF RequestsMade
    <2>5. p \in RequestsMade /\ p.charges = <<>> /\ Underway(p, time)
      BY <1>1, <2>2, <2>4, TurnPasses, RuleFacts
    <2>6. Made(p) = {}
      BY <2>3, <2>5 DEF Made
    <2> HIDE DEF q
    <2>7. /\ rs \in Seq(RequestsMade) /\ DOMAIN rs = 1 .. Len(requests) + 1
          /\ rs[Len(requests) + 1] = p /\ \A r \in DOMAIN requests : rs[r] = requests[r]
      BY <1>1, <2>2, <2>5, AppendProperties, LenProperties
    <2>8. Ledger(rs, buckets, late, time)
      BY <1>1, <2>6, <2>7, LedgerOfCharges
    <2>9. \A r \in DOMAIN rs : Underway(rs[r], time)
      BY <1>1, <2>5, <2>7
    <2>10. requests' = rs /\ time' = time /\ buckets' = buckets /\ late' = late
      BY <1>2, <2>1, <2>2 DEF R!Arrive, q
    <2>11. QED
      BY <1>1, <2>7, <2>8, <2>9, <2>10 DEF LimiterInv
  <1>3. ASSUME NEW r \in DOMAIN requests, R!Resume(r) PROVE LimiterInv'
    <2>1. PICK p : p = R!Onward(requests[r])
      OBVIOUS
    <2>2. PICK rs : rs = [requests EXCEPT ![r] = p]
      OBVIOUS
    <2>3. /\ requests' = rs /\ time' = time /\ buckets' = buckets /\ late' = late
          /\ requests[r] \in RequestsMade /\ requests[r].reading = R!Unread /\ requests[r].verdict = "none"
      BY <1>1, <1>3, <2>1, <2>2, LenProperties DEF R!Resume, R!Reading, R!Verdict
    <2>4. /\ p \in RequestsMade /\ p.ids = requests[r].ids /\ p.charges = requests[r].charges
          /\ Underway(p, time)
      BY <1>1, <2>1, <2>3, TurnPasses, RuleFacts
    <2>5. /\ rs \in Seq(RequestsMade) /\ DOMAIN rs = DOMAIN requests
          /\ rs[r] = p /\ \A s \in DOMAIN requests \ {r} : rs[s] = requests[s]
      BY <1>1, <2>2, <2>4, ExceptSeq, LenProperties
    <2>6. Ledger(rs, buckets, late, time)
      <3>1. \A s \in DOMAIN requests : rs[s].ids = requests[s].ids /\ rs[s].charges = requests[s].charges
        BY <2>4, <2>5
      <3>2. QED
        BY <1>1, <2>5, <3>1, LedgerOfCharges
    <2>7. \A s \in DOMAIN rs : Underway(rs[s], time)
      BY <1>1, <2>4, <2>5
    <2>8. QED
      BY <1>1, <2>3, <2>5, <2>6, <2>7 DEF LimiterInv
  <1>4. CASE UNCHANGED R!limiterVars
    BY <1>4 DEF R!limiterVars, LimiterInv
  <1>5. QED
    BY <1>2, <1>3, <1>4, ChargeStep, CleanUpStep, TickStep DEF R!Next

LEMMA UpTo ==
    ASSUME NEW n \in Nat
    PROVE  IsFiniteSet(1 .. n) /\ Cardinality(1 .. n) = n
  BY FS_Interval

(* Those who passed were given different numbers up to the limit.          *)
LEMMA PassedFit ==
    ASSUME R!RateLimitAssumption, LimiterInv, NEW i \in DOMAIN Rules, NEW id, NEW w,
           <<i, id, w>> \notin late, NEW passed, passed = {r \in Counters(requests, <<i, id, w>>) : requests[r].verdict = "passed"}
    PROVE  IsFiniteSet(passed) /\ Cardinality(passed) \in Nat /\ Cardinality(passed) <= Rules[i].max
  <1> DEFINE b == <<i, id, w>>
             max == Rules[i].max
             Given(r) == {c.count : c \in {d \in Made(requests[r]) : Key(requests[r], d) = b}}
             f == [r \in passed |-> CHOOSE n \in Given(r) : TRUE]
  <1>1. IsFiniteSet(passed) /\ Cardinality(passed) \in Nat
    <2>1. passed \in SUBSET Counters(requests, b)
      OBVIOUS
    <2>2. QED
      BY <2>1, CountersFinite, FS_Subset, FS_CardinalityType DEF LimiterInv
  <1>2. max \in Nat /\ IsFiniteSet(1 .. max) /\ Cardinality(1 .. max) = max
    <2>1. max \in Nat
      BY RuleFacts
    <2>2. QED
      BY <2>1, UpTo
  <1>3. ASSUME NEW r \in passed
        PROVE  /\ r \in DOMAIN requests
               /\ \E c \in Made(requests[r]) : Key(requests[r], c) = b /\ c.count = f[r]
               /\ f[r] \in 1 .. max
    <2>1. r \in DOMAIN requests /\ requests[r].verdict = "passed" /\ requests[r] \in RequestsMade
          /\ \E c \in Made(requests[r]) : Key(requests[r], c) = b
      BY LenProperties DEF Counters, LimiterInv
    <2>2. f[r] \in Given(r)
      BY <2>1
    <2>3. PICK c \in Made(requests[r]) : Key(requests[r], c) = b /\ c.count = f[r]
      BY <2>2
    <2>4. c.rule = i
      BY <2>3 DEF Key
    <2>5. ~R!Exceeds(requests[r])
      BY <2>1 DEF LimiterInv, Underway
    <2>6. ~(c.count > Rules[c.rule].max)
      BY <2>5 DEF R!Exceeds, Made
    <2>7. c.count \in Nat \ {0}
      BY <2>1, MadeAreCharges
    <2>8. f[r] \in 1 .. max
      <3>1. c.count \in 1 .. max
        BY <1>2, <2>4, <2>6, <2>7
      <3>2. QED
        BY <2>3, <3>1
    <2>9. QED
      BY <2>1, <2>3, <2>8
  <1>4. f \in [passed -> 1 .. max]
    BY <1>3
  <1> HIDE DEF f
  <1>5. SUFFICES ASSUME max < Cardinality(passed) PROVE FALSE
    BY <1>1, <1>2
  <1>6. PICK x \in passed, y \in passed : x # y /\ f[x] = f[y]
    BY <1>1, <1>2, <1>4, <1>5, FS_PigeonHole
  <1>7. QED
    BY <1>3, <1>6, SMTT(60) DEF LimiterInv, Ledger, Numbered

LEMMA LimiterWithin == [Next]_vars => [R!Next]_(R!limiterVars)
  <1> SUFFICES ASSUME [Next]_vars PROVE [R!Next]_(R!limiterVars)
    OBVIOUS
  <1>1. ASSUME UNCHANGED limiter PROVE UNCHANGED R!limiterVars
    BY <1>1 DEF limiter, R!limiterVars
  <1>2. CASE UNCHANGED vars
    BY <1>1, <1>2 DEF vars
  <1>3. CASE Next
    BY <1>1, <1>3 DEF Next, ImportsStep, ScannerStep, SmtpStep, AlertsStep, ApiStep
  <1>4. QED
    BY <1>2, <1>3

LEMMA LimiterRuns == Spec => R!Init /\ [][R!Next]_(R!limiterVars)
  <1>1. Init => R!Init
    BY DEF Init
  <1>2. QED
    BY <1>1, LimiterWithin, PTL DEF Spec

(* In no interval as long as a window do more than twice the limit pass,   *)
(* however requests, the clock and the clean-up interleave and however     *)
(* long the database keeps a charge waiting, unless it counted one of the  *)
(* two windows from 1 again after the hour; and a refusal is for more than *)
(* the limit in the window of a charge.                                    *)
THEOREM LimitsHoldTwice == Spec => []TwiceTheLimitAtMost
  <1>0. R!RateLimitAssumption
    BY ServicesAssumption
  <1>1. R!Init => LimiterInv
    <2> SUFFICES ASSUME R!Init PROVE LimiterInv
      OBVIOUS
    <2>1. /\ time = 0 /\ DOMAIN buckets = {} /\ late = {} /\ requests \in Seq(RequestsMade) /\ DOMAIN requests = {}
      BY EmptySeq DEF R!Init
    <2>2. Ledger(requests, buckets, late, time)
      BY <2>1 DEF Ledger, Numbered, Counted, Kept, Gone
    <2>3. QED
      BY <2>1, <2>2, <1>0, RuleFacts DEF LimiterInv
  <1>2. LimiterInv => TwiceTheLimitAtMost
    <2> SUFFICES ASSUME LimiterInv PROVE TwiceTheLimitAtMost
      OBVIOUS
    <2>1. IsFiniteSet(DOMAIN requests)
      BY FS_Interval, LenProperties DEF LimiterInv
    <2>2. R!TypeOK
      <3>1. ASSUME NEW r \in DOMAIN requests PROVE requests[r] \in RequestsMade
        BY LenProperties DEF LimiterInv
      <3>2. QED
        BY <3>1 DEF LimiterInv, R!TypeOK, RequestsMade, R!Ids, R!Reading, R!Verdict
    <2>3. ASSUME NEW i \in DOMAIN Rules, NEW id, NEW t \in 0 .. MaxTime, ~R!Restarted(i, id, t)
          PROVE  R!AtMostTwice(i, id, t)
      <3> DEFINE w == R!Window(i, t)
                 Of(v) == {r \in Counters(requests, <<i, id, v>>) : requests[r].verdict = "passed"}
                 all == R!Passed(R!Charged(i, id, t .. t + Rules[i].window - 1))
      <3>1. ASSUME NEW r \in all PROVE r \in Of(w) \cup Of(w + 1)
        <4>1. r \in DOMAIN requests /\ requests[r].verdict = "passed" /\ requests[r] \in RequestsMade
          BY LenProperties DEF LimiterInv, R!Passed, R!Charged, R!Verdict
        <4>2. PICK c \in Made(requests[r]) : c.rule = i /\ requests[r].ids[i] = id /\ c.at \in t .. t + Rules[i].window - 1
          BY DEF R!Passed, R!Charged, R!Charges, R!Ids, Made
        <4>3. t \in Nat /\ c.at \in Nat /\ t <= c.at /\ c.at <= t + Rules[i].window - 1
              /\ Rules[i].window \in Nat /\ Rules[i].window > 0
          BY <4>1, <4>2, MadeAreCharges, <1>0, RuleFacts
        <4>4. R!Window(i, c.at) \in {w, w + 1}
          BY <4>3, TwoWindows DEF R!Window
        <4>5. Key(requests[r], c) \in {<<i, id, w>>, <<i, id, w + 1>>}
          BY <4>2, <4>4 DEF Key
        <4>6. QED
          BY <4>1, <4>5 DEF Counters
      <3>2. /\ IsFiniteSet(Of(w)) /\ Cardinality(Of(w)) \in Nat /\ Cardinality(Of(w)) <= Rules[i].max
            /\ IsFiniteSet(Of(w + 1)) /\ Cardinality(Of(w + 1)) \in Nat /\ Cardinality(Of(w + 1)) <= Rules[i].max
        <4>1. <<i, id, w>> \notin late /\ <<i, id, w + 1>> \notin late
          BY <2>3 DEF R!Restarted
        <4>2. QED
          BY <1>0, <4>1, PassedFit
      <3> HIDE DEF Of, w
      <3>3. /\ IsFiniteSet(Of(w) \cup Of(w + 1))
            /\ Cardinality(Of(w) \cup Of(w + 1)) =
                  Cardinality(Of(w)) + Cardinality(Of(w + 1)) - Cardinality(Of(w) \cap Of(w + 1))
            /\ Cardinality(Of(w) \cap Of(w + 1)) \in Nat
        BY <3>2, FS_Union, FS_Intersection, FS_CardinalityType
      <3>4. all \in SUBSET (Of(w) \cup Of(w + 1))
        BY <3>1
      <3>5. Cardinality(all) <= Cardinality(Of(w) \cup Of(w + 1)) /\ Cardinality(all) \in Nat
        BY <3>3, <3>4, FS_Subset, FS_CardinalityType
      <3>6. Rules[i].max \in Nat
        BY <1>0, RuleFacts
      <3>7. Cardinality(all) <= 2 * Rules[i].max
        BY <3>2, <3>3, <3>5, <3>6
      <3>8. QED
        BY <3>7, SameCardinality DEF R!AtMostTwice
    <2>4. ASSUME NEW r \in DOMAIN requests, requests[r].verdict = "refused"
          PROVE  \E k \in DOMAIN requests[r].charges :
                    R!OverTheLimit(requests[r].charges[k].rule, requests[r].ids[requests[r].charges[k].rule],
                                   requests[r].charges[k].at)
      <3>1. R!Exceeds(requests[r]) /\ requests[r] \in RequestsMade
        BY <2>4, LenProperties DEF LimiterInv, Underway
      <3>2. PICK k \in DOMAIN requests[r].charges :
               requests[r].charges[k].count > Rules[requests[r].charges[k].rule].max
        BY <3>1 DEF R!Exceeds
      <3> DEFINE c == requests[r].charges[k]
                 id == requests[r].ids[c.rule]
                 window == R!SameWindow(c.rule, c.at)
                 all == R!Charged(c.rule, id, window)
                 those == Counters(requests, Key(requests[r], c))
      <3>3. c \in Made(requests[r])
        BY DEF Made
      <3>4. c.count <= Cardinality(those) /\ c.count \in Nat /\ Cardinality(those) \in Nat
        <4>1. c.count <= Cardinality(those)
          BY <3>3 DEF LimiterInv, Ledger, Counted
        <4>2. QED
          BY <3>1, <3>3, <4>1, MadeAreCharges, CountersFinite DEF LimiterInv
      <3>5. ASSUME NEW s \in those PROVE s \in all
        <4>1. s \in DOMAIN requests /\ requests[s] \in RequestsMade
          BY LenProperties DEF LimiterInv, Counters
        <4>2. PICK d \in Made(requests[s]) : Key(requests[s], d) = Key(requests[r], c)
          BY DEF Counters
        <4>3. d.rule = c.rule /\ requests[s].ids[c.rule] = id /\ R!Window(c.rule, d.at) = R!Window(c.rule, c.at)
          BY <4>2 DEF Key
        <4>4. d.at \in window
          BY <4>1, <4>3, MadeAreCharges DEF R!SameWindow
        <4>5. QED
          BY <4>1, <4>3, <4>4 DEF R!Charged, R!Charges, R!Ids, Made
      <3>6. IsFiniteSet(all)
        <4>1. all \in SUBSET DOMAIN requests
          BY DEF R!Charged
        <4>2. QED
          BY <2>1, <4>1, FS_Subset
      <3>7. Cardinality(those) <= Cardinality(all) /\ Cardinality(all) \in Nat
        <4>1. those \in SUBSET all
          BY <3>5
        <4>2. QED
          BY <3>6, <4>1, FS_Subset, FS_CardinalityType
      <3>8. Rules[c.rule].max \in Nat
        BY <3>1, <3>3, MadeAreCharges, <1>0, RuleFacts
      <3>9. Cardinality(all) > Rules[c.rule].max
        BY <3>2, <3>4, <3>7, <3>8
      <3>10. R!OverTheLimit(c.rule, id, c.at)
        BY <3>9, SameCardinality DEF R!OverTheLimit
      <3>11. QED
        BY <3>10
    <2>5. QED
      BY <2>2, <2>3, <2>4 DEF TwiceTheLimitAtMost, R!TwiceTheLimitAtMost, R!Verdict, R!Charges, R!Ids
  <1>3. QED
    BY <1>0, <1>1, <1>2, LimiterKeeps, LimiterRuns, PTL
-----------------------------------------------------------------------------
(* Imports: the rows of a file.                                            *)

LEMMA LeastNumber ==
    ASSUME NEW good \in SUBSET Nat, good # {}
    PROVE  \E n \in good : \A m \in good : n <= m
  <1>1. PICK n \in good : \A m \in good : <<m, n>> \notin OpToRel(<, Nat)
    BY WFMin, NatLessThanWellFounded, Zenon
  <1>2. ASSUME NEW m \in good
        PROVE  n <= m
    <2>1. ~(m < n)
      BY <1>1, Zenon DEF OpToRel
    <2>2. QED
      BY <2>1
  <1>3. QED
    BY <1>2

(* What holds of 0 and of the next number holds up to any bound.           *)
LEMMA Climb ==
    ASSUME NEW n \in Nat, NEW good \in SUBSET (0 .. n), 0 \in good,
           \A m \in 0 .. n : m # 0 /\ m - 1 \in good => m \in good
    PROVE  n \in good
  <1> SUFFICES ASSUME n \notin good PROVE FALSE
    OBVIOUS
  <1>1. (0 .. n) \ good \in SUBSET Nat /\ (0 .. n) \ good # {}
    OBVIOUS
  <1>2. PICK m \in (0 .. n) \ good : \A k \in (0 .. n) \ good : m <= k
    BY <1>1, LeastNumber, Zenon
  <1>3. m # 0 /\ m - 1 \in 0 .. n /\ ~(m <= m - 1)
    BY <1>2
  <1>4. m - 1 \in good
    BY <1>2, <1>3
  <1>5. QED
    BY <1>2, <1>3, <1>4

(* The equation by which the library puts the first m sequences together.  *)
Joined(f, seqs, m) == f = [i \in 1 .. m |-> IF i = 1 THEN seqs[i] ELSE f[i - 1] \o seqs[i]]

LEMMA JoinedExists ==
    ASSUME NEW seqs, NEW n \in Nat
    PROVE  \E f : Joined(f, seqs, n)
  <1> DEFINE good == {m \in 0 .. n : \E f : Joined(f, seqs, m)}
  <1>1. 0 \in good
    <2>1. Joined([i \in 1 .. 0 |-> {}], seqs, 0)
      BY DEF Joined
    <2>2. QED
      BY <2>1
  <1>2. ASSUME NEW m \in 0 .. n, m # 0, m - 1 \in good
        PROVE  m \in good
    <2>1. PICK f : Joined(f, seqs, m - 1)
      BY <1>2
    <2> DEFINE g == [i \in 1 .. m |-> IF i = 1 THEN seqs[i] ELSE f[i - 1] \o seqs[i]]
    <2>2. ASSUME NEW i \in 1 .. m, i # 1 PROVE g[i - 1] = f[i - 1]
      <3>1. i - 1 \in 1 .. m /\ i - 1 \in 1 .. m - 1
        BY <2>2
      <3>2. f[i - 1] = IF i - 1 = 1 THEN seqs[i - 1] ELSE f[(i - 1) - 1] \o seqs[i - 1]
        BY <2>1, <3>1 DEF Joined
      <3>3. QED
        BY <3>1, <3>2
    <2>3. Joined(g, seqs, m)
      BY <2>2 DEF Joined
    <2>4. QED
      BY <2>3
  <1> HIDE DEF good
  <1>3. good \in SUBSET (0 .. n)
    BY DEF good
  <1>4. n \in good
    BY <1>1, <1>2, <1>3, Climb
  <1>5. QED
    BY <1>4 DEF good

LEMMA SetOfConcat ==
    ASSUME NEW Row, NEW s \in Seq(Row), NEW t \in Seq(Row)
    PROVE  s \o t \in Seq(Row) /\ I!ToSet(s \o t) = I!ToSet(s) \cup I!ToSet(t)
  <1>1. /\ s \o t \in Seq(Row) /\ Len(s \o t) = Len(s) + Len(t)
        /\ \A i \in 1 .. Len(s) + Len(t) : (s \o t)[i] = IF i <= Len(s) THEN s[i] ELSE t[i - Len(s)]
    BY ConcatProperties
  <1>2. /\ DOMAIN s = 1 .. Len(s) /\ DOMAIN t = 1 .. Len(t) /\ DOMAIN (s \o t) = 1 .. Len(s) + Len(t)
        /\ Len(s) \in Nat /\ Len(t) \in Nat
    BY <1>1, LenProperties
  <1> DEFINE u == s \o t
  <1> HIDE DEF u
  <1>3. ASSUME NEW x \in I!ToSet(u) PROVE x \in I!ToSet(s) \cup I!ToSet(t)
    <2>1. PICK i \in 1 .. Len(s) + Len(t) : x = u[i]
      BY <1>2 DEF I!ToSet, u
    <2>2. CASE i <= Len(s)
      BY <1>1, <1>2, <2>1, <2>2 DEF I!ToSet, u
    <2>3. CASE ~(i <= Len(s))
      <3>1. i - Len(s) \in DOMAIN t /\ x = t[i - Len(s)]
        BY <1>1, <1>2, <2>1, <2>3 DEF u
      <3>2. QED
        BY <3>1 DEF I!ToSet
    <2>4. QED
      BY <2>2, <2>3
  <1>4. ASSUME NEW i \in DOMAIN s PROVE s[i] \in I!ToSet(u)
    <2>1. i \in DOMAIN u /\ u[i] = s[i]
      BY <1>1, <1>2 DEF u
    <2>2. QED
      BY <2>1 DEF I!ToSet
  <1>5. ASSUME NEW i \in DOMAIN t PROVE t[i] \in I!ToSet(u)
    <2>1. i + Len(s) \in DOMAIN u /\ u[i + Len(s)] = t[i]
      BY <1>1, <1>2 DEF u
    <2>2. QED
      BY <2>1 DEF I!ToSet
  <1>6. QED
    BY <1>1, <1>3, <1>4, <1>5 DEF I!ToSet, u

(* A flattened sequence has the elements of all of its sequences.          *)
LEMMA SetOfFlattened ==
    ASSUME NEW Row, NEW seqs \in Seq(Seq(Row))
    PROVE  /\ I!FlattenSeq(seqs) \in Seq(Row)
           /\ I!ToSet(I!FlattenSeq(seqs)) = UNION {I!ToSet(seqs[i]) : i \in DOMAIN seqs}
  <1> DEFINE n == Len(seqs)
             f == CHOOSE g : Joined(g, seqs, n)
             Upto(m) == UNION {I!ToSet(seqs[i]) : i \in 1 .. m}
             good == {m \in 0 .. n : m # 0 => f[m] \in Seq(Row) /\ I!ToSet(f[m]) = Upto(m)}
  <1>1. n \in Nat /\ DOMAIN seqs = 1 .. n /\ \A i \in 1 .. n : seqs[i] \in Seq(Row)
    BY LenProperties, ElementOfSeq
  <1>2. Joined(f, seqs, n)
    BY <1>1, JoinedExists
  <1> HIDE DEF f, n
  <1>3. \A i \in 1 .. n : f[i] = IF i = 1 THEN seqs[i] ELSE f[i - 1] \o seqs[i]
    BY <1>2 DEF Joined
  <1>4. 0 \in good
    BY <1>1
  <1>5. ASSUME NEW m \in 0 .. n, m # 0, m - 1 \in good
        PROVE  m \in good
    <2>0. m \in 1 .. n /\ seqs[m] \in Seq(Row)
      BY <1>1, <1>5
    <2>1. CASE m = 1
      <3>1. f[m] = seqs[m]
        BY <1>3, <2>0, <2>1
      <3>2. 1 .. m = {m}
        BY <2>1
      <3>3. Upto(m) = I!ToSet(seqs[m])
        BY <3>2
      <3>4. QED
        BY <2>0, <3>1, <3>3
    <2>2. CASE m # 1
      <3>1. f[m] = f[m - 1] \o seqs[m]
        BY <1>3, <2>0, <2>2
      <3>2. f[m - 1] \in Seq(Row) /\ I!ToSet(f[m - 1]) = Upto(m - 1)
        BY <1>5, <2>0, <2>2
      <3>3. f[m] \in Seq(Row) /\ I!ToSet(f[m]) = Upto(m - 1) \cup I!ToSet(seqs[m])
        BY <2>0, <3>1, <3>2, SetOfConcat
      <3>4. 1 .. m = (1 .. m - 1) \cup {m}
        BY <1>1, <2>0
      <3>5. Upto(m) = Upto(m - 1) \cup I!ToSet(seqs[m])
        BY <3>4
      <3>6. QED
        BY <3>3, <3>5
    <2>3. QED
      BY <2>1, <2>2
  <1>6. n \in good
    <2> HIDE DEF good
    <2>1. good \in SUBSET (0 .. n)
      BY DEF good
    <2>2. QED
      BY <1>1, <1>4, <1>5, <2>1, Climb
  <1>7. CASE n = 0
    <2>1. seqs = <<>>
      BY <1>7, EmptySeq DEF n
    <2>2. I!FlattenSeq(seqs) = <<>>
      BY <1>7, <2>1 DEF I!FlattenSeq, n
    <2>3. <<>> \in Seq(Row) /\ DOMAIN <<>> = {}
      BY EmptySeq
    <2>4. QED
      BY <2>1, <2>2, <2>3 DEF I!ToSet
  <1>8. CASE n # 0
    <2>1. I!FlattenSeq(seqs) = f[n]
      BY <1>8, Zenon DEF I!FlattenSeq, Joined, f, n
    <2>2. QED
      BY <1>1, <1>6, <1>8, <2>1
  <1>9. QED
    BY <1>7, <1>8
(* What is stored and under way.  A transaction that has its import_runs   *)
(* row has inserted, skipped or still to insert every other row of its     *)
(* plan, and it skips only what PostgreSQL ignores.                        *)
Sent == {First, Second, Malformed, Repeating}
Rows(f) == I!ToSet(I!RowsOf(f))
RunRow(k) == <<"import_runs", k>>
AllRows == (UNION {Rows(f) : f \in Sent}) \cup {RunRow(k) : k \in Keys}
Status(f, seen) == IF I!Rejected(f, seen) THEN "rejected" ELSE "accepted"
Body(f, seen) == IF I!Rejected(f, seen) THEN {} ELSE Rows(f)

Begun(ask, seen, rest, brought, st) ==
    LET row == RunRow(ask.key)
        body == Body(ask.file, seen)
    IN  \/ /\ brought = {} /\ rest # <<>> /\ Head(rest) = row
           /\ Tail(rest) \in Seq(AllRows) /\ I!ToSet(Tail(rest)) = body
        \/ /\ row \in brought
           /\ brought \subseteq {row} \cup body
           /\ I!ToSet(rest) \subseteq body
           /\ \A r \in body : r \in brought \cup I!ToSet(rest) \/ (r[1] \in I!Ignored /\ r \in st)

Delivering(where, ask, seen, rest, brought, st) ==
    /\ rest \in Seq(AllRows) /\ brought \cap st = {}
    /\ where # "insert" => brought = {} /\ rest = <<>>
    /\ where = "insert" => Begun(ask, seen, rest, brought, st)

(* What the committed runs account for.                                    *)
Taken(rs) == {k \in DOMAIN rs : rs[k].status = "accepted"}
Brought(rs) == {RunRow(k) : k \in DOMAIN rs} \cup UNION {Rows(rs[k].file) : k \in Taken(rs)}
RunsSound(rs) ==
    /\ DOMAIN rs \subseteq Keys
    /\ \A k \in DOMAIN rs : rs[k] \in [file : Sent, status : {"accepted", "rejected"}]
    /\ \A k, l \in Taken(rs) : k # l => I!Own(rs[k].file) \cap I!Own(rs[l].file) = {}

ImportsInv ==
    /\ at \in [Clients -> {"idle", "validate", "insert"} \cup I!ToSet(I!Catalogue)]
    /\ answer \in [Clients -> {"none", "error", "accepted", "rejected", "conflict", "exists"}]
    /\ faults \in 0 .. MaxFaults
    /\ DOMAIN todo = Clients /\ DOMAIN inserted = Clients /\ DOMAIN known = Clients
    /\ DOMAIN asked \subseteq Clients
    /\ \A c \in DOMAIN asked : asked[c] \in [key : Keys, file : Sent]
    /\ \A c \in Clients : c \notin DOMAIN asked => at[c] = "idle" /\ answer[c] = "none"
    /\ \A c \in Clients : Delivering(at[c], asked[c], known[c], todo[c], inserted[c], stored)
    /\ \A c, d \in Clients : c # d => inserted[c] \cap inserted[d] = {}
    /\ \A c \in Clients : answer[c] \in {"accepted", "rejected"} =>
          I!Key(c) \in DOMAIN runs /\ runs[I!Key(c)] = [file |-> I!File(c), status |-> answer[c]]
    /\ RunsSound(runs)
    /\ stored = Brought(runs)

LEMMA CatalogueNamed ==
    /\ I!ToSet(I!Catalogue) = {"suppliers", "materials", "components"}
    /\ I!Ignored = {"suppliers", "materials", "components", "evidence_requirements"}
    /\ DOMAIN I!Catalogue = {1, 2, 3} /\ Len(I!Catalogue) = 3
    /\ I!Catalogue[1] = "suppliers" /\ I!Catalogue[2] = "materials" /\ I!Catalogue[3] = "components"
  BY DEF I!ToSet, I!Catalogue, I!Ignored

LEMMA SentTyped ==
    ASSUME I!ImportsAssumption, NEW f \in Sent
    PROVE  f.schema \in BOOLEAN /\ f.catalogue \in Seq(I!Items) /\ f.packaging \in Seq(I!Packagings)
  BY DEF I!ImportsAssumption, Sent

Pairs == {"packaging", "boms", "evidence_requirements"} \X STRING
Lines == {"bom_lines"} \X STRING \X STRING
AnyRow == I!Records \cup Pairs \cup Lines

LEMMA RowsOfPackaging ==
    ASSUME NEW p \in I!Packagings
    PROVE  /\ I!PackagingRows(p) \in Seq(AnyRow)
           /\ I!ToSet(I!PackagingRows(p)) =
                {<<"packaging", p.id>>, <<"boms", p.bom>>, <<"evidence_requirements", p.id>>}
                \cup {<<"bom_lines", p.bom, p.lines[i]>> : i \in DOMAIN p.lines}
  <1> DEFINE head == << <<"packaging", p.id>>, <<"boms", p.bom>> >>
             lines == [i \in DOMAIN p.lines |-> <<"bom_lines", p.bom, p.lines[i]>>]
             last == << <<"evidence_requirements", p.id>> >>
  <1>0. p.id \in STRING /\ p.bom \in STRING /\ p.lines \in Seq(STRING)
    BY DEF I!Packagings
  <1>1. /\ <<"packaging", p.id>> \in AnyRow /\ <<"boms", p.bom>> \in AnyRow
        /\ <<"evidence_requirements", p.id>> \in AnyRow
    BY <1>0 DEF AnyRow, Pairs
  <1>2. head \in Seq(AnyRow) /\ I!ToSet(head) = {<<"packaging", p.id>>, <<"boms", p.bom>>}
    BY <1>1 DEF I!ToSet
  <1>3. last \in Seq(AnyRow) /\ I!ToSet(last) = {<<"evidence_requirements", p.id>>}
    BY <1>1 DEF I!ToSet
  <1>4. \A i \in DOMAIN p.lines : <<"bom_lines", p.bom, p.lines[i]>> \in AnyRow
    <2>1. \A i \in DOMAIN p.lines : p.lines[i] \in STRING
      BY <1>0, ElementOfSeq, LenProperties
    <2>2. QED
      BY <1>0, <2>1 DEF AnyRow, Lines
  <1>5. lines \in Seq(AnyRow)
    <2>1. DOMAIN p.lines = 1 .. Len(p.lines) /\ Len(p.lines) \in Nat
      BY <1>0, LenProperties
    <2>2. QED
      BY <1>4, <2>1, IsASeq
  <1>6. I!ToSet(lines) = {<<"bom_lines", p.bom, p.lines[i]>> : i \in DOMAIN p.lines}
    BY DEF I!ToSet
  <1>7. I!PackagingRows(p) = head \o lines \o last
    BY DEF I!PackagingRows
  <1> HIDE DEF head, lines, last
  <1>8. PICK front : front = head \o lines
    OBVIOUS
  <1>9. front \in Seq(AnyRow) /\ I!ToSet(front) = I!ToSet(head) \cup I!ToSet(lines)
    BY <1>2, <1>5, <1>8, SetOfConcat
  <1>10. front \o last \in Seq(AnyRow) /\ I!ToSet(front \o last) = I!ToSet(front) \cup I!ToSet(last)
    BY <1>3, <1>9, SetOfConcat
  <1>11. I!PackagingRows(p) = front \o last
    BY <1>7, <1>8
  <1>12. QED
    BY <1>2, <1>3, <1>6, <1>9, <1>10, <1>11

LEMMA RowsOfFile ==
    ASSUME I!ImportsAssumption, NEW f \in Sent
    PROVE  /\ I!RowsOf(f) \in Seq(AnyRow)
           /\ Rows(f) = I!Ids(f) \cup UNION {I!ToSet(I!PackagingRows(f.packaging[i])) : i \in DOMAIN f.packaging}
           /\ I!Ids(f) \subseteq I!Records
           /\ \A i \in DOMAIN f.packaging : f.packaging[i] \in I!Packagings
  <1> DEFINE ids == [i \in DOMAIN f.catalogue |-> f.catalogue[i].id]
             bills == [i \in DOMAIN f.packaging |-> I!PackagingRows(f.packaging[i])]
  <1>1. /\ DOMAIN f.catalogue = 1 .. Len(f.catalogue) /\ Len(f.catalogue) \in Nat
        /\ DOMAIN f.packaging = 1 .. Len(f.packaging) /\ Len(f.packaging) \in Nat
        /\ \A i \in DOMAIN f.catalogue : f.catalogue[i] \in I!Items
        /\ \A i \in DOMAIN f.packaging : f.packaging[i] \in I!Packagings
    BY SentTyped, LenProperties, ElementOfSeq
  <1>2. \A i \in DOMAIN f.catalogue : f.catalogue[i].id \in I!Records
    BY <1>1 DEF I!Items
  <1>3. ids \in Seq(AnyRow) /\ I!ToSet(ids) = I!Ids(f)
    <2>1. ids \in Seq(AnyRow)
      BY <1>1, <1>2, IsASeq DEF AnyRow
    <2>2. QED
      BY <2>1 DEF I!ToSet, I!Ids
  <1>4. bills \in Seq(Seq(AnyRow)) /\ DOMAIN bills = DOMAIN f.packaging
    <2>1. \A i \in DOMAIN f.packaging : I!PackagingRows(f.packaging[i]) \in Seq(AnyRow)
      BY <1>1, RowsOfPackaging
    <2>2. QED
      BY <1>1, <2>1, IsASeq
  <1>5. /\ I!FlattenSeq(bills) \in Seq(AnyRow)
        /\ I!ToSet(I!FlattenSeq(bills)) = UNION {I!ToSet(bills[i]) : i \in DOMAIN bills}
    <2> HIDE DEF bills
    <2>1. QED
      BY <1>4, SetOfFlattened
  <1>6. I!RowsOf(f) = ids \o I!FlattenSeq(bills)
    BY DEF I!RowsOf
  <1>7. /\ I!RowsOf(f) \in Seq(AnyRow)
        /\ Rows(f) = I!Ids(f) \cup I!ToSet(I!FlattenSeq(bills))
    <2> HIDE DEF ids, bills
    <2>1. QED
      BY <1>3, <1>5, <1>6, SetOfConcat DEF Rows
  <1>8. \A i \in DOMAIN bills : bills[i] = I!PackagingRows(f.packaging[i])
    OBVIOUS
  <1>9. {I!ToSet(bills[i]) : i \in DOMAIN bills}
        = {I!ToSet(I!PackagingRows(f.packaging[i])) : i \in DOMAIN f.packaging}
    <2> HIDE DEF bills
    <2>1. QED
      BY <1>4, <1>8
  <1>10. I!Ids(f) \subseteq I!Records
    BY <1>2 DEF I!Ids
  <1> HIDE DEF bills, ids
  <1>11. QED
    BY <1>1, <1>5, <1>7, <1>9, <1>10

(* No row of a file is of import_runs, and a requirement of evidence comes *)
(* with the packaging it is for.                                           *)
LEMMA RowFacts ==
    ASSUME I!ImportsAssumption, NEW f \in Sent
    PROVE  /\ I!RowsOf(f) \in Seq(Rows(f))
           /\ \A r \in Rows(f) : r[1] # "import_runs"
           /\ \A r \in I!Own(f) : r[1] \in I!Ignored =>
                 <<"packaging", r[2]>> \in I!Own(f) /\ <<"packaging", r[2]>>[1] \notin I!Ignored
  <1>1. I!RowsOf(f) \in Seq(Rows(f))
    <2>1. /\ DOMAIN I!RowsOf(f) = 1 .. Len(I!RowsOf(f)) /\ Len(I!RowsOf(f)) \in Nat
          /\ I!RowsOf(f) = [i \in 1 .. Len(I!RowsOf(f)) |-> I!RowsOf(f)[i]]
      BY RowsOfFile, LenProperties
    <2>2. \A i \in 1 .. Len(I!RowsOf(f)) : I!RowsOf(f)[i] \in Rows(f)
      BY <2>1 DEF Rows, I!ToSet
    <2>3. QED
      BY <2>1, <2>2, IsASeq
  <1>2. Rows(f) \subseteq AnyRow
    <2>1. I!RowsOf(f) \in Seq(AnyRow)
      BY RowsOfFile
    <2>2. QED
      BY <2>1, LenProperties, ElementOfSeq DEF Rows, I!ToSet
  <1>3. \A r \in AnyRow : r[1] # "import_runs"
    BY CatalogueNamed DEF AnyRow, I!Records, Pairs, Lines
  <1>4. ASSUME NEW r \in I!Own(f), r[1] \in I!Ignored
        PROVE  <<"packaging", r[2]>> \in I!Own(f)
    <2>1. r \in Rows(f) /\ r[1] = "evidence_requirements"
      BY <1>4, CatalogueNamed DEF I!Own, Rows
    <2>2. r \notin I!Ids(f)
      BY <2>1, RowsOfFile, CatalogueNamed DEF I!Records
    <2>3. PICK i \in DOMAIN f.packaging : r \in I!ToSet(I!PackagingRows(f.packaging[i]))
      BY <2>1, <2>2, RowsOfFile
    <2>4. PICK p \in I!Packagings : p = f.packaging[i]
      BY RowsOfFile
    <2>5. r = <<"evidence_requirements", p.id>>
      BY <2>1, <2>3, <2>4, RowsOfPackaging
    <2>6. <<"packaging", p.id>> \in I!ToSet(I!PackagingRows(p))
      BY RowsOfPackaging
    <2>7. <<"packaging", p.id>> \in Rows(f)
      BY <2>4, <2>6, RowsOfFile
    <2>8. QED
      BY <2>5, <2>7, CatalogueNamed DEF I!Own, Rows
  <1>5. QED
    BY <1>1, <1>2, <1>3, <1>4, CatalogueNamed

-----------------------------------------------------------------------------
(* Imports: every step keeps what is stored and under way.                 *)

LEMMA Consed ==
    ASSUME NEW Row, NEW a \in Row, NEW s \in Seq(Row)
    PROVE  /\ <<a>> \o s # <<>>
           /\ Head(<<a>> \o s) = a /\ Tail(<<a>> \o s) = s
           /\ <<a>> \o s \in Seq(Row)
  <1>1. <<a>> \in Seq(Row) /\ Len(<<a>>) = 1 /\ <<a>>[1] = a
    OBVIOUS
  <1> DEFINE t == <<a>> \o s
  <1>2. /\ t \in Seq(Row) /\ Len(t) = 1 + Len(s) /\ Len(s) \in Nat
        /\ t[1] = a /\ \A i \in 1 .. Len(s) : t[i + 1] = s[i]
    BY <1>1, ConcatProperties, LenProperties
  <1> HIDE DEF t
  <1>3. t # <<>> /\ Head(t) = a
    BY <1>2, EmptySeq, HeadTailProperties
  <1>4. Tail(t) \in Seq(Row) /\ Len(Tail(t)) = Len(s) /\ \A i \in 1 .. Len(Tail(t)) : Tail(t)[i] = t[i + 1]
    BY <1>2, <1>3, HeadTailProperties
  <1>5. Tail(t) = s
    BY <1>2, <1>4, SeqEqual
  <1>6. QED
    BY <1>2, <1>3, <1>5 DEF t

LEMMA Popped ==
    ASSUME NEW Row, NEW s \in Seq(Row), s # <<>>
    PROVE  /\ Head(s) \in Row /\ Tail(s) \in Seq(Row)
           /\ I!ToSet(s) = {Head(s)} \cup I!ToSet(Tail(s))
  <1>1. /\ Head(s) = s[1] /\ Head(s) \in Row /\ Tail(s) \in Seq(Row)
        /\ Len(s) \in Nat /\ Len(s) # 0 /\ Len(Tail(s)) = Len(s) - 1
        /\ \A i \in 1 .. Len(Tail(s)) : Tail(s)[i] = s[i + 1]
    BY HeadTailProperties, EmptySeq, LenProperties
  <1>2. DOMAIN s = 1 .. Len(s) /\ DOMAIN Tail(s) = 1 .. Len(s) - 1
    BY <1>1, LenProperties
  <1> DEFINE t == Tail(s)
  <1> HIDE DEF t
  <1>3. ASSUME NEW x \in I!ToSet(s) PROVE x \in {Head(s)} \cup I!ToSet(t)
    <2>1. PICK i \in 1 .. Len(s) : x = s[i]
      BY <1>2 DEF I!ToSet
    <2>2. CASE i = 1
      BY <1>1, <2>1, <2>2
    <2>3. CASE i # 1
      <3>1. i - 1 \in DOMAIN t /\ t[i - 1] = x
        BY <1>1, <1>2, <2>1, <2>3 DEF t
      <3>2. QED
        BY <3>1 DEF I!ToSet
    <2>4. QED
      BY <2>2, <2>3
  <1>4. Head(s) \in I!ToSet(s)
    BY <1>1, <1>2 DEF I!ToSet
  <1>5. ASSUME NEW i \in DOMAIN t PROVE t[i] \in I!ToSet(s)
    <2>1. i + 1 \in DOMAIN s /\ t[i] = s[i + 1]
      BY <1>1, <1>2 DEF t
    <2>2. QED
      BY <2>1 DEF I!ToSet
  <1>6. QED
    BY <1>1, <1>3, <1>4, <1>5 DEF I!ToSet, t

LEMMA PlanFacts ==
    ASSUME I!ImportsAssumption, NEW c, asked[c] \in [key : Keys, file : Sent]
    PROVE  /\ I!Plan(c) \in Seq(AllRows) /\ I!Plan(c) # <<>>
           /\ Head(I!Plan(c)) = RunRow(asked[c].key)
           /\ Tail(I!Plan(c)) \in Seq(AllRows)
           /\ I!ToSet(Tail(I!Plan(c))) = Body(asked[c].file, known[c])
  <1> DEFINE f == asked[c].file
             rows == IF I!Rejected(f, known[c]) THEN <<>> ELSE I!RowsOf(f)
  <1>1. f \in Sent /\ RunRow(asked[c].key) \in AllRows
    BY DEF AllRows
  <1>2. I!RowsOf(f) \in Seq(AllRows)
    <2>1. Rows(f) \subseteq AllRows
      BY <1>1 DEF AllRows
    <2>2. I!RowsOf(f) \in Seq(Rows(f))
      BY <1>1, RowFacts
    <2>3. Len(I!RowsOf(f)) \in Nat /\ \A i \in 1 .. Len(I!RowsOf(f)) : I!RowsOf(f)[i] \in AllRows
      BY <2>1, <2>2, LenProperties, ElementOfSeq
    <2>4. I!RowsOf(f) = [i \in 1 .. Len(I!RowsOf(f)) |-> I!RowsOf(f)[i]]
      BY <2>2, LenProperties
    <2>5. QED
      BY <2>3, <2>4, IsASeq
  <1>3. <<>> \in Seq(AllRows) /\ I!ToSet(<<>>) = {}
    BY EmptySeq DEF I!ToSet
  <1>4. rows \in Seq(AllRows) /\ I!ToSet(rows) = Body(f, known[c])
    BY <1>2, <1>3 DEF Body, Rows
  <1>5. I!Plan(c) = <<RunRow(asked[c].key)>> \o rows
    BY DEF I!Plan, I!File, I!Key, RunRow
  <1> HIDE DEF rows
  <1>6. PICK row \in AllRows : row = RunRow(asked[c].key)
    BY <1>1
  <1>7. /\ <<row>> \o rows # <<>> /\ <<row>> \o rows \in Seq(AllRows)
        /\ Head(<<row>> \o rows) = row /\ Tail(<<row>> \o rows) = rows
    BY <1>4, <1>6, Consed
  <1>8. QED
    BY <1>4, <1>5, <1>6, <1>7

(* What others commit disturbs no delivery that shares no row with it.     *)
LEMMA Undisturbed ==
    ASSUME NEW w, NEW a, NEW k, NEW t, NEW b, NEW st, NEW st2,
           Delivering(w, a, k, t, b, st), st \subseteq st2, b \cap st2 = {}
    PROVE  Delivering(w, a, k, t, b, st2)
  BY DEF Delivering, Begun

LEMMA Moved ==
    ASSUME ImportsInv, NEW c \in Clients, c \in DOMAIN asked,
           at' \in [Clients -> {"idle", "validate", "insert"} \cup I!ToSet(I!Catalogue)],
           DOMAIN known' = Clients, DOMAIN todo' = Clients, DOMAIN inserted' = Clients,
           \A d \in Clients \ {c} : /\ at'[d] = at[d] /\ known'[d] = known[d]
                                    /\ todo'[d] = todo[d] /\ inserted'[d] = inserted[d],
           Delivering(at'[c], asked[c], known'[c], todo'[c], inserted'[c], stored),
           \A d \in Clients \ {c} : inserted'[c] \cap inserted[d] = {},
           UNCHANGED <<stored, runs, asked, answer, faults>>
    PROVE  ImportsInv'
  <1>1. \A d \in Clients : Delivering(at'[d], asked[d], known'[d], todo'[d], inserted'[d], stored)
    BY DEF ImportsInv
  <1>2. \A d, e \in Clients : d # e => inserted'[d] \cap inserted'[e] = {}
    BY DEF ImportsInv
  <1>3. \A d \in Clients : d \notin DOMAIN asked => at'[d] = "idle" /\ answer[d] = "none"
    BY DEF ImportsInv
  <1>4. QED
    BY <1>1, <1>2, <1>3 DEF ImportsInv, I!Key, I!File

LEMMA Ended ==
    ASSUME ImportsInv, NEW c \in Clients, c \in DOMAIN asked, NEW what, I!Answer(c, what),
           what \in {"none", "error", "accepted", "rejected", "conflict", "exists"},
           faults' \in 0 .. MaxFaults, asked' = asked,
           RunsSound(runs'), stored' = Brought(runs'), stored \subseteq stored',
           \A k \in DOMAIN runs : k \in DOMAIN runs' /\ runs'[k] = runs[k],
           \A d \in Clients \ {c} : inserted[d] \cap stored' = {},
           what \in {"accepted", "rejected"} =>
              asked[c].key \in DOMAIN runs' /\ runs'[asked[c].key] = [file |-> asked[c].file, status |-> what]
    PROVE  ImportsInv'
  <1>1. /\ answer' \in [Clients -> {"none", "error", "accepted", "rejected", "conflict", "exists"}]
        /\ at' \in [Clients -> {"idle", "validate", "insert"} \cup I!ToSet(I!Catalogue)]
        /\ DOMAIN known' = Clients /\ DOMAIN todo' = Clients /\ DOMAIN inserted' = Clients
        /\ at'[c] = "idle" /\ inserted'[c] = {} /\ todo'[c] = <<>> /\ answer'[c] = what
        /\ \A d \in Clients \ {c} : /\ at'[d] = at[d] /\ known'[d] = known[d] /\ answer'[d] = answer[d]
                                    /\ todo'[d] = todo[d] /\ inserted'[d] = inserted[d]
    BY DEF ImportsInv, I!Answer
  <1>2. ASSUME NEW d \in Clients
        PROVE  Delivering(at'[d], asked[d], known'[d], todo'[d], inserted'[d], stored')
    <2>1. CASE d = c
      BY <1>1, <2>1, EmptySeq DEF Delivering
    <2>2. CASE d # c
      BY <1>1, <2>2, Undisturbed DEF ImportsInv
    <2>3. QED
      BY <2>1, <2>2
  <1>3. \A d, e \in Clients : d # e => inserted'[d] \cap inserted'[e] = {}
    BY <1>1 DEF ImportsInv
  <1>4. \A d \in Clients : d \notin DOMAIN asked => at'[d] = "idle" /\ answer'[d] = "none"
    BY <1>1 DEF ImportsInv
  <1>5. ASSUME NEW d \in Clients, answer'[d] \in {"accepted", "rejected"}
        PROVE  /\ asked[d].key \in DOMAIN runs'
               /\ runs'[asked[d].key] = [file |-> asked[d].file, status |-> answer'[d]]
    BY <1>1, <1>5 DEF ImportsInv, I!Key, I!File
  <1>6. QED
    BY <1>1, <1>2, <1>3, <1>4, <1>5 DEF ImportsInv, I!Key, I!File

LEMMA AskStep ==
    ASSUME ImportsInv, NEW c \in Clients, I!Ask(c)
    PROVE  ImportsInv'
  <1>1. PICK k \in Keys, f \in Sent :
           asked' = [d \in DOMAIN asked \cup {c} |-> IF d = c THEN [key |-> k, file |-> f] ELSE asked[d]]
    BY DEF I!Ask, Sent
  <1>2. /\ DOMAIN asked' = DOMAIN asked \cup {c} /\ asked'[c] = [key |-> k, file |-> f]
        /\ \A d \in DOMAIN asked : d # c /\ asked'[d] = asked[d]
        /\ UNCHANGED <<stored, runs, at, known, todo, inserted, answer, faults>>
    BY <1>1 DEF I!Ask
  <1>3. at[c] = "idle" /\ answer[c] = "none"
    BY DEF ImportsInv, I!Ask
  <1>4. ASSUME NEW d \in Clients
        PROVE  Delivering(at[d], asked'[d], known[d], todo[d], inserted[d], stored)
    <2>1. CASE d \in DOMAIN asked
      BY <1>2, <2>1 DEF ImportsInv
    <2>2. CASE d \notin DOMAIN asked
      BY <2>2 DEF ImportsInv, Delivering
    <2>3. QED
      BY <2>1, <2>2
  <1>5. \A d \in DOMAIN asked' : asked'[d] \in [key : Keys, file : Sent]
    BY <1>2 DEF ImportsInv
  <1>6. ASSUME NEW d \in Clients, answer[d] \in {"accepted", "rejected"}
        PROVE  asked'[d].key \in DOMAIN runs /\ runs[asked'[d].key] = [file |-> asked'[d].file, status |-> answer[d]]
    <2>1. d \in DOMAIN asked
      BY <1>6 DEF ImportsInv
    <2>2. QED
      BY <1>2, <1>6, <2>1 DEF ImportsInv, I!Key, I!File
  <1>7. QED
    BY <1>2, <1>3, <1>4, <1>5, <1>6 DEF ImportsInv, I!Key, I!File

(* A delivery that is idle or still reading, or whose plan has just been   *)
(* made, has brought nothing.                                              *)
LEMMA ReadingSteps ==
    ASSUME I!ImportsAssumption, ImportsInv, NEW c \in Clients,
           I!LookUp(c) \/ (\E i \in DOMAIN I!Catalogue : I!Read(c, i)) \/ I!Validate(c)
    PROVE  ImportsInv'
  <1>1. CASE I!LookUp(c)
    <2>1. c \in DOMAIN asked /\ at[c] = "idle"
      BY <1>1 DEF I!LookUp, I!Asking
    <2>2. inserted[c] = {} /\ todo[c] = <<>> /\ inserted' = inserted /\ todo' = todo /\ known' = known
      BY <1>1, <2>1 DEF ImportsInv, Delivering, I!LookUp
    <2>3. /\ at' \in [Clients -> {"idle", "validate", "insert"} \cup I!ToSet(I!Catalogue)]
          /\ at'[c] = "suppliers" /\ \A d \in Clients \ {c} : at'[d] = at[d]
      BY <1>1, CatalogueNamed DEF ImportsInv, I!LookUp
    <2>4. Delivering(at'[c], asked[c], known'[c], todo'[c], inserted'[c], stored)
      BY <2>2, <2>3, EmptySeq DEF Delivering
    <2>5. UNCHANGED <<stored, runs, asked, answer, faults>>
      BY <1>1 DEF I!LookUp, I!askVars
    <2>6. \A d \in Clients \ {c} : inserted'[c] \cap inserted[d] = {}
      BY <2>2
    <2>7. DOMAIN known' = Clients /\ DOMAIN todo' = Clients /\ DOMAIN inserted' = Clients
      BY <2>2 DEF ImportsInv
    <2>8. QED
      BY <2>1, <2>2, <2>3, <2>4, <2>5, <2>6, <2>7, Moved
  <1>2. ASSUME NEW i \in DOMAIN I!Catalogue, I!Read(c, i) PROVE ImportsInv'
    <2>1. at[c] \notin {"idle", "insert"}
      BY <1>2, CatalogueNamed DEF I!Read
    <2>2. c \in DOMAIN asked /\ inserted[c] = {} /\ todo[c] = <<>> /\ inserted' = inserted /\ todo' = todo
      BY <1>2, <2>1 DEF ImportsInv, Delivering, I!Read
    <2>3. /\ at' \in [Clients -> {"idle", "validate", "insert"} \cup I!ToSet(I!Catalogue)]
          /\ at'[c] # "insert" /\ \A d \in Clients \ {c} : at'[d] = at[d]
      <3>1. (IF i < Len(I!Catalogue) THEN I!Catalogue[i + 1] ELSE "validate")
               \in {"validate"} \cup I!ToSet(I!Catalogue)
        BY <1>2, CatalogueNamed
      <3>2. QED
        BY <1>2, <3>1, CatalogueNamed DEF ImportsInv, I!Read
    <2>4. Delivering(at'[c], asked[c], known'[c], todo'[c], inserted'[c], stored)
      BY <2>2, <2>3, EmptySeq DEF Delivering
    <2>5. UNCHANGED <<stored, runs, asked, answer, faults>>
      BY <1>2 DEF I!Read, I!askVars
    <2>6. \A d \in Clients \ {c} : inserted'[c] \cap inserted[d] = {} /\ known'[d] = known[d]
      BY <1>2, <2>2 DEF I!Read, ImportsInv
    <2>7. DOMAIN known' = Clients /\ DOMAIN todo' = Clients /\ DOMAIN inserted' = Clients
      BY <1>2, <2>2 DEF ImportsInv, I!Read
    <2>8. QED
      BY <2>2, <2>3, <2>4, <2>5, <2>6, <2>7, Moved
  <1>3. CASE I!Validate(c)
    <2>1. c \in DOMAIN asked /\ inserted[c] = {} /\ inserted' = inserted /\ known' = known
      BY <1>3 DEF ImportsInv, Delivering, I!Validate
    <2>2. /\ at' \in [Clients -> {"idle", "validate", "insert"} \cup I!ToSet(I!Catalogue)]
          /\ at'[c] = "insert" /\ \A d \in Clients \ {c} : at'[d] = at[d]
      BY <1>3 DEF ImportsInv, I!Validate
    <2>3. /\ todo'[c] = I!Plan(c) /\ DOMAIN todo' = Clients
          /\ \A d \in Clients \ {c} : todo'[d] = todo[d]
      BY <1>3 DEF ImportsInv, I!Validate
    <2>4. asked[c] \in [key : Keys, file : Sent]
      BY <2>1 DEF ImportsInv
    <2>5. Begun(asked[c], known'[c], todo'[c], inserted'[c], stored)
      BY <2>1, <2>3, <2>4, PlanFacts DEF Begun
    <2>6. Delivering(at'[c], asked[c], known'[c], todo'[c], inserted'[c], stored)
      BY <2>1, <2>2, <2>3, <2>4, <2>5, PlanFacts DEF Delivering
    <2>7. UNCHANGED <<stored, runs, asked, answer, faults>>
      BY <1>3 DEF I!Validate, I!askVars
    <2>8. \A d \in Clients \ {c} : inserted'[c] \cap inserted[d] = {}
      BY <2>1
    <2>9. DOMAIN known' = Clients /\ DOMAIN inserted' = Clients
      BY <2>1 DEF ImportsInv
    <2>10. QED
      BY <2>1, <2>2, <2>3, <2>6, <2>7, <2>8, <2>9, Moved
  <1>4. QED
    BY <1>1, <1>2, <1>3

(* The head of what is left is the row of the run, while nothing has been  *)
(* inserted, or a row of the file.                                         *)
LEMMA NextRow ==
    ASSUME I!ImportsAssumption, ImportsInv, NEW c \in Clients, I!Inserting(c)
    PROVE  LET row == RunRow(asked[c].key)
               body == Body(asked[c].file, known[c])
               rest == Tail(todo[c])
               b == inserted[c]
           IN  /\ c \in DOMAIN asked /\ asked[c] \in [key : Keys, file : Sent]
               /\ todo[c] \in Seq(AllRows) /\ rest \in Seq(AllRows)
               /\ b \cap stored = {}
               /\ \A r \in body : r[1] # "import_runs"
               /\ \/ /\ b = {} /\ I!Next1(c) = row /\ I!ToSet(rest) = body
                  \/ /\ row \in b /\ b \subseteq {row} \cup body
                     /\ I!Next1(c) \in body /\ I!ToSet(rest) \subseteq body
                     /\ \A r \in body : \/ r \in b \cup I!ToSet(rest) \cup {I!Next1(c)}
                                        \/ r[1] \in I!Ignored /\ r \in stored
  <1>1. at[c] = "insert" /\ todo[c] # <<>>
    BY DEF I!Inserting
  <1>2. c \in DOMAIN asked /\ asked[c] \in [key : Keys, file : Sent]
    BY <1>1 DEF ImportsInv
  <1>3. /\ todo[c] \in Seq(AllRows) /\ inserted[c] \cap stored = {}
        /\ Begun(asked[c], known[c], todo[c], inserted[c], stored)
    BY <1>1 DEF ImportsInv, Delivering
  <1>4. Tail(todo[c]) \in Seq(AllRows) /\ I!ToSet(todo[c]) = {Head(todo[c])} \cup I!ToSet(Tail(todo[c]))
    BY <1>1, <1>3, Popped
  <1>5. \A r \in Body(asked[c].file, known[c]) : r[1] # "import_runs"
    <2>1. asked[c].file \in Sent
      BY <1>2
    <2>2. QED
      BY <2>1, RowFacts DEF Body
  <1>6. QED
    BY <1>2, <1>3, <1>4, <1>5 DEF Begun, I!Next1

LEMMA InsertSteps ==
    ASSUME I!ImportsAssumption, ImportsInv, NEW c \in Clients, I!Insert(c) \/ I!Skip(c)
    PROVE  ImportsInv'
  <1> DEFINE row == RunRow(asked[c].key)
             body == Body(asked[c].file, known[c])
             h == I!Next1(c)
             b == inserted[c]
             rest == Tail(todo[c])
  <1>0. I!Inserting(c)
    BY DEF I!Insert, I!Skip, I!Exists
  <1>1. /\ c \in DOMAIN asked /\ todo[c] \in Seq(AllRows) /\ rest \in Seq(AllRows)
        /\ b \cap stored = {} /\ at[c] = "insert"
        /\ \/ b = {} /\ h = row /\ I!ToSet(rest) = body
           \/ /\ row \in b /\ b \subseteq {row} \cup body
              /\ h \in body /\ I!ToSet(rest) \subseteq body
              /\ \A r \in body : \/ r \in b \cup I!ToSet(rest) \cup {h}
                                 \/ r[1] \in I!Ignored /\ r \in stored
    BY <1>0, NextRow DEF I!Inserting
  <1>2. /\ todo'[c] = rest /\ DOMAIN todo' = Clients
        /\ \A d \in Clients \ {c} : todo'[d] = todo[d]
        /\ UNCHANGED <<at, known, stored, runs, asked, answer, faults>>
    BY DEF I!Insert, I!Skip, I!askVars, ImportsInv
  <1>3. row[1] = "import_runs" /\ "import_runs" \notin I!Ignored
    BY CatalogueNamed DEF RunRow
  <1>4. CASE I!Insert(c)
    <2>1. /\ inserted'[c] = b \cup {h} /\ DOMAIN inserted' = Clients
          /\ \A d \in Clients \ {c} : inserted'[d] = inserted[d]
      BY <1>4 DEF I!Insert, ImportsInv
    <2>2. h \notin stored /\ \A d \in Clients \ {c} : h \notin inserted[d]
      BY <1>0, <1>4 DEF I!Insert, I!Exists, I!Waits
    <2>3. Begun(asked[c], known[c], rest, b \cup {h}, stored)
      <3> HIDE DEF h, rest
      <3>1. row \in b \cup {h} /\ b \cup {h} \subseteq {row} \cup body /\ I!ToSet(rest) \subseteq body
        BY <1>1
      <3>2. \A r \in body : r \in (b \cup {h}) \cup I!ToSet(rest) \/ (r[1] \in I!Ignored /\ r \in stored)
        BY <1>1
      <3>3. QED
        BY <3>1, <3>2 DEF Begun
    <2>4. Delivering(at'[c], asked[c], known'[c], todo'[c], inserted'[c], stored)
      BY <1>1, <1>2, <2>1, <2>2, <2>3 DEF Delivering
    <2>5. \A d \in Clients \ {c} : inserted'[c] \cap inserted[d] = {}
      BY <2>1, <2>2 DEF ImportsInv
    <2>6. at' \in [Clients -> {"idle", "validate", "insert"} \cup I!ToSet(I!Catalogue)] /\ DOMAIN known' = Clients
      BY <1>2 DEF ImportsInv
    <2>7. QED
      BY <1>1, <1>2, <2>1, <2>4, <2>5, <2>6, Moved
  <1>5. CASE I!Skip(c)
    <2>1. h \in stored \cup b /\ h[1] \in I!Ignored /\ inserted' = inserted
      BY <1>5 DEF I!Skip, I!Exists
    <2>2. Begun(asked[c], known[c], rest, b, stored)
      <3> HIDE DEF h, rest
      <3>1. row \in b /\ b \subseteq {row} \cup body /\ I!ToSet(rest) \subseteq body
        BY <1>1, <1>3, <2>1
      <3>2. \A r \in body : r \in b \cup I!ToSet(rest) \/ (r[1] \in I!Ignored /\ r \in stored)
        BY <1>1, <1>3, <2>1
      <3>3. QED
        BY <3>1, <3>2 DEF Begun
    <2>3. Delivering(at'[c], asked[c], known'[c], todo'[c], inserted'[c], stored)
      BY <1>1, <1>2, <2>1, <2>2 DEF Delivering
    <2>4. \A d \in Clients \ {c} : inserted'[c] \cap inserted[d] = {}
      BY <2>1 DEF ImportsInv
    <2>5. /\ at' \in [Clients -> {"idle", "validate", "insert"} \cup I!ToSet(I!Catalogue)]
          /\ DOMAIN known' = Clients /\ DOMAIN inserted' = Clients
      BY <1>2, <2>1 DEF ImportsInv
    <2>6. QED
      BY <1>1, <1>2, <2>1, <2>3, <2>4, <2>5, Moved
  <1>6. QED
    BY <1>4, <1>5

(* A transaction that is given up leaves what is committed as it is.       *)
LEMMA GivenUp ==
    ASSUME ImportsInv, NEW c \in Clients, c \in DOMAIN asked, NEW what, I!Answer(c, what),
           what \in {"none", "error", "accepted", "rejected", "conflict", "exists"},
           what \in {"accepted", "rejected"} =>
              asked[c].key \in DOMAIN runs /\ runs[asked[c].key] = [file |-> asked[c].file, status |-> what],
           faults' \in 0 .. MaxFaults, UNCHANGED I!askVars
    PROVE  ImportsInv'
  <1>1. asked' = asked /\ runs' = runs /\ stored' = stored
    BY DEF I!askVars
  <1>2. RunsSound(runs') /\ stored' = Brought(runs') /\ stored \subseteq stored'
    BY <1>1 DEF ImportsInv
  <1>3. \A d \in Clients \ {c} : inserted[d] \cap stored' = {}
    BY <1>1 DEF ImportsInv, Delivering
  <1>4. \A k \in DOMAIN runs : k \in DOMAIN runs' /\ runs'[k] = runs[k]
    BY <1>1
  <1>5. QED
    BY <1>1, <1>2, <1>3, <1>4, Ended

LEMMA EndingSteps ==
    ASSUME I!ImportsAssumption, ImportsInv, NEW c \in Clients,
           I!Replay(c) \/ I!Refuse(c) \/ I!Deadlock(c) \/ I!Fail(c)
    PROVE  ImportsInv'
  <1>1. CASE I!Replay(c)
    <2> DEFINE run == runs[asked[c].key]
               what == IF run.file = asked[c].file THEN run.status ELSE "conflict"
    <2>1. /\ c \in DOMAIN asked /\ asked[c].key \in DOMAIN runs /\ I!Answer(c, what)
          /\ faults' = faults /\ UNCHANGED I!askVars
      BY <1>1 DEF I!Replay, I!Asking, I!Key, I!File
    <2>2. run \in [file : Sent, status : {"accepted", "rejected"}]
      BY <2>1 DEF ImportsInv, RunsSound
    <2>3. what \in {"accepted", "rejected"} => run = [file |-> asked[c].file, status |-> what]
      BY <2>2
    <2>4. what \in {"none", "error", "accepted", "rejected", "conflict", "exists"}
      BY <2>2
    <2>5. faults' \in 0 .. MaxFaults
      BY <2>1 DEF ImportsInv
    <2> HIDE DEF what
    <2>6. QED
      BY <2>1, <2>3, <2>4, <2>5, GivenUp
  <1>2. CASE I!Refuse(c)
    <2>1. PICK what \in {"exists", "error"} : I!Answer(c, what)
      BY <1>2 DEF I!Refuse
    <2>2. at[c] # "idle" /\ faults' = faults /\ UNCHANGED I!askVars
      BY <1>2 DEF I!Refuse, I!Exists, I!Inserting
    <2>3. c \in DOMAIN asked /\ faults' \in 0 .. MaxFaults
      BY <2>2 DEF ImportsInv
    <2>4. QED
      BY <2>1, <2>2, <2>3, GivenUp
  <1>3. CASE I!Deadlock(c)
    <2>1. at[c] # "idle" /\ I!Answer(c, "error") /\ faults' = faults /\ UNCHANGED I!askVars
      BY <1>3 DEF I!Deadlock, I!Waits, I!Inserting
    <2>2. c \in DOMAIN asked /\ faults' \in 0 .. MaxFaults
      BY <2>1 DEF ImportsInv
    <2>3. QED
      BY <2>1, <2>2, GivenUp
  <1>4. CASE I!Fail(c)
    <2>1. at[c] # "idle" /\ I!Answer(c, "error") /\ faults' \in 0 .. MaxFaults /\ UNCHANGED I!askVars
      BY <1>4 DEF I!Fail, ImportsInv, I!ImportsAssumption
    <2>2. c \in DOMAIN asked
      BY <2>1 DEF ImportsInv
    <2>3. QED
      BY <2>1, <2>2, GivenUp
  <1>5. QED
    BY <1>1, <1>2, <1>3, <1>4

LEMMA OneMoreRun ==
    ASSUME NEW rs, NEW k, k \notin DOMAIN rs, NEW f, NEW s, NEW more,
           DOMAIN more = DOMAIN rs \cup {k}, more[k] = [file |-> f, status |-> s],
           \A l \in DOMAIN rs : more[l] = rs[l]
    PROVE  /\ Taken(more) = Taken(rs) \cup (IF s = "accepted" THEN {k} ELSE {})
           /\ Brought(more) = Brought(rs) \cup {RunRow(k)} \cup (IF s = "accepted" THEN Rows(f) ELSE {})
  <1>1. /\ DOMAIN more = DOMAIN rs \cup {k}
        /\ more[k] = [file |-> f, status |-> s] /\ \A l \in DOMAIN rs : l # k /\ more[l] = rs[l]
    OBVIOUS
  <1>2. Taken(more) = Taken(rs) \cup (IF s = "accepted" THEN {k} ELSE {})
    BY <1>1 DEF Taken
  <1>3. Taken(rs) \subseteq DOMAIN rs
    BY DEF Taken
  <1>4. {RunRow(l) : l \in DOMAIN more} = {RunRow(l) : l \in DOMAIN rs} \cup {RunRow(k)}
    BY <1>1
  <1>5. UNION {Rows(more[l].file) : l \in Taken(more)}
        = (UNION {Rows(rs[l].file) : l \in Taken(rs)}) \cup (IF s = "accepted" THEN Rows(f) ELSE {})
    <2> DEFINE old == UNION {Rows(rs[l].file) : l \in Taken(rs)}
               new == UNION {Rows(more[l].file) : l \in Taken(more)}
               own == IF s = "accepted" THEN Rows(f) ELSE {}
    <2>1. \A l \in Taken(rs) : l \in Taken(more) /\ Rows(more[l].file) = Rows(rs[l].file)
      BY <1>1, <1>2, <1>3
    <2>2. Rows(more[k].file) = Rows(f)
      BY <1>1
    <2>3. old \subseteq new
      BY <2>1
    <2>4. own \subseteq new
      BY <1>2, <2>2
    <2>5. ASSUME NEW l \in Taken(more) PROVE Rows(more[l].file) \subseteq old \cup own
      <3>1. CASE l \in Taken(rs)
        BY <2>1, <3>1
      <3>2. CASE l \notin Taken(rs)
        <4>1. l = k /\ s = "accepted"
          BY <1>2, <3>2
        <4>2. QED
          BY <2>2, <4>1
      <3>3. QED
        BY <3>1, <3>2
    <2>6. new \subseteq old \cup own
      BY <2>5
    <2>7. QED
      BY <2>3, <2>4, <2>6
  <1>6. QED
    BY <1>1, <1>2, <1>4, <1>5 DEF Brought

(* Two files that were accepted share no packaging: the second one would   *)
(* have been refused at the first row of it.                               *)
LEMMA CommitStep ==
    ASSUME I!ImportsAssumption, ImportsInv, NEW c \in Clients, I!Commit(c)
    PROVE  ImportsInv'
  <1> DEFINE k == asked[c].key
             f == asked[c].file
             s == Status(f, known[c])
             body == Body(f, known[c])
             b == inserted[c]
  <1>1. /\ at[c] = "insert" /\ c \in DOMAIN asked /\ k \in Keys /\ f \in Sent
        /\ s \in {"accepted", "rejected"} /\ asked' = asked
    BY DEF I!Commit, ImportsInv, Status
  <1>2. /\ RunRow(k) \in b /\ b \subseteq {RunRow(k)} \cup body /\ b \cap stored = {}
        /\ \A r \in body : r \in b \/ (r[1] \in I!Ignored /\ r \in stored)
    <2>1. todo[c] = <<>> /\ I!ToSet(<<>>) = {}
      BY DEF I!Commit, I!ToSet
    <2>2. Begun(asked[c], known[c], <<>>, b, stored) /\ b \cap stored = {}
      BY <1>1, <2>1 DEF ImportsInv, Delivering
    <2>3. QED
      BY <2>1, <2>2 DEF Begun
  <1>3. PICK more : more = [l \in DOMAIN runs \cup {k} |->
                               IF l = k THEN [file |-> f, status |-> s] ELSE runs[l]]
    OBVIOUS
  <1>4. runs' = more /\ stored' = stored \cup b
    BY <1>3 DEF I!Commit, I!Key, I!File, Status
  <1>5. k \notin DOMAIN runs
    <2>1. k \in DOMAIN runs => RunRow(k) \in stored
      BY DEF ImportsInv, Brought
    <2>2. QED
      BY <1>2, <2>1
  <1>6. /\ DOMAIN more = DOMAIN runs \cup {k}
        /\ more[k] = [file |-> f, status |-> s] /\ \A l \in DOMAIN runs : more[l] = runs[l]
        /\ Taken(more) = Taken(runs) \cup (IF s = "accepted" THEN {k} ELSE {})
        /\ Brought(more) = stored \cup {RunRow(k)} \cup (IF s = "accepted" THEN Rows(f) ELSE {})
    <2> HIDE DEF s, f, k
    <2>1. /\ DOMAIN more = DOMAIN runs \cup {k}
          /\ more[k] = [file |-> f, status |-> s] /\ \A l \in DOMAIN runs : more[l] = runs[l]
      BY <1>3, <1>5
    <2>2. stored = Brought(runs)
      BY DEF ImportsInv
    <2>3. QED
      BY <1>5, <2>1, <2>2, OneMoreRun
  <1>7. body = IF s = "accepted" THEN Rows(f) ELSE {}
    BY DEF Body, Status
  <1>8. stored' = Brought(more)
    BY <1>2, <1>4, <1>6, <1>7
  <1>9. ASSUME s = "accepted", NEW l \in Taken(runs)
        PROVE  I!Own(f) \cap I!Own(runs[l].file) = {}
    <2>1. runs[l].file \in Sent
      BY DEF ImportsInv, RunsSound, Taken
    <2>2. Rows(runs[l].file) \subseteq stored
      BY DEF ImportsInv, Brought
    <2>3. ASSUME NEW r \in I!Own(f) \cap I!Own(runs[l].file), r[1] \notin I!Ignored PROVE FALSE
      <3>1. r \in body /\ r \in stored
        BY <1>7, <1>9, <2>2 DEF I!Own, Rows
      <3>2. QED
        BY <1>2, <2>3, <3>1
    <2>4. ASSUME NEW r \in I!Own(f) \cap I!Own(runs[l].file), r[1] \in I!Ignored PROVE FALSE
      <3>1. /\ <<"packaging", r[2]>> \in I!Own(f) \cap I!Own(runs[l].file)
            /\ <<"packaging", r[2]>>[1] \notin I!Ignored
        BY <1>1, <2>1, <2>4, RowFacts
      <3>2. QED
        BY <2>3, <3>1
    <2>5. QED
      BY <2>3, <2>4
  <1>10. RunsSound(more)
    <2>1. DOMAIN more \subseteq Keys
      BY <1>1, <1>6 DEF ImportsInv, RunsSound
    <2>2. \A l \in DOMAIN more : more[l] \in [file : Sent, status : {"accepted", "rejected"}]
      BY <1>1, <1>6 DEF ImportsInv, RunsSound
    <2>3. ASSUME NEW l \in Taken(more), NEW m \in Taken(more), l # m
          PROVE  I!Own(more[l].file) \cap I!Own(more[m].file) = {}
      <3>1. Taken(runs) \subseteq DOMAIN runs
        BY DEF Taken
      <3>2. CASE l \in Taken(runs) /\ m \in Taken(runs)
        BY <1>6, <2>3, <3>1, <3>2 DEF ImportsInv, RunsSound
      <3>3. CASE l \notin Taken(runs)
        <4>1. l = k /\ s = "accepted" /\ m \in Taken(runs)
          BY <1>6, <2>3, <3>3
        <4>2. more[l].file = f /\ more[m].file = runs[m].file
          BY <1>6, <3>1, <4>1
        <4>3. QED
          BY <1>9, <4>1, <4>2
      <3>4. CASE m \notin Taken(runs)
        <4>1. m = k /\ s = "accepted" /\ l \in Taken(runs)
          BY <1>6, <2>3, <3>4
        <4>2. more[m].file = f /\ more[l].file = runs[l].file
          BY <1>6, <3>1, <4>1
        <4>3. QED
          BY <1>9, <4>1, <4>2
      <3>5. QED
        BY <3>2, <3>3, <3>4
    <2>4. QED
      BY <2>1, <2>2, <2>3 DEF RunsSound
  <1>11. PICK what \in {s, "error"} : I!Answer(c, what) /\ faults' \in 0 .. MaxFaults
    <2>1. MaxFaults \in Nat /\ faults \in 0 .. MaxFaults
      BY DEF ImportsInv, I!ImportsAssumption
    <2>2. CASE I!Answer(c, s) /\ faults' = faults
      BY <2>1, <2>2
    <2>3. CASE I!Answer(c, "error") /\ faults < MaxFaults /\ faults' = faults + 1
      BY <2>1, <2>3
    <2>4. QED
      BY <2>2, <2>3 DEF I!Commit, I!File, Status
  <1>12. \A d \in Clients \ {c} : inserted[d] \cap stored' = {}
    BY <1>4 DEF ImportsInv, Delivering
  <1>13. what \in {"accepted", "rejected"} => k \in DOMAIN more /\ more[k] = [file |-> f, status |-> what]
    BY <1>6, <1>11
  <1>14. what \in {"none", "error", "accepted", "rejected", "conflict", "exists"}
    BY <1>1, <1>11
  <1>15. \A l \in DOMAIN runs : l \in DOMAIN more /\ more[l] = runs[l]
    BY <1>6
  <1>16. stored \subseteq stored'
    BY <1>4
  <1> HIDE DEF s, b, body
  <1>17. QED
    BY <1>1, <1>4, <1>8, <1>10, <1>11, <1>12, <1>13, <1>14, <1>15, <1>16, Ended

LEMMA ImportsWithin == [Next]_vars => [I!Next]_(I!importVars)
  <1> SUFFICES ASSUME [Next]_vars PROVE [I!Next]_(I!importVars)
    OBVIOUS
  <1>1. ASSUME UNCHANGED imports PROVE UNCHANGED I!importVars
    BY <1>1 DEF imports, I!importVars
  <1>2. CASE UNCHANGED vars
    BY <1>1, <1>2 DEF vars
  <1>3. CASE Next
    BY <1>1, <1>3 DEF Next, ScannerStep, LimiterStep, SmtpStep, AlertsStep, ApiStep
  <1>4. QED
    BY <1>2, <1>3

LEMMA ImportsRun == Spec => I!Init /\ [][I!Next]_(I!importVars)
  <1>1. Init => I!Init
    BY DEF Init
  <1>2. QED
    BY <1>1, ImportsWithin, PTL DEF Spec

(* Nothing is stored by halves, twice or without a run that accounts for   *)
(* it, however imports of the same rows wait for each other, deadlock,     *)
(* fail or lose their answers, and what a client was told of its key is    *)
(* what the run of that key says of its file.                              *)
THEOREM ImportsAreWhole == Spec => []RowsHaveTheirRun
  <1>0. I!ImportsAssumption
    BY ServicesAssumption
  <1>1. I!Init => ImportsInv
    <2> SUFFICES ASSUME I!Init PROVE ImportsInv
      OBVIOUS
    <2>1. DOMAIN asked = {} /\ DOMAIN runs = {} /\ stored = {} /\ faults = 0 /\ MaxFaults \in Nat
      BY <1>0 DEF I!Init, I!ImportsAssumption
    <2>2. \A c \in Clients : /\ at[c] = "idle" /\ answer[c] = "none"
                             /\ todo[c] = <<>> /\ inserted[c] = {}
      BY DEF I!Init
    <2>3. \A c \in Clients : Delivering(at[c], asked[c], known[c], todo[c], inserted[c], stored)
      BY <2>2, EmptySeq DEF Delivering
    <2>4. RunsSound(runs) /\ Brought(runs) = {}
      BY <2>1 DEF RunsSound, Taken, Brought
    <2>5. QED
      BY <2>1, <2>2, <2>3, <2>4 DEF I!Init, ImportsInv
  <1>2. ImportsInv /\ [I!Next]_(I!importVars) => ImportsInv'
    <2> SUFFICES ASSUME ImportsInv, [I!Next]_(I!importVars) PROVE ImportsInv'
      OBVIOUS
    <2>1. CASE UNCHANGED I!importVars
      BY <2>1 DEF I!importVars, ImportsInv, I!Key, I!File
    <2>2. ASSUME NEW c \in Clients, I!Ask(c) \/ I!Step(c) \/ I!Fail(c) PROVE ImportsInv'
      BY <1>0, <2>2, AskStep, ReadingSteps, InsertSteps, EndingSteps, CommitStep DEF I!Step
    <2>3. QED
      BY <2>1, <2>2 DEF I!Next
  <1>3. ImportsInv => RowsHaveTheirRun
    <2> SUFFICES ASSUME ImportsInv PROVE RowsHaveTheirRun
      OBVIOUS
    <2>1. I!TypeOK
      BY DEF ImportsInv, Delivering, I!TypeOK
    <2>2. I!Accepted = Taken(runs)
      BY DEF I!Accepted, Taken
    <2>3. QED
      BY <2>1, <2>2 DEF ImportsInv, RunsSound, Brought, RunRow, Rows, RowsHaveTheirRun, I!RowsHaveTheirRun
  <1>4. QED
    BY <1>1, <1>2, <1>3, ImportsRun, PTL

-----------------------------------------------------------------------------
(* Sums: what the library's folds add up, whatever order they choose.      *)

Choice(s) == CHOOSE x \in s : TRUE
AddsUp(it, f, s) == it[s] = IF s = {} THEN 0 ELSE f[Choice(s)] + it[s \ {Choice(s)}]
Adds(it, f, dom) == it = [s \in SUBSET dom |-> IF s = {} THEN 0 ELSE f[Choice(s)] + it[s \ {Choice(s)}]]
Total(f, dom) == (CHOOSE it : Adds(it, f, dom))[dom]

LEMMA Fewer ==
    ASSUME NEW dom, IsFiniteSet(dom), NEW s \in SUBSET dom
    PROVE  /\ IsFiniteSet(s) /\ Cardinality(s) \in 0 .. Cardinality(dom) /\ Cardinality(dom) \in Nat
           /\ Cardinality(s) = 0 <=> s = {}
           /\ \A x \in s : Cardinality(s \ {x}) = Cardinality(s) - 1
  <1>1. IsFiniteSet(s) /\ Cardinality(s) \in Nat /\ Cardinality(dom) \in Nat /\ Cardinality(s) <= Cardinality(dom)
    BY FS_Subset, FS_CardinalityType
  <1>2. Cardinality(s) = 0 <=> s = {}
    BY <1>1, FS_EmptySet
  <1>3. ASSUME NEW x \in s PROVE Cardinality(s \ {x}) = Cardinality(s) - 1
    BY <1>1, FS_RemoveElement
  <1>4. QED
    BY <1>1, <1>2, <1>3

LEMMA Picked ==
    ASSUME NEW s, s # {}
    PROVE  Choice(s) \in s
  BY DEF Choice

LEMMA AddsEverywhere ==
    ASSUME NEW f, NEW dom, NEW it, Adds(it, f, dom), NEW s \in SUBSET dom
    PROVE  AddsUp(it, f, s)
  BY DEF Adds, AddsUp

LEMMA AddsExists ==
    ASSUME NEW f, NEW dom, IsFiniteSet(dom)
    PROVE  \E it : Adds(it, f, dom)
  <1> DEFINE Next1(g) == [s \in SUBSET dom |-> IF s = {} THEN 0 ELSE f[Choice(s)] + g[s \ {Choice(s)}]]
             good == {n \in 0 .. Cardinality(dom) :
                         \E g : \A s \in SUBSET dom : Cardinality(s) <= n => AddsUp(g, f, s)}
  <1>1. Cardinality(dom) \in Nat
    BY FS_CardinalityType
  <1>2. ASSUME NEW g, NEW n \in Int, \A s \in SUBSET dom : Cardinality(s) <= n - 1 => AddsUp(g, f, s)
        PROVE  \A s \in SUBSET dom : Cardinality(s) <= n => AddsUp(Next1(g), f, s)
    <2> SUFFICES ASSUME NEW s \in SUBSET dom, Cardinality(s) <= n PROVE AddsUp(Next1(g), f, s)
      OBVIOUS
    <2>1. CASE s = {}
      BY <2>1 DEF AddsUp
    <2>2. CASE s # {}
      <3> DEFINE c == Choice(s)
                 less == s \ {c}
      <3>1. c \in s /\ less \in SUBSET dom /\ Cardinality(less) <= n - 1
        BY <2>2, Picked, Fewer
      <3>2. AddsUp(g, f, less)
        BY <1>2, <3>1
      <3>3. Next1(g)[less] = g[less]
        BY <3>1, <3>2 DEF AddsUp
      <3>4. Next1(g)[s] = f[c] + g[less]
        BY <2>2
      <3>5. QED
        BY <2>2, <3>3, <3>4 DEF AddsUp
    <2>3. QED
      BY <2>1, <2>2
  <1>3. 0 \in good
    <2>1. \A s \in SUBSET dom : ~(Cardinality(s) <= 0 - 1)
      BY Fewer
    <2>2. \A s \in SUBSET dom : Cardinality(s) <= 0 => AddsUp(Next1({}), f, s)
      <3> HIDE DEF Next1
      <3>1. QED
        BY <1>2, <2>1
    <2> HIDE DEF Next1
    <2>3. QED
      BY <1>1, <2>2
  <1>4. ASSUME NEW n \in 0 .. Cardinality(dom), n # 0, n - 1 \in good
        PROVE  n \in good
    <2>1. PICK g : \A s \in SUBSET dom : Cardinality(s) <= n - 1 => AddsUp(g, f, s)
      BY <1>4
    <2>2. \A s \in SUBSET dom : Cardinality(s) <= n => AddsUp(Next1(g), f, s)
      <3> HIDE DEF Next1
      <3>1. QED
        BY <1>2, <2>1
    <2> HIDE DEF Next1
    <2>3. QED
      BY <2>2
  <1>5. Cardinality(dom) \in good
    <2> HIDE DEF good
    <2>1. good \in SUBSET (0 .. Cardinality(dom))
      BY DEF good
    <2>2. QED
      BY <1>1, <1>3, <1>4, <2>1, Climb
  <1>6. PICK g : \A s \in SUBSET dom : AddsUp(g, f, s)
    BY <1>5, Fewer
  <1>7. \A s \in SUBSET dom : AddsUp(Next1(g), f, s)
    <2> HIDE DEF Next1
    <2>1. \A s \in SUBSET dom : Cardinality(s) <= Cardinality(dom)
      BY Fewer
    <2>2. QED
      BY <1>1, <1>2, <1>6, <2>1
  <1>8. Adds(Next1(g), f, dom)
    <2>1. \A s \in SUBSET dom : s # {} => Next1(g)[s \ {Choice(s)}] = g[s \ {Choice(s)}]
      <3> SUFFICES ASSUME NEW s \in SUBSET dom, s # {}
                   PROVE  Next1(g)[s \ {Choice(s)}] = g[s \ {Choice(s)}]
        OBVIOUS
      <3> DEFINE less == s \ {Choice(s)}
      <3>1. less \in SUBSET dom
        OBVIOUS
      <3>2. AddsUp(g, f, less)
        BY <1>6, <3>1
      <3>3. QED
        BY <3>1, <3>2 DEF AddsUp
    <2>2. QED
      BY <2>1 DEF Adds
  <1> HIDE DEF Next1
  <1>9. QED
    BY <1>8

(* The sum of a part does not depend on the whole it is taken from.        *)
LEMMA TotalOfPart ==
    ASSUME NEW f, NEW dom, IsFiniteSet(dom), NEW s \in SUBSET dom, NEW it, Adds(it, f, dom)
    PROVE  it[s] = Total(f, s)
  <1> DEFINE Same(t) == \A e \in SUBSET dom : \A i : t \subseteq e /\ Adds(i, f, e) => i[t] = Total(f, t)
             good == {n \in 0 .. Cardinality(dom) : \A t \in SUBSET dom : Cardinality(t) = n => Same(t)}
  <1>1. \A t \in SUBSET dom : Adds(CHOOSE i : Adds(i, f, t), f, t)
    BY Fewer, AddsExists
  <1>2. 0 \in good
    <2>1. Cardinality(dom) \in Nat
      BY Fewer
    <2>2. ASSUME NEW t \in SUBSET dom, Cardinality(t) = 0 PROVE Same(t)
      <3>1. t = {}
        BY <2>2, Fewer
      <3>2. \A i, e : Adds(i, f, e) => i[{}] = 0
        BY AddsEverywhere DEF AddsUp
      <3>3. QED
        BY <1>1, <3>1, <3>2 DEF Total
    <2>3. QED
      BY <2>1, <2>2
  <1>3. ASSUME NEW n \in 0 .. Cardinality(dom), n # 0, n - 1 \in good
        PROVE  n \in good
    <2> SUFFICES ASSUME NEW t \in SUBSET dom, Cardinality(t) = n, NEW e \in SUBSET dom, NEW i,
                        t \subseteq e, Adds(i, f, e)
                 PROVE  i[t] = Total(f, t)
      OBVIOUS
    <2> DEFINE c == Choice(t)
               less == t \ {c}
               own == CHOOSE j : Adds(j, f, t)
    <2>1. t # {} /\ c \in t /\ less \in SUBSET dom /\ Cardinality(less) = n - 1
      BY <1>3, Picked, Fewer
    <2>2. Same(less)
      BY <1>3, <2>1
    <2>3. i[less] = Total(f, less)
      BY <2>2
    <2>4. Adds(own, f, t) /\ own[less] = Total(f, less)
      BY <1>1, <2>2
    <2>5. i[t] = f[c] + i[less]
      BY <2>1, AddsEverywhere DEF AddsUp
    <2>6. own[t] = f[c] + own[less]
      <3>1. AddsUp(own, f, t)
        BY <2>4, AddsEverywhere
      <3>2. QED
        BY <2>1, <3>1 DEF AddsUp
    <2>7. QED
      BY <2>3, <2>4, <2>5, <2>6 DEF Total
  <1>4. Cardinality(s) \in good
    <2> HIDE DEF good
    <2>1. good \in SUBSET (0 .. Cardinality(dom))
      BY DEF good
    <2>2. PICK n \in 0 .. Cardinality(dom) : n = Cardinality(s)
      BY Fewer
    <2>3. n \in Nat /\ good \cap (0 .. n) \in SUBSET (0 .. n) /\ 0 \in good \cap (0 .. n)
      BY <1>2, <2>1, <2>2, Fewer
    <2>4. \A m \in 0 .. n : m # 0 /\ m - 1 \in good \cap (0 .. n) => m \in good \cap (0 .. n)
      <3>1. \A m \in 0 .. n : m \in 0 .. Cardinality(dom)
        BY <2>2, Fewer
      <3>2. QED
        BY <1>3, <3>1
    <2>5. n \in good \cap (0 .. n)
      BY <2>3, <2>4, Climb
    <2>6. QED
      BY <2>2, <2>5
  <1>5. QED
    BY <1>4

LEMMA TotalUnfolds ==
    ASSUME NEW f, NEW dom, IsFiniteSet(dom)
    PROVE  Total(f, dom) = IF dom = {} THEN 0 ELSE f[Choice(dom)] + Total(f, dom \ {Choice(dom)})
  <1>1. PICK it : it = CHOOSE i : Adds(i, f, dom)
    OBVIOUS
  <1>2. Adds(it, f, dom)
    BY <1>1, AddsExists
  <1>3. AddsUp(it, f, dom)
    BY <1>2, AddsEverywhere
  <1>4. it[dom \ {Choice(dom)}] = Total(f, dom \ {Choice(dom)})
    BY <1>2, TotalOfPart
  <1>5. QED
    BY <1>1, <1>3, <1>4 DEF AddsUp, Total

(* What holds of a set when it holds of the set without any one of its     *)
(* elements holds of every finite set.                                     *)
LEMMA Gather ==
    ASSUME NEW dom, IsFiniteSet(dom), NEW good \in SUBSET SUBSET dom,
           \A s \in SUBSET dom : (\A x \in s : s \ {x} \in good) => s \in good
    PROVE  dom \in good
  <1> DEFINE upTo == {n \in 0 .. Cardinality(dom) : \A s \in SUBSET dom : Cardinality(s) = n => s \in good}
  <1>1. 0 \in upTo
    <2>1. Cardinality(dom) \in Nat /\ \A s \in SUBSET dom : Cardinality(s) = 0 => s = {}
      BY Fewer
    <2>2. QED
      BY <2>1
  <1>2. ASSUME NEW n \in 0 .. Cardinality(dom), n # 0, n - 1 \in upTo
        PROVE  n \in upTo
    <2>1. ASSUME NEW s \in SUBSET dom, Cardinality(s) = n, NEW x \in s PROVE s \ {x} \in good
      <3>1. Cardinality(s \ {x}) = n - 1 /\ s \ {x} \in SUBSET dom
        BY <2>1, Fewer
      <3>2. QED
        BY <1>2, <3>1
    <2>2. QED
      BY <2>1
  <1>3. Cardinality(dom) \in upTo
    <2> HIDE DEF upTo
    <2>1. upTo \in SUBSET (0 .. Cardinality(dom)) /\ Cardinality(dom) \in Nat
      BY Fewer DEF upTo
    <2>2. QED
      BY <1>1, <1>2, <2>1, Climb
  <1>4. QED
    BY <1>3

LEMMA TotalType ==
    ASSUME NEW f, NEW dom, IsFiniteSet(dom), \A x \in dom : f[x] \in Nat
    PROVE  Total(f, dom) \in Nat
  <1> DEFINE good == {s \in SUBSET dom : Total(f, s) \in Nat}
  <1>1. ASSUME NEW s \in SUBSET dom, \A x \in s : s \ {x} \in good
        PROVE  s \in good
    <2>1. IsFiniteSet(s)
      BY Fewer
    <2>2. CASE s = {}
      <3>1. Total(f, s) = 0
        BY <2>1, <2>2, TotalUnfolds
      <3>2. QED
        BY <3>1
    <2>3. CASE s # {}
      <3>1. Choice(s) \in s /\ f[Choice(s)] \in Nat
        BY <2>3, Picked
      <3>2. Total(f, s \ {Choice(s)}) \in Nat
        BY <1>1, <3>1
      <3>3. QED
        BY <2>1, <2>3, <3>1, <3>2, TotalUnfolds
    <2>4. QED
      BY <2>2, <2>3
  <1>2. dom \in good
    <2> HIDE DEF good
    <2>1. good \in SUBSET SUBSET dom
      BY DEF good
    <2>2. QED
      BY <1>1, <2>1, Gather
  <1>3. QED
    BY <1>2

(* Any element may be taken first.                                         *)
LEMMA TotalTake ==
    ASSUME NEW f, NEW dom, IsFiniteSet(dom), \A x \in dom : f[x] \in Nat, NEW y \in dom
    PROVE  Total(f, dom) = f[y] + Total(f, dom \ {y})
  <1> DEFINE Takes(s) == \A x \in s : Total(f, s) = f[x] + Total(f, s \ {x})
             good == {s \in SUBSET dom : Takes(s)}
  <1>1. ASSUME NEW s \in SUBSET dom, \A x \in s : s \ {x} \in good
        PROVE  s \in good
    <2> SUFFICES ASSUME NEW x \in s PROVE Total(f, s) = f[x] + Total(f, s \ {x})
      OBVIOUS
    <2> DEFINE c == Choice(s)
    <2>1. /\ IsFiniteSet(s) /\ c \in s /\ f[c] \in Nat /\ f[x] \in Nat
          /\ Total(f, s) = f[c] + Total(f, s \ {c})
      BY Fewer, Picked, TotalUnfolds
    <2> HIDE DEF c
    <2>2. CASE x = c
      BY <2>1, <2>2
    <2>3. CASE x # c
      <3>1. Takes(s \ {c}) /\ Takes(s \ {x})
        BY <1>1, <2>1
      <3>2. Total(f, s \ {c}) = f[x] + Total(f, (s \ {c}) \ {x})
        BY <2>3, <3>1
      <3>3. Total(f, s \ {x}) = f[c] + Total(f, (s \ {x}) \ {c})
        BY <2>1, <2>3, <3>1
      <3>4. (s \ {c}) \ {x} = (s \ {x}) \ {c} /\ (s \ {c}) \ {x} \in SUBSET dom
        OBVIOUS
      <3>5. Total(f, (s \ {c}) \ {x}) \in Nat
        <4>1. PICK t \in SUBSET dom : t = (s \ {c}) \ {x}
          BY <3>4
        <4>2. IsFiniteSet(t) /\ \A z \in t : f[z] \in Nat
          BY <4>1, Fewer
        <4>3. QED
          BY <4>1, <4>2, TotalType
      <3>6. QED
        BY <2>1, <3>2, <3>3, <3>4, <3>5
    <2>4. QED
      BY <2>2, <2>3
  <1>2. dom \in good
    <2> HIDE DEF good
    <2>1. good \in SUBSET SUBSET dom
      BY DEF good
    <2>2. QED
      BY <1>1, <2>1, Gather
  <1>3. QED
    BY <1>2

LEMMA TotalSame ==
    ASSUME NEW f, NEW g, NEW dom, IsFiniteSet(dom), \A x \in dom : f[x] = g[x]
    PROVE  Total(f, dom) = Total(g, dom)
  <1> DEFINE good == {s \in SUBSET dom : Total(f, s) = Total(g, s)}
  <1>1. ASSUME NEW s \in SUBSET dom, \A x \in s : s \ {x} \in good
        PROVE  s \in good
    <2>1. /\ Total(f, s) = IF s = {} THEN 0 ELSE f[Choice(s)] + Total(f, s \ {Choice(s)})
          /\ Total(g, s) = IF s = {} THEN 0 ELSE g[Choice(s)] + Total(g, s \ {Choice(s)})
      BY Fewer, TotalUnfolds
    <2>2. CASE s = {}
      BY <2>1, <2>2
    <2>3. CASE s # {}
      <3>1. Choice(s) \in s
        BY <2>3, Picked
      <3>2. Total(f, s \ {Choice(s)}) = Total(g, s \ {Choice(s)})
        BY <1>1, <3>1
      <3>3. QED
        BY <2>1, <3>1, <3>2
    <2>4. QED
      BY <2>2, <2>3
  <1>2. dom \in good
    <2> HIDE DEF good
    <2>1. good \in SUBSET SUBSET dom
      BY DEF good
    <2>2. QED
      BY <1>1, <2>1, Gather
  <1>3. QED
    BY <1>2

(* One more of one thing is one more of all.                               *)
LEMMA TotalOneMore ==
    ASSUME NEW f, NEW g, NEW dom, IsFiniteSet(dom), NEW y \in dom,
           \A x \in dom : f[x] \in Nat, g[y] = f[y] + 1, \A x \in dom \ {y} : g[x] = f[x]
    PROVE  Total(g, dom) = Total(f, dom) + 1
  <1>1. \A x \in dom : g[x] \in Nat
    OBVIOUS
  <1>2. Total(g, dom) = g[y] + Total(g, dom \ {y}) /\ Total(f, dom) = f[y] + Total(f, dom \ {y})
    BY <1>1, TotalTake
  <1>3. IsFiniteSet(dom \ {y})
    BY Fewer
  <1>4. Total(g, dom \ {y}) = Total(f, dom \ {y}) /\ Total(f, dom \ {y}) \in Nat
    BY <1>3, TotalSame, TotalType
  <1>5. QED
    BY <1>2, <1>4

LEMMA TotalOfNone ==
    ASSUME NEW f
    PROVE  Total(f, {}) = 0
  BY TotalUnfolds, FS_EmptySet

(* The sum of a sequence, and of its first n elements.                     *)
Sum(s) == Total(s, 1 .. Len(s))

LEMMA SumUpTo ==
    ASSUME NEW s, NEW n \in Nat, \A i \in 1 .. n + 1 : s[i] \in Nat
    PROVE  /\ Total(s, 1 .. n + 1) = Total(s, 1 .. n) + s[n + 1]
           /\ Total(s, 1 .. n) \in Nat
  <1>1. /\ IsFiniteSet(1 .. n + 1) /\ IsFiniteSet(1 .. n) /\ n + 1 \in 1 .. n + 1
        /\ (1 .. n + 1) \ {n + 1} = 1 .. n /\ \A i \in 1 .. n : i \in 1 .. n + 1
    BY FS_Interval
  <1>2. Total(s, 1 .. n + 1) = s[n + 1] + Total(s, 1 .. n)
    <2>1. Total(s, 1 .. n + 1) = s[n + 1] + Total(s, (1 .. n + 1) \ {n + 1})
      BY <1>1, TotalTake
    <2>2. QED
      BY <1>1, <2>1, Zenon
  <1>3. Total(s, 1 .. n) \in Nat /\ s[n + 1] \in Nat
    BY <1>1, TotalType
  <1>4. QED
    BY <1>1, <1>2, <1>3

LEMMA SumAppended ==
    ASSUME NEW s \in Seq(Nat), NEW x \in Nat
    PROVE  /\ Sum(Append(s, x)) = Sum(s) + x /\ Sum(s) \in Nat
           /\ Append(s, x) \in Seq(Nat) /\ Len(Append(s, x)) = Len(s) + 1
  <1> DEFINE t == Append(s, x)
             n == Len(s)
  <1>1. /\ t \in Seq(Nat) /\ n \in Nat /\ Len(t) = n + 1 /\ t[n + 1] = x
        /\ \A i \in 1 .. n : t[i] = s[i] /\ s[i] \in Nat
    BY AppendProperties, LenProperties, ElementOfSeq
  <1> HIDE DEF t, n
  <1>2. \A i \in 1 .. n + 1 : t[i] \in Nat
    BY <1>1
  <1>3. Total(t, 1 .. n + 1) = Total(t, 1 .. n) + t[n + 1]
    BY <1>1, <1>2, SumUpTo
  <1>4. IsFiniteSet(1 .. n)
    BY <1>1, FS_Interval
  <1>5. Total(t, 1 .. n) = Total(s, 1 .. n) /\ Total(s, 1 .. n) \in Nat
    BY <1>1, <1>4, TotalSame, TotalType
  <1>6. QED
    BY <1>1, <1>3, <1>5 DEF Sum, t, n

(* A delivery that ends takes its count away and leaves the others'.       *)
LEMMA SumRemoved ==
    ASSUME NEW s \in Seq(Nat), NEW i \in DOMAIN s
    PROVE  /\ A!RemoveAt(s, i) \in Seq(Nat) /\ Len(A!RemoveAt(s, i)) = Len(s) - 1
           /\ \A j \in DOMAIN A!RemoveAt(s, i) : \E k \in DOMAIN s : A!RemoveAt(s, i)[j] = s[k]
           /\ s[i] \in Nat /\ Sum(A!RemoveAt(s, i)) \in Nat
           /\ Sum(s) = Sum(A!RemoveAt(s, i)) + s[i]
  <1> DEFINE t == A!RemoveAt(s, i)
             n == Len(s)
             front == SubSeq(s, 1, i - 1)
             back == SubSeq(s, i + 1, n)
  <1>1. n \in Nat /\ DOMAIN s = 1 .. n /\ i \in 1 .. n /\ \A j \in 1 .. n : s[j] \in Nat
    BY LenProperties, ElementOfSeq
  <1>2. front \in Seq(Nat) /\ Len(front) = i - 1 /\ \A j \in 1 .. i - 1 : front[j] = s[j]
    BY <1>1, SubSeqProperties
  <1>3. back \in Seq(Nat) /\ Len(back) = n - i /\ \A j \in 1 .. n - i : back[j] = s[i + j]
    <2>1. i + 1 \in Int /\ n \in Int /\ \A j \in i + 1 .. n : s[j] \in Nat
      BY <1>1
    <2>2. /\ back \in Seq(Nat) /\ Len(back) = IF i + 1 <= n THEN n - (i + 1) + 1 ELSE 0
          /\ \A j \in 1 .. n - (i + 1) + 1 : back[j] = s[(i + 1) + j - 1]
      BY <2>1, SubSeqProperties
    <2> HIDE DEF back
    <2>3. n - (i + 1) + 1 = n - i /\ Len(back) = n - i
      BY <1>1, <2>2
    <2>4. \A j \in 1 .. n - i : (i + 1) + j - 1 = i + j
      BY <1>1
    <2>5. QED
      BY <2>2, <2>3, <2>4
  <1>4. t = front \o back
    BY DEF A!RemoveAt
  <1> HIDE DEF t, front, back, n
  <1>5. /\ t \in Seq(Nat) /\ Len(t) = n - 1
        /\ \A j \in 1 .. n - 1 : t[j] = IF j < i THEN s[j] ELSE s[j + 1]
    <2>1. /\ t \in Seq(Nat) /\ Len(t) = (i - 1) + (n - i)
          /\ \A j \in 1 .. (i - 1) + (n - i) : t[j] = IF j <= i - 1 THEN front[j] ELSE back[j - (i - 1)]
      <3>1. /\ t \in Seq(Nat) /\ Len(t) = Len(front) + Len(back)
            /\ \A j \in 1 .. Len(front) + Len(back) :
                  t[j] = IF j <= Len(front) THEN front[j] ELSE back[j - Len(front)]
        BY <1>2, <1>3, <1>4, ConcatProperties
      <3>2. QED
        BY <1>2, <1>3, <3>1
    <2>2. (i - 1) + (n - i) = n - 1
      BY <1>1
    <2>3. ASSUME NEW j \in 1 .. n - 1 PROVE t[j] = IF j < i THEN s[j] ELSE s[j + 1]
      <3>1. CASE j < i
        BY <1>1, <1>2, <2>1, <2>2, <3>1
      <3>2. CASE ~(j < i)
        <4>1. j - (i - 1) \in 1 .. n - i /\ i + (j - (i - 1)) = j + 1
          BY <1>1, <3>2
        <4>2. t[j] = back[j - (i - 1)]
          <5>1. j \in 1 .. (i - 1) + (n - i) /\ ~(j <= i - 1)
            BY <1>1, <2>2, <3>2
          <5>2. QED
            BY <2>1, <5>1
        <4>3. QED
          BY <1>3, <3>2, <4>1, <4>2
      <3>3. QED
        BY <3>1, <3>2
    <2>4. QED
      BY <2>1, <2>2, <2>3
  <1>6. \A j \in 1 .. n - 1 : t[j] \in Nat
    BY <1>1, <1>5
  <1> DEFINE Part(m) == IF m < i THEN Total(t, 1 .. m) = Total(s, 1 .. m)
                        ELSE Total(t, 1 .. m - 1) + s[i] = Total(s, 1 .. m)
             good == {m \in 0 .. n : Part(m)}
  <1>7. 0 \in good
    <2>1. 1 .. 0 = {} /\ 0 < i /\ n \in Nat
      BY <1>1
    <2>2. QED
      BY <2>1, TotalOfNone
  <1>8. ASSUME NEW m \in 0 .. n, m # 0, m - 1 \in good
        PROVE  m \in good
    <2>1. PICK k \in Nat : k = m - 1
      BY <1>8
    <2>2. /\ k \in 0 .. n /\ m = k + 1 /\ k + 1 \in 1 .. n /\ \A j \in 1 .. k + 1 : s[j] \in Nat
      BY <1>1, <1>8, <2>1
    <2>3. Total(s, 1 .. k + 1) = Total(s, 1 .. k) + s[k + 1] /\ Total(s, 1 .. k) \in Nat
      BY <2>2, SumUpTo
    <2>4. Part(k)
      BY <1>8, <2>1
    <2>5. CASE k + 1 < i
      <3>1. \A j \in 1 .. k + 1 : t[j] \in Nat
        BY <1>1, <1>6, <2>5
      <3>2. Total(t, 1 .. k + 1) = Total(t, 1 .. k) + t[k + 1]
        BY <3>1, SumUpTo
      <3>3. t[k + 1] = s[k + 1] /\ k < i
        BY <1>1, <1>5, <2>5, <2>2
      <3>4. QED
        BY <2>2, <2>3, <2>4, <2>5, <3>2, <3>3
    <2>6. CASE k + 1 = i
      <3>1. k < i /\ ~(m < i) /\ m - 1 = k /\ s[k + 1] = s[i]
        BY <1>1, <2>2, <2>6
      <3>2. QED
        BY <2>2, <2>3, <2>4, <3>1
    <2>7. CASE i < k + 1
      <3>1. PICK p \in Nat : k = p + 1
        <4>1. k - 1 \in Nat /\ k = (k - 1) + 1
          BY <1>1, <2>2, <2>7
        <4>2. QED
          BY <4>1
      <3>2. ~(k < i) /\ ~(m < i) /\ m - 1 = k /\ k - 1 = p
        BY <1>1, <2>2, <2>7, <3>1
      <3>3. \A j \in 1 .. p + 1 : t[j] \in Nat
        BY <1>1, <1>6, <2>2, <3>1
      <3>4. Total(t, 1 .. p + 1) = Total(t, 1 .. p) + t[p + 1] /\ Total(t, 1 .. p) \in Nat
        BY <3>3, SumUpTo
      <3>5. t[k] = s[k + 1] /\ s[k + 1] \in Nat /\ s[i] \in Nat
        BY <1>1, <1>5, <2>2, <2>7, <3>1
      <3>6. Total(t, 1 .. p) + s[i] = Total(s, 1 .. k)
        BY <2>4, <3>2
      <3>7. Total(t, 1 .. k) + s[i] = Total(s, 1 .. k + 1)
        <4>1. Total(t, 1 .. k) = Total(t, 1 .. p) + t[k]
          BY <3>1, <3>4, Zenon
        <4>2. PICK a \in Nat, b \in Nat, x \in Nat, y \in Nat :
                 a = Total(t, 1 .. p) /\ b = Total(s, 1 .. k) /\ x = s[i] /\ y = s[k + 1]
          BY <2>3, <3>4, <3>5
        <4>3. a + x = b /\ Total(t, 1 .. k) = a + y /\ Total(s, 1 .. k + 1) = b + y
          BY <2>3, <3>5, <3>6, <4>1, <4>2, Zenon
        <4>4. (a + y) + x = b + y
          BY <4>3
        <4>5. QED
          BY <4>2, <4>3, <4>4, Zenon
      <3>8. QED
        BY <2>2, <3>2, <3>7
    <2>8. QED
      BY <1>1, <2>2, <2>5, <2>6, <2>7
  <1>9. Part(n)
    <2> HIDE DEF good
    <2>1. good \in SUBSET (0 .. n)
      BY DEF good
    <2>2. n \in good
      BY <1>1, <1>7, <1>8, <2>1, Climb
    <2>3. QED
      BY <2>2 DEF good
  <1>10. Total(t, 1 .. n - 1) + s[i] = Total(s, 1 .. n)
    BY <1>1, <1>9
  <1>11. Total(t, 1 .. n - 1) \in Nat
    <2>1. IsFiniteSet(1 .. n - 1)
      BY <1>1, FS_Interval
    <2>2. QED
      BY <1>6, <2>1, TotalType
  <1>12. ASSUME NEW j \in DOMAIN t PROVE \E k \in DOMAIN s : t[j] = s[k]
    <2>1. j \in 1 .. n - 1
      BY <1>5, LenProperties
    <2>2. j \in DOMAIN s /\ j + 1 \in DOMAIN s
      BY <1>1, <2>1
    <2>3. QED
      BY <1>5, <2>1, <2>2
  <1>13. QED
    BY <1>1, <1>5, <1>10, <1>11, <1>12 DEF Sum, t, n

-----------------------------------------------------------------------------
(* Alerts: every event is accounted for, and so is every suppressed mail.  *)

Between(m, a, b) == {i \in DOMAIN m : m[i] \in a .. b}

(* The mails of the window that is open were sent since it was opened; the *)
(* hour before it was opened had no more than one window's worth.          *)
MailsInv(m, w, now) ==
    /\ w \in [startedAt : Nat, sent : 0 .. PerHour, suppressed : Nat]
    /\ w.startedAt <= now
    /\ m \in Seq(Nat) /\ \A i \in DOMAIN m : m[i] <= now /\ m[i] < w.startedAt + Hour
    /\ Cardinality(Between(m, w.startedAt, w.startedAt + Hour - 1)) = w.sent
    /\ \A h \in Nat : w.startedAt < h + Hour => Cardinality(Between(m, h, w.startedAt - 1)) <= PerHour
    /\ \A h \in Nat : Cardinality(Between(m, h, h + Hour - 1)) <= 2 * PerHour

Tally == [A!Counters -> Nat]
Accounts(config, t, seen, counts, flights) ==
    IF t \in config THEN seen = Len(flights) + Total(counts, A!Counters)
    ELSE flights = <<>> /\ counts = [c \in A!Counters |-> 0]

AlertsInv ==
    /\ settings \in [A!Transports \cup {"shared"} -> {"absent", "good", "bad"}]
    /\ settings = A!Unset \/ settings["shared"] # "absent"
    /\ clock \in Hour .. MaxClock /\ considered \in 0 .. MaxEvents
    /\ A!Config = {} => considered = 0
    /\ counters \in [A!Transports -> Tally]
    /\ underway \in [A!Transports -> Seq(Nat)]
    /\ \A t \in A!Transports : Len(underway[t]) <= MaxInFlight
    /\ \A i \in DOMAIN underway["webhook"] : underway["webhook"][i] = 0
    /\ \A t \in A!Transports : Accounts(A!Config, t, considered, counters[t], underway[t])
    /\ suppressions \in [ever : Nat, told : Nat, lost : Nat]
    /\ suppressions.ever = emailWindow.suppressed + suppressions.told + suppressions.lost
                            + Sum(underway["email"])
    /\ MailsInv(mailed, emailWindow, clock)

LEMMA BetweenFinite ==
    ASSUME NEW m \in Seq(Nat), NEW a, NEW b
    PROVE  IsFiniteSet(Between(m, a, b)) /\ Cardinality(Between(m, a, b)) \in Nat
  <1>1. IsFiniteSet(DOMAIN m) /\ Between(m, a, b) \subseteq DOMAIN m
    BY FS_Interval, LenProperties DEF Between
  <1>2. QED
    BY <1>1, FS_Subset, FS_CardinalityType

LEMMA FewerBetween ==
    ASSUME NEW m \in Seq(Nat), NEW a, NEW b, NEW c, NEW d,
           Between(m, a, b) \subseteq Between(m, c, d)
    PROVE  Cardinality(Between(m, a, b)) <= Cardinality(Between(m, c, d))
  BY BetweenFinite, FS_Subset

LEMMA BothBetween ==
    ASSUME NEW m \in Seq(Nat), NEW a, NEW b, NEW c, NEW d, NEW e, NEW f,
           Between(m, a, b) \subseteq Between(m, c, d) \cup Between(m, e, f)
    PROVE  Cardinality(Between(m, a, b)) <= Cardinality(Between(m, c, d)) + Cardinality(Between(m, e, f))
  <1> DEFINE p == Between(m, a, b)
             q == Between(m, c, d)
             r == Between(m, e, f)
  <1>1. /\ IsFiniteSet(p) /\ IsFiniteSet(q) /\ IsFiniteSet(r)
        /\ Cardinality(p) \in Nat /\ Cardinality(q) \in Nat /\ Cardinality(r) \in Nat
    BY BetweenFinite
  <1> HIDE DEF p, q, r
  <1>2. /\ IsFiniteSet(q \cup r) /\ IsFiniteSet(q \cap r)
        /\ Cardinality(q \cup r) = Cardinality(q) + Cardinality(r) - Cardinality(q \cap r)
    BY <1>1, FS_Union, FS_Intersection
  <1>3. p \subseteq q \cup r
    BY DEF p, q, r
  <1>4. Cardinality(p) <= Cardinality(q \cup r) /\ Cardinality(q \cap r) \in Nat
    BY <1>2, <1>3, FS_Subset, FS_CardinalityType
  <1>5. Cardinality(p) <= Cardinality(q) + Cardinality(r)
    BY <1>1, <1>2, <1>4
  <1>6. QED
    BY <1>5 DEF p, q, r

(* One more mail is one more of every interval that has its time.          *)
LEMMA OneMoreMail ==
    ASSUME NEW m \in Seq(Nat), NEW x \in Nat
    PROVE  /\ Append(m, x) \in Seq(Nat)
           /\ \A i \in DOMAIN Append(m, x) : Append(m, x)[i] = x \/ \E j \in DOMAIN m : Append(m, x)[i] = m[j]
           /\ \A a, b : Cardinality(Between(Append(m, x), a, b))
                           = Cardinality(Between(m, a, b)) + IF x \in a .. b THEN 1 ELSE 0
  <1> DEFINE l == Append(m, x)
             n == Len(m)
  <1>1. /\ l \in Seq(Nat) /\ n \in Nat /\ DOMAIN m = 1 .. n /\ DOMAIN l = 1 .. n + 1
        /\ l[n + 1] = x /\ \A i \in 1 .. n : l[i] = m[i]
    BY AppendProperties, LenProperties
  <1> HIDE DEF l, n
  <1>2. n + 1 \notin DOMAIN m /\ DOMAIN l = DOMAIN m \cup {n + 1}
    BY <1>1
  <1>3. ASSUME NEW a, NEW b
        PROVE  Cardinality(Between(l, a, b)) = Cardinality(Between(m, a, b)) + IF x \in a .. b THEN 1 ELSE 0
    <2>1. CASE x \in a .. b
      <3>1. Between(l, a, b) = Between(m, a, b) \cup {n + 1} /\ n + 1 \notin Between(m, a, b)
        BY <1>1, <1>2, <2>1 DEF Between
      <3>2. Cardinality(Between(l, a, b)) = Cardinality(Between(m, a, b)) + 1
        BY <3>1, BetweenFinite, FS_AddElement
      <3>3. QED
        BY <2>1, <3>2
    <2>2. CASE ~(x \in a .. b)
      <3>1. Between(l, a, b) = Between(m, a, b)
        BY <1>1, <1>2, <2>2 DEF Between
      <3>2. QED
        BY <2>2, <3>1, BetweenFinite
    <2>3. QED
      BY <2>1, <2>2
  <1>4. \A i \in DOMAIN l : l[i] = x \/ \E j \in DOMAIN m : l[i] = m[j]
    BY <1>1, <1>2
  <1>5. QED
    BY <1>1, <1>3, <1>4 DEF l

(* A window that is opened now was preceded by at most one window's worth  *)
(* in the hour before.                                                     *)
LEMMA WindowOpens ==
    ASSUME A!AlertsAssumption, NEW m, NEW w, NEW now \in Nat, MailsInv(m, w, now),
           w.startedAt + Hour <= now,
           NEW v, v \in [startedAt : {now}, sent : {0}, suppressed : Nat]
    PROVE  MailsInv(m, v, now)
  <1>1. /\ Hour \in Nat \ {0} /\ PerHour \in Nat /\ w.startedAt \in Nat /\ w.sent \in 0 .. PerHour
        /\ m \in Seq(Nat) /\ \A i \in DOMAIN m : m[i] \in Nat /\ m[i] <= now /\ m[i] < w.startedAt + Hour
    BY LenProperties, ElementOfSeq DEF A!AlertsAssumption, MailsInv
  <1>2. v \in [startedAt : Nat, sent : 0 .. PerHour, suppressed : Nat] /\ v.startedAt = now /\ v.sent = 0
    BY <1>1
  <1>3. Cardinality(Between(m, now, now + Hour - 1)) = 0
    <2>1. Between(m, now, now + Hour - 1) = {}
      BY <1>1 DEF Between
    <2>2. QED
      BY <2>1, FS_EmptySet
  <1>4. ASSUME NEW h \in Nat, now < h + Hour
        PROVE  Cardinality(Between(m, h, now - 1)) <= PerHour
    <2>1. Between(m, h, now - 1) \subseteq Between(m, w.startedAt, w.startedAt + Hour - 1)
      <3> SUFFICES ASSUME NEW i \in DOMAIN m, m[i] \in h .. now - 1
                   PROVE  m[i] \in w.startedAt .. w.startedAt + Hour - 1
        BY DEF Between
      <3>1. QED
        BY <1>1, <1>4
    <2>2. Cardinality(Between(m, h, now - 1)) <= w.sent
      BY <1>1, <2>1, FewerBetween DEF MailsInv
    <2>3. QED
      BY <1>1, <2>2, BetweenFinite
  <1>5. \A i \in DOMAIN m : m[i] <= now /\ m[i] < v.startedAt + Hour
    BY <1>1, <1>2
  <1>6. QED
    BY <1>1, <1>2, <1>3, <1>4, <1>5 DEF MailsInv

LEMMA MailGoesOut ==
    ASSUME A!AlertsAssumption, NEW m, NEW w, NEW now \in Nat, MailsInv(m, w, now),
           now < w.startedAt + Hour, w.sent < PerHour,
           NEW v, v \in [startedAt : {w.startedAt}, sent : {w.sent + 1}, suppressed : Nat]
    PROVE  MailsInv(Append(m, now), v, now)
  <1> DEFINE l == Append(m, now)
             s == w.startedAt
  <1>1. /\ Hour \in Nat \ {0} /\ PerHour \in Nat /\ s \in Nat /\ w.sent \in 0 .. PerHour /\ s <= now
        /\ m \in Seq(Nat) /\ \A i \in DOMAIN m : m[i] \in Nat /\ m[i] <= now /\ m[i] < s + Hour
    BY LenProperties, ElementOfSeq DEF A!AlertsAssumption, MailsInv
  <1>2. /\ v \in [startedAt : Nat, sent : 0 .. PerHour, suppressed : Nat]
        /\ v.startedAt = s /\ v.sent = w.sent + 1
    BY <1>1
  <1>3. /\ l \in Seq(Nat)
        /\ \A i \in DOMAIN l : l[i] = now \/ \E j \in DOMAIN m : l[i] = m[j]
        /\ \A a, b : Cardinality(Between(l, a, b)) = Cardinality(Between(m, a, b)) + IF now \in a .. b THEN 1 ELSE 0
    BY <1>1, OneMoreMail
  <1>4. \A a, b : Cardinality(Between(m, a, b)) \in Nat
    BY <1>1, BetweenFinite
  <1> HIDE DEF l, s
  <1>5. ASSUME NEW i \in DOMAIN l PROVE l[i] <= now /\ l[i] < s + Hour
    <2>1. CASE l[i] = now
      BY <1>1, <2>1 DEF s
    <2>2. ASSUME NEW j \in DOMAIN m, l[i] = m[j] PROVE l[i] <= now /\ l[i] < s + Hour
      BY <1>1, <2>2 DEF s
    <2>3. QED
      BY <1>3, <2>1, <2>2
  <1>6. Cardinality(Between(l, s, s + Hour - 1)) = w.sent + 1
    <2>1. now \in s .. s + Hour - 1
      BY <1>1 DEF s
    <2>2. Cardinality(Between(m, s, s + Hour - 1)) = w.sent
      BY DEF MailsInv, s
    <2>3. QED
      BY <1>3, <2>1, <2>2
  <1>7. ASSUME NEW h \in Nat, s < h + Hour
        PROVE  Cardinality(Between(l, h, s - 1)) <= PerHour
    <2>1. ~(now \in h .. s - 1)
      BY <1>1, <1>7
    <2>2. Cardinality(Between(m, h, s - 1)) <= PerHour
      BY <1>7 DEF MailsInv, s
    <2>3. Cardinality(Between(l, h, s - 1)) = Cardinality(Between(m, h, s - 1)) + 0
      BY <1>3, <2>1
    <2>4. QED
      BY <1>4, <2>2, <2>3
  <1>8. ASSUME NEW h \in Nat
        PROVE  Cardinality(Between(l, h, h + Hour - 1)) <= 2 * PerHour
    <2>1. CASE ~(now \in h .. h + Hour - 1)
      <3>1. Cardinality(Between(m, h, h + Hour - 1)) <= 2 * PerHour
        BY DEF MailsInv
      <3>2. Cardinality(Between(l, h, h + Hour - 1)) = Cardinality(Between(m, h, h + Hour - 1)) + 0
        BY <1>3, <2>1
      <3>3. QED
        BY <1>4, <3>1, <3>2
    <2>2. CASE now \in h .. h + Hour - 1
      <3>1. s < h + Hour
        BY <1>1, <2>2
      <3>2. Between(l, h, h + Hour - 1) \subseteq Between(l, h, s - 1) \cup Between(l, s, s + Hour - 1)
        <4>1. ASSUME NEW i \in DOMAIN l, l[i] \in h .. h + Hour - 1
              PROVE  l[i] \in h .. s - 1 \/ l[i] \in s .. s + Hour - 1
          <5>1. l[i] \in Nat /\ l[i] < s + Hour
            BY <1>3, <1>5, LenProperties, ElementOfSeq
          <5>2. QED
            BY <1>1, <4>1, <5>1
        <4>2. QED
          BY <4>1 DEF Between
      <3>3. Cardinality(Between(l, h, h + Hour - 1))
            <= Cardinality(Between(l, h, s - 1)) + Cardinality(Between(l, s, s + Hour - 1))
        BY <1>3, <3>2, BothBetween
      <3>4. Cardinality(Between(l, h, s - 1)) <= PerHour /\ w.sent + 1 <= PerHour
        BY <1>1, <1>7, <3>1
      <3>5. PICK x \in Nat, y \in Nat : /\ x = Cardinality(Between(l, h, h + Hour - 1))
                                        /\ y = Cardinality(Between(l, h, s - 1))
        BY <1>3, BetweenFinite
      <3>6. x <= y + (w.sent + 1) /\ y <= PerHour /\ w.sent + 1 <= PerHour
        BY <1>6, <3>3, <3>4, <3>5
      <3>7. x <= 2 * PerHour
        BY <1>1, <3>6
      <3>8. QED
        BY <3>5, <3>7
    <2>3. QED
      BY <2>1, <2>2
  <1>9. QED
    BY <1>1, <1>2, <1>3, <1>5, <1>6, <1>7, <1>8 DEF MailsInv, l

LEMMA TotalOfNothing ==
    ASSUME NEW f, NEW dom, IsFiniteSet(dom), \A x \in dom : f[x] = 0
    PROVE  Total(f, dom) = 0
  <1> DEFINE good == {s \in SUBSET dom : Total(f, s) = 0}
  <1>1. ASSUME NEW s \in SUBSET dom, \A x \in s : s \ {x} \in good
        PROVE  s \in good
    <2>1. Total(f, s) = IF s = {} THEN 0 ELSE f[Choice(s)] + Total(f, s \ {Choice(s)})
      BY Fewer, TotalUnfolds
    <2>2. CASE s = {}
      BY <2>1, <2>2
    <2>3. CASE s # {}
      <3>1. Choice(s) \in s
        BY <2>3, Picked
      <3>2. QED
        BY <1>1, <2>1, <2>3, <3>1
    <2>4. QED
      BY <2>2, <2>3
  <1>2. dom \in good
    <2> HIDE DEF good
    <2>1. good \in SUBSET SUBSET dom
      BY DEF good
    <2>2. QED
      BY <1>1, <2>1, Gather
  <1>3. QED
    BY <1>2

LEMMA TalliesFinite ==
    /\ IsFiniteSet(A!Counters)
    /\ A!Counters = {"delivered", "rejected", "failed", "dropped"}
    /\ A!Transports = {"webhook", "email"}
  <1>1. A!Counters = {"delivered"} \cup {"rejected"} \cup {"failed"} \cup {"dropped"}
    BY DEF A!Counters, A!Outcomes
  <1>2. \A x : IsFiniteSet({x})
    BY FS_Singleton
  <1>3. IsFiniteSet({"delivered"} \cup {"rejected"})
    BY <1>2, FS_Union
  <1>4. IsFiniteSet(({"delivered"} \cup {"rejected"}) \cup {"failed"})
    BY <1>2, <1>3, FS_Union
  <1>5. IsFiniteSet((({"delivered"} \cup {"rejected"}) \cup {"failed"}) \cup {"dropped"})
    BY <1>2, <1>4, FS_Union
  <1>6. QED
    BY <1>1, <1>5 DEF A!Transports

LEMMA Tallied ==
    ASSUME NEW counts \in Tally, NEW c \in A!Counters, NEW more, more = [counts EXCEPT ![c] = @ + 1]
    PROVE  /\ more \in Tally /\ Total(counts, A!Counters) \in Nat
           /\ Total(more, A!Counters) = Total(counts, A!Counters) + 1
  <1>1. /\ more \in Tally /\ more[c] = counts[c] + 1 /\ \A x \in A!Counters \ {c} : more[x] = counts[x]
        /\ \A x \in A!Counters : counts[x] \in Nat
    BY DEF Tally
  <1>0. IsFiniteSet(A!Counters)
    BY TalliesFinite
  <1>2. Total(counts, A!Counters) \in Nat
    BY <1>0, <1>1, TotalType
  <1>3. Total(more, A!Counters) = Total(counts, A!Counters) + 1
    BY <1>0, <1>1, TotalOneMore, ZenonT(30)
  <1>4. QED
    BY <1>1, <1>2, <1>3

LEMMA ConfigIsWanted ==
    /\ A!Config \subseteq A!Transports
    /\ settings = A!Unset => A!Config = {}
  BY DEF A!Config, A!Wanted, A!Unset

(* The budget: the window that is in force, and what it makes of an event. *)
LEMMA RolledFacts ==
    ASSUME A!AlertsAssumption, AlertsInv
    PROVE  /\ MailsInv(mailed, A!Rolled, clock) /\ clock \in Nat
           /\ clock < A!Rolled.startedAt + Hour
           /\ A!Rolled.suppressed = emailWindow.suppressed
           /\ A!Rolled \in [startedAt : Nat, sent : 0 .. PerHour, suppressed : Nat]
  <1>1. /\ clock \in Nat /\ Hour \in Nat \ {0} /\ MailsInv(mailed, emailWindow, clock)
        /\ emailWindow \in [startedAt : Nat, sent : 0 .. PerHour, suppressed : Nat]
    BY DEF AlertsInv, A!AlertsAssumption, MailsInv
  <1>2. PICK v : v = A!Rolled
    OBVIOUS
  <1>3. CASE clock >= emailWindow.startedAt + Hour
    <2>1. v = [emailWindow EXCEPT !.startedAt = clock, !.sent = 0]
      BY <1>2, <1>3 DEF A!Rolled
    <2>2. v \in [startedAt : {clock}, sent : {0}, suppressed : Nat] /\ v.suppressed = emailWindow.suppressed
      BY <1>1, <2>1
    <2>3. emailWindow.startedAt + Hour <= clock
      BY <1>1, <1>3
    <2>4. MailsInv(mailed, v, clock)
      BY <1>1, <2>2, <2>3, WindowOpens
    <2>5. v.startedAt = clock /\ clock < clock + Hour
      BY <1>1, <2>2
    <2>6. QED
      BY <1>1, <1>2, <2>2, <2>4, <2>5 DEF MailsInv
  <1>4. CASE ~(clock >= emailWindow.startedAt + Hour)
    <2>1. v = emailWindow
      BY <1>2, <1>4 DEF A!Rolled
    <2>2. QED
      BY <1>1, <1>2, <1>4, <2>1
  <1>5. QED
    BY <1>3, <1>4

LEMMA BudgetKeeps ==
    ASSUME A!AlertsAssumption, AlertsInv, A!Budget
    PROVE  /\ MailsInv(mailed', emailWindow', clock)
           /\ A!Mails => emailWindow'.suppressed = 0 /\ suppressions' = suppressions
           /\ A!Suppresses => /\ emailWindow'.suppressed = emailWindow.suppressed + 1
                              /\ suppressions' = [suppressions EXCEPT !.ever = @ + 1]
           /\ ~A!Mails /\ ~A!Suppresses => emailWindow' = emailWindow /\ suppressions' = suppressions
  <1>1. PICK w : w = A!Rolled
    OBVIOUS
  <1>2. /\ MailsInv(mailed, w, clock) /\ clock \in Nat /\ clock < w.startedAt + Hour
        /\ w.suppressed = emailWindow.suppressed
        /\ w \in [startedAt : Nat, sent : 0 .. PerHour, suppressed : Nat]
    BY <1>1, RolledFacts
  <1>3. ~(A!Mails /\ A!Suppresses)
    BY DEF A!Mails
  <1>4. CASE A!Mails
    <2>1. /\ emailWindow' = [w EXCEPT !.sent = @ + 1, !.suppressed = 0]
          /\ mailed' = Append(mailed, clock) /\ suppressions' = suppressions
      BY <1>1, <1>3, <1>4 DEF A!Budget
    <2>2. w.sent < PerHour
      BY <1>1, <1>2, <1>4 DEF A!Mails, A!Suppresses, A!AlertsAssumption
    <2>3. /\ emailWindow' \in [startedAt : {w.startedAt}, sent : {w.sent + 1}, suppressed : Nat]
          /\ emailWindow'.suppressed = 0
      BY <1>2, <2>1
    <2>4. MailsInv(Append(mailed, clock), emailWindow', clock)
      BY <1>2, <2>2, <2>3, MailGoesOut
    <2>5. QED
      BY <1>3, <1>4, <2>1, <2>3, <2>4
  <1>5. CASE A!Suppresses
    <2>1. /\ emailWindow' = [w EXCEPT !.suppressed = @ + 1]
          /\ mailed' = mailed /\ suppressions' = [suppressions EXCEPT !.ever = @ + 1]
      BY <1>1, <1>3, <1>5 DEF A!Budget
    <2>2. /\ emailWindow'.startedAt = w.startedAt /\ emailWindow'.sent = w.sent
          /\ emailWindow'.suppressed = emailWindow.suppressed + 1
          /\ emailWindow' \in [startedAt : Nat, sent : 0 .. PerHour, suppressed : Nat]
      BY <1>2, <2>1
    <2>3. MailsInv(mailed, emailWindow', clock)
      BY <1>2, <2>2 DEF MailsInv
    <2>4. QED
      BY <1>3, <1>5, <2>1, <2>2, <2>3
  <1>6. CASE ~A!Mails /\ ~A!Suppresses
    <2>1. emailWindow' = emailWindow /\ mailed' = mailed /\ suppressions' = suppressions
      BY <1>6 DEF A!Budget
    <2>2. QED
      BY <1>6, <2>1 DEF AlertsInv
  <1>7. QED
    BY <1>4, <1>5, <1>6

LEMMA RouteStep ==
    ASSUME A!AlertsAssumption, AlertsInv, A!Route
    PROVE  AlertsInv'
  <1> DEFINE full == {t \in A!Config : A!Full(t)}
             dropped == full \cup (IF A!Suppresses THEN {"email"} ELSE {})
             note(t) == IF t = "email" THEN A!Rolled.suppressed ELSE 0
  <1>1. /\ A!Config # {} /\ considered < MaxEvents /\ considered' = considered + 1
        /\ counters' = [t \in A!Transports |->
                           [counters[t] EXCEPT !.dropped = @ + IF t \in dropped THEN 1 ELSE 0]]
        /\ underway' = [t \in A!Transports |->
                           IF t \in A!Config \ dropped THEN Append(underway[t], note(t)) ELSE underway[t]]
        /\ A!Budget /\ settings' = settings /\ clock' = clock
    BY DEF A!Route
  <1>2. A!Config' = A!Config
    BY <1>1 DEF A!Config, A!Wanted
  <1>3. dropped \subseteq A!Config /\ A!Config \subseteq A!Transports
    BY ConfigIsWanted DEF A!Suppresses, A!AsksBudget
  <1>4. note("webhook") = 0 /\ note("email") = emailWindow.suppressed /\ note("email") \in Nat
    BY RolledFacts
  <1>5. \A t \in A!Transports : t \in {"webhook", "email"} /\ note(t) \in Nat
    BY <1>4, TalliesFinite
  <1>6. considered \in Nat /\ considered' \in 0 .. MaxEvents
    BY <1>1 DEF AlertsInv, A!AlertsAssumption
  <1> HIDE DEF full, note
  <1>7. ASSUME NEW t \in A!Transports
        PROVE  /\ counters'[t] \in Tally /\ underway'[t] \in Seq(Nat) /\ Len(underway'[t]) <= MaxInFlight
               /\ Accounts(A!Config, t, considered', counters'[t], underway'[t])
    <2>1. /\ counters[t] \in Tally /\ underway[t] \in Seq(Nat) /\ Len(underway[t]) \in Nat
          /\ Len(underway[t]) <= MaxInFlight /\ MaxInFlight \in Nat
          /\ Accounts(A!Config, t, considered, counters[t], underway[t])
      BY LenProperties DEF AlertsInv, A!AlertsAssumption
    <2>2. /\ "dropped" \in A!Counters
          /\ \A c \in A!Counters : counters[t][c] \in Nat
          /\ counters[t] = [c \in A!Counters |-> counters[t][c]]
      BY <2>1 DEF Tally, A!Counters
    <2>3. CASE t \in dropped
      <3>1. counters'[t] = [counters[t] EXCEPT !["dropped"] = @ + 1] /\ underway'[t] = underway[t]
        BY <1>1, <2>3
      <3>2. counters'[t] \in Tally /\ Total(counters[t], A!Counters) \in Nat
            /\ Total(counters'[t], A!Counters) = Total(counters[t], A!Counters) + 1
        BY <2>1, <2>2, <3>1, Tallied
      <3>3. t \in A!Config
        BY <1>3, <2>3
      <3>4. considered = Len(underway[t]) + Total(counters[t], A!Counters)
        BY <2>1, <3>3 DEF Accounts
      <3>5. considered' = Len(underway'[t]) + Total(counters'[t], A!Counters)
        <4>1. PICK a \in Nat, b \in Nat : a = Len(underway[t]) /\ b = Total(counters[t], A!Counters)
          BY <2>1, <3>2
        <4>2. /\ considered = a + b /\ considered' = considered + 1
              /\ Len(underway'[t]) = a /\ Total(counters'[t], A!Counters) = b + 1
          BY <1>1, <3>1, <3>2, <3>4, <4>1, Zenon
        <4>3. (a + b) + 1 = a + (b + 1)
          BY <4>1
        <4>4. QED
          BY <4>2, <4>3, Zenon
      <3>6. QED
        BY <2>1, <3>1, <3>2, <3>3, <3>5 DEF Accounts
    <2>4. CASE t \notin dropped
      <3>1. counters'[t] = counters[t]
        <4>1. counters'[t] = [counters[t] EXCEPT !["dropped"] = @ + 0]
          BY <1>1, <2>4
        <4>2. counters[t]["dropped"] + 0 = counters[t]["dropped"]
          BY <2>2
        <4>3. QED
          BY <2>2, <4>1, <4>2
      <3>2. CASE t \in A!Config
        <4>1. underway'[t] = Append(underway[t], note(t))
          BY <1>1, <2>4, <3>2
        <4>2. underway'[t] \in Seq(Nat) /\ Len(underway'[t]) = Len(underway[t]) + 1
          BY <1>5, <2>1, <4>1, SumAppended
        <4>3. ~A!Full(t)
          BY <2>4, <3>2 DEF full
        <4>4. Len(underway'[t]) <= MaxInFlight
          BY <2>1, <4>2, <4>3 DEF A!Full
        <4>5. Total(counters[t], A!Counters) \in Nat
          BY <2>1, <2>2, Tallied
        <4>6. considered' = Len(underway'[t]) + Total(counters'[t], A!Counters)
          BY <1>1, <2>1, <3>1, <3>2, <4>2, <4>5 DEF Accounts
        <4>7. QED
          BY <2>1, <3>1, <3>2, <4>2, <4>4, <4>6 DEF Accounts
      <3>3. CASE t \notin A!Config
        <4>1. underway'[t] = underway[t]
          BY <1>1, <3>3
        <4>2. QED
          BY <2>1, <3>1, <3>3, <4>1 DEF Accounts
      <3>4. QED
        BY <3>2, <3>3
    <2>5. QED
      BY <2>3, <2>4
  <1>8. /\ "email" \in A!Transports /\ "webhook" \in A!Transports
        /\ underway["email"] \in Seq(Nat) /\ underway["webhook"] \in Seq(Nat)
    BY TalliesFinite DEF AlertsInv
  <1>9. \A i \in DOMAIN underway'["webhook"] : underway'["webhook"][i] = 0
    <2>1. \A i \in DOMAIN underway["webhook"] : underway["webhook"][i] = 0
      BY DEF AlertsInv
    <2>2. CASE underway'["webhook"] = underway["webhook"]
      BY <2>1, <2>2
    <2>3. CASE underway'["webhook"] = Append(underway["webhook"], note("webhook"))
      <3>1. \A i \in DOMAIN underway'["webhook"] :
               underway'["webhook"][i] = 0 \/ \E j \in DOMAIN underway["webhook"] :
                                                 underway'["webhook"][i] = underway["webhook"][j]
        BY <1>4, <1>8, <2>3, OneMoreMail
      <3>2. QED
        BY <2>1, <3>1
    <2>4. QED
      BY <1>1, <1>8, <2>2, <2>3
  <1>10. /\ suppressions' \in [ever : Nat, told : Nat, lost : Nat]
         /\ suppressions'.ever = emailWindow'.suppressed + suppressions'.told + suppressions'.lost
                                  + Sum(underway'["email"])
    <2>1. /\ suppressions \in [ever : Nat, told : Nat, lost : Nat]
          /\ suppressions.ever = emailWindow.suppressed + suppressions.told + suppressions.lost
                                  + Sum(underway["email"])
          /\ emailWindow.suppressed \in Nat
      BY DEF AlertsInv, MailsInv
    <2>2. Sum(underway["email"]) \in Nat
      BY <1>8, SumAppended
    <2>3. A!Mails <=> "email" \in A!Config \ dropped
      <3>1. "email" \in full <=> "email" \in A!Config /\ A!Full("email")
        BY DEF full
      <3>2. QED
        BY <3>1 DEF A!Mails, A!Suppresses, A!AsksBudget
    <2>4. CASE A!Mails
      <3>1. underway'["email"] = Append(underway["email"], note("email"))
        BY <1>1, <1>8, <2>3, <2>4
      <3>2. Sum(underway'["email"]) = Sum(underway["email"]) + emailWindow.suppressed
        BY <1>4, <1>8, <3>1, SumAppended
      <3>3. emailWindow'.suppressed = 0 /\ suppressions' = suppressions
        BY <1>1, <2>4, BudgetKeeps
      <3>4. QED
        BY <2>1, <2>2, <3>2, <3>3
    <2>5. CASE ~A!Mails
      <3>1. underway'["email"] = underway["email"]
        BY <1>1, <1>8, <2>3, <2>5
      <3>2. CASE A!Suppresses
        <4>1. /\ emailWindow'.suppressed = emailWindow.suppressed + 1
              /\ suppressions' = [suppressions EXCEPT !.ever = @ + 1]
          BY <1>1, <3>2, BudgetKeeps
        <4>2. QED
          BY <2>1, <2>2, <3>1, <4>1
      <3>3. CASE ~A!Suppresses
        <4>1. emailWindow' = emailWindow /\ suppressions' = suppressions
          BY <1>1, <2>5, <3>3, BudgetKeeps
        <4>2. QED
          BY <2>1, <3>1, <4>1
      <3>4. QED
        BY <3>2, <3>3
    <2>6. QED
      BY <2>4, <2>5
  <1>11. MailsInv(mailed', emailWindow', clock)
    BY <1>1, BudgetKeeps
  <1>12. counters' \in [A!Transports -> Tally] /\ underway' \in [A!Transports -> Seq(Nat)]
    <2>1. /\ counters' = [t \in A!Transports |-> counters'[t]]
          /\ underway' = [t \in A!Transports |-> underway'[t]]
      BY <1>1
    <2>2. QED
      BY <1>7, <2>1
  <1>13. QED
    BY <1>1, <1>2, <1>6, <1>7, <1>9, <1>10, <1>11, <1>12 DEF AlertsInv

LEMMA EndStep ==
    ASSUME A!AlertsAssumption, AlertsInv, NEW t \in A!Transports, NEW i \in DOMAIN underway[t],
           NEW how \in A!Outcomes, A!End(t, i, how)
    PROVE  AlertsInv'
  <1> DEFINE carried == underway[t][i]
             rest == A!RemoveAt(underway[t], i)
  <1>1. /\ underway' = [underway EXCEPT ![t] = rest]
        /\ counters' = [counters EXCEPT ![t] = [counters[t] EXCEPT ![how] = @ + 1]]
        /\ suppressions' = IF how = "delivered" THEN [suppressions EXCEPT !.told = @ + carried]
                           ELSE [suppressions EXCEPT !.lost = @ + carried]
        /\ UNCHANGED <<settings, clock, considered, emailWindow, mailed>>
    BY DEF A!End, A!Told, A!mailVars
  <1>2. A!Config' = A!Config
    BY <1>1 DEF A!Config, A!Wanted
  <1>3. /\ underway \in [A!Transports -> Seq(Nat)] /\ counters \in [A!Transports -> Tally]
        /\ underway[t] \in Seq(Nat) /\ counters[t] \in Tally /\ how \in A!Counters
        /\ Len(underway[t]) \in Nat /\ Len(underway[t]) <= MaxInFlight /\ MaxInFlight \in Nat
    BY LenProperties DEF AlertsInv, A!Counters, A!AlertsAssumption
  <1>4. /\ rest \in Seq(Nat) /\ Len(rest) = Len(underway[t]) - 1
        /\ \A j \in DOMAIN rest : \E k \in DOMAIN underway[t] : rest[j] = underway[t][k]
        /\ carried \in Nat /\ Sum(rest) \in Nat /\ Sum(underway[t]) = Sum(rest) + carried
    BY <1>3, SumRemoved
  <1>5. PICK counts : counts = [counters[t] EXCEPT ![how] = @ + 1]
    OBVIOUS
  <1>6. /\ counts \in Tally /\ Total(counters[t], A!Counters) \in Nat
        /\ Total(counts, A!Counters) = Total(counters[t], A!Counters) + 1
    BY <1>3, <1>5, Tallied
  <1> HIDE DEF carried, rest
  <1>7. /\ underway' \in [A!Transports -> Seq(Nat)] /\ counters' \in [A!Transports -> Tally]
        /\ underway'[t] = rest /\ counters'[t] = counts
        /\ \A u \in A!Transports \ {t} : underway'[u] = underway[u] /\ counters'[u] = counters[u]
    BY <1>1, <1>3, <1>4, <1>5, <1>6
  <1>8. t \in A!Config
    <2>1. underway[t] # <<>>
      BY EmptySeq
    <2>2. QED
      BY <2>1 DEF AlertsInv, Accounts
  <1>9. ASSUME NEW u \in A!Transports
        PROVE  /\ Len(underway'[u]) <= MaxInFlight
               /\ Accounts(A!Config, u, considered, counters'[u], underway'[u])
    <2>1. CASE u = t
      <3>1. considered = Len(underway[t]) + Total(counters[t], A!Counters) /\ considered \in Nat
        BY <1>8 DEF AlertsInv, Accounts
      <3>2. considered = Len(rest) + Total(counts, A!Counters)
        BY <1>3, <1>4, <1>6, <3>1
      <3>3. Len(rest) <= MaxInFlight
        BY <1>3, <1>4
      <3>4. QED
        BY <1>7, <1>8, <2>1, <3>2, <3>3 DEF Accounts
    <2>2. CASE u # t
      BY <1>7, <2>2 DEF AlertsInv
    <2>3. QED
      BY <2>1, <2>2
  <1>10. t \in {"webhook", "email"} /\ "email" \in A!Transports /\ "webhook" \in A!Transports
    BY TalliesFinite
  <1>11. \A j \in DOMAIN underway'["webhook"] : underway'["webhook"][j] = 0
    <2>1. \A j \in DOMAIN underway["webhook"] : underway["webhook"][j] = 0
      BY DEF AlertsInv
    <2>2. CASE t = "webhook"
      BY <1>4, <1>7, <2>1, <2>2
    <2>3. CASE t = "email"
      BY <1>7, <1>10, <2>1, <2>3
    <2>4. QED
      BY <1>10, <2>2, <2>3
  <1>12. /\ suppressions' \in [ever : Nat, told : Nat, lost : Nat]
         /\ suppressions'.ever = emailWindow.suppressed + suppressions'.told + suppressions'.lost
                                  + Sum(underway'["email"])
    <2>1. /\ suppressions \in [ever : Nat, told : Nat, lost : Nat]
          /\ suppressions.ever = emailWindow.suppressed + suppressions.told + suppressions.lost
                                  + Sum(underway["email"])
          /\ emailWindow.suppressed \in Nat
      BY DEF AlertsInv, MailsInv
    <2>2. /\ suppressions' \in [ever : Nat, told : Nat, lost : Nat] /\ suppressions'.ever = suppressions.ever
          /\ suppressions'.told + suppressions'.lost = suppressions.told + suppressions.lost + carried
      <3>1. CASE how = "delivered"
        <4>1. suppressions' = [suppressions EXCEPT !.told = @ + carried]
          BY <1>1, <3>1
        <4>2. QED
          BY <1>4, <2>1, <4>1
      <3>2. CASE how # "delivered"
        <4>1. suppressions' = [suppressions EXCEPT !.lost = @ + carried]
          BY <1>1, <3>2
        <4>2. PICK told \in Nat, lost \in Nat, x \in Nat :
                 told = suppressions.told /\ lost = suppressions.lost /\ x = carried
          BY <1>4, <2>1
        <4>3. /\ suppressions' \in [ever : Nat, told : Nat, lost : Nat]
              /\ suppressions'.ever = suppressions.ever
              /\ suppressions'.told = told /\ suppressions'.lost = lost + x
          BY <2>1, <4>1, <4>2
        <4>4. told + (lost + x) = (told + lost) + x
          BY <4>2
        <4>5. QED
          BY <4>2, <4>3, <4>4
      <3>3. QED
        BY <3>1, <3>2
    <2>3. CASE t = "email"
      <3>1. underway'["email"] = rest
        BY <1>7, <2>3
      <3>2. Sum(underway["email"]) = Sum(underway'["email"]) + carried /\ Sum(underway'["email"]) \in Nat
        BY <1>4, <2>3, <3>1, Zenon
      <3>3. PICK kept \in Nat, a \in Nat, b \in Nat, c \in Nat, d \in Nat, x \in Nat, y \in Nat :
               /\ kept = emailWindow.suppressed /\ x = carried /\ y = Sum(underway'["email"])
               /\ a = suppressions.told /\ b = suppressions.lost
               /\ c = suppressions'.told /\ d = suppressions'.lost
        BY <1>4, <2>1, <2>2, <3>2
      <3>4. c + d = (a + b) + x
        BY <2>2, <3>3
      <3>5. suppressions.ever = ((kept + a) + b) + (y + x)
        BY <2>1, <3>2, <3>3, Zenon
      <3>6. ((kept + c) + d) + y = ((kept + a) + b) + (y + x)
        BY <3>4
      <3>7. suppressions'.ever = ((kept + c) + d) + y
        BY <2>2, <3>5, <3>6, Zenon
      <3>8. QED
        BY <2>2, <3>3, <3>7, Zenon
    <2>4. CASE t = "webhook"
      <3>1. carried = 0
        BY <2>4 DEF AlertsInv, carried
      <3>2. underway'["email"] = underway["email"]
        BY <1>7, <1>10, <2>4
      <3>3. Sum(underway["email"]) \in Nat
        BY <1>3, <1>10, SumAppended
      <3>4. QED
        BY <2>1, <2>2, <3>1, <3>2, <3>3
    <2>5. QED
      BY <1>10, <2>3, <2>4
  <1>13. QED
    BY <1>1, <1>2, <1>7, <1>9, <1>11, <1>12 DEF AlertsInv

LEMMA ConfigureStep ==
    ASSUME A!AlertsAssumption, AlertsInv, A!Configure
    PROVE  AlertsInv'
  <1>1. /\ settings = A!Unset
        /\ settings' \in [A!Transports \cup {"shared"} -> {"absent", "good", "bad"}]
        /\ settings'["shared"] # "absent"
        /\ UNCHANGED <<clock, considered, counters, underway, suppressions, emailWindow, mailed>>
    BY DEF A!Configure, A!mailVars
  <1>2. A!Config = {} /\ A!Config' \subseteq A!Transports /\ considered = 0
    BY <1>1, ConfigIsWanted DEF AlertsInv, A!Config, A!Wanted
  <1>3. ASSUME NEW t \in A!Transports
        PROVE  Accounts(A!Config', t, considered, counters[t], underway[t])
    <2>1. underway[t] = <<>> /\ counters[t] = [c \in A!Counters |-> 0]
      BY <1>2 DEF AlertsInv, Accounts
    <2>2. Total(counters[t], A!Counters) = 0
      BY <2>1, TalliesFinite, TotalOfNothing
    <2>3. considered = Len(underway[t]) + Total(counters[t], A!Counters)
      BY <1>2, <2>1, <2>2
    <2>4. QED
      BY <2>1, <2>3 DEF Accounts
  <1>4. QED
    BY <1>1, <1>2, <1>3 DEF AlertsInv

LEMMA ClockStep ==
    ASSUME A!AlertsAssumption, AlertsInv, A!Tick
    PROVE  AlertsInv'
  <1>1. /\ clock < MaxClock /\ clock' = clock + 1
        /\ UNCHANGED <<settings, considered, counters, underway, suppressions, emailWindow, mailed>>
    BY DEF A!Tick, A!mailVars
  <1>2. clock \in Hour .. MaxClock /\ clock' \in Hour .. MaxClock /\ Hour \in Nat /\ MaxClock \in Nat
    BY <1>1 DEF AlertsInv, A!AlertsAssumption
  <1>3. A!Config' = A!Config
    BY <1>1 DEF A!Config, A!Wanted
  <1>4. MailsInv(mailed, emailWindow, clock')
    <2>1. /\ MailsInv(mailed, emailWindow, clock) /\ emailWindow.startedAt \in Nat
          /\ \A i \in DOMAIN mailed : mailed[i] \in Nat /\ mailed[i] <= clock
      BY LenProperties, ElementOfSeq DEF AlertsInv, MailsInv
    <2>2. emailWindow.startedAt <= clock' /\ \A i \in DOMAIN mailed : mailed[i] <= clock'
      <3>1. emailWindow.startedAt <= clock
        BY <2>1 DEF MailsInv
      <3>2. clock \in Nat /\ \A n \in Nat : n <= clock => n <= clock'
        BY <1>1, <1>2
      <3>3. QED
        BY <2>1, <3>1, <3>2
    <2>3. QED
      BY <2>1, <2>2 DEF MailsInv
  <1>5. QED
    BY <1>1, <1>2, <1>3, <1>4 DEF AlertsInv

LEMMA AlertsWithin == [Next]_vars => [A!Next]_(A!alertVars)
  <1> SUFFICES ASSUME [Next]_vars PROVE [A!Next]_(A!alertVars)
    OBVIOUS
  <1>1. ASSUME UNCHANGED alerts PROVE UNCHANGED A!alertVars
    BY <1>1 DEF alerts, A!alertVars
  <1>2. CASE UNCHANGED vars
    BY <1>1, <1>2 DEF vars
  <1>3. CASE Next
    BY <1>1, <1>3 DEF Next, ImportsStep, ScannerStep, LimiterStep, SmtpStep, ApiStep
  <1>4. QED
    BY <1>2, <1>3

LEMMA AlertsRun == Spec => A!Init /\ [][A!Next]_(A!alertVars)
  <1>1. Init => A!Init
    BY DEF Init
  <1>2. QED
    BY <1>1, AlertsWithin, PTL DEF Spec

(* The counters of a transport and the deliveries it has in flight are all *)
(* of its events, no hour holds more than two ceilings of mails, and every *)
(* suppressed mail is told of, waits to be, or went down with the mail     *)
(* that told of it, whatever was refused, dropped or reset on the way.     *)
THEOREM AlertsAddUp == Spec => []AlertsAreAccounted
  <1>0. A!AlertsAssumption
    BY ServicesAssumption
  <1>1. A!Init => AlertsInv
    <2> SUFFICES ASSUME A!Init PROVE AlertsInv
      OBVIOUS
    <2>1. /\ settings = A!Unset /\ clock = Hour /\ considered = 0
          /\ counters = [t \in A!Transports |-> [c \in A!Counters |-> 0]]
          /\ underway = [t \in A!Transports |-> <<>>]
          /\ emailWindow = [startedAt |-> 0, sent |-> 0, suppressed |-> 0]
          /\ mailed = <<>> /\ suppressions = [ever |-> 0, told |-> 0, lost |-> 0]
      BY DEF A!Init
    <2>2. /\ Hour \in Nat \ {0} /\ PerHour \in Nat /\ MaxInFlight \in Nat /\ MaxEvents \in Nat
          /\ MaxClock \in Nat /\ Hour <= MaxClock
      BY <1>0 DEF A!AlertsAssumption
    <2>3. A!Config = {}
      BY <2>1, ConfigIsWanted
    <2>4. \A a, b : Cardinality(Between(mailed, a, b)) = 0
      <3>1. \A a, b : Between(mailed, a, b) = {}
        BY <2>1 DEF Between
      <3>2. QED
        BY <3>1, FS_EmptySet
    <2>5. MailsInv(mailed, emailWindow, clock)
      BY <2>1, <2>2, <2>4 DEF MailsInv
    <2>6. underway["webhook"] = <<>> /\ underway["email"] = <<>>
      BY <2>1, TalliesFinite
    <2>7. Sum(underway["email"]) = 0
      <3>1. Sum(<<>>) = 0
        <4>1. 1 .. Len(<<>>) = {}
          OBVIOUS
        <4>2. QED
          BY <4>1, TotalOfNone DEF Sum
      <3>2. QED
        BY <2>6, <3>1
    <2>8. \A t \in A!Transports : Accounts(A!Config, t, considered, counters[t], underway[t])
      BY <2>1, <2>3 DEF Accounts
    <2>9. counters \in [A!Transports -> Tally] /\ underway \in [A!Transports -> Seq(Nat)]
      BY <2>1 DEF Tally
    <2>10. settings \in [A!Transports \cup {"shared"} -> {"absent", "good", "bad"}]
      BY <2>1 DEF A!Unset
    <2>11. /\ suppressions \in [ever : Nat, told : Nat, lost : Nat]
           /\ suppressions.ever = emailWindow.suppressed + suppressions.told + suppressions.lost
                                   + Sum(underway["email"])
      BY <2>1, <2>7
    <2>12. QED
      BY <2>1, <2>2, <2>5, <2>6, <2>8, <2>9, <2>10, <2>11 DEF AlertsInv
  <1>2. AlertsInv /\ [A!Next]_(A!alertVars) => AlertsInv'
    <2> SUFFICES ASSUME AlertsInv, [A!Next]_(A!alertVars) PROVE AlertsInv'
      OBVIOUS
    <2>1. CASE UNCHANGED A!alertVars
      <3>1. UNCHANGED <<settings, clock, considered, counters, underway, emailWindow, mailed, suppressions>>
        BY <2>1 DEF A!alertVars
      <3>2. A!Config' = A!Config
        BY <3>1 DEF A!Config, A!Wanted
      <3>3. QED
        BY <3>1, <3>2 DEF AlertsInv
    <2>2. ASSUME NEW t \in A!Transports, A!Deliver(t) PROVE AlertsInv'
      BY <1>0, <2>2, EndStep DEF A!Deliver
    <2>3. ASSUME NEW t \in A!Transports, A!Timeout(t) PROVE AlertsInv'
      <3>1. underway[t] \in Seq(Nat) /\ underway[t] # <<>> /\ A!End(t, 1, "failed")
        BY <2>3 DEF A!Timeout, AlertsInv
      <3>2. 1 \in DOMAIN underway[t] /\ "failed" \in A!Outcomes
        BY <3>1, LenProperties, EmptySeq DEF A!Outcomes
      <3>3. QED
        BY <1>0, <3>1, <3>2, EndStep
    <2>4. QED
      BY <1>0, <2>1, <2>2, <2>3, ConfigureStep, RouteStep, ClockStep DEF A!Next
  <1>3. AlertsInv => AlertsAreAccounted
    <2> SUFFICES ASSUME AlertsInv PROVE AlertsAreAccounted
      OBVIOUS
    <2>1. A!TypeOK
      BY DEF AlertsInv, MailsInv, A!TypeOK
    <2>2. ASSUME NEW t
          PROVE  A!MapThenSumSet(LAMBDA c : counters[t][c], A!Counters) = Total(counters[t], A!Counters)
      BY Zenon DEF A!MapThenSumSet, A!MapThenFoldSet, Total, Adds, AddsUp, Choice
    <2>3. ASSUME NEW t \in A!Config
          PROVE  considered = Len(underway[t]) + A!MapThenSumSet(LAMBDA c : counters[t][c], A!Counters)
      <3>1. t \in A!Transports
        BY ConfigIsWanted
      <3>2. considered = Len(underway[t]) + Total(counters[t], A!Counters)
        BY <3>1 DEF AlertsInv, Accounts
      <3>3. QED
        BY <2>2, <3>2, Zenon
    <2>4. ASSUME NEW t \in A!Transports \ A!Config
          PROVE  underway[t] = <<>> /\ \A c \in A!Counters : counters[t][c] = 0
      BY DEF AlertsInv, Accounts
    <2>5. ASSUME NEW h \in Hour .. MaxClock
          PROVE  A!Cardinality({i \in DOMAIN mailed : mailed[i] \in h .. h + Hour - 1}) <= 2 * PerHour
      <3>1. h \in Nat
        BY <1>0 DEF A!AlertsAssumption
      <3>2. Cardinality(Between(mailed, h, h + Hour - 1)) <= 2 * PerHour
        BY <3>1 DEF AlertsInv, MailsInv
      <3>3. Cardinality({i \in DOMAIN mailed : mailed[i] \in h .. h + Hour - 1}) <= 2 * PerHour
        BY <3>2 DEF Between
      <3>4. QED
        BY <3>3, Zenon DEF A!Cardinality, Cardinality
    <2>6. A!FoldSeq(LAMBDA x, y : x + y, 0, underway["email"]) = Sum(underway["email"])
      <3>1. DOMAIN underway["email"] = 1 .. Len(underway["email"])
        BY TalliesFinite, LenProperties DEF AlertsInv
      <3>2. A!FoldSeq(LAMBDA x, y : x + y, 0, underway["email"])
            = Total(underway["email"], DOMAIN underway["email"])
        BY Zenon DEF A!FoldSeq, A!FoldFunction, A!FoldFunctionOnSet, A!MapThenFoldSet, Total, Adds, Choice
      <3>3. QED
        BY <3>1, <3>2, Zenon DEF Sum
    <2>7. QED
      BY <2>1, <2>3, <2>4, <2>5, <2>6 DEF AlertsInv, AlertsAreAccounted, A!AlertsAreAccounted
  <1>4. QED
    BY <1>0, <1>1, <1>2, <1>3, AlertsRun, PTL

-----------------------------------------------------------------------------
(* The service: the routes.  Whatever a route has in front of its work     *)
(* judges the request, and what it commits, it commits last.               *)

Denials == 400 .. 499
Judges(g, r) == g.kind = "guard" /\ (g.status \in Denials \/ (r = "logout" /\ g.status = 200))
Queries(g, r) ==
    /\ g.kind = "query"
    /\ \A o \in g.outcomes : \/ o[1] = 0
                             \/ o[1] \in Denials /\ o[2] \in {"nothing", "rejects"}
                             \/ o[1] = 200 /\ r \in {"imports", "logout"}
Quiet(g) == \A o \in g.outcomes : o[1] = 0 => o[2] = "nothing"
Keeps(g, r) == g.kind = "query" /\ \A o \in g.outcomes : o[1] = 0 => o[2] = W!Promised[r]
Ends(g, r) == (g.kind = "send" /\ g.status \in 200 .. 299) \/ (r = "ready" /\ g.kind = "probe")

(* The stages t of route r, n of them: p that judge or count, then queries *)
(* and what asks their rows, and the end.                                  *)
RouteShape(t, r, n, p) ==
    /\ n \in Nat \ {0} /\ p \in 0 .. n - 1 /\ t = [i \in 1 .. n |-> t[i]]
    /\ \A i \in 1 .. p : Judges(t[i], r) \/ t[i] = W!Limited
    /\ \A i \in p + 1 .. n - 1 : \/ Judges(t[i], r) /\ t[i].test = "own"
                                 \/ Queries(t[i], r) /\ (i < n - 1 => Quiet(t[i]))
    /\ Ends(t[n], r)

(* What it promises is committed by its last query, if it promises at all. *)
Earned(t, r, n) == n > 1 /\ Keeps(t[n - 1], r)
Shaped(t, r) == \E n, p : RouteShape(t, r, n, p) /\ (r \in DOMAIN W!Promised => Earned(t, r, n))

LEMMA ParsedJudges == \A r : Judges(W!Parsed, r)
  BY DEF Judges, Denials, W!Guard, W!Parsed
LEMMA ImportableJudges == \A r : Judges(W!Importable, r)
  BY DEF Judges, Denials, W!Guard, W!Importable
LEMMA IdentifiedJudges == \A r : Judges(W!Identified, r)
  BY DEF Judges, Denials, W!Guard, W!Identified
LEMMA PagedJudges == \A r : Judges(W!Paged, r)
  BY DEF Judges, Denials, W!Guard, W!Paged
LEMMA NeedsJudge == \A r, of : Judges(W!Needs(of), r)
  BY DEF Judges, Denials, W!Guard, W!Needs
LEMMA HoldingJudges == \A r, of : Judges(W!Holding(of), r)
  BY DEF Judges, Denials, W!Guard, W!Holding
LEMMA DemonstratesJudges == \A r : Judges(W!Demonstrates, r)
  BY DEF Judges, Denials, W!Guard, W!Demonstrates
LEMMA GuardsJudge ==
    \A r, test, of : \A s \in {400, 401, 403, 404} :
        Judges(W!Guard(test, of, s), r) /\ W!Guard(test, of, s).test = test
  BY DEF Judges, Denials, W!Guard

LEMMA Endings == \A r : \A s \in {200, 201, 202, 204} : Ends(W!Sends(s), r)
  BY DEF Ends, W!Sends

LEMMA Promises ==
    /\ DOMAIN W!Promised = {"bootstrap", "login", "logout", "rotateCredential", "imports", "upload", "reviewEvidence",
                            "requeue", "runAssessments", "reassessGap", "assignGap", "remediateGap", "freezeReview",
                            "generateDossier", "demoReset"}
    /\ W!Promised["bootstrap"] = "bootstraps" /\ W!Promised["login"] = "signs in" /\ W!Promised["logout"] = "signs out"
    /\ W!Promised["rotateCredential"] = "rotates" /\ W!Promised["imports"] = "imports"
    /\ W!Promised["upload"] = "uploads" /\ W!Promised["reviewEvidence"] = "reviews"
    /\ W!Promised["requeue"] = "requeues" /\ W!Promised["runAssessments"] = "assesses"
    /\ W!Promised["reassessGap"] = "assesses" /\ W!Promised["assignGap"] = "assigns"
    /\ W!Promised["remediateGap"] = "remediates" /\ W!Promised["freezeReview"] = "freezes"
    /\ W!Promised["generateDossier"] = "generates" /\ W!Promised["demoReset"] = "resets"
  BY DEF W!Promised

LEMMA ReadsAnswer ==
    /\ \A r : Queries(W!Reads, r) /\ Queries(W!ReadsRow, r)
    /\ Quiet(W!Reads) /\ Quiet(W!ReadsRow)
  BY DEF Queries, Quiet, Denials, W!Reads, W!ReadsRow, W!Query, W!Continues, W!Refuses

LEMMA WritesAnswer ==
    ASSUME NEW r, NEW refusals \in SUBSET Denials
    PROVE  Queries(W!Writes(W!Promised[r], refusals), r) /\ Keeps(W!Writes(W!Promised[r], refusals), r)
  BY DEF Queries, Keeps, Denials, W!Writes, W!Query, W!Continues, W!Refuses

LEMMA CountedRules ==
    W!Counted("read") = <<>> /\ W!Counted("bootstrap") = <<W!Limited>> /\ W!Counted("login") = <<W!Limited>>
  BY DEF W!Counted, W!Dimensions

LEMMA WorksAnswer ==
    ASSUME NEW r, NEW what, W!Promised[r] = what
    PROVE  \A refusals \in {{404}, {409}, {404, 409}} :
              Queries(W!Writes(what, refusals), r) /\ Keeps(W!Writes(what, refusals), r)
  <1>1. ASSUME NEW refusals \in {{404}, {409}, {404, 409}}
        PROVE  Queries(W!Writes(what, refusals), r) /\ Keeps(W!Writes(what, refusals), r)
    <2>1. refusals \in SUBSET Denials
      BY DEF Denials
    <2>2. Queries(W!Writes(W!Promised[r], refusals), r) /\ Keeps(W!Writes(W!Promised[r], refusals), r)
      BY <2>1, WritesAnswer
    <2>3. QED
      BY <2>2
  <1>2. QED
    BY <1>1

(* The routes behind a credential: those that read, those that write, and  *)
(* those whose answer is not of the usual form.                            *)
LEMMA Reading ==
    /\ Shaped(W!Session, "session") /\ Shaped(W!CatalogSummary, "catalogSummary") /\ Shaped(W!Catalog, "catalog")
    /\ \A r \in {"evidenceRequirements", "evidence", "assessments", "gaps"} : Shaped(W!Listing, r)
    /\ Shaped(W!ScanJobs, "scanJobs") /\ Shaped(W!ReviewSnapshots, "reviewSnapshots")
    /\ Shaped(W!DownloadDossier, "downloadDossier") /\ Shaped(W!VerifyAudit, "verifyAudit")
    /\ Shaped(W!DownloadEvidence, "downloadEvidence")
  <1>0. \A r \in {"session", "catalogSummary", "catalog", "evidenceRequirements", "evidence", "assessments", "gaps",
                  "scanJobs", "reviewSnapshots", "downloadDossier", "verifyAudit", "downloadEvidence"} :
           r \notin DOMAIN W!Promised
    BY Promises
  <1>1. RouteShape(W!Session, "session", 2, 1)
    BY Endings DEF RouteShape, W!Session
  <1>2. RouteShape(W!CatalogSummary, "catalogSummary", 4, 2)
    BY NeedsJudge, ReadsAnswer, Endings DEF RouteShape, W!CatalogSummary
  <1>3. RouteShape(W!Catalog, "catalog", 6, 4)
    BY GuardsJudge, NeedsJudge, PagedJudges, ReadsAnswer, Endings DEF RouteShape, W!Catalog
  <1>4. ASSUME NEW r PROVE RouteShape(W!Listing, r, 5, 3)
    BY NeedsJudge, PagedJudges, ReadsAnswer, Endings DEF RouteShape, W!Listing
  <1>5. RouteShape(W!ScanJobs, "scanJobs", 4, 2)
    BY NeedsJudge, ReadsAnswer, Endings DEF RouteShape, W!ScanJobs
  <1>6. RouteShape(W!ReviewSnapshots, "reviewSnapshots", 4, 2)
    BY NeedsJudge, ReadsAnswer, Endings DEF RouteShape, W!ReviewSnapshots
  <1>7. RouteShape(W!DownloadDossier, "downloadDossier", 5, 3)
    BY NeedsJudge, IdentifiedJudges, ReadsAnswer, Endings DEF RouteShape, W!DownloadDossier
  <1>8. RouteShape(W!VerifyAudit, "verifyAudit", 4, 2)
    BY NeedsJudge, ReadsAnswer, Endings DEF RouteShape, W!VerifyAudit
  <1>9. RouteShape(W!DownloadEvidence, "downloadEvidence", 5, 2)
    BY GuardsJudge, IdentifiedJudges, ReadsAnswer, Endings DEF RouteShape, W!DownloadEvidence
  <1>10. QED
    BY <1>0, <1>1, <1>2, <1>3, <1>4, <1>5, <1>6, <1>7, <1>8, <1>9 DEF Shaped

LEMMA Writing ==
    /\ Shaped(W!Upload, "upload") /\ Shaped(W!ReviewEvidence, "reviewEvidence") /\ Shaped(W!Requeue, "requeue")
    /\ Shaped(W!RunAssessments, "runAssessments") /\ Shaped(W!AssignGap, "assignGap")
    /\ Shaped(W!RemediateGap, "remediateGap") /\ Shaped(W!ReassessGap, "reassessGap")
    /\ Shaped(W!FreezeReview, "freezeReview") /\ Shaped(W!GenerateDossier, "generateDossier")
  <1>1. Shaped(W!Upload, "upload")
    <2>1. PICK q : q = W!Writes("uploads", {404})
      OBVIOUS
    <2>2. Queries(q, "upload") /\ Keeps(q, "upload")
      <3>1. W!Promised["upload"] = "uploads"
        BY Zenon DEF W!Promised
      <3>2. QED
        BY <2>1, <3>1, WorksAnswer
    <2>3. RouteShape(W!Upload, "upload", 5, 3) /\ W!Upload[4] = q
      BY <2>1, <2>2, NeedsJudge, ParsedJudges, Endings DEF RouteShape, W!Upload
    <2>4. QED
      BY <2>2, <2>3 DEF Shaped, Earned
  <1>2. Shaped(W!ReviewEvidence, "reviewEvidence")
    <2>1. PICK q : q = W!Writes("reviews", {404, 409})
      OBVIOUS
    <2>2. Queries(q, "reviewEvidence") /\ Keeps(q, "reviewEvidence")
      <3>1. W!Promised["reviewEvidence"] = "reviews"
        BY Zenon DEF W!Promised
      <3>2. QED
        BY <2>1, <3>1, WorksAnswer
    <2>3. RouteShape(W!ReviewEvidence, "reviewEvidence", 7, 5) /\ W!ReviewEvidence[6] = q
      BY <2>1, <2>2, NeedsJudge, ParsedJudges, IdentifiedJudges, GuardsJudge, Endings DEF RouteShape, W!ReviewEvidence
    <2>4. QED
      BY <2>2, <2>3 DEF Shaped, Earned
  <1>3. Shaped(W!Requeue, "requeue")
    <2>1. PICK q : q = W!Writes("requeues", {404, 409})
      OBVIOUS
    <2>2. Queries(q, "requeue") /\ Keeps(q, "requeue")
      <3>1. W!Promised["requeue"] = "requeues"
        BY Zenon DEF W!Promised
      <3>2. QED
        BY <2>1, <3>1, WorksAnswer
    <2>3. RouteShape(W!Requeue, "requeue", 5, 3) /\ W!Requeue[4] = q
      BY <2>1, <2>2, NeedsJudge, IdentifiedJudges, Endings DEF RouteShape, W!Requeue
    <2>4. QED
      BY <2>2, <2>3 DEF Shaped, Earned
  <1>4. Shaped(W!RunAssessments, "runAssessments")
    <2>1. PICK q : q = W!Writes("assesses", {404, 409})
      OBVIOUS
    <2>2. Queries(q, "runAssessments") /\ Keeps(q, "runAssessments")
      <3>1. W!Promised["runAssessments"] = "assesses"
        BY Zenon DEF W!Promised
      <3>2. QED
        BY <2>1, <3>1, WorksAnswer
    <2>3. RouteShape(W!RunAssessments, "runAssessments", 5, 3) /\ W!RunAssessments[4] = q
      BY <2>1, <2>2, NeedsJudge, ParsedJudges, Endings DEF RouteShape, W!RunAssessments
    <2>4. QED
      BY <2>2, <2>3 DEF Shaped, Earned
  <1>5. Shaped(W!AssignGap, "assignGap")
    <2>1. PICK q : q = W!Writes("assigns", {404, 409})
      OBVIOUS
    <2>2. Queries(q, "assignGap") /\ Keeps(q, "assignGap")
      <3>1. W!Promised["assignGap"] = "assigns"
        BY Zenon DEF W!Promised
      <3>2. QED
        BY <2>1, <3>1, WorksAnswer
    <2>3. RouteShape(W!AssignGap, "assignGap", 6, 4) /\ W!AssignGap[5] = q
      BY <2>1, <2>2, NeedsJudge, ParsedJudges, IdentifiedJudges, Endings DEF RouteShape, W!AssignGap
    <2>4. QED
      BY <2>2, <2>3 DEF Shaped, Earned
  <1>6. Shaped(W!RemediateGap, "remediateGap")
    <2>1. PICK q : q = W!Writes("remediates", {404, 409})
      OBVIOUS
    <2>2. Queries(q, "remediateGap") /\ Keeps(q, "remediateGap")
      <3>1. W!Promised["remediateGap"] = "remediates"
        BY Zenon DEF W!Promised
      <3>2. QED
        BY <2>1, <3>1, WorksAnswer
    <2>3. RouteShape(W!RemediateGap, "remediateGap", 6, 4) /\ W!RemediateGap[5] = q
      BY <2>1, <2>2, NeedsJudge, ParsedJudges, IdentifiedJudges, Endings DEF RouteShape, W!RemediateGap
    <2>4. QED
      BY <2>2, <2>3 DEF Shaped, Earned
  <1>7. Shaped(W!ReassessGap, "reassessGap")
    <2>1. PICK q : q = W!Writes("assesses", {404, 409})
      OBVIOUS
    <2>2. Queries(q, "reassessGap") /\ Keeps(q, "reassessGap")
      <3>1. W!Promised["reassessGap"] = "assesses"
        BY Zenon DEF W!Promised
      <3>2. QED
        BY <2>1, <3>1, WorksAnswer
    <2>3. RouteShape(W!ReassessGap, "reassessGap", 6, 3) /\ W!ReassessGap[5] = q
      BY <2>1, <2>2, NeedsJudge, IdentifiedJudges, ReadsAnswer, Endings DEF RouteShape, W!ReassessGap
    <2>4. QED
      BY <2>2, <2>3 DEF Shaped, Earned
  <1>8. Shaped(W!FreezeReview, "freezeReview")
    <2>1. PICK q : q = W!Writes("freezes", {409})
      OBVIOUS
    <2>2. Queries(q, "freezeReview") /\ Keeps(q, "freezeReview")
      <3>1. W!Promised["freezeReview"] = "freezes"
        BY Zenon DEF W!Promised
      <3>2. QED
        BY <2>1, <3>1, WorksAnswer
    <2>3. RouteShape(W!FreezeReview, "freezeReview", 5, 3) /\ W!FreezeReview[4] = q
      BY <2>1, <2>2, NeedsJudge, ParsedJudges, Endings DEF RouteShape, W!FreezeReview
    <2>4. QED
      BY <2>2, <2>3 DEF Shaped, Earned
  <1>9. Shaped(W!GenerateDossier, "generateDossier")
    <2>1. PICK q : q = W!Writes("generates", {404, 409})
      OBVIOUS
    <2>2. Queries(q, "generateDossier") /\ Keeps(q, "generateDossier")
      <3>1. W!Promised["generateDossier"] = "generates"
        BY Zenon DEF W!Promised
      <3>2. QED
        BY <2>1, <3>1, WorksAnswer
    <2>3. RouteShape(W!GenerateDossier, "generateDossier", 5, 3) /\ W!GenerateDossier[4] = q
      BY <2>1, <2>2, NeedsJudge, IdentifiedJudges, Endings DEF RouteShape, W!GenerateDossier
    <2>4. QED
      BY <2>2, <2>3 DEF Shaped, Earned
  <1>10. QED
    BY <1>1, <1>2, <1>3, <1>4, <1>5, <1>6, <1>7, <1>8, <1>9

LEMMA Answering ==
    /\ Shaped(W!Logout, "logout") /\ Shaped(W!RotateCredential, "rotateCredential")
    /\ Shaped(W!Imports, "imports") /\ Shaped(W!DemoReset, "demoReset")
  <1>1. Shaped(W!Logout, "logout")
    <2>1. PICK what, test : what = "signs out" /\ test = "has a session"
      BY Zenon
    <2>2. what = W!Promised["logout"]
      BY <2>1, Zenon DEF W!Promised
    <2>3. PICK q, g : /\ q = W!Query("request", {W!Continues(what), W!Refuses(200)})
                      /\ g = W!Guard(test, {}, 200)
      BY Zenon
    <2>4. q.kind = "query" /\ q.outcomes = {<<0, what>>, <<200, "nothing">>}
      BY <2>3 DEF W!Query, W!Continues, W!Refuses
    <2>5. Queries(q, "logout") /\ Keeps(q, "logout")
      BY <2>2, <2>4 DEF Queries, Keeps
    <2>6. Judges(g, "logout")
      BY <2>3 DEF Judges, W!Guard
    <2>7. W!Logout = <<W!Limited, g, q, W!Sends(204)>>
      BY <2>1, <2>3, Zenon DEF W!Logout
    <2>8. RouteShape(<<W!Limited, g, q, W!Sends(204)>>, "logout", 4, 2)
      BY <2>5, <2>6, Endings DEF RouteShape
    <2>9. QED
      BY <2>5, <2>7, <2>8 DEF Shaped, Earned
  <1>2. Shaped(W!RotateCredential, "rotateCredential")
    <2>1. PICK q : q = W!Query("credential", {W!Continues("rotates"), W!Refuses(404)})
      OBVIOUS
    <2>4. q.kind = "query" /\ q.outcomes = {<<0, "rotates">>, <<404, "nothing">>}
      BY <2>1 DEF W!Query, W!Continues, W!Refuses
    <2>2. Queries(q, "rotateCredential") /\ Keeps(q, "rotateCredential")
      BY <2>4 DEF Queries, Keeps, Denials, W!Promised
    <2>3. RouteShape(W!RotateCredential, "rotateCredential", 6, 4) /\ W!RotateCredential[5] = q
      BY <2>1, <2>2, GuardsJudge, IdentifiedJudges, HoldingJudges, Endings DEF RouteShape, W!RotateCredential
    <2>7. QED
      BY <2>2, <2>3 DEF Shaped, Earned
  <1>3. Shaped(W!Imports, "imports")
    <2>1. PICK q : q = W!Query("request", {W!Continues("imports"), W!Refuses(200), W!Refuses(409), <<422, "rejects">>})
      OBVIOUS
    <2>4. q.kind = "query" /\ q.outcomes = {<<0, "imports">>, <<200, "nothing">>, <<409, "nothing">>, <<422, "rejects">>}
      BY <2>1 DEF W!Query, W!Continues, W!Refuses
    <2>2. Queries(q, "imports") /\ Keeps(q, "imports")
      BY <2>4 DEF Queries, Keeps, Denials, W!Promised
    <2>3. RouteShape(W!Imports, "imports", 6, 4) /\ W!Imports[5] = q
      BY <2>1, <2>2, NeedsJudge, ParsedJudges, ImportableJudges, Endings DEF RouteShape, W!Imports
    <2>7. QED
      BY <2>2, <2>3 DEF Shaped, Earned
  <1>4. Shaped(W!DemoReset, "demoReset")
    <2>1. PICK q : q = W!Query("maintenance", {W!Continues("resets"), W!Refuses(404)})
      OBVIOUS
    <2>4. q.kind = "query" /\ q.outcomes = {<<0, "resets">>, <<404, "nothing">>}
      BY <2>1 DEF W!Query, W!Continues, W!Refuses
    <2>2. Queries(q, "demoReset") /\ Keeps(q, "demoReset")
      BY <2>4 DEF Queries, Keeps, Denials, W!Promised
    <2>3. RouteShape(W!DemoReset, "demoReset", 7, 4) /\ W!DemoReset[6] = q
      BY <2>1, <2>2, DemonstratesJudges, NeedsJudge, HoldingJudges, ReadsAnswer, Endings DEF RouteShape, W!DemoReset
    <2>7. QED
      BY <2>2, <2>3 DEF Shaped, Earned
  <1>5. QED
    BY <1>1, <1>2, <1>3, <1>4

LEMMA PrivateShapes == \A r \in DOMAIN W!Private : Shaped(W!Private[r], r)
  <1>1. ASSUME NEW r \in DOMAIN W!Private PROVE Shaped(W!Private[r], r)
    BY Reading, Writing, Answering DEF W!Private, W!EvidenceRequirements, W!Evidence, W!Assessments, W!Gaps
  <1>2. QED
    BY <1>1

(* What stands in front of a sequence, and what stands behind it.          *)
LEMMA Behind ==
    ASSUME NEW f, NEW m \in Nat, f = [i \in 1 .. m |-> f[i]], NEW t, NEW n \in Nat, t = [i \in 1 .. n |-> t[i]]
    PROVE  /\ f \o t = [i \in 1 .. m + n |-> (f \o t)[i]] /\ Len(f \o t) = m + n /\ DOMAIN (f \o t) = 1 .. m + n
           /\ \A i \in 1 .. m : (f \o t)[i] = f[i]
           /\ \A i \in 1 .. n : (f \o t)[m + i] = t[i]
  <1> DEFINE u == f \o t
             Stages == {f[i] : i \in 1 .. m} \cup {t[i] : i \in 1 .. n}
  <1>1. f \in Seq(Stages) /\ Len(f) = m
    OBVIOUS
  <1>2. t \in Seq(Stages) /\ Len(t) = n
    OBVIOUS
  <1>3. u \in Seq(Stages) /\ Len(u) = m + n
    BY <1>1, <1>2, ConcatProperties
  <1>4. \A i \in 1 .. m + n : u[i] = IF i <= m THEN f[i] ELSE t[i - m]
    BY <1>1, <1>2, ConcatProperties
  <1>5. DOMAIN u = 1 .. m + n /\ u = [i \in 1 .. m + n |-> u[i]]
    BY <1>3
  <1> HIDE DEF u, Stages
  <1>6. ASSUME NEW i \in 1 .. m PROVE u[i] = f[i]
    <2>1. i \in 1 .. m + n /\ i <= m
      OBVIOUS
    <2>2. QED
      BY <1>4, <2>1
  <1>7. ASSUME NEW i \in 1 .. n PROVE u[m + i] = t[i]
    <2>1. m + i \in 1 .. m + n /\ ~(m + i <= m) /\ (m + i) - m = i
      OBVIOUS
    <2>2. QED
      BY <1>4, <2>1
  <1>8. QED
    BY <1>3, <1>5, <1>6, <1>7 DEF u

(* A stage that judges or counts may stand in front of any route.          *)
LEMMA OneInFront ==
    ASSUME NEW r, NEW g, Judges(g, r) \/ g = W!Limited, NEW t, NEW n, NEW p, RouteShape(t, r, n, p)
    PROVE  /\ RouteShape(<<g>> \o t, r, n + 1, p + 1)
           /\ Earned(t, r, n) => Earned(<<g>> \o t, r, n + 1)
  <1> DEFINE u == <<g>> \o t
  <1>1. n \in Nat \ {0} /\ p \in 0 .. n - 1 /\ t = [i \in 1 .. n |-> t[i]]
    BY DEF RouteShape
  <1>2. <<g>> = [i \in 1 .. 1 |-> <<g>>[i]] /\ <<g>>[1] = g
    OBVIOUS
  <1>3. /\ u = [i \in 1 .. 1 + n |-> u[i]] /\ \A i \in 1 .. 1 : u[i] = <<g>>[i]
        /\ \A i \in 1 .. n : u[1 + i] = t[i]
    BY <1>1, <1>2, Behind
  <1> HIDE DEF u
  <1>4. n + 1 \in Nat \ {0} /\ p + 1 \in 0 .. (n + 1) - 1 /\ (n + 1) - 1 = n /\ (p + 1) + 1 = p + 2 /\ n + 1 = 1 + n
    BY <1>1
  <1>5. u[1] = g
    BY <1>2, <1>3
  <1>6. ASSUME NEW i \in 2 .. n + 1 PROVE i - 1 \in 1 .. n /\ u[i] = t[i - 1]
    <2>1. i - 1 \in 1 .. n /\ 1 + (i - 1) = i
      BY <1>1
    <2>2. QED
      BY <1>3, <2>1
  <1>7. ASSUME NEW i \in 1 .. p + 1 PROVE Judges(u[i], r) \/ u[i] = W!Limited
    <2>1. CASE i = 1
      BY <1>5, <2>1
    <2>2. CASE i # 1
      <3>1. i \in 2 .. n + 1 /\ i - 1 \in 1 .. p
        BY <1>1, <2>2
      <3>2. u[i] = t[i - 1]
        BY <1>6, <3>1
      <3>3. QED
        BY <3>1, <3>2 DEF RouteShape
    <2>3. QED
      BY <2>1, <2>2
  <1>8. ASSUME NEW i \in p + 2 .. n
        PROVE  \/ Judges(u[i], r) /\ u[i].test = "own"
               \/ Queries(u[i], r) /\ (i < n => Quiet(u[i]))
    <2>1. i \in 2 .. n + 1 /\ i - 1 \in p + 1 .. n - 1 /\ (i < n => i - 1 < n - 1)
      BY <1>1
    <2>2. u[i] = t[i - 1]
      BY <1>6, <2>1
    <2>3. QED
      BY <2>1, <2>2 DEF RouteShape
  <1>9. Ends(u[n + 1], r)
    <2>1. n + 1 \in 2 .. n + 1 /\ (n + 1) - 1 = n
      BY <1>1
    <2>2. u[n + 1] = t[n]
      BY <1>6, <2>1
    <2>3. QED
      BY <2>2 DEF RouteShape
  <1>10. u = [i \in 1 .. n + 1 |-> u[i]]
    BY <1>3, <1>4
  <1>11. RouteShape(u, r, n + 1, p + 1)
    BY <1>4, <1>7, <1>8, <1>9, <1>10 DEF RouteShape
  <1>12. ASSUME Earned(t, r, n) PROVE Earned(u, r, n + 1)
    <2>1. n > 1 /\ n \in 2 .. n + 1
      BY <1>1, <1>12 DEF Earned
    <2>2. u[n] = t[n - 1]
      BY <1>6, <2>1
    <2>3. n + 1 > 1 /\ (n + 1) - 1 = n
      BY <1>1
    <2>4. QED
      BY <1>12, <2>2, <2>3 DEF Earned
  <1>13. QED
    BY <1>11, <1>12 DEF u

LEMMA NoneInFront ==
    ASSUME NEW r, NEW t, NEW n, NEW p, RouteShape(t, r, n, p)
    PROVE  <<>> \o t = t
  <1>1. t \in Seq({t[i] : i \in 1 .. n})
    BY DEF RouteShape
  <1>2. QED
    BY <1>1, ConcatEmptySeq

(* The routes that anybody may ask for.                                    *)
LEMMA Opening ==
    /\ Shaped(W!Live, "live") /\ Shaped(W!Ready, "ready") /\ Shaped(W!Version, "version")
    /\ Shaped(W!Permissions, "permissions") /\ Shaped(W!DemoAccounts, "demoAccounts")
    /\ W!DemoAccounts = <<W!Demonstrates, W!Holding("auth"), W!Sends(200)>>
  <1>0. \A r \in {"live", "ready", "version", "permissions", "demoAccounts"} : r \notin DOMAIN W!Promised
    BY Promises
  <1>1. RouteShape(W!Live, "live", 1, 0)
    BY Endings DEF RouteShape, W!Live
  <1>2. RouteShape(W!Ready, "ready", 1, 0)
    BY DEF RouteShape, W!Ready, W!Probe, Ends
  <1>3. RouteShape(W!Version, "version", 2, 0)
    <2>1. PICK q : q = W!Query("request", {W!Continues("nothing")})
      OBVIOUS
    <2>2. Queries(q, "version")
      BY <2>1 DEF Queries, W!Query, W!Continues
    <2>3. RouteShape(<<q, W!Sends(200)>>, "version", 2, 0)
      BY <2>2, Endings DEF RouteShape
    <2>4. W!Version = <<>> \o <<q, W!Sends(200)>>
      BY <2>1, CountedRules, Zenon DEF W!Version
    <2>5. QED
      BY <2>3, <2>4, NoneInFront
  <1>4. RouteShape(W!Permissions, "permissions", 1, 0)
    <2>1. RouteShape(<<W!Sends(200)>>, "permissions", 1, 0)
      BY Endings DEF RouteShape
    <2>2. W!Permissions = <<>> \o <<W!Sends(200)>>
      BY CountedRules, Zenon DEF W!Permissions
    <2>3. QED
      BY <2>1, <2>2, NoneInFront
  <1>5. RouteShape(W!DemoAccounts, "demoAccounts", 3, 2)
        /\ W!DemoAccounts = <<W!Demonstrates, W!Holding("auth"), W!Sends(200)>>
    <2>1. RouteShape(<<W!Demonstrates, W!Holding("auth"), W!Sends(200)>>, "demoAccounts", 3, 2)
      BY DemonstratesJudges, HoldingJudges, Endings DEF RouteShape
    <2>2. W!DemoAccounts = <<>> \o <<W!Demonstrates, W!Holding("auth"), W!Sends(200)>>
      BY CountedRules, Zenon DEF W!DemoAccounts
    <2>3. QED
      BY <2>1, <2>2, NoneInFront
  <1>6. QED
    BY <1>0, <1>1, <1>2, <1>3, <1>4, <1>5 DEF Shaped

LEMMA Entering == Shaped(W!BootstrapRoute, "bootstrap") /\ Shaped(W!Login, "login")
  <1>1. Shaped(W!BootstrapRoute, "bootstrap")
    <2>1. PICK g, w : g = W!Guard("secret", {}, 401) /\ w = W!Writes("bootstraps", {409})
      OBVIOUS
    <2>2. W!Promised["bootstrap"] = "bootstraps"
      BY Zenon DEF W!Promised
    <2>3. Queries(w, "bootstrap") /\ Keeps(w, "bootstrap") /\ Judges(g, "bootstrap")
      <3>1. Queries(w, "bootstrap") /\ Keeps(w, "bootstrap")
        BY <2>1, <2>2, WorksAnswer
      <3>2. Judges(g, "bootstrap")
        BY <2>1, GuardsJudge
      <3>3. QED
        BY <3>1, <3>2
    <2>4. PICK t : t = <<W!Parsed, g, w, W!Sends(201)>>
      OBVIOUS
    <2>5. RouteShape(t, "bootstrap", 4, 2) /\ Earned(t, "bootstrap", 4)
      BY <2>3, <2>4, ParsedJudges, Endings DEF RouteShape, Earned
    <2>6. W!BootstrapRoute = <<W!Limited>> \o t
      BY <2>1, <2>4, CountedRules, Zenon DEF W!BootstrapRoute
    <2>7. QED
      BY <2>5, <2>6, OneInFront DEF Shaped
  <1>2. Shaped(W!Login, "login")
    <2>1. PICK what : what = "signs in" /\ what = W!Promised["login"]
      BY Zenon DEF W!Promised
    <2>2. PICK q, w : /\ q = W!Query("auth", {W!Continues("nothing"), W!Refuses(401)})
                      /\ w = W!Query("auth", {W!Continues(what), W!Refuses(401)})
      BY Zenon
    <2>3. /\ q.kind = "query" /\ q.outcomes = {<<0, "nothing">>, <<401, "nothing">>}
          /\ w.kind = "query" /\ w.outcomes = {<<0, what>>, <<401, "nothing">>}
      BY <2>2 DEF W!Query, W!Continues, W!Refuses
    <2>4. Queries(q, "login") /\ Quiet(q)
      BY <2>3 DEF Queries, Quiet, Denials
    <2>5. Queries(w, "login") /\ \A o \in w.outcomes : o[1] = 0 => o[2] = what
      BY <2>3 DEF Queries, Denials
    <2>6. Keeps(w, "login")
      BY <2>1, <2>3, <2>5, Zenon DEF Keeps
    <2>7. PICK t : t = <<W!Demonstrates, W!Holding("auth"), q, w, W!Sends(200)>>
      BY Zenon
    <2>8. RouteShape(t, "login", 5, 2) /\ Earned(t, "login", 5)
      BY <2>4, <2>5, <2>6, <2>7, DemonstratesJudges, HoldingJudges, Endings DEF RouteShape, Earned
    <2>9. W!Login = (<<W!Parsed>> \o <<W!Limited>>) \o t
      BY <2>1, <2>2, <2>7, CountedRules, Zenon DEF W!Login
    <2>10. (<<W!Parsed>> \o <<W!Limited>>) \o t = <<W!Parsed>> \o (<<W!Limited>> \o t)
      <3>1. PICK stages : t \in Seq(stages)
        <4>1. t \in Seq({t[i] : i \in 1 .. 5})
          BY <2>8 DEF RouteShape
        <4>2. QED
          BY <4>1
      <3>2. t \in Seq(stages \cup {W!Parsed, W!Limited})
        BY <3>1, SeqMonotonic
      <3>3. /\ <<W!Parsed>> \in Seq(stages \cup {W!Parsed, W!Limited})
            /\ <<W!Limited>> \in Seq(stages \cup {W!Parsed, W!Limited})
        OBVIOUS
      <3>4. QED
        BY <3>2, <3>3, ConcatAssociative
    <2>11. RouteShape(<<W!Limited>> \o t, "login", 5 + 1, 2 + 1) /\ Earned(<<W!Limited>> \o t, "login", 5 + 1)
      BY <2>8, OneInFront
    <2>12. QED
      BY <2>9, <2>10, <2>11, ParsedJudges, OneInFront, Zenon DEF Shaped
  <1>3. QED
    BY <1>1, <1>2

LEMMA PublicShapes == \A r \in DOMAIN W!Public : Shaped(W!Public[r], r)
  <1>1. ASSUME NEW r \in DOMAIN W!Public PROVE Shaped(W!Public[r], r)
    BY Opening, Entering DEF W!Public
  <1>2. QED
    BY <1>1

(* The stages a of route r, n of them.                                     *)
Lead(r) == IF r \in DOMAIN W!Private THEN Len(W!Authenticated) + 1 ELSE 1
Orderly(a, r, n) ==
    /\ \A i \in 1 .. n - 1 : Judges(a[i], r) \/ Queries(a[i], r)
    /\ \A i \in 1 .. n - 2 : a[i].kind = "query" => Quiet(a[i])
    /\ Ends(a[n], r)
JudgedFirst(a, r, n) ==
    \A i, j \in 1 .. n - 1 :
        i < j /\ i > Lead(r) /\ a[i].kind = "query" /\ a[i] # W!Limited /\ a[j].kind = "guard" => a[j].test = "own"
AsksForAccounts(a, n) == \E i, j \in 1 .. n - 1 : a[i] = W!Demonstrates /\ a[j] = W!Holding("auth")
RouteSound(a, r, n) ==
    /\ n \in Nat \ {0} /\ Len(a) = n /\ DOMAIN a = 1 .. n
    /\ Orderly(a, r, n) /\ JudgedFirst(a, r, n)
    /\ r \in DOMAIN W!Promised => Earned(a, r, n)
    /\ r = "demoAccounts" => AsksForAccounts(a, n)

LEMMA LimitedAnswers == \A r : Queries(W!Limited, r) /\ Quiet(W!Limited)
  BY DEF Queries, Quiet, Denials, W!Limited, W!Query, W!Continues, W!Refuses

(* What stands in front of a route may be judged or read, and the route is *)
(* sound.                                                                  *)
LEMMA Fronted ==
    ASSUME NEW r, NEW f, NEW m, m = Lead(r), m \in Nat \ {0}, f = [i \in 1 .. m |-> f[i]],
           \A i \in 1 .. m : Judges(f[i], r) \/ f[i] = W!Reads,
           NEW t, NEW n, NEW p, RouteShape(t, r, n, p), r \in DOMAIN W!Promised => Earned(t, r, n),
           r = "demoAccounts" => n = 3 /\ t[1] = W!Demonstrates /\ t[2] = W!Holding("auth")
    PROVE  RouteSound(f \o t, r, m + n)
  <1> DEFINE a == f \o t
  <1>0. t = [i \in 1 .. n |-> t[i]]
    BY DEF RouteShape
  <1>1. n \in Nat \ {0} /\ p \in 0 .. n - 1
    BY DEF RouteShape
  <1>2. /\ Len(a) = m + n /\ DOMAIN a = 1 .. m + n
        /\ \A i \in 1 .. m : a[i] = f[i]
        /\ \A i \in 1 .. n : a[m + i] = t[i]
    BY <1>0, <1>1, Behind
  <1> HIDE DEF a
  <1>3. ASSUME NEW i \in 1 .. m + n, i > m PROVE i - m \in 1 .. n /\ a[i] = t[i - m]
    <2>1. i - m \in 1 .. n /\ m + (i - m) = i
      BY <1>1, <1>3
    <2>2. QED
      BY <1>2, <2>1
  <1>4. ASSUME NEW i \in 1 .. m PROVE Judges(a[i], r) \/ (Queries(a[i], r) /\ Quiet(a[i]))
    BY <1>2, ReadsAnswer
  <1>5. ASSUME NEW i \in 1 .. (m + n) - 1, i > m
        PROVE  \/ Judges(a[i], r) /\ (i - m > p => a[i].test = "own")
               \/ Queries(a[i], r) /\ (i < m + n - 1 => Quiet(a[i])) /\ (i - m <= p => a[i] = W!Limited)
    <2>0. i \in 1 .. m + n /\ i - m \in 1 .. n - 1
      BY <1>1, <1>5
    <2>1. i \in 1 .. m + n /\ i - m \in 1 .. n - 1 /\ a[i] = t[i - m]
      BY <1>3, <1>5, <2>0
    <2>2. CASE i - m <= p
      <3>0. i - m \in 1 .. p
        BY <1>1, <2>0, <2>2
      <3>1. Judges(t[i - m], r) \/ t[i - m] = W!Limited
        BY <3>0 DEF RouteShape
      <3>2. ~(i - m > p)
        BY <1>1, <2>1, <2>2
      <3>3. QED
        BY <2>1, <3>1, <3>2, LimitedAnswers
    <2>3. CASE ~(i - m <= p)
      <3>1. i - m \in p + 1 .. n - 1 /\ (i < m + n - 1 => i - m < n - 1)
        BY <1>1, <2>1, <2>3
      <3>2. \/ Judges(t[i - m], r) /\ t[i - m].test = "own"
            \/ Queries(t[i - m], r) /\ (i - m < n - 1 => Quiet(t[i - m]))
        BY <3>1 DEF RouteShape
      <3>3. QED
        BY <2>1, <2>3, <3>1, <3>2
    <2>4. QED
      BY <2>2, <2>3
  <1>6. ASSUME NEW i \in 1 .. (m + n) - 1 PROVE Judges(a[i], r) \/ Queries(a[i], r)
    <2>1. CASE i <= m
      <3>1. i \in 1 .. m
        BY <2>1
      <3>2. QED
        BY <1>4, <3>1
    <2>2. CASE ~(i <= m)
      <3>1. i > m
        BY <1>1, <2>2
      <3>2. QED
        BY <1>5, <3>1
    <2>3. QED
      BY <2>1, <2>2
  <1>7. ASSUME NEW i \in 1 .. (m + n) - 2, a[i].kind = "query" PROVE Quiet(a[i])
    <2>1. ~Judges(a[i], r)
      BY <1>7 DEF Judges
    <2>2. CASE i <= m
      <3>1. i \in 1 .. m
        BY <2>2
      <3>2. QED
        BY <1>4, <2>1, <3>1
    <2>3. CASE ~(i <= m)
      <3>1. i > m /\ i \in 1 .. (m + n) - 1 /\ i < m + n - 1
        BY <1>1, <2>3
      <3>2. QED
        BY <1>5, <2>1, <3>1
    <2>4. QED
      BY <2>2, <2>3
  <1>8. Ends(a[m + n], r)
    <2>1. n \in 1 .. n
      BY <1>1
    <2>2. QED
      BY <1>2, <2>1 DEF RouteShape
  <1>9. ASSUME r \in DOMAIN W!Promised PROVE Earned(a, r, m + n)
    <2>1. n > 1 /\ Keeps(t[n - 1], r)
      BY <1>9 DEF Earned
    <2>2. n - 1 \in 1 .. n /\ m + (n - 1) = (m + n) - 1 /\ m + n > 1
      BY <1>1, <2>1
    <2>3. a[(m + n) - 1] = t[n - 1]
      BY <1>2, <2>2
    <2>4. QED
      BY <2>1, <2>2, <2>3 DEF Earned
  <1>10. ASSUME NEW i \in 1 .. (m + n) - 1, NEW j \in 1 .. (m + n) - 1, i < j, i > Lead(r), a[i].kind = "query",
                a[i] # W!Limited, a[j].kind = "guard"
         PROVE  a[j].test = "own"
    <2>1. ~Judges(a[i], r) /\ ~Queries(a[j], r)
      BY <1>10 DEF Judges, Queries
    <2>2. i > m /\ j > m /\ i - m < j - m
      BY <1>1, <1>10
    <2>3. ~(i - m <= p)
      BY <1>5, <1>10, <2>1, <2>2
    <2>4. j - m > p
      BY <1>1, <2>2, <2>3
    <2>5. QED
      BY <1>5, <2>1, <2>2, <2>4
  <1>11. ASSUME r = "demoAccounts"
         PROVE  \E i, j \in 1 .. (m + n) - 1 : a[i] = W!Demonstrates /\ a[j] = W!Holding("auth")
    <2>1. 1 \in 1 .. n /\ 2 \in 1 .. n /\ m + 1 \in 1 .. (m + n) - 1 /\ m + 2 \in 1 .. (m + n) - 1
      BY <1>11
    <2>2. a[m + 1] = W!Demonstrates /\ a[m + 2] = W!Holding("auth")
      BY <1>2, <1>11, <2>1
    <2>3. QED
      BY <2>1, <2>2
  <1>12. m + n \in Nat \ {0}
    BY <1>1
  <1>13. RouteSound(a, r, m + n)
    <2>1. Orderly(a, r, m + n)
      BY <1>6, <1>7, <1>8 DEF Orderly
    <2>2. JudgedFirst(a, r, m + n)
      BY <1>10 DEF JudgedFirst
    <2>3. r = "demoAccounts" => AsksForAccounts(a, m + n)
      BY <1>11 DEF AsksForAccounts
    <2>4. QED
      BY <1>2, <1>9, <1>12, <2>1, <2>2, <2>3 DEF RouteSound
  <1>14. QED
    BY <1>13 DEF a

LEMMA AuthenticatedStages ==
    /\ Len(W!Authenticated) = 4 /\ W!Authenticated = [i \in 1 .. 4 |-> W!Authenticated[i]]
    /\ \A r : \A i \in 1 .. 4 : Judges(W!Authenticated[i], r) \/ W!Authenticated[i] = W!Reads
  BY GuardsJudge DEF W!Authenticated

LEMMA RoutesAreSound ==
    ASSUME NEW r \in W!Routes
    PROVE  \E n : RouteSound(W!App[r], r, n)
  <1>0. Judges(W!AllowedOrigin, r)
    BY DEF Judges, Denials, W!AllowedOrigin, W!Guard
  <1>1. <<W!AllowedOrigin>> = [i \in 1 .. 1 |-> <<W!AllowedOrigin>>[i]] /\ <<W!AllowedOrigin>>[1] = W!AllowedOrigin
    OBVIOUS
  <1>2. CASE r \in DOMAIN W!Private
    <2>1. PICK t, n, p : /\ t = W!Private[r] /\ RouteShape(t, r, n, p)
                         /\ r \in DOMAIN W!Promised => Earned(t, r, n)
      BY <1>2, PrivateShapes DEF Shaped
    <2>2. r \notin DOMAIN W!Public /\ r # "demoAccounts"
      BY <1>2 DEF W!Private, W!Public
    <2>3. PICK f : f = <<W!AllowedOrigin>> \o W!Authenticated
      OBVIOUS
    <2>4. /\ f = [i \in 1 .. 5 |-> f[i]]
          /\ \A i \in 1 .. 5 : Judges(f[i], r) \/ f[i] = W!Reads
      <3>1. /\ f = [i \in 1 .. 1 + 4 |-> f[i]] /\ \A i \in 1 .. 1 : f[i] = <<W!AllowedOrigin>>[i]
            /\ \A i \in 1 .. 4 : f[1 + i] = W!Authenticated[i]
        BY <1>1, <2>3, AuthenticatedStages, Behind
      <3>2. 1 + 4 = 5 /\ f[1] = W!AllowedOrigin
        BY <1>1, <3>1
      <3>3. ASSUME NEW i \in 1 .. 5 PROVE Judges(f[i], r) \/ f[i] = W!Reads
        <4>1. CASE i = 1
          BY <1>0, <3>2, <4>1
        <4>2. CASE i # 1
          <5>1. i - 1 \in 1 .. 4 /\ 1 + (i - 1) = i
            BY <4>2
          <5>2. QED
            BY <3>1, <5>1, AuthenticatedStages
        <4>3. QED
          BY <4>1, <4>2
      <3>4. QED
        BY <3>1, <3>2, <3>3
    <2>5. Lead(r) = 5
      BY <1>2, AuthenticatedStages DEF Lead
    <2>6. RouteSound(f \o t, r, 5 + n)
      <3>1. PICK m \in Nat \ {0} : m = 5
        OBVIOUS
      <3>2. m = Lead(r) /\ f = [i \in 1 .. m |-> f[i]] /\ \A i \in 1 .. m : Judges(f[i], r) \/ f[i] = W!Reads
        BY <2>4, <2>5, <3>1
      <3>3. RouteSound(f \o t, r, m + n)
        BY <2>1, <2>2, <3>2, Fronted, Zenon
      <3>4. QED
        BY <3>1, <3>3
    <2>7. W!App[r] = <<W!AllowedOrigin>> \o (W!Authenticated \o t)
      BY <2>1, <2>2, Zenon DEF W!App
    <2>8. f \o t = <<W!AllowedOrigin>> \o (W!Authenticated \o t)
      <3>1. PICK stages : stages = {t[i] : i \in 1 .. n} \cup {W!AllowedOrigin}
                                    \cup {W!Authenticated[i] : i \in 1 .. 4}
        OBVIOUS
      <3>2. t \in Seq(stages)
        <4>1. n \in Nat /\ t = [i \in 1 .. n |-> t[i]]
          BY <2>1 DEF RouteShape
        <4>2. QED
          BY <3>1, <4>1
      <3>3. W!Authenticated \in Seq(stages)
        BY <3>1, AuthenticatedStages
      <3>4. <<W!AllowedOrigin>> \in Seq(stages)
        BY <3>1
      <3>5. QED
        BY <2>3, <3>2, <3>3, <3>4, ConcatAssociative
    <2>9. QED
      BY <2>6, <2>7, <2>8
  <1>3. CASE r \notin DOMAIN W!Private
    <2>0. r \in DOMAIN W!Public
      BY <1>3 DEF W!Routes
    <2>1. PICK t, n, p : /\ t = W!Public[r] /\ RouteShape(t, r, n, p)
                         /\ r \in DOMAIN W!Promised => Earned(t, r, n)
      BY <2>0, PublicShapes DEF Shaped
    <2>2. r = "demoAccounts" => n = 3 /\ t[1] = W!Demonstrates /\ t[2] = W!Holding("auth")
      <3>1. r = "demoAccounts" => t = W!DemoAccounts
        BY <2>1 DEF W!Public
      <3>2. Len(t) = n
        <4>1. n \in Nat /\ t = [i \in 1 .. n |-> t[i]]
          BY <2>1 DEF RouteShape
        <4>2. QED
          BY <4>1
      <3>3. QED
        BY <3>1, <3>2, Opening
    <2>3. Lead(r) = 1
      BY <1>3 DEF Lead
    <2>4. \A i \in 1 .. 1 : Judges(<<W!AllowedOrigin>>[i], r) \/ <<W!AllowedOrigin>>[i] = W!Reads
      BY <1>0, <1>1
    <2>5. RouteSound(<<W!AllowedOrigin>> \o t, r, 1 + n)
      <3>0. PICK f : f = <<W!AllowedOrigin>>
        OBVIOUS
      <3>1. PICK m \in Nat \ {0} : m = 1
        OBVIOUS
      <3>2. m = Lead(r) /\ f = [i \in 1 .. m |-> f[i]] /\ \A i \in 1 .. m : Judges(f[i], r) \/ f[i] = W!Reads
        BY <1>1, <2>3, <2>4, <3>0, <3>1
      <3>3. RouteSound(f \o t, r, m + n)
        BY <2>1, <2>2, <3>2, Fronted, Zenon
      <3>4. QED
        BY <3>0, <3>1, <3>3
    <2>6. W!App[r] = <<W!AllowedOrigin>> \o t
      BY <2>0, <2>1, Zenon DEF W!App
    <2>7. QED
      BY <2>5, <2>6
  <1>4. QED
    BY <1>2, <1>3

-----------------------------------------------------------------------------
(* The service: the requests.  One that is under way has passed every      *)
(* guard behind it, and has committed nothing while a stage is ahead.      *)

Along(a, q, k, d) ==
    /\ k \in DOMAIN a /\ a[k].kind \in {"query", "probe"}
    /\ k < Len(a) => d = {}
    /\ \A i \in 1 .. k - 1 : a[i].kind = "guard" => W!Passes(a[i], q)
Truthful(q, status, d) ==
    /\ status < 300 /\ q.route \in DOMAIN W!Promised /\ <<q.route, status>> \notin W!SaysNothingChanged
          => W!Promised[q.route] \in d
    /\ status \in Denials => d \subseteq {"rejects"}
    /\ q.route = "demoAccounts" /\ status = 200 => posture.demo /\ posture.auth
SlotSound(q, k, h, d, status) ==
    /\ status \in Nat
    /\ q = W!Nobody => h = "none" /\ d = {} /\ status = 0
    /\ q # W!Nobody => q.route \in W!Routes
    /\ q # W!Nobody /\ status = 0 => Along(W!App[q.route], q, k, d)
    /\ status # 0 => h = "none" /\ Truthful(q, status, d)

OneEach(f) == DOMAIN f = Slots
EveryoneAnswered == \A s \in Slots : asks[s] # W!Nobody => replied[s] # 0
ApiInv ==
    /\ OneEach(asks) /\ OneEach(reached) /\ OneEach(holds) /\ OneEach(done) /\ OneEach(replied)
    /\ \A s \in Slots : SlotSound(asks[s], reached[s], holds[s], done[s], replied[s])
    /\ life = "ending" \/ code = 0 => EveryoneAnswered
    /\ code = 0 => life = "exited"

LEMMA PassesSame ==
    ASSUME posture' = posture, NEW g, NEW q
    PROVE  W!Passes(g, q)' <=> W!Passes(g, q)
  BY DEF W!Passes, W!Loaded

LEMMA SlotSame ==
    ASSUME posture' = posture, NEW q, NEW k, NEW h, NEW d, NEW status
    PROVE  SlotSound(q, k, h, d, status)' <=> SlotSound(q, k, h, d, status)
  <1>1. ASSUME NEW a PROVE Along(a, q, k, d)' <=> Along(a, q, k, d)
    BY PassesSame DEF Along
  <1>2. Truthful(q, status, d)' <=> Truthful(q, status, d)
    BY DEF Truthful
  <1>3. QED
    BY <1>1, <1>2 DEF SlotSound

(* Where the stages a request runs through end.                            *)
HaltsAt(a, q, from, n, to) ==
    /\ to \in from .. n
    /\ \A i \in from .. to - 1 : a[i].kind = "guard" /\ W!Passes(a[i], q)
    /\ a[to].kind = "guard" => ~W!Passes(a[to], q)
LEMMA Halted ==
    ASSUME NEW q, NEW n, RouteSound(W!App[q.route], q.route, n), NEW from \in 1 .. n
    PROVE  HaltsAt(W!App[q.route], q, from, n, W!NextHalt(q, from))
  <1>0. PICK a, to : a = W!App[q.route] /\ to = W!NextHalt(q, from)
    OBVIOUS
  <1> DEFINE halts == {i \in from .. Len(a) : W!Halts(q, i)}
  <1>1. n \in Nat /\ Len(a) = n /\ Ends(a[n], q.route) /\ from \in Nat
    BY <1>0 DEF RouteSound, Orderly
  <1>2. n \in halts
    BY <1>0, <1>1 DEF Ends, W!Halts
  <1>3. halts \in SUBSET Nat
    BY <1>1
  <1>4. PICK m \in halts : \A i \in halts : m <= i
    BY <1>2, <1>3, LeastNumber
  <1>5. to = W!Min(halts)
    BY <1>0 DEF W!NextHalt
  <1>6. W!Min(halts) = CHOOSE x \in halts : \A y \in halts : x <= y
    BY DEF W!Min
  <1> HIDE DEF halts
  <1>7. to \in halts /\ \A i \in halts : to <= i
    BY <1>4, <1>5, <1>6, Zenon
  <1>8. to \in from .. n /\ W!Halts(q, to)
    BY <1>1, <1>7 DEF halts
  <1>9. ASSUME NEW i \in from .. to - 1 PROVE a[i].kind = "guard" /\ W!Passes(a[i], q)
    <2>1. i \in from .. n /\ ~(to <= i)
      BY <1>1, <1>8
    <2>2. ~W!Halts(q, i)
      BY <1>1, <1>7, <2>1 DEF halts
    <2>3. QED
      BY <1>0, <2>2 DEF W!Halts
  <1>10. a[to].kind = "guard" => ~W!Passes(a[to], q)
    BY <1>0, <1>8 DEF W!Halts
  <1>11. QED
    BY <1>0, <1>8, <1>9, <1>10 DEF HaltsAt

LEMMA SomeRoute == \A q : q.route \in W!Routes => q # W!Nobody
  <1>1. W!Nobody.route = "none" /\ "none" \notin W!Routes
    BY DEF W!Nobody, W!Routes, W!Private, W!Public
  <1>2. QED
    BY <1>1

(* Accounts are published only where they can sign in.                     *)
LEMMA AccountsAsked ==
    ASSUME NEW q, NEW a, NEW n \in Nat, AsksForAccounts(a, n),
           \A i \in 1 .. n - 1 : a[i].kind = "guard" => W!Passes(a[i], q)
    PROVE  posture.demo /\ posture.auth
  <1>1. W!Passes(W!Demonstrates, q) /\ W!Passes(W!Holding("auth"), q)
    BY DEF AsksForAccounts, W!Demonstrates, W!Holding, W!Guard
  <1>2. W!Demonstrates.test = "demo" /\ W!Holding("auth").test = "pool" /\ W!Holding("auth").of = {"auth"}
    BY DEF W!Demonstrates, W!Holding, W!Guard
  <1>3. posture.demo
    BY <1>1, <1>2 DEF W!Passes
  <1>4. W!Loaded("auth")
    BY <1>1, <1>2 DEF W!Passes
  <1>5. QED
    BY <1>3, <1>4 DEF W!Loaded

(* A request that runs on from a stage whose predecessors it has passed.   *)
LEMMA RunsOn ==
    ASSUME NEW s \in Slots, NEW q, q.route \in W!Routes, NEW a, a = W!App[q.route],
           NEW n, RouteSound(a, q.route, n), NEW from \in 1 .. n,
           \A i \in 1 .. from - 1 : a[i].kind = "guard" => W!Passes(a[i], q),
           NEW d, d # {} => from = n, q.route \in DOMAIN W!Promised /\ from = n => W!Promised[q.route] \in d,
           OneEach(reached), OneEach(replied), replied[s] = 0, W!Enter(s, q, from)
    PROVE  /\ SlotSound(q, reached'[s], "none", d, replied'[s])
           /\ OneEach(reached') /\ OneEach(replied')
           /\ \A u \in Slots \ {s} : reached'[u] = reached[u] /\ replied'[u] = replied[u]
  <1>1. PICK to : to = W!NextHalt(q, from)
    OBVIOUS
  <1>2. /\ reached' = [reached EXCEPT ![s] = to]
        /\ IF a[to].kind \in {"query", "probe"} THEN replied' = replied
           ELSE replied' = [replied EXCEPT ![s] = a[to].status]
    BY <1>1 DEF W!Enter, W!Reply
  <1>3. /\ to \in from .. n
        /\ \A i \in from .. to - 1 : a[i].kind = "guard" /\ W!Passes(a[i], q)
    <2>1. HaltsAt(a, q, from, n, to)
      BY <1>1, Halted
    <2>2. QED
      BY <2>1 DEF HaltsAt
  <1>4. n \in Nat \ {0} /\ Len(a) = n /\ DOMAIN a = 1 .. n /\ Orderly(a, q.route, n)
    BY DEF RouteSound
  <1>5. /\ OneEach(reached') /\ OneEach(replied') /\ reached'[s] = to
        /\ \A u \in Slots \ {s} : reached'[u] = reached[u] /\ replied'[u] = replied[u]
    BY <1>2 DEF OneEach
  <1>6. to \in 1 .. n /\ \A i \in 1 .. to - 1 : a[i].kind = "guard" => W!Passes(a[i], q)
    <2>1. ASSUME NEW i \in 1 .. to - 1, a[i].kind = "guard" PROVE W!Passes(a[i], q)
      <3>1. i \in 1 .. from - 1 \/ i \in from .. to - 1
        BY <1>3, <1>4
      <3>2. QED
        BY <1>3, <2>1, <3>1
    <2>2. QED
      BY <1>3, <1>4, <2>1
  <1>7. to < n => d = {}
    BY <1>3, <1>4
  <1>8. q # W!Nobody
    BY SomeRoute
  <1>9. CASE a[to].kind \in {"query", "probe"}
    <2>1. replied'[s] = 0
      BY <1>2, <1>9
    <2>2. Along(a, q, to, d)
      BY <1>4, <1>6, <1>7, <1>9 DEF Along
    <2>3. QED
      BY <1>5, <1>8, <2>1, <2>2 DEF SlotSound
  <1>10. CASE a[to].kind \notin {"query", "probe"}
    <2>1. PICK status : status = a[to].status
      OBVIOUS
    <2>2. replied'[s] = status
      BY <1>2, <1>10, <2>1 DEF OneEach
    <2>3. status \in Nat /\ Truthful(q, status, d)
      <3>1. CASE to < n
        <4>1. Judges(a[to], q.route)
          <5>1. to \in 1 .. n - 1
            BY <1>4, <1>6, <3>1
          <5>2. Judges(a[to], q.route) \/ Queries(a[to], q.route)
            BY <1>4, <5>1 DEF Orderly
          <5>3. QED
            BY <1>10, <5>2 DEF Queries
        <4>2. d = {}
          BY <1>7, <3>1
        <4>3. CASE status \in Denials
          BY <4>2, <4>3 DEF Truthful, Denials
        <4>4. CASE q.route = "logout" /\ status = 200
          BY <4>2, <4>4 DEF Truthful, W!SaysNothingChanged
        <4>5. QED
          BY <2>1, <4>1, <4>3, <4>4 DEF Judges
      <3>2. CASE to = n
        <4>1. status \in 200 .. 299
          BY <1>4, <1>10, <2>1, <3>2 DEF Orderly, Ends
        <4>2. ASSUME q.route \in DOMAIN W!Promised PROVE W!Promised[q.route] \in d
          <5>1. n > 1 /\ a[n - 1].kind = "query"
            BY <4>2 DEF RouteSound, Earned, Keeps
          <5>2. ~(n - 1 \in from .. to - 1)
            BY <1>3, <5>1
          <5>3. from = n
            BY <1>3, <1>4, <3>2, <5>1, <5>2
          <5>4. QED
            BY <4>2, <5>3
        <4>3. ASSUME q.route = "demoAccounts" PROVE posture.demo /\ posture.auth
          <5>1. AsksForAccounts(a, n)
            BY <4>3 DEF RouteSound
          <5>2. QED
            BY <1>4, <1>6, <3>2, <5>1, AccountsAsked
        <4>4. status \in Nat /\ status \notin Denials
          BY <4>1 DEF Denials
        <4>5. QED
          BY <4>2, <4>3, <4>4 DEF Truthful
      <3>3. QED
        BY <1>4, <1>6, <3>1, <3>2
    <2>4. status # 0
      <3>1. CASE to < n
        <4>1. to \in 1 .. n - 1
          BY <1>4, <1>6, <3>1
        <4>2. Judges(a[to], q.route)
          BY <1>4, <1>10, <4>1 DEF Orderly, Queries
        <4>3. QED
          BY <2>1, <4>2 DEF Judges, Denials
      <3>2. CASE to = n
        <4>1. status \in 200 .. 299
          BY <1>4, <1>10, <2>1, <3>2 DEF Orderly, Ends
        <4>2. QED
          BY <4>1
      <3>3. QED
        BY <1>4, <1>6, <3>1, <3>2
    <2>5. QED
      BY <1>5, <1>8, <2>2, <2>3, <2>4 DEF SlotSound
  <1>11. QED
    BY <1>5, <1>9, <1>10

(* One slot moves and stays sound, and nothing else does: it is one that   *)
(* is still to be answered, unless the service still listens.              *)
LEMMA SlotMoves ==
    ASSUME ApiInv, NEW s \in Slots, UNCHANGED <<posture, life, code>>,
           OneEach(asks'), OneEach(reached'), OneEach(holds'), OneEach(done'), OneEach(replied'),
           \A u \in Slots \ {s} : /\ asks'[u] = asks[u] /\ reached'[u] = reached[u] /\ holds'[u] = holds[u]
                                  /\ done'[u] = done[u] /\ replied'[u] = replied[u],
           SlotSound(asks'[s], reached'[s], holds'[s], done'[s], replied'[s]),
           life = "listening" \/ (asks[s] # W!Nobody /\ replied[s] = 0)
    PROVE  ApiInv'
  <1>1. ASSUME NEW u \in Slots PROVE SlotSound(asks[u], reached[u], holds[u], done[u], replied[u])'
    <2>1. PICK q, k, h, d, status : /\ q = asks'[u] /\ k = reached'[u] /\ h = holds'[u] /\ d = done'[u]
                                    /\ status = replied'[u]
      OBVIOUS
    <2>2. SlotSound(q, k, h, d, status)
      BY <2>1 DEF ApiInv
    <2>3. SlotSound(q, k, h, d, status)'
      BY <2>2, SlotSame
    <2>4. QED
      BY <2>1, <2>3
  <1>2. life = "listening" \/ ~EveryoneAnswered
    BY DEF EveryoneAnswered
  <1>3. life # "ending" /\ code # 0
    BY <1>2 DEF ApiInv
  <1>4. QED
    BY <1>1, <1>3 DEF ApiInv, OneEach

LEMMA ArriveStep ==
    ASSUME ApiInv, NEW s \in Slots, W!Arrive(s)
    PROVE  ApiInv'
  <1>1. /\ life = "listening" /\ asks[s] = W!Nobody
        /\ UNCHANGED <<posture, life, code>> /\ holds' = holds /\ done' = done
    BY DEF W!Arrive
  <1>2. PICK q \in Asked[s] : asks' = [asks EXCEPT ![s] = q] /\ W!Enter(s, q, 1)
    BY DEF W!Arrive
  <1>3. q.route \in W!Routes
    BY ServicesAssumption DEF W!AppAssumption
  <1>4. PICK a, n : a = W!App[q.route] /\ RouteSound(a, q.route, n)
    BY <1>3, RoutesAreSound
  <1>5. /\ OneEach(asks) /\ OneEach(reached) /\ OneEach(holds) /\ OneEach(done) /\ OneEach(replied)
        /\ SlotSound(asks[s], reached[s], holds[s], done[s], replied[s])
    BY DEF ApiInv
  <1>6. holds[s] = "none" /\ done[s] = {} /\ replied[s] = 0
    BY <1>1, <1>5 DEF SlotSound
  <1>7. 1 \in 1 .. n /\ (q.route \in DOMAIN W!Promised => n # 1)
    BY <1>4 DEF RouteSound, Earned
  <1>8. \A i \in 1 .. 1 - 1 : a[i].kind = "guard" => W!Passes(a[i], q)
    OBVIOUS
  <1>9. /\ SlotSound(q, reached'[s], "none", {}, replied'[s])
        /\ OneEach(reached') /\ OneEach(replied')
        /\ \A u \in Slots \ {s} : reached'[u] = reached[u] /\ replied'[u] = replied[u]
    BY <1>2, <1>3, <1>4, <1>5, <1>6, <1>7, <1>8, RunsOn
  <1>10. OneEach(asks') /\ asks'[s] = q /\ \A u \in Slots \ {s} : asks'[u] = asks[u]
    BY <1>2, <1>5 DEF OneEach
  <1>11. QED
    BY <1>1, <1>5, <1>6, <1>9, <1>10, SlotMoves

(* What a request that waits at a stage is known to have behind it.        *)
LEMMA UnderWay ==
    ASSUME ApiInv, NEW s \in Slots, W!Open(s)
    PROVE  /\ asks[s] # W!Nobody /\ replied[s] = 0 /\ asks[s].route \in W!Routes
           /\ Along(W!App[asks[s].route], asks[s], reached[s], done[s])
           /\ OneEach(asks) /\ OneEach(reached) /\ OneEach(holds) /\ OneEach(done) /\ OneEach(replied)
  BY DEF ApiInv, SlotSound, W!Open

LEMMA CheckoutStep ==
    ASSUME ApiInv, NEW s \in Slots, W!Checkout(s)
    PROVE  ApiInv'
  <1>1. /\ W!Open(s) /\ UNCHANGED <<posture, life, code, asks, reached, done, replied>>
    BY DEF W!Checkout, W!Waiting
  <1>2. PICK h : holds' = [holds EXCEPT ![s] = h]
    BY DEF W!Checkout
  <1>3. /\ asks[s] # W!Nobody /\ replied[s] = 0 /\ asks[s].route \in W!Routes
        /\ Along(W!App[asks[s].route], asks[s], reached[s], done[s])
        /\ OneEach(asks) /\ OneEach(reached) /\ OneEach(holds) /\ OneEach(done) /\ OneEach(replied)
    BY <1>1, UnderWay
  <1>4. OneEach(holds') /\ \A u \in Slots \ {s} : holds'[u] = holds[u]
    BY <1>2, <1>3 DEF OneEach
  <1>5. SlotSound(asks[s], reached[s], holds'[s], done[s], replied[s])
    BY <1>3 DEF SlotSound
  <1>6. QED
    BY <1>1, <1>3, <1>4, <1>5, SlotMoves

(* An answer that is an error of the service, or one that promises nothing.*)
LEMMA AnswersWith ==
    ASSUME ApiInv, NEW s \in Slots, W!Open(s), NEW status \in Nat \ {0}, W!Reply(s, status),
           UNCHANGED <<posture, life, code, asks, reached>>,
           OneEach(holds'), OneEach(done'), holds'[s] = "none",
           \A u \in Slots \ {s} : holds'[u] = holds[u] /\ done'[u] = done[u],
           Truthful(asks[s], status, done'[s])
    PROVE  ApiInv'
  <1>1. /\ asks[s] # W!Nobody /\ replied[s] = 0 /\ asks[s].route \in W!Routes
        /\ OneEach(asks) /\ OneEach(reached) /\ OneEach(replied)
    BY UnderWay
  <1>2. OneEach(replied') /\ replied'[s] = status /\ \A u \in Slots \ {s} : replied'[u] = replied[u]
    BY <1>1 DEF OneEach, W!Reply
  <1>3. SlotSound(asks[s], reached[s], holds'[s], done'[s], replied'[s])
    BY <1>1, <1>2 DEF SlotSound
  <1>4. QED
    BY <1>1, <1>2, <1>3, SlotMoves

LEMMA Released ==
    ASSUME NEW s \in Slots, OneEach(holds), W!Release(s)
    PROVE  OneEach(holds') /\ holds'[s] = "none" /\ \A u \in Slots \ {s} : holds'[u] = holds[u]
  BY DEF OneEach, W!Release
LEMMA Committed ==
    ASSUME NEW s \in Slots, NEW what, OneEach(done), W!Commits(s, what)
    PROVE  /\ OneEach(done') /\ done'[s] = done[s] \cup ({what} \ {"nothing"})
           /\ \A u \in Slots \ {s} : done'[u] = done[u]
  BY DEF OneEach, W!Commits
LEMMA Erring ==
    ASSUME NEW q, NEW d, NEW status \in {500, 503} \cup {W!Failure(q)}
    PROVE  status \in Nat \ {0} /\ Truthful(q, status, d)
  <1>1. "version" \notin DOMAIN W!Promised
    BY Promises
  <1>2. status \in {500, 503} \/ (status = 200 /\ q.route = "version")
    BY DEF W!Failure
  <1>3. CASE status \in {500, 503}
    BY <1>3 DEF Truthful, Denials
  <1>4. CASE status = 200 /\ q.route = "version"
    BY <1>1, <1>4 DEF Truthful, Denials
  <1>5. QED
    BY <1>2, <1>3, <1>4

LEMMA FailsStep ==
    ASSUME ApiInv, NEW s \in Slots, W!Fails(s)
    PROVE  ApiInv'
  <1>1. /\ W!Open(s) /\ W!Reply(s, W!Failure(asks[s])) /\ W!Release(s)
        /\ UNCHANGED <<posture, life, code, asks, reached>>
    BY DEF W!Fails
  <1>2. PICK what : W!Commits(s, what)
    BY DEF W!Fails
  <1>3. OneEach(holds) /\ OneEach(done)
    BY DEF ApiInv
  <1>4. OneEach(holds') /\ holds'[s] = "none" /\ \A u \in Slots \ {s} : holds'[u] = holds[u]
    BY <1>1, <1>3, Released
  <1>5. OneEach(done') /\ \A u \in Slots \ {s} : done'[u] = done[u]
    BY <1>2, <1>3, Committed
  <1>6. PICK status : status = W!Failure(asks[s])
    OBVIOUS
  <1>7. status \in Nat \ {0} /\ Truthful(asks[s], status, done'[s])
    BY <1>6, Erring
  <1>8. QED
    BY <1>1, <1>4, <1>5, <1>6, <1>7, AnswersWith

LEMMA CheckoutTimeoutStep ==
    ASSUME ApiInv, NEW s \in Slots, W!CheckoutTimeout(s)
    PROVE  ApiInv'
  <1>1. /\ W!Open(s) /\ holds[s] = "none"
        /\ UNCHANGED <<posture, life, code, asks, reached, holds, done>>
    BY DEF W!CheckoutTimeout, W!Waiting
  <1>2. PICK status \in {500, 503} \cup {W!Failure(asks[s])} : W!Reply(s, status)
    BY DEF W!CheckoutTimeout
  <1>3. status \in Nat \ {0} /\ Truthful(asks[s], status, done'[s])
    BY <1>2, Erring
  <1>4. OneEach(holds) /\ OneEach(done)
    BY DEF ApiInv
  <1>5. QED
    BY <1>1, <1>2, <1>3, <1>4, AnswersWith

(* The probe is a route of its own, and its answer promises nothing.       *)
LEMMA Probes ==
    ASSUME ApiInv, NEW s \in Slots, W!Probing(s), NEW status \in {200, 503}, NEW d
    PROVE  W!Open(s) /\ Truthful(asks[s], status, d)
  <1>1. W!Open(s) /\ W!App[asks[s].route][reached[s]].kind = "probe"
    BY DEF W!Probing, W!At
  <1>2. PICK q, a, n : q = asks[s] /\ a = W!App[q.route] /\ RouteSound(a, q.route, n)
    BY <1>1, UnderWay, RoutesAreSound
  <1>3. reached[s] \in 1 .. n /\ a[reached[s]].kind = "probe"
    BY <1>1, <1>2, UnderWay DEF Along, RouteSound
  <1>4. PICK k : k = reached[s]
    OBVIOUS
  <1>5. n \in Nat /\ Orderly(a, q.route, n)
    BY <1>2 DEF RouteSound
  <1>6. k = n
    <2>1. k \in 1 .. n - 1 => FALSE
      BY <1>3, <1>4, <1>5 DEF Orderly, Judges, Queries
    <2>2. QED
      BY <1>3, <1>4, <1>5, <2>1
  <1>7. q.route = "ready"
    BY <1>3, <1>4, <1>5, <1>6 DEF Orderly, Ends
  <1>8. "ready" \notin DOMAIN W!Promised
    BY Promises
  <1>9. QED
    BY <1>1, <1>2, <1>7, <1>8 DEF Truthful, Denials

LEMMA ProbeAnsweredStep ==
    ASSUME ApiInv, NEW s \in Slots, W!ProbeAnswered(s)
    PROVE  ApiInv'
  <1>1. W!Probing(s) /\ W!Release(s) /\ UNCHANGED <<posture, life, code, asks, reached, done>>
    BY DEF W!ProbeAnswered
  <1>2. PICK status \in {200, 503} : W!Reply(s, status)
    BY DEF W!ProbeAnswered
  <1>3. OneEach(holds) /\ OneEach(done)
    BY DEF ApiInv
  <1>4. OneEach(holds') /\ holds'[s] = "none" /\ \A u \in Slots \ {s} : holds'[u] = holds[u]
    BY <1>1, <1>3, Released
  <1>5. W!Open(s) /\ Truthful(asks[s], status, done'[s]) /\ status \in Nat \ {0}
    BY <1>1, Probes
  <1>6. QED
    BY <1>1, <1>2, <1>3, <1>4, <1>5, AnswersWith

LEMMA ProbeTimeoutStep ==
    ASSUME ApiInv, NEW s \in Slots, W!ProbeTimeout(s)
    PROVE  ApiInv'
  <1>1. W!Probing(s) /\ W!Release(s) /\ W!Reply(s, 503) /\ UNCHANGED <<posture, life, code, asks, reached, done>>
    BY DEF W!ProbeTimeout
  <1>2. OneEach(holds) /\ OneEach(done)
    BY DEF ApiInv
  <1>3. OneEach(holds') /\ holds'[s] = "none" /\ \A u \in Slots \ {s} : holds'[u] = holds[u]
    BY <1>1, <1>2, Released
  <1>4. W!Open(s) /\ Truthful(asks[s], 503, done'[s]) /\ 503 \in Nat \ {0}
    BY <1>1, Probes
  <1>5. QED
    BY <1>1, <1>2, <1>3, <1>4, AnswersWith

LEMMA PromisesSomething == \A r \in DOMAIN W!Promised : W!Promised[r] # "nothing"
  <1>1. PICK i, o : i = "signs in" /\ o = "signs out"
    BY Zenon
  <1>2. i # "nothing" /\ o # "nothing"
    BY <1>1, Zenon
  <1>3. W!Promised = [bootstrap |-> "bootstraps", login |-> i, logout |-> o, rotateCredential |-> "rotates",
                      imports |-> "imports", upload |-> "uploads", reviewEvidence |-> "reviews",
                      requeue |-> "requeues", runAssessments |-> "assesses", reassessGap |-> "assesses",
                      assignGap |-> "assigns", remediateGap |-> "remediates", freezeReview |-> "freezes",
                      generateDossier |-> "generates", demoReset |-> "resets"]
    BY <1>1, Zenon DEF W!Promised
  <1>4. QED
    BY <1>2, <1>3

(* The database answers: the request runs on, or ends with a refusal.      *)
LEMMA AnsweredStep ==
    ASSUME ApiInv, NEW s \in Slots, W!Answered(s)
    PROVE  ApiInv'
  <1>1. /\ W!Open(s) /\ W!Release(s) /\ W!At(s).kind = "query"
        /\ UNCHANGED <<posture, life, code, asks>>
    BY DEF W!Answered
  <1>2. PICK q, a, k, n, d : /\ q = asks[s] /\ a = W!App[q.route] /\ k = reached[s] /\ RouteSound(a, q.route, n)
                             /\ d = done[s]
    BY <1>1, UnderWay, RoutesAreSound
  <1>3. PICK o \in a[k].outcomes :
            /\ W!Commits(s, o[2])
            /\ IF o[1] = 0 THEN W!Enter(s, q, k + 1) ELSE W!Reply(s, o[1]) /\ UNCHANGED reached
    BY <1>2 DEF W!Answered, W!At
  <1>4. /\ q # W!Nobody /\ replied[s] = 0 /\ q.route \in W!Routes /\ Along(a, q, k, d)
        /\ OneEach(asks) /\ OneEach(reached) /\ OneEach(holds) /\ OneEach(done) /\ OneEach(replied)
    BY <1>1, <1>2, UnderWay
  <1>5. OneEach(holds') /\ holds'[s] = "none" /\ \A u \in Slots \ {s} : holds'[u] = holds[u]
    BY <1>1, <1>4, Released
  <1>6. PICK what : what = o[2]
    OBVIOUS
  <1>7. PICK e : e = d \cup ({what} \ {"nothing"})
    OBVIOUS
  <1>8. OneEach(done') /\ done'[s] = e /\ \A u \in Slots \ {s} : done'[u] = done[u]
    BY <1>2, <1>3, <1>4, <1>6, <1>7, Committed
  <1>9. /\ n \in Nat /\ Len(a) = n /\ k \in 1 .. n /\ a[k].kind = "query"
        /\ \A i \in 1 .. k - 1 : a[i].kind = "guard" => W!Passes(a[i], q)
        /\ k < n => d = {}
    BY <1>1, <1>2, <1>4 DEF W!At, Along, RouteSound
  <1>10. k \in 1 .. n - 1 /\ Queries(a[k], q.route)
    <2>1. k # n
      BY <1>2, <1>9 DEF RouteSound, Orderly, Ends
    <2>2. k \in 1 .. n - 1
      BY <1>9, <2>1
    <2>3. Judges(a[k], q.route) \/ Queries(a[k], q.route)
      BY <1>2, <2>2 DEF RouteSound, Orderly
    <2>4. QED
      BY <1>9, <2>2, <2>3 DEF Judges
  <1>11. d = {}
    BY <1>9, <1>10
  <1>12. CASE o[1] = 0
    <2>1. PICK from \in 1 .. n : from = k + 1
      BY <1>9, <1>10
    <2>2. \A i \in 1 .. from - 1 : a[i].kind = "guard" => W!Passes(a[i], q)
      <3>1. ASSUME NEW i \in 1 .. from - 1, a[i].kind = "guard" PROVE W!Passes(a[i], q)
        <4>1. i # k
          BY <1>9, <3>1
        <4>2. i \in 1 .. k - 1
          BY <1>9, <2>1, <4>1
        <4>3. QED
          BY <1>9, <3>1, <4>2
      <3>2. QED
        BY <3>1
    <2>3. e # {} => from = n
      <3>1. ASSUME from # n PROVE e = {}
        <4>1. k \in 1 .. n - 2
          BY <1>9, <1>10, <2>1, <3>1
        <4>2. Quiet(a[k])
          BY <1>2, <1>9, <4>1 DEF RouteSound, Orderly
        <4>3. what = "nothing"
          BY <1>3, <1>6, <1>12, <4>2 DEF Quiet
        <4>4. QED
          BY <1>7, <1>11, <4>3
      <3>2. QED
        BY <3>1
    <2>4. q.route \in DOMAIN W!Promised /\ from = n => W!Promised[q.route] \in e
      <3>1. ASSUME q.route \in DOMAIN W!Promised, from = n PROVE W!Promised[q.route] \in e
        <4>1. k = n - 1
          BY <1>9, <2>1, <3>1
        <4>2. Keeps(a[k], q.route)
          BY <1>2, <3>1, <4>1 DEF RouteSound, Earned
        <4>3. what = W!Promised[q.route]
          BY <1>3, <1>6, <1>12, <4>2 DEF Keeps
        <4>4. what # "nothing"
          BY <3>1, <4>3, PromisesSomething
        <4>5. QED
          BY <1>7, <4>3, <4>4
      <3>2. QED
        BY <3>1
    <2>5. W!Enter(s, q, from)
      BY <1>3, <1>12, <2>1
    <2>6. /\ SlotSound(q, reached'[s], "none", e, replied'[s])
          /\ OneEach(reached') /\ OneEach(replied')
          /\ \A u \in Slots \ {s} : reached'[u] = reached[u] /\ replied'[u] = replied[u]
      BY <1>2, <1>4, <2>2, <2>3, <2>4, <2>5, RunsOn
    <2>7. SlotSound(asks'[s], reached'[s], holds'[s], done'[s], replied'[s])
      BY <1>1, <1>2, <1>5, <1>8, <2>6
    <2>8. QED
      BY <1>1, <1>2, <1>4, <1>5, <1>8, <2>6, <2>7, SlotMoves
  <1>13. CASE o[1] # 0
    <2>1. PICK status : status = o[1]
      OBVIOUS
    <2>2. \/ status \in Denials /\ what \in {"nothing", "rejects"}
          \/ status = 200 /\ q.route \in {"imports", "logout"}
      BY <1>3, <1>6, <1>10, <1>13, <2>1 DEF Queries
    <2>3. status \in Nat \ {0} /\ Truthful(q, status, e)
      <3>1. CASE status \in Denials /\ what \in {"nothing", "rejects"}
        <4>1. e \subseteq {"rejects"}
          BY <1>7, <1>11, <3>1
        <4>2. status \in Nat /\ status >= 400
          BY <3>1 DEF Denials
        <4>3. QED
          BY <4>1, <4>2 DEF Truthful
      <3>2. CASE status = 200 /\ q.route \in {"imports", "logout"}
        BY <3>2 DEF Truthful, Denials, W!SaysNothingChanged
      <3>3. QED
        BY <2>2, <3>1, <3>2
    <2>4. W!Reply(s, status) /\ UNCHANGED reached
      BY <1>3, <1>13, <2>1
    <2>5. QED
      BY <1>1, <1>2, <1>5, <1>8, <2>3, <2>4, AnswersWith
  <1>14. QED
    BY <1>12, <1>13

(* The process starts or ends, or a probe that was given up does.          *)
LEMMA LifeMoves ==
    ASSUME ApiInv, UNCHANGED <<posture, asks, reached, holds, done, replied>>,
           life' = "ending" \/ code' = 0 => EveryoneAnswered, code' = 0 => life' = "exited"
    PROVE  ApiInv'
  <1>1. ASSUME NEW s \in Slots PROVE SlotSound(asks[s], reached[s], holds[s], done[s], replied[s])'
    <2>1. PICK q, k, h, d, status : /\ q = asks[s] /\ k = reached[s] /\ h = holds[s] /\ d = done[s]
                                    /\ status = replied[s]
      OBVIOUS
    <2>2. SlotSound(q, k, h, d, status)
      BY <2>1 DEF ApiInv
    <2>3. SlotSound(q, k, h, d, status)'
      BY <2>2, SlotSame
    <2>4. QED
      BY <2>1, <2>3
  <1>2. EveryoneAnswered' <=> EveryoneAnswered
    BY DEF EveryoneAnswered
  <1>3. QED
    BY <1>1, <1>2 DEF ApiInv, OneEach

LEMMA LifeSteps ==
    ASSUME ApiInv,
           W!Start \/ W!Signal \/ W!Closed \/ W!PoolEnded \/ W!ForcedExit \/ W!StrayStarts \/ W!StrayEnds
    PROVE  ApiInv'
  <1>1. UNCHANGED <<posture, asks, reached, holds, done, replied>>
    BY DEF W!Start, W!Signal, W!Closed, W!PoolEnded, W!ForcedExit, W!StrayStarts, W!StrayEnds
  <1>2. /\ life = "ending" \/ code = 0 => EveryoneAnswered
        /\ code = 0 => life = "exited"
    BY DEF ApiInv
  <1>3. CASE W!Start \/ W!Signal \/ W!ForcedExit
    BY <1>1, <1>2, <1>3, LifeMoves DEF W!Start, W!Signal, W!ForcedExit
  <1>4. CASE W!Closed
    <2>1. life = "closing" /\ life' = "ending" /\ UNCHANGED code
      BY <1>4 DEF W!Closed
    <2>2. EveryoneAnswered
      BY <1>4, <2>1 DEF W!Closed, W!Drained, W!Open, EveryoneAnswered
    <2>3. QED
      BY <1>1, <1>2, <2>1, <2>2, LifeMoves
  <1>5. CASE W!PoolEnded
    BY <1>1, <1>2, <1>5, LifeMoves DEF W!PoolEnded
  <1>6. CASE W!StrayStarts \/ W!StrayEnds
    BY <1>1, <1>2, <1>6, LifeMoves DEF W!StrayStarts, W!StrayEnds
  <1>7. QED
    BY <1>3, <1>4, <1>5, <1>6

LEMMA ApiWithin == [Next]_vars => [W!Next]_(W!apiVars)
  <1> SUFFICES ASSUME [Next]_vars PROVE [W!Next]_(W!apiVars)
    OBVIOUS
  <1>1. ASSUME UNCHANGED api PROVE UNCHANGED W!apiVars
    BY <1>1 DEF api, W!apiVars
  <1>2. CASE UNCHANGED vars
    BY <1>1, <1>2 DEF vars
  <1>3. CASE Next
    BY <1>1, <1>3 DEF Next, ImportsStep, ScannerStep, LimiterStep, SmtpStep, AlertsStep
  <1>4. QED
    BY <1>2, <1>3

LEMMA ApiRun == Spec => W!Init /\ [][W!Next]_(W!apiVars)
  <1>1. Init => W!Init
    BY DEF Init
  <1>2. QED
    BY <1>1, ApiWithin, PTL DEF Spec

(* Any query that works for a request has every guard that judges it       *)
(* behind it.                                                              *)
LEMMA WorkIsVetted == ApiInv => W!NothingUnvetted
  <1> SUFFICES ASSUME ApiInv, NEW s \in Slots, W!Work(s), NEW i \in W!Checks(asks[s])
               PROVE  W!Passes(W!App[asks[s].route][i], asks[s])
    BY DEF W!NothingUnvetted
  <1>1. W!Open(s)
    BY DEF W!Work
  <1>2. PICK q, a, k, n : q = asks[s] /\ a = W!App[q.route] /\ k = reached[s] /\ RouteSound(a, q.route, n)
    BY <1>1, UnderWay, RoutesAreSound
  <1>3. Along(a, q, k, done[s])
    BY <1>1, <1>2, UnderWay
  <1>4. /\ n \in Nat /\ k \in 1 .. n /\ \A j \in 1 .. k - 1 : a[j].kind = "guard" => W!Passes(a[j], q)
    BY <1>2, <1>3 DEF Along, RouteSound
  <1>5. a[k].kind = "query" /\ a[k] # W!Limited /\ k > Lead(q.route)
    BY <1>2 DEF W!Work, W!At, Lead
  <1>6. i \in 1 .. n /\ a[i].kind = "guard" /\ a[i].test # "own"
    BY <1>2 DEF W!Checks, RouteSound
  <1>7. k # n /\ i # n
    BY <1>2, <1>5, <1>6 DEF RouteSound, Orderly, Ends
  <1>8. i # k
    BY <1>5, <1>6
  <1>9. k \in 1 .. n - 1 /\ i \in 1 .. n - 1
    BY <1>4, <1>6, <1>7
  <1>10. ~(k < i)
    BY <1>2, <1>5, <1>6, <1>9 DEF RouteSound, JudgedFirst
  <1>11. i \in 1 .. k - 1
    BY <1>4, <1>6, <1>8, <1>10
  <1>12. QED
    BY <1>2, <1>4, <1>6, <1>11

LEMMA AnswersHold == ApiInv => W!AnswersAreTrue
  <1> SUFFICES ASSUME ApiInv PROVE W!AnswersAreTrue
    OBVIOUS
  <1>1. ASSUME NEW s \in Slots, replied[s] # 0
        PROVE  holds[s] = "none" /\ Truthful(asks[s], replied[s], done[s])
    BY <1>1 DEF ApiInv, SlotSound
  <1>2. code = 0 => \A s \in Slots : asks[s] # W!Nobody => replied[s] # 0
    BY DEF ApiInv, EveryoneAnswered
  <1>3. QED
    BY <1>1, <1>2 DEF W!AnswersAreTrue, Truthful, Denials

(* Whatever a caller sends, with whatever role, no query works for it      *)
(* before every guard of the route that judges the request has passed;     *)
(* and whatever fails on the way, a success is answered only of what is    *)
(* committed, a refusal only of nothing, without a client left checked     *)
(* out, and a clean exit has answered everyone.                            *)
THEOREM RequestsAreVetted == Spec => []RequestsAreSound
  <1>1. W!Init => ApiInv
    <2> SUFFICES ASSUME W!Init PROVE ApiInv
      OBVIOUS
    <2>1. /\ asks = [s \in Slots |-> W!Nobody] /\ reached = [s \in Slots |-> 0]
          /\ holds = [s \in Slots |-> "none"] /\ done = [s \in Slots |-> {}]
          /\ replied = [s \in Slots |-> 0] /\ code = 2 /\ life \in {"starting", "listening"}
      BY DEF W!Init
    <2>2. ASSUME NEW s \in Slots PROVE SlotSound(asks[s], reached[s], holds[s], done[s], replied[s])
      BY <2>1 DEF SlotSound
    <2>3. QED
      BY <2>1, <2>2 DEF ApiInv, OneEach
  <1>2. ApiInv /\ [W!Next]_(W!apiVars) => ApiInv'
    <2> SUFFICES ASSUME ApiInv, [W!Next]_(W!apiVars) PROVE ApiInv'
      OBVIOUS
    <2>1. CASE UNCHANGED W!apiVars
      <3>1. UNCHANGED <<posture, life, code, asks, reached, holds, done, replied>>
        BY <2>1 DEF W!apiVars
      <3>2. /\ life = "ending" \/ code = 0 => EveryoneAnswered
            /\ code = 0 => life = "exited"
        BY DEF ApiInv
      <3>3. QED
        BY <3>1, <3>2, LifeMoves
    <2>2. ASSUME NEW s \in Slots,
                 \/ W!Arrive(s) \/ W!Checkout(s) \/ W!Answered(s) \/ W!Fails(s)
                 \/ W!CheckoutTimeout(s) \/ W!ProbeAnswered(s) \/ W!ProbeTimeout(s)
          PROVE  ApiInv'
      BY <2>2, ArriveStep, CheckoutStep, AnsweredStep, FailsStep, CheckoutTimeoutStep, ProbeAnsweredStep,
         ProbeTimeoutStep
    <2>3. QED
      BY <2>1, <2>2, LifeSteps DEF W!Next
  <1>3. ApiInv => RequestsAreSound
    BY WorkIsVetted, AnswersHold DEF RequestsAreSound
  <1>4. QED
    BY <1>1, <1>2, <1>3, ApiRun, PTL
=============================================================================
