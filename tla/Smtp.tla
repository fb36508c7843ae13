-------------------------------- MODULE Smtp --------------------------------
(***************************************************************************)
(* sendMail: one message over one connection under one deadline.  The      *)
(* session is at a stage and waits there for a reply; the far end may send *)
(* any reply at any time, asked for or not, stop talking, or go away.      *)
(*                                                                         *)
(* A reply is [code, offers, inside]: what an EHLO reply offers, and       *)
(* whether it was sent inside the encrypted session.                       *)
(***************************************************************************)
EXTENDS Naturals, Sequences, SequencesExt

CONSTANTS
    Recipients,  \* how many
    MaxAhead     \* bound on replies sent and not yet consumed

SmtpAssumption == Recipients \in Nat \ {0} /\ MaxAhead \in Nat \ {0}

VARIABLES
    mode,        \* "starttls", "implicit" or "disabled"
    user,        \* is a username configured
    stage,       \* "before", "connect", "handshake", a stage of Accepts, "over"
    secure,      \* the channel is inside TLS
    left,        \* recipients not yet accepted
    wire,        \* replies sent, not arrived
    buffer,      \* replies arrived, not consumed
    far,         \* the far end: "open", "closed" or "broken"
    fate,        \* "none", "delivered", "rejected", "timeout" or "failed"
    inClear,     \* stages whose command was written in the clear
    heardClear,  \* stages whose reply was sent in the clear
    took         \* the reply to the message was consumed

smtpVars == <<mode, user, stage, secure, left, wire, buffer, far, fate, inClear, heardClear, took>>
settingVars == <<mode, user>>
netVars == <<wire, far>>
seenVars == <<inClear, heardClear, took>>

Accepts ==
    [greeting |-> {220}, ehlo |-> {250}, starttls |-> {220}, ehloInside |-> {250},
     login |-> {334}, loginUser |-> {334}, password |-> {235}, plain |-> {235},
     mail |-> {250}, rcpt |-> {250, 251}, data |-> {354}, message |-> {250}, quit |-> {221}]

Stages == DOMAIN Accepts
Offers == {{}, {"STARTTLS"}, {"PLAIN"}, {"STARTTLS", "LOGIN"}}
Malformed == 0
Codes == UNION {Accepts[s] : s \in Stages} \cup {550, Malformed}

Talking == fate = "none" /\ stage \in Stages

(* The finally clause: the socket is destroyed whatever the fate.          *)
Over(what) ==
    /\ fate' = what /\ stage' = "over"
    /\ wire' = <<>> /\ buffer' = <<>>
    /\ UNCHANGED <<settingVars, secure, left, far>>

(* Write the command of the next stage and wait for its reply.             *)
Write(s) ==
    /\ stage' = s
    /\ inClear' = IF secure THEN inClear ELSE inClear \cup {s}

-----------------------------------------------------------------------------
(* A configuration with credentials and no encryption is refused before    *)
(* anything is connected.                                                  *)
Begin ==
    /\ stage = "before"
    /\ mode' \in {"starttls", "implicit", "disabled"} /\ user' \in BOOLEAN
    /\ IF user' /\ mode' = "disabled" THEN fate' = "failed" /\ stage' = "over"
       ELSE fate' = fate /\ stage' = "connect"
    /\ UNCHANGED <<secure, left, buffer, netVars, seenVars>>

Connected ==
    /\ stage = "connect" /\ far = "open"
    /\ stage' = "greeting" /\ secure' = (mode = "implicit")
    /\ UNCHANGED <<settingVars, left, buffer, netVars, fate, seenVars>>

(* 'error' while connecting or in the handshake.  A mere 'close' there     *)
(* wakes nobody: the deadline does.                                        *)
ConnectFails ==
    /\ stage \in {"connect", "handshake"}
    /\ far = "broken" \/ wire # <<>>
    /\ Over("failed") /\ UNCHANGED seenVars

AfterHello(offers) ==
    IF ~user THEN "mail"
    ELSE IF "PLAIN" \in offers THEN "plain"
    ELSE IF "LOGIN" \in offers THEN "login"
    ELSE "unsupported"

(* The stage that follows an accepted reply.                               *)
Follows(s, offers) ==
    CASE s = "greeting" -> "ehlo"
      [] s = "ehlo" /\ mode = "starttls" ->
            IF "STARTTLS" \in offers THEN "starttls" ELSE "unsupported"
      [] s = "ehlo" /\ mode # "starttls" -> AfterHello(offers)
      [] s = "ehloInside" -> AfterHello(offers)
      [] s = "login" -> "loginUser"
      [] s = "loginUser" -> "password"
      [] s \in {"plain", "password"} -> "mail"
      [] s = "mail" -> "rcpt"
      [] s = "rcpt" -> IF left > 1 THEN "rcpt" ELSE "data"
      [] s = "data" -> "message"
      [] s = "message" -> "quit"

-----------------------------------------------------------------------------
(* The first reply of the buffer answers the stage.                        *)
Reply == Head(buffer)
Answered == Talking /\ buffer # <<>>
Accepted == Answered /\ Reply.code \in Accepts[stage]
Following == Follows(stage, Reply.offers)

Heard ==
    /\ heardClear' = IF Reply.inside THEN heardClear ELSE heardClear \cup {stage}
    /\ took' = (took \/ (stage = "message" /\ Accepted))

Proceed ==
    /\ Accepted /\ stage \notin {"starttls", "quit"} /\ Following # "unsupported"
    /\ Heard /\ Write(Following)
    /\ buffer' = Tail(buffer)
    /\ left' = IF stage = "rcpt" THEN left - 1 ELSE left
    /\ UNCHANGED <<settingVars, secure, netVars, fate>>

(* Any other code, a malformed reply, no STARTTLS or AUTH on offer.        *)
GiveUp ==
    /\ Answered /\ stage # "quit"
    /\ \/ Reply.code \notin Accepts[stage]
       \/ stage # "starttls" /\ Following = "unsupported"
    /\ Heard
    /\ Over(IF Accepted \/ Reply.code = Malformed THEN "failed" ELSE "rejected")
    /\ UNCHANGED inClear

(* Mutated form of Upgrade: the channel is kept, and what it has buffered. *)
UpgradeInPlace ==
    /\ Accepted /\ stage = "starttls"
    /\ Heard
    /\ stage' = "handshake" /\ buffer' = Tail(buffer)
    /\ UNCHANGED <<settingVars, secure, left, netVars, fate, inClear>>

(* 220 to STARTTLS: nothing may have arrived behind it; a new channel.     *)
Upgrade ==
    /\ Accepted /\ stage = "starttls"
    /\ Heard
    /\ IF Len(buffer) > 1 THEN Over("failed") /\ UNCHANGED inClear
       ELSE /\ stage' = "handshake" /\ buffer' = <<>>
            /\ UNCHANGED <<settingVars, secure, left, netVars, fate, inClear>>

Encrypted ==
    /\ stage = "handshake" /\ far = "open" /\ wire = <<>>
    /\ secure' = TRUE /\ stage' = "ehloInside"
    /\ UNCHANGED <<settingVars, left, buffer, netVars, fate, seenVars>>

(* The message was accepted at its 250: whatever QUIT brings is ignored.   *)
Quit == Answered /\ stage = "quit" /\ Heard /\ Over("delivered") /\ UNCHANGED inClear

AfterAll == IF stage = "quit" THEN "delivered" ELSE "failed"

(* 'data' for a read that waits, or for the next one.                      *)
Arrives ==
    /\ Talking /\ wire # <<>>
    /\ buffer' = Append(buffer, Head(wire)) /\ wire' = Tail(wire)
    /\ UNCHANGED <<settingVars, stage, secure, left, far, fate, seenVars>>

(* 'error' at any time, 'close' after all data.                            *)
Hangup ==
    /\ Talking /\ buffer = <<>>
    /\ far = "broken" \/ (far = "closed" /\ wire = <<>>)
    /\ Over(AfterAll) /\ UNCHANGED seenVars

(* Mutated form of Deadline: it covers the dialogue only.                  *)
DeadlineOfTheDialogue ==
    /\ Talking /\ buffer = <<>>
    /\ Over(IF stage = "quit" THEN "delivered" ELSE "timeout") /\ UNCHANGED seenVars

(* What has arrived is consumed before a timer fires.                      *)
Deadline ==
    /\ fate = "none" /\ stage # "before" /\ buffer = <<>>
    /\ Over(IF stage = "quit" THEN "delivered" ELSE "timeout") /\ UNCHANGED seenVars

-----------------------------------------------------------------------------
(* The far end.                                                            *)
Says ==
    /\ fate = "none" /\ stage \in Stages \cup {"handshake"} /\ far = "open"
    /\ Len(wire) + Len(buffer) < MaxAhead
    /\ \E code \in Codes, offers \in Offers :
          /\ offers # {} => code = 250
          /\ wire' = Append(wire, [code |-> code, offers |-> offers, inside |-> secure])
    /\ UNCHANGED <<settingVars, stage, secure, left, buffer, far, fate, seenVars>>

GoesAway ==
    /\ fate = "none" /\ stage # "before" /\ far = "open"
    /\ far' \in {"closed", "broken"}
    /\ UNCHANGED <<settingVars, stage, secure, left, buffer, wire, fate, seenVars>>

Init ==
    /\ mode = "none" /\ user = FALSE /\ stage = "before" /\ secure = FALSE
    /\ left = Recipients /\ wire = <<>> /\ buffer = <<>> /\ far = "open"
    /\ fate = "none" /\ inClear = {} /\ heardClear = {} /\ took = FALSE

Step ==
    \/ Connected \/ ConnectFails \/ Proceed \/ GiveUp \/ Upgrade \/ Encrypted
    \/ Quit \/ Arrives \/ Hangup \/ Deadline

Next == Begin \/ Step \/ Says \/ GoesAway

(* The timer fires, and what has arrived is handled.                       *)
Spec == Init /\ [][Next]_smtpVars /\ WF_smtpVars(Step)

-----------------------------------------------------------------------------
TypeOK ==
    /\ stage \in Stages \cup {"before", "connect", "handshake", "over"}
    /\ fate \in {"none", "delivered", "rejected", "timeout", "failed"}
    /\ left \in 0 .. Recipients
    /\ Len(wire) + Len(buffer) <= MaxAhead
    /\ inClear \cup heardClear \subseteq Stages

Secrets == {"plain", "loginUser", "password"}

(* Credentials are written only inside an encrypted session, and with      *)
(* STARTTLS or implicit TLS so is the whole submission; once the session   *)
(* is encrypted no reply from before it is taken for an answer.  And the   *)
(* caller is told "delivered" exactly when the message was accepted for    *)
(* every recipient, whatever happens to QUIT.                              *)
SubmissionIsHonest ==
    /\ TypeOK
    /\ inClear \cap Secrets = {}
    /\ mode = "starttls" => inClear \cup heardClear \subseteq {"greeting", "ehlo", "starttls"}
    /\ mode = "implicit" => inClear \cup heardClear = {}
    /\ fate = "delivered" => left = 0
    /\ fate # "none" => (took <=> fate = "delivered")

InSession == stage \notin {"before", "over"}

(* A far end that stalls at one stage after the other ends with the one    *)
(* deadline, and its socket with it.                                       *)
SubmissionEnds == InSession ~> ~InSession
=============================================================================
