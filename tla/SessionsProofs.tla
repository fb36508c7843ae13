--------------------------- MODULE SessionsProofs ---------------------------
(***************************************************************************)
(* Theorems about Sessions, for any sets of identities, sessions and       *)
(* requests and any bound on requests and expiries.                        *)
(***************************************************************************)
EXTENDS Sessions, FiniteSetTheorems, TLAPS

RequestType ==
    [pc : {"idle", "known", "begun", "appended"},
     op : {"none", "write", "signedOut", "rotated", "signedIn"},
     by : Credentials \cup {Nobody},
     of : Sessions \cup Identities \cup {Nobody},
     late : SUBSET expired]

(* What a request works on fits what it does; under the audit lock its     *)
(* credential is still accepted.                                           *)
InTransaction(r) == request[r].pc \in {"begun", "appended"}

RequestInv ==
    /\ request \in [Requests -> RequestType]
    /\ \A r \in Requests :
          /\ ~At(r, "idle") => request[r].by \in Credentials /\ request[r].op # "none"
          /\ request[r].op = "signedIn" => InTransaction(r)
          /\ InTransaction(r) /\ request[r].op \in {"signedOut", "signedIn"}
                => request[r].of \in Sessions /\ request[r].of = request[r].by
          /\ InTransaction(r) /\ request[r].op = "rotated" => request[r].of \in Identities
          /\ request[r].op = "write" => request[r].of = Nobody
          /\ At(r, "appended") /\ request[r].op # "signedIn" => request[r].by \in Accepted

(* A session that no committed transaction has written about.              *)
Fresh(s) == s \notin live \cup told /\ \A e \in events : e.of # s /\ e.by # s

SignInInv ==
    /\ \A s \in Sessions : owner[s] = Nobody =>
          Fresh(s) /\ \A q \in Requests : request[q].by # s
    /\ \A r \in Requests : request[r].op = "signedIn" =>
          /\ owner[request[r].by] # Nobody
          /\ Fresh(request[r].by)
          /\ \A q \in Requests : request[q].by = request[r].by => q = r

(* The events are numbered, and what one has ended stays so.               *)
Ends(e) ==
    /\ e.op = "signedOut" => e.of \in Sessions \ live
    /\ e.op = "rotated" =>
          /\ e.of \in Tokens /\ e.of[2] < generation[e.of[1]]
          /\ \A s \in Sessions \ expired : owner[s] = e.of[1] /\ SignedInBefore(s, e) => s \notin live

EventInv ==
    /\ IsFiniteSet(events)
    /\ \A e \in events : e.at \in 1 .. Cardinality(events) /\ e.by \in Credentials
    /\ \A e \in events : Ends(e)

IInv == TypeOK /\ RequestInv /\ SignInInv /\ EventInv /\ NothingAfterItsEnd /\ ToldIsTrue

-----------------------------------------------------------------------------
(* Sessions, tokens and Nobody are told apart.                             *)
LEMMA Distinct ==
    /\ Nobody \notin Sessions /\ Nobody \notin Tokens /\ Nobody \notin Requests
    /\ \A s \in Sessions : s \notin Tokens
    /\ \A i \in Identities, n \in Nat : <<i, n>> \in Tokens /\ <<i, n>>[1] = i /\ <<i, n>>[2] = n
  BY SessionsAssumption DEF Credentials, Tokens

(* A step of one request leaves the others where they are.                 *)
LEMMA Others ==
    ASSUME RequestInv, NEW r \in Requests, NEW x, request' = [request EXCEPT ![r] = x]
    PROVE  request'[r] = x /\ \A q \in Requests \ {r} : request'[q] = request[q]
  BY DEF RequestInv

(* A step that writes nothing keeps what the chain says.                   *)
LEMMA QuietChain ==
    ASSUME EventInv, NothingAfterItsEnd, UNCHANGED <<generation, owner, live, expired, events>>
    PROVE  EventInv' /\ NothingAfterItsEnd'
  BY ZenonT(60) DEF EventInv, NothingAfterItsEnd, Ends, EndedBy, SignedInBefore

(* The end of a request that has committed nothing keeps the invariant.    *)
LEMMA OverKeeps ==
    ASSUME IInv, NEW r \in Requests, request' = [request EXCEPT ![r] = Idle],
           holder' = IF holder = r THEN Nobody ELSE holder,
           UNCHANGED <<generation, owner, live, expired, events, made>>,
           told' = told \/ (told' = told \cup {request[r].by} /\ request[r].by \in Sessions \ live
                            /\ ~InTransaction(r))
    PROVE  IInv'
  <1>1. request'[r] = Idle /\ \A q \in Requests \ {r} : request'[q] = request[q]
    BY Others DEF IInv
  <1>2. TypeOK'
    BY <1>1, Distinct DEF IInv, TypeOK, RequestInv, At, Idle
  <1>3. RequestInv'
    <2>1. request' \in [Requests -> RequestType]'
      BY DEF IInv, RequestInv, RequestType, Idle
    <2>2. QED
      BY <1>1, <2>1 DEF IInv, RequestInv, InTransaction, At, Idle, Accepted, Token
  <1>4. SignInInv'
    BY <1>1, Distinct DEF IInv, SignInInv, RequestInv, InTransaction, Fresh, Idle, At
  <1>5. ToldIsTrue'
    BY DEF IInv, ToldIsTrue
  <1>6. QED
    BY <1>2, <1>3, <1>4, <1>5, QuietChain DEF IInv

-----------------------------------------------------------------------------
(* The steps that write nothing.                                           *)

LEMMA AuthenticateKeeps ==
    ASSUME IInv, NEW r \in Requests, NEW c \in Accepted,
           NEW op \in {"write", "signedOut", "rotated"}, Authenticate(r, c, op)
    PROVE  IInv'
  <1>1. c \in Credentials /\ (c \in Sessions => c \in live)
    BY Distinct DEF Accepted, Token, IInv, TypeOK, Credentials
  <1> DEFINE x == [Idle EXCEPT !.pc = "known", !.op = op, !.by = c]
  <1>2. request' = [request EXCEPT ![r] = x] /\ At(r, "idle")
    BY DEF Authenticate
  <1>3. x \in RequestType /\ x.pc = "known" /\ x.op = op /\ x.by = c /\ x.of = Nobody
    <2>1. Idle \in RequestType /\ Idle.of = Nobody
      BY DEF Idle, RequestType
    <2>2. QED
      BY <1>1, <2>1 DEF RequestType
  <1> HIDE DEF x
  <1>4. request'[r] = x /\ \A q \in Requests \ {r} : request'[q] = request[q]
    BY <1>2, Others DEF IInv
  <1>5. TypeOK'
    BY <1>2, <1>3, <1>4, SessionsAssumption DEF Authenticate, IInv, TypeOK, At
  <1>6. RequestInv'
    <2>1. request' \in [Requests -> RequestType]'
      BY <1>1, <1>2, <1>3, ZenonT(60) DEF Authenticate, IInv, RequestInv, RequestType
    <2>2. Accepted' = Accepted
      BY DEF Authenticate, Accepted, Token
    <2>3. QED
      BY <1>1, <1>3, <1>4, <2>1, <2>2 DEF IInv, RequestInv, InTransaction, At
  <1>7. SignInInv'
    BY <1>1, <1>2, <1>3, <1>4 DEF Authenticate, IInv, SignInInv, RequestInv, InTransaction, Fresh, At, TypeOK
  <1>8. ToldIsTrue'
    BY DEF Authenticate, IInv, ToldIsTrue
  <1>9. QED
    BY <1>5, <1>6, <1>7, <1>8, QuietChain DEF Authenticate, IInv

(* A request that goes on inside its transaction.                          *)
LEMMA GoesOnKeeps ==
    ASSUME IInv, NEW r \in Requests, NEW x \in RequestType, request' = [request EXCEPT ![r] = x],
           UNCHANGED <<generation, owner, live, expired, events, told, made>>,
           x.by = request[r].by, x.op = request[r].op, x.by \in Credentials, x.op # "none",
           \/ /\ x.pc = "begun" /\ At(r, "known") /\ UNCHANGED holder
              /\ x.op = "signedOut" => x.of \in Sessions /\ x.of = x.by
              /\ x.op = "rotated" => x.of \in Identities
           \/ /\ x.pc = "appended" /\ At(r, "begun") /\ holder = Nobody /\ holder' = r
              /\ x.of = request[r].of
              /\ x.op # "signedIn" => x.by \in Accepted,
           x.op = "write" => x.of = Nobody
    PROVE  IInv'
  <1>1. request'[r] = x /\ \A q \in Requests \ {r} : request'[q] = request[q]
    BY Others DEF IInv
  <1>2. TypeOK'
    BY <1>1, Distinct DEF IInv, TypeOK, At
  <1>3. RequestInv'
    <2>1. request' \in [Requests -> RequestType]'
      BY DEF IInv, RequestInv, RequestType
    <2>2. Accepted' = Accepted
      BY DEF Accepted, Token
    <2>3. QED
      BY <1>1, <2>1, <2>2 DEF IInv, RequestInv, InTransaction, At
  <1>4. SignInInv'
    BY <1>1 DEF IInv, SignInInv, Fresh
  <1>5. ToldIsTrue'
    BY DEF IInv, ToldIsTrue
  <1>6. QED
    BY <1>2, <1>3, <1>4, <1>5, QuietChain DEF IInv

LEMMA BeginWriteKeeps ==
    ASSUME IInv, NEW r \in Requests, BeginWrite(r)
    PROVE  IInv'
  <1> DEFINE x == [request[r] EXCEPT !.pc = "begun", !.late = expired]
  <1>1. request' = [request EXCEPT ![r] = x]
    BY DEF BeginWrite
  <1>2. x \in RequestType /\ x.by = request[r].by /\ x.op = "write" /\ x.pc = "begun"
        /\ x.op = request[r].op /\ x.of = request[r].of
    BY DEF BeginWrite, IInv, RequestInv, RequestType
  <1>3. x.by \in Credentials /\ x.of = Nobody
    BY <1>2 DEF BeginWrite, IInv, RequestInv, At
  <1> HIDE DEF x
  <1>4. QED
    BY <1>1, <1>2, <1>3, GoesOnKeeps DEF BeginWrite

LEMMA BeginSignOutKeeps ==
    ASSUME IInv, NEW r \in Requests, BeginSignOut(r)
    PROVE  IInv'
  <1>1. CASE request[r].by \in live
    <2> DEFINE x == [request[r] EXCEPT !.pc = "begun", !.late = expired, !.of = request[r].by]
    <2>1. request' = [request EXCEPT ![r] = x] /\ UNCHANGED told
      BY <1>1 DEF BeginSignOut
    <2>2. x \in RequestType /\ x.by = request[r].by /\ x.op = "signedOut" /\ x.pc = "begun"
          /\ x.op = request[r].op /\ x.of = x.by /\ x.by \in Sessions
      BY DEF BeginSignOut, IInv, RequestInv, RequestType
    <2>3. x.by \in Credentials
      BY <2>2 DEF Credentials
    <2> HIDE DEF x
    <2>4. QED
      BY <2>1, <2>2, <2>3, GoesOnKeeps DEF BeginSignOut
  <1>2. CASE request[r].by \notin live
    <2>1. holder # r /\ ~InTransaction(r)
      BY Distinct DEF BeginSignOut, At, IInv, TypeOK, InTransaction
    <2>2. QED
      BY <1>2, <2>1, OverKeeps DEF BeginSignOut
  <1>3. QED
    BY <1>1, <1>2

LEMMA BeginRotateKeeps ==
    ASSUME IInv, NEW r \in Requests, NEW i \in Identities, BeginRotate(r, i)
    PROVE  IInv'
  <1> DEFINE x == [request[r] EXCEPT !.pc = "begun", !.late = expired, !.of = i]
  <1>1. request' = [request EXCEPT ![r] = x]
    BY DEF BeginRotate
  <1>2. x \in RequestType /\ x.by = request[r].by /\ x.op = "rotated" /\ x.pc = "begun"
        /\ x.op = request[r].op /\ x.of = i
    BY DEF BeginRotate, IInv, RequestInv, RequestType
  <1>3. x.by \in Credentials
    BY <1>2 DEF BeginRotate, IInv, RequestInv, At
  <1> HIDE DEF x
  <1>4. QED
    BY <1>1, <1>2, <1>3, GoesOnKeeps DEF BeginRotate

LEMMA AppendKeeps ==
    ASSUME IInv, NEW r \in Requests, Append(r)
    PROVE  IInv'
  <1> DEFINE x == [request[r] EXCEPT !.pc = "appended"]
  <1>1. request' = [request EXCEPT ![r] = x]
    BY DEF Append, Goes
  <1>2. x \in RequestType /\ x.by = request[r].by /\ x.pc = "appended"
        /\ x.op = request[r].op /\ x.of = request[r].of
    BY DEF IInv, RequestInv, RequestType
  <1>3. x.by \in Credentials /\ x.op # "none" /\ (x.op = "write" => x.of = Nobody)
    BY <1>2 DEF Append, IInv, RequestInv, At
  <1>4. x.op # "signedIn" => x.by \in Accepted
    BY <1>2 DEF Append, Known, Resolves
  <1> HIDE DEF x
  <1>5. QED
    BY <1>1, <1>2, <1>3, <1>4, GoesOnKeeps DEF Append

(* A session that is being signed in to is nobody's yet.                   *)
LEMMA BeginSignInKeeps ==
    ASSUME IInv, NEW r \in Requests, NEW s \in Sessions, NEW i \in Identities, BeginSignIn(r, s, i)
    PROVE  IInv'
  <1> DEFINE x == [pc |-> "begun", op |-> "signedIn", by |-> s, of |-> s, late |-> expired]
  <1>1. request' = [request EXCEPT ![r] = x] /\ At(r, "idle")
    BY DEF BeginSignIn
  <1>2. request'[r] = x /\ \A q \in Requests \ {r} : request'[q] = request[q]
    BY <1>1, Others DEF IInv
  <1>3. i # Nobody /\ owner'[s] = i /\ \A t \in Sessions \ {s} : owner'[t] = owner[t]
    BY SessionsAssumption DEF BeginSignIn, IInv, TypeOK
  <1>4. Fresh(s) /\ \A q \in Requests : request[q].by # s
    BY DEF BeginSignIn, IInv, SignInInv
  <1>5. TypeOK'
    BY <1>1, <1>2, <1>3, SessionsAssumption DEF BeginSignIn, IInv, TypeOK, At
  <1>6. RequestInv'
    <2>1. request' \in [Requests -> RequestType]'
      BY <1>1 DEF BeginSignIn, IInv, RequestInv, RequestType, Credentials
    <2>2. Accepted' = Accepted
      BY DEF BeginSignIn, Accepted, Token
    <2>3. QED
      BY <1>2, <2>1, <2>2 DEF IInv, RequestInv, InTransaction, At, Credentials
  <1>7. SignInInv'
    <2>1. \A t \in Sessions : Fresh(t) => Fresh(t)'
      BY DEF BeginSignIn, Fresh
    <2>2. \A q \in Requests : request[q].op = "signedIn" => request[q].by \in Sessions
      BY DEF IInv, RequestInv
    <2>3. QED
      BY <1>2, <1>3, <1>4, <2>1, <2>2 DEF IInv, SignInInv
  <1>8. ToldIsTrue'
    BY DEF BeginSignIn, IInv, ToldIsTrue
  <1>9. \A e \in events : ~SignedInBefore(s, e)
    BY <1>4 DEF SignedInBefore, Fresh
  <1>10. EventInv'
    BY <1>3, <1>9 DEF BeginSignIn, IInv, EventInv, Ends, SignedInBefore
  <1>11. \A e \in events : EndedBy(e)' = EndedBy(e)
    BY <1>3, <1>9 DEF BeginSignIn, EndedBy, SignedInBefore
  <1>12. NothingAfterItsEnd'
    BY <1>11 DEF BeginSignIn, IInv, NothingAfterItsEnd
  <1>13. QED
    BY <1>5, <1>6, <1>7, <1>8, <1>10, <1>12 DEF IInv

LEMMA ExpireKeeps ==
    ASSUME IInv, NEW c \in Accepted, Expire(c)
    PROVE  IInv'
  <1>1. c \in Credentials
    BY Distinct DEF Accepted, Token, IInv, TypeOK, Credentials
  <1>2. TypeOK'
    BY <1>1 DEF Expire, IInv, TypeOK, At
  <1>3. RequestInv'
    BY DEF Expire, IInv, RequestInv, RequestType, InTransaction, At, Accepted, Token
  <1>4. SignInInv' /\ ToldIsTrue'
    BY DEF Expire, IInv, SignInInv, Fresh, ToldIsTrue
  <1>5. EventInv'
    BY DEF Expire, IInv, EventInv, Ends, SignedInBefore
  <1>6. \A e \in events : EndedBy(e)' \subseteq EndedBy(e)
    BY DEF Expire, EndedBy, SignedInBefore
  <1>7. NothingAfterItsEnd'
    BY <1>6 DEF Expire, IInv, NothingAfterItsEnd
  <1>8. QED
    BY <1>2, <1>3, <1>4, <1>5, <1>7 DEF IInv

-----------------------------------------------------------------------------
(* The commits.                                                            *)

(* What an event has ended is not accepted.                                *)
LEMMA EndedIsNotAccepted ==
    ASSUME IInv, NEW e \in events, NEW c \in EndedBy(e)
    PROVE  c \notin Accepted
  <1>1. Ends(e)
    BY DEF IInv, EventInv
  <1>2. \A i \in Identities : Token(i) = <<i, generation[i]>> /\ Token(i) \in Tokens
    BY DEF Token, Tokens, IInv, TypeOK
  <1>3. live \subseteq Sessions
    BY DEF IInv, TypeOK
  <1>4. CASE e.op = "signedOut"
    BY <1>1, <1>2, <1>3, <1>4, Distinct DEF Ends, EndedBy, Accepted
  <1>5. CASE e.op = "rotated"
    <2>1. CASE c = e.of
      <3>1. c \in Tokens /\ c[2] < generation[c[1]] /\ c \notin live
        BY <1>1, <1>3, <1>5, <2>1, Distinct DEF Ends
      <3>2. \A i \in Identities : generation[i] \in Nat
        BY DEF IInv, TypeOK
      <3>3. \A i \in Identities : c # Token(i)
        BY <1>2, <3>1, <3>2
      <3>4. QED
        BY <3>1, <3>3 DEF Accepted
    <2>2. CASE c # e.of
      BY <1>1, <1>2, <1>5, <2>2, Distinct DEF Ends, EndedBy, Accepted
    <2>3. QED
      BY <2>1, <2>2
  <1>6. QED
    BY <1>4, <1>5 DEF EndedBy

(* The event of a commit is the last one, and what the earlier ones have   *)
(* ended stays the same.                                                   *)
LEMMA LastEvent ==
    ASSUME IInv, NEW r \in Requests, Record(r), NEW last, last = Event(r)
    PROVE  /\ IsFiniteSet(events') /\ Cardinality(events') = Cardinality(events) + 1
           /\ Cardinality(events) \in Nat /\ last.at = Cardinality(events) + 1
           /\ events' = events \cup {last}
           /\ \A e \in events : e.at \in Nat /\ e.at < last.at
           /\ \A e \in events, s \in Sessions : SignedInBefore(s, e)' <=> SignedInBefore(s, e)
           /\ \A s \in Sessions : SignedInBefore(s, last)' =>
                  \E d \in events : d.op = "signedIn" /\ d.of = s
           /\ \A e \in events : EndedBy(e)' = EndedBy(e)
  <1>1. IsFiniteSet(events) /\ Cardinality(events) \in Nat
    BY FS_CardinalityType DEF IInv, EventInv
  <1>2. last.at = Cardinality(events) + 1
    BY DEF Event
  <1>3. \A e \in events : e.at \in Nat /\ e.at < last.at
    BY <1>1, <1>2 DEF IInv, EventInv
  <1>4. last \notin events /\ events' = events \cup {last}
    BY <1>1, <1>2, <1>3 DEF Record
  <1>5. IsFiniteSet(events') /\ Cardinality(events') = Cardinality(events) + 1
    BY <1>1, <1>4, FS_AddElement
  <1>6. \A e \in events, s \in Sessions : SignedInBefore(s, e)' <=> SignedInBefore(s, e)
    BY <1>1, <1>2, <1>3, <1>4 DEF SignedInBefore
  <1>7. \A s \in Sessions : SignedInBefore(s, last)' => \E d \in events : d.op = "signedIn" /\ d.of = s
    BY <1>1, <1>2, <1>4 DEF SignedInBefore
  <1>8. \A e \in events : EndedBy(e)' = EndedBy(e)
    BY <1>6 DEF EndedBy, Record
  <1>9. QED
    BY <1>1, <1>2, <1>3, <1>4, <1>5, <1>6, <1>7, <1>8

(* Whoever commits holds the audit lock: its credential has not ended, and *)
(* a session that it mints has never been heard of.                        *)
LEMMA NothingAfterTheCommit ==
    ASSUME IInv, NEW r \in Requests, Record(r)
    PROVE  NothingAfterItsEnd'
  <1>1. PICK last : last = Event(r)
    OBVIOUS
  <1>2. /\ events' = events \cup {last} /\ last.at \in Nat
        /\ \A e \in events : e.at \in Nat /\ e.at < last.at
        /\ \A e \in events : EndedBy(e)' = EndedBy(e)
    BY <1>1, LastEvent
  <1>3. last.by = request[r].by
    BY <1>1 DEF Event
  <1>4. \A e \in events : last.by \notin EndedBy(e)
    <2>1. CASE request[r].op = "signedIn"
      <3>1. last.by \in Sessions /\ Fresh(last.by)
        BY <1>3, <2>1 DEF IInv, RequestInv, SignInInv
      <3>2. QED
        BY <3>1, Distinct DEF Fresh, EndedBy, SignedInBefore, IInv, EventInv, Ends
    <2>2. CASE request[r].op # "signedIn"
      <3>1. last.by \in Accepted
        BY <1>3, <2>2 DEF Record, IInv, RequestInv
      <3>2. QED
        BY <3>1, EndedIsNotAccepted
    <2>3. QED
      BY <2>1, <2>2
  <1>5. QED
    BY <1>2, <1>4 DEF NothingAfterItsEnd, IInv

(* Every sign-in in the chain but the one that commits is of a session     *)
(* that is not fresh, so what has ended cannot begin again.                *)
LEMMA ChainAfterTheCommit ==
    ASSUME IInv, NEW r \in Requests, Record(r), NEW last, last = Event(r), Ends(last)',
           generation' \in [Identities -> Nat \ {0}],
           \A i \in Identities : generation[i] <= generation'[i],
           \A s \in live' \ live : Fresh(s)
    PROVE  EventInv'
  <1>1. /\ events' = events \cup {last} /\ last.at = Cardinality(events) + 1
        /\ IsFiniteSet(events') /\ Cardinality(events') = Cardinality(events) + 1
        /\ Cardinality(events) \in Nat
        /\ \A e \in events, s \in Sessions : SignedInBefore(s, e)' <=> SignedInBefore(s, e)
    BY LastEvent
  <1>2. last.by \in Credentials
    BY DEF Event, Record, At, IInv, RequestInv
  <1>3. \A e \in events' : e.at \in 1 .. Cardinality(events') /\ e.by \in Credentials
    BY <1>1, <1>2 DEF IInv, EventInv
  <1>4. ASSUME NEW e \in events
        PROVE  Ends(e)'
    <2>1. Ends(e)
      BY DEF IInv, EventInv
    <2>2. CASE e.op = "signedOut"
      BY <2>1, <2>2 DEF Ends, Fresh
    <2>3. CASE e.op = "rotated"
      <3>1. e.of \in Tokens /\ e.of[2] < generation[e.of[1]]
        BY <2>1, <2>3 DEF Ends
      <3>2. e.of[1] \in Identities /\ e.of[2] \in Nat
        BY <3>1 DEF Tokens
      <3>3. e.of[2] < generation'[e.of[1]]
        BY <3>1, <3>2 DEF IInv, TypeOK
      <3>4. ASSUME NEW s \in Sessions \ expired', owner'[s] = e.of[1], SignedInBefore(s, e)'
            PROVE  s \notin live'
        <4>1. s \notin expired /\ owner[s] = e.of[1] /\ SignedInBefore(s, e)
          BY <1>1, <3>4 DEF Record
        <4>2. s \notin live /\ ~Fresh(s)
          BY <2>1, <2>3, <4>1 DEF Ends, SignedInBefore, Fresh
        <4>3. QED
          BY <4>2
      <3>5. QED
        BY <2>3, <3>1, <3>3, <3>4 DEF Ends
    <2>4. QED
      BY <2>2, <2>3 DEF Ends
  <1>5. QED
    BY <1>1, <1>3, <1>4 DEF EventInv

(* The request is over; nobody else was under the lock.                    *)
LEMMA RequestsAfterTheCommit ==
    ASSUME IInv, NEW r \in Requests, Record(r)
    PROVE  /\ RequestInv' /\ holder' = Nobody /\ r \in Requests
           /\ request'[r] = Idle /\ \A q \in Requests \ {r} : request'[q] = request[q]
           /\ \A q \in Requests : ~At(q, "appended")'
  <1>1. request' = [request EXCEPT ![r] = Idle] /\ holder = r /\ holder' = Nobody
    BY DEF Record, Over, IInv, TypeOK
  <1>2. request'[r] = Idle /\ \A q \in Requests \ {r} : request'[q] = request[q]
    BY <1>1, Others DEF IInv
  <1>3. \A q \in Requests : ~At(q, "appended")'
    BY <1>1, <1>2 DEF IInv, TypeOK, At, Idle
  <1>4. request' \in [Requests -> RequestType]'
    BY <1>1 DEF Record, IInv, RequestInv, RequestType, Idle
  <1>5. RequestInv'
    BY <1>2, <1>3, <1>4 DEF IInv, RequestInv, InTransaction, At, Idle
  <1>6. QED
    BY <1>1, <1>2, <1>3, <1>5

(* A commit writes of no session but its own credential.                   *)
LEMMA FreshAfterTheCommit ==
    ASSUME IInv, NEW r \in Requests, Record(r), NEW last, last = Event(r),
           live' \subseteq live \cup {request[r].by}, told' \subseteq told \cup {request[r].by}
    PROVE  SignInInv'
  <1>1. request'[r] = Idle /\ \A q \in Requests \ {r} : request'[q] = request[q]
    BY RequestsAfterTheCommit
  <1>2. events' = events \cup {last} /\ owner' = owner
    BY LastEvent DEF Record
  <1>3. last.by = request[r].by /\ (last.of \in Sessions => last.of = last.by)
    <2>1. last.by = request[r].by /\ last.of = Replaced(r)
      BY DEF Event
    <2>2. CASE request[r].op = "rotated"
      <3>1. last.of = <<request[r].of, generation[request[r].of]>> /\ request[r].of \in Identities
        BY <2>1, <2>2 DEF Replaced, Token, Record, At, IInv, RequestInv, InTransaction
      <3>2. last.of \in Tokens
        BY <3>1 DEF Tokens, IInv, TypeOK
      <3>3. QED
        BY <2>1, <3>2, Distinct
    <2>3. CASE request[r].op # "rotated"
      <3>1. last.of = request[r].of /\ request[r].op \in {"write", "signedOut", "signedIn"}
        BY <2>1, <2>3 DEF Replaced, Record, At, IInv, RequestInv, RequestType
      <3>2. QED
        BY <2>1, <3>1, Distinct DEF Record, At, IInv, RequestInv, InTransaction
    <2>4. QED
      BY <2>2, <2>3
  <1>4. \A s \in Sessions : Fresh(s) /\ s # request[r].by => Fresh(s)'
    BY <1>2, <1>3 DEF Fresh
  <1>5. \A q \in Requests : request[q].op = "signedIn" => request[q].by \in Sessions
    BY DEF IInv, RequestInv
  <1>6. QED
    BY <1>1, <1>2, <1>4, <1>5, Distinct DEF IInv, SignInInv, Idle

LEMMA TypeAfterTheCommit ==
    ASSUME IInv, NEW r \in Requests, Record(r),
           generation' \in [Identities -> Nat \ {0}], EventInv',
           live' \subseteq {s \in Sessions : owner[s] # Nobody}, told' \subseteq Sessions
    PROVE  TypeOK'
  <1>1. holder' = Nobody /\ \A q \in Requests : ~At(q, "appended")'
    BY RequestsAfterTheCommit
  <1>2. owner' = owner /\ expired' = expired /\ made' = made
    BY DEF Record
  <1>3. \A q \in Requests : holder' # q
    BY <1>1, Distinct
  <1>4. QED
    BY <1>1, <1>2, <1>3 DEF IInv, TypeOK, EventInv

LEMMA CommitWriteKeeps ==
    ASSUME IInv, NEW r \in Requests, CommitWrite(r)
    PROVE  IInv'
  <1>1. Record(r) /\ request[r].op = "write" /\ UNCHANGED <<generation, live, told>>
    BY DEF CommitWrite
  <1>2. PICK last : last = Event(r)
    OBVIOUS
  <1>3. Ends(last)'
    BY <1>1, <1>2 DEF Event, Ends
  <1>4. generation \in [Identities -> Nat \ {0}] /\ told \subseteq Sessions
    BY DEF IInv, TypeOK
  <1>5. EventInv'
    BY <1>1, <1>2, <1>3, <1>4, ChainAfterTheCommit
  <1>6. SignInInv' /\ TypeOK'
    BY <1>1, <1>2, <1>4, <1>5, FreshAfterTheCommit, TypeAfterTheCommit DEF IInv, TypeOK
  <1>7. QED
    BY <1>1, <1>5, <1>6, NothingAfterTheCommit, RequestsAfterTheCommit DEF IInv, ToldIsTrue

LEMMA CommitSignInKeeps ==
    ASSUME IInv, NEW r \in Requests, CommitSignIn(r)
    PROVE  IInv'
  <1>1. /\ Record(r) /\ request[r].op = "signedIn" /\ UNCHANGED <<generation, told>>
        /\ live' = live \cup {request[r].of}
    BY DEF CommitSignIn
  <1>2. /\ request[r].of = request[r].by /\ request[r].of \in Sessions /\ Fresh(request[r].of)
        /\ owner[request[r].of] # Nobody
    BY <1>1 DEF Record, At, IInv, RequestInv, SignInInv, InTransaction
  <1>3. PICK last : last = Event(r)
    OBVIOUS
  <1>4. Ends(last)'
    BY <1>1, <1>3 DEF Event, Ends
  <1>5. generation \in [Identities -> Nat \ {0}] /\ told \subseteq Sessions
    BY DEF IInv, TypeOK
  <1>6. EventInv'
    BY <1>1, <1>2, <1>3, <1>4, <1>5, ChainAfterTheCommit
  <1>7. SignInInv'
    BY <1>1, <1>2, <1>3, FreshAfterTheCommit
  <1>8. TypeOK'
    BY <1>1, <1>2, <1>5, <1>6, TypeAfterTheCommit DEF IInv, TypeOK
  <1>9. ToldIsTrue'
    BY <1>1, <1>2 DEF IInv, ToldIsTrue, Fresh
  <1>10. QED
    BY <1>1, <1>6, <1>7, <1>8, <1>9, NothingAfterTheCommit, RequestsAfterTheCommit DEF IInv

LEMMA CommitSignOutKeeps ==
    ASSUME IInv, NEW r \in Requests, CommitSignOut(r)
    PROVE  IInv'
  <1>1. /\ Record(r) /\ request[r].op = "signedOut" /\ UNCHANGED generation
        /\ live' = live \ {request[r].of} /\ told' = told \cup {request[r].of}
    BY DEF CommitSignOut
  <1>2. request[r].of = request[r].by /\ request[r].of \in Sessions
    BY <1>1 DEF Record, At, IInv, RequestInv, InTransaction
  <1>3. PICK last : last = Event(r)
    OBVIOUS
  <1>4. last.op = "signedOut" /\ last.of = request[r].of
    BY <1>1, <1>3 DEF Event, Replaced
  <1>5. Ends(last)'
    BY <1>1, <1>2, <1>4 DEF Ends
  <1>6. generation \in [Identities -> Nat \ {0}] /\ told' \subseteq Sessions
    BY <1>1, <1>2 DEF IInv, TypeOK
  <1>7. EventInv'
    BY <1>1, <1>3, <1>5, <1>6, ChainAfterTheCommit
  <1>8. SignInInv'
    BY <1>1, <1>2, <1>3, FreshAfterTheCommit
  <1>9. TypeOK'
    BY <1>1, <1>6, <1>7, TypeAfterTheCommit DEF IInv, TypeOK
  <1>10. ToldIsTrue'
    BY <1>1 DEF IInv, ToldIsTrue
  <1>11. QED
    BY <1>1, <1>7, <1>8, <1>9, <1>10, NothingAfterTheCommit, RequestsAfterTheCommit DEF IInv

(* A rotation ends what was signed in to and has not expired: what had     *)
(* expired when it began still has.                                        *)
LEMMA CommitRotateKeeps ==
    ASSUME IInv, NEW r \in Requests, CommitRotate(r)
    PROVE  IInv'
  <1> DEFINE i == request[r].of
  <1>1. /\ Record(r) /\ request[r].op = "rotated" /\ UNCHANGED told
        /\ generation' = [generation EXCEPT ![i] = @ + 1]
        /\ live' = live \ (SessionsOf(i) \ request[r].late)
    BY DEF CommitRotate
  <1>2. i \in Identities /\ request[r].late \subseteq expired
    BY <1>1 DEF Record, At, IInv, RequestInv, RequestType, InTransaction
  <1>3. /\ generation' \in [Identities -> Nat \ {0}] /\ told \subseteq Sessions
        /\ \A j \in Identities : generation[j] <= generation'[j]
        /\ generation[i] \in Nat /\ generation'[i] = generation[i] + 1
    BY <1>1, <1>2 DEF IInv, TypeOK
  <1>4. PICK last : last = Event(r)
    OBVIOUS
  <1>5. last.op = "rotated" /\ last.of = <<i, generation[i]>>
    BY <1>1, <1>4 DEF Event, Replaced, Token
  <1>6. Ends(last)'
    <2>1. last.of \in Tokens /\ last.of[1] = i /\ last.of[2] < generation'[i]
      BY <1>2, <1>3, <1>5 DEF Tokens
    <2>2. \A s \in Sessions \ expired : owner[s] = i => s \notin live'
      BY <1>1, <1>2 DEF SessionsOf
    <2>3. owner' = owner /\ expired' = expired
      BY <1>1 DEF Record
    <2>4. QED
      BY <1>5, <2>1, <2>2, <2>3 DEF Ends
  <1> HIDE DEF i
  <1>7. EventInv'
    BY <1>1, <1>3, <1>4, <1>6, ChainAfterTheCommit
  <1>8. SignInInv' /\ TypeOK'
    BY <1>1, <1>3, <1>4, <1>7, FreshAfterTheCommit, TypeAfterTheCommit DEF IInv, TypeOK
  <1>9. QED
    BY <1>1, <1>7, <1>8, NothingAfterTheCommit, RequestsAfterTheCommit DEF IInv, ToldIsTrue

-----------------------------------------------------------------------------
(* The theorems.                                                           *)

LEMMA InitInv == Init => IInv
  <1> SUFFICES ASSUME Init PROVE IInv
    OBVIOUS
  <1>1. \A r \in Requests : request[r] = Idle
    BY DEF Init
  <1>2. TypeOK
    BY <1>1, Distinct, SessionsAssumption DEF Init, TypeOK, At, Idle
  <1>3. RequestInv
    <2>1. Idle \in RequestType
      BY DEF Idle, RequestType
    <2>2. QED
      BY <1>1, <2>1 DEF Init, RequestInv, InTransaction, At, Idle
  <1>4. SignInInv
    BY <1>1, Distinct DEF Init, SignInInv, Fresh, Idle
  <1>5. EventInv /\ NothingAfterItsEnd /\ ToldIsTrue
    BY FS_EmptySet DEF Init, EventInv, NothingAfterItsEnd, ToldIsTrue
  <1>6. QED
    BY <1>2, <1>3, <1>4, <1>5 DEF IInv

LEMMA NextInv == IInv /\ [Next]_vars => IInv'
  <1> SUFFICES ASSUME IInv, [Next]_vars PROVE IInv'
    OBVIOUS
  <1>1. ASSUME NEW r \in Requests, NEW c \in Accepted,
               NEW op \in {"write", "signedOut", "rotated"}, Authenticate(r, c, op)
        PROVE  IInv'
    BY <1>1, AuthenticateKeeps
  <1>2. ASSUME NEW r \in Requests, NEW s \in Sessions, NEW i \in Identities, BeginSignIn(r, s, i)
        PROVE  IInv'
    BY <1>2, BeginSignInKeeps
  <1>3. ASSUME NEW r \in Requests, Begin(r)
        PROVE  IInv'
    <2>1. CASE BeginWrite(r) \/ BeginSignOut(r) \/ \E i \in Identities : BeginRotate(r, i)
      BY <2>1, BeginWriteKeeps, BeginSignOutKeeps, BeginRotateKeeps
    <2>2. CASE KeepsToken(r)
      <3>1. holder # r
        BY <2>2 DEF KeepsToken, At, IInv, TypeOK
      <3>2. QED
        BY <2>2, <3>1, OverKeeps DEF KeepsToken
    <2>3. QED
      BY <1>3, <2>1, <2>2 DEF Begin
  <1>4. ASSUME NEW r \in Requests, Append(r)
        PROVE  IInv'
    BY <1>4, AppendKeeps
  <1>5. ASSUME NEW r \in Requests, Refuse(r) \/ Fail(r)
        PROVE  IInv'
    BY <1>5, OverKeeps DEF Refuse, Fail, Over
  <1>6. ASSUME NEW r \in Requests, Commit(r)
        PROVE  IInv'
    BY <1>6, CommitWriteKeeps, CommitSignInKeeps, CommitSignOutKeeps, CommitRotateKeeps DEF Commit
  <1>7. ASSUME NEW c \in Accepted, Expire(c)
        PROVE  IInv'
    BY <1>7, ExpireKeeps
  <1>8. CASE UNCHANGED vars
    <2>1. TypeOK' /\ ToldIsTrue'
      BY <1>8 DEF vars, IInv, TypeOK, At, ToldIsTrue
    <2>2. RequestInv'
      BY <1>8 DEF vars, IInv, RequestInv, RequestType, InTransaction, At, Accepted, Token
    <2>3. SignInInv'
      BY <1>8 DEF vars, IInv, SignInInv, Fresh
    <2>4. QED
      BY <1>8, <2>1, <2>2, <2>3, QuietChain DEF vars, IInv
  <1>9. QED
    BY <1>1, <1>2, <1>3, <1>4, <1>5, <1>6, <1>7, <1>8 DEF Next

(* The invariant holds in every behaviour of the credentials.               *)
THEOREM SessionsInvariant == Spec => []IInv
  BY InitInv, NextInv, PTL DEF Spec

(* Every variable keeps its type, and only who has appended holds the lock.*)
THEOREM SessionsTypeCorrect == Spec => []TypeOK
  <1>1. IInv => TypeOK
    BY DEF IInv
  <1>2. QED
    BY <1>1, SessionsInvariant, PTL

(* Nothing is recorded under a credential after the event that ended it,   *)
(* whatever was authenticated, begun or waiting for the lock at the time.  *)
THEOREM NothingRecordedAfterTheEnd == Spec => []NothingAfterItsEnd
  <1>1. IInv => NothingAfterItsEnd
    BY DEF IInv
  <1>2. QED
    BY <1>1, SessionsInvariant, PTL

(* What the chain says has ended is not accepted, also a session whose     *)
(* sign-in raced with the rotation.                                        *)
THEOREM EndedStaysRefused == Spec => []EndedIsRefused
  <1>1. IInv => EndedIsRefused
    BY EndedIsNotAccepted DEF EndedIsRefused, Resolves
  <1>2. QED
    BY <1>1, SessionsInvariant, PTL

(* A session somebody was told has ended is never accepted again.          *)
THEOREM ToldStaysTrue == Spec => []ToldIsTrue
  <1>1. IInv => ToldIsTrue
    BY DEF IInv
  <1>2. QED
    BY <1>1, SessionsInvariant, PTL
=============================================================================
