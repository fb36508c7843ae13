------------------------------ MODULE Sessions ------------------------------
(***************************************************************************)
(* Credentials: operator tokens, which a rotation replaces, and sessions,  *)
(* which a sign-in mints and a sign-out or a rotation ends.  A request     *)
(* authenticates in one transaction and does its work in another; in       *)
(* between its credential may be ended.  Every transaction that writes     *)
(* appends an audit event, and the append takes the audit lock, resolves   *)
(* the credential again and keeps the lock until the end.                  *)
(*                                                                         *)
(* now() is the time at which a transaction began: `late` is what had      *)
(* expired then.  The writes of a transaction are shown at its commit;     *)
(* under the audit lock no other transaction can write what it updates.    *)
(***************************************************************************)
EXTENDS Naturals, FiniteSets

CONSTANTS
    Identities,
    Administrators,    \* those with the role tenant_admin
    Sessions,          \* rows auth_sessions may get
    Requests,
    Nobody,
    MaxRequests,       \* bound on the requests that are made
    MaxExpired         \* bound on the credentials that expire

Tokens == Identities \X Nat
Credentials == Tokens \cup Sessions

ASSUME SessionsAssumption ==
    /\ Administrators \subseteq Identities
    /\ MaxRequests \in Nat /\ MaxExpired \in Nat
    /\ Nobody \notin Credentials \cup Identities \cup Requests
    /\ \A s \in Sessions : s \notin Tokens

VARIABLES
    generation,   \* which of its tokens an identity has
    owner,        \* whose a session is
    live,         \* sessions that are committed and not revoked
    expired,      \* credentials whose time is over
    holder,       \* of the audit lock
    request,      \* what each request does, and where it is
    events,       \* the audit chain
    told,         \* sessions somebody was told have ended
    made          \* requests so far

vars == <<generation, owner, live, expired, holder, request, events, told, made>>

Idle == [pc |-> "idle", op |-> "none", by |-> Nobody, of |-> Nobody, late |-> {}]

At(r, pc) == request[r].pc = pc
Goes(r, pc) == request' = [request EXCEPT ![r].pc = pc]

(* The identity behind a credential.                                       *)
Actor(c) == IF c \in Sessions THEN owner[c] ELSE c[1]

Token(i) == <<i, generation[i]>>

(* The two branches in which a credential is resolved.                     *)
Accepted == live \cup {Token(i) : i \in Identities}

Resolves(c, late) == c \in Accepted \ late

-----------------------------------------------------------------------------
(* authenticateToken.                                                      *)
Authenticate(r, c, op) ==
    /\ At(r, "idle") /\ made < MaxRequests
    /\ Resolves(c, expired)
    /\ made' = made + 1
    /\ request' = [request EXCEPT ![r] = [Idle EXCEPT !.pc = "known", !.op = op, !.by = c]]
    /\ UNCHANGED <<generation, owner, live, expired, holder, events, told>>

(* A transaction begins that will write and then append.                   *)
BeginWrite(r) ==
    /\ At(r, "known") /\ request[r].op = "write"
    /\ request' = [request EXCEPT ![r].pc = "begun", ![r].late = expired]
    /\ UNCHANGED <<generation, owner, live, expired, holder, events, told, made>>

(* revoke_openppwr_session finds the session not revoked, or says that     *)
(* there was nothing to revoke.  It does not look at the expiry.           *)
BeginSignOut(r) ==
    /\ At(r, "known") /\ request[r].op = "signedOut" /\ request[r].by \in Sessions
    /\ IF request[r].by \in live
       THEN /\ request' = [request EXCEPT ![r].pc = "begun", ![r].late = expired,
                                          ![r].of = request[r].by]
            /\ UNCHANGED told
       ELSE /\ request' = [request EXCEPT ![r] = Idle]
            /\ told' = told \cup {request[r].by}
    /\ UNCHANGED <<generation, owner, live, expired, holder, events, made>>

(* A token cannot be signed out; the answer says so.                       *)
KeepsToken(r) ==
    /\ At(r, "known") /\ request[r].op = "signedOut" /\ request[r].by \notin Sessions
    /\ request' = [request EXCEPT ![r] = Idle]
    /\ UNCHANGED <<generation, owner, live, expired, holder, events, told, made>>

(* Oneself, or anybody if one is an administrator.                         *)
MayRotate(c, i) == Actor(c) = i \/ Actor(c) \in Administrators

BeginRotate(r, i) ==
    /\ At(r, "known") /\ request[r].op = "rotated"
    /\ Resolves(request[r].by, expired) /\ MayRotate(request[r].by, i)
    /\ request' = [request EXCEPT ![r].pc = "begun", ![r].late = expired, ![r].of = i]
    /\ UNCHANGED <<generation, owner, live, expired, holder, events, told, made>>

(* The password is right: the row of the session is inserted.              *)
BeginSignIn(r, s, i) ==
    /\ At(r, "idle") /\ made < MaxRequests
    /\ owner[s] = Nobody
    /\ owner' = [owner EXCEPT ![s] = i]
    /\ made' = made + 1
    /\ request' = [request EXCEPT ![r] =
                      [pc |-> "begun", op |-> "signedIn", by |-> s, of |-> s, late |-> expired]]
    /\ UNCHANGED <<generation, live, expired, holder, events, told>>

(* append_openppwr_audit_event: first the lock, then the credential.  The  *)
(* session of a sign-in is the transaction's own row.                      *)
Known(r) == Resolves(request[r].by, request[r].late) \/ request[r].op = "signedIn"

(* Mutated form of Append: the credential is trusted since it was seen.    *)
AppendWhenKnown(r) ==
    /\ At(r, "begun") /\ holder = Nobody
    /\ holder' = r
    /\ Goes(r, "appended")
    /\ UNCHANGED <<generation, owner, live, expired, events, told, made>>

Append(r) ==
    /\ At(r, "begun") /\ holder = Nobody /\ Known(r)
    /\ holder' = r
    /\ Goes(r, "appended")
    /\ UNCHANGED <<generation, owner, live, expired, events, told, made>>

(* Mutated form of Over: the lock survives the transaction.                *)
OverHolding(r) ==
    /\ request' = [request EXCEPT ![r] = Idle]
    /\ UNCHANGED holder

(* The transaction is over, and so is the request.                         *)
Over(r) ==
    /\ request' = [request EXCEPT ![r] = Idle]
    /\ holder' = IF holder = r THEN Nobody ELSE holder

(* A statement fails, a client goes away, the process dies: the            *)
(* transaction is rolled back.                                             *)
Fail(r) ==
    /\ request[r].pc \in {"known", "begun", "appended"}
    /\ Over(r)
    /\ UNCHANGED <<generation, owner, live, expired, events, told, made>>

(* The credential has been ended since it was authenticated.               *)
Refuse(r) ==
    /\ \/ At(r, "begun") /\ holder = Nobody /\ ~Known(r)
       \/ At(r, "known") /\ request[r].op = "rotated" /\ ~Resolves(request[r].by, expired)
    /\ Over(r)
    /\ UNCHANGED <<generation, owner, live, expired, events, told, made>>

(* What the transaction ends: a token is named with its generation.        *)
Replaced(r) == IF request[r].op = "rotated" THEN Token(request[r].of) ELSE request[r].of

Event(r) == [at |-> Cardinality(events) + 1, op |-> request[r].op, by |-> request[r].by,
             of |-> Replaced(r)]

Record(r) ==
    /\ At(r, "appended")
    /\ events' = events \cup {Event(r)}
    /\ Over(r)
    /\ UNCHANGED <<owner, expired, made>>

CommitWrite(r) ==
    /\ request[r].op = "write" /\ Record(r)
    /\ UNCHANGED <<generation, live, told>>

CommitSignIn(r) ==
    /\ request[r].op = "signedIn" /\ Record(r)
    /\ live' = live \cup {request[r].of}
    /\ UNCHANGED <<generation, told>>

(* Mutated form of CommitSignOut: the browser forgets, the row does not.   *)
CommitSignOutForgetting(r) ==
    /\ request[r].op = "signedOut" /\ Record(r)
    /\ told' = told \cup {request[r].of}
    /\ UNCHANGED <<generation, live>>

CommitSignOut(r) ==
    /\ request[r].op = "signedOut" /\ Record(r)
    /\ live' = live \ {request[r].of}
    /\ told' = told \cup {request[r].of}
    /\ UNCHANGED generation

SessionsOf(i) == {s \in live : owner[s] = i}

(* Mutated form of CommitRotate: the sessions go on.                       *)
CommitRotateTokenOnly(r) ==
    /\ request[r].op = "rotated" /\ Record(r)
    /\ generation' = [generation EXCEPT ![request[r].of] = @ + 1]
    /\ UNCHANGED <<live, told>>

(* The token is replaced and the sessions that have not expired end.       *)
CommitRotate(r) ==
    /\ request[r].op = "rotated" /\ Record(r)
    /\ generation' = [generation EXCEPT ![request[r].of] = @ + 1]
    /\ live' = live \ (SessionsOf(request[r].of) \ request[r].late)
    /\ UNCHANGED told

Expire(c) ==
    /\ Cardinality(expired) < MaxExpired
    /\ c \in Accepted \ expired
    /\ expired' = expired \cup {c}
    /\ UNCHANGED <<generation, owner, live, holder, request, events, told, made>>

Init ==
    /\ generation = [i \in Identities |-> 1]
    /\ owner = [s \in Sessions |-> Nobody]
    /\ live = {} /\ expired = {} /\ holder = Nobody
    /\ request = [r \in Requests |-> Idle]
    /\ events = {} /\ told = {} /\ made = 0

Begin(r) ==
    \/ BeginWrite(r) \/ BeginSignOut(r) \/ KeepsToken(r)
    \/ \E i \in Identities : BeginRotate(r, i)

Commit(r) == CommitWrite(r) \/ CommitSignIn(r) \/ CommitSignOut(r) \/ CommitRotate(r)

Next ==
    \/ \E r \in Requests :
          \/ \E c \in Accepted, op \in {"write", "signedOut", "rotated"} : Authenticate(r, c, op)
          \/ \E s \in Sessions, i \in Identities : BeginSignIn(r, s, i)
          \/ Begin(r) \/ Append(r) \/ Refuse(r) \/ Commit(r) \/ Fail(r)
    \/ \E c \in Accepted : Expire(c)

Spec == Init /\ [][Next]_vars

(* The process goes on with every request, and PostgreSQL with every       *)
(* transaction that waits for no lock.                                     *)
FairSpec ==
    /\ Spec
    /\ \A r \in Requests : WF_vars(Begin(r) \/ Append(r) \/ Refuse(r) \/ Commit(r))

-----------------------------------------------------------------------------
(* Every variable has its type.                                            *)
TypeOK ==
    /\ generation \in [Identities -> Nat \ {0}]
    /\ owner \in [Sessions -> Identities \cup {Nobody}]
    /\ live \subseteq {s \in Sessions : owner[s] # Nobody}
    /\ expired \subseteq Credentials
    /\ holder \in Requests \cup {Nobody}
    /\ \A r \in Requests : holder = r <=> At(r, "appended")
    /\ \A e \in events : e.at \in 1 .. Cardinality(events) /\ e.by \in Credentials
    /\ told \subseteq Sessions
    /\ made \in 0 .. MaxRequests

(* The credentials an event of the chain ends: a sign-out its session, a   *)
(* rotation the token it replaces and the sessions of its identity that    *)
(* were signed in before it.  A session that has expired is left as it is: *)
(* nothing accepts it but a transaction that began before it expired.      *)
SignedInBefore(s, e) == \E d \in events : d.op = "signedIn" /\ d.of = s /\ d.at < e.at

EndedBy(e) ==
    CASE e.op = "signedOut" -> {e.of}
      [] e.op = "rotated" ->
           {e.of} \cup {s \in Sessions \ expired : owner[s] = e.of[1] /\ SignedInBefore(s, e)}
      [] OTHER -> {}

(* Nothing is recorded under a credential after the event that ended it,   *)
(* however long ago the request was authenticated.                         *)
NothingAfterItsEnd ==
    \A e \in events : \A f \in events : f.at > e.at => f.by \notin EndedBy(e)

(* "A rotation that leaves the identity's live sessions running has not    *)
(* revoked anything": what the chain says has ended is not accepted.       *)
EndedIsRefused == \A e \in events : \A c \in EndedBy(e) : ~Resolves(c, expired)

(* Who was told that a session has ended was told the truth, then and for  *)
(* ever after.                                                             *)
ToldIsTrue == told \cap live = {}

(* No request waits for ever: the audit lock is given back.                *)
EveryRequestEnds == \A r \in Requests : ~At(r, "idle") ~> At(r, "idle")
=============================================================================
