------------------------------ MODULE Workbench ------------------------------
(***************************************************************************)
(* The workbench in a browser tab: signing in, the operations of its       *)
(* controls, the evidence collection it holds page by page, and signing    *)
(* out.  Each operation is a request with the credential of the moment it  *)
(* was started; the server answers and the answer lands in the tab later,  *)
(* whatever the tab has become.  One operation of the workflow runs at a   *)
(* time, but signing in and out are no such operations, and the buttons of *)
(* the catalogue do not ask whether one runs.                              *)
(***************************************************************************)
EXTENDS Naturals, Sequences, FiniteSets

CONSTANTS
    PageSize,       \* rows of a page
    Bearers,        \* roles whose bearer token somebody has
    Accounts,       \* roles with an account and a password
    MaxRows,        \* evidence rows of the tenant
    MaxSessions,    \* sign-ins with a password
    MaxFlight       \* requests under way

VARIABLES
    rows,           \* on the server: [own, requirement, version], by creation
    sessions,       \* credentials the server honours
    minted,         \* sessions begun
    token,          \* the credential in the tab
    identity,       \* whom the tab shows as signed in
    signInState,
    busy,           \* whether an operation of the workflow runs
    flight,         \* requests: [op, by, offset, answer]
    evidence,       \* the rows held
    evidenceMore,   \* whether the server said that rows remain
    outOf,          \* how many there were for whom, when it did
    others,         \* whether anything else of the tenant is on the screen
    signedOut,      \* signed out, and nothing entered since
    overtaken,      \* an operation was under way when a sign-out ended
    unlocked        \* rows were asked for, or changed, when an operation beside it unlocked the controls

workbenchVars == <<rows, sessions, minted, token, identity, signInState, busy, flight, evidence,
                   evidenceMore, outOf, others, signedOut, overtaken, unlocked>>

Nobody == [role |-> "none", n |-> 0]
Static == {[role |-> r, n |-> 0] : r \in Bearers}
NoAnswer == [status |-> "none", ids |-> <<>>, more |-> FALSE, total |-> 0]
NoCount == [by |-> Nobody, total |-> 0]
WorkbenchAssumption ==
    /\ Bearers \cup Accounts \subseteq {"manager", "supplier"}
    /\ {PageSize, MaxRows, MaxSessions, MaxFlight} \subseteq Nat \ {0}

-----------------------------------------------------------------------------
(* Pages.                                                                  *)

Visible(role) ==        \* the rows it may see, in their order
    LET seen == {i \in DOMAIN rows : role = "manager" \/ rows[i].own}
    IN [k \in 1..Cardinality(seen) |-> CHOOSE i \in seen : Cardinality({j \in seen : j <= i}) = k]
Page(view, offset) ==
    SubSeq(view, offset + 1, IF offset + PageSize < Len(view) THEN offset + PageSize ELSE Len(view))
PagePathOfPages(held) == Len(held) + PageSize
PagePath(held) == Len(held)                  \* the offset: the rows already held
AppendPage(existing, ids, by) == existing \o [i \in 1..Len(ids) |-> [id |-> ids[i], by |-> by, current |-> TRUE]]

Newest(held, i) ==
    \A j \in 1..Len(held) : rows[held[j].id].requirement = rows[held[i].id].requirement
                            => rows[held[j].id].version <= rows[held[i].id].version
WithCurrencyOfPage(held) ==
    [i \in 1..Len(held) |->
        [held[i] EXCEPT !.current = IF i + PageSize > Len(held) THEN Newest(held, i) ELSE held[i].current]]
WithCurrency(held) == [i \in 1..Len(held) |-> [held[i] EXCEPT !.current = Newest(held, i)]]

-----------------------------------------------------------------------------
(* Requests.                                                               *)

Request(op, by, offset) == [op |-> op, by |-> by, offset |-> offset, answer |-> NoAnswer]
Sent(request) == Cardinality(flight) < MaxFlight /\ flight' = flight \cup {request}
Unchanged == UNCHANGED <<rows, sessions, minted>>
Screen == <<evidence, evidenceMore, outOf, others>>

Honoured(by) == by \in sessions
(* The server: what a request with an honoured credential is answered.  An *)
(* upload adds a version, signing out ends a session.                      *)
Answer(request) ==
    /\ request \in flight /\ request.answer = NoAnswer
    /\ LET view == Visible(request.by.role)
           refused == ~Honoured(request.by) /\ request.op # "login"
           answer == CASE refused -> [NoAnswer EXCEPT !.status = "401"]
                       [] ~refused /\ request.op \notin {"evidence", "more"} -> [NoAnswer EXCEPT !.status = "ok"]
                       [] OTHER -> [status |-> "ok", ids |-> Page(view, request.offset),
                                    more |-> Len(view) > request.offset + PageSize, total |-> Len(view)]
       IN \/ /\ flight' = (flight \ {request}) \cup {[request EXCEPT !.answer = answer]}
             /\ sessions' = CASE request.op = "login" -> sessions \cup {request.by}
                              [] request.op = "logout" /\ request.by.n > 0 -> sessions \ {request.by}
                              [] OTHER -> sessions
             /\ rows' = IF request.op = "upload" /\ ~refused /\ Len(rows) < MaxRows
                        THEN Append(rows, [own |-> request.by.role = "supplier", requirement |-> 1,
                                           version |-> Len(rows) + 1])
                        ELSE rows
          \/ /\ flight' = (flight \ {request})
                     \cup {[request EXCEPT !.answer = [NoAnswer EXCEPT !.status = "unreachable"]]}
             /\ UNCHANGED <<sessions, rows>>
    /\ UNCHANGED <<minted, token, identity, signInState, busy, Screen, signedOut, overtaken, unlocked>>

Arrives ==       \* somebody else's upload
    /\ Len(rows) < MaxRows
    /\ \E own \in BOOLEAN :
           rows' = Append(rows, [own |-> own, requirement |-> 1, version |-> Len(rows) + 1])
    /\ UNCHANGED <<sessions, minted, token, identity, signInState, busy, flight, Screen, signedOut, overtaken, unlocked>>
Expires ==
    /\ \E s \in sessions \ Static : sessions' = sessions \ {s}
    /\ UNCHANGED <<rows, minted, token, identity, signInState, busy, flight, Screen, signedOut, overtaken, unlocked>>

-----------------------------------------------------------------------------
(* Operations of the workflow.  A control of a signed-in user is locked    *)
(* while another operation runs; an operation is done when its last        *)
(* request has landed.                                                     *)

Locked == identity = Nobody \/ busy
Starts(op, offset) ==
    /\ busy' = TRUE
    /\ Sent(Request(op, token, offset))
    /\ Unchanged /\ UNCHANGED <<token, identity, signInState, Screen, signedOut, overtaken, unlocked>>
Act(op, offset) == ~Locked /\ Starts(op, offset)
LoadEvidence == Act("evidence", 0)
LoadMoreBeside == evidence # <<>> /\ evidenceMore /\ Starts("more", PagePath(evidence))
LoadMoreEvidence ==                                   \* under the table, whoever is signed in
    evidence # <<>> /\ evidenceMore /\ ~busy /\ Starts("more", PagePath(evidence))
SubmitEvidence == Act("upload", 0)                    \* as review does, it loads the evidence again
LoadOther == Act("other", 0)                          \* gaps, catalog, dossiers, the audit record
LoadCatalogResource == others /\ Starts("other", 0)    \* the catalogue's counts, which never lock
ResetEnvironment == identity.role = "manager" /\ Act("reset", 0)

(* What lands unlocks the controls, whatever else is still under way.  The *)
(* operations on the rows held never start while locked.                   *)
Locking == {"evidence", "more", "upload", "reset"}
Landed(request, more) ==
    /\ request \in flight /\ request.answer # NoAnswer
    /\ flight' = (flight \ {request}) \cup more
Failed(request) ==          \* a credential that no longer works ends what the tab shows of a sign-in
    /\ IF request.answer.status = "401" THEN identity' = Nobody /\ signInState' = "error"
       ELSE UNCHANGED <<identity, signInState>>
    /\ UNCHANGED Screen
Shows(request) ==
    LET a == request.answer
        page == AppendPage(IF request.op = "more" THEN evidence ELSE <<>>, a.ids, request.by)
    IN CASE request.op \in {"evidence", "more"} ->
               /\ evidence' = WithCurrency(page)
               /\ evidenceMore' = a.more /\ outOf' = [by |-> request.by, total |-> a.total]
               /\ UNCHANGED others
         [] request.op = "other" -> others' = TRUE /\ UNCHANGED <<evidence, evidenceMore, outOf>>
         [] request.op = "reset" -> evidence' = <<>> /\ evidenceMore' = FALSE /\ outOf' = NoCount /\ others' = FALSE
         [] OTHER -> UNCHANGED Screen
Lands ==
    \E request \in flight :
        /\ request.op \in {"evidence", "more", "upload", "other", "reset"}
        /\ LET again == request.op = "upload" /\ request.answer.status = "ok"
           IN /\ Landed(request, IF again THEN {Request("evidence", request.by, 0)} ELSE {})
              /\ busy' = again
        /\ IF request.answer.status = "ok" THEN Shows(request) /\ UNCHANGED <<identity, signInState>>
           ELSE Failed(request)
        /\ unlocked' = (unlocked \/ (request.op = "other" /\ \E r \in flight' : r.op \in Locking))
        /\ Unchanged /\ UNCHANGED <<token, signedOut, overtaken>>

-----------------------------------------------------------------------------
(* Signing in, with a credential or with a password.  The Enter key starts *)
(* another attempt while one is being verified.                            *)

EditToken ==
    /\ \E t \in (Static \cup {Nobody}) \ {token} : token' = t
    /\ identity' = Nobody /\ signInState' = "idle" /\ signedOut' = FALSE
    /\ Unchanged /\ UNCHANGED <<busy, flight, Screen, overtaken, unlocked>>
SignIn ==
    /\ token # Nobody
    /\ signInState' = "verifying"
    /\ Sent(Request("session", token, 0))
    /\ Unchanged /\ UNCHANGED <<token, identity, busy, Screen, signedOut, overtaken, unlocked>>
SignInWithPassword ==
    /\ minted < MaxSessions /\ minted' = minted + 1
    /\ \E role \in Accounts : Sent(Request("login", [role |-> role, n |-> minted'], 0))
    /\ signInState' = "verifying" /\ signedOut' = FALSE
    /\ UNCHANGED <<rows, sessions, token, identity, busy, Screen, overtaken, unlocked>>

AdoptIdentity(request) == identity' = request.by /\ signInState' = "signedIn" /\ UNCHANGED token
SignInLands ==
    \E request \in flight :
        /\ request.op \in {"session", "login"}
        /\ IF request.answer.status # "ok"
           THEN /\ Landed(request, {})
                /\ identity' = Nobody /\ signInState' = "error" /\ UNCHANGED token
           ELSE IF request.op = "login"
                THEN /\ Landed(request, {Request("session", request.by, 0)})
                     /\ token' = request.by /\ UNCHANGED <<identity, signInState>>
                ELSE Landed(request, {}) /\ AdoptIdentity(request)
        /\ Unchanged /\ UNCHANGED <<busy, Screen, signedOut, overtaken, unlocked>>

-----------------------------------------------------------------------------
(* Signing out asks the server to end the session and clears the tab       *)
(* whatever it answers.                                                    *)

SignOut ==
    /\ ~Locked
    /\ Sent(Request("logout", token, 0))
    /\ Unchanged /\ UNCHANGED <<token, identity, signInState, busy, Screen, signedOut, overtaken, unlocked>>
ClearWorkspace == evidence' = <<>> /\ evidenceMore' = FALSE /\ outOf' = NoCount /\ others' = FALSE
SignOutLands ==
    \E request \in flight :
        /\ request.op = "logout" /\ Landed(request, {})
        /\ token' = Nobody /\ identity' = Nobody /\ signInState' = "idle"
        /\ ClearWorkspace
        /\ signedOut' = TRUE /\ overtaken' = (overtaken \/ flight # {request})
        /\ Unchanged /\ UNCHANGED <<busy, unlocked>>

-----------------------------------------------------------------------------
Init ==
    /\ rows = <<[own |-> TRUE, requirement |-> 1, version |-> 1], [own |-> FALSE, requirement |-> 2, version |-> 2]>>
    /\ sessions = Static /\ minted = 0
    /\ token = Nobody /\ identity = Nobody /\ signInState = "idle" /\ busy = FALSE /\ flight = {}
    /\ evidence = <<>> /\ evidenceMore = FALSE /\ outOf = NoCount /\ others = FALSE
    /\ signedOut = FALSE /\ overtaken = FALSE /\ unlocked = FALSE

Next ==
    \/ \E request \in flight : Answer(request)
    \/ Arrives \/ Expires
    \/ LoadEvidence \/ LoadMoreEvidence \/ SubmitEvidence \/ LoadOther \/ LoadCatalogResource
    \/ ResetEnvironment \/ Lands
    \/ EditToken \/ SignIn \/ SignInWithPassword \/ SignInLands \/ SignOut \/ SignOutLands

Spec == Init /\ [][Next]_workbenchVars

-----------------------------------------------------------------------------
(* The rows loaded under one credential, page after page and around        *)
(* uploads of the tab and of others, are the first rows of what that       *)
(* credential may see, none missing and none twice; a row reads current    *)
(* exactly if no held row of its requirement is newer, and rows are said   *)
(* to remain exactly if some did.  After a sign-out nothing is on the      *)
(* screen.  Two histories are excepted.  If an operation was still under   *)
(* way when the sign-out ended, its answer lands on the empty screen.  And *)
(* a button of the catalogue does not ask for the lock but releases it: if *)
(* it did while rows were asked for, they may be asked for twice from the  *)
(* same offset, and stand twice on the screen.                             *)
PagesJoin ==
    (\A i \in 1..Len(evidence) : evidence[i].by = outOf.by) =>
        \A i \in 1..Len(evidence) :
            /\ i \in DOMAIN Visible(evidence[i].by.role) /\ evidence[i].id = Visible(evidence[i].by.role)[i]
            /\ evidence[i].current = Newest(evidence, i)
            /\ evidenceMore = (Len(evidence) < outOf.total)
NothingStays == signedOut => evidence = <<>> /\ ~others
ScreenIsTrue == ~overtaken => (~unlocked => PagesJoin) /\ NothingStays
=============================================================================
