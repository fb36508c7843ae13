----------------------------- MODULE MCServices -----------------------------
(***************************************************************************)
(* Parts of the services that share no state, explored side by side: the   *)
(* part of a behaviour is chosen at its start and takes all of its steps.  *)
(***************************************************************************)
EXTENDS Naturals, Sequences, FiniteSets

CONSTANTS
    Clients, Keys, MaxFaults,                                        \* Imports
    MaxAnswer, MaxResponse, MaxDisturbances,                         \* Scanner
    Rules, Callers, Unknown, Retain, MaxRequests, MaxTime,           \* RateLimit
    Recipients, MaxAhead,                                            \* Smtp
    MaxInFlight, PerHour, Hour, Minute, MaxEvents, MaxClock,         \* Alerts
    Slots, Size                                                      \* Api

VARIABLES
    part,
    stored, runs, asked, at, known, todo, inserted, answer, faults,
    task, place, file, bytes, fits, written, response, peer, outcome, disturbed,
    time, buckets, requests, late,
    mode, user, stage, secure, left, wire, buffer, far, fate, inClear, heardClear, took,
    settings, clock, considered, counters, underway, emailWindow, noticedAt, mailed, suppressions,
    posture, life, code, asks, reached, holds, done, replied, strays

-----------------------------------------------------------------------------
(* Imports: a first delivery, a second one that needs its catalogue and    *)
(* lists the same packaging the other way round, one that is malformed,    *)
(* and one whose bill of materials repeats a line.                         *)

Supplier == <<"suppliers", "s">>
Material == <<"materials", "m">>
Component == <<"components", "c">>

Item(id, refers) == [id |-> id, valid |-> TRUE, refers |-> refers]
Packaging(id, bom, lines) ==
    [id |-> id, valid |-> TRUE, refers |-> {Supplier, Component}, bom |-> bom, lines |-> lines]

First == [schema |-> TRUE,
          catalogue |-> <<Item(Supplier, {}), Item(Material, {}),
                          Item(Component, {Supplier, Material})>>,
          packaging |-> <<Packaging("p", "b", <<"c">>), Packaging("q", "d", <<"c">>)>>]
Second == [First EXCEPT !.catalogue = <<>>,
                        !.packaging = <<First.packaging[2], First.packaging[1]>>]
Malformed == [First EXCEPT !.packaging[2].valid = FALSE]
Repeating == [First EXCEPT !.packaging = <<Packaging("r", "e", <<"c", "c">>)>>]

I == INSTANCE Imports WITH Files <- {First, Second, Malformed, Repeating}
RowsHaveTheirRun == I!RowsHaveTheirRun
RetriesEnd == I!RetriesEnd

-----------------------------------------------------------------------------
S == INSTANCE Scanner
VerdictIsTheWholeAnswer == S!VerdictIsTheWholeAnswer

(* Two rules as the login has them, of one request each: callers that name *)
(* an address and callers that do not.                                     *)
Rule == [window |-> 2, max |-> 1]
LoginRules == <<Rule, Rule>>
LoginCallers == {<<"ip", "address">>, <<"ip", Unknown>>}
R == INSTANCE RateLimit
TwiceTheLimitAtMost == R!TwiceTheLimitAtMost

M == INSTANCE Smtp
SubmissionIsHonest == M!SubmissionIsHonest

A == INSTANCE Alerts
AlertsAreAccounted == A!AlertsAreAccounted

-----------------------------------------------------------------------------
(* Api: one slot asks for every route with every role that differs in it   *)
(* and everything that can be wrong with it, the other probes readiness.   *)
Posture(demo, auth, maintenance, rotation, patient, declared) ==
    [demo |-> demo, auth |-> auth, maintenance |-> maintenance, rotation |-> rotation,
     patient |-> patient, mistaken |-> FALSE, declared |-> declared, applied |-> 1]
Demonstration == Posture(TRUE, TRUE, TRUE, FALSE, FALSE, 1)
Production == Posture(FALSE, FALSE, FALSE, TRUE, TRUE, 0)
Misdeclared == Posture(TRUE, FALSE, FALSE, FALSE, FALSE, 1)

Routes == INSTANCE Routes
Tests(route) == {g.test : g \in {Routes!App[route][i] : i \in {j \in DOMAIN Routes!App[route] :
                                                          Routes!App[route][j].kind = "guard"}}}
Wrong(route) ==
    {"nothing"} \cup (Tests(route) \cap {"origin", "credential", "body", "import", "id", "page", "resource", "decision", "secret"})
    \cup (IF Tests(route) \cap {"own", "rotation"} # {} THEN {"another's"} ELSE {})
Asks(route, role, bad) == [route |-> route, role |-> role, bad |-> bad, session |-> role = "supplier_user"]
Everything ==
    UNION {{Asks(route, role, bad) : bad \in Wrong(route),
                role \in {"tenant_admin", "read_only_auditor", "supplier_user", "unknown"}} : route \in Routes!Routes}
Asked == [s \in Slots |-> IF s = "caller" THEN Everything ELSE {Asks("ready", "tenant_admin", "nothing")}]
Declarations == {Demonstration, Production, Misdeclared}

W == INSTANCE Api WITH stage <- reached, Requests <- Asked, Postures <- Declarations

(* No input and no role reaches a query before every guard of its route,   *)
(* and an answer says what happened, whatever failed on the way.           *)
RequestsAreSound == W!NothingUnvetted /\ W!AnswersAreTrue

-----------------------------------------------------------------------------
ASSUME ServicesAssumption ==
    /\ I!ImportsAssumption /\ S!ScannerAssumption /\ R!RateLimitAssumption
    /\ M!SmtpAssumption /\ A!AlertsAssumption /\ W!AppAssumption

(* What the services wait for ends: a scan or a probe of the scanner, the  *)
(* submission of a mail, the deliveries that hold an alert's slots, a      *)
(* probe of the API, its callers' wait for a client of a pool where a      *)
(* limit is configured, and the end of the process after a signal.         *)
Waits == S!Called \/ M!InSession \/ A!Clogged \/ W!Stalled
WaitsEnd == []<>~Waits

-----------------------------------------------------------------------------
imports == <<stored, runs, asked, at, known, todo, inserted, answer, faults>>
scanner == <<task, place, file, bytes, fits, written, response, peer, outcome, disturbed>>
limiter == <<time, buckets, requests, late>>
smtp == <<mode, user, stage, secure, left, wire, buffer, far, fate, inClear, heardClear, took>>
alerts == <<settings, clock, considered, counters, underway, emailWindow, noticedAt, mailed, suppressions>>
api == <<posture, life, code, asks, reached, holds, done, replied, strays>>
vars == <<part, imports, scanner, limiter, smtp, alerts, api>>

Init ==
    /\ part \in {"imports", "scanner", "limiter", "smtp", "alerts", "api"}
    /\ I!Init /\ S!Init /\ R!Init /\ M!Init /\ A!Init /\ W!Init
    /\ part # "api" => posture = Production /\ life = "starting"

ImportsStep == part = "imports" /\ UNCHANGED <<part, scanner, limiter, smtp, alerts, api>>
ScannerStep == part = "scanner" /\ UNCHANGED <<part, imports, limiter, smtp, alerts, api>>
LimiterStep == part = "limiter" /\ UNCHANGED <<part, imports, scanner, smtp, alerts, api>>
SmtpStep == part = "smtp" /\ UNCHANGED <<part, imports, scanner, limiter, alerts, api>>
AlertsStep == part = "alerts" /\ UNCHANGED <<part, imports, scanner, limiter, smtp, api>>
ApiStep == part = "api" /\ UNCHANGED <<part, imports, scanner, limiter, smtp, alerts>>

Next ==
    \/ ImportsStep /\ I!Next
    \/ ScannerStep /\ S!Next
    \/ LimiterStep /\ R!Next
    \/ SmtpStep /\ M!Next
    \/ AlertsStep /\ A!Next
    \/ ApiStep /\ W!Next

(* The modules say why the code justifies their fairness.  It is stated    *)
(* once for several parts where it can be: only one of them takes steps.   *)
Works == \/ ScannerStep /\ S!Step
         \/ SmtpStep /\ M!Step
         \/ ApiStep /\ W!ForcedExit
GivesUp(s) == ApiStep /\ (W!ProbeTimeout(s) \/ W!CheckoutTimeout(s))
Spec ==
    /\ Init /\ [][Next]_vars
    /\ \A c \in Clients : WF_vars(ImportsStep /\ I!Step(c)) /\ SF_vars(ImportsStep /\ I!Insert(c))
    /\ \A t \in {"webhook", "email"} : WF_vars(AlertsStep /\ A!Timeout(t))
    /\ \A s \in Slots : WF_vars(GivesUp(s))
    /\ WF_vars(Works)
=============================================================================
