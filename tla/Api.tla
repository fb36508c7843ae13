--------------------------------- MODULE Api ---------------------------------
(***************************************************************************)
(* The HTTP service at work: requests on their way through the stages of   *)
(* Routes, the clients of the database pools they check out, the readiness *)
(* probe with its deadline, start and shutdown.                            *)
(***************************************************************************)
EXTENDS Routes, FiniteSets, FiniteSetsExt

CONSTANTS
    Slots,        \* the connections of callers, one request each
    Requests,     \* what the caller of each slot may ask
    Postures,     \* what the deployment's environment may declare
    Size          \* clients of a pool

VARIABLES
    posture,      \* which credentials are loaded and whether the demonstration is on
    life,         \* starting, listening, closing, ending or exited
    code,         \* the exit code
    asks,         \* the request of a slot
    stage,        \* the stage it has reached
    holds,        \* the pool whose client it holds
    done,         \* what it has committed
    replied,      \* the status it was answered with
    strays        \* queries of probes that were given up: waiting, or with a client

apiVars == <<posture, life, code, asks, stage, holds, done, replied, strays>>

Nobody == [route |-> "none", role |-> "none", bad |-> "nothing", session |-> FALSE]
Pools == {"request", "auth", "maintenance", "credential"}

(* A request: what is asked, by which role, with or without a session, and *)
(* the one thing that is wrong with it.                                    *)
AppAssumption ==
    /\ RegistryIsSound
    /\ Size \in Nat \ {0}
    /\ \A s \in Slots : \A q \in Requests[s] : q.route \in Routes

Loaded(pool) == CASE pool = "request" -> TRUE
                  [] pool = "auth" -> posture.auth
                  [] pool = "maintenance" -> posture.maintenance
                  [] pool = "credential" -> posture.rotation \/ posture.auth

Passes(g, q) ==
    CASE g.test = "permission" -> \E p \in g.of : IsAllowed(q.role, p)
      [] g.test = "own" -> /\ \E p \in g.of : IsAllowed(q.role, p)
                           /\ q.role = "supplier_user" => q.bad # "another's"
      [] g.test = "rotation" -> q.bad # "another's" \/ \E p \in g.of : IsAllowed(q.role, p)
      [] g.test = "identity" -> q.role # "unknown"
      [] g.test = "session" -> ~(q.session /\ ~posture.demo)
      [] g.test = "has a session" -> q.session
      [] g.test = "demo" -> posture.demo
      [] g.test = "pool" -> \A p \in g.of : Loaded(p)
      [] OTHER -> q.bad # g.test

(* The stages a request runs through without waiting end at a query, at a  *)
(* guard that refuses it or at the answer.                                 *)
Halts(q, i) == \/ App[q.route][i].kind # "guard"
               \/ ~Passes(App[q.route][i], q)
NextHalt(q, from) == Min({i \in from..Len(App[q.route]) : Halts(q, i)})

-----------------------------------------------------------------------------
(* Start.                                                                  *)

ForbiddenPrivilegedVariables(p) == IF p.demo THEN {} ELSE {v \in {"auth", "maintenance"} : p[v]}
DemoProfileFinding(p) == p.demo /\ ~p.auth
Unstated == 0            \* a level neither the image nor the database can state
MigrationLevelFinding(p) ==
    CASE Unstated \in {p.applied, p.declared} -> "none"
      [] p.applied < p.declared -> "fatal"
      [] p.applied > p.declared -> "warning"
      [] OTHER -> "none"

Start ==
    /\ life = "starting"
    /\ IF \/ ForbiddenPrivilegedVariables(posture) # {}
          \/ DemoProfileFinding(posture)
          \/ posture.mistaken                \* a URL that connects as another principal, or not at all
          \/ MigrationLevelFinding(posture) = "fatal"
       THEN life' = "exited" /\ code' = 1
       ELSE life' = "listening" /\ UNCHANGED code
    /\ UNCHANGED <<posture, asks, stage, holds, done, replied, strays>>

-----------------------------------------------------------------------------
(* Requests.                                                               *)

Reply(s, status) == replied' = [replied EXCEPT ![s] = status]

(* Runs on from a stage to the next await, or to the answer.               *)
Enter(s, q, from) ==
    LET at == NextHalt(q, from) IN
    /\ stage' = [stage EXCEPT ![s] = at]
    /\ IF App[q.route][at].kind \in {"query", "probe"} THEN UNCHANGED replied
       ELSE Reply(s, App[q.route][at].status)

Arrive(s) ==
    /\ life = "listening"
    /\ asks[s] = Nobody
    /\ \E q \in Requests[s] :
         /\ asks' = [asks EXCEPT ![s] = q]
         /\ Enter(s, q, 1)
    /\ UNCHANGED <<posture, life, code, holds, done, strays>>

At(s) == App[asks[s].route][stage[s]]
Open(s) == asks[s] # Nobody /\ replied[s] = 0 /\ life # "exited"
(* Rotation has a pool of its own, or the one of sign-in.                  *)
PoolOf(pool) == IF pool = "credential" /\ ~posture.rotation THEN "auth" ELSE pool
Held(pool) == Cardinality({s \in Slots : holds[s] = pool})
              + (IF pool = "request" THEN strays.held ELSE 0)
Free(pool) == Held(pool) < Size
Waiting(s) == Open(s) /\ holds[s] = "none"

Checkout(s) ==
    /\ Waiting(s) /\ Free(PoolOf(At(s).pool))
    /\ holds' = [holds EXCEPT ![s] = PoolOf(At(s).pool)]
    /\ UNCHANGED <<posture, life, code, asks, stage, done, replied, strays>>

(* What the answer of the database turns into: one of the outcomes the     *)
(* route expects, or a failure, of which nobody can tell whether the work  *)
(* was committed before it.  The client goes back in either case.          *)
FailureOfReset(q) == CASE q.route = "version" -> 200 [] q.route = "demoReset" -> 404 [] OTHER -> 500
Failure(q) == IF q.route = "version" THEN 200 ELSE 500      \* its applied level is then unknown
Release(s) == holds' = [holds EXCEPT ![s] = "none"]
Commits(s, what) == done' = [done EXCEPT ![s] = @ \cup ({what} \ {"nothing"})]

Answered(s) ==
    /\ Open(s) /\ holds[s] # "none" /\ At(s).kind = "query"
    /\ \E o \in At(s).outcomes :
         /\ Commits(s, o[2])
         /\ IF o[1] = 0 THEN Enter(s, asks[s], stage[s] + 1)
            ELSE Reply(s, o[1]) /\ UNCHANGED stage
    /\ Release(s)
    /\ UNCHANGED <<posture, life, code, asks, strays>>

Fails(s) ==
    /\ Open(s) /\ holds[s] # "none" /\ At(s).kind = "query"
    /\ \E o \in At(s).outcomes : Commits(s, o[2])
    /\ Reply(s, Failure(asks[s])) /\ UNCHANGED stage
    /\ Release(s)
    /\ UNCHANGED <<posture, life, code, asks, strays>>

CheckoutTimeout(s) ==
    /\ Waiting(s) /\ ~posture.patient
    /\ Reply(s, IF At(s).kind = "probe" THEN 503 ELSE Failure(asks[s]))
    /\ UNCHANGED <<posture, life, code, asks, stage, holds, done, strays>>

-----------------------------------------------------------------------------
(* The readiness probe races its query against two seconds.  A query that  *)
(* loses stays where it is: in the pool's queue, or on its client.         *)

Probing(s) == Open(s) /\ At(s).kind = "probe"

ProbeAnswered(s) ==
    /\ Probing(s) /\ holds[s] # "none"
    /\ \E status \in {200, 503} : Reply(s, status)
    /\ Release(s)
    /\ UNCHANGED <<posture, life, code, asks, stage, done, strays>>

ProbeTimeoutOnClient(s) ==
    /\ Probing(s) /\ holds[s] # "none"
    /\ Reply(s, 503) /\ Release(s)
    /\ strays' = [strays EXCEPT !.held = @ + 1]
    /\ UNCHANGED <<posture, life, code, asks, stage, done>>
ProbeTimeout(s) ==
    /\ Probing(s)
    /\ Reply(s, 503) /\ Release(s)
    /\ strays' = IF holds[s] = "none" THEN [strays EXCEPT !.waiting = @ + 1]
                 ELSE [strays EXCEPT !.held = @ + 1]
    /\ UNCHANGED <<posture, life, code, asks, stage, done>>

StrayStarts ==
    /\ strays.waiting > 0 /\ Free("request") /\ life \in {"listening", "closing"}
    /\ strays' = [waiting |-> strays.waiting - 1, held |-> strays.held + 1]
    /\ UNCHANGED <<posture, life, code, asks, stage, holds, done, replied>>

StrayEnds ==
    /\ strays.held > 0 /\ life # "exited"
    /\ strays' = [strays EXCEPT !.held = @ - 1]
    /\ UNCHANGED <<posture, life, code, asks, stage, holds, done, replied>>

-----------------------------------------------------------------------------
(* Shutdown: no new connections, then the end of the request pool, then    *)
(* exit 0; ten seconds after the signal, exit 1.                           *)

Signal ==
    /\ life = "listening"
    /\ life' = "closing"
    /\ UNCHANGED <<posture, code, asks, stage, holds, done, replied, strays>>

Drained == \A s \in Slots : ~Open(s)
ClosedAtOnce ==
    /\ life = "closing" /\ life' = "ending"
    /\ UNCHANGED <<posture, code, asks, stage, holds, done, replied, strays>>
Closed ==
    /\ life = "closing" /\ Drained
    /\ life' = "ending"
    /\ UNCHANGED <<posture, code, asks, stage, holds, done, replied, strays>>

PoolEnded ==
    /\ life = "ending" /\ Held("request") = 0
    /\ life' = "exited" /\ code' = 0
    /\ UNCHANGED <<posture, asks, stage, holds, done, replied, strays>>

ForcedExit ==
    /\ life \in {"closing", "ending"}
    /\ life' = "exited" /\ code' = 1
    /\ UNCHANGED <<posture, asks, stage, holds, done, replied, strays>>

-----------------------------------------------------------------------------
Init ==
    /\ posture \in Postures
    /\ life \in {"starting", "listening"}       \* createApp is called without the checks, too
    /\ code = 2                                \* none yet
    /\ asks = [s \in Slots |-> Nobody]
    /\ stage = [s \in Slots |-> 0]
    /\ holds = [s \in Slots |-> "none"]
    /\ done = [s \in Slots |-> {}]
    /\ replied = [s \in Slots |-> 0]
    /\ strays = [waiting |-> 0, held |-> 0]

Next ==
    \/ Start \/ Signal \/ Closed \/ PoolEnded \/ ForcedExit \/ StrayStarts \/ StrayEnds
    \/ \E s \in Slots : \/ Arrive(s) \/ Checkout(s) \/ Answered(s) \/ Fails(s)
                         \/ CheckoutTimeout(s) \/ ProbeAnswered(s) \/ ProbeTimeout(s)

Spec ==
    /\ Init /\ [][Next]_apiVars /\ WF_apiVars(ForcedExit)
    /\ \A s \in Slots : WF_apiVars(ProbeTimeout(s)) /\ WF_apiVars(CheckoutTimeout(s))

-----------------------------------------------------------------------------
(* Work on behalf of a request: any query but those that resolve its       *)
(* credential and count it.                                                *)
Work(s) == /\ Open(s) /\ At(s).kind = "query" /\ At(s) # Limited
           /\ stage[s] > IF asks[s].route \in DOMAIN Private THEN Len(Authenticated) + 1 ELSE 1
Checks(q) == {i \in DOMAIN App[q.route] : /\ App[q.route][i].kind = "guard"
                                          /\ App[q.route][i].test # "own"}

(* No identifier, page, body or role reaches a query before every guard of *)
(* the route that judges it has passed, wherever in the route it stands    *)
(* (the comment at requireGapId claims this of identifiers).               *)
NothingUnvetted == \A s \in Slots : Work(s) => \A i \in Checks(asks[s]) : Passes(App[asks[s].route][i], asks[s])

Promised ==
    [bootstrap |-> "bootstraps", login |-> "signs in", logout |-> "signs out", rotateCredential |-> "rotates",
     imports |-> "imports", upload |-> "uploads", reviewEvidence |-> "reviews", requeue |-> "requeues",
     runAssessments |-> "assesses", reassessGap |-> "assesses", assignGap |-> "assigns",
     remediateGap |-> "remediates", freezeReview |-> "freezes", generateDossier |-> "generates",
     demoReset |-> "resets"]
SaysNothingChanged == {<<"imports", 200>>, <<"logout", 200>>}

(* An answer says what happened, whatever failed on the way: success only  *)
(* of what is committed, a refusal only when nothing is but the record of  *)
(* a rejected import; it leaves no client checked out, publishes accounts  *)
(* only where they can sign in, and a clean exit has answered everyone.    *)
AnswersAreTrue ==
    /\ \A s \in Slots : replied[s] # 0 =>
         /\ holds[s] = "none"
         /\ (/\ replied[s] < 300 /\ asks[s].route \in DOMAIN Promised
             /\ <<asks[s].route, replied[s]>> \notin SaysNothingChanged)
               => Promised[asks[s].route] \in done[s]
         /\ replied[s] \in 400..499 => done[s] \subseteq {"rejects"}
         /\ (asks[s].route = "demoAccounts" /\ replied[s] = 200) => posture.demo /\ posture.auth
    /\ code = 0 => \A s \in Slots : asks[s] # Nobody => replied[s] # 0

(* The timers bound what the database does not: a probe is answered, a     *)
(* request that waits for a client gives up where a limit is configured,   *)
(* a signalled process exits.  Each slot asks once and no signal is taken  *)
(* back, so that a time when nothing of it waits is enough.                *)
Stalled ==
    \/ \E s \in Slots : Probing(s) \/ (Waiting(s) /\ ~posture.patient)
    \/ life \in {"closing", "ending"}
TimersBound == []<>~Stalled
=============================================================================
