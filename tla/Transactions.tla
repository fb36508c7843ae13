---------------------------- MODULE Transactions ----------------------------
(***************************************************************************)
(* The transactions of API and worker as the database sees them: which     *)
(* rows and advisory locks each takes, in which order, and the audit event *)
(* it appends.  append_openppwr_audit_event takes the audit lock, links    *)
(* its event to the newest one and keeps the lock until the transaction    *)
(* ends.                                                                   *)
(*                                                                         *)
(* One tenant, one piece of evidence with its job, two packagings with a   *)
(* gap each.  A row that two transactions only share (the references of an *)
(* insert) is no lock here: nobody but the reset waits for it.             *)
(***************************************************************************)
EXTENDS Naturals, Sequences, FiniteSets, FiniteSetsExt

CONSTANTS
    Clients,          \* database sessions
    Programs,         \* the transactions that are run
    MaxTransactions

Free == "free"

Resources == {"review", "job", "evidence", "gap1", "gap2", "packaging", "audit"}

-----------------------------------------------------------------------------
(* What each transaction takes, in order.  "audit" is the append.          *)
RunAssessments == <<"review", "gap1", "audit", "gap2", "audit">>

(* Mutated form of AssignGap: the row before the lock.                     *)
AssignGapRowFirst == <<"gap1", "review", "audit">>

AssignGap == <<"review", "gap1", "audit">>
RemediateGap == <<"review", "gap1", "packaging", "audit">>
Freeze == <<"review", "audit">>
ReviewEvidence == <<"evidence", "audit">>
Scan == <<"job", "evidence", "audit", "audit">>
Requeue == <<"job", "evidence", "audit">>
CompleteRetention == <<"evidence", "audit">>
RecordOnly == <<"audit">>
Reset == <<"gap1", "gap2", "job", "evidence", "packaging", "audit">>

Steps ==
    [RunAssessments |-> RunAssessments, AssignGap |-> AssignGap,
     RemediateGap |-> RemediateGap, Freeze |-> Freeze, ReviewEvidence |-> ReviewEvidence,
     Scan |-> Scan, Requeue |-> Requeue, CompleteRetention |-> CompleteRetention,
     RecordOnly |-> RecordOnly, Reset |-> Reset]

TransactionsAssumption ==
    Free \notin Clients /\ Programs \subseteq DOMAIN Steps /\ MaxTransactions \in Nat

(* The claim of a scan job skips a row that is locked.                     *)
Skips == {"Scan"}

VARIABLES
    program,   \* what each session runs, if anything
    at,        \* its next step
    holder,    \* who holds each lock
    events,    \* audit_events: committed and not
    sequence,  \* the sequence of the table; a rollback does not give back
    begun

vars == <<program, at, holder, events, sequence, begun>>

Idle(c) == program[c] = "none"
Finished(c) == ~Idle(c) /\ at[c] > Len(Steps[program[c]])
Wanted(c) == Steps[program[c]][at[c]]
Working(c) == ~Idle(c) /\ ~Finished(c)

Available(c, r) == holder[r] \in {Free, c}

Begin(c, p) ==
    /\ Idle(c) /\ begun < MaxTransactions
    /\ program' = [program EXCEPT ![c] = p]
    /\ begun' = begun + 1
    /\ IF p \in Skips
       THEN /\ holder[Steps[p][1]] = Free
            /\ holder' = [holder EXCEPT ![Steps[p][1]] = c]
            /\ at' = [at EXCEPT ![c] = 2]
       ELSE UNCHANGED <<holder, at>>
    /\ UNCHANGED <<events, sequence>>

Take(c) ==
    /\ Working(c) /\ Wanted(c) # "audit"
    /\ Available(c, Wanted(c))
    /\ holder' = [holder EXCEPT ![Wanted(c)] = c]
    /\ at' = [at EXCEPT ![c] = @ + 1]
    /\ UNCHANGED <<program, events, sequence, begun>>

(* openppwr_audit_chain_head: the newest event the session sees.           *)
NewestSeen(c) == Max({e.id : e \in {e \in events : e.committed \/ e.by = c}} \cup {0})

Event(c) == [id |-> sequence + 1, previous |-> NewestSeen(c), by |-> c, committed |-> FALSE]

(* Mutated form of AppendEvent: the lock is not taken.                          *)
AppendEventUnlocked(c) ==
    /\ Working(c) /\ Wanted(c) = "audit"
    /\ events' = events \cup {Event(c)}
    /\ sequence' = sequence + 1
    /\ at' = [at EXCEPT ![c] = @ + 1]
    /\ UNCHANGED <<program, holder, begun>>

AppendEvent(c) ==
    /\ Working(c) /\ Wanted(c) = "audit"
    /\ Available(c, "audit")
    /\ holder' = [holder EXCEPT !["audit"] = c]
    /\ events' = events \cup {Event(c)}
    /\ sequence' = sequence + 1
    /\ at' = [at EXCEPT ![c] = @ + 1]
    /\ UNCHANGED <<program, begun>>

Ends(c) ==
    /\ program' = [program EXCEPT ![c] = "none"]
    /\ at' = [at EXCEPT ![c] = 1]
    /\ holder' = [r \in Resources |-> IF holder[r] = c THEN Free ELSE holder[r]]
    /\ UNCHANGED <<sequence, begun>>

Commit(c) ==
    /\ Finished(c)
    /\ events' = {IF e.by = c THEN [e EXCEPT !.committed = TRUE] ELSE e : e \in events}
    /\ Ends(c)

(* Mutated form of Rollback: a lock of the session, not the transaction.   *)
RollbackHolding(c) ==
    /\ ~Idle(c)
    /\ events' = {e \in events : e.by # c \/ e.committed}
    /\ program' = [program EXCEPT ![c] = "none"]
    /\ at' = [at EXCEPT ![c] = 1]
    /\ UNCHANGED <<holder, sequence, begun>>

(* A statement fails, the request times out or the process dies.           *)
Rollback(c) ==
    /\ ~Idle(c)
    /\ events' = {e \in events : e.by # c \/ e.committed}
    /\ Ends(c)

Init ==
    /\ program = [c \in Clients |-> "none"]
    /\ at = [c \in Clients |-> 1]
    /\ holder = [r \in Resources |-> Free]
    /\ events = {} /\ sequence = 0 /\ begun = 0

Session(c) ==
    \/ \E p \in Programs : Begin(c, p)
    \/ Take(c) \/ AppendEvent(c) \/ Commit(c) \/ Rollback(c)

Next == \E c \in Clients : Session(c)

Spec == Init /\ [][Next]_vars

-----------------------------------------------------------------------------
(* Every variable has its type; who is idle holds nothing.                 *)
TypeOK ==
    /\ program \in [Clients -> DOMAIN Steps \cup {"none"}]
    /\ at \in [Clients -> Nat \ {0}]
    /\ holder \in [Resources -> Clients \cup {Free}]
    /\ sequence \in Nat
    /\ events \in SUBSET [id : 1 .. sequence, previous : Nat, by : Clients, committed : BOOLEAN]
    /\ \A e \in events : e.previous < e.id
    /\ begun \in 0 .. MaxTransactions
    /\ \A r \in Resources : holder[r] # Free => ~Idle(holder[r])
    /\ \A e \in events : ~e.committed => ~Idle(e.by)

Committed == {e \in events : e.committed}
Before(e) == Max({d.id : d \in {d \in Committed : d.id < e.id}} \cup {0})

(* verifyAuditChain walks the committed events in the order of their       *)
(* sequence and finds each linked to the one before, whenever it reads and *)
(* whatever was rolled back.                                               *)
ChainVerifies == \A e \in Committed : e.previous = Before(e)

WaitsFor(c, d) == c # d /\ Working(c) /\ holder[Wanted(c)] = d

(* "The order matches every other holder and the pair cannot deadlock": no *)
(* sessions wait for each other in a circle, unless one of them resets the *)
(* demonstration, which takes the gaps without the review lock.            *)
NoWaitCycle ==
    \A waiting \in (SUBSET {c \in Clients : program[c] # "Reset"}) \ {{}} :
        \E c \in waiting : \A d \in waiting : ~WaitsFor(c, d)
=============================================================================
