------------------------- MODULE TransactionsProofs -------------------------
(***************************************************************************)
(* Theorems about Transactions, for every number of sessions and of        *)
(* transactions: the audit chain that is committed verifies, and no        *)
(* sessions wait for each other in a circle.                               *)
(***************************************************************************)
EXTENDS MCRecords, Integers, Sequences, WellFoundedInduction, TLAPS

-----------------------------------------------------------------------------
(* Greatest elements.                                                      *)

(* A set of natural numbers that is not empty has a least element.         *)
LEMMA LeastNumber ==
    ASSUME NEW S \in SUBSET Nat, S # {}
    PROVE  \E n \in S : \A m \in S : n <= m
  <1>1. PICK n \in S : \A m \in S : <<m, n>> \notin OpToRel(<, Nat)
    BY WFMin, NatLessThanWellFounded, Zenon
  <1>2. ASSUME NEW m \in S
        PROVE  n <= m
    <2>1. ~(m < n)
      BY <1>1, Zenon DEF OpToRel
    <2>2. QED
      BY <2>1
  <1>3. QED
    BY <1>2

(* One that has a bound has a greatest: the least of its bounds.           *)
LEMMA GreatestNumber ==
    ASSUME NEW S \in SUBSET Nat, NEW b \in Nat, S # {}, \A n \in S : n <= b
    PROVE  \E n \in S : \A m \in S : m <= n
  <1> DEFINE Bounds == {n \in Nat : \A m \in S : m <= n}
  <1>1. PICK n \in Bounds : \A k \in Bounds : n <= k
    <2>1. Bounds \in SUBSET Nat /\ b \in Bounds
      OBVIOUS
    <2>2. QED
      BY <2>1, LeastNumber
  <1>2. CASE n \in S
    BY <1>2
  <1>3. CASE n \notin S
    <2>1. PICK m \in S : m \in Nat /\ m # n /\ m <= n
      BY <1>3
    <2>2. n - 1 \in Bounds
      BY <1>3, <2>1
    <2>3. QED
      BY <1>1, <2>2
  <1>4. QED
    BY <1>2, <1>3

(* Max is the element that no other exceeds.                               *)
LEMMA MaxIs ==
    ASSUME NEW S \in SUBSET Nat, NEW n \in S, \A m \in S : m <= n
    PROVE  T!Max(S) = n
  <1>1. \A x \in S : (\A y \in S : x >= y) <=> x = n
    OBVIOUS
  <1>2. QED
    BY <1>1 DEF T!Max

-----------------------------------------------------------------------------
(* The programs.                                                           *)

(* The programs, spelled out.                                              *)
LEMMA ProgramSteps ==
    /\ DOMAIN T!Steps = {"RunAssessments", "AssignGap", "RemediateGap", "Freeze", "ReviewEvidence",
                       "Scan", "Requeue", "CompleteRetention", "RecordOnly", "Reset"}
    /\ T!Steps["RunAssessments"] = <<"review", "gap1", "audit", "gap2", "audit">>
    /\ T!Steps["AssignGap"] = <<"review", "gap1", "audit">>
    /\ T!Steps["RemediateGap"] = <<"review", "gap1", "packaging", "audit">>
    /\ T!Steps["Freeze"] = <<"review", "audit">>
    /\ T!Steps["ReviewEvidence"] = <<"evidence", "audit">>
    /\ T!Steps["Scan"] = <<"job", "evidence", "audit", "audit">>
    /\ T!Steps["Requeue"] = <<"job", "evidence", "audit">>
    /\ T!Steps["CompleteRetention"] = <<"evidence", "audit">>
    /\ T!Steps["RecordOnly"] = <<"audit">>
    /\ T!Steps["Reset"] = <<"gap1", "gap2", "job", "evidence", "packaging", "audit">>
  BY DEF T!Steps, T!RunAssessments, T!AssignGap, T!RemediateGap, T!Freeze, T!ReviewEvidence, T!Scan,
     T!Requeue, T!CompleteRetention, T!RecordOnly, T!Reset

(* What a program takes is one of the resources.                           *)
LEMMA StepsTakeResources ==
    ASSUME NEW p \in DOMAIN T!Steps
    PROVE  /\ Len(T!Steps[p]) \in Nat \ {0}
           /\ \A i \in 1 .. Len(T!Steps[p]) : T!Steps[p][i] \in T!Resources
  <1> USE ProgramSteps DEF T!Resources
  <1>1. CASE p = "RunAssessments"      BY <1>1
  <1>2. CASE p = "AssignGap"           BY <1>2
  <1>3. CASE p = "RemediateGap"        BY <1>3
  <1>4. CASE p = "Freeze"              BY <1>4
  <1>5. CASE p = "ReviewEvidence"      BY <1>5
  <1>6. CASE p = "Scan"                BY <1>6
  <1>7. CASE p = "Requeue"             BY <1>7
  <1>8. CASE p = "CompleteRetention"   BY <1>8
  <1>9. CASE p = "RecordOnly"
    <2>1. Len(T!Steps[p]) = 1 /\ T!Steps[p][1] = "audit"
      BY <1>9
    <2>2. QED
      BY <2>1
  <1>10. CASE p = "Reset"              BY <1>10
  <1>11. QED
    BY <1>1, <1>2, <1>3, <1>4, <1>5, <1>6, <1>7, <1>8, <1>9, <1>10

(* The order in which every program but the reset takes its locks.         *)
Rank == [review |-> 1, job |-> 2, evidence |-> 3, gap1 |-> 4, packaging |-> 5, audit |-> 6,
         gap2 |-> 7]

(* The order "matches every other holder": a program but the reset takes   *)
(* a lock it does not have only above every lock it has.                   *)
LEMMA OneOrder ==
    ASSUME NEW p \in DOMAIN T!Steps, p # "Reset",
           NEW i \in 1 .. Len(T!Steps[p]), NEW k \in 1 .. Len(T!Steps[p]), i < k
    PROVE  \/ Rank[T!Steps[p][i]] < Rank[T!Steps[p][k]]
           \/ \E j \in 1 .. k - 1 : T!Steps[p][j] = T!Steps[p][k]
  <1> USE ProgramSteps DEF Rank
  <1>1. CASE p = "RunAssessments"      BY <1>1, SMTT(60)
  <1>2. CASE p = "AssignGap"           BY <1>2
  <1>3. CASE p = "RemediateGap"        BY <1>3, SMTT(60)
  <1>4. CASE p = "Freeze"              BY <1>4
  <1>5. CASE p = "ReviewEvidence"      BY <1>5
  <1>6. CASE p = "Scan"                BY <1>6
  <1>7. CASE p = "Requeue"             BY <1>7
  <1>8. CASE p = "CompleteRetention"   BY <1>8
  <1>9. CASE p = "RecordOnly"          BY <1>9
  <1>10. QED
    BY <1>1, <1>2, <1>3, <1>4, <1>5, <1>6, <1>7, <1>8, <1>9

-----------------------------------------------------------------------------
(* Type correctness.                                                       *)

(* What a session that is under way takes next is one of the resources.    *)
LEMMA WantsResource ==
    ASSUME T!TypeOK, NEW c \in Clients, T!Working(c)
    PROVE  T!Wanted(c) \in T!Resources /\ at[c] \in 1 .. Len(T!Steps[program[c]])
  <1>1. program[c] \in DOMAIN T!Steps /\ at[c] \in Nat \ {0}
    BY DEF T!TypeOK, T!Working, T!Idle
  <1>2. at[c] \in 1 .. Len(T!Steps[program[c]])
    BY <1>1, StepsTakeResources DEF T!Working, T!Finished
  <1>3. QED
    BY <1>1, <1>2, StepsTakeResources DEF T!Wanted

(* The event a session appends is one, and it is newer than those it sees. *)
LEMMA EventType ==
    ASSUME T!TypeOK, NEW c \in Clients
    PROVE  /\ T!NewestSeen(c) \in 0 .. sequence
           /\ \A e \in events : e.committed \/ e.by = c => e.id <= T!NewestSeen(c)
           /\ T!NewestSeen(c) = 0 \/ \E e \in events : (e.committed \/ e.by = c) /\ e.id = T!NewestSeen(c)
           /\ T!Event(c) \in [id : {sequence + 1}, previous : 0 .. sequence, by : {c}, committed : {FALSE}]
  <1> DEFINE seen == {e.id : e \in {e \in events : e.committed \/ e.by = c}} \cup {0}
  <1>1. sequence \in Nat /\ seen \in SUBSET (0 .. sequence)
    BY DEF T!TypeOK
  <1>2. PICK n \in seen : \A m \in seen : m <= n
    <2>1. seen \in SUBSET Nat /\ seen # {} /\ \A m \in seen : m <= sequence
      BY <1>1
    <2>2. QED
      BY <2>1, <1>1, GreatestNumber
  <1>3. T!NewestSeen(c) = n
    <2>1. seen \in SUBSET Nat
      BY <1>1
    <2>2. QED
      BY <2>1, <1>2, MaxIs DEF T!NewestSeen
  <1>4. /\ n \in 0 .. sequence
        /\ \A e \in events : e.committed \/ e.by = c => e.id <= n
        /\ n = 0 \/ \E e \in events : (e.committed \/ e.by = c) /\ e.id = n
    BY <1>1, <1>2
  <1>5. QED
    BY <1>1, <1>3, <1>4 DEF T!Event

(* A session that ends gives back what it held.                            *)
LEMMA EndsReturns ==
    ASSUME T!TypeOK, T!TransactionsAssumption, NEW c \in Clients, T!Ends(c)
    PROVE  /\ program' \in [Clients -> DOMAIN T!Steps \cup {"none"}]
           /\ at' \in [Clients -> Nat \ {0}]
           /\ holder' \in [T!Resources -> Clients \cup {T!Free}]
           /\ \A r \in T!Resources : holder'[r] # c
           /\ \A r \in T!Resources, d \in Clients \ {c} : holder'[r] = d <=> holder[r] = d
           /\ T!Idle(c)'
           /\ \A d \in Clients \ {c} : program'[d] = program[d] /\ at'[d] = at[d]
  BY DEF T!TypeOK, T!TransactionsAssumption, T!Ends, T!Idle

(* Who held or holds a lock is under way.                                  *)
LEMMA HoldersRun ==
    ASSUME T!TypeOK, T!TransactionsAssumption, NEW r \in T!Resources, holder[r] # T!Free
    PROVE  holder[r] \in Clients /\ ~T!Idle(holder[r])
  BY DEF T!TypeOK

(* Committing marks the events of the session and changes nothing else of  *)
(* them.                                                                   *)
Marked(c, d) == IF d.by = c THEN [d EXCEPT !.committed = TRUE] ELSE d

LEMMA CommitMarks ==
    ASSUME T!TypeOK, NEW c \in Clients, T!Commit(c)
    PROVE  /\ \A d \in events :
                 /\ Marked(c, d) \in events'
                 /\ Marked(c, d).id = d.id /\ Marked(c, d).previous = d.previous
                 /\ Marked(c, d).by = d.by
                 /\ Marked(c, d).committed = (d.committed \/ d.by = c)
           /\ \A e \in events' : \E d \in events : e = Marked(c, d)
           /\ events' \in SUBSET [id : 1 .. sequence, previous : Nat, by : Clients, committed : BOOLEAN]
  <1>1. ASSUME NEW d \in events
        PROVE  /\ Marked(c, d) \in [id : 1 .. sequence, previous : Nat, by : Clients, committed : BOOLEAN]
               /\ Marked(c, d).id = d.id /\ Marked(c, d).previous = d.previous
               /\ Marked(c, d).by = d.by
               /\ Marked(c, d).committed = (d.committed \/ d.by = c)
    <2>1. d \in [id : 1 .. sequence, previous : Nat, by : Clients, committed : BOOLEAN]
      BY DEF T!TypeOK
    <2>2. QED
      BY <2>1 DEF Marked
  <1>2. events' = {Marked(c, d) : d \in events}
    BY DEF T!Commit, Marked
  <1>3. QED
    BY <1>1, <1>2

LEMMA TypeStep ==
    ASSUME T!TypeOK, T!TransactionsAssumption, [T!Next]_(T!vars)
    PROVE  T!TypeOK'
  <1> USE DEF T!TransactionsAssumption
  <1>1. ASSUME NEW c \in Clients, NEW p \in Programs, T!Begin(c, p)
        PROVE  T!TypeOK'
    <2>1. p \in DOMAIN T!Steps /\ T!Steps[p][1] \in T!Resources
      BY <1>1, StepsTakeResources
    <2>2. program' \in [Clients -> DOMAIN T!Steps \cup {"none"}] /\ at' \in [Clients -> Nat \ {0}]
      BY <1>1, <2>1 DEF T!Begin, T!TypeOK
    <2>3. holder' \in [T!Resources -> Clients \cup {T!Free}]
      BY <1>1, <2>1 DEF T!Begin, T!TypeOK
    <2>4. \A d \in Clients : ~T!Idle(d) \/ d = c => ~T!Idle(d)'
      BY <1>1, <2>1, ProgramSteps DEF T!Begin, T!TypeOK, T!Idle
    <2>5. \A r \in T!Resources : (holder[r] # T!Free => ~T!Idle(holder[r]))'
      <3>1. \A r \in T!Resources : holder'[r] = holder[r] \/ holder'[r] = c
        BY <1>1, <2>1 DEF T!Begin, T!TypeOK
      <3>2. QED
        BY <2>3, <2>4, <3>1 DEF T!TypeOK, T!Idle
    <2>6. \A e \in events : ~e.committed => ~T!Idle(e.by)'
      BY <2>4 DEF T!TypeOK
    <2>7. QED
      BY <1>1, <2>2, <2>3, <2>5, <2>6 DEF T!Begin, T!TypeOK, T!Idle
  <1>2. ASSUME NEW c \in Clients, T!Take(c)
        PROVE  T!TypeOK'
    <2>1. T!Wanted(c) \in T!Resources
      BY <1>2, WantsResource DEF T!Take
    <2>2. QED
      BY <1>2, <2>1 DEF T!Take, T!TypeOK, T!Idle, T!Working
  <1>3. ASSUME NEW c \in Clients, T!AppendEvent(c)
        PROVE  T!TypeOK'
    <2>1. /\ T!Event(c) \in [id : {sequence + 1}, previous : 0 .. sequence, by : {c}, committed : {FALSE}]
          /\ events' = events \cup {T!Event(c)} /\ sequence' = sequence + 1
      BY <1>3, EventType DEF T!AppendEvent
    <2>2. sequence' \in Nat /\ \A e \in events' : e.previous < e.id /\ (~e.committed => ~T!Idle(e.by))
      BY <1>3, <2>1 DEF T!TypeOK, T!AppendEvent, T!Working
    <2>5. events' \in SUBSET [id : 1 .. sequence', previous : Nat, by : Clients, committed : BOOLEAN]
      <3>1. /\ sequence + 1 \in 1 .. sequence' /\ 0 .. sequence \subseteq Nat
            /\ 1 .. sequence \subseteq 1 .. sequence'
        BY <2>1 DEF T!TypeOK
      <3>2. T!Event(c) \in [id : 1 .. sequence', previous : Nat, by : Clients, committed : BOOLEAN]
        BY <2>1, <3>1
      <3>3. QED
        BY <2>1, <3>1, <3>2 DEF T!TypeOK
    <2>3. /\ at' \in [Clients -> Nat \ {0}]
          /\ holder' \in [T!Resources -> Clients \cup {T!Free}]
          /\ \A r \in T!Resources : holder'[r] # T!Free => ~T!Idle(holder'[r])
      BY <1>3 DEF T!TypeOK, T!AppendEvent, T!Working, T!Resources
    <2>4. QED
      BY <1>3, <2>2, <2>5, <2>3 DEF T!TypeOK, T!AppendEvent, T!Idle
  <1>4. ASSUME NEW c \in Clients, T!Commit(c)
        PROVE  T!TypeOK'
    <2>1. T!Ends(c)
      BY <1>4 DEF T!Commit
    <2>2. \A e \in events' : e.previous < e.id /\ (~e.committed => e.by # c /\ ~T!Idle(e.by))
      BY <1>4, CommitMarks DEF T!TypeOK
    <2>3. events' \in SUBSET [id : 1 .. sequence, previous : Nat, by : Clients, committed : BOOLEAN]
      BY <1>4, CommitMarks
    <2>4. \A r \in T!Resources : (holder[r] # T!Free => ~T!Idle(holder[r]))'
      BY <2>1, EndsReturns DEF T!TypeOK, T!Idle
    <2>5. \A e \in events' : ~e.committed => ~T!Idle(e.by)'
      BY <2>1, <2>2, <2>3, EndsReturns DEF T!Idle
    <2>6. QED
      BY <2>1, <2>2, <2>3, <2>4, <2>5, EndsReturns DEF T!TypeOK, T!Ends
  <1>5. ASSUME NEW c \in Clients, T!Rollback(c)
        PROVE  T!TypeOK'
    <2>1. T!Ends(c) /\ events' \subseteq events /\ \A e \in events' : ~e.committed => e.by # c
      BY <1>5 DEF T!Rollback
    <2>2. \A r \in T!Resources : (holder[r] # T!Free => ~T!Idle(holder[r]))'
      BY <2>1, EndsReturns DEF T!TypeOK, T!Idle
    <2>3. \A e \in events' : e.by \in Clients /\ (~e.committed => ~T!Idle(e.by)')
      BY <2>1, EndsReturns DEF T!TypeOK, T!Idle
    <2>4. QED
      BY <2>1, <2>2, <2>3, EndsReturns DEF T!TypeOK, T!Ends
  <1>6. CASE UNCHANGED T!vars
    BY <1>6 DEF T!TypeOK, T!vars, T!Idle
  <1>7. QED
    BY <1>1, <1>2, <1>3, <1>4, <1>5, <1>6 DEF T!Next, T!Session

LEMMA TransactionsWithin == [Next]_vars => [T!Next]_(T!vars)
  <1> SUFFICES ASSUME [Next]_vars PROVE [T!Next]_(T!vars)
    OBVIOUS
  <1>1. ASSUME UNCHANGED transactions PROVE UNCHANGED T!vars
    BY <1>1 DEF transactions, T!vars
  <1>2. CASE UNCHANGED vars
    BY <1>1, <1>2 DEF vars
  <1>3. CASE Next
    BY <1>1, <1>3 DEF Next, LifecycleStep, FreezingStep, DossierStep
  <1>4. QED
    BY <1>2, <1>3

LEMMA TransactionsRuns == Spec => T!Init /\ [][T!Next]_(T!vars)
  <1>1. Init => T!Init
    BY DEF Init
  <1>2. QED
    BY <1>1, TransactionsWithin, PTL DEF Spec

(* Every variable keeps its type, who is idle holds no lock, and what is   *)
(* not committed belongs to a session that is under way.                   *)
THEOREM TransactionsTypeCorrect == Spec => []T!TypeOK
  <1>1. T!Init => T!TypeOK
    BY RecordsAssumption DEF T!Init, T!TypeOK, T!TransactionsAssumption, T!Idle
  <1>2. T!TypeOK /\ [T!Next]_(T!vars) => T!TypeOK'
    BY RecordsAssumption, TypeStep
  <1>3. QED
    BY <1>1, <1>2, TransactionsRuns, PTL

-----------------------------------------------------------------------------
(* The audit chain.                                                        *)

(* What is not committed was appended under the audit lock, and its        *)
(* session has it still.                                                   *)
UncommittedIsLocked == \A e \in events : ~e.committed => holder["audit"] = e.by

(* Two events have two numbers, and what is committed came first.          *)
NumbersTellApart == \A d, e \in events : d.id = e.id => d = e
CommittedCameFirst == \A d, e \in events : d.committed /\ ~e.committed => d.id < e.id

(* Every event is linked to the one before it, committed or not.           *)
NewestBefore(e) ==
    /\ e.previous = 0 \/ \E d \in events : d.id = e.previous
    /\ \A d \in events : d.id < e.id => d.id <= e.previous
Linked == \A e \in events : NewestBefore(e)

EventInv == UncommittedIsLocked /\ NumbersTellApart /\ CommittedCameFirst /\ Linked

(* An append sees every event there is, for the lock keeps the events of   *)
(* others out until they are committed or gone.                            *)
LEMMA AppendLinks ==
    ASSUME T!TypeOK, T!TransactionsAssumption, EventInv, NEW c \in Clients, T!AppendEvent(c)
    PROVE  EventInv'
  <1>1. \A e \in events : e.committed \/ e.by = c
    BY DEF T!AppendEvent, T!Available, EventInv, UncommittedIsLocked, T!TransactionsAssumption, T!TypeOK
  <1>2. PICK new : new = T!Event(c)
    OBVIOUS
  <1>3. /\ events' = events \cup {new} /\ sequence \in Nat
        /\ new.id = sequence + 1 /\ new.previous = T!NewestSeen(c)
        /\ new.by = c /\ ~new.committed
        /\ \A e \in events : e.id \in 1 .. sequence /\ e.id <= T!NewestSeen(c)
        /\ T!NewestSeen(c) = 0 \/ \E e \in events : e.id = T!NewestSeen(c)
    BY <1>1, <1>2, EventType DEF T!AppendEvent, T!Event, T!TypeOK
  <1>4. UncommittedIsLocked'
    BY <1>1, <1>3 DEF T!AppendEvent, UncommittedIsLocked, T!TypeOK, T!Resources
  <1>5. NumbersTellApart' /\ CommittedCameFirst'
    BY <1>3 DEF EventInv, NumbersTellApart, CommittedCameFirst
  <1>6. Linked'
    <2>1. ASSUME NEW e \in events
          PROVE  NewestBefore(e)'
      BY <1>3, <2>1 DEF EventInv, Linked, NewestBefore
    <2>2. NewestBefore(new)'
      BY <1>3 DEF NewestBefore
    <2>3. QED
      BY <1>3, <2>1, <2>2 DEF Linked
  <1>7. QED
    BY <1>4, <1>5, <1>6 DEF EventInv

(* A commit makes all there is committed, for only its own was not.        *)
LEMMA CommitLinks ==
    ASSUME T!TypeOK, T!TransactionsAssumption, EventInv, NEW c \in Clients, T!Commit(c)
    PROVE  EventInv'
  <1> USE CommitMarks DEF EventInv
  <1>1. \A e \in events' : \E d \in events : e = Marked(c, d)
    OBVIOUS
  <1>2. UncommittedIsLocked'
    <2>1. holder'["audit"] = IF holder["audit"] = c THEN T!Free ELSE holder["audit"]
      BY DEF T!Commit, T!Ends, T!Resources
    <2>2. QED
      BY <1>1, <2>1 DEF UncommittedIsLocked
  <1>3. NumbersTellApart'
    BY <1>1 DEF NumbersTellApart
  <1>4. CommittedCameFirst'
    BY <1>1 DEF CommittedCameFirst, UncommittedIsLocked
  <1>5. Linked'
    BY <1>1 DEF Linked, NewestBefore
  <1>6. QED
    BY <1>2, <1>3, <1>4, <1>5

(* A rollback takes only the newest events away.                           *)
LEMMA RollbackLinks ==
    ASSUME T!TypeOK, T!TransactionsAssumption, EventInv, NEW c \in Clients, T!Rollback(c)
    PROVE  EventInv'
  <1> USE DEF EventInv
  <1>1. events' = {e \in events : e.by # c \/ e.committed}
    BY DEF T!Rollback
  <1>2. UncommittedIsLocked'
    <2>1. holder'["audit"] = IF holder["audit"] = c THEN T!Free ELSE holder["audit"]
      BY DEF T!Rollback, T!Ends, T!Resources
    <2>2. QED
      BY <1>1, <2>1 DEF UncommittedIsLocked
  <1>3. NumbersTellApart' /\ CommittedCameFirst'
    BY <1>1 DEF NumbersTellApart, CommittedCameFirst
  <1>4. Linked'
    <2>1. ASSUME NEW e \in events'
          PROVE  NewestBefore(e)'
      <3>1. ASSUME NEW d \in events, d.id = e.previous
            PROVE  d \in events'
        BY <1>1, <2>1, <3>1 DEF UncommittedIsLocked, CommittedCameFirst, T!TypeOK
      <3>2. QED
        BY <1>1, <2>1, <3>1 DEF Linked, NewestBefore
    <2>2. QED
      BY <2>1 DEF Linked
  <1>5. QED
    BY <1>2, <1>3, <1>4

(* Who takes another lock or begins has appended nothing by that, and      *)
(* keeps the audit lock if it has it.                                      *)
LEMMA EventStep ==
    ASSUME T!TypeOK, T!TransactionsAssumption, EventInv, [T!Next]_(T!vars)
    PROVE  EventInv'
  <1>1. ASSUME UNCHANGED events, holder["audit"] # T!Free => holder'["audit"] = holder["audit"]
        PROVE  EventInv'
    BY <1>1 DEF EventInv, UncommittedIsLocked, NumbersTellApart, CommittedCameFirst, Linked,
       NewestBefore, T!TypeOK, T!TransactionsAssumption
  <1>2. ASSUME NEW c \in Clients, NEW p \in Programs, T!Begin(c, p)
        PROVE  EventInv'
    <2>1. holder["audit"] # T!Free => holder'["audit"] = holder["audit"]
      BY <1>2, StepsTakeResources DEF T!Begin, T!TypeOK, T!TransactionsAssumption, T!Resources
    <2>2. QED
      BY <1>1, <1>2, <2>1 DEF T!Begin
  <1>3. ASSUME NEW c \in Clients, T!Take(c)
        PROVE  EventInv'
    <2>1. holder'["audit"] = holder["audit"]
      BY <1>3 DEF T!Take, T!TypeOK, T!Resources
    <2>2. QED
      BY <1>1, <1>3, <2>1 DEF T!Take
  <1>4. CASE UNCHANGED T!vars
    BY <1>1, <1>4 DEF T!vars
  <1>5. QED
    BY <1>2, <1>3, <1>4, AppendLinks, CommitLinks, RollbackLinks DEF T!Next, T!Session

(* Walked in the order of their numbers, the committed events are a chain. *)
LEMMA LinkedVerifies ==
    ASSUME T!TypeOK, EventInv
    PROVE  T!ChainVerifies
  <1> SUFFICES ASSUME NEW e \in T!Committed
               PROVE  e.previous = T!Before(e)
    BY DEF T!ChainVerifies
  <1> DEFINE earlier == {d.id : d \in {d \in T!Committed : d.id < e.id}} \cup {0}
  <1>1. /\ T!Committed \subseteq events /\ e \in events /\ e.committed
        /\ \A d \in events : d.id \in Nat
        /\ e.previous \in Nat /\ e.previous < e.id
    BY DEF T!Committed, T!TypeOK
  <1>2. e.previous \in earlier
    <2>1. ASSUME NEW d \in events, d.id = e.previous
          PROVE  d \in T!Committed
      BY <1>1, <2>1 DEF EventInv, CommittedCameFirst, T!Committed
    <2>2. QED
      BY <1>1, <2>1 DEF EventInv, Linked, NewestBefore
  <1>3. earlier \in SUBSET Nat /\ \A n \in earlier : n <= e.previous
    BY <1>1 DEF EventInv, Linked, NewestBefore
  <1>4. QED
    BY <1>2, <1>3, MaxIs DEF T!Before

(* verifyAuditChain finds every committed event linked to the one before,  *)
(* whenever it reads, whatever commits beside it and whatever was rolled   *)
(* back, for any number of sessions and of transactions.                   *)
THEOREM AuditChainVerifies == Spec => []ChainVerifies
  <1>1. T!Init => EventInv
    BY DEF T!Init, EventInv, UncommittedIsLocked, NumbersTellApart, CommittedCameFirst, Linked
  <1>2. T!TypeOK /\ EventInv /\ [T!Next]_(T!vars) => EventInv'
    BY RecordsAssumption, EventStep
  <1>3. T!TypeOK /\ EventInv => ChainVerifies
    BY LinkedVerifies DEF ChainVerifies
  <1>4. QED
    BY <1>1, <1>2, <1>3, TransactionsTypeCorrect, TransactionsRuns, PTL

-----------------------------------------------------------------------------
(* Waiting.                                                                *)

(* A session holds exactly what its program has taken so far.              *)
HoldsWhatItTook ==
    \A c \in Clients : ~T!Idle(c) =>
        \A r \in T!Resources :
            holder[r] = c <=> \E i \in 1 .. at[c] - 1 : T!Steps[program[c]][i] = r
WithinProgram ==
    \A c \in Clients : at[c] <= IF T!Idle(c) THEN 1 ELSE Len(T!Steps[program[c]]) + 1

LockInv == HoldsWhatItTook /\ WithinProgram

(* Taking the wanted lock, the audit lock among them, moves one step on.   *)
LEMMA TakingHolds ==
    ASSUME T!TypeOK, T!TransactionsAssumption, LockInv, NEW c \in Clients, T!Working(c),
           T!Available(c, T!Wanted(c)),
           holder' = [holder EXCEPT ![T!Wanted(c)] = c], at' = [at EXCEPT ![c] = @ + 1],
           UNCHANGED program
    PROVE  LockInv'
  <1>1. T!Wanted(c) \in T!Resources /\ at[c] \in 1 .. Len(T!Steps[program[c]]) /\ ~T!Idle(c)
    BY WantsResource DEF T!Working
  <1>2. WithinProgram'
    BY <1>1, StepsTakeResources DEF LockInv, WithinProgram, T!Idle, T!TypeOK
  <1>3. ASSUME NEW d \in Clients, ~T!Idle(d), NEW r \in T!Resources
        PROVE  holder'[r] = d <=> \E i \in 1 .. at'[d] - 1 : T!Steps[program[d]][i] = r
    <2>1. holder[r] = d <=> \E i \in 1 .. at[d] - 1 : T!Steps[program[d]][i] = r
      BY <1>3 DEF LockInv, HoldsWhatItTook
    <2>2. CASE d = c
      <3>1. at'[c] - 1 = at[c] /\ 1 .. at[c] = 1 .. (at[c] - 1) \cup {at[c]}
        BY <1>1 DEF T!TypeOK
      <3>2. QED
        BY <1>1, <2>1, <2>2, <3>1 DEF T!Wanted, T!TypeOK
    <2>3. CASE d # c
      <3>1. at'[d] = at[d] /\ (holder'[r] = d <=> holder[r] = d)
        BY <1>1, <2>3 DEF T!TypeOK, T!Available, T!TransactionsAssumption
      <3>2. QED
        BY <2>1, <3>1
    <2>4. QED
      BY <2>2, <2>3
  <1>4. QED
    BY <1>2, <1>3 DEF LockInv, HoldsWhatItTook, T!Idle

(* A session that begins has nothing, or the job its claim did not skip.   *)
LEMMA BeginningHolds ==
    ASSUME T!TypeOK, T!TransactionsAssumption, LockInv,
           NEW c \in Clients, NEW p \in Programs, T!Begin(c, p)
    PROVE  LockInv'
  <1>1. /\ T!Idle(c) /\ p \in DOMAIN T!Steps /\ program' = [program EXCEPT ![c] = p] /\ program'[c] = p
        /\ ~T!Idle(c)' /\ at[c] = 1
        /\ \A r \in T!Resources : holder[r] # c
    BY ProgramSteps DEF T!Begin, T!TypeOK, T!TransactionsAssumption, T!Idle, LockInv, WithinProgram
  <1>2. CASE p \in T!Skips
    <2>1. p = "Scan" /\ T!Steps[p][1] = "job" /\ Len(T!Steps[p]) = 4
      BY <1>2, ProgramSteps DEF T!Skips
    <2>2. /\ holder["job"] = T!Free /\ holder' = [holder EXCEPT !["job"] = c]
          /\ at' = [at EXCEPT ![c] = 2]
      BY <1>2, <2>1 DEF T!Begin
    <2>3. ASSUME NEW d \in Clients, ~T!Idle(d)', NEW r \in T!Resources
          PROVE  holder'[r] = d <=> \E i \in 1 .. at'[d] - 1 : T!Steps[program'[d]][i] = r
      <3>1. CASE d = c
        <4>1. at'[d] - 1 = 1 /\ (holder'[r] = d <=> r = "job")
          BY <1>1, <2>2, <3>1 DEF T!TypeOK, T!Resources
        <4>2. QED
          BY <1>1, <2>1, <3>1, <4>1
      <3>2. CASE d # c
        <4>1. /\ at'[d] = at[d] /\ program'[d] = program[d] /\ ~T!Idle(d)
              /\ holder'[r] = d <=> holder[r] = d
          BY <1>1, <2>2, <2>3, <3>2 DEF T!TypeOK, T!Idle, T!TransactionsAssumption, T!Resources
        <4>2. QED
          BY <4>1 DEF LockInv, HoldsWhatItTook
      <3>3. QED
        BY <3>1, <3>2
    <2>4. WithinProgram'
      BY <1>1, <2>1, <2>2 DEF LockInv, WithinProgram, T!Idle, T!TypeOK
    <2>5. QED
      BY <2>3, <2>4 DEF LockInv, HoldsWhatItTook
  <1>3. CASE p \notin T!Skips
    <2>1. UNCHANGED <<holder, at>>
      BY <1>3 DEF T!Begin
    <2>2. ASSUME NEW d \in Clients, ~T!Idle(d)', NEW r \in T!Resources
          PROVE  holder'[r] = d <=> \E i \in 1 .. at'[d] - 1 : T!Steps[program'[d]][i] = r
      <3>1. CASE d = c
        BY <1>1, <2>1, <3>1
      <3>2. CASE d # c
        BY <1>1, <2>1, <2>2, <3>2 DEF LockInv, HoldsWhatItTook, T!Idle, T!TypeOK
      <3>3. QED
        BY <3>1, <3>2
    <2>3. WithinProgram'
      BY <1>1, <2>1, StepsTakeResources DEF LockInv, WithinProgram, T!Idle, T!TypeOK
    <2>4. QED
      BY <2>2, <2>3 DEF LockInv, HoldsWhatItTook
  <1>4. QED
    BY <1>2, <1>3

LEMMA LockStep ==
    ASSUME T!TypeOK, T!TransactionsAssumption, LockInv, [T!Next]_(T!vars)
    PROVE  LockInv'
  <1>1. ASSUME NEW c \in Clients, T!Take(c) \/ T!AppendEvent(c)
        PROVE  LockInv'
    BY <1>1, TakingHolds DEF T!Take, T!AppendEvent
  <1>2. ASSUME NEW c \in Clients, T!Commit(c) \/ T!Rollback(c)
        PROVE  LockInv'
    <2>1. T!Ends(c)
      BY <1>2 DEF T!Commit, T!Rollback
    <2>2. WithinProgram'
      BY <2>1, EndsReturns DEF LockInv, WithinProgram, T!Idle, T!Ends, T!TypeOK
    <2>3. HoldsWhatItTook'
      BY <2>1, EndsReturns DEF LockInv, HoldsWhatItTook, T!Idle
    <2>4. QED
      BY <2>2, <2>3 DEF LockInv
  <1>3. CASE UNCHANGED T!vars
    BY <1>3 DEF T!vars, LockInv, HoldsWhatItTook, WithinProgram, T!Idle
  <1>4. QED
    BY <1>1, <1>2, <1>3, BeginningHolds DEF T!Next, T!Session

(* A session that is waited for and waits wants a lock further up.         *)
LEMMA WaitingAscends ==
    ASSUME T!TypeOK, LockInv, NEW b \in Clients, NEW c \in Clients, NEW d \in Clients,
           program[c] # "Reset", T!WaitsFor(b, c), T!WaitsFor(c, d)
    PROVE  Rank[T!Wanted(b)] < Rank[T!Wanted(c)]
  <1>1. /\ T!Working(b) /\ T!Working(c) /\ program[c] \in DOMAIN T!Steps
        /\ holder[T!Wanted(b)] = c /\ holder[T!Wanted(c)] = d /\ c # d
    BY DEF T!WaitsFor, T!Working, T!Idle, T!TypeOK
  <1>2. T!Wanted(b) \in T!Resources /\ T!Wanted(c) \in T!Resources /\ at[c] \in 1 .. Len(T!Steps[program[c]])
    BY <1>1, WantsResource
  <1>3. PICK i \in 1 .. at[c] - 1 : T!Steps[program[c]][i] = T!Wanted(b)
    BY <1>1, <1>2 DEF LockInv, HoldsWhatItTook, T!Working
  <1>4. ~ \E j \in 1 .. at[c] - 1 : T!Steps[program[c]][j] = T!Wanted(c)
    BY <1>1, <1>2 DEF LockInv, HoldsWhatItTook, T!Working
  <1>5. i \in 1 .. Len(T!Steps[program[c]]) /\ i < at[c]
    BY <1>1, <1>2, <1>3, StepsTakeResources
  <1>6. QED
    BY <1>1, <1>2, <1>3, <1>4, <1>5, OneOrder DEF T!Wanted

(* "The order matches every other holder and the pair cannot deadlock": of *)
(* any sessions that all wait, one wants a lock at least as far up as any, *)
(* and whoever holds that lock waits for nobody among them.                *)
LEMMA LockOrderBreaksCycles ==
    ASSUME T!TypeOK, LockInv
    PROVE  T!NoWaitCycle
  <1> SUFFICES ASSUME NEW waiting \in (SUBSET {c \in Clients : program[c] # "Reset"}) \ {{}}
               PROVE  \E c \in waiting : \A d \in waiting : ~T!WaitsFor(c, d)
    BY Zenon DEF T!NoWaitCycle
  <1> SUFFICES ASSUME \A c \in waiting : \E d \in waiting : T!WaitsFor(c, d)
               PROVE  FALSE
    OBVIOUS
  <1> DEFINE ranks == {Rank[T!Wanted(c)] : c \in waiting}
  <1>1. \A c \in waiting : Rank[T!Wanted(c)] \in 1 .. 7
    BY WantsResource DEF T!WaitsFor, Rank, T!Resources
  <1>2. PICK n \in ranks : \A m \in ranks : m <= n
    <2>1. ranks \in SUBSET Nat /\ \A m \in ranks : m <= 7
      BY <1>1
    <2>2. waiting # {}
      OBVIOUS
    <2>3. ranks # {}
      BY <2>2
    <2>4. QED
      BY <2>1, <2>3, GreatestNumber
  <1>3. PICK b \in waiting : \A c \in waiting : Rank[T!Wanted(c)] <= Rank[T!Wanted(b)]
    BY <1>2
  <1>4. PICK c \in waiting : T!WaitsFor(b, c)
    OBVIOUS
  <1>5. PICK d \in waiting : T!WaitsFor(c, d)
    OBVIOUS
  <1>6. Rank[T!Wanted(b)] < Rank[T!Wanted(c)]
    BY <1>4, <1>5, WaitingAscends
  <1>7. QED
    BY <1>1, <1>3, <1>6

(* No sessions wait for each other in a circle, however many there are and *)
(* whatever programs they run, unless one of them resets the demonstration.*)
THEOREM NobodyWaitsInACircle == Spec => []NoWaitCycle
  <1>1. T!Init => LockInv
    BY RecordsAssumption
       DEF T!TransactionsAssumption, T!Init, LockInv, HoldsWhatItTook, WithinProgram, T!Idle
  <1>2. T!TypeOK /\ LockInv /\ [T!Next]_(T!vars) => LockInv'
    BY RecordsAssumption, LockStep
  <1>3. T!TypeOK /\ LockInv => NoWaitCycle
    BY LockOrderBreaksCycles DEF NoWaitCycle
  <1>4. QED
    BY <1>1, <1>2, <1>3, TransactionsTypeCorrect, TransactionsRuns, PTL
=============================================================================
