---------------------------- MODULE WorkerProofs ----------------------------
(***************************************************************************)
(* Theorems about the worker: its queue of scans (ScanQueue), for every    *)
(* number of workers, jobs and crashes and any limits, and its poll loop   *)
(* (WorkerHealth), for any parts of the world that may fail.               *)
(***************************************************************************)
EXTENDS MCWorker, SequenceTheorems, TLAPS

-----------------------------------------------------------------------------
(* The queue of due jobs.                                                  *)

(* In a queue without repetitions, removing a job removes its position.    *)
LEMMA RemovesItsPlace ==
    ASSUME NEW s \in Seq(Jobs), NEW k \in DOMAIN s, \A i, l \in DOMAIN s : s[i] = s[l] => i = l
    PROVE  Q!RemoveFirst(s, s[k]) = Q!RemoveAt(s, k)
  <1>1. {i \in 1 .. Len(s) : s[i] = s[k]} = {k}
    OBVIOUS
  <1>2. Q!SelectInSeq(s, LAMBDA v : v = s[k]) = k
    BY <1>1 DEF Q!SelectInSeq, Q!Min
  <1>3. QED
    BY <1>2 DEF Q!RemoveFirst

Distinct(s) == \A i, k \in DOMAIN s : s[i] = s[k] => i = k
Members(s) == {s[i] : i \in DOMAIN s}

(* What the queue is without one of its jobs, and with one more at either  *)
(* end.                                                                    *)
LEMMA RemovingOne ==
    ASSUME NEW s \in Seq(Jobs), Distinct(s), NEW k \in DOMAIN s
    PROVE  /\ Q!RemoveFirst(s, s[k]) \in Seq(Jobs)
           /\ Distinct(Q!RemoveFirst(s, s[k]))
           /\ Members(Q!RemoveFirst(s, s[k])) = Members(s) \ {s[k]}
  <1> DEFINE before == SubSeq(s, 1, k - 1)
             after == SubSeq(s, k + 1, Len(s))
             t == before \o after
  <1>1. Q!RemoveFirst(s, s[k]) = t
    BY RemovesItsPlace DEF Q!RemoveAt, Distinct
  <1>2. /\ Len(s) \in Nat /\ DOMAIN s = 1 .. Len(s) /\ k \in 1 .. Len(s)
        /\ before \in Seq(Jobs) /\ Len(before) = k - 1 /\ \A i \in 1 .. k - 1 : before[i] = s[i]
        /\ after \in Seq(Jobs) /\ Len(after) = Len(s) - k
        /\ \A i \in 1 .. Len(s) - k : after[i] = s[k + i]
    BY SubSeqProperties
  <1> HIDE DEF before, after
  <1>3. /\ t \in Seq(Jobs) /\ DOMAIN t = 1 .. Len(s) - 1
        /\ \A i \in 1 .. Len(s) - 1 : t[i] = IF i < k THEN s[i] ELSE s[i + 1]
    <2>1. /\ t \in Seq(Jobs) /\ Len(t) = Len(s) - 1
          /\ \A i \in 1 .. Len(s) - 1 :
                 t[i] = IF i <= Len(before) THEN before[i] ELSE after[i - Len(before)]
      <3>1. t \in Seq(Jobs) /\ Len(t) = Len(before) + Len(after)
        BY <1>2, ConcatProperties
      <3>2. Len(t) = Len(s) - 1
        BY <1>2, <3>1
      <3>3. \A i \in 1 .. Len(before) + Len(after) :
               t[i] = IF i <= Len(before) THEN before[i] ELSE after[i - Len(before)]
        BY <1>2, ConcatProperties
      <3>4. QED
        BY <1>2, <3>1, <3>2, <3>3
    <2>2. ASSUME NEW i \in 1 .. Len(s) - 1
          PROVE  t[i] = IF i < k THEN s[i] ELSE s[i + 1]
      <3>1. CASE i < k
        BY <1>2, <2>1, <3>1
      <3>2. CASE ~(i < k)
        <4>1. i - Len(before) \in 1 .. Len(s) - k /\ k + (i - Len(before)) = i + 1
          BY <1>2, <3>2
        <4>2. t[i] = after[i - Len(before)]
          BY <1>2, <2>1, <3>2
        <4>3. QED
          BY <1>2, <3>2, <4>1, <4>2
      <3>3. QED
        BY <3>1, <3>2
    <2>3. QED
      BY <2>1, <2>2
  <1> HIDE DEF t
  <1> DEFINE place(i) == IF i < k THEN i ELSE i + 1
  <1>7. \A i \in DOMAIN t : place(i) \in DOMAIN s /\ place(i) # k /\ t[i] = s[place(i)]
    <2>1. TAKE i \in DOMAIN t
    <2>2. i \in 1 .. Len(s) - 1 /\ i \in 1 .. Len(s) /\ i + 1 \in 1 .. Len(s)
      BY <1>2, <1>3
    <2>3. QED
      BY <1>2, <1>3, <2>2
  <1>4. Distinct(t)
    <2>1. ASSUME NEW i \in DOMAIN t, NEW l \in DOMAIN t, t[i] = t[l]
          PROVE  i = l
      <3>1. place(i) = place(l)
        BY <1>7, <2>1 DEF Distinct
      <3>2. QED
        BY <1>2, <1>3, <3>1, SMTT(60)
    <2>2. QED
      BY <2>1 DEF Distinct
  <1>5. Members(t) = Members(s) \ {s[k]}
    <2>1. ASSUME NEW i \in DOMAIN t
          PROVE  t[i] \in Members(s) /\ t[i] # s[k]
      BY <1>7 DEF Distinct, Members
    <2>2. ASSUME NEW i \in DOMAIN s, i # k
          PROVE  s[i] \in Members(t)
      <3>1. CASE i < k
        <4>1. i \in DOMAIN t /\ t[i] = s[i]
          BY <1>2, <1>3, <3>1
        <4>2. QED
          BY <4>1 DEF Members
      <3>2. CASE i > k
        <4>1. i - 1 \in DOMAIN t /\ ~(i - 1 < k) /\ (i - 1) + 1 = i
          BY <1>2, <1>3, <3>2
        <4>3. t[i - 1] = s[i]
          BY <1>3, <4>1
        <4>2. QED
          BY <4>1, <4>3 DEF Members
      <3>3. QED
        BY <1>2, <2>2, <3>1, <3>2
    <2>3. QED
      BY <2>1, <2>2 DEF Members
  <1>6. QED
    BY <1>1, <1>3, <1>4, <1>5

LEMMA AddingOne ==
    ASSUME NEW s \in Seq(Jobs), Distinct(s), NEW j \in Jobs, j \notin Members(s)
    PROVE  /\ Append(s, j) \in Seq(Jobs) /\ Distinct(Append(s, j))
           /\ Members(Append(s, j)) = Members(s) \cup {j}
           /\ <<j>> \o s \in Seq(Jobs) /\ Distinct(<<j>> \o s)
           /\ Members(<<j>> \o s) = Members(s) \cup {j}
  <1>1. Len(s) \in Nat /\ DOMAIN s = 1 .. Len(s) /\ \A i \in DOMAIN s : s[i] \in Jobs /\ s[i] # j
    BY DEF Members
  <1> DEFINE last == Append(s, j)
             first == <<j>> \o s
  <1>2. /\ last \in Seq(Jobs) /\ DOMAIN last = 1 .. Len(s) + 1
        /\ \A i \in 1 .. Len(s) + 1 : last[i] = IF i <= Len(s) THEN s[i] ELSE j
    BY <1>1, AppendProperties
  <1>3. /\ first \in Seq(Jobs) /\ DOMAIN first = 1 .. Len(s) + 1
        /\ \A i \in 1 .. Len(s) + 1 : first[i] = IF i = 1 THEN j ELSE s[i - 1]
    <2>1. <<j>> \in Seq(Jobs) /\ Len(<<j>>) = 1 /\ <<j>>[1] = j
      OBVIOUS
    <2>2. QED
      BY <1>1, <2>1, ConcatProperties
  <1> HIDE DEF last, first
  <1>4. Distinct(last) /\ Members(last) = Members(s) \cup {j}
    <2>1. Distinct(last)
      BY <1>1, <1>2 DEF Distinct
    <2>2. last[Len(s) + 1] = j /\ Len(s) + 1 \in DOMAIN last
          /\ \A i \in DOMAIN s : i \in DOMAIN last /\ last[i] = s[i]
      BY <1>1, <1>2
    <2>3. QED
      BY <1>1, <1>2, <2>1, <2>2 DEF Members
  <1>5. Distinct(first) /\ Members(first) = Members(s) \cup {j}
    <2>1. ASSUME NEW i \in DOMAIN first, NEW k \in DOMAIN first, first[i] = first[k]
          PROVE  i = k
      <3>1. \A l \in DOMAIN first : l = 1 \/ (l - 1 \in DOMAIN s /\ first[l] = s[l - 1] /\ first[l] # j)
        BY <1>1, <1>3
      <3>2. CASE i = 1 \/ k = 1
        BY <1>3, <2>1, <3>1, <3>2
      <3>3. CASE i # 1 /\ k # 1
        <4>1. i - 1 = k - 1
          BY <2>1, <3>1, <3>3 DEF Distinct
        <4>2. QED
          BY <1>3, <4>1
      <3>4. QED
        BY <3>2, <3>3
    <2>2. first[1] = j /\ 1 \in DOMAIN first
          /\ \A i \in DOMAIN s : i + 1 \in DOMAIN first /\ first[i + 1] = s[i]
      BY <1>1, <1>3
    <2>3. \A i \in DOMAIN first : i = 1 \/ i - 1 \in DOMAIN s
      BY <1>1, <1>3
    <2>4. QED
      BY <1>1, <1>3, <2>1, <2>2, <2>3 DEF Members, Distinct
  <1>6. QED
    BY <1>2, <1>3, <1>4, <1>5 DEF last, first

-----------------------------------------------------------------------------
(* Claims, scans and requeues.                                             *)

(* What keeps the queue consistent.  A due job waits for a verdict; a job  *)
(* that is held is due, for a claim moves nothing, and had something left  *)
(* of both budgets; no row says running but those found so; and a sound    *)
(* file is charged nothing, so its budget is never what runs out.          *)
DueAreOpen == \A j \in Members(line) : status[j] \in Q!Open
HeldAreDue ==
    \A w \in Workers : holds[w] # Q!NoJob =>
        /\ holds[w] \in Members(line)
        /\ attempts[holds[w]] < ItemLimit /\ infrastructure[holds[w]] < InfraLimit
NothingCharged ==
    /\ \A j \in Jobs \ Stranded : status[j] # "running"
    /\ \A j \in Sound \ Stranded : attempts[j] = 0 /\ reason[j] # "content_attempts_exhausted"

QueueInv == Q!QueueIsConsistent /\ DueAreOpen /\ HeldAreDue /\ NothingCharged

LEMMA QueueFacts ==
    ASSUME QueueInv
    PROVE  /\ line \in Seq(Jobs) /\ Distinct(line) /\ Members(line) \subseteq Jobs
           /\ \A j : Q!Due(j) <=> j \in Members(line)
           /\ ItemLimit \in Nat \ {0} /\ InfraLimit \in Nat \ {0} /\ MaxCrashes \in Nat
           /\ Sound \subseteq Jobs /\ Stranded \subseteq Jobs /\ Q!NoJob \notin Jobs
  BY WorkerAssumption DEF QueueInv, Q!QueueIsConsistent, Q!TypeOK, Distinct, Members, Q!Due,
     Q!ScanQueueAssumption

(* A step that only makes a job due that waits, or lets go of a row.       *)
LEMMA DueStep ==
    ASSUME QueueInv, NEW j \in Jobs, status[j] \in Q!Open, j \notin Members(line),
           line' = Append(line, j) \/ line' = <<j>> \o line, UNCHANGED <<Q!rows, holds, crashes>>
    PROVE  QueueInv'
  <1>1. line' \in Seq(Jobs) /\ Distinct(line') /\ Members(line') = Members(line) \cup {j}
    BY QueueFacts, AddingOne, ZenonT(60)
  <1>2. Q!TypeOK'
    BY <1>1 DEF QueueInv, Q!QueueIsConsistent, Q!TypeOK, Q!rows, Distinct
  <1>3. QED
    BY <1>1, <1>2 DEF QueueInv, Q!QueueIsConsistent, Q!OwnRow, Q!JobMatchesVerdict, Q!NoJobInLimbo, Q!rows,
      
       DueAreOpen, HeldAreDue, NothingCharged

(* A job that is uploaded or requeued starts afresh at the end of the      *)
(* queue; nobody held it.                                                  *)
LEMMA RestartStep ==
    ASSUME QueueInv, NEW j \in Jobs, status[j] \notin Q!Open,
           status' = [status EXCEPT ![j] = "pending"],
           verdict' = [verdict EXCEPT ![j] = "pending"],
           attempts' = [attempts EXCEPT ![j] = 0],
           infrastructure' = [infrastructure EXCEPT ![j] = 0],
           reason' = [reason EXCEPT ![j] = "none"],
           line' = Append(line, j), UNCHANGED <<holds, crashes>>
    PROVE  QueueInv'
  <1> USE DEF QueueInv, Q!QueueIsConsistent
  <1>1. j \notin Members(line) /\ \A w \in Workers : holds[w] # j
    BY QueueFacts DEF DueAreOpen, Q!OwnRow
  <1>2. line' \in Seq(Jobs) /\ Distinct(line') /\ Members(line') = Members(line) \cup {j}
    BY <1>1, QueueFacts, AddingOne
  <1>3. /\ status' \in [Jobs -> {"absent", "completed", "dead"} \cup Q!Open]
        /\ verdict' \in [Jobs -> {"none", "pending", "error"} \cup Q!Verdicts]
    BY DEF Q!TypeOK, Q!Open
  <1>4. /\ attempts' \in [Jobs -> 0 .. ItemLimit + 1]
        /\ attempts'[j] = 0 /\ \A k \in Jobs \ {j} : attempts'[k] = attempts[k]
    <2>1. attempts \in [Jobs -> 0 .. ItemLimit + 1] /\ 0 \in 0 .. ItemLimit + 1
      BY QueueFacts DEF Q!TypeOK
    <2>2. QED
      BY <2>1
  <1>11. /\ infrastructure' \in [Jobs -> 0 .. InfraLimit]
         /\ infrastructure'[j] = 0 /\ \A k \in Jobs \ {j} : infrastructure'[k] = infrastructure[k]
    <2>1. infrastructure \in [Jobs -> 0 .. InfraLimit] /\ 0 \in 0 .. InfraLimit
      BY QueueFacts DEF Q!TypeOK
    <2>2. QED
      BY <2>1
  <1>12. /\ reason' \in [Jobs -> Q!Reasons]
         /\ \A k \in Jobs : reason'[k] = reason[k] \/ reason'[k] = "none"
    BY DEF Q!TypeOK, Q!Reasons
  <1>5. Q!TypeOK'
    BY <1>2, <1>3, <1>4, <1>11, <1>12 DEF Q!TypeOK, Distinct
  <1>6. Q!OwnRow' /\ Q!JobMatchesVerdict'
    BY <1>1 DEF Q!OwnRow, Q!JobMatchesVerdict, Q!TypeOK, Q!Verdicts
  <1>13. Q!NoJobInLimbo'
    BY <1>4, <1>11, QueueFacts DEF Q!NoJobInLimbo, Q!TypeOK
  <1>7. DueAreOpen'
    BY <1>2, QueueFacts DEF DueAreOpen, Q!TypeOK, Q!Open
  <1>8. HeldAreDue'
    BY <1>1, <1>2, <1>4, <1>11, QueueFacts DEF HeldAreDue, Q!TypeOK
  <1>9. NothingCharged'
    BY <1>4, <1>12, QueueFacts DEF NothingCharged, Q!TypeOK
  <1>10. QED
    BY <1>5, <1>6, <1>7, <1>8, <1>9, <1>13

(* A claim locks a due job that nobody holds and that has something left.  *)
LEMMA ClaimStep ==
    ASSUME QueueInv, NEW w \in Workers, Q!Claim(w)
    PROVE  QueueInv'
  <1> USE DEF QueueInv, Q!QueueIsConsistent
  <1>1. PICK i \in DOMAIN line : Q!Claimable(line[i]) /\ holds' = [holds EXCEPT ![w] = line[i]]
    BY DEF Q!Claim
  <1>2. PICK j \in Jobs : j = line[i] /\ j \in Members(line)
    BY QueueFacts DEF Members
  <1>3. /\ UNCHANGED <<status, attempts, infrastructure, reason, verdict, line, crashes>>
        /\ \A v \in Workers : holds[v] # j
        /\ attempts[j] < ItemLimit /\ infrastructure[j] < InfraLimit /\ status[j] \in Q!Open
    BY <1>1, <1>2 DEF Q!Claim, Q!rows, Q!Claimable, Q!Locked, DueAreOpen
  <1>4. holds' = [holds EXCEPT ![w] = j] /\ holds' \in [Workers -> Jobs \cup {Q!NoJob}]
    BY <1>1, <1>2 DEF Q!TypeOK
  <1>5. Q!TypeOK' /\ DueAreOpen' /\ NothingCharged' /\ Q!JobMatchesVerdict' /\ Q!NoJobInLimbo'
    BY <1>3, <1>4 DEF Q!TypeOK, DueAreOpen, NothingCharged, Q!JobMatchesVerdict, Q!NoJobInLimbo
  <1>6. Q!OwnRow' /\ HeldAreDue'
    BY <1>2, <1>3, <1>4 DEF Q!OwnRow, HeldAreDue, Q!TypeOK
  <1>7. QED
    BY <1>5, <1>6

(* An outcome is recorded for the job of the one transaction that holds it.*)
LEMMA FinishStep ==
    ASSUME QueueInv, NEW w \in Workers, Q!Finish(w)
    PROVE  QueueInv'
  <1> USE DEF QueueInv, Q!QueueIsConsistent
  <1>1. PICK outcome \in Q!Outcomes(holds[w]) : Q!Record(w, outcome)
    BY DEF Q!Finish
  <1>2. PICK j \in Jobs : j = holds[w]
    BY DEF Q!Finish, Q!TypeOK
  <1> DEFINE tried == Q!Attempt(j) + (IF outcome = "content" THEN 1 ELSE 0)
             out == infrastructure[j] + (IF outcome = "infrastructure" THEN 1 ELSE 0)
             dead_ == outcome \notin Q!Verdicts /\ (tried >= ItemLimit \/ out >= InfraLimit)
  <1>3. /\ attempts[j] < ItemLimit /\ infrastructure[j] < InfraLimit /\ status[j] \in Q!Open
        /\ j \in Members(line) /\ j # Q!NoJob /\ \A v \in Workers : holds[v] = j => v = w
    BY <1>2 DEF HeldAreDue, Q!OwnRow, Q!Finish
  <1>4. line' \in Seq(Jobs) /\ Distinct(line') /\ Members(line') = Members(line) \ {j}
    <2>1. PICK k \in DOMAIN line : line[k] = j
      BY <1>3 DEF Members
    <2>2. line' = Q!RemoveFirst(line, line[k])
      BY <1>2, <2>1 DEF Q!Finish
    <2>3. QED
      BY <2>1, <2>2, RemovingOne, QueueFacts
  <1>5. tried \in 0 .. ItemLimit + 1 /\ out \in 0 .. InfraLimit
    BY <1>3, QueueFacts, SMTT(60) DEF Q!TypeOK, Q!Attempt
  <1>6. /\ attempts' = [attempts EXCEPT ![j] = tried]
        /\ infrastructure' = [infrastructure EXCEPT ![j] = out]
        /\ status' = [status EXCEPT ![j] = IF outcome \in Q!Verdicts THEN "completed"
                                           ELSE IF dead_ THEN "dead" ELSE "failed"]
        /\ reason' = [reason EXCEPT ![j] = IF ~dead_ THEN "none"
                                           ELSE IF tried >= ItemLimit THEN "content_attempts_exhausted"
                                           ELSE "infrastructure_attempts_exhausted"]
        /\ verdict' = [verdict EXCEPT ![j] = IF outcome \in Q!Verdicts THEN outcome ELSE "error"]
        /\ holds' = [holds EXCEPT ![w] = Q!NoJob] /\ UNCHANGED crashes
    BY <1>1, <1>2 DEF Q!Record, Q!Finish
  <1>7. ASSUME j \in Sound \ Stranded
        PROVE  tried = 0 /\ ~(tried >= ItemLimit)
    <2>1. outcome # "content"
      BY <1>2, <1>7 DEF Q!Outcomes, Q!Verdicts
    <2>2. attempts[j] = 0 /\ status[j] # "running"
      BY <1>7 DEF NothingCharged
    <2>3. QED
      BY <2>1, <2>2, QueueFacts DEF Q!Attempt
  <1> HIDE DEF tried, out
  <1>8. Q!TypeOK'
    <2>1. attempts' \in [Jobs -> 0 .. ItemLimit + 1] /\ infrastructure' \in [Jobs -> 0 .. InfraLimit]
      BY <1>5, <1>6 DEF Q!TypeOK
    <2>2. status' \in [Jobs -> {"absent", "completed", "dead"} \cup Q!Open]
      BY <1>6 DEF Q!TypeOK, Q!Open
    <2>3. reason' \in [Jobs -> Q!Reasons]
      BY <1>6 DEF Q!TypeOK, Q!Reasons
    <2>4. verdict' \in [Jobs -> {"none", "pending", "error"} \cup Q!Verdicts]
      BY <1>6 DEF Q!TypeOK
    <2>5. holds' \in [Workers -> Jobs \cup {Q!NoJob}]
      BY <1>6 DEF Q!TypeOK
    <2>6. QED
      BY <1>4, <1>6, <2>1, <2>2, <2>3, <2>4, <2>5 DEF Q!TypeOK, Distinct
  <1>9. Q!OwnRow'
    BY <1>3, <1>6, QueueFacts DEF Q!OwnRow, Q!TypeOK
  <1>10. Q!JobMatchesVerdict'
    BY <1>6 DEF Q!JobMatchesVerdict, Q!TypeOK, Q!Verdicts
  <1>11. DueAreOpen'
    BY <1>4, <1>6, QueueFacts DEF DueAreOpen, Q!TypeOK
  <1>12. HeldAreDue'
    BY <1>3, <1>4, <1>6, QueueFacts DEF HeldAreDue, Q!TypeOK
  <1>13. NothingCharged'
    BY <1>6, <1>7, QueueFacts DEF NothingCharged, Q!TypeOK
  <1>15. Q!NoJobInLimbo'
    <2>1. status'[j] \in Q!Open => tried < ItemLimit /\ out < InfraLimit
      BY <1>5, <1>6, QueueFacts DEF Q!TypeOK, Q!Open
    <2>2. attempts'[j] = tried /\ infrastructure'[j] = out
      BY <1>6 DEF Q!TypeOK
    <2>3. ASSUME NEW k \in Jobs \ {j}
          PROVE  /\ status'[k] = status[k]
                 /\ attempts'[k] = attempts[k] /\ infrastructure'[k] = infrastructure[k]
      BY <1>6 DEF Q!TypeOK
    <2>4. QED
      BY <2>1, <2>2, <2>3 DEF Q!NoJobInLimbo
  <1>14. QED
    BY <1>8, <1>9, <1>10, <1>11, <1>12, <1>13, <1>15

LEMMA DieStep ==
    ASSUME QueueInv, NEW w \in Workers, Q!Die(w)
    PROVE  QueueInv'
  <1> USE DEF QueueInv, Q!QueueIsConsistent
  <1>1. /\ UNCHANGED <<status, attempts, infrastructure, reason, verdict, line>>
        /\ holds' = [holds EXCEPT ![w] = Q!NoJob]
        /\ holds[w] \in Jobs /\ crashes' = [crashes EXCEPT ![holds[w]] = @ + 1]
        /\ crashes[holds[w]] < MaxCrashes
    BY DEF Q!Die, Q!rows, Q!TypeOK
  <1>2. crashes' \in [Jobs -> 0 .. MaxCrashes] /\ holds' \in [Workers -> Jobs \cup {Q!NoJob}]
    BY <1>1, QueueFacts DEF Q!TypeOK
  <1>3. Q!TypeOK' /\ DueAreOpen' /\ NothingCharged' /\ Q!JobMatchesVerdict' /\ Q!NoJobInLimbo'
    BY <1>1, <1>2 DEF Q!TypeOK, DueAreOpen, NothingCharged, Q!JobMatchesVerdict, Q!NoJobInLimbo
  <1>4. Q!OwnRow' /\ HeldAreDue'
    BY <1>1, QueueFacts DEF Q!OwnRow, HeldAreDue, Q!TypeOK
  <1>5. QED
    BY <1>3, <1>4

LEMMA QueueStep ==
    ASSUME QueueInv, [Q!Next]_(Q!vars)
    PROVE  QueueInv'
  <1>1. ASSUME NEW j \in Jobs, Q!ComeDue(j) \/ Q!LeaseExpires(j)
        PROVE  QueueInv'
    BY <1>1, DueStep, QueueFacts DEF Q!ComeDue, Q!LeaseExpires, Q!Open
  <1>2. ASSUME NEW j \in Jobs, Q!Upload(j) \/ Q!Requeue(j)
        PROVE  QueueInv'
    BY <1>2, RestartStep DEF Q!Upload, Q!Requeue, Q!Afresh, Q!Stopped, Q!Open
  <1>3. CASE UNCHANGED Q!vars
    BY <1>3 DEF Q!vars, Q!rows, QueueInv, Q!QueueIsConsistent, Q!TypeOK, Q!OwnRow,
       Q!JobMatchesVerdict, Q!NoJobInLimbo, DueAreOpen, HeldAreDue, NothingCharged
  <1>4. QED
    BY <1>1, <1>2, <1>3, ClaimStep, FinishStep, DieStep DEF Q!Next

LEMMA QueueAlways == Q!Spec => []QueueInv
  <1>1. Q!Init => QueueInv
    <2> SUFFICES ASSUME Q!Init
                 PROVE  QueueInv
      OBVIOUS
    <2>1. Q!TypeOK
      BY WorkerAssumption DEF Q!Init, Q!TypeOK, Q!ScanQueueAssumption, Q!Open, Q!Verdicts, Q!Reasons
    <2>6. Q!NoJobInLimbo
      BY WorkerAssumption DEF Q!Init, Q!NoJobInLimbo, Q!ScanQueueAssumption, Q!Open
    <2>2. Q!OwnRow /\ Q!JobMatchesVerdict /\ HeldAreDue
      BY DEF Q!Init, Q!OwnRow, Q!JobMatchesVerdict, HeldAreDue, Q!Verdicts
    <2>3. DueAreOpen
      BY DEF Q!Init, DueAreOpen, Members
    <2>4. NothingCharged
      BY WorkerAssumption DEF Q!Init, NothingCharged, Q!ScanQueueAssumption
    <2>5. QED
      BY <2>1, <2>2, <2>3, <2>4, <2>6 DEF QueueInv, Q!QueueIsConsistent
  <1>2. QueueInv /\ [Q!Next]_(Q!vars) => QueueInv'
    BY QueueStep
  <1>3. QED
    BY <1>1, <1>2, PTL DEF Q!Spec

LEMMA QueueWithin == [Next]_vars => [Q!Next]_(Q!vars)
  <1> SUFFICES ASSUME [Next]_vars PROVE [Q!Next]_(Q!vars)
    OBVIOUS
  <1>1. ASSUME UNCHANGED scanning PROVE UNCHANGED Q!vars
    BY <1>1 DEF scanning, Q!vars, Q!rows
  <1>2. CASE UNCHANGED vars
    BY <1>1, <1>2 DEF vars
  <1>3. CASE Next
    BY <1>1, <1>3 DEF Next, PollingStep
  <1>4. QED
    BY <1>2, <1>3

LEMMA QueueRuns == Spec => Q!Spec
  <1>1. Init => Q!Init
    BY DEF Init
  <1>2. QED
    BY <1>1, QueueWithin, PTL DEF Spec, Q!Spec

(* Two workers never scan the same file, and what a transaction holds      *)
(* waits for a verdict; the job and its evidence row agree; and a job that *)
(* waits has something left of both budgets, so that it can be claimed and *)
(* none is in limbo, neither claimed nor requeued ever again.  It holds for*)
(* any number of workers, jobs and crashes and whatever the limits are.    *)
THEOREM QueueStaysConsistent == Spec => []QueueIsConsistent
  <1>1. QueueInv => QueueIsConsistent
    BY DEF QueueInv, QueueIsConsistent
  <1>2. QED
    BY <1>1, QueueRuns, QueueAlways, PTL

(* A file that never failed on its own merits is never reported as having  *)
(* spent its budget: an outage is charged to the other budget, and only a  *)
(* row an older version left running is charged for the takeover.          *)
THEOREM OutageCondemnsNoFile == Spec => []OutageSparesItem
  <1>1. QueueInv => OutageSparesItem
    BY DEF QueueInv, NothingCharged, OutageSparesItem, Q!OutageSparesItem
  <1>2. QED
    BY <1>1, QueueRuns, QueueAlways, PTL

(* No retry, requeue or late transaction replaces a verdict: a job with a  *)
(* verdict is completed, and neither is it claimed again nor requeued.     *)
THEOREM VerdictsAreFinal == Spec => VerdictIsFinal
  <1>1. ASSUME QueueInv, [Q!Next]_(Q!vars), NEW j \in Jobs, verdict[j] \in Q!Verdicts
        PROVE  verdict'[j] = verdict[j]
    <2>1. status[j] = "completed"
      BY <1>1 DEF QueueInv, Q!QueueIsConsistent, Q!JobMatchesVerdict
    <2>2. ASSUME NEW w \in Workers, Q!Finish(w)
          PROVE  verdict'[j] = verdict[j]
      <3>1. holds[w] # j
        BY <1>1, <2>1, <2>2 DEF Q!Finish, QueueInv, Q!QueueIsConsistent, Q!OwnRow, Q!Open
      <3>2. QED
        BY <1>1, <2>2, <3>1 DEF Q!Finish, Q!Record, QueueInv, Q!QueueIsConsistent, Q!TypeOK
    <2>3. ASSUME NEW k \in Jobs, Q!Upload(k) \/ Q!Requeue(k)
          PROVE  verdict'[j] = verdict[j]
      BY <1>1, <2>1, <2>3 DEF Q!Upload, Q!Requeue, Q!Afresh, Q!Stopped, QueueInv, Q!QueueIsConsistent, Q!TypeOK
    <2>4. QED
      BY <1>1, <2>2, <2>3 DEF Q!Next, Q!Claim, Q!Die, Q!ComeDue, Q!LeaseExpires, Q!rows, Q!vars
  <1>2. QueueInv /\ [Q!Next]_(Q!vars)
          => [\A j \in Jobs : verdict[j] \in Q!Verdicts => verdict'[j] = verdict[j]]_verdict
    BY <1>1
  <1>3. QED
    BY <1>2, QueueRuns, QueueAlways, PTL DEF Q!Spec, VerdictIsFinal, Q!VerdictIsFinal

-----------------------------------------------------------------------------
(* The poll loop.                                                          *)

(* What keeps its answers earned: one slot holds one fault, yet what it    *)
(* does not name was used without failing since; and a failed tenancy      *)
(* check stays due, and with it the latch.                                 *)
SlotAccountsForFaults ==
    /\ infrastructureFault = "none" => suspect \cap {"scanner", "storage"} = {}
    /\ infrastructureFault = "scanner" => "storage" \notin suspect
LatchStaysDue == "tenancy" \in suspect => "tenancy" \in due /\ ~enforced

PollInv == H!TypeOK /\ SlotAccountsForFaults /\ LatchStaysDue /\ H!NoClaimUnderLatch

LEMMA PollStep ==
    ASSUME PollInv, [H!Next]_(H!vars)
    PROVE  PollInv'
  <1> USE DEF PollInv, SlotAccountsForFaults, LatchStaysDue, H!TypeOK, H!NoClaimUnderLatch,
      H!queue, H!faults, H!access, H!heartbeat, H!InfrastructureFaults, H!Checks
  <1>1. CASE H!DatabaseFails
    BY <1>1 DEF H!DatabaseFails, H!PollFails
  <1>2. CASE H!Recheck
    BY <1>2 DEF H!Recheck
  <1>3. CASE H!RecheckFails
    BY <1>3 DEF H!RecheckFails, H!PollFails
  <1>4. CASE H!NoRecheck
    BY <1>4 DEF H!NoRecheck
  <1>5. CASE H!Authenticate
    BY <1>5 DEF H!Authenticate, H!PollFails, H!TokenAccepted
  <1>6. CASE H!Empty
    BY <1>6 DEF H!Empty, H!PollSucceeds
  <1>7. CASE H!Verdict
    BY <1>7 DEF H!Verdict, H!PollSucceeds
  <1>8. CASE H!ContentFault
    BY <1>8 DEF H!ContentFault, H!PollSucceeds, H!JobFails
  <1>9. CASE H!ScannerFault
    BY <1>9 DEF H!ScannerFault, H!PollSucceeds, H!JobFails
  <1>10. CASE H!StorageFault
    BY <1>10 DEF H!StorageFault, H!PollSucceeds, H!JobFails
  <1>11. CASE H!Probe
    BY <1>11 DEF H!Probe, H!ScannerReachabilityFaults
  <1>12. CASE H!LookAtQueue
    BY <1>12 DEF H!LookAtQueue, H!QueueSnapshot
  <1>13. CASE H!Sweep
    BY <1>13 DEF H!Sweep
  <1>14. CASE H!SweepFails
    BY <1>14 DEF H!SweepFails
  <1>15. ASSUME NEW p \in Failing, H!Toggle(p)
         PROVE  PollInv'
    BY <1>15 DEF H!Toggle
  <1>16. CASE H!Arrive
    <2>1. dead' \in BOOLEAN
      BY <1>16 DEF H!Arrive
    <2>2. QED
      BY <1>16, <2>1 DEF H!Arrive
  <1>20. CASE H!RetryDue
    BY <1>20 DEF H!RetryDue
  <1>21. CASE H!GoStale
    <2>1. /\ stale' = TRUE
          /\ UNCHANGED <<broken, job, dead, pc, due, authenticated, enforced, pollFailed,
                        infrastructureFault, itemFault, requiresAttention, suspect>>
      BY <1>21 DEF H!GoStale
    <2>2. QED
      BY <2>1
  <1>17. ASSUME NEW check \in H!Checks, H!ComesDue(check)
         PROVE  PollInv'
    BY <1>17 DEF H!ComesDue
  <1>18. CASE UNCHANGED H!vars
    BY <1>18 DEF H!vars
  <1>19. QED
    BY <1>1, <1>2, <1>3, <1>4, <1>5, <1>6, <1>7, <1>8, <1>9, <1>10, <1>11, <1>12, <1>13, <1>14,
       <1>15, <1>16, <1>17, <1>18, <1>20, <1>21 DEF H!Next, H!Poll, H!Environment

LEMMA PollingWithin == [Next]_vars => [H!Next]_(H!vars)
  <1> SUFFICES ASSUME [Next]_vars PROVE [H!Next]_(H!vars)
    OBVIOUS
  <1>1. ASSUME UNCHANGED polling PROVE UNCHANGED H!vars
    BY <1>1 DEF polling, H!vars, H!queue, H!access, H!faults, H!heartbeat
  <1>2. CASE UNCHANGED vars
    BY <1>1, <1>2 DEF vars
  <1>3. CASE Next
    BY <1>1, <1>3 DEF Next, ScanningStep
  <1>4. QED
    BY <1>2, <1>3

LEMMA PollingRuns == Spec => H!Spec
  <1>1. Init => H!Init
    BY DEF Init
  <1>2. QED
    BY <1>1, PollingWithin, PTL DEF Spec, H!Spec

(* The worker never reports ready while the scanner, the storage or the    *)
(* tenancy check failed when the loop last used it, and claims no job      *)
(* under the latch, whatever fails and comes back and in whichever order.  *)
THEOREM WorkerActsOnEvidence == Spec => []ActsOnEvidence
  <1>1. H!Init => PollInv
    BY WorkerAssumption DEF H!Init, PollInv, H!TypeOK, SlotAccountsForFaults, LatchStaysDue,
       H!NoClaimUnderLatch, H!WorkerHealthAssumption, H!Checks
  <1>2. PollInv /\ [H!Next]_(H!vars) => PollInv'
    BY PollStep
  <1>3. PollInv => ActsOnEvidence
    <2> SUFFICES ASSUME PollInv
                 PROVE  H!ReadyIsEarned
      BY DEF PollInv, ActsOnEvidence, H!ActsOnEvidence
    <2>1. CASE ~H!Ready
      BY <2>1 DEF H!ReadyIsEarned, H!Answer
    <2>2. CASE H!Ready
      BY <2>2 DEF H!Ready, H!ReadyIsEarned, PollInv, SlotAccountsForFaults, LatchStaysDue, H!TypeOK
    <2>3. QED
      BY <2>1, <2>2
  <1>4. QED
    BY <1>1, <1>2, <1>3, PollingRuns, PTL DEF H!Spec
=============================================================================
