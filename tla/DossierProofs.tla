---------------------------- MODULE DossierProofs ----------------------------
(***************************************************************************)
(* Theorems about the artifacts of a frozen review (Dossier), for every    *)
(* set of requests, every number of files and any number of faults.        *)
(***************************************************************************)
EXTENDS MCRecords, TLAPS

Active(r) == stage[r] # "idle"

(* A request that has inserted holds the review, so the reset waits for it *)
(* and is final: nothing is recorded after it.                             *)
Stages ==
    \A r \in Requests :
        /\ stage[r] = "writing" => next[r] <= FileCount
        /\ stage[r] = "committing" => next[r] = FileCount + 1 /\ snapshot
ResetIsFinal ==
    /\ snapshot => erasing = {}
    /\ ~snapshot => ~recorded

(* What a request under way has noted is there, as it was written, while   *)
(* no reset takes files that a lost commit made everybody's.               *)
HeldIsWhole ==
    snapshot \/ faults["lost"] = 0 =>
        \A r \in Requests : Active(r) => \A i \in created[r] : file[i] = "whole"

(* As long as every commit is heard: the rows have their files, nobody     *)
(* else under way has noted one, and the same of what a reset has still to *)
(* remove.                                                                 *)
HeardOwnsAll ==
    faults["lost"] = 0 /\ recorded =>
        /\ \A i \in G!Files : file[i] = "whole"
        /\ \A r \in Requests : Active(r) => created[r] = {}
HeardErasesItsOwn ==
    faults["lost"] = 0 =>
        /\ \A i \in erasing : file[i] = "whole"
        /\ \A r \in Requests : Active(r) => created[r] \cap erasing = {}

(* Every file on the volume is on somebody's list.                         *)
NoneIsForgotten ==
    ~G!LeftBehind =>
        \A i \in G!Files :
            file[i] # "absent" =>
                recorded \/ i \in erasing \/ \E r \in Requests : Active(r) /\ i \in created[r]

DossierInv ==
    /\ G!TypeOK /\ G!OwnFiles
    /\ Stages /\ ResetIsFinal
    /\ HeldIsWhole /\ HeardOwnsAll /\ HeardErasesItsOwn
    /\ NoneIsForgotten

LEMMA Constants == FileCount \in Nat \ {0} /\ MaxFaults \in Nat /\ Faults \subseteq G!Kinds
  BY RecordsAssumption DEF G!DossierAssumption

(* A fault is counted, and none is taken back.                             *)
LEMMA HappensCounts ==
    ASSUME G!TypeOK, NEW kind \in G!Kinds, G!Happens(kind)
    PROVE  /\ faults' \in [G!Kinds -> 0 .. MaxFaults]
           /\ faults'[kind] # 0
           /\ faults'["lost"] = 0 => faults["lost"] = 0
           /\ ~G!LeftBehind' => ~G!LeftBehind
           /\ kind \in {"crash", "partial", "removal"} => G!LeftBehind'
  <1>1. faults[kind] \in Nat /\ faults[kind] < MaxFaults /\ faults[kind] + 1 \in 0 .. MaxFaults
    BY Constants DEF G!TypeOK, G!Happens
  <1>2. faults' \in [G!Kinds -> 0 .. MaxFaults] /\ faults' = [faults EXCEPT ![kind] = faults[kind] + 1]
    BY <1>1 DEF G!TypeOK, G!Happens
  <1>3. \A k \in G!Kinds : /\ faults[k] \in Nat /\ faults'[k] \in Nat
                           /\ faults'[k] = IF k = kind THEN faults[k] + 1 ELSE faults[k]
    BY <1>2, Constants DEF G!TypeOK
  <1>4. \A k \in {"crash", "partial", "removal", "lost"} : k \in G!Kinds
    BY DEF G!Kinds
  <1>5. QED
    BY <1>2, <1>3, <1>4 DEF G!LeftBehind

(* What a step says that only sends a request somewhere else.              *)
LEMMA BecomeMoves ==
    ASSUME G!TypeOK, NEW r \in Requests,
           NEW where \in {"idle", "writing", "committing", "cleaning"}, G!Become(r, where)
    PROVE  /\ stage' \in [Requests -> {"idle", "writing", "committing", "cleaning"}]
           /\ \A s \in Requests : stage'[s] = IF s = r THEN where ELSE stage[s]
  BY DEF G!TypeOK, G!Become

LEMMA StartStep ==
    ASSUME DossierInv, NEW r \in Requests, G!Start(r)
    PROVE  DossierInv'
  <1>1. /\ stage[r] = "idle" /\ ~recorded /\ snapshot
        /\ \A s \in Requests : stage'[s] = IF s = r THEN "writing" ELSE stage[s]
        /\ next' = [next EXCEPT ![r] = 1] /\ created' = [created EXCEPT ![r] = {}]
        /\ UNCHANGED <<recorded, file, faults, snapshot, erasing>>
    BY BecomeMoves DEF DossierInv, G!Start, G!resetVars
  <1>2. stage' \in [Requests -> {"idle", "writing", "committing", "cleaning"}]
    BY BecomeMoves DEF DossierInv, G!Start
  <1>4. /\ \A s \in Requests : s # r => created'[s] = created[s] /\ next'[s] = next[s]
        /\ created'[r] = {} /\ next'[r] = 1 /\ 1 .. next'[r] - 1 = {}
        /\ created' \in [Requests -> SUBSET G!Files]
        /\ next' \in [Requests -> 1 .. FileCount + 1]
    BY <1>1, Constants DEF DossierInv, G!TypeOK
  <1>3. G!TypeOK'
    BY <1>1, <1>2, <1>4 DEF DossierInv, G!TypeOK
  <1>5. (G!OwnFiles /\ HeldIsWhole /\ HeardOwnsAll /\ HeardErasesItsOwn)'
    BY <1>1, <1>4 DEF DossierInv, G!OwnFiles, HeldIsWhole, HeardOwnsAll, HeardErasesItsOwn, Active
  <1>6. (Stages /\ ResetIsFinal)'
    BY <1>1, <1>4, Constants DEF DossierInv, Stages, ResetIsFinal
  <1>7. NoneIsForgotten'
    <2>1. G!LeftBehind' <=> G!LeftBehind
      BY <1>1 DEF G!LeftBehind
    <2>2. QED
      BY <1>1, <1>4, <2>1 DEF DossierInv, NoneIsForgotten, Active
  <1>8. QED
    BY <1>3, <1>5, <1>6, <1>7 DEF DossierInv

(* A request that only goes on to the clean-up.                            *)
LEMMA GiveUpStep ==
    ASSUME DossierInv, NEW r \in Requests, G!Exists(r) \/ G!StatementFails(r)
    PROVE  DossierInv'
  <1>1. /\ stage[r] \in {"writing", "committing"}
        /\ stage' \in [Requests -> {"idle", "writing", "committing", "cleaning"}]
        /\ \A s \in Requests : stage'[s] = IF s = r THEN "cleaning" ELSE stage[s]
        /\ UNCHANGED <<recorded, file, next, created, snapshot, erasing>>
    BY BecomeMoves DEF DossierInv, G!Exists, G!StatementFails, G!resetVars
  <1>2. /\ faults' \in [G!Kinds -> 0 .. MaxFaults]
        /\ faults'["lost"] = 0 => faults["lost"] = 0
        /\ ~G!LeftBehind' => ~G!LeftBehind
    <2>1. CASE G!Exists(r)
      BY <2>1 DEF G!Exists, DossierInv, G!TypeOK, G!LeftBehind
    <2>2. CASE G!StatementFails(r)
      BY <2>2, HappensCounts DEF G!StatementFails, DossierInv, G!Kinds
    <2>3. QED
      BY <2>1, <2>2
  <1>3. G!TypeOK'
    BY <1>1, <1>2 DEF DossierInv, G!TypeOK
  <1>4. \A s \in Requests : Active(s)' <=> Active(s)
    BY <1>1 DEF Active
  <1>5. (G!OwnFiles /\ HeldIsWhole /\ HeardOwnsAll /\ HeardErasesItsOwn)'
    BY <1>1, <1>2, <1>4 DEF DossierInv, G!OwnFiles, HeldIsWhole, HeardOwnsAll, HeardErasesItsOwn, Active
  <1>6. (Stages /\ ResetIsFinal)'
    BY <1>1 DEF DossierInv, Stages, ResetIsFinal
  <1>7. NoneIsForgotten'
    BY <1>1, <1>2, <1>4 DEF DossierInv, NoneIsForgotten
  <1>8. QED
    BY <1>3, <1>5, <1>6, <1>7 DEF DossierInv

LEMMA WriteStep ==
    ASSUME DossierInv, NEW r \in Requests, G!Write(r)
    PROVE  DossierInv'
  <1>1. PICK n \in G!Files : n = next[r]
    BY Constants DEF DossierInv, Stages, G!TypeOK, G!Write, G!Files
  <1>2. PICK where \in {"writing", "committing", "cleaning"} :
            /\ where = G!AfterWrite(r)
            /\ ~snapshot => where = "cleaning"
            /\ where = "writing" => n # FileCount
            /\ where = "committing" => snapshot /\ n = FileCount
    BY <1>1 DEF G!AfterWrite, DossierInv, G!TypeOK
  <1>3. /\ stage[r] = "writing" /\ file[n] = "absent"
        /\ stage' \in [Requests -> {"idle", "writing", "committing", "cleaning"}]
        /\ \A s \in Requests : stage'[s] = IF s = r THEN where ELSE stage[s]
        /\ file' = [file EXCEPT ![n] = "whole"]
        /\ next' = [next EXCEPT ![r] = n + 1]
        /\ created' = [created EXCEPT ![r] = created[r] \cup {n}]
        /\ UNCHANGED <<recorded, faults, snapshot, erasing>>
    BY <1>1, <1>2, BecomeMoves DEF DossierInv, G!Write, G!resetVars
  <1>4. created[r] = 1 .. n - 1 /\ n \in 1 .. FileCount /\ n + 1 \in 1 .. FileCount + 1
    BY <1>1, <1>3, Constants DEF DossierInv, G!TypeOK, G!Files
  <1>5. /\ \A s \in Requests : s # r => created'[s] = created[s] /\ next'[s] = next[s]
        /\ created'[r] = created[r] \cup {n} /\ next'[r] = n + 1
        /\ \A i \in G!Files : file'[i] = IF i = n THEN "whole" ELSE file[i]
        /\ created' \in [Requests -> SUBSET G!Files]
        /\ next' \in [Requests -> 1 .. FileCount + 1]
        /\ file' \in [G!Files -> {"absent", "partial", "whole"}]
    BY <1>1, <1>3, <1>4 DEF DossierInv, G!TypeOK
  <1>6. created'[r] = 1 .. next'[r] - 1
    BY <1>4, <1>5
  <1>7. G!TypeOK'
    BY <1>3, <1>5, <1>6 DEF DossierInv, G!TypeOK
  <1>8. \A s \in Requests : Active(s)' <=> Active(s)
    BY <1>3 DEF Active
  <1>9. snapshot \/ faults["lost"] = 0 =>
            \A s \in Requests : Active(s) => n \notin created[s]
    BY <1>3 DEF DossierInv, HeldIsWhole
  <1>10. (G!OwnFiles /\ HeldIsWhole)'
    BY <1>3, <1>5, <1>8, <1>9 DEF DossierInv, G!OwnFiles, HeldIsWhole, Active, G!TypeOK
  <1>11. HeardOwnsAll'
    BY <1>3, <1>5 DEF DossierInv, HeardOwnsAll
  <1>12. HeardErasesItsOwn'
    BY <1>3, <1>5, <1>8 DEF DossierInv, HeardErasesItsOwn, G!TypeOK
  <1>13. (Stages /\ ResetIsFinal)'
    BY <1>2, <1>3, <1>4, <1>5, Constants DEF DossierInv, Stages, ResetIsFinal
  <1>14. NoneIsForgotten'
    <2>1. G!LeftBehind' <=> G!LeftBehind
      BY <1>3 DEF G!LeftBehind
    <2>2. Active(r)' /\ \A s \in Requests : created[s] \subseteq created'[s]
      BY <1>3, <1>5 DEF Active
    <2>3. QED
      BY <1>3, <1>5, <1>8, <2>1, <2>2 DEF DossierInv, NoneIsForgotten
  <1>15. QED
    BY <1>7, <1>10, <1>11, <1>12, <1>13, <1>14 DEF DossierInv

(* The part that stays is a fault that leaves a file behind.               *)
LEMMA WriteBreaksStep ==
    ASSUME DossierInv, NEW r \in Requests, G!WriteBreaks(r)
    PROVE  DossierInv'
  <1>1. PICK n \in G!Files : n = next[r]
    BY Constants DEF DossierInv, Stages, G!TypeOK, G!WriteBreaks, G!Files
  <1>2. /\ stage[r] = "writing" /\ file[n] = "absent"
        /\ stage' \in [Requests -> {"idle", "writing", "committing", "cleaning"}]
        /\ \A s \in Requests : stage'[s] = IF s = r THEN "cleaning" ELSE stage[s]
        /\ file' = [file EXCEPT ![n] = "partial"]
        /\ UNCHANGED <<recorded, next, created, snapshot, erasing>>
    BY <1>1, BecomeMoves DEF DossierInv, G!WriteBreaks, G!resetVars
  <1>3. /\ faults' \in [G!Kinds -> 0 .. MaxFaults]
        /\ faults'["lost"] = 0 => faults["lost"] = 0
        /\ G!LeftBehind'
    BY HappensCounts DEF DossierInv, G!WriteBreaks, G!Kinds
  <1>4. /\ \A i \in G!Files : file'[i] = IF i = n THEN "partial" ELSE file[i]
        /\ file' \in [G!Files -> {"absent", "partial", "whole"}]
    BY <1>2 DEF DossierInv, G!TypeOK
  <1>5. G!TypeOK'
    BY <1>2, <1>3, <1>4 DEF DossierInv, G!TypeOK
  <1>6. \A s \in Requests : Active(s)' <=> Active(s)
    BY <1>2 DEF Active
  <1>7. (G!OwnFiles /\ HeldIsWhole /\ HeardOwnsAll /\ HeardErasesItsOwn)'
    BY <1>2, <1>3, <1>4, <1>6
       DEF DossierInv, G!OwnFiles, HeldIsWhole, HeardOwnsAll, HeardErasesItsOwn, Active, G!TypeOK
  <1>8. (Stages /\ ResetIsFinal /\ NoneIsForgotten)'
    BY <1>2, <1>3 DEF DossierInv, Stages, ResetIsFinal, NoneIsForgotten
  <1>9. QED
    BY <1>5, <1>7, <1>8 DEF DossierInv

LEMMA CommitStep ==
    ASSUME DossierInv, NEW r \in Requests, G!Commit(r) \/ G!CommitUnheard(r)
    PROVE  DossierInv'
  <1>1. PICK where \in {"idle", "cleaning"} :
            /\ stage' \in [Requests -> {"idle", "writing", "committing", "cleaning"}]
            /\ \A s \in Requests : stage'[s] = IF s = r THEN where ELSE stage[s]
            /\ where = "cleaning" => faults'["lost"] # 0
            /\ where = "idle" => faults' = faults
    <2>1. CASE G!Commit(r)
      BY <2>1, BecomeMoves DEF DossierInv, G!Commit
    <2>2. CASE G!CommitUnheard(r)
      BY <2>2, BecomeMoves, HappensCounts DEF DossierInv, G!CommitUnheard, G!Kinds
    <2>3. QED
      BY <2>1, <2>2
  <1>2. /\ stage[r] = "committing" /\ recorded' = TRUE
        /\ UNCHANGED <<file, next, created, snapshot, erasing>>
    BY DEF G!Commit, G!CommitUnheard, G!resetVars
  <1>3. faults' \in [G!Kinds -> 0 .. MaxFaults]
    <2>1. CASE G!Commit(r)
      BY <2>1 DEF DossierInv, G!Commit, G!TypeOK
    <2>2. CASE G!CommitUnheard(r)
      BY <2>2, HappensCounts DEF DossierInv, G!CommitUnheard, G!Kinds
    <2>3. QED
      BY <2>1, <2>2
  <1>4. snapshot /\ created[r] = G!Files
    BY <1>2, Constants DEF DossierInv, Stages, G!TypeOK, G!Files
  <1>5. G!TypeOK'
    BY <1>1, <1>2, <1>3 DEF DossierInv, G!TypeOK
  <1>6. \A s \in Requests : /\ Active(s)' => Active(s)
                            /\ Active(s)' /\ s # r => created[s] = {}
    <2>1. \A s \in Requests : Active(s)' => Active(s)
      BY <1>1, <1>2 DEF Active
    <2>2. \A s \in Requests : Active(s) /\ s # r => created[s] \cap created[r] = {}
      BY <1>2, <1>4 DEF DossierInv, G!OwnFiles, Active
    <2>3. \A s \in Requests : created[s] \subseteq G!Files
      BY DEF DossierInv, G!TypeOK
    <2>4. QED
      BY <1>4, <2>1, <2>2, <2>3
  <1>7. (G!OwnFiles /\ HeldIsWhole)'
    BY <1>2, <1>4, <1>6 DEF DossierInv, G!OwnFiles, HeldIsWhole, Active
  <1>8. HeardOwnsAll'
    <2>1. \A i \in G!Files : file[i] = "whole"
      BY <1>2, <1>4 DEF DossierInv, HeldIsWhole, Active
    <2>2. faults'["lost"] = 0 => ~Active(r)'
      BY <1>1 DEF Active
    <2>3. QED
      BY <1>2, <1>6, <2>1, <2>2 DEF HeardOwnsAll
  <1>9. (Stages /\ ResetIsFinal /\ HeardErasesItsOwn)'
    <2>1. erasing' = {} /\ snapshot'
      BY <1>2, <1>4 DEF DossierInv, ResetIsFinal
    <2>2. QED
      BY <1>1, <1>2, <2>1 DEF DossierInv, Stages, ResetIsFinal, HeardErasesItsOwn
  <1>10. NoneIsForgotten'
    BY <1>2 DEF NoneIsForgotten
  <1>11. QED
    BY <1>5, <1>7, <1>8, <1>9, <1>10 DEF DossierInv

(* The last path is removed, or one more of them, which nobody else has    *)
(* unless a commit was lost and the review is gone.                        *)
LEMMA CleanUpStep ==
    ASSUME DossierInv, NEW r \in Requests, G!CleanUp(r)
    PROVE  DossierInv'
  <1>0. /\ stage[r] = "cleaning"
        /\ UNCHANGED <<recorded, next, faults, snapshot, erasing>>
    BY DEF G!CleanUp, G!resetVars
  <1>a. G!LeftBehind' <=> G!LeftBehind
    BY <1>0 DEF G!LeftBehind
  <1>1. ASSUME created[r] = {}, G!Become(r, "idle"), UNCHANGED <<file, created>>
        PROVE  DossierInv'
    <2>1. /\ stage' \in [Requests -> {"idle", "writing", "committing", "cleaning"}]
          /\ \A s \in Requests : stage'[s] = IF s = r THEN "idle" ELSE stage[s]
      BY <1>1, BecomeMoves DEF DossierInv
    <2>2. G!TypeOK'
      BY <1>0, <1>1, <2>1 DEF DossierInv, G!TypeOK
    <2>3. \A s \in Requests : (Active(s)' => Active(s)) /\ (Active(s) /\ s # r => Active(s)')
      BY <2>1 DEF Active
    <2>4. (G!OwnFiles /\ HeldIsWhole /\ HeardOwnsAll /\ HeardErasesItsOwn)'
      BY <1>0, <1>1, <2>1, <2>3
         DEF DossierInv, G!OwnFiles, HeldIsWhole, HeardOwnsAll, HeardErasesItsOwn, Active
    <2>5. (Stages /\ ResetIsFinal)'
      BY <1>0, <2>1 DEF DossierInv, Stages, ResetIsFinal
    <2>6. NoneIsForgotten'
      BY <1>0, <1>1, <1>a, <2>3 DEF DossierInv, NoneIsForgotten
    <2>7. QED
      BY <2>2, <2>4, <2>5, <2>6 DEF DossierInv
  <1>2. ASSUME NEW first \in created[r], file' = [file EXCEPT ![first] = "absent"],
               created' = [created EXCEPT ![r] = created[r] \ {first}], UNCHANGED stage
        PROVE  DossierInv'
    <2>1. /\ first \in G!Files
          /\ \A i \in G!Files : file'[i] = IF i = first THEN "absent" ELSE file[i]
          /\ file' \in [G!Files -> {"absent", "partial", "whole"}]
          /\ created' \in [Requests -> SUBSET G!Files]
          /\ created'[r] = created[r] \ {first}
          /\ \A s \in Requests : s # r => created'[s] = created[s]
      BY <1>2 DEF DossierInv, G!TypeOK
    <2>2. G!TypeOK'
      BY <1>0, <1>2, <2>1 DEF DossierInv, G!TypeOK
    <2>3. \A s \in Requests : Active(s)' <=> Active(s)
      BY <1>2 DEF Active
    <2>4. snapshot \/ faults["lost"] = 0 =>
              \A s \in Requests : Active(s) /\ s # r => first \notin created[s]
      BY <1>0, <1>2 DEF DossierInv, G!OwnFiles, Active
    <2>5. (G!OwnFiles /\ HeldIsWhole)'
      BY <1>0, <1>2, <2>1, <2>3, <2>4 DEF DossierInv, G!OwnFiles, HeldIsWhole, Active, G!TypeOK
    <2>6. HeardOwnsAll'
      BY <1>0, <1>2 DEF DossierInv, HeardOwnsAll, Active
    <2>7. HeardErasesItsOwn'
      <3>1. faults["lost"] = 0 => first \notin erasing
        BY <1>0, <1>2 DEF DossierInv, HeardErasesItsOwn, Active
      <3>2. QED
        BY <1>0, <2>1, <2>3, <3>1 DEF DossierInv, HeardErasesItsOwn, G!TypeOK
    <2>8. (Stages /\ ResetIsFinal)'
      BY <1>0, <1>2 DEF DossierInv, Stages, ResetIsFinal
    <2>9. NoneIsForgotten'
      BY <1>0, <1>a, <2>1, <2>3 DEF DossierInv, NoneIsForgotten
    <2>10. QED
      BY <2>2, <2>5, <2>6, <2>7, <2>8, <2>9 DEF DossierInv
  <1>3. QED
    BY <1>1, <1>2 DEF G!CleanUp

LEMMA CrashStep ==
    ASSUME DossierInv, G!Crash
    PROVE  DossierInv'
  <1>1. /\ faults' \in [G!Kinds -> 0 .. MaxFaults]
        /\ faults'["lost"] = 0 => faults["lost"] = 0
        /\ G!LeftBehind'
    BY HappensCounts DEF DossierInv, G!Crash, G!Kinds
  <1>2. /\ stage' = [r \in Requests |-> "idle"] /\ erasing' = {}
        /\ UNCHANGED <<recorded, file, next, created, snapshot>>
    BY DEF G!Crash
  <1>3. QED
    BY <1>1, <1>2 DEF DossierInv, G!TypeOK, G!OwnFiles, Stages, ResetIsFinal, HeldIsWhole,
        HeardOwnsAll, HeardErasesItsOwn, NoneIsForgotten, Active

(* Nobody has inserted, so who writes has created nothing; and who cleans  *)
(* up beside rows that are there has nothing left to remove.               *)
LEMMA ResetStep ==
    ASSUME DossierInv, G!Reset
    PROVE  DossierInv'
  <1>1. /\ snapshot /\ snapshot' = FALSE /\ recorded' = FALSE
        /\ \A r \in Requests : ~G!Inserted(r)
        /\ erasing' = IF recorded THEN G!Files ELSE {}
        /\ UNCHANGED <<file, stage, next, created, faults>>
    BY DEF G!Reset
  <1>2. G!TypeOK'
    BY <1>1 DEF DossierInv, G!TypeOK
  <1>3. (G!OwnFiles /\ HeldIsWhole /\ HeardOwnsAll)'
    BY <1>1 DEF DossierInv, G!OwnFiles, HeldIsWhole, HeardOwnsAll, Active
  <1>4. HeardErasesItsOwn'
    BY <1>1 DEF DossierInv, HeardOwnsAll, HeardErasesItsOwn, Active
  <1>5. (Stages /\ ResetIsFinal)'
    BY <1>1 DEF DossierInv, Stages, ResetIsFinal, G!Inserted
  <1>6. NoneIsForgotten'
    <2>1. G!LeftBehind' <=> G!LeftBehind
      BY <1>1 DEF G!LeftBehind
    <2>2. \A r \in Requests : Active(r)' <=> Active(r)
      BY <1>1 DEF Active
    <2>3. erasing = {}
      BY <1>1 DEF DossierInv, ResetIsFinal
    <2>4. QED
      BY <1>1, <2>1, <2>2, <2>3 DEF DossierInv, NoneIsForgotten
  <1>7. QED
    BY <1>2, <1>3, <1>4, <1>5, <1>6 DEF DossierInv

LEMMA EraseStep ==
    ASSUME DossierInv, NEW i \in G!Files, G!RemoveKey(i) \/ G!RemovalFails(i)
    PROVE  DossierInv'
  <1>1. /\ i \in erasing /\ erasing' = erasing \ {i} /\ ~snapshot
        /\ UNCHANGED <<recorded, stage, next, created, snapshot>>
    BY DEF DossierInv, ResetIsFinal, G!RemoveKey, G!RemovalFails
  <1>2. /\ faults' \in [G!Kinds -> 0 .. MaxFaults]
        /\ faults'["lost"] = 0 => faults["lost"] = 0
        /\ ~G!LeftBehind' => ~G!LeftBehind
        /\ (file' = file /\ G!LeftBehind') \/ file' = [file EXCEPT ![i] = "absent"]
    <2>1. CASE G!RemoveKey(i)
      BY <2>1 DEF DossierInv, G!TypeOK, G!RemoveKey, G!LeftBehind
    <2>2. CASE G!RemovalFails(i)
      BY <2>2, HappensCounts DEF DossierInv, G!RemovalFails, G!Kinds
    <2>3. QED
      BY <2>1, <2>2
  <1>3. /\ file' \in [G!Files -> {"absent", "partial", "whole"}]
        /\ \A k \in G!Files : k # i => file'[k] = file[k]
        /\ G!LeftBehind' \/ file'[i] = "absent"
    BY <1>2 DEF DossierInv, G!TypeOK
  <1>4. G!TypeOK'
    BY <1>1, <1>2, <1>3 DEF DossierInv, G!TypeOK
  <1>5. \A r \in Requests : Active(r)' <=> Active(r)
    BY <1>1 DEF Active
  <1>6. faults["lost"] = 0 => \A r \in Requests : Active(r) => i \notin created[r]
    BY <1>1 DEF DossierInv, HeardErasesItsOwn
  <1>7. (G!OwnFiles /\ HeldIsWhole /\ HeardOwnsAll /\ HeardErasesItsOwn)'
    BY <1>1, <1>2, <1>3, <1>5, <1>6
       DEF DossierInv, G!OwnFiles, HeldIsWhole, HeardOwnsAll, HeardErasesItsOwn, Active, G!TypeOK,
           ResetIsFinal
  <1>8. (Stages /\ ResetIsFinal)'
    BY <1>1 DEF DossierInv, Stages, ResetIsFinal
  <1>9. NoneIsForgotten'
    BY <1>1, <1>2, <1>3, <1>5 DEF DossierInv, NoneIsForgotten
  <1>10. QED
    BY <1>4, <1>7, <1>8, <1>9 DEF DossierInv

LEMMA DossierWithin == [Next]_vars => [G!Next]_(G!vars)
  <1> SUFFICES ASSUME [Next]_vars PROVE [G!Next]_(G!vars)
    OBVIOUS
  <1>1. ASSUME UNCHANGED dossier PROVE UNCHANGED G!vars
    BY <1>1 DEF dossier, G!vars
  <1>2. CASE UNCHANGED vars
    BY <1>1, <1>2 DEF vars
  <1>3. CASE Next
    BY <1>1, <1>3 DEF Next, LifecycleStep, FreezingStep, TransactionsStep
  <1>4. QED
    BY <1>2, <1>3

LEMMA DossierRuns == Spec => G!Spec
  <1>1. Init => G!Init
    BY DEF Init
  <1>2. QED
    BY <1>1, DossierWithin, PTL DEF Spec, G!Spec

(* Dossier: behind the rows of a dossier there are whole files that nobody *)
(* else holds or removes, through any interleaving of requests that race,  *)
(* fail, run into a full volume, crash or lose their commit's answer, as   *)
(* far as each part says; and a reset leaves none of them.                 *)
THEOREM DossierStaysThere == Spec => []DossierIsThere
  <1>1. G!Init => DossierInv
    <2>1. 1 .. 1 - 1 = {} /\ 0 \in 0 .. MaxFaults /\ 1 \in 1 .. FileCount + 1 /\ 1 <= FileCount
      BY Constants
    <2>2. ASSUME G!Init
          PROVE  G!TypeOK
      <3>1. /\ next \in [Requests -> 1 .. FileCount + 1] /\ faults \in [G!Kinds -> 0 .. MaxFaults]
            /\ created \in [Requests -> SUBSET G!Files]
        BY <2>1, <2>2 DEF G!Init
      <3>2. \A r \in Requests : stage[r] = "idle"
        BY <2>2 DEF G!Init
      <3>3. QED
        BY <2>2, <3>1, <3>2 DEF G!Init, G!TypeOK
    <2>3. QED
      BY <2>1, <2>2, ZenonT(60) DEF G!Init, DossierInv, G!OwnFiles, Stages, ResetIsFinal, HeldIsWhole,
          HeardOwnsAll, HeardErasesItsOwn, NoneIsForgotten, Active
  <1>2. DossierInv /\ [G!Next]_(G!vars) => DossierInv'
    <2>1. ASSUME DossierInv, UNCHANGED G!vars
          PROVE  DossierInv'
      BY <2>1 DEF G!vars, DossierInv, G!TypeOK, G!OwnFiles, Stages, ResetIsFinal, HeldIsWhole,
          HeardOwnsAll, HeardErasesItsOwn, NoneIsForgotten, Active, G!LeftBehind
    <2>2. ASSUME DossierInv, NEW r \in Requests, G!Step(r)
          PROVE  DossierInv'
      BY <2>1, <2>2, StartStep, GiveUpStep, WriteStep, WriteBreaksStep, CommitStep, CleanUpStep
         DEF G!Step, G!Replay
    <2>3. QED
      BY <2>1, <2>2, CrashStep, ResetStep, EraseStep DEF G!Next
  <1>3. DossierInv => DossierIsThere
    <2> SUFFICES ASSUME DossierInv
                 PROVE  DossierIsThere
      OBVIOUS
    <2>1. G!HeardIsThere
      BY DEF DossierInv, HeardOwnsAll, G!HeardIsThere, G!RecordedIsThere, G!Download, Active
    <2>2. G!ResetErases
      BY DEF DossierInv, ResetIsFinal, NoneIsForgotten, G!ResetErases, Active
    <2>3. QED
      BY <2>1, <2>2 DEF DossierInv, DossierIsThere
  <1>4. QED
    BY <1>1, <1>2, <1>3, DossierRuns, PTL DEF G!Spec
=============================================================================
