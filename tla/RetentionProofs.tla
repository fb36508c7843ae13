--------------------------- MODULE RetentionProofs ---------------------------
(***************************************************************************)
(* Theorems about Retention, for every number of workers and rows and any  *)
(* bound on crashes, storage errors, outages and stalls.                   *)
(***************************************************************************)
EXTENDS Retention, TLAPS

Labels == {"idle", "claim"} \cup Recovering \cup Deleting \cup Either
DiskTyped == original \in [Evidence -> BOOLEAN] /\ copies \in [Evidence -> SUBSET Nat]

-----------------------------------------------------------------------------
(* Type correctness.                                                       *)

(* The fields of a claim have their types.                                 *)
LEMMA ClaimFields ==
    ASSUME TypeOK, NEW w \in Workers
    PROVE  /\ Row(w) \in Evidence \cup {None}
           /\ Operation(w) \in Nat
           /\ claim[w].generation \in Nat
  BY DEF TypeOK, Row, Operation

(* Renaming and removing keep the volume's type.                           *)
LEMMA DiskType ==
    ASSUME TypeOK, NEW w \in Workers, NEW path,
           MoveOut(w) \/ MoveBack(w) \/ Remove(w, path)
    PROVE  DiskTyped'
  <1>1. CASE MoveOut(w)
    <2>1. original' \in [Evidence -> BOOLEAN]
      BY <1>1 DEF MoveOut, TypeOK
    <2>2. copies' \in [Evidence -> SUBSET Nat]
      BY <1>1, ClaimFields DEF MoveOut, TypeOK
    <2>3. QED
      BY <2>1, <2>2 DEF DiskTyped
  <1>2. CASE MoveBack(w)
    BY <1>2 DEF DiskTyped, TypeOK, MoveBack
  <1>3. CASE Remove(w, path)
    BY <1>3 DEF DiskTyped, TypeOK, Remove
  <1>4. QED
    BY <1>1, <1>2, <1>3

(* A step that moves the sweep, and perhaps the disk and what the sweep    *)
(* has seen, keeps the types.                                              *)
LEMMA StepType ==
    ASSUME TypeOK, NEW w \in Workers, NEW label \in Labels, Goto(w, label), Quiet \/ Fault,
           DiskTyped', seen' \in [Workers -> SUBSET Nat], UNCHANGED <<rowVars, envVars, claim>>
    PROVE  TypeOK'
  <1>1. faults' \in Nat
    BY DEF Quiet, Fault, TypeOK
  <1>2. pc' \in [Workers -> Labels]
    BY DEF Goto, TypeOK, Labels
  <1>3. QED
    BY <1>1, <1>2 DEF TypeOK, DiskTyped, rowVars, envVars, Labels

LEMMA ProceedType ==
    ASSUME TypeOK, NEW w \in Workers, NEW label \in Labels,
           Proceed(w, label) \/ Fail(w, label)
    PROVE  TypeOK'
  <1>1. DiskTyped' /\ seen' \in [Workers -> SUBSET Nat]
    BY DEF Proceed, Fail, TypeOK, DiskTyped, diskVars
  <1>2. QED
    BY <1>1, StepType DEF Proceed, Fail

LEMMA SeeType ==
    ASSUME TypeOK, NEW w \in Workers, NEW label \in Labels, NEW found \in SUBSET Nat,
           See(w, found, label)
    PROVE  TypeOK'
  <1>1. DiskTyped' /\ seen' \in [Workers -> SUBSET Nat]
    BY DEF See, TypeOK, DiskTyped, diskVars
  <1>2. QED
    BY <1>1, StepType DEF See

(* A step that settles the row keeps the types.                            *)
LEMMA SettleType ==
    ASSUME TypeOK, NEW w \in Workers, NEW label \in Labels, Goto(w, label), Quiet \/ Fault,
           NEW outcome \in {"retained", "deleted", "integrity_unknown"}, Settle(w, outcome),
           recorded' \in [Evidence -> Nat], operation' \in [Evidence -> Nat]
    PROVE  TypeOK'
  <1>1. faults' \in Nat /\ pc' \in [Workers -> Labels]
    BY DEF Quiet, Fault, TypeOK, Goto, Labels
  <1>2. /\ status' \in [Evidence -> {"retained", "deleting", "deleted", "integrity_unknown"}]
        /\ owner' \in [Evidence -> Workers \cup {None}]
        /\ lease' \in [Evidence -> {"none", "live", "expired"}]
    BY DEF Settle, TypeOK
  <1>3. QED
    BY <1>1, <1>2 DEF TypeOK, Settle, diskVars, envVars, Labels

(* What the volume shows of the copies are copies.                         *)
LEMMA SeenCopies ==
    ASSUME TypeOK, NEW w \in Workers, Row(w) \in Evidence
    PROVE  CopiesSeen(Row(w)) \in SUBSET Nat /\ TombstonesSeen(Row(w)) \in SUBSET Nat
  BY DEF TypeOK, CopiesSeen, TombstonesSeen

(* Every action of a sweep keeps the types; "some label" is the label the  *)
(* action goes to, found by SMT among Labels.                              *)
LEMMA SweepType ==
    ASSUME TypeOK, NEW w \in Workers, Sweep(w), Busy(w) => Row(w) \in Evidence
    PROVE  TypeOK'
  <1> USE DEF Labels, Recovering, Deleting, Either
  <1>1. CASE NothingStranded(w) \/ NothingToDelete(w) \/ RenewLease(w) \/ MoveFailed(w)
             \/ AfterFailedMove(w) \/ AssertRoot(w) \/ CheckOriginal(w) \/ CheckRest(w)
             \/ ConfirmRestored(w) \/ CheckReappeared(w) \/ ListSurvivors(w)
    <2>1. \E label \in Labels : Proceed(w, label) \/ Fail(w, label)
      BY <1>1 DEF NothingStranded, NothingToDelete, RenewLease, MoveFailed, AfterFailedMove,
         AssertRoot, CheckOriginal, CheckRest, ConfirmRestored, CheckReappeared, ListSurvivors
    <2>2. QED
      BY <2>1, ProceedType
  <1>2. CASE Claim(w)
    <2>1. PICK e \in Evidence : Claim(w)!2!(e)
      BY <1>2 DEF Claim
    <2>2. generation' \in [Evidence -> Nat] /\ operation' \in [Evidence -> Nat]
      BY <2>1 DEF TypeOK
    <2>3. claim' \in [Workers -> [row: Evidence \cup {None}, generation: Nat, operation: Nat]]
      BY <2>1 DEF TypeOK
    <2>4. /\ status' \in [Evidence -> {"retained", "deleting", "deleted", "integrity_unknown"}]
          /\ owner' \in [Evidence -> Workers \cup {None}]
          /\ lease' \in [Evidence -> {"none", "live", "expired"}]
      BY <2>1 DEF TypeOK
    <2>5. seen' \in [Workers -> SUBSET Nat] /\ pc' \in [Workers -> Labels]
      BY <1>2 DEF Claim, Goto, TypeOK
    <2>6. QED
      BY <1>2, <2>2, <2>3, <2>4, <2>5 DEF TypeOK, Claim, diskVars, envVars
  <1>3. CASE Reclaim(w)
    <2>1. PICK e \in Evidence : Reclaim(w)!2!(e)
      BY <1>3 DEF Reclaim
    <2>2. generation' \in [Evidence -> Nat]
      BY <2>1 DEF TypeOK
    <2>3. claim' \in [Workers -> [row: Evidence \cup {None}, generation: Nat, operation: Nat]]
      BY <2>1 DEF TypeOK
    <2>4. owner' \in [Evidence -> Workers \cup {None}] /\ lease' \in [Evidence -> {"none", "live", "expired"}]
      BY <2>1 DEF TypeOK
    <2>5. seen' \in [Workers -> SUBSET Nat] /\ pc' \in [Workers -> Labels]
      BY <1>3 DEF Reclaim, Goto, TypeOK
    <2>6. QED
      BY <1>3, <2>2, <2>3, <2>4, <2>5 DEF TypeOK, Reclaim, diskVars, envVars
  <1>4. CASE Finalise(w)
    <2> Row(w) \in Evidence
      BY <1>4 DEF Finalise, Busy
    <2>1. CASE Settle(w, "deleted") /\ recorded' = [recorded EXCEPT ![Row(w)] = @ + 1]
               /\ UNCHANGED operation /\ (Quiet \/ Fault) /\ \E label \in Labels : Goto(w, label)
      <3>1. recorded' \in [Evidence -> Nat] /\ operation' \in [Evidence -> Nat]
        <4>1. recorded[Row(w)] + 1 \in Nat
          BY DEF TypeOK
        <4>2. QED
          BY <2>1, <4>1 DEF TypeOK
      <3>2. QED
        BY <2>1, <3>1, SettleType
    <2>2. QED
      BY <1>4, <2>1, ProceedType DEF Finalise
  <1>5. CASE Release(w)
    <2>1. CASE Settle(w, "retained") /\ operation' = [operation EXCEPT ![Row(w)] = None]
               /\ Quiet /\ Goto(w, "idle") /\ UNCHANGED recorded
      <3>1. recorded' \in [Evidence -> Nat] /\ operation' \in [Evidence -> Nat]
        BY <2>1 DEF TypeOK, None
      <3>2. QED
        BY <2>1, <3>1, SettleType
    <2>2. QED
      BY <1>5, <2>1, ProceedType DEF Release
  <1>6. CASE MarkUncertain(w)
    <2>1. CASE Settle(w, "integrity_unknown") /\ Quiet /\ Goto(w, "idle") /\ UNCHANGED <<operation, recorded>>
      <3>1. recorded' \in [Evidence -> Nat] /\ operation' \in [Evidence -> Nat]
        BY <2>1 DEF TypeOK
      <3>2. QED
        BY <2>1, <3>1, SettleType
    <2>2. QED
      BY <1>6, <2>1, ProceedType DEF MarkUncertain
  <1>7. CASE Move(w) \/ RmTombstone(w) \/ Restore(w)
    <2>1. CASE /\ MoveOut(w) \/ MoveBack(w) \/ Remove(w, Operation(w))
               /\ UNCHANGED <<rowVars, envVars, claim, seen>>
               /\ Quiet \/ Fault
               /\ \E label \in Labels : Goto(w, label)
      <3>1. DiskTyped' /\ seen' \in [Workers -> SUBSET Nat]
        BY <2>1, DiskType DEF TypeOK
      <3>2. QED
        BY <2>1, <3>1, StepType
    <2>2. QED
      BY <1>7, <2>1, ProceedType DEF Move, RmTombstone, Restore
  <1>8. CASE MoveInherited(w) \/ RmEach(w)
    <2>1. CASE /\ MoveOut(w) \/ Remove(w, NextCopy(w))
               /\ UNCHANGED <<rowVars, envVars, claim>>
               /\ seen' = [seen EXCEPT ![w] = @ \cup {Operation(w)}]
                  \/ seen' = [seen EXCEPT ![w] = @ \ {NextCopy(w)}] \/ seen' = seen
               /\ Quiet \/ Fault
               /\ \E label \in Labels : Goto(w, label)
      <3>1. DiskTyped'
        BY <2>1, DiskType
      <3>2. seen' \in [Workers -> SUBSET Nat]
        BY <2>1, ClaimFields DEF TypeOK
      <3>3. QED
        BY <2>1, <3>1, <3>2, StepType
    <2>2. QED
      BY <1>8, <2>1, ProceedType DEF MoveInherited, RmEach
  <1>9. CASE ListTombstones(w) \/ ProbePreferred(w) \/ ProbeOriginal(w)
             \/ MoveInheritedFailed(w) \/ RemoveEach(w)
    <2>1. CASE \E label \in Labels : Proceed(w, label) \/ Fail(w, label)
      BY <2>1, ProceedType
    <2>2. CASE \E label \in Labels, found \in SUBSET Nat : See(w, found, label)
      BY <2>2, SeeType
    <2>3. Row(w) \in Evidence
      BY <1>9 DEF Busy, ListTombstones, ProbePreferred, ProbeOriginal, MoveInheritedFailed, RemoveEach
    <2>4. seen[w] \in SUBSET Nat
      BY DEF TypeOK
    <2>5. CASE ListTombstones(w)
      BY <2>1, <2>2, <2>3, <2>5, SeenCopies DEF ListTombstones
    <2>6. CASE ProbePreferred(w)
      BY <2>1, <2>2, <2>3, <2>4, <2>6, SeenCopies DEF ProbePreferred
    <2>7. CASE ProbeOriginal(w)
      BY <2>1, <2>2, <2>3, <2>4, <2>7, SeenCopies DEF ProbeOriginal
    <2>8. CASE MoveInheritedFailed(w)
      BY <2>1, <2>2, <2>4, <2>8, ClaimFields DEF MoveInheritedFailed
    <2>9. CASE RemoveEach(w)
      BY <2>1, <2>2, <2>4, <2>9 DEF RemoveEach
    <2>10. QED
      BY <1>9, <2>5, <2>6, <2>7, <2>8, <2>9
  <1>10. QED
    BY <1>1, <1>2, <1>3, <1>4, <1>5, <1>6, <1>7, <1>8, <1>9 DEF Sweep, Delete, Recover

(* A sweep past its claim names a row.                                     *)
LEMMA SweepClaimsRow ==
    ASSUME TypeOK, ClaimsRow, NEW w \in Workers, Sweep(w)
    PROVE  ClaimsRow'
  <1> SUFFICES ASSUME NEW v \in Workers, Busy(v)' PROVE Row(v)' \in Evidence
    BY DEF ClaimsRow
  <1>1. CASE Claim(w) \/ Reclaim(w)
    BY <1>1 DEF Claim, Reclaim, IsOldest, Goto, ClaimsRow, Busy, Row, TypeOK
  <1>2. CASE claim' = claim /\ (Busy(v)' => Busy(v))
    BY <1>2 DEF ClaimsRow, Row
  <1>3. CASE NothingStranded(w) \/ NothingToDelete(w)
    <2>1. Busy(v)' => Busy(v)
      BY <1>3 DEF NothingStranded, NothingToDelete, Proceed, Goto, Busy, TypeOK
    <2>2. QED
      BY <1>2, <1>3, <2>1 DEF NothingStranded, NothingToDelete, Proceed
  <1>4. CASE Busy(w) /\ claim' = claim /\ \E label : Goto(w, label)
    BY <1>2, <1>4 DEF Goto, Busy, TypeOK
  <1>5. QED
    BY <1>1, <1>3, <1>4
    DEF Sweep, Delete, Recover, Busy, RenewLease, Move, MoveFailed, AfterFailedMove, AssertRoot,
        RmTombstone, CheckOriginal, CheckRest, Restore, ConfirmRestored, Release, Finalise,
        MarkUncertain, ListTombstones, ProbePreferred, ProbeOriginal, MoveInherited,
        MoveInheritedFailed, RemoveEach, RmEach, CheckReappeared, ListSurvivors,
        Proceed, Fail, See, Settle

(* The rows, the volume and every sweep keep their types.                  *)
THEOREM TypeCorrect == Spec => [](TypeOK /\ ClaimsRow)
  <1>1. Init => TypeOK /\ ClaimsRow
    <2> SUFFICES ASSUME Init PROVE TypeOK /\ ClaimsRow
      OBVIOUS
    <2>1. copies \in [Evidence -> SUBSET Nat]
      BY DEF Init, Legacy
    <2>2. /\ pc \in [Workers -> {"idle", "claim"} \cup Recovering \cup Deleting \cup Either]
          /\ claim \in [Workers -> [row: Evidence \cup {None}, generation: Nat, operation: Nat]]
      BY DEF Init, None
    <2>3. TypeOK
      BY <2>1, <2>2 DEF Init, TypeOK, None
    <2>4. QED
      BY <2>3 DEF Init, ClaimsRow, Busy
  <1>2. TypeOK /\ ClaimsRow /\ [Next]_vars => TypeOK' /\ ClaimsRow'
    <2> SUFFICES ASSUME TypeOK, ClaimsRow, [Next]_vars PROVE TypeOK' /\ ClaimsRow'
      OBVIOUS
    <2>1. ASSUME NEW w \in Workers, Sweep(w) PROVE TypeOK' /\ ClaimsRow'
      BY <2>1, SweepType, SweepClaimsRow DEF ClaimsRow
    <2>2. ASSUME NEW w \in Workers, Crash(w) PROVE TypeOK' /\ ClaimsRow'
      BY <2>2 DEF TypeOK, ClaimsRow, Busy, Row, Crash, Goto, rowVars, diskVars
    <2>3. ASSUME NEW e \in Evidence, LeaseExpires(e) PROVE TypeOK' /\ ClaimsRow'
      BY <2>3 DEF TypeOK, ClaimsRow, Busy, Row, LeaseExpires, diskVars
    <2>4. CASE VolumeLost \/ VolumeBack
      <3> USE DEF VolumeLost, VolumeBack
      <3>1. /\ UNCHANGED <<rowVars, diskVars, crashes, stalls, faults, pc, claim, seen>>
            /\ mounted' \in BOOLEAN
        BY <2>4 DEF diskVars, rowVars
      <3>3. outages' \in Nat
        BY <2>4 DEF TypeOK
      <3>2. QED
        BY <3>1, <3>3 DEF TypeOK, ClaimsRow, Busy, Row, rowVars, diskVars
    <2>5. CASE UNCHANGED vars
      BY <2>5 DEF TypeOK, ClaimsRow, Busy, Row, vars, rowVars, diskVars, envVars
    <2>6. QED
      BY <2>1, <2>2, <2>3, <2>4, <2>5 DEF Next
  <1>3. QED
    BY <1>1, <1>2, PTL DEF Spec

-----------------------------------------------------------------------------
(* The fences.  Most steps of a sweep are local: they move the sweep along *)
(* a label that Follows the one it is at, change at most the file of the   *)
(* row it claims, and leave every row and every claim alone.               *)
Follows(w, label) ==
    /\ label \in Handling => pc[w] \in Handling \/ Live(w)
    /\ label \in Deleting => pc[w] \in Deleting
    /\ label \notin {"idle", "claim"} => Busy(w)

Local(w) ==
    /\ UNCHANGED <<status, generation, operation, recorded, claim>>
    /\ \A v \in Workers \ {w} : pc'[v] = pc[v] /\ seen'[v] = seen[v]
    /\ Follows(w, pc'[w])
    /\ Legacy \in seen'[w] => Legacy \in seen[w] \/ Legacy \in copies[Row(w)]
    /\ pc'[w] = "rmEach" => seen'[w] # {}
    /\ pc'[w] \in {"movedPresent", "release"} /\ Current(w) => original'[Row(w)]
    /\ original' # original => pc[w] \in Handling
    /\ \A f \in Evidence : f # Row(w) => original'[f] = original[f]
    /\ \A f \in Evidence : Legacy \in copies'[f] => Legacy \in copies[f]

(* A step that only reads or fails is local if its label follows.          *)
LEMMA ProceedLocal ==
    ASSUME TypeOK, NEW w \in Workers, NEW label, Proceed(w, label) \/ Fail(w, label),
           Follows(w, label), label = "rmEach" => seen[w] # {},
           label \in {"movedPresent", "release"} /\ Current(w) => original[Row(w)]
    PROVE  Local(w)
  <1>1. /\ UNCHANGED <<status, generation, operation, recorded, claim, seen, original, copies>>
        /\ Goto(w, label)
    BY DEF Proceed, Fail, rowVars, diskVars
  <1>2. pc'[w] = label /\ \A v \in Workers \ {w} : pc'[v] = pc[v]
    BY <1>1 DEF Goto, TypeOK
  <1>3. QED
    BY <1>1, <1>2 DEF Local

LEMMA SeeLocal ==
    ASSUME TypeOK, NEW w \in Workers, NEW label, NEW found, See(w, found, label),
           Follows(w, label), label \notin {"rmEach", "movedPresent", "release"},
           Legacy \in found => Legacy \in seen[w] \/ Legacy \in copies[Row(w)]
    PROVE  Local(w)
  <1>1. /\ UNCHANGED <<status, generation, operation, recorded, claim, original, copies>>
        /\ Goto(w, label) /\ seen' = [seen EXCEPT ![w] = found]
    BY DEF See, rowVars, diskVars
  <1>2. /\ pc'[w] = label /\ seen'[w] = found
        /\ \A v \in Workers \ {w} : pc'[v] = pc[v] /\ seen'[v] = seen[v]
    BY <1>1 DEF Goto, TypeOK
  <1>3. QED
    BY <1>1, <1>2 DEF Local

(* Moving and removing the file is local.                                  *)
LEMMA DiskLocal ==
    ASSUME TypeOK, NEW w \in Workers, NEW label \in Labels, NEW path, Goto(w, label),
           UNCHANGED <<rowVars, claim>>, pc[w] \in Handling, Row(w) \in Evidence,
           MoveOut(w) \/ MoveBack(w) \/ Remove(w, path),
           Operation(w) # Legacy, path = Legacy => Row(w) \in LegacyRows,
           Follows(w, label), label \notin {"rmEach", "movedPresent", "release"},
           \A v \in Workers \ {w} : seen'[v] = seen[v],
           Legacy \in seen'[w] => Legacy \in seen[w]
    PROVE  Local(w)
  <1>1. /\ UNCHANGED <<status, generation, operation, recorded, claim>>
        /\ pc'[w] = label /\ \A v \in Workers \ {w} : pc'[v] = pc[v]
    BY DEF Goto, TypeOK, rowVars
  <1>2. \A f \in Evidence : f # Row(w) => original'[f] = original[f]
    <2>1. CASE MoveOut(w) \/ MoveBack(w)
      BY <2>1 DEF MoveOut, MoveBack, TypeOK
    <2>2. CASE Remove(w, path)
      <3>1. path = Legacy => \A f \in Evidence : <<Row(w), f>> \notin Shadows
        BY RetentionAssumption
      <3>2. \A f \in Evidence : original'[f] = original[f]
        BY <2>2, <3>1 DEF Remove, TypeOK
      <3>3. QED
        BY <3>2
    <2>3. QED
      BY <2>1, <2>2
  <1>3. \A f \in Evidence : Legacy \in copies'[f] => Legacy \in copies[f]
    <2>1. CASE MoveOut(w)
      BY <2>1 DEF MoveOut, TypeOK
    <2>2. CASE MoveBack(w)
      BY <2>2 DEF MoveBack, TypeOK
    <2>3. CASE Remove(w, path)
      BY <2>3 DEF Remove, TypeOK
    <2>4. QED
      BY <2>1, <2>2, <2>3
  <1>4. QED
    BY <1>1, <1>2, <1>3 DEF Local

(* The next copy to remove is one the sweep has seen.                      *)
LEMMA NextCopySeen ==
    ASSUME NEW w \in Workers, seen[w] # {}
    PROVE  NextCopy(w) \in seen[w]
  <1>1. \E p \in seen[w] : p = Legacy => seen[w] = {Legacy}
    OBVIOUS
  <1>2. QED
    BY <1>1 DEF NextCopy

(* Every action of a sweep but the claims and the settlements is local.    *)
LocalStep(w) ==
    \/ NothingStranded(w) \/ NothingToDelete(w) \/ RenewLease(w)
    \/ Move(w) \/ MoveFailed(w) \/ AfterFailedMove(w) \/ AssertRoot(w)
    \/ RmTombstone(w) \/ CheckOriginal(w) \/ CheckRest(w)
    \/ Restore(w) \/ ConfirmRestored(w)
    \/ ListTombstones(w) \/ ProbePreferred(w) \/ ProbeOriginal(w)
    \/ MoveInherited(w) \/ MoveInheritedFailed(w) \/ RemoveEach(w) \/ RmEach(w)
    \/ CheckReappeared(w) \/ ListSurvivors(w)

LEMMA SweepLocal ==
    ASSUME TypeOK, FenceInv, NEW w \in Workers, LocalStep(w)
    PROVE  Local(w)
  <1> USE DEF Handling, Recovering, Deleting, Either
  <1>1. Busy(w) => /\ Row(w) \in Evidence /\ Operation(w) # Legacy
                   /\ Legacy \in seen[w] => Row(w) \in LegacyRows
    BY DEF FenceInv, ClaimsRow, ClaimsBound, SuffixIsLegacy
  <1>2. CASE NothingStranded(w) \/ NothingToDelete(w) \/ RenewLease(w)
    BY <1>2, ProceedLocal DEF NothingStranded, NothingToDelete, RenewLease, Follows, Busy
  <1>3. CASE MoveFailed(w) \/ ConfirmRestored(w) \/ CheckOriginal(w) \/ CheckRest(w) \/ AssertRoot(w)
    BY <1>3, ProceedLocal
    DEF MoveFailed, ConfirmRestored, CheckOriginal, CheckRest, AssertRoot, Follows, Busy, OriginalSeen
  <1>4. CASE CheckReappeared(w) \/ ListSurvivors(w)
    BY <1>4, ProceedLocal DEF CheckReappeared, ListSurvivors, Follows, Busy
  <1>5. CASE AfterFailedMove(w)
    BY <1>5, ProceedLocal DEF AfterFailedMove, Follows, Busy, FenceInv, PresenceProven
  <1>6. CASE Move(w)
    BY <1>1, <1>6, ProceedLocal, DiskLocal DEF Move, Follows, Busy, Labels
  <1>7. CASE RmTombstone(w)
    BY <1>1, <1>7, ProceedLocal, DiskLocal DEF RmTombstone, Follows, Busy, Labels
  <1>8. CASE Restore(w)
    BY <1>1, <1>8, ProceedLocal, DiskLocal DEF Restore, Follows, Busy, Labels
  <1>9. CASE ListTombstones(w) \/ ProbePreferred(w)
    BY <1>1, <1>9, ProceedLocal, SeeLocal
    DEF ListTombstones, ProbePreferred, Follows, Busy, TombstonesSeen
  <1>10. CASE ProbeOriginal(w)
    BY <1>1, <1>10, ProceedLocal, SeeLocal DEF ProbeOriginal, Follows, Busy, CopiesSeen
  <1>11. CASE MoveInherited(w)
    <2>1. CASE MoveOut(w)
      <3>1. seen' = seen \/ seen' = [seen EXCEPT ![w] = @ \cup {Operation(w)}]
        BY <1>11, <2>1 DEF MoveInherited, MoveOut, Proceed, Fail
      <3>2. /\ \A v \in Workers \ {w} : seen'[v] = seen[v]
            /\ Legacy \in seen'[w] => Legacy \in seen[w]
        BY <1>1, <1>11, <3>1 DEF MoveInherited, Busy, TypeOK
      <3>3. QED
        BY <1>1, <1>11, <2>1, <3>2, ProceedLocal, DiskLocal DEF MoveInherited, Follows, Busy, Labels
    <2>2. QED
      BY <1>11, <2>1, ProceedLocal DEF MoveInherited, Follows, Busy
  <1>12. CASE MoveInheritedFailed(w)
    BY <1>1, <1>12, ProceedLocal, SeeLocal DEF MoveInheritedFailed, Follows, Busy
  <1>13. CASE RemoveEach(w)
    BY <1>1, <1>13, ProceedLocal, SeeLocal DEF RemoveEach, Follows, Busy
  <1>14. CASE RmEach(w)
    <2>1. NextCopy(w) \in seen[w]
      BY <1>14, NextCopySeen DEF RmEach, FenceInv, SuffixIsLegacy
    <2>2. CASE Remove(w, NextCopy(w))
      <3>1. seen' = seen \/ seen' = [seen EXCEPT ![w] = @ \ {NextCopy(w)}]
        BY <1>14, <2>2 DEF RmEach, Proceed, Fail
      <3>2. /\ \A v \in Workers \ {w} : seen'[v] = seen[v]
            /\ Legacy \in seen'[w] => Legacy \in seen[w]
        BY <3>1 DEF TypeOK
      <3>3. QED
        BY <1>1, <1>14, <2>1, <2>2, <3>2, ProceedLocal, DiskLocal DEF RmEach, Follows, Busy, Labels
    <2>3. QED
      BY <1>14, <2>2, ProceedLocal DEF RmEach, Follows, Busy
  <1>15. QED
    BY <1>2, <1>3, <1>4, <1>5, <1>6, <1>7, <1>8, <1>9, <1>10, <1>11, <1>12, <1>13, <1>14 DEF LocalStep

(* A local step keeps the fences.                                          *)
LEMMA LocalFences ==
    ASSUME TypeOK, FenceInv, NEW w \in Workers, Local(w)
    PROVE  FenceInv'
  <1> USE DEF FenceInv
  <1>1. /\ UNCHANGED <<status, generation, operation, recorded, claim>>
        /\ \A v \in Workers : Row(v)' = Row(v) /\ Operation(v)' = Operation(v)
        /\ \A v \in Workers \ {w} : pc'[v] = pc[v] /\ seen'[v] = seen[v]
        /\ \A v \in Workers : Busy(v)' => Busy(v)
    BY DEF Local, Row, Operation, Busy, Follows
  <1>2. \A v \in Workers : Current(v)' => Current(v)
    BY <1>1 DEF Current
  <1>3. ClaimsRow' /\ ClaimsBound' /\ ClaimsDiffer' /\ OperationNamed' /\ RecordedOnce'
    BY <1>1 DEF ClaimsRow, ClaimsBound, ClaimsDiffer, OperationNamed, RecordedOnce
  <1>4. SuffixIsLegacy'
    <2>1. \A e \in Evidence : Legacy \in copies'[e] => e \in LegacyRows
      BY DEF Local, SuffixIsLegacy
    <2>2. ASSUME NEW v \in Workers, Busy(v)', Legacy \in seen'[v] PROVE Row(v)' \in LegacyRows
      BY <1>1, <2>2 DEF Local, SuffixIsLegacy, ClaimsRow
    <2>3. ASSUME NEW v \in Workers, pc'[v] = "rmEach" PROVE seen'[v] # {}
      BY <1>1, <2>3 DEF Local, SuffixIsLegacy
    <2>4. QED
      BY <2>1, <2>2, <2>3 DEF SuffixIsLegacy
  <1>5. \A v \in Workers : pc'[v] \in Deleting => pc[v] \in Deleting
    BY <1>1 DEF Local, Follows
  <1>6. ASSUME NEW v \in Workers, pc'[v] \in Handling
        PROVE  pc[v] \in Handling \/ (v = w /\ Live(w))
    BY <1>1, <1>6 DEF Local, Follows
  <1>7. DeletesAlone'
    <2> SUFFICES ASSUME NEW u \in Workers, NEW v \in Workers, pc'[v] \in Deleting, Current(v)',
                        pc'[u] \in Handling, Row(u)' = Row(v)'
                 PROVE  u = v
      BY DEF DeletesAlone
    <2>1. pc[v] \in Deleting /\ Current(v) /\ Row(u) = Row(v)
      BY <1>1, <1>2, <1>5
    <2>2. CASE pc[u] \in Handling
      BY <2>1, <2>2 DEF DeletesAlone
    <2>3. CASE u = w /\ Live(w)
      <3>1. Busy(u) /\ claim[u].generation = generation[Row(u)]
        BY <1>1, <2>3 DEF Live, Fenced, Busy, Handling, Recovering
      <3>2. QED
        BY <2>1, <3>1 DEF Current, ClaimsDiffer
    <2>4. QED
      BY <1>6, <2>2, <2>3
  <1>8. PresenceProven'
    <2> SUFFICES ASSUME NEW v \in Workers, pc'[v] \in {"movedPresent", "release"}, Current(v)'
                 PROVE  original'[Row(v)']
      BY DEF PresenceProven
    <2>1. Current(v) /\ Row(v)' = Row(v)
      BY <1>1, <1>2
    <2>2. CASE v = w
      BY <2>1, <2>2 DEF Local
    <2>3. CASE v # w
      <3>1. original[Row(v)] /\ pc[v] \in Deleting /\ Row(v) \in Evidence
        BY <1>1, <2>1, <2>3 DEF PresenceProven, Deleting, Current, ClaimsRow
      <3>2. Row(w) = Row(v) => pc[w] \notin Handling
        BY <2>1, <2>3, <3>1 DEF DeletesAlone
      <3>3. original'[Row(v)] = original[Row(v)]
        BY <3>1, <3>2 DEF Local
      <3>4. QED
        BY <2>1, <3>1, <3>3
    <2>4. QED
      BY <2>2, <2>3
  <1>9. RetainedMeansUntouched'
    BY <1>1, <1>6 DEF RetainedMeansUntouched, Live, Fenced
  <1>10. RetainedMeansPresent'
    <2> SUFFICES ASSUME NEW e \in Evidence, status[e] = "retained" PROVE original'[e]
      BY <1>1 DEF RetainedMeansPresent
    <2>1. original[e] /\ (Row(w) = e => pc[w] \notin Handling)
      BY DEF RetainedMeansPresent, RetainedMeansUntouched
    <2>2. QED
      BY <2>1 DEF Local
  <1>11. QED
    BY <1>3, <1>4, <1>7, <1>8, <1>9, <1>10

(* A settlement ends the sweep and, when it succeeds, the row's claim.     *)
LEMMA SettleFences ==
    ASSUME TypeOK, FenceInv, NEW w \in Workers, Finalise(w) \/ Release(w) \/ MarkUncertain(w)
    PROVE  FenceInv'
  <1> USE DEF FenceInv
  <1>1. CASE \E label \in {"uncertain", "idle"} : Proceed(w, label) \/ Fail(w, label)
    <2>1. Busy(w)
      BY DEF Finalise, Release, MarkUncertain, Busy
    <2>2. Local(w)
      BY <1>1, <2>1, ProceedLocal DEF Follows, Handling, Recovering, Deleting
    <2>3. QED
      BY <2>2, LocalFences
  <1>2. ASSUME NEW outcome \in {"retained", "deleted", "integrity_unknown"}, Settle(w, outcome),
               Fenced(w), NEW label \in {"uncertain", "idle"}, Goto(w, label),
               outcome # "retained" => operation' = operation,
               outcome = "retained" => operation' = [operation EXCEPT ![Row(w)] = None],
               IF outcome = "deleted" THEN recorded' = [recorded EXCEPT ![Row(w)] = @ + 1]
                                      ELSE recorded' = recorded,
               outcome = "retained" => pc[w] = "release" /\ label = "idle",
               Busy(w)
        PROVE  FenceInv'
    <2>1. Row(w) \in Evidence /\ status[Row(w)] = "deleting" /\ Current(w)
      BY <1>2 DEF ClaimsRow, Fenced, Current
    <2>2. /\ \A e \in Evidence : status'[e] = IF e = Row(w) THEN outcome ELSE status[e]
          /\ \A e \in Evidence : e # Row(w) => operation'[e] = operation[e] /\ recorded'[e] = recorded[e]
          /\ recorded'[Row(w)] = recorded[Row(w)] + (IF outcome = "deleted" THEN 1 ELSE 0)
          /\ UNCHANGED <<generation, original, copies, claim, seen>>
      BY <1>2, <2>1 DEF Settle, TypeOK, diskVars
    <2>3. /\ pc'[w] = label /\ \A v \in Workers \ {w} : pc'[v] = pc[v]
          /\ \A v \in Workers : Row(v)' = Row(v) /\ Operation(v)' = Operation(v)
          /\ \A v \in Workers : (Busy(v)' => Busy(v)) /\ (Current(v)' => Current(v))
          /\ \A v \in Workers : pc'[v] \in Handling \cup {"rmEach", "movedPresent", "release"} \cup Deleting
                                => v # w
      BY <1>2, <2>2 DEF Goto, TypeOK, Row, Operation, Busy, Current, Handling, Recovering, Deleting
    <2>4. ClaimsRow' /\ ClaimsBound' /\ ClaimsDiffer'
      BY <2>2, <2>3 DEF ClaimsRow, ClaimsBound, ClaimsDiffer
    <2>5. OperationNamed' /\ RecordedOnce'
      BY <2>1, <2>2 DEF OperationNamed, RecordedOnce
    <2>6. SuffixIsLegacy'
      BY <2>2, <2>3 DEF SuffixIsLegacy
    <2>7. DeletesAlone' /\ PresenceProven'
      BY <2>2, <2>3 DEF DeletesAlone, PresenceProven
    <2>8. RetainedMeansUntouched'
      <3> SUFFICES ASSUME NEW e \in Evidence, NEW v \in Workers, status'[e] = "retained",
                          pc'[v] \in Handling, Row(v) = e
                   PROVE  FALSE
        BY <2>3 DEF RetainedMeansUntouched
      <3>1. v # w /\ pc[v] \in Handling
        BY <2>3
      <3>2. CASE e = Row(w)
        BY <1>2, <2>1, <2>2, <3>1, <3>2 DEF DeletesAlone, Deleting
      <3>3. CASE e # Row(w)
        BY <2>2, <3>1, <3>3 DEF RetainedMeansUntouched
      <3>4. QED
        BY <3>2, <3>3
    <2>9. RetainedMeansPresent'
      BY <1>2, <2>1, <2>2 DEF RetainedMeansPresent, PresenceProven
    <2>10. QED
      BY <2>4, <2>5, <2>6, <2>7, <2>8, <2>9
  <1>3. CASE Finalise(w)
    BY <1>1, <1>2, <1>3 DEF Finalise, Live, Busy
  <1>4. CASE Release(w)
    BY <1>1, <1>2, <1>4 DEF Release, Live, Busy
  <1>5. CASE MarkUncertain(w)
    BY <1>1, <1>2, <1>5 DEF MarkUncertain, Busy
  <1>6. QED
    BY <1>3, <1>4, <1>5

(* Taking a claim, fresh or inherited: the generation grows, so whoever    *)
(* held a claim of the row before is no longer current.                    *)
Takes(w, e) ==
    /\ pc[w] \in {"idle", "claim"}
    /\ e \in Evidence
    /\ generation' = [generation EXCEPT ![e] = @ + 1]
    /\ claim'[w].row = e /\ claim'[w].generation = generation[e] + 1
    /\ claim'[w].operation = operation'[e] /\ operation'[e] # Legacy
    /\ \A v \in Workers \ {w} : claim'[v] = claim[v] /\ pc'[v] = pc[v] /\ seen'[v] = seen[v]
    /\ seen'[w] = {}
    /\ \A f \in Evidence \ {e} : status'[f] = status[f] /\ operation'[f] = operation[f]
    /\ status'[e] = "deleting"
    /\ UNCHANGED <<recorded, original, copies>>
    /\ status[e] \in {"retained", "deleting"}
    /\ \/ status[e] = "retained" /\ pc'[w] = "renew"
       \/ pc'[w] = "listTombstones"

LEMMA ClaimTakes ==
    ASSUME TypeOK, FenceInv, NEW w \in Workers, Claim(w) \/ Reclaim(w)
    PROVE  \E e \in Evidence : Takes(w, e)
  <1>1. CASE Claim(w)
    <2>1. PICK e \in Evidence : Claim(w)!2!(e)
      BY <1>1 DEF Claim
    <2>2. status[e] = "retained"
      BY <2>1 DEF IsOldest, Claimable
    <2>3. generation[e] \in Nat
      BY DEF TypeOK
    <2>4. /\ claim'[w] = [row |-> e, generation |-> generation[e] + 1, operation |-> generation[e] + 1]
          /\ \A v \in Workers \ {w} : claim'[v] = claim[v]
      BY <2>1 DEF TypeOK
    <2>5. operation'[e] = generation[e] + 1 /\ \A f \in Evidence \ {e} : operation'[f] = operation[f]
      BY <2>1 DEF TypeOK
    <2>6. status'[e] = "deleting" /\ \A f \in Evidence \ {e} : status'[f] = status[f]
      BY <2>1 DEF TypeOK
    <2>7. /\ pc'[w] = "renew" /\ seen'[w] = {}
          /\ \A v \in Workers \ {w} : pc'[v] = pc[v] /\ seen'[v] = seen[v]
      BY <1>1 DEF Claim, Goto, TypeOK
    <2>8. pc[w] = "claim" /\ UNCHANGED <<recorded, original, copies>>
      BY <1>1 DEF Claim, diskVars
    <2>9. generation' = [generation EXCEPT ![e] = @ + 1]
      BY <2>1
    <2>10. /\ claim'[w].row = e /\ claim'[w].generation = generation[e] + 1
           /\ claim'[w].operation = operation'[e] /\ operation'[e] # Legacy
      BY <2>3, <2>4, <2>5 DEF Legacy
    <2>11. Takes(w, e)
      BY <2>2, <2>4, <2>5, <2>6, <2>7, <2>8, <2>9, <2>10 DEF Takes
    <2>12. QED
      BY <2>11
  <1>2. CASE Reclaim(w)
    <2>1. PICK e \in Evidence : Reclaim(w)!2!(e)
      BY <1>2 DEF Reclaim
    <2>2. status[e] = "deleting"
      BY <2>1 DEF IsOldest, Reclaimable
    <2>3. operation[e] # Legacy
      BY <2>2 DEF FenceInv, OperationNamed
    <2>4. /\ claim'[w] = [row |-> e, generation |-> generation[e] + 1, operation |-> operation[e]]
          /\ \A v \in Workers \ {w} : claim'[v] = claim[v]
      BY <2>1 DEF TypeOK
    <2>5. /\ pc'[w] = "listTombstones" /\ seen'[w] = {}
          /\ \A v \in Workers \ {w} : pc'[v] = pc[v] /\ seen'[v] = seen[v]
      BY <1>2 DEF Reclaim, Goto, TypeOK
    <2>6. pc[w] = "idle" /\ UNCHANGED <<status, operation, recorded, original, copies>>
      BY <1>2 DEF Reclaim, diskVars
    <2>7. generation' = [generation EXCEPT ![e] = @ + 1]
      BY <2>1
    <2>8. /\ claim'[w].row = e /\ claim'[w].generation = generation[e] + 1
          /\ claim'[w].operation = operation'[e] /\ operation'[e] # Legacy
      BY <2>3, <2>4, <2>6
    <2>9. Takes(w, e)
      BY <2>2, <2>4, <2>5, <2>6, <2>7, <2>8 DEF Takes
    <2>10. QED
      BY <2>9
  <1>3. QED
    BY <1>1, <1>2

LEMMA TakeFences ==
    ASSUME TypeOK, FenceInv, NEW w \in Workers, NEW e \in Evidence, Takes(w, e)
    PROVE  FenceInv'
  <1> USE DEF FenceInv
  <1>1. /\ Row(w)' = e /\ Busy(w)' /\ ~Busy(w)
        /\ \A v \in Workers \ {w} : /\ Row(v)' = Row(v) /\ Operation(v)' = Operation(v)
                                    /\ claim'[v] = claim[v] /\ Busy(v)' = Busy(v)
    BY DEF Takes, Row, Operation, Busy
  <1>2. /\ generation'[e] = generation[e] + 1 /\ generation[e] \in Nat
        /\ \A f \in Evidence \ {e} : generation'[f] = generation[f]
    BY DEF Takes, TypeOK
  <1>3. \A v \in Workers \ {w} : Busy(v) =>
            /\ Row(v) \in Evidence /\ claim[v].generation \in Nat
            /\ claim[v].generation <= generation[Row(v)]
    BY ClaimFields DEF ClaimsRow, ClaimsBound
  <1>4. \A v \in Workers \ {w} : Current(v)' => Current(v) /\ Row(v) # e
    BY <1>1, <1>2, <1>3 DEF Current
  <1>5. ClaimsRow'
    BY <1>1 DEF ClaimsRow
  <1>6. ClaimsBound'
    <2> SUFFICES ASSUME NEW v \in Workers, Busy(v)'
                 PROVE  claim'[v].generation <= generation'[Row(v)'] /\ Operation(v)' # Legacy
      BY DEF ClaimsBound
    <2>1. CASE v = w
      BY <1>1, <1>2, <2>1 DEF Takes, Operation
    <2>2. CASE v # w
      BY <1>1, <1>2, <1>3, <2>2 DEF ClaimsBound
    <2>3. QED
      BY <2>1, <2>2
  <1>7. ClaimsDiffer'
    <2> SUFFICES ASSUME NEW u \in Workers, NEW v \in Workers, Busy(u)', Busy(v)', Row(u)' = Row(v)',
                        claim'[u].generation = claim'[v].generation
                 PROVE  u = v
      BY DEF ClaimsDiffer
    <2>1. ASSUME NEW x \in Workers \ {w}, Busy(x), Row(x) = e
          PROVE  claim[x].generation # generation[e] + 1
      BY <1>2, <1>3, <2>1
    <2>2. claim'[w].generation = generation[e] + 1
      BY DEF Takes
    <2>3. QED
      BY <1>1, <2>1, <2>2 DEF ClaimsDiffer
  <1>8. OperationNamed' /\ RecordedOnce'
    BY DEF Takes, OperationNamed, RecordedOnce
  <1>9. SuffixIsLegacy'
    BY <1>1 DEF Takes, SuffixIsLegacy
  <1>10. DeletesAlone'
    <2> SUFFICES ASSUME NEW u \in Workers, NEW v \in Workers, pc'[v] \in Deleting, Current(v)',
                        pc'[u] \in Handling, Row(u)' = Row(v)', u # v
                 PROVE  FALSE
      BY DEF DeletesAlone
    <2>1. CASE v = w
      <3>1. status[e] = "retained" /\ Row(u) = e /\ pc[u] \in Handling
        BY <1>1, <2>1 DEF Takes, Deleting
      <3>2. QED
        BY <3>1 DEF RetainedMeansUntouched
    <2>2. CASE v # w /\ u = w
      BY <1>1, <1>4, <2>2
    <2>3. CASE v # w /\ u # w
      BY <1>1, <1>4, <2>3 DEF DeletesAlone, Takes
    <2>4. QED
      BY <2>1, <2>2, <2>3
  <1>11. PresenceProven'
    BY <1>1, <1>4 DEF PresenceProven, Takes
  <1>12. RetainedMeansUntouched' /\ RetainedMeansPresent'
    BY <1>1 DEF RetainedMeansUntouched, RetainedMeansPresent, Takes
  <1>13. QED
    BY <1>5, <1>6, <1>7, <1>8, <1>9, <1>10, <1>11, <1>12

(* What nobody but a sweep does keeps the fences: a crash is local, and    *)
(* the passing of a lease and of the volume touch nothing they speak of.   *)
LEMMA NextFences ==
    ASSUME TypeOK, FenceInv, [Next]_vars
    PROVE  FenceInv'
  <1>1. ASSUME NEW w \in Workers, Sweep(w) PROVE FenceInv'
    <2>1. CASE LocalStep(w)
      BY <2>1, SweepLocal, LocalFences
    <2>2. CASE Claim(w) \/ Reclaim(w)
      BY <2>2, ClaimTakes, TakeFences
    <2>3. CASE Finalise(w) \/ Release(w) \/ MarkUncertain(w)
      BY <2>3, SettleFences
    <2>4. QED
      BY <1>1, <2>1, <2>2, <2>3 DEF Sweep, Delete, Recover, LocalStep
  <1>2. ASSUME NEW w \in Workers, Crash(w) PROVE FenceInv'
    <2>1. Local(w)
      <3>1. pc'[w] = "idle" /\ \A v \in Workers \ {w} : pc'[v] = pc[v]
        BY <1>2 DEF Crash, Goto, TypeOK
      <3>2. UNCHANGED <<status, generation, operation, recorded, claim, seen, original, copies>>
        BY <1>2 DEF Crash, rowVars, diskVars
      <3>3. QED
        BY <3>1, <3>2 DEF Local, Follows, Handling, Recovering, Deleting
    <2>2. QED
      BY <2>1, LocalFences
  <1>3. CASE UNCHANGED <<status, generation, operation, recorded, original, copies, pc, claim, seen>>
    BY <1>3 DEF FenceInv, ClaimsRow, ClaimsBound, ClaimsDiffer, OperationNamed, SuffixIsLegacy,
       DeletesAlone, PresenceProven, RetainedMeansUntouched, RetainedMeansPresent, RecordedOnce,
       Busy, Current, Row, Operation
  <1>4. ASSUME NEW e \in Evidence, LeaseExpires(e) PROVE FenceInv'
    BY <1>3, <1>4 DEF LeaseExpires, diskVars
  <1>5. CASE VolumeLost \/ VolumeBack
    BY <1>3, <1>5 DEF VolumeLost, VolumeBack, rowVars, diskVars
  <1>6. CASE UNCHANGED vars
    BY <1>3, <1>6 DEF vars, rowVars, diskVars
  <1>7. QED
    BY <1>1, <1>2, <1>4, <1>5, <1>6 DEF Next

(* The fences hold in every reachable state.                               *)
THEOREM Fences == Spec => []FenceInv
  <1>1. Init => FenceInv
    BY RetentionAssumption DEF Init, FenceInv, ClaimsRow, ClaimsBound, ClaimsDiffer, OperationNamed,
       SuffixIsLegacy, DeletesAlone, PresenceProven, RetainedMeansUntouched, RetainedMeansPresent,
       RecordedOnce, Busy, Handling, Recovering, Deleting
  <1>2. TypeOK /\ FenceInv /\ [Next]_vars => FenceInv'
    BY NextFences
  <1>3. QED
    BY <1>1, <1>2, TypeCorrect, PTL DEF Spec

(* A row that says retained has its file, whatever overlapped or failed.   *)
THEOREM RetainedIsPresent == Spec => []RetainedMeansPresent
  <1>1. FenceInv => RetainedMeansPresent
    BY DEF FenceInv
  <1>2. QED
    BY <1>1, Fences, PTL

(* A row that says retained is out of reach of every sweep.                *)
THEOREM RetainedIsUntouched == Spec => []RetainedMeansUntouched
  <1>1. FenceInv => RetainedMeansUntouched
    BY DEF FenceInv
  <1>2. QED
    BY <1>1, Fences, PTL

(* A deletion is recorded exactly once.                                    *)
THEOREM DeletionRecordedOnce == Spec => []RecordedOnce
  <1>1. FenceInv => RecordedOnce
    BY DEF FenceInv
  <1>2. QED
    BY <1>1, Fences, PTL

(* Only a claim and a settlement change a row's status, and neither is     *)
(* possible once the row is settled.                                       *)
LEMMA StatusMoves ==
    ASSUME TypeOK, FenceInv, [Next]_vars, NEW e \in Evidence,
           status[e] \in {"deleted", "integrity_unknown"}
    PROVE  status'[e] = status[e]
  <1>1. CASE status' = status
    BY <1>1
  <1>2. ASSUME NEW w \in Workers, Sweep(w) PROVE status'[e] = status[e]
    <2>1. CASE LocalStep(w)
      BY <2>1, SweepLocal DEF Local
    <2>2. CASE Claim(w) \/ Reclaim(w)
      BY <2>2, ClaimTakes DEF Takes
    <2>3. CASE Finalise(w) \/ Release(w) \/ MarkUncertain(w)
      <3>1. status' = status \/ (Fenced(w) /\ \E outcome : Settle(w, outcome))
        BY <2>3 DEF Finalise, Release, MarkUncertain, Live, Proceed, Fail, rowVars
      <3>2. CASE Fenced(w) /\ \E outcome : Settle(w, outcome)
        BY <3>2 DEF Fenced, Settle, TypeOK
      <3>3. QED
        BY <3>1, <3>2
    <2>4. QED
      BY <1>2, <2>1, <2>2, <2>3 DEF Sweep, Delete, Recover, LocalStep
  <1>3. CASE UNCHANGED vars \/ VolumeLost \/ VolumeBack \/ (\E f \in Evidence : LeaseExpires(f))
             \/ (\E w \in Workers : Crash(w))
    BY <1>1, <1>3 DEF vars, rowVars, VolumeLost, VolumeBack, LeaseExpires, Crash
  <1>4. QED
    BY <1>2, <1>3 DEF Next

(* A deletion and a doubt are final: no sweep changes such a row again.    *)
THEOREM SettledStaysFinal == Spec => SettledIsFinal
  <1>1. TypeOK /\ FenceInv /\ [Next]_vars
          => [\A e \in Evidence :
                status[e] \in {"deleted", "integrity_unknown"} => status'[e] = status[e]]_status
    BY StatusMoves
  <1>2. QED
    BY <1>1, TypeCorrect, Fences, PTL DEF Spec, SettledIsFinal
-----------------------------------------------------------------------------
(* As long as no lease runs out under its owner's hands.                   *)

(* A sweep at work has a live claim, so the row of another is not its own. *)
HoldsLease == stalls = 0 => \A w \in Workers : Busy(w) /\ pc[w] # "uncertain" => Live(w)

(* And as long as the volume stays: what a sweep has proved of the names   *)
(* of its row.  It saw the original gone, it has seen every copy that is   *)
(* there, and before it records the deletion there is none.                *)
Absent == {"movedAbsent", "checkRest", "assertRoot", "finalise", "removeEach", "rmEach",
           "checkReappeared", "listSurvivors"}

Proved(w) ==
    /\ pc[w] \in Absent => ~original[Row(w)]
    /\ pc[w] \in {"probePreferred", "probeOriginal"} => copies[Row(w)] \subseteq seen[w] \cup {Legacy}
    /\ pc[w] \in {"moveInherited", "removeEach", "rmEach"} => copies[Row(w)] \subseteq seen[w]
    /\ pc[w] = "moveInheritedFailed" => copies[Row(w)] \subseteq seen[w] \cup {Operation(w)}
    /\ pc[w] \in {"assertRoot", "finalise", "checkReappeared", "listSurvivors"} => copies[Row(w)] = {}

Undisturbed == stalls = 0 /\ outages = 0

ProvesAbsence ==
    Undisturbed => mounted /\ DeletedMeansGone /\ \A w \in Workers : Proved(w)

(* And as long as no call fails: a sweep of a row that has no copies of an *)
(* older version finds what it expects and never gets to a doubt.          *)
Doubting == {"moveFailed", "movedAbsent", "movedPresent", "restore", "confirmRestored", "release",
             "moveInheritedFailed", "uncertain"}

Expects(w) ==
    /\ pc[w] \notin Doubting
    /\ pc[w] \in {"renew", "move"} => original[Row(w)] /\ copies[Row(w)] = {}
    /\ pc[w] = "rm" => ~original[Row(w)] /\ copies[Row(w)] = {Operation(w)}
    /\ pc[w] = "checkOriginal" => ~original[Row(w)]
    /\ pc[w] \in {"checkOriginal", "checkRest"} => copies[Row(w)] = {}
    /\ pc[w] = "moveInherited" => original[Row(w)]
    /\ pc[w] = "rmEach" => NextCopy(w) \in copies[Row(w)]

Calm == Undisturbed /\ faults = 0 /\ Shadows = {}

NeverDoubts ==
    Calm =>
        /\ \A e \in Evidence \ LegacyRows :
               status[e] # "integrity_unknown" /\ (status[e] = "retained" => copies[e] = {})
        /\ \A w \in Workers : Busy(w) /\ Row(w) \notin LegacyRows => Expects(w)

(* What a local step leaves alone beside what Local says.                  *)
LEMMA LocalAside ==
    ASSUME TypeOK, NEW w \in Workers, LocalStep(w)
    PROVE  /\ UNCHANGED <<status, owner, lease, generation, claim, mounted, outages, stalls>>
           /\ faults' = faults \/ faults' = faults + 1
           /\ pc[w] # "uncertain"
           /\ \A f \in Evidence : f # Row(w) => copies'[f] = copies[f]
  <1> USE DEF rowVars, diskVars, envVars, Quiet, Fault
  <1>1. CASE \E label : Proceed(w, label) \/ Fail(w, label)
    <2>1. /\ UNCHANGED <<status, owner, lease, generation, claim, mounted, outages, stalls, copies>>
          /\ faults' = faults \/ faults' = faults + 1
      BY <1>1 DEF Proceed, Fail
    <2>2. pc[w] # "uncertain"
      BY DEF LocalStep, NothingStranded, NothingToDelete, RenewLease, MoveFailed, AfterFailedMove,
         AssertRoot, CheckOriginal, CheckRest, ConfirmRestored, CheckReappeared, ListSurvivors,
         Move, RmTombstone, Restore, ListTombstones, ProbePreferred, ProbeOriginal,
         MoveInherited, MoveInheritedFailed, RemoveEach, RmEach
    <2>3. QED
      BY <2>1, <2>2
  <1>2. CASE NothingStranded(w) \/ NothingToDelete(w) \/ RenewLease(w) \/ MoveFailed(w)
             \/ AfterFailedMove(w) \/ AssertRoot(w) \/ CheckOriginal(w) \/ CheckRest(w)
             \/ ConfirmRestored(w) \/ CheckReappeared(w) \/ ListSurvivors(w)
    BY <1>1, <1>2 DEF NothingStranded, NothingToDelete, RenewLease, MoveFailed, AfterFailedMove,
         AssertRoot, CheckOriginal, CheckRest, ConfirmRestored, CheckReappeared, ListSurvivors
  <1>3. CASE ListTombstones(w) \/ ProbePreferred(w) \/ ProbeOriginal(w)
             \/ MoveInheritedFailed(w) \/ RemoveEach(w)
    BY <1>1, <1>3 DEF ListTombstones, ProbePreferred, ProbeOriginal, MoveInheritedFailed,
         RemoveEach, See
  <1>4. CASE Move(w) \/ RmTombstone(w) \/ Restore(w) \/ MoveInherited(w) \/ RmEach(w)
    <2>1. CASE /\ MoveOut(w) \/ MoveBack(w) \/ \E path : Remove(w, path)
               /\ UNCHANGED <<rowVars, envVars, claim>> /\ (Quiet \/ Fault)
      <3>1. \A f \in Evidence : f # Row(w) => copies'[f] = copies[f]
        BY <2>1 DEF MoveOut, MoveBack, Remove, TypeOK
      <3>2. pc[w] # "uncertain"
        BY <1>4 DEF Move, RmTombstone, Restore, MoveInherited, RmEach
      <3>3. QED
        BY <2>1, <3>1, <3>2
    <2>2. QED
      BY <1>1, <1>4, <2>1 DEF Move, RmTombstone, Restore, MoveInherited, RmEach
  <1>5. QED
    BY <1>2, <1>3, <1>4 DEF LocalStep

(* Settling asks for the fence and concerns no other row.                  *)
LEMMA SettleAside ==
    ASSUME TypeOK, FenceInv, NEW w \in Workers, Finalise(w) \/ Release(w) \/ MarkUncertain(w)
    PROVE  /\ UNCHANGED <<generation, claim, mounted, outages, stalls, original, copies, seen>>
           /\ faults' = faults \/ faults' = faults + 1
           /\ Row(w) \in Evidence
           /\ \A v \in Workers : v # w => pc'[v] = pc[v]
           /\ pc'[w] \in {"idle", "uncertain"}
           /\ \A f \in Evidence : f # Row(w) =>
                  status'[f] = status[f] /\ owner'[f] = owner[f] /\ lease'[f] = lease[f]
           /\ UNCHANGED <<status, owner, lease>> \/ Fenced(w)
  <1>1. Row(w) \in Evidence
    BY DEF FenceInv, ClaimsRow, Busy, Finalise, Release, MarkUncertain
  <1>2. \E label \in {"idle", "uncertain"} : Goto(w, label)
    BY DEF Finalise, Release, MarkUncertain, Proceed, Fail
  <1>3. pc'[w] \in {"idle", "uncertain"} /\ \A v \in Workers : v # w => pc'[v] = pc[v]
    BY <1>2 DEF Goto, TypeOK
  <1>4. CASE \E label : Proceed(w, label) \/ Fail(w, label)
    BY <1>1, <1>3, <1>4 DEF Proceed, Fail, rowVars, diskVars, envVars, Quiet, Fault
  <1>5. CASE Fenced(w) /\ (\E outcome : Settle(w, outcome)) /\ (Quiet \/ Fault)
    BY <1>1, <1>3, <1>5 DEF Settle, TypeOK, diskVars, envVars, Quiet, Fault
  <1>6. QED
    BY <1>4, <1>5 DEF Finalise, Release, MarkUncertain, Live

(* The leases of the sweeps at work are live, and stay so.                 *)
LEMMA LeaseStep ==
    ASSUME TypeOK, FenceInv, HoldsLease, [Next]_vars
    PROVE  HoldsLease'
  <1> DEFINE AtWork(v) == Busy(v) /\ pc[v] # "uncertain"
  <1> SUFFICES ASSUME stalls' = 0, NEW v \in Workers, AtWork(v)'
               PROVE  Live(v)'
    BY DEF HoldsLease
  <1>0. stalls = 0
    <2>1. UNCHANGED stalls \/ \E e \in Evidence : LeaseExpires(e)
      BY LocalAside, SettleAside DEF Next, vars, envVars, Sweep, Delete, Recover, LocalStep, Claim,
         Reclaim, Crash, VolumeLost, VolumeBack
    <2>2. QED
      BY <2>1 DEF LeaseExpires, TypeOK
  <1>1. \A u \in Workers : AtWork(u) => Live(u) /\ Row(u) \in Evidence
    BY <1>0 DEF HoldsLease, FenceInv, ClaimsRow
  <1>2. ASSUME AtWork(v), UNCHANGED <<status, owner, lease, generation, claim>>
        PROVE  Live(v)'
    BY <1>1, <1>2 DEF Live, Fenced, Row
  <1>3. ASSUME NEW w \in Workers, Sweep(w)
        PROVE  Live(v)'
    <2>1. CASE LocalStep(w)
      <3>1. AtWork(v)
        BY <2>1, SweepLocal, LocalAside DEF Local, Follows, Busy
      <3>2. QED
        BY <1>2, <2>1, <3>1, LocalAside
    <2>2. CASE Claim(w) \/ Reclaim(w)
      <3>1. PICK e \in Evidence :
               /\ status'[e] = "deleting" /\ owner'[e] = w /\ lease'[e] = "live"
               /\ claim'[w].row = e /\ claim'[w].generation = generation'[e]
               /\ status[e] = "retained" \/ lease[e] # "live"
               /\ \A f \in Evidence : f # e =>
                      /\ status'[f] = status[f] /\ owner'[f] = owner[f] /\ lease'[f] = lease[f]
                      /\ generation'[f] = generation[f]
               /\ \A u \in Workers : u # w => claim'[u] = claim[u] /\ pc'[u] = pc[u]
        <4>1. CASE Claim(w)
          BY <4>1 DEF Claim, Claimable, IsOldest, Goto, TypeOK
        <4>2. CASE Reclaim(w)
          BY <4>2 DEF Reclaim, Reclaimable, IsOldest, Goto, TypeOK
        <4>3. QED
          BY <2>2, <4>1, <4>2
      <3>2. CASE v = w
        BY <3>1, <3>2 DEF Live, Fenced, Row
      <3>3. CASE v # w
        <4>1. AtWork(v)
          BY <3>1, <3>3 DEF Busy
        <4>2. Live(v) /\ Row(v) # e /\ Row(v) \in Evidence
          BY <1>1, <3>1, <4>1 DEF Live, Fenced
        <4>3. QED
          BY <3>1, <3>3, <4>2 DEF Live, Fenced, Row
      <3>4. QED
        BY <3>2, <3>3
    <2>3. CASE Finalise(w) \/ Release(w) \/ MarkUncertain(w)
      <3>1. v # w /\ AtWork(v)
        BY <2>3, SettleAside DEF Busy
      <3>2. CASE UNCHANGED <<status, owner, lease>>
        BY <1>2, <2>3, <3>1, <3>2, SettleAside
      <3>3. CASE Fenced(w)
        <4>1. Row(v) # Row(w)
          BY <1>1, <3>1, <3>3 DEF Live, Fenced
        <4>2. QED
          BY <1>1, <2>3, <3>1, <4>1, SettleAside DEF Live, Fenced, Row
      <3>4. QED
        BY <2>3, <3>2, <3>3, SettleAside
    <2>4. QED
      BY <1>3, <2>1, <2>2, <2>3 DEF Sweep, Delete, Recover, LocalStep
  <1>4. ASSUME NEW w \in Workers, Crash(w)
        PROVE  Live(v)'
    BY <1>2, <1>4 DEF Crash, Goto, Busy, TypeOK, rowVars
  <1>5. ASSUME NEW e \in Evidence, LeaseExpires(e)
        PROVE  Live(v)'
    <2>1. AtWork(v)
      BY <1>5 DEF LeaseExpires, Busy
    <2>2. Row(v) # e
      <3>1. stalls' = stalls
        BY <1>0, <1>5 DEF LeaseExpires
      <3>2. ~Working(v, e)
        BY <1>0, <1>5, <3>1 DEF LeaseExpires
      <3>3. QED
        BY <1>1, <2>1, <3>2 DEF Working, Live, Fenced, Busy
    <2>3. QED
      BY <1>1, <1>5, <2>1, <2>2 DEF LeaseExpires, Live, Fenced, Row, TypeOK
  <1>6. CASE VolumeLost \/ VolumeBack \/ UNCHANGED vars
    BY <1>2, <1>6 DEF VolumeLost, VolumeBack, vars, rowVars, Busy
  <1>7. QED
    BY <1>3, <1>4, <1>5, <1>6 DEF Next

LEMMA LeasesHeld == Spec => []HoldsLease
  <1>1. Init => HoldsLease
    BY DEF Init, HoldsLease, Busy
  <1>2. TypeOK /\ FenceInv /\ HoldsLease /\ [Next]_vars => HoldsLease'
    BY LeaseStep
  <1>3. QED
    BY <1>1, <1>2, TypeCorrect, Fences, PTL DEF Spec

LEMMA OwnRow ==
    ASSUME HoldsLease, stalls = 0, NEW v \in Workers, NEW w \in Workers, v # w,
           Busy(v), pc[v] # "uncertain", Busy(w), pc[w] # "uncertain"
    PROVE  Row(v) # Row(w)
  BY DEF HoldsLease, Live, Fenced

(* As long as no lease runs out under its owner's hands, and whatever else *)
(* fails or crashes, one sweep at a time handles a row.                    *)
THEOREM OneSweepHandles == Spec => [](stalls = 0 => OneHandler)
  <1>1. HoldsLease => (stalls = 0 => OneHandler)
    BY DEF HoldsLease, OneHandler, Live, Fenced, Busy, Handling, Recovering
  <1>2. QED
    BY <1>1, LeasesHeld, PTL

(* What a sweep proves of its row on its way, one action at a time.        *)
LEMMA StepProves ==
    ASSUME TypeOK, FenceInv, NEW w \in Workers, LocalStep(w), mounted, Proved(w)
    PROVE  Proved(w)'
  <1> DEFINE e == Row(w)
  <1> USE DEF Proved, Absent, OriginalSeen, CopiesSeen, TombstonesSeen, LegacySeen, Legacy
  <1>1. Busy(w) => e \in Evidence /\ copies[e] \subseteq Nat
    BY DEF FenceInv, ClaimsRow, TypeOK
  <1>2. ASSUME NEW label, Proceed(w, label) \/ Fail(w, label),
               label \in Absent => ~original[e],
               label \notin {"probePreferred", "probeOriginal", "moveInherited", "moveInheritedFailed"},
               label \in {"removeEach", "rmEach"} => copies[e] \subseteq seen[w],
               label \in {"assertRoot", "finalise", "checkReappeared", "listSurvivors"}
                  => copies[e] = {}
        PROVE  Proved(w)'
    <2>1. pc'[w] = label /\ UNCHANGED <<claim, seen, original, copies>>
      BY <1>2 DEF Proceed, Fail, Goto, TypeOK, diskVars
    <2>2. QED
      BY <1>2, <2>1 DEF Row
  <1>3. ASSUME NEW label, NEW found, See(w, found, label),
               label \in {"probePreferred", "probeOriginal"} => copies[e] \subseteq found \cup {Legacy},
               label \in {"moveInherited", "removeEach"} => copies[e] \subseteq found,
               label \in Absent => ~original[e],
               label \in {"assertRoot", "probePreferred", "probeOriginal", "moveInherited",
                          "removeEach", "uncertain"},
               label = "assertRoot" => copies[e] = {}
        PROVE  Proved(w)'
    <2>1. /\ pc'[w] = label /\ seen'[w] = found /\ UNCHANGED <<claim, original, copies>>
      BY <1>3 DEF See, Goto, TypeOK, diskVars
    <2>2. QED
      BY <1>3, <2>1 DEF Row
  <1>4. CASE NothingStranded(w) \/ NothingToDelete(w) \/ RenewLease(w)
    BY <1>2, <1>4 DEF NothingStranded, NothingToDelete, RenewLease
  <1>5. CASE MoveFailed(w) \/ ConfirmRestored(w) \/ CheckOriginal(w)
    BY <1>2, <1>5 DEF MoveFailed, ConfirmRestored, CheckOriginal
  <1>6. CASE AfterFailedMove(w)
    BY <1>1, <1>2, <1>6 DEF AfterFailedMove, Busy
  <1>7. CASE CheckRest(w) \/ AssertRoot(w)
    BY <1>1, <1>2, <1>7 DEF CheckRest, AssertRoot, Busy
  <1>8. CASE CheckReappeared(w) \/ ListSurvivors(w)
    BY <1>2, <1>8 DEF CheckReappeared, ListSurvivors
  <1>9. CASE Move(w)
    <2>1. CASE MoveOut(w) /\ \E label \in {"rm", "moveFailed"} : Goto(w, label)
      BY <2>1 DEF Goto, TypeOK
    <2>2. QED
      BY <1>2, <1>9, <2>1 DEF Move
  <1>10. CASE RmTombstone(w)
    <2>1. CASE \E label \in {"checkOriginal", "restore"} : Goto(w, label)
      BY <2>1 DEF Goto, TypeOK
    <2>2. QED
      BY <1>2, <1>10, <2>1 DEF RmTombstone
  <1>11. CASE Restore(w)
    <2>1. CASE \E label \in {"confirmRestored", "uncertain"} : Goto(w, label)
      BY <2>1 DEF Goto, TypeOK
    <2>2. QED
      BY <1>2, <1>11, <2>1 DEF Restore
  <1>12. CASE ListTombstones(w)
    BY <1>2, <1>3, <1>12 DEF ListTombstones
  <1>13. CASE ProbePreferred(w)
    BY <1>2, <1>3, <1>13 DEF ProbePreferred
  <1>14. CASE ProbeOriginal(w)
    BY <1>2, <1>3, <1>14 DEF ProbeOriginal
  <1>15. CASE MoveInherited(w)
    <2>1. CASE MoveOut(w)
      <3>1. /\ ~original'[e] /\ copies'[e] = copies[e] \cup {Operation(w)}
            /\ UNCHANGED claim
        BY <1>1, <1>15, <2>1 DEF MoveInherited, MoveOut, TypeOK, Busy, Proceed, Fail
      <3>2. \/ pc'[w] = "removeEach" /\ seen'[w] = seen[w] \cup {Operation(w)}
            \/ pc'[w] = "moveInheritedFailed" /\ seen'[w] = seen[w]
            \/ pc'[w] = "uncertain"
        BY <1>15, <2>1 DEF MoveInherited, MoveOut, Goto, TypeOK, Proceed, Fail
      <3>3. QED
        BY <1>15, <3>1, <3>2 DEF MoveInherited, Row, Operation
    <2>2. CASE \E label \in {"moveInheritedFailed", "uncertain"} : Proceed(w, label) \/ Fail(w, label)
      <3>1. /\ UNCHANGED <<claim, seen, original, copies>>
            /\ pc'[w] \in {"moveInheritedFailed", "uncertain"}
        BY <2>2 DEF Proceed, Fail, Goto, TypeOK, diskVars
      <3>2. QED
        BY <1>15, <3>1 DEF MoveInherited, Row, Operation
    <2>3. QED
      BY <1>15, <2>1, <2>2 DEF MoveInherited
  <1>16. CASE MoveInheritedFailed(w)
    BY <1>2, <1>3, <1>16 DEF MoveInheritedFailed
  <1>17. CASE RemoveEach(w)
    <2>1. seen[w] # {} => NextCopy(w) \in seen[w]
      BY NextCopySeen
    <2>2. CASE seen[w] # {} /\ ~PresentAt(e, NextCopy(w)) /\ See(w, seen[w] \ {NextCopy(w)}, "removeEach")
      BY <1>3, <1>17, <2>2 DEF RemoveEach, PresentAt
    <2>3. QED
      BY <1>2, <1>17, <2>1, <2>2 DEF RemoveEach
  <1>18. CASE RmEach(w)
    <2>1. CASE Remove(w, NextCopy(w))
      <3>1. /\ ~original'[e] /\ copies'[e] = copies[e] \ {NextCopy(w)} /\ UNCHANGED claim
        BY <1>1, <1>18, <2>1 DEF RmEach, Remove, TypeOK, Busy, Proceed, Fail
      <3>2. \/ pc'[w] = "removeEach" /\ seen'[w] = seen[w] \ {NextCopy(w)}
            \/ pc'[w] = "uncertain"
        BY <1>18, <2>1 DEF RmEach, Goto, TypeOK, Proceed, Fail
      <3>3. QED
        BY <1>18, <3>1, <3>2 DEF RmEach, Row
    <2>2. QED
      BY <1>2, <1>18, <2>1 DEF RmEach
  <1>19. QED
    BY <1>4, <1>5, <1>6, <1>7, <1>8, <1>9, <1>10, <1>11, <1>12, <1>13, <1>14, <1>15, <1>16, <1>17,
       <1>18 DEF LocalStep

(* A step of one sweep, or of none, is no business of the others.          *)
LEMMA OthersProve ==
    ASSUME NEW v, Proved(v), pc'[v] = pc[v], seen'[v] = seen[v], claim'[v] = claim[v],
           UNCHANGED <<original, copies>> \/
              (original'[Row(v)] = original[Row(v)] /\ copies'[Row(v)] = copies[Row(v)])
    PROVE  Proved(v)'
  BY DEF Proved, Row, Operation

LEMMA AbsenceStep ==
    ASSUME TypeOK, FenceInv, HoldsLease, ProvesAbsence, [Next]_vars
    PROVE  ProvesAbsence'
  <1> SUFFICES ASSUME Undisturbed'
               PROVE  mounted' /\ DeletedMeansGone' /\ \A v \in Workers : Proved(v)'
    BY DEF ProvesAbsence
  <1>0. Undisturbed
    <2>1. \/ UNCHANGED <<stalls, outages>>
          \/ VolumeLost \/ \E e \in Evidence : LeaseExpires(e)
      BY LocalAside, SettleAside DEF Next, vars, envVars, Sweep, Delete, Recover, LocalStep, Claim,
         Reclaim, Crash, VolumeBack
    <2>2. QED
      BY <2>1 DEF VolumeLost, LeaseExpires, TypeOK, Undisturbed
  <1>1. stalls = 0 /\ mounted /\ DeletedMeansGone /\ \A v \in Workers : Proved(v)
    BY <1>0 DEF ProvesAbsence, Undisturbed
  <1>2. \A v \in Workers : pc[v] \notin {"idle", "claim", "uncertain"} =>
            /\ Busy(v) /\ Row(v) \in Evidence /\ status[Row(v)] = "deleting"
    BY <1>1 DEF HoldsLease, FenceInv, ClaimsRow, Live, Fenced, Busy
  <1>3. \A v \in Workers : pc'[v] \in {"idle", "claim", "uncertain", "renew", "listTombstones"} => Proved(v)'
    BY DEF Proved, Absent
  <1>4. ASSUME NEW w \in Workers, Sweep(w)
        PROVE  mounted' /\ DeletedMeansGone' /\ \A v \in Workers : Proved(v)'
    <2>1. CASE LocalStep(w)
      <3>1. mounted' /\ Proved(w)'
        BY <1>1, <2>1, StepProves, LocalAside
      <3>2. /\ UNCHANGED <<status, claim>> /\ pc[w] # "uncertain"
            /\ \A v \in Workers \ {w} : pc'[v] = pc[v] /\ seen'[v] = seen[v]
            /\ \A f \in Evidence : f # Row(w) => original'[f] = original[f] /\ copies'[f] = copies[f]
            /\ original' # original => pc[w] \in Handling
        BY <2>1, SweepLocal, LocalAside DEF Local
      <3>3. UNCHANGED <<original, copies>> \/ pc[w] \notin {"idle", "claim"}
        BY <2>1 DEF LocalStep, NothingStranded, NothingToDelete, RenewLease, MoveFailed,
           AfterFailedMove, AssertRoot, CheckOriginal, CheckRest, ConfirmRestored, CheckReappeared,
           ListSurvivors, Move, RmTombstone, Restore, ListTombstones, ProbePreferred,
           ProbeOriginal, MoveInherited, MoveInheritedFailed, RemoveEach, RmEach, Proceed, diskVars
      <3>4. ASSUME NEW v \in Workers, v # w
            PROVE  Proved(v)'
        <4>1. CASE pc[v] \in {"idle", "claim", "uncertain"}
          BY <1>3, <3>2, <3>4, <4>1
        <4>2. CASE pc[v] \notin {"idle", "claim", "uncertain"}
          <5>1. UNCHANGED <<original, copies>> \/ Row(v) # Row(w)
            BY <1>1, <1>2, <3>2, <3>3, <3>4, <4>2, OwnRow
          <5>2. Row(v) \in Evidence
            BY <1>2, <4>2
          <5>3. QED
            BY <1>1, <3>2, <3>4, <5>1, <5>2, OthersProve
        <4>3. QED
          BY <4>1, <4>2
      <3>5. DeletedMeansGone'
        <4> SUFFICES ASSUME NEW f \in Evidence, status[f] = "deleted"
                     PROVE  ~HasBytes(f)'
          BY <3>2 DEF DeletedMeansGone
        <4>1. UNCHANGED <<original, copies>> \/ f # Row(w)
          BY <1>2, <3>2, <3>3
        <4>2. QED
          BY <1>1, <3>2, <4>1 DEF DeletedMeansGone, HasBytes
      <3>6. QED
        BY <3>1, <3>4, <3>5
    <2>2. CASE Claim(w) \/ Reclaim(w)
      <3>1. mounted'
        BY <1>1, <2>2 DEF Claim, Reclaim, envVars
      <3>2. PICK e \in Evidence : Takes(w, e)
        BY <2>2, ClaimTakes
      <3>3. DeletedMeansGone'
        BY <1>1, <3>2 DEF DeletedMeansGone, HasBytes, Takes
      <3>4. \A v \in Workers : Proved(v)'
        BY <1>1, <1>3, <3>2, OthersProve DEF Takes
      <3>5. QED
        BY <3>1, <3>3, <3>4
    <2>3. CASE Finalise(w) \/ Release(w) \/ MarkUncertain(w)
      <3>1. mounted' /\ \A v \in Workers : Proved(v)'
        BY <1>1, <1>3, <2>3, SettleAside, OthersProve
      <3>2. \A f \in Evidence : status'[f] = "deleted" =>
                status[f] = "deleted" \/ (f = Row(w) /\ pc[w] = "finalise")
        BY <2>3, SettleAside DEF Finalise, Release, MarkUncertain, Settle, Proceed, Fail, rowVars, TypeOK
      <3>3. pc[w] = "finalise" => ~HasBytes(Row(w))
        BY <1>1 DEF Proved, Absent, HasBytes
      <3>4. DeletedMeansGone'
        BY <1>1, <2>3, <3>2, <3>3, SettleAside DEF DeletedMeansGone, HasBytes
      <3>5. QED
        BY <3>1, <3>4
    <2>4. QED
      BY <1>4, <2>1, <2>2, <2>3 DEF Sweep, Delete, Recover, LocalStep
  <1>5. CASE UNCHANGED <<status, original, copies, pc, claim, seen>> /\ mounted'
    BY <1>1, <1>5, OthersProve DEF DeletedMeansGone, HasBytes
  <1>6. ASSUME NEW w \in Workers, Crash(w)
        PROVE  mounted' /\ DeletedMeansGone' /\ \A v \in Workers : Proved(v)'
    <2>1. /\ UNCHANGED <<status, original, copies, claim, seen, mounted>> /\ pc'[w] = "idle"
          /\ \A v \in Workers \ {w} : pc'[v] = pc[v]
      BY <1>6 DEF Crash, Goto, TypeOK, rowVars, diskVars
    <2>2. QED
      BY <1>1, <1>3, <2>1, OthersProve DEF DeletedMeansGone, HasBytes
  <1>7. CASE UNCHANGED vars \/ VolumeBack \/ \E e \in Evidence : LeaseExpires(e)
    BY <1>1, <1>5, <1>7 DEF vars, rowVars, diskVars, envVars, VolumeBack, LeaseExpires
  <1>8. ~VolumeLost
    BY <1>0 DEF VolumeLost, Undisturbed, TypeOK
  <1>9. QED
    BY <1>4, <1>6, <1>7, <1>8 DEF Next

LEMMA AbsenceProved == Spec => []ProvesAbsence
  <1>1. Init => ProvesAbsence
    BY DEF Init, ProvesAbsence, DeletedMeansGone, Proved, Absent
  <1>2. TypeOK /\ FenceInv /\ HoldsLease /\ ProvesAbsence /\ [Next]_vars => ProvesAbsence'
    BY AbsenceStep
  <1>3. QED
    BY <1>1, <1>2, TypeCorrect, Fences, LeasesHeld, PTL DEF Spec

(* As long as, besides, the volume stays attached, no row is recorded as   *)
(* deleted whose bytes exist under any name, whatever crashed and failed.  *)
THEOREM LeasesProtectTheRecord == Spec => [](Undisturbed => LeasesProtect)
  <1>1. HoldsLease /\ ProvesAbsence => (Undisturbed => LeasesProtect)
    BY DEF HoldsLease, ProvesAbsence, Undisturbed, LeasesProtect, OneHandler, Live, Fenced, Busy,
       Handling, Recovering
  <1>2. QED
    BY <1>1, LeasesHeld, AbsenceProved, PTL

-----------------------------------------------------------------------------
(* What a sweep expects to find it finds, one action at a time.            *)
LEMMA StepExpects ==
    ASSUME TypeOK, FenceInv, NEW w \in Workers, LocalStep(w), mounted, Proved(w), Shadows = {},
           faults' = 0, Busy(w), Live(w), Row(w) \notin LegacyRows, Expects(w)
    PROVE  Busy(w)' => Expects(w)'
  <1> DEFINE e == Row(w)
  <1> USE DEF Expects, Doubting, OriginalSeen, CopiesSeen, TombstonesSeen, LegacySeen, Legacy
  <1>1. /\ e \in Evidence /\ copies[e] \subseteq Nat /\ seen[w] \subseteq Nat
        /\ Legacy \notin copies[e] /\ Legacy \notin seen[w]
    BY DEF FenceInv, ClaimsRow, SuffixIsLegacy, TypeOK
  <1>2. ~Fault /\ ~Collides(e)
    BY DEF Fault, Collides, TypeOK
  <1>3. \A label : ~Fail(w, label)
    BY <1>2 DEF Fail
  <1>4. ASSUME NEW label, Proceed(w, label), label \notin Doubting,
               label \in {"renew", "move"} => original[e] /\ copies[e] = {},
               label \notin {"rm", "checkOriginal"},
               label = "checkRest" => copies[e] = {},
               label = "moveInherited" => original[e],
               label = "rmEach" => NextCopy(w) \in copies[e]
        PROVE  Expects(w)'
    <2>1. pc'[w] = label /\ UNCHANGED <<claim, seen, original, copies>>
      BY <1>4 DEF Proceed, Goto, TypeOK, diskVars
    <2>2. NextCopy(w)' = NextCopy(w) /\ Row(w)' = e
      BY <2>1 DEF NextCopy, Row
    <2>3. QED
      BY <1>4, <2>1, <2>2
  <1>5. ASSUME NEW label, NEW found, See(w, found, label),
               label \in {"assertRoot", "probePreferred", "probeOriginal", "moveInherited", "removeEach"},
               label = "moveInherited" => original[e]
        PROVE  Expects(w)'
    <2>1. pc'[w] = label /\ UNCHANGED <<claim, original, copies>>
      BY <1>5 DEF See, Goto, TypeOK, diskVars
    <2>2. QED
      BY <1>5, <2>1 DEF Row
  <1>6. CASE NothingStranded(w) \/ NothingToDelete(w)
    BY <1>6 DEF NothingStranded, NothingToDelete, Busy
  <1>7. CASE RenewLease(w)
    BY <1>3, <1>4, <1>7 DEF RenewLease
  <1>8. CASE MoveFailed(w) \/ AfterFailedMove(w) \/ Restore(w) \/ ConfirmRestored(w)
             \/ MoveInheritedFailed(w)
    BY <1>8 DEF MoveFailed, AfterFailedMove, Restore, ConfirmRestored, MoveInheritedFailed
  <1>9. CASE AssertRoot(w) \/ CheckOriginal(w) \/ CheckRest(w)
    BY <1>1, <1>2, <1>3, <1>4, <1>9 DEF AssertRoot, CheckOriginal, CheckRest
  <1>10. CASE CheckReappeared(w) \/ ListSurvivors(w)
    BY <1>1, <1>3, <1>4, <1>10 DEF CheckReappeared, ListSurvivors, Proved, Absent
  <1>11. CASE ListTombstones(w) \/ ProbePreferred(w) \/ ProbeOriginal(w)
    BY <1>1, <1>2, <1>3, <1>5, <1>11 DEF ListTombstones, ProbePreferred, ProbeOriginal
  <1>12. CASE Move(w)
    <2>1. MoveOut(w) /\ Goto(w, "rm") /\ UNCHANGED claim /\ original[e] /\ copies[e] = {}
      BY <1>2, <1>3, <1>12 DEF Move
    <2>2. /\ pc'[w] = "rm" /\ ~original'[e] /\ copies'[e] = {Operation(w)}
          /\ Row(w)' = e /\ Operation(w)' = Operation(w)
      BY <1>1, <2>1 DEF MoveOut, Goto, TypeOK, Row, Operation
    <2>3. QED
      BY <2>2
  <1>13. CASE RmTombstone(w)
    <2>1. Remove(w, Operation(w)) /\ Goto(w, "checkOriginal") /\ UNCHANGED claim
      BY <1>2, <1>3, <1>13 DEF RmTombstone
    <2>2. ~original[e] /\ copies[e] = {Operation(w)}
      BY <1>13 DEF RmTombstone
    <2>3. pc'[w] = "checkOriginal" /\ ~original'[e] /\ copies'[e] = {} /\ Row(w)' = e
      BY <1>1, <2>1, <2>2 DEF Remove, Goto, TypeOK, Row
    <2>4. QED
      BY <2>3
  <1>14. CASE MoveInherited(w)
    <2>1. Goto(w, "removeEach")
      BY <1>2, <1>3, <1>14 DEF MoveInherited
    <2>2. pc'[w] = "removeEach"
      BY <2>1 DEF Goto, TypeOK
    <2>3. QED
      BY <2>2
  <1>15. CASE RemoveEach(w)
    <2>1. CASE seen[w] = {} /\ Proceed(w, "checkReappeared")
      BY <1>4, <2>1
    <2>2. CASE PresentAt(e, NextCopy(w)) /\ Proceed(w, "rmEach")
      BY <1>2, <1>4, <2>2 DEF PresentAt
    <2>3. CASE See(w, seen[w] \ {NextCopy(w)}, "removeEach")
      BY <1>5, <2>3
    <2>4. QED
      BY <1>3, <1>15, <2>1, <2>2, <2>3 DEF RemoveEach
  <1>16. CASE RmEach(w)
    <2>1. Goto(w, "removeEach")
      BY <1>2, <1>3, <1>16 DEF RmEach, PresentAt
    <2>2. pc'[w] = "removeEach"
      BY <2>1 DEF Goto, TypeOK
    <2>3. QED
      BY <2>2
  <1>17. QED
    BY <1>6, <1>7, <1>8, <1>9, <1>10, <1>11, <1>12, <1>13, <1>14, <1>15, <1>16 DEF LocalStep

LEMMA OthersExpect ==
    ASSUME NEW v, Expects(v), pc'[v] = pc[v], seen'[v] = seen[v], claim'[v] = claim[v],
           original'[Row(v)] = original[Row(v)], copies'[Row(v)] = copies[Row(v)]
    PROVE  Expects(v)'
  <1>1. Row(v)' = Row(v) /\ Operation(v)' = Operation(v) /\ NextCopy(v)' = NextCopy(v)
    BY DEF Row, Operation, NextCopy
  <1>2. QED
    BY <1>1 DEF Expects

LEMMA CertaintyStep ==
    ASSUME TypeOK, FenceInv, HoldsLease, ProvesAbsence, NeverDoubts, [Next]_vars
    PROVE  NeverDoubts'
  <1> DEFINE RowsSure == \A e \in Evidence \ LegacyRows :
               status[e] # "integrity_unknown" /\ (status[e] = "retained" => copies[e] = {})
             Sure(v) == Busy(v) /\ Row(v) \notin LegacyRows => Expects(v)
  <1> SUFFICES ASSUME Calm'
               PROVE  RowsSure' /\ \A v \in Workers : Sure(v)'
    BY DEF NeverDoubts
  <1>0. Calm
    <2>1. \/ UNCHANGED <<stalls, outages>> /\ (faults' = faults \/ faults' = faults + 1)
          \/ UNCHANGED <<stalls, faults>> /\ VolumeLost
          \/ UNCHANGED <<outages, faults>> /\ \E e \in Evidence : LeaseExpires(e)
      BY LocalAside, SettleAside DEF Next, vars, envVars, Sweep, Delete, Recover, LocalStep, Claim,
         Reclaim, Crash, VolumeLost, LeaseExpires, VolumeBack
    <2>2. QED
      BY <2>1 DEF VolumeLost, LeaseExpires, TypeOK, Calm, Undisturbed
  <1>1. /\ mounted /\ stalls = 0 /\ Shadows = {} /\ faults' = 0
        /\ \A v \in Workers : Proved(v) /\ Sure(v)
        /\ RowsSure
    BY <1>0 DEF Calm, Undisturbed, ProvesAbsence, NeverDoubts
  <1>2. \A v \in Workers : Busy(v) => Row(v) \in Evidence
    BY DEF FenceInv, ClaimsRow
  <1>3. \A v \in Workers : Busy(v) /\ pc[v] # "uncertain" => Live(v) /\ status[Row(v)] = "deleting"
    BY <1>1 DEF HoldsLease, Live, Fenced
  <1>4. \A v \in Workers : Busy(v) /\ Row(v) \notin LegacyRows => pc[v] # "uncertain"
    BY <1>1 DEF Expects, Doubting
  <1>5. ASSUME NEW w \in Workers, Sweep(w)
        PROVE  RowsSure' /\ \A v \in Workers : Sure(v)'
    <2>1. CASE LocalStep(w)
      <3>1. /\ UNCHANGED <<status, claim>> /\ pc[w] # "uncertain"
            /\ \A v \in Workers \ {w} : pc'[v] = pc[v] /\ seen'[v] = seen[v]
            /\ \A f \in Evidence : f # Row(w) => original'[f] = original[f] /\ copies'[f] = copies[f]
            /\ Busy(w)' => Busy(w)
        BY <2>1, SweepLocal, LocalAside DEF Local, Follows, Busy
      <3>2. UNCHANGED <<original, copies>> \/ Busy(w)
        BY <2>1 DEF LocalStep, NothingStranded, NothingToDelete, RenewLease, MoveFailed,
           AfterFailedMove, AssertRoot, CheckOriginal, CheckRest, ConfirmRestored, CheckReappeared,
           ListSurvivors, Move, RmTombstone, Restore, ListTombstones, ProbePreferred,
           ProbeOriginal, MoveInherited, MoveInheritedFailed, RemoveEach, RmEach, Proceed, diskVars,
           Busy
      <3>3. Sure(w)'
        <4> SUFFICES ASSUME Busy(w)', Row(w)' \notin LegacyRows
                     PROVE  Expects(w)'
          OBVIOUS
        <4>1. Busy(w) /\ Row(w) \notin LegacyRows
          BY <3>1 DEF Row
        <4>2. Live(w) /\ Expects(w)
          BY <1>1, <1>3, <3>1, <4>1
        <4>3. QED
          BY <1>1, <2>1, <4>1, <4>2, StepExpects
      <3>4. ASSUME NEW v \in Workers, v # w
            PROVE  Sure(v)'
        <4> SUFFICES ASSUME Busy(v)', Row(v)' \notin LegacyRows
                     PROVE  Expects(v)'
          OBVIOUS
        <4>1. Busy(v) /\ Row(v) \notin LegacyRows
          BY <3>1, <3>4 DEF Row, Busy
        <4>2. Row(v) \in Evidence /\ (UNCHANGED <<original, copies>> \/ Row(v) # Row(w))
          BY <1>1, <1>2, <1>4, <3>1, <3>2, <3>4, <4>1, OwnRow
        <4>3. original'[Row(v)] = original[Row(v)] /\ copies'[Row(v)] = copies[Row(v)]
          BY <3>1, <4>2
        <4>4. Expects(v)
          BY <1>1, <4>1
        <4>5. QED
          BY <3>1, <3>4, <4>3, <4>4, OthersExpect
      <3>5. RowsSure'
        <4>1. \A e \in Evidence : status[e] = "retained" => copies'[e] = copies[e]
          BY <1>3, <3>1, <3>2
        <4>2. QED
          BY <1>1, <3>1, <4>1
      <3>6. QED
        BY <3>3, <3>4, <3>5
    <2>2. CASE Claim(w) \/ Reclaim(w)
      <3>1. PICK e \in Evidence : Takes(w, e)
        BY <2>2, ClaimTakes
      <3>2. RowsSure'
        BY <1>1, <3>1 DEF Takes
      <3>3. Sure(w)'
        <4>1. CASE pc'[w] = "renew" /\ status[e] = "retained"
          <5>1. e \notin LegacyRows => copies[e] = {} /\ original[e]
            BY <1>1, <4>1 DEF FenceInv, RetainedMeansPresent
          <5>2. Row(w)' = e /\ UNCHANGED <<original, copies>>
            BY <3>1 DEF Takes, Row
          <5>3. QED
            BY <4>1, <5>1, <5>2 DEF Expects, Doubting
        <4>2. CASE pc'[w] = "listTombstones"
          BY <4>2 DEF Expects, Doubting
        <4>3. QED
          BY <3>1, <4>1, <4>2 DEF Takes
      <3>4. ASSUME NEW v \in Workers, v # w
            PROVE  Sure(v)'
        <4>1. /\ pc'[v] = pc[v] /\ seen'[v] = seen[v] /\ claim'[v] = claim[v]
              /\ UNCHANGED <<original, copies>>
          BY <3>1, <3>4 DEF Takes
        <4>2. Busy(v)' = Busy(v) /\ Row(v)' = Row(v)
          BY <4>1 DEF Busy, Row
        <4>3. QED
          BY <1>1, <4>1, <4>2, OthersExpect
      <3>5. QED
        BY <3>2, <3>3, <3>4
    <2>3. CASE Finalise(w) \/ Release(w) \/ MarkUncertain(w)
      <3>1. Busy(w)
        BY <2>3 DEF Finalise, Release, MarkUncertain, Busy
      <3>2. CASE Row(w) \in LegacyRows
        <4>1. RowsSure'
          BY <1>1, <2>3, <3>2, SettleAside
        <4>2. ASSUME NEW v \in Workers
              PROVE  Sure(v)'
          <5>1. CASE v = w
            BY <2>3, <3>2, <5>1, SettleAside DEF Row
          <5>2. CASE v # w
            <6>1. /\ pc'[v] = pc[v] /\ seen'[v] = seen[v] /\ claim'[v] = claim[v]
                  /\ UNCHANGED <<original, copies>>
              BY <2>3, <5>2, SettleAside
            <6>2. Busy(v)' = Busy(v) /\ Row(v)' = Row(v)
              BY <6>1 DEF Busy, Row
            <6>3. QED
              BY <1>1, <6>1, <6>2, OthersExpect
          <5>3. QED
            BY <5>1, <5>2
        <4>3. QED
          BY <4>1, <4>2
      <3>3. CASE Row(w) \notin LegacyRows
        <4>1. Finalise(w) /\ pc[w] = "finalise" /\ Live(w)
          BY <1>1, <1>3, <1>4, <2>3, <3>1, <3>3 DEF Finalise, Release, MarkUncertain, Expects, Doubting
        <4>2. ~Fault
          BY <1>1 DEF Fault, TypeOK
        <4>3. Settle(w, "deleted") /\ Goto(w, "idle")
          BY <4>1, <4>2 DEF Finalise, Fail
        <4>4. pc'[w] = "idle" /\ \A f \in Evidence : status'[f] = status[f] \/ status'[f] = "deleted"
          BY <4>3 DEF Settle, Goto, TypeOK
        <4>5. RowsSure'
          BY <1>1, <2>3, <4>4, SettleAside, ZenonT(60)
        <4>6. ASSUME NEW v \in Workers, v # w
              PROVE  Sure(v)'
          <5>1. /\ pc'[v] = pc[v] /\ seen'[v] = seen[v] /\ claim'[v] = claim[v]
                /\ UNCHANGED <<original, copies>>
            BY <2>3, <4>6, SettleAside
          <5>2. Busy(v)' = Busy(v) /\ Row(v)' = Row(v)
            BY <5>1 DEF Busy, Row
          <5>3. QED
            BY <1>1, <5>1, <5>2, OthersExpect
        <4>7. Sure(w)'
          BY <4>4 DEF Busy
        <4>8. QED
          BY <4>5, <4>6, <4>7
      <3>4. QED
        BY <3>2, <3>3
    <2>4. QED
      BY <1>5, <2>1, <2>2, <2>3 DEF Sweep, Delete, Recover, LocalStep
  <1>6. ASSUME UNCHANGED <<status, original, copies, claim, seen>>,
               \A v \in Workers : pc'[v] = pc[v] \/ pc'[v] = "idle"
        PROVE  RowsSure' /\ \A v \in Workers : Sure(v)'
    <2>1. RowsSure'
      BY <1>1, <1>6
    <2>2. ASSUME NEW v \in Workers
          PROVE  Sure(v)'
      <3>1. CASE pc'[v] = "idle"
        BY <3>1 DEF Busy
      <3>2. CASE pc'[v] = pc[v]
        <4>1. Busy(v)' = Busy(v) /\ Row(v)' = Row(v)
          BY <1>6, <3>2 DEF Busy, Row
        <4>2. QED
          BY <1>1, <1>6, <3>2, <4>1, OthersExpect
      <3>3. QED
        BY <1>6, <3>1, <3>2
    <2>3. QED
      BY <2>1, <2>2
  <1>7. ASSUME NEW w \in Workers, Crash(w)
        PROVE  RowsSure' /\ \A v \in Workers : Sure(v)'
    BY <1>6, <1>7 DEF Crash, Goto, TypeOK, rowVars, diskVars
  <1>8. CASE UNCHANGED vars \/ VolumeLost \/ VolumeBack \/ \E e \in Evidence : LeaseExpires(e)
    BY <1>6, <1>8 DEF vars, rowVars, diskVars, VolumeLost, VolumeBack, LeaseExpires
  <1>9. QED
    BY <1>5, <1>7, <1>8 DEF Next

(* As long as no call fails and no lease runs out under its owner's hands, *)
(* the volume stays and no key has the shape of another's suffix copy, a   *)
(* crash, at whatever step and however often, costs no row its certainty.  *)
THEOREM CrashesCostOnlyAPass == Spec => [](Calm => CrashKeepsCertainty)
  <1>1. Init => NeverDoubts
    BY DEF Init, NeverDoubts, Busy
  <1>2. TypeOK /\ FenceInv /\ HoldsLease /\ ProvesAbsence /\ NeverDoubts /\ [Next]_vars => NeverDoubts'
    BY CertaintyStep
  <1>3. NeverDoubts => (Calm => CrashKeepsCertainty)
    BY DEF NeverDoubts, CrashKeepsCertainty
  <1>4. QED
    BY <1>1, <1>2, <1>3, TypeCorrect, Fences, LeasesHeld, AbsenceProved, PTL DEF Spec

-----------------------------------------------------------------------------
(* The sweeps implement the deletion a reader of the record may rely on.   *)
Bytes == [e \in Evidence |-> HasBytes(e)]

(* A step that changes the status of one row and no file is that turn.     *)
LEMMA TurnMaps ==
    ASSUME NEW e \in Evidence, NEW from, NEW to, status[e] = from,
           status' = [status EXCEPT ![e] = to], UNCHANGED <<original, copies>>
    PROVE  Promise!Turn(e, from, to)
  BY DEF Promise!Turn, HasBytes

LEMMA NothingMaps ==
    ASSUME UNCHANGED <<status, original, copies>>
    PROVE  UNCHANGED Promise!promiseVars
  BY DEF Promise!promiseVars, HasBytes

(* A step of a sweep that leaves the rows alone creates no bytes.          *)
LEMMA NothingAppears ==
    ASSUME TypeOK, FenceInv, NEW w \in Workers, LocalStep(w), NEW f \in Evidence, HasBytes(f)'
    PROVE  HasBytes(f)
  <1>1. CASE f # Row(w)
    BY <1>1, SweepLocal, LocalAside DEF Local, HasBytes
  <1>2. CASE f = Row(w)
    <2>1. CASE UNCHANGED <<original, copies>>
      BY <2>1 DEF HasBytes
    <2>2. CASE MoveOut(w)
      BY <1>2, <2>2 DEF MoveOut, OriginalSeen, HasBytes
    <2>3. CASE MoveBack(w)
      BY <1>2, <2>3 DEF MoveBack, CopiesSeen, HasBytes
    <2>4. ASSUME NEW path, Remove(w, path) PROVE HasBytes(f)
      <3>1. copies'[f] = copies[f] \ {path} /\ (original'[f] => original[f])
        BY <1>2, <2>4 DEF Remove, TypeOK
      <3>2. QED
        BY <3>1 DEF HasBytes
    <2>5. QED
      BY <2>1, <2>2, <2>3, <2>4
      DEF LocalStep, NothingStranded, NothingToDelete, RenewLease, MoveFailed, AfterFailedMove,
          AssertRoot, CheckOriginal, CheckRest, ConfirmRestored, CheckReappeared, ListSurvivors,
          Move, RmTombstone, Restore, ListTombstones, ProbePreferred, ProbeOriginal,
          MoveInherited, MoveInheritedFailed, RemoveEach, RmEach, Proceed, Fail, See, diskVars
  <1>3. QED
    BY <1>1, <1>2

LEMMA StepMaps ==
    ASSUME TypeOK, FenceInv, HoldsLease, ProvesAbsence, Undisturbed, [Next]_vars
    PROVE  [Promise!Next]_(Promise!promiseVars)
  <1>0. /\ stalls = 0 /\ \A v \in Workers : Proved(v)
        /\ \A v \in Workers : Busy(v) => Row(v) \in Evidence
    BY DEF Undisturbed, ProvesAbsence, FenceInv, ClaimsRow
  <1>1. ASSUME NEW w \in Workers, LocalStep(w)
        PROVE  [Promise!Next]_(Promise!promiseVars)
    <2>1. UNCHANGED status /\ pc[w] # "uncertain"
      BY <1>1, LocalAside
    <2>2. CASE UNCHANGED <<original, copies>>
      BY <2>1, <2>2, NothingMaps
    <2>3. CASE ~UNCHANGED <<original, copies>>
      <3>1. Busy(w)
        BY <1>1, <2>3 DEF LocalStep, NothingStranded, NothingToDelete, RenewLease, MoveFailed,
           AfterFailedMove, AssertRoot, CheckOriginal, CheckRest, ConfirmRestored, CheckReappeared,
           ListSurvivors, Move, RmTombstone, Restore, ListTombstones, ProbePreferred,
           ProbeOriginal, MoveInherited, MoveInheritedFailed, RemoveEach, RmEach, Proceed, diskVars,
           Busy
      <3>2. PICK e \in Evidence : e = Row(w)
        BY <1>0, <3>1
      <3>3. status[e] = "deleting"
        BY <1>0, <2>1, <3>1, <3>2 DEF HoldsLease, Live, Fenced
      <3>4. \A f \in Evidence \ {e} : HasBytes(f)' = HasBytes(f)
        BY <1>1, <3>2, SweepLocal, LocalAside DEF Local, HasBytes
      <3>5. HasBytes(e)' => HasBytes(e)
        BY <1>1, NothingAppears
      <3>6. HasBytes(e) \in BOOLEAN /\ HasBytes(e)' \in BOOLEAN
        BY DEF HasBytes
      <3>7. CASE HasBytes(e)' = HasBytes(e)
        <4>1. \A f \in Evidence : HasBytes(f)' = HasBytes(f)
          BY <3>4, <3>7
        <4>2. QED
          BY <2>1, <4>1 DEF Promise!promiseVars
      <3>8. CASE HasBytes(e) /\ ~HasBytes(e)'
        <4>0. \A f \in Evidence : HasBytes(f)' = IF f = e THEN FALSE ELSE HasBytes(f)
          BY <3>4, <3>6, <3>8
        <4>1. Bytes' = [Bytes EXCEPT ![e] = FALSE]
          BY <4>0 DEF Bytes
        <4>2. Promise!Erase(e)
          BY <2>1, <3>3, <3>8, <4>1 DEF Promise!Erase, Bytes
        <4>3. QED
          BY <4>2 DEF Promise!Next
      <3>9. QED
        BY <3>5, <3>6, <3>7, <3>8
    <2>4. QED
      BY <2>2, <2>3
  <1>2. ASSUME NEW w \in Workers, Claim(w) \/ Reclaim(w)
        PROVE  [Promise!Next]_(Promise!promiseVars)
    <2>1. UNCHANGED <<original, copies>>
      BY <1>2 DEF Claim, Reclaim, diskVars
    <2>2. CASE Claim(w)
      <3>1. PICK e \in Evidence : status[e] = "retained" /\ status' = [status EXCEPT ![e] = "deleting"]
        BY <2>2 DEF Claim, IsOldest, Claimable
      <3>2. HasBytes(e)
        BY <3>1 DEF FenceInv, RetainedMeansPresent, HasBytes
      <3>3. Promise!Begin(e)
        BY <2>1, <3>1, <3>2, TurnMaps DEF Promise!Begin
      <3>4. QED
        BY <3>3 DEF Promise!Next
    <2>3. CASE Reclaim(w)
      BY <2>1, <2>3, NothingMaps DEF Reclaim
    <2>4. QED
      BY <1>2, <2>2, <2>3
  <1>3. ASSUME NEW w \in Workers, Finalise(w) \/ Release(w) \/ MarkUncertain(w)
        PROVE  [Promise!Next]_(Promise!promiseVars)
    <2>1. UNCHANGED <<original, copies>> /\ Row(w) \in Evidence
      BY <1>3, SettleAside
    <2>2. CASE UNCHANGED status
      BY <2>1, <2>2, NothingMaps
    <2>3. CASE pc[w] = "finalise" /\ Fenced(w) /\ Settle(w, "deleted")
      <3>1. ~HasBytes(Row(w))
        BY <1>0, <2>3 DEF Proved, Absent, HasBytes
      <3>2. Promise!Turn(Row(w), "deleting", "deleted")
        BY <2>1, <2>3, TurnMaps DEF Settle, Fenced
      <3>3. Promise!Record(Row(w))
        BY <2>1, <3>1, <3>2 DEF Promise!Record
      <3>4. QED
        BY <2>1, <3>3 DEF Promise!Next
    <2>4. CASE pc[w] = "release" /\ Fenced(w) /\ Settle(w, "retained")
      <3>1. HasBytes(Row(w))
        BY <2>4 DEF FenceInv, PresenceProven, Current, Busy, Fenced, HasBytes
      <3>2. Promise!Turn(Row(w), "deleting", "retained")
        BY <2>1, <2>4, TurnMaps DEF Settle, Fenced
      <3>3. Promise!HandBack(Row(w))
        BY <2>1, <3>1, <3>2 DEF Promise!HandBack
      <3>4. QED
        BY <2>1, <3>3 DEF Promise!Next
    <2>5. CASE Fenced(w) /\ Settle(w, "integrity_unknown")
      <3>1. Promise!GiveUp(Row(w))
        BY <2>1, <2>5, TurnMaps DEF Settle, Fenced, Promise!GiveUp
      <3>2. QED
        BY <2>1, <3>1 DEF Promise!Next
    <2>6. QED
      BY <1>3, <2>2, <2>3, <2>4, <2>5 DEF Finalise, Release, MarkUncertain, Live, Proceed, Fail, rowVars
  <1>4. CASE UNCHANGED <<status, original, copies>>
    BY <1>4, NothingMaps
  <1>5. QED
    BY <1>1, <1>2, <1>3, <1>4
    DEF Next, Sweep, Delete, Recover, LocalStep, Crash, LeaseExpires, VolumeLost, VolumeBack, vars,
        rowVars, diskVars

(* As long as no lease runs out under its owner's hands and the volume     *)
(* stays attached, the sweeps of any number of workers, with any number of *)
(* crashes and failing calls, implement the abstract deletion: bytes only  *)
(* disappear while the row says deleting, a deletion is recorded after the *)
(* last of them, and a row is handed back only with its bytes.             *)
THEOREM SweepsImplementDeletion == Spec /\ []Undisturbed => KeepsPromise
  <1>1. Init => Promise!Init
    <2> SUFFICES ASSUME Init PROVE Promise!Init
      OBVIOUS
    <2>1. \A e \in Evidence : HasBytes(e) = TRUE
      BY DEF Init, HasBytes
    <2>2. QED
      BY <2>1 DEF Init, Promise!Init
  <1>2. TypeOK /\ FenceInv /\ HoldsLease /\ ProvesAbsence /\ Undisturbed /\ [Next]_vars
          => [Promise!Next]_(Promise!promiseVars)
    BY StepMaps
  <1>3. QED
    BY <1>1, <1>2, TypeCorrect, Fences, LeasesHeld, AbsenceProved, PTL DEF Spec, KeepsPromise, Promise!Spec
=============================================================================
