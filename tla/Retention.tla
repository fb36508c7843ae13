------------------------------ MODULE Retention ------------------------------
(***************************************************************************)
(* Retention deletion of evidence that was never accepted: the function    *)
(* cleanupRetainedEvidence of the worker and the SQL functions that fence  *)
(* it.  A sweep claims one row under a lease, moves the file to a          *)
(* tombstone, removes it, proves it absent and only then records the       *)
(* deletion; a sweep that finds a claim whose lease ran out inherits it    *)
(* and finishes it.  One action is one database transaction or one         *)
(* filesystem call, so that sweeps of several workers, crashes, lease      *)
(* expiry, storage errors and a volume that goes away interleave as they   *)
(* can in the program.                                                     *)
(*                                                                         *)
(* A tombstone is named by the operation id of the claim that made it; an  *)
(* operation is represented by the generation of that claim.  The name     *)
(* Legacy stands for the suffix "<key>.deleting" older versions used.      *)
(***************************************************************************)
EXTENDS Integers, FiniteSets

CONSTANTS
    Workers,        \* processes that run sweeps
    Evidence,       \* rows past their cutoff, numbered by created_at
    Disposable,     \* the rows whose scan and review verdicts permit deletion
    LegacyRows,     \* rows that start with a suffix copy beside the original
    Shadows,        \* <<e, f>>: f's storage key has the shape of e's suffix copy
    MaxStalls,      \* how often a lease expires while its owner still works
    MaxCrashes, MaxFaults, MaxOutages,  \* how often the environment interferes
    Flapping        \* may a lost volume come back in the middle of a sweep?

None == 0
Legacy == 0

ASSUME RetentionAssumption ==
    /\ Evidence \subseteq Nat
    /\ None \notin Workers
    /\ Disposable \subseteq Evidence
    /\ LegacyRows \subseteq Evidence
    /\ Shadows \subseteq (Evidence \X Evidence)
    /\ \A s \in Shadows : s[1] # s[2] /\ s[1] \notin LegacyRows
    /\ MaxStalls \in Nat /\ MaxCrashes \in Nat
    /\ MaxFaults \in Nat /\ MaxOutages \in Nat
    /\ Flapping \in BOOLEAN

VARIABLES
    status, owner, lease, generation, operation,   \* columns of evidence_files
    recorded,    \* audit events evidence.retention.deleted, per row
    original,    \* is the file at the row's storage key?
    copies,      \* the other names under which the row's bytes exist
    mounted,     \* is the evidence volume attached?
    pc, claim, seen,            \* local state of each worker's sweep
    crashes, faults, outages, stalls    \* how often the environment interfered

rowVars  == <<status, owner, lease, generation, operation, recorded>>
diskVars == <<original, copies>>
envVars  == <<mounted, crashes, outages, stalls>>
vars == <<rowVars, diskVars, envVars, faults, pc, claim, seen>>

Recovering == {"listTombstones", "probePreferred", "probeOriginal", "moveInherited",
               "moveInheritedFailed", "removeEach", "rmEach", "checkReappeared",
               "listSurvivors"}
Deleting == {"renew", "move", "moveFailed", "movedAbsent", "movedPresent", "rm",
             "checkOriginal", "checkRest", "restore", "confirmRestored", "release"}
Either == {"assertRoot", "finalise", "uncertain"}

Row(w) == claim[w].row
Operation(w) == claim[w].operation

(* What the volume shows.  A volume that is not attached looks like an     *)
(* empty one: every path under it reports ENOENT.                          *)
OriginalSeen(e) == mounted /\ original[e]
CopiesSeen(e) == IF mounted THEN copies[e] ELSE {}
TombstonesSeen(e) == CopiesSeen(e) \ {Legacy}
Collides(e) == mounted /\ \E f \in Evidence : <<e, f>> \in Shadows /\ original[f]
LegacySeen(e) == Legacy \in CopiesSeen(e) \/ Collides(e)

(* The claim a sweep holds is still the row's claim.                       *)
Fenced(w) ==
    /\ status[Row(w)] = "deleting"
    /\ owner[Row(w)] = w
    /\ generation[Row(w)] = claim[w].generation

Live(w) == Fenced(w) /\ lease[Row(w)] = "live"

Goto(w, label) == pc' = [pc EXCEPT ![w] = label]
Fault == faults < MaxFaults /\ faults' = faults + 1
Quiet == UNCHANGED faults

(* A step that only reads storage, or whose call failed: it moves the      *)
(* sweep and nothing else.                                                 *)
Proceed(w, label) ==
    /\ Goto(w, label)
    /\ Quiet
    /\ UNCHANGED <<rowVars, diskVars, envVars, claim, seen>>

Fail(w, label) ==
    /\ Fault
    /\ Goto(w, label)
    /\ UNCHANGED <<rowVars, diskVars, envVars, claim, seen>>

-----------------------------------------------------------------------------
(* Filesystem calls, with the error that leaves their effect in doubt.     *)

(* rename(original, tombstone) *)
MoveOut(w) ==
    /\ OriginalSeen(Row(w))
    /\ original' = [original EXCEPT ![Row(w)] = FALSE]
    /\ copies' = [copies EXCEPT ![Row(w)] = @ \cup {Operation(w)}]

(* rename(tombstone, original) *)
MoveBack(w) ==
    /\ Operation(w) \in CopiesSeen(Row(w))
    /\ original' = [original EXCEPT ![Row(w)] = TRUE]
    /\ copies' = [copies EXCEPT ![Row(w)] = @ \ {Operation(w)}]

(* rm(path); the suffix path of a shadowed row is another row's original *)
Remove(w, path) ==
    /\ path \in CopiesSeen(Row(w)) \/ (path = Legacy /\ Collides(Row(w)))
    /\ copies' = [copies EXCEPT ![Row(w)] = @ \ {path}]
    /\ original' = [f \in Evidence |->
                      original[f] /\ ~(path = Legacy /\ <<Row(w), f>> \in Shadows)]

-----------------------------------------------------------------------------
(* The database functions.                                                 *)

IsOldest(e, S) == e \in S /\ \A f \in S : e <= f

(* Mutated forms of Reclaimable: a claim is stranded whatever its lease;   *)
(* only a claim without a lease is.                                        *)
ReclaimableLive == {e \in Evidence : status[e] = "deleting"}
ReclaimableUnleased == {e \in Evidence : status[e] = "deleting" /\ lease[e] = "none"}

Reclaimable == {e \in Evidence : status[e] = "deleting" /\ lease[e] # "live"}
Claimable   == {e \in Disposable : status[e] = "retained"}

(* Mutated form of Reclaim: the inherited claim keeps its generation.      *)
ReclaimSameGeneration(w) ==
    /\ pc[w] = "idle"
    /\ \E e \in Evidence :
       /\ IsOldest(e, Reclaimable)
       /\ owner' = [owner EXCEPT ![e] = w]
       /\ lease' = [lease EXCEPT ![e] = "live"]
       /\ claim' = [claim EXCEPT ![w] = [row |-> e, generation |-> generation[e],
                                         operation |-> operation[e]]]
    /\ seen' = [seen EXCEPT ![w] = {}]
    /\ Goto(w, "listTombstones")
    /\ UNCHANGED <<status, generation, operation, recorded, diskVars, envVars, faults>>

(* reclaim_openppwr_retention: a claim whose lease ran out is inherited,   *)
(* with its operation id and a new generation.                             *)
Reclaim(w) ==
    /\ pc[w] = "idle"
    /\ \E e \in Evidence :
       /\ IsOldest(e, Reclaimable)
       /\ owner' = [owner EXCEPT ![e] = w]
       /\ lease' = [lease EXCEPT ![e] = "live"]
       /\ generation' = [generation EXCEPT ![e] = @ + 1]
       /\ claim' = [claim EXCEPT ![w] = [row |-> e, generation |-> generation[e] + 1,
                                         operation |-> operation[e]]]
    /\ seen' = [seen EXCEPT ![w] = {}]
    /\ Goto(w, "listTombstones")
    /\ UNCHANGED <<status, operation, recorded, diskVars, envVars, faults>>

NothingStranded(w) ==
    /\ pc[w] = "idle"
    /\ Reclaimable = {}
    /\ Proceed(w, "claim")

(* claim_openppwr_retention: the oldest retained row that may be deleted.  *)
Claim(w) ==
    /\ pc[w] = "claim"
    /\ \E e \in Evidence :
       /\ IsOldest(e, Claimable)
       /\ status' = [status EXCEPT ![e] = "deleting"]
       /\ owner' = [owner EXCEPT ![e] = w]
       /\ lease' = [lease EXCEPT ![e] = "live"]
       /\ generation' = [generation EXCEPT ![e] = @ + 1]
       /\ operation' = [operation EXCEPT ![e] = generation[e] + 1]
       /\ claim' = [claim EXCEPT ![w] = [row |-> e, generation |-> generation[e] + 1,
                                         operation |-> generation[e] + 1]]
    /\ seen' = [seen EXCEPT ![w] = {}]
    /\ Goto(w, "renew")
    /\ UNCHANGED <<recorded, diskVars, envVars, faults>>

NothingToDelete(w) ==
    /\ pc[w] = "claim"
    /\ Claimable = {}
    /\ Proceed(w, "idle")

(* renewLease: any answer but TRUE ends the sweep before storage is        *)
(* touched.  Renewing a live lease leaves it live.                         *)
RenewLease(w) ==
    /\ pc[w] = "renew"
    /\ \/ Live(w) /\ Proceed(w, "move")
       \/ ~Live(w) /\ Proceed(w, "idle")
       \/ Fail(w, "idle")

(* Mutated form of Settle: the lease is written, not cleared.              *)
SettleKeepsLease(w, outcome) ==
    /\ status' = [status EXCEPT ![Row(w)] = outcome]
    /\ owner' = [owner EXCEPT ![Row(w)] = None]
    /\ lease' = [lease EXCEPT ![Row(w)] = outcome]
    /\ UNCHANGED <<generation, diskVars, envVars, claim, seen>>

(* The row leaves "deleting" and the claim is cleared. *)
Settle(w, outcome) ==
    /\ status' = [status EXCEPT ![Row(w)] = outcome]
    /\ owner' = [owner EXCEPT ![Row(w)] = None]
    /\ lease' = [lease EXCEPT ![Row(w)] = "none"]
    /\ UNCHANGED <<generation, diskVars, envVars, claim, seen>>

(* complete_openppwr_retention through finalise: the state change and its  *)
(* audit event are one transaction.  The commit may be lost on its way     *)
(* back, and every failure goes to markUncertain.                          *)
Finalise(w) ==
    /\ pc[w] = "finalise"
    /\ \/ /\ Live(w)
          /\ Settle(w, "deleted")
          /\ recorded' = [recorded EXCEPT ![Row(w)] = @ + 1]
          /\ UNCHANGED operation
          /\ \/ Quiet /\ Goto(w, "idle")
             \/ Fault /\ Goto(w, "uncertain")
       \/ ~Live(w) /\ Proceed(w, "uncertain")
       \/ Fail(w, "uncertain")

(* release_openppwr_retention, reached only with the original in place.    *)
Release(w) ==
    /\ pc[w] = "release"
    /\ \/ /\ Live(w)
          /\ Settle(w, "retained")
          /\ operation' = [operation EXCEPT ![Row(w)] = None]
          /\ Quiet
          /\ Goto(w, "idle")
          /\ UNCHANGED recorded
       \/ ~Live(w) /\ Proceed(w, "idle")
       \/ Fail(w, "idle")

(* Mutated form of MarkUncertain: the fence is dropped.                    *)
MarkUncertainUnfenced(w) ==
    /\ pc[w] = "uncertain"
    /\ Settle(w, "integrity_unknown")
    /\ Quiet
    /\ Goto(w, "idle")
    /\ UNCHANGED <<operation, recorded>>

(* mark_openppwr_retention_uncertain: fenced, but valid after expiry.      *)
MarkUncertain(w) ==
    /\ pc[w] = "uncertain"
    /\ \/ /\ Fenced(w)
          /\ Settle(w, "integrity_unknown")
          /\ Quiet
          /\ Goto(w, "idle")
          /\ UNCHANGED <<operation, recorded>>
       \/ ~Fenced(w) /\ Proceed(w, "idle")
       \/ Fail(w, "idle")

-----------------------------------------------------------------------------
(* A fresh deletion, from the rename to the finalised row.                 *)

(* Directory checks, mkdir and rename.  A failed check is uncertain at     *)
(* once; a failed rename is investigated.                                  *)
Move(w) ==
    /\ pc[w] = "move"
    /\ \/ /\ MoveOut(w)
          /\ \/ Quiet /\ Goto(w, "rm")
             \/ Fault /\ Goto(w, "moveFailed")
          /\ UNCHANGED <<rowVars, envVars, claim, seen>>
       \/ ~OriginalSeen(Row(w)) /\ Proceed(w, "moveFailed")
       \/ Fail(w, "moveFailed")
       \/ Fail(w, "uncertain")

MoveFailed(w) ==
    /\ pc[w] = "moveFailed"
    /\ \/ Proceed(w, IF OriginalSeen(Row(w)) THEN "movedPresent" ELSE "movedAbsent")
       \/ Fail(w, "uncertain")

(* The second half of the probes after a failed rename. *)
AfterFailedMove(w) ==
    LET none == TombstonesSeen(Row(w)) = {} /\ ~LegacySeen(Row(w))
        mine == TombstonesSeen(Row(w)) = {Operation(w)} /\ ~LegacySeen(Row(w))
    IN  \/ pc[w] = "movedPresent" /\ Proceed(w, IF none THEN "release" ELSE "uncertain")
        \/ pc[w] = "movedAbsent" /\ Proceed(w, IF mine THEN "rm"
                                               ELSE IF none THEN "assertRoot" ELSE "uncertain")
        \/ pc[w] \in {"movedPresent", "movedAbsent"} /\ Fail(w, "uncertain")

(* assertStorageRootReachable: the volume's own marker must be readable.   *)
AssertRoot(w) ==
    /\ pc[w] = "assertRoot"
    /\ \/ Proceed(w, IF mounted THEN "finalise" ELSE "uncertain")
       \/ Fail(w, "uncertain")

(* rm of the tombstone and the probe that confirms it: an error, and a     *)
(* removal that silently did nothing, both go to the restore.              *)
RmTombstone(w) ==
    /\ pc[w] = "rm"
    /\ \/ /\ Remove(w, Operation(w))
          /\ \/ Quiet /\ Goto(w, "checkOriginal")
             \/ Fault /\ Goto(w, "restore")
          /\ UNCHANGED <<rowVars, envVars, claim, seen>>
       \/ Operation(w) \notin CopiesSeen(Row(w)) /\ Proceed(w, "restore")
       \/ Fail(w, "restore")

CheckOriginal(w) ==
    /\ pc[w] = "checkOriginal"
    /\ \/ Proceed(w, IF OriginalSeen(Row(w)) THEN "restore" ELSE "checkRest")
       \/ Fail(w, "restore")

(* Mutated form of CheckRest: the suffix copy is not looked for.           *)
CheckRestNew(w) ==
    /\ pc[w] = "checkRest"
    /\ Proceed(w, IF TombstonesSeen(Row(w)) = {} THEN "finalise" ELSE "restore")

CheckRest(w) ==
    /\ pc[w] = "checkRest"
    /\ \/ Proceed(w, IF TombstonesSeen(Row(w)) = {} /\ ~LegacySeen(Row(w))
                     THEN "finalise" ELSE "restore")
       \/ Fail(w, "restore")

(* Mutated form of Restore: a tombstone that is not there counts as put    *)
(* back.                                                                   *)
RestoreOptimistic(w) ==
    /\ pc[w] = "restore"
    /\ \/ /\ MoveBack(w)
          /\ Quiet
          /\ Goto(w, "confirmRestored")
          /\ UNCHANGED <<rowVars, envVars, claim, seen>>
       \/ Operation(w) \notin CopiesSeen(Row(w)) /\ Proceed(w, "release")

(* The handler's attempt to put the file back, and its confirmation. *)
Restore(w) ==
    /\ pc[w] = "restore"
    /\ \/ /\ MoveBack(w)
          /\ \/ Quiet /\ Goto(w, "confirmRestored")
             \/ Fault /\ Goto(w, "uncertain")
          /\ UNCHANGED <<rowVars, envVars, claim, seen>>
       \/ Operation(w) \notin CopiesSeen(Row(w)) /\ Proceed(w, "uncertain")
       \/ Fail(w, "uncertain")

ConfirmRestored(w) ==
    /\ pc[w] = "confirmRestored"
    /\ \/ Proceed(w, IF OriginalSeen(Row(w)) THEN "release" ELSE "uncertain")
       \/ Fail(w, "uncertain")

-----------------------------------------------------------------------------
(* Recovery of an inherited claim.                                         *)

See(w, found, label) ==
    /\ seen' = [seen EXCEPT ![w] = found]
    /\ Goto(w, label)
    /\ Quiet
    /\ UNCHANGED <<rowVars, diskVars, envVars, claim>>

ListTombstones(w) ==
    /\ pc[w] = "listTombstones"
    /\ \/ See(w, TombstonesSeen(Row(w)), "probePreferred")
       \/ Fail(w, "uncertain")

ProbePreferred(w) ==
    /\ pc[w] = "probePreferred"
    /\ \/ See(w, seen[w] \cup (CopiesSeen(Row(w)) \cap {Operation(w)}), "probeOriginal")
       \/ Fail(w, "uncertain")

(* Mutated forms of ProbeOriginal: a suffix path another row owns counts   *)
(* as a copy; finding nothing is held to prove nothing.                    *)
ProbeOriginalUnowned(w) ==
    LET found == seen[w] \cup (IF LegacySeen(Row(w)) THEN {Legacy} ELSE {})
    IN  /\ pc[w] = "probeOriginal"
        /\ See(w, found, IF OriginalSeen(Row(w)) THEN "moveInherited"
                         ELSE IF found = {} THEN "assertRoot" ELSE "removeEach")

ProbeOriginalDoubts(w) ==
    /\ pc[w] = "probeOriginal"
    /\ Proceed(w, IF OriginalSeen(Row(w)) THEN "moveInherited"
                  ELSE IF seen[w] = {} THEN "uncertain" ELSE "removeEach")

(* The census of suffix copies, less those other rows own, and the probe   *)
(* of the original decide how the recovery goes on.                        *)
ProbeOriginal(w) ==
    LET found == seen[w] \cup (CopiesSeen(Row(w)) \cap {Legacy})
    IN  /\ pc[w] = "probeOriginal"
        /\ \/ See(w, found,
                  IF OriginalSeen(Row(w)) THEN "moveInherited"
                  ELSE IF Collides(Row(w)) THEN "uncertain"
                  ELSE IF found = {} THEN "assertRoot" ELSE "removeEach")
           \/ Fail(w, "uncertain")

MoveInherited(w) ==
    /\ pc[w] = "moveInherited"
    /\ \/ /\ MoveOut(w)
          /\ \/ /\ Quiet
                /\ Goto(w, "removeEach")
                /\ seen' = [seen EXCEPT ![w] = @ \cup {Operation(w)}]
             \/ Fault /\ Goto(w, "moveInheritedFailed") /\ UNCHANGED seen
          /\ UNCHANGED <<rowVars, envVars, claim>>
       \/ ~OriginalSeen(Row(w)) /\ Proceed(w, "moveInheritedFailed")
       \/ Fail(w, "moveInheritedFailed")
       \/ Fail(w, "uncertain")

MoveInheritedFailed(w) ==
    LET moved == ~OriginalSeen(Row(w)) /\ Operation(w) \in CopiesSeen(Row(w))
    IN  /\ pc[w] = "moveInheritedFailed"
        /\ \/ moved /\ See(w, seen[w] \cup {Operation(w)}, "removeEach")
           \/ ~moved /\ Proceed(w, "uncertain")
           \/ Fail(w, "uncertain")

(* The loop over every copy: the tombstones first, then the suffix copy.   *)
NextCopy(w) == CHOOSE p \in seen[w] : p = Legacy => seen[w] = {Legacy}

PresentAt(e, path) == path \in CopiesSeen(e) \/ (path = Legacy /\ Collides(e))

RemoveEach(w) ==
    /\ pc[w] = "removeEach"
    /\ \/ seen[w] = {} /\ Proceed(w, "checkReappeared")
       \/ /\ seen[w] # {}
          /\ IF PresentAt(Row(w), NextCopy(w))
             THEN Proceed(w, "rmEach")
             ELSE See(w, seen[w] \ {NextCopy(w)}, "removeEach")
       \/ seen[w] # {} /\ Fail(w, "uncertain")

RmEach(w) ==
    /\ pc[w] = "rmEach"
    /\ \/ /\ Remove(w, NextCopy(w))
          /\ \/ /\ Quiet
                /\ Goto(w, "removeEach")
                /\ seen' = [seen EXCEPT ![w] = @ \ {NextCopy(w)}]
             \/ Fault /\ Goto(w, "uncertain") /\ UNCHANGED seen
          /\ UNCHANGED <<rowVars, envVars, claim>>
       \/ ~PresentAt(Row(w), NextCopy(w)) /\ Proceed(w, "uncertain")
       \/ Fail(w, "uncertain")

CheckReappeared(w) ==
    /\ pc[w] = "checkReappeared"
    /\ \/ Proceed(w, IF OriginalSeen(Row(w)) THEN "uncertain" ELSE "listSurvivors")
       \/ Fail(w, "uncertain")

ListSurvivors(w) ==
    /\ pc[w] = "listSurvivors"
    /\ \/ Proceed(w, IF TombstonesSeen(Row(w)) = {} THEN "finalise" ELSE "uncertain")
       \/ Fail(w, "uncertain")

-----------------------------------------------------------------------------
(* The environment.                                                        *)

(* The process dies: nothing of the sweep survives but the row and disk. *)
Crash(w) ==
    /\ pc[w] # "idle"
    /\ crashes < MaxCrashes
    /\ crashes' = crashes + 1
    /\ Goto(w, "idle")
    /\ UNCHANGED <<rowVars, diskVars, mounted, outages, stalls, faults, claim, seen>>

Working(w, e) ==
    /\ pc[w] \notin {"idle", "claim"}
    /\ Row(w) = e
    /\ claim[w].generation = generation[e]

(* The lease time passes.  Only a stalled owner is still working then.     *)
LeaseExpires(e) ==
    /\ lease[e] = "live"
    /\ \/ (\A w \in Workers : ~Working(w, e)) /\ UNCHANGED stalls
       \/ stalls < MaxStalls /\ stalls' = stalls + 1
    /\ lease' = [lease EXCEPT ![e] = "expired"]
    /\ UNCHANGED <<status, owner, generation, operation, recorded, diskVars, mounted,
                   crashes, outages, faults, pc, claim, seen>>

VolumeLost ==
    /\ mounted
    /\ outages < MaxOutages
    /\ mounted' = FALSE
    /\ outages' = outages + 1
    /\ UNCHANGED <<rowVars, diskVars, crashes, stalls, faults, pc, claim, seen>>

VolumeBack ==
    /\ ~mounted
    /\ Flapping \/ \A w \in Workers : pc[w] \in {"idle", "claim"}
    /\ mounted' = TRUE
    /\ UNCHANGED <<rowVars, diskVars, crashes, outages, stalls, faults, pc, claim, seen>>

-----------------------------------------------------------------------------
Init ==
    /\ status = [e \in Evidence |-> "retained"]
    /\ owner = [e \in Evidence |-> None]
    /\ lease = [e \in Evidence |-> "none"]
    /\ generation = [e \in Evidence |-> 0]
    /\ operation = [e \in Evidence |-> None]
    /\ recorded = [e \in Evidence |-> 0]
    /\ original = [e \in Evidence |-> TRUE]
    /\ copies = [e \in Evidence |-> IF e \in LegacyRows THEN {Legacy} ELSE {}]
    /\ mounted = TRUE
    /\ pc = [w \in Workers |-> "idle"]
    /\ claim = [w \in Workers |-> [row |-> None, generation |-> 0, operation |-> None]]
    /\ seen = [w \in Workers |-> {}]
    /\ crashes = 0 /\ faults = 0 /\ outages = 0 /\ stalls = 0

Delete(w) ==
    \/ NothingStranded(w) \/ Claim(w) \/ NothingToDelete(w) \/ RenewLease(w)
    \/ Move(w) \/ MoveFailed(w) \/ AfterFailedMove(w)
    \/ RmTombstone(w) \/ CheckOriginal(w) \/ CheckRest(w)
    \/ Restore(w) \/ ConfirmRestored(w) \/ Release(w)

Recover(w) ==
    \/ Reclaim(w) \/ ListTombstones(w) \/ ProbePreferred(w) \/ ProbeOriginal(w)
    \/ MoveInherited(w) \/ MoveInheritedFailed(w) \/ RemoveEach(w) \/ RmEach(w)
    \/ CheckReappeared(w) \/ ListSurvivors(w)

Sweep(w) == Delete(w) \/ Recover(w) \/ AssertRoot(w) \/ Finalise(w) \/ MarkUncertain(w)

Next ==
    \/ \E w \in Workers : Sweep(w) \/ Crash(w)
    \/ \E e \in Evidence : LeaseExpires(e)
    \/ VolumeLost
    \/ VolumeBack

Spec == Init /\ [][Next]_vars

(* The poll loop keeps sweeping, time passes and a lost volume comes back. *)
Fairness ==
    /\ \A w \in Workers : WF_vars(Sweep(w))
    /\ \A e \in Evidence : WF_vars(LeaseExpires(e))
    /\ WF_vars(VolumeBack)

FairSpec == Spec /\ Fairness

-----------------------------------------------------------------------------
(* Every variable has its type.  The labels of a sweep are those the two   *)
(* halves of cleanupRetainedEvidence and their shared steps go through.    *)
TypeOK ==
    /\ status \in [Evidence -> {"retained", "deleting", "deleted", "integrity_unknown"}]
    /\ owner \in [Evidence -> Workers \cup {None}]
    /\ lease \in [Evidence -> {"none", "live", "expired"}]
    /\ generation \in [Evidence -> Nat]
    /\ operation \in [Evidence -> Nat]
    /\ recorded \in [Evidence -> Nat]
    /\ original \in [Evidence -> BOOLEAN]
    /\ copies \in [Evidence -> SUBSET Nat]
    /\ mounted \in BOOLEAN
    /\ pc \in [Workers -> {"idle", "claim"} \cup Recovering \cup Deleting \cup Either]
    /\ claim \in [Workers -> [row: Evidence \cup {None}, generation: Nat, operation: Nat]]
    /\ seen \in [Workers -> SUBSET Nat]
    /\ crashes \in Nat /\ faults \in Nat /\ outages \in Nat /\ stalls \in Nat

HasBytes(e) == original[e] \/ copies[e] # {}

(* The deletion a reader of the record may rely on, see DeletionPromise.   *)
Promise == INSTANCE DeletionPromise
             WITH state <- status, bytes <- [e \in Evidence |-> HasBytes(e)]

(* "A record asserting the evidence is gone, beside the evidence" is the   *)
(* one state a retention control must never reach: a row recorded as       *)
(* deleted has no bytes left under any name the row owns.                  *)
DeletedMeansGone == \A e \in Evidence : status[e] = "deleted" => ~HasBytes(e)

(* The sweep implements the abstract deletion: bytes only disappear while  *)
(* the row says deleting, a deletion is recorded only after they did, and  *)
(* a row is handed back only with its bytes.                               *)
KeepsPromise == Promise!Spec

(* A row that says retained has its file where the row says it is, even    *)
(* when sweeps overlapped, were overtaken or failed half-way, and even if  *)
(* another row's suffix copies have the shape of its storage key.          *)
RetainedMeansPresent == \A e \in Evidence : status[e] = "retained" => original[e]

(* Labels from which a sweep can still move or remove the row's file.      *)
Handling == {"move", "moveFailed", "movedAbsent", "movedPresent", "rm", "checkOriginal",
             "checkRest", "restore"} \cup Recovering

(* A row is handed back to retained only when no other sweep, current or   *)
(* overtaken, may still act on its file: recovery finishes what it         *)
(* inherits instead of releasing it for exactly this reason.               *)
RetainedMeansUntouched ==
    \A e \in Evidence, w \in Workers :
        status[e] = "retained" => ~(pc[w] \in Handling /\ Row(w) = e)

(* One deletion is recorded once, whoever finishes it, however often the   *)
(* row was claimed, inherited and retried.                                 *)
RecordedOnce ==
    \A e \in Evidence : recorded[e] = IF status[e] = "deleted" THEN 1 ELSE 0

-----------------------------------------------------------------------------
(* What makes the fences sufficient, stated so that every step preserves   *)
(* it.  Busy sweeps hold a claim; two claims of one row differ in their    *)
(* generation, so only one of them can be the row's own.                   *)
Busy(w) == pc[w] \notin {"idle", "claim"}
Current(w) == Busy(w) /\ claim[w].generation = generation[Row(w)]

ClaimsRow == \A w \in Workers : Busy(w) => Row(w) \in Evidence

ClaimsBound ==
    \A w \in Workers :
        Busy(w) => claim[w].generation <= generation[Row(w)] /\ Operation(w) # Legacy

ClaimsDiffer ==
    \A v, w \in Workers :
        Busy(v) /\ Busy(w) /\ Row(v) = Row(w) /\ claim[v].generation = claim[w].generation
            => v = w

OperationNamed == \A e \in Evidence : status[e] = "deleting" => operation[e] # Legacy

(* Only rows of an older version have suffix copies, so a sweep never      *)
(* takes another row's original for one.                                   *)
SuffixIsLegacy ==
    /\ \A e \in Evidence : Legacy \in copies[e] => e \in LegacyRows
    /\ \A w \in Workers : Busy(w) /\ Legacy \in seen[w] => Row(w) \in LegacyRows
    /\ \A w \in Workers : pc[w] = "rmEach" => seen[w] # {}

(* While a fresh deletion holds the row's claim no other sweep can touch   *)
(* the row's file, and what it proved of the original stays true.          *)
DeletesAlone ==
    \A v, w \in Workers :
        pc[w] \in Deleting /\ Current(w) /\ pc[v] \in Handling /\ Row(v) = Row(w) => v = w

PresenceProven ==
    \A w \in Workers :
        pc[w] \in {"movedPresent", "release"} /\ Current(w) => original[Row(w)]

(* The fences as one inductive invariant: it also holds what they are for. *)
FenceInv ==
    /\ ClaimsRow /\ ClaimsBound /\ ClaimsDiffer /\ OperationNamed
    /\ SuffixIsLegacy /\ DeletesAlone /\ PresenceProven
    /\ RetainedMeansUntouched /\ RetainedMeansPresent /\ RecordedOnce

-----------------------------------------------------------------------------
(* deleted and integrity_unknown are final: no later sweep, and no sweep   *)
(* that lost its claim, changes such a row.                                *)
SettledIsFinal ==
    [][\A e \in Evidence :
        status[e] \in {"deleted", "integrity_unknown"} => status'[e] = status[e]]_status

(* As long as a lease outlasts the work done under it, two sweeps never    *)
(* handle the same row's file at the same time.                            *)
OneHandler ==
    \A v, w \in Workers :
        pc[v] \in Handling /\ pc[w] \in Handling /\ Row(v) = Row(w) => v = w

(* Then nothing is recorded as deleted that is still there, and no sweep   *)
(* works on a file beside another.                                         *)
LeasesProtect == OneHandler /\ DeletedMeansGone

(* A crash, at whatever step and however often, never by itself costs the  *)
(* row its certainty: "a crash costs one pass".  Uncertainty needs a       *)
(* storage or database failure, or copies left by an older version.        *)
CrashKeepsCertainty ==
    faults = 0 => \A e \in Evidence \ LegacyRows : status[e] # "integrity_unknown"

(* Every row that may be deleted is eventually deleted, or its state is    *)
(* declared unknown; it is not retried for ever and not forgotten.         *)
DisposableIsSettled ==
    \A e \in Disposable : <>(status[e] \in {"deleted", "integrity_unknown"})
=============================================================================
