-------------------------- MODULE EvidenceLifecycle --------------------------
(***************************************************************************)
(* One piece of evidence and everybody who writes its row: the upload, the *)
(* scans of the worker, the operator's requeue, the reviewer and the       *)
(* retention sweep.  They are coupled only through the columns scan_status,*)
(* review_status and retention_status and through the file itself; no lock *)
(* is held from the first statement of one of them to its last.            *)
(*                                                                         *)
(* The two budgets of a job and the fencing of a sweep are the subject of  *)
(* ScanQueue and Retention; here a job has one budget, and a sweep that    *)
(* meets a storage fault restores the file or calls it uncertain.          *)
(***************************************************************************)
EXTENDS Naturals

CONSTANTS
    Workers,
    Budget,      \* failed scans until a job is dead
    MaxStops     \* how often a worker dies, loses the database or stalls

Nobody == "nobody"

LifecycleAssumption ==
    Nobody \notin Workers /\ Budget \in Nat \ {0} /\ MaxStops \in Nat

VARIABLES
    upload,      \* where the request is
    place,       \* where the bytes are
    malware,     \* what a scan finds in them
    scan, review, retention,     \* columns of evidence_files
    aged,        \* created_at is before the cutoff
    owner, live, \* the lease of a retention claim
    job, failures,               \* scan_jobs
    pc,          \* what each worker does
    stops

rowVars == <<scan, review, retention, owner, live>>
jobVars == <<job, failures>>
vars == <<upload, place, malware, aged, rowVars, jobVars, pc, stops>>

Goto(w, where) == pc' = [pc EXCEPT ![w] = where]

-----------------------------------------------------------------------------
(* receiveEvidenceUpload: the stream goes to a temporary file, the file is *)
(* renamed into the quarantine, and then its row and job are inserted in   *)
(* one transaction.  A failure removes both names.                         *)
Stream ==
    /\ upload = "idle"
    /\ place' = "temporary" /\ upload' = "streamed"
    /\ UNCHANGED <<malware, aged, rowVars, jobVars, pc, stops>>

Place ==
    /\ upload = "streamed"
    /\ place' = "quarantine" /\ upload' = "placed"
    /\ UNCHANGED <<malware, aged, rowVars, jobVars, pc, stops>>

(* The row and its job.                                                    *)
Recorded ==
    /\ scan' = "pending" /\ retention' = "retained"
    /\ job' = "pending"
    /\ UNCHANGED <<place, malware, aged, review, owner, live, failures, pc, stops>>

Insert ==
    /\ upload = "placed"
    /\ upload' = "done"
    /\ Recorded

(* A refused file, a missing requirement, a rolled back transaction.       *)
UploadFails ==
    /\ upload \in {"streamed", "placed"}
    /\ upload' = "failed"
    /\ UNCHANGED <<place, malware, aged, rowVars, jobVars, pc, stops>>

(* Mutated form of UploadCleans: only the temporary name is removed.       *)
UploadCleansTemporary ==
    /\ upload = "failed"
    /\ upload' = "done"
    /\ place' = IF place = "temporary" THEN "nowhere" ELSE place
    /\ UNCHANGED <<malware, aged, rowVars, jobVars, pc, stops>>

UploadCleans ==
    /\ upload = "failed"
    /\ upload' = "done"
    /\ place' = IF place \in {"temporary", "quarantine"} THEN "nowhere" ELSE place
    /\ UNCHANGED <<malware, aged, rowVars, jobVars, pc, stops>>

-----------------------------------------------------------------------------
(* processNextScanJob: the job's row is locked from here to the verdict,   *)
(* the evidence row is not.                                                *)
StartScan(w) ==
    /\ pc[w] = "poll"
    /\ job \in {"pending", "failed"}
    /\ \A v \in Workers : pc[v] \notin {"scanning", "unreadable"}
    /\ Goto(w, IF place = "quarantine" THEN "scanning" ELSE "unreadable")
    /\ UNCHANGED <<upload, place, malware, aged, rowVars, jobVars, stops>>

Verdict(w) ==
    /\ pc[w] = "scanning"
    /\ Goto(w, "poll")
    /\ scan' = IF malware THEN "infected" ELSE "clean"
    /\ job' = "completed"
    /\ UNCHANGED <<upload, place, malware, aged, review, retention, owner, live, failures, stops>>

(* Mutated form of ScanFails: no number of failures is too many.           *)
ScanFailsForEver(w) ==
    /\ pc[w] \in {"scanning", "unreadable"}
    /\ Goto(w, "poll")
    /\ scan' = "error" /\ job' = "failed"
    /\ failures' = failures + 1
    /\ UNCHANGED <<upload, place, malware, aged, review, retention, owner, live, stops>>

(* Scanner or storage fail, or the file is not there.                      *)
ScanFails(w) ==
    /\ pc[w] \in {"scanning", "unreadable"}
    /\ Goto(w, "poll")
    /\ scan' = "error"
    /\ failures' = failures + 1
    /\ job' = IF failures' >= Budget THEN "dead" ELSE "failed"
    /\ UNCHANGED <<upload, place, malware, aged, review, retention, owner, live, stops>>

(* Mutated form of Requeue: a job in any state but a running one.          *)
RequeueAny ==
    /\ job # "absent"
    /\ \A w \in Workers : pc[w] \notin {"scanning", "unreadable"}
    /\ job' = "pending" /\ failures' = 0
    /\ scan' = "pending"
    /\ UNCHANGED <<upload, place, malware, aged, review, retention, owner, live, pc, stops>>

(* requeue_openppwr_scan_job                                               *)
Requeue ==
    /\ job = "dead"
    /\ job' = "pending" /\ failures' = 0
    /\ scan' = "pending"
    /\ UNCHANGED <<upload, place, malware, aged, review, retention, owner, live, pc, stops>>

(* reviewEvidence, under the lock of the evidence row.                     *)
Accept ==
    /\ scan = "clean"
    /\ review' = "accepted"
    /\ UNCHANGED <<upload, place, malware, aged, scan, retention, owner, live, jobVars, pc, stops>>

Reject ==
    /\ scan # "absent"
    /\ review' = "rejected"
    /\ UNCHANGED <<upload, place, malware, aged, scan, retention, owner, live, jobVars, pc, stops>>

-----------------------------------------------------------------------------
(* cleanupRetainedEvidence: a new claim, or one whose lease ran out.       *)
ClaimOld(w) ==
    /\ pc[w] = "poll"
    /\ retention = "retained" /\ scan \in {"infected", "error"} /\ review # "accepted" /\ aged
    /\ retention' = "deleting" /\ owner' = w /\ live' = TRUE
    /\ Goto(w, "renew")
    /\ UNCHANGED <<upload, place, malware, aged, scan, review, jobVars, stops>>

Reclaim(w) ==
    /\ pc[w] = "poll"
    /\ retention = "deleting" /\ ~live
    /\ owner' = w /\ live' = TRUE
    /\ Goto(w, "inherited")
    /\ UNCHANGED <<upload, place, malware, aged, scan, review, retention, jobVars, stops>>

Fenced(w) == retention = "deleting" /\ owner = w /\ live

(* The lease is renewed before the volume is touched, or the sweep ends.   *)
Renew(w) ==
    /\ pc[w] = "renew"
    /\ Goto(w, IF Fenced(w) THEN "move" ELSE "poll")
    /\ UNCHANGED <<upload, place, malware, aged, rowVars, jobVars, stops>>

(* A sweep that inherits a claim finishes the deletion, whatever the row   *)
(* says by then about its scan and its review.                             *)
Move(w) ==
    /\ pc[w] \in {"move", "inherited"}
    /\ place' = IF place = "quarantine" THEN "tombstone" ELSE place
    /\ Goto(w, IF pc[w] = "move" THEN "remove" ELSE "finish")
    /\ UNCHANGED <<upload, malware, aged, rowVars, jobVars, stops>>

Remove(w) ==
    /\ pc[w] \in {"remove", "finish"}
    /\ place # "quarantine"
    /\ place' = "nowhere"
    /\ Goto(w, "record")
    /\ UNCHANGED <<upload, malware, aged, rowVars, jobVars, stops>>

Unclaimed(w) == owner' = Nobody /\ live' = FALSE /\ Goto(w, "poll")

Record(w) ==
    /\ pc[w] = "record"
    /\ IF Fenced(w) THEN retention' = "deleted" /\ Unclaimed(w)
                    ELSE Goto(w, "poll") /\ UNCHANGED <<retention, owner, live>>
    /\ UNCHANGED <<upload, place, malware, aged, scan, review, jobVars, stops>>

(* A storage fault: the file is put back and the row released, or nobody   *)
(* can tell where the file is; nothing is put back under an inherited      *)
(* claim.  A sweep that lost its claim leaves the row as it is.            *)
Restorable(w) == pc[w] \in {"move", "remove"} /\ place # "nowhere"

SweepFails(w) ==
    /\ pc[w] \in {"move", "remove", "inherited", "finish"}
    /\ \E restored \in {place} \cup {"quarantine"} :
          /\ restored = place \/ Restorable(w)
          /\ place' = restored
          /\ IF Fenced(w)
             THEN /\ retention' = IF Restorable(w) /\ restored = "quarantine"
                                  THEN "retained" ELSE "integrity_unknown"
                  /\ Unclaimed(w)
             ELSE Goto(w, "poll") /\ UNCHANGED <<retention, owner, live>>
    /\ UNCHANGED <<upload, malware, aged, scan, review, jobVars, stops>>

(* The worker dies and is started again; an open scan is rolled back.      *)
Stop(w) ==
    /\ pc[w] # "poll" /\ stops < MaxStops
    /\ stops' = stops + 1
    /\ Goto(w, "poll")
    /\ UNCHANGED <<upload, place, malware, aged, rowVars, jobVars>>

(* The lease of a sweep that stopped runs out; that of a sweep at work only*)
(* when the sweep stalls, which counts as a stop.                          *)
LeaseExpires ==
    /\ live
    /\ live' = FALSE
    /\ IF pc[owner] = "poll" THEN UNCHANGED stops ELSE stops < MaxStops /\ stops' = stops + 1
    /\ UNCHANGED <<upload, place, malware, aged, scan, review, retention, owner, jobVars, pc>>

Age ==
    /\ ~aged
    /\ aged' = TRUE
    /\ UNCHANGED <<upload, place, malware, rowVars, jobVars, pc, stops>>

-----------------------------------------------------------------------------
Init ==
    /\ upload = "idle" /\ place = "nowhere" /\ malware \in BOOLEAN
    /\ scan = "absent" /\ review = "pending" /\ retention = "retained"
    /\ aged = FALSE
    /\ owner = Nobody /\ live = FALSE
    /\ job = "absent" /\ failures = 0
    /\ pc = [w \in Workers |-> "poll"]
    /\ stops = 0

Uploading == Stream \/ Place \/ Insert \/ UploadFails \/ UploadCleans
Scanning(w) == StartScan(w) \/ Verdict(w) \/ ScanFails(w)
Sweeping(w) ==
    \/ ClaimOld(w) \/ Reclaim(w) \/ Renew(w)
    \/ Move(w) \/ Remove(w) \/ Record(w) \/ SweepFails(w)

Next ==
    \/ Uploading \/ Requeue \/ Accept \/ Reject
    \/ LeaseExpires \/ Age
    \/ \E w \in Workers : Scanning(w) \/ Sweeping(w) \/ Stop(w)

Spec == Init /\ [][Next]_vars

-----------------------------------------------------------------------------
(* Every variable has its type; a row has a job from the moment it exists, *)
(* and a claim under way an owner.                                         *)
TypeOK ==
    /\ upload \in {"idle", "streamed", "placed", "failed", "done"}
    /\ place \in {"nowhere", "temporary", "quarantine", "tombstone"}
    /\ malware \in BOOLEAN /\ aged \in BOOLEAN /\ live \in BOOLEAN
    /\ scan \in {"absent", "pending", "clean", "infected", "error"}
    /\ review \in {"pending", "accepted", "rejected"}
    /\ retention \in {"retained", "deleting", "deleted", "integrity_unknown"}
    /\ owner \in Workers \cup {Nobody}
    /\ job \in {"absent", "pending", "failed", "dead", "completed"}
    /\ failures \in 0 .. Budget
    /\ pc \in [Workers -> {"poll", "scanning", "unreadable", "renew", "move", "remove", "inherited",
                        "finish", "record"}]
    /\ stops \in 0 .. MaxStops
    /\ (scan = "absent") <=> (job = "absent")
    /\ (retention = "deleting") <=> (owner # Nobody)

(* What a reviewer accepted stays scanned and clean: no requeue and no     *)
(* late verdict takes the finding back from under the acceptance.          *)
AcceptedIsClean == review = "accepted" => scan = "clean" /\ ~malware

(* The row and the file agree: a row that says retained has its file in    *)
(* the quarantine, from the commit of the upload on and across every sweep *)
(* that was given up, and an upload that ends without a row leaves none.   *)
RowAndFileAgree ==
    /\ scan # "absent" /\ retention = "retained" => place = "quarantine"
    /\ scan = "absent" /\ upload = "done" => place = "nowhere"

(* "Accepted evidence is not touched": the file of accepted evidence stays *)
(* in the quarantine.  No column tells the reviewer that a deletion is     *)
(* under way, nor a sweep that inherits one that its item was accepted.    *)
AcceptedIsKept == review = "accepted" => place = "quarantine"
=============================================================================
