------------------------------- MODULE Dossier -------------------------------
(***************************************************************************)
(* generateDossier: the artifacts of one frozen review.  A request writes  *)
(* the files one by one, each exclusively, inside the transaction that     *)
(* inserts their rows, and removes the ones it created when anything       *)
(* fails.  Requests for the same review run side by side in one process,   *)
(* and the demonstration reset beside them.                                *)
(*                                                                         *)
(* What is built from the snapshot is left out: it is the same bytes every *)
(* time.  A file is absent, whole, or the part an interrupted write left.  *)
(***************************************************************************)
EXTENDS Naturals, FiniteSets

CONSTANTS
    Requests,
    FileCount,   \* json, pdf, manifest, zip: written in this order
    Faults,      \* the kinds of fault that happen
    MaxFaults    \* and how many of each

Kinds == {"crash", "partial", "statement", "lost", "removal"}

DossierAssumption ==
    /\ FileCount \in Nat \ {0} /\ MaxFaults \in Nat
    /\ Faults \subseteq Kinds

Files == 1 .. FileCount

VARIABLES
    snapshot,   \* whether the frozen review is there
    recorded,   \* the committed rows: none or all of them
    file,       \* what is on the volume
    at,         \* where a request is: idle, writing, committing, cleaning
    next,       \* the file it writes next
    created,    \* its createdPaths
    erasing,    \* the files a reset has still to remove
    faults      \* how often each kind of fault happened

vars == <<recorded, file, at, next, created, faults, snapshot, erasing>>
resetVars == <<snapshot, erasing>>

Happens(kind) ==
    /\ kind \in Faults
    /\ faults[kind] < MaxFaults
    /\ faults' = [faults EXCEPT ![kind] = @ + 1]

Become(r, where) == at' = [at EXCEPT ![r] = where]

-----------------------------------------------------------------------------
(* The rows exist: they are returned and nothing is made.                  *)
Replay(r) ==
    /\ at[r] = "idle" /\ recorded
    /\ UNCHANGED vars

Start(r) ==
    /\ at[r] = "idle" /\ ~recorded /\ snapshot
    /\ Become(r, "writing")
    /\ next' = [next EXCEPT ![r] = 1]
    /\ created' = [created EXCEPT ![r] = {}]
    /\ UNCHANGED <<recorded, file, faults, resetVars>>

(* A row whose review is gone is refused by its foreign key.               *)
AfterWrite(r) ==
    CASE ~snapshot -> "cleaning"
      [] snapshot /\ next[r] = FileCount -> "committing"
      [] OTHER -> "writing"

(* Mutated form of Write: an existing file is written over.                *)
WriteOver(r) ==
    /\ at[r] = "writing"
    /\ file' = [file EXCEPT ![next[r]] = "whole"]
    /\ created' = [created EXCEPT ![r] = @ \cup {next[r]}]
    /\ next' = [next EXCEPT ![r] = @ + 1]
    /\ Become(r, AfterWrite(r))
    /\ UNCHANGED <<recorded, faults, resetVars>>

(* Mutated form of Write: the path is not noted.                           *)
WriteUnnoted(r) ==
    /\ at[r] = "writing"
    /\ file[next[r]] = "absent"
    /\ file' = [file EXCEPT ![next[r]] = "whole"]
    /\ next' = [next EXCEPT ![r] = @ + 1]
    /\ Become(r, AfterWrite(r))
    /\ UNCHANGED <<recorded, created, faults, resetVars>>

(* writeFile with wx, then the row.                                        *)
Write(r) ==
    /\ at[r] = "writing"
    /\ file[next[r]] = "absent"
    /\ file' = [file EXCEPT ![next[r]] = "whole"]
    /\ created' = [created EXCEPT ![r] = @ \cup {next[r]}]
    /\ next' = [next EXCEPT ![r] = @ + 1]
    /\ Become(r, AfterWrite(r))
    /\ UNCHANGED <<recorded, faults, resetVars>>

Exists(r) ==
    /\ at[r] = "writing"
    /\ file[next[r]] # "absent"
    /\ Become(r, "cleaning")
    /\ UNCHANGED <<recorded, file, next, created, faults, resetVars>>

(* The volume fills up: the file stays, and its path was never noted.      *)
WriteBreaks(r) ==
    /\ at[r] = "writing"
    /\ file[next[r]] = "absent"
    /\ Happens("partial")
    /\ file' = [file EXCEPT ![next[r]] = "partial"]
    /\ Become(r, "cleaning")
    /\ UNCHANGED <<recorded, next, created, resetVars>>

(* A statement or the commit fails and everything is rolled back.          *)
StatementFails(r) ==
    /\ at[r] \in {"writing", "committing"}
    /\ Happens("statement")
    /\ Become(r, "cleaning")
    /\ UNCHANGED <<recorded, file, next, created, resetVars>>

Commit(r) ==
    /\ at[r] = "committing"
    /\ recorded' = TRUE
    /\ Become(r, "idle")
    /\ UNCHANGED <<file, next, created, faults, resetVars>>

(* The commit is done, and the connection ends before it says so.          *)
CommitUnheard(r) ==
    /\ at[r] = "committing"
    /\ Happens("lost")
    /\ recorded' = TRUE
    /\ Become(r, "cleaning")
    /\ UNCHANGED <<file, next, created, resetVars>>

(* Mutated form of CleanUp: the files are left.                            *)
CleanUpNothing(r) ==
    /\ at[r] = "cleaning"
    /\ Become(r, "idle")
    /\ UNCHANGED <<recorded, file, next, created, faults, resetVars>>

(* The catch removes what this request created, a path at a time.          *)
CleanUp(r) ==
    /\ at[r] = "cleaning"
    /\ \/ created[r] = {} /\ Become(r, "idle") /\ UNCHANGED <<file, created>>
       \/ \E first \in created[r] :
              /\ \A k \in created[r] : first <= k
              /\ file' = [file EXCEPT ![first] = "absent"]
              /\ created' = [created EXCEPT ![r] = @ \ {first}]
              /\ UNCHANGED at
    /\ UNCHANGED <<recorded, next, faults, resetVars>>

(* The process dies: its transactions roll back and no catch runs.         *)
Crash ==
    /\ erasing # {} \/ \E r \in Requests : at[r] # "idle"
    /\ Happens("crash")
    /\ at' = [r \in Requests |-> "idle"]
    /\ erasing' = {}
    /\ UNCHANGED <<recorded, file, next, created, snapshot>>

-----------------------------------------------------------------------------
(* The reset of the demonstration takes the rows, and with them the keys   *)
(* of the files.  It waits for transactions that have inserted, which hold *)
(* the review, and fails if one of them commits.                           *)
Inserted(r) == at[r] = "committing" \/ (at[r] = "writing" /\ next[r] > 1)

(* Mutated form of Reset: the keys are not kept.                           *)
ResetForgetsKeys ==
    /\ snapshot /\ \A r \in Requests : ~Inserted(r)
    /\ snapshot' = FALSE /\ recorded' = FALSE
    /\ UNCHANGED <<file, at, next, created, faults, erasing>>

Reset ==
    /\ snapshot /\ \A r \in Requests : ~Inserted(r)
    /\ snapshot' = FALSE /\ recorded' = FALSE
    /\ erasing' = IF recorded THEN Files ELSE {}
    /\ UNCHANGED <<file, at, next, created, faults>>

(* After its commit, file by file; a failure is logged, and that is all.   *)
RemoveKey(i) ==
    /\ i \in erasing /\ erasing' = erasing \ {i}
    /\ file' = [file EXCEPT ![i] = "absent"]
    /\ UNCHANGED <<recorded, at, next, created, faults, snapshot>>

RemovalFails(i) ==
    /\ i \in erasing /\ erasing' = erasing \ {i}
    /\ Happens("removal")
    /\ UNCHANGED <<recorded, file, at, next, created, snapshot>>

(* downloadDossierArtifact: the row, then the bytes it describes.          *)
Download(i) == CASE ~recorded -> 404
                 [] recorded /\ file[i] = "whole" -> 200
                 [] OTHER -> 500

-----------------------------------------------------------------------------
Init ==
    /\ recorded = FALSE /\ snapshot = TRUE /\ erasing = {}
    /\ file = [i \in Files |-> "absent"]
    /\ at = [r \in Requests |-> "idle"]
    /\ next = [r \in Requests |-> 1]
    /\ created = [r \in Requests |-> {}]
    /\ faults = [kind \in Kinds |-> 0]

Step(r) ==
    \/ Replay(r) \/ Start(r)
    \/ Write(r) \/ Exists(r) \/ WriteBreaks(r)
    \/ StatementFails(r) \/ Commit(r) \/ CommitUnheard(r)
    \/ CleanUp(r)

Next ==
    \/ Crash \/ Reset
    \/ \E i \in Files : RemoveKey(i) \/ RemovalFails(i)
    \/ \E r \in Requests : Step(r)

Spec == Init /\ [][Next]_vars

(* Somebody asks again until there is a dossier, and requests go on.       *)
FairSpec == Spec /\ \A r \in Requests : WF_vars(Step(r))

-----------------------------------------------------------------------------
(* Every variable has its type, and a request that writes has noted what   *)
(* it has written so far.                                                  *)
TypeOK ==
    /\ recorded \in BOOLEAN /\ snapshot \in BOOLEAN /\ erasing \subseteq Files
    /\ file \in [Files -> {"absent", "partial", "whole"}]
    /\ at \in [Requests -> {"idle", "writing", "committing", "cleaning"}]
    /\ next \in [Requests -> 1 .. FileCount + 1]
    /\ created \in [Requests -> SUBSET Files]
    /\ faults \in [Kinds -> 0 .. MaxFaults]
    /\ \A r \in Requests :
           at[r] \in {"writing", "committing"} => created[r] = 1 .. next[r] - 1

(* "A request to generate again returns the artifacts already persisted":  *)
(* behind the rows there are whole files, and no request, of those that    *)
(* raced with the one that recorded them or failed before it, removes one. *)
RecordedIsThere ==
    recorded => /\ \A i \in Files : Download(i) = 200
                /\ \A r \in Requests : at[r] = "cleaning" => created[r] = {}

(* The same through crashes, full disks and rollbacks, as long as no       *)
(* commit is done without its request hearing of it.                       *)
HeardIsThere == faults["lost"] = 0 => RecordedIsThere

(* Two requests never hold the same file: what one of them removes when it *)
(* fails was written by nobody else, as long as there is a dossier to make *)
(* (a reset may take the files a lost commit is still cleaning up).        *)
OwnFiles ==
    snapshot \/ faults["lost"] = 0 =>
        \A r, s \in Requests :
            r # s /\ at[r] # "idle" /\ at[s] # "idle" => created[r] \cap created[s] = {}

(* What no clean-up knows of stays and stands in every later request's way.*)
LeftBehind == faults["crash"] + faults["partial"] + faults["removal"] > 0

(* A reset takes the files of a dossier with its rows, also while requests *)
(* for it are under way or clean up: none stays but for a fault.           *)
ResetErases ==
    (/\ ~snapshot /\ erasing = {} /\ ~LeftBehind
     /\ \A r \in Requests : at[r] = "idle")
        => \A i \in Files : file[i] = "absent"

(* "Replayable": a review that is asked for often enough has its dossier   *)
(* in the end, whatever raced and was rolled back, unless a fault left     *)
(* files behind or the review is reset.                                    *)
DossierAtLast == <>(recorded \/ LeftBehind \/ ~snapshot)
=============================================================================
