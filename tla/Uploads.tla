------------------------------- MODULE Uploads -------------------------------
(***************************************************************************)
(* Uploads of evidence side by side: the parts of the multipart body on    *)
(* their way to a temporary file, the checks, the rename, the transaction  *)
(* that numbers the version, and the clean-up, with callers who go away, a *)
(* commit whose acknowledgement is lost, a process that dies, downloads    *)
(* and the demonstration reset beside them.                                *)
(***************************************************************************)
EXTENDS Naturals, FiniteSets, FiniteSetsExt

CONSTANTS
    Uploads,      \* the requests
    Bodies,       \* what their bodies may be
    MaxMishaps    \* connections, commits, statements and processes lost

VARIABLES
    body,         \* the body of a request
    step,         \* where its handler is
    names,        \* the names its file has: "temporary", "final"
    opening,      \* requests whose output stream has not opened its file yet
    number,       \* the version its statement has read
    rows,         \* evidence_files, committed: [by, version]
    entered,      \* rows of transactions that have not ended
    required,     \* evidence_requirements: whether the requirement is there
    reply,        \* the status it was answered with
    erasing,      \* the storage keys a reset has still to remove
    mishaps, unheard, orphans

uploadVars == <<body, step, names, opening, number, rows, entered, required, reply, erasing,
                mishaps, unheard, orphans>>
fileVars == <<names, opening>>
rowVars == <<rows, entered, required>>
fateVars == <<erasing, mishaps, unheard, orphans>>

UploadsAssumption == MaxMishaps \in Nat /\ Uploads # {} /\ Bodies # {}

Goto(u, where) == step' = [step EXCEPT ![u] = where]
Mishap == mishaps < MaxMishaps /\ mishaps' = mishaps + 1

-----------------------------------------------------------------------------
(* The body.                                                               *)

Begin(u) ==
    /\ step[u] = "idle"
    /\ \E b \in Bodies :
         /\ body' = [body EXCEPT ![u] = b]
         /\ IF b = "notMultipart"
            THEN Goto(u, "over") /\ reply' = [reply EXCEPT ![u] = 415]
            ELSE Goto(u, "receiving") /\ UNCHANGED reply
    /\ UNCHANGED <<fileVars, number, rowVars, fateVars>>

(* The part with the file: its stream is opened, in its own time.          *)
FileArrives(u) ==
    /\ step[u] = "receiving" /\ body[u] # "noFile"
    /\ Goto(u, "streaming")
    /\ opening' = opening \cup {u}
    /\ UNCHANGED <<body, names, number, rowVars, reply, fateVars>>

OutputOpens(u) ==
    /\ u \in opening
    /\ opening' = opening \ {u}
    /\ names' = [names EXCEPT ![u] = @ \cup {"temporary"}]
    /\ orphans' = IF step[u] = "over" THEN orphans \cup {u} ELSE orphans
    /\ UNCHANGED <<body, step, number, rowVars, reply, erasing, mishaps, unheard>>

(* Every failure of the handler ends here.                                 *)
CleanUpKeepsFinal(u, status) ==
    /\ names' = [names EXCEPT ![u] = @ \ {"temporary"}]
    /\ reply' = [reply EXCEPT ![u] = status] /\ Goto(u, "over")
CleanUp(u, status) ==
    /\ names' = [names EXCEPT ![u] = {}]
    /\ reply' = [reply EXCEPT ![u] = status] /\ Goto(u, "over")

(* A second file or a malformed body is refused at once; everything else   *)
(* is judged when the parser and the output have finished.                 *)
ParserRefuses(u) ==
    /\ step[u] \in {"receiving", "streaming"} /\ body[u] = "malformed"
    /\ CleanUp(u, 422)
    /\ UNCHANGED <<body, opening, number, rowVars, fateVars>>

Finished(u) ==
    \/ step[u] = "receiving" /\ body[u] = "noFile"
    \/ step[u] = "streaming" /\ u \notin opening
Unacceptable ==
    [b \in {"noFile", "empty", "misnamed", "disguised", "active", "tooLarge"} |-> IF b = "tooLarge" THEN 413 ELSE 422]

BodyRefused(u) ==
    /\ Finished(u)
    /\ body[u] \in DOMAIN Unacceptable
    /\ CleanUp(u, Unacceptable[body[u]])
    /\ UNCHANGED <<body, opening, number, rowVars, fateVars>>

(* The bytes get their final name, in the directory they were meant for.   *)
Rename(u) ==
    /\ Finished(u) /\ body[u] \in {"evidence", "evidenceForAnother"}
    /\ names' = [names EXCEPT ![u] = {"final"}]
    /\ Goto(u, "placed")
    /\ UNCHANGED <<body, opening, number, rowVars, reply, fateVars>>

(* A caller who goes away in the middle of the body ends neither the       *)
(* parser nor the promise that waits for it.                               *)
CallerLeaves(u) ==
    /\ step[u] \in {"receiving", "streaming"}
    /\ Mishap
    /\ Goto(u, "waiting")
    /\ UNCHANGED <<body, fileVars, number, rowVars, reply, erasing, unheard, orphans>>

-----------------------------------------------------------------------------
(* The transaction.                                                        *)

Versions(r) == {row.version : row \in r}

ReadRequirement(u) ==
    /\ step[u] = "placed"
    /\ IF required /\ body[u] = "evidence"
       THEN Goto(u, "required") /\ UNCHANGED <<names, reply>>
       ELSE CleanUp(u, 404)
    /\ UNCHANGED <<body, opening, number, rowVars, fateVars>>

ReadVersion(u) ==
    /\ step[u] = "required"
    /\ number' = [number EXCEPT ![u] = Max({0} \cup Versions(rows)) + 1]
    /\ Goto(u, "numbered")
    /\ UNCHANGED <<body, fileVars, rowVars, reply, fateVars>>

(* Nothing keeps two rows from one number: no index is unique over it. A   *)
(* requirement that is gone fails the statement.                           *)
Insert(u) ==
    /\ step[u] = "numbered"
    /\ IF required
       THEN /\ entered' = entered \cup {[by |-> u, version |-> number[u]]}
            /\ Goto(u, "inserted") /\ UNCHANGED <<names, reply>>
       ELSE CleanUp(u, 500) /\ UNCHANGED entered
    /\ UNCHANGED <<body, opening, number, rows, required, fateVars>>

Mine(u) == {row \in entered : row.by = u}

Commit(u) ==
    /\ step[u] = "inserted"
    /\ rows' = rows \cup Mine(u) /\ entered' = entered \ Mine(u)
    /\ reply' = [reply EXCEPT ![u] = 202] /\ Goto(u, "over")
    /\ UNCHANGED <<body, fileVars, number, required, fateVars>>

(* A statement or the commit fails, or the commit's answer does not come.  *)
Rollback(u) ==
    /\ step[u] \in {"placed", "required", "numbered", "inserted"}
    /\ Mishap
    /\ entered' = entered \ Mine(u)
    /\ CleanUp(u, 500)
    /\ UNCHANGED <<body, opening, number, rows, required, erasing, unheard, orphans>>

CommitUnheard(u) ==
    /\ step[u] = "inserted"
    /\ Mishap
    /\ rows' = rows \cup Mine(u) /\ entered' = entered \ Mine(u)
    /\ unheard' = unheard \cup {u}
    /\ CleanUp(u, 500)
    /\ UNCHANGED <<body, opening, number, required, erasing, orphans>>

-----------------------------------------------------------------------------
(* The process ends under everything that has not: transactions roll back, *)
(* files stay.                                                             *)
Crash ==
    /\ Mishap
    /\ \E u \in Uploads : step[u] \notin {"idle", "over"}
    /\ step' = [u \in Uploads |-> IF step[u] = "idle" THEN "idle" ELSE "over"]
    /\ entered' = {} /\ opening' = {}
    /\ orphans' = orphans \cup {u \in Uploads : step[u] \notin {"idle", "over"} /\ names[u] # {}}
                          \cup erasing
    /\ erasing' = {}
    /\ UNCHANGED <<body, names, number, rows, required, reply, unheard>>

(* The reset waits for the rows of transactions under way, whose foreign   *)
(* key holds the requirement; the files follow its commit one by one.      *)
Reset ==
    /\ required /\ entered = {}
    /\ rows' = {} /\ required' = FALSE
    /\ erasing' = {row.by : row \in rows}
    /\ UNCHANGED <<body, step, fileVars, number, entered, reply, mishaps, unheard, orphans>>

RemoveKey(u) ==
    /\ u \in erasing
    /\ erasing' = erasing \ {u}
    /\ \/ names' = [names EXCEPT ![u] = @ \ {"final"}] /\ UNCHANGED <<mishaps, orphans>>
       \/ Mishap /\ orphans' = orphans \cup {u} /\ UNCHANGED names
    /\ UNCHANGED <<body, step, opening, number, rowVars, reply, unheard>>

-----------------------------------------------------------------------------
Init ==
    /\ body = [u \in Uploads |-> "none"]
    /\ step = [u \in Uploads |-> "idle"]
    /\ names = [u \in Uploads |-> {}]
    /\ opening = {} /\ entered = {} /\ rows = {} /\ erasing = {}
    /\ number = [u \in Uploads |-> 0]
    /\ required = TRUE
    /\ reply = [u \in Uploads |-> 0]
    /\ mishaps = 0 /\ unheard = {} /\ orphans = {}

Next ==
    \/ Crash \/ Reset
    \/ \E u \in Uploads :
         \/ Begin(u) \/ FileArrives(u) \/ OutputOpens(u) \/ ParserRefuses(u) \/ BodyRefused(u)
         \/ Rename(u) \/ CallerLeaves(u) \/ ReadRequirement(u) \/ ReadVersion(u) \/ Insert(u)
         \/ Commit(u) \/ Rollback(u) \/ CommitUnheard(u) \/ RemoveKey(u)

Spec == Init /\ [][Next]_uploadVars

-----------------------------------------------------------------------------
(* readVerifiedEvidence finds the bytes of a row.                          *)
Downloadable(u) == "final" \in names[u]

(* An acknowledged upload has its row and its bytes until a reset, the     *)
(* versions of a requirement leave no number out, whatever raced with      *)
(* them, a row has lost its bytes only if its own commit was not heard,    *)
(* and what remains on the disk without a row belongs to a request that is *)
(* under way, that was cut off, or that was refused before its stream had  *)
(* opened.                                                                 *)
UploadsAreWhole ==
    /\ \A u \in Uploads : (reply[u] = 202 /\ required) => \E row \in rows : row.by = u
    /\ \A row \in rows : Downloadable(row.by) \/ row.by \in unheard
    /\ Versions(rows) = 1..Cardinality(Versions(rows))
    /\ \A row \in rows : reply[row.by] = 202 \/ row.by \in unheard
    /\ \A u \in Uploads :
         (names[u] # {} /\ step[u] = "over" /\ \A row \in rows : row.by # u)
             => u \in erasing \cup orphans

(* Each upload against a requirement creates a new version, say the        *)
(* comments at app.mjs:764 and at withCurrency, which calls the highest    *)
(* version current.  Two uploads that read the number before either        *)
(* commits share it.                                                       *)
VersionsAreNew == \A r1, r2 \in rows : r1.version = r2.version => r1 = r2
=============================================================================
