------------------------------ MODULE Scanner ------------------------------
(***************************************************************************)
(* One scan of one file by the worker, and one probe of the scanner: the   *)
(* bytes are read from the volume under the checks of readConfinedEvidence *)
(* and sent to clamd over a socket of their own, whose data, end, error    *)
(* and timeout race for the one answer.  The volume may change under the   *)
(* reader and the peer may write anything, in any pieces, or nothing.      *)
(*                                                                         *)
(* What the peer writes is a sequence of tokens: the two verdicts, PONG,   *)
(* any other text, and the terminator NUL.                                 *)
(***************************************************************************)
EXTENDS Naturals, Sequences, SequencesExt

CONSTANTS
    MaxAnswer,        \* bound on the tokens a peer writes
    MaxResponse,      \* MAX_SCANNER_RESPONSE_BYTES, in tokens
    MaxDisturbances   \* bound on changes of the file under the reader

(* The limit on an answer leaves room for a verdict.                       *)
ScannerAssumption ==
    MaxAnswer \in Nat /\ MaxResponse \in Nat /\ MaxResponse >= 2 /\ MaxDisturbances \in Nat

Tokens == {"OK", "FOUND", "PONG", "text", "NUL"}

(* "link": the path leads out of the storage root or is no regular file.   *)
Files == {"intact", "altered", "resized", "absent", "link"}

VARIABLES
    task,        \* "none", "scan" or "ping"
    place,       \* where the call is
    file,        \* what the path leads to; after open, the opened file
    bytes,       \* what was read so far, in two pieces
    fits,        \* the size and digest of the row are such that a file may have them
    written,     \* all the peer has written
    response,    \* what the data handler has accumulated of it
    peer,        \* "open", "ended" or "reset"
    outcome,
    disturbed

fileVars == <<file, bytes, fits, disturbed>>
wireVars == <<written, response, peer>>
scannerVars == <<task, place, outcome, fileVars, wireVars>>

Pending == outcome = "none"
Waiting == Pending /\ place = "connected"

Settle(what) ==
    /\ outcome' = what /\ place' = "done"
    /\ UNCHANGED <<task, fileVars, wireVars>>

Go(from, to) == Pending /\ place = from /\ place' = to

-----------------------------------------------------------------------------
(* Reading.                                                                *)

Scan ==
    /\ task = "none" /\ task' = "scan" /\ place' = "paths"
    /\ file' \in Files /\ fits' \in BOOLEAN
    /\ UNCHANGED <<bytes, disturbed, outcome, wireVars>>

(* The metadata of the row, a size beyond maxBytes included; then realpath *)
(* of the root, of the tenant's directory and of the file.                 *)
ResolvePaths ==
    \/ /\ Pending /\ place = "paths" /\ ~fits /\ Settle("EVIDENCE_INTEGRITY_MISMATCH")
    \/ /\ Go("paths", "open") /\ fits /\ file \notin {"absent", "link"}
       /\ UNCHANGED <<task, outcome, fileVars, wireVars>>
    \/ /\ Pending /\ place = "paths" /\ fits /\ file = "absent" /\ Settle("EVIDENCE_STORAGE_UNAVAILABLE")
    \/ /\ Pending /\ place = "paths" /\ fits /\ file = "link" /\ Settle("STORAGE_PATH_INVALID")

(* open with O_NOFOLLOW, then stat of the handle.                          *)
Open ==
    \/ /\ Go("open", "read") /\ file \in {"intact", "altered"}
       /\ UNCHANGED <<task, outcome, fileVars, wireVars>>
    \/ /\ Pending /\ place = "open" /\ file \in {"absent", "link"}
       /\ Settle("EVIDENCE_STORAGE_UNAVAILABLE")
    \/ /\ Pending /\ place = "open" /\ file = "link" /\ Settle("STORAGE_PATH_INVALID")
    \/ /\ Pending /\ place = "open" /\ file = "resized" /\ Settle("EVIDENCE_INTEGRITY_MISMATCH")

(* The read loop: a file that changes meanwhile is read in part before and *)
(* in part after.                                                          *)
ReadPiece ==
    /\ Pending /\ place = "read" /\ Len(bytes) < 2
    /\ bytes' = Append(bytes, file)
    /\ UNCHANGED <<task, place, file, fits, outcome, disturbed, wireVars>>

(* Mutated form of Check: the digest is not compared.                      *)
CheckSizeOnly ==
    /\ Pending /\ place = "read" /\ Len(bytes) = 2
    /\ IF "resized" \notin ToSet(bytes)
       THEN /\ place' = "connect"
            /\ UNCHANGED <<task, outcome, fileVars, wireVars>>
       ELSE Settle("EVIDENCE_INTEGRITY_MISMATCH")

(* The number of bytes and their digest against the row.                   *)
Check ==
    /\ Pending /\ place = "read" /\ Len(bytes) = 2
    /\ IF ToSet(bytes) = {"intact"}
       THEN /\ place' = "connect"
            /\ UNCHANGED <<task, outcome, fileVars, wireVars>>
       ELSE Settle("EVIDENCE_INTEGRITY_MISMATCH")

-----------------------------------------------------------------------------
(* The dialogue.                                                           *)

Ping ==
    /\ task = "none" /\ task' = "ping" /\ place' = "connect"
    /\ UNCHANGED <<outcome, fileVars, wireVars>>

Refused == IF task = "ping" THEN "FALSE" ELSE "MALWARE_SCANNER_UNAVAILABLE"
TimedOut == IF task = "ping" THEN "FALSE" ELSE "MALWARE_SCAN_TIMEOUT"

(* The whole request is written when the socket connects.                  *)
Connect ==
    /\ Pending /\ place = "connect"
    /\ \/ Settle(Refused)
       \/ /\ place' = "connected" /\ peer' = "open"
          /\ UNCHANGED <<task, written, response, outcome, fileVars>>

Judged(answer) ==
    CASE task = "ping" -> IF answer = <<"PONG", "NUL">> THEN "TRUE" ELSE "FALSE"
      [] task = "scan" /\ answer = <<"OK", "NUL">> -> "clean"
      [] task = "scan" /\ answer = <<"FOUND", "NUL">> -> "infected"
      [] OTHER -> "MALWARE_SCANNER_MALFORMED_RESPONSE"

TooLong(answer) == Len(answer) > (IF task = "ping" THEN 2 ELSE MaxResponse)

Heard(answer) ==
    /\ response' = answer
    /\ UNCHANGED <<task, written, peer, fileVars>>

(* Mutated form of Data: a terminated answer is judged when it arrives.    *)
DataJudged ==
    /\ Waiting /\ Len(response) < Len(written)
    /\ \E n \in Len(response) + 1 .. Len(written) :
          LET answer == SubSeq(written, 1, n)
          IN  /\ Heard(answer)
              /\ IF TooLong(answer) \/ answer[n] = "NUL"
                 THEN outcome' = Judged(answer) /\ place' = "done"
                 ELSE UNCHANGED <<outcome, place>>

(* Any number of what was written arrives at once.                         *)
Data ==
    /\ Waiting /\ Len(response) < Len(written)
    /\ \E n \in Len(response) + 1 .. Len(written) :
          LET answer == SubSeq(written, 1, n)
          IN  /\ Heard(answer)
              /\ IF TooLong(answer)
                 THEN /\ outcome' = IF task = "ping" THEN "FALSE"
                                    ELSE "MALWARE_SCANNER_MALFORMED_RESPONSE"
                      /\ place' = "done"
                 ELSE UNCHANGED <<outcome, place>>

(* 'end' comes after all data, 'error' at any time.                        *)
End == Waiting /\ peer = "ended" /\ response = written /\ Settle(Judged(response))
Error == Waiting /\ peer = "reset" /\ Settle(Refused)

(* Mutated form of Timeout: the first data stop the timer.                 *)
TimeoutOfTheFirst ==
    Pending /\ place \in {"connect", "connected"} /\ response = <<>> /\ Settle(TimedOut)

Timeout == Pending /\ place \in {"connect", "connected"} /\ Settle(TimedOut)

-----------------------------------------------------------------------------
(* The world.                                                              *)

(* Somebody changes the file, before it is opened by name, later in place. *)
Disturb ==
    /\ task = "scan" /\ Pending /\ place \in {"paths", "open", "read"} /\ disturbed < MaxDisturbances
    /\ disturbed' = disturbed + 1
    /\ \E other \in IF place = "read" THEN {"altered", "resized"} ELSE Files :
          other # file /\ file' = other
    /\ UNCHANGED <<task, place, bytes, fits, outcome, wireVars>>

Write ==
    /\ Waiting /\ peer = "open" /\ Len(written) < MaxAnswer
    /\ \E t \in Tokens : written' = Append(written, t)
    /\ UNCHANGED <<task, place, response, peer, outcome, fileVars>>

Hang ==
    /\ Waiting /\ peer = "open" /\ peer' \in {"ended", "reset"}
    /\ UNCHANGED <<task, place, written, response, outcome, fileVars>>

Init ==
    /\ task = "none" /\ place = "idle" /\ file = "intact" /\ bytes = <<>>
    /\ fits = TRUE /\ written = <<>> /\ response = <<>>
    /\ peer = "none" /\ outcome = "none" /\ disturbed = 0

Step ==
    \/ ResolvePaths \/ Open \/ ReadPiece \/ Check \/ Connect \/ Data \/ End \/ Error \/ Timeout

Next == Scan \/ Ping \/ Step \/ Disturb \/ Write \/ Hang

(* The timer fires and whatever arrived is handled.                        *)
Spec == Init /\ [][Next]_scannerVars /\ WF_scannerVars(Step)

-----------------------------------------------------------------------------
TypeOK ==
    /\ task \in {"none", "scan", "ping"} /\ file \in Files
    /\ place \in {"idle", "paths", "open", "read", "connect", "connected", "done"}
    /\ peer \in {"none", "open", "ended", "reset"} /\ IsPrefix(response, written)
    /\ disturbed \in 0 .. MaxDisturbances
    /\ place = "done" <=> outcome # "none"

(* A verdict is about the recorded bytes, all of them, and it is all the   *)
(* scanner said, up to its end of the connection; a probe that succeeds    *)
(* heard PONG and nothing else.  And who answered properly and in time is  *)
(* not called malformed.                                                   *)
VerdictIsTheWholeAnswer ==
    /\ TypeOK
    /\ outcome \in {"clean", "infected"} =>
          /\ fits /\ bytes = <<"intact", "intact">>
          /\ peer = "ended"
          /\ written = << IF outcome = "clean" THEN "OK" ELSE "FOUND", "NUL" >>
    /\ outcome = "TRUE" => peer = "ended" /\ written = <<"PONG", "NUL">>
    /\ outcome = "MALWARE_SCANNER_MALFORMED_RESPONSE" =>
          written \notin {<<"OK", "NUL">>, <<"FOUND", "NUL">>}

Called == task # "none" /\ outcome = "none"

(* No peer, however it stops talking, holds the worker's loop.             *)
CallsSettle == Called ~> ~Called
=============================================================================
