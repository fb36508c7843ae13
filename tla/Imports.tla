------------------------------ MODULE Imports ------------------------------
(***************************************************************************)
(* Imports of catalogue and packaging files.  A request looks its          *)
(* idempotency key up, reads the catalogue in three statements, validates  *)
(* its file against it and inserts row after row in one READ COMMITTED     *)
(* transaction.  An insert under a key that another open transaction has   *)
(* inserted waits for that transaction to end.  A client that got an error *)
(* sends the same file under the same key again.                           *)
(*                                                                         *)
(* A row is <<table, identifier>>.  What two clients may send at the same  *)
(* time is a set of files, told apart by what validation looks at.         *)
(***************************************************************************)
EXTENDS Naturals, Sequences, FiniteSets, SequencesExt

CONSTANTS
    Clients,
    Keys,             \* idempotency keys
    Files,            \* [schema, catalogue, packaging], see ImportsAssumption
    MaxFaults         \* bound on failures and lost answers

Catalogue == <<"suppliers", "materials", "components">>

Records == ToSet(Catalogue) \X STRING
Items == [id : Records, valid : BOOLEAN, refers : SUBSET Records]
Packagings == [id : STRING, valid : BOOLEAN, refers : SUBSET Records, bom : STRING, lines : Seq(STRING)]

ImportsAssumption ==
    /\ MaxFaults \in Nat
    /\ \A f \in Files :
          /\ f.schema \in BOOLEAN
          /\ f.catalogue \in Seq(Items)
          /\ f.packaging \in Seq(Packagings)

VARIABLES
    stored,    \* committed rows
    runs,      \* import_runs: key -> [file, status]
    asked,     \* what each client sends: c -> [key, file]
    at,        \* where its request is
    known,     \* the catalogue it has read
    todo,      \* the rows it has still to insert
    inserted,   \* the rows it has inserted and not committed
    answer,
    faults

askVars == <<stored, runs, asked>>
importVars == <<stored, runs, asked, at, known, todo, inserted, answer, faults>>

File(c) == asked[c].file
Key(c) == asked[c].key

-----------------------------------------------------------------------------
(* Validation.                                                             *)

Ids(f) == {f.catalogue[i].id : i \in DOMAIN f.catalogue}

(* An error of the catalogue is an error of every row.                     *)
CatalogueErrors(f, seen) ==
    \E i \in DOMAIN f.catalogue :
        ~f.catalogue[i].valid \/ ~(f.catalogue[i].refers \subseteq seen \cup Ids(f))

RowErrors(f, i, seen) ==
    LET row == f.packaging[i]
    IN  \/ CatalogueErrors(f, seen)
        \/ ~f.schema \/ ~row.valid
        \/ \E k \in DOMAIN f.packaging \ {i} : f.packaging[k].id = row.id
        \/ ~(row.refers \subseteq seen \cup Ids(f))

Rejected(f, seen) ==
    f.packaging = <<>> \/ \E i \in DOMAIN f.packaging : RowErrors(f, i, seen)

-----------------------------------------------------------------------------
(* What is inserted, and in which order.                                   *)

PackagingRows(row) ==
    << <<"packaging", row.id>>, <<"boms", row.bom>> >>
    \o [i \in DOMAIN row.lines |-> <<"bom_lines", row.bom, row.lines[i]>>]
    \o << <<"evidence_requirements", row.id>> >>

RowsOf(f) ==
    [i \in DOMAIN f.catalogue |-> f.catalogue[i].id]
    \o FlattenSeq([i \in DOMAIN f.packaging |-> PackagingRows(f.packaging[i])])

Plan(c) ==
    << <<"import_runs", Key(c)>> >>
    \o (IF Rejected(File(c), known[c]) THEN <<>> ELSE RowsOf(File(c)))

(* ON CONFLICT DO NOTHING; a deliberate 409; whatever else is a 500.       *)
Ignored == ToSet(Catalogue) \cup {"evidence_requirements"}
Named == {"packaging", "boms"}

-----------------------------------------------------------------------------
(* The transaction ends with an answer.                                    *)
Answer(c, what) ==
    /\ answer' = [answer EXCEPT ![c] = what]
    /\ at' = [at EXCEPT ![c] = "idle"]
    /\ inserted' = [inserted EXCEPT ![c] = {}]
    /\ todo' = [todo EXCEPT ![c] = <<>>]
    /\ known' = [known EXCEPT ![c] = {}]

(* A client makes up its mind once.                                        *)
Ask(c) ==
    /\ c \notin DOMAIN asked
    /\ \E k \in Keys, f \in Files :
          asked' = [d \in DOMAIN asked \cup {c} |-> IF d = c THEN [key |-> k, file |-> f] ELSE asked[d]]
    /\ UNCHANGED <<stored, runs, at, known, todo, inserted, answer, faults>>

Asking(c) == c \in DOMAIN asked /\ at[c] = "idle" /\ answer[c] \in {"none", "error"}

(* Mutated form of Replay: the checksum is not compared.                   *)
ReplayAnything(c) ==
    /\ Asking(c) /\ Key(c) \in DOMAIN runs
    /\ Answer(c, runs[Key(c)].status)
    /\ UNCHANGED <<faults, askVars>>

(* Mutated form of Replay: only an accepted run is replayed.               *)
ReplayAccepted(c) ==
    /\ Asking(c) /\ Key(c) \in DOMAIN runs /\ runs[Key(c)].status = "accepted"
    /\ Answer(c, IF runs[Key(c)].file = File(c) THEN "accepted" ELSE "conflict")
    /\ UNCHANGED <<faults, askVars>>

(* The key is known: the same file gets the same answer.                   *)
Replay(c) ==
    /\ Asking(c) /\ Key(c) \in DOMAIN runs
    /\ Answer(c, IF runs[Key(c)].file = File(c) THEN runs[Key(c)].status ELSE "conflict")
    /\ UNCHANGED <<faults, askVars>>

LookUp(c) ==
    /\ Asking(c) /\ Key(c) \notin DOMAIN runs
    /\ at' = [at EXCEPT ![c] = Catalogue[1]]
    /\ UNCHANGED <<known, todo, inserted, answer, faults, askVars>>

(* One of the three SELECTs of validatePayload.                            *)
Read(c, i) ==
    /\ at[c] = Catalogue[i]
    /\ known' = [known EXCEPT ![c] = @ \cup {r \in stored : r[1] = Catalogue[i]}]
    /\ at' = [at EXCEPT ![c] = IF i < Len(Catalogue) THEN Catalogue[i + 1] ELSE "validate"]
    /\ UNCHANGED <<todo, inserted, answer, faults, askVars>>

Validate(c) ==
    /\ at[c] = "validate"
    /\ at' = [at EXCEPT ![c] = "insert"]
    /\ todo' = [todo EXCEPT ![c] = Plan(c)]
    /\ UNCHANGED <<known, inserted, answer, faults, askVars>>

Inserting(c) == at[c] = "insert" /\ todo[c] # <<>>
Next1(c) == Head(todo[c])
Waits(c, d) == c # d /\ Inserting(c) /\ Next1(c) \in inserted[d]
Exists(c) == Inserting(c) /\ Next1(c) \in stored \cup inserted[c]

Insert(c) ==
    /\ Inserting(c) /\ ~Exists(c) /\ \A d \in Clients : ~Waits(c, d)
    /\ inserted' = [inserted EXCEPT ![c] = @ \cup {Next1(c)}]
    /\ todo' = [todo EXCEPT ![c] = Tail(@)]
    /\ UNCHANGED <<at, known, answer, faults, askVars>>

(* Mutated form of Skip: whatever exists of a delivery is passed over.     *)
SkipPackaging(c) ==
    /\ Exists(c) /\ Next1(c)[1] # "import_runs"
    /\ todo' = [todo EXCEPT ![c] = Tail(@)]
    /\ UNCHANGED <<at, known, inserted, answer, faults, askVars>>

Skip(c) ==
    /\ Exists(c) /\ Next1(c)[1] \in Ignored
    /\ todo' = [todo EXCEPT ![c] = Tail(@)]
    /\ UNCHANGED <<at, known, inserted, answer, faults, askVars>>

(* IMPORT_RECORD_EXISTS names a record; a second row under the same key or *)
(* for the same line of a bill surfaces as INTERNAL_ERROR.                 *)
Refuse(c) ==
    /\ Exists(c) /\ Next1(c)[1] \notin Ignored
    /\ Answer(c, IF Next1(c)[1] \in Named THEN "exists" ELSE "error")
    /\ UNCHANGED <<faults, askVars>>

(* PostgreSQL aborts one of several that wait for each other.              *)
Deadlock(c) ==
    /\ \E circle \in SUBSET Clients :
          /\ c \in circle
          /\ \A d \in circle : \E e \in circle : Waits(d, e)
          /\ \A d \in circle : \E e \in circle : Waits(e, d)
    /\ Answer(c, "error")
    /\ UNCHANGED <<faults, askVars>>

(* A statement fails, the connection or the process goes away.             *)
Fail(c) ==
    /\ at[c] # "idle" /\ faults < MaxFaults
    /\ faults' = faults + 1
    /\ Answer(c, "error")
    /\ UNCHANGED askVars

(* The audit event and the commit; the answer may not arrive.              *)
Commit(c) ==
    LET status == IF Rejected(File(c), known[c]) THEN "rejected" ELSE "accepted"
    IN  /\ at[c] = "insert" /\ todo[c] = <<>>
        /\ stored' = stored \cup inserted[c]
        /\ runs' = [k \in DOMAIN runs \cup {Key(c)} |->
                       IF k = Key(c) THEN [file |-> File(c), status |-> status] ELSE runs[k]]
        /\ \/ Answer(c, status) /\ UNCHANGED faults
           \/ Answer(c, "error") /\ faults < MaxFaults /\ faults' = faults + 1
        /\ UNCHANGED asked

Init ==
    /\ stored = {} /\ runs = << >> /\ faults = 0
    /\ asked = << >>
    /\ at = [c \in Clients |-> "idle"]
    /\ known = [c \in Clients |-> {}]
    /\ todo = [c \in Clients |-> <<>>]
    /\ inserted = [c \in Clients |-> {}]
    /\ answer = [c \in Clients |-> "none"]

Step(c) ==
    \/ Replay(c) \/ LookUp(c) \/ (\E i \in DOMAIN Catalogue : Read(c, i)) \/ Validate(c)
    \/ Insert(c) \/ Skip(c) \/ Refuse(c) \/ Deadlock(c) \/ Commit(c)

Next == \E c \in Clients : Ask(c) \/ Step(c) \/ Fail(c)

(* The process goes on, who gets an error retries, and PostgreSQL wakes    *)
(* who waits for a transaction before that one's client can send again.    *)
Spec ==
    /\ Init /\ [][Next]_importVars
    /\ \A c \in Clients : WF_importVars(Step(c)) /\ SF_importVars(Insert(c))

-----------------------------------------------------------------------------
TypeOK ==
    /\ at \in [Clients -> {"idle", "validate", "insert"} \cup ToSet(Catalogue)]
    /\ answer \in [Clients -> {"none", "error", "accepted", "rejected", "conflict", "exists"}]
    /\ faults \in 0 .. MaxFaults
    /\ \A c \in Clients : at[c] # "insert" => inserted[c] = {} /\ todo[c] = <<>>
    /\ \A c, d \in Clients : c # d => inserted[c] \cap inserted[d] = {}

Accepted == {k \in DOMAIN runs : runs[k].status = "accepted"}
Own(f) == {r \in ToSet(RowsOf(f)) : r[1] \notin ToSet(Catalogue)}

(* Every row that is stored is one an accepted run brought, every accepted *)
(* run brought all of its rows, and no two brought the same packaging: "no *)
(* domain rows" from a rejected file, nothing twice and nothing by halves. *)
(* What a client was told is what the run of its key says about its file.  *)
RowsHaveTheirRun ==
    /\ TypeOK
    /\ \A c \in Clients :
          answer[c] \in {"accepted", "rejected"} =>
              /\ Key(c) \in DOMAIN runs
              /\ runs[Key(c)] = [file |-> File(c), status |-> answer[c]]
    /\ stored = {<<"import_runs", k>> : k \in DOMAIN runs}
                \cup UNION {ToSet(RowsOf(runs[k].file)) : k \in Accepted}
    /\ \A k, l \in Accepted : k # l => Own(runs[k].file) \cap Own(runs[l].file) = {}

(* A bill that names a component twice is accepted by validation and then  *)
(* fails in the database, for ever.                                        *)
RepeatsALine(f) ==
    \E i \in DOMAIN f.packaging :
        \E j, k \in DOMAIN f.packaging[i].lines :
            j # k /\ f.packaging[i].lines[j] = f.packaging[i].lines[k]

SendsARepeat(c) == c \in DOMAIN asked /\ RepeatsALine(File(c))

(* Who retries gets an answer that a retry cannot change, whatever races,  *)
(* deadlocks, failures and lost answers came before.                       *)
RetriesEnd ==
    \A c \in Clients :
        []<>(c \in DOMAIN asked => answer[c] \notin {"none", "error"} \/ SendsARepeat(c))
=============================================================================
