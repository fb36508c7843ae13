--------------------------- MODULE DeletionPromise ---------------------------
(***************************************************************************)
(* What retention deletion promises to whoever reads an evidence row: the  *)
(* four values of retention_status and, beside each row, whether its bytes *)
(* exist anywhere.  Workers, leases, tombstones and failures are absent.   *)
(***************************************************************************)
CONSTANT Evidence

VARIABLES
    state,   \* retention_status of each row
    bytes    \* do bytes of the row exist under any name?

promiseVars == <<state, bytes>>

Init ==
    /\ state = [e \in Evidence |-> "retained"]
    /\ bytes = [e \in Evidence |-> TRUE]

(* The row of e goes from one state to another; its bytes stay as they are. *)
Turn(e, from, to) ==
    /\ state[e] = from
    /\ state' = [state EXCEPT ![e] = to]
    /\ UNCHANGED bytes

Begin(e) == bytes[e] /\ Turn(e, "retained", "deleting")

Erase(e) ==
    /\ state[e] = "deleting"
    /\ bytes[e]
    /\ bytes' = [bytes EXCEPT ![e] = FALSE]
    /\ UNCHANGED state

Record(e) == ~bytes[e] /\ Turn(e, "deleting", "deleted")
HandBack(e) == bytes[e] /\ Turn(e, "deleting", "retained")
GiveUp(e) == Turn(e, "deleting", "integrity_unknown")

Next == \E e \in Evidence : Begin(e) \/ Erase(e) \/ Record(e) \/ HandBack(e) \/ GiveUp(e)

Spec == Init /\ [][Next]_promiseVars
=============================================================================
