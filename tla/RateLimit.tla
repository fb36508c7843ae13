----------------------------- MODULE RateLimit -----------------------------
(***************************************************************************)
(* The limiter of one operation: every rule counts requests by one of      *)
(* their identifiers in fixed windows.  A request charges one rule after   *)
(* the other, each by reading the clock and then, when the database gets   *)
(* to it, counting in the bucket of the window it read; it is judged when  *)
(* it has charged them all.  A charge may remove the buckets of windows    *)
(* that began longer ago than Retain, the hour of the code; nothing bounds *)
(* the wait for the database, so a charge may come to a bucket that went.  *)
(***************************************************************************)
EXTENDS Naturals, Sequences, FiniteSets, SequencesExt

CONSTANTS
    Rules,       \* sequence of [window, max]
    Callers,     \* sequences of identifiers, one for each rule, or Unknown
    Unknown,
    Retain,
    MaxRequests, \* bound on the requests
    MaxTime      \* bound on the clock

RateLimitAssumption ==
    /\ Rules \in Seq([window : Nat, max : Nat])
    /\ \A i \in DOMAIN Rules : Rules[i].window > 0
    /\ \A c \in Callers : DOMAIN c = DOMAIN Rules
    /\ Retain \in Nat /\ MaxRequests \in Nat /\ MaxTime \in Nat

VARIABLES
    time,
    buckets,     \* <<rule, identifier, window>> -> count
    requests,    \* sequence of [ids, charges, reading, verdict]
    late         \* history: buckets counted from 1 when their hour was over

limiterVars == <<time, buckets, requests, late>>

Unread == MaxTime + 1
Window(i, t) == t \div Rules[i].window

Ids(r) == requests[r].ids
Charges(r) == requests[r].charges      \* sequence of [rule, at, count]
Reading(r) == requests[r].reading
Verdict(r) == requests[r].verdict

(* A rule whose identifier is not known is passed over.                    *)
Due(q) ==
    {i \in DOMAIN Rules : q.ids[i] # Unknown /\ \A k \in DOMAIN q.charges : q.charges[k].rule < i}
NextDue(q) == CHOOSE i \in Due(q) : \A j \in Due(q) : i <= j

Exceeds(q) == \E k \in DOMAIN q.charges : q.charges[k].count > Rules[q.charges[k].rule].max

(* The next rule's clock reading, or the verdict when all are charged.     *)
Onward(q) ==
    IF Due(q) # {} THEN [q EXCEPT !.reading = time]
    ELSE [q EXCEPT !.verdict = IF Exceeds(q) THEN "refused" ELSE "passed"]

Arrive ==
    /\ Len(requests) < MaxRequests
    /\ \E c \in Callers :
          requests' = Append(requests,
              Onward([ids |-> c, charges |-> <<>>, reading |-> Unread, verdict |-> "none"]))
    /\ UNCHANGED <<time, buckets, late>>

Bucket(r) == LET i == NextDue(requests[r]) IN <<i, Ids(r)[i], Window(i, Reading(r))>>
Count(r) == IF Bucket(r) \in DOMAIN buckets THEN buckets[Bucket(r)] + 1 ELSE 1

Old(b) == b[3] * Rules[b[1]].window + Retain < time

(* INSERT ... ON CONFLICT DO UPDATE ... RETURNING count.  When it was the  *)
(* last, nothing but the verdict depends on when the answer arrives.       *)
Charge(r) ==
    LET charge == [rule |-> Bucket(r)[1], at |-> Reading(r), count |-> Count(r)]
        q == [requests[r] EXCEPT !.charges = Append(@, charge), !.reading = Unread]
    IN  /\ Reading(r) # Unread
        /\ buckets' = [b \in DOMAIN buckets \cup {Bucket(r)} |->
                          IF b = Bucket(r) THEN Count(r) ELSE buckets[b]]
        /\ requests' = [requests EXCEPT ![r] = IF Due(q) = {} THEN Onward(q) ELSE q]
        /\ late' = late \cup {b \in {Bucket(r)} \ DOMAIN buckets : Old(b)}
        /\ UNCHANGED time

(* The answer arrives, and the next rule's turn comes.                     *)
Resume(r) ==
    /\ Reading(r) = Unread /\ Verdict(r) = "none"
    /\ requests' = [requests EXCEPT ![r] = Onward(@)]
    /\ UNCHANGED <<time, buckets, late>>

(* Mutated form of CleanUp: a bucket goes while its window lasts.          *)
CleanUpInItsWindow ==
    \E b \in DOMAIN buckets :
        /\ b[3] * Rules[b[1]].window < time
        /\ buckets' = [c \in DOMAIN buckets \ {b} |-> buckets[c]]
        /\ UNCHANGED <<time, requests, late>>

(* The DELETE that one charge in a hundred sends, whenever it arrives.     *)
CleanUp ==
    /\ \E b \in DOMAIN buckets : Old(b)
    /\ buckets' = [b \in {c \in DOMAIN buckets : ~Old(c)} |-> buckets[b]]
    /\ UNCHANGED <<time, requests, late>>

Tick ==
    /\ time < MaxTime
    /\ time' = time + 1
    /\ UNCHANGED <<buckets, requests, late>>

Init == time = 0 /\ buckets = << >> /\ requests = <<>> /\ late = {}

Next ==
    \/ Arrive \/ CleanUp \/ Tick
    \/ \E r \in DOMAIN requests : Charge(r) \/ Resume(r)

Spec == Init /\ [][Next]_limiterVars

-----------------------------------------------------------------------------
TypeOK ==
    /\ time \in 0 .. MaxTime
    /\ \A r \in DOMAIN requests :
          /\ Ids(r) \in Callers /\ Reading(r) \in 0 .. Unread
          /\ Verdict(r) \in {"none", "passed", "refused"}

(* Who charged rule i for this identifier at one of these times.           *)
Charged(i, id, times) ==
    {r \in DOMAIN requests :
        \E k \in DOMAIN Charges(r) :
            Charges(r)[k].rule = i /\ Ids(r)[i] = id /\ Charges(r)[k].at \in times}

Passed(rs) == {r \in rs : Verdict(r) = "passed"}

AtMostTwice(i, id, t) ==
    Cardinality(Passed(Charged(i, id, t .. t + Rules[i].window - 1))) <= 2 * Rules[i].max

Restarted(i, id, t) == \E w \in {Window(i, t), Window(i, t) + 1} : <<i, id, w>> \in late

SameWindow(i, at) == {t \in 0 .. MaxTime : Window(i, t) = Window(i, at)}
OverTheLimit(i, id, at) == Cardinality(Charged(i, id, SameWindow(i, at))) > Rules[i].max

(* "Fixed-window counters permit up to 2x the nominal rate across a window *)
(* boundary": in no interval as long as a window do more pass, however     *)
(* requests and the clean-up interleave, unless the database got to a      *)
(* charge of one of its windows when that window had begun more than the   *)
(* hour ago and its bucket was gone: then it counts from 1 again.  And a   *)
(* request is refused only if more than the limit were counted in the      *)
(* window of a charge of its own, with no exception.                       *)
TwiceTheLimitAtMost ==
    /\ TypeOK
    /\ \A i \in DOMAIN Rules, r \in DOMAIN requests, t \in 0 .. MaxTime :
          Restarted(i, Ids(r)[i], t) \/ AtMostTwice(i, Ids(r)[i], t)
    /\ \A r \in DOMAIN requests : Verdict(r) = "refused" =>
          \E k \in DOMAIN Charges(r) :
              OverTheLimit(Charges(r)[k].rule, Ids(r)[Charges(r)[k].rule], Charges(r)[k].at)
=============================================================================
