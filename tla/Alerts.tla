------------------------------- MODULE Alerts -------------------------------
(***************************************************************************)
(* Routing of security events to a webhook and a mailbox.  An event that   *)
(* is serious enough goes to every transport: at most MaxInFlight          *)
(* deliveries of each are under way, more are dropped, and mails beyond    *)
(* PerHour in a window are suppressed.  The next mail says how many were.  *)
(* Every drop and failure is counted, and noticed once a minute.           *)
(***************************************************************************)
EXTENDS Naturals, Sequences, FiniteSets, FiniteSetsExt, SequencesExt

CONSTANTS
    MaxInFlight,
    PerHour,     \* mails in a window
    Hour,        \* length of the window of mails
    Minute,      \* interval of notices
    MaxEvents,   \* bound on the events logged
    MaxClock     \* bound on the clock

AlertsAssumption ==
    /\ MaxInFlight \in Nat \ {0} /\ PerHour \in Nat \ {0} /\ Hour \in Nat \ {0}
    /\ MaxEvents \in Nat /\ MaxClock \in Nat /\ Hour <= MaxClock

Transports == {"webhook", "email"}
Outcomes == {"delivered", "rejected", "failed"}
Counters == Outcomes \cup {"dropped"}

VARIABLES
    settings,    \* transport -> "absent", "good" or "bad", "shared" -> "good" or "bad"
    clock,
    considered,  \* events accepted for routing
    counters,    \* transport -> counter -> Nat
    underway,    \* transport -> the suppressed counts its deliveries carry
    emailWindow, \* [startedAt, sent, suppressed]
    noticedAt,   \* <<transport, reason>> -> time of the last notice
    mailed,      \* the times at which the budget let a mail through
    suppressions \* [ever, told, lost]: mails suppressed, and what became of the count

alertVars == <<settings, clock, considered, counters, underway, emailWindow, noticedAt, mailed, suppressions>>
mailVars == <<emailWindow, mailed>>

Unset == [t \in Transports \cup {"shared"} |-> "absent"]

(* One unusable setting disables routing entirely.                         *)
Wanted == {t \in Transports : settings[t] # "absent"}
Config ==
    IF settings["shared"] = "bad" \/ \E t \in Wanted : settings[t] = "bad" THEN {} ELSE Wanted

(* At most one notice a minute of one reason on one transport.             *)
Notice(keys) ==
    noticedAt' = [k \in DOMAIN noticedAt \cup keys |->
                     IF k \in keys /\ (k \in DOMAIN noticedAt => clock >= noticedAt[k] + Minute)
                     THEN clock ELSE noticedAt[k]]

-----------------------------------------------------------------------------
Full(t) == Len(underway[t]) >= MaxInFlight

(* Mutated form of Rolled: a new window forgets what the old suppressed.   *)
RolledForgetting ==
    IF clock >= emailWindow.startedAt + Hour
    THEN [startedAt |-> clock, sent |-> 0, suppressed |-> 0] ELSE emailWindow

Rolled ==
    IF clock >= emailWindow.startedAt + Hour
    THEN [emailWindow EXCEPT !.startedAt = clock, !.sent = 0] ELSE emailWindow

(* The budget is asked only for a mail that fits in flight.                *)
AsksBudget == "email" \in Config /\ ~Full("email")
Suppresses == AsksBudget /\ Rolled.sent >= PerHour
Mails == AsksBudget /\ ~Suppresses

Budget ==
    /\ emailWindow' = IF Mails THEN [Rolled EXCEPT !.sent = @ + 1, !.suppressed = 0]
                      ELSE IF Suppresses THEN [Rolled EXCEPT !.suppressed = @ + 1]
                      ELSE emailWindow
    /\ mailed' = IF Mails THEN Append(mailed, clock) ELSE mailed
    /\ suppressions' = IF Suppresses THEN [suppressions EXCEPT !.ever = @ + 1] ELSE suppressions

(* An event at or above the minimum level goes to both transports, each    *)
(* with a ceiling of its own.                                              *)
Route ==
    LET full == {t \in Config : Full(t)}
        dropped == full \cup (IF Suppresses THEN {"email"} ELSE {})
    IN  /\ Config # {} /\ considered < MaxEvents
        /\ considered' = considered + 1
        /\ counters' = [t \in Transports |->
                            [counters[t] EXCEPT !.dropped = @ + IF t \in dropped THEN 1 ELSE 0]]
        /\ underway' = [t \in Transports |->
                            IF t \in Config \ dropped
                            THEN Append(underway[t], IF t = "email" THEN Rolled.suppressed ELSE 0)
                            ELSE underway[t]]
        /\ Budget
        /\ Notice({<<t, "in_flight_ceiling">> : t \in full}
                  \cup (IF Suppresses THEN {<<"email", "email_rate_ceiling">>} ELSE {}))
        /\ UNCHANGED <<settings, clock>>

(* What the subject of a mail says: how many did not go out before it.     *)
Told(t, i) == underway[t][i]

(* A delivery ends with an answer, or is refused or reset.                 *)
End(t, i, outcome) ==
    /\ underway' = [underway EXCEPT ![t] = RemoveAt(@, i)]
    /\ counters' = [counters EXCEPT ![t][outcome] = @ + 1]
    /\ suppressions' =
          IF outcome = "delivered" THEN [suppressions EXCEPT !.told = @ + Told(t, i)]
          ELSE [suppressions EXCEPT !.lost = @ + Told(t, i)]
    /\ Notice(IF outcome = "delivered" THEN {} ELSE {<<t, outcome>>})
    /\ UNCHANGED <<settings, clock, considered, mailVars>>

Deliver(t) == \E i \in DOMAIN underway[t], outcome \in Outcomes : End(t, i, outcome)

(* Mutated form of Timeout: only the webhook's deliveries have one.        *)
TimeoutOfWebhook(t) == t = "webhook" /\ underway[t] # <<>> /\ End(t, 1, "failed")

Timeout(t) == underway[t] # <<>> /\ End(t, 1, "failed")

Tick ==
    /\ clock < MaxClock /\ clock' = clock + 1
    /\ UNCHANGED <<settings, considered, counters, underway, noticedAt, suppressions, mailVars>>

(* What the operator has set, read with the first event.                   *)
Configure ==
    /\ settings = Unset
    /\ \E s \in [Transports \cup {"shared"} -> {"absent", "good", "bad"}] :
          s["shared"] # "absent" /\ settings' = s
    /\ UNCHANGED <<clock, considered, counters, underway, noticedAt, suppressions, mailVars>>

(* No window is open when the process starts.                              *)
Init ==
    /\ settings = Unset
    /\ clock = Hour /\ considered = 0
    /\ counters = [t \in Transports |-> [c \in Counters |-> 0]]
    /\ underway = [t \in Transports |-> <<>>]
    /\ emailWindow = [startedAt |-> 0, sent |-> 0, suppressed |-> 0]
    /\ noticedAt = << >> /\ mailed = <<>>
    /\ suppressions = [ever |-> 0, told |-> 0, lost |-> 0]

Next ==
    \/ Configure \/ Route \/ Tick
    \/ \E t \in Transports : Deliver(t) \/ Timeout(t)

(* AbortSignal.timeout and the deadline of sendMail fire.                  *)
Spec == Init /\ [][Next]_alertVars /\ \A t \in Transports : WF_alertVars(Timeout(t))

-----------------------------------------------------------------------------
TypeOK ==
    /\ considered \in 0 .. MaxEvents /\ clock \in Hour .. MaxClock
    /\ \A t \in Transports : Len(underway[t]) <= MaxInFlight
    /\ emailWindow.sent \in 0 .. PerHour

(* Each transport accounts for every event: it was delivered, rejected,    *)
(* failed or dropped, or is still in flight.  A mailbox gets no more than  *)
(* twice the hourly ceiling in any hour, and the count of what was         *)
(* suppressed rides on one mail or waits for one: it goes astray only with *)
(* a mail that does.                                                       *)
AlertsAreAccounted ==
    /\ TypeOK
    /\ \A t \in Config :
          considered = Len(underway[t]) + MapThenSumSet(LAMBDA c : counters[t][c], Counters)
    /\ \A t \in Transports \ Config : underway[t] = <<>> /\ \A c \in Counters : counters[t][c] = 0
    /\ \A h \in Hour .. MaxClock :
          Cardinality({i \in DOMAIN mailed : mailed[i] \in h .. h + Hour - 1}) <= 2 * PerHour
    /\ suppressions.ever = emailWindow.suppressed + suppressions.told + suppressions.lost
                            + FoldSeq(LAMBDA x, y : x + y, 0, underway["email"])

Clogged == \E t \in Transports : Full(t)

(* A destination that hangs gives its slots back.                          *)
SlotsReturn == Clogged ~> ~Clogged
=============================================================================
