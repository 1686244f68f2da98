--------------------------- MODULE OutboxContract ---------------------------
(* What the durable outbox promises about its rows, seen from outside: the *)
(* stored record a later start of the application will read, the effects   *)
(* at the provider, and the flushes that have taken a row.                 *)
EXTENDS Naturals

CONSTANTS Rows, Flushers, NoRow

VARIABLES
    report,   \* report[r]: status of the stored record, "none" before there is one
    sent,     \* sent[r]: effects of r at the provider, counted up to two
    carries,  \* carries[f]: the row flush f has taken, NoRow if it has none
    step      \* step[f]: how far f is with it

Init ==
    /\ report = [r \in Rows |-> "none"]
    /\ sent = [r \in Rows |-> 0]
    /\ carries = [f \in Flushers |-> NoRow]
    /\ step = [f \in Flushers |-> "none"]

\* A record is queued when it is new, edited, or retried after a failure: not while
\* it is under way, done or cancelled.
Queue(r) ==
    /\ report[r] \in {"none", "pending", "failed"}
    /\ report' = [report EXCEPT ![r] = "pending"]
    /\ UNCHANGED <<sent, carries, step>>

\* Only a row that is not under way can be called off.
Cancel(r) ==
    /\ report[r] \in {"none", "pending", "failed"}
    /\ report' = [report EXCEPT ![r] = "cancelled"]
    /\ UNCHANGED <<sent, carries, step>>

\* A flush takes a queued record, or one that another flush or an earlier start of
\* the application has taken and not finished.
Take(f, r) ==
    /\ step[f] = "none" /\ report[r] \in {"pending", "inflight"}
    /\ report' = [report EXCEPT ![r] = "inflight"]
    /\ carries' = [carries EXCEPT ![f] = r]
    /\ step' = [step EXCEPT ![f] = "taken"]
    /\ UNCHANGED sent

\* One effect for each taking, behind its record.
Deliver(f) ==
    /\ step[f] = "taken"
    /\ sent' = [sent EXCEPT ![carries[f]] = IF @ = 2 THEN 2 ELSE @ + 1]
    /\ step' = [step EXCEPT ![f] = "gave"]
    /\ UNCHANGED <<report, carries>>

\* The flush has its outcome and can no longer send.
Close(f) ==
    /\ step[f] \in {"taken", "gave"}
    /\ step' = [step EXCEPT ![f] = "over"]
    /\ UNCHANGED <<report, sent, carries>>

\* It reports done for what was delivered, or failure, and lets the row go.
Settle(f) ==
    /\ step[f] = "over"
    /\ \/ sent[carries[f]] > 0 /\ report' = [report EXCEPT ![carries[f]] = "done"]
       \/ report' = [report EXCEPT ![carries[f]] = "failed"]
    /\ carries' = [carries EXCEPT ![f] = NoRow]
    /\ step' = [step EXCEPT ![f] = "none"]
    /\ UNCHANGED sent

\* The application stops: what was taken is let go without a report.
Stop ==
    /\ carries' = [f \in Flushers |-> NoRow]
    /\ step' = [f \in Flushers |-> "none"]
    /\ UNCHANGED <<report, sent>>

Next ==
    \/ \E r \in Rows : Queue(r) \/ Cancel(r)
    \/ \E f \in Flushers : \/ \E r \in Rows : Take(f, r)
                           \/ Deliver(f) \/ Close(f) \/ Settle(f)
    \/ Stop

Spec == Init /\ [][Next]_<<report, sent, carries, step>>
=============================================================================
