----------------------------- MODULE PushRelay -----------------------------
(* Push hints in the blind relay (services/blind-relay): a device registers a *)
(* route, a trusted sender posts events for it, a queue carries each event to *)
(* consumePush, which asks the push provider and records the outcome.  The    *)
(* row of the event, the queue and the provider share no transaction; the     *)
(* queue delivers again until a message is acknowledged, MaxRetries times,    *)
(* and then moves it to the dead-letter queue.  It delivers at least once: a  *)
(* message may come again while a consumer has it, or after it has been       *)
(* acknowledged.  And a notification may have been sent although the provider *)
(* answered with a 5xx, or its answer was lost.                               *)
(*                                                                            *)
(* Handlers interleave at each awaited statement; one that fails or is        *)
(* stopped takes no further step (Gives up).  A route id names its account,   *)
(* so one account is modelled.  Retention removes no event that is under way: *)
(* an event row lives 24 hours, a message five retries of at most 5 minutes.  *)
EXTENDS Naturals, FiniteSets

CONSTANTS
    Devices, Routes, Events,
    Requests,      \* handlers that may be running at once
    Consumers,     \* invocations of consumePush
    MaxEndpoints,  \* destinations that devices register
    MaxRetries,    \* max_retries of the queue
    MaxFaults      \* how often the relay's own store fails a consumer, or the queue
                   \* delivers once too often

VARIABLES
    devices,    \* devices[d]: the row of device d
    routes,     \* routes[r]: the row of push route r
    endpoints,  \* destinations handed out so far
    gone,       \* destinations the provider no longer knows
    events,     \* events[e]: delivery_state of the row of event e
    target,     \* target[e]: the route e was posted for
    queue,      \* queue[e]: where the message of e is
    attempts,   \* attempts[e]: deliveries of it that failed
    req,        \* req[q]: a running handler
    push,       \* push[c]: the message a consumer works on
    pushes,     \* pushes[e]: notifications sent for e, up to two
    answered,   \* events whose sender got 202
    skipped,    \* events whose message met a route that was off
    unsure,     \* events whose notification may have been sent without the relay
                \* knowing, or whose message was delivered once too often
    late,       \* routes registered by a device that was revoked meanwhile
    faults

vars == <<devices, routes, endpoints, gone, events, target, queue, attempts, req,
          push, pushes, answered, skipped, unsure, late, faults>>
eventVars == <<events, target, queue, attempts, push, pushes, answered, skipped, unsure,
               faults>>
routeVars == <<devices, routes, endpoints, gone, late>>

Nobody == "nobody"
NoRoute == [by |-> Nobody, endpoint |-> 0, on |-> FALSE]
NoReq == [pc |-> "idle", device |-> Nobody, route |-> Nobody, event |-> Nobody]
NoPush == [pc |-> "idle", event |-> Nobody, endpoint |-> 0]

TypeOK ==
    /\ devices \in [Devices -> {"none", "approved", "revoking", "revoked"}]
    /\ routes \in [Routes -> [by : Devices \cup {Nobody}, endpoint : 0..MaxEndpoints,
                              on : BOOLEAN]]
    /\ endpoints \in 0..MaxEndpoints /\ gone \subseteq 1..endpoints
    /\ events \in [Events -> {"none", "queued", "delivered", "failed"}]
    /\ target \in [Events -> Routes \cup {Nobody}]
    /\ queue \in [Events -> {"none", "ready", "taken", "dead"}]
    /\ attempts \in [Events -> 0..MaxRetries]
    /\ req \in [Requests -> [pc : {"idle", "register", "insert", "send", "cleanup"},
                             device : Devices \cup {Nobody},
                             route : Routes \cup {Nobody},
                             event : Events \cup {Nobody}]]
    /\ push \in [Consumers -> [pc : {"idle", "dispatch", "accepted", "refused"},
                               event : Events \cup {Nobody},
                               endpoint : 0..MaxEndpoints]]
    /\ pushes \in [Events -> 0..2]
    /\ answered \subseteq Events /\ skipped \subseteq Events /\ unsure \subseteq Events
    /\ late \subseteq Routes
    /\ faults \in 0..MaxFaults

\* The devices are linked (module DeviceRegistry); nothing else has happened.
Init ==
    /\ devices = [d \in Devices |-> "approved"]
    /\ routes = [r \in Routes |-> NoRoute]
    /\ endpoints = 0 /\ gone = {}
    /\ events = [e \in Events |-> "none"]
    /\ target = [e \in Events |-> Nobody]
    /\ queue = [e \in Events |-> "none"]
    /\ attempts = [e \in Events |-> 0]
    /\ req = [q \in Requests |-> NoReq]
    /\ push = [c \in Consumers |-> NoPush]
    /\ pushes = [e \in Events |-> 0]
    /\ answered = {} /\ skipped = {} /\ unsure = {} /\ late = {}
    /\ faults = 0

At(q, pc) == req[q].pc = pc
Ends(q) == req' = [req EXCEPT ![q] = NoReq]
Starts(q, r) == At(q, "idle") /\ req' = [req EXCEPT ![q] = r]

-----------------------------------------------------------------------------
(* Routes and devices *)

\* The device is verified, then the route is written.
RegisterArrives(q, d, r) ==
    /\ devices[d] = "approved" /\ endpoints < MaxEndpoints
    /\ Starts(q, [NoReq EXCEPT !.pc = "register", !.device = d, !.route = r])
    /\ UNCHANGED <<routeVars, eventVars>>

\* A new row, or a new destination for the device's own; any other row is a 409.
\* A route that was off is on again.
Register(q) ==
    /\ At(q, "register")
    /\ LET d == req[q].device
           r == req[q].route
       IN  IF routes[r].by \in {Nobody, d} /\ devices[d] # "none" /\ endpoints < MaxEndpoints
           THEN /\ endpoints' = endpoints + 1
                /\ routes' = [routes EXCEPT ![r] =
                       [by |-> d, endpoint |-> endpoints + 1, on |-> TRUE]]
                /\ late' = IF devices[d] = "approved" THEN late \ {r} ELSE late \cup {r}
           ELSE UNCHANGED <<endpoints, routes, late>>
    /\ Ends(q)
    /\ UNCHANGED <<devices, gone, eventVars>>

\* Revocation is two statements: the device, then its routes.
Revoke(q, d) ==
    /\ devices[d] = "approved"
    /\ Cardinality({x \in Devices : devices[x] = "approved"}) > 1
    /\ devices' = [devices EXCEPT ![d] = "revoking"]
    /\ Starts(q, [NoReq EXCEPT !.pc = "cleanup", !.device = d])
    /\ UNCHANGED <<routes, endpoints, gone, late, eventVars>>

CleansUp(q, off) ==
    /\ At(q, "cleanup")
    /\ routes' = [r \in Routes |-> IF r \in off THEN [routes[r] EXCEPT !.on = FALSE]
                                   ELSE routes[r]]
    /\ devices' = [devices EXCEPT ![req[q].device] =
                      IF @ = "revoking" THEN "revoked" ELSE @]
    /\ Ends(q)
    /\ UNCHANGED <<endpoints, gone, late, eventVars>>

\* Mutant of CleanUp: the routes of the device stay on.
MutantKeepsRoutes(q) == CleansUp(q, {})

CleanUp(q) == CleansUp(q, {r \in Routes : routes[r].by = req[q].device})

\* The account goes with its devices, routes and events.
DeleteAccount ==
    /\ \E d \in Devices : devices[d] = "approved"
    /\ devices' = [d \in Devices |-> "none"]
    /\ routes' = [r \in Routes |-> NoRoute]
    /\ events' = [e \in Events |-> "none"]
    /\ UNCHANGED <<endpoints, gone, late, target, queue, attempts, req, push, pushes,
                   answered, skipped, unsure, faults>>

-----------------------------------------------------------------------------
(* Events *)

\* The route must be there and on.
EventArrives(q, e, r) ==
    /\ routes[r].on
    /\ Starts(q, [NoReq EXCEPT !.pc = "insert", !.route = r, !.event = e])
    /\ UNCHANGED <<routeVars, eventVars>>

Inserts(q, fresh) ==
    /\ At(q, "insert")
    /\ LET e == req[q].event
       IN  IF fresh /\ routes[req[q].route].by # Nobody
           THEN /\ events' = [events EXCEPT ![e] = "queued"]
                /\ target' = [target EXCEPT ![e] = req[q].route]
                /\ req' = [req EXCEPT ![q].pc = "send"]
           ELSE Ends(q) /\ UNCHANGED <<events, target>>
    /\ UNCHANGED <<routeVars, queue, attempts, push, pushes, answered, skipped, unsure,
                   faults>>

\* Mutant of InsertEvent: an id that is known is taken for new once settled.
MutantAcceptsAgain(q) == Inserts(q, events[req[q].event] # "queued")

\* An event id is accepted once ("duplicate event"); without its route it fails.
InsertEvent(q) == Inserts(q, events[req[q].event] = "none")

\* The message is sent and the sender gets 202.  An id whose row retention has
\* removed may come a second time and counts as new.
SendToQueue(q) ==
    /\ At(q, "send")
    /\ LET e == req[q].event
       IN  /\ queue' = [queue EXCEPT ![e] = "ready"]
           /\ attempts' = [attempts EXCEPT ![e] = 0]
           /\ answered' = answered \cup {e}
           /\ skipped' = skipped \ {e}
    /\ Ends(q)
    /\ UNCHANGED <<routeVars, events, target, push, pushes, unsure, faults>>

\* The queue refuses the message: the sender gets 500, the row stays.
SendFails(q) ==
    /\ At(q, "send") /\ faults < MaxFaults
    /\ faults' = faults + 1
    /\ Ends(q)
    /\ UNCHANGED <<routeVars, events, target, queue, attempts, push, pushes, answered,
                   skipped, unsure>>

-----------------------------------------------------------------------------
(* consumePush *)

\* A message is delivered and the route of its event is read; when it is off or
\* gone the message is acknowledged and nothing is recorded.
Take(c, e) ==
    /\ queue[e] = "ready" /\ push[c] = NoPush
    /\ LET row == routes[target[e]]
       IN  IF row.on
           THEN /\ push' = [push EXCEPT ![c] = [pc |-> "dispatch", event |-> e,
                                                endpoint |-> row.endpoint]]
                /\ queue' = [queue EXCEPT ![e] = "taken"]
                /\ UNCHANGED skipped
           ELSE /\ queue' = [queue EXCEPT ![e] = "none"]
                /\ skipped' = skipped \cup {e}
                /\ UNCHANGED push
    /\ UNCHANGED <<routeVars, events, target, attempts, req, pushes, answered, unsure,
                   faults>>

\* The queue delivers a message once too often.
Redelivers(e) ==
    /\ faults < MaxFaults
    /\ queue[e] = "taken" \/ (queue[e] = "none" /\ e \in answered)
    /\ faults' = faults + 1
    /\ queue' = [queue EXCEPT ![e] = "ready"]
    /\ unsure' = unsure \cup {e}
    /\ UNCHANGED <<routeVars, events, target, attempts, req, push, pushes, answered, skipped>>

Retry(c) ==
    LET e == push[c].event
    IN  /\ IF attempts[e] < MaxRetries
           THEN /\ queue' = [queue EXCEPT ![e] = "ready"]
                /\ attempts' = [attempts EXCEPT ![e] = @ + 1]
           ELSE queue' = [queue EXCEPT ![e] = "dead"] /\ UNCHANGED attempts
        /\ push' = [push EXCEPT ![c] = NoPush]

\* The provider takes a notification for a destination it knows,
Notifies(c) ==
    /\ push[c].pc = "dispatch" /\ push[c].endpoint \notin gone
    /\ pushes' = [pushes EXCEPT ![push[c].event] = IF @ = 2 THEN 2 ELSE @ + 1]

\* and says so (2xx),
ProviderAccepts(c) ==
    /\ Notifies(c)
    /\ push' = [push EXCEPT ![c].pc = "accepted"]
    /\ UNCHANGED <<routeVars, events, target, queue, attempts, req, answered, skipped,
                   unsure, faults>>

\* or its answer is lost, or another than that: the message is retried.
AnswerLost(c) ==
    /\ Notifies(c)
    /\ Retry(c)
    /\ unsure' = unsure \cup {push[c].event}
    /\ UNCHANGED <<routeVars, events, target, req, answered, skipped, faults>>

\* It refuses a destination it does not know (404, 410).
ProviderRefuses(c) ==
    /\ push[c].pc = "dispatch" /\ push[c].endpoint \in gone
    /\ push' = [push EXCEPT ![c].pc = "refused"]
    /\ UNCHANGED <<routeVars, events, target, queue, attempts, req, pushes, answered,
                   skipped, unsure, faults>>

\* It sends nothing and answers otherwise, or cannot be asked.
ProviderFails(c) ==
    /\ push[c].pc = "dispatch"
    /\ Retry(c)
    /\ UNCHANGED <<routeVars, events, target, req, pushes, answered, skipped, unsure, faults>>

Settle(c, state) ==
    /\ events' = [events EXCEPT ![push[c].event] = IF @ = "none" THEN @ ELSE state]
    /\ queue' = [queue EXCEPT ![push[c].event] = "none"]
    /\ push' = [push EXCEPT ![c] = NoPush]
    /\ UNCHANGED <<devices, endpoints, gone, late, target, attempts, req, pushes, answered,
                   skipped, unsure, faults>>

RecordDelivered(c) ==
    /\ push[c].pc = "accepted"
    /\ Settle(c, "delivered")
    /\ UNCHANGED routes

\* The route goes off, whatever destination it has by now.
RecordFailed(c) ==
    /\ push[c].pc = "refused"
    /\ Settle(c, "failed")
    /\ routes' = [routes EXCEPT ![target[push[c].event]].on = FALSE]

\* Mutant of StoreFails: the message is acknowledged all the same.
MutantAcknowledges(c) ==
    /\ push[c] # NoPush /\ faults < MaxFaults
    /\ faults' = faults + 1
    /\ queue' = [queue EXCEPT ![push[c].event] = "none"]
    /\ push' = [push EXCEPT ![c] = NoPush]
    /\ UNCHANGED <<routeVars, events, target, attempts, req, pushes, answered, skipped, unsure>>

\* The store fails, or the Worker is stopped: the message is delivered again.
StoreFails(c) ==
    /\ push[c] # NoPush /\ faults < MaxFaults
    /\ faults' = faults + 1
    /\ Retry(c)
    /\ unsure' = IF push[c].pc = "accepted" THEN unsure \cup {push[c].event} ELSE unsure
    /\ UNCHANGED <<routeVars, events, target, req, pushes, answered, skipped>>

-----------------------------------------------------------------------------
(* The hourly task, and the world *)

UnderWay(e) ==
    \/ queue[e] \in {"ready", "taken"}
    \/ \E q \in Requests : At(q, "send") /\ req[q].event = e
    \/ \E c \in Consumers : push[c].pc # "idle" /\ push[c].event = e

\* Expired events are deleted, routes that were inactive go off.
Retention(old, idle) ==
    /\ old # {} \/ idle # {}
    /\ \A e \in old : events[e] # "none" /\ ~UnderWay(e)
    /\ \A r \in idle : routes[r].on
    /\ events' = [e \in Events |-> IF e \in old THEN "none" ELSE events[e]]
    /\ pushes' = [e \in Events |-> IF e \in old THEN 0 ELSE pushes[e]]
    /\ answered' = answered \ old
    /\ unsure' = unsure \ old
    /\ routes' = [r \in Routes |-> IF r \in idle THEN [routes[r] EXCEPT !.on = FALSE]
                                   ELSE routes[r]]
    /\ UNCHANGED <<devices, endpoints, gone, late, target, queue, attempts, req, push,
                   skipped, faults>>

\* An application is removed: the provider forgets its destination.
EndpointGoes(n) ==
    /\ n <= endpoints
    /\ gone' = gone \cup {n}
    /\ UNCHANGED <<devices, routes, endpoints, late, req, eventVars>>

-----------------------------------------------------------------------------
Handle(q) ==
    \/ \E d \in Devices, r \in Routes : RegisterArrives(q, d, r)
    \/ \E d \in Devices : Revoke(q, d)
    \/ \E e \in Events, r \in Routes : EventArrives(q, e, r)
    \/ Register(q) \/ CleanUp(q) \/ InsertEvent(q) \/ SendToQueue(q) \/ SendFails(q)

Consume(c) ==
    \/ \E e \in Events : Take(c, e)
    \/ ProviderAccepts(c) \/ AnswerLost(c) \/ ProviderRefuses(c) \/ ProviderFails(c)
    \/ RecordDelivered(c) \/ RecordFailed(c) \/ StoreFails(c)

Next ==
    \/ \E q \in Requests : Handle(q)
    \/ \E c \in Consumers : Consume(c)
    \/ DeleteAccount
    \/ \E e \in Events : Redelivers(e)
    \/ \E old \in SUBSET Events, idle \in SUBSET Routes : Retention(old, idle)
    \/ \E n \in 1..MaxEndpoints : EndpointGoes(n)

Spec == Init /\ [][Next]_vars

-----------------------------------------------------------------------------
(* Properties *)

\* A hint the sender got 202 for is in the queue or the dead-letter queue until
\* its outcome is recorded, its row is gone or its route was found off: no
\* failure between the provider, the store and the queue loses it.
HintKept ==
    \A e \in answered :
        queue[e] # "none" \/ events[e] # "queued" \/ e \in skipped

\* The device is notified twice of one event only when the relay did not learn of the
\* first notification (its answer was lost or a 5xx, or the store failed before it was
\* recorded), or the queue delivered the message once too often: neither a repeated post
\* nor a retry after an answer that was recorded, or that refused, repeats a push.
NoDuplicatePush == \A e \in Events : pushes[e] = 2 => e \in unsure

\* Once a revocation has been answered the device has no route that is on; left
\* out is one whose registration had been verified before and ended after.
RevokedRoutesOff ==
    \A r \in Routes :
        routes[r].on /\ devices[routes[r].by] = "revoked" => r \in late

=============================================================================
