--------------------------- MODULE PushRelayProofs ---------------------------
(* For any number of devices, routes, events, handlers, consumers and faults: *)
(* a revoked device has no route that is on, an answered hint is not lost and *)
(* an event is pushed twice only after an outcome that the relay did not      *)
(* learn of or a message delivered once too often (module PushRelay).         *)
EXTENDS PushRelay, TLAPS

Sized == MaxEndpoints \in Nat /\ MaxRetries \in Nat /\ MaxFaults \in Nat

Req == [pc : {"idle", "register", "insert", "send", "cleanup"},
        device : Devices \cup {Nobody}, route : Routes \cup {Nobody},
        event : Events \cup {Nobody}]
Push == [pc : {"idle", "dispatch", "accepted", "refused"}, event : Events \cup {Nobody},
         endpoint : 0..MaxEndpoints]

Sends(q, e) == req[q].pc = "send" /\ req[q].event = e
Carries(c, e) == push[c].pc # "idle" /\ push[c].event = e
Deleted == \E d \in Devices : devices[d] = "none"

\* What a handler and a consumer keep between two statements.
HandlerShape ==
    /\ \A q \in Requests :
          /\ req[q].pc \in {"register", "cleanup"} => req[q].device \in Devices
          /\ req[q].pc \in {"register", "insert"} => req[q].route \in Routes
          /\ req[q].pc \in {"insert", "send"} => req[q].event \in Events
    /\ \A c \in Consumers :
          IF push[c].pc = "idle" THEN push[c] = NoPush ELSE push[c].event \in Events

\* A route that is on is the route of a device.
RoutesOwned == \A r \in Routes : routes[r].on => routes[r].by \in Devices

\* An account is deleted with all its devices and routes, and there is no way back.
DeletedForAll ==
    Deleted => /\ \A d \in Devices : devices[d] = "none"
               /\ \A r \in Routes : routes[r].by = Nobody

\* An event that is being sent, queued or carried has its row and its route.
RowWhileUnderWay ==
    \A e \in Events : UnderWay(e) => /\ events[e] # "none" \/ Deleted
                                     /\ target[e] \in Routes

\* So has one that was answered.
RowWhileAnswered ==
    \A e \in answered : (events[e] # "none" \/ Deleted) /\ target[e] \in Routes

\* There is one message of an event: with one handler, in the queue, or, unless it was
\* delivered once too often, with one consumer.
OneMessage ==
    /\ \A q \in Requests, e \in Events : Sends(q, e) =>
          /\ queue[e] \notin {"ready", "taken"} /\ e \notin answered
          /\ \A p \in Requests \ {q} : ~Sends(p, e)
          /\ \A c \in Consumers : ~Carries(c, e)
    /\ \A c \in Consumers, e \in Events \ unsure : Carries(c, e) =>
          /\ queue[e] = "taken"
          /\ \A b \in Consumers \ {c} : ~Carries(b, e)

\* As long as the relay knows what became of it, an event that was pushed is with the
\* consumer that will record it, or over: nothing leads to another push.
PushedIsOver ==
    \A e \in Events \ unsure : pushes[e] # 0 =>
        /\ pushes[e] = 1 /\ queue[e] # "ready"
        /\ events[e] # "none" \/ Deleted
        /\ \A q \in Requests : ~Sends(q, e)
        /\ \A c \in Consumers : Carries(c, e) => push[c].pc = "accepted"

\* The inductive invariant.  None of the three properties is inductive alone: a push
\* can be the second one unless the message of an event is the only one, and it is the
\* only one because its row outlives it.
IInv ==
    /\ TypeOK /\ HandlerShape /\ RoutesOwned /\ DeletedForAll
    /\ RowWhileUnderWay /\ RowWhileAnswered /\ OneMessage /\ PushedIsOver
    /\ HintKept /\ RevokedRoutesOff

RouteInv == RoutesOwned /\ DeletedForAll /\ RevokedRoutesOff
EventInv == RowWhileUnderWay /\ RowWhileAnswered /\ OneMessage /\ PushedIsOver /\ HintKept

-----------------------------------------------------------------------------
(* What an action leaves of the invariant.                                    *)

\* The linked devices and nothing else.
LEMMA InitIInv == Sized /\ Init => IInv
<1> SUFFICES ASSUME Sized, Init PROVE IInv
  OBVIOUS
<1>1. NoRoute \in [by : Devices \cup {Nobody}, endpoint : 0..MaxEndpoints, on : BOOLEAN]
      /\ ~NoRoute.on /\ NoRoute.by = Nobody
  BY DEF Sized, NoRoute
<1>2. NoReq \in Req /\ NoReq.pc = "idle"
  BY DEF NoReq, Req
<1>3. NoPush \in Push /\ NoPush.pc = "idle"
  BY DEF Sized, NoPush, Push
<1>4. TypeOK
  BY <1>1, <1>2, <1>3 DEF Sized, Init, TypeOK, Req, Push
<1>5. HandlerShape
  BY <1>2, <1>3 DEF Init, HandlerShape
<1>6. RouteInv
  BY <1>1 DEF Init, RouteInv, RoutesOwned, DeletedForAll, Deleted, RevokedRoutesOff
<1>7. EventInv
  BY <1>2, <1>3 DEF Init, EventInv, RowWhileUnderWay, UnderWay, At, RowWhileAnswered,
     OneMessage, Sends, Carries, PushedIsOver, HintKept
<1> QED BY <1>4, <1>5, <1>6, <1>7 DEF IInv, RouteInv, EventInv

\* Where the message of an event may be.
Somewhere ==
    \A e : UnderWay(e) <=>
        \/ queue[e] \in {"ready", "taken"}
        \/ \E q \in Requests : Sends(q, e)
        \/ \E c \in Consumers : Carries(c, e)

LEMMA UnderWayMeans == Somewhere
BY DEF Somewhere, UnderWay, At, Sends, Carries

LEMMA UnderWayNext == Somewhere'
BY UnderWayMeans, PTL

\* A handler that is started or ends.
LEMMA HandlerMoves ==
    ASSUME TypeOK, NEW q \in Requests, NEW r \in Req, req' = [req EXCEPT ![q] = r]
    PROVE  /\ req' \in [Requests -> Req] /\ req'[q] = r
           /\ \A p \in Requests : p # q => req'[p] = req[p]
BY DEF TypeOK, Req

\* A consumer that takes up a message or puts it down.
LEMMA ConsumerMoves ==
    ASSUME TypeOK, NEW c \in Consumers, NEW m \in Push, push' = [push EXCEPT ![c] = m]
    PROVE  /\ push' \in [Consumers -> Push] /\ push'[c] = m
           /\ \A b \in Consumers : b # c => push'[b] = push[b]
BY DEF TypeOK, Push

\* The idle handler and the idle consumer.
LEMMA Idle == Sized => /\ NoReq \in Req /\ NoReq.pc = "idle"
                       /\ NoPush \in Push /\ NoPush.pc = "idle"
BY DEF Sized, NoReq, Req, NoPush, Push

\* Routes that at most go off keep what holds of routes.
LEMMA RouteFrame ==
    ASSUME IInv, UNCHANGED <<devices, late>>,
           \A r \in Routes : routes'[r].by = routes[r].by /\ (routes'[r].on => routes[r].on)
    PROVE  RouteInv'
BY DEF IInv, RouteInv, RoutesOwned, DeletedForAll, Deleted, RevokedRoutesOff

\* What holds of events does not depend on handlers that send nothing.
LEMMA EventFrame ==
    ASSUME IInv, UNCHANGED eventVars, Deleted => Deleted',
           \A q \in Requests, e \in Events : Sends(q, e)' => Sends(q, e)
    PROVE  EventInv'
<1>1. UNCHANGED <<events, target, queue, attempts, push, pushes, answered, skipped, unsure,
                  faults>>
  BY DEF eventVars
<1>2. \A e \in Events : UnderWay(e)' => UnderWay(e)
  BY <1>1 DEF UnderWay, Sends, At, Carries
<1>3. \A c, e : Carries(c, e)' = Carries(c, e)
  BY <1>1 DEF Carries
<1>4. RowWhileUnderWay' /\ RowWhileAnswered' /\ HintKept'
  BY <1>1, <1>2 DEF IInv, TypeOK, RowWhileUnderWay, RowWhileAnswered, HintKept
<1>5. OneMessage' /\ PushedIsOver'
  BY <1>1, <1>3 DEF IInv, OneMessage, PushedIsOver
<1> QED BY <1>4, <1>5 DEF EventInv

-----------------------------------------------------------------------------
(* Routes and devices.                                                        *)

\* A handler that has verified a device or a route keeps what it will write.
LEMMA ArrivesStep ==
    ASSUME IInv, Sized, NEW q \in Requests,
           \/ \E d \in Devices, r \in Routes : RegisterArrives(q, d, r)
           \/ \E e \in Events, r \in Routes : EventArrives(q, e, r)
    PROVE  IInv'
<1>1. PICK x \in Req : /\ req' = [req EXCEPT ![q] = x] /\ x.pc \in {"register", "insert"}
                       /\ x.pc = "register" => x.device \in Devices
                       /\ x.route \in Routes
                       /\ x.pc = "insert" => x.event \in Events
  <2>1. ASSUME NEW d \in Devices, NEW r \in Routes, RegisterArrives(q, d, r)
        PROVE  \E x \in Req : /\ req' = [req EXCEPT ![q] = x] /\ x.pc = "register"
                              /\ x.device \in Devices /\ x.route \in Routes
    <3> DEFINE x == [NoReq EXCEPT !.pc = "register", !.device = d, !.route = r]
    <3>1. x \in Req /\ x.pc = "register" /\ x.device = d /\ x.route = r
      BY Idle DEF Req
    <3>2. req' = [req EXCEPT ![q] = x]
      BY <2>1 DEF RegisterArrives, Starts
    <3> HIDE DEF x
    <3> QED BY <3>1, <3>2
  <2>2. ASSUME NEW e \in Events, NEW r \in Routes, EventArrives(q, e, r)
        PROVE  \E x \in Req : /\ req' = [req EXCEPT ![q] = x] /\ x.pc = "insert"
                              /\ x.event \in Events /\ x.route \in Routes
    <3> DEFINE x == [NoReq EXCEPT !.pc = "insert", !.route = r, !.event = e]
    <3>1. x \in Req /\ x.pc = "insert" /\ x.event = e /\ x.route = r
      BY Idle DEF Req
    <3>2. req' = [req EXCEPT ![q] = x]
      BY <2>2 DEF EventArrives, Starts
    <3> HIDE DEF x
    <3> QED BY <3>1, <3>2
  <2> QED BY <2>1, <2>2
<1>2. UNCHANGED <<routeVars, eventVars>>
  BY DEF RegisterArrives, EventArrives
<1>3. /\ req' \in [Requests -> Req] /\ req'[q] = x
      /\ \A p \in Requests : p # q => req'[p] = req[p]
  BY <1>1, HandlerMoves DEF IInv
<1>4. TypeOK'
  BY <1>2, <1>3 DEF IInv, TypeOK, routeVars, eventVars, Req
<1>5. HandlerShape'
  BY <1>1, <1>2, <1>3 DEF IInv, HandlerShape, eventVars
<1>6. RouteInv'
  BY <1>2, RouteFrame DEF routeVars
<1>7. EventInv'
  BY <1>1, <1>2, <1>3, EventFrame DEF Sends, Deleted, routeVars
<1> QED BY <1>4, <1>5, <1>6, <1>7 DEF IInv, RouteInv, EventInv

\* A handler that ends and leaves events alone.
LEMMA EndsFrame ==
    ASSUME IInv, Sized, NEW q \in Requests, Ends(q), UNCHANGED eventVars, Deleted => Deleted'
    PROVE  req' \in [Requests -> Req] /\ HandlerShape' /\ EventInv'
<1>1. /\ req' \in [Requests -> Req] /\ req'[q] = NoReq /\ NoReq.pc = "idle"
      /\ \A p \in Requests : p # q => req'[p] = req[p]
  BY Idle, HandlerMoves DEF IInv, Ends
<1>2. HandlerShape'
  BY <1>1 DEF IInv, HandlerShape, eventVars
<1>3. \A p \in Requests, e \in Events : Sends(p, e)' => Sends(p, e)
  BY <1>1 DEF Sends
<1> QED BY <1>1, <1>2, <1>3, EventFrame

\* A route is written for a device that has been verified; if the device has been
\* revoked meanwhile the route is a late one.
LEMMA RegisterStep ==
    ASSUME IInv, Sized, NEW q \in Requests, Register(q)
    PROVE  IInv'
<1> DEFINE d == req[q].device  r == req[q].route
           row == [by |-> d, endpoint |-> endpoints + 1, on |-> TRUE]
<1>1. /\ Ends(q) /\ UNCHANGED eventVars /\ UNCHANGED <<devices, gone>>
      /\ d \in Devices /\ r \in Routes
  BY DEF Register, At, IInv, HandlerShape
<1>2. req' \in [Requests -> Req] /\ HandlerShape' /\ EventInv'
  BY <1>1, EndsFrame DEF Deleted
<1>3. CASE UNCHANGED <<endpoints, routes, late>>
  <2>1. TypeOK'
    BY <1>1, <1>2, <1>3 DEF IInv, TypeOK, eventVars, Req
  <2>2. RouteInv'
    BY <1>1, <1>3, RouteFrame
  <2> QED BY <1>2, <2>1, <2>2 DEF IInv, RouteInv, EventInv
<1>4. CASE /\ routes[r].by \in {Nobody, d} /\ devices[d] # "none" /\ endpoints < MaxEndpoints
           /\ endpoints' = endpoints + 1
           /\ routes' = [routes EXCEPT ![r] = row]
           /\ late' = IF devices[d] = "approved" THEN late \ {r} ELSE late \cup {r}
  <2>1. endpoints' \in 1..MaxEndpoints /\ endpoints' = endpoints + 1
        /\ gone' \subseteq 1..endpoints'
    BY <1>1, <1>4 DEF IInv, TypeOK, Sized
  <2>2. /\ row \in [by : Devices \cup {Nobody}, endpoint : 0..MaxEndpoints, on : BOOLEAN]
        /\ row.by = d
    BY <1>1, <1>4, <2>1
  <2> HIDE DEF row
  <2>3. /\ routes' \in [Routes -> [by : Devices \cup {Nobody}, endpoint : 0..MaxEndpoints,
                                   on : BOOLEAN]]
        /\ routes'[r] = row
        /\ \A x \in Routes : x # r => routes'[x] = routes[x]
    BY <1>1, <1>4, <2>2 DEF IInv, TypeOK
  <2>4. TypeOK'
    BY <1>1, <1>2, <1>4, <2>1, <2>3 DEF IInv, TypeOK, eventVars, Req
  <2>5. RoutesOwned'
    BY <1>1, <2>2, <2>3 DEF IInv, RoutesOwned
  <2>6. DeletedForAll'
    BY <1>1, <1>4 DEF IInv, DeletedForAll, Deleted
  <2>7. RevokedRoutesOff'
    BY <1>1, <1>4, <2>2, <2>3 DEF IInv, RevokedRoutesOff
  <2> QED BY <1>2, <2>4, <2>5, <2>6, <2>7 DEF IInv, EventInv
<1> QED BY <1>3, <1>4 DEF Register

\* Between the statements of a revocation the device is not one that has been revoked.
LEMMA RevokeStep ==
    ASSUME IInv, Sized, NEW q \in Requests, NEW d \in Devices, Revoke(q, d)
    PROVE  IInv'
<1> DEFINE x == [NoReq EXCEPT !.pc = "cleanup", !.device = d]
<1>1. x \in Req /\ x.pc = "cleanup" /\ x.device = d
  BY Idle DEF Req
<1>2. req' = [req EXCEPT ![q] = x] /\ UNCHANGED <<routes, endpoints, gone, late, eventVars>>
      /\ devices[d] = "approved" /\ devices' = [devices EXCEPT ![d] = "revoking"]
  BY DEF Revoke, Starts
<1> HIDE DEF x
<1>3. /\ req' \in [Requests -> Req] /\ req'[q] = x
      /\ \A p \in Requests : p # q => req'[p] = req[p]
  BY <1>1, <1>2, HandlerMoves DEF IInv
<1>4. TypeOK'
  BY <1>2, <1>3 DEF IInv, TypeOK, eventVars, Req
<1>5. HandlerShape'
  BY <1>1, <1>2, <1>3 DEF IInv, HandlerShape, eventVars
<1>6. ~Deleted
  BY <1>2 DEF IInv, DeletedForAll
<1>7. RouteInv'
  BY <1>2, <1>6 DEF IInv, TypeOK, RouteInv, RoutesOwned, DeletedForAll, Deleted,
     RevokedRoutesOff
<1>8. EventInv'
  BY <1>1, <1>2, <1>3, <1>6, EventFrame DEF Sends
<1> QED BY <1>4, <1>5, <1>7, <1>8 DEF IInv, RouteInv, EventInv

\* The second statement: the routes the device has by then go off.
LEMMA CleanUpStep ==
    ASSUME IInv, Sized, NEW q \in Requests, CleanUp(q)
    PROVE  IInv'
<1> DEFINE d == req[q].device
<1>1. /\ Ends(q) /\ UNCHANGED <<endpoints, gone, late, eventVars>> /\ d \in Devices
  BY DEF CleanUp, CleansUp, At, IInv, HandlerShape
<1>2. /\ routes' \in [Routes -> [by : Devices \cup {Nobody}, endpoint : 0..MaxEndpoints,
                                 on : BOOLEAN]]
      /\ \A r \in Routes : /\ routes'[r].by = routes[r].by
                           /\ routes'[r].on => routes[r].on /\ routes[r].by # d
  <2>1. routes' = [r \in Routes |-> IF routes[r].by = d THEN [routes[r] EXCEPT !.on = FALSE]
                                    ELSE routes[r]]
    BY DEF CleanUp, CleansUp
  <2>2. ASSUME NEW r \in Routes
        PROVE  /\ routes'[r] \in [by : Devices \cup {Nobody}, endpoint : 0..MaxEndpoints,
                                   on : BOOLEAN]
               /\ routes'[r].by = routes[r].by
               /\ routes'[r].on => routes[r].on /\ routes[r].by # d
    <3>1. CASE routes[r].by = d
      <4>1. routes'[r] = [routes[r] EXCEPT !.on = FALSE]
        BY <2>1, <3>1
      <4>2. routes[r] \in [by : Devices \cup {Nobody}, endpoint : 0..MaxEndpoints,
                           on : BOOLEAN]
        BY DEF IInv, TypeOK
      <4> QED BY <4>1, <4>2
    <3>2. CASE routes[r].by # d
      <4>1. routes'[r] = routes[r]
        BY <2>1, <3>2
      <4> QED BY <3>2, <4>1 DEF IInv, TypeOK
    <3> QED BY <3>1, <3>2
  <2>3. routes' = [r \in Routes |-> routes'[r]]
    BY <2>1
  <2> HIDE DEF d
  <2> QED BY <2>2, <2>3
<1>3. /\ devices' \in [Devices -> {"none", "approved", "revoking", "revoked"}]
      /\ \A x \in Devices : /\ x # d => devices'[x] = devices[x]
                            /\ devices'[x] = "none" <=> devices[x] = "none"
  BY <1>1 DEF CleanUp, CleansUp, IInv, TypeOK
<1>4. req' \in [Requests -> Req] /\ HandlerShape' /\ EventInv'
  BY <1>1, <1>3, EndsFrame DEF Deleted
<1>5. TypeOK'
  BY <1>1, <1>2, <1>3, <1>4 DEF IInv, TypeOK, eventVars, Req
<1>6. RouteInv'
  BY <1>1, <1>2, <1>3 DEF IInv, RouteInv, RoutesOwned, DeletedForAll, Deleted,
     RevokedRoutesOff
<1> QED BY <1>4, <1>5, <1>6 DEF IInv, RouteInv, EventInv

\* With the account goes every row; what is under way finds none.
LEMMA DeleteStep ==
    ASSUME IInv, Sized, DeleteAccount
    PROVE  IInv'
<1>1. /\ \A d \in Devices : devices'[d] = "none"
      /\ devices' \in [Devices -> {"none", "approved", "revoking", "revoked"}]
      /\ Deleted'
  BY DEF DeleteAccount, Deleted
<1>2. /\ \A r \in Routes : routes'[r].by = Nobody /\ ~routes'[r].on
      /\ routes' \in [Routes -> [by : Devices \cup {Nobody}, endpoint : 0..MaxEndpoints,
                                 on : BOOLEAN]]
  BY DEF Sized, DeleteAccount, NoRoute
<1>3. /\ UNCHANGED <<endpoints, gone, late, target, queue, attempts, req, push, pushes,
                     answered, skipped, unsure, faults>>
      /\ events' = [e \in Events |-> "none"]
  BY DEF DeleteAccount
<1>4. TypeOK'
  BY <1>1, <1>2, <1>3 DEF IInv, TypeOK
<1>5. HandlerShape' /\ OneMessage'
  BY <1>3 DEF IInv, HandlerShape, OneMessage, Sends, Carries
<1>6. RouteInv'
  BY <1>1, <1>2 DEF RouteInv, RoutesOwned, DeletedForAll, RevokedRoutesOff
<1>7. RowWhileUnderWay' /\ RowWhileAnswered' /\ HintKept'
  <2>1. \A f \in Events : UnderWay(f)' <=> UnderWay(f)
    BY <1>3 DEF UnderWay, At
  <2> QED BY <1>1, <1>3, <2>1 DEF IInv, TypeOK, RowWhileUnderWay, RowWhileAnswered, HintKept
<1>8. PushedIsOver'
  BY <1>1, <1>3 DEF IInv, PushedIsOver, Sends, Carries
<1> QED BY <1>4, <1>5, <1>6, <1>7, <1>8 DEF IInv, RouteInv

\* The provider forgets a destination.
LEMMA GoneStep ==
    ASSUME IInv, Sized, NEW n \in 1..MaxEndpoints, EndpointGoes(n)
    PROVE  IInv'
<1>1. UNCHANGED <<devices, routes, endpoints, late, req, eventVars>>
      /\ gone' \subseteq 1..endpoints'
  BY DEF IInv, TypeOK, EndpointGoes
<1>2. TypeOK'
  BY <1>1 DEF IInv, TypeOK, eventVars
<1>3. HandlerShape' /\ RouteInv'
  BY <1>1, RouteFrame DEF IInv, HandlerShape, eventVars
<1>4. EventInv'
  BY <1>1, EventFrame DEF Deleted, Sends
<1> QED BY <1>2, <1>3, <1>4 DEF IInv, RouteInv, EventInv

-----------------------------------------------------------------------------
(* Events.                                                                    *)

\* A row is made for an event that has none and whose route is there, so there is no
\* message of it yet.
LEMMA InsertStep ==
    ASSUME IInv, Sized, NEW q \in Requests, InsertEvent(q)
    PROVE  IInv'
<1> DEFINE e == req[q].event  r == req[q].route
<1>1. /\ UNCHANGED <<routeVars, queue, attempts, push, pushes, answered, skipped, unsure,
                     faults>>
      /\ e \in Events /\ r \in Routes /\ req[q].pc = "insert"
  BY DEF InsertEvent, Inserts, At, IInv, HandlerShape
<1>2. CASE Ends(q) /\ UNCHANGED <<events, target>>
  <2>1. req' \in [Requests -> Req] /\ HandlerShape' /\ EventInv'
    BY <1>1, <1>2, EndsFrame DEF Deleted, routeVars, eventVars
  <2>2. TypeOK'
    BY <1>1, <1>2, <2>1 DEF IInv, TypeOK, routeVars, Req
  <2>3. RouteInv'
    BY <1>1, RouteFrame DEF routeVars
  <2> QED BY <2>1, <2>2, <2>3 DEF IInv, RouteInv, EventInv
<1>3. CASE /\ events[e] = "none" /\ routes[r].by # Nobody
           /\ events' = [events EXCEPT ![e] = "queued"]
           /\ target' = [target EXCEPT ![e] = r]
           /\ req' = [req EXCEPT ![q].pc = "send"]
  <2> DEFINE x == [req[q] EXCEPT !.pc = "send"]
  <2>1. /\ x \in Req /\ x.pc = "send" /\ x.event = e
        /\ req' = [req EXCEPT ![q] = x]
    BY SMTT(30), <1>1, <1>3 DEF IInv, TypeOK, Req
  <2> HIDE DEF x
  <2>2. /\ req' \in [Requests -> Req] /\ req'[q] = x
        /\ \A p \in Requests : p # q => req'[p] = req[p]
    BY <2>1, HandlerMoves DEF IInv
  <2> HIDE DEF e, r
  <2>3. /\ events' \in [Events -> {"none", "queued", "delivered", "failed"}]
        /\ target' \in [Events -> Routes \cup {Nobody}]
        /\ events'[e] = "queued" /\ target'[e] = r
        /\ \A f \in Events : f # e => events'[f] = events[f] /\ target'[f] = target[f]
    BY <1>1, <1>3 DEF IInv, TypeOK
  <2>4. TypeOK'
    BY <1>1, <2>2, <2>3 DEF IInv, TypeOK, routeVars, Req
  <2>5. HandlerShape'
    BY <1>1, <2>1, <2>2 DEF IInv, HandlerShape
  <2>6. RouteInv'
    BY <1>1, RouteFrame DEF routeVars
  <2>7. ~Deleted /\ (Deleted' <=> Deleted)
    BY <1>1, <1>3 DEF IInv, DeletedForAll, Deleted, routeVars
  <2>8. /\ \A p \in Requests, f \in Events :
              Sends(p, f)' <=> IF p = q THEN f = e ELSE Sends(p, f)
        /\ \A c \in Consumers, f \in Events : Carries(c, f)' <=> Carries(c, f)
    BY <1>1, <2>1, <2>2 DEF Sends, Carries
  <2>9. ~UnderWay(e) /\ e \notin answered /\ (e \notin unsure => pushes[e] = 0)
    BY <1>1, <1>3, <2>7 DEF IInv, RowWhileUnderWay, RowWhileAnswered, PushedIsOver
  <2>10. \A p \in Requests : ~Sends(p, e)
    BY <2>9 DEF UnderWay, Sends, At, Carries
  <2>11. RowWhileUnderWay'
    <3>1. \A f \in Events : f # e => (UnderWay(f)' <=> UnderWay(f))
      BY <1>1, <2>8 DEF UnderWay, At, Sends, Carries
    <3> QED BY <1>1, <2>3, <2>7, <3>1 DEF IInv, RowWhileUnderWay
  <2>12. RowWhileAnswered' /\ HintKept'
    BY <1>1, <2>3, <2>9 DEF IInv, TypeOK, RowWhileAnswered, HintKept, Deleted, routeVars
  <2>13. OneMessage'
    BY <1>1, <2>8, <2>9, <2>10, UnderWayMeans DEF Somewhere, IInv, OneMessage
  <2>14. PushedIsOver'
    BY <1>1, <2>3, <2>7, <2>8, <2>9 DEF IInv, PushedIsOver
  <2> QED BY <2>4, <2>5, <2>6, <2>11, <2>12, <2>13, <2>14 DEF IInv, RouteInv
<1> QED BY <1>2, <1>3 DEF InsertEvent, Inserts

\* The message of a new row is the only one, and it has not been pushed.
LEMMA SendStep ==
    ASSUME IInv, Sized, NEW q \in Requests, SendToQueue(q)
    PROVE  IInv'
<1> DEFINE e == req[q].event
<1>1. /\ UNCHANGED <<routeVars, events, target, push, pushes, unsure, faults>>
      /\ queue' = [queue EXCEPT ![e] = "ready"]
      /\ attempts' = [attempts EXCEPT ![e] = 0]
      /\ answered' = answered \cup {e} /\ skipped' = skipped \ {e}
      /\ e \in Events /\ Sends(q, e) /\ Ends(q)
  BY DEF SendToQueue, At, Sends, IInv, HandlerShape
<1>2. /\ req' \in [Requests -> Req] /\ req'[q] = NoReq /\ NoReq.pc = "idle"
      /\ \A p \in Requests : p # q => req'[p] = req[p]
  BY <1>1, Idle, HandlerMoves DEF IInv, Ends
<1>3. /\ \A p \in Requests, f \in Events : Sends(p, f)' <=> p # q /\ Sends(p, f)
      /\ \A c \in Consumers, f \in Events : Carries(c, f)' <=> Carries(c, f)
  BY <1>1, <1>2 DEF Sends, Carries
<1>4. /\ UnderWay(e) /\ \A p \in Requests \ {q} : ~Sends(p, e)
      /\ \A c \in Consumers : ~Carries(c, e)
      /\ e \notin unsure => pushes[e] = 0
  BY <1>1 DEF UnderWay, At, Sends, Carries, IInv, OneMessage, PushedIsOver
<1> HIDE DEF e
<1>5. /\ queue' \in [Events -> {"none", "ready", "taken", "dead"}] /\ queue'[e] = "ready"
      /\ \A f \in Events : f # e => queue'[f] = queue[f]
  BY <1>1 DEF IInv, TypeOK
<1>6. TypeOK'
  BY <1>1, <1>2, <1>5 DEF IInv, TypeOK, Sized, routeVars, Req
<1>7. HandlerShape'
  BY <1>1, <1>2 DEF IInv, HandlerShape
<1>8. RouteInv'
  BY <1>1, RouteFrame DEF routeVars
<1>9. RowWhileUnderWay'
  <2>1. \A f \in Events : UnderWay(f)' => UnderWay(f)
    BY <1>3, <1>4, <1>5 DEF UnderWay, At, Sends, Carries
  <2> QED BY <1>1, <2>1 DEF IInv, RowWhileUnderWay, Deleted, routeVars
<1>10. RowWhileAnswered'
  BY <1>1, <1>4 DEF IInv, TypeOK, RowWhileUnderWay, RowWhileAnswered, Deleted, routeVars
<1>11. HintKept'
  BY <1>1, <1>5 DEF IInv, TypeOK, HintKept
<1>12. OneMessage'
  BY <1>1, <1>3, <1>4, <1>5 DEF IInv, OneMessage
<1>13. PushedIsOver'
  BY <1>1, <1>3, <1>4, <1>5 DEF IInv, PushedIsOver, Deleted, routeVars
<1> QED BY <1>6, <1>7, <1>8, <1>9, <1>10, <1>11, <1>12, <1>13 DEF IInv, RouteInv

\* The queue refuses the message.
LEMMA SendFailsStep ==
    ASSUME IInv, Sized, NEW q \in Requests, SendFails(q)
    PROVE  IInv'
<1>1. /\ UNCHANGED <<routeVars, events, target, queue, attempts, push, pushes, answered,
                     skipped, unsure>>
      /\ Ends(q) /\ faults' \in 0..MaxFaults
  BY DEF SendFails, IInv, TypeOK, Sized
<1>2. /\ req' \in [Requests -> Req] /\ req'[q] = NoReq /\ NoReq.pc = "idle"
      /\ \A p \in Requests : p # q => req'[p] = req[p]
  BY <1>1, Idle, HandlerMoves DEF IInv, Ends
<1>3. /\ \A p \in Requests, f \in Events : Sends(p, f)' => Sends(p, f)
      /\ \A c \in Consumers, f \in Events : Carries(c, f)' <=> Carries(c, f)
  BY <1>1, <1>2 DEF Sends, Carries
<1>4. TypeOK'
  BY <1>1, <1>2 DEF IInv, TypeOK, routeVars, Req
<1>5. HandlerShape'
  BY <1>1, <1>2 DEF IInv, HandlerShape
<1>6. RouteInv'
  BY <1>1, RouteFrame DEF routeVars
<1>7. RowWhileUnderWay'
  <2>1. \A f \in Events : UnderWay(f)' => UnderWay(f)
    BY <1>1, <1>3 DEF UnderWay, At, Sends, Carries
  <2> QED BY <1>1, <2>1 DEF IInv, RowWhileUnderWay, Deleted, routeVars
<1>8. RowWhileAnswered' /\ HintKept'
  BY <1>1 DEF IInv, RowWhileAnswered, HintKept, Deleted, routeVars
<1>9. OneMessage' /\ PushedIsOver'
  BY <1>1, <1>3 DEF IInv, OneMessage, PushedIsOver, Deleted, routeVars
<1> QED BY <1>4, <1>5, <1>6, <1>7, <1>8, <1>9 DEF IInv, RouteInv

-----------------------------------------------------------------------------
(* consumePush.                                                               *)

\* Steps of a consumer leave the handlers, the devices and the targets.
consumerFrame == <<devices, endpoints, gone, late, target, req, answered>>

\* What follows for handlers and routes, when routes at most go off.
LEMMA ConsumerFrame ==
    ASSUME IInv, Sized, UNCHANGED consumerFrame,
           \A r \in Routes : routes'[r].by = routes[r].by /\ (routes'[r].on => routes[r].on)
    PROVE  /\ RouteInv'
           /\ \A q \in Requests, e \in Events : Sends(q, e)' <=> Sends(q, e)
           /\ Deleted' <=> Deleted
BY RouteFrame DEF consumerFrame, Sends, Deleted

\* The message leaves the queue with a consumer, or is put aside for a route that is off.
LEMMA TakeStep ==
    ASSUME IInv, Sized, NEW c \in Consumers, NEW e \in Events, Take(c, e)
    PROVE  IInv'
<1> DEFINE row == routes[target[e]]
<1>1. /\ UNCHANGED <<routeVars, events, target, attempts, req, pushes, answered, unsure,
                     faults>>
      /\ queue[e] = "ready" /\ push[c] = NoPush
  BY DEF Take
<1>2. /\ UnderWay(e) /\ target[e] \in Routes
      /\ events[e] # "none" \/ Deleted
      /\ \A q \in Requests : ~Sends(q, e)
      /\ e \notin unsure => (\A b \in Consumers : ~Carries(b, e)) /\ pushes[e] = 0
  BY <1>1 DEF UnderWay, IInv, RowWhileUnderWay, OneMessage, PushedIsOver
<1>3. /\ RouteInv' /\ (Deleted' <=> Deleted)
      /\ \A q \in Requests, f \in Events : Sends(q, f)' <=> Sends(q, f)
  BY <1>1, ConsumerFrame DEF consumerFrame, routeVars
<1>4. CASE /\ row.on
           /\ push' = [push EXCEPT ![c] = [pc |-> "dispatch", event |-> e,
                                           endpoint |-> row.endpoint]]
           /\ queue' = [queue EXCEPT ![e] = "taken"]
           /\ UNCHANGED skipped
  <2> DEFINE m == [pc |-> "dispatch", event |-> e, endpoint |-> row.endpoint]
  <2>1. m \in Push /\ m.pc = "dispatch" /\ m.event = e
    BY <1>2 DEF IInv, TypeOK, Push
  <2>2. push' = [push EXCEPT ![c] = m]
    BY <1>4
  <2> HIDE DEF m
  <2>3. /\ push' \in [Consumers -> Push] /\ push'[c] = m
        /\ \A b \in Consumers : b # c => push'[b] = push[b]
    BY <2>1, <2>2, ConsumerMoves DEF IInv
  <2>4. /\ queue' \in [Events -> {"none", "ready", "taken", "dead"}] /\ queue'[e] = "taken"
        /\ \A f \in Events : f # e => queue'[f] = queue[f]
    BY <1>4 DEF IInv, TypeOK
  <2>5. \A b \in Consumers, f \in Events :
            Carries(b, f)' <=> IF b = c THEN f = e ELSE Carries(b, f)
    BY <2>1, <2>3 DEF Carries
  <2>6. \A b \in Consumers, f \in Events : b = c => ~Carries(b, f)
    BY <1>1, Idle DEF Carries
  <2>7. TypeOK'
    BY <1>1, <1>4, <2>3, <2>4 DEF IInv, TypeOK, routeVars, Push
  <2>8. HandlerShape'
    BY <1>1, <2>1, <2>3 DEF IInv, HandlerShape
  <2>9. RowWhileUnderWay'
    <3>1. \A f \in Events : UnderWay(f)' => UnderWay(f)
      BY <1>2, <1>3, <2>4, <2>5, UnderWayMeans, UnderWayNext DEF Somewhere
    <3> QED BY <1>1, <1>3, <3>1 DEF IInv, RowWhileUnderWay
  <2>10. RowWhileAnswered' /\ HintKept'
    BY <1>1, <1>3, <1>4, <2>4 DEF IInv, TypeOK, RowWhileAnswered, HintKept
  <2>11. OneMessage'
    BY <1>1, <1>2, <1>3, <2>4, <2>5, <2>6 DEF IInv, OneMessage
  <2>12. PushedIsOver'
    BY <1>1, <1>2, <1>3, <2>3, <2>4, <2>5 DEF IInv, PushedIsOver
  <2> QED BY <1>3, <2>7, <2>8, <2>9, <2>10, <2>11, <2>12 DEF IInv, RouteInv
<1>5. CASE /\ queue' = [queue EXCEPT ![e] = "none"]
           /\ skipped' = skipped \cup {e}
           /\ UNCHANGED push
  <2>1. /\ queue' \in [Events -> {"none", "ready", "taken", "dead"}] /\ queue'[e] = "none"
        /\ \A f \in Events : f # e => queue'[f] = queue[f]
    BY <1>5 DEF IInv, TypeOK
  <2>2. \A b \in Consumers, f \in Events : Carries(b, f)' <=> Carries(b, f)
    BY <1>5 DEF Carries
  <2>3. TypeOK'
    BY <1>1, <1>5, <2>1 DEF IInv, TypeOK, routeVars
  <2>4. HandlerShape'
    BY <1>1, <1>5 DEF IInv, HandlerShape
  <2>5. RowWhileUnderWay'
    <3>1. \A f \in Events : UnderWay(f)' => UnderWay(f)
      BY <1>2, <1>3, <2>1, <2>2, UnderWayMeans, UnderWayNext DEF Somewhere
    <3> QED BY <1>1, <1>3, <3>1 DEF IInv, RowWhileUnderWay
  <2>6. RowWhileAnswered' /\ HintKept'
    BY <1>1, <1>3, <1>5, <2>1 DEF IInv, TypeOK, RowWhileAnswered, HintKept
  <2>7. OneMessage'
    BY <1>1, <1>2, <1>3, <2>1, <2>2 DEF IInv, OneMessage
  <2>8. PushedIsOver'
    BY <1>1, <1>2, <1>3, <1>5, <2>1, <2>2 DEF IInv, PushedIsOver
  <2> QED BY <1>3, <2>3, <2>4, <2>5, <2>6, <2>7, <2>8 DEF IInv, RouteInv
<1> QED BY <1>4, <1>5 DEF Take

\* The provider answers: the first notification of an event whose outcomes are known.
LEMMA AnswerStep ==
    ASSUME IInv, Sized, NEW c \in Consumers, ProviderAccepts(c) \/ ProviderRefuses(c)
    PROVE  IInv'
<1> DEFINE e == push[c].event
<1>1. /\ UNCHANGED <<routeVars, events, target, queue, attempts, req, answered, skipped,
                     unsure, faults>>
      /\ push[c].pc = "dispatch" /\ e \in Events
  BY DEF ProviderAccepts, Notifies, ProviderRefuses, IInv, HandlerShape
<1>2. /\ RouteInv' /\ (Deleted' <=> Deleted)
      /\ \A q \in Requests, f \in Events : Sends(q, f)' <=> Sends(q, f)
  BY <1>1, ConsumerFrame DEF consumerFrame, routeVars
<1>3. PICK pc \in {"accepted", "refused"} :
          /\ push' = [push EXCEPT ![c].pc = pc]
          /\ pc = "accepted" => pushes' = [pushes EXCEPT ![e] = IF @ = 2 THEN 2 ELSE @ + 1]
          /\ pc = "refused" => UNCHANGED pushes
  BY DEF ProviderAccepts, Notifies, ProviderRefuses
<1>4. /\ Carries(c, e) /\ UnderWay(e)
      /\ events[e] # "none" \/ Deleted
      /\ \A q \in Requests : ~Sends(q, e)
      /\ e \notin unsure =>
            /\ queue[e] = "taken" /\ pushes[e] = 0
            /\ \A b \in Consumers : b # c => ~Carries(b, e)
  BY <1>1 DEF Carries, UnderWay, At, Sends, IInv, RowWhileUnderWay, OneMessage, PushedIsOver
<1>5. /\ push' \in [Consumers -> Push] /\ push'[c].pc = pc /\ push'[c].event = e
      /\ \A b \in Consumers : b # c => push'[b] = push[b]
  <2> DEFINE m == [push[c] EXCEPT !.pc = pc]
  <2>1. m \in Push /\ m.pc = pc /\ m.event = e /\ push' = [push EXCEPT ![c] = m]
    BY SMTT(20), <1>3 DEF IInv, TypeOK, Push
  <2> HIDE DEF m
  <2> QED BY <2>1, ConsumerMoves DEF IInv
<1> HIDE DEF e
<1>6. /\ pushes' \in [Events -> 0..2]
      /\ \A f \in Events : f # e => pushes'[f] = pushes[f]
      /\ pc = "accepted" /\ e \notin unsure => pushes'[e] = 1
      /\ pc = "refused" => pushes'[e] = pushes[e]
  <2>1. pushes \in [Events -> 0..2]
    BY DEF IInv, TypeOK
  <2>2. CASE pc = "accepted"
    <3> DEFINE n == IF pushes[e] = 2 THEN 2 ELSE pushes[e] + 1
    <3>1. n \in 0..2 /\ (e \notin unsure => n = 1)
      BY <1>1, <1>4, <2>1
    <3>2. pushes' = [pushes EXCEPT ![e] = n]
      BY <1>3, <2>2
    <3> HIDE DEF n
    <3> QED BY <1>1, <2>1, <2>2, <3>1, <3>2
  <2>3. CASE pc = "refused"
    BY <1>3, <2>1, <2>3
  <2> QED BY <2>2, <2>3
<1>7. \A b \in Consumers, f \in Events : Carries(b, f)' <=> Carries(b, f)
  BY <1>1, <1>4, <1>5 DEF Carries
<1>8. TypeOK'
  BY <1>1, <1>5, <1>6 DEF IInv, TypeOK, routeVars, Push
<1>9. HandlerShape'
  BY <1>1, <1>3, <1>5 DEF IInv, HandlerShape
<1>10. RowWhileUnderWay' /\ RowWhileAnswered' /\ HintKept'
  <2>1. \A f \in Events : UnderWay(f)' <=> UnderWay(f)
    BY <1>1, <1>2, <1>7 DEF UnderWay, At, Sends, Carries
  <2> QED BY <1>1, <1>2, <2>1 DEF IInv, TypeOK, RowWhileUnderWay, RowWhileAnswered, HintKept
<1>11. OneMessage'
  BY <1>1, <1>2, <1>7 DEF IInv, OneMessage
<1>12. PushedIsOver'
  <2> SUFFICES ASSUME NEW f \in Events \ unsure', pushes'[f] # 0
               PROVE  /\ pushes'[f] = 1 /\ queue'[f] # "ready"
                      /\ events'[f] # "none" \/ Deleted'
                      /\ \A q \in Requests : ~Sends(q, f)'
                      /\ \A b \in Consumers : Carries(b, f)' => push'[b].pc = "accepted"
    BY DEF PushedIsOver
  <2>1. CASE f = e
    BY <1>1, <1>2, <1>3, <1>4, <1>5, <1>6, <1>7, <2>1
  <2>2. CASE f # e
    BY <1>1, <1>2, <1>4, <1>5, <1>6, <1>7, <2>2 DEF IInv, PushedIsOver, Carries
  <2> QED BY <2>1, <2>2
<1> QED BY <1>2, <1>8, <1>9, <1>10, <1>11, <1>12 DEF IInv, RouteInv

\* The message goes back, or to the dead-letter queue: it has not been pushed, or that
\* the relay cannot know.
LEMMA RetryStep ==
    ASSUME IInv, Sized, NEW c \in Consumers, ProviderFails(c) \/ AnswerLost(c) \/ StoreFails(c)
    PROVE  IInv'
<1> DEFINE e == push[c].event
<1>1. /\ UNCHANGED <<routeVars, events, target, req, answered, skipped>>
      /\ push[c].pc # "idle" /\ e \in Events /\ Retry(c)
      /\ faults' \in 0..MaxFaults
      /\ unsure' \in {unsure, unsure \cup {e}}
      /\ e \notin unsure' => UNCHANGED pushes /\ push[c].pc # "accepted"
  <2>1. CASE ProviderFails(c)
    BY <2>1 DEF ProviderFails, IInv, TypeOK, HandlerShape
  <2>3. CASE AnswerLost(c)
    BY <2>3 DEF AnswerLost, Notifies, IInv, TypeOK, HandlerShape
  <2>2. CASE StoreFails(c)
    BY <2>2 DEF StoreFails, IInv, TypeOK, Sized, HandlerShape
  <2> QED BY <2>1, <2>2, <2>3
<1>2. /\ RouteInv' /\ (Deleted' <=> Deleted)
      /\ \A q \in Requests, f \in Events : Sends(q, f)' <=> Sends(q, f)
  BY <1>1, ConsumerFrame DEF consumerFrame, routeVars
<1>13. pushes' \in [Events -> 0..2] /\ \A f \in Events : f # e => pushes'[f] = pushes[f]
  <2>1. pushes \in [Events -> 0..2]
    BY DEF IInv, TypeOK
  <2>2. CASE UNCHANGED pushes
    BY <2>1, <2>2
  <2>3. CASE pushes' = [pushes EXCEPT ![e] = IF @ = 2 THEN 2 ELSE @ + 1]
    BY <1>1, <2>1, <2>3
  <2> QED BY <2>2, <2>3 DEF ProviderFails, StoreFails, AnswerLost, Notifies
<1>3. /\ Carries(c, e) /\ UnderWay(e)
      /\ \A q \in Requests : ~Sends(q, e)
      /\ e \notin unsure' =>
            /\ pushes[e] = 0
            /\ \A b \in Consumers : b # c => ~Carries(b, e)
  BY <1>1 DEF Carries, UnderWay, IInv, OneMessage, PushedIsOver
<1>4. /\ push' \in [Consumers -> Push] /\ push'[c] = NoPush /\ NoPush.pc = "idle"
      /\ \A b \in Consumers : b # c => push'[b] = push[b]
  BY <1>1, Idle, ConsumerMoves DEF IInv, Retry
<1>5. /\ queue' \in [Events -> {"none", "ready", "taken", "dead"}]
      /\ queue'[e] \in {"ready", "dead"}
      /\ \A f \in Events : f # e => queue'[f] = queue[f]
      /\ attempts' \in [Events -> 0..MaxRetries]
  <2>1. CASE attempts[e] < MaxRetries
    <3>1. attempts[e] + 1 \in 0..MaxRetries
      BY <1>1, <2>1 DEF IInv, TypeOK, Sized
    <3> QED BY SMTT(20), <1>1, <2>1, <3>1 DEF Retry, IInv, TypeOK
  <2>2. CASE ~(attempts[e] < MaxRetries)
    <3>1. queue' = [queue EXCEPT ![e] = "dead"] /\ attempts' = attempts
      BY <1>1, <2>2 DEF Retry
    <3>2. /\ queue \in [Events -> {"none", "ready", "taken", "dead"}] /\ e \in Events
          /\ attempts \in [Events -> 0..MaxRetries]
      BY <1>1 DEF IInv, TypeOK
    <3> QED BY <3>1, <3>2
  <2> QED BY <2>1, <2>2
<1> HIDE DEF e
<1>6. \A b \in Consumers, f \in Events : Carries(b, f)' <=> b # c /\ Carries(b, f)
  BY <1>4 DEF Carries
<1>7. TypeOK'
  BY <1>1, <1>4, <1>5, <1>13 DEF IInv, TypeOK, routeVars, Push
<1>8. HandlerShape'
  BY <1>1, <1>4 DEF IInv, HandlerShape
<1>9. RowWhileUnderWay'
  <2>1. \A f \in Events : UnderWay(f)' => UnderWay(f)
    BY <1>2, <1>3, <1>5, <1>6, UnderWayMeans, UnderWayNext DEF Somewhere
  <2> QED BY <1>1, <1>2, <2>1 DEF IInv, RowWhileUnderWay
<1>10. RowWhileAnswered' /\ HintKept'
  BY <1>1, <1>2, <1>5 DEF IInv, TypeOK, RowWhileAnswered, HintKept
<1>11. OneMessage'
  BY <1>1, <1>2, <1>3, <1>5, <1>6 DEF IInv, OneMessage
<1>12. PushedIsOver'
  BY <1>1, <1>2, <1>3, <1>4, <1>5, <1>6, <1>13 DEF IInv, PushedIsOver
<1> QED BY <1>2, <1>7, <1>8, <1>9, <1>10, <1>11, <1>12 DEF IInv, RouteInv

\* The outcome is recorded and the message is over; a route that is refused goes off.
LEMMA RecordStep ==
    ASSUME IInv, Sized, NEW c \in Consumers, RecordDelivered(c) \/ RecordFailed(c)
    PROVE  IInv'
<1> DEFINE e == push[c].event
<1>1. PICK state \in {"delivered", "failed"} : Settle(c, state)
  BY DEF RecordDelivered, RecordFailed
<1>2. /\ UNCHANGED <<devices, endpoints, gone, late, target, attempts, req, pushes, answered,
                     skipped, unsure, faults>>
      /\ push[c].pc # "idle" /\ e \in Events
      /\ events' = [events EXCEPT ![e] = IF @ = "none" THEN @ ELSE state]
      /\ queue' = [queue EXCEPT ![e] = "none"]
      /\ push' = [push EXCEPT ![c] = NoPush]
  BY <1>1 DEF Settle, RecordDelivered, RecordFailed, IInv, HandlerShape
<1>3. /\ routes' \in [Routes -> [by : Devices \cup {Nobody}, endpoint : 0..MaxEndpoints,
                                 on : BOOLEAN]]
      /\ \A r \in Routes : routes'[r].by = routes[r].by /\ (routes'[r].on => routes[r].on)
  <2>1. CASE UNCHANGED routes
    BY <2>1 DEF IInv, TypeOK
  <2>2. CASE routes' = [routes EXCEPT ![target[e]].on = FALSE]
    <3>1. routes \in [Routes -> [by : Devices \cup {Nobody}, endpoint : 0..MaxEndpoints,
                                 on : BOOLEAN]]
      BY DEF IInv, TypeOK
    <3> QED BY <2>2, <3>1
  <2> QED BY <2>1, <2>2 DEF RecordDelivered, RecordFailed
<1>4. /\ RouteInv' /\ (Deleted' <=> Deleted)
      /\ \A q \in Requests, f \in Events : Sends(q, f)' <=> Sends(q, f)
  BY <1>2, <1>3, ConsumerFrame DEF consumerFrame
<1>5. /\ push' \in [Consumers -> Push] /\ push'[c] = NoPush /\ NoPush.pc = "idle"
      /\ \A b \in Consumers : b # c => push'[b] = push[b]
  BY <1>2, Idle, ConsumerMoves DEF IInv
<1>6. /\ Carries(c, e)
      /\ e \notin unsure => \A b \in Consumers : b # c => ~Carries(b, e)
  BY <1>2 DEF Carries, IInv, OneMessage
<1> HIDE DEF e
<1>7. /\ events' \in [Events -> {"none", "queued", "delivered", "failed"}]
      /\ queue' \in [Events -> {"none", "ready", "taken", "dead"}] /\ queue'[e] = "none"
      /\ events'[e] # "queued"
      /\ \A f \in Events : /\ f # e => queue'[f] = queue[f] /\ events'[f] = events[f]
                           /\ events'[f] = "none" <=> events[f] = "none"
  BY <1>2 DEF IInv, TypeOK
<1>8. \A b \in Consumers, f \in Events : Carries(b, f)' <=> b # c /\ Carries(b, f)
  BY <1>5 DEF Carries
<1>9. TypeOK'
  BY <1>2, <1>3, <1>5, <1>7 DEF IInv, TypeOK, Push
<1>10. HandlerShape'
  BY <1>2, <1>5 DEF IInv, HandlerShape
<1>11. RowWhileUnderWay'
  <2>1. \A f \in Events : UnderWay(f)' => UnderWay(f)
    BY <1>4, <1>7, <1>8, UnderWayMeans, UnderWayNext DEF Somewhere
  <2> QED BY <1>2, <1>4, <1>7, <2>1 DEF IInv, RowWhileUnderWay
<1>12. RowWhileAnswered' /\ HintKept'
  BY <1>2, <1>4, <1>7 DEF IInv, TypeOK, RowWhileAnswered, HintKept
<1>13. OneMessage'
  BY <1>2, <1>4, <1>6, <1>7, <1>8 DEF IInv, OneMessage
<1>14. PushedIsOver'
  BY <1>2, <1>4, <1>5, <1>7, <1>8 DEF IInv, PushedIsOver
<1> QED BY <1>4, <1>9, <1>10, <1>11, <1>12, <1>13, <1>14 DEF IInv, RouteInv

\* What expires is not under way.
LEMMA RetentionStep ==
    ASSUME IInv, Sized, NEW old \in SUBSET Events, NEW idle \in SUBSET Routes,
           Retention(old, idle)
    PROVE  IInv'
<1>1. /\ UNCHANGED <<devices, endpoints, gone, late, target, queue, attempts, req, push,
                     skipped, faults>>
      /\ answered' = answered \ old /\ unsure' = unsure \ old
      /\ \A e \in old : ~UnderWay(e)
  BY DEF Retention
<1>2. /\ events' \in [Events -> {"none", "queued", "delivered", "failed"}]
      /\ pushes' \in [Events -> 0..2]
      /\ \A e \in Events : IF e \in old THEN events'[e] = "none" /\ pushes'[e] = 0
                           ELSE events'[e] = events[e] /\ pushes'[e] = pushes[e]
  BY DEF Retention, IInv, TypeOK
<1>3. /\ routes' \in [Routes -> [by : Devices \cup {Nobody}, endpoint : 0..MaxEndpoints,
                                 on : BOOLEAN]]
      /\ \A r \in Routes : routes'[r].by = routes[r].by /\ (routes'[r].on => routes[r].on)
  <2>1. routes' = [r \in Routes |-> IF r \in idle THEN [routes[r] EXCEPT !.on = FALSE]
                                    ELSE routes[r]]
    BY DEF Retention
  <2>2. ASSUME NEW r \in Routes
        PROVE  /\ routes'[r] \in [by : Devices \cup {Nobody}, endpoint : 0..MaxEndpoints,
                                  on : BOOLEAN]
               /\ routes'[r].by = routes[r].by
               /\ routes'[r].on => routes[r].on
    <3>1. routes[r] \in [by : Devices \cup {Nobody}, endpoint : 0..MaxEndpoints,
                         on : BOOLEAN]
      BY DEF IInv, TypeOK
    <3>2. routes'[r] = [routes[r] EXCEPT !.on = FALSE] \/ routes'[r] = routes[r]
      BY <2>1
    <3> QED BY <3>1, <3>2
  <2>3. routes' = [r \in Routes |-> routes'[r]]
    BY <2>1
  <2> QED BY <2>2, <2>3
<1>4. /\ RouteInv' /\ (Deleted' <=> Deleted)
  BY <1>1, <1>3, RouteFrame DEF Deleted
<1>5. /\ \A q \in Requests, f \in Events : Sends(q, f)' <=> Sends(q, f)
      /\ \A b \in Consumers, f \in Events : Carries(b, f)' <=> Carries(b, f)
      /\ \A f \in Events : UnderWay(f)' <=> UnderWay(f)
  BY <1>1 DEF Sends, Carries, UnderWay, At
<1>6. TypeOK'
  BY <1>1, <1>2, <1>3 DEF IInv, TypeOK
<1>7. HandlerShape'
  BY <1>1 DEF IInv, HandlerShape
<1>8. RowWhileUnderWay'
  BY <1>1, <1>2, <1>4, <1>5 DEF IInv, RowWhileUnderWay
<1>9. RowWhileAnswered' /\ HintKept'
  BY <1>1, <1>2, <1>4 DEF IInv, TypeOK, RowWhileAnswered, HintKept
<1>10. OneMessage'
  BY <1>1, <1>5, UnderWayMeans DEF Somewhere, IInv, OneMessage
<1>11. PushedIsOver'
  BY <1>1, <1>2, <1>4, <1>5 DEF IInv, PushedIsOver
<1> QED BY <1>4, <1>6, <1>7, <1>8, <1>9, <1>10, <1>11 DEF IInv, RouteInv

\* A message is delivered once too often.
LEMMA RedeliversStep ==
    ASSUME IInv, Sized, NEW e \in Events, Redelivers(e)
    PROVE  IInv'
<1>1. /\ UNCHANGED <<routeVars, events, target, attempts, req, push, pushes, answered, skipped>>
      /\ queue[e] = "taken" \/ e \in answered
      /\ faults' \in 0..MaxFaults
      /\ queue' = [queue EXCEPT ![e] = "ready"] /\ unsure' = unsure \cup {e}
  BY DEF Redelivers, IInv, TypeOK, Sized
<1>2. /\ queue' \in [Events -> {"none", "ready", "taken", "dead"}] /\ queue'[e] = "ready"
      /\ \A f \in Events : f # e => queue'[f] = queue[f]
  BY <1>1 DEF IInv, TypeOK
<1>3. /\ RouteInv' /\ (Deleted' <=> Deleted)
      /\ \A q \in Requests, f \in Events : Sends(q, f)' <=> Sends(q, f)
      /\ \A c \in Consumers, f \in Events : Carries(c, f)' <=> Carries(c, f)
  BY <1>1, ConsumerFrame DEF consumerFrame, routeVars, Carries
<1>4. /\ events[e] # "none" \/ Deleted
      /\ target[e] \in Routes
      /\ \A q \in Requests : ~Sends(q, e)
  BY <1>1 DEF IInv, RowWhileUnderWay, RowWhileAnswered, OneMessage, UnderWay
<1>5. TypeOK'
  BY <1>1, <1>2 DEF IInv, TypeOK, routeVars
<1>6. HandlerShape'
  BY <1>1 DEF IInv, HandlerShape
<1>7. RowWhileUnderWay'
  <2>1. \A f \in Events : f # e => (UnderWay(f)' <=> UnderWay(f))
    BY <1>1, <1>2 DEF UnderWay, At
  <2> QED BY <1>1, <1>3, <1>4, <2>1 DEF IInv, RowWhileUnderWay
<1>8. RowWhileAnswered' /\ HintKept'
  BY <1>1, <1>2, <1>3 DEF IInv, TypeOK, RowWhileAnswered, HintKept
<1>9. OneMessage'
  BY <1>1, <1>2, <1>3, <1>4 DEF IInv, OneMessage
<1>10. PushedIsOver'
  BY <1>1, <1>2, <1>3 DEF IInv, PushedIsOver
<1> QED BY <1>3, <1>5, <1>6, <1>7, <1>8, <1>9, <1>10 DEF IInv, RouteInv

-----------------------------------------------------------------------------

\* A step of the relay keeps the inductive invariant.
THEOREM NextIInv == Sized /\ IInv /\ [Next]_vars => IInv'
<1> SUFFICES ASSUME Sized, IInv, [Next]_vars PROVE IInv'
  OBVIOUS
<1>1. ASSUME NEW q \in Requests, Handle(q) PROVE IInv'
  BY <1>1, ArrivesStep, RegisterStep, RevokeStep, CleanUpStep, InsertStep, SendStep,
     SendFailsStep DEF Handle
<1>2. ASSUME NEW c \in Consumers, Consume(c) PROVE IInv'
  BY <1>2, TakeStep, AnswerStep, RetryStep, RecordStep DEF Consume
<1>3. CASE UNCHANGED vars
  <2>1. UNCHANGED <<routeVars, eventVars, req>>
    BY <1>3 DEF vars, routeVars, eventVars
  <2>2. TypeOK' /\ HandlerShape'
    BY <1>3 DEF vars, IInv, TypeOK, HandlerShape
  <2>3. RouteInv'
    BY <2>1, RouteFrame DEF routeVars
  <2>4. EventInv'
    BY <1>3, <2>1, EventFrame DEF vars, Deleted, Sends
  <2> QED BY <2>2, <2>3, <2>4 DEF IInv, RouteInv, EventInv
<1> QED BY <1>1, <1>2, <1>3, DeleteStep, RedeliversStep, RetentionStep, GoneStep DEF Next

\* PushRelay: the invariant of the proof.
THEOREM Invariant == ASSUME Sized PROVE Spec => []IInv
BY InitIInv, NextIInv, PTL DEF Spec

\* A second push needs an outcome the relay does not know, or a message too many: the
\* message of any other event is the only one, and what was pushed is over.
LEMMA OverIsOnce == IInv => NoDuplicatePush
BY DEF IInv, TypeOK, PushedIsOver, NoDuplicatePush

\* HintKept, for every number of events, handlers and consumers (createBlindRelay's
\* event route, consumePush): an event that was answered with 202 is not lost.
THEOREM AnsweredHintIsKept == ASSUME Sized PROVE Spec => []HintKept
BY Invariant, PTL DEF IInv

\* NoDuplicatePush (consumePush): an event is pushed once, unless the answer of the
\* provider or its record was lost or the queue delivered the message once too often.
THEOREM PushedOnce == ASSUME Sized PROVE Spec => []NoDuplicatePush
BY Invariant, OverIsOnce, PTL

\* RevokedRoutesOff (revokeDevice): a device whose revocation is through has no route
\* that is on, but for a registration that overlapped the revocation.
THEOREM RevokedHasNoRoute == ASSUME Sized PROVE Spec => []RevokedRoutesOff
BY Invariant, PTL DEF IInv
=============================================================================
