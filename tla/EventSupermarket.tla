--------------------------- MODULE EventSupermarket ---------------------------
(***************************************************************************)
(* Event-driven supermarket (Rechnernetze, Aufgabe1_EventList).  One step  *)
(* is one event taken from EventList and its handler.  Events are ordered  *)
(* by time, then priority, then number; the number only grows, so that     *)
(* events of the same time and priority keep the order of their pushes.    *)
(***************************************************************************)
EXTENDS Integers, Sequences, FiniteSets, SequencesExt, FiniteSetsExt, Functions, TLC

CONSTANTS
    SupermarketOptions,   \* records [plan, between, time]: the stations of each type of
                          \* customer, its distance in time, the time of each station
    TimeLimit             \* 3076 in Supermarkt.py

ASSUME SupermarketAssumption ==
    /\ TimeLimit \in Nat
    /\ \A o \in SupermarketOptions : \A t \in DOMAIN o.plan :
          o.between[t] \in Nat \ {0} /\ o.plan[t] # <<>>

VARIABLES
    evOpt,
    eventQueue,
    simulationTime,
    customerList,     \* Logger.customer_list
    kund,             \* <<type, count>> -> the fields of KundIn
    customerQueue,    \* station -> customers, the first is served
    amount, skipped,  \* counters of a station
    evStatus          \* "running", "logged" or the exception

evVars == <<evOpt, eventQueue, simulationTime, customerList, kund, customerQueue,
            amount, skipped, evStatus>>

Types == DOMAIN evOpt.plan
Stations == DOMAIN evOpt.time

-----------------------------------------------------------------------------
Event(time, prio, fun, who) == [eTime |-> time, ePrio |-> prio, eFun |-> fun, who |-> who]

NotAfter(d, e) == d.eTime < e.eTime \/ (d.eTime = e.eTime /\ d.ePrio <= e.ePrio)

\* EventList.push: behind all events that are not later
Push1(q, e) == InsertAt(q, Cardinality({i \in DOMAIN q : NotAfter(q[i], e)}) + 1, e)

NewKund(list, time) ==
    [list |-> list, begin |-> time, end |-> time, full |-> FALSE, skippedStation |-> FALSE]

EvInit ==
    /\ evOpt \in SupermarketOptions
    /\ eventQueue = <<Event(0, 2, "begin", <<"A", 1>>), Event(1, 2, "begin", <<"B", 1>>)>>
    /\ simulationTime = 0
    /\ customerList = {}
    /\ kund = [k \in {<<t, 1>> : t \in Types} |-> NewKund(evOpt.plan[k[1]], 0)]
    /\ customerQueue = [s \in Stations |-> <<>>]
    /\ amount = [s \in Stations |-> 0]
    /\ skipped = [s \in Stations |-> 0]
    /\ evStatus = "running"

\* the loop of EventList.start, with the event it takes
Starts(fun) ==
    /\ evStatus = "running" /\ eventQueue # <<>> /\ simulationTime < TimeLimit
    /\ Head(eventQueue).eFun = fun
    /\ simulationTime' = Head(eventQueue).eTime
Now == Head(eventQueue).eTime
Who == Head(eventQueue).who

\* the next customer of the type is announced; her begin is the time of the
\* announcement
Begin ==
    /\ Starts("begin")
    /\ LET next == <<Who[1], Who[2] + 1>> IN
       /\ customerList' = customerList \union {Who}
       /\ kund' = (next :> NewKund(kund[Who].list, Now)) @@ kund
       /\ eventQueue' =
             Push1(Push1(Tail(eventQueue),
                         Event(Now + evOpt.between[Who[1]], 2, "begin", next)),
                   Event(Now + kund[Who].list[1].walk, 3, "arrive", Who))
    /\ UNCHANGED <<evOpt, customerQueue, amount, skipped, evStatus>>

\* Station.serve: the first in the queue leaves, then the station goes on
Serve(events, s, queue) ==
    IF queue = <<>> THEN events
    ELSE LET done == Now + kund[Head(queue)].list[1].items * evOpt.time[s]
         IN  Push1(Push1(events, Event(done, 1, "leave", Head(queue))),
                   Event(done, 1, "station.leave", s))

\* mutant: an idle station is mistaken for one that serves its first customer
ServesAtOnceTwo(queue) == Len(queue) <= 2

ServesAtOnce(queue) == Len(queue) <= 1

\* the visit at whose station the customer has just arrived
Visit == kund[Who].list[1]

\* the customer tolerates the queue: Station.queue
ArriveJoins ==
    /\ Starts("arrive") /\ kund[Who].list # <<>>
    /\ Len(customerQueue[Visit.station]) <= Visit.tolerance
    /\ LET s == Visit.station
           queue == Append(customerQueue[s], Who)
       IN  /\ customerQueue' = [customerQueue EXCEPT ![s] = queue]
           /\ amount' = [amount EXCEPT ![s] = @ + 1]
           /\ eventQueue' = IF ServesAtOnce(queue) THEN Serve(Tail(eventQueue), s, queue)
                            ELSE Tail(eventQueue)
    /\ kund' = [kund EXCEPT ![Who].end = Now]
    /\ UNCHANGED <<evOpt, customerList, skipped, evStatus>>

Skipped1(k) == [k EXCEPT !.end = Now, !.skippedStation = TRUE, !.list = Tail(@)]

\* the customer skips the station, and walks as long as she walked to it
ArriveSkips ==
    /\ Starts("arrive") /\ kund[Who].list # <<>>
    /\ Len(customerQueue[Visit.station]) > Visit.tolerance
    /\ skipped' = [skipped EXCEPT ![Visit.station] = @ + 1]
    /\ kund' = [kund EXCEPT ![Who] = Skipped1(@)]
    /\ eventQueue' = Push1(Tail(eventQueue), Event(Now + Visit.walk, 3, "arrive", Who))
    /\ UNCHANGED <<evOpt, customerList, customerQueue, amount, evStatus>>

\* she skipped her last station: self.station_list[0] raises
ArriveRaises ==
    /\ Starts("arrive") /\ kund[Who].list = <<>>
    /\ kund' = [kund EXCEPT ![Who].end = Now]
    /\ evStatus' = "IndexError"
    /\ eventQueue' = Tail(eventQueue)
    /\ UNCHANGED <<evOpt, customerList, customerQueue, amount, skipped>>

FullPurchase(k) == ~k.skippedStation

\* KundIn.leave
CustomerLeaves ==
    /\ Starts("leave")
    /\ LET rest == Tail(kund[Who].list) IN
       /\ kund' = [kund EXCEPT ![Who] =
                      [@ EXCEPT !.end = Now, !.list = rest,
                                !.full = IF rest = <<>> THEN FullPurchase(kund[Who]) ELSE @]]
       /\ eventQueue' = IF rest = <<>> THEN Tail(eventQueue)
                        ELSE Push1(Tail(eventQueue), Event(Now + rest[1].walk, 3, "arrive", Who))
    /\ UNCHANGED <<evOpt, customerList, customerQueue, amount, skipped, evStatus>>

\* Station.leave; Who is the station
StationLeaves ==
    /\ Starts("station.leave")
    /\ LET queue == Tail(customerQueue[Who]) IN
       /\ customerQueue' = [customerQueue EXCEPT ![Who] = queue]
       /\ eventQueue' = Serve(Tail(eventQueue), Who, queue)
    /\ UNCHANGED <<evOpt, customerList, kund, amount, skipped, evStatus>>

\* Logger.log divides by the full purchases and by the arrivals at a station
Log ==
    /\ evStatus = "running" /\ (eventQueue = <<>> \/ simulationTime >= TimeLimit)
    /\ evStatus' = IF /\ \E k \in customerList : kund[k].full
                      /\ \A s \in Stations : amount[s] + skipped[s] > 0
                   THEN "logged" ELSE "ZeroDivisionError"
    /\ UNCHANGED <<evOpt, eventQueue, simulationTime, customerList, kund, customerQueue,
                   amount, skipped>>

EvNext == \/ Begin \/ ArriveJoins \/ ArriveSkips \/ ArriveRaises
          \/ CustomerLeaves \/ StationLeaves \/ Log

-----------------------------------------------------------------------------
Pending(fun, who) == {i \in DOMAIN eventQueue : eventQueue[i].eFun = fun /\ eventQueue[i].who = who}
QueuedAt(k) == {s \in Stations : \E i \in DOMAIN customerQueue[s] : customerQueue[s][i] = k}

(* A station serves one customer at a time: exactly one end of service is  *)
(* pending while its queue is not empty, and the customer it serves either *)
(* leaves at that moment or has left just before (Station.py: queue,       *)
(* serve and leave together keep one service going).                       *)
OneService ==
    \A s \in Stations :
        LET ends == Pending("station.leave", s) IN
        /\ Cardinality(ends) = IF customerQueue[s] = <<>> THEN 0 ELSE 1
        /\ \A i \in ends :
              LET leaves == Pending("leave", Head(customerQueue[s])) IN
              \/ \E j \in leaves : leaves = {j} /\ j = i - 1
                                   /\ eventQueue[j].eTime = eventQueue[i].eTime
              \/ leaves = {} /\ i = 1 /\ eventQueue[i].eTime = simulationTime

(* No visit is lost or counted twice: the arrivals the stations counted,   *)
(* served and skipped, are the visits customers have ended and those they  *)
(* queue for (KundIn.arrive and leave pop a visit, Station counts it).     *)
VisitsCounted ==
    LET waiting(k) == {s \in QueuedAt(k) : kund[k].list # <<>> /\ kund[k].list[1].station = s
                                           /\ Pending("arrive", k) = {}}
    IN  MapThenSumSet(LAMBDA s : amount[s] + skipped[s], Stations)
          = MapThenSumSet(LAMBDA k : Len(evOpt.plan[k[1]]) - Len(kund[k].list)
                                     + Cardinality(waiting(k)), DOMAIN kund)

MinimalTime(t) ==
    FoldLeft(LAMBDA sum, v : sum + v.walk + v.items * evOpt.time[v.station], 0, evOpt.plan[t])

(* A full purchase lasts at least the walks and the services of the plan;  *)
(* as a customer's begin is that of her predecessor (KundIn.py:15), the    *)
(* time between customers of her type is included.                         *)
FullTakesItsTime ==
    \A k \in DOMAIN kund : kund[k].full =>
        kund[k].end - kund[k].begin
            >= MinimalTime(k[1]) + (IF k[2] > 1 THEN evOpt.between[k[1]] ELSE 0)
===============================================================================
