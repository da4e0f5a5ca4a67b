--------------------------- MODULE SupermarketRT ---------------------------
(***************************************************************************)
(* The real-time supermarket simulation (Rechnernetze/Praxis/              *)
(* Aufgabe1_RealTime): one thread per station, one per customer, and the   *)
(* main thread that joins the customers and then stops the stations.       *)
(* sleep() is a step that may take any time, so durations disappear and    *)
(* every interleaving of the threads remains.                              *)
(***************************************************************************)
EXTENDS Naturals, Sequences, FiniteSets

CONSTANTS Customers,   \* KundIn threads
          Stations,    \* Station threads
          Route,       \* initial station_list of each customer: [at, limit] records
          Nobody       \* no thread: the owner of a free lock

ASSUME RouteAssumption ==
  /\ Route \in [Customers -> Seq([at : Stations, limit : Nat])]
  /\ \A c \in Customers : Route[c] # << >>
ASSUME CustomersAssumption == IsFiniteSet(Customers)
ASSUME IdAssumption ==
  /\ Nobody \notin Customers \cup Stations
  /\ Customers \cap Stations = {}

VARIABLES
  customer_queue,       \* Station.customer_queue
  lock,                 \* Station.lock: the thread that holds it, or Nobody
  start_serve_event,    \* Station.start_serve_event
  keep_running,         \* Station.keep_running
  amount_customers,     \* Station.amount_customers
  amount_skipped,       \* Station.amount_skipped
  serving,              \* the local `customer` of Station.serve
  spc,                  \* control point of a station thread
  finished_serve_event, \* KundIn.finished_serve_event
  station_list,         \* KundIn.station_list: what is left of the route
  skipped_station,      \* KundIn.skipped_station
  full_purchase,        \* KundIn.full_purchase
  tmp,                  \* the value a `+= 1` has read and not yet written back
  cpc,                  \* control point of a customer thread
  closing,              \* the station the main thread is stopping
  mpc                   \* control point of the main thread

queueVars == <<customer_queue, lock, start_serve_event>>
statVars == <<amount_customers, amount_skipped, tmp>>
purchaseVars == <<station_list, skipped_station, full_purchase>>
mainVars == <<keep_running, closing, mpc>>
vars == <<queueVars, statVars, purchaseVars, mainVars, serving, spc,
          finished_serve_event, cpc>>

CustomerPC == {"new", "travel", "readCustomers", "writeCustomers", "acquire",
               "append", "wake", "release", "wait", "clear", "readSkipped",
               "writeSkipped", "leave", "done"}
StationPC == {"loop", "wait", "clear", "acquire", "check", "serve",
              "acquireDone", "pop", "wakeCustomer", "again", "done"}
MainPC == {"join", "stop", "wake", "joinStations", "end"}

(* Every variable has the type of the field or local it stands for. *)
TypeOK ==
  /\ customer_queue \in [Stations -> Seq(Customers)]
  /\ lock \in [Stations -> Customers \cup Stations \cup {Nobody}]
  /\ start_serve_event \in [Stations -> BOOLEAN]
  /\ keep_running \in [Stations -> BOOLEAN]
  /\ amount_customers \in [Stations -> Nat]
  /\ amount_skipped \in [Stations -> Nat]
  /\ serving \in [Stations -> Customers \cup {Nobody}]
  /\ spc \in [Stations -> StationPC]
  /\ finished_serve_event \in [Customers -> BOOLEAN]
  /\ station_list \in [Customers -> Seq([at : Stations, limit : Nat])]
  /\ skipped_station \in [Customers -> BOOLEAN]
  /\ full_purchase \in [Customers -> BOOLEAN]
  /\ tmp \in [Customers -> Nat]
  /\ cpc \in [Customers -> CustomerPC]
  /\ closing \in Stations \cup {Nobody}
  /\ mpc \in MainPC

Init ==
  /\ customer_queue = [s \in Stations |-> << >>]
  /\ lock = [s \in Stations |-> Nobody]
  /\ start_serve_event = [s \in Stations |-> FALSE]
  /\ keep_running = [s \in Stations |-> TRUE]
  /\ amount_customers = [s \in Stations |-> 0]
  /\ amount_skipped = [s \in Stations |-> 0]
  /\ serving = [s \in Stations |-> Nobody]
  /\ spc = [s \in Stations |-> "loop"]
  /\ finished_serve_event = [c \in Customers |-> FALSE]
  /\ station_list = Route
  /\ skipped_station = [c \in Customers |-> FALSE]
  /\ full_purchase = [c \in Customers |-> FALSE]
  /\ tmp = [c \in Customers |-> 0]
  /\ cpc = [c \in Customers |-> "new"]
  /\ closing = Nobody
  /\ mpc = "join"

-----------------------------------------------------------------------------
(* Customer threads.  Here(c) is station_list[0][3], Limit(c) is             *)
(* station_list[0][1].                                                       *)

Here(c) == Head(station_list[c]).at
Limit(c) == Head(station_list[c]).limit
Goto(c, from, to) == cpc[c] = from /\ cpc' = [cpc EXCEPT ![c] = to]

\* The generator thread of c's type creates and starts it.
StartCustomer(c) ==
  /\ Goto(c, "new", "travel")
  /\ UNCHANGED <<queueVars, statVars, purchaseVars, mainVars, serving, spc,
                 finished_serve_event>>

\* The length check of arrive: it reads the queue without its lock.
JoinTest(c) == Len(customer_queue[Here(c)]) <= Limit(c)

ArriveJoin(c) ==
  /\ Goto(c, "travel", "readCustomers")
  /\ JoinTest(c)
  /\ UNCHANGED <<queueVars, statVars, purchaseVars, mainVars, serving, spc,
                 finished_serve_event>>

ArriveSkip(c) ==
  /\ Goto(c, "travel", "readSkipped")
  /\ ~JoinTest(c)
  /\ skipped_station' = [skipped_station EXCEPT ![c] = TRUE]
  /\ UNCHANGED <<queueVars, statVars, station_list, full_purchase, mainVars,
                 serving, spc, finished_serve_event>>

\* add_customer and add_skipped run outside the lock: `+= 1` is a read and a write.
ReadCounter(c) ==
  /\ \/ /\ Goto(c, "readCustomers", "writeCustomers")
        /\ tmp' = [tmp EXCEPT ![c] = amount_customers[Here(c)]]
     \/ /\ Goto(c, "readSkipped", "writeSkipped")
        /\ tmp' = [tmp EXCEPT ![c] = amount_skipped[Here(c)]]
  /\ UNCHANGED <<queueVars, amount_customers, amount_skipped, purchaseVars,
                 mainVars, serving, spc, finished_serve_event>>

\* Mutant: one counter accumulates both kinds of visit.
WriteCounterOfBoth(c) ==
  /\ \/ /\ Goto(c, "writeCustomers", "acquire")
        /\ amount_customers' = [amount_customers EXCEPT
                                  ![Here(c)] = tmp[c] + 1 + amount_skipped[Here(c)]]
        /\ UNCHANGED amount_skipped
     \/ /\ Goto(c, "writeSkipped", "leave")
        /\ amount_skipped' = [amount_skipped EXCEPT
                                ![Here(c)] = tmp[c] + 1 + amount_customers[Here(c)]]
        /\ UNCHANGED amount_customers
  /\ tmp' = [tmp EXCEPT ![c] = 0]
  /\ UNCHANGED <<queueVars, purchaseVars, mainVars, serving, spc,
                 finished_serve_event>>

WriteCounter(c) ==
  /\ \/ /\ Goto(c, "writeCustomers", "acquire")
        /\ amount_customers' = [amount_customers EXCEPT ![Here(c)] = tmp[c] + 1]
        /\ UNCHANGED amount_skipped
     \/ /\ Goto(c, "writeSkipped", "leave")
        /\ amount_skipped' = [amount_skipped EXCEPT ![Here(c)] = tmp[c] + 1]
        /\ UNCHANGED amount_customers
  /\ tmp' = [tmp EXCEPT ![c] = 0]
  /\ UNCHANGED <<queueVars, purchaseVars, mainVars, serving, spc,
                 finished_serve_event>>

\* Station.queue, called on the customer's thread: lock, append, wake, unlock.
QueueAcquire(c) ==
  /\ Goto(c, "acquire", "append")
  /\ lock[Here(c)] = Nobody
  /\ lock' = [lock EXCEPT ![Here(c)] = c]
  /\ UNCHANGED <<customer_queue, start_serve_event, statVars, purchaseVars,
                 mainVars, serving, spc, finished_serve_event>>

\* Mutant: the customer goes to the front of the queue.
QueueAtFront(c) ==
  /\ Goto(c, "append", "wake")
  /\ customer_queue' = [customer_queue EXCEPT ![Here(c)] = <<c>> \o @]
  /\ UNCHANGED <<lock, start_serve_event, statVars, purchaseVars, mainVars,
                 serving, spc, finished_serve_event>>

QueueAppend(c) ==
  /\ Goto(c, "append", "wake")
  /\ customer_queue' = [customer_queue EXCEPT ![Here(c)] = Append(@, c)]
  /\ UNCHANGED <<lock, start_serve_event, statVars, purchaseVars, mainVars,
                 serving, spc, finished_serve_event>>

\* Mutants: the test made before appending, and no test at all.
WakeTestEmpty(s) == Len(customer_queue[s]) < 1
WakeTestNone(s) == TRUE
WakeTest(s) == Len(customer_queue[s]) <= 1

QueueWake(c) ==
  /\ Goto(c, "wake", "release")
  /\ start_serve_event' = [start_serve_event EXCEPT ![Here(c)] = @ \/ WakeTest(Here(c))]
  /\ UNCHANGED <<customer_queue, lock, statVars, purchaseVars, mainVars,
                 serving, spc, finished_serve_event>>

QueueRelease(c) ==
  /\ Goto(c, "release", "wait")
  /\ lock' = [lock EXCEPT ![Here(c)] = Nobody]
  /\ UNCHANGED <<customer_queue, start_serve_event, statVars, purchaseVars,
                 mainVars, serving, spc, finished_serve_event>>

WaitServed(c) ==
  /\ Goto(c, "wait", "clear")
  /\ finished_serve_event[c]
  /\ UNCHANGED <<queueVars, statVars, purchaseVars, mainVars, serving, spc,
                 finished_serve_event>>

\* Mutant: the event is left set.
ForgetClear(c) ==
  /\ Goto(c, "clear", "leave")
  /\ UNCHANGED <<queueVars, statVars, purchaseVars, mainVars, serving, spc,
                 finished_serve_event>>

ClearFinished(c) ==
  /\ Goto(c, "clear", "leave")
  /\ finished_serve_event' = [finished_serve_event EXCEPT ![c] = FALSE]
  /\ UNCHANGED <<queueVars, statVars, purchaseVars, mainVars, serving, spc>>

Leave(c) ==
  /\ cpc[c] = "leave"
  /\ station_list' = [station_list EXCEPT ![c] = Tail(@)]
  /\ IF Tail(station_list[c]) = << >>
       THEN /\ Goto(c, "leave", "done")
            /\ full_purchase' = [full_purchase EXCEPT ![c] = ~skipped_station[c]]
       ELSE /\ Goto(c, "leave", "travel")
            /\ UNCHANGED full_purchase
  /\ UNCHANGED <<queueVars, statVars, skipped_station, mainVars, serving, spc,
                 finished_serve_event>>

CustomerStep(c) ==
  \/ StartCustomer(c) \/ ArriveJoin(c) \/ ArriveSkip(c)
  \/ ReadCounter(c) \/ WriteCounter(c)
  \/ QueueAcquire(c) \/ QueueAppend(c) \/ QueueWake(c) \/ QueueRelease(c)
  \/ WaitServed(c) \/ ClearFinished(c) \/ Leave(c)

-----------------------------------------------------------------------------
(* Station threads.                                                          *)

SGoto(s, from, to) == spc[s] = from /\ spc' = [spc EXCEPT ![s] = to]

\* `while self.keep_running` of run
RunLoop(s) ==
  /\ IF keep_running[s] THEN SGoto(s, "loop", "wait") ELSE SGoto(s, "loop", "done")
  /\ UNCHANGED <<queueVars, statVars, purchaseVars, mainVars, serving,
                 finished_serve_event, cpc>>

WaitForCustomer(s) ==
  /\ SGoto(s, "wait", "clear")
  /\ start_serve_event[s]
  /\ UNCHANGED <<queueVars, statVars, purchaseVars, mainVars, serving,
                 finished_serve_event, cpc>>

ClearStart(s) ==
  /\ SGoto(s, "clear", "acquire")
  /\ start_serve_event' = [start_serve_event EXCEPT ![s] = FALSE]
  /\ UNCHANGED <<customer_queue, lock, statVars, purchaseVars, mainVars,
                 serving, finished_serve_event, cpc>>

ServeAcquire(s) ==
  /\ SGoto(s, "acquire", "check")
  /\ lock[s] = Nobody
  /\ lock' = [lock EXCEPT ![s] = s]
  /\ UNCHANGED <<customer_queue, start_serve_event, statVars, purchaseVars,
                 mainVars, serving, finished_serve_event, cpc>>

\* The early return of serve: the lock stays locked.
ServeEmpty(s) ==
  /\ SGoto(s, "check", "loop")
  /\ customer_queue[s] = << >>
  /\ UNCHANGED <<queueVars, statVars, purchaseVars, mainVars, serving,
                 finished_serve_event, cpc>>

ServeHead(s) ==
  /\ SGoto(s, "check", "serve")
  /\ customer_queue[s] # << >>
  /\ serving' = [serving EXCEPT ![s] = Head(customer_queue[s])]
  /\ lock' = [lock EXCEPT ![s] = Nobody]
  /\ UNCHANGED <<customer_queue, start_serve_event, statVars, purchaseVars,
                 mainVars, finished_serve_event, cpc>>

\* sleep(serving_time * customer.station_list[0][2])
ServeSleep(s) ==
  /\ SGoto(s, "serve", "acquireDone")
  /\ UNCHANGED <<queueVars, statVars, purchaseVars, mainVars, serving,
                 finished_serve_event, cpc>>

ServeAcquireDone(s) ==
  /\ SGoto(s, "acquireDone", "pop")
  /\ lock[s] = Nobody
  /\ lock' = [lock EXCEPT ![s] = s]
  /\ UNCHANGED <<customer_queue, start_serve_event, statVars, purchaseVars,
                 mainVars, serving, finished_serve_event, cpc>>

ServePop(s) ==
  /\ SGoto(s, "pop", "wakeCustomer")
  /\ customer_queue' = [customer_queue EXCEPT ![s] = Tail(@)]
  /\ UNCHANGED <<lock, start_serve_event, statVars, purchaseVars, mainVars,
                 serving, finished_serve_event, cpc>>

ServeWake(s) ==
  /\ SGoto(s, "wakeCustomer", "again")
  /\ finished_serve_event' = [finished_serve_event EXCEPT ![serving[s]] = TRUE]
  /\ serving' = [serving EXCEPT ![s] = Nobody]
  /\ UNCHANGED <<queueVars, statVars, purchaseVars, mainVars, cpc>>

\* Mutant: back to wait_for_customer after every customer.
ServeOnce(s) ==
  /\ SGoto(s, "again", "loop")
  /\ lock' = [lock EXCEPT ![s] = Nobody]
  /\ UNCHANGED <<customer_queue, start_serve_event, statVars, purchaseVars,
                 mainVars, serving, finished_serve_event, cpc>>

\* Both branches release; a non-empty queue is served by the recursive call.
ServeAgain(s) ==
  /\ IF customer_queue[s] # << >>
       THEN SGoto(s, "again", "acquire")
       ELSE SGoto(s, "again", "loop")
  /\ lock' = [lock EXCEPT ![s] = Nobody]
  /\ UNCHANGED <<customer_queue, start_serve_event, statVars, purchaseVars,
                 mainVars, serving, finished_serve_event, cpc>>

StationStep(s) ==
  \/ RunLoop(s) \/ WaitForCustomer(s) \/ ClearStart(s)
  \/ ServeAcquire(s) \/ ServeEmpty(s) \/ ServeHead(s) \/ ServeSleep(s)
  \/ ServeAcquireDone(s) \/ ServePop(s) \/ ServeWake(s) \/ ServeAgain(s)

-----------------------------------------------------------------------------
(* The main thread joins the generators and the customers, stops the         *)
(* stations one by one and joins them.                                       *)

JoinCustomers ==
  /\ mpc = "join"
  /\ \A c \in Customers : cpc[c] = "done"
  /\ mpc' = "stop"
  /\ UNCHANGED <<queueVars, statVars, purchaseVars, keep_running, closing,
                 serving, spc, finished_serve_event, cpc>>

StopStation(s) ==
  /\ mpc = "stop"
  /\ keep_running[s]
  /\ keep_running' = [keep_running EXCEPT ![s] = FALSE]
  /\ closing' = s
  /\ mpc' = "wake"
  /\ UNCHANGED <<queueVars, statVars, purchaseVars, serving, spc,
                 finished_serve_event, cpc>>

\* Mutant: the flag is cleared and the sleeping station is not woken.
WakeForgotten ==
  /\ mpc = "wake"
  /\ closing' = Nobody
  /\ mpc' = IF \E s \in Stations : keep_running[s] THEN "stop" ELSE "joinStations"
  /\ UNCHANGED <<queueVars, statVars, purchaseVars, keep_running, serving, spc,
                 finished_serve_event, cpc>>

WakeStation ==
  /\ mpc = "wake"
  /\ start_serve_event' = [start_serve_event EXCEPT ![closing] = TRUE]
  /\ closing' = Nobody
  /\ mpc' = IF \E s \in Stations : keep_running[s] THEN "stop" ELSE "joinStations"
  /\ UNCHANGED <<customer_queue, lock, statVars, purchaseVars, keep_running,
                 serving, spc, finished_serve_event, cpc>>

JoinStations ==
  /\ mpc = "joinStations"
  /\ \A s \in Stations : spc[s] = "done"
  /\ mpc' = "end"
  /\ UNCHANGED <<queueVars, statVars, purchaseVars, keep_running, closing,
                 serving, spc, finished_serve_event, cpc>>

MainStep ==
  JoinCustomers \/ WakeStation \/ JoinStations \/ \E s \in Stations : StopStation(s)

\* The process has ended.
Ended == mpc = "end" /\ UNCHANGED vars

Next ==
  \/ \E c \in Customers : CustomerStep(c)
  \/ \E s \in Stations : StationStep(s)
  \/ MainStep
  \/ Ended

\* The interpreter schedules every runnable thread again and again.
Fairness ==
  /\ \A c \in Customers : WF_vars(CustomerStep(c))
  /\ \A s \in Stations : WF_vars(StationStep(s))
  /\ WF_vars(MainStep)

Safe == Init /\ [][Next]_vars
Spec == Safe /\ Fairness

-----------------------------------------------------------------------------
(* Properties.                                                               *)

AllLeft == \A c \in Customers : cpc[c] = "done"

(* While a station serves (Station.serve between the two critical sections), *)
(* the customer it took without dequeuing is still the head of the queue and *)
(* is still at this station, so customer.station_list[0] is the purchase     *)
(* being made and pop(0) removes exactly that customer.                      *)
ServesHead ==
  \A s \in Stations : spc[s] \in {"serve", "acquireDone", "pop"} =>
    /\ customer_queue[s] # << >>
    /\ Head(customer_queue[s]) = serving[s]
    /\ station_list[serving[s]] # << >>
    /\ Here(serving[s]) = s

(* A station that has run out of customers is never left asleep with a       *)
(* queue: its start_serve_event is set, or the customer that found the queue *)
(* empty still holds the lock and is about to set it (Station.queue).        *)
NoLostWakeup ==
  \A s \in Stations : customer_queue[s] # << >> /\ spc[s] \in {"loop", "wait"} =>
    \/ start_serve_event[s]
    \/ \E c \in Customers : cpc[c] = "wake" /\ Here(c) = s

(* finished_serve_event is set only for the customer waiting for it, after   *)
(* it left the queue: a wake-up never survives into the next station's       *)
(* wait (KundIn.arrive).                                                     *)
WakeupNotStale ==
  \A c \in Customers : finished_serve_event[c] =>
    /\ cpc[c] \in {"wait", "clear"}
    /\ \A s \in Stations : \A i \in 1 .. Len(customer_queue[s]) : customer_queue[s][i] # c

(* The early return of Station.serve keeps the lock; a station thread can    *)
(* reach it only after main stopped it, when no customer is left to need it. *)
LockLeaksOnlyAtShutdown ==
  \A s \in Stations : lock[s] = s /\ spc[s] \in {"loop", "wait", "clear", "acquire", "done"} =>
    ~keep_running[s] /\ AllLeft

(* The unlocked `+= 1` of the statistics may lose visits, never invent them. *)
Visits(s) ==
  Cardinality(UNION {{c} \X {i \in DOMAIN Route[c] : Route[c][i].at = s} : c \in Customers})
NeverOvercounted ==
  \A s \in Stations : amount_customers[s] + amount_skipped[s] <= Visits(s)

(* Every customer finishes its route and main joins every thread.            *)
Termination == <>(mpc = "end")

(* A customer that decided to join a queue is served there and moves on.     *)
JoinedIsServed ==
  \A c \in Customers : cpc[c] = "acquire" ~> cpc[c] = "leave"

=============================================================================
