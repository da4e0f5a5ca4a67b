----------------------- MODULE SupermarketRT_proofs -----------------------
(***************************************************************************)
(* Proofs about SupermarketRT for every set of customers, stations and     *)
(* routes: the invariants of run rt_supermarket, by two inductive ones.     *)
(***************************************************************************)
EXTENDS SupermarketRT, SequenceTheorems, FiniteSetTheorems, TLAPS

-----------------------------------------------------------------------------
(* The inductive invariant.                                                  *)

\* Station s has been told to stop, which main does when everybody has left.
Shutdown(s) == ~keep_running[s] /\ AllLeft

\* A customer that is not done has a station to go to.
OnRoute == \A c \in Customers : cpc[c] # "done" => station_list[c] # << >>

\* A thread inside a critical section of a station owns the station's lock.
LockOwned ==
  /\ \A c \in Customers : cpc[c] \in {"append", "wake", "release"} => lock[Here(c)] = c
  /\ \A s \in Stations : spc[s] \in {"check", "pop", "wakeCustomer", "again"} => lock[s] = s

\* The customer about to wake the station is the one it just appended.
AppendedLast ==
  \A c \in Customers : cpc[c] = "wake" =>
    /\ customer_queue[Here(c)] # << >>
    /\ customer_queue[Here(c)][Len(customer_queue[Here(c)])] = c

FinishedWaits ==
  \A c \in Customers : finished_serve_event[c] => cpc[c] \in {"wait", "clear"}

\* Where a customer holds a counter it has read and not written back.
WritePC == {"writeCustomers", "writeSkipped"}

\* Where a customer in a queue can be.
QueuePC == {"wake", "release", "wait"}

\* Customers in the queue of s are at s, unserved, and there once.
Queued(s) ==
  \A i \in 1 .. Len(customer_queue[s]) :
    /\ cpc[customer_queue[s][i]] \in QueuePC
    /\ ~finished_serve_event[customer_queue[s][i]]
    /\ Here(customer_queue[s][i]) = s
    /\ \A j \in 1 .. Len(customer_queue[s]) :
         customer_queue[s][i] = customer_queue[s][j] => i = j

\* What station s knows of the customer it serves.
Serving(s) ==
  /\ spc[s] \in {"serve", "acquireDone", "pop"} =>
       /\ customer_queue[s] # << >>
       /\ customer_queue[s][1] = serving[s]
       /\ cpc[serving[s]] = "wait"
  /\ spc[s] = "wakeCustomer" =>
       /\ serving[s] \in Customers
       /\ cpc[serving[s]] = "wait"
       /\ ~finished_serve_event[serving[s]]
       /\ Here(serving[s]) = s
       /\ \A i \in 1 .. Len(customer_queue[s]) : customer_queue[s][i] # serving[s]

\* The wake-up of an idle station is pending or being delivered, and it is
\* never spurious before the shutdown.
Wakeup(s) ==
  /\ spc[s] \in {"loop", "wait"} /\ customer_queue[s] # << >> =>
       \/ start_serve_event[s]
       \/ Len(customer_queue[s]) = 1 /\ cpc[customer_queue[s][1]] = "wake"
  /\ start_serve_event[s] =>
       \/ /\ customer_queue[s] # << >>
          /\ cpc[customer_queue[s][1]] # "wake"
          /\ spc[s] \in {"loop", "wait", "clear"}
       \/ Shutdown(s)
  /\ spc[s] \in {"clear", "acquire"} =>
       \/ /\ customer_queue[s] # << >>
          /\ cpc[customer_queue[s][1]] # "wake"
       \/ Shutdown(s)
  /\ spc[s] = "check" => customer_queue[s] # << >> \/ Shutdown(s)
  /\ spc[s] = "done" => Shutdown(s)

StationInv(s) == Queued(s) /\ Serving(s) /\ Wakeup(s)

\* Main stops stations only when everybody has left.
Closing ==
  /\ mpc # "join" => AllLeft
  /\ \A s \in Stations : ~keep_running[s] => AllLeft
  /\ mpc = "wake" => closing \in Stations /\ ~keep_running[closing]

IInv == /\ TypeOK
        /\ OnRoute
        /\ LockOwned
        /\ AppendedLast
        /\ FinishedWaits
        /\ \A s \in Stations : StationInv(s)
        /\ Closing
        /\ LockLeaksOnlyAtShutdown

-----------------------------------------------------------------------------
(* Facts about queues and routes.                                            *)

\* Elements and length of a queue.
LEMMA Members ==
  ASSUME TypeOK
  PROVE  \A s \in Stations :
           /\ customer_queue[s] \in Seq(Customers)
           /\ Len(customer_queue[s]) \in Nat
           /\ customer_queue[s] # << >> => Len(customer_queue[s]) \in Nat \ {0}
           /\ \A i \in 1 .. Len(customer_queue[s]) : customer_queue[s][i] \in Customers
  BY ElementOfSeq, EmptySeq, LenProperties DEF TypeOK

Stops == [at : Stations, limit : Nat]

\* A customer with a route left stands at a station.
LEMMA HereType ==
  ASSUME TypeOK, NEW c \in Customers, station_list[c] # << >>
  PROVE  /\ Here(c) \in Stations
         /\ Tail(station_list[c]) \in Seq(Stops)
<1>1. station_list[c] \in Seq(Stops)
  BY DEF TypeOK, Stops
<1>2. Head(station_list[c]) \in Stops /\ Tail(station_list[c]) \in Seq(Stops)
  BY <1>1, HeadTailProperties
<1>. QED  BY <1>2 DEF Here, Stops

\* A step that leaves a station and the customers in its queue alone.
LEMMA Frame ==
  ASSUME TypeOK, NEW s \in Stations, StationInv(s),
         customer_queue'[s] = customer_queue[s], spc'[s] = spc[s],
         serving'[s] = serving[s], start_serve_event'[s] = start_serve_event[s],
         ~keep_running[s] => ~keep_running'[s],
         AllLeft => AllLeft',
         \A x \in Customers : cpc[x] \in QueuePC /\ Here(x) = s =>
           /\ cpc'[x] = cpc[x]
           /\ finished_serve_event'[x] = finished_serve_event[x]
           /\ station_list'[x] = station_list[x]
  PROVE  StationInv(s)'
<1>1. Queued(s)'
  BY Members DEF StationInv, Queued, Here
<1>2. Serving(s)'
  BY Members DEF StationInv, Queued, Serving, Here, QueuePC
<1>3. Wakeup(s)'
  BY Members DEF StationInv, Queued, Wakeup, Shutdown
<1>. QED  BY <1>1, <1>2, <1>3 DEF StationInv

\* A step of a customer that is in no queue.
LEMMA OutsideFrame ==
  ASSUME IInv, NEW c \in Customers, cpc[c] \notin QueuePC, cpc[c] # "done",
         UNCHANGED <<customer_queue, spc, serving, start_serve_event, keep_running>>,
         \A x \in Customers : x # c =>
           /\ cpc'[x] = cpc[x]
           /\ finished_serve_event'[x] = finished_serve_event[x]
           /\ station_list'[x] = station_list[x]
  PROVE  \A s \in Stations : StationInv(s)'
  BY Frame DEF IInv, AllLeft

-----------------------------------------------------------------------------
(* Every action preserves the invariant.                                     *)

\* A new customer is in no queue.
LEMMA StartCustomerKeeps ==
  ASSUME IInv, NEW c \in Customers, StartCustomer(c)
  PROVE  IInv'
<1>. USE IdAssumption DEF IInv, queueVars, statVars, purchaseVars, mainVars
<1>1. TypeOK'
  BY DEF TypeOK, StartCustomer, Goto, CustomerPC, StationPC, MainPC, OnRoute
<1>2. OnRoute' /\ LockOwned'
<2>1. OnRoute'
  BY DEF StartCustomer, Goto, TypeOK, Here, OnRoute
<2>2. LockOwned'
  BY DEF StartCustomer, Goto, TypeOK, Here, LockOwned
<2>. QED  BY <2>1, <2>2
<1>3. AppendedLast' /\ FinishedWaits'
<2>1. AppendedLast'
  BY DEF StartCustomer, Goto, TypeOK, Here, AppendedLast
<2>2. FinishedWaits'
  BY DEF StartCustomer, Goto, TypeOK, FinishedWaits
<2>. QED  BY <2>1, <2>2
<1>4. \A t \in Stations : StationInv(t)'
  BY OutsideFrame DEF StartCustomer, Goto, TypeOK, QueuePC, Here
<1>5. Closing' /\ LockLeaksOnlyAtShutdown'
  BY DEF StartCustomer, Goto, TypeOK, Closing, LockLeaksOnlyAtShutdown, AllLeft, StationInv, Wakeup, Shutdown, OnRoute, Here, LockOwned
<1>. QED  BY <1>1, <1>2, <1>3, <1>4, <1>5

\* Deciding to join reads the queue and changes only the control point.
LEMMA ArriveJoinKeeps ==
  ASSUME IInv, NEW c \in Customers, ArriveJoin(c)
  PROVE  IInv'
<1>. USE IdAssumption DEF IInv, queueVars, statVars, purchaseVars, mainVars
<1>1. TypeOK'
  BY DEF TypeOK, ArriveJoin, JoinTest, Goto, CustomerPC, StationPC, MainPC, OnRoute
<1>2. OnRoute' /\ LockOwned'
<2>1. OnRoute'
  BY DEF ArriveJoin, JoinTest, Goto, TypeOK, Here, OnRoute
<2>2. LockOwned'
  BY DEF ArriveJoin, JoinTest, Goto, TypeOK, Here, LockOwned
<2>. QED  BY <2>1, <2>2
<1>3. AppendedLast' /\ FinishedWaits'
<2>1. AppendedLast'
  BY DEF ArriveJoin, JoinTest, Goto, TypeOK, Here, AppendedLast
<2>2. FinishedWaits'
  BY DEF ArriveJoin, JoinTest, Goto, TypeOK, FinishedWaits
<2>. QED  BY <2>1, <2>2
<1>4. \A t \in Stations : StationInv(t)'
  BY OutsideFrame DEF ArriveJoin, JoinTest, Goto, TypeOK, QueuePC, Here
<1>5. Closing' /\ LockLeaksOnlyAtShutdown'
  BY DEF ArriveJoin, JoinTest, Goto, TypeOK, Closing, LockLeaksOnlyAtShutdown, AllLeft, StationInv, Wakeup, Shutdown, OnRoute, Here, LockOwned
<1>. QED  BY <1>1, <1>2, <1>3, <1>4, <1>5

\* A customer that skips never enters the queue.
LEMMA ArriveSkipKeeps ==
  ASSUME IInv, NEW c \in Customers, ArriveSkip(c)
  PROVE  IInv'
<1>. USE IdAssumption DEF IInv, queueVars, statVars, purchaseVars, mainVars
<1>1. TypeOK'
  BY DEF TypeOK, ArriveSkip, JoinTest, Goto, CustomerPC, StationPC, MainPC, OnRoute
<1>2. OnRoute' /\ LockOwned'
<2>1. OnRoute'
  BY DEF ArriveSkip, JoinTest, Goto, TypeOK, Here, OnRoute
<2>2. LockOwned'
  BY DEF ArriveSkip, JoinTest, Goto, TypeOK, Here, LockOwned
<2>. QED  BY <2>1, <2>2
<1>3. AppendedLast' /\ FinishedWaits'
<2>1. AppendedLast'
  BY DEF ArriveSkip, JoinTest, Goto, TypeOK, Here, AppendedLast
<2>2. FinishedWaits'
  BY DEF ArriveSkip, JoinTest, Goto, TypeOK, FinishedWaits
<2>. QED  BY <2>1, <2>2
<1>4. \A t \in Stations : StationInv(t)'
  BY OutsideFrame DEF ArriveSkip, JoinTest, Goto, TypeOK, QueuePC, Here
<1>5. Closing' /\ LockLeaksOnlyAtShutdown'
  BY DEF ArriveSkip, JoinTest, Goto, TypeOK, Closing, LockLeaksOnlyAtShutdown, AllLeft, StationInv, Wakeup, Shutdown, OnRoute, Here, LockOwned
<1>. QED  BY <1>1, <1>2, <1>3, <1>4, <1>5

\* The statistics are outside every other conjunct.
LEMMA ReadCounterKeeps ==
  ASSUME IInv, NEW c \in Customers, ReadCounter(c)
  PROVE  IInv'
<1>. USE IdAssumption DEF IInv, queueVars, statVars, purchaseVars, mainVars
<1>1. TypeOK'
<2>1. Here(c) \in Stations
  BY HereType DEF OnRoute, ReadCounter, Goto
<2>2. tmp' \in [Customers -> Nat]
  <3>1. \/ tmp' = [tmp EXCEPT ![c] = amount_customers[Here(c)]]
        \/ tmp' = [tmp EXCEPT ![c] = amount_skipped[Here(c)]]
    BY DEF ReadCounter
  <3>2. amount_customers[Here(c)] \in Nat /\ amount_skipped[Here(c)] \in Nat
    BY <2>1 DEF TypeOK
  <3>3. tmp \in [Customers -> Nat]
    BY DEF TypeOK
  <3>. QED  BY <3>1, <3>2, <3>3
<2>3. cpc' \in [Customers -> CustomerPC]
  BY DEF TypeOK, ReadCounter, Goto, CustomerPC
<2>. QED  BY <2>2, <2>3 DEF TypeOK, ReadCounter
<1>2. OnRoute' /\ LockOwned'
<2>1. OnRoute'
  BY DEF ReadCounter, Goto, TypeOK, Here, OnRoute
<2>2. LockOwned'
  <3>1. /\ UNCHANGED <<lock, spc, station_list>>
        /\ \A x \in Customers \ {c} : cpc'[x] = cpc[x]
        /\ cpc'[c] \in WritePC
    BY DEF ReadCounter, Goto, TypeOK, WritePC
  <3>. QED  BY <3>1 DEF LockOwned, Here, WritePC
<2>. QED  BY <2>1, <2>2
<1>3. AppendedLast' /\ FinishedWaits'
<2>1. AppendedLast'
  BY DEF ReadCounter, Goto, TypeOK, Here, AppendedLast
<2>2. FinishedWaits'
  BY DEF ReadCounter, Goto, TypeOK, FinishedWaits
<2>. QED  BY <2>1, <2>2
<1>4. \A t \in Stations : StationInv(t)'
  BY OutsideFrame DEF ReadCounter, Goto, TypeOK, QueuePC, Here
<1>5. Closing' /\ LockLeaksOnlyAtShutdown'
  BY DEF ReadCounter, Goto, TypeOK, Closing, LockLeaksOnlyAtShutdown, AllLeft, StationInv, Wakeup, Shutdown, OnRoute, Here, LockOwned
<1>. QED  BY <1>1, <1>2, <1>3, <1>4, <1>5

\* The statistics are outside every other conjunct.
LEMMA WriteCounterKeeps ==
  ASSUME IInv, NEW c \in Customers, WriteCounter(c)
  PROVE  IInv'
<1>0. /\ UNCHANGED <<customer_queue, lock, start_serve_event, station_list,
                     skipped_station, full_purchase, keep_running, closing, mpc,
                     serving, spc, finished_serve_event>>
      /\ cpc[c] \in {"writeCustomers", "writeSkipped"}
      /\ cpc' = [cpc EXCEPT ![c] = "acquire"] \/ cpc' = [cpc EXCEPT ![c] = "leave"]
  BY DEF WriteCounter, Goto, queueVars, purchaseVars, mainVars
<1>1. TypeOK'
  <2>1. Here(c) \in Stations /\ tmp[c] + 1 \in Nat
    <3>1. Here(c) \in Stations
      BY <1>0, HereType DEF IInv, OnRoute
    <3>2. tmp[c] \in Nat
      BY DEF IInv, TypeOK
    <3>. QED  BY <3>1, <3>2
  <2>2. amount_customers' \in [Stations -> Nat] /\ amount_skipped' \in [Stations -> Nat]
    <3>1. CASE cpc[c] = "writeCustomers"
      <4>1. /\ amount_customers' = [amount_customers EXCEPT ![Here(c)] = tmp[c] + 1]
            /\ amount_skipped' = amount_skipped
        BY <3>1 DEF WriteCounter, Goto
      <4>. QED  BY <2>1, <4>1 DEF IInv, TypeOK
    <3>2. CASE cpc[c] = "writeSkipped"
      <4>1. /\ amount_skipped' = [amount_skipped EXCEPT ![Here(c)] = tmp[c] + 1]
            /\ amount_customers' = amount_customers
        BY <3>2 DEF WriteCounter, Goto
      <4>. QED  BY <2>1, <4>1 DEF IInv, TypeOK
    <3>. QED  BY <1>0, <3>1, <3>2
  <2>3. cpc' \in [Customers -> CustomerPC] /\ tmp' \in [Customers -> Nat]
    BY <1>0 DEF IInv, TypeOK, WriteCounter, CustomerPC
  <2>. QED  BY <1>0, <2>2, <2>3 DEF IInv, TypeOK
<1>2. OnRoute' /\ LockOwned'
  BY <1>0 DEF IInv, TypeOK, Here, OnRoute, LockOwned
<1>3. AppendedLast' /\ FinishedWaits'
  BY <1>0 DEF IInv, TypeOK, Here, AppendedLast, FinishedWaits
<1>4. \A t \in Stations : StationInv(t)'
  BY <1>0, OutsideFrame DEF IInv, TypeOK, QueuePC
<1>5. Closing' /\ LockLeaksOnlyAtShutdown'
  BY <1>0 DEF IInv, TypeOK, Closing, LockLeaksOnlyAtShutdown, AllLeft
<1>. QED  BY <1>1, <1>2, <1>3, <1>4, <1>5 DEF IInv

\* Nobody else is in the critical section of a free lock.
LEMMA QueueAcquireKeeps ==
  ASSUME IInv, NEW c \in Customers, QueueAcquire(c)
  PROVE  IInv'
<1>. USE IdAssumption DEF IInv, queueVars, statVars, purchaseVars, mainVars
<1>1. TypeOK'
  BY DEF TypeOK, QueueAcquire, Goto, CustomerPC, StationPC, MainPC, OnRoute
<1>2. OnRoute' /\ LockOwned'
<2>1. Here(c) \in Stations
  BY HereType DEF OnRoute, QueueAcquire, Goto
<2>2. OnRoute'
  BY DEF OnRoute, QueueAcquire, Goto, TypeOK
<2>3. ASSUME NEW x \in Customers, cpc'[x] \in {"append", "wake", "release"}
      PROVE  lock'[Here(x)'] = x
  <3>1. CASE x = c
    BY <2>1, <3>1 DEF QueueAcquire, Goto, TypeOK, Here
  <3>2. CASE x # c
    <4>1. lock[Here(x)] = x /\ Here(x) \in Stations /\ Here(x)' = Here(x)
      BY <2>3, <3>2, HereType DEF QueueAcquire, Goto, TypeOK, LockOwned, OnRoute, Here
    <4>2. Here(x) # Here(c)
      BY <4>1 DEF QueueAcquire
    <4>. QED  BY <2>1, <4>1, <4>2 DEF QueueAcquire, TypeOK
  <3>. QED  BY <3>1, <3>2
<2>4. \A s \in Stations : spc'[s] \in {"check", "pop", "wakeCustomer", "again"} => lock'[s] = s
  BY <2>1 DEF QueueAcquire, TypeOK, LockOwned
<2>. QED  BY <2>2, <2>3, <2>4 DEF LockOwned
<1>3. AppendedLast' /\ FinishedWaits'
<2>1. AppendedLast'
  BY DEF QueueAcquire, Goto, TypeOK, Here, AppendedLast
<2>2. FinishedWaits'
  BY DEF QueueAcquire, Goto, TypeOK, FinishedWaits
<2>. QED  BY <2>1, <2>2
<1>4. \A t \in Stations : StationInv(t)'
  BY OutsideFrame DEF QueueAcquire, Goto, TypeOK, QueuePC, Here
<1>5. Closing' /\ LockLeaksOnlyAtShutdown'
  BY DEF QueueAcquire, Goto, TypeOK, Closing, LockLeaksOnlyAtShutdown, AllLeft, StationInv, Wakeup, Shutdown, OnRoute, Here, LockOwned
<1>. QED  BY <1>1, <1>2, <1>3, <1>4, <1>5

\* The appended customer was in no queue; an idle station now has its waker.
LEMMA QueueAppendKeeps ==
  ASSUME IInv, NEW c \in Customers, QueueAppend(c)
  PROVE  IInv'
<1>. USE IdAssumption DEF IInv, queueVars, statVars, purchaseVars, mainVars
<1>0. /\ Here(c) \in Stations
      /\ lock[Here(c)] = c
      /\ customer_queue[Here(c)] \in Seq(Customers)
      /\ customer_queue'[Here(c)] = Append(customer_queue[Here(c)], c)
      /\ Len(customer_queue'[Here(c)]) = Len(customer_queue[Here(c)]) + 1
      /\ customer_queue'[Here(c)][Len(customer_queue[Here(c)]) + 1] = c
      /\ \A i \in 1 .. Len(customer_queue[Here(c)]) :
           customer_queue'[Here(c)][i] = customer_queue[Here(c)][i]
  <2>1. Here(c) \in Stations /\ lock[Here(c)] = c
    BY HereType DEF OnRoute, QueueAppend, Goto, LockOwned
  <2>. QED  BY <2>1, AppendProperties DEF TypeOK, QueueAppend
<1>1. TypeOK'
<2>1. customer_queue' \in [Stations -> Seq(Customers)]
  BY <1>0, AppendProperties DEF TypeOK, QueueAppend
<2>2. cpc' \in [Customers -> CustomerPC]
  BY DEF TypeOK, QueueAppend, Goto, CustomerPC
<2>. QED  BY <2>1, <2>2 DEF TypeOK, QueueAppend
<1>2. OnRoute' /\ LockOwned'
<2>1. OnRoute'
  BY DEF QueueAppend, Goto, TypeOK, Here, OnRoute
<2>2. LockOwned'
  BY DEF QueueAppend, Goto, TypeOK, Here, LockOwned
<2>. QED  BY <2>1, <2>2
<1>3. AppendedLast' /\ FinishedWaits'
<2>1. FinishedWaits'
  BY DEF FinishedWaits, QueueAppend, Goto, TypeOK
<2>2. ASSUME NEW x \in Customers, cpc'[x] = "wake"
      PROVE  /\ customer_queue'[Here(x)'] # << >>
             /\ customer_queue'[Here(x)'][Len(customer_queue'[Here(x)'])] = x
  <3>1. Here(x)' = Here(x)
    BY DEF QueueAppend, Here
  <3>2. CASE x = c
    BY <1>0, <3>1, <3>2, EmptySeq, Members
  <3>3. CASE x # c
    <4>1. cpc[x] = "wake" /\ Here(x) \in Stations /\ lock[Here(x)] = x
      BY <2>2, <3>3, HereType DEF QueueAppend, Goto, TypeOK, OnRoute, LockOwned
    <4>2. customer_queue'[Here(x)] = customer_queue[Here(x)]
      BY <1>0, <4>1, <3>3 DEF QueueAppend, TypeOK
    <4>. QED  BY <2>2, <3>1, <4>1, <4>2 DEF AppendedLast
  <3>. QED  BY <3>2, <3>3
<2>. QED  BY <2>1, <2>2 DEF AppendedLast
<1>4. \A t \in Stations : StationInv(t)'
<2>1. ASSUME NEW t \in Stations, t # Here(c) PROVE StationInv(t)'
  BY <2>1, Frame DEF QueueAppend, Goto, TypeOK, AllLeft, QueuePC
<2>2. ASSUME NEW s \in Stations, s = Here(c) PROVE StationInv(s)'
  <3>0. /\ cpc[c] = "append" /\ cpc'[c] = "wake"
        /\ \A x \in Customers : x # c => cpc'[x] = cpc[x]
        /\ \A x \in Customers : Here(x)' = Here(x)
        /\ finished_serve_event' = finished_serve_event
        /\ serving' = serving /\ spc' = spc /\ keep_running' = keep_running
        /\ ~AllLeft
    BY DEF QueueAppend, Goto, TypeOK, Here, AllLeft
  <3>a. lock[s] = c /\ spc[s] \notin {"check", "pop", "wakeCustomer", "again"}
    BY <2>2, <3>0 DEF LockOwned
  <3>b. \A i \in 1 .. Len(customer_queue[s]) : customer_queue[s][i] \in Customers \ {c}
    BY <3>0, Members DEF StationInv, Queued, QueuePC
  <3>c. \A i \in 1 .. Len(customer_queue'[s]) :
          \/ i \in 1 .. Len(customer_queue[s]) /\ customer_queue'[s][i] = customer_queue[s][i]
          \/ i = Len(customer_queue[s]) + 1 /\ customer_queue'[s][i] = c
    BY <1>0, <2>2, Members
  <3>1. Queued(s)'
    <4>1. ~finished_serve_event[c]
      BY <3>0 DEF FinishedWaits
    <4>2. ASSUME NEW i \in 1 .. Len(customer_queue'[s])
          PROVE  /\ cpc'[customer_queue'[s][i]] \in QueuePC
                 /\ ~finished_serve_event'[customer_queue'[s][i]]
                 /\ Head(station_list'[customer_queue'[s][i]]).at = s
      <5>1. station_list' = station_list
        BY DEF QueueAppend
      <5>2. CASE i \in 1 .. Len(customer_queue[s]) /\ customer_queue'[s][i] = customer_queue[s][i]
        BY <3>0, <3>b, <5>1, <5>2 DEF StationInv, Queued, QueuePC, Here
      <5>3. CASE customer_queue'[s][i] = c
        BY <2>2, <3>0, <4>1, <5>1, <5>3 DEF QueuePC, Here
      <5>. QED  BY <3>c, <5>2, <5>3
    <4>3. ASSUME NEW i \in 1 .. Len(customer_queue'[s]), NEW j \in 1 .. Len(customer_queue'[s]),
                 customer_queue'[s][i] = customer_queue'[s][j]
          PROVE  i = j
      BY <3>b, <3>c, <4>3 DEF StationInv, Queued
    <4>. QED  BY <4>2, <4>3 DEF Queued, Here
  <3>2. Serving(s)'
    <4>1. customer_queue[s] # << >> => customer_queue'[s] # << >> /\ customer_queue'[s][1] = customer_queue[s][1]
      BY <1>0, <2>2, Members, EmptySeq
    <4>. QED  BY <3>0, <3>a, <3>b, <4>1, Members DEF StationInv, Serving
  <3>3. Wakeup(s)'
    <4>1. CASE customer_queue[s] = << >>
      <5>1. Len(customer_queue'[s]) = 1 /\ customer_queue'[s] # << >> /\ customer_queue'[s][1] = c
        BY <1>0, <2>2, <4>1, EmptySeq
      <5>2. ~start_serve_event[s] /\ spc[s] \notin {"clear", "acquire", "done"}
        BY <3>0, <4>1 DEF StationInv, Wakeup, Shutdown
      <5>. QED  BY <3>0, <3>a, <5>1, <5>2 DEF Wakeup, QueueAppend
    <4>2. CASE customer_queue[s] # << >>
      <5>1. customer_queue[s][1] \in Customers \ {c} /\ customer_queue'[s][1] = customer_queue[s][1] /\ customer_queue'[s] # << >>
        BY <1>0, <2>2, <3>b, <4>2, Members, EmptySeq
      <5>2. cpc[customer_queue[s][1]] # "wake"
        <6>1. 1 \in 1 .. Len(customer_queue[s])
          BY <4>2, Members
        <6>2. Here(customer_queue[s][1]) = s
          BY <6>1 DEF StationInv, Queued
        <6>. QED  BY <3>a, <5>1, <6>2 DEF LockOwned
      <5>. QED  BY <3>0, <3>a, <4>2, <5>1, <5>2 DEF StationInv, Wakeup, QueueAppend, Shutdown
    <4>. QED  BY <4>1, <4>2
  <3>. QED  BY <3>1, <3>2, <3>3 DEF StationInv
<2>. QED  BY <2>1, <2>2
<1>5. Closing' /\ LockLeaksOnlyAtShutdown'
  BY DEF QueueAppend, Goto, TypeOK, Closing, LockLeaksOnlyAtShutdown, AllLeft, StationInv, Wakeup, Shutdown, OnRoute, Here, LockOwned
<1>. QED  BY <1>1, <1>2, <1>3, <1>4, <1>5

\* The waker is the last of the queue: alone in it, it sets the event of an idle station.
LEMMA QueueWakeKeeps ==
  ASSUME IInv, NEW c \in Customers, QueueWake(c)
  PROVE  IInv'
<1>. USE IdAssumption DEF IInv, queueVars, statVars, purchaseVars, mainVars
<1>1. TypeOK'
  BY DEF TypeOK, QueueWake, WakeTest, Goto, CustomerPC, StationPC, MainPC, OnRoute
<1>2. OnRoute' /\ LockOwned'
<2>1. OnRoute'
  BY DEF QueueWake, WakeTest, Goto, TypeOK, Here, OnRoute
<2>2. LockOwned'
  BY DEF QueueWake, WakeTest, Goto, TypeOK, Here, LockOwned
<2>. QED  BY <2>1, <2>2
<1>3. AppendedLast' /\ FinishedWaits'
<2>1. AppendedLast'
  BY DEF QueueWake, WakeTest, Goto, TypeOK, Here, AppendedLast
<2>2. FinishedWaits'
  BY DEF QueueWake, WakeTest, Goto, TypeOK, FinishedWaits
<2>. QED  BY <2>1, <2>2
<1>4. \A t \in Stations : StationInv(t)'
<2>1. ASSUME NEW t \in Stations, t # Here(c) PROVE StationInv(t)'
  BY <2>1, Frame DEF QueueWake, WakeTest, Goto, TypeOK, AllLeft, QueuePC
<2>2. ASSUME NEW s \in Stations, s = Here(c) PROVE StationInv(s)'
  <3>0. /\ cpc[c] = "wake" /\ cpc'[c] = "release"
        /\ \A x \in Customers : x # c => cpc'[x] = cpc[x]
        /\ \A x \in Customers : Here(x)' = Here(x)
        /\ finished_serve_event' = finished_serve_event
        /\ serving' = serving /\ spc' = spc /\ keep_running' = keep_running
        /\ ~AllLeft
    BY DEF QueueWake, Goto, TypeOK, Here, AllLeft
  <3>a. lock[s] = c /\ spc[s] \notin {"check", "pop", "wakeCustomer", "again"}
    BY <2>2, <3>0 DEF LockOwned
  <3>1. Queued(s)'
    BY <2>2, <3>0, Members DEF QueueWake, StationInv, Queued, QueuePC
  <3>2. Serving(s)'
    BY <2>2, <3>0, <3>a, Members DEF QueueWake, StationInv, Serving
  <3>3. Wakeup(s)'
    <4>1. /\ customer_queue' = customer_queue
          /\ customer_queue[s] # << >>
          /\ Len(customer_queue[s]) \in Nat \ {0}
          /\ customer_queue[s][Len(customer_queue[s])] = c
          /\ customer_queue[s][1] \in Customers
          /\ Here(customer_queue[s][1]) = s
      BY <2>2, <3>0, Members DEF QueueWake, AppendedLast, StationInv, Queued
    <4>2. start_serve_event'[s] = (start_serve_event[s] \/ Len(customer_queue[s]) <= 1)
      BY <2>2 DEF QueueWake, WakeTest, TypeOK
    <4>3. customer_queue[s][1] # c => cpc[customer_queue[s][1]] # "wake"
      BY <3>a, <4>1 DEF LockOwned
    <4>4. cpc'[customer_queue[s][1]] # "wake"
      BY <3>0, <4>1, <4>3
    <4>5. Len(customer_queue[s]) <= 1 => customer_queue[s][1] = c /\ spc[s] \in {"loop", "wait"}
      <5>1. HAVE Len(customer_queue[s]) <= 1
      <5>2. Len(customer_queue[s]) = 1 /\ customer_queue[s][1] = c
        <6>1. Len(customer_queue[s]) = 1
          <7>1. Len(customer_queue[s]) \in Nat /\ Len(customer_queue[s]) # 0
            BY <4>1
          <7>2. \A n \in Nat : n # 0 /\ n <= 1 => n = 1
            OBVIOUS
          <7>. QED  BY <5>1, <7>1, <7>2
        <6>. QED  BY <4>1, <6>1
      <5>3. spc[s] \notin {"clear", "acquire", "serve", "acquireDone", "done"}
        BY <3>0, <5>2 DEF StationInv, Serving, Wakeup, Shutdown
      <5>. QED  BY <3>a, <5>2, <5>3 DEF TypeOK, StationPC
    <4>6. CASE Len(customer_queue[s]) <= 1
      BY <3>0, <3>a, <4>1, <4>2, <4>4, <4>5, <4>6 DEF Wakeup
    <4>7. CASE ~(Len(customer_queue[s]) <= 1)
      <5>1. start_serve_event'[s] = start_serve_event[s]
        BY <4>2, <4>7 DEF TypeOK
      <5>2. Len(customer_queue[s]) # 1 /\ ~Shutdown(s)
        BY <3>0, <4>1, <4>7 DEF Shutdown
      <5>. QED  BY <3>0, <4>1, <4>4, <5>1, <5>2 DEF StationInv, Wakeup
    <4>. QED  BY <4>6, <4>7
  <3>. QED  BY <3>1, <3>2, <3>3 DEF StationInv
<2>. QED  BY <2>1, <2>2
<1>5. Closing' /\ LockLeaksOnlyAtShutdown'
  BY DEF QueueWake, WakeTest, Goto, TypeOK, Closing, LockLeaksOnlyAtShutdown, AllLeft, StationInv, Wakeup, Shutdown, OnRoute, Here, LockOwned
<1>. QED  BY <1>1, <1>2, <1>3, <1>4, <1>5

\* The customer waits in the queue it joined.
LEMMA QueueReleaseKeeps ==
  ASSUME IInv, NEW c \in Customers, QueueRelease(c)
  PROVE  IInv'
<1>. USE IdAssumption DEF IInv, queueVars, statVars, purchaseVars, mainVars
<1>1. TypeOK'
  BY DEF TypeOK, QueueRelease, Goto, CustomerPC, StationPC, MainPC, OnRoute
<1>2. OnRoute' /\ LockOwned'
<2>1. Here(c) \in Stations /\ lock[Here(c)] = c
  BY HereType DEF OnRoute, QueueRelease, Goto, LockOwned
<2>2. OnRoute'
  BY DEF OnRoute, QueueRelease, Goto, TypeOK
<2>3. ASSUME NEW x \in Customers, cpc'[x] \in {"append", "wake", "release"}
      PROVE  lock'[Here(x)'] = x
  <3>1. x # c /\ cpc[x] = cpc'[x] /\ lock[Here(x)] = x
    BY <2>3 DEF QueueRelease, Goto, TypeOK, LockOwned
  <3>2. Here(x) \in Stations /\ Here(x)' = Here(x) /\ Here(x) # Here(c)
    BY <2>1, <2>3, <3>1, HereType DEF QueueRelease, Here, OnRoute
  <3>. QED  BY <2>1, <3>1, <3>2 DEF QueueRelease, TypeOK
<2>4. \A s \in Stations : spc'[s] \in {"check", "pop", "wakeCustomer", "again"} => lock'[s] = s
  BY <2>1 DEF QueueRelease, TypeOK, LockOwned
<2>. QED  BY <2>2, <2>3, <2>4 DEF LockOwned
<1>3. AppendedLast' /\ FinishedWaits'
<2>1. AppendedLast'
  BY DEF QueueRelease, Goto, TypeOK, Here, AppendedLast
<2>2. FinishedWaits'
  BY DEF QueueRelease, Goto, TypeOK, FinishedWaits
<2>. QED  BY <2>1, <2>2
<1>4. \A t \in Stations : StationInv(t)'
<2>1. ASSUME NEW t \in Stations, t # Here(c) PROVE StationInv(t)'
  BY <2>1, Frame DEF QueueRelease, Goto, TypeOK, AllLeft, QueuePC
<2>2. ASSUME NEW s \in Stations, s = Here(c) PROVE StationInv(s)'
  <3>0. /\ cpc[c] = "release" /\ cpc'[c] = "wait"
        /\ \A x \in Customers : x # c => cpc'[x] = cpc[x]
        /\ \A x \in Customers : Here(x)' = Here(x)
        /\ finished_serve_event' = finished_serve_event
        /\ serving' = serving /\ spc' = spc /\ keep_running' = keep_running
        /\ ~AllLeft
    BY DEF QueueRelease, Goto, TypeOK, Here, AllLeft
  <3>a. customer_queue' = customer_queue /\ start_serve_event' = start_serve_event
    BY DEF QueueRelease
  <3>1. Queued(s)'
    BY <2>2, <3>0, <3>a, Members DEF StationInv, Queued, QueuePC
  <3>2. Serving(s)'
    BY <2>2, <3>0, <3>a, Members DEF StationInv, Serving
  <3>3. Wakeup(s)'
    BY <2>2, <3>0, <3>a, Members DEF StationInv, Wakeup, Shutdown
  <3>. QED  BY <3>1, <3>2, <3>3 DEF StationInv
<2>. QED  BY <2>1, <2>2
<1>5. Closing' /\ LockLeaksOnlyAtShutdown'
  BY DEF QueueRelease, Goto, TypeOK, Closing, LockLeaksOnlyAtShutdown, AllLeft, StationInv, Wakeup, Shutdown, OnRoute, Here, LockOwned
<1>. QED  BY <1>1, <1>2, <1>3, <1>4, <1>5

\* A customer whose event is set has left the queue.
LEMMA WaitServedKeeps ==
  ASSUME IInv, NEW c \in Customers, WaitServed(c)
  PROVE  IInv'
<1>. USE IdAssumption DEF IInv, queueVars, statVars, purchaseVars, mainVars
<1>1. TypeOK'
  BY DEF TypeOK, WaitServed, Goto, CustomerPC, StationPC, MainPC, OnRoute
<1>2. OnRoute' /\ LockOwned'
<2>1. OnRoute'
  BY DEF WaitServed, Goto, TypeOK, Here, OnRoute
<2>2. LockOwned'
  BY DEF WaitServed, Goto, TypeOK, Here, LockOwned
<2>. QED  BY <2>1, <2>2
<1>3. AppendedLast' /\ FinishedWaits'
<2>1. AppendedLast'
  BY DEF WaitServed, Goto, TypeOK, Here, AppendedLast
<2>2. FinishedWaits'
  BY DEF WaitServed, Goto, TypeOK, FinishedWaits
<2>. QED  BY <2>1, <2>2
<1>4. \A t \in Stations : StationInv(t)'
<2>1. ASSUME NEW t \in Stations, t # Here(c) PROVE StationInv(t)'
  BY <2>1, Frame DEF WaitServed, Goto, TypeOK, AllLeft, QueuePC
<2>2. ASSUME NEW s \in Stations, s = Here(c) PROVE StationInv(s)'
  <3>0. /\ cpc[c] = "wait" /\ cpc'[c] = "clear"
        /\ \A x \in Customers : x # c => cpc'[x] = cpc[x]
        /\ \A x \in Customers : Here(x)' = Here(x)
        /\ finished_serve_event' = finished_serve_event
        /\ serving' = serving /\ spc' = spc /\ keep_running' = keep_running
        /\ ~AllLeft
    BY DEF WaitServed, Goto, TypeOK, Here, AllLeft
  <3>a. /\ customer_queue' = customer_queue /\ start_serve_event' = start_serve_event
        /\ finished_serve_event[c]
    BY DEF WaitServed
  <3>b. \A i \in 1 .. Len(customer_queue[s]) : customer_queue[s][i] \in Customers \ {c}
    BY <3>a, Members DEF StationInv, Queued
  <3>1. Queued(s)'
    BY <2>2, <3>0, <3>a, <3>b, Members DEF StationInv, Queued
  <3>2. Serving(s)'
    BY <2>2, <3>0, <3>a, <3>b, Members DEF StationInv, Serving
  <3>3. Wakeup(s)'
    BY <2>2, <3>0, <3>a, <3>b, Members DEF StationInv, Wakeup, Shutdown
  <3>. QED  BY <3>1, <3>2, <3>3 DEF StationInv
<2>. QED  BY <2>1, <2>2
<1>5. Closing' /\ LockLeaksOnlyAtShutdown'
  BY DEF WaitServed, Goto, TypeOK, Closing, LockLeaksOnlyAtShutdown, AllLeft, StationInv, Wakeup, Shutdown, OnRoute, Here, LockOwned
<1>. QED  BY <1>1, <1>2, <1>3, <1>4, <1>5

\* The event is consumed before the customer moves on.
LEMMA ClearFinishedKeeps ==
  ASSUME IInv, NEW c \in Customers, ClearFinished(c)
  PROVE  IInv'
<1>. USE IdAssumption DEF IInv, queueVars, statVars, purchaseVars, mainVars
<1>1. TypeOK'
  BY DEF TypeOK, ClearFinished, Goto, CustomerPC, StationPC, MainPC, OnRoute
<1>2. OnRoute' /\ LockOwned'
<2>1. OnRoute'
  BY DEF ClearFinished, Goto, TypeOK, Here, OnRoute
<2>2. LockOwned'
  BY DEF ClearFinished, Goto, TypeOK, Here, LockOwned
<2>. QED  BY <2>1, <2>2
<1>3. AppendedLast' /\ FinishedWaits'
<2>1. AppendedLast'
  BY DEF ClearFinished, Goto, TypeOK, Here, AppendedLast
<2>2. FinishedWaits'
  BY DEF ClearFinished, Goto, TypeOK, FinishedWaits
<2>. QED  BY <2>1, <2>2
<1>4. \A t \in Stations : StationInv(t)'
  BY OutsideFrame DEF ClearFinished, Goto, TypeOK, QueuePC, Here
<1>5. Closing' /\ LockLeaksOnlyAtShutdown'
  BY DEF ClearFinished, Goto, TypeOK, Closing, LockLeaksOnlyAtShutdown, AllLeft, StationInv, Wakeup, Shutdown, OnRoute, Here, LockOwned
<1>. QED  BY <1>1, <1>2, <1>3, <1>4, <1>5

\* Leaving shortens the route; the last stop ends the thread.
LEMMA LeaveKeeps ==
  ASSUME IInv, NEW c \in Customers, Leave(c)
  PROVE  IInv'
<1>. USE IdAssumption DEF IInv, queueVars, statVars, purchaseVars, mainVars
<1>0. /\ Here(c) \in Stations
      /\ Tail(station_list[c]) \in Seq(Stops)
      /\ cpc[c] = "leave"
      /\ cpc' = [cpc EXCEPT ![c] = IF Tail(station_list[c]) = << >> THEN "done" ELSE "travel"]
  BY HereType DEF OnRoute, Leave, Goto
<1>1. TypeOK'
<2>1. station_list' \in [Customers -> Seq(Stops)]
  BY <1>0 DEF TypeOK, Leave, Stops
<2>2. cpc' \in [Customers -> CustomerPC]
  BY <1>0 DEF TypeOK, CustomerPC
<2>3. full_purchase' \in [Customers -> BOOLEAN]
  <3>1. \/ full_purchase' = [full_purchase EXCEPT ![c] = ~skipped_station[c]]
        \/ full_purchase' = full_purchase
    BY DEF Leave
  <3>2. full_purchase \in [Customers -> BOOLEAN]
    BY DEF TypeOK
  <3>. QED  BY <3>1, <3>2
<2>. QED  BY <2>1, <2>2, <2>3 DEF TypeOK, Leave, Stops
<1>2. OnRoute' /\ LockOwned'
<2>1. OnRoute'
  BY <1>0 DEF OnRoute, Leave, TypeOK
<2>2. LockOwned'
  BY <1>0 DEF LockOwned, Leave, TypeOK, Here
<2>. QED  BY <2>1, <2>2
<1>3. AppendedLast' /\ FinishedWaits'
<2>1. AppendedLast'
  BY <1>0 DEF AppendedLast, Leave, TypeOK, Here
<2>2. FinishedWaits'
  BY <1>0 DEF FinishedWaits, Leave, TypeOK
<2>. QED  BY <2>1, <2>2
<1>4. \A t \in Stations : StationInv(t)'
<2>1. \A x \in Customers : x # c => cpc'[x] = cpc[x] /\ station_list'[x] = station_list[x]
  BY <1>0 DEF TypeOK, Leave
<2>. QED  BY <1>0, <2>1, OutsideFrame DEF Leave, QueuePC
<1>5. Closing' /\ LockLeaksOnlyAtShutdown'
  BY DEF Leave, Goto, TypeOK, Closing, LockLeaksOnlyAtShutdown, AllLeft, StationInv, Wakeup, Shutdown, OnRoute, Here, LockOwned
<1>. QED  BY <1>1, <1>2, <1>3, <1>4, <1>5

\* A stopped station ends; a running one waits.
LEMMA RunLoopKeeps ==
  ASSUME IInv, NEW s \in Stations, RunLoop(s)
  PROVE  IInv'
<1>. USE IdAssumption DEF IInv, queueVars, statVars, purchaseVars, mainVars
<1>0. /\ spc[s] = "loop"
      /\ spc' = [spc EXCEPT ![s] = IF keep_running[s] THEN "wait" ELSE "done"]
  BY DEF RunLoop, SGoto
<1>1. TypeOK'
<2>1. spc' \in [Stations -> StationPC]
  BY <1>0 DEF TypeOK, StationPC
<2>. QED  BY <2>1 DEF TypeOK, RunLoop
<1>2. OnRoute' /\ LockOwned'
<2>1. OnRoute'
  BY DEF RunLoop, SGoto, TypeOK, Here, OnRoute
<2>2. LockOwned'
  BY DEF RunLoop, SGoto, TypeOK, Here, LockOwned
<2>. QED  BY <2>1, <2>2
<1>3. AppendedLast' /\ FinishedWaits'
<2>1. AppendedLast'
  BY DEF RunLoop, SGoto, TypeOK, Here, AppendedLast
<2>2. FinishedWaits'
  BY DEF RunLoop, SGoto, TypeOK, FinishedWaits
<2>. QED  BY <2>1, <2>2
<1>4. \A t \in Stations : StationInv(t)'
<2>1. ASSUME NEW t \in Stations, t # s PROVE StationInv(t)'
  <3>1. spc'[t] = spc[t]
    BY <1>0, <2>1 DEF TypeOK
  <3>. QED  BY <3>1, Frame DEF RunLoop, AllLeft
<2>2. Queued(s)'
  BY DEF RunLoop, SGoto, StationInv, Queued, Here
<2>3. Serving(s)'
  <3>1. spc'[s] \in {"wait", "done"}
    BY <1>0 DEF TypeOK
  <3>. QED  BY <3>1 DEF Serving
<2>4. Wakeup(s)'
  <3>1. CASE keep_running[s]
    BY <1>0, <3>1 DEF RunLoop, TypeOK, StationInv, Wakeup, Shutdown, AllLeft
  <3>2. CASE ~keep_running[s]
    BY <1>0, <3>2 DEF RunLoop, TypeOK, StationInv, Wakeup, Shutdown, AllLeft, Closing
  <3>. QED  BY <3>1, <3>2
<2>. QED  BY <2>1, <2>2, <2>3, <2>4 DEF StationInv
<1>5. Closing' /\ LockLeaksOnlyAtShutdown'
  BY DEF RunLoop, SGoto, TypeOK, Closing, LockLeaksOnlyAtShutdown, AllLeft, StationInv, Wakeup, Shutdown, OnRoute, Here, LockOwned
<1>. QED  BY <1>1, <1>2, <1>3, <1>4, <1>5

\* The event is never set without a customer, before the shutdown.
LEMMA WaitForCustomerKeeps ==
  ASSUME IInv, NEW s \in Stations, WaitForCustomer(s)
  PROVE  IInv'
<1>. USE IdAssumption DEF IInv, queueVars, statVars, purchaseVars, mainVars
<1>1. TypeOK'
  BY DEF TypeOK, WaitForCustomer, SGoto, CustomerPC, StationPC, MainPC, OnRoute
<1>2. OnRoute' /\ LockOwned'
<2>1. OnRoute'
  BY DEF WaitForCustomer, SGoto, TypeOK, Here, OnRoute
<2>2. LockOwned'
  BY DEF WaitForCustomer, SGoto, TypeOK, Here, LockOwned
<2>. QED  BY <2>1, <2>2
<1>3. AppendedLast' /\ FinishedWaits'
<2>1. AppendedLast'
  BY DEF WaitForCustomer, SGoto, TypeOK, Here, AppendedLast
<2>2. FinishedWaits'
  BY DEF WaitForCustomer, SGoto, TypeOK, FinishedWaits
<2>. QED  BY <2>1, <2>2
<1>4. \A t \in Stations : StationInv(t)'
<2>1. ASSUME NEW t \in Stations, t # s PROVE StationInv(t)'
  BY <2>1, Frame DEF WaitForCustomer, SGoto, TypeOK, AllLeft, QueuePC
<2>2. Queued(s)'
  BY DEF WaitForCustomer, SGoto, StationInv, Queued, Here
<2>3. Serving(s)'
  BY Members DEF WaitForCustomer, SGoto, TypeOK, StationInv, Serving, Here
<2>4. Wakeup(s)'
  BY Members DEF WaitForCustomer, SGoto, TypeOK, StationInv, Wakeup, Shutdown, AllLeft
<2>. QED  BY <2>1, <2>2, <2>3, <2>4 DEF StationInv
<1>5. Closing' /\ LockLeaksOnlyAtShutdown'
  BY DEF WaitForCustomer, SGoto, TypeOK, Closing, LockLeaksOnlyAtShutdown, AllLeft, StationInv, Wakeup, Shutdown, OnRoute, Here, LockOwned
<1>. QED  BY <1>1, <1>2, <1>3, <1>4, <1>5

\* Clearing consumes the wake-up of the customer at the head.
LEMMA ClearStartKeeps ==
  ASSUME IInv, NEW s \in Stations, ClearStart(s)
  PROVE  IInv'
<1>. USE IdAssumption DEF IInv, queueVars, statVars, purchaseVars, mainVars
<1>1. TypeOK'
  BY DEF TypeOK, ClearStart, SGoto, CustomerPC, StationPC, MainPC, OnRoute
<1>2. OnRoute' /\ LockOwned'
<2>1. OnRoute'
  BY DEF ClearStart, SGoto, TypeOK, Here, OnRoute
<2>2. LockOwned'
  BY DEF ClearStart, SGoto, TypeOK, Here, LockOwned
<2>. QED  BY <2>1, <2>2
<1>3. AppendedLast' /\ FinishedWaits'
<2>1. AppendedLast'
  BY DEF ClearStart, SGoto, TypeOK, Here, AppendedLast
<2>2. FinishedWaits'
  BY DEF ClearStart, SGoto, TypeOK, FinishedWaits
<2>. QED  BY <2>1, <2>2
<1>4. \A t \in Stations : StationInv(t)'
<2>1. ASSUME NEW t \in Stations, t # s PROVE StationInv(t)'
  BY <2>1, Frame DEF ClearStart, SGoto, TypeOK, AllLeft, QueuePC
<2>2. Queued(s)'
  BY DEF ClearStart, SGoto, StationInv, Queued, Here
<2>3. Serving(s)'
  BY Members DEF ClearStart, SGoto, TypeOK, StationInv, Serving, Here
<2>4. Wakeup(s)'
  BY Members DEF ClearStart, SGoto, TypeOK, StationInv, Wakeup, Shutdown, AllLeft
<2>. QED  BY <2>1, <2>2, <2>3, <2>4 DEF StationInv
<1>5. Closing' /\ LockLeaksOnlyAtShutdown'
  BY DEF ClearStart, SGoto, TypeOK, Closing, LockLeaksOnlyAtShutdown, AllLeft, StationInv, Wakeup, Shutdown, OnRoute, Here, LockOwned
<1>. QED  BY <1>1, <1>2, <1>3, <1>4, <1>5

\* Nobody else is in the critical section of a free lock.
LEMMA ServeAcquireKeeps ==
  ASSUME IInv, NEW s \in Stations, ServeAcquire(s)
  PROVE  IInv'
<1>. USE IdAssumption DEF IInv, queueVars, statVars, purchaseVars, mainVars
<1>1. TypeOK'
  BY DEF TypeOK, ServeAcquire, SGoto, CustomerPC, StationPC, MainPC, OnRoute
<1>2. OnRoute' /\ LockOwned'
<2>1. OnRoute'
  BY DEF ServeAcquire, SGoto, TypeOK, Here, OnRoute
<2>2. LockOwned'
  <3>1. /\ lock[s] = Nobody /\ lock' = [lock EXCEPT ![s] = s]
        /\ UNCHANGED <<cpc, station_list>>
        /\ \A t \in Stations \ {s} : spc'[t] = spc[t]
    BY DEF ServeAcquire, SGoto, TypeOK
  <3>2. ASSUME NEW x \in Customers, cpc[x] \in {"append", "wake", "release"}
        PROVE  lock'[Here(x)] = x
    <4>1. lock[Here(x)] = x /\ Here(x) # s
      BY <3>1, <3>2 DEF LockOwned
    <4>. QED  BY <3>1, <4>1, <3>2, HereType DEF OnRoute, TypeOK
  <3>3. \A t \in Stations :
          spc'[t] \in {"check", "pop", "wakeCustomer", "again"} => lock'[t] = t
    BY <3>1 DEF LockOwned, TypeOK
  <3>. QED  BY <3>1, <3>2, <3>3 DEF LockOwned, Here
<2>. QED  BY <2>1, <2>2
<1>3. AppendedLast' /\ FinishedWaits'
<2>1. AppendedLast'
  BY DEF ServeAcquire, SGoto, TypeOK, Here, AppendedLast
<2>2. FinishedWaits'
  BY DEF ServeAcquire, SGoto, TypeOK, FinishedWaits
<2>. QED  BY <2>1, <2>2
<1>4. \A t \in Stations : StationInv(t)'
<2>1. ASSUME NEW t \in Stations, t # s PROVE StationInv(t)'
  BY <2>1, Frame DEF ServeAcquire, SGoto, TypeOK, AllLeft, QueuePC
<2>2. Queued(s)'
  BY DEF ServeAcquire, SGoto, StationInv, Queued, Here
<2>3. Serving(s)'
  BY Members DEF ServeAcquire, SGoto, TypeOK, StationInv, Serving, Here
<2>4. Wakeup(s)'
  BY Members DEF ServeAcquire, SGoto, TypeOK, StationInv, Wakeup, Shutdown, AllLeft
<2>. QED  BY <2>1, <2>2, <2>3, <2>4 DEF StationInv
<1>5. Closing' /\ LockLeaksOnlyAtShutdown'
  BY DEF ServeAcquire, SGoto, TypeOK, Closing, LockLeaksOnlyAtShutdown, AllLeft, StationInv, Wakeup, Shutdown, OnRoute, Here, LockOwned
<1>. QED  BY <1>1, <1>2, <1>3, <1>4, <1>5

\* An empty queue here means shutdown: the lock is kept.
LEMMA ServeEmptyKeeps ==
  ASSUME IInv, NEW s \in Stations, ServeEmpty(s)
  PROVE  IInv'
<1>. USE IdAssumption DEF IInv, queueVars, statVars, purchaseVars, mainVars
<1>1. TypeOK'
  BY DEF TypeOK, ServeEmpty, SGoto, CustomerPC, StationPC, MainPC, OnRoute
<1>2. OnRoute' /\ LockOwned'
<2>1. OnRoute'
  BY DEF ServeEmpty, SGoto, TypeOK, Here, OnRoute
<2>2. LockOwned'
  BY DEF ServeEmpty, SGoto, TypeOK, Here, LockOwned
<2>. QED  BY <2>1, <2>2
<1>3. AppendedLast' /\ FinishedWaits'
<2>1. AppendedLast'
  BY DEF ServeEmpty, SGoto, TypeOK, Here, AppendedLast
<2>2. FinishedWaits'
  BY DEF ServeEmpty, SGoto, TypeOK, FinishedWaits
<2>. QED  BY <2>1, <2>2
<1>4. \A t \in Stations : StationInv(t)'
<2>1. ASSUME NEW t \in Stations, t # s PROVE StationInv(t)'
  BY <2>1, Frame DEF ServeEmpty, SGoto, TypeOK, AllLeft, QueuePC
<2>2. Queued(s)'
  BY DEF ServeEmpty, SGoto, StationInv, Queued, Here
<2>3. Serving(s)'
  BY Members DEF ServeEmpty, SGoto, TypeOK, StationInv, Serving, Here
<2>4. Wakeup(s)'
  BY Members DEF ServeEmpty, SGoto, TypeOK, StationInv, Wakeup, Shutdown, AllLeft
<2>. QED  BY <2>1, <2>2, <2>3, <2>4 DEF StationInv
<1>5. Closing' /\ LockLeaksOnlyAtShutdown'
  BY DEF ServeEmpty, SGoto, TypeOK, Closing, LockLeaksOnlyAtShutdown, AllLeft, StationInv, Wakeup, Shutdown, OnRoute, Here, LockOwned
<1>. QED  BY <1>1, <1>2, <1>3, <1>4, <1>5

\* The head of a queue seen under the lock is waiting.
LEMMA ServeHeadKeeps ==
  ASSUME IInv, NEW s \in Stations, ServeHead(s)
  PROVE  IInv'
<1>. USE IdAssumption DEF IInv, queueVars, statVars, purchaseVars, mainVars
<1>0. Head(customer_queue[s]) \in Customers /\ Head(customer_queue[s]) = customer_queue[s][1]
  BY HeadTailProperties DEF TypeOK, ServeHead
<1>1. TypeOK'
  BY <1>0 DEF TypeOK, ServeHead, SGoto, StationPC
<1>2. OnRoute' /\ LockOwned'
<2>1. lock[s] = s
  BY DEF LockOwned, ServeHead, SGoto
<2>2. OnRoute'
  BY DEF OnRoute, ServeHead
<2>3. LockOwned'
  <3>1. /\ lock' = [lock EXCEPT ![s] = Nobody] /\ UNCHANGED <<cpc, station_list>>
        /\ spc' = [spc EXCEPT ![s] = "serve"]
    BY DEF ServeHead, SGoto
  <3>2. ASSUME NEW x \in Customers, cpc[x] \in {"append", "wake", "release"}
        PROVE  lock'[Here(x)] = x
    <4>1. lock[Here(x)] = x /\ Here(x) # s
      BY <2>1, <3>2 DEF LockOwned
    <4>. QED  BY <3>1, <4>1, <3>2, HereType DEF OnRoute, TypeOK
  <3>3. \A t \in Stations :
          spc'[t] \in {"check", "pop", "wakeCustomer", "again"} => lock'[t] = t
    BY <3>1 DEF LockOwned, TypeOK
  <3>. QED  BY <3>1, <3>2, <3>3 DEF LockOwned, Here
<2>. QED  BY <2>2, <2>3
<1>3. AppendedLast' /\ FinishedWaits'
<2>1. AppendedLast'
  BY DEF ServeHead, SGoto, TypeOK, Here, AppendedLast
<2>2. FinishedWaits'
  BY DEF ServeHead, SGoto, TypeOK, FinishedWaits
<2>. QED  BY <2>1, <2>2
<1>4. \A t \in Stations : StationInv(t)'
<2>1. ASSUME NEW t \in Stations, t # s PROVE StationInv(t)'
  BY <2>1, Frame DEF ServeHead, SGoto, TypeOK, AllLeft, QueuePC
<2>2. Queued(s)'
  BY DEF ServeHead, SGoto, StationInv, Queued, Here
<2>3. Serving(s)'
  <3>1. /\ lock[s] = s /\ customer_queue[s][1] \in Customers
        /\ cpc[customer_queue[s][1]] \in QueuePC /\ Here(customer_queue[s][1]) = s
    BY <1>0, Members DEF LockOwned, ServeHead, SGoto, StationInv, Queued
  <3>2. cpc[customer_queue[s][1]] = "wait"
    BY <3>1 DEF LockOwned, QueuePC
  <3>. QED  BY <1>0, <3>2 DEF ServeHead, SGoto, TypeOK, Serving
<2>4. Wakeup(s)'
  BY Members DEF ServeHead, SGoto, TypeOK, StationInv, Wakeup, Shutdown, AllLeft
<2>. QED  BY <2>1, <2>2, <2>3, <2>4 DEF StationInv
<1>5. Closing' /\ LockLeaksOnlyAtShutdown'
  BY DEF ServeHead, SGoto, TypeOK, Closing, LockLeaksOnlyAtShutdown, AllLeft, StationInv, Wakeup, Shutdown, OnRoute, Here, LockOwned
<1>. QED  BY <1>1, <1>2, <1>3, <1>4, <1>5

\* Serving leaves the queue alone.
LEMMA ServeSleepKeeps ==
  ASSUME IInv, NEW s \in Stations, ServeSleep(s)
  PROVE  IInv'
<1>. USE IdAssumption DEF IInv, queueVars, statVars, purchaseVars, mainVars
<1>1. TypeOK'
  BY DEF TypeOK, ServeSleep, SGoto, CustomerPC, StationPC, MainPC, OnRoute
<1>2. OnRoute' /\ LockOwned'
<2>1. OnRoute'
  BY DEF ServeSleep, SGoto, TypeOK, Here, OnRoute
<2>2. LockOwned'
  BY DEF ServeSleep, SGoto, TypeOK, Here, LockOwned
<2>. QED  BY <2>1, <2>2
<1>3. AppendedLast' /\ FinishedWaits'
<2>1. AppendedLast'
  BY DEF ServeSleep, SGoto, TypeOK, Here, AppendedLast
<2>2. FinishedWaits'
  BY DEF ServeSleep, SGoto, TypeOK, FinishedWaits
<2>. QED  BY <2>1, <2>2
<1>4. \A t \in Stations : StationInv(t)'
<2>1. ASSUME NEW t \in Stations, t # s PROVE StationInv(t)'
  BY <2>1, Frame DEF ServeSleep, SGoto, TypeOK, AllLeft, QueuePC
<2>2. Queued(s)'
  BY DEF ServeSleep, SGoto, StationInv, Queued, Here
<2>3. Serving(s)'
  BY Members DEF ServeSleep, SGoto, TypeOK, StationInv, Serving, Here
<2>4. Wakeup(s)'
  BY Members DEF ServeSleep, SGoto, TypeOK, StationInv, Wakeup, Shutdown, AllLeft
<2>. QED  BY <2>1, <2>2, <2>3, <2>4 DEF StationInv
<1>5. Closing' /\ LockLeaksOnlyAtShutdown'
  BY DEF ServeSleep, SGoto, TypeOK, Closing, LockLeaksOnlyAtShutdown, AllLeft, StationInv, Wakeup, Shutdown, OnRoute, Here, LockOwned
<1>. QED  BY <1>1, <1>2, <1>3, <1>4, <1>5

\* Nobody else is in the critical section of a free lock.
LEMMA ServeAcquireDoneKeeps ==
  ASSUME IInv, NEW s \in Stations, ServeAcquireDone(s)
  PROVE  IInv'
<1>. USE IdAssumption DEF IInv, queueVars, statVars, purchaseVars, mainVars
<1>1. TypeOK'
  BY DEF TypeOK, ServeAcquireDone, SGoto, CustomerPC, StationPC, MainPC, OnRoute
<1>2. OnRoute' /\ LockOwned'
<2>1. OnRoute'
  BY DEF ServeAcquireDone, SGoto, TypeOK, Here, OnRoute
<2>2. LockOwned'
  <3>1. /\ lock[s] = Nobody /\ lock' = [lock EXCEPT ![s] = s]
        /\ UNCHANGED <<cpc, station_list>>
        /\ \A t \in Stations \ {s} : spc'[t] = spc[t]
    BY DEF ServeAcquireDone, SGoto, TypeOK
  <3>2. ASSUME NEW x \in Customers, cpc[x] \in {"append", "wake", "release"}
        PROVE  lock'[Here(x)] = x
    <4>1. lock[Here(x)] = x /\ Here(x) # s
      BY <3>1, <3>2 DEF LockOwned
    <4>. QED  BY <3>1, <4>1, <3>2, HereType DEF OnRoute, TypeOK
  <3>3. \A t \in Stations :
          spc'[t] \in {"check", "pop", "wakeCustomer", "again"} => lock'[t] = t
    BY <3>1 DEF LockOwned, TypeOK
  <3>. QED  BY <3>1, <3>2, <3>3 DEF LockOwned, Here
<2>. QED  BY <2>1, <2>2
<1>3. AppendedLast' /\ FinishedWaits'
<2>1. AppendedLast'
  BY DEF ServeAcquireDone, SGoto, TypeOK, Here, AppendedLast
<2>2. FinishedWaits'
  BY DEF ServeAcquireDone, SGoto, TypeOK, FinishedWaits
<2>. QED  BY <2>1, <2>2
<1>4. \A t \in Stations : StationInv(t)'
<2>1. ASSUME NEW t \in Stations, t # s PROVE StationInv(t)'
  BY <2>1, Frame DEF ServeAcquireDone, SGoto, TypeOK, AllLeft, QueuePC
<2>2. Queued(s)'
  BY DEF ServeAcquireDone, SGoto, StationInv, Queued, Here
<2>3. Serving(s)'
  BY Members DEF ServeAcquireDone, SGoto, TypeOK, StationInv, Serving, Here
<2>4. Wakeup(s)'
  BY Members DEF ServeAcquireDone, SGoto, TypeOK, StationInv, Wakeup, Shutdown, AllLeft
<2>. QED  BY <2>1, <2>2, <2>3, <2>4 DEF StationInv
<1>5. Closing' /\ LockLeaksOnlyAtShutdown'
  BY DEF ServeAcquireDone, SGoto, TypeOK, Closing, LockLeaksOnlyAtShutdown, AllLeft, StationInv, Wakeup, Shutdown, OnRoute, Here, LockOwned
<1>. QED  BY <1>1, <1>2, <1>3, <1>4, <1>5

\* The customer popped is the one served, and it is there once.
LEMMA ServePopKeeps ==
  ASSUME IInv, NEW s \in Stations, ServePop(s)
  PROVE  IInv'
<1>. USE IdAssumption DEF IInv, queueVars, statVars, purchaseVars, mainVars
<1>0. /\ customer_queue[s] # << >>
      /\ customer_queue[s] \in Seq(Customers)
      /\ Tail(customer_queue[s]) \in Seq(Customers)
      /\ Len(Tail(customer_queue[s])) = Len(customer_queue[s]) - 1
      /\ \A i \in 1 .. Len(Tail(customer_queue[s])) :
           Tail(customer_queue[s])[i] = customer_queue[s][i + 1]
      /\ customer_queue'[s] = Tail(customer_queue[s])
      /\ lock[s] = s
  <2>1. customer_queue[s] # << >>
    BY DEF ServePop, SGoto, StationInv, Serving
  <2>. QED  BY <2>1, HeadTailProperties DEF TypeOK, ServePop, SGoto, LockOwned
<1>1. TypeOK'
  BY <1>0 DEF TypeOK, ServePop, SGoto, StationPC
<1>2. OnRoute' /\ LockOwned'
<2>1. OnRoute'
  BY DEF ServePop, SGoto, TypeOK, Here, OnRoute
<2>2. LockOwned'
  BY DEF ServePop, SGoto, TypeOK, Here, LockOwned
<2>. QED  BY <2>1, <2>2
<1>3. AppendedLast' /\ FinishedWaits'
<2>1. FinishedWaits'
  BY DEF FinishedWaits, ServePop
<2>2. ASSUME NEW x \in Customers, cpc[x] = "wake"
      PROVE  Here(x) \in Stations /\ Here(x) # s
  BY <1>0, <2>2, HereType DEF OnRoute, LockOwned
<2>3. AppendedLast'
  BY <2>2 DEF AppendedLast, ServePop, TypeOK, Here
<2>. QED  BY <2>1, <2>3
<1>4. \A t \in Stations : StationInv(t)'
<2>1. ASSUME NEW t \in Stations, t # s PROVE StationInv(t)'
  BY <2>1, Frame DEF ServePop, SGoto, TypeOK, AllLeft, QueuePC
<2>2. Queued(s)'
  BY DEF ServePop, SGoto, StationInv, Queued, Here
<2>3. Serving(s)'
  <3>1. /\ serving[s] = customer_queue[s][1] /\ serving[s] \in Customers
        /\ cpc[serving[s]] = "wait" /\ ~finished_serve_event[serving[s]] /\ Here(serving[s]) = s
    BY <1>0, Members DEF ServePop, SGoto, StationInv, Serving, Queued
  <3>2. \A i \in 1 .. Len(customer_queue'[s]) : customer_queue'[s][i] # serving[s]
    BY <1>0, <3>1, Members DEF StationInv, Queued
  <3>3. spc'[s] = "wakeCustomer" /\ serving' = serving /\ cpc' = cpc
    BY DEF ServePop, SGoto, TypeOK
  <3>. QED  BY <3>1, <3>2, <3>3 DEF ServePop, Serving, Here
<2>4. Wakeup(s)'
  BY Members DEF ServePop, SGoto, TypeOK, StationInv, Wakeup, Shutdown, AllLeft
<2>. QED  BY <2>1, <2>2, <2>3, <2>4 DEF StationInv
<1>5. Closing' /\ LockLeaksOnlyAtShutdown'
  BY DEF ServePop, SGoto, TypeOK, Closing, LockLeaksOnlyAtShutdown, AllLeft, StationInv, Wakeup, Shutdown, OnRoute, Here, LockOwned
<1>. QED  BY <1>1, <1>2, <1>3, <1>4, <1>5

\* The event wakes the customer served, which is in no queue.
LEMMA ServeWakeKeeps ==
  ASSUME IInv, NEW s \in Stations, ServeWake(s)
  PROVE  IInv'
<1>. USE IdAssumption DEF IInv, queueVars, statVars, purchaseVars, mainVars
<1>0. /\ serving[s] \in Customers
      /\ cpc[serving[s]] = "wait"
      /\ Here(serving[s]) = s
      /\ \A i \in 1 .. Len(customer_queue[s]) : customer_queue[s][i] # serving[s]
      /\ finished_serve_event' = [finished_serve_event EXCEPT ![serving[s]] = TRUE]
  BY DEF ServeWake, SGoto, StationInv, Serving
<1>1. TypeOK'
  BY DEF TypeOK, ServeWake, SGoto, CustomerPC, StationPC, MainPC, OnRoute
<1>2. OnRoute' /\ LockOwned'
<2>1. OnRoute'
  BY DEF ServeWake, SGoto, TypeOK, Here, OnRoute
<2>2. LockOwned'
  BY DEF ServeWake, SGoto, TypeOK, Here, LockOwned
<2>. QED  BY <2>1, <2>2
<1>3. AppendedLast' /\ FinishedWaits'
<2>1. AppendedLast'
  BY DEF AppendedLast, ServeWake, Here
<2>2. FinishedWaits'
  BY <1>0 DEF FinishedWaits, ServeWake, TypeOK
<2>. QED  BY <2>1, <2>2
<1>4. \A t \in Stations : StationInv(t)'
<2>1. ASSUME NEW t \in Stations, t # s PROVE StationInv(t)'
  <3>1. \A x \in Customers : Here(x) = t => finished_serve_event'[x] = finished_serve_event[x]
    BY <1>0, <2>1 DEF TypeOK
  <3>. QED  BY <2>1, <3>1, Frame DEF ServeWake, SGoto, TypeOK, AllLeft
<2>2. Queued(s)'
  <3>1. \A i \in 1 .. Len(customer_queue[s]) :
          finished_serve_event'[customer_queue[s][i]] = finished_serve_event[customer_queue[s][i]]
    BY <1>0, Members DEF TypeOK
  <3>2. customer_queue' = customer_queue /\ cpc' = cpc /\ station_list' = station_list
    BY DEF ServeWake
  <3>. QED  BY <3>1, <3>2 DEF StationInv, Queued, Here
<2>3. Serving(s)'
  BY Members DEF ServeWake, SGoto, TypeOK, StationInv, Serving, Here
<2>4. Wakeup(s)'
  BY Members DEF ServeWake, SGoto, TypeOK, StationInv, Wakeup, Shutdown, AllLeft
<2>. QED  BY <2>1, <2>2, <2>3, <2>4 DEF StationInv
<1>5. Closing' /\ LockLeaksOnlyAtShutdown'
  BY DEF ServeWake, SGoto, TypeOK, Closing, LockLeaksOnlyAtShutdown, AllLeft, StationInv, Wakeup, Shutdown, OnRoute, Here, LockOwned
<1>. QED  BY <1>1, <1>2, <1>3, <1>4, <1>5

\* A station goes back to sleep only with an empty queue.
LEMMA ServeAgainKeeps ==
  ASSUME IInv, NEW s \in Stations, ServeAgain(s)
  PROVE  IInv'
<1>. USE IdAssumption DEF IInv, queueVars, statVars, purchaseVars, mainVars
<1>0. /\ spc[s] = "again" /\ lock[s] = s
      /\ spc' = [spc EXCEPT ![s] = IF customer_queue[s] # << >> THEN "acquire" ELSE "loop"]
  BY DEF ServeAgain, SGoto, LockOwned
<1>1. TypeOK'
<2>1. spc' \in [Stations -> StationPC]
  BY <1>0 DEF TypeOK, StationPC
<2>2. lock' \in [Stations -> Customers \cup Stations \cup {Nobody}]
  BY DEF TypeOK, ServeAgain
<2>. QED  BY <2>1, <2>2 DEF TypeOK, ServeAgain
<1>2. OnRoute' /\ LockOwned'
<2>1. OnRoute'
  BY DEF OnRoute, ServeAgain
<2>2. ASSUME NEW x \in Customers, cpc[x] \in {"append", "wake", "release"}
      PROVE  lock'[Here(x)'] = x
  <3>1. lock[Here(x)] = x /\ Here(x) # s /\ Here(x) \in Stations /\ Here(x)' = Here(x)
    BY <1>0, <2>2, HereType DEF LockOwned, OnRoute, ServeAgain, Here
  <3>. QED  BY <3>1 DEF ServeAgain, TypeOK
<2>3. \A t \in Stations : spc'[t] \in {"check", "pop", "wakeCustomer", "again"} => lock'[t] = t
  BY <1>0 DEF ServeAgain, TypeOK, LockOwned
<2>. QED  BY <2>1, <2>2, <2>3 DEF LockOwned, ServeAgain
<1>3. AppendedLast' /\ FinishedWaits'
<2>1. AppendedLast'
  BY DEF ServeAgain, SGoto, TypeOK, Here, AppendedLast
<2>2. FinishedWaits'
  BY DEF ServeAgain, SGoto, TypeOK, FinishedWaits
<2>. QED  BY <2>1, <2>2
<1>4. \A t \in Stations : StationInv(t)'
<2>1. ASSUME NEW t \in Stations, t # s PROVE StationInv(t)'
  <3>1. spc'[t] = spc[t]
    BY <1>0, <2>1 DEF TypeOK
  <3>. QED  BY <3>1, Frame DEF ServeAgain, AllLeft
<2>2. Queued(s)'
  BY DEF ServeAgain, SGoto, StationInv, Queued, Here
<2>3. Serving(s)'
  BY Members DEF ServeAgain, SGoto, TypeOK, StationInv, Serving, Here
<2>4. Wakeup(s)'
  <3>1. CASE customer_queue[s] = << >>
    BY <1>0, <3>1 DEF ServeAgain, TypeOK, StationInv, Wakeup, Shutdown, AllLeft
  <3>2. CASE customer_queue[s] # << >>
    <4>1. customer_queue[s][1] \in Customers /\ Here(customer_queue[s][1]) = s
      BY <3>2, Members DEF StationInv, Queued
    <4>2. cpc[customer_queue[s][1]] # "wake"
      BY <1>0, <4>1 DEF LockOwned
    <4>. QED  BY <1>0, <3>2, <4>2 DEF ServeAgain, TypeOK, StationInv, Wakeup, Shutdown, AllLeft
  <3>. QED  BY <3>1, <3>2
<2>. QED  BY <2>1, <2>2, <2>3, <2>4 DEF StationInv
<1>5. Closing' /\ LockLeaksOnlyAtShutdown'
  BY DEF ServeAgain, SGoto, TypeOK, Closing, LockLeaksOnlyAtShutdown, AllLeft, StationInv, Wakeup, Shutdown, OnRoute, Here, LockOwned
<1>. QED  BY <1>1, <1>2, <1>3, <1>4, <1>5

\* Main goes on when everybody has left.
LEMMA JoinCustomersKeeps ==
  ASSUME IInv, JoinCustomers
  PROVE  IInv'
<1>. USE IdAssumption DEF IInv, queueVars, statVars, purchaseVars, mainVars
<1>1. TypeOK'
  BY DEF TypeOK, JoinCustomers, CustomerPC, StationPC, MainPC, OnRoute
<1>2. OnRoute' /\ LockOwned'
<2>1. OnRoute'
  BY DEF JoinCustomers, TypeOK, Here, OnRoute
<2>2. LockOwned'
  BY DEF JoinCustomers, TypeOK, Here, LockOwned
<2>. QED  BY <2>1, <2>2
<1>3. AppendedLast' /\ FinishedWaits'
<2>1. AppendedLast'
  BY DEF JoinCustomers, TypeOK, Here, AppendedLast
<2>2. FinishedWaits'
  BY DEF JoinCustomers, TypeOK, FinishedWaits
<2>. QED  BY <2>1, <2>2
<1>4. \A t \in Stations : StationInv(t)'
  BY Frame DEF JoinCustomers, TypeOK, AllLeft, QueuePC
<1>5. Closing' /\ LockLeaksOnlyAtShutdown'
  BY DEF JoinCustomers, TypeOK, Closing, LockLeaksOnlyAtShutdown, AllLeft, StationInv, Wakeup, Shutdown, OnRoute, Here, LockOwned
<1>. QED  BY <1>1, <1>2, <1>3, <1>4, <1>5

\* The wake-up of main is spurious, and only at the shutdown.
LEMMA WakeStationKeeps ==
  ASSUME IInv, WakeStation
  PROVE  IInv'
<1>. USE IdAssumption DEF IInv, queueVars, statVars, purchaseVars, mainVars
<1>1. TypeOK'
  BY DEF TypeOK, WakeStation, CustomerPC, StationPC, MainPC, OnRoute
<1>2. OnRoute' /\ LockOwned'
<2>1. OnRoute'
  BY DEF WakeStation, TypeOK, Here, OnRoute
<2>2. LockOwned'
  BY DEF WakeStation, TypeOK, Here, LockOwned
<2>. QED  BY <2>1, <2>2
<1>3. AppendedLast' /\ FinishedWaits'
<2>1. AppendedLast'
  BY DEF WakeStation, TypeOK, Here, AppendedLast
<2>2. FinishedWaits'
  BY DEF WakeStation, TypeOK, FinishedWaits
<2>. QED  BY <2>1, <2>2
<1>4. \A t \in Stations : StationInv(t)'
<2>1. ASSUME NEW t \in Stations, t # closing PROVE StationInv(t)'
  BY <2>1, Frame DEF WakeStation, TypeOK, AllLeft
<2>2. ASSUME NEW t \in Stations, t = closing PROVE StationInv(t)'
  <3>1. Shutdown(t)
    BY <2>2 DEF Closing, WakeStation, Shutdown
  <3>2. Queued(t)' /\ Serving(t)'
    BY DEF WakeStation, StationInv, Queued, Serving, Here
  <3>3. Wakeup(t)'
    BY <2>2, <3>1 DEF WakeStation, StationInv, Wakeup, Shutdown, AllLeft, TypeOK
  <3>. QED  BY <3>2, <3>3 DEF StationInv
<2>. QED  BY <2>1, <2>2
<1>5. Closing' /\ LockLeaksOnlyAtShutdown'
  BY DEF WakeStation, TypeOK, Closing, LockLeaksOnlyAtShutdown, AllLeft, StationInv, Wakeup, Shutdown, OnRoute, Here, LockOwned
<1>. QED  BY <1>1, <1>2, <1>3, <1>4, <1>5

\* Joining changes only the main thread.
LEMMA JoinStationsKeeps ==
  ASSUME IInv, JoinStations
  PROVE  IInv'
<1>. USE IdAssumption DEF IInv, queueVars, statVars, purchaseVars, mainVars
<1>1. TypeOK'
  BY DEF TypeOK, JoinStations, CustomerPC, StationPC, MainPC, OnRoute
<1>2. OnRoute' /\ LockOwned'
<2>1. OnRoute'
  BY DEF JoinStations, TypeOK, Here, OnRoute
<2>2. LockOwned'
  BY DEF JoinStations, TypeOK, Here, LockOwned
<2>. QED  BY <2>1, <2>2
<1>3. AppendedLast' /\ FinishedWaits'
<2>1. AppendedLast'
  BY DEF JoinStations, TypeOK, Here, AppendedLast
<2>2. FinishedWaits'
  BY DEF JoinStations, TypeOK, FinishedWaits
<2>. QED  BY <2>1, <2>2
<1>4. \A t \in Stations : StationInv(t)'
  BY Frame DEF JoinStations, TypeOK, AllLeft, QueuePC
<1>5. Closing' /\ LockLeaksOnlyAtShutdown'
  BY DEF JoinStations, TypeOK, Closing, LockLeaksOnlyAtShutdown, AllLeft, StationInv, Wakeup, Shutdown, OnRoute, Here, LockOwned
<1>. QED  BY <1>1, <1>2, <1>3, <1>4, <1>5

\* Stations are stopped after everybody has left.
LEMMA StopStationKeeps ==
  ASSUME IInv, NEW s \in Stations, StopStation(s)
  PROVE  IInv'
<1>. USE IdAssumption DEF IInv, queueVars, statVars, purchaseVars, mainVars
<1>1. TypeOK'
  BY DEF TypeOK, StopStation, CustomerPC, StationPC, MainPC, OnRoute
<1>2. OnRoute' /\ LockOwned'
<2>1. OnRoute'
  BY DEF StopStation, TypeOK, Here, OnRoute
<2>2. LockOwned'
  BY DEF StopStation, TypeOK, Here, LockOwned
<2>. QED  BY <2>1, <2>2
<1>3. AppendedLast' /\ FinishedWaits'
<2>1. AppendedLast'
  BY DEF StopStation, TypeOK, Here, AppendedLast
<2>2. FinishedWaits'
  BY DEF StopStation, TypeOK, FinishedWaits
<2>. QED  BY <2>1, <2>2
<1>4. \A t \in Stations : StationInv(t)'
  BY Frame DEF StopStation, TypeOK, AllLeft, QueuePC
<1>5. Closing' /\ LockLeaksOnlyAtShutdown'
  BY DEF StopStation, TypeOK, Closing, LockLeaksOnlyAtShutdown, AllLeft, StationInv, Wakeup, Shutdown, OnRoute, Here, LockOwned
<1>. QED  BY <1>1, <1>2, <1>3, <1>4, <1>5

-----------------------------------------------------------------------------
(* The theorems.                                                             *)

\* The initial state satisfies the invariant.
LEMMA InitIInv == Init => IInv
<1>. SUFFICES ASSUME Init PROVE IInv
  OBVIOUS
<1>. USE DEF Init
<1>1. TypeOK
  <2>1. customer_queue \in [Stations -> Seq(Customers)]
    BY EmptySeq
  <2>. QED  BY <2>1, RouteAssumption DEF TypeOK, CustomerPC, StationPC, MainPC
<1>2. OnRoute /\ LockOwned /\ AppendedLast /\ FinishedWaits
  BY RouteAssumption DEF OnRoute, LockOwned, AppendedLast, FinishedWaits
<1>3. ASSUME NEW s \in Stations PROVE StationInv(s)
  BY EmptySeq DEF StationInv, Queued, Serving, Wakeup
<1>4. Closing /\ LockLeaksOnlyAtShutdown
  BY IdAssumption DEF Closing, LockLeaksOnlyAtShutdown
<1>. QED  BY <1>1, <1>2, <1>3, <1>4 DEF IInv

\* A stuttering step changes nothing the invariant reads.
LEMMA StutterKeeps == ASSUME IInv, UNCHANGED vars PROVE IInv'
<1>. USE DEF vars, queueVars, statVars, purchaseVars, mainVars
<1>1. TypeOK' /\ OnRoute' /\ LockOwned'
  BY DEF IInv, TypeOK, OnRoute, LockOwned, Here
<1>2. AppendedLast' /\ FinishedWaits' /\ Closing'
  BY DEF IInv, AppendedLast, FinishedWaits, Closing, Here, AllLeft
<1>3. LockLeaksOnlyAtShutdown'
  BY DEF IInv, LockLeaksOnlyAtShutdown, AllLeft
<1>4. \A s \in Stations : StationInv(s)'
  BY DEF IInv, StationInv, Queued, Serving, Wakeup, Shutdown, AllLeft, Here
<1>. QED  BY <1>1, <1>2, <1>3, <1>4 DEF IInv

\* The invariant is inductive.
LEMMA NextIInv == IInv /\ [Next]_vars => IInv'
<1>. SUFFICES ASSUME IInv, [Next]_vars PROVE IInv'
  OBVIOUS
<1>1. ASSUME NEW c \in Customers, CustomerStep(c) PROVE IInv'
  BY <1>1, StartCustomerKeeps, ArriveJoinKeeps, ArriveSkipKeeps, ReadCounterKeeps,
     WriteCounterKeeps, QueueAcquireKeeps, QueueAppendKeeps, QueueWakeKeeps,
     QueueReleaseKeeps, WaitServedKeeps, ClearFinishedKeeps, LeaveKeeps DEF CustomerStep
<1>2. ASSUME NEW s \in Stations, StationStep(s) PROVE IInv'
  BY <1>2, RunLoopKeeps, WaitForCustomerKeeps, ClearStartKeeps, ServeAcquireKeeps,
     ServeEmptyKeeps, ServeHeadKeeps, ServeSleepKeeps, ServeAcquireDoneKeeps,
     ServePopKeeps, ServeWakeKeeps, ServeAgainKeeps DEF StationStep
<1>3. ASSUME MainStep PROVE IInv'
  BY <1>3, JoinCustomersKeeps, WakeStationKeeps, JoinStationsKeeps, StopStationKeeps DEF MainStep
<1>4. CASE Ended
  BY <1>4, StutterKeeps DEF Ended
<1>5. CASE UNCHANGED vars
  BY <1>5, StutterKeeps
<1>. QED  BY <1>1, <1>2, <1>3, <1>4, <1>5 DEF Next

\* The invariant holds in every reachable state.
LEMMA Inductive == Safe => []IInv
<1>. QED  BY InitIInv, NextIInv, PTL DEF Safe

(* Type correctness of the threads of the real-time supermarket. *)
THEOREM TypeCorrect == Safe => []TypeOK
<1>1. IInv => TypeOK
  BY DEF IInv
<1>. QED  BY <1>1, Inductive, PTL

(* A station serves the customer at the head of its queue, who stands there. *)
THEOREM ServesHeadHolds == Safe => []ServesHead
<1>1. IInv => ServesHead
  <2>. SUFFICES ASSUME IInv, NEW s \in Stations, spc[s] \in {"serve", "acquireDone", "pop"}
                PROVE  /\ customer_queue[s] # << >>
                       /\ Head(customer_queue[s]) = serving[s]
                       /\ station_list[serving[s]] # << >>
                       /\ Here(serving[s]) = s
    BY DEF ServesHead
  <2>1. customer_queue[s] # << >> /\ customer_queue[s][1] = serving[s]
    BY DEF IInv, StationInv, Serving
  <2>2. 1 \in 1 .. Len(customer_queue[s]) /\ serving[s] \in Customers
    BY <2>1, Members DEF IInv
  <2>3. Here(serving[s]) = s /\ cpc[serving[s]] \in QueuePC
    BY <2>1, <2>2 DEF IInv, StationInv, Queued
  <2>4. station_list[serving[s]] # << >>
    BY <2>2, <2>3 DEF IInv, OnRoute, QueuePC
  <2>5. Head(customer_queue[s]) = customer_queue[s][1]
    BY <2>1, Members DEF IInv
  <2>. QED  BY <2>1, <2>3, <2>4, <2>5
<1>. QED  BY <1>1, Inductive, PTL

(* No station sleeps with customers in its queue and no wake-up on its way. *)
THEOREM NoLostWakeupHolds == Safe => []NoLostWakeup
<1>1. IInv => NoLostWakeup
  <2>. SUFFICES ASSUME IInv, NEW s \in Stations, customer_queue[s] # << >>,
                       spc[s] \in {"loop", "wait"}, ~start_serve_event[s]
                PROVE  \E c \in Customers : cpc[c] = "wake" /\ Here(c) = s
    BY DEF NoLostWakeup
  <2>1. Len(customer_queue[s]) = 1 /\ cpc[customer_queue[s][1]] = "wake"
    BY DEF IInv, StationInv, Wakeup
  <2>2. customer_queue[s][1] \in Customers /\ Here(customer_queue[s][1]) = s
    BY <2>1, Members DEF IInv, StationInv, Queued
  <2>. QED  BY <2>1, <2>2
<1>. QED  BY <1>1, Inductive, PTL

(* A customer's wake-up is set only while that customer waits for it, outside every queue. *)
THEOREM WakeupNotStaleHolds == Safe => []WakeupNotStale
<1>1. IInv => WakeupNotStale
  BY DEF IInv, WakeupNotStale, FinishedWaits, StationInv, Queued
<1>. QED  BY <1>1, Inductive, PTL

(* The early return of Station.serve keeps the lock only after the last customer has left. *)
THEOREM LockLeaksHolds == Safe => []LockLeaksOnlyAtShutdown
<1>1. IInv => LockLeaksOnlyAtShutdown
  BY DEF IInv
<1>. QED  BY <1>1, Inductive, PTL

-----------------------------------------------------------------------------
(* The statistics.  A visit is a cell <<c, i>>: stop i of the route of c.    *)
(* The cells counted so far bound the counters, split into n for             *)
(* amount_customers and m for amount_skipped; a stale tmp is below its part. *)

Cells(s) ==
  UNION {{c} \X {i \in DOMAIN Route[c] : Route[c][i].at = s} : c \in Customers}

\* The stop of the route c is at, station_list being what is left of it.
Position(c) == Len(Route[c]) - Len(station_list[c]) + 1

\* Where a customer is after the statistics and before the next stop.
CountedPC == {"acquire", "append", "wake", "release", "wait", "clear", "leave"}

Passed(c, i) == i < Position(c) \/ (i = Position(c) /\ cpc[c] \in CountedPC)
Counted(s) == {x \in Cells(s) : Passed(x[1], x[2])}

\* station_list is a suffix of the route.
OnSuffix ==
  \A c \in Customers :
    /\ Len(station_list[c]) <= Len(Route[c])
    /\ \A i \in 1 .. Len(station_list[c]) :
         station_list[c][i] = Route[c][Len(Route[c]) - Len(station_list[c]) + i]

\* The values read at s and not written back yet.
ReadBelow(s, n, m) ==
  \A c \in Customers : cpc[c] \in WritePC /\ Here(c) = s =>
    /\ cpc[c] = "writeCustomers" => tmp[c] <= n
    /\ cpc[c] = "writeSkipped" => tmp[c] <= m

Bound(s) ==
  \E n, m \in 0 .. Cardinality(Counted(s)) :
    /\ n + m <= Cardinality(Counted(s))
    /\ amount_customers[s] <= n
    /\ amount_skipped[s] <= m
    /\ ReadBelow(s, n, m)

StatInv == OnSuffix /\ \A s \in Stations : Bound(s)

\* Only finitely many visits are planned.
LEMMA CellsFinite == \A s : IsFiniteSet(Cells(s))
<1>. SUFFICES ASSUME NEW s PROVE IsFiniteSet(Cells(s))
  OBVIOUS
<1>. DEFINE Row(c) == {c} \X {i \in DOMAIN Route[c] : Route[c][i].at = s}
            Rows == {Row(c) : c \in Customers}
            f == [c \in Customers |-> Row(c)]
<1>1. ASSUME NEW c \in Customers PROVE IsFiniteSet(Row(c))
  <2>1. Route[c] \in Seq([at : Stations, limit : Nat])
    BY RouteAssumption
  <2>2. Len(Route[c]) \in Nat /\ DOMAIN Route[c] = 1 .. Len(Route[c])
    BY <2>1, LenProperties
  <2>3. IsFiniteSet(DOMAIN Route[c])
    BY <2>2, FS_Interval
  <2>4. IsFiniteSet({i \in DOMAIN Route[c] : Route[c][i].at = s})
    BY <2>3, FS_Subset
  <2>. QED  BY <2>4, FS_Singleton, FS_Product
<1>2. f \in Surjection(Customers, Rows)
  BY DEF Surjection
<1>3. IsFiniteSet(Rows)
  BY <1>2, FS_Surjection, CustomersAssumption
<1>4. \A T \in Rows : IsFiniteSet(T)
  BY <1>1
<1>5. IsFiniteSet(UNION Rows)
  BY <1>3, <1>4, FS_UNION
<1>. QED  BY <1>5 DEF Cells

\* So the visits counted are finitely many, and no more than those planned.
LEMMA CountedFinite ==
  \A s : /\ IsFiniteSet(Counted(s))
         /\ Cardinality(Counted(s)) \in Nat
         /\ Cardinality(Counted(s)) <= Cardinality(Cells(s))
         /\ Cardinality(Cells(s)) \in Nat
<1>. SUFFICES ASSUME NEW s
              PROVE  /\ IsFiniteSet(Counted(s))
                     /\ Cardinality(Counted(s)) \in Nat
                     /\ Cardinality(Counted(s)) <= Cardinality(Cells(s))
                     /\ Cardinality(Cells(s)) \in Nat
  OBVIOUS
<1>1. IsFiniteSet(Cells(s)) /\ Counted(s) \in SUBSET Cells(s)
  BY CellsFinite DEF Counted
<1>2. IsFiniteSet(Counted(s)) /\ Cardinality(Counted(s)) <= Cardinality(Cells(s))
  BY <1>1, FS_Subset
<1>. QED  BY <1>1, <1>2, FS_CardinalityType

\* The same in the next state.
LEMMA CountedFiniteNext ==
  \A s : IsFiniteSet(Counted(s)') /\ Cardinality(Counted(s)') \in Nat
<1>. SUFFICES ASSUME NEW s
              PROVE  IsFiniteSet(Counted(s)') /\ Cardinality(Counted(s)') \in Nat
  OBVIOUS
<1>1. IsFiniteSet(Cells(s)) /\ Counted(s)' \in SUBSET Cells(s)
  BY CellsFinite DEF Counted, Cells
<1>. QED  BY <1>1, FS_Subset, FS_CardinalityType

\* A step that adds nothing to the counters of s and reads none of them.
LEMMA BoundKept ==
  ASSUME NEW s \in Stations, Bound(s),
         Counted(s) \subseteq Counted(s)',
         amount_customers'[s] = amount_customers[s],
         amount_skipped'[s] = amount_skipped[s],
         \A x \in Customers : cpc'[x] \in WritePC /\ Here(x)' = s =>
           cpc[x] = cpc'[x] /\ Here(x) = s /\ tmp'[x] = tmp[x]
  PROVE  Bound(s)'
<1>. DEFINE k == Cardinality(Counted(s))
            k1 == Cardinality(Counted(s)')
<1>1. k <= k1 /\ k \in Nat /\ k1 \in Nat
  BY FS_Subset, CountedFinite, CountedFiniteNext
<1>2. PICK n \in 0 .. k, m \in 0 .. k :
        /\ n + m <= k
        /\ amount_customers[s] <= n
        /\ amount_skipped[s] <= m
        /\ ReadBelow(s, n, m)
  BY DEF Bound
<1>3. ReadBelow(s, n, m)'
  BY <1>2 DEF ReadBelow
<1>. HIDE DEF k, k1
<1>4. n \in 0 .. k1 /\ m \in 0 .. k1 /\ n + m <= k1
  BY <1>1, <1>2
<1>. QED  BY <1>2, <1>3, <1>4 DEF Bound, k1

\* The stop a customer is at is the cell it adds to the statistics.
LEMMA CellOfHere ==
  ASSUME TypeOK, OnSuffix, NEW c \in Customers, station_list[c] # << >>
  PROVE  /\ Here(c) \in Stations
         /\ Position(c) \in 1 .. Len(Route[c])
         /\ <<c, Position(c)>> \in Cells(Here(c))
<1>1. station_list[c] \in Seq(Stops) /\ Route[c] \in Seq(Stops)
  BY RouteAssumption DEF TypeOK, Stops
<1>2. /\ Len(station_list[c]) \in Nat \ {0} /\ Len(Route[c]) \in Nat
      /\ DOMAIN Route[c] = 1 .. Len(Route[c])
      /\ Head(station_list[c]) = station_list[c][1]
  BY <1>1, EmptySeq, LenProperties, HeadTailProperties
<1>3. /\ Len(station_list[c]) <= Len(Route[c])
      /\ \A i \in 1 .. Len(station_list[c]) :
           station_list[c][i] = Route[c][Len(Route[c]) - Len(station_list[c]) + i]
  BY DEF OnSuffix
<1>4. 1 \in 1 .. Len(station_list[c])
  BY <1>2
<1>5. station_list[c][1] = Route[c][Position(c)]
  BY <1>3, <1>4 DEF Position
<1>6. Position(c) \in 1 .. Len(Route[c])
  <2>. DEFINE left == Len(station_list[c])
              all == Len(Route[c])
  <2>1. left \in Nat \ {0} /\ all \in Nat /\ left <= all
    BY <1>2, <1>3
  <2>2. Position(c) = all - left + 1
    BY DEF Position
  <2>. HIDE DEF left, all
  <2>3. Position(c) \in 1 .. all
    BY <2>1, <2>2
  <2>. QED  BY <2>3 DEF all
<1>7. Route[c][Position(c)].at = Here(c)
  BY <1>2, <1>5 DEF Here
<1>8. <<c, Position(c)>> \in Cells(Here(c))
  BY <1>2, <1>6, <1>7 DEF Cells
<1>. QED  BY <1>6, <1>8, HereType

\* How far a customer is on its route.
LEMMA PositionType ==
  ASSUME TypeOK, NEW c \in Customers
  PROVE  Position(c) \in Int
<1>1. station_list[c] \in Seq(Stops) /\ Route[c] \in Seq(Stops)
  BY RouteAssumption DEF TypeOK, Stops
<1>2. Len(station_list[c]) \in Nat /\ Len(Route[c]) \in Nat
  BY <1>1, LenProperties
<1>. QED  BY <1>2 DEF Position

\* A visit once counted stays counted.
LEMMA CountedGrows ==
  ASSUME TypeOK, TypeOK',
         \A c \in Customers :
           \/ /\ Position(c)' = Position(c)
              /\ cpc[c] \in CountedPC => cpc'[c] \in CountedPC
           \/ Position(c)' = Position(c) + 1
  PROVE  \A s : Counted(s) \subseteq Counted(s)'
<1>. SUFFICES ASSUME NEW s, NEW c \in Customers, NEW i \in DOMAIN Route[c],
                     <<c, i>> \in Cells(s), Passed(c, i)
              PROVE  Passed(c, i)'
  BY DEF Counted, Cells
<1>1. Position(c) \in Int /\ Position(c)' \in Int /\ i \in Int
  <2>1. Route[c] \in Seq([at : Stations, limit : Nat])
    BY RouteAssumption
  <2>2. i \in Int
    BY <2>1, LenProperties
  <2>. QED  BY <2>2, PositionType
<1>. QED  BY <1>1 DEF Passed

\* A step away from the statistics and the routes.
Calm ==
  /\ UNCHANGED <<amount_customers, amount_skipped, tmp, station_list>>
  /\ \A c \in Customers :
       /\ cpc'[c] \in WritePC => cpc'[c] = cpc[c]
       /\ cpc[c] \in CountedPC => cpc'[c] \in CountedPC

LEMMA CalmKeeps == ASSUME IInv, IInv', StatInv, Calm PROVE StatInv'
<1>1. OnSuffix'
  BY DEF StatInv, OnSuffix, Calm
<1>2. \A s : Counted(s) \subseteq Counted(s)'
  <2>1. \A c \in Customers : Position(c)' = Position(c)
    BY DEF Calm, Position
  <2>. QED  BY <2>1, CountedGrows DEF IInv, Calm
<1>3. ASSUME NEW s \in Stations PROVE Bound(s)'
  BY <1>2, <1>3, BoundKept DEF StatInv, Calm, Here
<1>. QED  BY <1>1, <1>3 DEF StatInv

\* The value read is at most the part of the counter it comes from.
LEMMA ReadKeeps ==
  ASSUME IInv, IInv', StatInv, NEW c \in Customers, ReadCounter(c)
  PROVE  StatInv'
<1>0. /\ UNCHANGED <<amount_customers, amount_skipped, station_list>>
      /\ \A x \in Customers \ {c} : cpc'[x] = cpc[x] /\ tmp'[x] = tmp[x]
      /\ \/ /\ cpc[c] = "readCustomers" /\ cpc'[c] = "writeCustomers"
            /\ tmp'[c] = amount_customers[Here(c)]
         \/ /\ cpc[c] = "readSkipped" /\ cpc'[c] = "writeSkipped"
            /\ tmp'[c] = amount_skipped[Here(c)]
  BY DEF ReadCounter, Goto, IInv, TypeOK, purchaseVars
<1>1. OnSuffix'
  BY <1>0 DEF StatInv, OnSuffix
<1>2. \A s : Counted(s) \subseteq Counted(s)'
  <2>1. \A x \in Customers : Position(x)' = Position(x)
    BY <1>0 DEF Position
  <2>2. \A x \in Customers : cpc[x] \in CountedPC => cpc'[x] \in CountedPC
    BY <1>0 DEF CountedPC
  <2>. QED  BY <2>1, <2>2, CountedGrows DEF IInv
<1>3. ASSUME NEW s \in Stations PROVE Bound(s)'
  <2>. DEFINE k == Cardinality(Counted(s))
              k1 == Cardinality(Counted(s)')
  <2>1. k <= k1 /\ k \in Nat /\ k1 \in Nat
    BY <1>2, FS_Subset, CountedFinite, CountedFiniteNext
  <2>2. PICK n \in 0 .. k, m \in 0 .. k :
          /\ n + m <= k
          /\ amount_customers[s] <= n
          /\ amount_skipped[s] <= m
          /\ ReadBelow(s, n, m)
    BY DEF StatInv, Bound
  <2>3. ReadBelow(s, n, m)'
    <3>1. \A x \in Customers : Here(x)' = Here(x)
      BY <1>0 DEF Here
    <3>2. ASSUME NEW x \in Customers, cpc'[x] \in WritePC, Here(x)' = s
          PROVE  /\ cpc'[x] = "writeCustomers" => tmp'[x] <= n
                 /\ cpc'[x] = "writeSkipped" => tmp'[x] <= m
      <4>1. CASE x = c
        BY <1>0, <2>2, <3>1, <3>2, <4>1
      <4>2. CASE x # c
        BY <1>0, <2>2, <3>1, <3>2, <4>2 DEF ReadBelow
      <4>. QED  BY <4>1, <4>2
    <3>. QED  BY <3>2 DEF ReadBelow
  <2>. HIDE DEF k, k1
  <2>4. n \in 0 .. k1 /\ m \in 0 .. k1 /\ n + m <= k1
    BY <2>1, <2>2
  <2>. QED  BY <1>0, <2>2, <2>3, <2>4 DEF Bound, k1
<1>. QED  BY <1>1, <1>3 DEF StatInv

\* Writing back counts the visit: its cell is new, and pays for the increment.
LEMMA WriteKeeps ==
  ASSUME IInv, IInv', StatInv, NEW c \in Customers, WriteCounter(c)
  PROVE  StatInv'
<1>0. /\ UNCHANGED station_list
      /\ \A x \in Customers \ {c} : cpc'[x] = cpc[x] /\ tmp'[x] = tmp[x]
      /\ cpc[c] \in WritePC /\ cpc'[c] \in CountedPC \ WritePC
      /\ cpc[c] \notin CountedPC /\ cpc[c] # "done"
  <2>1. UNCHANGED station_list /\ \A x \in Customers \ {c} : tmp'[x] = tmp[x]
    BY DEF WriteCounter, purchaseVars, IInv, TypeOK
  <2>2. \/ cpc[c] = "writeCustomers" /\ cpc' = [cpc EXCEPT ![c] = "acquire"]
        \/ cpc[c] = "writeSkipped" /\ cpc' = [cpc EXCEPT ![c] = "leave"]
    BY DEF WriteCounter, Goto
  <2>. QED  BY <2>1, <2>2 DEF IInv, TypeOK, WritePC, CountedPC
<1>1. OnSuffix'
  BY <1>0 DEF StatInv, OnSuffix
<1>a. Here(c) \in Stations /\ Position(c) \in 1 .. Len(Route[c])
      /\ <<c, Position(c)>> \in Cells(Here(c))
  BY <1>0, CellOfHere DEF IInv, OnRoute, StatInv
<1>b. PICK h \in Stations, p \in 1 .. Len(Route[c]) : h = Here(c) /\ p = Position(c)
  BY <1>a
<1>. DEFINE cell == <<c, p>>
<1>2. h \in Stations /\ cell \in Cells(h) /\ p \in Int
  BY <1>a, <1>b
<1>3. \A s : Counted(s) \subseteq Counted(s)'
  <2>1. \A x \in Customers : Position(x)' = Position(x)
    BY <1>0 DEF Position
  <2>2. \A x \in Customers : cpc[x] \in CountedPC => cpc'[x] \in CountedPC
    BY <1>0
  <2>. QED  BY <2>1, <2>2, CountedGrows DEF IInv
<1>4. cell \notin Counted(h) /\ cell \in Counted(h)'
  <2>1. ~Passed(c, p)
    BY <1>0, <1>2, <1>b DEF Passed
  <2>2. Position(c)' = p
    BY <1>0, <1>b DEF Position
  <2>3. Passed(c, p)'
    BY <1>0, <2>2 DEF Passed
  <2>4. cell \in Counted(h)'
    BY <1>2, <2>3 DEF Counted, Cells
  <2>. QED  BY <2>1, <2>4 DEF Counted
<1>5. \A x \in Customers : Here(x)' = Here(x)
  BY <1>0 DEF Here
<1>6. ASSUME NEW s \in Stations, s # h PROVE Bound(s)'
  <2>1. amount_customers'[s] = amount_customers[s] /\ amount_skipped'[s] = amount_skipped[s]
    BY <1>2, <1>b, <1>6 DEF WriteCounter, IInv, TypeOK
  <2>2. \A x \in Customers : cpc'[x] \in WritePC =>
          cpc[x] = cpc'[x] /\ Here(x) = Here(x)' /\ tmp'[x] = tmp[x]
    BY <1>0, <1>5
  <2>. QED  BY <1>3, <2>1, <2>2, BoundKept DEF StatInv
<1>7. Bound(h)'
  <2>. DEFINE k == Cardinality(Counted(h))
              k1 == Cardinality(Counted(h)')
  <2>1. k + 1 <= k1 /\ k \in Nat /\ k1 \in Nat
    <3>1. Counted(h) \cup {cell} \in SUBSET Counted(h)'
      BY <1>3, <1>4
    <3>2. Cardinality(Counted(h) \cup {cell}) = Cardinality(Counted(h)) + 1
      BY <1>4, CountedFinite, FS_AddElement
    <3>3. Cardinality(Counted(h) \cup {cell}) <= Cardinality(Counted(h)')
      BY <3>1, FS_Subset, CountedFiniteNext
    <3>. QED  BY <3>2, <3>3, CountedFinite, CountedFiniteNext
  <2>2. PICK n \in 0 .. k, m \in 0 .. k :
          /\ n + m <= k
          /\ amount_customers[h] <= n
          /\ amount_skipped[h] <= m
          /\ ReadBelow(h, n, m)
    BY <1>2 DEF StatInv, Bound
  <2>3. /\ amount_customers[h] \in Nat /\ amount_skipped[h] \in Nat
        /\ \A x \in Customers : tmp[x] \in Nat
    BY <1>2 DEF IInv, TypeOK
  <2>4. /\ cpc[c] = "writeCustomers" => tmp[c] <= n
        /\ cpc[c] = "writeSkipped" => tmp[c] <= m
    BY <1>0, <1>b, <2>2 DEF ReadBelow
  <2>5. CASE cpc[c] = "writeCustomers"
    <3>1. amount_customers'[h] = tmp[c] + 1 /\ amount_skipped'[h] = amount_skipped[h]
      BY <1>2, <1>b, <2>5 DEF WriteCounter, Goto, IInv, TypeOK
    <3>2. ReadBelow(h, n + 1, m)'
      BY <1>0, <1>5, <2>2, <2>3 DEF ReadBelow
    <3>. HIDE DEF k, k1
    <3>3. n + 1 \in 0 .. k1 /\ m \in 0 .. k1 /\ (n + 1) + m <= k1
      BY <2>1, <2>2
    <3>4. amount_customers'[h] <= n + 1 /\ amount_skipped'[h] <= m
      BY <2>2, <2>3, <2>4, <2>5, <3>1
    <3>. QED  BY <1>5, <3>2, <3>3, <3>4 DEF Bound, k1
  <2>6. CASE cpc[c] = "writeSkipped"
    <3>1. amount_skipped'[h] = tmp[c] + 1 /\ amount_customers'[h] = amount_customers[h]
      BY <1>2, <1>b, <2>6 DEF WriteCounter, Goto, IInv, TypeOK
    <3>2. ReadBelow(h, n, m + 1)'
      BY <1>0, <1>5, <2>2, <2>3 DEF ReadBelow
    <3>. HIDE DEF k, k1
    <3>3. n \in 0 .. k1 /\ m + 1 \in 0 .. k1 /\ n + (m + 1) <= k1
      BY <2>1, <2>2
    <3>4. amount_skipped'[h] <= m + 1 /\ amount_customers'[h] <= n
      BY <2>2, <2>3, <2>4, <2>6, <3>1
    <3>. QED  BY <1>5, <3>2, <3>3, <3>4 DEF Bound, k1
  <2>. QED  BY <1>0, <2>5, <2>6 DEF WritePC
<1>. QED  BY <1>1, <1>6, <1>7 DEF StatInv

\* Moving on counts nothing new: the stop left behind was counted on the way.
LEMMA LeaveKeepsStat ==
  ASSUME IInv, IInv', StatInv, NEW c \in Customers, Leave(c)
  PROVE  StatInv'
<1>0. /\ UNCHANGED <<amount_customers, amount_skipped, tmp>>
      /\ \A x \in Customers \ {c} : cpc'[x] = cpc[x] /\ station_list'[x] = station_list[x]
      /\ cpc[c] = "leave" /\ cpc'[c] \notin WritePC
      /\ station_list'[c] = Tail(station_list[c])
  <2>1. /\ UNCHANGED <<amount_customers, amount_skipped, tmp>>
        /\ cpc[c] = "leave" /\ station_list' = [station_list EXCEPT ![c] = Tail(@)]
    BY DEF Leave, statVars
  <2>2. cpc' = [cpc EXCEPT ![c] = "done"] \/ cpc' = [cpc EXCEPT ![c] = "travel"]
    BY DEF Leave, Goto
  <2>. QED  BY <2>1, <2>2 DEF IInv, TypeOK, WritePC
<1>1. /\ station_list[c] \in Seq(Stops) /\ station_list[c] # << >>
      /\ Len(station_list[c]) \in Nat \ {0}
      /\ Len(station_list'[c]) = Len(station_list[c]) - 1
      /\ \A i \in 1 .. Len(station_list'[c]) : station_list'[c][i] = station_list[c][i + 1]
  <2>1. station_list[c] \in Seq(Stops) /\ station_list[c] # << >>
    BY <1>0 DEF IInv, TypeOK, OnRoute, Stops
  <2>. QED  BY <1>0, <2>1, EmptySeq, LenProperties, HeadTailProperties
<1>2. Len(Route[c]) \in Nat
  BY RouteAssumption, LenProperties
<1>3. OnSuffix'
  <2>1. ASSUME NEW x \in Customers, x # c
        PROVE  /\ Len(station_list'[x]) <= Len(Route[x])
               /\ \A i \in 1 .. Len(station_list'[x]) :
                    station_list'[x][i] = Route[x][Len(Route[x]) - Len(station_list'[x]) + i]
    BY <1>0, <2>1 DEF StatInv, OnSuffix
  <2>2. /\ Len(station_list'[c]) <= Len(Route[c])
        /\ \A i \in 1 .. Len(station_list'[c]) :
             station_list'[c][i] = Route[c][Len(Route[c]) - Len(station_list'[c]) + i]
    <3>. DEFINE left == Len(station_list[c])
                all == Len(Route[c])
    <3>1. /\ left <= all
          /\ \A i \in 1 .. left : station_list[c][i] = Route[c][all - left + i]
      BY DEF StatInv, OnSuffix
    <3>2. /\ left \in Nat \ {0} /\ all \in Nat
          /\ Len(station_list'[c]) = left - 1
          /\ \A i \in 1 .. left - 1 : station_list'[c][i] = station_list[c][i + 1]
      BY <1>1, <1>2
    <3>. HIDE DEF left, all
    <3>3. ASSUME NEW i \in 1 .. left - 1
          PROVE  station_list'[c][i] = Route[c][all - (left - 1) + i]
      <4>1. i + 1 \in 1 .. left /\ all - left + (i + 1) = all - (left - 1) + i
        BY <3>2
      <4>2. station_list[c][i + 1] = Route[c][all - left + (i + 1)]
        BY <3>1, <4>1
      <4>3. station_list'[c][i] = station_list[c][i + 1]
        BY <3>2
      <4>. QED  BY <4>1, <4>2, <4>3
    <3>4. left - 1 <= all
      BY <3>1, <3>2
    <3>. QED  BY <3>2, <3>3, <3>4 DEF all
  <2>. QED  BY <2>1, <2>2 DEF OnSuffix
<1>4. \A s : Counted(s) \subseteq Counted(s)'
  <2>1. Position(c)' = Position(c) + 1
    BY <1>1, <1>2 DEF Position
  <2>2. \A x \in Customers \ {c} : Position(x)' = Position(x)
    BY <1>0 DEF Position
  <2>. QED  BY <1>0, <2>1, <2>2, CountedGrows DEF IInv
<1>5. ASSUME NEW s \in Stations PROVE Bound(s)'
  <2>1. \A x \in Customers : cpc'[x] \in WritePC =>
          cpc[x] = cpc'[x] /\ Here(x) = Here(x)' /\ tmp'[x] = tmp[x]
    BY <1>0 DEF Here
  <2>. QED  BY <1>0, <1>4, <2>1, BoundKept DEF StatInv
<1>. QED  BY <1>3, <1>5 DEF StatInv

\* Every other step is calm.
LEMMA OthersCalm ==
  ASSUME IInv, [Next]_vars
  PROVE  \/ \E c \in Customers : ReadCounter(c) \/ WriteCounter(c) \/ Leave(c)
         \/ Calm
<1>. USE DEF Calm, vars, queueVars, statVars, purchaseVars, mainVars
<1>1. CASE UNCHANGED vars
  BY <1>1
<1>2. ASSUME NEW c \in Customers, CustomerStep(c),
             ~(ReadCounter(c) \/ WriteCounter(c) \/ Leave(c))
      PROVE  Calm
  <2>1. UNCHANGED <<amount_customers, amount_skipped, tmp, station_list>>
    BY <1>2 DEF CustomerStep, StartCustomer, ArriveJoin, ArriveSkip, QueueAcquire,
       QueueAppend, QueueWake, QueueRelease, WaitServed, ClearFinished
  <2>2. \E from, to \in CustomerPC :
          /\ Goto(c, from, to) /\ to \notin WritePC
          /\ from \in CountedPC => to \in CountedPC
    BY <1>2 DEF CustomerStep, StartCustomer, ArriveJoin, ArriveSkip, QueueAcquire,
       QueueAppend, QueueWake, QueueRelease, WaitServed, ClearFinished, CustomerPC,
       WritePC, CountedPC
  <2>. QED  BY <2>1, <2>2 DEF Goto, IInv, TypeOK
<1>3. ASSUME NEW s \in Stations, StationStep(s) PROVE Calm
  BY <1>3 DEF StationStep, RunLoop, WaitForCustomer, ClearStart, ServeAcquire,
     ServeEmpty, ServeHead, ServeSleep, ServeAcquireDone, ServePop, ServeWake, ServeAgain
<1>4. CASE MainStep
  BY <1>4 DEF MainStep, JoinCustomers, WakeStation, JoinStations, StopStation
<1>. QED  BY <1>1, <1>2, <1>3, <1>4 DEF Next, Ended

\* At the start nothing is counted and nothing is read.
LEMMA InitStat == Init => StatInv
<1>. SUFFICES ASSUME Init PROVE StatInv
  OBVIOUS
<1>1. OnSuffix
  <2>1. ASSUME NEW c \in Customers PROVE Len(Route[c]) \in Nat
    BY RouteAssumption, LenProperties
  <2>. QED  BY <2>1 DEF Init, OnSuffix
<1>2. ASSUME NEW s \in Stations PROVE Bound(s)
  <2>1. Cardinality(Counted(s)) \in Nat
    BY CountedFinite
  <2>2. ReadBelow(s, 0, 0)
    BY DEF Init, ReadBelow, WritePC
  <2>3. amount_customers[s] <= 0 /\ amount_skipped[s] <= 0
    BY DEF Init
  <2>4. 0 \in 0 .. Cardinality(Counted(s)) /\ 0 + 0 <= Cardinality(Counted(s))
    BY <2>1
  <2>. QED  BY <2>2, <2>3, <2>4 DEF Bound
<1>. QED  BY <1>1, <1>2 DEF StatInv

(* The lost update on the statistics loses visits and never invents one,     *)
(* however stale the value a customer's `+= 1` writes back.                  *)
THEOREM NeverOvercountedHolds == Safe => []NeverOvercounted
<1>1. IInv /\ IInv' /\ StatInv /\ [Next]_vars => StatInv'
  BY OthersCalm, CalmKeeps, ReadKeeps, WriteKeeps, LeaveKeepsStat
<1>2. IInv /\ StatInv => NeverOvercounted
  <2>. SUFFICES ASSUME IInv, StatInv, NEW s \in Stations
                PROVE  amount_customers[s] + amount_skipped[s] <= Visits(s)
    BY DEF NeverOvercounted
  <2>. DEFINE k == Cardinality(Counted(s))
              v == Cardinality(Cells(s))
  <2>1. k \in Nat /\ v \in Nat /\ k <= v
    BY CountedFinite
  <2>2. Visits(s) = v
    BY DEF Visits, Cells
  <2>3. PICK n \in 0 .. k, m \in 0 .. k :
          n + m <= k /\ amount_customers[s] <= n /\ amount_skipped[s] <= m
    BY DEF StatInv, Bound
  <2>4. amount_customers[s] \in Nat /\ amount_skipped[s] \in Nat
    BY DEF IInv, TypeOK
  <2>. HIDE DEF k, v
  <2>5. amount_customers[s] + amount_skipped[s] <= v
    BY <2>1, <2>3, <2>4
  <2>. QED  BY <2>2, <2>5
<1>. QED  BY <1>1, <1>2, InitStat, Inductive, PTL DEF Safe
=============================================================================
