----------------------------- MODULE AquaBroker -----------------------------
(***************************************************************************)
(* The worker pool of VerSy's Broker (blatt7).  The main loop hands every  *)
(* request to a pool; register runs on several workers at once, because    *)
(* all of them take the read lock only.  ClientCollection wraps an         *)
(* ArrayList, whose add reads the size, stores the element and writes the  *)
(* size back: concurrent adds overwrite each other.                        *)
(*                                                                         *)
(* Each tank has at most one RegisterRequest on its way: it renews its     *)
(* lease only after a RegisterResponse.                                    *)
(***************************************************************************)
EXTENDS Naturals, Sequences, FiniteSets

CONSTANTS Tanks, Workers,
          Renewers,   \* bound: the tanks whose leases run out
          MaxLeases   \* bound: lease renewals of all tanks

ASSUME BrokerAssumption == Renewers \subseteq Tanks /\ MaxLeases \in Nat

VARIABLES
  array,     \* the slots of ClientCollection's ArrayList written so far
  size,      \* its size
  raced,     \* history: an add has stored into a slot that was no longer the last
  asked,     \* tanks whose RegisterRequest is on its way to the broker
  queue,     \* tasks of the pool that no worker has taken
  work,      \* per worker: the step of register it is at, and its locals
  answered,  \* tanks whose RegisterResponse is on its way
  ready,     \* tanks with a lease timer running
  failed,    \* tanks whose request ended in an exception
  leases,    \* lease renewals so far
  stopRequested

tankVars == <<asked, answered, ready, leases>>
listVars == <<array, size, raced>>
vars == <<listVars, queue, work, failed, stopRequested, tankVars>>

Idle == [at |-> "idle"]
Steps == {"search", "add", "store", "link"}
Jobs == [at : Steps, tank : Tanks, size : Nat, slot : Nat]

(* Every variable has the type of the field, queue or thread it stands for. *)
TypeOK ==
  /\ array \in Seq(Tanks)
  /\ size \in 0 .. Len(array)
  /\ raced \in BOOLEAN
  /\ asked \subseteq Tanks /\ answered \subseteq Tanks /\ ready \subseteq Tanks /\ failed \subseteq Tanks
  /\ queue \in Seq(Tanks)
  /\ work \in [Workers -> Jobs \cup {Idle}]
  /\ leases \in 0 .. MaxLeases
  /\ stopRequested \in BOOLEAN

Init ==
  /\ array = << >> /\ size = 0 /\ raced = FALSE
  /\ asked = Tanks
  /\ queue = << >>
  /\ work = [w \in Workers |-> Idle]
  /\ answered = {} /\ ready = {} /\ failed = {}
  /\ leases = 0
  /\ stopRequested = FALSE

-----------------------------------------------------------------------------
(* The broker loop                                                           *)

Dispatch(t) ==
  /\ ~stopRequested
  /\ t \in asked
  /\ asked' = asked \ {t}
  /\ queue' = Append(queue, t)
  /\ UNCHANGED <<listVars, work, failed, stopRequested, answered, ready, leases>>

\* OK in the dialog of StopRequested.
PressOK ==
  /\ ~stopRequested
  /\ stopRequested' = TRUE
  /\ UNCHANGED <<listVars, queue, work, failed, tankVars>>

-----------------------------------------------------------------------------
(* register on worker w; shutdown lets the queued tasks finish               *)

Take(w) ==
  /\ work[w] = Idle /\ queue # << >>
  /\ work' = [work EXCEPT ![w] = [at |-> "search", tank |-> Head(queue), size |-> size, slot |-> 0]]
  /\ queue' = Tail(queue)
  /\ UNCHANGED <<listVars, failed, stopRequested, tankVars>>

clients == SubSeq(array, 1, size)
Listed(t) == \E i \in 1 .. size : clients[i] = t

\* Mutant: the list is not searched.
SearchNothing(w) ==
  /\ work[w].at = "search"
  /\ work' = [work EXCEPT ![w].at = "add"]
  /\ UNCHANGED <<listVars, queue, failed, stopRequested, tankVars>>

Search(w) ==
  /\ work[w].at = "search" /\ ~Listed(work[w].tank)
  /\ work' = [work EXCEPT ![w].at = "add"]
  /\ UNCHANGED <<listVars, queue, failed, stopRequested, tankVars>>

\* Mutant: the known client is not answered.
ReregisterSilently(w) ==
  /\ work[w].at = "search" /\ Listed(work[w].tank)
  /\ work' = [work EXCEPT ![w] = Idle]
  /\ UNCHANGED <<listVars, queue, failed, stopRequested, tankVars>>

Reregister(w) ==
  /\ work[w].at = "search" /\ Listed(work[w].tank)
  /\ answered' = answered \cup {work[w].tank}
  /\ work' = [work EXCEPT ![w] = Idle]
  /\ UNCHANGED <<listVars, queue, failed, stopRequested, asked, ready, leases>>

\* ArrayList.add
AddReadsSize(w) ==
  /\ work[w].at = "add"
  /\ work' = [work EXCEPT ![w].at = "store", ![w].slot = size]
  /\ UNCHANGED <<listVars, queue, failed, stopRequested, tankVars>>

\* The entry lands in the slot read before, and the size becomes slot + 1: entries
\* added in between are overwritten or cut off, entries cut off may come back.
AddStores(w) ==
  /\ work[w].at = "store"
  /\ array' = [i \in 1 .. IF work[w].slot < Len(array) THEN Len(array) ELSE work[w].slot + 1 |->
                IF i = work[w].slot + 1 THEN work[w].tank ELSE array[i]]
  /\ size' = work[w].slot + 1
  /\ raced' = (raced \/ size # work[w].slot)
  /\ work' = [work EXCEPT ![w].at = "link"]
  /\ UNCHANGED <<queue, failed, stopRequested, tankVars>>

\* getLeftNeighborOf(sizeClients) needs entry sizeClients - 1 (position sizeClients).
LinkAndAnswer(w) ==
  /\ work[w].at = "link" /\ work[w].size <= size
  /\ answered' = answered \cup {work[w].tank}
  /\ work' = [work EXCEPT ![w] = Idle]
  /\ UNCHANGED <<listVars, queue, failed, stopRequested, asked, ready, leases>>

LinkFails(w) ==
  /\ work[w].at = "link" /\ work[w].size > size
  /\ failed' = failed \cup {work[w].tank}
  /\ work' = [work EXCEPT ![w] = Idle]
  /\ UNCHANGED <<listVars, queue, stopRequested, tankVars>>

-----------------------------------------------------------------------------
(* The tanks                                                                 *)

OnRegistration(t) ==
  /\ t \in answered
  /\ answered' = answered \ {t}
  /\ ready' = ready \cup {t}
  /\ UNCHANGED <<listVars, queue, work, failed, stopRequested, asked, leases>>

RenewLease(t) ==
  /\ t \in ready \cap Renewers /\ leases < MaxLeases
  /\ ready' = ready \ {t}
  /\ leases' = leases + 1
  /\ asked' = asked \cup {t}
  /\ UNCHANGED <<listVars, queue, work, failed, stopRequested, answered>>

-----------------------------------------------------------------------------
WorkerStep(w) ==
  \/ Take(w) \/ Search(w) \/ Reregister(w) \/ AddReadsSize(w) \/ AddStores(w)
  \/ LinkAndAnswer(w) \/ LinkFails(w)
LoopStep == \E t \in Tanks : Dispatch(t)

Next ==
  \/ LoopStep \/ PressOK
  \/ \E w \in Workers : WorkerStep(w)
  \/ \E t \in Tanks : OnRegistration(t) \/ RenewLease(t)

\* The loop polls for ever, the pool runs its tasks, receivers read their messages.
Fairness ==
  /\ \A t \in Tanks : WF_vars(Dispatch(t)) /\ WF_vars(OnRegistration(t))
  /\ \A w \in Workers : WF_vars(WorkerStep(w))

Safe == Init /\ [][Next]_vars
Spec == Safe /\ Fairness

-----------------------------------------------------------------------------
(* Properties.                                                               *)

(* As long as no two adds have overlapped, interleaved registrations and     *)
(* renewals leave every tank that got an answer in the list, once.           *)
ListedOnce ==
  ~raced => /\ \A i, j \in 1 .. size : clients[i] = clients[j] => i = j
            /\ \A t \in answered \cup ready : Listed(t)

(* A request the loop has read is answered or ends in an exception, also     *)
(* when the broker is stopped meanwhile.                                     *)
InHand(t) == (\E i \in 1 .. Len(queue) : queue[i] = t)
               \/ \E w \in Workers : work[w] # Idle /\ work[w].tank = t
Answered == \A t \in Tanks : InHand(t) ~> t \in ready \cup failed

=============================================================================
