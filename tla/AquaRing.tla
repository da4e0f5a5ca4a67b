------------------------------ MODULE AquaRing ------------------------------
(***************************************************************************)
(* VerSy's Aqualife (blatt7): tanks register with the broker, the broker   *)
(* links them to a ring, tokens travel to the left, and a tank hands fish  *)
(* over to a neighbour while it holds a token.                             *)
(*                                                                         *)
(* A tank has four threads: the receiver (ClientCommunicator), the update  *)
(* loop (TankModel.run), the token timer and the lease timer.  The broker  *)
(* handles one request at a time here; AquaBroker models its worker pool.  *)
(* Channels are FIFO for each pair of addresses (see LossyFifo).  The      *)
(* snapshot never feeds back into the state below (AquaSnapshot).  The     *)
(* location service (AquaLocation) can end a receiver, when a fish comes   *)
(* from a tank the broker does not know: this only removes steps, and the  *)
(* specification with fairness is run without fish.                        *)
(***************************************************************************)
EXTENDS Integers, Sequences, FiniteSets, SequencesExt

CONSTANTS Tanks,      \* addresses of the tanks
          Broker,     \* address of the broker
          None,       \* a null reference
          Fish,       \* fish that may be created
          Leavers,    \* tanks whose window may be closed
          Width,      \* TankModel.WIDTH
          XSize,      \* FishModel.xSize
          MaxFishies, \* TankModel.MAX_FISHIES
          MaxLeases   \* bound: lease renewals of all tanks

ASSUME RingAssumption ==
  /\ Broker \notin Tanks /\ None \notin Tanks \cup {Broker} \cup Nat
  /\ Fish \cap (Nat \cup {None}) = {}
  /\ Leavers \subseteq Tanks
  /\ XSize \in Nat \ {0} /\ Width \in Nat /\ Width > XSize + 1
  /\ MaxFishies \in Nat /\ MaxLeases \in Nat

VARIABLES
  clients,   \* broker: ClientCollection, a sequence of [id, addr]
  net,       \* messages in transit, per <<sender, receiver>>
  status,    \* "new", "running" or "gone", per tank
  threads,   \* threads of the tank that no exception has ended
  id,        \* TankModel.id, None while null
  left,      \* TankModel.leftNeighbour
  right,     \* TankModel.rightNeighbour
  hasToken,  \* TankModel.hasToken
  timer,     \* scheduled token tasks: the tokens they give back
  giving,    \* the token of the running token task, None outside it
  leases,    \* lease renewals so far
  lease,     \* lease tasks that are scheduled
  fishies,   \* TankModel.fishies: [fish, x, dir]
  todo,      \* fish the running pass of updateFishies has still to visit
  created,   \* fish that exist
  issued,    \* history: tokens the broker has sent
  dropped,   \* history: tokens and fish that an exception swallowed
  stray      \* history: fish placed on the left edge, facing it

ringVars == <<clients, id, left, right>>
tokenVars == <<hasToken, timer, giving>>
leaseVars == <<leases, lease>>
fishVars == <<fishies, todo, created>>
history == <<issued, dropped, stray>>
vars == <<ringVars, net, status, threads, tokenVars, leaseVars, fishVars, history>>

Addresses == Tanks \cup {Broker}
Pairs == Addresses \X Addresses
Dirs == {"LEFT", "RIGHT"}
Threads == {"receiver", "update", "timer"}

\* Tokens are numbered as the broker sends them.
Register == [type |-> "register"]
Deregister(i) == [type |-> "deregister", id |-> i]
NeighbourUpdate(t, d) == [type |-> "neighbour", tank |-> t, dir |-> d]
RegisterResponse(i) == [type |-> "response", id |-> i]
Token(k) == [type |-> "token", token |-> k]
HandoffRequest(f, d) == [type |-> "handoff", fish |-> f, dir |-> d]

Tokens == Nat \ {0}
Messages ==
  [type : {"register"}] \cup [type : {"deregister"}, id : Nat \cup {None}]
    \cup [type : {"neighbour"}, tank : Tanks, dir : Dirs]
    \cup [type : {"response"}, id : Nat] \cup [type : {"token"}, token : Tokens]
    \cup [type : {"handoff"}, fish : Fish, dir : Dirs]
FishModels == [fish : Fish, x : -XSize .. Width, dir : Dirs]

(* Every variable has the type of the field, queue or thread it stands for. *)
TypeOK ==
  /\ clients \in Seq([id : Nat, addr : Tanks])
  /\ net \in [Pairs -> Seq(Messages)]
  /\ status \in [Tanks -> {"new", "running", "gone"}]
  /\ threads \in [Tanks -> SUBSET Threads]
  /\ id \in [Tanks -> Nat \cup {None}]
  /\ left \in [Tanks -> Tanks \cup {None}]
  /\ right \in [Tanks -> Tanks \cup {None}]
  /\ hasToken \in [Tanks -> BOOLEAN]
  /\ timer \in [Tanks -> Seq(Tokens)]
  /\ giving \in [Tanks -> Tokens \cup {None}]
  /\ leases \in 0 .. MaxLeases
  /\ lease \in [Tanks -> Nat]
  /\ fishies \in [Tanks -> SUBSET FishModels]
  /\ todo \in [Tanks -> SUBSET FishModels]
  /\ created \subseteq Fish
  /\ issued \in Nat
  /\ dropped \subseteq Tokens \cup Fish
  /\ stray \subseteq Fish

Init ==
  /\ clients = << >>
  /\ net = [p \in Pairs |-> << >>]
  /\ status = [t \in Tanks |-> "new"]
  /\ threads = [t \in Tanks |-> Threads]
  /\ id = [t \in Tanks |-> None]
  /\ left = [t \in Tanks |-> None]
  /\ right = [t \in Tanks |-> None]
  /\ hasToken = [t \in Tanks |-> FALSE]
  /\ timer = [t \in Tanks |-> << >>]
  /\ giving = [t \in Tanks |-> None]
  /\ leases = 0
  /\ lease = [t \in Tanks |-> 0]
  /\ fishies = [t \in Tanks |-> {}]
  /\ todo = [t \in Tanks |-> {}]
  /\ created = {}
  /\ issued = 0
  /\ dropped = {}
  /\ stray = {}

Runs(t, thread) == status[t] = "running" /\ thread \in threads[t]
SendTo(s, r, msg) == net' = [net EXCEPT ![<<s, r>>] = Append(@, msg)]

-----------------------------------------------------------------------------
(* ClientCollection                                                          *)

Size == Len(clients)
IndexOfAddr(t) == CHOOSE i \in 1 .. Size : clients[i].addr = t
Registered(t) == \E i \in 1 .. Size : clients[i].addr = t
\* Position n (from 1) is the first with the id.
IsIndexOf(n, i) == clients[n].id = i /\ \A k \in 1 .. n - 1 : clients[k].id # i
LeftNeighbourOf(cs, n) == cs[IF n = 1 THEN Len(cs) ELSE n - 1].addr
RightNeighbourOf(cs, n) == cs[(n % Len(cs)) + 1].addr

-----------------------------------------------------------------------------
(* Broker: a request of tank t is taken from its channel and handled.        *)

Request(t, type) == net[<<t, Broker>>] # << >> /\ Head(net[<<t, Broker>>]).type = type

\* What the broker sends: msgs[r] to each tank r, after taking the request of t.
Answer(t, msgs) ==
  net' = [p \in Pairs |->
    IF p = <<t, Broker>> THEN Tail(net[p])
    ELSE IF p[1] = Broker /\ p[2] # Broker THEN net[p] \o msgs[p[2]] ELSE net[p]]

\* register, first half: a known sender keeps its id.
Reregister(t) ==
  /\ Request(t, "register")
  /\ Registered(t)
  /\ Answer(t, [r \in Tanks |->
       IF r = t THEN <<RegisterResponse(clients[IndexOfAddr(t)].id)>> ELSE << >>])
  /\ UNCHANGED <<ringVars, status, threads, tokenVars, leaseVars, fishVars, history>>

\* Mutant: the right neighbour is not told.
RegisterForgetsRight(t) ==
  /\ Request(t, "register")
  /\ ~Registered(t)
  /\ clients' = Append(clients, [id |-> Size, addr |-> t])
  /\ LET l == LeftNeighbourOf(clients', Size + 1)
         r == RightNeighbourOf(clients', Size + 1)
     IN  Answer(t, [a \in Tanks |->
           (IF a = l THEN <<NeighbourUpdate(t, "RIGHT")>> ELSE << >>)
             \o (IF a = t THEN <<NeighbourUpdate(l, "LEFT"), NeighbourUpdate(r, "RIGHT"),
                                 RegisterResponse(Size), Token(issued + 1)>> ELSE << >>)])
  /\ issued' = issued + 1
  /\ UNCHANGED <<id, left, right, status, threads, tokenVars, leaseVars, fishVars, dropped, stray>>

\* hasToken of the broker is never reset: every new client is sent a token.
RegisterNew(t) ==
  /\ Request(t, "register")
  /\ ~Registered(t)
  /\ clients' = Append(clients, [id |-> Size, addr |-> t])
  /\ LET l == LeftNeighbourOf(clients', Size + 1)
         r == RightNeighbourOf(clients', Size + 1)
     IN  Answer(t, [a \in Tanks |->
           (IF a = l THEN <<NeighbourUpdate(t, "RIGHT")>> ELSE << >>)
             \o (IF a = r THEN <<NeighbourUpdate(t, "LEFT")>> ELSE << >>)
             \o (IF a = t THEN <<NeighbourUpdate(l, "LEFT"), NeighbourUpdate(r, "RIGHT"),
                                 RegisterResponse(Size), Token(issued + 1)>> ELSE << >>)])
  /\ issued' = issued + 1
  /\ UNCHANGED <<id, left, right, status, threads, tokenVars, leaseVars, fishVars, dropped, stray>>

\* Mutant: the neighbours are not told.
DeregisterSilently(t) ==
  /\ Request(t, "deregister")
  /\ \E n \in 1 .. Size :
       /\ IsIndexOf(n, Head(net[<<t, Broker>>]).id)
       /\ clients' = RemoveAt(clients, n)
  /\ Answer(t, [a \in Tanks |-> << >>])
  /\ UNCHANGED <<id, left, right, status, threads, tokenVars, leaseVars, fishVars, history>>

\* Both neighbours are looked up with getLeftNeighborOf.
DeregisterKnown(t) ==
  /\ Request(t, "deregister")
  /\ \E n \in 1 .. Size : LET l == LeftNeighbourOf(clients, n) IN
       /\ IsIndexOf(n, Head(net[<<t, Broker>>]).id)
       /\ Answer(t, [a \in Tanks |->
            IF a = l THEN <<NeighbourUpdate(l, "RIGHT"), NeighbourUpdate(l, "LEFT")>> ELSE << >>])
       /\ clients' = RemoveAt(clients, n)
  /\ UNCHANGED <<id, left, right, status, threads, tokenVars, leaseVars, fishVars, history>>

\* indexOf returns -1 and the neighbour lookup throws: the worker drops the request.
DeregisterUnknown(t) ==
  /\ Request(t, "deregister")
  /\ \A n \in 1 .. Size : clients[n].id # Head(net[<<t, Broker>>]).id
  /\ Answer(t, [a \in Tanks |-> << >>])
  /\ UNCHANGED <<ringVars, status, threads, tokenVars, leaseVars, fishVars, history>>

-----------------------------------------------------------------------------
(* Tank: registration                                                        *)

\* TankModel.run
Start(t) ==
  /\ status[t] = "new"
  /\ status' = [status EXCEPT ![t] = "running"]
  /\ SendTo(t, Broker, Register)
  /\ UNCHANGED <<ringVars, threads, tokenVars, leaseVars, fishVars, history>>

RenewLease(t) ==
  /\ status[t] = "running" /\ lease[t] > 0
  /\ leases < MaxLeases
  /\ lease' = [lease EXCEPT ![t] = @ - 1]
  /\ leases' = leases + 1
  /\ SendTo(t, Broker, Register)
  /\ UNCHANGED <<ringVars, status, threads, tokenVars, fishVars, history>>

\* finish, then System.exit.
Finish(t) ==
  /\ t \in Leavers /\ status[t] = "running" /\ todo[t] = {}
  /\ status' = [status EXCEPT ![t] = "gone"]
  /\ SendTo(t, Broker, Deregister(id[t]))
  /\ UNCHANGED <<ringVars, threads, tokenVars, leaseVars, fishVars, history>>

-----------------------------------------------------------------------------
(* Tank: ClientReceiver.run                                                  *)

Receives(s, t, type) ==
  /\ Runs(t, "receiver")
  /\ net[<<s, t>>] # << >>
  /\ Head(net[<<s, t>>]).type = type
  /\ net' = [net EXCEPT ![<<s, t>>] = Tail(@)]

ReceiveNeighbour(s, t) ==
  /\ Receives(s, t, "neighbour")
  /\ LET m == Head(net[<<s, t>>]) IN
     /\ left' = IF m.dir = "LEFT" THEN [left EXCEPT ![t] = m.tank] ELSE left
     /\ right' = IF m.dir = "RIGHT" THEN [right EXCEPT ![t] = m.tank] ELSE right
  /\ UNCHANGED <<clients, id, status, threads, tokenVars, leaseVars, fishVars, history>>

\* onRegistration: synchronized, so never inside a pass of updateFishies.
OnRegistration(s, t) ==
  /\ todo[t] = {}
  /\ Receives(s, t, "response")
  /\ id' = [id EXCEPT ![t] = Head(net[<<s, t>>]).id]
  /\ lease' = [lease EXCEPT ![t] = @ + 1]
  /\ UNCHANGED <<clients, left, right, status, threads, tokenVars, leases, fishVars, history>>

\* Mutant: a second token does not get a task of its own.
ReceiveTokenOnce(s, t) ==
  /\ Receives(s, t, "token")
  /\ "timer" \in threads[t]
  /\ hasToken' = [hasToken EXCEPT ![t] = TRUE]
  /\ timer' = IF hasToken[t] THEN timer ELSE [timer EXCEPT ![t] = Append(@, Head(net[<<s, t>>]).token)]
  /\ UNCHANGED <<ringVars, status, threads, giving, leaseVars, fishVars, history>>

ReceiveToken(s, t) ==
  /\ Receives(s, t, "token")
  /\ "timer" \in threads[t]
  /\ hasToken' = [hasToken EXCEPT ![t] = TRUE]
  /\ timer' = [timer EXCEPT ![t] = Append(@, Head(net[<<s, t>>]).token)]
  /\ UNCHANGED <<ringVars, status, threads, giving, leaseVars, fishVars, history>>

\* schedule on a dead timer throws and ends the receiver.
ReceiveTokenFails(s, t) ==
  /\ Receives(s, t, "token")
  /\ "timer" \notin threads[t]
  /\ hasToken' = [hasToken EXCEPT ![t] = TRUE]
  /\ threads' = [threads EXCEPT ![t] = @ \ {"receiver"}]
  /\ dropped' = dropped \cup {Head(net[<<s, t>>]).token}
  /\ UNCHANGED <<ringVars, status, timer, giving, leaseVars, fishVars, issued, stray>>

\* setToStart, then the fish swims on in the same direction.
SetToStartOutside(d) == IF d = "LEFT" THEN Width + XSize ELSE -XSize \* Mutant
SetToStart(d) == IF d = "LEFT" THEN Width ELSE -XSize

ReceiveFish(s, t) ==
  /\ todo[t] = {}
  /\ Receives(s, t, "handoff")
  /\ LET m == Head(net[<<s, t>>]) IN
     fishies' = [fishies EXCEPT ![t] = @ \cup {[fish |-> m.fish, x |-> SetToStart(m.dir), dir |-> m.dir]}]
  /\ UNCHANGED <<ringVars, status, threads, tokenVars, leaseVars, todo, created, history>>

-----------------------------------------------------------------------------
(* Tank: the token task                                                      *)

\* Mutant: the flag is not cleared.
TimerKeepsToken(t) ==
  /\ Runs(t, "timer") /\ giving[t] = None /\ timer[t] # << >>
  /\ giving' = [giving EXCEPT ![t] = Head(timer[t])]
  /\ timer' = [timer EXCEPT ![t] = Tail(@)]
  /\ UNCHANGED <<ringVars, net, status, threads, hasToken, leaseVars, fishVars, history>>

TimerClear(t) ==
  /\ Runs(t, "timer") /\ giving[t] = None /\ timer[t] # << >>
  /\ hasToken' = [hasToken EXCEPT ![t] = FALSE]
  /\ giving' = [giving EXCEPT ![t] = Head(timer[t])]
  /\ timer' = [timer EXCEPT ![t] = Tail(@)]
  /\ UNCHANGED <<ringVars, net, status, threads, leaseVars, fishVars, history>>

GiveBackToken(t) ==
  /\ Runs(t, "timer") /\ giving[t] # None
  /\ left[t] # None
  /\ SendTo(t, left[t], Token(giving[t]))
  /\ giving' = [giving EXCEPT ![t] = None]
  /\ UNCHANGED <<ringVars, status, threads, hasToken, timer, leaseVars, fishVars, history>>

\* Sending to null throws and ends the timer thread.
GiveBackFails(t) ==
  /\ Runs(t, "timer") /\ giving[t] # None
  /\ left[t] = None
  /\ dropped' = dropped \cup {giving[t]}
  /\ giving' = [giving EXCEPT ![t] = None]
  /\ threads' = [threads EXCEPT ![t] = @ \ {"timer"}]
  /\ UNCHANGED <<ringVars, net, status, hasToken, timer, leaseVars, fishVars, issued, stray>>

-----------------------------------------------------------------------------
(* Tank: fish                                                                *)

Clamp(x) == IF x > Width - XSize - 1 THEN Width - XSize - 1 ELSE x

NewFish(t, f, x, d) ==
  /\ status[t] = "running" /\ todo[t] = {}
  /\ Cardinality(fishies[t]) < MaxFishies
  /\ f \notin created
  /\ created' = created \cup {f}
  /\ fishies' = [fishies EXCEPT ![t] = @ \cup {[fish |-> f, x |-> Clamp(x), dir |-> d]}]
  /\ stray' = IF x = 0 /\ d = "LEFT" THEN stray \cup {f} ELSE stray
  /\ UNCHANGED <<ringVars, net, status, threads, tokenVars, leaseVars, todo, issued, dropped>>

Moved(o) == [o EXCEPT !.x = @ + (IF o.dir = "LEFT" THEN -1 ELSE 1)]
Reversed(o) == [o EXCEPT !.dir = IF @ = "LEFT" THEN "RIGHT" ELSE "LEFT"]
HitsEdge(o) == (o.dir = "LEFT" /\ o.x = 0) \/ (o.dir = "RIGHT" /\ o.x = Width - XSize)
Disappears(o) == (o.dir = "LEFT" /\ o.x = -XSize) \/ (o.dir = "RIGHT" /\ o.x = Width)
Ahead(t, o) == IF o.dir = "RIGHT" THEN right[t] ELSE left[t]

\* The rest of the pass, and the fish that replaces o in it.
Visit(t, o, after) ==
  /\ todo' = [todo EXCEPT ![t] = (IF @ = {} THEN fishies[t] ELSE @) \ {o}]
  /\ fishies' = [fishies EXCEPT ![t] = (@ \ {o}) \cup after]

Turn(t) == IF todo[t] = {} THEN fishies[t] ELSE todo[t]

Swim(t, o) ==
  /\ ~HitsEdge(Moved(o))
  /\ Visit(t, o, IF Disappears(Moved(o)) THEN {} ELSE {Moved(o)})
  /\ UNCHANGED <<net, threads, dropped>>

\* Mutant: the fish is not reversed.
TurnForgotten(t, o) ==
  /\ HitsEdge(Moved(o)) /\ ~hasToken[t]
  /\ Visit(t, o, {Moved(o)})
  /\ UNCHANGED <<net, threads, dropped>>

TurnBack(t, o) ==
  /\ HitsEdge(Moved(o)) /\ ~hasToken[t]
  /\ Visit(t, o, {Reversed(Moved(o))})
  /\ UNCHANGED <<net, threads, dropped>>

HandOff(t, o) ==
  /\ HitsEdge(Moved(o)) /\ hasToken[t] /\ Ahead(t, o) # None
  /\ SendTo(t, Ahead(t, o), HandoffRequest(o.fish, o.dir))
  /\ Visit(t, o, {Moved(o)})
  /\ UNCHANGED <<threads, dropped>>

\* Sending to null throws and ends the update loop.
HandOffFails(t, o) ==
  /\ HitsEdge(Moved(o)) /\ hasToken[t] /\ Ahead(t, o) = None
  /\ fishies' = [fishies EXCEPT ![t] = (@ \ {o}) \cup {Moved(o)}]
  /\ todo' = [todo EXCEPT ![t] = {}]
  /\ threads' = [threads EXCEPT ![t] = @ \ {"update"}]
  /\ dropped' = dropped \cup {o.fish}
  /\ UNCHANGED net

\* One iteration of updateFishies; the pass holds the monitor of the tank.
UpdateFishies(t, o) ==
  /\ Runs(t, "update")
  /\ o \in Turn(t)
  /\ Swim(t, o) \/ TurnBack(t, o) \/ HandOff(t, o) \/ HandOffFails(t, o)
  /\ UNCHANGED <<ringVars, status, tokenVars, leaseVars, created, issued, stray>>

-----------------------------------------------------------------------------
BrokerStep == \E t \in Tanks :
  Reregister(t) \/ RegisterNew(t) \/ DeregisterKnown(t) \/ DeregisterUnknown(t)
ReceiveFrom(s, t) ==
  \/ ReceiveNeighbour(s, t) \/ OnRegistration(s, t) \/ ReceiveFish(s, t)
  \/ ReceiveToken(s, t) \/ ReceiveTokenFails(s, t)
TimerStep(t) == TimerClear(t) \/ GiveBackToken(t) \/ GiveBackFails(t)
UpdateStep(t) == \E o \in fishies[t] : UpdateFishies(t, o)

Next ==
  \/ BrokerStep
  \/ \E t \in Tanks :
       \/ Start(t) \/ RenewLease(t) \/ Finish(t)
       \/ \E s \in Addresses : ReceiveFrom(s, t)
       \/ TimerStep(t) \/ UpdateStep(t)
       \/ \E f \in Fish, x \in 0 .. Width - 1, d \in Dirs : NewFish(t, f, x, d)

\* The broker loop, the receivers and the timers keep running.
Fairness ==
  /\ WF_vars(BrokerStep)
  /\ \A t \in Tanks : WF_vars(TimerStep(t)) /\ WF_vars(Start(t))
  /\ \A t \in Tanks, s \in Addresses : WF_vars(ReceiveFrom(s, t))

Safe == Init /\ [][Next]_vars
Spec == Safe /\ Fairness

-----------------------------------------------------------------------------
(* Properties.                                                               *)

\* The positions at which an element of S waits in one of the queues.
Copies(P, queue, S) ==
  UNION {{<<p, i>> : i \in {j \in 1 .. Len(queue[p]) : queue[p][j] \in S}} : p \in P}

TokenPlaces(k) ==
  Copies(Pairs, net, {Token(k)}) \cup Copies(Tanks, timer, {k}) \cup {t \in Tanks : giving[t] = k}

(* Tokens are passed on by three threads of each tank and survive changes of *)
(* the ring: a token is in exactly one channel or token task, unless the     *)
(* send to a neighbour that is still null swallowed it.                      *)
TokenConserved ==
  \A k \in 1 .. issued : Cardinality(TokenPlaces(k)) = IF k \in dropped THEN 0 ELSE 1

(* hasToken is one flag for several tokens, cleared by the timer while the   *)
(* receiver sets it: a tank that may hand fish over still has a task that    *)
(* will end its turn.                                                        *)
TokenIsGivenBack ==
  \A t \in Tanks : hasToken[t] /\ "timer" \in threads[t] => timer[t] # << >>

Leaving(o) == (o.dir = "LEFT" /\ o.x <= 0) \/ (o.dir = "RIGHT" /\ o.x >= Width - XSize)
FishPlaces(f) ==
  Copies(Pairs, net, {HandoffRequest(f, d) : d \in Dirs})
    \cup UNION {{<<t, o>> : o \in {u \in fishies[t] : u.fish = f /\ ~Leaving(u)}} : t \in Tanks}

(* A fish is never in two tanks, and none gets lost: while a copy of it is   *)
(* leaving one tank, exactly one copy is on its way or swims in a tank.      *)
(* Only a fish that was placed on the left edge facing it may vanish.        *)
FishConserved ==
  \A f \in Fish :
    /\ Cardinality(FishPlaces(f)) <= 1
    /\ f \in created \ (dropped \cup stray) => Cardinality(FishPlaces(f)) = 1

Settled ==
  \A p \in Pairs : \A i \in 1 .. Len(net[p]) : net[p][i].type \in {"token", "handoff", "response"}

(* Once every request is handled and every NeighbourUpdate is read, the      *)
(* neighbours the tanks know are those of the broker's list.                 *)
RingConsistent ==
  Settled => \A n \in 1 .. Size : status[clients[n].addr] = "running" =>
    /\ left[clients[n].addr] = LeftNeighbourOf(clients, n)
    /\ right[clients[n].addr] = RightNeighbourOf(clients, n)

(* Without an exception every tank gets a token again and again.             *)
TokenComesRound ==
  [](dropped = {}) => \A t \in Tanks : []<>hasToken[t]

=============================================================================
