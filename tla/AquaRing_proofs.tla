-------------------------- MODULE AquaRing_proofs --------------------------
(***************************************************************************)
(* Type correctness of AquaRing, the discipline of the token flag, the     *)
(* consistency of the ring and the conservation of tokens and fish, for    *)
(* any number of tanks and fish and any size of tank and fish.             *)
(***************************************************************************)
EXTENDS AquaRing, SequenceTheorems, FiniteSetTheorems, TLAPS

\* A fish is never past the edge it swims to: the next move keeps it in range.
FishFacing ==
  \A t \in Tanks : \A o \in fishies[t] :
    (o.dir = "LEFT" => o.x > -XSize) /\ (o.dir = "RIGHT" => o.x < Width)

TypeInv == TypeOK /\ FishFacing

\* The messages of the program are messages.
LEMMA MessageTypes ==
  /\ Register \in Messages
  /\ \A i \in Nat \cup {None} : Deregister(i) \in Messages
  /\ \A t \in Tanks, d \in Dirs : NeighbourUpdate(t, d) \in Messages
  /\ \A i \in Nat : RegisterResponse(i) \in Messages
  /\ \A k \in Tokens : Token(k) \in Messages
  /\ \A f \in Fish, d \in Dirs : HandoffRequest(f, d) \in Messages
<1>1. Register \in Messages
  BY DEF Messages, Register
<1>2. ASSUME NEW i \in Nat \cup {None} PROVE Deregister(i) \in Messages
  BY DEF Messages, Deregister
<1>3. ASSUME NEW t \in Tanks, NEW d \in Dirs PROVE NeighbourUpdate(t, d) \in Messages
  BY DEF Messages, NeighbourUpdate
<1>4. ASSUME NEW i \in Nat PROVE RegisterResponse(i) \in Messages
  BY DEF Messages, RegisterResponse
<1>5. ASSUME NEW k \in Tokens PROVE Token(k) \in Messages
  BY DEF Messages, Token
<1>6. ASSUME NEW f \in Fish, NEW d \in Dirs PROVE HandoffRequest(f, d) \in Messages
  BY DEF Messages, HandoffRequest
<1>. QED  BY <1>1, <1>2, <1>3, <1>4, <1>5, <1>6

\* What the type of a message says of its fields.
LEMMA MessageFields ==
  ASSUME NEW m \in Messages
  PROVE  /\ m.type = "deregister" => m.id \in Nat \cup {None}
         /\ m.type = "neighbour" => m.tank \in Tanks /\ m.dir \in Dirs
         /\ m.type = "response" => m.id \in Nat
         /\ m.type = "token" => m.token \in Tokens
         /\ m.type = "handoff" => m.fish \in Fish /\ m.dir \in Dirs
BY DEF Messages

\* Sending keeps the channels well typed.
LEMMA SendTypes ==
  ASSUME net \in [Pairs -> Seq(Messages)],
         NEW s \in Addresses, NEW r \in Addresses, NEW m \in Messages, SendTo(s, r, m)
  PROVE  net' \in [Pairs -> Seq(Messages)]
<1>1. <<s, r>> \in Pairs /\ net[<<s, r>>] \in Seq(Messages)
  BY DEF Pairs
<1>2. Append(net[<<s, r>>], m) \in Seq(Messages)
  BY <1>1, AppendProperties
<1>. QED  BY <1>2 DEF SendTo

\* Receiving keeps the channels well typed and yields a message.
LEMMA ReceiveTypes ==
  ASSUME net \in [Pairs -> Seq(Messages)],
         NEW s \in Addresses, NEW t \in Tanks, NEW type, Receives(s, t, type)
  PROVE  /\ net' \in [Pairs -> Seq(Messages)]
         /\ Head(net[<<s, t>>]) \in Messages
         /\ Head(net[<<s, t>>]).type = type
<1>1. <<s, t>> \in Pairs /\ net[<<s, t>>] \in Seq(Messages) /\ net[<<s, t>>] # << >>
  BY DEF Pairs, Addresses, Receives
<1>2. Tail(net[<<s, t>>]) \in Seq(Messages) /\ Head(net[<<s, t>>]) \in Messages
  BY <1>1, HeadTailProperties
<1>. QED  BY <1>2 DEF Receives

\* The broker's answers keep the channels well typed.
LEMMA AnswerTypes ==
  ASSUME net \in [Pairs -> Seq(Messages)], NEW t \in Tanks, net[<<t, Broker>>] # << >>,
         NEW msgs \in [Tanks -> Seq(Messages)], Answer(t, msgs)
  PROVE  net' \in [Pairs -> Seq(Messages)]
<1>1. ASSUME NEW p \in Pairs
      PROVE  (IF p = <<t, Broker>> THEN Tail(net[p])
              ELSE IF p[1] = Broker /\ p[2] # Broker THEN net[p] \o msgs[p[2]] ELSE net[p]) \in Seq(Messages)
  <2>1. net[p] \in Seq(Messages)
    OBVIOUS
  <2>2. p = <<t, Broker>> => Tail(net[p]) \in Seq(Messages)
    BY <2>1, HeadTailProperties
  <2>3. p[2] # Broker => p[2] \in Tanks
    BY DEF Pairs, Addresses
  <2>4. p[2] # Broker => net[p] \o msgs[p[2]] \in Seq(Messages)
    BY <2>1, <2>3, ConcatProperties
  <2>. QED  BY <2>1, <2>2, <2>4
<1>. QED  BY <1>1 DEF Answer

\* A request of a tank is a message of its channel.
LEMMA RequestTypes ==
  ASSUME net \in [Pairs -> Seq(Messages)], NEW t \in Tanks, NEW type, Request(t, type)
  PROVE  /\ net[<<t, Broker>>] # << >>
         /\ Head(net[<<t, Broker>>]) \in Messages
         /\ Head(net[<<t, Broker>>]).type = type
<1>1. <<t, Broker>> \in Pairs /\ net[<<t, Broker>>] \in Seq(Messages) /\ net[<<t, Broker>>] # << >>
  BY DEF Pairs, Addresses, Request
<1>. QED  BY <1>1, HeadTailProperties DEF Request

\* Lists of at most four messages.
LEMMA ShortLists ==
  ASSUME NEW a \in Messages, NEW b \in Messages, NEW c \in Messages, NEW d \in Messages
  PROVE  /\ << >> \in Seq(Messages) /\ <<a>> \in Seq(Messages)
         /\ <<a, b>> \in Seq(Messages) /\ <<a, b, c, d>> \in Seq(Messages)
OBVIOUS

LEMMA NeighbourTypes ==
  ASSUME NEW cs \in Seq([id : Nat, addr : Tanks]), NEW n \in 1 .. Len(cs)
  PROVE  LeftNeighbourOf(cs, n) \in Tanks /\ RightNeighbourOf(cs, n) \in Tanks
<1>1. Len(cs) \in Nat /\ Len(cs) > 0
  BY LenProperties
<1>2. (IF n = 1 THEN Len(cs) ELSE n - 1) \in 1 .. Len(cs)
  BY <1>1
<1>3. (n % Len(cs)) + 1 \in 1 .. Len(cs)
  BY <1>1
<1>4. ASSUME NEW i \in 1 .. Len(cs) PROVE cs[i].addr \in Tanks
  <2>1. cs[i] \in [id : Nat, addr : Tanks]
    BY ElementOfSeq
  <2>. QED  BY <2>1
<1>. QED  BY <1>2, <1>3, <1>4 DEF LeftNeighbourOf, RightNeighbourOf

-----------------------------------------------------------------------------
(* One lemma per action: TypeInv is kept.                                    *)

LEMMA InitTypes == Init => TypeInv
<1>. SUFFICES ASSUME Init PROVE TypeInv
  OBVIOUS
<1>1. << >> \in Seq(Messages) /\ << >> \in Seq(Tokens) /\ << >> \in Seq([id : Nat, addr : Tanks])
  BY EmptySeq
<1>2. TypeOK
  BY <1>1, RingAssumption DEF Init, TypeOK
<1>3. FishFacing
  BY DEF Init, FishFacing
<1>. QED  BY <1>2, <1>3 DEF TypeInv

LEMMA StutterTypes == TypeInv /\ UNCHANGED vars => TypeInv'
BY DEF TypeInv, TypeOK, FishFacing, vars, ringVars, tokenVars, leaseVars, fishVars, history

LEMMA ReregisterTypes == \A t \in Tanks : TypeInv /\ Reregister(t) => TypeInv'
<1>. SUFFICES ASSUME NEW t \in Tanks, TypeInv, Reregister(t) PROVE TypeInv'
  OBVIOUS
<1>. DEFINE msgs == [r \in Tanks |-> IF r = t THEN <<RegisterResponse(clients[IndexOfAddr(t)].id)>> ELSE << >>]
<1>1. IndexOfAddr(t) \in 1 .. Len(clients)
  BY DEF Reregister, Registered, IndexOfAddr, Size
<1>2. clients[IndexOfAddr(t)] \in [id : Nat, addr : Tanks]
  BY <1>1, ElementOfSeq DEF TypeInv, TypeOK
<1>3. RegisterResponse(clients[IndexOfAddr(t)].id) \in Messages
  BY <1>2, MessageTypes
<1>4. msgs \in [Tanks -> Seq(Messages)]
  BY <1>3, ShortLists
<1>5. net \in [Pairs -> Seq(Messages)] /\ Request(t, "register") /\ Answer(t, msgs)
  BY DEF TypeInv, TypeOK, Reregister
<1>6. net' \in [Pairs -> Seq(Messages)]
  <2>. HIDE DEF msgs
  <2>. QED  BY <1>4, <1>5, RequestTypes, AnswerTypes
<1>. QED  BY <1>6 DEF TypeInv, TypeOK, FishFacing, Reregister, ringVars, tokenVars, leaseVars, fishVars, history

LEMMA RegisterNewTypes == \A t \in Tanks : TypeInv /\ RegisterNew(t) => TypeInv'
<1>. SUFFICES ASSUME NEW t \in Tanks, TypeInv, RegisterNew(t) PROVE TypeInv'
  OBVIOUS
<1>. DEFINE l == LeftNeighbourOf(clients', Size + 1)
            r == RightNeighbourOf(clients', Size + 1)
            msgs == [a \in Tanks |->
           (IF a = l THEN <<NeighbourUpdate(t, "RIGHT")>> ELSE << >>)
             \o (IF a = r THEN <<NeighbourUpdate(t, "LEFT")>> ELSE << >>)
             \o (IF a = t THEN <<NeighbourUpdate(l, "LEFT"), NeighbourUpdate(r, "RIGHT"),
                                 RegisterResponse(Size), Token(issued + 1)>> ELSE << >>)]
<1>1. Size \in Nat /\ [id |-> Size, addr |-> t] \in [id : Nat, addr : Tanks]
  BY LenProperties DEF TypeInv, TypeOK, Size
<1>2. /\ clients' \in Seq([id : Nat, addr : Tanks])
      /\ Size + 1 \in 1 .. Len(clients')
  BY <1>1, AppendProperties DEF TypeInv, TypeOK, RegisterNew, Size
<1>3. l \in Tanks /\ r \in Tanks
  BY <1>2, NeighbourTypes
<1>4. msgs \in [Tanks -> Seq(Messages)]
  <2>1. issued + 1 \in Tokens /\ "LEFT" \in Dirs /\ "RIGHT" \in Dirs
    BY DEF TypeInv, TypeOK, Tokens, Dirs
  <2>2. /\ NeighbourUpdate(t, "RIGHT") \in Messages /\ NeighbourUpdate(t, "LEFT") \in Messages
        /\ NeighbourUpdate(l, "LEFT") \in Messages /\ NeighbourUpdate(r, "RIGHT") \in Messages
        /\ RegisterResponse(Size) \in Messages /\ Token(issued + 1) \in Messages
    BY <1>1, <1>3, <2>1, MessageTypes
  <2>. HIDE DEF l, r
  <2>3. ASSUME NEW a \in Tanks PROVE msgs[a] \in Seq(Messages)
    <3>. DEFINE x == IF a = l THEN <<NeighbourUpdate(t, "RIGHT")>> ELSE << >>
                y == IF a = r THEN <<NeighbourUpdate(t, "LEFT")>> ELSE << >>
                z == IF a = t THEN <<NeighbourUpdate(l, "LEFT"), NeighbourUpdate(r, "RIGHT"),
                                     RegisterResponse(Size), Token(issued + 1)>> ELSE << >>
    <3>1. x \in Seq(Messages) /\ y \in Seq(Messages) /\ z \in Seq(Messages)
      BY <2>2, ShortLists
    <3>2. msgs[a] = (x \o y) \o z
      OBVIOUS
    <3>. HIDE DEF x, y, z, msgs
    <3>3. x \o y \in Seq(Messages)
      BY <3>1, ConcatProperties
    <3>. QED  BY <3>1, <3>2, <3>3, ConcatProperties
  <2>. QED  BY <2>3
<1>5. net \in [Pairs -> Seq(Messages)] /\ Request(t, "register") /\ Answer(t, msgs)
  BY DEF TypeInv, TypeOK, RegisterNew
<1>6. net' \in [Pairs -> Seq(Messages)]
  <2>. HIDE DEF msgs
  <2>. QED  BY <1>4, <1>5, RequestTypes, AnswerTypes
<1>. HIDE DEF l, r, msgs
<1>7. issued' \in Nat
  BY DEF TypeInv, TypeOK, RegisterNew
<1>. QED  BY <1>2, <1>6, <1>7 DEF TypeInv, TypeOK, FishFacing, RegisterNew, tokenVars, leaseVars, fishVars

LEMMA DeregisterKnownTypes == \A t \in Tanks : TypeInv /\ DeregisterKnown(t) => TypeInv'
<1>. SUFFICES ASSUME NEW t \in Tanks, TypeInv, DeregisterKnown(t) PROVE TypeInv'
  OBVIOUS
<1>1. PICK n \in 1 .. Size :
        /\ Answer(t, [a \in Tanks |->
             IF a = LeftNeighbourOf(clients, n)
             THEN <<NeighbourUpdate(LeftNeighbourOf(clients, n), "RIGHT"), NeighbourUpdate(LeftNeighbourOf(clients, n), "LEFT")>>
             ELSE << >>])
        /\ clients' = RemoveAt(clients, n)
  BY DEF DeregisterKnown
<1>. DEFINE l == LeftNeighbourOf(clients, n)
            msgs == [a \in Tanks |->
              IF a = l THEN <<NeighbourUpdate(l, "RIGHT"), NeighbourUpdate(l, "LEFT")>> ELSE << >>]
<1>2. clients \in Seq([id : Nat, addr : Tanks]) /\ n \in 1 .. Len(clients)
  BY DEF TypeInv, TypeOK, Size
<1>3. NeighbourUpdate(l, "RIGHT") \in Messages /\ NeighbourUpdate(l, "LEFT") \in Messages
  BY <1>2, NeighbourTypes, MessageTypes DEF Dirs
<1>4. msgs \in [Tanks -> Seq(Messages)]
  <2>. HIDE DEF l
  <2>. QED  BY <1>3, ShortLists
<1>5. net \in [Pairs -> Seq(Messages)] /\ Request(t, "deregister") /\ Answer(t, msgs)
  BY <1>1 DEF TypeInv, TypeOK, DeregisterKnown
<1>6. net' \in [Pairs -> Seq(Messages)]
  <2>. HIDE DEF msgs
  <2>. QED  BY <1>4, <1>5, RequestTypes, AnswerTypes
<1>7. clients' \in Seq([id : Nat, addr : Tanks])
  <2>. DEFINE E == [id : Nat, addr : Tanks]
  <2>1. Len(clients) \in Nat /\ \A i \in 1 .. Len(clients) : clients[i] \in E
    BY <1>2, LenProperties, ElementOfSeq
  <2>. HIDE DEF E
  <2>2. SubSeq(clients, 1, n - 1) \in Seq(E)
    BY <1>2, <2>1, SubSeqProperties
  <2>3. SubSeq(clients, n + 1, Len(clients)) \in Seq(E)
    BY <1>2, <2>1, SubSeqProperties
  <2>4. clients' \in Seq(E)
    BY <1>1, <2>2, <2>3, ConcatProperties DEF RemoveAt
  <2>. QED  BY <2>4 DEF E
<1>. HIDE DEF l, msgs
<1>. QED  BY <1>6, <1>7 DEF TypeInv, TypeOK, FishFacing, DeregisterKnown, tokenVars, leaseVars, fishVars, history

LEMMA DeregisterUnknownTypes == \A t \in Tanks : TypeInv /\ DeregisterUnknown(t) => TypeInv'
<1>. SUFFICES ASSUME NEW t \in Tanks, TypeInv, DeregisterUnknown(t) PROVE TypeInv'
  OBVIOUS
<1>. DEFINE msgs == [a \in Tanks |-> << >>]
<1>1. msgs \in [Tanks -> Seq(Messages)]
  BY EmptySeq
<1>2. net \in [Pairs -> Seq(Messages)] /\ Request(t, "deregister") /\ Answer(t, msgs)
  BY DEF TypeInv, TypeOK, DeregisterUnknown
<1>3. net' \in [Pairs -> Seq(Messages)]
  <2>. HIDE DEF msgs
  <2>. QED  BY <1>1, <1>2, RequestTypes, AnswerTypes
<1>. QED  BY <1>3 DEF TypeInv, TypeOK, FishFacing, DeregisterUnknown, ringVars, tokenVars, leaseVars, fishVars, history

LEMMA StartTypes == \A t \in Tanks : TypeInv /\ Start(t) => TypeInv'
<1>. SUFFICES ASSUME NEW t \in Tanks, TypeInv, Start(t) PROVE TypeInv'
  OBVIOUS
<1>1. net' \in [Pairs -> Seq(Messages)]
  BY MessageTypes, SendTypes DEF TypeInv, TypeOK, Start, Addresses
<1>. QED  BY <1>1 DEF TypeInv, TypeOK, FishFacing, Start, ringVars, tokenVars, leaseVars, fishVars, history

LEMMA RenewLeaseTypes == \A t \in Tanks : TypeInv /\ RenewLease(t) => TypeInv'
<1>. SUFFICES ASSUME NEW t \in Tanks, TypeInv, RenewLease(t) PROVE TypeInv'
  OBVIOUS
<1>1. net' \in [Pairs -> Seq(Messages)]
  BY MessageTypes, SendTypes DEF TypeInv, TypeOK, RenewLease, Addresses
<1>2. leases' \in 0 .. MaxLeases /\ lease' \in [Tanks -> Nat]
  BY RingAssumption DEF TypeInv, TypeOK, RenewLease
<1>. QED  BY <1>1, <1>2 DEF TypeInv, TypeOK, FishFacing, RenewLease, ringVars, tokenVars, fishVars, history

LEMMA FinishTypes == \A t \in Tanks : TypeInv /\ Finish(t) => TypeInv'
<1>. SUFFICES ASSUME NEW t \in Tanks, TypeInv, Finish(t) PROVE TypeInv'
  OBVIOUS
<1>1. net' \in [Pairs -> Seq(Messages)]
  BY MessageTypes, SendTypes DEF TypeInv, TypeOK, Finish, Addresses
<1>. QED  BY <1>1 DEF TypeInv, TypeOK, FishFacing, Finish, ringVars, tokenVars, leaseVars, fishVars, history

LEMMA ReceiveNeighbourTypes ==
  \A s \in Addresses, t \in Tanks : TypeInv /\ ReceiveNeighbour(s, t) => TypeInv'
<1>. SUFFICES ASSUME NEW s \in Addresses, NEW t \in Tanks, TypeInv, ReceiveNeighbour(s, t) PROVE TypeInv'
  OBVIOUS
<1>. DEFINE m == Head(net[<<s, t>>])
<1>1. net' \in [Pairs -> Seq(Messages)] /\ m \in Messages /\ m.type = "neighbour"
  BY ReceiveTypes DEF TypeInv, TypeOK, ReceiveNeighbour
<1>2. m.tank \in Tanks
  BY <1>1, MessageFields
<1>3. left' \in [Tanks -> Tanks \cup {None}] /\ right' \in [Tanks -> Tanks \cup {None}]
  BY <1>2 DEF TypeInv, TypeOK, ReceiveNeighbour
<1>. QED  BY <1>1, <1>3 DEF TypeInv, TypeOK, FishFacing, ReceiveNeighbour, tokenVars, leaseVars, fishVars, history

LEMMA OnRegistrationTypes ==
  \A s \in Addresses, t \in Tanks : TypeInv /\ OnRegistration(s, t) => TypeInv'
<1>. SUFFICES ASSUME NEW s \in Addresses, NEW t \in Tanks, TypeInv, OnRegistration(s, t) PROVE TypeInv'
  OBVIOUS
<1>. DEFINE m == Head(net[<<s, t>>])
<1>1. net' \in [Pairs -> Seq(Messages)] /\ m \in Messages /\ m.type = "response"
  BY ReceiveTypes DEF TypeInv, TypeOK, OnRegistration
<1>2. m.id \in Nat
  BY <1>1, MessageFields
<1>3. id' \in [Tanks -> Nat \cup {None}] /\ lease' \in [Tanks -> Nat]
  BY <1>2 DEF TypeInv, TypeOK, OnRegistration
<1>. QED  BY <1>1, <1>3 DEF TypeInv, TypeOK, FishFacing, OnRegistration, tokenVars, fishVars, history

LEMMA ReceiveTokenTypes ==
  \A s \in Addresses, t \in Tanks : TypeInv /\ ReceiveToken(s, t) => TypeInv'
<1>. SUFFICES ASSUME NEW s \in Addresses, NEW t \in Tanks, TypeInv, ReceiveToken(s, t) PROVE TypeInv'
  OBVIOUS
<1>. DEFINE m == Head(net[<<s, t>>])
<1>1. net' \in [Pairs -> Seq(Messages)] /\ m \in Messages /\ m.type = "token"
  BY ReceiveTypes DEF TypeInv, TypeOK, ReceiveToken
<1>2. m.token \in Tokens
  BY <1>1, MessageFields
<1>3. Append(timer[t], m.token) \in Seq(Tokens)
  BY <1>2, AppendProperties DEF TypeInv, TypeOK
<1>4. timer' \in [Tanks -> Seq(Tokens)] /\ hasToken' \in [Tanks -> BOOLEAN]
  BY <1>3 DEF TypeInv, TypeOK, ReceiveToken
<1>. QED  BY <1>1, <1>4 DEF TypeInv, TypeOK, FishFacing, ReceiveToken, ringVars, leaseVars, fishVars, history

LEMMA ReceiveTokenFailsTypes ==
  \A s \in Addresses, t \in Tanks : TypeInv /\ ReceiveTokenFails(s, t) => TypeInv'
<1>. SUFFICES ASSUME NEW s \in Addresses, NEW t \in Tanks, TypeInv, ReceiveTokenFails(s, t) PROVE TypeInv'
  OBVIOUS
<1>. DEFINE m == Head(net[<<s, t>>])
<1>1. net' \in [Pairs -> Seq(Messages)] /\ m \in Messages /\ m.type = "token"
  BY ReceiveTypes DEF TypeInv, TypeOK, ReceiveTokenFails
<1>2. m.token \in Tokens
  BY <1>1, MessageFields
<1>3. hasToken' \in [Tanks -> BOOLEAN] /\ threads' \in [Tanks -> SUBSET Threads] /\ dropped' \subseteq Tokens \cup Fish
  BY <1>2 DEF TypeInv, TypeOK, ReceiveTokenFails
<1>. QED  BY <1>1, <1>3 DEF TypeInv, TypeOK, FishFacing, ReceiveTokenFails, ringVars, leaseVars, fishVars

LEMMA ReceiveFishTypes ==
  \A s \in Addresses, t \in Tanks : TypeInv /\ ReceiveFish(s, t) => TypeInv'
<1>. SUFFICES ASSUME NEW s \in Addresses, NEW t \in Tanks, TypeInv, ReceiveFish(s, t) PROVE TypeInv'
  OBVIOUS
<1>. DEFINE m == Head(net[<<s, t>>])
            o == [fish |-> m.fish, x |-> SetToStart(m.dir), dir |-> m.dir]
<1>1. net' \in [Pairs -> Seq(Messages)] /\ m \in Messages /\ m.type = "handoff"
  BY ReceiveTypes DEF TypeInv, TypeOK, ReceiveFish
<1>2. m.fish \in Fish /\ m.dir \in Dirs
  BY <1>1, MessageFields
<1>. HIDE DEF m
<1>3. o \in FishModels /\ (o.dir = "LEFT" => o.x > -XSize) /\ (o.dir = "RIGHT" => o.x < Width)
  BY <1>2, RingAssumption DEF FishModels, SetToStart, Dirs
<1>4. fishies' = [fishies EXCEPT ![t] = @ \cup {o}]
  BY DEF ReceiveFish, m
<1>. HIDE DEF o
<1>5. fishies' \in [Tanks -> SUBSET FishModels] /\ FishFacing'
  BY <1>3, <1>4 DEF TypeInv, TypeOK, FishFacing
<1>. QED  BY <1>1, <1>5 DEF TypeInv, TypeOK, ReceiveFish, ringVars, tokenVars, leaseVars, history

LEMMA TimerClearTypes == \A t \in Tanks : TypeInv /\ TimerClear(t) => TypeInv'
<1>. SUFFICES ASSUME NEW t \in Tanks, TypeInv, TimerClear(t) PROVE TypeInv'
  OBVIOUS
<1>1. Head(timer[t]) \in Tokens /\ Tail(timer[t]) \in Seq(Tokens)
  BY HeadTailProperties DEF TypeInv, TypeOK, TimerClear
<1>2. timer' \in [Tanks -> Seq(Tokens)] /\ hasToken' \in [Tanks -> BOOLEAN] /\ giving' \in [Tanks -> Tokens \cup {None}]
  BY <1>1 DEF TypeInv, TypeOK, TimerClear
<1>. QED  BY <1>2 DEF TypeInv, TypeOK, FishFacing, TimerClear, ringVars, leaseVars, fishVars, history

LEMMA GiveBackTokenTypes == \A t \in Tanks : TypeInv /\ GiveBackToken(t) => TypeInv'
<1>. SUFFICES ASSUME NEW t \in Tanks, TypeInv, GiveBackToken(t) PROVE TypeInv'
  OBVIOUS
<1>1. giving[t] \in Tokens /\ left[t] \in Tanks
  BY DEF TypeInv, TypeOK, GiveBackToken
<1>2. net' \in [Pairs -> Seq(Messages)]
  BY <1>1, MessageTypes, SendTypes DEF TypeInv, TypeOK, GiveBackToken, Addresses
<1>3. giving' \in [Tanks -> Tokens \cup {None}]
  BY DEF TypeInv, TypeOK, GiveBackToken
<1>. QED  BY <1>2, <1>3 DEF TypeInv, TypeOK, FishFacing, GiveBackToken, ringVars, leaseVars, fishVars, history

LEMMA GiveBackFailsTypes == \A t \in Tanks : TypeInv /\ GiveBackFails(t) => TypeInv'
<1>. SUFFICES ASSUME NEW t \in Tanks, TypeInv, GiveBackFails(t) PROVE TypeInv'
  OBVIOUS
<1>1. /\ giving' \in [Tanks -> Tokens \cup {None}] /\ threads' \in [Tanks -> SUBSET Threads]
      /\ dropped' \subseteq Tokens \cup Fish
  BY DEF TypeInv, TypeOK, GiveBackFails
<1>. QED  BY <1>1 DEF TypeInv, TypeOK, FishFacing, GiveBackFails, ringVars, leaseVars, fishVars

LEMMA NewFishTypes ==
  \A t \in Tanks, f \in Fish, x \in 0 .. Width - 1, d \in Dirs : TypeInv /\ NewFish(t, f, x, d) => TypeInv'
<1>. SUFFICES ASSUME NEW t \in Tanks, NEW f \in Fish, NEW x \in 0 .. Width - 1, NEW d \in Dirs,
                     TypeInv, NewFish(t, f, x, d)
              PROVE  TypeInv'
  OBVIOUS
<1>. DEFINE o == [fish |-> f, x |-> Clamp(x), dir |-> d]
<1>1. o \in FishModels /\ (o.dir = "LEFT" => o.x > -XSize) /\ (o.dir = "RIGHT" => o.x < Width)
  BY RingAssumption DEF FishModels, Clamp, Dirs
<1>2. fishies' = [fishies EXCEPT ![t] = @ \cup {o}]
  BY DEF NewFish
<1>. HIDE DEF o
<1>3. fishies' \in [Tanks -> SUBSET FishModels] /\ FishFacing'
  BY <1>1, <1>2 DEF TypeInv, TypeOK, FishFacing
<1>4. created' \subseteq Fish /\ stray' \subseteq Fish
  BY DEF TypeInv, TypeOK, NewFish
<1>. QED  BY <1>3, <1>4 DEF TypeInv, TypeOK, NewFish, ringVars, tokenVars, leaseVars

\* A fish that has moved and is not gone is in range, and so is one that turned at the edge.
LEMMA MoveTypes ==
  ASSUME NEW o \in FishModels, (o.dir = "LEFT" => o.x > -XSize) /\ (o.dir = "RIGHT" => o.x < Width)
  PROVE  /\ Moved(o) \in FishModels
         /\ ~Disappears(Moved(o)) =>
              (Moved(o).dir = "LEFT" => Moved(o).x > -XSize) /\ (Moved(o).dir = "RIGHT" => Moved(o).x < Width)
         /\ HitsEdge(Moved(o)) =>
              /\ ~Disappears(Moved(o))
              /\ Reversed(Moved(o)) \in FishModels
              /\ Reversed(Moved(o)).dir = "LEFT" => Reversed(Moved(o)).x > -XSize
              /\ Reversed(Moved(o)).dir = "RIGHT" => Reversed(Moved(o)).x < Width
<1>1. /\ o.x \in Int /\ o.x >= -XSize /\ o.x <= Width /\ o.dir \in {"LEFT", "RIGHT"} /\ o.fish \in Fish
      /\ XSize \in Int /\ Width \in Int /\ XSize > 0 /\ Width > XSize + 1
  BY RingAssumption DEF FishModels, Dirs
<1>2. CASE o.dir = "LEFT"
  <2>1. Moved(o) = [fish |-> o.fish, x |-> o.x - 1, dir |-> "LEFT"]
    BY <1>1, <1>2 DEF Moved, FishModels
  <2>2. Reversed(Moved(o)) = [fish |-> o.fish, x |-> o.x - 1, dir |-> "RIGHT"]
    BY <2>1 DEF Reversed
  <2>. QED  BY <1>1, <1>2, <2>1, <2>2 DEF HitsEdge, Disappears, FishModels, Dirs
<1>3. CASE o.dir = "RIGHT"
  <2>1. Moved(o) = [fish |-> o.fish, x |-> o.x + 1, dir |-> "RIGHT"]
    BY <1>1, <1>3 DEF Moved, FishModels
  <2>2. Reversed(Moved(o)) = [fish |-> o.fish, x |-> o.x + 1, dir |-> "LEFT"]
    BY <2>1 DEF Reversed
  <2>. QED  BY <1>1, <1>3, <2>1, <2>2 DEF HitsEdge, Disappears, FishModels, Dirs
<1>. QED  BY <1>1, <1>2, <1>3

\* Replacing a fish by fish in range keeps the sets of fish well typed.
LEMMA VisitTypes ==
  ASSUME TypeInv, NEW t \in Tanks, NEW o, NEW after \in SUBSET FishModels,
         \A u \in after : (u.dir = "LEFT" => u.x > -XSize) /\ (u.dir = "RIGHT" => u.x < Width),
         fishies' = [fishies EXCEPT ![t] = (@ \ {o}) \cup after]
  PROVE  /\ fishies' \in [Tanks -> SUBSET FishModels] /\ FishFacing'
         /\ Visit(t, o, after) => todo' \in [Tanks -> SUBSET FishModels]
<1>1. fishies' \in [Tanks -> SUBSET FishModels] /\ FishFacing'
  BY DEF TypeInv, TypeOK, FishFacing
<1>2. Visit(t, o, after) => todo' \in [Tanks -> SUBSET FishModels]
  BY DEF TypeInv, TypeOK, Visit
<1>. QED  BY <1>1, <1>2

LEMMA UpdateTypes ==
  \A t \in Tanks : TypeInv /\ UpdateStep(t) => TypeInv'
<1>. SUFFICES ASSUME NEW t \in Tanks, TypeInv, NEW o \in fishies[t], UpdateFishies(t, o) PROVE TypeInv'
  BY DEF UpdateStep
<1>. DEFINE f == Moved(o)
<1>1. /\ o \in FishModels
      /\ (o.dir = "LEFT" => o.x > -XSize) /\ (o.dir = "RIGHT" => o.x < Width)
      /\ o.fish \in Fish /\ o.dir \in Dirs
  BY DEF TypeInv, TypeOK, FishFacing, FishModels
<1>2. /\ fishies' \in [Tanks -> SUBSET FishModels] /\ FishFacing'
      /\ todo' \in [Tanks -> SUBSET FishModels]
      /\ net' \in [Pairs -> Seq(Messages)]
      /\ threads' \in [Tanks -> SUBSET Threads]
      /\ dropped' \subseteq Tokens \cup Fish
  <2>1. CASE Swim(t, o)
    <3>. DEFINE after == IF Disappears(Moved(o)) THEN {} ELSE {Moved(o)}
    <3>1. after \in SUBSET FishModels
      BY <1>1, MoveTypes
    <3>2. \A u \in after : (u.dir = "LEFT" => u.x > -XSize) /\ (u.dir = "RIGHT" => u.x < Width)
      BY <1>1, MoveTypes
    <3>3. Visit(t, o, after) /\ UNCHANGED <<net, threads, dropped>>
      BY <2>1 DEF Swim
    <3>. HIDE DEF after
    <3>. QED  BY <3>1, <3>2, <3>3, VisitTypes DEF Visit, TypeInv, TypeOK
  <2>2. CASE TurnBack(t, o)
    <3>. DEFINE after == {Reversed(Moved(o))}
    <3>1. after \in SUBSET FishModels
      BY <1>1, <2>2, MoveTypes DEF TurnBack
    <3>2. \A u \in after : (u.dir = "LEFT" => u.x > -XSize) /\ (u.dir = "RIGHT" => u.x < Width)
      BY <1>1, <2>2, MoveTypes DEF TurnBack
    <3>3. Visit(t, o, after) /\ UNCHANGED <<net, threads, dropped>>
      BY <2>2 DEF TurnBack
    <3>. HIDE DEF after
    <3>. QED  BY <3>1, <3>2, <3>3, VisitTypes DEF Visit, TypeInv, TypeOK
  <2>3. CASE HandOff(t, o)
    <3>. DEFINE after == {Moved(o)}
    <3>1. after \in SUBSET FishModels
      BY <1>1, MoveTypes
    <3>2. \A u \in after : (u.dir = "LEFT" => u.x > -XSize) /\ (u.dir = "RIGHT" => u.x < Width)
      BY <1>1, <2>3, MoveTypes DEF HandOff
    <3>3. Visit(t, o, after) /\ UNCHANGED <<threads, dropped>>
      BY <2>3 DEF HandOff
    <3>4. Ahead(t, o) \in Addresses /\ HandoffRequest(o.fish, o.dir) \in Messages
      BY <1>1, <2>3, MessageTypes DEF HandOff, Ahead, TypeInv, TypeOK, Addresses
    <3>5. net' \in [Pairs -> Seq(Messages)]
      BY <2>3, <3>4, SendTypes DEF HandOff, TypeInv, TypeOK, Addresses
    <3>. HIDE DEF after
    <3>. QED  BY <3>1, <3>2, <3>3, <3>5, VisitTypes DEF Visit, TypeInv, TypeOK
  <2>4. CASE HandOffFails(t, o)
    <3>. DEFINE after == {Moved(o)}
    <3>1. after \in SUBSET FishModels
      BY <1>1, MoveTypes
    <3>2. \A u \in after : (u.dir = "LEFT" => u.x > -XSize) /\ (u.dir = "RIGHT" => u.x < Width)
      BY <1>1, <2>4, MoveTypes DEF HandOffFails
    <3>3. fishies' = [fishies EXCEPT ![t] = (@ \ {o}) \cup after] /\ UNCHANGED net
      BY <2>4 DEF HandOffFails
    <3>4. /\ todo' \in [Tanks -> SUBSET FishModels] /\ threads' \in [Tanks -> SUBSET Threads]
          /\ dropped' \subseteq Tokens \cup Fish
      BY <1>1, <2>4 DEF HandOffFails, TypeInv, TypeOK
    <3>. HIDE DEF after
    <3>. QED  BY <3>1, <3>2, <3>3, <3>4, VisitTypes DEF TypeInv, TypeOK
  <2>. QED  BY <2>1, <2>2, <2>3, <2>4 DEF UpdateFishies
<1>. QED  BY <1>2 DEF TypeInv, TypeOK, UpdateFishies, ringVars, tokenVars, leaseVars

\* Every step keeps TypeInv.
LEMMA NextTypes == TypeInv /\ [Next]_vars => TypeInv'
<1>. SUFFICES ASSUME TypeInv, [Next]_vars PROVE TypeInv'
  OBVIOUS
<1>1. CASE BrokerStep
  BY <1>1, ReregisterTypes, RegisterNewTypes, DeregisterKnownTypes, DeregisterUnknownTypes DEF BrokerStep
<1>2. ASSUME NEW t \in Tanks, Start(t) \/ RenewLease(t) \/ Finish(t) PROVE TypeInv'
  BY <1>2, StartTypes, RenewLeaseTypes, FinishTypes
<1>3. ASSUME NEW t \in Tanks, NEW s \in Addresses, ReceiveFrom(s, t) PROVE TypeInv'
  BY <1>3, ReceiveNeighbourTypes, OnRegistrationTypes, ReceiveFishTypes, ReceiveTokenTypes,
     ReceiveTokenFailsTypes DEF ReceiveFrom
<1>4. ASSUME NEW t \in Tanks, TimerStep(t) PROVE TypeInv'
  BY <1>4, TimerClearTypes, GiveBackTokenTypes, GiveBackFailsTypes DEF TimerStep
<1>5. ASSUME NEW t \in Tanks, NEW f \in Fish, NEW x \in 0 .. Width - 1, NEW d \in Dirs, NewFish(t, f, x, d)
      PROVE  TypeInv'
  BY <1>5, NewFishTypes
<1>6. CASE UNCHANGED vars
  BY <1>6, StutterTypes
<1>. QED  BY <1>1, <1>2, <1>3, <1>4, <1>5, <1>6, UpdateTypes DEF Next

(* Every variable keeps its type; the hard parts are that a fish never       *)
(* leaves -XSize .. Width and that nobody sends to a null neighbour.         *)
THEOREM TypeCorrect == Safe => []TypeOK
<1>1. TypeInv => TypeOK
  BY DEF TypeInv
<1>. QED  BY InitTypes, NextTypes, <1>1, PTL DEF Safe

-----------------------------------------------------------------------------
(* The token flag                                                            *)

LEMMA TokenFlagStep == TypeInv /\ TokenIsGivenBack /\ [Next]_vars => TokenIsGivenBack'
<1>. SUFFICES ASSUME TypeInv, TokenIsGivenBack, [Next]_vars, NEW u \in Tanks,
                     hasToken'[u], "timer" \in threads'[u]
              PROVE  timer'[u] # << >>
  BY DEF TokenIsGivenBack
<1>1. CASE UNCHANGED <<hasToken, timer>> /\ threads'[u] \subseteq threads[u]
  BY <1>1 DEF TokenIsGivenBack
<1>2. CASE BrokerStep \/ UNCHANGED vars
  BY <1>1, <1>2 DEF BrokerStep, Reregister, RegisterNew, DeregisterKnown, DeregisterUnknown, vars, tokenVars
<1>3. ASSUME NEW t \in Tanks, Start(t) \/ RenewLease(t) \/ Finish(t) PROVE timer'[u] # << >>
  BY <1>1, <1>3 DEF Start, RenewLease, Finish, tokenVars
<1>4. ASSUME NEW t \in Tanks, NEW s \in Addresses, ReceiveNeighbour(s, t) \/ OnRegistration(s, t) \/ ReceiveFish(s, t)
      PROVE timer'[u] # << >>
  BY <1>1, <1>4 DEF ReceiveNeighbour, OnRegistration, ReceiveFish, tokenVars
<1>5. ASSUME NEW t \in Tanks, NEW s \in Addresses, ReceiveToken(s, t) PROVE timer'[u] # << >>
  <2>1. CASE u = t
    <3>1. timer[t] \in Seq(Tokens) /\ Head(net[<<s, t>>]) \in Messages /\ Head(net[<<s, t>>]).type = "token"
      BY <1>5, ReceiveTypes DEF ReceiveToken, TypeInv, TypeOK
    <3>2. Len(Append(timer[t], Head(net[<<s, t>>]).token)) # 0
      BY <3>1, MessageFields, AppendProperties, LenProperties
    <3>3. timer'[t] = Append(timer[t], Head(net[<<s, t>>]).token)
      BY <1>5 DEF ReceiveToken, TypeInv, TypeOK
    <3>. QED  BY <2>1, <3>2, <3>3, EmptySeq
  <2>2. CASE u # t
    BY <1>5, <2>2 DEF ReceiveToken, TokenIsGivenBack, TypeInv, TypeOK
  <2>. QED  BY <2>1, <2>2
<1>6. ASSUME NEW t \in Tanks, NEW s \in Addresses, ReceiveTokenFails(s, t) PROVE timer'[u] # << >>
  BY <1>6 DEF ReceiveTokenFails, TokenIsGivenBack, TypeInv, TypeOK
<1>7. ASSUME NEW t \in Tanks, TimerClear(t) PROVE timer'[u] # << >>
  BY <1>7 DEF TimerClear, TokenIsGivenBack, TypeInv, TypeOK
<1>8. ASSUME NEW t \in Tanks, GiveBackToken(t) \/ GiveBackFails(t) PROVE timer'[u] # << >>
  <2>1. UNCHANGED <<hasToken, timer>>
    BY <1>8 DEF GiveBackToken, GiveBackFails
  <2>2. threads'[u] \subseteq threads[u]
    <3>1. CASE GiveBackToken(t)
      BY <3>1 DEF GiveBackToken
    <3>2. CASE GiveBackFails(t)
      <4>1. threads' = [threads EXCEPT ![t] = threads[t] \ {"timer"}]
        BY <3>2 DEF GiveBackFails
      <4>. QED  BY <4>1 DEF TypeInv, TypeOK
    <3>. QED  BY <1>8, <3>1, <3>2
  <2>. QED  BY <1>1, <2>1, <2>2
<1>9. ASSUME NEW t \in Tanks, UpdateStep(t) PROVE timer'[u] # << >>
  <2>1. UNCHANGED <<hasToken, timer>>
    BY <1>9 DEF UpdateStep, UpdateFishies, tokenVars
  <2>2. threads'[u] \subseteq threads[u]
    <3>1. PICK o \in fishies[t] : Swim(t, o) \/ TurnBack(t, o) \/ HandOff(t, o) \/ HandOffFails(t, o)
      BY <1>9 DEF UpdateStep, UpdateFishies
    <3>2. threads' = threads \/ threads' = [threads EXCEPT ![t] = threads[t] \ {"update"}]
      BY <3>1 DEF Swim, TurnBack, HandOff, HandOffFails
    <3>. QED  BY <3>2, ZenonT(30) DEF TypeInv, TypeOK
  <2>. QED  BY <1>1, <2>1, <2>2
<1>10. ASSUME NEW t \in Tanks, NEW f \in Fish, NEW x \in 0 .. Width - 1, NEW d \in Dirs, NewFish(t, f, x, d)
       PROVE  timer'[u] # << >>
  BY <1>1, <1>10 DEF NewFish, tokenVars
<1>. QED  BY <1>2, <1>3, <1>4, <1>5, <1>6, <1>7, <1>8, <1>9, <1>10 DEF Next, ReceiveFrom, TimerStep

(* The receiver sets hasToken while the timer clears it, without a lock: a   *)
(* tank that may hand fish over always has a task that will end its turn.    *)
THEOREM TokenIsGivenBackHolds == Safe => []TokenIsGivenBack
<1>1. Init => TokenIsGivenBack
  BY DEF Init, TokenIsGivenBack
<1>. QED  BY <1>1, InitTypes, NextTypes, TokenFlagStep, PTL DEF Safe

-----------------------------------------------------------------------------
(* RingConsistent while the list grows, or only two tanks take part.         *)

\* No tank has left, or no more than two have started.
Undisturbed ==
  \/ \A t \in Tanks : status[t] # "gone"
  \/ \E a, b \in Tanks : \A t \in Tanks : status[t] # "new" => t \in {a, b}

\* The broker lists tanks that have started, each of them once.
ListRight ==
  \A i \in 1 .. Size :
    /\ status[clients[i].addr] # "new"
    /\ \A j \in 1 .. Size : clients[i].addr = clients[j].addr => i = j

\* A tank asks the broker to register it, and in the end not to list it.
RequestsRight ==
  \A t \in Tanks :
    /\ status[t] = "new" => net[<<t, Broker>>] = << >>
    /\ \A i \in 1 .. Len(net[<<t, Broker>>]) :
         \/ net[<<t, Broker>>][i].type = "register"
         \/ /\ net[<<t, Broker>>][i].type = "deregister"
            /\ i = Len(net[<<t, Broker>>]) /\ status[t] = "gone"

FromBroker == {"neighbour", "response"}
OnlyBrokerTells ==
  \A p \in Pairs : p[1] # Broker =>
    \A i \in 1 .. Len(net[p]) : net[p][i].type \notin FromBroker

ListInv == ListRight /\ RequestsRight /\ OnlyBrokerTells

\* Ids are positions until a tank has left; nobody follows it.
Departed(x) == status[x] = "gone" /\ net[<<x, Broker>>] = << >> /\ ~Registered(x)
IdsFresh == (\A n \in 1 .. Size : clients[n].id = n - 1) \/ \E x \in Tanks : Departed(x)

\* The id of a tank, wherever it is, is the one in the list.
Entry(cs, t, i) == \E n \in 1 .. Len(cs) : cs[n].addr = t /\ cs[n].id = i
IdKnown(t) ==
  /\ status[t] # "gone" /\ id[t] # None => Entry(clients, t, id[t])
  /\ status[t] # "gone" => \A i \in 1 .. Len(net[<<Broker, t>>]) :
       net[<<Broker, t>>][i].type = "response" => Entry(clients, t, net[<<Broker, t>>][i].id)
  /\ \A i \in 1 .. Len(net[<<t, Broker>>]) :
       net[<<t, Broker>>][i].type = "deregister" /\ net[<<t, Broker>>][i].id # None =>
         Entry(clients, t, net[<<t, Broker>>][i].id)

\* After the messages q the neighbour on side d is w, if it is v before them.
Updates(m, d) == m.type = "neighbour" /\ m.dir = d
Silent(q, d) == \A i \in 1 .. Len(q) : ~Updates(q[i], d)
Tells(q, d, w) ==
  \E i \in 1 .. Len(q) :
    /\ Updates(q[i], d) /\ q[i].tank = w
    /\ \A j \in 1 .. Len(q) : j > i => ~Updates(q[j], d)
WillKnow(q, d, v, w) == Tells(q, d, w) \/ (Silent(q, d) /\ v = w)

\* A tank knows the neighbours of position n, or will once it has read its messages.
ViewRight(n) == LET t == clients[n].addr IN
  /\ WillKnow(net[<<Broker, t>>], "LEFT", left[t], LeftNeighbourOf(clients, n))
  /\ WillKnow(net[<<Broker, t>>], "RIGHT", right[t], RightNeighbourOf(clients, n))

RingRight == IdsFresh /\ (\A t \in Tanks : IdKnown(t)) /\ \A n \in 1 .. Size : ViewRight(n)
RingInv == TypeInv /\ ListInv /\ (Undisturbed => RingRight)

\* What a queue holds after a step on it.
LEMMA QueueParts ==
  ASSUME NEW q \in Seq(Messages)
  PROVE  /\ Len(q) \in Nat
         /\ q # << >> => /\ Tail(q) \in Seq(Messages) /\ Head(q) = q[1] /\ Head(q) \in Messages
                         /\ 1 \in 1 .. Len(q) /\ Len(Tail(q)) = Len(q) - 1
                         /\ \A i \in 1 .. Len(Tail(q)) : i + 1 \in 1 .. Len(q) /\ Tail(q)[i] = q[i + 1]
         /\ \A m \in Messages :
              /\ Append(q, m) \in Seq(Messages) /\ Len(Append(q, m)) = Len(q) + 1
              /\ Append(q, m)[Len(q) + 1] = m
              /\ \A i \in 1 .. Len(q) : Append(q, m)[i] = q[i]
         /\ \A r \in Seq(Messages) :
              /\ q \o r \in Seq(Messages) /\ Len(q \o r) = Len(q) + Len(r)
              /\ \A i \in 1 .. Len(q) : (q \o r)[i] = q[i]
              /\ \A i \in 1 .. Len(r) : (q \o r)[Len(q) + i] = r[i]
<1>1. Len(q) \in Nat
  BY LenProperties
<1>2. ASSUME q # << >>
      PROVE  /\ Tail(q) \in Seq(Messages) /\ Head(q) = q[1] /\ Head(q) \in Messages
             /\ 1 \in 1 .. Len(q) /\ Len(Tail(q)) = Len(q) - 1
             /\ \A i \in 1 .. Len(Tail(q)) : i + 1 \in 1 .. Len(q) /\ Tail(q)[i] = q[i + 1]
  <2>1. /\ Tail(q) \in Seq(Messages) /\ Head(q) \in Messages /\ Len(Tail(q)) = Len(q) - 1
        /\ \A i \in 1 .. Len(Tail(q)) : Tail(q)[i] = q[i + 1]
    BY <1>2, HeadTailProperties
  <2>2. Len(q) # 0
    BY <1>2, EmptySeq
  <2>3. Head(q) = q[1]
    OBVIOUS
  <2>. QED  BY <1>1, <2>1, <2>2, <2>3
<1>3. ASSUME NEW m \in Messages
      PROVE  /\ Append(q, m) \in Seq(Messages) /\ Len(Append(q, m)) = Len(q) + 1
             /\ Append(q, m)[Len(q) + 1] = m
             /\ \A i \in 1 .. Len(q) : Append(q, m)[i] = q[i]
  BY AppendProperties
<1>4. ASSUME NEW r \in Seq(Messages)
      PROVE  /\ q \o r \in Seq(Messages) /\ Len(q \o r) = Len(q) + Len(r)
             /\ \A i \in 1 .. Len(q) : (q \o r)[i] = q[i]
             /\ \A i \in 1 .. Len(r) : (q \o r)[Len(q) + i] = r[i]
  <2>1. Len(r) \in Nat
    BY LenProperties
  <2>2. /\ q \o r \in Seq(Messages) /\ Len(q \o r) = Len(q) + Len(r)
        /\ \A i \in 1 .. Len(q) + Len(r) : (q \o r)[i] = IF i <= Len(q) THEN q[i] ELSE r[i - Len(q)]
    BY ConcatProperties
  <2>. QED  BY <1>1, <2>1, <2>2
<1>. QED  BY <1>1, <1>2, <1>3, <1>4

\* What is told last counts, in a longer queue too.
LEMMA ToldLast ==
  \A q, r \in Seq(Messages) : \A d, v, w :
    /\ Tells(r, d, w) => Tells(q \o r, d, w)
    /\ Silent(r, d) /\ Tells(q, d, w) => Tells(q \o r, d, w)
    /\ Silent(r, d) /\ Silent(q, d) => Silent(q \o r, d)
    /\ Silent(r, d) /\ WillKnow(q, d, v, w) => WillKnow(q \o r, d, v, w)
    /\ Tells(r, d, w) => WillKnow(q \o r, d, v, w)
<1>. SUFFICES ASSUME NEW q \in Seq(Messages), NEW r \in Seq(Messages), NEW d, NEW v, NEW w
              PROVE  /\ Tells(r, d, w) => Tells(q \o r, d, w)
                     /\ Silent(r, d) /\ Tells(q, d, w) => Tells(q \o r, d, w)
                     /\ Silent(r, d) /\ Silent(q, d) => Silent(q \o r, d)
  BY DEF WillKnow
<1>0. /\ Len(q) \in Nat /\ Len(r) \in Nat /\ Len(q \o r) = Len(q) + Len(r)
      /\ \A i \in 1 .. Len(q) : (q \o r)[i] = q[i]
      /\ \A i \in 1 .. Len(r) : (q \o r)[Len(q) + i] = r[i]
  BY QueueParts
<1>. DEFINE c == q \o r
<1>. HIDE DEF c
<1>1. \A i \in 1 .. Len(c) : \/ i \in 1 .. Len(q) /\ c[i] = q[i]
                             \/ i - Len(q) \in 1 .. Len(r) /\ c[i] = r[i - Len(q)]
  <2>. SUFFICES ASSUME NEW i \in 1 .. Len(c)
                PROVE  \/ i \in 1 .. Len(q) /\ c[i] = q[i]
                       \/ i - Len(q) \in 1 .. Len(r) /\ c[i] = r[i - Len(q)]
    OBVIOUS
  <2>1. CASE i <= Len(q)
    BY <1>0, <2>1 DEF c
  <2>2. CASE i > Len(q)
    <3>1. i - Len(q) \in 1 .. Len(r) /\ Len(q) + (i - Len(q)) = i
      BY <1>0, <2>2 DEF c
    <3>2. c[Len(q) + (i - Len(q))] = r[i - Len(q)]
      BY <1>0, <3>1 DEF c
    <3>. QED  BY <3>1, <3>2
  <2>. QED  BY <1>0, <2>1, <2>2
<1>2. ASSUME Tells(r, d, w) PROVE Tells(c, d, w)
  <2>1. PICK i \in 1 .. Len(r) : Updates(r[i], d) /\ r[i].tank = w
                                 /\ \A j \in 1 .. Len(r) : j > i => ~Updates(r[j], d)
    BY <1>2 DEF Tells
  <2>2. Len(q) + i \in 1 .. Len(c) /\ c[Len(q) + i] = r[i]
    BY <1>0 DEF c
  <2>3. ASSUME NEW j \in 1 .. Len(c), j > Len(q) + i PROVE ~Updates(c[j], d)
    <3>1. j - Len(q) \in 1 .. Len(r) /\ c[j] = r[j - Len(q)] /\ j - Len(q) > i
      BY <1>0, <1>1, <2>3
    <3>. QED  BY <2>1, <3>1
  <2>. QED  BY <2>1, <2>2, <2>3 DEF Tells
<1>3. ASSUME Silent(r, d), Tells(q, d, w) PROVE Tells(c, d, w)
  <2>1. PICK i \in 1 .. Len(q) : Updates(q[i], d) /\ q[i].tank = w
                                 /\ \A j \in 1 .. Len(q) : j > i => ~Updates(q[j], d)
    BY <1>3 DEF Tells
  <2>2. i \in 1 .. Len(c) /\ c[i] = q[i]
    BY <1>0 DEF c
  <2>3. ASSUME NEW j \in 1 .. Len(c), j > i PROVE ~Updates(c[j], d)
    BY <1>1, <1>3, <2>1, <2>3 DEF Silent
  <2>. QED  BY <2>1, <2>2, <2>3 DEF Tells
<1>4. ASSUME Silent(r, d), Silent(q, d) PROVE Silent(c, d)
  BY <1>1, <1>4 DEF Silent
<1>. QED  BY <1>2, <1>3, <1>4 DEF c

\* Reading a message leaves what will be known.
LEMMA ReadOne ==
  \A q \in Seq(Messages) : \A d, v, w : q # << >> /\ WillKnow(q, d, v, w) =>
    WillKnow(Tail(q), d, IF Updates(Head(q), d) THEN Head(q).tank ELSE v, w)
<1>. SUFFICES ASSUME NEW q \in Seq(Messages), NEW d, NEW v, NEW w, q # << >>, WillKnow(q, d, v, w)
              PROVE  WillKnow(Tail(q), d, IF Updates(Head(q), d) THEN Head(q).tank ELSE v, w)
  OBVIOUS
<1>0. /\ Len(q) \in Nat /\ Head(q) = q[1] /\ 1 \in 1 .. Len(q) /\ Len(Tail(q)) = Len(q) - 1
      /\ \A i \in 1 .. Len(Tail(q)) : i + 1 \in 1 .. Len(q) /\ Tail(q)[i] = q[i + 1]
  BY QueueParts
<1>. DEFINE c == Tail(q)
            h == Head(q)
<1>. HIDE DEF c, h
<1>1. CASE Silent(q, d) /\ v = w
  <2>1. ~Updates(h, d) /\ Silent(c, d)
    BY <1>0, <1>1 DEF Silent, c, h
  <2>. QED  BY <1>1, <2>1 DEF WillKnow, c, h
<1>2. CASE Tells(q, d, w)
  <2>1. PICK i \in 1 .. Len(q) : Updates(q[i], d) /\ q[i].tank = w
                                 /\ \A j \in 1 .. Len(q) : j > i => ~Updates(q[j], d)
    BY <1>2 DEF Tells
  <2>2. CASE i = 1
    <3>1. Silent(c, d)
      <4>. SUFFICES ASSUME NEW j \in 1 .. Len(c) PROVE ~Updates(c[j], d)
        BY DEF Silent
      <4>1. j + 1 \in 1 .. Len(q) /\ c[j] = q[j + 1] /\ j + 1 > i
        BY <1>0, <2>2 DEF c
      <4>. QED  BY <2>1, <4>1
    <3>2. Updates(h, d) /\ h.tank = w
      BY <1>0, <2>1, <2>2 DEF h
    <3>. QED  BY <3>1, <3>2 DEF WillKnow, c, h
  <2>3. CASE i # 1
    <3>1. i - 1 \in 1 .. Len(c) /\ (i - 1) + 1 = i
      BY <1>0, <2>3 DEF c
    <3>2. c[i - 1] = q[(i - 1) + 1]
      BY <1>0, <3>1 DEF c
    <3>3. ASSUME NEW j \in 1 .. Len(c), j > i - 1 PROVE ~Updates(c[j], d)
      <4>1. j + 1 \in 1 .. Len(q) /\ c[j] = q[j + 1] /\ j + 1 > i
        BY <1>0, <3>3 DEF c
      <4>. QED  BY <2>1, <4>1
    <3>4. Tells(c, d, w)
      BY <2>1, <3>1, <3>2, <3>3 DEF Tells
    <3>. QED  BY <3>4 DEF WillKnow, c, h
  <2>. QED  BY <2>2, <2>3
<1>. QED  BY <1>1, <1>2 DEF WillKnow

-----------------------------------------------------------------------------
\* Steps that leave the list, the neighbours and the ids alone and pass on
\* tokens and fish only.
PassedOn == {"token", "handoff"}
Quiet ==
  /\ UNCHANGED <<clients, id, left, right, status>>
  /\ \/ net' = net
     \/ \E p \in Tanks \X Tanks, m \in Messages :
          m.type \in PassedOn /\ net' = [net EXCEPT ![p] = Append(@, m)]
     \/ \E p \in Pairs :
          /\ p[2] \in Tanks /\ net[p] # << >> /\ Head(net[p]).type \in PassedOn
          /\ net' = [net EXCEPT ![p] = Tail(@)]

LEMMA Addressing ==
  /\ Broker \notin Tanks /\ None \notin Tanks /\ None \notin Nat
  /\ \A s, t \in Tanks : /\ <<s, t>> \in Pairs /\ <<t, Broker>> \in Pairs /\ <<Broker, t>> \in Pairs
                         /\ <<s, t>> # <<t, Broker>> /\ <<Broker, s>> # <<t, Broker>>
  /\ \A p \in Pairs : p = <<p[1], p[2]>> /\ p[1] \in Tanks \cup {Broker} /\ p[2] \in Tanks \cup {Broker}
BY RingAssumption DEF Pairs, Addresses

\* Tokens and fish are sent to tanks, and read by them.
LEMMA QuietSteps ==
  \A t \in Tanks : TypeInv =>
    /\ TimerStep(t) => Quiet
    /\ UpdateStep(t) => Quiet
    /\ \A f, x, d : NewFish(t, f, x, d) => Quiet
    /\ \A s \in Addresses : ReceiveFish(s, t) \/ ReceiveToken(s, t) \/ ReceiveTokenFails(s, t) => Quiet
<1>. SUFFICES ASSUME NEW t \in Tanks, TypeInv
              PROVE  /\ TimerStep(t) => Quiet
                     /\ UpdateStep(t) => Quiet
                     /\ \A f, x, d : NewFish(t, f, x, d) => Quiet
                     /\ \A s \in Addresses :
                          ReceiveFish(s, t) \/ ReceiveToken(s, t) \/ ReceiveTokenFails(s, t) => Quiet
  OBVIOUS
<1>1. ASSUME TimerClear(t) \/ GiveBackFails(t) PROVE Quiet
  BY <1>1 DEF TimerClear, GiveBackFails, Quiet, ringVars
<1>2. ASSUME GiveBackToken(t) PROVE Quiet
  <2>1. left[t] \in Tanks /\ giving[t] \in Tokens
    BY <1>2 DEF GiveBackToken, TypeInv, TypeOK
  <2>2. Token(giving[t]) \in Messages /\ Token(giving[t]).type \in PassedOn
    BY <2>1, MessageTypes DEF Token, PassedOn
  <2>3. net' = [net EXCEPT ![<<t, left[t]>>] = Append(@, Token(giving[t]))]
    BY <1>2 DEF GiveBackToken, SendTo
  <2>. QED  BY <1>2, <2>1, <2>2, <2>3 DEF GiveBackToken, Quiet, ringVars
<1>3. ASSUME NEW o \in fishies[t], UpdateFishies(t, o) PROVE Quiet
  <2>0. UNCHANGED <<clients, id, left, right, status>>
    BY <1>3 DEF UpdateFishies, ringVars
  <2>1. CASE net' = net
    BY <2>0, <2>1 DEF Quiet
  <2>2. CASE HandOff(t, o)
    <3>1. Ahead(t, o) \in Tanks
      BY <2>2 DEF HandOff, Ahead, TypeInv, TypeOK
    <3>2. o.fish \in Fish /\ o.dir \in Dirs
      BY DEF TypeInv, TypeOK, FishModels
    <3>3. HandoffRequest(o.fish, o.dir) \in Messages /\ HandoffRequest(o.fish, o.dir).type \in PassedOn
      BY <3>2, MessageTypes DEF HandoffRequest, PassedOn
    <3>4. net' = [net EXCEPT ![<<t, Ahead(t, o)>>] = Append(@, HandoffRequest(o.fish, o.dir))]
      BY <2>2 DEF HandOff, SendTo
    <3>. QED  BY <2>0, <3>1, <3>3, <3>4 DEF Quiet
  <2>. QED  BY <1>3, <2>1, <2>2 DEF UpdateFishies, Swim, TurnBack, HandOffFails
<1>4. ASSUME NEW f, NEW x, NEW d, NewFish(t, f, x, d) PROVE Quiet
  BY <1>4 DEF NewFish, Quiet, ringVars
<1>5. ASSUME NEW s \in Addresses, ReceiveFish(s, t) \/ ReceiveToken(s, t) \/ ReceiveTokenFails(s, t) PROVE Quiet
  <2>1. PICK type \in PassedOn : Receives(s, t, type)
    BY <1>5 DEF ReceiveFish, ReceiveToken, ReceiveTokenFails, PassedOn
  <2>2. <<s, t>> \in Pairs /\ <<s, t>>[2] \in Tanks
    BY DEF Pairs, Addresses
  <2>3. UNCHANGED <<clients, id, left, right, status>>
    BY <1>5 DEF ReceiveFish, ReceiveToken, ReceiveTokenFails, ringVars
  <2>. QED  BY <2>1, <2>2, <2>3 DEF Receives, Quiet
<1>. QED  BY <1>1, <1>2, <1>3, <1>4, <1>5 DEF TimerStep, UpdateStep

\* What a quiet step does to the channels of the broker, and to the others.
LEMMA QuietChannels ==
  TypeInv /\ Quiet =>
    /\ \A t \in Tanks : net'[<<t, Broker>>] = net[<<t, Broker>>]
    /\ \A t \in Tanks :
         \/ net'[<<Broker, t>>] = net[<<Broker, t>>]
         \/ /\ net[<<Broker, t>>] # << >> /\ Head(net[<<Broker, t>>]).type \in PassedOn
            /\ net'[<<Broker, t>>] = Tail(net[<<Broker, t>>])
    /\ \A p \in Pairs : \A i \in 1 .. Len(net'[p]) :
         (\E j \in 1 .. Len(net[p]) : net'[p][i] = net[p][j]) \/ net'[p][i].type \in PassedOn
<1>. SUFFICES ASSUME TypeInv, Quiet
              PROVE  /\ \A t \in Tanks : net'[<<t, Broker>>] = net[<<t, Broker>>]
                     /\ \A t \in Tanks :
                          \/ net'[<<Broker, t>>] = net[<<Broker, t>>]
                          \/ /\ net[<<Broker, t>>] # << >> /\ Head(net[<<Broker, t>>]).type \in PassedOn
                             /\ net'[<<Broker, t>>] = Tail(net[<<Broker, t>>])
                     /\ \A p \in Pairs : \A i \in 1 .. Len(net'[p]) :
                          (\E j \in 1 .. Len(net[p]) : net'[p][i] = net[p][j]) \/ net'[p][i].type \in PassedOn
  OBVIOUS
<1>0. net \in [Pairs -> Seq(Messages)]
  BY DEF TypeInv, TypeOK
<1>1. CASE net' = net
  BY <1>1
<1>2. CASE \E p \in Tanks \X Tanks, m \in Messages :
             m.type \in PassedOn /\ net' = [net EXCEPT ![p] = Append(@, m)]
  <2>1. PICK h \in Tanks \X Tanks, m \in Messages :
             m.type \in PassedOn /\ net' = [net EXCEPT ![h] = Append(@, m)]
    BY <1>2
  <2>2. h \in Pairs /\ \A t \in Tanks : h # <<t, Broker>> /\ h # <<Broker, t>>
    <3>1. h = <<h[1], h[2]>> /\ h[1] \in Tanks /\ h[2] \in Tanks
      OBVIOUS
    <3>2. \A t \in Tanks : h[2] # Broker /\ h[1] # Broker
      BY <3>1, Addressing
    <3>. QED  BY <3>1, <3>2, Addressing, ZenonT(30)
  <2>3. net[h] \in Seq(Messages) /\ net'[h] = Append(net[h], m) /\ \A p \in Pairs : p # h => net'[p] = net[p]
    BY <1>0, <2>1, <2>2
  <2>4. \A i \in 1 .. Len(net'[h]) : (\E j \in 1 .. Len(net[h]) : net'[h][i] = net[h][j]) \/ net'[h][i] = m
    <3>. DEFINE q == net[h]
    <3>. HIDE DEF q
    <3>1. /\ Len(q) \in Nat /\ Len(Append(q, m)) = Len(q) + 1 /\ Append(q, m)[Len(q) + 1] = m
          /\ \A i \in 1 .. Len(q) : Append(q, m)[i] = q[i]
      BY <2>3, QueueParts DEF q
    <3>2. \A i \in 1 .. Len(Append(q, m)) : i \in 1 .. Len(q) \/ i = Len(q) + 1
      BY <3>1
    <3>. QED  BY <2>3, <3>1, <3>2 DEF q
  <2>. QED  BY <2>1, <2>2, <2>3, <2>4, Addressing
<1>3. CASE \E p \in Pairs :
             /\ p[2] \in Tanks /\ net[p] # << >> /\ Head(net[p]).type \in PassedOn
             /\ net' = [net EXCEPT ![p] = Tail(@)]
  <2>1. PICK h \in Pairs :
             /\ h[2] \in Tanks /\ net[h] # << >> /\ Head(net[h]).type \in PassedOn
             /\ net' = [net EXCEPT ![h] = Tail(@)]
    BY <1>3
  <2>2. \A t \in Tanks : h # <<t, Broker>>
    BY <2>1, Addressing
  <2>3. net[h] \in Seq(Messages) /\ net'[h] = Tail(net[h]) /\ \A p \in Pairs : p # h => net'[p] = net[p]
    BY <1>0, <2>1
  <2>4. \A i \in 1 .. Len(net'[h]) : \E j \in 1 .. Len(net[h]) : net'[h][i] = net[h][j]
    BY <2>1, <2>3, QueueParts
  <2>. QED  BY <2>1, <2>2, <2>3, <2>4, Addressing, SMTT(30)
<1>. QED  BY <1>1, <1>2, <1>3 DEF Quiet

-----------------------------------------------------------------------------
(* The list and the requests.                                                *)

\* What the broker's worker does to the channels when it sends msgs.
Worker(t, type, msgs) ==
  /\ msgs \in [Tanks -> Seq(Messages)]
  /\ Request(t, type) /\ Answer(t, msgs)
  /\ UNCHANGED <<id, left, right, status>>

\* The tank u is sent the messages q.
Told(u, q) == net'[<<Broker, u>>] = net[<<Broker, u>>] \o q

LEMMA AnswerChannels ==
  \A t \in Tanks : \A type, msgs : TypeInv /\ Worker(t, type, msgs) =>
    /\ net[<<t, Broker>>] # << >> /\ net'[<<t, Broker>>] = Tail(net[<<t, Broker>>])
    /\ \A u \in Tanks : u # t => net'[<<u, Broker>>] = net[<<u, Broker>>]
    /\ \A u \in Tanks : Told(u, msgs[u])
    /\ \A p \in Pairs : p[1] # Broker /\ p # <<t, Broker>> => net'[p] = net[p]
<1>. SUFFICES ASSUME NEW t \in Tanks, NEW type, NEW msgs, TypeInv, Worker(t, type, msgs)
              PROVE  /\ net[<<t, Broker>>] # << >> /\ net'[<<t, Broker>>] = Tail(net[<<t, Broker>>])
                     /\ \A u \in Tanks : u # t => net'[<<u, Broker>>] = net[<<u, Broker>>]
                     /\ \A u \in Tanks : Told(u, msgs[u])
                     /\ \A p \in Pairs : p[1] # Broker /\ p # <<t, Broker>> => net'[p] = net[p]
  OBVIOUS
<1>1. \A p \in Pairs : net'[p] =
        IF p = <<t, Broker>> THEN Tail(net[p])
        ELSE IF p[1] = Broker /\ p[2] # Broker THEN net[p] \o msgs[p[2]] ELSE net[p]
  BY DEF Worker, Answer
<1>2. \A p \in Pairs : p[1] # Broker /\ p # <<t, Broker>> => net'[p] = net[p]
  BY <1>1
<1>3. net'[<<t, Broker>>] = Tail(net[<<t, Broker>>])
  BY <1>1, Addressing
<1>4. ASSUME NEW u \in Tanks, u # t PROVE net'[<<u, Broker>>] = net[<<u, Broker>>]
  BY <1>1, <1>4, Addressing
<1>5. ASSUME NEW u \in Tanks PROVE Told(u, msgs[u])
  BY <1>1, Addressing DEF Told
<1>. QED  BY <1>2, <1>3, <1>4, <1>5 DEF Worker, Request

LEMMA AnswerRequests ==
  \A t \in Tanks : \A type, msgs : TypeInv /\ ListInv /\ Worker(t, type, msgs) =>
    RequestsRight' /\ OnlyBrokerTells' /\ status[t] # "new"
<1>. SUFFICES ASSUME NEW t \in Tanks, NEW type, NEW msgs, TypeInv, ListInv, Worker(t, type, msgs)
              PROVE  RequestsRight' /\ OnlyBrokerTells' /\ status[t] # "new"
  OBVIOUS
<1>0. status' = status
  BY DEF Worker
<1>1. /\ net[<<t, Broker>>] # << >> /\ net'[<<t, Broker>>] = Tail(net[<<t, Broker>>])
      /\ \A u \in Tanks : u # t => net'[<<u, Broker>>] = net[<<u, Broker>>]
      /\ \A p \in Pairs : p[1] # Broker /\ p # <<t, Broker>> => net'[p] = net[p]
  BY AnswerChannels
<1>. DEFINE q == net[<<t, Broker>>]
            c == net'[<<t, Broker>>]
<1>2. /\ Len(q) \in Nat /\ Len(c) = Len(q) - 1
      /\ \A i \in 1 .. Len(c) : i + 1 \in 1 .. Len(q) /\ c[i] = q[i + 1]
  <2>1. q \in Seq(Messages)
    BY Addressing DEF TypeInv, TypeOK
  <2>. QED  BY <1>1, <2>1, QueueParts
<1>3. status[t] # "new"
  BY <1>1 DEF ListInv, RequestsRight
<1>4. RequestsRight'
  <2>1. ASSUME NEW i \in 1 .. Len(c)
        PROVE c[i].type = "register" \/ (c[i].type = "deregister" /\ i = Len(c) /\ status[t] = "gone")
    <3>1. i + 1 \in 1 .. Len(q) /\ c[i] = q[i + 1]
      BY <1>2
    <3>2. \/ q[i + 1].type = "register"
          \/ q[i + 1].type = "deregister" /\ i + 1 = Len(q) /\ status[t] = "gone"
      BY <3>1 DEF ListInv, RequestsRight
    <3>. HIDE DEF q, c
    <3>. QED  BY <1>2, <3>1, <3>2
  <2>2. ASSUME NEW u \in Tanks, u # t
        PROVE  /\ status'[u] = "new" => net'[<<u, Broker>>] = << >>
               /\ \A i \in 1 .. Len(net'[<<u, Broker>>]) :
                    \/ net'[<<u, Broker>>][i].type = "register"
                    \/ /\ net'[<<u, Broker>>][i].type = "deregister"
                       /\ i = Len(net'[<<u, Broker>>]) /\ status'[u] = "gone"
    <3>1. net'[<<u, Broker>>] = net[<<u, Broker>>] /\ status'[u] = status[u]
      BY <1>0, <1>1, <2>2
    <3>. QED  BY <3>1 DEF ListInv, RequestsRight
  <2>. QED  BY <1>0, <1>3, <2>1, <2>2 DEF RequestsRight
<1>5. OnlyBrokerTells'
  <2>. SUFFICES ASSUME NEW p \in Pairs, p[1] # Broker, NEW i \in 1 .. Len(net'[p])
                PROVE  net'[p][i].type \notin FromBroker
    BY DEF OnlyBrokerTells
  <2>1. CASE p = <<t, Broker>>
    <3>1. i + 1 \in 1 .. Len(q) /\ c[i] = q[i + 1]
      BY <1>2, <2>1
    <3>2. q[i + 1].type = "register" \/ q[i + 1].type = "deregister"
      BY <3>1 DEF ListInv, RequestsRight
    <3>. QED  BY <2>1, <3>1, <3>2 DEF FromBroker
  <2>2. CASE p # <<t, Broker>>
    BY <1>1, <2>2 DEF ListInv, OnlyBrokerTells
  <2>. QED  BY <2>1, <2>2
<1>. QED  BY <1>3, <1>4, <1>5

LEMMA QuietList == TypeInv /\ ListInv /\ Quiet => ListInv'
<1>. SUFFICES ASSUME TypeInv, ListInv, Quiet PROVE ListInv'
  OBVIOUS
<1>1. UNCHANGED <<clients, status>>
  BY DEF Quiet
<1>2. /\ \A t \in Tanks : net'[<<t, Broker>>] = net[<<t, Broker>>]
      /\ \A p \in Pairs : \A i \in 1 .. Len(net'[p]) :
           (\E j \in 1 .. Len(net[p]) : net'[p][i] = net[p][j]) \/ net'[p][i].type \in PassedOn
  BY QuietChannels
<1>3. ListRight'
  BY <1>1 DEF ListInv, ListRight, Size
<1>4. RequestsRight'
  BY <1>1, <1>2 DEF ListInv, RequestsRight
<1>5. OnlyBrokerTells'
  BY <1>2 DEF ListInv, OnlyBrokerTells, FromBroker, PassedOn
<1>. QED  BY <1>3, <1>4, <1>5 DEF ListInv

\* A tank asks: it starts, renews its lease, or ends.
Asks(t, m, new) ==
  /\ status[t] # "gone" /\ new # "new" /\ status' = [status EXCEPT ![t] = new]
  /\ m \in Messages /\ SendTo(t, Broker, m) /\ UNCHANGED ringVars
  /\ \/ m = Register /\ new = "running"
     \/ status[t] = "running" /\ m = Deregister(id[t]) /\ new = "gone"

LEMMA AskSteps ==
  \A t \in Tanks : TypeInv /\ (Start(t) \/ RenewLease(t) \/ Finish(t)) =>
    \E m \in Messages, new \in {"running", "gone"} : Asks(t, m, new)
<1>. SUFFICES ASSUME NEW t \in Tanks, TypeInv, Start(t) \/ RenewLease(t) \/ Finish(t)
              PROVE  \E m \in Messages, new \in {"running", "gone"} : Asks(t, m, new)
  OBVIOUS
<1>0. status \in [Tanks -> {"new", "running", "gone"}] /\ id[t] \in Nat \cup {None}
  BY DEF TypeInv, TypeOK
<1>1. Register \in Messages /\ Deregister(id[t]) \in Messages
  BY <1>0, MessageTypes
<1>2. CASE Start(t)
  BY <1>1, <1>2 DEF Start, Asks
<1>3. CASE RenewLease(t)
  <2>1. status' = [status EXCEPT ![t] = "running"]
    BY <1>0, <1>3 DEF RenewLease
  <2>. QED  BY <1>1, <1>3, <2>1 DEF RenewLease, Asks
<1>4. CASE Finish(t)
  BY <1>1, <1>4 DEF Finish, Asks
<1>. QED  BY <1>2, <1>3, <1>4

LEMMA AskChannels ==
  \A t \in Tanks : \A m, new : TypeInv /\ Asks(t, m, new) =>
    /\ net'[<<t, Broker>>] = Append(net[<<t, Broker>>], m)
    /\ \A p \in Pairs : p # <<t, Broker>> => net'[p] = net[p]
    /\ status'[t] = new /\ \A u \in Tanks : u # t => status'[u] = status[u]
<1>. SUFFICES ASSUME NEW t \in Tanks, NEW m, NEW new, TypeInv, Asks(t, m, new)
              PROVE  /\ net'[<<t, Broker>>] = Append(net[<<t, Broker>>], m)
                     /\ \A p \in Pairs : p # <<t, Broker>> => net'[p] = net[p]
                     /\ status'[t] = new /\ \A u \in Tanks : u # t => status'[u] = status[u]
  OBVIOUS
<1>1. <<t, Broker>> \in Pairs
  BY Addressing
<1>2. net \in [Pairs -> Seq(Messages)] /\ status \in [Tanks -> {"new", "running", "gone"}]
  BY DEF TypeInv, TypeOK
<1>3. net' = [net EXCEPT ![<<t, Broker>>] = Append(net[<<t, Broker>>], m)] /\ status' = [status EXCEPT ![t] = new]
  BY DEF Asks, SendTo
<1>. QED  BY <1>1, <1>2, <1>3

LEMMA AskList ==
  \A t \in Tanks : \A m, new : TypeInv /\ ListInv /\ Asks(t, m, new) => ListInv'
<1>. SUFFICES ASSUME NEW t \in Tanks, NEW m, NEW new, TypeInv, ListInv, Asks(t, m, new) PROVE ListInv'
  OBVIOUS
<1>1. /\ net'[<<t, Broker>>] = Append(net[<<t, Broker>>], m)
      /\ \A p \in Pairs : p # <<t, Broker>> => net'[p] = net[p]
      /\ status'[t] = new /\ \A u \in Tanks : u # t => status'[u] = status[u]
  BY AskChannels
<1>2. /\ clients' = clients /\ new # "new" /\ status[t] # "gone" /\ m \in Messages
      /\ m.type = "register" \/ (m.type = "deregister" /\ new = "gone")
  BY DEF Asks, ringVars, Register, Deregister
<1>. DEFINE q == net[<<t, Broker>>]
            c == net'[<<t, Broker>>]
<1>3. \A i \in 1 .. Len(q) : q[i].type = "register"
  BY <1>2 DEF ListInv, RequestsRight
<1>4. \A i \in 1 .. Len(c) : c[i].type = "register" \/ (c[i] = m /\ i = Len(c))
  <2>1. q \in Seq(Messages)
    BY Addressing DEF TypeInv, TypeOK
  <2>2. c = Append(q, m)
    BY <1>1
  <2>. HIDE DEF q, c
  <2>3. /\ Len(q) \in Nat /\ Len(c) = Len(q) + 1 /\ c[Len(q) + 1] = m
        /\ \A i \in 1 .. Len(q) : c[i] = q[i]
    BY <1>2, <2>1, <2>2, QueueParts
  <2>4. \A i \in 1 .. Len(c) : i \in 1 .. Len(q) \/ i = Len(q) + 1
    BY <2>3
  <2>. QED  BY <1>3, <2>3, <2>4
<1>5. ListRight'
  <2>1. ASSUME NEW i \in 1 .. Size PROVE status'[clients[i].addr] # "new"
    <3>1. clients[i] \in [id : Nat, addr : Tanks]
      BY ElementOfSeq DEF TypeInv, TypeOK, Size
    <3>2. clients[i].addr \in Tanks
      BY <3>1
    <3>. QED  BY <1>1, <1>2, <3>2 DEF ListInv, ListRight
  <2>. QED  BY <1>2, <2>1 DEF ListInv, ListRight, Size
<1>6. RequestsRight'
  <2>. SUFFICES ASSUME NEW u \in Tanks
                PROVE  /\ status'[u] = "new" => net'[<<u, Broker>>] = << >>
                       /\ \A i \in 1 .. Len(net'[<<u, Broker>>]) :
                            \/ net'[<<u, Broker>>][i].type = "register"
                            \/ /\ net'[<<u, Broker>>][i].type = "deregister"
                               /\ i = Len(net'[<<u, Broker>>]) /\ status'[u] = "gone"
    BY DEF RequestsRight
  <2>1. CASE u = t
    BY <1>1, <1>2, <1>4, <2>1
  <2>2. CASE u # t
    <3>1. net'[<<u, Broker>>] = net[<<u, Broker>>] /\ status'[u] = status[u]
      BY <1>1, <2>2, Addressing
    <3>. QED  BY <3>1 DEF ListInv, RequestsRight
  <2>. QED  BY <2>1, <2>2
<1>7. OnlyBrokerTells'
  <2>. SUFFICES ASSUME NEW p \in Pairs, p[1] # Broker, NEW i \in 1 .. Len(net'[p])
                PROVE  net'[p][i].type \notin FromBroker
    BY DEF OnlyBrokerTells
  <2>1. CASE p = <<t, Broker>>
    BY <1>2, <1>4, <2>1 DEF FromBroker
  <2>2. CASE p # <<t, Broker>>
    BY <1>1, <2>2 DEF ListInv, OnlyBrokerTells
  <2>. QED  BY <2>1, <2>2
<1>. QED  BY <1>5, <1>6, <1>7 DEF ListInv

-----------------------------------------------------------------------------
(* Tanks that read.                                                          *)

\* The list stays, and a tank may read a message of the broker.
Reading ==
  /\ UNCHANGED <<clients, status>>
  /\ \A u \in Tanks : net'[<<u, Broker>>] = net[<<u, Broker>>]
  /\ \A u \in Tanks : LET q == net[<<Broker, u>>] IN
       \/ /\ net'[<<Broker, u>>] = q
          /\ left'[u] = left[u] /\ right'[u] = right[u] /\ id'[u] = id[u]
       \/ /\ q # << >> /\ net'[<<Broker, u>>] = Tail(q)
          /\ left'[u] = IF Updates(Head(q), "LEFT") THEN Head(q).tank ELSE left[u]
          /\ right'[u] = IF Updates(Head(q), "RIGHT") THEN Head(q).tank ELSE right[u]
          /\ \/ id'[u] = id[u]
             \/ status[u] # "gone" /\ Head(q).type = "response" /\ id'[u] = Head(q).id

LEMMA ReadingKeeps == TypeInv /\ RingRight /\ Reading => RingRight'
<1>. SUFFICES ASSUME TypeInv, RingRight, Reading PROVE RingRight'
  OBVIOUS
<1>0. /\ UNCHANGED <<clients, status>> /\ \A u \in Tanks : net'[<<u, Broker>>] = net[<<u, Broker>>]
      /\ \A u, i : Entry(clients', u, i) <=> Entry(clients, u, i)
  BY DEF Reading, Entry, Size
<1>1. IdsFresh'
  BY <1>0 DEF RingRight, IdsFresh, Departed, Registered, Size
<1>2. ASSUME NEW u \in Tanks PROVE IdKnown(u)'
  <2>. DEFINE q == net[<<Broker, u>>]
              c == net'[<<Broker, u>>]
  <2>0. q \in Seq(Messages) /\ IdKnown(u)
    BY Addressing DEF TypeInv, TypeOK, RingRight
  <2>1. status[u] # "gone" => \A i \in 1 .. Len(q) : q[i].type = "response" => Entry(clients, u, q[i].id)
    BY <2>0 DEF IdKnown
  <2>2. \/ c = q /\ id'[u] = id[u]
        \/ /\ q # << >> /\ c = Tail(q)
           /\ \/ id'[u] = id[u]
              \/ status[u] # "gone" /\ Head(q).type = "response" /\ id'[u] = Head(q).id
    BY DEF Reading
  <2>. HIDE DEF q, c
  <2>3. \A i \in 1 .. Len(c) : \E j \in 1 .. Len(q) : c[i] = q[j]
    BY <2>0, <2>2, QueueParts, SMTT(30)
  <2>4. status[u] # "gone" => \A i \in 1 .. Len(c) : c[i].type = "response" => Entry(clients, u, c[i].id)
    BY <2>1, <2>3
  <2>5. status[u] # "gone" /\ id'[u] # None => Entry(clients, u, id'[u])
    <3>1. CASE id'[u] = id[u]
      BY <2>0, <3>1 DEF IdKnown
    <3>2. CASE q # << >> /\ status[u] # "gone" /\ Head(q).type = "response" /\ id'[u] = Head(q).id
      <4>1. Head(q) = q[1] /\ 1 \in 1 .. Len(q)
        BY <2>0, <3>2, QueueParts
      <4>. QED  BY <2>1, <3>2, <4>1
    <3>. QED  BY <2>2, <3>1, <3>2
  <2>. QED  BY <1>0, <2>0, <2>4, <2>5 DEF IdKnown, c
<1>3. ASSUME NEW n \in 1 .. Size' PROVE ViewRight(n)'
  <2>. DEFINE t == clients[n].addr
              q == net[<<Broker, t>>]
              c == net'[<<Broker, t>>]
              l == LeftNeighbourOf(clients, n)
              r == RightNeighbourOf(clients, n)
  <2>0. n \in 1 .. Size /\ clients' = clients
    BY <1>0 DEF Size
  <2>1. clients[n] \in [id : Nat, addr : Tanks]
    BY <2>0, ElementOfSeq DEF TypeInv, TypeOK, Size
  <2>2. t \in Tanks
    BY <2>1
  <2>3. q \in Seq(Messages)
    BY <2>2, Addressing DEF TypeInv, TypeOK
  <2>4. WillKnow(q, "LEFT", left[t], l) /\ WillKnow(q, "RIGHT", right[t], r)
    BY <2>0 DEF RingRight, ViewRight
  <2>5. \/ c = q /\ left'[t] = left[t] /\ right'[t] = right[t]
        \/ /\ q # << >> /\ c = Tail(q)
           /\ left'[t] = IF Updates(Head(q), "LEFT") THEN Head(q).tank ELSE left[t]
           /\ right'[t] = IF Updates(Head(q), "RIGHT") THEN Head(q).tank ELSE right[t]
    BY <2>2 DEF Reading
  <2>6. WillKnow(c, "LEFT", left'[t], l) /\ WillKnow(c, "RIGHT", right'[t], r)
    <3>. HIDE DEF q, c, t, l, r
    <3>. QED  BY <2>3, <2>4, <2>5, ReadOne
  <2>. QED  BY <2>0, <2>6 DEF ViewRight
<1>. QED  BY <1>1, <1>2, <1>3 DEF RingRight

LEMMA QuietReads == TypeInv /\ Quiet => Reading
<1>. SUFFICES ASSUME TypeInv, Quiet PROVE Reading
  OBVIOUS
<1>1. UNCHANGED <<clients, id, left, right, status>>
  BY DEF Quiet
<1>2. /\ \A t \in Tanks : net'[<<t, Broker>>] = net[<<t, Broker>>]
      /\ \A t \in Tanks :
           \/ net'[<<Broker, t>>] = net[<<Broker, t>>]
           \/ /\ net[<<Broker, t>>] # << >> /\ Head(net[<<Broker, t>>]).type \in PassedOn
              /\ net'[<<Broker, t>>] = Tail(net[<<Broker, t>>])
  BY QuietChannels
<1>. QED  BY <1>1, <1>2 DEF Reading, Updates, PassedOn

\* Neighbours and ids come from the broker.
LEMMA BrokerTold ==
  \A s \in Addresses, t \in Tanks, type \in FromBroker : TypeInv /\ ListInv /\ Receives(s, t, type) =>
    /\ s = Broker /\ status[t] = "running"
    /\ net[<<Broker, t>>] # << >> /\ Head(net[<<Broker, t>>]).type = type
    /\ net'[<<Broker, t>>] = Tail(net[<<Broker, t>>])
    /\ \A p \in Pairs : p # <<Broker, t>> => net'[p] = net[p]
<1>. SUFFICES ASSUME NEW s \in Addresses, NEW t \in Tanks, NEW type \in FromBroker,
                     TypeInv, ListInv, Receives(s, t, type)
              PROVE  /\ s = Broker /\ status[t] = "running"
                     /\ net[<<Broker, t>>] # << >> /\ Head(net[<<Broker, t>>]).type = type
                     /\ net'[<<Broker, t>>] = Tail(net[<<Broker, t>>])
                     /\ \A p \in Pairs : p # <<Broker, t>> => net'[p] = net[p]
  OBVIOUS
<1>1. <<s, t>> \in Pairs /\ <<s, t>>[1] = s
  BY DEF Pairs, Addresses
<1>2. net \in [Pairs -> Seq(Messages)] /\ net[<<s, t>>] \in Seq(Messages)
  BY <1>1 DEF TypeInv, TypeOK
<1>3. /\ net[<<s, t>>] # << >> /\ Head(net[<<s, t>>]).type = type /\ status[t] = "running"
      /\ net' = [net EXCEPT ![<<s, t>>] = Tail(net[<<s, t>>])]
  BY DEF Receives, Runs
<1>4. Head(net[<<s, t>>]) = net[<<s, t>>][1] /\ 1 \in 1 .. Len(net[<<s, t>>])
  BY <1>2, <1>3, QueueParts
<1>5. s = Broker
  BY <1>1, <1>3, <1>4 DEF ListInv, OnlyBrokerTells
<1>. QED  BY <1>1, <1>2, <1>3, <1>5

LEMMA TankReads ==
  \A s \in Addresses, t \in Tanks : TypeInv /\ ListInv /\ (ReceiveNeighbour(s, t) \/ OnRegistration(s, t)) =>
    Reading /\ ListInv'
<1>. SUFFICES ASSUME NEW s \in Addresses, NEW t \in Tanks, TypeInv, ListInv,
                     ReceiveNeighbour(s, t) \/ OnRegistration(s, t)
              PROVE  Reading /\ ListInv'
  OBVIOUS
<1>1. PICK type \in FromBroker : Receives(s, t, type)
  BY DEF ReceiveNeighbour, OnRegistration, FromBroker
<1>. DEFINE q == net[<<Broker, t>>]
            m == Head(q)
<1>2. /\ s = Broker /\ status[t] = "running" /\ q # << >>
      /\ net'[<<Broker, t>>] = Tail(q) /\ \A p \in Pairs : p # <<Broker, t>> => net'[p] = net[p]
  BY <1>1, BrokerTold
<1>3. UNCHANGED <<clients, status>>
  BY DEF ReceiveNeighbour, OnRegistration
<1>4. q \in Seq(Messages)
  BY Addressing DEF TypeInv, TypeOK
<1>5. m \in Messages
  BY <1>2, <1>4, QueueParts
<1>6. left \in [Tanks -> Tanks \cup {None}] /\ right \in [Tanks -> Tanks \cup {None}] /\ id \in [Tanks -> Nat \cup {None}]
  BY DEF TypeInv, TypeOK
<1>7. /\ left'[t] = IF Updates(m, "LEFT") THEN m.tank ELSE left[t]
      /\ right'[t] = IF Updates(m, "RIGHT") THEN m.tank ELSE right[t]
      /\ id'[t] = id[t] \/ (m.type = "response" /\ id'[t] = m.id)
      /\ \A u \in Tanks : u # t => left'[u] = left[u] /\ right'[u] = right[u] /\ id'[u] = id[u]
  <2>1. CASE ReceiveNeighbour(s, t)
    <3>1. /\ m.type = "neighbour" /\ id' = id
          /\ left' = IF m.dir = "LEFT" THEN [left EXCEPT ![t] = m.tank] ELSE left
          /\ right' = IF m.dir = "RIGHT" THEN [right EXCEPT ![t] = m.tank] ELSE right
      BY <1>2, <2>1 DEF ReceiveNeighbour, Receives
    <3>. HIDE DEF m
    <3>. QED  BY <1>6, <3>1 DEF Updates
  <2>2. CASE OnRegistration(s, t)
    <3>1. m.type = "response" /\ left' = left /\ right' = right /\ id' = [id EXCEPT ![t] = m.id]
      BY <1>2, <2>2 DEF OnRegistration, Receives
    <3>. HIDE DEF m
    <3>. QED  BY <1>6, <3>1 DEF Updates
  <2>. QED  BY <2>1, <2>2
<1>8. \A u \in Tanks : u # t => net'[<<Broker, u>>] = net[<<Broker, u>>]
  BY <1>2, Addressing
<1>9. \A u \in Tanks : net'[<<u, Broker>>] = net[<<u, Broker>>]
  BY <1>2, Addressing
<1>10. Reading
  <2>1. ASSUME NEW u \in Tanks
        PROVE  \/ /\ net'[<<Broker, u>>] = net[<<Broker, u>>]
                  /\ left'[u] = left[u] /\ right'[u] = right[u] /\ id'[u] = id[u]
               \/ /\ net[<<Broker, u>>] # << >> /\ net'[<<Broker, u>>] = Tail(net[<<Broker, u>>])
                  /\ left'[u] = IF Updates(Head(net[<<Broker, u>>]), "LEFT") THEN Head(net[<<Broker, u>>]).tank ELSE left[u]
                  /\ right'[u] = IF Updates(Head(net[<<Broker, u>>]), "RIGHT") THEN Head(net[<<Broker, u>>]).tank ELSE right[u]
                  /\ \/ id'[u] = id[u]
                     \/ status[u] # "gone" /\ Head(net[<<Broker, u>>]).type = "response"
                        /\ id'[u] = Head(net[<<Broker, u>>]).id
    <3>1. CASE u # t
      BY <1>7, <1>8, <3>1
    <3>2. CASE u = t
      BY <1>2, <1>7, <3>2
    <3>. QED  BY <3>1, <3>2
  <2>. QED  BY <1>3, <1>9, <2>1 DEF Reading
<1>11. ListRight'
  BY <1>3 DEF ListInv, ListRight, Size
<1>12. RequestsRight'
  BY <1>3, <1>9 DEF ListInv, RequestsRight
<1>13. OnlyBrokerTells'
  BY <1>2, Addressing DEF ListInv, OnlyBrokerTells
<1>. QED  BY <1>10, <1>11, <1>12, <1>13 DEF ListInv

LEMMA AskKeeps ==
  \A t \in Tanks : \A m, new : TypeInv /\ RingRight /\ Asks(t, m, new) => RingRight'
<1>. SUFFICES ASSUME NEW t \in Tanks, NEW m, NEW new, TypeInv, RingRight, Asks(t, m, new) PROVE RingRight'
  OBVIOUS
<1>1. /\ net'[<<t, Broker>>] = Append(net[<<t, Broker>>], m)
      /\ \A p \in Pairs : p # <<t, Broker>> => net'[p] = net[p]
      /\ status'[t] = new /\ \A u \in Tanks : u # t => status'[u] = status[u]
  BY AskChannels
<1>2. UNCHANGED <<clients, id, left, right>> /\ m \in Messages /\ status[t] # "gone"
  BY DEF Asks, ringVars
<1>3. \A u \in Tanks : net'[<<Broker, u>>] = net[<<Broker, u>>]
  BY <1>1, Addressing
<1>4. \A u \in Tanks : u # t => net'[<<u, Broker>>] = net[<<u, Broker>>]
  BY <1>1, Addressing
<1>5. Size' = Size /\ (\A u, i : Entry(clients', u, i) <=> Entry(clients, u, i)) /\ \A u : Registered(u)' <=> Registered(u)
  BY <1>2 DEF Entry, Size, Registered
<1>6. IdsFresh'
  <2>1. ASSUME NEW x \in Tanks, Departed(x) PROVE Departed(x)'
    <3>1. x # t
      BY <1>2, <2>1 DEF Departed
    <3>. QED  BY <1>1, <1>4, <1>5, <2>1, <3>1 DEF Departed
  <2>. QED  BY <1>2, <1>5, <2>1 DEF RingRight, IdsFresh
<1>7. ASSUME NEW u \in Tanks, u # t PROVE IdKnown(u)'
  BY <1>1, <1>2, <1>3, <1>4, <1>5, <1>7 DEF RingRight, IdKnown
<1>8. IdKnown(t)'
  <2>. DEFINE q == net[<<t, Broker>>]
              c == net'[<<t, Broker>>]
  <2>1. IdKnown(t)
    BY DEF RingRight
  <2>2. \A i \in 1 .. Len(q) : q[i].type = "deregister" /\ q[i].id # None => Entry(clients, t, q[i].id)
    BY <2>1 DEF IdKnown
  <2>3. m.type = "deregister" /\ m.id # None => Entry(clients, t, m.id)
    <3>1. m = Register \/ m = Deregister(id[t])
      BY DEF Asks
    <3>. QED  BY <1>2, <2>1, <3>1 DEF IdKnown, Register, Deregister
  <2>4. q \in Seq(Messages) /\ c = Append(q, m)
    BY <1>1, Addressing, ZenonT(30) DEF TypeInv, TypeOK
  <2>. HIDE DEF q, c
  <2>5. \A i \in 1 .. Len(c) : (\E j \in 1 .. Len(q) : c[i] = q[j]) \/ c[i] = m
    <3>1. /\ Len(q) \in Nat /\ Len(c) = Len(q) + 1 /\ c[Len(q) + 1] = m
          /\ \A i \in 1 .. Len(q) : c[i] = q[i]
      BY <1>2, <2>4, QueueParts
    <3>2. \A i \in 1 .. Len(c) : i \in 1 .. Len(q) \/ i = Len(q) + 1
      BY <3>1
    <3>. QED  BY <3>1, <3>2
  <2>6. \A i \in 1 .. Len(c) : c[i].type = "deregister" /\ c[i].id # None => Entry(clients, t, c[i].id)
    BY <2>2, <2>3, <2>5
  <2>7. status[t] # "gone" /\ id[t] # None => Entry(clients, t, id[t])
    BY <2>1 DEF IdKnown
  <2>8. \A i \in 1 .. Len(net[<<Broker, t>>]) :
          net[<<Broker, t>>][i].type = "response" => Entry(clients, t, net[<<Broker, t>>][i].id)
    BY <1>2, <2>1 DEF IdKnown
  <2>. QED  BY <1>2, <1>3, <1>5, <2>6, <2>7, <2>8 DEF IdKnown, c
<1>9. ASSUME NEW n \in 1 .. Size' PROVE ViewRight(n)'
  <2>1. clients[n] \in [id : Nat, addr : Tanks]
    BY <1>5, ElementOfSeq DEF TypeInv, TypeOK, Size
  <2>2. clients[n].addr \in Tanks
    BY <2>1
  <2>. QED  BY <1>2, <1>3, <1>5, <2>2 DEF RingRight, ViewRight
<1>. QED  BY <1>6, <1>7, <1>8, <1>9 DEF RingRight

-----------------------------------------------------------------------------
(* The broker's workers.                                                     *)

\* Ids after a request of t: entries stay, but that of t when it deregisters.
LEMMA WorkerIds ==
  \A t \in Tanks, type \in {"register", "deregister"} : \A msgs :
    /\ TypeInv /\ ListInv /\ Worker(t, type, msgs) /\ \A u \in Tanks : IdKnown(u)
    /\ \A u \in Tanks : \A i : Entry(clients, u, i) => Entry(clients', u, i) \/ (u = t /\ type = "deregister")
    /\ \A u \in Tanks : \A i \in 1 .. Len(msgs[u]) :
         msgs[u][i].type = "response" /\ status[u] # "gone" => Entry(clients', u, msgs[u][i].id)
    => \A u \in Tanks : IdKnown(u)'
<1>. SUFFICES ASSUME NEW t \in Tanks, NEW type \in {"register", "deregister"}, NEW msgs,
                     TypeInv, ListInv, Worker(t, type, msgs), \A u \in Tanks : IdKnown(u),
                     \A u \in Tanks : \A i : Entry(clients, u, i) => Entry(clients', u, i) \/ (u = t /\ type = "deregister"),
                     \A u \in Tanks : \A i \in 1 .. Len(msgs[u]) :
                       msgs[u][i].type = "response" /\ status[u] # "gone" => Entry(clients', u, msgs[u][i].id),
                     NEW u \in Tanks
              PROVE  IdKnown(u)'
  OBVIOUS
<1>0. UNCHANGED <<id, status>> /\ msgs[u] \in Seq(Messages) /\ Request(t, type)
  BY DEF Worker
<1>1. /\ net[<<t, Broker>>] # << >> /\ net'[<<t, Broker>>] = Tail(net[<<t, Broker>>])
      /\ u # t => net'[<<u, Broker>>] = net[<<u, Broker>>]
      /\ net'[<<Broker, u>>] = net[<<Broker, u>>] \o msgs[u]
  <2>1. /\ net[<<t, Broker>>] # << >> /\ net'[<<t, Broker>>] = Tail(net[<<t, Broker>>])
        /\ u # t => net'[<<u, Broker>>] = net[<<u, Broker>>]
        /\ Told(u, msgs[u])
    BY AnswerChannels
  <2>. QED  BY <2>1 DEF Told
<1>2. net[<<t, Broker>>] \in Seq(Messages) /\ net[<<Broker, u>>] \in Seq(Messages)
  BY Addressing, ZenonT(30) DEF TypeInv, TypeOK
<1>. DEFINE q == net[<<t, Broker>>]
<1>3. /\ Len(q) \in Nat /\ Len(Tail(q)) = Len(q) - 1 /\ Head(q) = q[1] /\ 1 \in 1 .. Len(q)
      /\ \A i \in 1 .. Len(Tail(q)) : i + 1 \in 1 .. Len(q) /\ Tail(q)[i] = q[i + 1]
  BY <1>1, <1>2, QueueParts
\* A tank that deregisters has gone, and asks nothing more.
<1>4. type = "deregister" => status[t] = "gone" /\ \A i \in 1 .. Len(Tail(q)) : FALSE
  <2>. SUFFICES ASSUME type = "deregister" PROVE status[t] = "gone" /\ \A i \in 1 .. Len(Tail(q)) : FALSE
    OBVIOUS
  <2>1. q[1].type = "deregister"
    BY <1>0, <1>3 DEF Request
  <2>2. 1 = Len(q) /\ status[t] = "gone"
    BY <1>3, <2>1 DEF ListInv, RequestsRight
  <2>. QED  BY <1>3, <2>2
<1>5. status[u] # "gone" => \A i : Entry(clients, u, i) => Entry(clients', u, i)
  BY <1>4
<1>6. status[u] # "gone" /\ id[u] # None => Entry(clients', u, id[u])
  <2>1. status[u] # "gone" /\ id[u] # None => Entry(clients, u, id[u])
    BY DEF IdKnown
  <2>. QED  BY <1>5, <2>1
<1>7. status[u] # "gone" => \A i \in 1 .. Len(net'[<<Broker, u>>]) :
        net'[<<Broker, u>>][i].type = "response" => Entry(clients', u, net'[<<Broker, u>>][i].id)
  <2>. DEFINE b == net[<<Broker, u>>]
              m == msgs[u]
  <2>1. status[u] # "gone" => \A i \in 1 .. Len(b) : b[i].type = "response" => Entry(clients, u, b[i].id)
    BY DEF IdKnown
  <2>2. status[u] # "gone" => \A i \in 1 .. Len(m) : m[i].type = "response" => Entry(clients', u, m[i].id)
    OBVIOUS
  <2>3. net'[<<Broker, u>>] = b \o m /\ b \in Seq(Messages) /\ m \in Seq(Messages)
    BY <1>0, <1>1, <1>2
  <2>. HIDE DEF b, m
  <2>4. \A i \in 1 .. Len(b \o m) :
          (\E j \in 1 .. Len(b) : (b \o m)[i] = b[j]) \/ (\E j \in 1 .. Len(m) : (b \o m)[i] = m[j])
    <3>1. /\ Len(b) \in Nat /\ Len(m) \in Nat /\ Len(b \o m) = Len(b) + Len(m)
          /\ \A i \in 1 .. Len(b) : (b \o m)[i] = b[i]
          /\ \A i \in 1 .. Len(m) : (b \o m)[Len(b) + i] = m[i]
      BY <2>3, QueueParts
    <3>2. \A i \in 1 .. Len(b \o m) : i \in 1 .. Len(b) \/ (i - Len(b) \in 1 .. Len(m) /\ i = Len(b) + (i - Len(b)))
      BY <3>1
    <3>. QED  BY <3>1, <3>2
  <2>. QED  BY <1>5, <2>1, <2>2, <2>3, <2>4
<1>8. \A i \in 1 .. Len(net'[<<u, Broker>>]) :
        net'[<<u, Broker>>][i].type = "deregister" /\ net'[<<u, Broker>>][i].id # None =>
          Entry(clients', u, net'[<<u, Broker>>][i].id)
  <2>1. CASE u = t
    <3>1. type = "deregister" \/ \A i : Entry(clients, t, i) => Entry(clients', t, i)
      BY <2>1
    <3>2. \A i \in 1 .. Len(q) : q[i].type = "deregister" /\ q[i].id # None => Entry(clients, t, q[i].id)
      BY DEF IdKnown
    <3>3. net'[<<u, Broker>>] = Tail(q)
      BY <1>1, <2>1
    <3>. HIDE DEF q
    <3>. QED  BY <1>3, <1>4, <2>1, <3>1, <3>2, <3>3
  <2>2. CASE u # t
    BY <1>1, <2>2 DEF IdKnown
  <2>. QED  BY <2>1, <2>2
<1>. QED  BY <1>0, <1>6, <1>7, <1>8 DEF IdKnown

\* A request that changes neither the list nor what the tanks know of it.
Unnoticed(t, type, msgs) ==
  /\ Worker(t, type, msgs) /\ clients' = clients
  /\ \A u \in Tanks : Silent(msgs[u], "LEFT") /\ Silent(msgs[u], "RIGHT")
  /\ \A u \in Tanks : \A i \in 1 .. Len(msgs[u]) :
       msgs[u][i].type = "response" => Entry(clients, u, msgs[u][i].id)

LEMMA UnnoticedKeeps ==
  \A t \in Tanks, type \in {"register", "deregister"} : \A msgs :
    TypeInv /\ ListInv /\ Unnoticed(t, type, msgs) => ListInv' /\ (RingRight => RingRight')
<1>. SUFFICES ASSUME NEW t \in Tanks, NEW type \in {"register", "deregister"}, NEW msgs,
                     TypeInv, ListInv, Unnoticed(t, type, msgs)
              PROVE  ListInv' /\ (RingRight => RingRight')
  OBVIOUS
<1>0. Worker(t, type, msgs) /\ UNCHANGED <<clients, left, right, status, id>>
  BY DEF Unnoticed, Worker
<1>1. ListInv'
  <2>1. ListRight'
    BY <1>0 DEF ListInv, ListRight, Size
  <2>. QED  BY <1>0, <2>1, AnswerRequests DEF ListInv
<1>. SUFFICES ASSUME RingRight PROVE RingRight'
  BY <1>1
<1>2. /\ net[<<t, Broker>>] # << >>
      /\ \A u \in Tanks : u # t => net'[<<u, Broker>>] = net[<<u, Broker>>]
      /\ \A u \in Tanks : Told(u, msgs[u])
  BY <1>0, AnswerChannels
<1>3. IdsFresh'
  <2>1. ASSUME NEW x \in Tanks, Departed(x) PROVE Departed(x)'
    BY <1>0, <1>2, <2>1 DEF Departed, Registered, Size
  <2>. QED  BY <1>0, <2>1 DEF RingRight, IdsFresh, Size
<1>4. \A u \in Tanks : IdKnown(u)'
  <2>1. \A u \in Tanks : IdKnown(u)
    BY DEF RingRight
  <2>2. \A u \in Tanks : \A i : Entry(clients, u, i) => Entry(clients', u, i) \/ (u = t /\ type = "deregister")
    BY <1>0
  <2>3. \A u \in Tanks : \A i \in 1 .. Len(msgs[u]) :
          msgs[u][i].type = "response" /\ status[u] # "gone" => Entry(clients', u, msgs[u][i].id)
    BY <1>0 DEF Unnoticed
  <2>. QED  BY <1>0, <2>1, <2>2, <2>3, WorkerIds
<1>5. ASSUME NEW n \in 1 .. Size' PROVE ViewRight(n)'
  <2>. DEFINE u == clients[n].addr
              q == net[<<Broker, u>>]
              l == LeftNeighbourOf(clients, n)
              r == RightNeighbourOf(clients, n)
  <2>0. n \in 1 .. Size
    BY <1>0 DEF Size
  <2>1. clients[n] \in [id : Nat, addr : Tanks]
    BY <2>0, ElementOfSeq DEF TypeInv, TypeOK, Size
  <2>2. u \in Tanks
    BY <2>1
  <2>3. q \in Seq(Messages)
    BY <2>2, Addressing DEF TypeInv, TypeOK
  <2>4. WillKnow(q, "LEFT", left[u], l) /\ WillKnow(q, "RIGHT", right[u], r)
    BY <2>0 DEF RingRight, ViewRight
  <2>5. Told(u, msgs[u])
    BY <1>2, <2>2
  <2>6. net'[<<Broker, u>>] = q \o msgs[u]
    BY <2>5 DEF Told
  <2>7. msgs[u] \in Seq(Messages)
    BY <1>0, <2>2 DEF Worker
  <2>8. Silent(msgs[u], "LEFT") /\ Silent(msgs[u], "RIGHT")
    BY <2>2 DEF Unnoticed
  <2>9. WillKnow(q \o msgs[u], "LEFT", left[u], l) /\ WillKnow(q \o msgs[u], "RIGHT", right[u], r)
    <3>. DEFINE m == msgs[u]
    <3>. HIDE DEF q, l, r, u, m
    <3>. QED  BY <2>3, <2>4, <2>7, <2>8, ToldLast DEF m
  <2>. QED  BY <1>0, <2>6, <2>9 DEF ViewRight
<1>. QED  BY <1>3, <1>4, <1>5 DEF RingRight

\* A request of a tank the list has, or has not any more.
LEMMA SmallRequests ==
  \A t \in Tanks : TypeInv /\ ListInv /\ (Reregister(t) \/ DeregisterUnknown(t)) =>
    ListInv' /\ (RingRight => RingRight')
<1>. SUFFICES ASSUME NEW t \in Tanks, TypeInv, ListInv, Reregister(t) \/ DeregisterUnknown(t)
              PROVE  ListInv' /\ (RingRight => RingRight')
  OBVIOUS
<1>1. CASE Reregister(t)
  <2>. DEFINE k == IndexOfAddr(t)
              m == <<RegisterResponse(clients[k].id)>>
              msgs == [u \in Tanks |-> IF u = t THEN m ELSE << >>]
  <2>1. k \in 1 .. Len(clients) /\ clients[k].addr = t
    BY <1>1 DEF Reregister, Registered, IndexOfAddr, Size
  <2>2. clients[k] \in [id : Nat, addr : Tanks]
    BY <2>1, ElementOfSeq DEF TypeInv, TypeOK
  <2>3. RegisterResponse(clients[k].id) \in Messages
    BY <2>2, MessageTypes
  <2>4. m \in Seq(Messages) /\ Len(m) = 1 /\ m[1].type = "response" /\ m[1].id = clients[k].id
    BY <2>3, ShortLists DEF RegisterResponse
  <2>5. Entry(clients, t, clients[k].id)
    BY <2>1 DEF Entry
  <2>6. Request(t, "register") /\ Answer(t, msgs) /\ UNCHANGED <<clients, id, left, right, status>>
    BY <1>1 DEF Reregister, ringVars
  <2>. HIDE DEF m
  <2>7. msgs \in [Tanks -> Seq(Messages)]
    BY <2>4, ShortLists
  <2>8. Silent(m, "LEFT") /\ Silent(m, "RIGHT")
    BY <2>4 DEF Silent, Updates
  <2>9. Silent(<< >>, "LEFT") /\ Silent(<< >>, "RIGHT") /\ Len(<< >>) = 0
    BY DEF Silent
  <2>10. \A u \in Tanks : (msgs[u] = m /\ u = t) \/ msgs[u] = << >>
    OBVIOUS
  <2>. HIDE DEF msgs
  <2>11. \A u \in Tanks : Silent(msgs[u], "LEFT") /\ Silent(msgs[u], "RIGHT")
    BY <2>8, <2>9, <2>10
  <2>12. \A u \in Tanks : \A i \in 1 .. Len(msgs[u]) :
           msgs[u][i].type = "response" => Entry(clients, u, msgs[u][i].id)
    <3>1. \A i \in 1 .. Len(m) : i = 1
      BY <2>4
    <3>. QED  BY <2>4, <2>5, <2>9, <2>10, <3>1
  <2>13. Unnoticed(t, "register", msgs)
    BY <2>6, <2>7, <2>11, <2>12 DEF Unnoticed, Worker
  <2>. QED  BY <2>13, UnnoticedKeeps
<1>2. CASE DeregisterUnknown(t)
  <2>. DEFINE msgs == [u \in Tanks |-> << >>]
  <2>1. Request(t, "deregister") /\ Answer(t, msgs) /\ UNCHANGED <<clients, id, left, right, status>>
    BY <1>2 DEF DeregisterUnknown, ringVars
  <2>2. msgs \in [Tanks -> Seq(Messages)]
    BY EmptySeq
  <2>3. \A u \in Tanks : msgs[u] = << >>
    OBVIOUS
  <2>4. Silent(<< >>, "LEFT") /\ Silent(<< >>, "RIGHT") /\ Len(<< >>) = 0
    BY DEF Silent
  <2>. HIDE DEF msgs
  <2>5. Unnoticed(t, "deregister", msgs)
    BY <2>1, <2>2, <2>3, <2>4 DEF Unnoticed, Worker
  <2>. QED  BY <2>5, UnnoticedKeeps
<1>. QED  BY <1>1, <1>2

\* What a newcomer t between l and r, with the id i, and its neighbours are told.
Greets(t, l, r, i, q, u) ==
  /\ u = t => Tells(q, "LEFT", l) /\ Tells(q, "RIGHT", r)
  /\ u # t => /\ IF u = l THEN Tells(q, "RIGHT", t) ELSE Silent(q, "RIGHT")
              /\ IF u = r THEN Tells(q, "LEFT", t) ELSE Silent(q, "LEFT")
  /\ \A k \in 1 .. Len(q) : q[k].type = "response" => u = t /\ q[k].id = i

LEMMA Greetings ==
  \A t, l, r, u \in Tanks, i \in Nat, k \in Tokens :
    LET x == IF u = l THEN <<NeighbourUpdate(t, "RIGHT")>> ELSE << >>
        y == IF u = r THEN <<NeighbourUpdate(t, "LEFT")>> ELSE << >>
        z == IF u = t THEN <<NeighbourUpdate(l, "LEFT"), NeighbourUpdate(r, "RIGHT"),
                             RegisterResponse(i), Token(k)>> ELSE << >>
    IN  x \o y \o z \in Seq(Messages) /\ Greets(t, l, r, i, x \o y \o z, u)
<1>. SUFFICES ASSUME NEW t \in Tanks, NEW l \in Tanks, NEW r \in Tanks, NEW u \in Tanks, NEW i \in Nat, NEW k \in Tokens
              PROVE  LET x == IF u = l THEN <<NeighbourUpdate(t, "RIGHT")>> ELSE << >>
                         y == IF u = r THEN <<NeighbourUpdate(t, "LEFT")>> ELSE << >>
                         z == IF u = t THEN <<NeighbourUpdate(l, "LEFT"), NeighbourUpdate(r, "RIGHT"),
                                              RegisterResponse(i), Token(k)>> ELSE << >>
                     IN  x \o y \o z \in Seq(Messages) /\ Greets(t, l, r, i, x \o y \o z, u)
  OBVIOUS
<1>. DEFINE x == IF u = l THEN <<NeighbourUpdate(t, "RIGHT")>> ELSE << >>
            y == IF u = r THEN <<NeighbourUpdate(t, "LEFT")>> ELSE << >>
            four == <<NeighbourUpdate(l, "LEFT"), NeighbourUpdate(r, "RIGHT"), RegisterResponse(i), Token(k)>>
            z == IF u = t THEN four ELSE << >>
<1>1. /\ NeighbourUpdate(t, "RIGHT") \in Messages /\ NeighbourUpdate(t, "LEFT") \in Messages
      /\ NeighbourUpdate(l, "LEFT") \in Messages /\ NeighbourUpdate(r, "RIGHT") \in Messages
      /\ RegisterResponse(i) \in Messages /\ Token(k) \in Messages
  BY MessageTypes DEF Dirs
<1>2. x \in Seq(Messages) /\ y \in Seq(Messages) /\ z \in Seq(Messages)
  BY <1>1, ShortLists
<1>3. Silent(<< >>, "LEFT") /\ Silent(<< >>, "RIGHT") /\ Len(<< >>) = 0
  BY DEF Silent
<1>4. \A w \in Tanks, d \in {"LEFT", "RIGHT"} :
        /\ Tells(<<NeighbourUpdate(w, d)>>, d, w)
        /\ \A e \in {"LEFT", "RIGHT"} : e # d => Silent(<<NeighbourUpdate(w, d)>>, e)
  BY DEF Tells, Silent, Updates, NeighbourUpdate
<1>5. IF u = l THEN Tells(x, "RIGHT", t) ELSE Silent(x, "RIGHT")
  BY <1>3, <1>4
<1>6. Silent(x, "LEFT") /\ Silent(y, "RIGHT")
  BY <1>3, <1>4
<1>7. IF u = r THEN Tells(y, "LEFT", t) ELSE Silent(y, "LEFT")
  BY <1>3, <1>4
<1>8. Tells(four, "LEFT", l) /\ Tells(four, "RIGHT", r)
  <2>1. /\ Len(four) = 4 /\ four[1] = NeighbourUpdate(l, "LEFT") /\ four[2] = NeighbourUpdate(r, "RIGHT")
        /\ four[3] = RegisterResponse(i) /\ four[4] = Token(k)
    OBVIOUS
  <2>2. \A j \in 1 .. 4 : j = 1 \/ j = 2 \/ j = 3 \/ j = 4
    OBVIOUS
  <2>. HIDE DEF four
  <2>3. Updates(four[1], "LEFT") /\ four[1].tank = l /\ \A j \in 1 .. 4 : j > 1 => ~Updates(four[j], "LEFT")
    BY <2>1, <2>2 DEF Updates, NeighbourUpdate, RegisterResponse, Token
  <2>4. Updates(four[2], "RIGHT") /\ four[2].tank = r /\ \A j \in 1 .. 4 : j > 2 => ~Updates(four[j], "RIGHT")
    BY <2>1, <2>2 DEF Updates, NeighbourUpdate, RegisterResponse, Token
  <2>. QED  BY <2>1, <2>3, <2>4 DEF Tells
<1>9. \A j \in 1 .. Len(z) : z[j].type = "response" => u = t /\ z[j].id = i
  BY DEF NeighbourUpdate, RegisterResponse, Token
<1>10. (\A j \in 1 .. Len(x) : x[j].type # "response") /\ \A j \in 1 .. Len(y) : y[j].type # "response"
  BY DEF NeighbourUpdate
<1>11. u # t => Silent(z, "LEFT") /\ Silent(z, "RIGHT")
  BY <1>3
<1>12. u = t => Tells(z, "LEFT", l) /\ Tells(z, "RIGHT", r)
  BY <1>8
<1>. HIDE DEF x, y, z, four
<1>13. x \o y \in Seq(Messages) /\ (x \o y) \o z \in Seq(Messages)
  BY <1>2, ConcatProperties
<1>14. /\ IF u = l THEN Tells(x \o y, "RIGHT", t) ELSE Silent(x \o y, "RIGHT")
       /\ IF u = r THEN Tells(x \o y, "LEFT", t) ELSE Silent(x \o y, "LEFT")
  BY <1>2, <1>5, <1>6, <1>7, ToldLast
<1>15. u # t => /\ IF u = l THEN Tells((x \o y) \o z, "RIGHT", t) ELSE Silent((x \o y) \o z, "RIGHT")
                /\ IF u = r THEN Tells((x \o y) \o z, "LEFT", t) ELSE Silent((x \o y) \o z, "LEFT")
  BY <1>2, <1>11, <1>13, <1>14, ToldLast
<1>16. u = t => Tells((x \o y) \o z, "LEFT", l) /\ Tells((x \o y) \o z, "RIGHT", r)
  BY <1>2, <1>12, <1>13, ToldLast
<1>17. \A j \in 1 .. Len((x \o y) \o z) : ((x \o y) \o z)[j].type = "response" => u = t /\ ((x \o y) \o z)[j].id = i
  <2>1. \A a, b \in Seq(Messages) : \A j \in 1 .. Len(a \o b) :
          (\E h \in 1 .. Len(a) : (a \o b)[j] = a[h]) \/ (\E h \in 1 .. Len(b) : (a \o b)[j] = b[h])
    <3>. SUFFICES ASSUME NEW a \in Seq(Messages), NEW b \in Seq(Messages), NEW j \in 1 .. Len(a \o b)
                  PROVE  (\E h \in 1 .. Len(a) : (a \o b)[j] = a[h]) \/ (\E h \in 1 .. Len(b) : (a \o b)[j] = b[h])
      OBVIOUS
    <3>1. /\ Len(a) \in Nat /\ Len(b) \in Nat /\ Len(a \o b) = Len(a) + Len(b)
          /\ \A h \in 1 .. Len(a) : (a \o b)[h] = a[h]
          /\ \A h \in 1 .. Len(b) : (a \o b)[Len(a) + h] = b[h]
      BY QueueParts
    <3>2. j \in 1 .. Len(a) \/ (j - Len(a) \in 1 .. Len(b) /\ j = Len(a) + (j - Len(a)))
      BY <3>1
    <3>. QED  BY <3>1, <3>2
  <2>2. \A j \in 1 .. Len(x \o y) : (x \o y)[j].type # "response"
    BY <1>2, <1>10, <2>1
  <2>. DEFINE c == (x \o y) \o z
  <2>3. \A j \in 1 .. Len(c) : (\E h \in 1 .. Len(x \o y) : c[j] = (x \o y)[h]) \/ (\E h \in 1 .. Len(z) : c[j] = z[h])
    BY <1>2, <1>13, <2>1
  <2>. HIDE DEF c
  <2>4. \A j \in 1 .. Len(c) : c[j].type = "response" => u = t /\ c[j].id = i
    BY <1>9, <2>2, <2>3
  <2>. QED  BY <2>4 DEF c
<1>18. (x \o y) \o z \in Seq(Messages) /\ Greets(t, l, r, i, (x \o y) \o z, u)
  BY <1>13, <1>15, <1>16, <1>17 DEF Greets
<1>. QED  BY <1>18 DEF x, y, z, four

\* The broker lists t at the end, tells it its neighbours, and them of it.
Admits(t, msgs) ==
  /\ Worker(t, "register", msgs) /\ ~Registered(t)
  /\ clients' = Append(clients, [id |-> Size, addr |-> t])
  /\ \A u \in Tanks : Greets(t, LeftNeighbourOf(clients', Size + 1), RightNeighbourOf(clients', Size + 1),
                             Size, msgs[u], u)

LEMMA RegisterNewSteps ==
  \A t \in Tanks : TypeInv /\ RegisterNew(t) => \E msgs \in [Tanks -> Seq(Messages)] : Admits(t, msgs)
<1>. SUFFICES ASSUME NEW t \in Tanks, TypeInv, RegisterNew(t)
              PROVE  \E msgs \in [Tanks -> Seq(Messages)] : Admits(t, msgs)
  OBVIOUS
<1>. DEFINE l == LeftNeighbourOf(clients', Size + 1)
            r == RightNeighbourOf(clients', Size + 1)
            text(a) == (IF a = l THEN <<NeighbourUpdate(t, "RIGHT")>> ELSE << >>)
                         \o (IF a = r THEN <<NeighbourUpdate(t, "LEFT")>> ELSE << >>)
                         \o (IF a = t THEN <<NeighbourUpdate(l, "LEFT"), NeighbourUpdate(r, "RIGHT"),
                                             RegisterResponse(Size), Token(issued + 1)>> ELSE << >>)
            msgs == [a \in Tanks |-> text(a)]
<1>1. Size \in Nat /\ [id |-> Size, addr |-> t] \in [id : Nat, addr : Tanks]
  BY LenProperties DEF TypeInv, TypeOK, Size
<1>2. clients' \in Seq([id : Nat, addr : Tanks]) /\ Size + 1 \in 1 .. Len(clients')
  BY <1>1, AppendProperties DEF TypeInv, TypeOK, RegisterNew, Size
<1>3. l \in Tanks /\ r \in Tanks
  BY <1>2, NeighbourTypes
<1>4. issued + 1 \in Tokens
  BY DEF TypeInv, TypeOK, Tokens
<1>5. /\ Request(t, "register") /\ ~Registered(t) /\ Answer(t, msgs)
      /\ clients' = Append(clients, [id |-> Size, addr |-> t]) /\ UNCHANGED <<id, left, right, status>>
  BY DEF RegisterNew
<1>6. ASSUME NEW u \in Tanks PROVE text(u) \in Seq(Messages) /\ Greets(t, l, r, Size, text(u), u)
  <2>. HIDE DEF l, r
  <2>. QED  BY <1>1, <1>3, <1>4, Greetings
<1>. HIDE DEF text, l, r
<1>7. msgs \in [Tanks -> Seq(Messages)] /\ \A u \in Tanks : Greets(t, l, r, Size, msgs[u], u)
  BY <1>6
<1>. HIDE DEF msgs
<1>8. Worker(t, "register", msgs)
  BY <1>5, <1>7 DEF Worker
<1>9. Admits(t, msgs)
  BY <1>5, <1>7, <1>8 DEF Admits, l, r
<1>. QED  BY <1>7, <1>9

\* Who has whom beside it in the longer list.
LEMMA NewNeighbours ==
  \A t \in Tanks :
    TypeInv /\ ListRight /\ ~Registered(t) /\ clients' = Append(clients, [id |-> Size, addr |-> t]) =>
      /\ Size \in Nat /\ Len(clients') = Size + 1
      /\ clients'[Size + 1].addr = t /\ clients'[Size + 1].id = Size
      /\ \A n \in 1 .. Size :
           /\ clients'[n] = clients[n] /\ clients[n].addr \in Tanks /\ clients[n].addr # t
           /\ RightNeighbourOf(clients', n) =
                IF clients[n].addr = LeftNeighbourOf(clients', Size + 1) THEN t ELSE RightNeighbourOf(clients, n)
           /\ LeftNeighbourOf(clients', n) =
                IF clients[n].addr = RightNeighbourOf(clients', Size + 1) THEN t ELSE LeftNeighbourOf(clients, n)
<1>. SUFFICES ASSUME NEW t \in Tanks, TypeInv, ListRight, ~Registered(t),
                     clients' = Append(clients, [id |-> Size, addr |-> t])
              PROVE  /\ Size \in Nat /\ Len(clients') = Size + 1
                     /\ clients'[Size + 1].addr = t /\ clients'[Size + 1].id = Size
                     /\ \A n \in 1 .. Size :
                          /\ clients'[n] = clients[n] /\ clients[n].addr \in Tanks /\ clients[n].addr # t
                          /\ RightNeighbourOf(clients', n) =
                               IF clients[n].addr = LeftNeighbourOf(clients', Size + 1) THEN t
                               ELSE RightNeighbourOf(clients, n)
                          /\ LeftNeighbourOf(clients', n) =
                               IF clients[n].addr = RightNeighbourOf(clients', Size + 1) THEN t
                               ELSE LeftNeighbourOf(clients, n)
  OBVIOUS
<1>. DEFINE S == Len(clients)
            e == [id |-> S, addr |-> t]
<1>1. clients \in Seq([id : Nat, addr : Tanks]) /\ Size = S
  BY DEF TypeInv, TypeOK, Size
<1>2. S \in Nat
  BY <1>1, LenProperties
<1>3. e \in [id : Nat, addr : Tanks] /\ e.addr = t /\ e.id = S
  BY <1>2
<1>4. /\ Len(clients') = S + 1 /\ clients'[S + 1] = e
      /\ \A n \in 1 .. S : clients'[n] = clients[n]
  <2>. HIDE DEF e
  <2>1. clients' = Append(clients, e)
    BY <1>1 DEF e
  <2>. QED  BY <1>1, <1>3, <2>1, AppendProperties
<1>5. \A n \in 1 .. S : clients[n].addr \in Tanks
  <2>1. \A n \in 1 .. S : clients[n] \in [id : Nat, addr : Tanks]
    BY <1>1, ElementOfSeq
  <2>. QED  BY <2>1
<1>6. \A n \in 1 .. S : clients[n].addr # t
  BY <1>1 DEF Registered
<1>7. \A n, k \in 1 .. S : clients[n].addr = clients[k].addr => n = k
  BY <1>1 DEF ListRight
<1>. HIDE DEF S, e
<1>8. ASSUME NEW n \in 1 .. S
      PROVE  /\ RightNeighbourOf(clients', n) =
                  IF clients[n].addr = LeftNeighbourOf(clients', S + 1) THEN t ELSE RightNeighbourOf(clients, n)
             /\ LeftNeighbourOf(clients', n) =
                  IF clients[n].addr = RightNeighbourOf(clients', S + 1) THEN t ELSE LeftNeighbourOf(clients, n)
  <2>0. S > 0 /\ S + 1 # 1 /\ (S + 1) - 1 = S /\ S \in 1 .. S /\ 1 \in 1 .. S
    BY <1>2
  <2>1. LeftNeighbourOf(clients', S + 1) = clients[S].addr
    BY <1>4, <2>0 DEF LeftNeighbourOf
  <2>2. RightNeighbourOf(clients', S + 1) = clients[1].addr
    <3>1. (S + 1) % (S + 1) = 0
      BY <1>2
    <3>2. ((S + 1) % Len(clients')) + 1 = 1 /\ clients'[1] = clients[1]
      BY <1>4, <2>0, <3>1
    <3>. QED  BY <3>2 DEF RightNeighbourOf
  <2>3. RightNeighbourOf(clients', n) = clients'[n + 1].addr
    <3>1. n % (S + 1) = n
      BY <1>2
    <3>. QED  BY <1>4, <3>1 DEF RightNeighbourOf
  <2>4. n # S => RightNeighbourOf(clients, n) = clients[n + 1].addr /\ n + 1 \in 1 .. S
    <3>1. n # S => n % S = n
      BY <1>2
    <3>. QED  BY <1>2, <3>1 DEF RightNeighbourOf, S
  <2>5. LeftNeighbourOf(clients', n) = IF n = 1 THEN t ELSE clients[n - 1].addr
    <3>1. n # 1 => n - 1 \in 1 .. S
      BY <1>2
    <3>. QED  BY <1>3, <1>4, <3>1 DEF LeftNeighbourOf
  <2>6. n # 1 => LeftNeighbourOf(clients, n) = clients[n - 1].addr
    BY DEF LeftNeighbourOf
  <2>7. clients[n].addr = clients[S].addr <=> n = S
    BY <1>7, <2>0
  <2>8. clients[n].addr = clients[1].addr <=> n = 1
    BY <1>7, <2>0
  <2>9. RightNeighbourOf(clients', n) = IF n = S THEN t ELSE RightNeighbourOf(clients, n)
    BY <1>3, <1>4, <2>3, <2>4
  <2>. QED  BY <2>1, <2>2, <2>5, <2>6, <2>7, <2>8, <2>9
<1>. QED  BY <1>1, <1>2, <1>3, <1>4, <1>5, <1>6, <1>8 DEF e

LEMMA AdmitKeeps ==
  \A t \in Tanks : \A msgs : TypeInv /\ ListInv /\ Admits(t, msgs) =>
    ListInv' /\ (Undisturbed /\ RingRight => RingRight')
<1>. SUFFICES ASSUME NEW t \in Tanks, NEW msgs, TypeInv, ListInv, Admits(t, msgs)
              PROVE  ListInv' /\ (Undisturbed /\ RingRight => RingRight')
  OBVIOUS
<1>0. /\ Worker(t, "register", msgs) /\ ~Registered(t) /\ UNCHANGED <<left, right, status, id>>
      /\ clients' = Append(clients, [id |-> Size, addr |-> t])
  BY DEF Admits, Worker
<1>. DEFINE l == LeftNeighbourOf(clients', Size + 1)
            r == RightNeighbourOf(clients', Size + 1)
<1>1. /\ Size \in Nat /\ Len(clients') = Size + 1
      /\ clients'[Size + 1].addr = t /\ clients'[Size + 1].id = Size
      /\ \A n \in 1 .. Size :
           /\ clients'[n] = clients[n] /\ clients[n].addr \in Tanks /\ clients[n].addr # t
           /\ RightNeighbourOf(clients', n) = IF clients[n].addr = l THEN t ELSE RightNeighbourOf(clients, n)
           /\ LeftNeighbourOf(clients', n) = IF clients[n].addr = r THEN t ELSE LeftNeighbourOf(clients, n)
  BY <1>0, NewNeighbours DEF ListInv
<1>2. RequestsRight' /\ OnlyBrokerTells' /\ status[t] # "new"
  BY <1>0, AnswerRequests
<1>3. Size' = Size + 1
  BY <1>1 DEF Size
<1>4. \A n \in 1 .. Size + 1 : n \in 1 .. Size \/ n = Size + 1
  BY <1>1
<1>5. ListRight'
  <2>1. \A n \in 1 .. Size : status[clients[n].addr] # "new"
    BY DEF ListInv, ListRight
  <2>2. \A n, k \in 1 .. Size : clients[n].addr = clients[k].addr => n = k
    BY DEF ListInv, ListRight
  <2>. QED  BY <1>0, <1>1, <1>2, <1>3, <1>4, <2>1, <2>2 DEF ListRight
<1>6. ListInv'
  BY <1>2, <1>5 DEF ListInv
<1>. SUFFICES ASSUME Undisturbed, RingRight PROVE RingRight'
  BY <1>6
<1>7. /\ net[<<t, Broker>>] # << >> /\ \A u \in Tanks : Told(u, msgs[u])
  BY <1>0, AnswerChannels
<1>8. IdsFresh'
  <2>1. CASE \A n \in 1 .. Size : clients[n].id = n - 1
    <3>1. \A n \in 1 .. Size + 1 : clients'[n].id = n - 1
      BY <1>1, <1>4, <2>1
    <3>. QED  BY <1>3, <3>1 DEF IdsFresh
  <2>2. CASE \E x \in Tanks : Departed(x)
    <3>1. PICK x \in Tanks : Departed(x)
      BY <2>2
    <3>2. x # t /\ status[x] = "gone" /\ ~Registered(x)
      BY <1>7, <3>1 DEF Departed
    <3>3. PICK a, b \in Tanks : \A u \in Tanks : status[u] # "new" => u \in {a, b}
      BY <3>2 DEF Undisturbed
    <3>4. \A u \in Tanks : status[u] # "new" => u = x \/ u = t
      BY <1>2, <3>2, <3>3
    <3>5. \A n \in 1 .. Size : FALSE
      <4>. SUFFICES ASSUME NEW n \in 1 .. Size PROVE FALSE
        OBVIOUS
      <4>1. status[clients[n].addr] # "new" /\ clients[n].addr \in Tanks /\ clients[n].addr # t
        BY <1>1 DEF ListInv, ListRight
      <4>2. clients[n].addr = x
        BY <3>4, <4>1
      <4>. QED  BY <3>2, <4>2 DEF Registered
    <3>6. Size = 0
      <4>1. Size >= 1 => 1 \in 1 .. Size
        BY <1>1
      <4>. QED  BY <1>1, <3>5, <4>1
    <3>7. \A n \in 1 .. Size + 1 : clients'[n].id = n - 1
      BY <1>1, <3>6
    <3>. QED  BY <1>3, <3>7 DEF IdsFresh
  <2>. QED  BY <2>1, <2>2 DEF RingRight, IdsFresh
<1>9. \A u \in Tanks : IdKnown(u)'
  <2>1. \A u \in Tanks : IdKnown(u)
    BY DEF RingRight
  <2>2. ASSUME NEW u \in Tanks, NEW i, Entry(clients, u, i) PROVE Entry(clients', u, i)
    <3>1. PICK n \in 1 .. Size : clients[n].addr = u /\ clients[n].id = i
      BY <2>2 DEF Entry, Size
    <3>2. n \in 1 .. Len(clients') /\ clients'[n] = clients[n]
      BY <1>1
    <3>. QED  BY <3>1, <3>2 DEF Entry
  <2>3. Entry(clients', t, Size)
    <3>1. Size + 1 \in 1 .. Len(clients')
      BY <1>1
    <3>. QED  BY <1>1, <3>1 DEF Entry
  <2>4. \A u \in Tanks : \A i \in 1 .. Len(msgs[u]) :
          msgs[u][i].type = "response" /\ status[u] # "gone" => Entry(clients', u, msgs[u][i].id)
    <3>1. \A u \in Tanks : \A i \in 1 .. Len(msgs[u]) :
            msgs[u][i].type = "response" => u = t /\ msgs[u][i].id = Size
      BY DEF Admits, Greets
    <3>. QED  BY <2>3, <3>1
  <2>. QED  BY <1>0, <2>1, <2>2, <2>4, WorkerIds
<1>10. ASSUME NEW n \in 1 .. Size' PROVE ViewRight(n)'
  <2>. DEFINE u == clients'[n].addr
              q == net[<<Broker, u>>]
              m == msgs[u]
              nl == LeftNeighbourOf(clients', n)
              nr == RightNeighbourOf(clients', n)
  <2>1. n \in 1 .. Size \/ n = Size + 1
    BY <1>3, <1>4
  <2>2. u \in Tanks
    BY <1>1, <2>1
  <2>3. q \in Seq(Messages) /\ m \in Seq(Messages)
    BY <1>0, <2>2, Addressing DEF TypeInv, TypeOK, Worker
  <2>4. Greets(t, l, r, Size, m, u)
    BY <2>2 DEF Admits
  <2>5. Told(u, m)
    BY <1>7, <2>2
  <2>6. net'[<<Broker, u>>] = q \o m
    BY <2>5 DEF Told
  <2>7. WillKnow(q \o m, "LEFT", left[u], nl) /\ WillKnow(q \o m, "RIGHT", right[u], nr)
    <3>1. CASE n = Size + 1
      <4>1. Tells(m, "LEFT", nl) /\ Tells(m, "RIGHT", nr)
        BY <1>1, <2>4, <3>1 DEF Greets
      <4>. HIDE DEF u, q, m, nl, nr
      <4>. QED  BY <2>3, <4>1, ToldLast
    <3>2. CASE n \in 1 .. Size
      <4>. DEFINE ol == LeftNeighbourOf(clients, n)
                  or == RightNeighbourOf(clients, n)
      <4>1. clients'[n] = clients[n] /\ u # t
        BY <1>1, <3>2
      <4>2. nr = (IF u = l THEN t ELSE or) /\ nl = IF u = r THEN t ELSE ol
        BY <1>1, <3>2
      <4>3. WillKnow(q, "LEFT", left[u], ol) /\ WillKnow(q, "RIGHT", right[u], or)
        BY <3>2, <4>1 DEF RingRight, ViewRight
      <4>4. /\ IF u = l THEN Tells(m, "RIGHT", t) ELSE Silent(m, "RIGHT")
            /\ IF u = r THEN Tells(m, "LEFT", t) ELSE Silent(m, "LEFT")
        BY <2>4, <4>1 DEF Greets
      <4>. HIDE DEF u, q, m, nl, nr, l, r, ol, or
      <4>. QED  BY <2>3, <4>2, <4>3, <4>4, ToldLast
    <3>. QED  BY <2>1, <3>1, <3>2
  <2>. QED  BY <1>0, <2>6, <2>7 DEF ViewRight
<1>. QED  BY <1>8, <1>9, <1>10 DEF RingRight

LEMMA RemoveParts ==
  \A cs \in Seq([id : Nat, addr : Tanks]) : \A n \in 1 .. Len(cs) :
    /\ Len(cs) \in Nat /\ Len(RemoveAt(cs, n)) = Len(cs) - 1
    /\ \A i \in 1 .. Len(cs) - 1 : RemoveAt(cs, n)[i] = IF i < n THEN cs[i] ELSE cs[i + 1]
<1>. DEFINE E == [id : Nat, addr : Tanks]
<1>. HIDE DEF E
<1>. SUFFICES ASSUME NEW cs \in Seq(E), NEW n \in 1 .. Len(cs)
              PROVE  /\ Len(cs) \in Nat /\ Len(RemoveAt(cs, n)) = Len(cs) - 1
                     /\ \A i \in 1 .. Len(cs) - 1 : RemoveAt(cs, n)[i] = IF i < n THEN cs[i] ELSE cs[i + 1]
  BY DEF E
<1>. DEFINE a == SubSeq(cs, 1, n - 1)
            b == SubSeq(cs, n + 1, Len(cs))
<1>0. Len(cs) \in Nat /\ \A i \in 1 .. Len(cs) : cs[i] \in E
  BY LenProperties, ElementOfSeq
<1>1. a \in Seq(E) /\ Len(a) = n - 1 /\ \A i \in 1 .. n - 1 : a[i] = cs[i]
  BY <1>0, SubSeqProperties
<1>2. b \in Seq(E) /\ Len(b) = Len(cs) - n /\ \A i \in 1 .. Len(cs) - n : b[i] = cs[n + i]
  BY <1>0, SubSeqProperties
<1>3. RemoveAt(cs, n) = a \o b
  BY DEF RemoveAt
<1>. HIDE DEF a, b
<1>4. /\ Len(a \o b) = Len(a) + Len(b)
      /\ \A i \in 1 .. Len(a) + Len(b) : (a \o b)[i] = IF i <= Len(a) THEN a[i] ELSE b[i - Len(a)]
  BY <1>1, <1>2, ConcatProperties
<1>5. ASSUME NEW i \in 1 .. Len(cs) - 1 PROVE (a \o b)[i] = IF i < n THEN cs[i] ELSE cs[i + 1]
  <2>1. CASE i < n
    BY <1>0, <1>1, <1>2, <1>4, <2>1
  <2>2. CASE i >= n
    <3>1. i - (n - 1) \in 1 .. Len(cs) - n /\ n + (i - (n - 1)) = i + 1
      BY <1>0, <2>2
    <3>2. (a \o b)[i] = b[i - (n - 1)] /\ b[i - (n - 1)] = cs[n + (i - (n - 1))]
      BY <1>0, <1>1, <1>2, <1>4, <2>2, <3>1
    <3>. QED  BY <2>2, <3>1, <3>2
  <2>3. i < n \/ i >= n
    BY <1>0
  <2>. QED  BY <2>1, <2>2, <2>3
<1>6. Len(a \o b) = Len(cs) - 1
  BY <1>0, <1>1, <1>2, <1>4
<1>. QED  BY <1>0, <1>3, <1>5, <1>6

\* The broker takes position n off the list and tells the tank before it.
Leaves(t, n, msgs) ==
  /\ Worker(t, "deregister", msgs) /\ n \in 1 .. Size
  /\ clients[n].id = Head(net[<<t, Broker>>]).id /\ clients' = RemoveAt(clients, n)
  /\ LET l == LeftNeighbourOf(clients, n) IN \A u \in Tanks :
       /\ u = l => Tells(msgs[u], "LEFT", l) /\ Tells(msgs[u], "RIGHT", l)
       /\ \A i \in 1 .. Len(msgs[u]) : msgs[u][i].type # "response"

LEMMA DeregisterSteps ==
  \A t \in Tanks : TypeInv /\ DeregisterKnown(t) =>
    \E n \in 1 .. Size, msgs \in [Tanks -> Seq(Messages)] : Leaves(t, n, msgs)
<1>. SUFFICES ASSUME NEW t \in Tanks, TypeInv, DeregisterKnown(t)
              PROVE  \E n \in 1 .. Size, msgs \in [Tanks -> Seq(Messages)] : Leaves(t, n, msgs)
  OBVIOUS
<1>1. PICK n \in 1 .. Size :
        /\ IsIndexOf(n, Head(net[<<t, Broker>>]).id)
        /\ Answer(t, [a \in Tanks |->
             IF a = LeftNeighbourOf(clients, n)
             THEN <<NeighbourUpdate(LeftNeighbourOf(clients, n), "RIGHT"), NeighbourUpdate(LeftNeighbourOf(clients, n), "LEFT")>>
             ELSE << >>])
        /\ clients' = RemoveAt(clients, n)
  BY DEF DeregisterKnown
<1>. DEFINE l == LeftNeighbourOf(clients, n)
            m == <<NeighbourUpdate(l, "RIGHT"), NeighbourUpdate(l, "LEFT")>>
            msgs == [a \in Tanks |-> IF a = l THEN m ELSE << >>]
<1>2. clients \in Seq([id : Nat, addr : Tanks]) /\ n \in 1 .. Len(clients)
  BY DEF TypeInv, TypeOK, Size
<1>3. NeighbourUpdate(l, "RIGHT") \in Messages /\ NeighbourUpdate(l, "LEFT") \in Messages
  BY <1>2, NeighbourTypes, MessageTypes DEF Dirs
<1>4. Request(t, "deregister") /\ Answer(t, msgs) /\ UNCHANGED <<id, left, right, status>>
  BY <1>1 DEF DeregisterKnown
<1>5. clients[n].id = Head(net[<<t, Broker>>]).id /\ clients' = RemoveAt(clients, n)
  BY <1>1 DEF IsIndexOf
<1>. HIDE DEF l
<1>6. m \in Seq(Messages) /\ Len(m) = 2 /\ m[1] = NeighbourUpdate(l, "RIGHT") /\ m[2] = NeighbourUpdate(l, "LEFT")
  BY <1>3, ShortLists
<1>. HIDE DEF m
<1>7. Tells(m, "LEFT", l) /\ Tells(m, "RIGHT", l)
  <2>1. Updates(m[1], "RIGHT") /\ m[1].tank = l /\ Updates(m[2], "LEFT") /\ m[2].tank = l /\ ~Updates(m[2], "RIGHT")
    BY <1>6 DEF Updates, NeighbourUpdate
  <2>2. \A j \in 1 .. Len(m) : j = 1 \/ j = 2
    BY <1>6
  <2>3. 1 \in 1 .. Len(m) /\ 2 \in 1 .. Len(m)
    BY <1>6
  <2>. QED  BY <2>1, <2>2, <2>3 DEF Tells
<1>8. \A j \in 1 .. Len(m) : m[j].type # "response"
  <2>1. \A j \in 1 .. Len(m) : j = 1 \/ j = 2
    BY <1>6
  <2>. QED  BY <1>6, <2>1 DEF NeighbourUpdate
<1>9. msgs \in [Tanks -> Seq(Messages)]
  BY <1>6, ShortLists
<1>10. \A u \in Tanks : msgs[u] = IF u = l THEN m ELSE << >>
  OBVIOUS
<1>11. Len(<< >>) = 0
  OBVIOUS
<1>. HIDE DEF msgs
<1>12. \A u \in Tanks : /\ u = l => Tells(msgs[u], "LEFT", l) /\ Tells(msgs[u], "RIGHT", l)
                        /\ \A i \in 1 .. Len(msgs[u]) : msgs[u][i].type # "response"
  BY <1>7, <1>8, <1>10, <1>11
<1>13. Leaves(t, n, msgs)
  BY <1>4, <1>5, <1>9, <1>12 DEF Leaves, Worker, l
<1>. QED  BY <1>9, <1>13

LEMMA LeaveKeeps ==
  \A t \in Tanks : \A n, msgs : TypeInv /\ ListInv /\ Leaves(t, n, msgs) =>
    ListInv' /\ (Undisturbed /\ RingRight => RingRight')
<1>. SUFFICES ASSUME NEW t \in Tanks, NEW n, NEW msgs, TypeInv, ListInv, Leaves(t, n, msgs)
              PROVE  ListInv' /\ (Undisturbed /\ RingRight => RingRight')
  OBVIOUS
<1>0. /\ Worker(t, "deregister", msgs) /\ UNCHANGED <<left, right, status, id>> /\ Request(t, "deregister")
      /\ n \in 1 .. Size /\ clients[n].id = Head(net[<<t, Broker>>]).id /\ clients' = RemoveAt(clients, n)
  BY DEF Leaves, Worker
<1>1. clients \in Seq([id : Nat, addr : Tanks]) /\ net[<<t, Broker>>] \in Seq(Messages)
  BY Addressing DEF TypeInv, TypeOK
<1>2. /\ Size \in Nat /\ Size' = Size - 1 /\ Len(clients') = Size - 1
      /\ \A i \in 1 .. Size - 1 : clients'[i] = IF i < n THEN clients[i] ELSE clients[i + 1]
  BY <1>0, <1>1, RemoveParts DEF Size
<1>3. \A i \in 1 .. Size : clients[i].addr \in Tanks /\ clients[i].id \in Nat
  <2>1. \A i \in 1 .. Size : clients[i] \in [id : Nat, addr : Tanks]
    BY <1>1, ElementOfSeq DEF Size
  <2>. QED  BY <2>1
<1>4. \A i, k \in 1 .. Size : status[clients[i].addr] # "new" /\ (clients[i].addr = clients[k].addr => i = k)
  BY DEF ListInv, ListRight
<1>5. RequestsRight' /\ OnlyBrokerTells' /\ status[t] # "new"
  BY <1>0, AnswerRequests
\* Where the entries of the shorter list were.
<1>6. \A i \in 1 .. Size - 1 : LET k == IF i < n THEN i ELSE i + 1 IN
        k \in 1 .. Size /\ k # n /\ clients'[i] = clients[k]
  BY <1>0, <1>2
<1>7. ListRight'
  <2>1. ASSUME NEW i \in 1 .. Size - 1 PROVE status[clients'[i].addr] # "new"
    BY <1>4, <1>6
  <2>2. ASSUME NEW i \in 1 .. Size - 1, NEW j \in 1 .. Size - 1, clients'[i].addr = clients'[j].addr PROVE i = j
    <3>. DEFINE k == IF i < n THEN i ELSE i + 1
                h == IF j < n THEN j ELSE j + 1
    <3>1. k \in 1 .. Size /\ clients'[i] = clients[k] /\ h \in 1 .. Size /\ clients'[j] = clients[h]
      BY <1>6
    <3>2. k = h
      <4>. HIDE DEF k, h
      <4>. QED  BY <1>4, <2>2, <3>1
    <3>. QED  BY <1>0, <1>2, <3>2
  <2>. QED  BY <1>0, <1>2, <2>1, <2>2 DEF ListRight
<1>8. ListInv'
  BY <1>5, <1>7 DEF ListInv
<1>. SUFFICES ASSUME Undisturbed, RingRight PROVE RingRight'
  BY <1>8
<1>9. /\ net[<<t, Broker>>] # << >> /\ net'[<<t, Broker>>] = Tail(net[<<t, Broker>>])
      /\ \A u \in Tanks : Told(u, msgs[u])
  BY <1>0, AnswerChannels
<1>10. /\ status[t] = "gone" /\ net'[<<t, Broker>>] = << >>
       /\ Entry(clients, t, clients[n].id)
  <2>. DEFINE q == net[<<t, Broker>>]
  <2>1. /\ Head(q) = q[1] /\ 1 \in 1 .. Len(q) /\ Len(Tail(q)) = Len(q) - 1 /\ Tail(q) \in Seq(Messages)
    BY <1>1, <1>9, QueueParts
  <2>2. q[1].type = "deregister" /\ q[1].id = clients[n].id
    BY <1>0, <2>1 DEF Request
  <2>3. 1 = Len(q) /\ status[t] = "gone"
    BY <2>1, <2>2 DEF ListInv, RequestsRight
  <2>4. Tail(q) = << >>
    <3>. DEFINE c == Tail(q)
    <3>1. c \in Seq(Messages) /\ Len(c) = 0
      BY <2>1, <2>3
    <3>. HIDE DEF c
    <3>. QED  BY <3>1, EmptySeq DEF c
  <2>5. q[1].id # None
    BY <1>0, <1>3, <2>2, Addressing
  <2>6. Entry(clients, t, q[1].id)
    BY <2>1, <2>2, <2>5 DEF RingRight, IdKnown
  <2>. QED  BY <1>9, <2>2, <2>3, <2>4, <2>6
<1>11. PICK k \in 1 .. Size : clients[k].addr = t /\ clients[k].id = clients[n].id
  BY <1>10 DEF Entry, Size
<1>12. PICK a, b \in Tanks : \A u \in Tanks : status[u] # "new" => u \in {a, b}
  BY <1>10 DEF Undisturbed
<1>13. clients[n].addr = t
  <2>1. CASE \A i \in 1 .. Size : clients[i].id = i - 1
    BY <1>0, <1>2, <1>11, <2>1
  <2>2. CASE \E x \in Tanks : Departed(x)
    <3>1. PICK x \in Tanks : Departed(x)
      BY <2>2
    <3>2. x # t /\ status[x] = "gone" /\ ~Registered(x)
      BY <1>9, <3>1 DEF Departed
    <3>3. clients[n].addr # x /\ clients[n].addr \in Tanks /\ status[clients[n].addr] # "new"
      BY <1>0, <1>3, <1>4, <3>2 DEF Registered
    <3>. QED  BY <1>5, <1>12, <3>2, <3>3
  <2>. QED  BY <2>1, <2>2 DEF RingRight, IdsFresh
<1>14. IdsFresh'
  <2>1. \A i \in 1 .. Size - 1 : clients'[i].addr # t
    BY <1>0, <1>4, <1>6, <1>13
  <2>. QED  BY <1>0, <1>2, <1>10, <2>1 DEF IdsFresh, Departed, Registered
<1>15. \A u \in Tanks : IdKnown(u)'
  <2>1. \A u \in Tanks : IdKnown(u)
    BY DEF RingRight
  <2>2. ASSUME NEW u \in Tanks, NEW i, Entry(clients, u, i), u # t PROVE Entry(clients', u, i)
    <3>1. PICK h \in 1 .. Size : clients[h].addr = u /\ clients[h].id = i
      BY <2>2 DEF Entry, Size
    <3>2. h # n
      BY <1>13, <2>2, <3>1
    <3>. DEFINE j == IF h < n THEN h ELSE h - 1
    <3>3. j \in 1 .. Size - 1 /\ clients'[j] = clients[h]
      <4>1. CASE h < n
        BY <1>0, <1>2, <4>1
      <4>2. CASE h > n
        <5>1. h - 1 \in 1 .. Size - 1 /\ ~(h - 1 < n) /\ (h - 1) + 1 = h /\ j = h - 1
          BY <1>0, <1>2, <4>2
        <5>. QED  BY <1>2, <5>1
      <4>3. h < n \/ h > n
        BY <1>0, <1>2, <3>2
      <4>. QED  BY <4>1, <4>2, <4>3
    <3>4. j \in 1 .. Len(clients')
      BY <1>2, <3>3
    <3>. HIDE DEF j
    <3>. QED  BY <3>1, <3>3, <3>4 DEF Entry
  <2>3. \A u \in Tanks : \A i \in 1 .. Len(msgs[u]) : msgs[u][i].type # "response"
    BY DEF Leaves
  <2>. QED  BY <1>0, <2>1, <2>2, <2>3, WorkerIds
\* Two have started, so one is left.
<1>16. ASSUME NEW j \in 1 .. Size' PROVE ViewRight(j)'
  <2>1. \A h \in 1 .. Size : h # n => clients[h].addr # t /\ clients[h].addr \in {a, b}
    BY <1>0, <1>3, <1>4, <1>12, <1>13
  <2>2. t \in {a, b}
    BY <1>5, <1>12
  <2>3. \A h, i \in 1 .. Size : h # n /\ i # n => h = i
    BY <1>4, <2>1, <2>2
  <2>4. Size = 2 /\ j = 1
    <3>1. Size <= 2
      <4>. SUFFICES ASSUME Size > 2 PROVE FALSE
        BY <1>2
      <4>1. 1 \in 1 .. Size /\ 2 \in 1 .. Size /\ 3 \in 1 .. Size
        BY <1>2
      <4>. QED  BY <2>3, <4>1
    <3>. QED  BY <1>2, <3>1
  <2>. DEFINE u == clients'[j].addr
              l == LeftNeighbourOf(clients, n)
  <2>5. n = 1 \/ n = 2
    BY <1>0, <2>4
  <2>6. clients'[1] = clients[3 - n] /\ 3 - n \in 1 .. Size /\ 1 \in 1 .. Size
    BY <1>2, <2>4, <2>5
  <2>7. l = clients[3 - n].addr
    BY <2>4, <2>5 DEF LeftNeighbourOf, Size
  <2>8. u = l /\ u \in Tanks
    BY <1>3, <2>4, <2>6, <2>7
  <2>9. LeftNeighbourOf(clients', j) = l
    BY <2>4, <2>8, <1>2 DEF LeftNeighbourOf
  <2>10. RightNeighbourOf(clients', j) = l
    <3>1. (j % Len(clients')) + 1 = 1
      BY <1>2, <2>4
    <3>. QED  BY <2>4, <2>8, <3>1 DEF RightNeighbourOf
  <2>11. Tells(msgs[u], "LEFT", l) /\ Tells(msgs[u], "RIGHT", l)
    BY <2>8 DEF Leaves
  <2>12. Told(u, msgs[u])
    BY <1>9, <2>8
  <2>13. net'[<<Broker, u>>] = net[<<Broker, u>>] \o msgs[u]
    BY <2>12 DEF Told
  <2>14. net[<<Broker, u>>] \in Seq(Messages) /\ msgs[u] \in Seq(Messages)
    BY <1>0, <2>8, Addressing DEF TypeInv, TypeOK, Worker
  <2>15. /\ WillKnow(net[<<Broker, u>>] \o msgs[u], "LEFT", left[u], l)
         /\ WillKnow(net[<<Broker, u>>] \o msgs[u], "RIGHT", right[u], l)
    <3>. HIDE DEF u, l
    <3>. QED  BY <2>11, <2>14, ToldLast
  <2>. QED  BY <1>0, <2>9, <2>10, <2>13, <2>15 DEF ViewRight
<1>. QED  BY <1>14, <1>15, <1>16 DEF RingRight

-----------------------------------------------------------------------------
LEMMA InitRing == Init => RingInv
<1>. SUFFICES ASSUME Init PROVE RingInv
  OBVIOUS
<1>1. TypeInv
  BY InitTypes
<1>2. Size = 0 /\ (\A n \in 1 .. Size : FALSE) /\ \A p \in Pairs : net[p] = << >> /\ \A i \in 1 .. Len(net[p]) : FALSE
  BY DEF Init, Size
<1>3. \A t \in Tanks : net[<<t, Broker>>] = << >> /\ net[<<Broker, t>>] = << >> /\ id[t] = None
  BY <1>2, Addressing DEF Init
<1>4. \A i \in 1 .. Len(<< >>) : FALSE
  OBVIOUS
<1>5. ListInv
  BY <1>2, <1>3, <1>4 DEF ListInv, ListRight, RequestsRight, OnlyBrokerTells
<1>6. RingRight
  BY <1>2, <1>3, <1>4 DEF RingRight, IdsFresh, IdKnown
<1>. QED  BY <1>1, <1>5, <1>6 DEF RingInv

\* A ring is disturbed for good.
LEMMA NextRing == RingInv /\ [Next]_vars => RingInv'
<1>. SUFFICES ASSUME RingInv, [Next]_vars PROVE ListInv' /\ (Undisturbed' => RingRight')
  BY NextTypes DEF RingInv
<1>0. TypeInv /\ ListInv /\ (Undisturbed => RingRight)
  BY DEF RingInv
<1>1. status' = status => (Undisturbed' <=> Undisturbed)
  BY DEF Undisturbed
<1>2. ASSUME Quiet PROVE ListInv' /\ (Undisturbed' => RingRight')
  BY <1>0, <1>1, <1>2, QuietList, QuietReads, ReadingKeeps DEF Reading
<1>3. CASE UNCHANGED vars
  BY <1>2, <1>3 DEF vars, ringVars, Quiet
<1>4. ASSUME NEW t \in Tanks, Reregister(t) \/ RegisterNew(t) \/ DeregisterKnown(t) \/ DeregisterUnknown(t)
      PROVE  ListInv' /\ (Undisturbed' => RingRight')
  <2>0. status' = status
    BY <1>4 DEF Reregister, RegisterNew, DeregisterKnown, DeregisterUnknown
  <2>1. CASE Reregister(t) \/ DeregisterUnknown(t)
    BY <1>0, <1>1, <2>0, <2>1, SmallRequests
  <2>2. CASE RegisterNew(t)
    BY <1>0, <1>1, <2>0, <2>2, RegisterNewSteps, AdmitKeeps
  <2>3. CASE DeregisterKnown(t)
    BY <1>0, <1>1, <2>0, <2>3, DeregisterSteps, LeaveKeeps
  <2>. QED  BY <1>4, <2>1, <2>2, <2>3
<1>5. ASSUME NEW t \in Tanks, Start(t) \/ RenewLease(t) \/ Finish(t)
      PROVE  ListInv' /\ (Undisturbed' => RingRight')
  <2>1. PICK m \in Messages, new \in {"running", "gone"} : Asks(t, m, new)
    BY <1>0, <1>5, AskSteps
  <2>2. ListInv' /\ (RingRight => RingRight')
    BY <1>0, <2>1, AskList, AskKeeps
  <2>3. Undisturbed' => Undisturbed
    <3>1. status'[t] = new /\ (\A u \in Tanks : u # t => status'[u] = status[u]) /\ status[t] # "gone" /\ new # "new"
      BY <1>0, <2>1, AskChannels DEF Asks
    <3>2. \A u \in Tanks : (status[u] = "gone" => status'[u] = "gone") /\ (status[u] # "new" => status'[u] # "new")
      BY <3>1
    <3>3. (\A u \in Tanks : status'[u] # "gone") => \A u \in Tanks : status[u] # "gone"
      BY <3>2
    <3>4. (\E a, b \in Tanks : \A u \in Tanks : status'[u] # "new" => u \in {a, b}) =>
            \E a, b \in Tanks : \A u \in Tanks : status[u] # "new" => u \in {a, b}
      BY <3>2
    <3>. QED  BY <3>3, <3>4 DEF Undisturbed
  <2>. QED  BY <1>0, <2>2, <2>3
<1>6. ASSUME NEW t \in Tanks, NEW s \in Addresses, ReceiveFrom(s, t)
      PROVE  ListInv' /\ (Undisturbed' => RingRight')
  <2>1. CASE ReceiveNeighbour(s, t) \/ OnRegistration(s, t)
    <3>1. Reading /\ ListInv'
      BY <1>0, <2>1, TankReads
    <3>. QED  BY <1>0, <1>1, <3>1, ReadingKeeps DEF Reading
  <2>2. CASE ReceiveFish(s, t) \/ ReceiveToken(s, t) \/ ReceiveTokenFails(s, t)
    BY <1>0, <1>2, <2>2, QuietSteps
  <2>. QED  BY <1>6, <2>1, <2>2 DEF ReceiveFrom
<1>7. ASSUME NEW t \in Tanks, TimerStep(t) \/ UpdateStep(t) PROVE ListInv' /\ (Undisturbed' => RingRight')
  BY <1>0, <1>2, <1>7, QuietSteps
<1>8. ASSUME NEW t \in Tanks, NEW f \in Fish, NEW x \in 0 .. Width - 1, NEW d \in Dirs, NewFish(t, f, x, d)
      PROVE  ListInv' /\ (Undisturbed' => RingRight')
  BY <1>0, <1>2, <1>8, QuietSteps
<1>. QED  BY <1>3, <1>4, <1>5, <1>6, <1>7, <1>8 DEF Next, BrokerStep

LEMMA RingRightConsistent == RingInv /\ Undisturbed => RingConsistent
<1>. SUFFICES ASSUME RingInv, Undisturbed, Settled, NEW n \in 1 .. Size
              PROVE  /\ left[clients[n].addr] = LeftNeighbourOf(clients, n)
                     /\ right[clients[n].addr] = RightNeighbourOf(clients, n)
  BY DEF RingConsistent
<1>. DEFINE t == clients[n].addr
            q == net[<<Broker, t>>]
<1>1. clients[n] \in [id : Nat, addr : Tanks]
  BY ElementOfSeq DEF RingInv, TypeInv, TypeOK, Size
<1>2. <<Broker, t>> \in Pairs
  BY <1>1, Addressing
<1>3. \A i \in 1 .. Len(q) : q[i].type # "neighbour"
  BY <1>2 DEF Settled
<1>4. ~Tells(q, "LEFT", LeftNeighbourOf(clients, n)) /\ ~Tells(q, "RIGHT", RightNeighbourOf(clients, n))
  <2>. HIDE DEF q
  <2>. QED  BY <1>3 DEF Tells, Updates
<1>5. /\ WillKnow(q, "LEFT", left[t], LeftNeighbourOf(clients, n))
      /\ WillKnow(q, "RIGHT", right[t], RightNeighbourOf(clients, n))
  BY DEF RingInv, RingRight, ViewRight
<1>. QED  BY <1>4, <1>5 DEF WillKnow

(* As long as no tank has left, or no more than two have started: once the   *)
(* broker has handled all requests and all NeighbourUpdates are read, every  *)
(* tank has the neighbours of the broker's list, however registrations,      *)
(* renewals and updates overlapped.                                          *)
THEOREM UndisturbedRingConsistent == Safe => [](Undisturbed => RingConsistent)
<1>1. RingInv => (Undisturbed => RingConsistent)
  BY RingRightConsistent
<1>. QED  BY <1>1, InitRing, NextRing, PTL DEF Safe

(* RingConsistent holds in rings of any size that nobody leaves, and in      *)
(* rings of at most two tanks whoever leaves.                                *)
THEOREM RingConsistentHolds ==
  Leavers = {} \/ (\E a, b \in Tanks : Tanks = {a, b}) => (Safe => []RingConsistent)
<1>. SUFFICES ASSUME Leavers = {} \/ (\E a, b \in Tanks : Tanks = {a, b}) PROVE Safe => []RingConsistent
  OBVIOUS
<1>. DEFINE Stays == \A t \in Tanks : status[t] # "gone"
<1>1. Leavers = {} => (Safe => []Stays)
  <2>. SUFFICES ASSUME Leavers = {} PROVE Safe => []Stays
    OBVIOUS
  <2>1. Init => TypeInv /\ Stays
    BY InitTypes DEF Init
  <2>2. TypeInv /\ Stays /\ [Next]_vars => (TypeInv /\ Stays)'
    <3>. SUFFICES ASSUME TypeInv, Stays, [Next]_vars PROVE Stays'
      BY NextTypes
    <3>1. CASE status' = status
      BY <3>1
    <3>2. CASE \E t \in Tanks : Start(t)
      BY <3>2 DEF Start, TypeInv, TypeOK
    <3>3. CASE \E t \in Tanks : RenewLease(t) \/ Finish(t)
      BY <3>1, <3>3 DEF RenewLease, Finish
    <3>4. CASE BrokerStep \/ UNCHANGED vars
      BY <3>1, <3>4 DEF BrokerStep, Reregister, RegisterNew, DeregisterKnown, DeregisterUnknown, vars
    <3>5. ASSUME NEW t \in Tanks, NEW s \in Addresses, ReceiveFrom(s, t) PROVE Stays'
      BY <3>1, <3>5 DEF ReceiveFrom, ReceiveNeighbour, OnRegistration, ReceiveFish, ReceiveToken, ReceiveTokenFails
    <3>6. CASE Quiet
      BY <3>1, <3>6 DEF Quiet
    <3>. QED  BY <3>2, <3>3, <3>4, <3>5, <3>6, QuietSteps DEF Next
  <2>. HIDE DEF Stays
  <2>. QED  BY <2>1, <2>2, PTL DEF Safe
<1>2. (\E a, b \in Tanks : Tanks = {a, b}) => Undisturbed
  BY DEF Undisturbed
<1>3. Stays => Undisturbed
  BY DEF Undisturbed
<1>4. CASE Leavers = {}
  <2>. HIDE DEF Stays
  <2>1. Safe => []Stays
    BY <1>1, <1>4
  <2>. QED  BY <1>3, <2>1, UndisturbedRingConsistent, PTL
<1>5. CASE \E a, b \in Tanks : Tanks = {a, b}
  <2>1. Undisturbed
    BY <1>2, <1>5
  <2>. QED  BY <2>1, UndisturbedRingConsistent, PTL
<1>. QED  BY <1>4, <1>5

-----------------------------------------------------------------------------
(* Tokens and fish are conserved.  Both travel in messages: what is said   *)
(* here of the channels is said of their cargo, a token or a fish.         *)


\* What a message carries, None for the messages about the ring.
Load(m) == IF m.type = "token" THEN m.token ELSE IF m.type = "handoff" THEN m.fish ELSE None
Cargo == Tokens \cup Fish

\* Each load is in a channel once, and the cargo that is in channels.
Once(n) ==
  \A p, q \in Pairs : \A i \in 1 .. Len(n[p]), j \in 1 .. Len(n[q]) :
    Load(n[p][i]) # None /\ Load(n[p][i]) = Load(n[q][j]) => p = q /\ i = j
Carried(n) == {x \in Cargo : \E p \in Pairs : \E i \in 1 .. Len(n[p]) : Load(n[p][i]) = x}

\* The messages of the program and their loads.
LEMMA Loads ==
  /\ Load(Register) = None
  /\ \A i : Load(Deregister(i)) = None
  /\ \A t, d : Load(NeighbourUpdate(t, d)) = None
  /\ \A i : Load(RegisterResponse(i)) = None
  /\ \A k : Load(Token(k)) = k
  /\ \A f, d : Load(HandoffRequest(f, d)) = f
BY DEF Load, Register, Deregister, NeighbourUpdate, RegisterResponse, Token, HandoffRequest

\* A load says what the message is.
LEMMA LoadTypes ==
  /\ None \notin Cargo /\ Tokens \cap Fish = {}
  /\ \A m \in Messages :
       /\ Load(m) \in Cargo \cup {None}
       /\ \A k \in Tokens : Load(m) = k <=> m = Token(k)
       /\ \A f \in Fish : Load(m) = f <=> m \in {HandoffRequest(f, d) : d \in Dirs}
<1>1. None \notin Cargo /\ Tokens \cap Fish = {} /\ None \notin Tokens /\ None \notin Fish
  BY RingAssumption DEF Cargo, Tokens
<1>. SUFFICES ASSUME NEW m \in Messages
     PROVE /\ Load(m) \in Cargo \cup {None}
           /\ \A k \in Tokens : Load(m) = k <=> m = Token(k)
           /\ \A f \in Fish : Load(m) = f <=> m \in {HandoffRequest(f, d) : d \in Dirs}
  BY <1>1
<1>2. CASE m \in [type : {"token"}, token : Tokens]
  <2>1. m = Token(m.token) /\ m.token \in Tokens /\ Load(m) = m.token
    BY <1>2 DEF Token, Load
  <2>2. \A f \in Fish, d \in Dirs : m # HandoffRequest(f, d)
    BY <1>1, <2>1, Loads
  <2>. QED  BY <1>1, <2>1, <2>2, Loads DEF Cargo
<1>3. CASE m \in [type : {"handoff"}, fish : Fish, dir : Dirs]
  <2>1. m = HandoffRequest(m.fish, m.dir) /\ m.fish \in Fish /\ m.dir \in Dirs /\ Load(m) = m.fish
    BY <1>3 DEF HandoffRequest, Load
  <2>2. \A k \in Tokens : m # Token(k)
    BY <1>1, <2>1, Loads
  <2>3. \A f \in Fish : Load(m) = f <=> m \in {HandoffRequest(f, d) : d \in Dirs}
    BY <2>1, Loads
  <2>. QED  BY <1>1, <2>1, <2>2, <2>3, Loads DEF Cargo
<1>4. CASE m.type \notin {"token", "handoff"}
  <2>1. Load(m) = None
    BY <1>4 DEF Load
  <2>. QED  BY <1>1, <2>1, Loads
<1>. QED  BY <1>2, <1>3, <1>4 DEF Messages

-----------------------------------------------------------------------------
(* What sending, receiving and answering do to the cargo in the channels.    *)

\* Channel q loses g[q] messages at its head: only y gets lost,
Loses(n, new, g, y) ==
  \A q \in Pairs : \A i \in 1 .. Len(n[q]) :
    \/ i - g[q] \in 1 .. Len(new[q]) /\ Load(new[q][i - g[q]]) = Load(n[q][i])
    \/ Load(n[q][i]) = y
\* and only x is new, in place e of channel p.
Gains(n, new, g, x, p, e) ==
  \A q \in Pairs : \A i \in 1 .. Len(new[q]) :
    \/ i + g[q] \in 1 .. Len(n[q]) /\ Load(new[q][i]) = Load(n[q][i + g[q]])
    \/ q = p /\ i = e /\ Load(new[q][i]) = x
    \/ Load(new[q][i]) = None
Arrives(new, x, p, e) == x # None => p \in Pairs /\ e \in 1 .. Len(new[p]) /\ Load(new[p][e]) = x
Departs(n, g, y, h) == y # None => h \in Pairs /\ g[h] = 1 /\ 1 \in 1 .. Len(n[h]) /\ Load(n[h][1]) = y

Moves(n, new, g, x, y, p, e, h) ==
  /\ n \in [Pairs -> Seq(Messages)] /\ new \in [Pairs -> Seq(Messages)]
  /\ g \in [Pairs -> {0, 1}] /\ x \notin Carried(n)
  /\ Loses(n, new, g, y) /\ Gains(n, new, g, x, p, e)
  /\ Arrives(new, x, p, e) /\ Departs(n, g, y, h)

LEMMA CargoMoves ==
  \A n, new, g, x, y, p, e, h : Once(n) /\ Moves(n, new, g, x, y, p, e, h) =>
    Once(new) /\ Carried(new) = (Carried(n) \ {y}) \cup ({x} \cap Cargo)
<1>. SUFFICES ASSUME NEW n, NEW new, NEW g, NEW x, NEW y, NEW p, NEW e, NEW h,
                     Once(n), Moves(n, new, g, x, y, p, e, h)
              PROVE  Once(new) /\ Carried(new) = (Carried(n) \ {y}) \cup ({x} \cap Cargo)
  OBVIOUS
<1>0. /\ n \in [Pairs -> Seq(Messages)] /\ new \in [Pairs -> Seq(Messages)]
      /\ g \in [Pairs -> {0, 1}] /\ x \notin Carried(n)
      /\ Loses(n, new, g, y) /\ Gains(n, new, g, x, p, e)
      /\ Arrives(new, x, p, e) /\ Departs(n, g, y, h)
  BY DEF Moves
<1>. USE <1>0
<1>1. \A q \in Pairs : \A i \in 1 .. Len(n[q]) : Load(n[q][i]) # None => Load(n[q][i]) \in Carried(n)
  <2>. SUFFICES ASSUME NEW q \in Pairs, NEW i \in 1 .. Len(n[q]), Load(n[q][i]) # None
                PROVE  Load(n[q][i]) \in Carried(n)
    OBVIOUS
  <2>1. n[q][i] \in Messages
    BY ElementOfSeq
  <2>. QED  BY <2>1, LoadTypes DEF Carried
<1>2. Once(new)
  <2>. SUFFICES \A q, r \in Pairs : \A i \in 1 .. Len(new[q]), j \in 1 .. Len(new[r]) :
                  Load(new[q][i]) # None /\ Load(new[q][i]) = Load(new[r][j]) => q = r /\ i = j
    BY DEF Once
  <2>. SUFFICES ASSUME NEW q \in Pairs, NEW r \in Pairs, NEW i \in 1 .. Len(new[q]), NEW j \in 1 .. Len(new[r]),
                       Load(new[q][i]) # None, Load(new[q][i]) = Load(new[r][j])
                PROVE  q = r /\ i = j
    OBVIOUS
  <2>. DEFINE old(s, k) == k + g[s] \in 1 .. Len(n[s]) /\ Load(new[s][k]) = Load(n[s][k + g[s]])
              fresh(s, k) == s = p /\ k = e /\ Load(new[s][k]) = x
  <2>1. (old(q, i) \/ fresh(q, i)) /\ (old(r, j) \/ fresh(r, j))
    BY DEF Gains
  <2>2. CASE old(q, i) /\ old(r, j)
    <3>1. q = r /\ i + g[q] = j + g[r]
      BY <2>2 DEF Once
    <3>2. g[q] \in {0, 1}
      OBVIOUS
    <3>. QED  BY <3>1, <3>2
  <2>3. CASE fresh(q, i) /\ fresh(r, j)
    BY <2>3
  <2>4. ~(fresh(q, i) /\ old(r, j))
    <3>. SUFFICES ASSUME fresh(q, i), old(r, j) PROVE FALSE
      OBVIOUS
    <3>1. Load(n[r][j + g[r]]) = x /\ x # None
      OBVIOUS
    <3>. QED  BY <1>1, <3>1
  <2>5. ~(old(q, i) /\ fresh(r, j))
    <3>. SUFFICES ASSUME old(q, i), fresh(r, j) PROVE FALSE
      OBVIOUS
    <3>1. Load(n[q][i + g[q]]) = x /\ x # None
      OBVIOUS
    <3>. QED  BY <1>1, <3>1
  <2>. QED  BY <2>1, <2>2, <2>3, <2>4, <2>5
<1>3. ASSUME NEW z \in Carried(new) PROVE z \in (Carried(n) \ {y}) \cup ({x} \cap Cargo)
  <2>1. z \in Cargo /\ z # None
    BY LoadTypes DEF Carried
  <2>2. PICK q \in Pairs : \E i \in 1 .. Len(new[q]) : Load(new[q][i]) = z
    BY DEF Carried
  <2>3. PICK i \in 1 .. Len(new[q]) : Load(new[q][i]) = z
    BY <2>2
  <2>4. CASE i + g[q] \in 1 .. Len(n[q]) /\ z = Load(n[q][i + g[q]])
    <3>1. z \in Carried(n)
      BY <1>1, <2>1, <2>4
    <3>2. z # y
      <4>. SUFFICES ASSUME z = y PROVE FALSE
        OBVIOUS
      <4>1. q = h /\ i + g[q] = 1 /\ g[h] = 1
        BY <2>1, <2>4 DEF Once, Departs
      <4>. QED  BY <4>1
    <3>. QED  BY <3>1, <3>2
  <2>. QED  BY <2>1, <2>3, <2>4 DEF Gains
<1>4. ASSUME NEW z \in Carried(n) \ {y} PROVE z \in Carried(new)
  <2>1. PICK q \in Pairs : \E i \in 1 .. Len(n[q]) : Load(n[q][i]) = z
    BY DEF Carried
  <2>2. PICK i \in 1 .. Len(n[q]) : Load(n[q][i]) = z
    BY <2>1
  <2>3. i - g[q] \in 1 .. Len(new[q]) /\ Load(new[q][i - g[q]]) = z
    BY <2>2 DEF Loses
  <2>. QED  BY <2>3 DEF Carried
<1>5. x \in Cargo => x \in Carried(new)
  BY LoadTypes DEF Carried, Arrives
<1>. QED  BY <1>2, <1>3, <1>4, <1>5

\* A load that was in no channel is sent.
Sends(n, new, p, m) ==
  /\ p \in Pairs /\ m \in Messages /\ Load(m) \notin Carried(n)
  /\ n \in [Pairs -> Seq(Messages)] /\ new \in [Pairs -> Seq(Messages)]
  /\ new[p] = Append(n[p], m) /\ \A q \in Pairs \ {p} : new[q] = n[q]

LEMMA SendCargo ==
  \A n, new, p, m : Once(n) /\ Sends(n, new, p, m) =>
    Once(new) /\ Carried(new) = Carried(n) \cup ({Load(m)} \cap Cargo)
<1>. SUFFICES ASSUME NEW n, NEW new, NEW p, NEW m, Once(n), Sends(n, new, p, m)
              PROVE  Once(new) /\ Carried(new) = Carried(n) \cup ({Load(m)} \cap Cargo)
  OBVIOUS
<1>0. /\ p \in Pairs /\ m \in Messages /\ Load(m) \notin Carried(n)
      /\ n \in [Pairs -> Seq(Messages)] /\ new \in [Pairs -> Seq(Messages)]
      /\ new[p] = Append(n[p], m) /\ \A q \in Pairs \ {p} : new[q] = n[q]
  BY DEF Sends
<1>. USE <1>0
<1>. DEFINE e == Len(n[p]) + 1
            g == [q \in Pairs |-> 0]
<1>1. n[p] \in Seq(Messages) /\ \A q \in Pairs : Len(n[q]) \in Nat
  BY LenProperties
<1>2. /\ Append(n[p], m) \in Seq(Messages) /\ Len(Append(n[p], m)) = e /\ Append(n[p], m)[e] = m
      /\ \A i \in 1 .. Len(n[p]) : Append(n[p], m)[i] = n[p][i]
  BY <1>1, AppendProperties
<1>3. new[p] = Append(n[p], m) /\ (\A q \in Pairs \ {p} : new[q] = n[q]) /\ new \in [Pairs -> Seq(Messages)]
  BY <1>2
<1>4. Loses(n, new, g, None)
  <2>. SUFFICES ASSUME NEW q \in Pairs, NEW i \in 1 .. Len(n[q])
                PROVE  i - g[q] \in 1 .. Len(new[q]) /\ Load(new[q][i - g[q]]) = Load(n[q][i])
    BY DEF Loses
  <2>1. i - g[q] = i
    OBVIOUS
  <2>2. CASE q = p
    BY <1>1, <1>2, <1>3, <2>1, <2>2
  <2>3. CASE q # p
    BY <1>3, <2>1, <2>3
  <2>. QED  BY <2>2, <2>3
<1>5. Gains(n, new, g, Load(m), p, e)
  BY <1>1, <1>2, <1>3, SMTT(30) DEF Gains
<1>6. Arrives(new, Load(m), p, e) /\ Departs(n, g, None, p)
  BY <1>1, <1>2, <1>3 DEF Arrives, Departs
<1>7. g \in [Pairs -> {0, 1}] /\ Load(m) \in Cargo \cup {None} /\ None \notin Cargo
  BY LoadTypes
<1>8. None \notin Carried(n)
  BY <1>7 DEF Carried
<1>. HIDE DEF e, g
<1>9. Moves(n, new, g, Load(m), None, p, e, p)
  BY <1>3, <1>4, <1>5, <1>6, <1>7 DEF Moves
<1>10. Once(new) /\ Carried(new) = (Carried(n) \ {None}) \cup ({Load(m)} \cap Cargo)
  BY <1>9, CargoMoves
<1>. QED  BY <1>8, <1>10

\* The head of a channel is received.
Takes(n, new, p) ==
  /\ p \in Pairs /\ n[p] # << >>
  /\ n \in [Pairs -> Seq(Messages)] /\ new \in [Pairs -> Seq(Messages)]
  /\ new[p] = Tail(n[p]) /\ \A q \in Pairs \ {p} : new[q] = n[q]

LEMMA TakeCargo ==
  \A n, new, p : Once(n) /\ Takes(n, new, p) =>
    /\ Once(new) /\ Carried(new) = Carried(n) \ {Load(Head(n[p]))}
    /\ Load(Head(n[p])) \in Cargo => Load(Head(n[p])) \in Carried(n)
<1>. SUFFICES ASSUME NEW n, NEW new, NEW p, Once(n), Takes(n, new, p)
              PROVE  /\ Once(new) /\ Carried(new) = Carried(n) \ {Load(Head(n[p]))}
                     /\ Load(Head(n[p])) \in Cargo => Load(Head(n[p])) \in Carried(n)
  OBVIOUS
<1>0. /\ p \in Pairs /\ n[p] # << >>
      /\ n \in [Pairs -> Seq(Messages)] /\ new \in [Pairs -> Seq(Messages)]
      /\ new[p] = Tail(n[p]) /\ \A q \in Pairs \ {p} : new[q] = n[q]
  BY DEF Takes
<1>. USE <1>0
<1>. DEFINE y == Load(Head(n[p]))
            g == [q \in Pairs |-> IF q = p THEN 1 ELSE 0]
<1>1. n[p] \in Seq(Messages) /\ \A q \in Pairs : Len(n[q]) \in Nat
  BY LenProperties
<1>2. /\ Tail(n[p]) \in Seq(Messages) /\ Len(n[p]) >= 1 /\ Len(Tail(n[p])) = Len(n[p]) - 1
      /\ \A i \in 1 .. Len(Tail(n[p])) : Tail(n[p])[i] = n[p][i + 1]
      /\ Head(n[p]) = n[p][1] /\ Head(n[p]) \in Messages
  BY <1>1, HeadTailProperties, EmptySeq, LenProperties
<1>3. new[p] = Tail(n[p]) /\ (\A q \in Pairs \ {p} : new[q] = n[q]) /\ new \in [Pairs -> Seq(Messages)]
  BY <1>2
<1>4. Loses(n, new, g, y)
  <2>. SUFFICES ASSUME NEW q \in Pairs, NEW i \in 1 .. Len(n[q])
                PROVE  \/ i - g[q] \in 1 .. Len(new[q]) /\ Load(new[q][i - g[q]]) = Load(n[q][i])
                       \/ Load(n[q][i]) = y
    BY DEF Loses
  <2>1. CASE q # p
    BY <1>1, <1>3, <2>1
  <2>2. CASE q = p /\ i = 1
    BY <1>2, <2>2
  <2>3. CASE q = p /\ i # 1
    <3>1. i - 1 \in 1 .. Len(Tail(n[p])) /\ (i - 1) + 1 = i
      BY <1>1, <1>2, <2>3
    <3>2. Tail(n[p])[i - 1] = n[p][i]
      BY <1>2, <3>1
    <3>. QED  BY <1>3, <2>3, <3>1, <3>2
  <2>. QED  BY <2>1, <2>2, <2>3
<1>5. Gains(n, new, g, None, p, 1)
  <2>. SUFFICES ASSUME NEW q \in Pairs, NEW i \in 1 .. Len(new[q])
                PROVE  i + g[q] \in 1 .. Len(n[q]) /\ Load(new[q][i]) = Load(n[q][i + g[q]])
    BY DEF Gains
  <2>1. CASE q = p
    BY <1>1, <1>2, <1>3, <2>1
  <2>2. CASE q # p
    BY <1>1, <1>3, <2>2
  <2>. QED  BY <2>1, <2>2
<1>6. g[p] = 1 /\ 1 \in 1 .. Len(n[p]) /\ Load(n[p][1]) = y
  BY <1>1, <1>2
<1>11. Departs(n, g, y, p) /\ Arrives(new, None, p, 1)
  BY <1>6 DEF Departs, Arrives
<1>7. g \in [Pairs -> {0, 1}] /\ y \in Cargo \cup {None} /\ None \notin Cargo
  BY <1>2, LoadTypes
<1>8. None \notin Carried(n)
  BY <1>7 DEF Carried
<1>9. y \in Cargo => y \in Carried(n)
  BY <1>6 DEF Carried
<1>. HIDE DEF y, g
<1>12. Moves(n, new, g, None, y, p, 1, p)
  BY <1>3, <1>4, <1>5, <1>7, <1>8, <1>11 DEF Moves
<1>13. Once(new) /\ Carried(new) = (Carried(n) \ {y}) \cup ({None} \cap Cargo)
  BY <1>12, CargoMoves
<1>. QED  BY <1>7, <1>9, <1>13 DEF y

\* Of the answers only number k to u may carry something, x.
CarryOnly(msgs, x, u, k) ==
  /\ \A r \in Tanks : \A i \in 1 .. Len(msgs[r]) :
       Load(msgs[r][i]) = None \/ (r = u /\ i = k /\ Load(msgs[r][i]) = x)
  /\ x # None => u \in Tanks /\ k \in 1 .. Len(msgs[u]) /\ Load(msgs[u][k]) = x

\* The broker takes a request, which carries nothing, and sends x at most.
LEMMA AnswerCargo ==
  ASSUME net \in [Pairs -> Seq(Messages)], NEW t \in Tanks, net[<<t, Broker>>] # << >>,
         Load(Head(net[<<t, Broker>>])) = None,
         NEW msgs \in [Tanks -> Seq(Messages)], Answer(t, msgs),
         NEW x, NEW u, NEW k, Once(net), x \notin Carried(net), CarryOnly(msgs, x, u, k)
  PROVE  Once(net') /\ Carried(net') = Carried(net) \cup ({x} \cap Cargo)
<1>. DEFINE new == net'
            b == <<t, Broker>>
            p == <<Broker, u>>
            e == Len(net[p]) + k
            g == [q \in Pairs |-> IF q = b THEN 1 ELSE 0]
<1>1. \A q \in Pairs : net[q] \in Seq(Messages) /\ Len(net[q]) \in Nat
  BY LenProperties
<1>2. b \in Pairs /\ Broker \notin Tanks /\ \A r \in Tanks : <<Broker, r>> \in Pairs /\ <<Broker, r>> # b
  BY RingAssumption DEF Pairs, Addresses
<1>3. new \in [Pairs -> Seq(Messages)]
  BY AnswerTypes
<1>4. /\ Len(net[b]) >= 1 /\ Len(Tail(net[b])) = Len(net[b]) - 1
      /\ \A i \in 1 .. Len(Tail(net[b])) : Tail(net[b])[i] = net[b][i + 1]
      /\ Head(net[b]) = net[b][1]
  BY <1>1, <1>2, HeadTailProperties, EmptySeq, LenProperties
<1>5. new[b] = Tail(net[b])
  BY <1>2 DEF Answer
<1>6. \A r \in Tanks : new[<<Broker, r>>] = net[<<Broker, r>>] \o msgs[r]
  BY <1>2 DEF Answer
<1>7. \A q \in Pairs : q = b \/ (\E r \in Tanks : q = <<Broker, r>>) \/ new[q] = net[q]
  <2>. SUFFICES ASSUME NEW q \in Pairs, q # b, \A r \in Tanks : q # <<Broker, r>> PROVE new[q] = net[q]
    OBVIOUS
  <2>1. ~(q[1] = Broker /\ q[2] # Broker)
    BY DEF Pairs, Addresses
  <2>. QED  BY <2>1 DEF Answer
<1>8. ASSUME NEW r \in Tanks
      PROVE  /\ Len(new[<<Broker, r>>]) = Len(net[<<Broker, r>>]) + Len(msgs[r]) /\ Len(msgs[r]) \in Nat
             /\ \A i \in 1 .. Len(net[<<Broker, r>>]) : new[<<Broker, r>>][i] = net[<<Broker, r>>][i]
             /\ \A i \in 1 .. Len(msgs[r]) : new[<<Broker, r>>][Len(net[<<Broker, r>>]) + i] = msgs[r][i]
  <2>. DEFINE q == <<Broker, r>>
  <2>1. net[q] \in Seq(Messages) /\ msgs[r] \in Seq(Messages) /\ new[q] = net[q] \o msgs[r]
    BY <1>1, <1>2, <1>6
  <2>. HIDE DEF q, new
  <2>. QED  BY <2>1, ConcatProperties, LenProperties DEF q
<1>. HIDE DEF new
<1>9. Loses(net, new, g, None)
  <2>. SUFFICES ASSUME NEW q \in Pairs, NEW i \in 1 .. Len(net[q])
                PROVE  \/ i - g[q] \in 1 .. Len(new[q]) /\ Load(new[q][i - g[q]]) = Load(net[q][i])
                       \/ Load(net[q][i]) = None
    BY DEF Loses
  <2>1. CASE q = b /\ i = 1
    BY <1>4, <2>1
  <2>2. CASE q = b /\ i # 1
    <3>. HIDE DEF b
    <3>1. Len(net[b]) \in Nat /\ i - 1 \in 1 .. Len(Tail(net[b])) /\ (i - 1) + 1 = i
      BY <1>1, <1>2, <1>4, <2>2
    <3>2. Tail(net[b])[i - 1] = net[b][i]
      BY <1>4, <3>1
    <3>. QED  BY <1>5, <2>2, <3>1, <3>2
  <2>3. CASE \E r \in Tanks : q = <<Broker, r>>
    <3>1. PICK r \in Tanks : q = <<Broker, r>>
      BY <2>3
    <3>2. i \in 1 .. Len(new[q]) /\ new[q][i] = net[q][i]
      BY <1>1, <1>8, <3>1
    <3>3. i - g[q] = i
      BY <1>2, <3>1
    <3>. QED  BY <3>2, <3>3
  <2>4. CASE q # b /\ new[q] = net[q]
    BY <2>4
  <2>. QED  BY <1>7, <2>1, <2>2, <2>3, <2>4
<1>10. Gains(net, new, g, x, p, e)
  <2>. SUFFICES ASSUME NEW q \in Pairs, NEW i \in 1 .. Len(new[q])
                PROVE  \/ i + g[q] \in 1 .. Len(net[q]) /\ Load(new[q][i]) = Load(net[q][i + g[q]])
                       \/ q = p /\ i = e /\ Load(new[q][i]) = x
                       \/ Load(new[q][i]) = None
    BY DEF Gains
  <2>1. CASE q = b
    <3>1. i + g[q] = i + 1
      BY <2>1
    <3>. HIDE DEF b, g
    <3>2. i \in 1 .. Len(Tail(net[b])) /\ i + 1 \in 1 .. Len(net[b])
      BY <1>1, <1>2, <1>4, <1>5, <2>1
    <3>3. new[q][i] = net[q][i + 1]
      BY <1>4, <1>5, <2>1, <3>2
    <3>. QED  BY <2>1, <3>1, <3>2, <3>3
  <2>2. CASE \E r \in Tanks : q = <<Broker, r>>
    <3>1. PICK r \in Tanks : q = <<Broker, r>>
      BY <2>2
    <3>2. i + g[q] = i
      BY <1>2, <3>1
    <3>3. CASE i \in 1 .. Len(net[q])
      BY <1>8, <3>1, <3>2, <3>3
    <3>4. CASE i \notin 1 .. Len(net[q])
      <4>. DEFINE j == i - Len(net[q])
      <4>1. j \in 1 .. Len(msgs[r]) /\ i = Len(net[q]) + j
        BY <1>1, <1>8, <3>1, <3>4
      <4>2. new[q][i] = msgs[r][j]
        BY <1>8, <3>1, <4>1, SMTT(30)
      <4>. HIDE DEF j
      <4>3. Load(new[q][i]) = None \/ (r = u /\ j = k /\ Load(new[q][i]) = x)
        BY <4>1, <4>2 DEF CarryOnly
      <4>. QED  BY <3>1, <4>1, <4>3
    <3>. QED  BY <3>3, <3>4
  <2>3. CASE q # b /\ new[q] = net[q]
    BY <2>3
  <2>. QED  BY <1>7, <2>1, <2>2, <2>3
<1>11. Arrives(new, x, p, e) /\ Departs(net, g, None, p)
  <2>. SUFFICES ASSUME x # None PROVE p \in Pairs /\ e \in 1 .. Len(new[p]) /\ Load(new[p][e]) = x
    BY DEF Arrives, Departs
  <2>1. u \in Tanks /\ k \in 1 .. Len(msgs[u]) /\ Load(msgs[u][k]) = x
    BY DEF CarryOnly
  <2>. QED  BY <1>1, <1>2, <1>8, <2>1
<1>12. g \in [Pairs -> {0, 1}] /\ None \notin Carried(net)
  BY LoadTypes DEF Carried
<1>. HIDE DEF g, p, e
<1>13. Moves(net, new, g, x, None, p, e, p)
  BY <1>3, <1>9, <1>10, <1>11, <1>12 DEF Moves
<1>14. Once(new) /\ Carried(new) = (Carried(net) \ {None}) \cup ({x} \cap Cargo)
  BY <1>13, CargoMoves
<1>. QED  BY <1>12, <1>14 DEF new

-----------------------------------------------------------------------------
(* The inductive invariants                                                  *)

\* Tokens in the queues of the timers, each of them once, and in running tasks.
Waiting(q) == {k \in Tokens : \E t \in Tanks : \E i \in 1 .. Len(q[t]) : q[t][i] = k}
WaitOnce(q) ==
  \A t, u \in Tanks : \A i \in 1 .. Len(q[t]), j \in 1 .. Len(q[u]) : q[t][i] = q[u][j] => t = u /\ i = j
Given == {k \in Tokens : \E t \in Tanks : giving[t] = k}

(* A token is in one place only: a channel, the queue of a timer or the      *)
(* running task of a timer;                                                  *)
TokensOnce ==
  /\ WaitOnce(timer)
  /\ \A t, u \in Tanks : giving[t] # None /\ giving[t] = giving[u] => t = u
  /\ Waiting(timer) \cap Given = {}
  /\ (Waiting(timer) \cup Given) \cap Carried(net) = {}
(* and the tokens that the broker has sent are the ones in such a place and, *)
(* apart from these, the ones an exception swallowed.                        *)
TokensKept ==
  /\ dropped \cap (Waiting(timer) \cup Given \cup (Carried(net) \cap Tokens)) = {}
  /\ (dropped \cap Tokens) \cup Waiting(timer) \cup Given \cup (Carried(net) \cap Tokens) = 1 .. issued

(* The fish that swim in a tank and are not about to disappear from it.      *)
Swims(fs) == {f \in Fish : \E t \in Tanks : \E o \in fs[t] : o.fish = f /\ ~Leaving(o)}
SwimOnce(fs) ==
  \A t, u \in Tanks : \A o \in fs[t], v \in fs[u] :
    ~Leaving(o) /\ ~Leaving(v) /\ o.fish = v.fish => t = u /\ o = v

(* Such a fish is in one tank and on one place in it, and in no channel;     *)
FishOnce ==
  /\ SwimOnce(fishies)
  /\ Swims(fishies) \cap Carried(net) = {}
(* none is invented, and none gets lost.                                     *)
FishKept ==
  /\ Swims(fishies) \cup (Carried(net) \cap Fish) \subseteq created
  /\ created \ (dropped \cup stray) \subseteq Swims(fishies) \cup Carried(net)

TokenInv == TokensOnce /\ TokensKept
FishInv == FishOnce /\ FishKept
CargoInv == TypeInv /\ Once(net) /\ TokenInv /\ FishInv

-----------------------------------------------------------------------------
(* The queues of the timers.                                                 *)

\* A token that waits nowhere joins the queue of tank t.
Joins(q, new, t, k) ==
  /\ q \in [Tanks -> Seq(Tokens)] /\ new \in [Tanks -> Seq(Tokens)]
  /\ t \in Tanks /\ k \in Tokens \ Waiting(q)
  /\ new[t] = Append(q[t], k) /\ \A u \in Tanks \ {t} : new[u] = q[u]

LEMMA WaitAppend ==
  \A q, new, t, k : WaitOnce(q) /\ Joins(q, new, t, k) => WaitOnce(new) /\ Waiting(new) = Waiting(q) \cup {k}
<1>. SUFFICES ASSUME NEW q, NEW new, NEW t, NEW k, WaitOnce(q), Joins(q, new, t, k)
              PROVE  WaitOnce(new) /\ Waiting(new) = Waiting(q) \cup {k}
  OBVIOUS
<1>0. /\ q \in [Tanks -> Seq(Tokens)] /\ new \in [Tanks -> Seq(Tokens)]
      /\ t \in Tanks /\ k \in Tokens \ Waiting(q)
      /\ new[t] = Append(q[t], k) /\ \A u \in Tanks \ {t} : new[u] = q[u]
  BY DEF Joins
<1>. USE <1>0
<1>. DEFINE e == Len(q[t]) + 1
<1>1. \A u \in Tanks : q[u] \in Seq(Tokens) /\ Len(q[u]) \in Nat /\ \A i \in 1 .. Len(q[u]) : q[u][i] \in Tokens
  BY ElementOfSeq, LenProperties
<1>2. Len(new[t]) = e /\ new[t][e] = k /\ \A i \in 1 .. Len(q[t]) : new[t][i] = q[t][i]
  BY <1>1, AppendProperties
<1>3. \A u \in Tanks : \A i \in 1 .. Len(new[u]) : (i \in 1 .. Len(q[u]) /\ new[u][i] = q[u][i]) \/ (u = t /\ i = e /\ new[u][i] = k)
  <2>. SUFFICES ASSUME NEW u \in Tanks, NEW i \in 1 .. Len(new[u])
                PROVE  (i \in 1 .. Len(q[u]) /\ new[u][i] = q[u][i]) \/ (u = t /\ i = e /\ new[u][i] = k)
    OBVIOUS
  <2>1. CASE u = t
    BY <1>1, <1>2, <2>1
  <2>2. CASE u # t
    BY <2>2
  <2>. QED  BY <2>1, <2>2
<1>4. \A u \in Tanks : \A i \in 1 .. Len(q[u]) : q[u][i] # k /\ i \in 1 .. Len(new[u]) /\ new[u][i] = q[u][i]
  <2>. SUFFICES ASSUME NEW u \in Tanks, NEW i \in 1 .. Len(q[u])
                PROVE  q[u][i] # k /\ i \in 1 .. Len(new[u]) /\ new[u][i] = q[u][i]
    OBVIOUS
  <2>1. q[u][i] # k
    BY DEF Waiting
  <2>2. CASE u = t
    BY <1>1, <1>2, <2>1, <2>2
  <2>3. CASE u # t
    BY <2>1, <2>3
  <2>. QED  BY <2>2, <2>3
<1>5. e \in 1 .. Len(new[t])
  BY <1>1, <1>2
<1>. HIDE DEF e
<1>6. WaitOnce(new)
  <2>. SUFFICES \A u, v \in Tanks : \A i \in 1 .. Len(new[u]), j \in 1 .. Len(new[v]) :
                  new[u][i] = new[v][j] => u = v /\ i = j
    BY DEF WaitOnce
  <2>. SUFFICES ASSUME NEW u \in Tanks, NEW v \in Tanks, NEW i \in 1 .. Len(new[u]), NEW j \in 1 .. Len(new[v]),
                       new[u][i] = new[v][j]
                PROVE  u = v /\ i = j
    OBVIOUS
  <2>1. CASE i \in 1 .. Len(q[u]) /\ new[u][i] = q[u][i] /\ j \in 1 .. Len(q[v]) /\ new[v][j] = q[v][j]
    <3>1. q[u][i] = q[v][j] /\ i \in 1 .. Len(q[u]) /\ j \in 1 .. Len(q[v])
      BY <2>1
    <3>. QED  BY <3>1 DEF WaitOnce
  <2>. QED  BY <1>3, <1>4, <2>1
<1>7. Waiting(new) \subseteq Waiting(q) \cup {k}
  BY <1>3 DEF Waiting
<1>8. Waiting(q) \subseteq Waiting(new)
  BY <1>4 DEF Waiting
<1>9. k \in Waiting(new)
  BY <1>2, <1>5 DEF Waiting
<1>. QED  BY <1>6, <1>7, <1>8, <1>9

LEMMA WaitTail ==
  ASSUME NEW q \in [Tanks -> Seq(Tokens)], NEW t \in Tanks, q[t] # << >>, WaitOnce(q),
         NEW new \in [Tanks -> Seq(Tokens)], new[t] = Tail(q[t]), \A u \in Tanks \ {t} : new[u] = q[u]
  PROVE  /\ WaitOnce(new) /\ Waiting(new) = Waiting(q) \ {Head(q[t])}
         /\ Head(q[t]) \in Waiting(q)
<1>. DEFINE g == [u \in Tanks |-> IF u = t THEN 1 ELSE 0]
            y == Head(q[t])
<1>1. \A u \in Tanks : q[u] \in Seq(Tokens) /\ Len(q[u]) \in Nat /\ \A i \in 1 .. Len(q[u]) : q[u][i] \in Tokens
  BY ElementOfSeq, LenProperties
<1>2. /\ Len(q[t]) >= 1 /\ Len(Tail(q[t])) = Len(q[t]) - 1
      /\ \A i \in 1 .. Len(Tail(q[t])) : Tail(q[t])[i] = q[t][i + 1]
      /\ y = q[t][1]
  BY <1>1, HeadTailProperties, EmptySeq, LenProperties
<1>3. \A u \in Tanks : \A i \in 1 .. Len(new[u]) : i + g[u] \in 1 .. Len(q[u]) /\ new[u][i] = q[u][i + g[u]]
  <2>. SUFFICES ASSUME NEW u \in Tanks, NEW i \in 1 .. Len(new[u])
                PROVE  i + g[u] \in 1 .. Len(q[u]) /\ new[u][i] = q[u][i + g[u]]
    OBVIOUS
  <2>1. CASE u = t
    <3>1. i \in 1 .. Len(Tail(q[t])) /\ g[u] = 1
      BY <2>1
    <3>. HIDE DEF g, y
    <3>2. i + 1 \in 1 .. Len(q[t]) /\ Tail(q[t])[i] = q[t][i + 1]
      BY <1>1, <1>2, <3>1
    <3>. QED  BY <2>1, <3>1, <3>2
  <2>2. CASE u # t
    BY <1>1, <2>2
  <2>. QED  BY <2>1, <2>2
<1>4. \A u \in Tanks : \A i \in 1 .. Len(q[u]) :
        (i - g[u] \in 1 .. Len(new[u]) /\ new[u][i - g[u]] = q[u][i]) \/ (u = t /\ i = 1 /\ q[u][i] = y)
  <2>. SUFFICES ASSUME NEW u \in Tanks, NEW i \in 1 .. Len(q[u])
                PROVE  (i - g[u] \in 1 .. Len(new[u]) /\ new[u][i - g[u]] = q[u][i]) \/ (u = t /\ i = 1 /\ q[u][i] = y)
    OBVIOUS
  <2>1. CASE u = t /\ i = 1
    BY <1>2, <2>1
  <2>2. CASE u = t /\ i # 1
    <3>1. i - 1 \in 1 .. Len(Tail(q[t])) /\ (i - 1) + 1 = i
      BY <1>1, <1>2, <2>2
    <3>2. Tail(q[t])[i - 1] = q[t][i]
      BY <1>2, <3>1
    <3>. QED  BY <2>2, <3>1, <3>2
  <2>3. CASE u # t
    BY <1>1, <2>3
  <2>. QED  BY <2>1, <2>2, <2>3
<1>5. 1 \in 1 .. Len(q[t]) /\ g[t] = 1 /\ \A u \in Tanks : g[u] \in {0, 1}
  BY <1>1, <1>2
<1>. HIDE DEF g, y
<1>6. WaitOnce(new)
  <2>. SUFFICES \A u, v \in Tanks : \A i \in 1 .. Len(new[u]), j \in 1 .. Len(new[v]) :
                  new[u][i] = new[v][j] => u = v /\ i = j
    BY DEF WaitOnce
  <2>. SUFFICES ASSUME NEW u \in Tanks, NEW v \in Tanks, NEW i \in 1 .. Len(new[u]), NEW j \in 1 .. Len(new[v]),
                       new[u][i] = new[v][j]
                PROVE  u = v /\ i = j
    OBVIOUS
  <2>1. /\ i + g[u] \in 1 .. Len(q[u]) /\ j + g[v] \in 1 .. Len(q[v])
        /\ q[u][i + g[u]] = q[v][j + g[v]]
    BY <1>3
  <2>2. u = v /\ i + g[u] = j + g[v]
    BY <2>1 DEF WaitOnce
  <2>3. g[u] \in Int /\ i \in Int /\ j \in Int
    BY <1>5
  <2>. QED  BY <2>2, <2>3
<1>7. \A k \in Waiting(new) : k \in Waiting(q) /\ k # y
  <2>. SUFFICES ASSUME NEW k \in Waiting(new) PROVE k \in Waiting(q) /\ k # y
    OBVIOUS
  <2>1. PICK u \in Tanks : \E i \in 1 .. Len(new[u]) : new[u][i] = k
    BY DEF Waiting
  <2>2. PICK i \in 1 .. Len(new[u]) : new[u][i] = k
    BY <2>1
  <2>3. i + g[u] \in 1 .. Len(q[u]) /\ q[u][i + g[u]] = k
    BY <1>3, <2>2
  <2>4. k \in Waiting(q)
    BY <2>3 DEF Waiting
  <2>5. k # y
    <3>. SUFFICES ASSUME k = y PROVE FALSE
      OBVIOUS
    <3>1. u = t /\ i + g[u] = 1
      BY <1>2, <1>5, <2>3 DEF WaitOnce
    <3>. QED  BY <1>5, <3>1
  <2>. QED  BY <2>4, <2>5
<1>8. \A k \in Waiting(q) : k # y => k \in Waiting(new)
  <2>. SUFFICES ASSUME NEW k \in Waiting(q), k # y PROVE k \in Waiting(new)
    OBVIOUS
  <2>1. PICK u \in Tanks : \E i \in 1 .. Len(q[u]) : q[u][i] = k
    BY DEF Waiting
  <2>2. PICK i \in 1 .. Len(q[u]) : q[u][i] = k
    BY <2>1
  <2>3. i - g[u] \in 1 .. Len(new[u]) /\ new[u][i - g[u]] = k
    BY <1>4, <2>2
  <2>. QED  BY <2>3 DEF Waiting
<1>9. y \in Waiting(q)
  BY <1>1, <1>2, <1>5 DEF Waiting
<1>. QED  BY <1>6, <1>7, <1>8, <1>9 DEF y

-----------------------------------------------------------------------------
(* Sending and receiving, as the actions do it.                              *)

LEMMA SentCargo ==
  ASSUME net \in [Pairs -> Seq(Messages)], Once(net),
         NEW s \in Addresses, NEW r \in Addresses, NEW m \in Messages, SendTo(s, r, m), Load(m) \notin Carried(net)
  PROVE  Once(net') /\ Carried(net') = Carried(net) \cup ({Load(m)} \cap Cargo)
<1>. DEFINE p == <<s, r>>
<1>1. p \in Pairs
  BY DEF Pairs
<1>2. net' \in [Pairs -> Seq(Messages)]
  BY SendTypes
<1>3. net'[p] = Append(net[p], m) /\ \A q \in Pairs \ {p} : net'[q] = net[q]
  BY <1>1 DEF SendTo
<1>. HIDE DEF p
<1>4. Sends(net, net', p, m)
  BY <1>1, <1>2, <1>3 DEF Sends
<1>. QED  BY <1>4, SendCargo

LEMMA ReceivedCargo ==
  ASSUME net \in [Pairs -> Seq(Messages)], Once(net),
         NEW s \in Addresses, NEW t \in Tanks, NEW type, Receives(s, t, type), NEW y, y = Load(Head(net[<<s, t>>]))
  PROVE  Once(net') /\ Carried(net') = Carried(net) \ {y} /\ (y \in Cargo => y \in Carried(net))
<1>. DEFINE p == <<s, t>>
<1>1. p \in Pairs /\ net[p] # << >>
  BY DEF Pairs, Addresses, Receives
<1>2. net' \in [Pairs -> Seq(Messages)]
  BY ReceiveTypes
<1>3. net'[p] = Tail(net[p]) /\ \A q \in Pairs \ {p} : net'[q] = net[q]
  BY <1>1 DEF Receives
<1>4. y = Load(Head(net[p]))
  OBVIOUS
<1>. HIDE DEF p
<1>5. Takes(net, net', p)
  BY <1>1, <1>2, <1>3 DEF Takes
<1>. QED  BY <1>4, <1>5, TakeCargo

\* A message without cargo is sent or received.
LEMMA NoCargo == None \notin Cargo /\ \A n : None \notin Carried(n)
BY LoadTypes DEF Carried

\* Answers without cargo.
LEMMA AnswerNothing ==
  ASSUME net \in [Pairs -> Seq(Messages)], Once(net), NEW t \in Tanks, net[<<t, Broker>>] # << >>,
         Load(Head(net[<<t, Broker>>])) = None,
         NEW msgs \in [Tanks -> Seq(Messages)], Answer(t, msgs),
         \A r \in Tanks : \A i \in 1 .. Len(msgs[r]) : Load(msgs[r][i]) = None
  PROVE  Once(net') /\ Carried(net') = Carried(net)
<1>1. CarryOnly(msgs, None, t, 1)
  BY DEF CarryOnly
<1>2. Once(net') /\ Carried(net') = Carried(net) \cup ({None} \cap Cargo)
  BY <1>1, NoCargo, AnswerCargo
<1>. QED  BY <1>2, NoCargo

\* A step that leaves the tokens, or the fish, where they are.
LEMMA TokensCalm ==
  ASSUME TokenInv, UNCHANGED <<timer, giving, issued>>,
         dropped' \cap Tokens = dropped \cap Tokens, Carried(net') \cap Tokens = Carried(net) \cap Tokens
  PROVE  TokenInv'
<1>1. TokensOnce'
  BY DEF TokenInv, TokensOnce, Given, Waiting
<1>2. TokensKept'
  BY DEF TokenInv, TokensKept, Given, Waiting
<1>. QED  BY <1>1, <1>2 DEF TokenInv

LEMMA FishCalm ==
  ASSUME FishInv, created \subseteq Fish, UNCHANGED <<fishies, created, stray>>,
         dropped \subseteq dropped', Carried(net') \cap Fish = Carried(net) \cap Fish
  PROVE  FishInv'
<1>1. FishOnce'
  BY DEF FishInv, FishOnce, Swims, SwimOnce
<1>2. FishKept'
  <2>1. Swims(fishies') = Swims(fishies)
    OBVIOUS
  <2>2. Swims(fishies) \cup (Carried(net') \cap Fish) \subseteq created'
    BY DEF FishInv, FishKept
  <2>3. created' \ (dropped' \cup stray') \subseteq Swims(fishies) \cup Carried(net')
    BY DEF FishInv, FishKept
  <2>. QED  BY <2>1, <2>2, <2>3 DEF FishKept
<1>. QED  BY <1>1, <1>2 DEF FishInv

CargoRight == Once(net) /\ TokenInv /\ FishInv

LEMMA CargoCalm ==
  ASSUME CargoInv, UNCHANGED <<timer, giving, issued, fishies, created, stray, dropped>>,
         Once(net'), Carried(net') = Carried(net)
  PROVE  CargoRight'
BY TokensCalm, FishCalm DEF CargoInv, CargoRight, TypeInv, TypeOK

-----------------------------------------------------------------------------
(* One lemma per action.                                                     *)

LEMMA SendsNothing ==
  \A t \in Tanks : CargoInv /\ (Start(t) \/ RenewLease(t) \/ Finish(t)) => CargoRight'
<1>. SUFFICES ASSUME NEW t \in Tanks, CargoInv, Start(t) \/ RenewLease(t) \/ Finish(t) PROVE CargoRight'
  OBVIOUS
<1>1. PICK m \in Messages : SendTo(t, Broker, m) /\ Load(m) = None
  <2>1. id[t] \in Nat \cup {None}
    BY DEF CargoInv, TypeInv, TypeOK
  <2>. QED  BY <2>1, MessageTypes, Loads DEF Start, RenewLease, Finish
<1>2. Once(net') /\ Carried(net') = Carried(net) \cup ({None} \cap Cargo)
  <2>1. net \in [Pairs -> Seq(Messages)] /\ Once(net) /\ t \in Addresses /\ Broker \in Addresses
    BY DEF CargoInv, TypeInv, TypeOK, Addresses
  <2>2. Load(m) \notin Carried(net)
    BY <1>1, NoCargo
  <2>. QED  BY <1>1, <2>1, <2>2, SentCargo
<1>3. UNCHANGED <<timer, giving, issued, fishies, created, stray, dropped>>
  BY DEF Start, RenewLease, Finish, tokenVars, fishVars, history
<1>. QED  BY <1>2, <1>3, CargoCalm, NoCargo

\* A request carries nothing.
LEMMA RequestLoads ==
  ASSUME NEW t \in Tanks, NEW type \in {"register", "deregister"}, Request(t, type)
  PROVE  net[<<t, Broker>>] # << >> /\ Load(Head(net[<<t, Broker>>])) = None
BY DEF Request, Load

LEMMA ReregisterCargo == \A t \in Tanks : CargoInv /\ Reregister(t) => CargoRight'
<1>. SUFFICES ASSUME NEW t \in Tanks, CargoInv, Reregister(t) PROVE CargoRight'
  OBVIOUS
<1>. DEFINE m == RegisterResponse(clients[IndexOfAddr(t)].id)
            msgs == [r \in Tanks |-> IF r = t THEN <<m>> ELSE << >>]
<1>1. IndexOfAddr(t) \in 1 .. Len(clients)
  BY DEF Reregister, Registered, IndexOfAddr, Size
<1>2. clients[IndexOfAddr(t)] \in [id : Nat, addr : Tanks]
  BY <1>1, ElementOfSeq DEF CargoInv, TypeInv, TypeOK
<1>3. m \in Messages /\ Load(m) = None
  BY <1>2, MessageTypes, Loads
<1>4. msgs \in [Tanks -> Seq(Messages)]
  BY <1>3, ShortLists
<1>5. \A r \in Tanks : \A i \in 1 .. Len(msgs[r]) : Load(msgs[r][i]) = None
  BY <1>3
<1>6. Answer(t, msgs) /\ net[<<t, Broker>>] # << >> /\ Load(Head(net[<<t, Broker>>])) = None
  BY RequestLoads DEF Reregister
<1>. HIDE DEF msgs
<1>7. Once(net') /\ Carried(net') = Carried(net)
  BY <1>4, <1>5, <1>6, AnswerNothing DEF CargoInv, TypeInv, TypeOK
<1>8. UNCHANGED <<timer, giving, issued, fishies, created, stray, dropped>>
  BY DEF Reregister, tokenVars, fishVars, history
<1>. QED  BY <1>7, <1>8, CargoCalm

LEMMA DeregisterCargo ==
  \A t \in Tanks : CargoInv /\ (DeregisterKnown(t) \/ DeregisterUnknown(t)) => CargoRight'
<1>. SUFFICES ASSUME NEW t \in Tanks, CargoInv, DeregisterKnown(t) \/ DeregisterUnknown(t) PROVE CargoRight'
  OBVIOUS
<1>1. \E msgs \in [Tanks -> Seq(Messages)] :
        Answer(t, msgs) /\ \A r \in Tanks : \A i \in 1 .. Len(msgs[r]) : Load(msgs[r][i]) = None
  <2>1. CASE DeregisterKnown(t)
    <3>1. PICK n \in 1 .. Size :
            Answer(t, [a \in Tanks |->
              IF a = LeftNeighbourOf(clients, n)
              THEN <<NeighbourUpdate(LeftNeighbourOf(clients, n), "RIGHT"), NeighbourUpdate(LeftNeighbourOf(clients, n), "LEFT")>>
              ELSE << >>])
      BY <2>1 DEF DeregisterKnown
    <3>. DEFINE l == LeftNeighbourOf(clients, n)
                msgs == [a \in Tanks |->
                  IF a = l THEN <<NeighbourUpdate(l, "RIGHT"), NeighbourUpdate(l, "LEFT")>> ELSE << >>]
    <3>2. clients \in Seq([id : Nat, addr : Tanks]) /\ n \in 1 .. Len(clients)
      BY DEF CargoInv, TypeInv, TypeOK, Size
    <3>3. /\ NeighbourUpdate(l, "RIGHT") \in Messages /\ NeighbourUpdate(l, "LEFT") \in Messages
          /\ Load(NeighbourUpdate(l, "RIGHT")) = None /\ Load(NeighbourUpdate(l, "LEFT")) = None
      BY <3>2, NeighbourTypes, MessageTypes, Loads DEF Dirs
    <3>4. Answer(t, msgs)
      BY <3>1
    <3>. HIDE DEF l
    <3>5. msgs \in [Tanks -> Seq(Messages)]
      BY <3>3, ShortLists
    <3>6. \A r \in Tanks : \A i \in 1 .. Len(msgs[r]) : Load(msgs[r][i]) = None
      BY <3>3
    <3>. HIDE DEF msgs
    <3>. QED  BY <3>4, <3>5, <3>6
  <2>2. CASE DeregisterUnknown(t)
    <3>. DEFINE msgs == [a \in Tanks |-> << >>]
    <3>1. msgs \in [Tanks -> Seq(Messages)] /\ \A r \in Tanks : \A i \in 1 .. Len(msgs[r]) : Load(msgs[r][i]) = None
      BY EmptySeq
    <3>2. Answer(t, msgs)
      BY <2>2 DEF DeregisterUnknown
    <3>. HIDE DEF msgs
    <3>. QED  BY <3>1, <3>2
  <2>. QED  BY <2>1, <2>2
<1>2. net[<<t, Broker>>] # << >> /\ Load(Head(net[<<t, Broker>>])) = None
  BY RequestLoads DEF DeregisterKnown, DeregisterUnknown
<1>3. Once(net') /\ Carried(net') = Carried(net)
  BY <1>1, <1>2, AnswerNothing DEF CargoInv, TypeInv, TypeOK
<1>4. UNCHANGED <<timer, giving, issued, fishies, created, stray, dropped>>
  BY DEF DeregisterKnown, DeregisterUnknown, tokenVars, fishVars, history
<1>. QED  BY <1>3, <1>4, CargoCalm

LEMMA ReceiveNothing ==
  \A s \in Addresses, t \in Tanks : CargoInv /\ (ReceiveNeighbour(s, t) \/ OnRegistration(s, t)) => CargoRight'
<1>. SUFFICES ASSUME NEW s \in Addresses, NEW t \in Tanks, CargoInv,
                     ReceiveNeighbour(s, t) \/ OnRegistration(s, t)
              PROVE  CargoRight'
  OBVIOUS
<1>1. PICK type \in {"neighbour", "response"} : Receives(s, t, type)
  BY DEF ReceiveNeighbour, OnRegistration
<1>2. Load(Head(net[<<s, t>>])) = None
  BY <1>1 DEF Receives, Load
<1>3. Once(net') /\ Carried(net') = Carried(net)
  <2>1. net \in [Pairs -> Seq(Messages)] /\ Once(net)
    BY DEF CargoInv, TypeInv, TypeOK
  <2>2. Once(net') /\ Carried(net') = Carried(net) \ {None}
    BY <1>1, <1>2, <2>1, ReceivedCargo
  <2>. QED  BY <2>2, NoCargo
<1>4. UNCHANGED <<timer, giving, issued, fishies, created, stray, dropped>>
  BY DEF ReceiveNeighbour, OnRegistration, tokenVars, fishVars, history
<1>. QED  BY <1>3, <1>4, CargoCalm

\* The first registration of a tank sends the next token.
LEMMA RegisterNewCargo == \A t \in Tanks : CargoInv /\ RegisterNew(t) => CargoRight'
<1>. SUFFICES ASSUME NEW t \in Tanks, CargoInv, RegisterNew(t) PROVE CargoRight'
  OBVIOUS
<1>. DEFINE l == LeftNeighbourOf(clients', Size + 1)
            r == RightNeighbourOf(clients', Size + 1)
            k == issued + 1
            z == <<NeighbourUpdate(l, "LEFT"), NeighbourUpdate(r, "RIGHT"), RegisterResponse(Size), Token(k)>>
            x(a) == IF a = l THEN <<NeighbourUpdate(t, "RIGHT")>> ELSE << >>
            y(a) == IF a = r THEN <<NeighbourUpdate(t, "LEFT")>> ELSE << >>
            msgs == [a \in Tanks |-> x(a) \o y(a) \o (IF a = t THEN z ELSE << >>)]
            last == Len(x(t) \o y(t)) + 4
<1>1. Size \in Nat /\ [id |-> Size, addr |-> t] \in [id : Nat, addr : Tanks]
  BY LenProperties DEF CargoInv, TypeInv, TypeOK, Size
<1>2. /\ clients' \in Seq([id : Nat, addr : Tanks])
      /\ Size + 1 \in 1 .. Len(clients')
  BY <1>1, AppendProperties DEF CargoInv, TypeInv, TypeOK, RegisterNew, Size
<1>3. l \in Tanks /\ r \in Tanks
  BY <1>2, NeighbourTypes
<1>4. Answer(t, msgs)
  BY DEF RegisterNew
<1>5. k \in Tokens /\ "LEFT" \in Dirs /\ "RIGHT" \in Dirs /\ issued \in Nat
  BY DEF CargoInv, TypeInv, TypeOK, Tokens, Dirs
<1>. HIDE DEF l, r, k
<1>6. /\ NeighbourUpdate(t, "RIGHT") \in Messages /\ NeighbourUpdate(t, "LEFT") \in Messages
      /\ NeighbourUpdate(l, "LEFT") \in Messages /\ NeighbourUpdate(r, "RIGHT") \in Messages
      /\ RegisterResponse(Size) \in Messages /\ Token(k) \in Messages
  BY <1>1, <1>3, <1>5, MessageTypes
<1>7. /\ z \in Seq(Messages) /\ Len(z) = 4
      /\ Load(z[1]) = None /\ Load(z[2]) = None /\ Load(z[3]) = None /\ Load(z[4]) = k
  BY <1>6, Loads, ShortLists
<1>8. ASSUME NEW a \in Tanks
      PROVE  /\ x(a) \in Seq(Messages) /\ \A i \in 1 .. Len(x(a)) : Load(x(a)[i]) = None
             /\ y(a) \in Seq(Messages) /\ \A i \in 1 .. Len(y(a)) : Load(y(a)[i]) = None
  BY <1>6, Loads, ShortLists
<1>. HIDE DEF z, x, y
<1>9. ASSUME NEW a \in Tanks
      PROVE  /\ x(a) \o y(a) \in Seq(Messages) /\ Len(x(a) \o y(a)) \in Nat
             /\ \A i \in 1 .. Len(x(a) \o y(a)) : Load((x(a) \o y(a))[i]) = None
  <2>1. /\ x(a) \in Seq(Messages) /\ y(a) \in Seq(Messages)
        /\ x(a) \o y(a) \in Seq(Messages) /\ Len(x(a) \o y(a)) = Len(x(a)) + Len(y(a))
        /\ Len(x(a)) \in Nat /\ Len(y(a)) \in Nat
    BY <1>8, ConcatProperties, LenProperties
  <2>2. ASSUME NEW i \in 1 .. Len(x(a) \o y(a)) PROVE Load((x(a) \o y(a))[i]) = None
    <3>1. CASE i <= Len(x(a))
      BY <1>8, <2>1, <3>1, ConcatProperties
    <3>2. CASE i > Len(x(a))
      <4>1. i - Len(x(a)) \in 1 .. Len(y(a))
        BY <2>1, <3>2
      <4>2. (x(a) \o y(a))[i] = y(a)[i - Len(x(a))]
        BY <2>1, <3>2, ConcatProperties
      <4>. QED  BY <1>8, <4>1, <4>2
    <3>. QED  BY <2>1, <3>1, <3>2
  <2>. QED  BY <2>1, <2>2
<1>10. ASSUME NEW a \in Tanks PROVE msgs[a] \in Seq(Messages)
  BY <1>7, <1>9, ConcatProperties, EmptySeq
<1>11. msgs \in [Tanks -> Seq(Messages)]
  BY <1>10
<1>12. CarryOnly(msgs, k, t, last)
  <2>1. ASSUME NEW a \in Tanks, NEW i \in 1 .. Len(msgs[a])
        PROVE  Load(msgs[a][i]) = None \/ (a = t /\ i = last /\ Load(msgs[a][i]) = k)
    <3>. DEFINE w == x(a) \o y(a)
    <3>1. w \in Seq(Messages) /\ Len(w) \in Nat /\ \A j \in 1 .. Len(w) : Load(w[j]) = None
      BY <1>9
    <3>2. CASE a = t
      <4>1. msgs[a] = w \o z /\ last = Len(w) + 4
        BY <3>2
      <4>. HIDE DEF w, msgs, last
      <4>5. Len(w \o z) = Len(w) + Len(z)
        BY <1>7, <3>1, ConcatProperties
      <4>2. Len(msgs[a]) = Len(w) + 4
        BY <1>7, <4>1, <4>5
      <4>3. CASE i <= Len(w)
        <5>1. msgs[a][i] = w[i]
          BY <1>7, <3>1, <4>1, <4>2, <4>3, ConcatProperties
        <5>. QED  BY <3>1, <4>3, <5>1
      <4>4. CASE i > Len(w)
        <5>. DEFINE j == i - Len(w)
        <5>1. j \in {1, 2, 3, 4} /\ i = Len(w) + j
          BY <3>1, <4>2, <4>4
        <5>2. msgs[a][i] = z[j]
          BY <1>7, <3>1, <4>1, <4>2, <4>4, ConcatProperties
        <5>. HIDE DEF j
        <5>3. Load(z[j]) = None \/ (j = 4 /\ Load(z[j]) = k)
          BY <1>7, <5>1
        <5>. QED  BY <3>2, <4>1, <5>1, <5>2, <5>3
      <4>. QED  BY <3>1, <4>3, <4>4
    <3>3. CASE a # t
      <4>1. msgs[a] = w \o << >>
        BY <3>3
      <4>. HIDE DEF w, msgs
      <4>2. w \o << >> = w
        BY <3>1, ConcatEmptySeq
      <4>. QED  BY <3>1, <4>1, <4>2
    <3>. QED  BY <3>2, <3>3
  <2>2. last \in 1 .. Len(msgs[t]) /\ Load(msgs[t][last]) = k
    <3>. DEFINE w == x(t) \o y(t)
    <3>1. w \in Seq(Messages) /\ Len(w) \in Nat /\ msgs[t] = w \o z /\ last = Len(w) + 4
      BY <1>9
    <3>. HIDE DEF w, msgs, last
    <3>4. Len(w \o z) = Len(w) + Len(z)
      BY <1>7, <3>1, ConcatProperties
    <3>5. /\ Len(w) + 4 \in 1 .. Len(w) + Len(z) /\ Len(w) + 4 > Len(w)
          /\ (Len(w) + 4) - Len(w) = 4
      BY <1>7, <3>1
    <3>7. \A i \in 1 .. Len(w) + Len(z) : i > Len(w) => (w \o z)[i] = z[i - Len(w)]
      BY <1>7, <3>1, ConcatProperties, SMTT(30)
    <3>6. (w \o z)[Len(w) + 4] = z[(Len(w) + 4) - Len(w)]
      BY <3>5, <3>7, Zenon
    <3>2. Len(w \o z) = Len(w) + 4 /\ (w \o z)[Len(w) + 4] = z[4]
      BY <1>7, <3>4, <3>5, <3>6
    <3>. QED  BY <1>7, <3>1, <3>2
  <2>. QED  BY <2>1, <2>2 DEF CarryOnly
<1>. HIDE DEF msgs, last
<1>13. net[<<t, Broker>>] # << >> /\ Load(Head(net[<<t, Broker>>])) = None
  BY RequestLoads DEF RegisterNew
<1>14. /\ k \notin Carried(net) /\ k \notin Waiting(timer) /\ k \notin Given /\ k \notin dropped
       /\ k \in Cargo /\ k \notin Fish
  <2>1. k \notin 1 .. issued
    BY <1>5 DEF k
  <2>. QED  BY <1>5, <2>1, LoadTypes DEF CargoInv, TokenInv, TokensKept, Cargo
<1>15. Once(net') /\ Carried(net') = Carried(net) \cup {k}
  <2>1. Once(net') /\ Carried(net') = Carried(net) \cup ({k} \cap Cargo)
    BY <1>4, <1>11, <1>12, <1>13, <1>14, AnswerCargo DEF CargoInv, TypeInv, TypeOK
  <2>. QED  BY <1>14, <2>1
<1>16. UNCHANGED <<timer, giving, dropped, fishies, created, stray>> /\ issued' = issued + 1
  BY DEF RegisterNew, tokenVars, fishVars
<1>17. 1 .. issued' = 1 .. issued \cup {k}
  BY <1>5, <1>16 DEF k
<1>18. TokensOnce'
  BY <1>14, <1>15, <1>16 DEF CargoInv, TokenInv, TokensOnce, Given, Waiting
<1>19. TokensKept'
  <2>1. Waiting(timer') = Waiting(timer) /\ Given' = Given
    BY <1>16 DEF Given
  <2>2. Carried(net') \cap Tokens = (Carried(net) \cap Tokens) \cup {k}
    BY <1>5, <1>15
  <2>. QED  BY <1>14, <1>16, <1>17, <2>1, <2>2 DEF CargoInv, TokenInv, TokensKept
<1>20. FishInv'
  BY <1>14, <1>15, <1>16, FishCalm DEF CargoInv, TypeInv, TypeOK
<1>. QED  BY <1>15, <1>18, <1>19, <1>20 DEF CargoRight, TokenInv

-----------------------------------------------------------------------------
(* The ways of a token.                                                      *)

\* A received token leaves its channel, and was in no other place.
LEMMA TokenReceived ==
  ASSUME CargoInv, NEW s \in Addresses, NEW t \in Tanks, Receives(s, t, "token"),
         NEW k, k = Head(net[<<s, t>>]).token
  PROVE  /\ k \in Tokens /\ k \notin Fish /\ k \notin Waiting(timer) /\ k \notin Given /\ k \notin dropped
         /\ k \in Carried(net) /\ Once(net') /\ Carried(net') = Carried(net) \ {k}
<1>1. net \in [Pairs -> Seq(Messages)] /\ Once(net)
  BY DEF CargoInv, TypeInv, TypeOK
<1>2. Head(net[<<s, t>>]) \in Messages /\ Head(net[<<s, t>>]).type = "token"
  BY <1>1, ReceiveTypes DEF Receives
<1>3. k \in Tokens /\ Load(Head(net[<<s, t>>])) = k
  BY <1>2, MessageFields DEF Load
<1>4. k \in Cargo /\ k \notin Fish
  BY <1>3, LoadTypes DEF Cargo
<1>5. k \in Carried(net) /\ Once(net') /\ Carried(net') = Carried(net) \ {k}
  BY <1>1, <1>3, <1>4, ReceivedCargo
<1>. QED  BY <1>3, <1>4, <1>5 DEF CargoInv, TokenInv, TokensOnce, TokensKept

LEMMA ReceiveTokenCargo == \A s \in Addresses, t \in Tanks : CargoInv /\ ReceiveToken(s, t) => CargoRight'
<1>. SUFFICES ASSUME NEW s \in Addresses, NEW t \in Tanks, CargoInv, ReceiveToken(s, t) PROVE CargoRight'
  OBVIOUS
<1>. DEFINE k == Head(net[<<s, t>>]).token
<1>1. Receives(s, t, "token") /\ timer' = [timer EXCEPT ![t] = Append(@, k)]
  BY DEF ReceiveToken
<1>2. UNCHANGED <<giving, issued, dropped, fishies, created, stray>>
  BY DEF ReceiveToken, fishVars, history
<1>3. timer \in [Tanks -> Seq(Tokens)] /\ WaitOnce(timer) /\ created \subseteq Fish
  BY DEF CargoInv, TypeInv, TypeOK, TokenInv, TokensOnce
<1>4. /\ k \in Tokens /\ k \notin Fish /\ k \notin Waiting(timer) /\ k \notin Given /\ k \notin dropped
      /\ k \in Carried(net) /\ Once(net') /\ Carried(net') = Carried(net) \ {k}
  BY <1>1, TokenReceived
<1>. HIDE DEF k
<1>5. /\ timer' \in [Tanks -> Seq(Tokens)] /\ timer'[t] = Append(timer[t], k)
      /\ \A u \in Tanks \ {t} : timer'[u] = timer[u]
  BY <1>1, <1>3, <1>4, AppendProperties
<1>6. WaitOnce(timer') /\ Waiting(timer') = Waiting(timer) \cup {k}
  <2>1. Joins(timer, timer', t, k)
    BY <1>3, <1>4, <1>5 DEF Joins
  <2>. QED  BY <1>3, <2>1, WaitAppend
<1>7. TokensOnce'
  BY <1>2, <1>4, <1>6 DEF CargoInv, TokenInv, TokensOnce, Given
<1>8. TokensKept'
  <2>1. Given' = Given
    BY <1>2 DEF Given
  <2>. QED  BY <1>2, <1>4, <1>6, <2>1 DEF CargoInv, TokenInv, TokensKept
<1>9. FishInv'
  BY <1>2, <1>3, <1>4, FishCalm DEF CargoInv
<1>. QED  BY <1>4, <1>7, <1>8, <1>9 DEF CargoRight, TokenInv

LEMMA ReceiveTokenFailsCargo ==
  \A s \in Addresses, t \in Tanks : CargoInv /\ ReceiveTokenFails(s, t) => CargoRight'
<1>. SUFFICES ASSUME NEW s \in Addresses, NEW t \in Tanks, CargoInv, ReceiveTokenFails(s, t) PROVE CargoRight'
  OBVIOUS
<1>. DEFINE k == Head(net[<<s, t>>]).token
<1>1. Receives(s, t, "token") /\ dropped' = dropped \cup {k}
  BY DEF ReceiveTokenFails
<1>2. UNCHANGED <<timer, giving, issued, fishies, created, stray>>
  BY DEF ReceiveTokenFails, fishVars
<1>3. created \subseteq Fish
  BY DEF CargoInv, TypeInv, TypeOK
<1>4. /\ k \in Tokens /\ k \notin Fish /\ k \notin Waiting(timer) /\ k \notin Given /\ k \notin dropped
      /\ k \in Carried(net) /\ Once(net') /\ Carried(net') = Carried(net) \ {k}
  BY <1>1, TokenReceived
<1>. HIDE DEF k
<1>7. TokensOnce'
  BY <1>2, <1>4 DEF CargoInv, TokenInv, TokensOnce, Given
<1>8. TokensKept'
  <2>1. Given' = Given /\ Waiting(timer') = Waiting(timer)
    BY <1>2 DEF Given
  <2>. QED  BY <1>1, <1>2, <1>4, <2>1 DEF CargoInv, TokenInv, TokensKept
<1>9. FishInv'
  BY <1>1, <1>2, <1>3, <1>4, FishCalm DEF CargoInv
<1>. QED  BY <1>4, <1>7, <1>8, <1>9 DEF CargoRight, TokenInv

LEMMA TimerClearCargo == \A t \in Tanks : CargoInv /\ TimerClear(t) => CargoRight'
<1>. SUFFICES ASSUME NEW t \in Tanks, CargoInv, TimerClear(t) PROVE CargoRight'
  OBVIOUS
<1>. DEFINE k == Head(timer[t])
<1>1. /\ timer[t] # << >> /\ giving[t] = None
      /\ timer' = [timer EXCEPT ![t] = Tail(@)] /\ giving' = [giving EXCEPT ![t] = k]
  BY DEF TimerClear
<1>2. UNCHANGED <<net, issued, dropped, fishies, created, stray>>
  BY DEF TimerClear, fishVars, history
<1>3. /\ timer \in [Tanks -> Seq(Tokens)] /\ WaitOnce(timer) /\ created \subseteq Fish
      /\ giving \in [Tanks -> Tokens \cup {None}] /\ Once(net)
  BY DEF CargoInv, TypeInv, TypeOK, TokenInv, TokensOnce
<1>5. /\ timer' \in [Tanks -> Seq(Tokens)] /\ timer'[t] = Tail(timer[t])
      /\ \A u \in Tanks \ {t} : timer'[u] = timer[u]
  BY <1>1, <1>3, HeadTailProperties
<1>. HIDE DEF k
<1>6. WaitOnce(timer') /\ Waiting(timer') = Waiting(timer) \ {k} /\ k \in Waiting(timer)
  BY <1>1, <1>3, <1>5, WaitTail DEF k
<1>4. k \in Tokens /\ k \notin Given /\ k \notin Carried(net) /\ None \notin Tokens
  BY <1>6, RingAssumption DEF CargoInv, TokenInv, TokensOnce, Waiting, Tokens
<1>7. Given' = Given \cup {k}
  BY <1>1, <1>3, <1>4 DEF Given
<1>8. TokensOnce'
  <2>1. \A u, v \in Tanks : giving'[u] # None /\ giving'[u] = giving'[v] => u = v
    <3>1. \A u \in Tanks : giving[u] # k
      BY <1>4 DEF Given
    <3>. QED  BY <1>1, <1>3, <3>1 DEF CargoInv, TokenInv, TokensOnce
  <2>2. Waiting(timer') \cap Given' = {} /\ (Waiting(timer') \cup Given') \cap Carried(net') = {}
    BY <1>2, <1>4, <1>6, <1>7 DEF CargoInv, TokenInv, TokensOnce
  <2>. QED  BY <1>6, <2>1, <2>2 DEF TokensOnce
<1>9. TokensKept'
  BY <1>2, <1>6, <1>7 DEF CargoInv, TokenInv, TokensKept
<1>10. FishInv'
  BY <1>2, <1>3, FishCalm DEF CargoInv
<1>. QED  BY <1>2, <1>3, <1>8, <1>9, <1>10 DEF CargoRight, TokenInv

\* The running task ends: the token it had is in no other place.
LEMMA TaskEnds ==
  ASSUME CargoInv, NEW t \in Tanks, giving[t] # None, giving' = [giving EXCEPT ![t] = None], NEW k, k = giving[t]
  PROVE  /\ k \in Tokens /\ k \notin Fish /\ k \notin Waiting(timer) /\ k \notin Carried(net) /\ k \notin dropped
         /\ k \in Given /\ Given' = Given \ {k}
         /\ \A u, v \in Tanks : giving'[u] # None /\ giving'[u] = giving'[v] => u = v
<1>1. giving \in [Tanks -> Tokens \cup {None}] /\ None \notin Tokens
  BY RingAssumption DEF CargoInv, TypeInv, TypeOK, Tokens
<1>2. k \in Tokens /\ k \in Given
  BY <1>1 DEF Given
<1>3. \A u, v \in Tanks : giving[u] # None /\ giving[u] = giving[v] => u = v
  BY DEF CargoInv, TokenInv, TokensOnce
<1>4. Given' = Given \ {k}
  BY <1>1, <1>2, <1>3 DEF Given
<1>5. \A u, v \in Tanks : giving'[u] # None /\ giving'[u] = giving'[v] => u = v
  BY <1>1, <1>3
<1>. QED  BY <1>2, <1>4, <1>5, LoadTypes DEF CargoInv, TokenInv, TokensOnce, TokensKept

LEMMA GiveBackTokenCargo == \A t \in Tanks : CargoInv /\ GiveBackToken(t) => CargoRight'
<1>. SUFFICES ASSUME NEW t \in Tanks, CargoInv, GiveBackToken(t) PROVE CargoRight'
  OBVIOUS
<1>. DEFINE k == giving[t]
<1>1. /\ giving[t] # None /\ giving' = [giving EXCEPT ![t] = None]
      /\ left[t] # None /\ SendTo(t, left[t], Token(k))
  BY DEF GiveBackToken
<1>2. UNCHANGED <<timer, issued, dropped, fishies, created, stray>>
  BY DEF GiveBackToken, fishVars, history
<1>3. /\ k \in Tokens /\ k \notin Fish /\ k \notin Waiting(timer) /\ k \notin Carried(net) /\ k \notin dropped
      /\ k \in Given /\ Given' = Given \ {k}
      /\ \A u, v \in Tanks : giving'[u] # None /\ giving'[u] = giving'[v] => u = v
  BY <1>1, TaskEnds
<1>. HIDE DEF k
<1>4. net \in [Pairs -> Seq(Messages)] /\ Once(net) /\ t \in Addresses /\ left[t] \in Addresses
  BY <1>1 DEF CargoInv, TypeInv, TypeOK, Addresses
<1>5. Token(k) \in Messages /\ Load(Token(k)) = k /\ k \in Cargo /\ created \subseteq Fish
  BY <1>3, MessageTypes, Loads DEF Cargo, CargoInv, TypeInv, TypeOK
<1>6. Once(net') /\ Carried(net') = Carried(net) \cup {k}
  <2>1. Once(net') /\ Carried(net') = Carried(net) \cup ({k} \cap Cargo)
    BY <1>1, <1>3, <1>4, <1>5, SentCargo
  <2>. QED  BY <1>5, <2>1
<1>7. Waiting(timer') = Waiting(timer)
  BY <1>2
<1>8. TokensOnce'
  BY <1>2, <1>3, <1>6, <1>7 DEF CargoInv, TokenInv, TokensOnce
<1>9. TokensKept'
  BY <1>2, <1>3, <1>6, <1>7 DEF CargoInv, TokenInv, TokensKept
<1>10. FishInv'
  BY <1>2, <1>3, <1>5, <1>6, FishCalm DEF CargoInv
<1>. QED  BY <1>6, <1>8, <1>9, <1>10 DEF CargoRight, TokenInv

LEMMA GiveBackFailsCargo == \A t \in Tanks : CargoInv /\ GiveBackFails(t) => CargoRight'
<1>. SUFFICES ASSUME NEW t \in Tanks, CargoInv, GiveBackFails(t) PROVE CargoRight'
  OBVIOUS
<1>. DEFINE k == giving[t]
<1>1. giving[t] # None /\ giving' = [giving EXCEPT ![t] = None] /\ dropped' = dropped \cup {k}
  BY DEF GiveBackFails
<1>2. UNCHANGED <<net, timer, issued, fishies, created, stray>>
  BY DEF GiveBackFails, fishVars
<1>3. /\ k \in Tokens /\ k \notin Fish /\ k \notin Waiting(timer) /\ k \notin Carried(net) /\ k \notin dropped
      /\ k \in Given /\ Given' = Given \ {k}
      /\ \A u, v \in Tanks : giving'[u] # None /\ giving'[u] = giving'[v] => u = v
  BY <1>1, TaskEnds
<1>. HIDE DEF k
<1>4. Waiting(timer') = Waiting(timer) /\ Carried(net') = Carried(net) /\ Once(net')
  BY <1>2 DEF CargoInv
<1>5. TokensOnce'
  BY <1>2, <1>3, <1>4 DEF CargoInv, TokenInv, TokensOnce
<1>6. TokensKept'
  BY <1>1, <1>2, <1>3, <1>4 DEF CargoInv, TokenInv, TokensKept
<1>7. FishInv'
  BY <1>1, <1>2, <1>4, FishCalm DEF CargoInv, TypeInv, TypeOK
<1>. QED  BY <1>4, <1>5, <1>6, <1>7 DEF CargoRight, TokenInv

-----------------------------------------------------------------------------
(* The ways of a fish.                                                       *)

\* A fish that swims nowhere enters tank t as o, and the copy o is taken out of tank t.
Enters(fs, new, t, o) ==
  /\ t \in Tanks /\ o.fish \in Fish
  /\ new[t] = fs[t] \cup {o} /\ \A u \in Tanks \ {t} : new[u] = fs[u]
Exits(fs, new, t, o) ==
  /\ t \in Tanks /\ o.fish \in Fish /\ o \in fs[t]
  /\ new[t] = fs[t] \ {o} /\ \A u \in Tanks \ {t} : new[u] = fs[u]

LEMMA EnterSwims ==
  \A fs, new, t, o : SwimOnce(fs) /\ Enters(fs, new, t, o) /\ (Leaving(o) \/ o.fish \notin Swims(fs)) =>
    SwimOnce(new) /\ Swims(new) = IF Leaving(o) THEN Swims(fs) ELSE Swims(fs) \cup {o.fish}
<1>. SUFFICES ASSUME NEW fs, NEW new, NEW t, NEW o, SwimOnce(fs), Enters(fs, new, t, o),
                     Leaving(o) \/ o.fish \notin Swims(fs)
              PROVE  SwimOnce(new) /\ Swims(new) = IF Leaving(o) THEN Swims(fs) ELSE Swims(fs) \cup {o.fish}
  OBVIOUS
<1>1. \A u \in Tanks : \A v \in new[u] : v \in fs[u] \/ (u = t /\ v = o)
  BY DEF Enters
<1>2. t \in Tanks /\ o \in new[t] /\ o.fish \in Fish /\ \A u \in Tanks : fs[u] \subseteq new[u]
  BY DEF Enters
<1>3. \A u \in Tanks : \A v \in fs[u] : ~Leaving(v) /\ ~Leaving(o) => v.fish # o.fish
  BY <1>2 DEF Swims
<1>. HIDE DEF Leaving
<1>4. SwimOnce(new)
  BY <1>1, <1>3 DEF SwimOnce
<1>5. \A f \in Fish : f \in Swims(new) => f \in Swims(fs) \/ (~Leaving(o) /\ f = o.fish)
  BY <1>1 DEF Swims
<1>6. Swims(fs) \subseteq Swims(new) /\ (~Leaving(o) => o.fish \in Swims(new))
  BY <1>2 DEF Swims
<1>7. Swims(new) \subseteq Fish
  BY DEF Swims
<1>. QED  BY <1>4, <1>5, <1>6, <1>7

LEMMA ExitSwims ==
  \A fs, new, t, o : SwimOnce(fs) /\ Exits(fs, new, t, o) =>
    /\ SwimOnce(new) /\ Swims(new) = IF Leaving(o) THEN Swims(fs) ELSE Swims(fs) \ {o.fish}
    /\ ~Leaving(o) => o.fish \in Swims(fs)
<1>. SUFFICES ASSUME NEW fs, NEW new, NEW t, NEW o, SwimOnce(fs), Exits(fs, new, t, o)
              PROVE  /\ SwimOnce(new) /\ Swims(new) = IF Leaving(o) THEN Swims(fs) ELSE Swims(fs) \ {o.fish}
                     /\ ~Leaving(o) => o.fish \in Swims(fs)
  OBVIOUS
<1>1. \A u \in Tanks : \A v \in fs[u] : v \in new[u] \/ (u = t /\ v = o)
  BY DEF Exits
<1>2. /\ t \in Tanks /\ o \in fs[t] /\ o \notin new[t] /\ o.fish \in Fish
      /\ \A u \in Tanks : new[u] \subseteq fs[u]
  BY DEF Exits
<1>3. \A u \in Tanks : \A v \in new[u] : ~Leaving(v) /\ ~Leaving(o) => v.fish # o.fish
  BY <1>2 DEF SwimOnce
<1>. HIDE DEF Leaving
<1>4. SwimOnce(new)
  BY <1>2 DEF SwimOnce
<1>5. \A f \in Fish : f \in Swims(fs) => f \in Swims(new) \/ (~Leaving(o) /\ f = o.fish)
  BY <1>1 DEF Swims
<1>6. Swims(new) \subseteq Swims(fs) /\ (~Leaving(o) => o.fish \in Swims(fs) /\ o.fish \notin Swims(new))
  BY <1>2, <1>3 DEF Swims
<1>7. Swims(fs) \subseteq Fish
  BY DEF Swims
<1>. QED  BY <1>4, <1>5, <1>6, <1>7

LEMMA ReceiveFishCargo == \A s \in Addresses, t \in Tanks : CargoInv /\ ReceiveFish(s, t) => CargoRight'
<1>. SUFFICES ASSUME NEW s \in Addresses, NEW t \in Tanks, CargoInv, ReceiveFish(s, t) PROVE CargoRight'
  OBVIOUS
<1>. DEFINE m == Head(net[<<s, t>>])
            o == [fish |-> m.fish, x |-> SetToStart(m.dir), dir |-> m.dir]
            f == m.fish
<1>1. Receives(s, t, "handoff") /\ fishies' = [fishies EXCEPT ![t] = @ \cup {o}]
  BY DEF ReceiveFish
<1>2. UNCHANGED <<timer, giving, issued, dropped, created, stray>>
  BY DEF ReceiveFish, tokenVars, history
<1>3. /\ net \in [Pairs -> Seq(Messages)] /\ Once(net) /\ fishies \in [Tanks -> SUBSET FishModels]
      /\ SwimOnce(fishies)
  BY DEF CargoInv, TypeInv, TypeOK, FishInv, FishOnce
<1>4. m \in Messages /\ m.type = "handoff"
  BY <1>1, <1>3, ReceiveTypes DEF Receives
<1>5. f \in Fish /\ m.dir \in Dirs /\ Load(m) = f
  BY <1>4, MessageFields DEF Load
<1>6. f \in Cargo /\ f \notin Tokens
  BY <1>5, LoadTypes DEF Cargo
<1>7. f \in Carried(net) /\ Once(net') /\ Carried(net') = Carried(net) \ {f}
  BY <1>1, <1>3, <1>5, <1>6, ReceivedCargo
<1>8. ~Leaving(o)
  BY <1>5, RingAssumption DEF Leaving, SetToStart, Dirs
<1>9. f \notin Swims(fishies) /\ f \in created /\ o.fish = f
  BY <1>5, <1>7 DEF CargoInv, FishInv, FishOnce, FishKept
<1>10. Enters(fishies, fishies', t, o)
  BY <1>1, <1>3, <1>5 DEF Enters
<1>. HIDE DEF o, f, m
<1>11. SwimOnce(fishies') /\ Swims(fishies') = Swims(fishies) \cup {f}
  BY <1>3, <1>8, <1>9, <1>10, EnterSwims
<1>12. TokenInv'
  BY <1>2, <1>6, <1>7, TokensCalm DEF CargoInv
<1>13. FishOnce'
  BY <1>7, <1>11 DEF CargoInv, FishInv, FishOnce
<1>14. FishKept'
  BY <1>2, <1>7, <1>9, <1>11 DEF CargoInv, FishInv, FishKept
<1>. QED  BY <1>7, <1>12, <1>13, <1>14 DEF CargoRight, FishInv

LEMMA NewFishCargo ==
  \A t \in Tanks, f \in Fish, x \in 0 .. Width - 1, d \in Dirs : CargoInv /\ NewFish(t, f, x, d) => CargoRight'
<1>. SUFFICES ASSUME NEW t \in Tanks, NEW f \in Fish, NEW x \in 0 .. Width - 1, NEW d \in Dirs,
                     CargoInv, NewFish(t, f, x, d)
              PROVE  CargoRight'
  OBVIOUS
<1>. DEFINE o == [fish |-> f, x |-> Clamp(x), dir |-> d]
<1>1. /\ f \notin created /\ created' = created \cup {f} /\ fishies' = [fishies EXCEPT ![t] = @ \cup {o}]
      /\ stray' = IF x = 0 /\ d = "LEFT" THEN stray \cup {f} ELSE stray
  BY DEF NewFish
<1>2. UNCHANGED <<net, timer, giving, issued, dropped>>
  BY DEF NewFish, tokenVars
<1>3. fishies \in [Tanks -> SUBSET FishModels] /\ SwimOnce(fishies) /\ Once(net)
  BY DEF CargoInv, TypeInv, TypeOK, FishInv, FishOnce
<1>4. Leaving(o) <=> x = 0 /\ d = "LEFT"
  BY RingAssumption DEF Leaving, Clamp, Dirs
<1>5. f \notin Swims(fishies) /\ f \notin Carried(net) /\ o.fish = f
  BY <1>1 DEF CargoInv, FishInv, FishKept
<1>6. Enters(fishies, fishies', t, o)
  BY <1>1, <1>3 DEF Enters
<1>. HIDE DEF o
<1>7. SwimOnce(fishies') /\ Swims(fishies') = IF Leaving(o) THEN Swims(fishies) ELSE Swims(fishies) \cup {f}
  BY <1>3, <1>5, <1>6, EnterSwims
<1>8. TokenInv'
  BY <1>2, TokensCalm DEF CargoInv
<1>9. FishOnce'
  BY <1>2, <1>5, <1>7 DEF CargoInv, FishInv, FishOnce
<1>10. FishKept'
  BY <1>1, <1>2, <1>4, <1>7 DEF CargoInv, FishInv, FishKept
<1>. QED  BY <1>2, <1>3, <1>8, <1>9, <1>10 DEF CargoRight, FishInv

\* In a pass the copy o gives way to v, a copy of the same fish.
Replaces(fs, new, t, o, v) ==
  /\ fs \in [Tanks -> SUBSET FishModels] /\ t \in Tanks /\ o \in fs[t] /\ o.fish \in Fish
  /\ v.fish = o.fish /\ (Leaving(o) => Leaving(v))
  /\ new[t] = (fs[t] \ {o}) \cup {v} /\ \A u \in Tanks \ {t} : new[u] = fs[u]

LEMMA ReplaceSwims ==
  \A fs, new, t, o, v : SwimOnce(fs) /\ Replaces(fs, new, t, o, v) =>
    /\ SwimOnce(new)
    /\ Swims(new) = IF ~Leaving(o) /\ Leaving(v) THEN Swims(fs) \ {o.fish} ELSE Swims(fs)
    /\ ~Leaving(o) => o.fish \in Swims(fs)
<1>. SUFFICES ASSUME NEW fs, NEW new, NEW t, NEW o, NEW v, SwimOnce(fs), Replaces(fs, new, t, o, v)
              PROVE  /\ SwimOnce(new)
                     /\ Swims(new) = IF ~Leaving(o) /\ Leaving(v) THEN Swims(fs) \ {o.fish} ELSE Swims(fs)
                     /\ ~Leaving(o) => o.fish \in Swims(fs)
  OBVIOUS
<1>. DEFINE mid == [fs EXCEPT ![t] = @ \ {o}]
<1>1. Exits(fs, mid, t, o)
  BY DEF Replaces, Exits
<1>2. Enters(mid, new, t, v)
  BY DEF Replaces, Enters
<1>3. v.fish = o.fish /\ (Leaving(o) => Leaving(v))
  BY DEF Replaces
<1>. HIDE DEF mid, Leaving
<1>4. /\ SwimOnce(mid) /\ Swims(mid) = IF Leaving(o) THEN Swims(fs) ELSE Swims(fs) \ {o.fish}
      /\ ~Leaving(o) => o.fish \in Swims(fs)
  BY <1>1, ExitSwims
<1>5. Leaving(v) \/ v.fish \notin Swims(mid)
  BY <1>3, <1>4
<1>6. SwimOnce(new) /\ Swims(new) = IF Leaving(v) THEN Swims(mid) ELSE Swims(mid) \cup {v.fish}
  BY <1>2, <1>4, <1>5, EnterSwims
<1>. QED  BY <1>3, <1>4, <1>6

\* What a move does to a fish: it leaves, or disappears, only past an edge.
LEMMA MoveLeaves ==
  ASSUME NEW o \in FishModels
  PROVE  /\ Moved(o).fish = o.fish
         /\ ~HitsEdge(Moved(o)) => (Leaving(o) <=> Leaving(Moved(o)))
         /\ Disappears(Moved(o)) => Leaving(Moved(o))
         /\ HitsEdge(Moved(o)) =>
              /\ ~Leaving(o) /\ Leaving(Moved(o)) /\ ~Leaving(Reversed(Moved(o)))
              /\ Reversed(Moved(o)).fish = o.fish
<1>1. /\ o.x \in Int /\ o.dir \in {"LEFT", "RIGHT"} /\ o.fish \in Fish
      /\ XSize \in Int /\ Width \in Int /\ XSize > 0 /\ Width > XSize + 1
  BY RingAssumption DEF FishModels, Dirs
<1>2. CASE o.dir = "LEFT"
  <2>1. Moved(o) = [fish |-> o.fish, x |-> o.x - 1, dir |-> "LEFT"]
    BY <1>1, <1>2 DEF Moved, FishModels
  <2>2. Reversed(Moved(o)) = [fish |-> o.fish, x |-> o.x - 1, dir |-> "RIGHT"]
    BY <2>1 DEF Reversed
  <2>. QED  BY <1>1, <1>2, <2>1, <2>2 DEF HitsEdge, Disappears, Leaving
<1>3. CASE o.dir = "RIGHT"
  <2>1. Moved(o) = [fish |-> o.fish, x |-> o.x + 1, dir |-> "RIGHT"]
    BY <1>1, <1>3 DEF Moved, FishModels
  <2>2. Reversed(Moved(o)) = [fish |-> o.fish, x |-> o.x + 1, dir |-> "LEFT"]
    BY <2>1 DEF Reversed
  <2>. QED  BY <1>1, <1>3, <2>1, <2>2 DEF HitsEdge, Disappears, Leaving
<1>. QED  BY <1>1, <1>2, <1>3

LEMMA UpdateCargo == \A t \in Tanks : CargoInv /\ UpdateStep(t) => CargoRight'
<1>. SUFFICES ASSUME NEW t \in Tanks, CargoInv, NEW o \in fishies[t], UpdateFishies(t, o) PROVE CargoRight'
  BY DEF UpdateStep
<1>. DEFINE f == o.fish
            v == Moved(o)
<1>1. /\ fishies \in [Tanks -> SUBSET FishModels] /\ SwimOnce(fishies) /\ net \in [Pairs -> Seq(Messages)]
      /\ Once(net) /\ created \subseteq Fish
  BY DEF CargoInv, TypeInv, TypeOK, FishInv, FishOnce
<1>2. o \in FishModels /\ f \in Fish /\ o.dir \in Dirs
  BY <1>1 DEF FishModels
<1>3. UNCHANGED <<timer, giving, issued, created, stray>>
  BY DEF UpdateFishies, tokenVars
<1>4. f \in Cargo /\ f \notin Tokens
  BY <1>2, LoadTypes DEF Cargo
<1>5. CASE Swim(t, o)
  <2>1. UNCHANGED <<net, dropped>> /\ ~HitsEdge(v)
    BY <1>5 DEF Swim
  <2>2. v.fish = f /\ (Leaving(o) <=> Leaving(v)) /\ (Disappears(v) => Leaving(o))
    BY <1>2, <2>1, MoveLeaves
  <2>3. SwimOnce(fishies') /\ Swims(fishies') = Swims(fishies)
    <3>1. CASE Disappears(v)
      <4>1. Exits(fishies, fishies', t, o)
        BY <1>1, <1>2, <1>5, <3>1 DEF Swim, Visit, Exits
      <4>. QED  BY <1>1, <2>2, <3>1, <4>1, ExitSwims
    <3>2. CASE ~Disappears(v)
      <4>1. fishies' = [fishies EXCEPT ![t] = (@ \ {o}) \cup {v}]
        BY <1>5, <3>2 DEF Swim, Visit
      <4>. HIDE DEF v
      <4>2. Replaces(fishies, fishies', t, o, v)
        BY <1>1, <1>2, <2>2, <4>1 DEF Replaces
      <4>. QED  BY <1>1, <2>2, <4>2, ReplaceSwims
    <3>. QED  BY <3>1, <3>2
  <2>4. TokenInv'
    BY <1>3, <2>1, TokensCalm DEF CargoInv
  <2>5. FishInv'
    BY <1>3, <2>1, <2>3 DEF CargoInv, FishInv, FishOnce, FishKept
  <2>. QED  BY <1>1, <2>1, <2>4, <2>5 DEF CargoRight
<1>6. CASE TurnBack(t, o)
  <2>. DEFINE w == Reversed(v)
  <2>1. UNCHANGED <<net, dropped>> /\ HitsEdge(v) /\ fishies' = [fishies EXCEPT ![t] = (@ \ {o}) \cup {w}]
    BY <1>6 DEF TurnBack, Visit
  <2>2. w.fish = f /\ ~Leaving(o) /\ ~Leaving(w)
    BY <1>2, <2>1, MoveLeaves
  <2>. HIDE DEF w
  <2>3. Replaces(fishies, fishies', t, o, w)
    BY <1>1, <1>2, <2>1, <2>2 DEF Replaces
  <2>4. SwimOnce(fishies') /\ Swims(fishies') = Swims(fishies)
    BY <1>1, <2>2, <2>3, ReplaceSwims
  <2>5. TokenInv'
    BY <1>3, <2>1, TokensCalm DEF CargoInv
  <2>6. FishInv'
    BY <1>3, <2>1, <2>4 DEF CargoInv, FishInv, FishOnce, FishKept
  <2>. QED  BY <1>1, <2>1, <2>5, <2>6 DEF CargoRight
<1>7. CASE HandOff(t, o) \/ HandOffFails(t, o)
  <2>1. HitsEdge(v) /\ fishies' = [fishies EXCEPT ![t] = (@ \ {o}) \cup {v}]
    BY <1>7 DEF HandOff, HandOffFails, Visit
  <2>2. v.fish = f /\ ~Leaving(o) /\ Leaving(v)
    BY <1>2, <2>1, MoveLeaves
  <2>. HIDE DEF v
  <2>3. Replaces(fishies, fishies', t, o, v)
    BY <1>1, <1>2, <2>1, <2>2 DEF Replaces
  <2>4. SwimOnce(fishies') /\ Swims(fishies') = Swims(fishies) \ {f} /\ f \in Swims(fishies)
    BY <1>1, <2>2, <2>3, ReplaceSwims
  <2>5. f \notin Carried(net) /\ f \in created
    BY <2>4 DEF CargoInv, FishInv, FishOnce, FishKept
  <2>6. CASE HandOff(t, o)
    <3>. DEFINE m == HandoffRequest(f, o.dir)
    <3>1. SendTo(t, Ahead(t, o), m) /\ dropped' = dropped /\ Ahead(t, o) # None
      BY <2>6 DEF HandOff
    <3>2. m \in Messages /\ Load(m) = f /\ t \in Addresses
      BY <1>2, MessageTypes, Loads DEF Addresses
    <3>3. Ahead(t, o) \in Addresses
      BY <3>1 DEF CargoInv, TypeInv, TypeOK, Ahead, Addresses
    <3>4. Once(net') /\ Carried(net') = Carried(net) \cup ({f} \cap Cargo)
      BY <1>1, <2>5, <3>1, <3>2, <3>3, SentCargo
    <3>5. Carried(net') = Carried(net) \cup {f}
      BY <1>4, <3>4
    <3>. HIDE DEF f
    <3>6. TokenInv'
      BY <1>3, <1>4, <3>1, <3>5, TokensCalm DEF CargoInv
    <3>7. FishOnce'
      BY <2>4, <3>5 DEF CargoInv, FishInv, FishOnce
    <3>8. FishKept'
      BY <1>3, <2>4, <2>5, <3>1, <3>5 DEF CargoInv, FishInv, FishKept
    <3>. QED  BY <3>4, <3>6, <3>7, <3>8 DEF CargoRight, FishInv
  <2>7. CASE HandOffFails(t, o)
    <3>1. net' = net /\ dropped' = dropped \cup {f}
      BY <2>7 DEF HandOffFails
    <3>. HIDE DEF f
    <3>2. TokenInv'
      BY <1>3, <1>4, <3>1, TokensCalm DEF CargoInv
    <3>3. FishOnce'
      BY <2>4, <3>1 DEF CargoInv, FishInv, FishOnce
    <3>4. FishKept'
      BY <1>3, <2>4, <3>1 DEF CargoInv, FishInv, FishKept
    <3>. QED  BY <1>1, <3>1, <3>2, <3>3, <3>4 DEF CargoRight, FishInv
  <2>. QED  BY <1>7, <2>6, <2>7
<1>. QED  BY <1>5, <1>6, <1>7 DEF UpdateFishies

-----------------------------------------------------------------------------
(* Every step keeps the invariant.                                           *)

LEMMA InitCargo == Init => CargoInv
<1>. SUFFICES ASSUME Init PROVE CargoInv
  OBVIOUS
<1>1. TypeInv
  BY InitTypes
<1>2. /\ \A p \in Pairs : net[p] = << >> /\ Len(net[p]) = 0
      /\ \A t \in Tanks : timer[t] = << >> /\ Len(timer[t]) = 0 /\ giving[t] = None /\ fishies[t] = {}
      /\ issued = 0 /\ dropped = {} /\ created = {}
  BY EmptySeq DEF Init
<1>3. Once(net) /\ Carried(net) = {}
  BY <1>2 DEF Once, Carried
<1>4. WaitOnce(timer) /\ Waiting(timer) = {} /\ Given = {}
  BY <1>2, RingAssumption DEF WaitOnce, Waiting, Given, Tokens
<1>5. SwimOnce(fishies) /\ Swims(fishies) = {}
  BY <1>2 DEF SwimOnce, Swims
<1>6. TokensOnce /\ TokensKept
  BY <1>2, <1>3, <1>4 DEF TokensOnce, TokensKept
<1>7. FishOnce /\ FishKept
  BY <1>2, <1>3, <1>5 DEF FishOnce, FishKept
<1>. QED  BY <1>1, <1>3, <1>6, <1>7 DEF CargoInv, TokenInv, FishInv

LEMMA StutterCargo == CargoInv /\ UNCHANGED vars => CargoRight'
<1>. SUFFICES ASSUME CargoInv, UNCHANGED vars PROVE CargoRight'
  OBVIOUS
<1>1. UNCHANGED <<net, timer, giving, issued, fishies, created, stray, dropped>>
  BY DEF vars, tokenVars, fishVars, history
<1>2. Once(net') /\ Carried(net') = Carried(net)
  BY <1>1 DEF CargoInv
<1>. QED  BY <1>1, <1>2, CargoCalm

LEMMA NextCargo == CargoInv /\ [Next]_vars => CargoInv'
<1>. SUFFICES ASSUME CargoInv, [Next]_vars PROVE CargoInv'
  OBVIOUS
<1>1. TypeInv'
  BY NextTypes DEF CargoInv
<1>2. CASE BrokerStep
  <2>1. CargoRight'
    BY <1>2, ReregisterCargo, RegisterNewCargo, DeregisterCargo DEF BrokerStep
  <2>. QED  BY <1>1, <2>1 DEF CargoInv, CargoRight
<1>3. ASSUME NEW t \in Tanks, Start(t) \/ RenewLease(t) \/ Finish(t) PROVE CargoRight'
  BY <1>3, SendsNothing
<1>4. ASSUME NEW t \in Tanks, NEW s \in Addresses, ReceiveFrom(s, t) PROVE CargoRight'
  BY <1>4, ReceiveNothing, ReceiveFishCargo, ReceiveTokenCargo, ReceiveTokenFailsCargo DEF ReceiveFrom
<1>5. ASSUME NEW t \in Tanks, TimerStep(t) PROVE CargoRight'
  BY <1>5, TimerClearCargo, GiveBackTokenCargo, GiveBackFailsCargo DEF TimerStep
<1>6. ASSUME NEW t \in Tanks, NEW f \in Fish, NEW x \in 0 .. Width - 1, NEW d \in Dirs, NewFish(t, f, x, d)
      PROVE  CargoRight'
  BY <1>6, NewFishCargo
<1>7. ASSUME NEW t \in Tanks, UpdateStep(t) PROVE CargoRight'
  BY <1>7, UpdateCargo
<1>8. CASE UNCHANGED vars
  <2>1. CargoRight'
    BY <1>8, StutterCargo
  <2>. QED  BY <1>1, <2>1 DEF CargoInv, CargoRight
<1>9. CASE CargoRight'
  BY <1>1, <1>9 DEF CargoInv, CargoRight
<1>. QED  BY <1>2, <1>3, <1>4, <1>5, <1>6, <1>7, <1>8, <1>9 DEF Next

-----------------------------------------------------------------------------
(* From the invariant to the numbers of places.                              *)

\* Load x is at one position of the channels if it is carried, and at none otherwise.
LEMMA OneCopy ==
  ASSUME net \in [Pairs -> Seq(Messages)], Once(net), NEW x \in Cargo, NEW S,
         \A m \in Messages : m \in S <=> Load(m) = x
  PROVE  /\ x \in Carried(net) => \E z : Copies(Pairs, net, S) = {z}
         /\ x \notin Carried(net) => Copies(Pairs, net, S) = {}
<1>1. \A p \in Pairs : \A i \in 1 .. Len(net[p]) : net[p][i] \in Messages
  BY ElementOfSeq
<1>2. \A z : z \in Copies(Pairs, net, S) <=>
               \E p \in Pairs : \E i \in 1 .. Len(net[p]) : Load(net[p][i]) = x /\ z = <<p, i>>
  BY <1>1 DEF Copies
<1>3. x # None
  BY LoadTypes
<1>4. ASSUME x \in Carried(net) PROVE \E z : Copies(Pairs, net, S) = {z}
  <2>1. PICK p \in Pairs : \E i \in 1 .. Len(net[p]) : Load(net[p][i]) = x
    BY <1>4 DEF Carried
  <2>2. PICK i \in 1 .. Len(net[p]) : Load(net[p][i]) = x
    BY <2>1
  <2>3. \A q \in Pairs : \A j \in 1 .. Len(net[q]) : Load(net[q][j]) = x => q = p /\ j = i
    BY <1>3, <2>2 DEF Once
  <2>4. Copies(Pairs, net, S) = {<<p, i>>}
    BY <1>2, <2>2, <2>3
  <2>. QED  BY <2>4
<1>5. x \notin Carried(net) => Copies(Pairs, net, S) = {}
  BY <1>2 DEF Carried
<1>. QED  BY <1>4, <1>5

\* The same of the queues of the timers, which hold tokens.
LEMMA OneWaits ==
  ASSUME timer \in [Tanks -> Seq(Tokens)], WaitOnce(timer), NEW k \in Tokens
  PROVE  /\ k \in Waiting(timer) => \E z : Copies(Tanks, timer, {k}) = {z}
         /\ k \notin Waiting(timer) => Copies(Tanks, timer, {k}) = {}
<1>1. \A z : z \in Copies(Tanks, timer, {k}) <=>
               \E t \in Tanks : \E i \in 1 .. Len(timer[t]) : timer[t][i] = k /\ z = <<t, i>>
  BY DEF Copies
<1>2. ASSUME k \in Waiting(timer) PROVE \E z : Copies(Tanks, timer, {k}) = {z}
  <2>1. PICK t \in Tanks : \E i \in 1 .. Len(timer[t]) : timer[t][i] = k
    BY <1>2 DEF Waiting
  <2>2. PICK i \in 1 .. Len(timer[t]) : timer[t][i] = k
    BY <2>1
  <2>3. \A u \in Tanks : \A j \in 1 .. Len(timer[u]) : timer[u][j] = k => u = t /\ j = i
    BY <2>2 DEF WaitOnce
  <2>4. Copies(Tanks, timer, {k}) = {<<t, i>>}
    BY <1>1, <2>2, <2>3
  <2>. QED  BY <2>4
<1>3. k \notin Waiting(timer) => Copies(Tanks, timer, {k}) = {}
  BY <1>1 DEF Waiting
<1>. QED  BY <1>2, <1>3

LEMMA CargoTokens == CargoInv => TokenConserved
<1>. SUFFICES ASSUME CargoInv, NEW k \in 1 .. issued
              PROVE  Cardinality(TokenPlaces(k)) = IF k \in dropped THEN 0 ELSE 1
  BY DEF TokenConserved
<1>. DEFINE N == Copies(Pairs, net, {Token(k)})
            T == Copies(Tanks, timer, {k})
            G == {t \in Tanks : giving[t] = k}
<1>1. k \in Tokens /\ k \in Cargo /\ None \notin Tokens
  BY RingAssumption DEF CargoInv, TypeInv, TypeOK, Tokens, Cargo
<1>2. \A m \in Messages : m \in {Token(k)} <=> Load(m) = k
  BY <1>1, LoadTypes
<1>3. /\ k \in Carried(net) => \E z : N = {z}
      /\ k \notin Carried(net) => N = {}
  BY <1>1, <1>2, OneCopy DEF CargoInv, TypeInv, TypeOK
<1>4. /\ k \in Waiting(timer) => \E z : T = {z}
      /\ k \notin Waiting(timer) => T = {}
  BY <1>1, OneWaits DEF CargoInv, TypeInv, TypeOK, TokenInv, TokensOnce
<1>5. /\ k \in Given => \E z : G = {z}
      /\ k \notin Given => G = {}
  <2>1. \A t, u \in Tanks : giving[t] = k /\ giving[u] = k => t = u
    BY <1>1 DEF CargoInv, TokenInv, TokensOnce
  <2>2. ASSUME k \in Given PROVE \E z : G = {z}
    <3>1. PICK t \in Tanks : giving[t] = k
      BY <2>2 DEF Given
    <3>2. G = {t}
      BY <2>1, <3>1
    <3>. QED  BY <3>2
  <2>. QED  BY <1>1, <2>2 DEF Given
<1>6. TokenPlaces(k) = N \cup T \cup G
  BY DEF TokenPlaces
<1>. HIDE DEF N, T, G
<1>7. /\ k \in dropped => k \notin Carried(net) /\ k \notin Waiting(timer) /\ k \notin Given
      /\ k \notin dropped => k \in Carried(net) \/ k \in Waiting(timer) \/ k \in Given
      /\ ~(k \in Waiting(timer) /\ k \in Given)
      /\ ~(k \in Carried(net) /\ (k \in Waiting(timer) \/ k \in Given))
  BY <1>1 DEF CargoInv, TokenInv, TokensOnce, TokensKept
<1>8. CASE k \in dropped
  <2>1. TokenPlaces(k) = {}
    BY <1>3, <1>4, <1>5, <1>6, <1>7, <1>8
  <2>. QED  BY <1>8, <2>1, FS_EmptySet
<1>9. CASE k \notin dropped
  <2>1. \E z : TokenPlaces(k) = {z}
    BY <1>3, <1>4, <1>5, <1>6, <1>7, <1>9
  <2>. QED  BY <1>9, <2>1, FS_Singleton
<1>. QED  BY <1>8, <1>9

LEMMA CargoFish == CargoInv => FishConserved
<1>. SUFFICES ASSUME CargoInv, NEW f \in Fish
              PROVE  /\ Cardinality(FishPlaces(f)) <= 1
                     /\ f \in created \ (dropped \cup stray) => Cardinality(FishPlaces(f)) = 1
  BY DEF FishConserved
<1>. DEFINE S == {HandoffRequest(f, d) : d \in Dirs}
            N == Copies(Pairs, net, S)
            W == UNION {{<<t, o>> : o \in {u \in fishies[t] : u.fish = f /\ ~Leaving(u)}} : t \in Tanks}
<1>1. f \in Cargo
  BY DEF Cargo
<1>2. \A m \in Messages : m \in S <=> Load(m) = f
  BY LoadTypes
<1>4. FishPlaces(f) = W \cup N
  BY DEF FishPlaces
<1>. HIDE DEF S
<1>3. /\ f \in Carried(net) => \E z : N = {z}
      /\ f \notin Carried(net) => N = {}
  BY <1>1, <1>2, OneCopy DEF CargoInv, TypeInv, TypeOK
<1>5. /\ f \in Swims(fishies) => \E z : W = {z}
      /\ f \notin Swims(fishies) => W = {}
  <2>. HIDE DEF Leaving
  <2>1. \A z : z \in W <=> \E t \in Tanks : \E o \in fishies[t] : o.fish = f /\ ~Leaving(o) /\ z = <<t, o>>
    OBVIOUS
  <2>. HIDE DEF W
  <2>2. ASSUME f \in Swims(fishies) PROVE \E z : W = {z}
    <3>1. PICK t \in Tanks : \E o \in fishies[t] : o.fish = f /\ ~Leaving(o)
      BY <2>2 DEF Swims
    <3>2. PICK o \in fishies[t] : o.fish = f /\ ~Leaving(o)
      BY <3>1
    <3>3. \A u \in Tanks : \A v \in fishies[u] : v.fish = f /\ ~Leaving(v) => u = t /\ v = o
      BY <3>2 DEF CargoInv, FishInv, FishOnce, SwimOnce
    <3>4. W = {<<t, o>>}
      BY <2>1, <3>2, <3>3
    <3>. QED  BY <3>4
  <2>3. f \notin Swims(fishies) => W = {}
    BY <2>1 DEF Swims
  <2>. QED  BY <2>2, <2>3
<1>. HIDE DEF N, W
<1>6. ~(f \in Swims(fishies) /\ f \in Carried(net))
  BY DEF CargoInv, FishInv, FishOnce
<1>7. f \in created \ (dropped \cup stray) => f \in Swims(fishies) \/ f \in Carried(net)
  BY DEF CargoInv, FishInv, FishKept
<1>8. CASE f \in Swims(fishies) \/ f \in Carried(net)
  <2>1. \E z : FishPlaces(f) = {z}
    BY <1>3, <1>4, <1>5, <1>6, <1>8
  <2>2. Cardinality(FishPlaces(f)) = 1
    BY <2>1, FS_Singleton
  <2>. QED  BY <2>2
<1>9. CASE ~(f \in Swims(fishies) \/ f \in Carried(net))
  <2>1. FishPlaces(f) = {}
    BY <1>3, <1>4, <1>5, <1>9
  <2>2. Cardinality(FishPlaces(f)) = 0
    BY <2>1, FS_EmptySet
  <2>. QED  BY <1>7, <1>9, <2>2
<1>. QED  BY <1>8, <1>9

(* The tokens of blatt7 are conserved for any number of tanks: between the   *)
(* broker's registration, the receivers, onToken and the task of the token   *)
(* timer, each token is in one place, unless giveBackToken or schedule threw.*)
THEOREM TokenConservedHolds == Safe => []TokenConserved
BY InitCargo, NextCargo, CargoTokens, PTL DEF Safe

(* A fish that updateFishies hands to a neighbour is in no two tanks, and    *)
(* none is lost between hitsEdge, handOff and receiveFish, but a fish that a *)
(* send to null swallowed or that was placed on the left edge facing it.     *)
THEOREM FishConservedHolds == Safe => []FishConserved
BY InitCargo, NextCargo, CargoFish, PTL DEF Safe
=============================================================================
