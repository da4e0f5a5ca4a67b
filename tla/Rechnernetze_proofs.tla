------------------------- MODULE Rechnernetze_proofs -------------------------
(***************************************************************************)
(* Proofs about the exercises of Rechnernetze for any number of ports,     *)
(* clients, workers and connections.  The programs share nothing: each has *)
(* an invariant of its own.                                                *)
(***************************************************************************)
EXTENDS MCRechnernetze, FiniteSetTheorems, TLAPS

-----------------------------------------------------------------------------
(* The port scanner.                                                       *)

Scanned == {p \in Answering : scan[<<"udp", p>>] # "none"}

\* A thread of the first scan ends with what its port has, and each answer on
\* its way, arrived or credited is the answer to a datagram of its own.
ScanInv ==
    /\ host \in [Ports -> {"answers", "binary", "silent", "nothing"}]
    /\ phase \in {"tcp", "udp", "printed"}
    /\ scan \in [Kinds \X Ports -> {"none", "sent", "opened", "closed", "raised"}]
    /\ echoed \subseteq Scanned /\ inbox \in Nat
    /\ \A p \in Ports : scan[<<"tcp", p>>] # "none" =>
          scan[<<"tcp", p>>] = IF host[p] = "answers" THEN "opened"
                               ELSE IF host[p] = "binary" THEN "raised" ELSE "closed"
    /\ \A p \in Ports : scan[<<"udp", p>>] # "raised"
    /\ phase # "tcp" => Joined("tcp")
    /\ phase = "printed" => Joined("udp")
    /\ Cardinality(UDPPortsOpened) + inbox + Cardinality(echoed) <= Cardinality(Scanned)

ScanStates == {"none", "sent", "opened", "closed", "raised"}

LEMMA ScanSets ==
  ASSUME ScanInv
  PROVE  /\ IsFiniteSet(UDPPortsOpened) /\ IsFiniteSet(echoed) /\ IsFiniteSet(Scanned)
         /\ IsFiniteSet(Answering)
         /\ Cardinality(UDPPortsOpened) \in Nat /\ Cardinality(echoed) \in Nat
         /\ Cardinality(Scanned) \in Nat /\ Cardinality(Scanned) <= Cardinality(Answering)
         /\ Cardinality(Answering) \in Nat
<1>1. /\ UDPPortsOpened \subseteq Ports /\ echoed \subseteq Ports /\ Scanned \subseteq Answering
      /\ Answering \subseteq Ports /\ Scanned \subseteq Ports
  BY DEF ScanInv, UDPPortsOpened, Scanned, Answering
<1>2. IsFiniteSet(Ports)
  BY ScanAssumption
<1>3. IsFiniteSet(UDPPortsOpened) /\ IsFiniteSet(echoed) /\ IsFiniteSet(Scanned) /\ IsFiniteSet(Answering)
  BY <1>1, <1>2, FS_Subset
<1>. QED  BY <1>1, <1>3, FS_CardinalityType, FS_Subset

\* What the sets of a scan are after one thread has moved on.
LEMMA ScanMoves ==
  ASSUME ScanInv, NEW k \in Kinds, NEW p \in Ports, NEW v \in ScanStates,
         scan' = [scan EXCEPT ![<<k, p>>] = v], UNCHANGED <<host, phase>>
  PROVE  /\ scan' \in [Kinds \X Ports -> ScanStates] /\ scan'[<<k, p>>] = v
         /\ \A j \in Kinds : \A q \in Ports : <<j, q>> # <<k, p>> => scan'[<<j, q>>] = scan[<<j, q>>]
         /\ Answering' = Answering
<1>1. <<k, p>> \in Kinds \X Ports /\ \A j \in Kinds : \A q \in Ports : <<j, q>> \in Kinds \X Ports
  OBVIOUS
<1>. QED  BY <1>1 DEF ScanInv, ScanStates, Answering

LEMMA ScanTcpStep ==
  ASSUME ScanInv, NEW p \in Ports, ScanTcp(p)
  PROVE  ScanInv'
<1>1. PICK v \in ScanStates : v = IF host[p] = "answers" THEN "opened"
                                  ELSE IF host[p] = "binary" THEN "raised" ELSE "closed"
  BY DEF ScanStates
<1>2. /\ scan' = [scan EXCEPT ![<<"tcp", p>>] = v] /\ UNCHANGED <<host, phase, echoed, inbox>>
      /\ phase = "tcp" /\ v # "none"
  BY <1>1 DEF ScanTcp
<1>3. /\ scan' \in [Kinds \X Ports -> ScanStates] /\ scan'[<<"tcp", p>>] = v
      /\ \A q \in Ports : scan'[<<"udp", q>>] = scan[<<"udp", q>>]
      /\ \A q \in Ports : q # p => scan'[<<"tcp", q>>] = scan[<<"tcp", q>>]
      /\ Answering' = Answering
  <2>1. "tcp" \in Kinds /\ "udp" \in Kinds
    BY DEF Kinds
  <2>. QED  BY <1>2, <2>1, ScanMoves
<1>4. UDPPortsOpened' = UDPPortsOpened /\ Scanned' = Scanned
  <2>1. UDPPortsOpened' = UDPPortsOpened
    BY <1>3 DEF UDPPortsOpened
  <2>2. Scanned' = Scanned
    BY <1>3 DEF Scanned, Answering
  <2>. QED  BY <2>1, <2>2
<1>. QED  BY <1>1, <1>2, <1>3, <1>4 DEF ScanInv, ScanStates

LEMMA SendUdpStep ==
  ASSUME ScanInv, NEW p \in Ports, SendUdp(p)
  PROVE  ScanInv'
<1>1. /\ scan' = [scan EXCEPT ![<<"udp", p>>] = "sent"] /\ UNCHANGED <<host, phase, inbox>>
      /\ phase = "udp" /\ scan[<<"udp", p>>] = "none"
      /\ (p \in Answering /\ echoed' = echoed \cup {p}) \/ echoed' = echoed
  BY DEF SendUdp, Unsent
<1>2. /\ scan' \in [Kinds \X Ports -> ScanStates] /\ scan'[<<"udp", p>>] = "sent"
      /\ \A q \in Ports : scan'[<<"tcp", q>>] = scan[<<"tcp", q>>]
      /\ \A q \in Ports : q # p => scan'[<<"udp", q>>] = scan[<<"udp", q>>]
      /\ Answering' = Answering
  <2>1. "tcp" \in Kinds /\ "udp" \in Kinds /\ "sent" \in ScanStates
    BY DEF Kinds, ScanStates
  <2>. QED  BY <1>1, <2>1, ScanMoves
<1>3. /\ UDPPortsOpened' = UDPPortsOpened /\ p \notin Scanned /\ p \notin echoed
      /\ Scanned' = IF p \in Answering THEN Scanned \cup {p} ELSE Scanned
  BY <1>1, <1>2 DEF UDPPortsOpened, Scanned, Answering, ScanInv
<1>4. echoed' \subseteq Scanned'
  BY <1>1, <1>3 DEF ScanInv
<1>5. Cardinality(UDPPortsOpened') + inbox' + Cardinality(echoed') <= Cardinality(Scanned')
  <2>1. /\ p \in Answering => Cardinality(Scanned') = Cardinality(Scanned) + 1
        /\ p \notin Answering => Cardinality(Scanned') = Cardinality(Scanned)
    BY <1>3, ScanSets, FS_AddElement
  <2>2. Cardinality(echoed') \in {Cardinality(echoed), Cardinality(echoed) + 1}
        /\ (p \notin Answering => Cardinality(echoed') = Cardinality(echoed))
    BY <1>1, <1>3, ScanSets, FS_AddElement
  <2>. QED  BY <1>1, <1>3, <2>1, <2>2, ScanSets DEF ScanInv
<1>6. Joined("tcp")'
  BY <1>1, <1>2 DEF ScanInv, Joined, Ended
<1>. QED  BY <1>1, <1>2, <1>4, <1>5, <1>6 DEF ScanInv, ScanStates

LEMMA EchoStep ==
  ASSUME ScanInv, NEW p \in Ports, Echo(p)
  PROVE  ScanInv'
<1>1. /\ p \in echoed /\ echoed' = echoed \ {p} /\ inbox' \in {inbox, inbox + 1}
      /\ UNCHANGED <<host, phase, scan>>
  BY DEF Echo
<1>2. UDPPortsOpened' = UDPPortsOpened /\ Scanned' = Scanned
  BY <1>1 DEF UDPPortsOpened, Scanned, Answering
<1>3. Cardinality(echoed') = Cardinality(echoed) - 1
  BY <1>1, ScanSets, FS_RemoveElement
<1>4. inbox' \in Nat /\ Cardinality(UDPPortsOpened') + inbox' + Cardinality(echoed') <= Cardinality(Scanned')
  BY <1>1, <1>2, <1>3, ScanSets DEF ScanInv
<1>. QED  BY <1>1, <1>2, <1>4 DEF ScanInv, Joined, Ended

\* A thread of the second scan that has waited ends with or without an answer.
LEMMA WaitedStep ==
  ASSUME ScanInv, NEW p \in Ports, RecvUdp(p) \/ TimeoutUdp(p)
  PROVE  ScanInv'
<1>1. PICK v \in {"opened", "closed"} :
        /\ scan' = [scan EXCEPT ![<<"udp", p>>] = v] /\ UNCHANGED <<host, phase, echoed>>
        /\ scan[<<"udp", p>>] = "sent"
        /\ v = "opened" => inbox > 0 /\ inbox' = inbox - 1
        /\ v = "closed" => inbox' = inbox
  BY DEF RecvUdp, TimeoutUdp
<1>2. /\ scan' \in [Kinds \X Ports -> ScanStates] /\ scan'[<<"udp", p>>] = v
      /\ \A q \in Ports : scan'[<<"tcp", q>>] = scan[<<"tcp", q>>]
      /\ \A q \in Ports : q # p => scan'[<<"udp", q>>] = scan[<<"udp", q>>]
      /\ Answering' = Answering
  <2>1. "tcp" \in Kinds /\ "udp" \in Kinds /\ v \in ScanStates
    BY DEF Kinds, ScanStates
  <2>. QED  BY <1>1, <2>1, ScanMoves
<1>3. /\ Scanned' = Scanned /\ p \notin UDPPortsOpened
      /\ UDPPortsOpened' = IF v = "opened" THEN UDPPortsOpened \cup {p} ELSE UDPPortsOpened
  BY <1>1, <1>2 DEF UDPPortsOpened, Scanned
<1>4. inbox' \in Nat /\ Cardinality(UDPPortsOpened') + inbox' + Cardinality(echoed') <= Cardinality(Scanned')
  <2>1. CASE v = "opened"
    <3>1. Cardinality(UDPPortsOpened') = Cardinality(UDPPortsOpened) + 1
      BY <1>3, <2>1, ScanSets, FS_AddElement
    <3>. QED  BY <1>1, <1>3, <2>1, <3>1, ScanSets DEF ScanInv
  <2>2. CASE v = "closed"
    BY <1>1, <1>3, <2>2 DEF ScanInv
  <2>. QED  BY <2>1, <2>2
<1>5. (phase # "tcp" => Joined("tcp")') /\ phase # "printed"
  BY <1>1, <1>2 DEF ScanInv, Joined, Ended
<1>. QED  BY <1>1, <1>2, <1>3, <1>4, <1>5 DEF ScanInv, ScanStates

LEMMA StopScanStep == ASSUME ScanInv, StopScan PROVE ScanInv'
<1>1. UDPPortsOpened' = UDPPortsOpened /\ Scanned' = Scanned
  BY DEF StopScan, UDPPortsOpened, Scanned, Answering
<1>. QED  BY <1>1 DEF StopScan, ScanInv, Joined, Ended

LEMMA ScanUnchanged == ASSUME ScanInv, UNCHANGED scanVars PROVE ScanInv'
<1>1. UDPPortsOpened' = UDPPortsOpened /\ Scanned' = Scanned
  BY DEF scanVars, UDPPortsOpened, Scanned, Answering
<1>. QED  BY <1>1 DEF scanVars, ScanInv, Joined, Ended

LEMMA ScanStep == ASSUME ScanInv, ScanNext PROVE ScanInv'
BY ScanTcpStep, SendUdpStep, EchoStep, WaitedStep, StopScanStep DEF ScanNext

LEMMA ScanStarts == ASSUME ScanInit \/ ScanOff PROVE ScanInv
<1>1. /\ echoed = {} /\ inbox = 0 /\ UDPPortsOpened = {}
      /\ Cardinality(UDPPortsOpened) = 0 /\ Cardinality(echoed) = 0
  <2>1. echoed = {} /\ inbox = 0
    BY DEF ScanInit, ScanOff
  <2>2. \A p \in Ports : <<"udp", p>> \in Kinds \X Ports
    BY DEF Kinds
  <2>3. UDPPortsOpened = {}
    BY <2>2 DEF ScanInit, ScanOff, UDPPortsOpened
  <2>. QED  BY <2>1, <2>3, FS_EmptySet
<1>2. IsFiniteSet(Scanned) /\ Cardinality(Scanned) \in Nat
  <2>1. Scanned \subseteq Ports
    BY DEF Scanned, Answering
  <2>. QED  BY <2>1, ScanAssumption, FS_Subset, FS_CardinalityType
<1>3. \A p \in Ports : <<"udp", p>> \in Kinds \X Ports /\ <<"tcp", p>> \in Kinds \X Ports
  BY DEF Kinds
<1>4. /\ scan \in [Kinds \X Ports -> {"none", "sent", "opened", "closed", "raised"}]
      /\ \A p \in Ports : scan[<<"udp", p>>] \in {"none", "closed"}
  BY <1>3 DEF ScanInit, ScanOff
<1>5. /\ host \in [Ports -> {"answers", "binary", "silent", "nothing"}]
      /\ phase \in {"tcp", "udp", "printed"}
  BY DEF ScanInit, ScanOff
<1>6. \A p \in Ports : scan[<<"tcp", p>>] # "none" =>
         scan[<<"tcp", p>>] = IF host[p] = "answers" THEN "opened"
                              ELSE IF host[p] = "binary" THEN "raised" ELSE "closed"
  BY <1>3 DEF ScanInit, ScanOff
<1>7. phase # "tcp" => Joined("tcp") /\ Joined("udp")
  BY <1>3 DEF ScanInit, ScanOff, Joined, Ended
<1>. QED  BY <1>1, <1>2, <1>4, <1>5, <1>6, <1>7 DEF ScanInv

-----------------------------------------------------------------------------
(* Sequences as the sets of their elements.                                *)

LEMMA ToSetFacts ==
  ASSUME NEW S, NEW q \in Seq(S)
  PROVE  /\ \A x \in S : ToSet(Append(q, x)) = ToSet(q) \cup {x}
         /\ q # <<>> => Head(q) \in S /\ Tail(q) \in Seq(S) /\ ToSet(q) = {Head(q)} \cup ToSet(Tail(q))
         /\ ToSet(q) \subseteq S
<1>1. ASSUME NEW x \in S PROVE ToSet(Append(q, x)) = ToSet(q) \cup {x}
  <2>1. /\ Append(q, x) \in Seq(S) /\ Len(Append(q, x)) = Len(q) + 1 /\ Append(q, x)[Len(q) + 1] = x
        /\ \A i \in 1 .. Len(q) : Append(q, x)[i] = q[i]
    OBVIOUS
  <2>2. DOMAIN q = 1 .. Len(q) /\ DOMAIN Append(q, x) = 1 .. Len(q) + 1 /\ Len(q) \in Nat
    BY <2>1
  <2>3. 1 .. Len(q) + 1 = (1 .. Len(q)) \cup {Len(q) + 1}
    BY <2>2
  <2>4. PICK n : n = Len(q)
    OBVIOUS
  <2>5. /\ DOMAIN q = 1 .. n /\ DOMAIN Append(q, x) = (1 .. n) \cup {n + 1}
        /\ Append(q, x)[n + 1] = x /\ \A i \in 1 .. n : Append(q, x)[i] = q[i]
    BY <2>1, <2>2, <2>3, <2>4, Zenon
  <2>. QED  BY <2>5, SMTT(30) DEF ToSet
<1>2. ASSUME q # <<>>
      PROVE  Head(q) \in S /\ Tail(q) \in Seq(S) /\ ToSet(q) = {Head(q)} \cup ToSet(Tail(q))
  <2>1. /\ Head(q) \in S /\ Tail(q) \in Seq(S) /\ Len(Tail(q)) = Len(q) - 1 /\ Len(q) \in Nat \ {0}
        /\ Head(q) = q[1] /\ \A i \in 1 .. Len(q) - 1 : Tail(q)[i] = q[i + 1]
    BY <1>2
  <2>2. DOMAIN q = 1 .. Len(q) /\ DOMAIN Tail(q) = 1 .. Len(q) - 1
    BY <2>1
  <2>3. \A i \in 1 .. Len(q) : i = 1 \/ (i - 1 \in 1 .. Len(q) - 1 /\ (i - 1) + 1 = i)
    BY <2>1
  <2>4. 1 \in 1 .. Len(q) /\ \A i \in 1 .. Len(q) - 1 : i + 1 \in 1 .. Len(q)
    BY <2>1
  <2>5. ToSet(q) \subseteq {Head(q)} \cup ToSet(Tail(q))
    <3>1. \A i \in 1 .. Len(q) : q[i] = Head(q) \/ q[i] \in ToSet(Tail(q))
      <4>1. ASSUME NEW i \in 1 .. Len(q), i # 1 PROVE q[i] \in ToSet(Tail(q))
        <5>1. i - 1 \in DOMAIN Tail(q) /\ Tail(q)[i - 1] = q[i]
          BY <2>1, <2>2, <2>3, <4>1
        <5>. QED  BY <5>1 DEF ToSet
      <4>. QED  BY <2>1, <4>1
    <3>. QED  BY <2>2, <3>1 DEF ToSet
  <2>6. {Head(q)} \cup ToSet(Tail(q)) \subseteq ToSet(q)
    <3>1. \A i \in 1 .. Len(q) - 1 : Tail(q)[i] \in ToSet(q)
      BY <2>1, <2>2, <2>4 DEF ToSet
    <3>2. Head(q) \in ToSet(q)
      BY <2>1, <2>2, <2>4 DEF ToSet
    <3>. QED  BY <2>2, <3>1, <3>2 DEF ToSet
  <2>. QED  BY <2>1, <2>5, <2>6
<1>3. ToSet(q) \subseteq S
  BY DEF ToSet
<1>. QED  BY <1>1, <1>2, <1>3

-----------------------------------------------------------------------------
(* The calculation servers.                                                *)

HasReply(c) == \E r \in replies : r.client = c
AtWork(c) == \E w \in CalcWorkers : worker[w].client = c /\ worker[w].at # "idle"
Served(c) == c \in ToSet(arrived) \/ c \in ToSet(pool) \/ AtWork(c) \/ HasReply(c)
Entitled(c) == proto = "tcp" /\ ~over /\ client[c] \in {"connected", "waiting"} /\ Answerable(request[c])

WorkerStates == [client : CalcClients \cup {""}, at : {"idle", "test", "recv"}]

CalcTypes ==
    /\ worker \in [CalcWorkers -> WorkerStates]
    /\ arrived \in Seq(CalcClients) /\ pool \in Seq(CalcClients)
    /\ client \in [CalcClients -> {"idle", "connected", "waiting", "done"}]
    /\ DOMAIN outcome = CalcClients

\* The connection of a client that can be answered is in the backlog, in the
\* pool or in the hands of a worker until it is answered, and not closed before.
CalcInv ==
    /\ CalcTypes
    /\ mainPc \in {"shutdown", "ended"} => over
    /\ \A c \in closed : HasReply(c) \/ client[c] = "done"
    /\ \A c \in CalcClients : Entitled(c) => Served(c)
    /\ OnlyBadRequestsFail

LEMMA CalcUnchanged == ASSUME CalcInv, UNCHANGED calcVars PROVE CalcInv'
BY DEF CalcInv, CalcTypes, Entitled, Served, AtWork, HasReply, OnlyBadRequestsFail, calcVars

LEMMA CalcMainStep ==
  ASSUME CalcInv, TimePasses \/ MainTest \/ UdpCloses
  PROVE  CalcInv'
<1>1. /\ UNCHANGED <<proto, held, arrived, pool, worker, request, client, unread, replies, closed, outcome>>
      /\ over => over'
      /\ mainPc' \in {"shutdown", "ended"} => over'
  BY DEF TimePasses, MainTest, UdpCloses, CalcInv
<1>2. \A c \in CalcClients : Entitled(c)' => Entitled(c)
  BY <1>1 DEF Entitled
<1>3. \A c \in CalcClients : Served(c) => Served(c)'
  BY <1>1 DEF Served, AtWork, HasReply
<1>4. OnlyBadRequestsFail'
  BY <1>1 DEF CalcInv, OnlyBadRequestsFail
<1>5. \A c \in closed' : HasReply(c)' \/ client'[c] = "done"
  BY <1>1 DEF CalcInv, HasReply
<1>. QED  BY <1>1, <1>2, <1>3, <1>4, <1>5 DEF CalcInv, CalcTypes

LEMMA MainTakesStep ==
  ASSUME CalcInv, MainTakes
  PROVE  CalcInv'
<1>1. /\ arrived # <<>> /\ arrived' = Tail(arrived) /\ pool' = Append(pool, Head(arrived)) /\ mainPc' = "test"
      /\ UNCHANGED <<proto, over, worker, request, client, unread, replies, closed, outcome>>
  BY DEF MainTakes, Submitted
<1>2. /\ arrived \in Seq(CalcClients) /\ pool \in Seq(CalcClients)
  BY DEF CalcInv, CalcTypes
<1>3. /\ Head(arrived) \in CalcClients /\ arrived' \in Seq(CalcClients) /\ pool' \in Seq(CalcClients)
      /\ ToSet(arrived) = {Head(arrived)} \cup ToSet(arrived')
      /\ ToSet(pool') = ToSet(pool) \cup {Head(arrived)}
  BY <1>1, <1>2, ToSetFacts
<1>4. \A c \in CalcClients : (Entitled(c)' => Entitled(c)) /\ (Served(c) => Served(c)')
  BY <1>1, <1>3 DEF Entitled, Served, AtWork, HasReply
<1>5. OnlyBadRequestsFail'
  BY <1>1 DEF CalcInv, OnlyBadRequestsFail
<1>6. \A c \in closed' : HasReply(c)' \/ client'[c] = "done"
  BY <1>1 DEF CalcInv, HasReply
<1>. QED  BY <1>1, <1>3, <1>4, <1>5, <1>6 DEF CalcInv, CalcTypes

LEMMA StartStep ==
  ASSUME CalcInv, NEW w \in CalcWorkers, Start(w)
  PROVE  CalcInv'
<1>1. /\ worker[w] = Idle /\ pool # <<>>
      /\ worker' = [worker EXCEPT ![w] = [client |-> Head(pool), at |-> "test"]] /\ pool' = Tail(pool)
      /\ UNCHANGED <<proto, over, mainPc, held, arrived, request, client, unread, replies, closed, outcome>>
  BY DEF Start, Pending1
<1>2. pool \in Seq(CalcClients) /\ worker \in [CalcWorkers -> WorkerStates]
  BY DEF CalcInv, CalcTypes
<1>3. PICK b \in CalcClients : /\ b = Head(pool) /\ pool' \in Seq(CalcClients)
                              /\ ToSet(pool) = {b} \cup ToSet(pool')
  BY <1>1, <1>2, ToSetFacts
<1>4. /\ worker' \in [CalcWorkers -> WorkerStates]
      /\ worker'[w].client = b /\ worker'[w].at = "test" /\ worker[w].at = "idle"
      /\ \A v \in CalcWorkers : v # w => worker'[v] = worker[v]
  <2>1. PICK r \in WorkerStates : r = [client |-> b, at |-> "test"]
    BY DEF WorkerStates
  <2>2. worker' = [worker EXCEPT ![w] = r]
    BY <1>1, <1>3, <2>1, Zenon
  <2>3. r.client = b /\ r.at = "test"
    BY <2>1
  <2>4. Idle.at = "idle" /\ worker[w] = Idle
    BY <1>1 DEF Idle
  <2>. QED  BY <1>2, <2>2, <2>3, <2>4
<1>5. \A c \in CalcClients : Entitled(c)' => Entitled(c)
  BY <1>1 DEF Entitled
<1>6. \A c \in CalcClients : Served(c) => Served(c)'
  <2>1. \A c \in CalcClients : AtWork(c) => AtWork(c)'
    BY <1>4 DEF AtWork
  <2>2. AtWork(b)'
    BY <1>4 DEF AtWork
  <2>. QED  BY <1>1, <1>3, <2>1, <2>2 DEF Served, HasReply
<1>7. OnlyBadRequestsFail'
  BY <1>1 DEF CalcInv, OnlyBadRequestsFail
<1>8. \A c \in closed' : HasReply(c)' \/ client'[c] = "done"
  BY <1>1 DEF CalcInv, HasReply
<1>. QED  BY <1>1, <1>3, <1>4, <1>5, <1>6, <1>7, <1>8 DEF CalcInv, CalcTypes

\* A worker that goes on with its task, or drops it when no client that can be
\* answered needs it.
LEMMA WorkerStep1 ==
  ASSUME CalcInv, NEW w \in CalcWorkers, NEW r \in WorkerStates, worker' = [worker EXCEPT ![w] = r],
         UNCHANGED <<proto, over, mainPc, arrived, pool, request, client, outcome>>,
         replies \subseteq replies',
         \A c \in closed' : c \in closed \/ HasReply(c)' \/ client[c] = "done",
         \A c \in CalcClients : Entitled(c) /\ worker[w].client = c =>
            HasReply(c)' \/ (r.client = c /\ r.at # "idle")
  PROVE  CalcInv'
<1>1. worker \in [CalcWorkers -> WorkerStates]
  BY DEF CalcInv, CalcTypes
<1>2. /\ worker' \in [CalcWorkers -> WorkerStates] /\ worker'[w] = r
      /\ \A v \in CalcWorkers : v # w => worker'[v] = worker[v]
  BY <1>1
<1>3. \A c \in CalcClients : Entitled(c)' => Entitled(c)
  BY DEF Entitled
<1>4. \A c : HasReply(c) => HasReply(c)'
  BY DEF HasReply
<1>5. \A c \in CalcClients : Entitled(c) /\ Served(c) => Served(c)'
  <2>1. ASSUME NEW c \in CalcClients, Entitled(c), AtWork(c) PROVE AtWork(c)' \/ HasReply(c)'
    <3>1. PICK v \in CalcWorkers : worker[v].client = c /\ worker[v].at # "idle"
      BY <2>1 DEF AtWork
    <3>2. CASE v = w
      BY <1>2, <2>1, <3>1, <3>2 DEF AtWork
    <3>3. CASE v # w
      BY <1>2, <3>1, <3>3 DEF AtWork
    <3>. QED  BY <3>2, <3>3
  <2>. QED  BY <1>4, <2>1 DEF Served
<1>6. OnlyBadRequestsFail'
  BY DEF CalcInv, OnlyBadRequestsFail
<1>7. \A c \in closed' : HasReply(c)' \/ client'[c] = "done"
  BY <1>4 DEF CalcInv
<1>. QED  BY <1>2, <1>3, <1>5, <1>6, <1>7 DEF CalcInv, CalcTypes

LEMMA WorkerKept ==
  ASSUME CalcInv, NEW w \in CalcWorkers, WorkerStep(w)
  PROVE  CalcInv'
<1>1. worker[w] \in WorkerStates /\ Idle \in WorkerStates
  BY DEF CalcInv, CalcTypes, WorkerStates, Idle
<1>2. PICK b \in CalcClients \cup {""} : b = worker[w].client
  BY <1>1 DEF WorkerStates
<1>3. CASE Start(w)
  BY <1>3, StartStep
<1>4. CASE UdpProcess(w)
  <2>1. /\ worker' = [worker EXCEPT ![w] = Idle] /\ proto = "udp" /\ replies \subseteq replies'
        /\ UNCHANGED <<proto, over, mainPc, arrived, pool, request, client, outcome, closed>>
    BY <1>4 DEF UdpProcess
  <2>2. \A c \in CalcClients : ~Entitled(c)
    BY <2>1 DEF Entitled
  <2>. QED  BY <1>1, <2>1, <2>2, WorkerStep1
<1>5. CASE TcpTest(w)
  <2>1. /\ UNCHANGED <<proto, over, mainPc, arrived, pool, request, client, outcome, closed, replies>>
        /\ worker' = [worker EXCEPT ![w] = IF over THEN Idle ELSE [worker[w] EXCEPT !.at = "recv"]]
    BY <1>5 DEF TcpTest
  <2>2. PICK r \in WorkerStates : r = IF over THEN Idle ELSE [worker[w] EXCEPT !.at = "recv"]
    BY <1>1 DEF WorkerStates
  <2>3. \A c \in CalcClients : Entitled(c) /\ worker[w].client = c => r.client = c /\ r.at # "idle"
    BY <1>1, <2>2 DEF Entitled, WorkerStates
  <2>4. worker' = [worker EXCEPT ![w] = r]
    BY <2>1, <2>2
  <2>. QED  BY <2>1, <2>3, <2>4, WorkerStep1
<1>6. CASE TcpRequest(w)
  <2>1. /\ UNCHANGED <<proto, over, mainPc, arrived, pool, request, client, outcome>>
        /\ replies \subseteq replies'
    BY <1>6 DEF TcpRequest
  <2>2. CASE Answerable(request[b])
    <3>1. /\ closed' = closed \cup {b} /\ worker' = [worker EXCEPT ![w].at = "test"]
          /\ [client |-> b, result |-> Function(request[b].op, request[b].operands)] \in replies'
      BY <1>2, <1>6, <2>2 DEF TcpRequest
    <3>2. HasReply(b)'
      BY <3>1 DEF HasReply
    <3>3. PICK r \in WorkerStates : r = [worker[w] EXCEPT !.at = "test"]
      BY <1>1 DEF WorkerStates
    <3>4. worker' = [worker EXCEPT ![w] = r]
      BY <3>1, <3>3
    <3>5. \A c \in closed' : c \in closed \/ HasReply(c)' \/ client[c] = "done"
      BY <3>1, <3>2
    <3>6. \A c \in CalcClients : Entitled(c) /\ worker[w].client = c => HasReply(c)'
      BY <1>2, <3>2
    <3>. QED  BY <2>1, <3>4, <3>5, <3>6, WorkerStep1
  <2>3. CASE ~Answerable(request[b])
    <3>1. worker' = [worker EXCEPT ![w] = Idle] /\ closed' = closed
      BY <1>2, <1>6, <2>3 DEF TcpRequest
    <3>2. \A c \in CalcClients : ~(Entitled(c) /\ worker[w].client = c)
      BY <1>2, <2>3 DEF Entitled
    <3>. QED  BY <1>1, <2>1, <3>1, <3>2, WorkerStep1
  <2>. QED  BY <2>2, <2>3
<1>7. CASE TcpGone(w)
  <2>1. /\ UNCHANGED <<proto, over, mainPc, arrived, pool, request, client, outcome, replies>>
        /\ worker' = [worker EXCEPT ![w] = Idle]
        /\ \/ b \in closed /\ closed' = closed
           \/ client[b] = "done" /\ closed' = closed \cup {b}
    BY <1>2, <1>7 DEF TcpGone, AtEof
  <2>2. \A c \in closed' : c \in closed \/ client[c] = "done"
    BY <2>1
  <2>3. \A c : HasReply(c) => HasReply(c)'
    BY <2>1 DEF HasReply
  <2>4. HasReply(b) \/ client[b] = "done"
    BY <2>1 DEF CalcInv
  <2>5. client[b] = "done" => ~Entitled(b)
    BY DEF Entitled
  <2>6. \A c \in CalcClients : Entitled(c) /\ worker[w].client = c => HasReply(c)'
    BY <1>2, <2>3, <2>4, <2>5
  <2>. QED  BY <1>1, <2>1, <2>2, <2>6, WorkerStep1
<1>. QED  BY <1>3, <1>4, <1>5, <1>6, <1>7 DEF WorkerStep

\* A client that is no longer served ends, or has just begun.
LEMMA ClientMoves ==
  ASSUME CalcInv, NEW c \in CalcClients, NEW v \in {"connected", "waiting", "done"},
         client' = [client EXCEPT ![c] = v], client[c] # "done",
         arrived' \in {arrived, Append(arrived, c)},
         UNCHANGED <<proto, over, mainPc, pool, worker, request, replies, closed>>,
         v = "connected" => arrived' = Append(arrived, c),
         v = "waiting" => client[c] = "connected" \/ proto = "udp",
         DOMAIN outcome' = CalcClients, \A d \in CalcClients : d # c => outcome'[d] = outcome[d],
         outcome'[c] = outcome[c] \/ outcome'[c].kind # "error" \/ over \/ ~Answerable(request[c])
  PROVE  CalcInv'
<1>1. /\ client \in [CalcClients -> {"idle", "connected", "waiting", "done"}]
      /\ arrived \in Seq(CalcClients)
  BY DEF CalcInv, CalcTypes
<1>2. /\ client' \in [CalcClients -> {"idle", "connected", "waiting", "done"}] /\ client'[c] = v
      /\ \A d : d # c => client'[d] = client[d]
  BY <1>1
<1>3. /\ arrived' \in Seq(CalcClients) /\ ToSet(arrived) \subseteq ToSet(arrived')
      /\ v = "connected" => c \in ToSet(arrived')
  <2>1. Append(arrived, c) \in Seq(CalcClients) /\ ToSet(Append(arrived, c)) = ToSet(arrived) \cup {c}
    BY <1>1, ToSetFacts
  <2>2. CASE arrived' = arrived
    <3>1. v # "connected"
      BY <1>1, <2>2
    <3>. QED  BY <1>1, <2>2, <3>1
  <2>3. CASE arrived' = Append(arrived, c)
    BY <2>1, <2>3
  <2>. QED  BY <2>2, <2>3
<1>4. \A d \in CalcClients : Served(d) => Served(d)'
  BY <1>3 DEF Served, AtWork, HasReply
<1>5. ASSUME NEW d \in CalcClients, Entitled(d)' PROVE Served(d)'
  <2>1. CASE Entitled(d)
    BY <1>4, <2>1 DEF CalcInv
  <2>2. CASE ~Entitled(d)
    <3>1. d = c /\ v = "connected"
      BY <1>2, <1>5, <2>2 DEF Entitled
    <3>. QED  BY <1>3, <3>1 DEF Served
  <2>. QED  BY <2>1, <2>2
<1>6. OnlyBadRequestsFail'
  BY DEF CalcInv, OnlyBadRequestsFail
<1>7. \A d \in closed' : HasReply(d)' \/ client'[d] = "done"
  BY <1>2 DEF CalcInv, HasReply
<1>. QED  BY <1>2, <1>3, <1>5, <1>6, <1>7 DEF CalcInv, CalcTypes

LEMMA ClientKept ==
  ASSUME CalcInv, NEW c \in CalcClients, ClientStep(c)
  PROVE  CalcInv'
<1>1. DOMAIN outcome = CalcClients
  BY DEF CalcInv, CalcTypes
<1>2. CASE Connect(c)
  BY <1>1, <1>2, ClientMoves DEF Connect
<1>3. ASSUME NEW kind, NEW result, Ends(c, kind, result)
      PROVE  /\ client' = [client EXCEPT ![c] = "done"] /\ DOMAIN outcome' = CalcClients
             /\ outcome'[c].kind = kind
             /\ \A d \in CalcClients : d # c => outcome'[d] = outcome[d]
  BY <1>1, <1>3 DEF Ends
<1>4. ASSUME client[c] # "done", UNCHANGED <<proto, over, mainPc, arrived, pool, worker, request, replies, closed>>,
             NEW kind, NEW result, Ends(c, kind, result),
             kind # "error" \/ over \/ ~Answerable(request[c])
      PROVE  CalcInv'
  <2>1. outcome'[c].kind # "error" \/ over \/ ~Answerable(request[c])
    BY <1>3, <1>4
  <2>. QED  BY <1>3, <1>4, <2>1, ClientMoves
<1>5. CASE ConnectRefused(c)
  <2>1. over
    BY <1>5 DEF ConnectRefused, Exited, CalcInv
  <2>. QED  BY <1>4, <1>5, <2>1 DEF ConnectRefused
<1>6. CASE TcpSend(c)
  BY <1>1, <1>6, ClientMoves DEF TcpSend
<1>7. CASE PackRaises(c)
  <2>1. ~Answerable(request[c])
    BY <1>7 DEF PackRaises, Answerable
  <2>2. client[c] # "done"
    BY <1>7 DEF PackRaises
  <2>. QED  BY <1>4, <1>7, <2>1, <2>2 DEF PackRaises
<1>8. CASE UdpSend(c)
  BY <1>1, <1>8, ClientMoves DEF UdpSend
<1>9. CASE Receive(c)
  <2>1. PICK r \in replies : Ends(c, "answer", r.result)
    BY <1>9 DEF Receive
  <2>. QED  BY <1>4, <1>9, <2>1 DEF Receive
<1>10. CASE ReceiveEof(c)
  <2>1. proto = "tcp" /\ client[c] = "waiting" /\ ~ServerEndOpen(c) /\ ~HasReply(c)
    BY <1>10 DEF ReceiveEof, HasReply
  <2>2. c \notin closed
    BY <2>1 DEF CalcInv
  <2>3. ASSUME ~over, Answerable(request[c]) PROVE FALSE
    <3>1. c \in ToSet(arrived) \/ c \in ToSet(pool) \/ AtWork(c)
      BY <2>1, <2>3 DEF CalcInv, Entitled, Served
    <3>2. ~Exited
      BY <2>3 DEF CalcInv, Exited
    <3>. QED  BY <2>1, <2>2, <3>1, <3>2 DEF ServerEndOpen, Tasks, AtWork
  <2>. QED  BY <1>4, <1>10, <2>1, <2>3 DEF ReceiveEof
<1>11. CASE Timeout(c)
  BY <1>4, <1>11 DEF Timeout
<1>. QED  BY <1>2, <1>5, <1>6, <1>7, <1>8, <1>9, <1>10, <1>11 DEF ClientStep

LEMMA CalcStep == ASSUME CalcInv, CalcNext PROVE CalcInv'
BY CalcMainStep, MainTakesStep, WorkerKept, ClientKept DEF CalcNext, MainStep

LEMMA CalcStarts == ASSUME CalcInit \/ CalcOff PROVE CalcInv
<1>1. ToSet(<<>>) = {}
  BY DEF ToSet
<1>2. /\ arrived = <<>> /\ pool = <<>> /\ closed = {}
      /\ worker = [w \in CalcWorkers |-> Idle]
      /\ outcome = [c \in CalcClients |-> NoOutcome]
      /\ client \in [CalcClients -> {"idle", "done"}]
      /\ mainPc \in {"shutdown", "ended"} => over
  BY DEF CalcInit, CalcOff
<1>3. CalcTypes
  <2>1. Idle \in WorkerStates
    BY DEF WorkerStates, Idle
  <2>. QED  BY <1>2, <2>1 DEF CalcTypes
<1>4. OnlyBadRequestsFail
  BY <1>2 DEF OnlyBadRequestsFail, NoOutcome
<1>. QED  BY <1>2, <1>3, <1>4 DEF CalcInv, Entitled

-----------------------------------------------------------------------------
(* The chat client.                                                        *)

IsEnd(c, k) == k \in Links /\ c \in {links[k].from, links[k].to}

UserStates == [pc : {"idle", "send", "accept", "store"}, peer : Peers \cup {""}, refs : Seq(Nat)]
ConnectorStates == [pc : {"idle", "store", "dead"}, peer : Peers \cup {""}, link : Nat]
LoopStates == [copied : SUBSET Nat, ready : SUBSET Nat, todo : SUBSET Nat, last : Nat]

ChatTypes ==
    /\ users \in [Peers -> SUBSET Peers] /\ \A c \in Peers : users[c] \subseteq Others(c)
    /\ DOMAIN conn = Peers /\ \A c \in Peers : DOMAIN conn[c] = Others(c)
    /\ DOMAIN nick = Peers /\ DOMAIN heard = Peers /\ DOMAIN reader = Peers
    /\ links \in Seq([from : Peers, to : Peers])
    /\ queued \in [Peers -> Seq(Nat)] /\ requests1 \in [Peers -> Seq(Peers)]
    /\ user \in [Peers -> UserStates] /\ connector \in [Peers -> ConnectorStates]
    /\ loop \in [Peers -> LoopStates]

\* A connection has two ends; what is read at one was sent at the other.
BuffersRight ==
    /\ \A k \in Links : links[k].from # links[k].to
    /\ \A k \in Nat : \A c \in Peers : <<k, c>> \in DOMAIN buffer <=> IsEnd(c, k)
    /\ \A k \in Links : \A c \in Peers : IsEnd(c, k) =>
          /\ buffer[<<k, c>>] \in Seq(Peers)
          /\ \A i \in 1 .. Len(buffer[<<k, c>>]) : buffer[<<k, c>>][i] = OtherEnd(c, k)

\* Only a client at one of the ends refers to a connection: it has accepted it,
\* or connected itself.
BacklogRight(c) == \A k \in ToSet(queued[c]) : k \in Links /\ links[k].to = c
UserRight(c) ==
    /\ \A k \in ToSet(user[c].refs) : k \in Links /\ links[k].to = c
    /\ user[c].pc # "idle" => user[c].peer \in Others(c)
    /\ user[c].pc = "store" => user[c].refs # <<>>
ConnectorRight(c) ==
    connector[c].pc = "store" =>
       /\ connector[c].link \in Links /\ connector[c].peer \in Others(c)
       /\ links[connector[c].link].from = c /\ links[connector[c].link].to = connector[c].peer
NamesKnown(c) ==
    /\ \A p \in Others(c) : conn[c][p] # 0 => conn[c][p] \in DOMAIN nick[c]
    /\ \A k \in DOMAIN nick[c] : IsEnd(c, k)
    /\ loop[c].copied \cup loop[c].todo \subseteq {0} \cup DOMAIN nick[c]
EndsRight ==
    BuffersRight /\ \A c \in Peers : BacklogRight(c) /\ UserRight(c) /\ ConnectorRight(c) /\ NamesKnown(c)

\* Until its accept has timed out, a client waits for the one connection it
\* asked for, and knows whose it is.
AskedOnce(c) ==
    /\ \A p \in Peers : c \in ToSet(requests1[p]) =>
          /\ user[c].pc = "accept" /\ user[c].peer = p /\ queued[c] = <<>>
          /\ \A i, j \in 1 .. Len(requests1[p]) : requests1[p][i] = c /\ requests1[p][j] = c => i = j
    /\ \A k \in ToSet(queued[c]) : user[c].pc = "accept" /\ links[k].from = user[c].peer
    /\ Len(queued[c]) <= 1
    /\ user[c].pc = "store" => links[Last(user[c].refs)].from = user[c].peer
NamesRight(c) ==
    /\ \A k \in DOMAIN nick[c] : nick[c][k] = OtherEnd(c, k)
    /\ \A m \in heard[c] : m.nick = m.from

\* The end of a connection is held by the backlog, by the thread that is about
\* to store it or by the list of clients.
Held(c, k) ==
    \/ k \in ToSet(queued[c])
    \/ user[c].pc = "store" /\ k = Last(user[c].refs)
    \/ connector[c].pc = "store" /\ k = connector[c].link
    \/ \E p \in users[c] : conn[c][p] = k

\* As long as nothing is dropped, no end is lost, and the client thread reads
\* only where there is something to read.
ConnectionsKept(c) ==
    /\ user[c].pc # "idle" => user[c].peer \in users[c]
    /\ connector[c].pc = "store" => connector[c].peer \in users[c]
    /\ \A k \in Links : IsEnd(c, k) => Held(c, k)
    /\ reader[c] # "dead"
    /\ \A k \in loop[c].todo : Unread(c, k)

ChatInv ==
    /\ ChatTypes /\ EndsRight
    /\ \A c \in Peers \ timedOut : AskedOnce(c) /\ NamesRight(c)
    /\ ~hup /\ ~dropped => \A c \in Peers : ConnectionsKept(c)

\* What a longer sequence, one without its first and the last element are.
LEMMA SeqFacts ==
  ASSUME NEW S, NEW q \in Seq(S)
  PROVE  /\ Len(q) \in Nat /\ DOMAIN q = 1 .. Len(q)
         /\ \A i \in 1 .. Len(q) : q[i] \in S /\ q[i] \in ToSet(q)
         /\ \A x \in S : /\ Append(q, x) \in Seq(S) /\ Len(Append(q, x)) = Len(q) + 1
                         /\ Append(q, x)[Len(q) + 1] = x /\ Append(q, x) # <<>>
                         /\ \A i \in 1 .. Len(q) : Append(q, x)[i] = q[i]
                         /\ Last(Append(q, x)) = x
         /\ q # <<>> => /\ Tail(q) \in Seq(S) /\ Len(Tail(q)) = Len(q) - 1 /\ Len(q) > 0
                        /\ \A i \in 1 .. Len(q) - 1 : Tail(q)[i] = q[i + 1]
                        /\ Last(q) \in ToSet(q) /\ Last(q) \in S
         /\ ToSet(q) = {} => q = <<>>
         /\ Len(q) = 0 => q = <<>>
<1>1. Len(q) \in Nat /\ DOMAIN q = 1 .. Len(q) /\ \A i \in 1 .. Len(q) : q[i] \in S
  OBVIOUS
<1>2. \A i \in 1 .. Len(q) : q[i] \in ToSet(q)
  BY <1>1 DEF ToSet
<1>3. ASSUME NEW x \in S
      PROVE  /\ Append(q, x) \in Seq(S) /\ Len(Append(q, x)) = Len(q) + 1
             /\ Append(q, x)[Len(q) + 1] = x /\ Append(q, x) # <<>>
             /\ \A i \in 1 .. Len(q) : Append(q, x)[i] = q[i]
             /\ Last(Append(q, x)) = x
  <2>1. /\ Append(q, x) \in Seq(S) /\ Len(Append(q, x)) = Len(q) + 1
        /\ Append(q, x)[Len(q) + 1] = x /\ Append(q, x) # <<>>
        /\ \A i \in 1 .. Len(q) : Append(q, x)[i] = q[i]
    OBVIOUS
  <2>. QED  BY <2>1 DEF Last
<1>4. ASSUME q # <<>>
      PROVE  /\ Tail(q) \in Seq(S) /\ Len(Tail(q)) = Len(q) - 1 /\ Len(q) > 0
             /\ \A i \in 1 .. Len(q) - 1 : Tail(q)[i] = q[i + 1]
             /\ Last(q) \in ToSet(q) /\ Last(q) \in S
  <2>1. /\ Tail(q) \in Seq(S) /\ Len(Tail(q)) = Len(q) - 1 /\ Len(q) > 0
        /\ \A i \in 1 .. Len(q) - 1 : Tail(q)[i] = q[i + 1]
    BY <1>4
  <2>2. Len(q) \in 1 .. Len(q)
    BY <1>1, <2>1
  <2>. QED  BY <1>1, <1>2, <2>1, <2>2 DEF Last
<1>5. ASSUME ToSet(q) = {} PROVE q = <<>>
  <2>1. Len(q) = 0
    BY <1>1, <1>2, <1>5
  <2>. QED  BY <2>1
<1>6. Len(q) = 0 => q = <<>>
  OBVIOUS
<1>. QED  BY <1>1, <1>2, <1>3, <1>4, <1>5, <1>6

\* The connections are numbered.
LEMMA LinkFacts ==
  ASSUME ChatTypes
  PROVE  /\ Links = 1 .. Len(links) /\ Len(links) \in Nat /\ Links \subseteq Nat \ {0}
         /\ \A k \in Links : links[k].from \in Peers /\ links[k].to \in Peers
<1>1. PICK S : S = [from : Peers, to : Peers]
  OBVIOUS
<1>2. links \in Seq(S)
  BY <1>1 DEF ChatTypes
<1>3. Links = 1 .. Len(links) /\ Len(links) \in Nat /\ \A k \in Links : links[k] \in S
  BY <1>2, SeqFacts DEF Links
<1>. QED  BY <1>1, <1>3

\* The two ends of a connection.
LEMMA EndFacts ==
  ASSUME ChatTypes, BuffersRight, NEW c \in Peers, NEW k, IsEnd(c, k)
  PROVE  /\ k \in Links /\ k \in Nat /\ k # 0
         /\ OtherEnd(c, k) \in Others(c) /\ IsEnd(OtherEnd(c, k), k)
         /\ OtherEnd(OtherEnd(c, k), k) = c /\ OtherEnd(c, k) # c
<1>1. k \in Links /\ k \in Nat /\ k # 0 /\ links[k].from \in Peers /\ links[k].to \in Peers
  BY LinkFacts DEF IsEnd
<1>2. links[k].from # links[k].to /\ c \in {links[k].from, links[k].to}
  BY <1>1 DEF BuffersRight, IsEnd
<1>. QED  BY <1>1, <1>2 DEF OtherEnd, Others, IsEnd

\* What depends on the user thread of a client, after it has moved on.
LEMMA UserMoves ==
  ASSUME ChatTypes, NEW c \in Peers, NEW r \in UserStates, user' = [user EXCEPT ![c] = r]
  PROVE  /\ user' \in [Peers -> UserStates] /\ user'[c] = r
         /\ \A d \in Peers : d # c => user'[d] = user[d]
BY DEF ChatTypes

LEMMA ChatUnchanged == ASSUME ChatInv, UNCHANGED chatVars PROVE ChatInv'
<1>1. /\ UNCHANGED <<hup, users, conn, nick, links, buffer, queued, requests1>>
      /\ UNCHANGED <<user, connector, loop, reader, heard, sends, updates, timedOut, dropped>>
  BY DEF chatVars
<1>2. ChatTypes'
  BY <1>1 DEF ChatInv, ChatTypes
<1>3. EndsRight'
  BY <1>1 DEF ChatInv, EndsRight, BuffersRight, BacklogRight, UserRight, ConnectorRight, NamesKnown,
              IsEnd, OtherEnd, Links
<1>4. \A c \in Peers \ timedOut' : AskedOnce(c)' /\ NamesRight(c)'
  BY <1>1 DEF ChatInv, AskedOnce, NamesRight, OtherEnd
<1>5. ~hup' /\ ~dropped' => \A c \in Peers : ConnectionsKept(c)'
  BY <1>1 DEF ChatInv, ConnectionsKept, Held, Unread, IsEnd, Links
<1>. QED  BY <1>2, <1>3, <1>4, <1>5 DEF ChatInv

\* The parts of the invariant that a step leaves alone.
LEMMA PartsKept ==
  ASSUME ChatInv
  PROVE  /\ UNCHANGED <<links, buffer>> => BuffersRight'
         /\ UNCHANGED <<links, queued>> => \A c \in Peers : BacklogRight(c)'
         /\ UNCHANGED <<links, user>> => \A c \in Peers : UserRight(c)'
         /\ UNCHANGED <<links, connector>> => \A c \in Peers : ConnectorRight(c)'
         /\ UNCHANGED <<links, conn, nick, loop>> => \A c \in Peers : NamesKnown(c)'
         /\ UNCHANGED <<links, queued, requests1, user, timedOut>> =>
               \A c \in Peers \ timedOut' : AskedOnce(c)'
         /\ UNCHANGED <<links, nick, heard, timedOut>> => \A c \in Peers \ timedOut' : NamesRight(c)'
<1>1. UNCHANGED <<links, buffer>> => BuffersRight'
  BY DEF ChatInv, EndsRight, BuffersRight, IsEnd, OtherEnd, Links
<1>2. UNCHANGED <<links, queued>> => \A c \in Peers : BacklogRight(c)'
  BY DEF ChatInv, EndsRight, BacklogRight, Links
<1>3. UNCHANGED <<links, user>> => \A c \in Peers : UserRight(c)'
  BY DEF ChatInv, EndsRight, UserRight, Links
<1>4. UNCHANGED <<links, connector>> => \A c \in Peers : ConnectorRight(c)'
  BY DEF ChatInv, EndsRight, ConnectorRight, Links
<1>5. UNCHANGED <<links, conn, nick, loop>> => \A c \in Peers : NamesKnown(c)'
  BY DEF ChatInv, EndsRight, NamesKnown, IsEnd, Links
<1>6. UNCHANGED <<links, queued, requests1, user, timedOut>> => \A c \in Peers \ timedOut' : AskedOnce(c)'
  BY DEF ChatInv, AskedOnce
<1>7. UNCHANGED <<links, nick, heard, timedOut>> => \A c \in Peers \ timedOut' : NamesRight(c)'
  BY DEF ChatInv, NamesRight, OtherEnd
<1>. QED  BY <1>1, <1>2, <1>3, <1>4, <1>5, <1>6, <1>7

\* A thread that rests.
LEMMA RestingTyped == NotSending \in UserStates /\ Resting \in ConnectorStates
<1>1. <<>> \in Seq(Nat)
  OBVIOUS
<1>2. \A s \in Seq(Nat) : [pc |-> "idle", peer |-> "", refs |-> s] \in UserStates
  BY DEF UserStates
<1>3. NotSending \in UserStates
  BY <1>1, <1>2 DEF NotSending
<1>4. Resting \in ConnectorStates
  BY DEF ConnectorStates, Resting
<1>. QED  BY <1>3, <1>4

LEMMA UserAddedStep ==
  ASSUME ChatInv, NEW c \in Peers, NEW p \in Others(c), UserAdded(c, p)
  PROVE  ChatInv'
<1>1. /\ users' = [users EXCEPT ![c] = @ \cup {p}] /\ conn' = [conn EXCEPT ![c][p] = 0]
      /\ dropped' = (dropped \/ p \in users[c])
      /\ UNCHANGED <<hup, nick, links, buffer, queued, requests1, user, connector>>
      /\ UNCHANGED <<loop, reader, heard, timedOut>>
  BY DEF UserAdded
<1>2. /\ \A d \in Peers : users[d] \subseteq users'[d] /\ users'[d] \subseteq Others(d)
      /\ users' \in [Peers -> SUBSET Peers] /\ users'[c] = users[c] \cup {p}
      /\ \A d \in Peers : d # c => users'[d] = users[d]
  BY <1>1 DEF ChatInv, ChatTypes, Others
<1>3. /\ DOMAIN conn' = Peers /\ \A d \in Peers : DOMAIN conn'[d] = Others(d)
      /\ conn'[c][p] = 0
      /\ \A d \in Peers : \A q \in Others(d) : d # c \/ q # p => conn'[d][q] = conn[d][q]
  BY <1>1 DEF ChatInv, ChatTypes
<1>4. ChatTypes'
  BY <1>1, <1>2, <1>3 DEF ChatInv, ChatTypes
<1>5. \A d \in Peers : NamesKnown(d)'
  BY <1>1, <1>3 DEF ChatInv, EndsRight, NamesKnown, IsEnd, Links
<1>6. EndsRight'
  BY <1>1, <1>5, PartsKept DEF EndsRight
<1>7. \A d \in Peers \ timedOut' : AskedOnce(d)' /\ NamesRight(d)'
  BY <1>1, PartsKept
<1>8. ASSUME ~hup', ~dropped', NEW d \in Peers PROVE ConnectionsKept(d)'
  <2>1. ConnectionsKept(d) /\ p \notin users[c]
    BY <1>1, <1>8 DEF ChatInv
  <2>2. \A k \in Links : Held(d, k) => Held(d, k)'
    <3>1. \A q \in users[d] : q \in users'[d] /\ conn'[d][q] = conn[d][q]
      BY <1>2, <1>3, <2>1 DEF ChatInv, ChatTypes
    <3>. QED  BY <1>1, <3>1 DEF Held
  <2>. QED  BY <1>1, <1>2, <2>1, <2>2 DEF ConnectionsKept, IsEnd, Links, Unread
<1>. QED  BY <1>4, <1>6, <1>7, <1>8 DEF ChatInv

LEMMA UserRemovedStep ==
  ASSUME ChatInv, NEW c \in Peers, NEW p \in Others(c), UserRemoved(c, p)
  PROVE  ChatInv'
<1>1. /\ users' = [users EXCEPT ![c] = @ \ {p}] /\ dropped'
      /\ UNCHANGED <<hup, conn, nick, links, buffer, queued, requests1, user, connector>>
      /\ UNCHANGED <<loop, reader, heard, timedOut>>
  BY DEF UserRemoved
<1>2. users' \in [Peers -> SUBSET Peers] /\ \A d \in Peers : users'[d] \subseteq Others(d)
  BY <1>1 DEF ChatInv, ChatTypes
<1>3. ChatTypes'
  BY <1>1, <1>2 DEF ChatInv, ChatTypes
<1>4. EndsRight' /\ \A d \in Peers \ timedOut' : AskedOnce(d)' /\ NamesRight(d)'
  BY <1>1, PartsKept DEF EndsRight
<1>. QED  BY <1>1, <1>3, <1>4 DEF ChatInv

LEMMA SendMessageStep ==
  ASSUME ChatInv, NEW c \in Peers, NEW p \in Others(c), SendMessage(c, p)
  PROVE  ChatInv'
<1>1. /\ user[c].pc = "idle" /\ p \in users[c]
      /\ UNCHANGED <<hup, users, conn, nick, links, buffer, queued, requests1, connector>>
      /\ UNCHANGED <<loop, reader, heard, timedOut, dropped>>
  BY DEF SendMessage
<1>2. PICK r \in UserStates : r = [NotSending EXCEPT !.pc = "send", !.peer = p]
  <2>1. PICK n \in UserStates : n = NotSending
    BY RestingTyped
  <2>2. p \in Peers
    BY DEF Others
  <2>3. [n EXCEPT !.pc = "send", !.peer = p] \in UserStates
    BY <2>2 DEF UserStates
  <2>. QED  BY <2>1, <2>3
<1>3. user' = [user EXCEPT ![c] = r] /\ r.pc = "send" /\ r.peer = p /\ r.refs = <<>>
  BY <1>2 DEF SendMessage, NotSending
<1>4. /\ user' \in [Peers -> UserStates] /\ user'[c] = r
      /\ \A d \in Peers : d # c => user'[d] = user[d]
  BY <1>3, UserMoves DEF ChatInv
<1>5. ChatTypes'
  BY <1>1, <1>4 DEF ChatInv, ChatTypes
<1>6. EndsRight'
  <2>1. ToSet(<<>>) = {}
    BY DEF ToSet
  <2>2. \A d \in Peers : UserRight(d)'
    BY <1>1, <1>3, <1>4, <2>1 DEF ChatInv, EndsRight, UserRight, Links
  <2>. QED  BY <1>1, <2>2, PartsKept DEF EndsRight
<1>7. \A d \in Peers \ timedOut' : AskedOnce(d)'
  BY <1>1, <1>3, <1>4, SMTT(30) DEF ChatInv, AskedOnce
<1>8. \A d \in Peers \ timedOut' : NamesRight(d)'
  BY <1>1, PartsKept
<1>9. ASSUME ~hup', ~dropped', NEW d \in Peers PROVE ConnectionsKept(d)'
  BY <1>1, <1>3, <1>4, <1>9 DEF ChatInv, ConnectionsKept, Held, IsEnd, Links, Unread
<1>. QED  BY <1>5, <1>6, <1>7, <1>8, <1>9 DEF ChatInv

\* The names and buffers stay right when a message is sent.
LEMMA SendStep ==
  ASSUME ChatInv, NEW c \in Peers, Send(c)
  PROVE  ChatInv'
<1>1. /\ user[c].pc = "send" /\ conn' = conn /\ user' = [user EXCEPT ![c] = NotSending]
      /\ UNCHANGED <<hup, users, nick, links, queued, requests1, connector>>
      /\ UNCHANGED <<loop, reader, heard, timedOut, dropped>>
  BY DEF Send, AfterSend
<1>2. PICK k : k = Socket(c)
  OBVIOUS
<1>3. k # 0 /\ IsEnd(c, k)
  <2>1. user[c].peer \in Others(c) /\ k = conn[c][user[c].peer] /\ k # 0
    BY <1>1, <1>2 DEF ChatInv, EndsRight, UserRight, Socket, Send
  <2>. QED  BY <2>1 DEF ChatInv, EndsRight, NamesKnown
<1>4. PICK p : p = OtherEnd(c, k)
  OBVIOUS
<1>5. ChatTypes /\ BuffersRight
  BY DEF ChatInv, EndsRight
<1>6. p \in Others(c) /\ p \in Peers /\ IsEnd(p, k) /\ OtherEnd(p, k) = c /\ k \in Links /\ k \in Nat
  <2>1. OtherEnd(c, k) \in Others(c) /\ IsEnd(OtherEnd(c, k), k) /\ OtherEnd(OtherEnd(c, k), k) = c
        /\ k \in Links /\ k \in Nat
    BY <1>3, <1>5, EndFacts
  <2>. QED  BY <1>4, <2>1 DEF Others
<1>7. PICK new : new = IF Open(p, k) THEN Append(buffer[<<k, p>>], c) ELSE buffer[<<k, p>>]
  OBVIOUS
<1>8. buffer' = [buffer EXCEPT ![<<k, p>>] = new]
  BY <1>2, <1>4, <1>7, Zenon DEF Send
<1>9. /\ new \in Seq(Peers) /\ \A i \in 1 .. Len(new) : new[i] = c
      /\ buffer[<<k, p>>] # <<>> => new # <<>>
  <2>1. PICK old \in Seq(Peers) : /\ old = buffer[<<k, p>>]
                                  /\ \A i \in 1 .. Len(old) : old[i] = c
    BY <1>5, <1>6 DEF BuffersRight
  <2>2. /\ Append(old, c) \in Seq(Peers) /\ Append(old, c) # <<>>
        /\ \A i \in 1 .. Len(Append(old, c)) : Append(old, c)[i] = c
    BY <2>1, SeqFacts, SMTT(30)
  <2>. QED  BY <1>7, <2>1, <2>2
<1>10. /\ DOMAIN buffer' = DOMAIN buffer /\ <<k, p>> \in DOMAIN buffer /\ buffer'[<<k, p>>] = new
       /\ \A x \in DOMAIN buffer : x # <<k, p>> => buffer'[x] = buffer[x]
  <2>1. <<k, p>> \in DOMAIN buffer
    BY <1>5, <1>6 DEF BuffersRight
  <2>2. DOMAIN buffer' = DOMAIN buffer /\ \A x \in DOMAIN buffer : x # <<k, p>> => buffer'[x] = buffer[x]
    BY <1>8
  <2>. QED  BY <1>8, <2>1, <2>2
<1>11. PICK r \in UserStates : r = NotSending /\ r.pc = "idle" /\ r.refs = <<>>
  BY RestingTyped DEF NotSending
<1>12. /\ user' \in [Peers -> UserStates] /\ user'[c] = r
       /\ \A d \in Peers : d # c => user'[d] = user[d]
  BY <1>1, <1>5, <1>11, UserMoves
<1>13. ChatTypes'
  BY <1>1, <1>5, <1>12 DEF ChatTypes
<1>14. BuffersRight'
  <2>1. \A j \in Links' : \A d \in Peers : IsEnd(d, j)' =>
           /\ buffer'[<<j, d>>] \in Seq(Peers)
           /\ \A i \in 1 .. Len(buffer'[<<j, d>>]) : buffer'[<<j, d>>][i] = OtherEnd(d, j)'
    <3>1. SUFFICES ASSUME NEW j \in Links, NEW d \in Peers, IsEnd(d, j)
                   PROVE  /\ buffer'[<<j, d>>] \in Seq(Peers)
                          /\ \A i \in 1 .. Len(buffer'[<<j, d>>]) : buffer'[<<j, d>>][i] = OtherEnd(d, j)
      BY <1>1 DEF Links, IsEnd, OtherEnd
    <3>2. CASE <<j, d>> = <<k, p>>
      BY <1>6, <1>9, <1>10, <3>2
    <3>3. CASE <<j, d>> # <<k, p>>
      <4>1. <<j, d>> \in DOMAIN buffer
        BY <1>5, <3>1, LinkFacts DEF BuffersRight
      <4>. QED  BY <1>5, <1>10, <3>1, <3>3, <4>1 DEF BuffersRight
    <3>. QED  BY <3>2, <3>3
  <2>. QED  BY <1>1, <1>5, <1>10, <2>1 DEF BuffersRight, IsEnd, Links
<1>15. EndsRight'
  <2>1. ToSet(<<>>) = {}
    BY DEF ToSet
  <2>2. \A d \in Peers : UserRight(d)'
    BY <1>1, <1>11, <1>12, <2>1 DEF ChatInv, EndsRight, UserRight, Links
  <2>. QED  BY <1>1, <1>14, <2>2, PartsKept DEF EndsRight
<1>16. \A d \in Peers \ timedOut' : AskedOnce(d)'
  BY <1>1, <1>11, <1>12 DEF ChatInv, AskedOnce
<1>17. \A d \in Peers \ timedOut' : NamesRight(d)'
  BY <1>1, PartsKept
<1>18. ASSUME ~hup', ~dropped', NEW d \in Peers PROVE ConnectionsKept(d)'
  <2>1. ConnectionsKept(d)
    BY <1>1, <1>18 DEF ChatInv
  <2>2. \A j : Unread(d, j) => Unread(d, j)'
    BY <1>9, <1>10 DEF Unread
  <2>. QED  BY <1>1, <1>11, <1>12, <2>1, <2>2 DEF ConnectionsKept, Held, IsEnd, Links
<1>. QED  BY <1>13, <1>15, <1>16, <1>17, <1>18 DEF ChatInv

LEMMA SendRaisesStep ==
  ASSUME ChatInv, NEW c \in Peers, SendRaises(c)
  PROVE  ChatInv'
<1>1. /\ user[c].pc = "send" /\ user' = [user EXCEPT ![c].pc = "accept"]
      /\ requests1' \in {requests1, [requests1 EXCEPT ![user[c].peer] = Append(@, c)]}
      /\ UNCHANGED <<hup, users, conn, nick, links, buffer, queued, connector>>
      /\ UNCHANGED <<loop, reader, heard, timedOut, dropped>>
  BY DEF SendRaises
<1>2. ChatTypes
  BY DEF ChatInv
<1>3. PICK p \in Others(c) : p = user[c].peer
  BY <1>1 DEF ChatInv, EndsRight, UserRight
<1>4. PICK r \in UserStates : /\ user' = [user EXCEPT ![c] = r] /\ r.pc = "accept"
                              /\ r.peer = p /\ r.refs = user[c].refs
  <2>1. PICK u \in UserStates : u = user[c]
    BY <1>2 DEF ChatTypes
  <2>2. PICK v \in UserStates : /\ v = [u EXCEPT !.pc = "accept"] /\ v.pc = "accept"
                                /\ v.peer = u.peer /\ v.refs = u.refs
    <3>1. [u EXCEPT !.pc = "accept"] \in UserStates
      BY DEF UserStates
    <3>2. [u EXCEPT !.pc = "accept"].peer = u.peer /\ [u EXCEPT !.pc = "accept"].refs = u.refs
          /\ [u EXCEPT !.pc = "accept"].pc = "accept"
      BY DEF UserStates
    <3>. QED  BY <3>1, <3>2
  <2>3. user' = [user EXCEPT ![c] = v]
    BY <1>1, <2>1, <2>2, Zenon
  <2>. QED  BY <1>3, <2>1, <2>2, <2>3
<1>5. /\ user' \in [Peers -> UserStates] /\ user'[c] = r
      /\ \A d \in Peers : d # c => user'[d] = user[d]
  BY <1>2, <1>4, UserMoves
<1>6. PICK old \in Seq(Peers) : old = requests1[p]
  BY <1>2 DEF ChatTypes, Others
<1>7. requests1' = requests1 \/ requests1' = [requests1 EXCEPT ![p] = Append(old, c)]
  BY <1>1, <1>3, <1>6, Zenon
<1>8. Append(old, c) \in Seq(Peers) /\ ToSet(Append(old, c)) = ToSet(old) \cup {c}
  BY SeqFacts, ToSetFacts
<1>9. /\ requests1' \in [Peers -> Seq(Peers)]
      /\ requests1' = requests1 \/ requests1'[p] = Append(old, c)
      /\ \A q \in Peers : q # p => requests1'[q] = requests1[q]
  <2>1. requests1 \in [Peers -> Seq(Peers)] /\ p \in Peers
    BY <1>2 DEF ChatTypes, Others
  <2>2. CASE requests1' = requests1
    BY <2>1, <2>2
  <2>3. CASE requests1' = [requests1 EXCEPT ![p] = Append(old, c)]
    <3>1. PICK new \in Seq(Peers) : new = Append(old, c)
      BY <1>8
    <3>2. requests1' = [requests1 EXCEPT ![p] = new]
      BY <2>3, <3>1, Zenon
    <3>. QED  BY <2>1, <3>1, <3>2
  <2>. QED  BY <1>7, <2>2, <2>3
<1>10. ChatTypes'
  BY <1>1, <1>2, <1>5, <1>9 DEF ChatTypes
<1>11. EndsRight'
  <2>1. \A d \in Peers : UserRight(d)'
    BY <1>1, <1>3, <1>4, <1>5 DEF ChatInv, EndsRight, UserRight, Links
  <2>. QED  BY <1>1, <2>1, PartsKept DEF EndsRight
<1>12. ASSUME NEW d \in Peers \ timedOut' PROVE AskedOnce(d)'
  <2>1. AskedOnce(d) /\ d \in Peers
    BY <1>1, <1>12 DEF ChatInv
  <2>2. d = c => /\ \A q \in Peers : d \notin ToSet(requests1[q])
                 /\ queued[d] = <<>>
    <3>1. ASSUME d = c PROVE ToSet(queued[d]) = {} /\ queued[d] \in Seq(Nat)
      BY <1>1, <1>2, <2>1, <3>1 DEF AskedOnce, ChatTypes
    <3>. QED  BY <1>1, <2>1, <3>1, SeqFacts DEF AskedOnce
  <2>3. \A q \in Peers : d \in ToSet(requests1'[q]) => d \in ToSet(requests1[q]) \/ (d = c /\ q = p)
    BY <1>6, <1>8, <1>9
  <2>4. ASSUME NEW q \in Peers, NEW i \in 1 .. Len(requests1'[q]), NEW j \in 1 .. Len(requests1'[q]),
               requests1'[q][i] = d, requests1'[q][j] = d
        PROVE  i = j
    <3>1. CASE requests1'[q] = requests1[q]
      <4>1. requests1[q] \in Seq(Peers)
        BY <1>2 DEF ChatTypes
      <4>2. d \in ToSet(requests1[q])
        BY <2>4, <3>1, <4>1, SeqFacts
      <4>. QED  BY <2>1, <2>4, <3>1, <4>2 DEF AskedOnce
    <3>2. CASE q = p /\ requests1'[p] = Append(old, c)
      <4>1. /\ Len(Append(old, c)) = Len(old) + 1 /\ Len(old) \in Nat /\ Append(old, c)[Len(old) + 1] = c
            /\ \A n \in 1 .. Len(old) : Append(old, c)[n] = old[n] /\ old[n] \in ToSet(old)
        BY SeqFacts
      <4>2. \A n \in 1 .. Len(old) + 1 : n \in 1 .. Len(old) \/ n = Len(old) + 1
        BY <4>1
      <4>3. CASE d = c
        <5>1. c \notin ToSet(old)
          BY <1>6, <2>2, <3>2, <4>3
        <5>. QED  BY <2>4, <3>2, <4>1, <4>2, <4>3, <5>1
      <4>4. CASE d # c
        <5>1. i \in 1 .. Len(old) /\ j \in 1 .. Len(old)
          BY <2>4, <3>2, <4>1, <4>2, <4>4
        <5>2. old[i] = d /\ old[j] = d /\ d \in ToSet(old)
          BY <2>4, <3>2, <4>1, <5>1
        <5>. QED  BY <1>6, <2>1, <3>2, <5>1, <5>2 DEF AskedOnce
      <4>. QED  BY <4>3, <4>4
    <3>. QED  BY <1>9, <3>1, <3>2
  <2>5. ASSUME NEW q \in Peers, d \in ToSet(requests1'[q])
        PROVE  user'[d].pc = "accept" /\ user'[d].peer = q /\ queued[d] = <<>>
    BY <1>4, <1>5, <2>1, <2>2, <2>3, <2>5 DEF AskedOnce
  <2>6. \A k \in ToSet(queued[d]) : user'[d].pc = "accept" /\ links[k].from = user'[d].peer
    BY <1>3, <1>4, <1>5, <2>1 DEF AskedOnce
  <2>7. user'[d].pc = "store" => links[Last(user'[d].refs)].from = user'[d].peer
    BY <1>4, <1>5, <2>1 DEF AskedOnce
  <2>. QED  BY <1>1, <2>1, <2>4, <2>5, <2>6, <2>7 DEF AskedOnce
<1>13. \A d \in Peers \ timedOut' : NamesRight(d)'
  BY <1>1, PartsKept
<1>14. ASSUME ~hup', ~dropped', NEW d \in Peers PROVE ConnectionsKept(d)'
  BY <1>1, <1>3, <1>4, <1>5, <1>14 DEF ChatInv, ConnectionsKept, Held, IsEnd, Links, Unread
<1>. QED  BY <1>10, <1>11, <1>12, <1>13, <1>14 DEF ChatInv

LEMMA AcceptStep ==
  ASSUME ChatInv, NEW c \in Peers, Accept(c)
  PROVE  ChatInv'
<1>1. /\ user[c].pc = "accept" /\ queued[c] # <<>>
      /\ user' = [user EXCEPT ![c].pc = "store", ![c].refs = Append(@, Head(queued[c]))]
      /\ queued' = [queued EXCEPT ![c] = Tail(@)]
      /\ UNCHANGED <<hup, users, conn, nick, links, buffer, requests1, connector>>
      /\ UNCHANGED <<loop, reader, heard, timedOut, dropped>>
  BY DEF Accept
<1>2. ChatTypes
  BY DEF ChatInv
<1>3. PICK old \in Seq(Nat) : old = queued[c]
  BY <1>2 DEF ChatTypes
<1>4. PICK k \in Nat : /\ k = Head(old) /\ Tail(old) \in Seq(Nat)
                       /\ ToSet(old) = {k} \cup ToSet(Tail(old)) /\ Len(Tail(old)) = Len(old) - 1
                       /\ Len(old) \in Nat /\ Len(old) > 0
                       /\ Len(Tail(old)) = 0 => Tail(old) = <<>>
  <2>1. old # <<>>
    BY <1>1, <1>3
  <2>2. Head(old) \in Nat /\ Tail(old) \in Seq(Nat) /\ ToSet(old) = {Head(old)} \cup ToSet(Tail(old))
    BY <2>1, ToSetFacts, Zenon
  <2>3. Len(Tail(old)) = Len(old) - 1 /\ Len(old) > 0 /\ Len(old) \in Nat
    BY <2>1, SeqFacts, Zenon
  <2>4. Len(Tail(old)) = 0 => Tail(old) = <<>>
    BY <2>2, SeqFacts, Zenon
  <2>. QED  BY <2>2, <2>3, <2>4
<1>5. k \in Links /\ links[k].to = c
  BY <1>3, <1>4 DEF ChatInv, EndsRight, BacklogRight
<1>6. /\ queued' \in [Peers -> Seq(Nat)] /\ queued'[c] = Tail(old)
      /\ \A d \in Peers : d # c => queued'[d] = queued[d]
  BY <1>1, <1>2, <1>3, <1>4 DEF ChatTypes
<1>7. PICK u \in UserStates : u = user[c]
  BY <1>2 DEF ChatTypes
<1>8. PICK refs \in Seq(Nat) : refs = Append(u.refs, k) /\ Last(refs) = k /\ refs # <<>>
                              /\ ToSet(refs) = ToSet(u.refs) \cup {k}
  <2>1. PICK s \in Seq(Nat) : s = u.refs
    BY DEF UserStates
  <2>2. Append(s, k) \in Seq(Nat) /\ Last(Append(s, k)) = k /\ Append(s, k) # <<>>
    BY SeqFacts
  <2>3. ToSet(Append(s, k)) = ToSet(s) \cup {k}
    BY ToSetFacts
  <2>. QED  BY <2>1, <2>2, <2>3
<1>9. PICK r \in UserStates : /\ user' = [user EXCEPT ![c] = r] /\ r.pc = "store"
                              /\ r.peer = u.peer /\ r.refs = refs
  <2>1. PICK v : v = [u EXCEPT !.pc = "store", !.refs = refs]
    OBVIOUS
  <2>2. v \in UserStates
    BY <2>1 DEF UserStates
  <2>3. v.pc = "store" /\ v.peer = u.peer /\ v.refs = refs
    BY <2>1 DEF UserStates
  <2>4. user' = [user EXCEPT ![c] = v]
    <3>1. user' = [user EXCEPT ![c].pc = "store", ![c].refs = Append(@, k)]
      BY <1>1, <1>3, <1>4, Zenon
    <3>2. user \in [Peers -> UserStates]
      BY <1>2 DEF ChatTypes
    <3>. QED  BY <1>7, <1>8, <2>1, <3>1, <3>2 DEF UserStates
  <2>. QED  BY <2>2, <2>3, <2>4
<1>10. /\ user' \in [Peers -> UserStates] /\ user'[c] = r
       /\ \A d \in Peers : d # c => user'[d] = user[d]
  BY <1>2, <1>9, UserMoves
<1>11. ChatTypes'
  BY <1>1, <1>2, <1>6, <1>10 DEF ChatTypes
<1>12. EndsRight'
  <2>1. \A d \in Peers : UserRight(d)'
    <3>1. ASSUME NEW d \in Peers, d # c PROVE UserRight(d)'
      BY <1>1, <1>10, <3>1 DEF ChatInv, EndsRight, UserRight, Links
    <3>2. UserRight(c)'
      <4>1. UserRight(c)
        BY DEF ChatInv, EndsRight
      <4>2. u.peer \in Others(c) /\ \A j \in ToSet(u.refs) : j \in Links /\ links[j].to = c
        BY <1>1, <1>7, <4>1 DEF UserRight
      <4>3. \A j \in ToSet(refs) : j \in Links' /\ links'[j].to = c
        BY <1>1, <1>5, <1>8, <4>2 DEF Links
      <4>. QED  BY <1>8, <1>9, <1>10, <4>2, <4>3 DEF UserRight
    <3>. QED  BY <3>1, <3>2
  <2>2. \A d \in Peers : BacklogRight(d)'
    BY <1>1, <1>3, <1>4, <1>6 DEF ChatInv, EndsRight, BacklogRight, Links
  <2>. QED  BY <1>1, <2>1, <2>2, PartsKept DEF EndsRight
<1>13. ASSUME NEW d \in Peers \ timedOut' PROVE AskedOnce(d)'
  <2>1. AskedOnce(d) /\ d \in Peers
    BY <1>1, <1>13 DEF ChatInv
  <2>2. CASE d # c
    BY <1>1, <1>6, <1>10, <2>1, <2>2, SMTT(30) DEF AskedOnce
  <2>3. CASE d = c
    <3>1. Tail(old) = <<>> /\ ToSet(Tail(old)) = {}
      <4>1. Len(Tail(old)) = 0
        <5>1. Len(old) <= 1
          BY <1>3, <2>1, <2>3 DEF AskedOnce
        <5>. QED  BY <1>4, <5>1
      <4>2. Tail(old) = <<>>
        BY <1>4, <4>1
      <4>. QED  BY <4>2 DEF ToSet
    <3>2. links[k].from = u.peer
      BY <1>3, <1>4, <1>7, <2>1, <2>3 DEF AskedOnce
    <3>3. \A q \in Peers : d \notin ToSet(requests1[q])
      BY <1>1, <2>1, <2>3 DEF AskedOnce
    <3>4. /\ queued'[d] = <<>> /\ Len(queued'[d]) <= 1 /\ ToSet(queued'[d]) = {}
      <4>1. queued'[d] = <<>>
        BY <1>6, <2>3, <3>1
      <4>2. Len(<<>>) <= 1 /\ ToSet(<<>>) = {}
        BY DEF ToSet
      <4>. QED  BY <4>1, <4>2
    <3>. QED  BY <1>1, <1>8, <1>9, <1>10, <2>1, <2>3, <3>2, <3>3, <3>4 DEF AskedOnce
  <2>. QED  BY <2>2, <2>3
<1>14. \A d \in Peers \ timedOut' : NamesRight(d)'
  BY <1>1, PartsKept
<1>15. ASSUME ~hup', ~dropped', NEW d \in Peers PROVE ConnectionsKept(d)'
  <2>1. ConnectionsKept(d)
    BY <1>1, <1>15 DEF ChatInv
  <2>2. \A j : Held(d, j) => Held(d, j)'
    BY <1>1, <1>3, <1>4, <1>6, <1>8, <1>9, <1>10 DEF Held
  <2>. QED  BY <1>1, <1>7, <1>9, <1>10, <2>1, <2>2 DEF ConnectionsKept, IsEnd, Links, Unread
<1>. QED  BY <1>11, <1>12, <1>13, <1>14, <1>15 DEF ChatInv

LEMMA AcceptTimesOutStep ==
  ASSUME ChatInv, NEW c \in Peers, AcceptTimesOut(c)
  PROVE  ChatInv'
<1>1. /\ user[c].pc = "accept" /\ user' = [user EXCEPT ![c] = NotSending]
      /\ timedOut' = timedOut \cup {c}
      /\ UNCHANGED <<hup, users, conn, nick, links, buffer, queued, requests1, connector>>
      /\ UNCHANGED <<loop, reader, heard, dropped>>
  BY DEF AcceptTimesOut
<1>2. PICK r \in UserStates : r = NotSending /\ r.pc = "idle" /\ r.refs = <<>>
  BY RestingTyped DEF NotSending
<1>3. /\ user' \in [Peers -> UserStates] /\ user'[c] = r
      /\ \A d \in Peers : d # c => user'[d] = user[d]
  BY <1>1, <1>2, UserMoves DEF ChatInv
<1>4. ChatTypes'
  BY <1>1, <1>3 DEF ChatInv, ChatTypes
<1>5. EndsRight'
  <2>1. ToSet(<<>>) = {}
    BY DEF ToSet
  <2>2. \A d \in Peers : UserRight(d)'
    BY <1>1, <1>2, <1>3, <2>1 DEF ChatInv, EndsRight, UserRight, Links
  <2>. QED  BY <1>1, <2>2, PartsKept DEF EndsRight
<1>6. \A d \in Peers \ timedOut' : AskedOnce(d)' /\ NamesRight(d)'
  BY <1>1, <1>3, SMTT(30) DEF ChatInv, AskedOnce, NamesRight, OtherEnd
<1>7. ASSUME ~hup', ~dropped', NEW d \in Peers PROVE ConnectionsKept(d)'
  BY <1>1, <1>2, <1>3, <1>7 DEF ChatInv, ConnectionsKept, Held, IsEnd, Links, Unread
<1>. QED  BY <1>4, <1>5, <1>6, <1>7 DEF ChatInv

\* What storing a connection changes.
LEMMA StoredFacts ==
  ASSUME ChatTypes, NEW c \in Peers, NEW p \in Others(c), NEW k, Stored(c, p, k)
  PROVE  /\ DOMAIN conn' = Peers /\ \A d \in Peers : DOMAIN conn'[d] = Others(d)
         /\ conn'[c][p] = k
         /\ \A d \in Peers : \A q \in Others(d) : d # c \/ q # p => conn'[d][q] = conn[d][q]
         /\ DOMAIN nick' = Peers /\ DOMAIN nick'[c] = DOMAIN nick[c] \cup {k} /\ nick'[c][k] = p
         /\ \A l \in DOMAIN nick[c] : l # k => nick'[c][l] = nick[c][l]
         /\ \A d \in Peers : d # c => nick'[d] = nick[d]
         /\ dropped' = (dropped \/ conn[c][p] # 0)
<1>1. conn' = [conn EXCEPT ![c][p] = k] /\ dropped' = (dropped \/ conn[c][p] # 0)
  BY DEF Stored
<1>2. PICK f : f = [l \in DOMAIN nick[c] \cup {k} |-> IF l = k THEN p ELSE nick[c][l]]
  OBVIOUS
<1>3. nick' = [nick EXCEPT ![c] = f]
  BY <1>2, Zenon DEF Stored
<1>4. /\ DOMAIN f = DOMAIN nick[c] \cup {k} /\ f[k] = p
      /\ \A l \in DOMAIN nick[c] : l # k => f[l] = nick[c][l]
  BY <1>2
<1>5. DOMAIN nick' = Peers /\ nick'[c] = f /\ \A d \in Peers : d # c => nick'[d] = nick[d]
  BY <1>3 DEF ChatTypes
<1>6. /\ DOMAIN conn' = Peers /\ \A d \in Peers : DOMAIN conn'[d] = Others(d)
      /\ conn'[c][p] = k
      /\ \A d \in Peers : \A q \in Others(d) : d # c \/ q # p => conn'[d][q] = conn[d][q]
  BY <1>1 DEF ChatTypes
<1>. QED  BY <1>1, <1>4, <1>5, <1>6

LEMMA StoreKeeps ==
  ASSUME ChatInv, NEW c \in Peers, NEW p \in Others(c), p \in users[c], NEW k,
         Stored(c, p, k), IsEnd(c, k), c \notin timedOut => OtherEnd(c, k) = p,
         UNCHANGED <<hup, users, links, loop, heard, timedOut>>
  PROVE  /\ DOMAIN conn' = Peers /\ \A d \in Peers : DOMAIN conn'[d] = Others(d)
         /\ DOMAIN nick' = Peers /\ conn'[c][p] = k
         /\ \A d \in Peers : NamesKnown(d)'
         /\ \A d \in Peers \ timedOut' : NamesRight(d)'
         /\ ~dropped' => /\ ~dropped
                         /\ \A d \in Peers : \A j \in Links :
                               (\E q \in users[d] : conn[d][q] = j) => (\E q \in users[d] : conn'[d][q] = j)
<1>1. ChatTypes /\ BuffersRight /\ \A d \in Peers : NamesKnown(d)
  BY DEF ChatInv, EndsRight
<1>2. /\ DOMAIN conn' = Peers /\ \A d \in Peers : DOMAIN conn'[d] = Others(d)
      /\ conn'[c][p] = k
      /\ \A d \in Peers : \A q \in Others(d) : d # c \/ q # p => conn'[d][q] = conn[d][q]
      /\ DOMAIN nick' = Peers /\ DOMAIN nick'[c] = DOMAIN nick[c] \cup {k} /\ nick'[c][k] = p
      /\ \A l \in DOMAIN nick[c] : l # k => nick'[c][l] = nick[c][l]
      /\ \A d \in Peers : d # c => nick'[d] = nick[d]
      /\ dropped' = (dropped \/ conn[c][p] # 0)
  BY <1>1, StoredFacts
<1>3. \A d \in Peers : DOMAIN nick[d] \subseteq DOMAIN nick'[d]
  BY <1>2
<1>4. ASSUME NEW d \in Peers PROVE NamesKnown(d)'
  <2>1. \A q \in Others(d) : conn'[d][q] # 0 => conn'[d][q] \in DOMAIN nick'[d]
    BY <1>1, <1>2, <1>3 DEF NamesKnown
  <2>2. \A j \in DOMAIN nick'[d] : IsEnd(d, j)
    BY <1>1, <1>2 DEF NamesKnown
  <2>3. loop[d].copied \cup loop[d].todo \subseteq {0} \cup DOMAIN nick'[d]
    BY <1>1, <1>3 DEF NamesKnown
  <2>. QED  BY <2>1, <2>2, <2>3 DEF NamesKnown, IsEnd, Links
<1>5. ASSUME NEW d \in Peers \ timedOut' PROVE NamesRight(d)'
  <2>1. NamesRight(d) /\ d \in Peers
    BY DEF ChatInv
  <2>2. \A j \in DOMAIN nick'[d] : nick'[d][j] = OtherEnd(d, j)
    BY <1>2, <2>1 DEF NamesRight
  <2>. QED  BY <2>1, <2>2 DEF NamesRight, OtherEnd
<1>6. ASSUME ~dropped', NEW d \in Peers, NEW j \in Links, NEW q \in users[d], conn[d][q] = j
      PROVE  conn'[d][q] = j
  <2>1. j # 0 /\ q \in Others(d)
    BY <1>1, LinkFacts DEF ChatTypes
  <2>2. conn[c][p] = 0
    BY <1>2, <1>6
  <2>. QED  BY <1>2, <1>6, <2>1, <2>2
<1>. QED  BY <1>2, <1>4, <1>5, <1>6

LEMMA StoreAcceptedStep ==
  ASSUME ChatInv, NEW c \in Peers, StoreAccepted(c)
  PROVE  ChatInv'
<1>1. /\ user[c].pc = "store"
      /\ UNCHANGED <<hup, users, links, buffer, queued, requests1, connector>>
      /\ UNCHANGED <<loop, reader, heard, timedOut>>
  BY DEF StoreAccepted
<1>2. ChatTypes /\ BuffersRight /\ UserRight(c)
  BY DEF ChatInv, EndsRight
<1>3. PICK p \in Others(c) : p = user[c].peer
  BY <1>1, <1>2 DEF UserRight
<1>4. PICK u \in UserStates : u = user[c]
  BY <1>2 DEF ChatTypes
<1>5. PICK k : k = Last(u.refs)
  OBVIOUS
<1>6. IsEnd(c, k) /\ links[k].to = c /\ k \in Links /\ (c \notin timedOut => OtherEnd(c, k) = p)
  <2>1. k \in ToSet(u.refs)
    <3>1. u.refs \in Seq(Nat) /\ u.refs # <<>>
      BY <1>1, <1>2, <1>4 DEF UserRight, UserStates
    <3>. QED  BY <1>5, <3>1, SeqFacts
  <2>2. k \in Links /\ links[k].to = c
    BY <1>2, <1>4, <2>1 DEF UserRight
  <2>3. ASSUME c \notin timedOut PROVE links[k].from = p
    BY <1>1, <1>3, <1>4, <1>5, <2>3 DEF ChatInv, AskedOnce
  <2>4. links[k].from # c
    BY <1>2, <2>2 DEF BuffersRight
  <2>. QED  BY <2>2, <2>3, <2>4 DEF IsEnd, OtherEnd
<1>7. ASSUME NEW r \in UserStates, user' = [user EXCEPT ![c] = r], r.pc \in {"idle", "send"},
             r.pc = "send" => r.peer = p, ToSet(r.refs) \subseteq ToSet(u.refs)
      PROVE  /\ user' \in [Peers -> UserStates] /\ user'[c] = r
             /\ \A d \in Peers : d # c => user'[d] = user[d]
             /\ \A d \in Peers : UserRight(d)'
             /\ \A d \in Peers \ timedOut' : AskedOnce(d)'
  <2>1. /\ user' \in [Peers -> UserStates] /\ user'[c] = r
        /\ \A d \in Peers : d # c => user'[d] = user[d]
    BY <1>2, <1>7, UserMoves
  <2>2. ASSUME NEW d \in Peers PROVE UserRight(d)'
    <3>1. UserRight(d)
      BY DEF ChatInv, EndsRight
    <3>. QED  BY <1>1, <1>4, <1>7, <2>1, <3>1 DEF UserRight, Links
  <2>3. \A d \in Peers \ timedOut' : AskedOnce(d)'
    BY <1>1, <1>7, <2>1 DEF ChatInv, AskedOnce
  <2>. QED  BY <2>1, <2>2, <2>3
<1>8. CASE p \in users[c]
  <2>1. Stored(c, p, k) /\ user' = [user EXCEPT ![c].pc = "send"]
    BY <1>3, <1>4, <1>5, <1>8 DEF StoreAccepted
  <2>2. PICK r \in UserStates : /\ user' = [user EXCEPT ![c] = r] /\ r.pc = "send"
                                /\ r.peer = p /\ r.refs = u.refs
    <3>1. PICK v : v = [u EXCEPT !.pc = "send"]
      OBVIOUS
    <3>2. v \in UserStates
      BY <3>1 DEF UserStates
    <3>3. v.pc = "send" /\ v.peer = u.peer /\ v.refs = u.refs
      BY <3>1 DEF UserStates
    <3>4. user' = [user EXCEPT ![c] = v]
      BY <1>4, <2>1, <3>1, Zenon
    <3>. QED  BY <1>3, <1>4, <3>2, <3>3, <3>4
  <2>3. /\ user' \in [Peers -> UserStates] /\ user'[c] = r
        /\ \A d \in Peers : d # c => user'[d] = user[d]
        /\ \A d \in Peers : UserRight(d)'
        /\ \A d \in Peers \ timedOut' : AskedOnce(d)'
    BY <1>7, <2>2
  <2>4. /\ DOMAIN conn' = Peers /\ \A d \in Peers : DOMAIN conn'[d] = Others(d)
        /\ DOMAIN nick' = Peers /\ conn'[c][p] = k
        /\ \A d \in Peers : NamesKnown(d)'
        /\ \A d \in Peers \ timedOut' : NamesRight(d)'
        /\ ~dropped' => /\ ~dropped
                        /\ \A d \in Peers : \A j \in Links :
                              (\E q \in users[d] : conn[d][q] = j) => (\E q \in users[d] : conn'[d][q] = j)
    BY <1>1, <1>6, <1>8, <2>1, StoreKeeps
  <2>5. ChatTypes'
    BY <1>1, <1>2, <2>3, <2>4 DEF ChatTypes
  <2>6. EndsRight'
    BY <1>1, <2>3, <2>4, PartsKept DEF EndsRight
  <2>7. ASSUME ~hup', ~dropped', NEW d \in Peers PROVE ConnectionsKept(d)'
    <3>1. ConnectionsKept(d) /\ d \in Peers
      BY <1>1, <2>4, <2>7 DEF ChatInv
    <3>2. \A j \in Links : Held(d, j) => Held(d, j)'
      BY <1>1, <1>4, <1>5, <1>8, <2>2, <2>3, <2>4, <2>7 DEF Held
    <3>3. user'[d].pc # "idle" => user'[d].peer \in users[d]
      BY <1>8, <2>2, <2>3, <3>1 DEF ConnectionsKept
    <3>. QED  BY <1>1, <3>1, <3>2, <3>3 DEF ConnectionsKept, IsEnd, Links, Unread
  <2>. QED  BY <2>3, <2>4, <2>5, <2>6, <2>7 DEF ChatInv
<1>9. CASE p \notin users[c]
  <2>1. user' = [user EXCEPT ![c] = NotSending] /\ UNCHANGED <<conn, nick, dropped>>
    BY <1>3, <1>9 DEF StoreAccepted
  <2>2. PICK r \in UserStates : r = NotSending /\ r.pc = "idle" /\ ToSet(r.refs) \subseteq ToSet(u.refs)
    <3>1. ToSet(<<>>) = {}
      BY DEF ToSet
    <3>. QED  BY <3>1, RestingTyped DEF NotSending
  <2>3. /\ user' \in [Peers -> UserStates]
        /\ \A d \in Peers : UserRight(d)'
        /\ \A d \in Peers \ timedOut' : AskedOnce(d)'
    BY <1>7, <2>1, <2>2
  <2>4. ChatTypes'
    BY <1>1, <1>2, <2>1, <2>3 DEF ChatTypes
  <2>5. EndsRight' /\ \A d \in Peers \ timedOut' : NamesRight(d)'
    BY <1>1, <2>1, <2>3, PartsKept DEF EndsRight
  <2>6. ~(~hup /\ ~dropped)
    BY <1>1, <1>3, <1>9 DEF ChatInv, ConnectionsKept
  <2>. QED  BY <1>1, <2>1, <2>3, <2>4, <2>5, <2>6 DEF ChatInv
<1>. QED  BY <1>8, <1>9

LEMMA StoreConnectedStep ==
  ASSUME ChatInv, NEW c \in Peers, StoreConnected(c)
  PROVE  ChatInv'
<1>1. /\ connector[c].pc = "store"
      /\ UNCHANGED <<hup, users, links, buffer, queued, requests1, user>>
      /\ UNCHANGED <<loop, reader, heard, timedOut>>
  BY DEF StoreConnected
<1>2. ChatTypes /\ BuffersRight /\ ConnectorRight(c)
  BY DEF ChatInv, EndsRight
<1>3. PICK p \in Others(c) : p = connector[c].peer
  BY <1>1, <1>2 DEF ConnectorRight
<1>4. PICK k : k = connector[c].link
  OBVIOUS
<1>5. IsEnd(c, k) /\ OtherEnd(c, k) = p
  BY <1>1, <1>2, <1>3, <1>4 DEF ConnectorRight, IsEnd, OtherEnd
<1>6. ASSUME NEW r \in ConnectorStates, connector' = [connector EXCEPT ![c] = r], r.pc # "store"
      PROVE  /\ connector' \in [Peers -> ConnectorStates] /\ connector'[c] = r
             /\ \A d \in Peers : d # c => connector'[d] = connector[d]
             /\ \A d \in Peers : ConnectorRight(d)'
  <2>1. /\ connector' \in [Peers -> ConnectorStates] /\ connector'[c] = r
        /\ \A d \in Peers : d # c => connector'[d] = connector[d]
    BY <1>2, <1>6 DEF ChatTypes
  <2>. QED  BY <1>1, <1>6, <2>1 DEF ChatInv, EndsRight, ConnectorRight, Links
<1>7. CASE p \in users[c]
  <2>1. Stored(c, p, k) /\ connector' = [connector EXCEPT ![c] = Resting]
    BY <1>3, <1>4, <1>7 DEF StoreConnected, Nickname
  <2>2. PICK r \in ConnectorStates : r = Resting /\ r.pc = "idle"
    BY RestingTyped DEF Resting
  <2>3. /\ connector' \in [Peers -> ConnectorStates] /\ connector'[c] = r
        /\ \A d \in Peers : d # c => connector'[d] = connector[d]
        /\ \A d \in Peers : ConnectorRight(d)'
    BY <1>6, <2>1, <2>2
  <2>4. /\ DOMAIN conn' = Peers /\ \A d \in Peers : DOMAIN conn'[d] = Others(d)
        /\ DOMAIN nick' = Peers /\ conn'[c][p] = k
        /\ \A d \in Peers : NamesKnown(d)'
        /\ \A d \in Peers \ timedOut' : NamesRight(d)'
        /\ ~dropped' => /\ ~dropped
                        /\ \A d \in Peers : \A j \in Links :
                              (\E q \in users[d] : conn[d][q] = j) => (\E q \in users[d] : conn'[d][q] = j)
    BY <1>1, <1>5, <1>7, <2>1, StoreKeeps
  <2>5. ChatTypes'
    BY <1>1, <1>2, <2>3, <2>4 DEF ChatTypes
  <2>6. EndsRight' /\ \A d \in Peers \ timedOut' : AskedOnce(d)'
    BY <1>1, <2>3, <2>4, PartsKept DEF EndsRight
  <2>7. ASSUME ~hup', ~dropped', NEW d \in Peers PROVE ConnectionsKept(d)'
    <3>1. ConnectionsKept(d) /\ d \in Peers
      BY <1>1, <2>4, <2>7 DEF ChatInv
    <3>2. \A j \in Links : Held(d, j) => Held(d, j)'
      BY <1>1, <1>4, <1>7, <2>2, <2>3, <2>4, <2>7 DEF Held
    <3>3. connector'[d].pc = "store" => connector'[d].peer \in users[d]
      BY <2>2, <2>3, <3>1 DEF ConnectionsKept
    <3>. QED  BY <1>1, <3>1, <3>2, <3>3 DEF ConnectionsKept, IsEnd, Links, Unread
  <2>. QED  BY <2>4, <2>5, <2>6, <2>7 DEF ChatInv
<1>8. CASE p \notin users[c]
  <2>1. /\ connector' = [connector EXCEPT ![c] = [connector[c] EXCEPT !.pc = "dead", !.link = 0]]
        /\ UNCHANGED <<conn, nick, dropped>>
    BY <1>3, <1>8, Zenon DEF StoreConnected
  <2>2. PICK r \in ConnectorStates : r = [connector[c] EXCEPT !.pc = "dead", !.link = 0] /\ r.pc = "dead"
    <3>1. PICK o \in ConnectorStates : o = connector[c]
      BY <1>2 DEF ChatTypes
    <3>2. PICK v : v = [o EXCEPT !.pc = "dead", !.link = 0]
      OBVIOUS
    <3>3. v \in ConnectorStates /\ v.pc = "dead"
      BY <3>2 DEF ConnectorStates
    <3>. QED  BY <3>1, <3>2, <3>3
  <2>3. connector' \in [Peers -> ConnectorStates] /\ \A d \in Peers : ConnectorRight(d)'
    BY <1>6, <2>1, <2>2
  <2>4. ChatTypes'
    BY <1>1, <1>2, <2>1, <2>3 DEF ChatTypes
  <2>5. EndsRight' /\ \A d \in Peers \ timedOut' : AskedOnce(d)' /\ NamesRight(d)'
    BY <1>1, <2>1, <2>3, PartsKept DEF EndsRight
  <2>6. ~(~hup /\ ~dropped)
    BY <1>1, <1>3, <1>8 DEF ChatInv, ConnectionsKept
  <2>. QED  BY <1>1, <2>1, <2>4, <2>5, <2>6 DEF ChatInv
<1>. QED  BY <1>7, <1>8

\* A request is taken out of a socket.
LEMMA RequestTaken ==
  ASSUME ChatInv, NEW c \in Peers, requests1[c] # <<>>,
         requests1' = [requests1 EXCEPT ![c] = Tail(@)]
  PROVE  /\ requests1' \in [Peers -> Seq(Peers)]
         /\ \A q \in Peers : ToSet(requests1'[q]) \subseteq ToSet(requests1[q])
         /\ \A d \in Peers \ timedOut : \A q \in Peers : \A i, j \in 1 .. Len(requests1'[q]) :
               requests1'[q][i] = d /\ requests1'[q][j] = d => i = j
         /\ Head(requests1[c]) \notin timedOut =>
               \A q \in Peers : Head(requests1[c]) \notin ToSet(requests1'[q])
<1>1. ChatTypes
  BY DEF ChatInv
<1>2. PICK old \in Seq(Peers) : old = requests1[c]
  BY <1>1 DEF ChatTypes
<1>3. /\ Tail(old) \in Seq(Peers) /\ Len(Tail(old)) = Len(old) - 1 /\ Len(old) > 0 /\ Len(old) \in Nat
      /\ \A i \in 1 .. Len(old) - 1 : Tail(old)[i] = old[i + 1]
      /\ \A i \in 1 .. Len(old) : old[i] \in ToSet(old)
      /\ DOMAIN Tail(old) = 1 .. Len(Tail(old))
  <2>1. old # <<>>
    BY <1>2
  <2>2. Tail(old) \in Seq(Peers)
    BY <2>1, SeqFacts
  <2>. QED  BY <2>1, <2>2, SeqFacts
<1>4. ToSet(old) = {Head(old)} \cup ToSet(Tail(old)) /\ Head(old) = old[1] /\ Head(old) \in Peers
  BY <1>2, ToSetFacts
<1>5. requests1' = [requests1 EXCEPT ![c] = Tail(old)]
  BY <1>2, Zenon
<1>6. /\ requests1' \in [Peers -> Seq(Peers)] /\ requests1'[c] = Tail(old)
      /\ \A q \in Peers : q # c => requests1'[q] = requests1[q]
  <2>1. PICK new \in Seq(Peers) : new = Tail(old)
    BY <1>3
  <2>2. requests1' = [requests1 EXCEPT ![c] = new]
    BY <1>5, <2>1
  <2>. QED  BY <1>1, <2>1, <2>2, SMTT(30) DEF ChatTypes
<1>7. \A q \in Peers : ToSet(requests1'[q]) \subseteq ToSet(requests1[q])
  BY <1>2, <1>4, <1>6
<1>8. ASSUME NEW d \in Peers \ timedOut, NEW q \in Peers
      PROVE  \A i, j \in 1 .. Len(requests1'[q]) : requests1'[q][i] = d /\ requests1'[q][j] = d => i = j
  <2>. SUFFICES ASSUME NEW i \in 1 .. Len(requests1'[q]), NEW j \in 1 .. Len(requests1'[q]),
                       requests1'[q][i] = d, requests1'[q][j] = d
                PROVE  i = j
    OBVIOUS
  <2>1. AskedOnce(d)
    BY DEF ChatInv
  <2>2. CASE q # c
    <3>1. requests1'[q] = requests1[q]
      BY <1>6, <2>2
    <3>2. d \in ToSet(requests1[q])
      <4>1. requests1[q] \in Seq(Peers)
        BY <1>1 DEF ChatTypes
      <4>. QED  BY <1>8, <3>1, <4>1, SeqFacts
    <3>. QED  BY <1>8, <2>1, <3>1, <3>2 DEF AskedOnce
  <2>3. CASE q = c
    <3>1. i \in 1 .. Len(old) - 1 /\ j \in 1 .. Len(old) - 1 /\ Tail(old)[i] = d /\ Tail(old)[j] = d
      BY <1>3, <1>6, <1>8, <2>3
    <3>2. i + 1 \in 1 .. Len(old) /\ j + 1 \in 1 .. Len(old)
      BY <1>3, <3>1
    <3>3. old[i + 1] = d /\ old[j + 1] = d /\ d \in ToSet(old)
      BY <1>3, <3>1, <3>2
    <3>4. i + 1 = j + 1
      BY <1>2, <2>1, <3>2, <3>3 DEF AskedOnce
    <3>. QED  BY <3>1, <3>4
  <2>. QED  BY <2>2, <2>3
<1>9. ASSUME Head(old) \notin timedOut, NEW q \in Peers PROVE Head(old) \notin ToSet(requests1'[q])
  <2>1. AskedOnce(Head(old)) /\ Head(old) \in ToSet(old)
    BY <1>4, <1>9 DEF ChatInv
  <2>2. user[Head(old)].peer = c
    BY <1>2, <2>1 DEF AskedOnce
  <2>3. CASE q # c
    BY <1>6, <2>1, <2>2, <2>3 DEF AskedOnce
  <2>4. CASE q = c
    <3>1. ASSUME Head(old) \in ToSet(Tail(old)) PROVE FALSE
      <4>1. PICK i \in 1 .. Len(old) - 1 : Tail(old)[i] = Head(old)
        BY <1>3, <3>1 DEF ToSet
      <4>2. i + 1 \in 1 .. Len(old) /\ 1 \in 1 .. Len(old) /\ i + 1 # 1
        BY <1>3
      <4>3. old[i + 1] = Head(old) /\ old[1] = Head(old)
        BY <1>3, <1>4, <4>1
      <4>. QED  BY <1>2, <2>1, <4>2, <4>3 DEF AskedOnce
    <3>. QED  BY <1>6, <2>4, <3>1
  <2>. QED  BY <2>3, <2>4
<1>10. \A d \in Peers \ timedOut : \A q \in Peers : \A i, j \in 1 .. Len(requests1'[q]) :
          requests1'[q][i] = d /\ requests1'[q][j] = d => i = j
  BY <1>8, Zenon
<1>11. Head(requests1[c]) \notin timedOut => \A q \in Peers : Head(requests1[c]) \notin ToSet(requests1'[q])
  BY <1>2, <1>9, Zenon
<1>. QED  BY <1>6, <1>7, <1>10, <1>11, Zenon

LEMMA ConnectBackStep ==
  ASSUME ChatInv, NEW c \in Peers, NEW p \in Others(c), ConnectBack(c, p)
  PROVE  ChatInv'
<1>1. /\ connector[c].pc = "idle" /\ requests1[c] # <<>> /\ Head(requests1[c]) = p
      /\ requests1' = [requests1 EXCEPT ![c] = Tail(@)]
      /\ UNCHANGED <<hup, users, conn, nick, user, loop, reader, heard, timedOut, dropped>>
  BY DEF ConnectBack
<1>2. ChatTypes /\ BuffersRight /\ p \in Peers /\ p # c
  BY DEF ChatInv, EndsRight, Others
<1>3. /\ requests1' \in [Peers -> Seq(Peers)]
      /\ \A q \in Peers : ToSet(requests1'[q]) \subseteq ToSet(requests1[q])
      /\ \A d \in Peers \ timedOut : \A q \in Peers : \A i, j \in 1 .. Len(requests1'[q]) :
            requests1'[q][i] = d /\ requests1'[q][j] = d => i = j
      /\ p \notin timedOut => \A q \in Peers : p \notin ToSet(requests1'[q])
  BY <1>1, RequestTaken
<1>4. CASE p \notin users[c]
  <2>1. UNCHANGED <<links, buffer, queued, connector>>
    BY <1>4 DEF ConnectBack
  <2>2. ChatTypes'
    BY <1>1, <1>2, <1>3, <2>1 DEF ChatTypes
  <2>3. EndsRight' /\ \A d \in Peers \ timedOut' : NamesRight(d)'
    BY <1>1, <2>1, PartsKept DEF EndsRight
  <2>4. \A d \in Peers \ timedOut' : AskedOnce(d)'
    BY <1>1, <1>3, <2>1 DEF ChatInv, AskedOnce
  <2>5. \A d \in Peers : ConnectionsKept(d) => ConnectionsKept(d)'
    BY <1>1, <2>1 DEF ConnectionsKept, Held, IsEnd, Links, Unread
  <2>. QED  BY <1>1, <2>2, <2>3, <2>4, <2>5 DEF ChatInv
<1>5. CASE p \in users[c]
  <2>1. PICK k : k = Len(links) + 1
    OBVIOUS
  <2>2. /\ links' = Append(links, [from |-> c, to |-> p])
        /\ buffer' = [x \in DOMAIN buffer \cup {<<k, c>>, <<k, p>>} |-> IF x[1] = k THEN <<>> ELSE buffer[x]]
        /\ queued' = [queued EXCEPT ![p] = Append(@, k)]
        /\ connector' = [connector EXCEPT ![c] = [pc |-> "store", peer |-> p, link |-> k]]
    BY <1>5, <2>1 DEF ConnectBack
  <2>3. /\ links' \in Seq([from : Peers, to : Peers]) /\ k \in Nat /\ k # 0 /\ k \notin Links
        /\ Links' = Links \cup {k} /\ links'[k].from = c /\ links'[k].to = p
        /\ \A j \in Links : links'[j] = links[j]
    <3>1. PICK S : S = [from : Peers, to : Peers]
      OBVIOUS
    <3>2. PICK l \in S : l = [from |-> c, to |-> p] /\ l.from = c /\ l.to = p
      <4>1. [from |-> c, to |-> p] \in S
        BY <1>2, <3>1
      <4>. QED  BY <4>1
    <3>3. links \in Seq(S) /\ links' = Append(links, l)
      BY <1>2, <2>2, <3>1, <3>2 DEF ChatTypes
    <3>4. /\ Append(links, l) \in Seq(S) /\ Len(Append(links, l)) = Len(links) + 1 /\ Len(links) \in Nat
          /\ Append(links, l)[Len(links) + 1] = l
          /\ \A i \in 1 .. Len(links) : Append(links, l)[i] = links[i]
      BY <3>3, SeqFacts
    <3>5. DOMAIN Append(links, l) = 1 .. Len(links) + 1 /\ DOMAIN links = 1 .. Len(links)
      BY <3>3, <3>4, SeqFacts
    <3>6. /\ 1 .. Len(links) + 1 = (1 .. Len(links)) \cup {Len(links) + 1}
          /\ Len(links) + 1 \notin 1 .. Len(links) /\ Len(links) + 1 # 0 /\ Len(links) + 1 \in Nat
      BY <3>4
    <3>. QED  BY <2>1, <3>1, <3>2, <3>3, <3>4, <3>5, <3>6 DEF Links
  <2>4. \A d \in Peers : \A j \in Links : (IsEnd(d, j)' <=> IsEnd(d, j)) /\ OtherEnd(d, j)' = OtherEnd(d, j)
    BY <2>3 DEF IsEnd, OtherEnd
  <2>5. \A d \in Peers : (IsEnd(d, k)' <=> d \in {c, p}) /\ ~IsEnd(d, k)
    BY <2>3 DEF IsEnd
  <2>6. /\ \A j \in Nat : \A d \in Peers : <<j, d>> \in DOMAIN buffer' <=>
              <<j, d>> \in DOMAIN buffer \/ (j = k /\ d \in {c, p})
        /\ \A d \in {c, p} : buffer'[<<k, d>>] = <<>>
        /\ \A j \in Links : \A d \in Peers : <<j, d>> \in DOMAIN buffer => buffer'[<<j, d>>] = buffer[<<j, d>>]
    <3>1. DOMAIN buffer' = DOMAIN buffer \cup {<<k, c>>, <<k, p>>}
      BY <2>2
    <3>2. \A j \in Nat : \A d \in Peers : <<j, d>> \in DOMAIN buffer' =>
              buffer'[<<j, d>>] = IF j = k THEN <<>> ELSE buffer[<<j, d>>]
      <4>1. SUFFICES ASSUME NEW j \in Nat, NEW d \in Peers, <<j, d>> \in DOMAIN buffer'
                     PROVE  buffer'[<<j, d>>] = IF j = k THEN <<>> ELSE buffer[<<j, d>>]
        OBVIOUS
      <4>2. <<j, d>>[1] = j
        OBVIOUS
      <4>3. buffer'[<<j, d>>] = IF <<j, d>>[1] = k THEN <<>> ELSE buffer[<<j, d>>]
        BY <2>2, <3>1, <4>1, Zenon
      <4>. QED  BY <4>2, <4>3
    <3>3. \A j \in Links : j \in Nat /\ j # k
      BY <1>2, <2>3, LinkFacts
    <3>. QED  BY <1>2, <2>3, <3>1, <3>2, <3>3
  <2>7. PICK backlog \in Seq(Nat) : backlog = queued[p]
    BY <1>2 DEF ChatTypes
  <2>8. /\ queued' \in [Peers -> Seq(Nat)] /\ queued'[p] = Append(backlog, k)
        /\ \A d \in Peers : d # p => queued'[d] = queued[d]
    <3>1. PICK new \in Seq(Nat) : new = Append(backlog, k)
      BY <2>3, SeqFacts
    <3>2. queued' = [queued EXCEPT ![p] = new]
      BY <2>2, <2>7, <3>1, Zenon
    <3>. QED  BY <1>2, <3>1, <3>2 DEF ChatTypes
  <2>9. ToSet(Append(backlog, k)) = ToSet(backlog) \cup {k}
    BY <2>3, ToSetFacts
  <2>10. PICK r \in ConnectorStates : /\ r = [pc |-> "store", peer |-> p, link |-> k]
                                      /\ r.pc = "store" /\ r.peer = p /\ r.link = k
    <3>1. [pc |-> "store", peer |-> p, link |-> k] \in ConnectorStates
      BY <1>2, <2>3 DEF ConnectorStates
    <3>. QED  BY <3>1
  <2>11. /\ connector' \in [Peers -> ConnectorStates] /\ connector'[c] = r
         /\ \A d \in Peers : d # c => connector'[d] = connector[d]
    BY <1>2, <2>2, <2>10 DEF ChatTypes
  <2>12. ChatTypes'
    BY <1>1, <1>2, <1>3, <2>3, <2>8, <2>11 DEF ChatTypes
  <2>13. BuffersRight'
    <3>1. \A j \in Links' : links'[j].from # links'[j].to
      BY <1>2, <2>3 DEF BuffersRight
    <3>2. \A j \in Nat : \A d \in Peers : <<j, d>> \in DOMAIN buffer' <=> IsEnd(d, j)'
      <4>1. SUFFICES ASSUME NEW j \in Nat, NEW d \in Peers
                     PROVE  <<j, d>> \in DOMAIN buffer' <=> IsEnd(d, j)'
        OBVIOUS
      <4>2. CASE j \in Links
        BY <1>2, <2>3, <2>4, <2>6, <4>2 DEF BuffersRight
      <4>3. CASE j \notin Links
        <5>1. <<j, d>> \notin DOMAIN buffer
          BY <1>2, <4>3 DEF BuffersRight, IsEnd
        <5>2. j # k => ~IsEnd(d, j)'
          BY <2>3, <4>3 DEF IsEnd
        <5>. QED  BY <2>5, <2>6, <5>1, <5>2
      <4>. QED  BY <4>2, <4>3
    <3>3. ASSUME NEW j \in Links', NEW d \in Peers, IsEnd(d, j)'
          PROVE  /\ buffer'[<<j, d>>] \in Seq(Peers)
                 /\ \A i \in 1 .. Len(buffer'[<<j, d>>]) : buffer'[<<j, d>>][i] = OtherEnd(d, j)'
      <4>1. CASE j = k
        <5>1. buffer'[<<j, d>>] = <<>>
          BY <2>5, <2>6, <3>3, <4>1
        <5>. QED  BY <5>1
      <4>2. CASE j \in Links
        <5>1. /\ IsEnd(d, j) /\ OtherEnd(d, j)' = OtherEnd(d, j) /\ j \in Nat
          BY <1>2, <2>4, <3>3, <4>2, LinkFacts
        <5>2. buffer'[<<j, d>>] = buffer[<<j, d>>]
          BY <1>2, <2>6, <4>2, <5>1 DEF BuffersRight
        <5>. QED  BY <1>2, <4>2, <5>1, <5>2 DEF BuffersRight
      <4>. QED  BY <2>3, <3>3, <4>1, <4>2
    <3>. QED  BY <3>1, <3>2, <3>3 DEF BuffersRight
  <2>14. EndsRight'
    <3>1. \A d \in Peers : BacklogRight(d)'
      <4>1. ASSUME NEW d \in Peers, NEW j \in ToSet(queued'[d]) PROVE j \in Links' /\ links'[j].to = d
        <5>1. BacklogRight(d)
          BY DEF ChatInv, EndsRight
        <5>2. CASE j \in ToSet(queued[d])
          BY <2>3, <5>1, <5>2 DEF BacklogRight
        <5>3. CASE d = p /\ j = k
          BY <2>3, <5>3
        <5>4. d = p => ToSet(queued'[d]) = ToSet(queued[d]) \cup {k}
          BY <2>7, <2>8, <2>9, Zenon
        <5>5. d # p => queued'[d] = queued[d]
          BY <2>8
        <5>. QED  BY <4>1, <5>2, <5>3, <5>4, <5>5
      <4>. QED  BY <4>1 DEF BacklogRight
    <3>2. \A d \in Peers : UserRight(d)'
      BY <1>1, <2>3 DEF ChatInv, EndsRight, UserRight
    <3>3. \A d \in Peers : ConnectorRight(d)'
      <4>1. ConnectorRight(c)'
        BY <2>3, <2>10, <2>11 DEF ConnectorRight
      <4>2. ASSUME NEW d \in Peers, d # c PROVE ConnectorRight(d)'
        BY <2>3, <2>11, <4>2 DEF ChatInv, EndsRight, ConnectorRight
      <4>. QED  BY <4>1, <4>2
    <3>4. ASSUME NEW d \in Peers PROVE NamesKnown(d)'
      <4>1. NamesKnown(d)
        BY DEF ChatInv, EndsRight
      <4>2. \A j \in DOMAIN nick[d] : IsEnd(d, j)'
        BY <2>4, <4>1 DEF NamesKnown, IsEnd
      <4>. QED  BY <1>1, <4>1, <4>2 DEF NamesKnown
    <3>. QED  BY <2>13, <3>1, <3>2, <3>3, <3>4 DEF EndsRight
  <2>15. ASSUME NEW d \in Peers \ timedOut' PROVE AskedOnce(d)'
    <3>1. AskedOnce(d) /\ d \in Peers \ timedOut /\ BacklogRight(d) /\ UserRight(d)
      BY <1>1, <2>15 DEF ChatInv, EndsRight
    <3>2. user[d].pc = "store" => links'[Last(user[d].refs)].from = user[d].peer
      <4>1. ASSUME user[d].pc = "store" PROVE Last(user[d].refs) \in Links
        <5>1. user[d].refs \in Seq(Nat) /\ user[d].refs # <<>>
          BY <1>2, <3>1, <4>1 DEF ChatTypes, UserStates, UserRight
        <5>. QED  BY <3>1, <5>1, SeqFacts DEF UserRight
      <4>. QED  BY <2>3, <3>1, <4>1 DEF AskedOnce
    <3>3. CASE d # p
      <4>1. \A j \in ToSet(queued[d]) : user[d].pc = "accept" /\ links'[j].from = user[d].peer
        BY <2>3, <3>1 DEF AskedOnce, BacklogRight
      <4>. QED  BY <1>1, <1>3, <2>8, <3>1, <3>2, <3>3, <4>1 DEF AskedOnce
    <3>4. CASE d = p
      <4>1. /\ user[d].pc = "accept" /\ user[d].peer = c /\ backlog = <<>>
        <5>1. d \in ToSet(requests1[c])
          <6>1. requests1[c] \in Seq(Peers)
            BY <1>2 DEF ChatTypes
          <6>. QED  BY <1>1, <3>4, <6>1, ToSetFacts
        <5>. QED  BY <2>7, <3>1, <3>4, <5>1 DEF AskedOnce
      <4>2. ToSet(queued'[d]) = {k} /\ Len(queued'[d]) <= 1
        <5>1. ToSet(backlog) = {} /\ Len(backlog) = 0
          BY <4>1 DEF ToSet
        <5>2. Len(Append(backlog, k)) = Len(backlog) + 1
          BY <2>3, SeqFacts
        <5>3. queued'[d] = Append(backlog, k)
          BY <2>8, <3>4
        <5>4. ToSet(Append(backlog, k)) = {k}
          BY <2>9, <5>1
        <5>5. Len(Append(backlog, k)) <= 1
          BY <5>1, <5>2
        <5>. QED  BY <5>3, <5>4, <5>5, Zenon
      <4>. QED  BY <1>1, <1>3, <2>3, <3>1, <3>4, <4>1, <4>2 DEF AskedOnce
    <3>. QED  BY <3>3, <3>4
  <2>16. ASSUME NEW d \in Peers \ timedOut' PROVE NamesRight(d)'
    <3>1. NamesRight(d) /\ NamesKnown(d) /\ d \in Peers
      BY <1>1, <2>16 DEF ChatInv, EndsRight
    <3>2. \A j \in DOMAIN nick[d] : nick[d][j] = OtherEnd(d, j)'
      BY <2>4, <3>1 DEF NamesRight, NamesKnown, IsEnd
    <3>. QED  BY <1>1, <3>1, <3>2 DEF NamesRight
  <2>17. ASSUME ~hup', ~dropped', NEW d \in Peers PROVE ConnectionsKept(d)'
    <3>1. ConnectionsKept(d) /\ d \in Peers
      BY <1>1, <2>17 DEF ChatInv
    <3>2. \A j : Held(d, j) => Held(d, j)'
      BY <1>1, <2>7, <2>8, <2>9, <2>11 DEF Held
    <3>3. ASSUME d \in {c, p} PROVE Held(d, k)'
      BY <2>8, <2>9, <2>10, <2>11, <3>3 DEF Held
    <3>4. \A j \in Links' : IsEnd(d, j)' => Held(d, j)'
      BY <2>3, <2>4, <2>5, <3>1, <3>2, <3>3 DEF ConnectionsKept
    <3>5. \A j \in loop[d].todo : Unread(d, j)'
      <4>1. ASSUME NEW j \in loop[d].todo PROVE Unread(d, j)'
        <5>1. Unread(d, j) /\ j \in Nat
          BY <1>2, <3>1 DEF ConnectionsKept, ChatTypes, LoopStates
        <5>2. j \in Links
          BY <1>2, <5>1 DEF Unread, BuffersRight, IsEnd
        <5>. QED  BY <2>6, <5>1, <5>2 DEF Unread
      <4>. QED  BY <4>1
    <3>6. connector'[d].pc = "store" => connector'[d].peer \in users[d]
      BY <1>5, <2>10, <2>11, <3>1 DEF ConnectionsKept
    <3>. QED  BY <1>1, <3>1, <3>4, <3>5, <3>6 DEF ConnectionsKept
  <2>. QED  BY <2>12, <2>14, <2>15, <2>16, <2>17 DEF ChatInv
<1>. QED  BY <1>4, <1>5

-----------------------------------------------------------------------------
(* The thread that reads.                                                  *)

\* As long as nothing is dropped the other end of a connection stays open.
LEMMA OtherEndOpen ==
  ASSUME ChatInv, ~hup, ~dropped, NEW c \in Peers, NEW k, IsEnd(c, k)
  PROVE  Open(OtherEnd(c, k), k)
<1>1. PICK e : e = OtherEnd(c, k)
  OBVIOUS
<1>2. e \in Peers /\ IsEnd(e, k) /\ k \in Links
  BY <1>1, EndFacts DEF ChatInv, EndsRight, Others
<1>3. Held(e, k)
  BY <1>2 DEF ChatInv, ConnectionsKept
<1>4. user[e].pc = "store" /\ k = Last(user[e].refs) => k \in ToSet(user[e].refs)
  <2>1. ASSUME user[e].pc = "store" PROVE user[e].refs \in Seq(Nat) /\ user[e].refs # <<>>
    BY <1>2, <2>1 DEF ChatInv, ChatTypes, UserStates, EndsRight, UserRight
  <2>. QED  BY <2>1, SeqFacts
<1>. QED  BY <1>1, <1>3, <1>4 DEF Held, Open

LEMMA SelectStep ==
  ASSUME ChatInv, NEW c \in Peers, Select(c)
  PROVE  ChatInv'
<1>1. UNCHANGED <<hup, users, conn, nick, links, buffer, queued, requests1, user, connector, heard, timedOut, dropped>>
  BY DEF Select
<1>2. ChatTypes /\ NamesKnown(c)
  BY DEF ChatInv, EndsRight
<1>3. PICK o \in LoopStates : o = loop[c]
  BY <1>2 DEF ChatTypes
<1>4. /\ Connections(c) \subseteq {0} \cup DOMAIN nick[c] /\ Connections(c) \subseteq Nat
      /\ DOMAIN nick[c] \subseteq Links /\ Links \subseteq Nat
  <2>1. DOMAIN nick[c] \subseteq Links /\ Links \subseteq Nat
    BY <1>2, LinkFacts DEF NamesKnown, IsEnd
  <2>2. Connections(c) \subseteq {0} \cup DOMAIN nick[c]
    BY <1>2 DEF Connections, NamesKnown, ChatTypes
  <2>3. \A x \in Connections(c) : x = 0 \/ x \in Nat
    BY <2>1, <2>2
  <2>4. Connections(c) \subseteq Nat
    BY <2>3
  <2>. QED  BY <2>1, <2>2, <2>4
<1>5. PICK ready : ready = Ready(c)
  OBVIOUS
<1>6. ready \subseteq o.copied /\ ready \subseteq Nat
  BY <1>3, <1>5 DEF Ready, LoopStates
<1>7. PICK r \in LoopStates :
         /\ loop' = [loop EXCEPT ![c] = r] /\ r.copied \subseteq {0} \cup DOMAIN nick[c]
         /\ r.todo = o.todo \/ r.todo = ready
  <2>1. CASE ready = {}
    <3>1. PICK v : v = [o EXCEPT !.copied = Connections(c), !.ready = {}]
      OBVIOUS
    <3>2. v \in LoopStates /\ v.copied = Connections(c) /\ v.todo = o.todo
      BY <1>4, <3>1 DEF LoopStates
    <3>3. loop' = [loop EXCEPT ![c] = v]
      <4>1. loop' = [loop EXCEPT ![c].copied = Connections(c), ![c].ready = {}]
        BY <1>5, <2>1 DEF Select
      <4>2. loop \in [Peers -> LoopStates]
        BY <1>2 DEF ChatTypes
      <4>. QED  BY <1>3, <3>1, <4>1, <4>2 DEF LoopStates
    <3>. QED  BY <1>4, <3>2, <3>3
  <2>2. CASE ready # {}
    <3>1. PICK v : v = [o EXCEPT !.ready = ready, !.todo = ready]
      OBVIOUS
    <3>2. v \in LoopStates /\ v.copied = o.copied /\ v.todo = ready
      BY <1>6, <3>1 DEF LoopStates
    <3>3. loop' = [loop EXCEPT ![c] = v]
      <4>1. loop' = [loop EXCEPT ![c].ready = ready, ![c].todo = ready]
        BY <1>5, <2>2 DEF Select
      <4>2. loop \in [Peers -> LoopStates]
        BY <1>2 DEF ChatTypes
      <4>. QED  BY <1>3, <3>1, <4>1, <4>2 DEF LoopStates
    <3>. QED  BY <1>2, <1>3, <3>2, <3>3 DEF NamesKnown
  <2>. QED  BY <2>1, <2>2, Zenon
<1>8. /\ loop' \in [Peers -> LoopStates] /\ loop'[c] = r
      /\ \A d \in Peers : d # c => loop'[d] = loop[d]
  BY <1>2, <1>7 DEF ChatTypes
<1>9. ChatTypes'
  <2>1. DOMAIN reader' = Peers
    <3>1. reader' = reader \/ reader' = [reader EXCEPT ![c] = "read"]
      BY DEF Select
    <3>. QED  BY <1>2, <3>1 DEF ChatTypes
  <2>. QED  BY <1>1, <1>2, <1>8, <2>1 DEF ChatTypes
<1>10. EndsRight'
  <2>1. NamesKnown(c)'
    <3>1. r.copied \cup r.todo \subseteq {0} \cup DOMAIN nick[c]
      BY <1>2, <1>3, <1>6, <1>7 DEF NamesKnown
    <3>. QED  BY <1>1, <1>2, <1>8, <3>1 DEF NamesKnown, IsEnd, Links
  <2>2. \A d \in Peers : d # c => NamesKnown(d)'
    BY <1>1, <1>8 DEF ChatInv, EndsRight, NamesKnown, IsEnd, Links
  <2>. QED  BY <1>1, <2>1, <2>2, PartsKept DEF EndsRight
<1>11. \A d \in Peers \ timedOut' : AskedOnce(d)' /\ NamesRight(d)'
  BY <1>1, PartsKept
<1>12. ASSUME ~hup', ~dropped', NEW d \in Peers PROVE ConnectionsKept(d)'
  <2>1. ConnectionsKept(d) /\ ~hup /\ ~dropped
    BY <1>1, <1>12 DEF ChatInv
  <2>2. ASSUME NEW j \in ready PROVE Unread(c, j)
    <3>1. j \in loop[c].copied /\ (IF j = 0 THEN hup ELSE Unread(c, j) \/ ~Open(OtherEnd(c, j), j))
      BY <1>5, <2>2 DEF Ready
    <3>2. j # 0 /\ j \in DOMAIN nick[c]
      BY <1>2, <2>1, <3>1 DEF NamesKnown
    <3>3. IsEnd(c, j)
      BY <1>2, <3>2 DEF NamesKnown
    <3>. QED  BY <2>1, <3>1, <3>2, <3>3, OtherEndOpen
  <2>3. \A j \in loop'[d].todo : Unread(d, j)'
    <3>1. CASE d # c
      BY <1>1, <1>8, <2>1, <3>1 DEF ConnectionsKept, Unread
    <3>2. CASE d = c
      BY <1>1, <1>3, <1>7, <1>8, <2>1, <2>2, <3>2 DEF ConnectionsKept, Unread
    <3>. QED  BY <3>1, <3>2
  <2>4. reader'[d] # "dead"
    <3>1. reader' = reader \/ reader' = [reader EXCEPT ![c] = "read"]
      BY DEF Select
    <3>2. CASE reader' = reader
      BY <2>1, <3>2 DEF ConnectionsKept
    <3>3. CASE reader' = [reader EXCEPT ![c] = "read"]
      <4>1. reader'[d] = IF d = c THEN "read" ELSE reader[d]
        BY <1>2, <3>3 DEF ChatTypes
      <4>. QED  BY <2>1, <4>1 DEF ConnectionsKept
    <3>. QED  BY <3>1, <3>2, <3>3
  <2>. QED  BY <1>1, <2>1, <2>3, <2>4 DEF ConnectionsKept, Held, IsEnd, Links
<1>. QED  BY <1>9, <1>10, <1>11, <1>12 DEF ChatInv

LEMMA ReadMessagesStep ==
  ASSUME ChatInv, NEW c \in Peers, NEW k \in loop[c].todo, ReadMessages(c, k)
  PROVE  ChatInv'
<1>1. /\ Unread(c, k) /\ heard' = [heard EXCEPT ![c] = @ \cup Received(c, k)]
      /\ buffer' = [buffer EXCEPT ![<<k, c>>] = <<>>]
      /\ UNCHANGED <<hup, users, conn, nick, links, queued, requests1, user, connector, timedOut, dropped>>
  BY DEF ReadMessages
<1>2. ChatTypes /\ BuffersRight /\ NamesKnown(c)
  BY DEF ChatInv, EndsRight
<1>3. PICK o \in LoopStates : o = loop[c]
  BY <1>2 DEF ChatTypes
<1>4. k \in Nat /\ IsEnd(c, k) /\ k \in Links /\ k # 0 /\ k \in DOMAIN nick[c]
  <2>1. k \in Nat /\ (k = 0 \/ k \in DOMAIN nick[c])
    BY <1>2, <1>3 DEF LoopStates, NamesKnown
  <2>2. IsEnd(c, k)
    BY <1>1, <1>2, <2>1 DEF Unread, BuffersRight
  <2>. QED  BY <1>2, <2>1, <2>2, EndFacts
<1>5. /\ Connections(c) \subseteq {0} \cup DOMAIN nick[c] /\ Connections(c) \subseteq Nat
  <2>1. DOMAIN nick[c] \subseteq Links /\ Links \subseteq Nat
    BY <1>2, LinkFacts DEF NamesKnown, IsEnd
  <2>2. Connections(c) \subseteq {0} \cup DOMAIN nick[c]
    BY <1>2 DEF Connections, NamesKnown, ChatTypes
  <2>3. \A x \in Connections(c) : x = 0 \/ x \in Nat
    BY <2>1, <2>2
  <2>4. Connections(c) \subseteq Nat
    BY <2>3
  <2>. QED  BY <2>2, <2>4
<1>6. PICK read \in LoopStates : /\ read = [loop[c] EXCEPT !.todo = @ \ {k}, !.last = k]
                                 /\ read.todo = o.todo \ {k} /\ read.copied = o.copied
  <2>1. PICK v : v = [o EXCEPT !.todo = o.todo \ {k}, !.last = k]
    OBVIOUS
  <2>2. v \in LoopStates /\ v.todo = o.todo \ {k} /\ v.copied = o.copied
    BY <1>4, <2>1 DEF LoopStates
  <2>3. v = [loop[c] EXCEPT !.todo = @ \ {k}, !.last = k]
    BY <1>3, <2>1, Zenon
  <2>. QED  BY <2>2, <2>3
<1>7. PICK r \in LoopStates :
         /\ loop' = [loop EXCEPT ![c] = r] /\ r.copied \subseteq {0} \cup DOMAIN nick[c]
         /\ r.todo = o.todo \ {k}
  <2>1. CASE read.todo = {}
    <3>1. PICK v : v = [read EXCEPT !.copied = Connections(c)]
      OBVIOUS
    <3>2. v \in LoopStates /\ v.copied = Connections(c) /\ v.todo = read.todo
      BY <1>5, <3>1 DEF LoopStates
    <3>3. loop' = [loop EXCEPT ![c] = v]
      BY <1>6, <2>1, <3>1 DEF ReadMessages
    <3>. QED  BY <1>5, <1>6, <3>2, <3>3
  <2>2. CASE read.todo # {}
    <3>1. loop' = [loop EXCEPT ![c] = read]
      BY <1>6, <2>2 DEF ReadMessages
    <3>. QED  BY <1>2, <1>3, <1>6, <3>1 DEF NamesKnown
  <2>. QED  BY <2>1, <2>2, Zenon
<1>8. /\ loop' \in [Peers -> LoopStates] /\ loop'[c] = r
      /\ \A d \in Peers : d # c => loop'[d] = loop[d]
  BY <1>2, <1>7 DEF ChatTypes
<1>9. reader' = reader \/ reader' = [reader EXCEPT ![c] = "select"]
  BY <1>6 DEF ReadMessages
<1>10. /\ DOMAIN reader' = Peers /\ \A d \in Peers : reader'[d] \in {reader[d], "select"}
       /\ DOMAIN heard' = Peers /\ heard'[c] = heard[c] \cup Received(c, k)
       /\ \A d \in Peers : d # c => heard'[d] = heard[d]
  <2>1. CASE reader' = reader
    BY <1>1, <1>2, <2>1 DEF ChatTypes
  <2>2. CASE reader' = [reader EXCEPT ![c] = "select"]
    BY <1>1, <1>2, <2>2 DEF ChatTypes
  <2>. QED  BY <1>9, <2>1, <2>2
<1>11. /\ DOMAIN buffer' = DOMAIN buffer /\ buffer'[<<k, c>>] = <<>>
       /\ \A x \in DOMAIN buffer : x # <<k, c>> => buffer'[x] = buffer[x]
  BY <1>1 DEF Unread
<1>12. ChatTypes'
  BY <1>1, <1>2, <1>8, <1>10 DEF ChatTypes
<1>13. BuffersRight'
  <2>1. ASSUME NEW j \in Links, NEW d \in Peers, IsEnd(d, j)
        PROVE  /\ buffer'[<<j, d>>] \in Seq(Peers)
               /\ \A i \in 1 .. Len(buffer'[<<j, d>>]) : buffer'[<<j, d>>][i] = OtherEnd(d, j)
    <3>1. CASE <<j, d>> = <<k, c>>
      <4>1. buffer'[<<j, d>>] = <<>>
        BY <1>11, <3>1
      <4>. QED  BY <4>1
    <3>2. CASE <<j, d>> # <<k, c>>
      <4>1. <<j, d>> \in DOMAIN buffer
        BY <1>2, <2>1, LinkFacts DEF BuffersRight
      <4>. QED  BY <1>2, <1>11, <2>1, <3>2, <4>1 DEF BuffersRight
    <3>. QED  BY <3>1, <3>2
  <2>2. \A j \in Links' : \A d \in Peers : IsEnd(d, j)' =>
           /\ buffer'[<<j, d>>] \in Seq(Peers)
           /\ \A i \in 1 .. Len(buffer'[<<j, d>>]) : buffer'[<<j, d>>][i] = OtherEnd(d, j)'
    BY <1>1, <2>1 DEF Links, IsEnd, OtherEnd
  <2>. QED  BY <1>1, <1>2, <1>11, <2>2 DEF BuffersRight, IsEnd, Links
<1>14. EndsRight'
  <2>1. NamesKnown(c)'
    <3>1. r.copied \cup r.todo \subseteq {0} \cup DOMAIN nick[c]
      BY <1>2, <1>3, <1>7 DEF NamesKnown
    <3>. QED  BY <1>1, <1>2, <1>8, <3>1 DEF NamesKnown, IsEnd, Links
  <2>2. \A d \in Peers : d # c => NamesKnown(d)'
    BY <1>1, <1>8 DEF ChatInv, EndsRight, NamesKnown, IsEnd, Links
  <2>. QED  BY <1>1, <1>13, <2>1, <2>2, PartsKept DEF EndsRight
<1>15. \A d \in Peers \ timedOut' : AskedOnce(d)'
  BY <1>1, PartsKept
<1>16. ASSUME NEW d \in Peers \ timedOut' PROVE NamesRight(d)'
  <2>1. NamesRight(d) /\ d \in Peers
    BY <1>1, <1>16 DEF ChatInv
  <2>2. ASSUME d = c, NEW m \in Received(c, k) PROVE m.nick = m.from
    <3>1. m = [from |-> buffer[<<k, c>>][1], nick |-> nick[c][k]]
      BY <2>2 DEF Received
    <3>2. PICK b \in Seq(Peers) : b = buffer[<<k, c>>] /\ b # <<>>
                                  /\ \A i \in 1 .. Len(b) : b[i] = OtherEnd(c, k)
      BY <1>1, <1>2, <1>4 DEF BuffersRight, Unread
    <3>3. b[1] = OtherEnd(c, k)
      <4>1. 1 \in 1 .. Len(b)
        BY <3>2
      <4>. QED  BY <3>2, <4>1
    <3>4. nick[c][k] = OtherEnd(c, k)
      BY <1>4, <2>1, <2>2 DEF NamesRight
    <3>. QED  BY <3>1, <3>2, <3>3, <3>4
  <2>3. \A m \in heard'[d] : m.nick = m.from
    BY <1>10, <2>1, <2>2 DEF NamesRight
  <2>. QED  BY <1>1, <2>1, <2>3 DEF NamesRight, OtherEnd
<1>17. ASSUME ~hup', ~dropped', NEW d \in Peers PROVE ConnectionsKept(d)'
  <2>1. ConnectionsKept(d)
    BY <1>1, <1>17 DEF ChatInv
  <2>2. \A j \in loop'[d].todo : Unread(d, j)'
    <3>1. \A j \in loop'[d].todo : Unread(d, j) /\ <<j, d>> # <<k, c>>
      <4>1. CASE d = c
        BY <1>3, <1>7, <1>8, <2>1, <4>1 DEF ConnectionsKept
      <4>2. CASE d # c
        BY <1>8, <2>1, <4>2 DEF ConnectionsKept
      <4>. QED  BY <4>1, <4>2
    <3>. QED  BY <1>11, <3>1 DEF Unread
  <2>3. reader'[d] # "dead"
    BY <1>10, <2>1 DEF ConnectionsKept
  <2>. QED  BY <1>1, <2>1, <2>2, <2>3 DEF ConnectionsKept, Held, IsEnd, Links
<1>. QED  BY <1>12, <1>14, <1>15, <1>16, <1>17 DEF ChatInv

LEMMA ReaderDiesStep ==
  ASSUME ChatInv, NEW c \in Peers, NEW k \in loop[c].todo, ReaderDies(c, k)
  PROVE  ChatInv'
<1>1. /\ ~Unread(c, k) /\ reader' = [reader EXCEPT ![c] = "dead"] /\ loop' = [loop EXCEPT ![c] = Looping({})]
      /\ UNCHANGED <<hup, users, conn, nick, links, buffer, queued, requests1, user>>
      /\ UNCHANGED <<connector, heard, timedOut, dropped>>
  BY DEF ReaderDies
<1>2. PICK r \in LoopStates : r = Looping({}) /\ r.copied = {} /\ r.todo = {}
  <2>1. Looping({}) \in LoopStates
    BY DEF Looping, LoopStates
  <2>. QED  BY <2>1 DEF Looping
<1>3. /\ loop' \in [Peers -> LoopStates] /\ loop'[c] = r /\ DOMAIN reader' = Peers
      /\ \A d \in Peers : d # c => loop'[d] = loop[d]
  BY <1>1, <1>2 DEF ChatInv, ChatTypes
<1>4. ChatTypes'
  BY <1>1, <1>3 DEF ChatInv, ChatTypes
<1>5. EndsRight'
  <2>1. \A d \in Peers : NamesKnown(d)'
    BY <1>1, <1>2, <1>3 DEF ChatInv, EndsRight, NamesKnown, IsEnd, Links
  <2>. QED  BY <1>1, <2>1, PartsKept DEF EndsRight
<1>6. \A d \in Peers \ timedOut' : AskedOnce(d)' /\ NamesRight(d)'
  BY <1>1, PartsKept
<1>7. ~(~hup /\ ~dropped)
  BY <1>1 DEF ChatInv, ConnectionsKept
<1>. QED  BY <1>1, <1>4, <1>5, <1>6, <1>7 DEF ChatInv

LEMMA ChatStep == ASSUME ChatInv, ChatNext PROVE ChatInv'
<1>1. PICK c \in Peers :
         \/ UserThread(c) \/ ConnectionThread(c) \/ ClientThread(c)
         \/ \E p \in Others(c) : UserAdded(c, p) \/ UserRemoved(c, p) \/ SendMessage(c, p)
  BY DEF ChatNext
<1>2. CASE UserThread(c)
  BY <1>2, SendStep, SendRaisesStep, AcceptStep, AcceptTimesOutStep, StoreAcceptedStep DEF UserThread
<1>3. CASE ConnectionThread(c)
  BY <1>3, StoreConnectedStep, ConnectBackStep DEF ConnectionThread
<1>4. CASE ClientThread(c)
  BY <1>4, SelectStep, ReadMessagesStep, ReaderDiesStep DEF ClientThread
<1>5. CASE \E p \in Others(c) : UserAdded(c, p) \/ UserRemoved(c, p) \/ SendMessage(c, p)
  BY <1>5, UserAddedStep, UserRemovedStep, SendMessageStep
<1>. QED  BY <1>1, <1>2, <1>3, <1>4, <1>5

LEMMA ChatStarts == ASSUME ChatInit \/ ChatOff PROVE ChatInv
<1>1. /\ users \in [Peers -> SUBSET Peers] /\ \A c \in Peers : users[c] \subseteq Others(c)
  <2>1. CASE ChatInit
    <3>1. PICK case \in Cases : users = [c \in Peers |-> case.registered \ {c}]
      BY <2>1 DEF ChatInit
    <3>2. case.registered \subseteq Peers
      BY ChatClientAssumption
    <3>. QED  BY <3>1, <3>2 DEF Others
  <2>2. CASE ChatOff
    BY <2>2 DEF ChatOff
  <2>. QED  BY <2>1, <2>2
<1>2. PICK copied \in {{}, {0}} : loop = [c \in Peers |-> Looping(copied)]
  BY DEF ChatInit, ChatOff
<1>3. /\ conn = [c \in Peers |-> [p \in Others(c) |-> 0]] /\ nick = [c \in Peers |-> <<>>]
      /\ links = <<>> /\ buffer = [x \in {} |-> <<>>]
      /\ queued = [c \in Peers |-> <<>>] /\ requests1 = [c \in Peers |-> <<>>]
      /\ user = [c \in Peers |-> NotSending] /\ connector = [c \in Peers |-> Resting]
      /\ reader = [c \in Peers |-> "select"] /\ heard = [c \in Peers |-> {}]
  BY DEF ChatInit, ChatOff
<1>4. PICK l \in LoopStates : l = Looping(copied) /\ l.copied \subseteq {0} /\ l.todo = {}
  <2>1. Looping(copied) \in LoopStates
    BY DEF Looping, LoopStates
  <2>. QED  BY <2>1 DEF Looping
<1>5. PICK u \in UserStates : u = NotSending /\ u.pc = "idle" /\ u.refs = <<>>
  BY RestingTyped DEF NotSending
<1>6. PICK r \in ConnectorStates : r = Resting /\ r.pc = "idle"
  BY RestingTyped DEF Resting
<1>7. ToSet(<<>>) = {} /\ Links = {} /\ DOMAIN <<>> = {} /\ Len(<<>>) = 0
  BY <1>3 DEF ToSet, Links
<1>8. ChatTypes
  BY <1>1, <1>2, <1>3, <1>4, <1>5, <1>6 DEF ChatTypes
<1>9. BuffersRight
  BY <1>3, <1>7 DEF BuffersRight, IsEnd
<1>10. EndsRight
  BY <1>2, <1>3, <1>4, <1>5, <1>6, <1>7, <1>9 DEF EndsRight, BacklogRight, UserRight, ConnectorRight, NamesKnown
<1>11. \A c \in Peers : AskedOnce(c) /\ NamesRight(c)
  BY <1>3, <1>5, <1>7 DEF AskedOnce, NamesRight
<1>12. \A c \in Peers : ConnectionsKept(c)
  BY <1>2, <1>3, <1>4, <1>5, <1>6, <1>7 DEF ConnectionsKept
<1>. QED  BY <1>8, <1>10, <1>11, <1>12 DEF ChatInv

-----------------------------------------------------------------------------
(* The programs together: one of them runs, the others are at rest.        *)

NetInv == ScanInv /\ CalcInv /\ ChatInv

LEMMA NetStarts == ASSUME NetInit PROVE NetInv
<1>1. (ScanInit \/ ScanOff) /\ (CalcInit \/ CalcOff) /\ (ChatInit \/ ChatOff)
  BY DEF NetInit
<1>. QED  BY <1>1, ScanStarts, CalcStarts, ChatStarts DEF NetInv

LEMMA NetStep == ASSUME NetInv, [NetNext]_netVars PROVE NetInv'
<1>1. CASE EvNext /\ UNCHANGED <<calcVars, scanVars, chatVars, sim>>
  BY <1>1, CalcUnchanged, ScanUnchanged, ChatUnchanged DEF NetInv
<1>2. CASE CalcNext /\ UNCHANGED <<evVars, scanVars, chatVars, sim>>
  BY <1>2, CalcStep, ScanUnchanged, ChatUnchanged DEF NetInv
<1>3. CASE ScanNext /\ UNCHANGED <<evVars, calcVars, chatVars, sim>>
  BY <1>3, CalcUnchanged, ScanStep, ChatUnchanged DEF NetInv
<1>4. CASE ChatNext /\ UNCHANGED <<evVars, calcVars, scanVars, sim>>
  BY <1>4, CalcUnchanged, ScanUnchanged, ChatStep DEF NetInv
<1>5. CASE UNCHANGED netVars
  BY <1>5, CalcUnchanged, ScanUnchanged, ChatUnchanged DEF NetInv, netVars
<1>. QED  BY <1>1, <1>2, <1>3, <1>4, <1>5 DEF NetNext

LEMMA NetInvHolds == NetSpec => []NetInv
BY NetStarts, NetStep, PTL DEF NetSpec

\* Whatever number of clients ask each other to connect back, a client that
\* has not given up an accept (Client.py:269) prints each message under its
\* sender's name.  Where select does not report unconnected sockets, and as long
\* as no entry of the list of clients is replaced or removed, the client thread
\* meets no socket with nothing to read, on which receive_client_messages ends.
THEOREM ChatClientRightHolds == NetSpec => []ChatClientRight
<1>1. NetInv => ChatClientRight
  BY DEF NetInv, ChatInv, NamesRight, ConnectionsKept, ChatClientRight, Attributed, ClientThreadLives
<1>. QED  BY <1>1, NetInvHolds, PTL

\* The main thread of the calculation server and the workers of its pool hand
\* each connection on until it is answered: before the server is stopped only a
\* request that it cannot answer ends in an error of the client.
THEOREM OnlyBadRequestsFailHolds == NetSpec => []OnlyBadRequestsFail
<1>1. NetInv => OnlyBadRequestsFail
  BY DEF NetInv, CalcInv
<1>. QED  BY <1>1, NetInvHolds, PTL

\* When the port scanner prints its sets, every thread of both scans has put
\* its port into one of them, in whatever order they ran; the count of UDP
\* ports, which each answer raises for whichever port waited, is no larger
\* than the number of ports that answer.
THEOREM ScanRightHolds == NetSpec => [](ScanComplete /\ UdpCountRight)
<1>1. ASSUME ScanInv PROVE ScanComplete
  <2>1. SUFFICES ASSUME phase = "printed"
                 PROVE  /\ TCPPortsOpened = {p \in Ports : host[p] = "answers"}
                        /\ TCPPortsOpened \union TCPPortsClosed = {p \in Ports : host[p] # "binary"}
                        /\ UDPPortsOpened \union UDPPortsClosed = Ports
    BY DEF ScanComplete
  <2>2. Joined("tcp") /\ Joined("udp")
    BY <1>1, <2>1 DEF ScanInv
  <2>3. ASSUME NEW p \in Ports
        PROVE  /\ scan[<<"tcp", p>>] = "opened" <=> host[p] = "answers"
               /\ scan[<<"tcp", p>>] \in {"opened", "closed"} <=> host[p] # "binary"
               /\ scan[<<"udp", p>>] \in {"opened", "closed"}
    <3>1. scan[<<"tcp", p>>] = IF host[p] = "answers" THEN "opened"
                              ELSE IF host[p] = "binary" THEN "raised" ELSE "closed"
      BY <1>1, <2>2 DEF ScanInv, Joined, Ended
    <3>2. scan[<<"udp", p>>] \in {"opened", "closed"}
      BY <1>1, <2>2 DEF ScanInv, Joined, Ended
    <3>. QED  BY <3>1, <3>2
  <2>. QED  BY <2>3 DEF TCPPortsOpened, TCPPortsClosed, UDPPortsOpened, UDPPortsClosed
<1>2. ASSUME ScanInv PROVE UdpCountRight
  BY <1>2, ScanSets DEF ScanInv, UdpCountRight
<1>. QED  BY <1>1, <1>2, NetInvHolds, PTL DEF NetInv
=============================================================================
