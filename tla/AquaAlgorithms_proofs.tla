----------------------- MODULE AquaAlgorithms_proofs -----------------------
(***************************************************************************)
(* Proofs about the two algorithms that run on top of Aqualife's ring, the *)
(* global snapshot and the location of fish.                               *)
(*                                                                         *)
(* Snapshot: the types in a ring of any size, and what a result holds in a *)
(* ring of two, for any fish.  Location: for any tanks and fish, the home  *)
(* of a fish knows where it swims, and no receiver ends, as long as no     *)
(* tank leaves; departed only grows.                                       *)
(***************************************************************************)
EXTENDS MCAquaSnapshot, TLAPS

-----------------------------------------------------------------------------
(* The types of the snapshot, in a ring of any size.                       *)

LEMMA InRing ==
  ASSUME NEW t \in Tanks
  PROVE  leftNeighbour(t) \in Tanks /\ rightNeighbour(t) \in Tanks
BY SnapshotAssumption DEF Tanks, leftNeighbour, rightNeighbour

\* What a channel holds when a message is added or the first one is taken.
LEMMA Channel ==
  ASSUME TypeOK, NEW s \in Tanks, NEW t \in Tanks
  PROVE  /\ net[<<s, t>>] \in Seq(Messages)
         /\ \A q \in Seq(Messages) : net' = [net EXCEPT ![<<s, t>>] = q] =>
               /\ net' \in [Tanks \X Tanks -> Seq(Messages)] /\ net'[<<s, t>>] = q
               /\ \A u, v \in Tanks : <<u, v>> # <<s, t>> => net'[<<u, v>>] = net[<<u, v>>]
<1>1. net \in [Tanks \X Tanks -> Seq(Messages)] /\ <<s, t>> \in Tanks \X Tanks
  BY DEF TypeOK
<1>2. ASSUME NEW q \in Seq(Messages), net' = [net EXCEPT ![<<s, t>>] = q]
      PROVE  /\ net' \in [Tanks \X Tanks -> Seq(Messages)] /\ net'[<<s, t>>] = q
             /\ \A u, v \in Tanks : <<u, v>> # <<s, t>> => net'[<<u, v>>] = net[<<u, v>>]
  <2>1. \A u, v \in Tanks : <<u, v>> \in Tanks \X Tanks
    OBVIOUS
  <2>. QED  BY <1>1, <1>2, <2>1
<1>. QED  BY <1>1, <1>2

LEMMA Added ==
  ASSUME TypeOK, NEW s \in Tanks, NEW t \in Tanks, NEW m \in Messages, SendTo(s, t, m)
  PROVE  /\ Append(net[<<s, t>>], m) \in Seq(Messages)
         /\ net' \in [Tanks \X Tanks -> Seq(Messages)]
         /\ net'[<<s, t>>] = Append(net[<<s, t>>], m)
         /\ \A u, v \in Tanks : <<u, v>> # <<s, t>> => net'[<<u, v>>] = net[<<u, v>>]
<1>1. PICK old \in Seq(Messages) : old = net[<<s, t>>]
  BY Channel
<1>2. PICK q \in Seq(Messages) : q = Append(old, m)
  <2>1. Append(old, m) \in Seq(Messages)
    OBVIOUS
  <2>. QED  BY <2>1
<1>3. net' = [net EXCEPT ![<<s, t>>] = q]
  BY <1>1, <1>2, Zenon DEF SendTo
<1>. QED  BY <1>1, <1>2, <1>3, Channel

LEMMA Taken ==
  ASSUME TypeOK, NEW s \in Tanks, NEW t \in Tanks, net[<<s, t>>] # <<>>,
         net' = [net EXCEPT ![<<s, t>>] = Tail(@)]
  PROVE  /\ Tail(net[<<s, t>>]) \in Seq(Messages) /\ Head(net[<<s, t>>]) \in Messages
         /\ net' \in [Tanks \X Tanks -> Seq(Messages)]
         /\ net'[<<s, t>>] = Tail(net[<<s, t>>])
         /\ \A u, v \in Tanks : <<u, v>> # <<s, t>> => net'[<<u, v>>] = net[<<u, v>>]
<1>1. PICK old \in Seq(Messages) : old = net[<<s, t>>]
  BY Channel
<1>2. PICK q \in Seq(Messages) : q = Tail(old)
  <2>1. Tail(old) \in Seq(Messages)
    BY <1>1
  <2>. QED  BY <2>1
<1>3. net' = [net EXCEPT ![<<s, t>>] = q]
  BY <1>1, <1>2, Zenon
<1>4. Head(old) \in Messages
  BY <1>1
<1>. QED  BY <1>1, <1>2, <1>3, <1>4, Channel

\* What tanks send.
LEMMA MessagesTyped ==
  /\ Marker \in Messages /\ Marker.type = "marker"
  /\ \A g \in SUBSET Entries : Collect(g) \in Messages /\ Collect(g).type = "collect" /\ Collect(g).fish = g
  /\ \A f \in Fish : \A d \in Dirs : Handoff(f, d) \in Messages /\ Handoff(f, d).type = "handoff"
  /\ \A m \in Messages : /\ m.type \in {"marker", "collect", "handoff"}
                         /\ m.type = "collect" => m.fish \in SUBSET Entries
                         /\ m.type = "handoff" => m.fish \in Fish /\ m.dir \in Dirs
<1>1. Marker \in Messages /\ Marker.type = "marker"
  BY DEF Marker, Messages
<1>2. ASSUME NEW g \in SUBSET Entries
      PROVE  Collect(g) \in Messages /\ Collect(g).type = "collect" /\ Collect(g).fish = g
  BY DEF Collect, Messages
<1>3. ASSUME NEW f \in Fish, NEW d \in Dirs
      PROVE  Handoff(f, d) \in Messages /\ Handoff(f, d).type = "handoff"
  BY DEF Handoff, Messages
<1>4. ASSUME NEW m \in Messages
      PROVE  /\ m.type \in {"marker", "collect", "handoff"}
             /\ m.type = "collect" => m.fish \in SUBSET Entries
             /\ m.type = "handoff" => m.fish \in Fish /\ m.dir \in Dirs
  BY DEF Messages
<1>. QED  BY <1>1, <1>2, <1>3, <1>4

LEMMA CollectedTyped ==
  ASSUME TypeOK, NEW t \in Tanks
  PROVE  Collected(t) \in SUBSET Entries
<1>1. \A S \in SUBSET Fish : Entry(S, t) \subseteq Entries
  BY DEF Entry, Entries
<1>2. /\ leftState[t] \cup localState[t] \cup rightState[t] \in SUBSET Fish
      /\ globalState[t] \subseteq Entries
  BY DEF TypeOK
<1>. QED  BY <1>1, <1>2 DEF Collected

LEMMA TypeStep == ASSUME TypeOK, [Next]_vars PROVE TypeOK'
<1>1. CASE UNCHANGED vars
  BY <1>1 DEF TypeOK, vars, recording, states, calls
<1>2. ASSUME NEW t \in Tanks, NEW f \in Fish, NEW d \in Dirs, HandOff(t, f, d)
      PROVE  TypeOK'
  <2>1. PICK r \in Tanks : r = IF d = "RIGHT" THEN rightNeighbour(t) ELSE leftNeighbour(t)
    BY InRing
  <2>2. SendTo(t, r, Handoff(f, d))
    BY <1>2, <2>1, Zenon DEF HandOff
  <2>3. net' \in [Tanks \X Tanks -> Seq(Messages)]
    BY <2>2, Added, MessagesTyped
  <2>. QED  BY <1>2, <2>3 DEF TypeOK, HandOff, recording, states, calls
<1>3. ASSUME NEW t \in Tanks, NEW f \in Fish, Disappear(t, f)
      PROVE  TypeOK'
  BY <1>3 DEF TypeOK, Disappear, recording, states, calls
<1>4. ASSUME NEW s \in Tanks, NEW t \in Tanks, ReceiveFrom(s, t)
      PROVE  TypeOK'
  <2>1. net[<<s, t>>] # <<>>
    BY <1>4 DEF ReceiveFrom, ReceiveFish, MarkerStarts, MarkerStopsOne, MarkerStopsLast, ReceiveGlobalState, Receives
  <2>2. PICK m \in Messages : m = Head(net[<<s, t>>])
    <3>1. net[<<s, t>>] \in Seq(Messages)
      BY Channel
    <3>. QED  BY <2>1, <3>1
  <2>3. net' = [net EXCEPT ![<<s, t>>] = Tail(@)] => net' \in [Tanks \X Tanks -> Seq(Messages)]
    BY <2>1, Taken
  <2>4. CASE ReceiveFish(s, t)
    <3>1. m.type = "handoff" /\ m.fish \in Fish
      BY <2>2, <2>4, MessagesTyped DEF ReceiveFish, Receives
    <3>2. net' \in [Tanks \X Tanks -> Seq(Messages)]
      BY <2>3, <2>4 DEF ReceiveFish
    <3>3. /\ fishies' = [fishies EXCEPT ![t] = @ \cup {m.fish}]
          /\ rightState' = rightState \/ rightState' = [rightState EXCEPT ![t] = @ \cup {m.fish}]
          /\ leftState' = leftState \/ leftState' = [leftState EXCEPT ![t] = @ \cup {m.fish}]
          /\ UNCHANGED <<leaving, recording, localState, globalState, calls>>
      BY <2>2, <2>4 DEF ReceiveFish
    <3>4. /\ fishies' \in [Tanks -> SUBSET Fish] /\ rightState' \in [Tanks -> SUBSET Fish]
          /\ leftState' \in [Tanks -> SUBSET Fish]
      <4>1. \A S \in [Tanks -> SUBSET Fish] : [S EXCEPT ![t] = @ \cup {m.fish}] \in [Tanks -> SUBSET Fish]
        BY <3>1
      <4>2. /\ fishies \in [Tanks -> SUBSET Fish] /\ rightState \in [Tanks -> SUBSET Fish]
            /\ leftState \in [Tanks -> SUBSET Fish]
        BY DEF TypeOK
      <4>. QED  BY <3>3, <4>1, <4>2, Zenon
    <3>. QED  BY <3>2, <3>3, <3>4 DEF TypeOK, recording, calls
  <2>5. CASE MarkerStarts(s, t)
    <3>1. starting' \in [Tanks -> [Starters -> {"no", "record", "left", "right"}]]
      BY <2>5 DEF TypeOK, MarkerStarts
    <3>. QED  BY <2>3, <2>5, <3>1 DEF TypeOK, MarkerStarts
  <2>6. CASE MarkerStopsOne(s, t)
    BY <2>3, <2>6 DEF TypeOK, MarkerStopsOne, states, calls
  <2>7. CASE MarkerStopsLast(s, t)
    <3>1. /\ recordState' = [recordState EXCEPT ![t] = "IDLE"]
          /\ finishedRecording' = [finishedRecording EXCEPT ![t] = TRUE]
          /\ UNCHANGED <<fishies, leaving, isInitiator, finishedGlobalState, localState, leftState, rightState, calls>>
      BY <2>7 DEF MarkerStopsLast
    <3>2. net' \in [Tanks \X Tanks -> Seq(Messages)] /\ globalState' \in [Tanks -> SUBSET Entries]
      <4>1. CASE isInitiator[t]
        <5>1. PICK taken : taken = [net EXCEPT ![<<s, t>>] = Tail(@)]
          OBVIOUS
        <5>2. /\ globalState' = [globalState EXCEPT ![t] = Collected(t)]
              /\ net' = [taken EXCEPT ![<<t, leftNeighbour(t)>>] = Append(@, Collect(Collected(t)))]
          BY <2>7, <4>1, <5>1 DEF MarkerStopsLast
        <5>3. taken \in [Tanks \X Tanks -> Seq(Messages)]
          <6>1. net[<<s, t>>] \in Seq(Messages) /\ net \in [Tanks \X Tanks -> Seq(Messages)]
            BY Channel DEF TypeOK
          <6>2. PICK q \in Seq(Messages) : q = Tail(net[<<s, t>>])
            <7>1. Tail(net[<<s, t>>]) \in Seq(Messages)
              BY <2>1, <6>1
            <7>. QED  BY <7>1
          <6>3. taken = [net EXCEPT ![<<s, t>>] = q]
            BY <5>1, <6>2, Zenon
          <6>. QED  BY <6>1, <6>3
        <5>4. PICK l \in Tanks : l = leftNeighbour(t)
          BY InRing
        <5>5. Collect(Collected(t)) \in Messages /\ Collected(t) \in SUBSET Entries
          BY CollectedTyped, MessagesTyped
        <5>6. PICK q \in Seq(Messages) : q = Append(taken[<<t, l>>], Collect(Collected(t)))
          <6>1. taken[<<t, l>>] \in Seq(Messages)
            BY <5>3
          <6>2. Append(taken[<<t, l>>], Collect(Collected(t))) \in Seq(Messages)
            BY <5>5, <6>1
          <6>. QED  BY <6>2
        <5>7. net' = [taken EXCEPT ![<<t, l>>] = q]
          BY <5>2, <5>4, <5>6, Zenon
        <5>8. net' \in [Tanks \X Tanks -> Seq(Messages)]
          BY <5>3, <5>7
        <5>9. globalState' \in [Tanks -> SUBSET Entries]
          BY <5>2, <5>5 DEF TypeOK
        <5>. QED  BY <5>8, <5>9
      <4>2. CASE ~isInitiator[t]
        BY <2>3, <2>7, <4>2 DEF MarkerStopsLast, TypeOK
      <4>. QED  BY <4>1, <4>2
    <3>. QED  BY <3>1, <3>2 DEF TypeOK, calls
  <2>8. CASE ReceiveGlobalState(s, t)
    <3>1. m.fish \in SUBSET Entries
      BY <2>2, <2>8, MessagesTyped DEF ReceiveGlobalState, Receives
    <3>2. globalState' = [globalState EXCEPT ![t] = m.fish]
      BY <2>2, <2>8 DEF ReceiveGlobalState
    <3>. QED  BY <2>3, <2>8, <3>1, <3>2 DEF TypeOK, ReceiveGlobalState, calls
  <2>. QED  BY <1>4, <2>4, <2>5, <2>6, <2>7, <2>8 DEF ReceiveFrom
<1>5. ASSUME NEW t \in Tanks, Initiate(t)
      PROVE  TypeOK'
  <2>1. starting' \in [Tanks -> [Starters -> {"no", "record", "left", "right"}]]
    BY <1>5 DEF TypeOK, Initiate
  <2>. QED  BY <1>5, <2>1, SnapshotAssumption DEF TypeOK, Initiate
<1>6. ASSUME NEW t \in Tanks, NEW c \in Starters, Starting(t, c)
      PROVE  TypeOK'
  <2>1. ASSUME NEW at \in {"no", "record", "left", "right"}, starting' = [starting EXCEPT ![t][c] = at]
        PROVE  starting' \in [Tanks -> [Starters -> {"no", "record", "left", "right"}]]
    BY <2>1 DEF TypeOK
  <2>2. CASE StartRecording(t, c)
    <3>1. PICK r \in {"IDLE", "LEFT", "RIGHT", "BOTH"} : recordState' = [recordState EXCEPT ![t] = r]
      BY <2>2 DEF StartRecording, TypeOK
    <3>. QED  BY <2>1, <2>2, <3>1 DEF TypeOK, StartRecording, states
  <2>3. ASSUME NEW r \in Tanks, SendTo(t, r, Marker)
        PROVE  net' \in [Tanks \X Tanks -> Seq(Messages)]
    BY <2>3, Added, MessagesTyped
  <2>4. CASE SendMarkerLeft(t, c)
    BY <2>1, <2>3, <2>4, InRing DEF TypeOK, SendMarkerLeft, recording, states
  <2>5. CASE SendMarkerRight(t, c)
    BY <2>1, <2>3, <2>5, InRing DEF TypeOK, SendMarkerRight, recording, states
  <2>. QED  BY <1>6, <2>2, <2>4, <2>5 DEF Starting
<1>7. ASSUME NEW t \in Tanks, UpdateStep(t)
      PROVE  TypeOK'
  <2>1. CASE PassOnGs(t)
    <3>1. PICK g \in SUBSET Entries : g = Collected(t)
      BY CollectedTyped
    <3>2. SendTo(t, leftNeighbour(t), Collect(g)) /\ globalState' = [globalState EXCEPT ![t] = g]
      BY <2>1, <3>1 DEF PassOnGs
    <3>3. net' \in [Tanks \X Tanks -> Seq(Messages)]
      BY <3>2, InRing, Added, MessagesTyped
    <3>. QED  BY <2>1, <3>2, <3>3 DEF TypeOK, PassOnGs, recording
  <2>2. CASE PassedOn(t)
    BY <2>2 DEF TypeOK, PassedOn, states
  <2>. QED  BY <1>7, <2>1, <2>2 DEF UpdateStep
<1>. QED  BY <1>1, <1>2, <1>3, <1>4, <1>5, <1>6, <1>7 DEF Next

LEMMA TypeStarts == ASSUME Init PROVE TypeOK
<1>1. <<>> \in Seq(Messages)
  OBVIOUS
<1>2. 0 \in Tanks /\ 0 \in 0 .. MaxInitiations
  BY SnapshotAssumption DEF Tanks
<1>. QED  BY <1>1, <1>2 DEF Init, TypeOK

-----------------------------------------------------------------------------
(* The snapshot in a ring of two, as long as one has been started.         *)

\* At most k messages of a channel are markers.
FewMarkers(k, s) ==
    /\ k = 0 => \A p \in 1 .. Len(s) : s[p].type # "marker"
    /\ k = 1 => \A p, q \in 1 .. Len(s) : s[p].type = "marker" /\ s[q].type = "marker" => p = q
    /\ k = 2 => \A p, q, r \in 1 .. Len(s) :
                    s[p].type = "marker" /\ s[q].type = "marker" /\ s[r].type = "marker" =>
                       p = q \/ p = r \/ q = r

\* What the other tank has recorded is in each result that it has sent.
Holds(t, g) == Entry(localState[t], t) \subseteq g
Brings(t, s) == \A p \in 1 .. Len(s) : s[p].type = "collect" => Holds(t, s[p].fish)
NoCollect(s) == \A p \in 1 .. Len(s) : s[p].type # "collect"

\* Before the first snapshot.
Calm ==
    \A t \in Tanks :
        /\ recordState[t] = "IDLE" /\ ~isInitiator[t] /\ ~finishedRecording[t] /\ ~finishedGlobalState[t]
        /\ starting[t] = [c \in Starters |-> "no"]
        /\ net[<<t, t>>] = <<>>
        /\ \A s \in Tanks : FewMarkers(0, net[<<s, t>>]) /\ NoCollect(net[<<s, t>>])

\* The markers that the initiator i and the other tank j have sent and seen.
SentBy(pc) == CASE pc = "no" -> 2 [] pc = "right" -> 1 [] OTHER -> 0
SentFrom(j, phase) == CASE phase = "before" -> 0 [] OTHER -> SentBy(starting[j]["receiver"])
SeenBy(phase) == CASE phase = "before" -> 0 [] phase = "done" -> 2 [] OTHER -> 1
SeenAt(i) == IF starting[i]["gui"] = "record" \/ recordState[i] = "BOTH" THEN 0
             ELSE IF recordState[i] \in {"LEFT", "RIGHT"} THEN 1 ELSE 2

\* Where the other tank stands: its markers are out once it is "recording".
Phases == {"before", "starting", "recording", "done"}

InitiatorRight(i) ==
    /\ starting[i]["receiver"] = "no"
    /\ starting[i]["gui"] = "record" => recordState[i] = "IDLE"

OtherRight(i, j, phase) ==
    /\ ~isInitiator[j] /\ ~finishedGlobalState[j] /\ starting[j]["gui"] = "no"
    /\ phase = "starting" <=> starting[j]["receiver"] # "no"
    /\ starting[j]["receiver"] = "record" \/ phase \in {"before", "done"} => recordState[j] = "IDLE"
    /\ starting[j]["receiver"] \in {"left", "right"} \/ phase = "recording" => recordState[j] = "RIGHT"
    /\ phase = "starting" => markerFrom[j] = i
    /\ phase # "done" => ~finishedRecording[j]

\* At most the markers sent and not yet seen are in transit.
MarkersRight(i, j, phase) ==
    \E a, b \in 0 .. 2 :
        /\ FewMarkers(a, net[<<i, j>>]) /\ a + SeenBy(phase) <= SentBy(starting[i]["gui"])
        /\ FewMarkers(b, net[<<j, i>>]) /\ b + SeenAt(i) <= SentFrom(j, phase)

\* A token comes back only when the other tank has recorded, and with its fish.
ResultRight(i, j, phase) ==
    /\ phase # "done" => NoCollect(net[<<j, i>>]) /\ ~finishedGlobalState[i]
    /\ Brings(j, net[<<j, i>>])
    /\ finishedGlobalState[i] => Holds(j, globalState[i])

Running(i, j, phase) ==
    /\ net[<<i, i>>] = <<>> /\ net[<<j, j>>] = <<>>
    /\ InitiatorRight(i) /\ OtherRight(i, j, phase)
    /\ MarkersRight(i, j, phase) /\ ResultRight(i, j, phase)

SnapInv ==
    /\ TypeOK
    /\ initiations = 0 => Calm
    /\ initiations = 1 => \E i \in Tanks : \E phase \in Phases : Running(i, 1 - i, phase)

LEMMA Ends ==
  ASSUME NEW S, NEW s \in Seq(S)
  PROVE  /\ Len(s) \in Nat
         /\ \A m \in S : /\ Len(Append(s, m)) = Len(s) + 1 /\ Append(s, m)[Len(s) + 1] = m
                         /\ \A p \in 1 .. Len(s) : Append(s, m)[p] = s[p]
         /\ s # <<>> => /\ Len(Tail(s)) = Len(s) - 1 /\ Head(s) = s[1] /\ 1 \in 1 .. Len(s)
                        /\ \A p \in 1 .. Len(s) - 1 : Tail(s)[p] = s[p + 1]
OBVIOUS

\* The messages of r are among those of s, in the same order.
Milder(s, r) ==
    /\ \A k \in 0 .. 2 : FewMarkers(k, s) => FewMarkers(k, r)
    /\ \A p \in 1 .. Len(r) : r[p].type = "collect" => \E q \in 1 .. Len(s) : s[q] = r[p]

LEMMA Shorter ==
  ASSUME NEW s \in Seq(Messages), s # <<>>
  PROVE  /\ Milder(s, Tail(s))
         /\ \A k \in 0 .. 2 : FewMarkers(k, s) /\ Head(s).type = "marker" => k # 0 /\ FewMarkers(k - 1, Tail(s))
<1>1. PICK n \in Nat : n = Len(s) - 1
  <2>1. Len(s) \in Nat /\ Len(Tail(s)) = Len(s) - 1 /\ 1 \in 1 .. Len(s)
    BY Ends
  <2>2. Len(s) - 1 \in Nat
    BY <2>1
  <2>. QED  BY <2>2
<1>2. PICK r \in Seq(Messages) : r = Tail(s)
  <2>1. Tail(s) \in Seq(Messages)
    OBVIOUS
  <2>. QED  BY <2>1
<1>3. /\ Len(r) = n /\ Len(s) = n + 1 /\ Head(s) = s[1] /\ 1 \in 1 .. Len(s)
      /\ \A p \in 1 .. n : r[p] = s[p + 1]
  BY <1>1, <1>2, Ends
<1>4. \A p \in 1 .. n : p + 1 \in 1 .. Len(s) /\ p + 1 # 1
  BY <1>3
<1>5. Milder(s, r)
  BY <1>3, <1>4 DEF Milder, FewMarkers
<1>6. ASSUME NEW k \in 0 .. 2, FewMarkers(k, s), Head(s).type = "marker"
      PROVE  k # 0 /\ FewMarkers(k - 1, r)
  <2>1. k = 0 \/ k = 1 \/ k = 2
    OBVIOUS
  <2>2. k # 0
    BY <1>3, <1>6 DEF FewMarkers
  <2>3. CASE k = 1
    <3>1. \A p \in 1 .. n : r[p].type # "marker"
      BY <1>3, <1>4, <1>6, <2>3 DEF FewMarkers
    <3>. QED  BY <1>3, <2>3, <3>1 DEF FewMarkers
  <2>4. CASE k = 2
    <3>1. \A p, q \in 1 .. n : r[p].type = "marker" /\ r[q].type = "marker" => p = q
      <4>1. SUFFICES ASSUME NEW p \in 1 .. n, NEW q \in 1 .. n, r[p].type = "marker", r[q].type = "marker"
                     PROVE  p = q
        OBVIOUS
      <4>2. s[p + 1].type = "marker" /\ s[q + 1].type = "marker" /\ s[1].type = "marker"
        BY <1>3, <1>6, <4>1
      <4>3. p + 1 = q + 1
        BY <1>3, <1>4, <1>6, <2>4, <4>2 DEF FewMarkers
      <4>. QED  BY <4>3
    <3>. QED  BY <1>3, <2>4, <3>1 DEF FewMarkers
  <2>. QED  BY <2>1, <2>2, <2>3, <2>4
<1>. QED  BY <1>2, <1>5, <1>6

LEMMA Longer ==
  ASSUME NEW s \in Seq(Messages), NEW m \in Messages, NEW r, r = Append(s, m)
  PROVE  /\ \A k \in 0 .. 2 : FewMarkers(k, s) /\ m.type # "marker" => FewMarkers(k, r)
         /\ \A k \in 0 .. 1 : FewMarkers(k, s) => FewMarkers(k + 1, r)
         /\ \A p \in 1 .. Len(r) : r[p] = m \/ \E q \in 1 .. Len(s) : s[q] = r[p]
<1>1. PICK n \in Nat : n = Len(s)
  BY Ends
<1>2. Len(r) = n + 1 /\ r[n + 1] = m /\ \A p \in 1 .. n : r[p] = s[p]
  BY <1>1, Ends
<1>3. \A p \in 1 .. n + 1 : p \in 1 .. n \/ p = n + 1
  OBVIOUS
<1>4. ASSUME NEW k \in 0 .. 2, FewMarkers(k, s), m.type # "marker" PROVE FewMarkers(k, r)
  BY <1>1, <1>2, <1>3, <1>4 DEF FewMarkers
<1>5. ASSUME NEW k \in 0 .. 1, FewMarkers(k, s) PROVE FewMarkers(k + 1, r)
  <2>1. k = 0 \/ k = 1
    OBVIOUS
  <2>2. CASE k = 0
    <3>1. \A p \in 1 .. n : r[p].type # "marker"
      BY <1>1, <1>2, <1>5, <2>2 DEF FewMarkers
    <3>2. \A p \in 1 .. n + 1 : r[p].type = "marker" => p = n + 1
      BY <1>3, <3>1
    <3>. QED  BY <1>2, <2>2, <3>2 DEF FewMarkers
  <2>3. CASE k = 1
    <3>1. \A p, q \in 1 .. n : r[p].type = "marker" /\ r[q].type = "marker" => p = q
      BY <1>1, <1>2, <1>5, <2>3 DEF FewMarkers
    <3>2. \A p, q \in 1 .. n + 1 : r[p].type = "marker" /\ r[q].type = "marker" =>
             p = q \/ p = n + 1 \/ q = n + 1
      BY <1>3, <3>1
    <3>. QED  BY <1>2, <2>3, <3>2 DEF FewMarkers
  <2>. QED  BY <2>1, <2>2, <2>3
<1>6. \A p \in 1 .. Len(r) : r[p] = m \/ \E q \in 1 .. Len(s) : s[q] = r[p]
  BY <1>1, <1>2, <1>3
<1>. QED  BY <1>4, <1>5, <1>6

\* The two tanks of a ring of two are each other's neighbours on both sides.
Pair(i, j) ==
    /\ i \in Tanks /\ j \in Tanks /\ i # j /\ \A t \in Tanks : t = i \/ t = j
    /\ leftNeighbour(i) = j /\ rightNeighbour(i) = j /\ leftNeighbour(j) = i /\ rightNeighbour(j) = i

LEMMA RingOfTwo ==
  ASSUME N = 2, NEW i \in Tanks
  PROVE  Pair(i, 1 - i)
<1>1. i = 0 \/ i = 1
  BY DEF Tanks
<1>2. CASE i = 0
  BY <1>2 DEF Pair, Tanks, leftNeighbour, rightNeighbour
<1>3. CASE i = 1
  BY <1>3 DEF Pair, Tanks, leftNeighbour, rightNeighbour
<1>. QED  BY <1>1, <1>2, <1>3

\* What the markers, the result and the threads of Running need of a step.
MarkersKept == \A u, v \in Tanks : \A k \in 0 .. 2 : FewMarkers(k, net[<<u, v>>]) => FewMarkers(k, net'[<<u, v>>])
LoopsKept == \A u \in Tanks : net[<<u, u>>] = <<>> => net'[<<u, u>>] = <<>>
CollectsKept(u, v) ==
    \A p \in 1 .. Len(net'[<<u, v>>]) : net'[<<u, v>>][p].type = "collect" =>
        \E q \in 1 .. Len(net[<<u, v>>]) : net[<<u, v>>][q] = net'[<<u, v>>][p]

LEMMA TakeKeeps ==
  ASSUME TypeOK, NEW s \in Tanks, NEW t \in Tanks, net[<<s, t>>] # <<>>,
         net' = [net EXCEPT ![<<s, t>>] = Tail(@)]
  PROVE  /\ MarkersKept /\ LoopsKept /\ \A u, v \in Tanks : CollectsKept(u, v)
         /\ \A u, v \in Tanks : <<u, v>> # <<s, t>> => net'[<<u, v>>] = net[<<u, v>>]
         /\ \A k \in 0 .. 2 : FewMarkers(k, net[<<s, t>>]) /\ Head(net[<<s, t>>]).type = "marker" =>
               k # 0 /\ FewMarkers(k - 1, net'[<<s, t>>])
<1>1. PICK old \in Seq(Messages) : old = net[<<s, t>>]
  BY Channel
<1>2. PICK r : r = Tail(old)
  OBVIOUS
<1>3. /\ Milder(old, r)
      /\ \A k \in 0 .. 2 : FewMarkers(k, old) /\ Head(old).type = "marker" => k # 0 /\ FewMarkers(k - 1, r)
  BY <1>1, <1>2, Shorter
<1>4. net'[<<s, t>>] = r /\ \A u, v \in Tanks : <<u, v>> # <<s, t>> => net'[<<u, v>>] = net[<<u, v>>]
  BY <1>1, <1>2, Taken
<1>5. ASSUME NEW u \in Tanks, NEW v \in Tanks
      PROVE  /\ \A k \in 0 .. 2 : FewMarkers(k, net[<<u, v>>]) => FewMarkers(k, net'[<<u, v>>])
             /\ CollectsKept(u, v)
  <2>1. CASE <<u, v>> = <<s, t>>
    <3>1. net[<<u, v>>] = old /\ net'[<<u, v>>] = r
      BY <1>1, <1>4, <2>1, Zenon
    <3>2. \A k \in 0 .. 2 : FewMarkers(k, net[<<u, v>>]) => FewMarkers(k, net'[<<u, v>>])
      BY <1>3, <3>1 DEF Milder
    <3>3. \A p \in 1 .. Len(net'[<<u, v>>]) : net'[<<u, v>>][p].type = "collect" =>
              \E q \in 1 .. Len(net[<<u, v>>]) : net[<<u, v>>][q] = net'[<<u, v>>][p]
      BY <1>3, <3>1 DEF Milder
    <3>. QED  BY <3>2, <3>3 DEF CollectsKept
  <2>2. CASE <<u, v>> # <<s, t>>
    BY <1>4, <2>2 DEF CollectsKept
  <2>. QED  BY <2>1, <2>2
<1>6. LoopsKept
  <2>1. SUFFICES ASSUME NEW u \in Tanks, net[<<u, u>>] = <<>>
                 PROVE  net'[<<u, u>>] = <<>>
    BY DEF LoopsKept
  <2>2. <<u, u>> # <<s, t>>
    BY <2>1, Zenon
  <2>. QED  BY <1>4, <2>1, <2>2
<1>7. \A k \in 0 .. 2 : FewMarkers(k, net[<<s, t>>]) /\ Head(net[<<s, t>>]).type = "marker" =>
          k # 0 /\ FewMarkers(k - 1, net'[<<s, t>>])
  BY <1>1, <1>4, <1>3, Zenon
<1>. QED  BY <1>4, <1>5, <1>6, <1>7 DEF MarkersKept

LEMMA AddKeeps ==
  ASSUME TypeOK, NEW s \in Tanks, NEW t \in Tanks, s # t, NEW m \in Messages, SendTo(s, t, m)
  PROVE  /\ m.type # "marker" => MarkersKept
         /\ LoopsKept
         /\ \A u, v \in Tanks : m.type # "collect" \/ <<u, v>> # <<s, t>> => CollectsKept(u, v)
         /\ \A u, v \in Tanks : <<u, v>> # <<s, t>> => net'[<<u, v>>] = net[<<u, v>>]
         /\ \A k \in 0 .. 1 : FewMarkers(k, net[<<s, t>>]) => FewMarkers(k + 1, net'[<<s, t>>])
         /\ \A p \in 1 .. Len(net'[<<s, t>>]) :
               net'[<<s, t>>][p] = m \/ \E q \in 1 .. Len(net[<<s, t>>]) : net[<<s, t>>][q] = net'[<<s, t>>][p]
<1>1. PICK old \in Seq(Messages) : old = net[<<s, t>>]
  BY Channel
<1>2. PICK r : r = Append(old, m)
  OBVIOUS
<1>3. net'[<<s, t>>] = r /\ \A u, v \in Tanks : <<u, v>> # <<s, t>> => net'[<<u, v>>] = net[<<u, v>>]
  BY <1>1, <1>2, Added
<1>4. /\ \A k \in 0 .. 2 : FewMarkers(k, old) /\ m.type # "marker" => FewMarkers(k, r)
      /\ \A k \in 0 .. 1 : FewMarkers(k, old) => FewMarkers(k + 1, r)
      /\ \A p \in 1 .. Len(r) : r[p] = m \/ \E q \in 1 .. Len(old) : old[q] = r[p]
  <2>1. old \in Seq(Messages) /\ m \in Messages
    BY <1>1
  <2>2. /\ \A k \in 0 .. 2 : FewMarkers(k, old) /\ m.type # "marker" => FewMarkers(k, r)
        /\ \A k \in 0 .. 1 : FewMarkers(k, old) => FewMarkers(k + 1, r)
    BY <1>2, <2>1, Longer
  <2>. QED  BY <1>2, <2>1, <2>2, Longer, SMTT(30)
<1>5. ASSUME m.type # "marker", NEW u \in Tanks, NEW v \in Tanks, NEW k \in 0 .. 2, FewMarkers(k, net[<<u, v>>])
      PROVE  FewMarkers(k, net'[<<u, v>>])
  <2>1. CASE <<u, v>> = <<s, t>>
    BY <1>1, <1>3, <1>4, <1>5, <2>1, Zenon
  <2>2. CASE <<u, v>> # <<s, t>>
    BY <1>3, <1>5, <2>2
  <2>. QED  BY <2>1, <2>2
<1>6. LoopsKept
  <2>1. \A u \in Tanks : <<u, u>> # <<s, t>>
    OBVIOUS
  <2>. QED  BY <1>3, <2>1 DEF LoopsKept
<1>7. ASSUME NEW u \in Tanks, NEW v \in Tanks, m.type # "collect" \/ <<u, v>> # <<s, t>>
      PROVE  CollectsKept(u, v)
  <2>1. CASE <<u, v>> = <<s, t>>
    <3>1. net[<<u, v>>] = old /\ net'[<<u, v>>] = r /\ m.type # "collect"
      BY <1>1, <1>3, <1>7, <2>1, Zenon
    <3>. QED  BY <1>4, <3>1 DEF CollectsKept
  <2>2. CASE <<u, v>> # <<s, t>>
    BY <1>3, <2>2 DEF CollectsKept
  <2>. QED  BY <2>1, <2>2
<1>8. /\ \A k \in 0 .. 1 : FewMarkers(k, net[<<s, t>>]) => FewMarkers(k + 1, net'[<<s, t>>])
      /\ \A p \in 1 .. Len(net'[<<s, t>>]) :
            net'[<<s, t>>][p] = m \/ \E q \in 1 .. Len(net[<<s, t>>]) : net[<<s, t>>][q] = net'[<<s, t>>][p]
  BY <1>1, <1>3, <1>4, Zenon
<1>. QED  BY <1>3, <1>5, <1>6, <1>7, <1>8 DEF MarkersKept

\* The message that a receiver takes.
LEMMA Received ==
  ASSUME TypeOK, NEW s \in Tanks, NEW t \in Tanks, NEW type, Receives(s, t, type)
  PROVE  /\ net[<<s, t>>] # <<>> /\ Head(net[<<s, t>>]).type = type /\ starting[t]["receiver"] = "no"
         /\ 1 \in 1 .. Len(net[<<s, t>>]) /\ Head(net[<<s, t>>]) = net[<<s, t>>][1]
<1>1. PICK old \in Seq(Messages) : old = net[<<s, t>>]
  BY Channel
<1>2. net[<<s, t>>] # <<>> /\ Head(net[<<s, t>>]).type = type /\ starting[t]["receiver"] = "no"
  BY DEF Receives
<1>3. 1 \in 1 .. Len(old) /\ Head(old) = old[1]
  BY <1>1, <1>2, Ends
<1>. QED  BY <1>1, <1>2, <1>3, Zenon

\* A fish crosses the net: no marker and no token does.
LEMMA FishMoves ==
  ASSUME TypeOK, NEW t \in Tanks, NEW f \in Fish, NEW d \in Dirs, HandOff(t, f, d),
         leftNeighbour(t) # t, rightNeighbour(t) # t
  PROVE  MarkersKept /\ LoopsKept /\ \A u, v \in Tanks : CollectsKept(u, v)
<1>1. PICK r \in Tanks : r = IF d = "RIGHT" THEN rightNeighbour(t) ELSE leftNeighbour(t)
  BY InRing
<1>2. SendTo(t, r, Handoff(f, d)) /\ t # r
  BY <1>1, Zenon DEF HandOff
<1>3. Handoff(f, d) \in Messages /\ Handoff(f, d).type = "handoff"
  BY MessagesTyped
<1>. QED  BY <1>2, <1>3, AddKeeps

LEMMA CalmStep ==
  ASSUME N = 2, TypeOK, Calm, Next, \A t \in Tanks : ~Initiate(t)
  PROVE  Calm' /\ initiations' = initiations
<1>1. ASSUME UNCHANGED <<recordState, isInitiator, finishedGlobalState, starting>>,
             \A t \in Tanks : finishedRecording'[t] => finishedRecording[t],
             MarkersKept, LoopsKept, \A u, v \in Tanks : CollectsKept(u, v)
      PROVE  Calm'
  <2>1. SUFFICES ASSUME NEW t \in Tanks
                 PROVE  (/\ recordState[t] = "IDLE" /\ ~isInitiator[t] /\ ~finishedRecording[t]
                         /\ ~finishedGlobalState[t]
                         /\ starting[t] = [c \in Starters |-> "no"]
                         /\ net[<<t, t>>] = <<>>
                         /\ \A s \in Tanks : FewMarkers(0, net[<<s, t>>]) /\ NoCollect(net[<<s, t>>]))'
    BY DEF Calm
  <2>2. ASSUME NEW s \in Tanks
        PROVE  FewMarkers(0, net'[<<s, t>>]) /\ NoCollect(net'[<<s, t>>])
    <3>1. FewMarkers(0, net[<<s, t>>]) /\ NoCollect(net[<<s, t>>])
      BY DEF Calm
    <3>2. FewMarkers(0, net'[<<s, t>>])
      BY <1>1, <3>1 DEF MarkersKept
    <3>3. NoCollect(net'[<<s, t>>])
      BY <1>1, <3>1 DEF CollectsKept, NoCollect
    <3>. QED  BY <3>2, <3>3
  <2>3. net'[<<t, t>>] = <<>>
    BY <1>1 DEF Calm, LoopsKept
  <2>4. /\ recordState[t] = "IDLE" /\ ~isInitiator[t] /\ ~finishedRecording[t]
        /\ ~finishedGlobalState[t] /\ starting[t] = [c \in Starters |-> "no"]
    BY DEF Calm
  <2>. QED  BY <1>1, <2>2, <2>3, <2>4
<1>2. ASSUME UNCHANGED net
      PROVE  MarkersKept /\ LoopsKept /\ \A u, v \in Tanks : CollectsKept(u, v)
  BY <1>2 DEF MarkersKept, LoopsKept, CollectsKept
<1>3. ASSUME NEW t \in Tanks, NEW f \in Fish, NEW d \in Dirs, HandOff(t, f, d)
      PROVE  Calm' /\ initiations' = initiations
  <2>1. leftNeighbour(t) # t /\ rightNeighbour(t) # t
    BY RingOfTwo DEF Pair
  <2>2. UNCHANGED <<recording, starting, initiations>>
    BY <1>3 DEF HandOff, calls
  <2>. QED  BY <1>1, <1>3, <2>1, <2>2, FishMoves DEF recording
<1>4. ASSUME NEW t \in Tanks, NEW f \in Fish, Disappear(t, f)
      PROVE  Calm' /\ initiations' = initiations
  BY <1>1, <1>2, <1>4 DEF Disappear, recording, calls
<1>5. ASSUME NEW s \in Tanks, NEW t \in Tanks, ReceiveFrom(s, t)
      PROVE  Calm' /\ initiations' = initiations
  <2>1. /\ recordState[t] = "IDLE" /\ FewMarkers(0, net[<<s, t>>]) /\ NoCollect(net[<<s, t>>])
    BY DEF Calm
  <2>2. ASSUME NEW type, Receives(s, t, type)
        PROVE  type # "marker" /\ type # "collect"
    BY <2>1, <2>2, Received DEF FewMarkers, NoCollect
  <2>3. ReceiveFish(s, t)
    BY <1>5, <2>2 DEF ReceiveFrom, MarkerStarts, MarkerStopsOne, MarkerStopsLast, ReceiveGlobalState
  <2>4. net[<<s, t>>] # <<>> /\ net' = [net EXCEPT ![<<s, t>>] = Tail(@)] /\ UNCHANGED <<recording, calls>>
    BY <2>3 DEF ReceiveFish, Receives
  <2>. QED  BY <1>1, <2>4, TakeKeeps DEF recording, calls
<1>6. ASSUME NEW t \in Tanks, NEW c \in Starters, Starting(t, c)
      PROVE  FALSE
  BY <1>6 DEF Calm, Starting, StartRecording, SendMarkerLeft, SendMarkerRight
<1>7. ASSUME NEW t \in Tanks, UpdateStep(t)
      PROVE  Calm' /\ initiations' = initiations
  <2>1. PassedOn(t)
    BY <1>7 DEF UpdateStep, PassOnGs, Calm
  <2>2. \A u \in Tanks : finishedRecording'[u] => finishedRecording[u]
    BY <2>1 DEF PassedOn, TypeOK
  <2>. QED  BY <1>1, <1>2, <2>1, <2>2 DEF PassedOn
<1>. QED  BY <1>3, <1>4, <1>5, <1>6, <1>7 DEF Next

\* The step of one thread of a tank in initiateSnapshot.
LEMMA StepTaken ==
  ASSUME TypeOK, NEW t \in Tanks, NEW c \in Starters, NEW at, starting' = [starting EXCEPT ![t][c] = at]
  PROVE  /\ starting'[t][c] = at
         /\ \A u \in Tanks : u # t => starting'[u] = starting[u]
         /\ \A d \in Starters : d # c => starting'[t][d] = starting[t][d]
BY DEF TypeOK

LEMMA ThreadSteps ==
  ASSUME TypeOK, NEW t \in Tanks, NEW at
  PROVE  /\ starting' = [starting EXCEPT ![t]["gui"] = at] =>
               /\ starting'[t]["gui"] = at /\ starting'[t]["receiver"] = starting[t]["receiver"]
               /\ \A u \in Tanks : u # t => starting'[u] = starting[u]
         /\ starting' = [starting EXCEPT ![t]["receiver"] = at] =>
               /\ starting'[t]["receiver"] = at /\ starting'[t]["gui"] = starting[t]["gui"]
               /\ \A u \in Tanks : u # t => starting'[u] = starting[u]
<1>1. "gui" \in Starters /\ "receiver" \in Starters /\ "gui" # "receiver"
  BY DEF Starters
<1>2. ASSUME starting' = [starting EXCEPT ![t]["gui"] = at]
      PROVE  /\ starting'[t]["gui"] = at /\ starting'[t]["receiver"] = starting[t]["receiver"]
             /\ \A u \in Tanks : u # t => starting'[u] = starting[u]
  BY <1>1, <1>2 DEF TypeOK
<1>3. ASSUME starting' = [starting EXCEPT ![t]["receiver"] = at]
      PROVE  /\ starting'[t]["receiver"] = at /\ starting'[t]["gui"] = starting[t]["gui"]
             /\ \A u \in Tanks : u # t => starting'[u] = starting[u]
  BY <1>1, <1>3 DEF TypeOK
<1>. QED  BY <1>2, <1>3

\* The user of i starts the snapshot.
LEMMA SnapshotStarts ==
  ASSUME TypeOK, Calm, NEW i \in Tanks, NEW j \in Tanks, Pair(i, j), Initiate(i)
  PROVE  Running(i, j, "before")' /\ initiations' = initiations + 1
<1>1. /\ UNCHANGED <<net, recordState, finishedRecording>> /\ initiations' = initiations + 1
      /\ isInitiator' = [isInitiator EXCEPT ![i] = TRUE]
      /\ finishedGlobalState' = [finishedGlobalState EXCEPT ![i] = FALSE]
      /\ starting' = [starting EXCEPT ![i]["gui"] = "record"]
  BY DEF Initiate
<1>2. i # j
  BY DEF Pair
<1>3. /\ ~isInitiator'[j] /\ ~finishedGlobalState'[j] /\ ~finishedGlobalState'[i]
      /\ starting'[j] = starting[j] /\ starting'[i]["gui"] = "record"
      /\ starting'[i]["receiver"] = starting[i]["receiver"]
  <2>1. /\ ~isInitiator'[j] /\ ~finishedGlobalState'[j] /\ ~finishedGlobalState'[i]
    BY <1>1, <1>2 DEF TypeOK, Calm
  <2>. QED  BY <1>1, <1>2, <2>1, ThreadSteps
<1>4. /\ recordState[i] = "IDLE" /\ recordState[j] = "IDLE" /\ ~finishedRecording[j]
      /\ starting[j]["gui"] = "no" /\ starting[j]["receiver"] = "no" /\ starting[i]["receiver"] = "no"
      /\ net[<<i, i>>] = <<>> /\ net[<<j, j>>] = <<>>
      /\ FewMarkers(0, net[<<i, j>>]) /\ FewMarkers(0, net[<<j, i>>]) /\ NoCollect(net[<<j, i>>])
  BY DEF Calm, Starters
<1>5. InitiatorRight(i)'
  BY <1>1, <1>3, <1>4 DEF InitiatorRight
<1>6. OtherRight(i, j, "before")'
  BY <1>1, <1>3, <1>4 DEF OtherRight
<1>7. MarkersRight(i, j, "before")'
  BY <1>1, <1>3, <1>4 DEF MarkersRight, SeenBy, SentBy, SeenAt, SentFrom
<1>8. ResultRight(i, j, "before")'
  BY <1>1, <1>3, <1>4 DEF ResultRight, NoCollect, Brings
<1>. QED  BY <1>1, <1>4, <1>5, <1>6, <1>7, <1>8 DEF Running

LEMMA BringsStays ==
  ASSUME NEW i \in Tanks, NEW j \in Tanks, Brings(j, net[<<j, i>>]), CollectsKept(j, i),
         localState'[j] = localState[j]
  PROVE  Brings(j, net[<<j, i>>])'
<1>1. ASSUME NEW p \in 1 .. Len(net'[<<j, i>>]), net'[<<j, i>>][p].type = "collect"
      PROVE  Entry(localState'[j], j) \subseteq net'[<<j, i>>][p].fish
  <2>1. PICK q \in 1 .. Len(net[<<j, i>>]) : net[<<j, i>>][q] = net'[<<j, i>>][p]
    BY <1>1 DEF CollectsKept
  <2>2. PICK g : g = net[<<j, i>>][q].fish
    OBVIOUS
  <2>3. Holds(j, g)
    BY <1>1, <2>1, <2>2 DEF Brings
  <2>. QED  BY <2>1, <2>2, <2>3 DEF Holds
<1>. QED  BY <1>1 DEF Brings, Holds

LEMMA ResultStays ==
  ASSUME NEW i \in Tanks, NEW j \in Tanks, NEW phase, NEW q, ResultRight(i, j, phase),
         q # "done" => phase # "done",
         phase = "done" => localState'[j] = localState[j],
         CollectsKept(j, i), finishedGlobalState'[i] => finishedGlobalState[i],
         globalState[i] \subseteq globalState'[i]
  PROVE  ResultRight(i, j, q)'
<1>1. CASE phase = "done"
  <2>1. q = "done" /\ localState'[j] = localState[j] /\ \A g : Holds(j, g) => Entry(localState'[j], j) \subseteq g
    BY <1>1 DEF Holds
  <2>2. Brings(j, net[<<j, i>>])'
    BY <2>1, BringsStays DEF ResultRight
  <2>3. (finishedGlobalState[i] => Holds(j, globalState[i]))'
    BY <2>1 DEF ResultRight, Holds
  <2>. QED  BY <2>1, <2>2, <2>3 DEF ResultRight
<1>2. CASE phase # "done"
  <2>1. NoCollect(net'[<<j, i>>]) /\ ~finishedGlobalState'[i]
    BY <1>2 DEF ResultRight, NoCollect, CollectsKept
  <2>. QED  BY <2>1 DEF ResultRight, NoCollect, Brings
<1>. QED  BY <1>1, <1>2

LEMMA MarkersStay ==
  ASSUME NEW i \in Tanks, NEW j \in Tanks, NEW phase, MarkersRight(i, j, phase), MarkersKept,
         starting'[i] = starting[i], starting'[j] = starting[j], recordState'[i] = recordState[i]
  PROVE  MarkersRight(i, j, phase)'
<1>1. PICK a \in 0 .. 2, b \in 0 .. 2 :
          /\ FewMarkers(a, net[<<i, j>>]) /\ a + SeenBy(phase) <= SentBy(starting[i]["gui"])
          /\ FewMarkers(b, net[<<j, i>>]) /\ b + SeenAt(i) <= SentFrom(j, phase)
  BY DEF MarkersRight
<1>2. FewMarkers(a, net'[<<i, j>>]) /\ FewMarkers(b, net'[<<j, i>>])
  BY <1>1 DEF MarkersKept
<1>3. /\ SentBy(starting'[i]["gui"]) = SentBy(starting[i]["gui"])
      /\ SeenAt(i)' = SeenAt(i) /\ SentFrom(j, phase)' = SentFrom(j, phase)
  BY DEF SeenAt, SentFrom
<1>4. (FewMarkers(a, net[<<i, j>>]) /\ a + SeenBy(phase) <= SentBy(starting[i]["gui"]))'
  BY <1>1, <1>2, <1>3, Zenon
<1>5. (FewMarkers(b, net[<<j, i>>]) /\ b + SeenAt(i) <= SentFrom(j, phase))'
  BY <1>1, <1>2, <1>3, Zenon
<1>. QED  BY <1>4, <1>5, Zenon DEF MarkersRight

\* A step that changes neither the threads nor what they record.
LEMMA Stays ==
  ASSUME NEW i \in Tanks, NEW j \in Tanks, NEW phase, Running(i, j, phase),
         UNCHANGED <<recordState, starting, markerFrom>>,
         isInitiator'[j] => isInitiator[j], finishedGlobalState'[j] => finishedGlobalState[j],
         phase # "done" => (finishedRecording'[j] => finishedRecording[j]),
         MarkersKept, LoopsKept, ResultRight(i, j, phase)'
  PROVE  Running(i, j, phase)'
<1>1. net'[<<i, i>>] = <<>> /\ net'[<<j, j>>] = <<>>
  BY DEF Running, LoopsKept
<1>2. InitiatorRight(i)'
  BY DEF Running, InitiatorRight
<1>3. OtherRight(i, j, phase)'
  BY DEF Running, OtherRight
<1>4. MarkersRight(i, j, phase)'
  BY MarkersStay DEF Running
<1>. QED  BY <1>1, <1>2, <1>3, <1>4 DEF Running

LEMMA FishStep ==
  ASSUME TypeOK, NEW i \in Tanks, NEW j \in Tanks, Pair(i, j), NEW phase, Running(i, j, phase), NEW t \in Tanks,
         \/ \E f \in Fish : Disappear(t, f) \/ \E d \in Dirs : HandOff(t, f, d)
         \/ \E s \in Tanks : ReceiveFish(s, t)
  PROVE  Running(i, j, phase)'
<1>1. /\ UNCHANGED <<recording, localState, globalState, calls>>
      /\ MarkersKept /\ LoopsKept /\ \A u, v \in Tanks : CollectsKept(u, v)
  <2>1. ASSUME NEW f \in Fish, NEW d \in Dirs, HandOff(t, f, d)
        PROVE  /\ UNCHANGED <<recording, localState, globalState, calls>>
               /\ MarkersKept /\ LoopsKept /\ \A u, v \in Tanks : CollectsKept(u, v)
    <3>1. leftNeighbour(t) # t /\ rightNeighbour(t) # t
      BY DEF Pair
    <3>. QED  BY <2>1, <3>1, FishMoves DEF HandOff, states
  <2>2. ASSUME NEW f \in Fish, Disappear(t, f)
        PROVE  /\ UNCHANGED <<recording, localState, globalState, calls>>
               /\ MarkersKept /\ LoopsKept /\ \A u, v \in Tanks : CollectsKept(u, v)
    <3>1. UNCHANGED <<net, recording, localState, globalState, calls>>
      BY <2>2 DEF Disappear, states
    <3>. QED  BY <3>1 DEF MarkersKept, LoopsKept, CollectsKept
  <2>3. ASSUME NEW s \in Tanks, ReceiveFish(s, t)
        PROVE  /\ UNCHANGED <<recording, localState, globalState, calls>>
               /\ MarkersKept /\ LoopsKept /\ \A u, v \in Tanks : CollectsKept(u, v)
    <3>1. /\ net[<<s, t>>] # <<>> /\ net' = [net EXCEPT ![<<s, t>>] = Tail(@)]
          /\ UNCHANGED <<recording, localState, globalState, calls>>
      BY <2>3 DEF ReceiveFish, Receives
    <3>. QED  BY <3>1, TakeKeeps
  <2>. QED  BY <2>1, <2>2, <2>3
<1>2. ResultRight(i, j, phase) /\ CollectsKept(j, i)
  BY <1>1 DEF Running
<1>3. ResultRight(i, j, phase)'
  BY <1>1, <1>2, ResultStays DEF recording
<1>. QED  BY <1>1, <1>3, Stays DEF recording, calls

LEMMA Counts ==
  ASSUME NEW i, NEW j, NEW phase
  PROVE  /\ SeenBy(phase) \in 0 .. 2 /\ SeenAt(i) \in 0 .. 2 /\ SentFrom(j, phase) \in 0 .. 2
         /\ \A pc : SentBy(pc) \in 0 .. 2
<1>1. \A pc : SentBy(pc) \in 0 .. 2
  BY DEF SentBy
<1>. QED  BY <1>1 DEF SeenBy, SeenAt, SentFrom

\* The messages of i and j cross one channel each way.
LEMMA OtherChannel ==
  ASSUME NEW i \in Tanks, NEW j \in Tanks, Pair(i, j), NEW phase, Running(i, j, phase),
         NEW s \in Tanks, NEW t \in Tanks, net[<<s, t>>] # <<>>
  PROVE  (s = i /\ t = j) \/ (s = j /\ t = i)
<1>1. (s = i \/ s = j) /\ (t = i \/ t = j)
  BY DEF Pair
<1>2. net[<<i, i>>] = <<>> /\ net[<<j, j>>] = <<>>
  BY DEF Running
<1>3. ~(s = i /\ t = i) /\ ~(s = j /\ t = j)
  BY <1>2, Zenon
<1>. QED  BY <1>1, <1>3

\* The other tank takes one of the initiator's markers.
LEMMA MarkerSeen ==
  ASSUME TypeOK, NEW i \in Tanks, NEW j \in Tanks, NEW phase \in Phases, Running(i, j, phase),
         Receives(i, j, "marker"), net' = [net EXCEPT ![<<i, j>>] = Tail(@)], i # j
  PROVE  /\ phase # "done"
         /\ \A q : /\ starting'[i] = starting[i] /\ recordState'[i] = recordState[i]
                   /\ SeenBy(q) = SeenBy(phase) + 1 /\ SentFrom(j, phase) <= SentFrom(j, q)'
                   => MarkersRight(i, j, q)'
<1>1. PICK a \in 0 .. 2, b \in 0 .. 2 :
          /\ FewMarkers(a, net[<<i, j>>]) /\ a + SeenBy(phase) <= SentBy(starting[i]["gui"])
          /\ FewMarkers(b, net[<<j, i>>]) /\ b + SeenAt(i) <= SentFrom(j, phase)
  BY DEF Running, MarkersRight
<1>2. net[<<i, j>>] # <<>> /\ Head(net[<<i, j>>]).type = "marker"
  BY DEF Receives
<1>3. a # 0 /\ FewMarkers(a - 1, net'[<<i, j>>]) /\ FewMarkers(b, net'[<<j, i>>])
  BY <1>1, <1>2, TakeKeeps DEF MarkersKept
<1>4. SeenBy(phase) # 2
  BY <1>1, <1>3, Counts
<1>5. ASSUME NEW q, starting'[i] = starting[i], recordState'[i] = recordState[i],
             SeenBy(q) = SeenBy(phase) + 1, SentFrom(j, phase) <= SentFrom(j, q)'
      PROVE  MarkersRight(i, j, q)'
  <2>1. PICK c \in 0 .. 2 : c = a - 1
    BY <1>3
  <2>2. c + SeenBy(q) <= SentBy(starting'[i]["gui"])
    BY <1>1, <1>5, <2>1, Counts
  <2>3. SeenAt(i)' = SeenAt(i)
    BY <1>5 DEF SeenAt
  <2>4. SentFrom(j, q)' \in 0 .. 2
    BY DEF SentFrom, SentBy
  <2>5. b + SeenAt(i)' <= SentFrom(j, q)'
    BY <1>1, <1>5, <2>3, <2>4, Counts
  <2>. QED  BY <1>3, <2>1, <2>2, <2>5 DEF MarkersRight
<1>. QED  BY <1>4, <1>5 DEF SeenBy

\* The initiator takes one of the other tank's markers.
LEMMA MarkerCounted ==
  ASSUME TypeOK, NEW i \in Tanks, NEW j \in Tanks, NEW phase \in Phases, Running(i, j, phase),
         Receives(j, i, "marker"), i # j
  PROVE  /\ starting[i]["gui"] # "record" /\ recordState[i] # "IDLE"
         /\ /\ starting' = starting /\ SeenAt(i)' = SeenAt(i) + 1 /\ net'[<<j, i>>] = Tail(net[<<j, i>>])
            /\ \A k \in 0 .. 2 : FewMarkers(k, net[<<i, j>>]) => FewMarkers(k, net'[<<i, j>>])
            => MarkersRight(i, j, phase)'
<1>1. PICK a \in 0 .. 2, b \in 0 .. 2 :
          /\ FewMarkers(a, net[<<i, j>>]) /\ a + SeenBy(phase) <= SentBy(starting[i]["gui"])
          /\ FewMarkers(b, net[<<j, i>>]) /\ b + SeenAt(i) <= SentFrom(j, phase)
  BY DEF Running, MarkersRight
<1>2. PICK old \in Seq(Messages) : old = net[<<j, i>>]
  BY Channel
<1>3. b # 0 /\ FewMarkers(b - 1, Tail(old))
  BY <1>1, <1>2, Received, Shorter
<1>4. SeenAt(i) # 2 /\ phase # "before"
  BY <1>1, <1>3, Counts DEF SentFrom
<1>5. starting[i]["gui"] # "record"
  BY <1>1, <1>4, Counts DEF SeenBy, SentBy, Phases
<1>6. recordState[i] # "IDLE"
  BY <1>4, <1>5 DEF SeenAt
<1>7. ASSUME starting' = starting, SeenAt(i)' = SeenAt(i) + 1, net'[<<j, i>>] = Tail(net[<<j, i>>]),
             \A k \in 0 .. 2 : FewMarkers(k, net[<<i, j>>]) => FewMarkers(k, net'[<<i, j>>])
      PROVE  MarkersRight(i, j, phase)'
  <2>1. PICK c \in 0 .. 2 : c = b - 1
    BY <1>3
  <2>2. SentFrom(j, phase)' = SentFrom(j, phase)
    BY <1>7 DEF SentFrom
  <2>3. c + SeenAt(i)' <= SentFrom(j, phase)'
    BY <1>1, <1>7, <2>1, <2>2, Counts
  <2>4. FewMarkers(c, net'[<<j, i>>]) /\ FewMarkers(a, net'[<<i, j>>])
    BY <1>1, <1>2, <1>3, <1>7, <2>1
  <2>5. (a + SeenBy(phase) <= SentBy(starting[i]["gui"]))'
    BY <1>1, <1>7
  <2>. QED  BY <2>3, <2>4, <2>5 DEF MarkersRight
<1>. QED  BY <1>5, <1>6, <1>7

\* stopSnapshot takes the marker before it sends the initiator's token.
LEMMA StopsLastNet ==
  ASSUME TypeOK, NEW i \in Tanks, NEW j \in Tanks, Pair(i, j), MarkerStopsLast(j, i)
  PROVE  /\ net'[<<j, i>>] = Tail(net[<<j, i>>])
         /\ \A k \in 0 .. 2 : FewMarkers(k, net[<<i, j>>]) => FewMarkers(k, net'[<<i, j>>])
         /\ LoopsKept
<1>1. PICK taken : taken = [net EXCEPT ![<<j, i>>] = Tail(@)]
  OBVIOUS
<1>2. net[<<j, i>>] # <<>>
  BY DEF MarkerStopsLast, Receives
<1>3. net \in [Tanks \X Tanks -> Seq(Messages)] /\ i # j /\ leftNeighbour(i) = j
  BY DEF TypeOK, Pair
<1>4. PICK rest \in Seq(Messages) : rest = Tail(net[<<j, i>>])
  <2>1. net[<<j, i>>] \in Seq(Messages)
    BY Channel
  <2>2. Tail(net[<<j, i>>]) \in Seq(Messages)
    BY <1>2, <2>1
  <2>. QED  BY <2>2
<1>5. taken = [net EXCEPT ![<<j, i>>] = rest]
  BY <1>1, <1>4, Zenon
<1>6. /\ taken \in [Tanks \X Tanks -> Seq(Messages)] /\ taken[<<j, i>>] = rest
      /\ \A u, v \in Tanks : <<u, v>> # <<j, i>> => taken[<<u, v>>] = net[<<u, v>>]
  BY <1>3, <1>5
<1>7. <<i, j>> # <<j, i>> /\ \A u \in Tanks : <<u, u>> # <<j, i>> /\ <<u, u>> # <<i, j>>
  BY <1>3
<1>8. CASE isInitiator[i]
  <2>1. net' = [taken EXCEPT ![<<i, j>>] = Append(@, Collect(Collected(i)))]
    BY <1>1, <1>3, <1>8, Zenon DEF MarkerStopsLast
  <2>2. PICK old \in Seq(Messages) : old = net[<<i, j>>]
    BY Channel
  <2>3. PICK m \in Messages : m = Collect(Collected(i)) /\ m.type # "marker"
    BY CollectedTyped, MessagesTyped
  <2>4. PICK r : r = Append(old, m)
    OBVIOUS
  <2>5. taken[<<i, j>>] = old
    BY <1>6, <1>7, <2>2
  <2>6. net' = [taken EXCEPT ![<<i, j>>] = r]
    BY <2>1, <2>3, <2>4, <2>5, Zenon
  <2>7. net'[<<i, j>>] = r /\ \A u, v \in Tanks : <<u, v>> # <<i, j>> => net'[<<u, v>>] = taken[<<u, v>>]
    BY <1>6, <2>6
  <2>8. net'[<<j, i>>] = rest /\ \A u \in Tanks : net'[<<u, u>>] = net[<<u, u>>]
    BY <1>6, <1>7, <2>7
  <2>9. old \in Seq(Messages) /\ m \in Messages /\ m.type # "marker"
    BY <2>2, <2>3
  <2>10. \A k \in 0 .. 2 : FewMarkers(k, old) => FewMarkers(k, r)
    BY <2>4, <2>9, Longer
  <2>. QED  BY <1>4, <2>2, <2>7, <2>8, <2>10 DEF LoopsKept
<1>9. CASE ~isInitiator[i]
  <2>1. net' = taken
    BY <1>1, <1>9 DEF MarkerStopsLast
  <2>. QED  BY <1>4, <1>6, <1>7, <2>1 DEF LoopsKept
<1>. QED  BY <1>8, <1>9

\* The markers of the initiator at the other tank.
LEMMA OtherMarker ==
  ASSUME TypeOK, NEW i \in Tanks, NEW j \in Tanks, Pair(i, j), NEW phase \in Phases, Running(i, j, phase),
         MarkerStarts(i, j) \/ MarkerStopsOne(i, j) \/ MarkerStopsLast(i, j)
  PROVE  \E q \in Phases : Running(i, j, q)'
<1>1. /\ Receives(i, j, "marker") /\ i # j
      /\ InitiatorRight(i) /\ OtherRight(i, j, phase) /\ ResultRight(i, j, phase)
      /\ net[<<i, i>>] = <<>> /\ net[<<j, j>>] = <<>>
  BY DEF Running, Pair, MarkerStarts, MarkerStopsOne, MarkerStopsLast
<1>2. starting[j]["receiver"] = "no" /\ net[<<i, j>>] # <<>>
  BY <1>1 DEF Receives
<1>3. ASSUME net' = [net EXCEPT ![<<i, j>>] = Tail(@)]
      PROVE  /\ phase # "done"
             /\ \A q : /\ starting'[i] = starting[i] /\ recordState'[i] = recordState[i]
                       /\ SeenBy(q) = SeenBy(phase) + 1 /\ SentFrom(j, phase) <= SentFrom(j, q)'
                       => MarkersRight(i, j, q)'
             /\ net'[<<i, i>>] = <<>> /\ net'[<<j, j>>] = <<>> /\ CollectsKept(j, i)
  BY <1>1, <1>2, <1>3, MarkerSeen, TakeKeeps DEF LoopsKept
<1>4. CASE MarkerStarts(i, j)
  <2>1. /\ net' = [net EXCEPT ![<<i, j>>] = Tail(@)] /\ recordState[j] = "IDLE"
        /\ finishedRecording' = [finishedRecording EXCEPT ![j] = FALSE]
        /\ finishedGlobalState' = [finishedGlobalState EXCEPT ![j] = FALSE]
        /\ starting' = [starting EXCEPT ![j]["receiver"] = "record"]
        /\ markerFrom' = [markerFrom EXCEPT ![j] = i]
        /\ UNCHANGED <<recordState, isInitiator, globalState>>
    BY <1>4 DEF MarkerStarts
  <2>2. phase = "before"
    BY <1>1, <1>2, <1>3, <2>1 DEF OtherRight, Phases
  <2>3. /\ starting'[j]["receiver"] = "record" /\ starting'[j]["gui"] = starting[j]["gui"]
        /\ starting'[i] = starting[i]
    BY <1>1, <2>1, ThreadSteps
  <2>4. /\ ~finishedRecording'[j] /\ ~finishedGlobalState'[j] /\ markerFrom'[j] = i
        /\ finishedGlobalState'[i] = finishedGlobalState[i]
    BY <1>1, <2>1 DEF TypeOK
  <2>5. InitiatorRight(i)'
    BY <1>1, <2>1, <2>3 DEF InitiatorRight
  <2>6. OtherRight(i, j, "starting")'
    BY <1>1, <2>1, <2>2, <2>3, <2>4 DEF OtherRight
  <2>7. SeenBy("starting") = SeenBy(phase) + 1 /\ SentFrom(j, phase) = 0
    BY <2>2 DEF SeenBy, SentFrom
  <2>8. SentFrom(j, "starting")' = 0
    BY <2>3 DEF SentFrom, SentBy
  <2>9. MarkersRight(i, j, "starting")'
    BY <1>3, <2>1, <2>3, <2>7, <2>8
  <2>10. ResultRight(i, j, "starting")'
    BY <1>1, <1>3, <2>1, <2>2, <2>4, ResultStays
  <2>11. Running(i, j, "starting")'
    BY <1>3, <2>1, <2>5, <2>6, <2>9, <2>10 DEF Running
  <2>. QED  BY <2>11 DEF Phases
<1>5. CASE MarkerStopsOne(i, j)
  <2>1. net' = [net EXCEPT ![<<i, j>>] = Tail(@)] /\ recordState[j] = "BOTH"
    BY <1>5 DEF MarkerStopsOne
  <2>2. recordState[j] \in {"IDLE", "RIGHT"}
    BY <1>1, <1>2, <1>3, <2>1 DEF OtherRight, Phases
  <2>. QED  BY <2>1, <2>2
<1>6. CASE MarkerStopsLast(i, j)
  <2>1. ~isInitiator[j]
    BY <1>1 DEF OtherRight
  <2>2. /\ net' = [net EXCEPT ![<<i, j>>] = Tail(@)] /\ recordState[j] \in {"LEFT", "RIGHT"}
        /\ recordState' = [recordState EXCEPT ![j] = "IDLE"]
        /\ finishedRecording' = [finishedRecording EXCEPT ![j] = TRUE]
        /\ UNCHANGED <<isInitiator, finishedGlobalState, globalState, localState, calls>>
    BY <1>6, <2>1 DEF MarkerStopsLast
  <2>3. phase = "recording"
    BY <1>1, <1>2, <1>3, <2>2 DEF OtherRight, Phases
  <2>4. recordState'[j] = "IDLE" /\ recordState'[i] = recordState[i] /\ starting' = starting
    BY <1>1, <2>2 DEF TypeOK, calls
  <2>5. InitiatorRight(i)'
    BY <1>1, <2>4 DEF InitiatorRight
  <2>6. OtherRight(i, j, "done")'
    BY <1>1, <1>2, <2>2, <2>3, <2>4 DEF OtherRight
  <2>7. SeenBy("done") = SeenBy(phase) + 1 /\ SentFrom(j, phase) = 2
    BY <1>2, <2>3 DEF SeenBy, SentFrom, SentBy
  <2>8. SentFrom(j, "done")' = 2
    BY <1>2, <2>4 DEF SentFrom, SentBy
  <2>9. MarkersRight(i, j, "done")'
    BY <1>3, <2>2, <2>4, <2>7, <2>8
  <2>10. ResultRight(i, j, "done")'
    BY <1>1, <1>3, <2>2, <2>3, ResultStays
  <2>11. Running(i, j, "done")'
    BY <1>3, <2>2, <2>5, <2>6, <2>9, <2>10 DEF Running
  <2>. QED  BY <2>11 DEF Phases
<1>. QED  BY <1>4, <1>5, <1>6


\* The markers of the other tank at the initiator.
LEMMA InitiatorMarker ==
  ASSUME TypeOK, NEW i \in Tanks, NEW j \in Tanks, Pair(i, j), NEW phase \in Phases, Running(i, j, phase),
         MarkerStarts(j, i) \/ MarkerStopsOne(j, i) \/ MarkerStopsLast(j, i)
  PROVE  Running(i, j, phase)'
<1>1. /\ Receives(j, i, "marker") /\ i # j /\ leftNeighbour(i) = j
      /\ InitiatorRight(i) /\ OtherRight(i, j, phase) /\ ResultRight(i, j, phase)
      /\ net[<<i, i>>] = <<>> /\ net[<<j, j>>] = <<>>
  BY DEF Running, Pair, MarkerStarts, MarkerStopsOne, MarkerStopsLast
<1>2. /\ starting[i]["gui"] # "record" /\ recordState[i] # "IDLE"
      /\ /\ starting' = starting /\ SeenAt(i)' = SeenAt(i) + 1 /\ net'[<<j, i>>] = Tail(net[<<j, i>>])
         /\ \A k \in 0 .. 2 : FewMarkers(k, net[<<i, j>>]) => FewMarkers(k, net'[<<i, j>>])
         => MarkersRight(i, j, phase)'
  BY <1>1, MarkerCounted
<1>3. ~MarkerStarts(j, i)
  BY <1>2 DEF MarkerStarts
<1>4. ASSUME UNCHANGED <<starting, isInitiator, finishedGlobalState, localState, markerFrom>>,
             recordState'[j] = recordState[j], finishedRecording'[j] = finishedRecording[j],
             globalState[i] \subseteq globalState'[i], CollectsKept(j, i), LoopsKept, MarkersRight(i, j, phase)'
      PROVE  Running(i, j, phase)'
  <2>1. InitiatorRight(i)'
    BY <1>1, <1>2, <1>4 DEF InitiatorRight
  <2>2. OtherRight(i, j, phase)'
    BY <1>1, <1>4 DEF OtherRight
  <2>3. ResultRight(i, j, phase)'
    BY <1>1, <1>4, ResultStays
  <2>. QED  BY <1>1, <1>4, <2>1, <2>2, <2>3 DEF Running, LoopsKept
<1>5. CASE MarkerStopsOne(j, i)
  <2>1. /\ net[<<j, i>>] # <<>> /\ net' = [net EXCEPT ![<<j, i>>] = Tail(@)]
        /\ recordState[i] = "BOTH" /\ recordState' = [recordState EXCEPT ![i] = "RIGHT"]
        /\ UNCHANGED <<starting, isInitiator, finishedGlobalState, localState, markerFrom, finishedRecording,
                       globalState>>
    BY <1>1, <1>5 DEF MarkerStopsOne, Receives, states, calls
  <2>2. recordState'[i] = "RIGHT" /\ recordState'[j] = recordState[j]
    BY <1>1, <2>1 DEF TypeOK
  <2>3. SeenAt(i)' = SeenAt(i) + 1
    BY <1>2, <2>1, <2>2 DEF SeenAt
  <2>4. /\ net'[<<j, i>>] = Tail(net[<<j, i>>]) /\ LoopsKept /\ CollectsKept(j, i)
        /\ \A k \in 0 .. 2 : FewMarkers(k, net[<<i, j>>]) => FewMarkers(k, net'[<<i, j>>])
    <3>1. net'[<<j, i>>] = Tail(net[<<j, i>>])
      BY <2>1, Taken
    <3>2. LoopsKept /\ CollectsKept(j, i) /\ MarkersKept
      BY <2>1, TakeKeeps
    <3>. QED  BY <3>1, <3>2 DEF MarkersKept
  <2>5. MarkersRight(i, j, phase)'
    BY <1>2, <2>1, <2>3, <2>4
  <2>. QED  BY <1>4, <2>1, <2>2, <2>4, <2>5
<1>6. CASE MarkerStopsLast(j, i)
  <2>1. /\ net[<<j, i>>] # <<>>
        /\ recordState[i] \in {"LEFT", "RIGHT"} /\ recordState' = [recordState EXCEPT ![i] = "IDLE"]
        /\ finishedRecording' = [finishedRecording EXCEPT ![i] = TRUE]
        /\ globalState' = [globalState EXCEPT ![i] = Collected(i)] \/ globalState' = globalState
        /\ UNCHANGED <<starting, isInitiator, finishedGlobalState, localState, markerFrom>>
    BY <1>1, <1>6 DEF MarkerStopsLast, Receives, calls
  <2>2. /\ recordState'[i] = "IDLE" /\ recordState'[j] = recordState[j]
        /\ finishedRecording'[j] = finishedRecording[j]
    BY <1>1, <2>1 DEF TypeOK
  <2>3. SeenAt(i)' = SeenAt(i) + 1
    BY <1>2, <2>1, <2>2 DEF SeenAt
  <2>4. /\ net'[<<j, i>>] = Tail(net[<<j, i>>]) /\ LoopsKept
        /\ \A k \in 0 .. 2 : FewMarkers(k, net[<<i, j>>]) => FewMarkers(k, net'[<<i, j>>])
    BY <1>6, StopsLastNet
  <2>5. MarkersRight(i, j, phase)'
    BY <1>2, <2>1, <2>3, <2>4
  <2>6. CollectsKept(j, i)
    <3>1. PICK old \in Seq(Messages) : old = net[<<j, i>>]
      BY Channel
    <3>2. Milder(old, Tail(old))
      BY <2>1, <3>1, Shorter
    <3>. QED  BY <2>4, <3>1, <3>2 DEF CollectsKept, Milder
  <2>7. globalState[i] \subseteq globalState'[i]
    BY <2>1 DEF TypeOK, Collected
  <2>. QED  BY <1>4, <2>1, <2>2, <2>4, <2>5, <2>6, <2>7
<1>. QED  BY <1>3, <1>5, <1>6

\* receiveGlobalState: the initiator shows what the token holds.
LEMMA TokenArrives ==
  ASSUME TypeOK, NEW i \in Tanks, NEW j \in Tanks, Pair(i, j), NEW phase \in Phases, Running(i, j, phase),
         NEW s \in Tanks, NEW t \in Tanks, ReceiveGlobalState(s, t)
  PROVE  Running(i, j, phase)'
<1>1. /\ OtherRight(i, j, phase) /\ ResultRight(i, j, phase) /\ i # j
      /\ ((s = i /\ t = j) \/ (s = j /\ t = i))
  BY OtherChannel DEF Running, Pair, ReceiveGlobalState, Receives
<1>2. /\ Receives(s, t, "collect") /\ net[<<s, t>>] # <<>> /\ net' = [net EXCEPT ![<<s, t>>] = Tail(@)]
      /\ globalState' = [globalState EXCEPT ![t] = Head(net[<<s, t>>]).fish]
      /\ finishedGlobalState' = [finishedGlobalState EXCEPT ![t] = @ \/ (isInitiator[t] /\ finishedRecording[t])]
      /\ isInitiator' = [isInitiator EXCEPT ![t] = @ /\ ~(isInitiator[t] /\ finishedRecording[t])]
      /\ finishedRecording' = [finishedRecording EXCEPT ![t] = @ /\ ~(isInitiator[t] /\ finishedRecording[t])]
      /\ UNCHANGED <<recordState, localState, starting, markerFrom>>
  BY DEF ReceiveGlobalState, Receives, calls
<1>3. MarkersKept /\ LoopsKept /\ CollectsKept(j, i)
  BY <1>2, TakeKeeps
<1>4. \A u \in Tanks : /\ isInitiator'[u] => isInitiator[u]
                       /\ finishedRecording'[u] => finishedRecording[u]
                       /\ u # t \/ ~isInitiator[u] => finishedGlobalState'[u] = finishedGlobalState[u]
                       /\ u # t => globalState'[u] = globalState[u]
  BY <1>2 DEF TypeOK
<1>5. ~isInitiator[j]
  BY <1>1 DEF OtherRight
<1>6. ResultRight(i, j, phase)'
  <2>1. CASE t = j
    BY <1>1, <1>2, <1>3, <1>4, <2>1, ResultStays
  <2>2. CASE t = i
    <3>1. Receives(j, i, "collect") /\ globalState'[i] = Head(net[<<j, i>>]).fish
      BY <1>1, <1>2, <2>2 DEF TypeOK
    <3>2. /\ Head(net[<<j, i>>]).type = "collect" /\ 1 \in 1 .. Len(net[<<j, i>>])
          /\ Head(net[<<j, i>>]) = net[<<j, i>>][1]
      BY <3>1, Received
    <3>3. phase = "done" /\ Holds(j, globalState'[i])
      BY <1>1, <3>1, <3>2 DEF ResultRight, NoCollect, Brings
    <3>4. Brings(j, net[<<j, i>>])'
      BY <1>1, <1>2, <1>3, BringsStays DEF ResultRight
    <3>5. Holds(j, globalState[i])'
      BY <1>2, <3>3 DEF Holds
    <3>. QED  BY <3>3, <3>4, <3>5 DEF ResultRight
  <2>. QED  BY <1>1, <2>1, <2>2
<1>7. /\ isInitiator'[j] => isInitiator[j]
      /\ finishedGlobalState'[j] => finishedGlobalState[j]
      /\ finishedRecording'[j] => finishedRecording[j]
  BY <1>4, <1>5
<1>. QED  BY <1>2, <1>3, <1>6, <1>7, Stays


\* initiateSnapshot in the window of the initiator.
LEMMA InitiatorSends ==
  ASSUME TypeOK, NEW i \in Tanks, NEW j \in Tanks, Pair(i, j), NEW phase \in Phases, Running(i, j, phase),
         Starting(i, "gui")
  PROVE  Running(i, j, phase)'
<1>1. /\ InitiatorRight(i) /\ OtherRight(i, j, phase) /\ ResultRight(i, j, phase) /\ i # j
      /\ net[<<i, i>>] = <<>> /\ net[<<j, j>>] = <<>>
      /\ leftNeighbour(i) = j /\ rightNeighbour(i) = j
  BY DEF Running, Pair
<1>2. PICK a \in 0 .. 2, b \in 0 .. 2 :
          /\ FewMarkers(a, net[<<i, j>>]) /\ a + SeenBy(phase) <= SentBy(starting[i]["gui"])
          /\ FewMarkers(b, net[<<j, i>>]) /\ b + SeenAt(i) <= SentFrom(j, phase)
  BY DEF Running, MarkersRight
<1>4. ASSUME NEW at \in {"left", "right", "no"}, starting' = [starting EXCEPT ![i]["gui"] = at],
             UNCHANGED <<isInitiator, finishedRecording, finishedGlobalState, localState, globalState, markerFrom>>,
             recordState'[j] = recordState[j], LoopsKept, CollectsKept(j, i),
             SeenAt(i)' = SeenAt(i), FewMarkers(b, net'[<<j, i>>]),
             \E c \in 0 .. 2 : FewMarkers(c, net'[<<i, j>>]) /\ c + SeenBy(phase) <= SentBy(at)
      PROVE  Running(i, j, phase)'
  <2>1. /\ starting'[i]["gui"] = at /\ starting'[i]["receiver"] = starting[i]["receiver"]
        /\ starting'[j] = starting[j]
    BY <1>1, <1>4, ThreadSteps
  <2>2. InitiatorRight(i)'
    BY <1>1, <1>4, <2>1 DEF InitiatorRight
  <2>3. OtherRight(i, j, phase)'
    BY <1>1, <1>4, <2>1 DEF OtherRight
  <2>4. ResultRight(i, j, phase)'
    BY <1>1, <1>4, ResultStays
  <2>5. SentFrom(j, phase)' = SentFrom(j, phase)
    BY <2>1 DEF SentFrom
  <2>6. MarkersRight(i, j, phase)'
    <3>1. PICK c \in 0 .. 2 : FewMarkers(c, net'[<<i, j>>]) /\ c + SeenBy(phase) <= SentBy(at)
      BY <1>4
    <3>2. FewMarkers(c, net'[<<i, j>>]) /\ c + SeenBy(phase) <= SentBy(starting'[i]["gui"])
      BY <2>1, <3>1, Zenon
    <3>3. FewMarkers(b, net'[<<j, i>>]) /\ b + SeenAt(i)' <= SentFrom(j, phase)'
      BY <1>2, <1>4, <2>5, Zenon
    <3>. QED  BY <3>2, <3>3, Zenon DEF MarkersRight
  <2>. QED  BY <1>1, <1>4, <2>2, <2>3, <2>4, <2>6 DEF Running, LoopsKept
<1>5. CASE StartRecording(i, "gui")
  <2>1. /\ starting[i]["gui"] = "record" /\ recordState' = [recordState EXCEPT ![i] = "BOTH"]
        /\ starting' = [starting EXCEPT ![i]["gui"] = "left"]
        /\ UNCHANGED <<net, isInitiator, finishedRecording, finishedGlobalState, localState, globalState, markerFrom>>
    BY <1>5 DEF StartRecording, states
  <2>2. /\ recordState'[i] = "BOTH" /\ recordState'[j] = recordState[j] /\ starting'[i]["gui"] = "left"
    <3>1. recordState'[i] = "BOTH" /\ recordState'[j] = recordState[j]
      BY <1>1, <2>1 DEF TypeOK
    <3>2. starting'[i]["gui"] = "left"
      BY <2>1, ThreadSteps
    <3>. QED  BY <3>1, <3>2
  <2>3. SeenAt(i) = 0 /\ SeenAt(i)' = 0
    <3>1. SeenAt(i) = 0
      BY <2>1 DEF SeenAt
    <3>2. SeenAt(i)' = 0
      BY <2>2 DEF SeenAt
    <3>. QED  BY <3>1, <3>2
  <2>4. LoopsKept /\ CollectsKept(j, i) /\ FewMarkers(a, net'[<<i, j>>]) /\ FewMarkers(b, net'[<<j, i>>])
    BY <1>2, <2>1 DEF LoopsKept, CollectsKept
  <2>5. SentBy("left") = SentBy(starting[i]["gui"])
    BY <2>1 DEF SentBy
  <2>6. \E c \in 0 .. 2 : FewMarkers(c, net'[<<i, j>>]) /\ c + SeenBy(phase) <= SentBy("left")
    BY <1>2, <2>4, <2>5, Zenon
  <2>. QED  BY <1>4, <2>1, <2>2, <2>3, <2>4, <2>6
<1>6. CASE SendMarkerLeft(i, "gui") \/ SendMarkerRight(i, "gui")
  <2>1. PICK at \in {"right", "no"} :
            /\ starting' = [starting EXCEPT ![i]["gui"] = at] /\ SentBy(at) = SentBy(starting[i]["gui"]) + 1
            /\ starting[i]["gui"] # "record" /\ SentBy(starting[i]["gui"]) \in 0 .. 1
    BY <1>6 DEF SendMarkerLeft, SendMarkerRight, SentBy
  <2>2. /\ SendTo(i, j, Marker)
        /\ UNCHANGED <<recordState, isInitiator, finishedRecording, finishedGlobalState, localState, globalState,
                       markerFrom>>
    BY <1>1, <1>6 DEF SendMarkerLeft, SendMarkerRight, states, recording
  <2>3. Marker \in Messages /\ Marker.type = "marker" /\ <<j, i>> # <<i, j>>
    BY <1>1, MessagesTyped
  <2>4. /\ LoopsKept /\ CollectsKept(j, i) /\ net'[<<j, i>>] = net[<<j, i>>]
        /\ \A k \in 0 .. 1 : FewMarkers(k, net[<<i, j>>]) => FewMarkers(k + 1, net'[<<i, j>>])
    BY <1>1, <2>2, <2>3, AddKeeps
  <2>5. SeenAt(i)' = SeenAt(i)
    <3>1. starting'[i]["gui"] = at
      BY <2>1, ThreadSteps
    <3>. QED  BY <2>1, <2>2, <3>1 DEF SeenAt
  <2>6. a \in 0 .. 1 /\ a + 1 \in 0 .. 2 /\ (a + 1) + SeenBy(phase) <= SentBy(at)
    BY <1>2, <2>1, Counts
  <2>7. FewMarkers(a + 1, net'[<<i, j>>]) /\ FewMarkers(b, net'[<<j, i>>])
    BY <1>2, <2>4, <2>6
  <2>8. \E c \in 0 .. 2 : FewMarkers(c, net'[<<i, j>>]) /\ c + SeenBy(phase) <= SentBy(at)
    BY <2>6, <2>7, Zenon
  <2>. QED  BY <1>4, <2>1, <2>2, <2>4, <2>5, <2>7, <2>8
<1>. QED  BY <1>5, <1>6 DEF Starting

\* initiateSnapshot in the receiver of the other tank.
LEMMA OtherSends ==
  ASSUME TypeOK, NEW i \in Tanks, NEW j \in Tanks, Pair(i, j), NEW phase \in Phases, Running(i, j, phase),
         Starting(j, "receiver")
  PROVE  \E q \in Phases : Running(i, j, q)'
<1>1. /\ InitiatorRight(i) /\ OtherRight(i, j, phase) /\ ResultRight(i, j, phase) /\ i # j
      /\ net[<<i, i>>] = <<>> /\ net[<<j, j>>] = <<>>
      /\ leftNeighbour(j) = i /\ rightNeighbour(j) = i
  BY DEF Running, Pair
<1>2. PICK a \in 0 .. 2, b \in 0 .. 2 :
          /\ FewMarkers(a, net[<<i, j>>]) /\ a + SeenBy(phase) <= SentBy(starting[i]["gui"])
          /\ FewMarkers(b, net[<<j, i>>]) /\ b + SeenAt(i) <= SentFrom(j, phase)
  BY DEF Running, MarkersRight
<1>4. phase = "starting" /\ markerFrom[j] = i
  BY <1>1 DEF OtherRight, Starting, StartRecording, SendMarkerLeft, SendMarkerRight
<1>5. ASSUME NEW at \in {"left", "right", "no"}, NEW q \in {"starting", "recording"},
             q = "recording" <=> at = "no",
             starting' = [starting EXCEPT ![j]["receiver"] = at],
             UNCHANGED <<isInitiator, finishedRecording, finishedGlobalState, localState, globalState, markerFrom>>,
             recordState'[i] = recordState[i], recordState'[j] = "RIGHT", LoopsKept, CollectsKept(j, i),
             FewMarkers(a, net'[<<i, j>>]),
             \E c \in 0 .. 2 : FewMarkers(c, net'[<<j, i>>]) /\ c + SeenAt(i) <= SentBy(at)
      PROVE  \E r \in Phases : Running(i, j, r)'
  <2>1. /\ starting'[j]["receiver"] = at /\ starting'[j]["gui"] = starting[j]["gui"]
        /\ starting'[i] = starting[i]
    BY <1>1, <1>5, ThreadSteps
  <2>2. InitiatorRight(i)'
    BY <1>1, <1>5, <2>1 DEF InitiatorRight
  <2>3. OtherRight(i, j, q)'
    BY <1>1, <1>4, <1>5, <2>1 DEF OtherRight
  <2>4. ResultRight(i, j, q)'
    BY <1>1, <1>4, <1>5, ResultStays
  <2>5. SeenAt(i)' = SeenAt(i) /\ SentFrom(j, q)' = SentBy(at) /\ SeenBy(q) = SeenBy(phase)
    BY <1>4, <1>5, <2>1 DEF SentFrom, SeenAt, SeenBy
  <2>6. MarkersRight(i, j, q)'
    <3>1. PICK c \in 0 .. 2 : FewMarkers(c, net'[<<j, i>>]) /\ c + SeenAt(i) <= SentBy(at)
      BY <1>5
    <3>2. FewMarkers(c, net'[<<j, i>>]) /\ c + SeenAt(i)' <= SentFrom(j, q)'
      BY <2>5, <3>1, Zenon
    <3>3. FewMarkers(a, net'[<<i, j>>]) /\ a + SeenBy(q) <= SentBy(starting'[i]["gui"])
      BY <1>2, <1>5, <2>1, <2>5, Zenon
    <3>. QED  BY <3>2, <3>3, Zenon DEF MarkersRight
  <2>7. Running(i, j, q)'
    BY <1>1, <1>5, <2>2, <2>3, <2>4, <2>6 DEF Running, LoopsKept
  <2>. QED  BY <1>5, <2>7 DEF Phases
<1>6. CASE StartRecording(j, "receiver")
  <2>1. /\ starting[j]["receiver"] = "record" /\ recordState' = [recordState EXCEPT ![j] = "RIGHT"]
        /\ starting' = [starting EXCEPT ![j]["receiver"] = "left"]
        /\ UNCHANGED <<net, isInitiator, finishedRecording, finishedGlobalState, localState, globalState, markerFrom>>
    BY <1>1, <1>4, <1>6 DEF StartRecording, states
  <2>2. recordState'[j] = "RIGHT" /\ recordState'[i] = recordState[i]
    BY <1>1, <2>1 DEF TypeOK
  <2>3. LoopsKept /\ CollectsKept(j, i) /\ FewMarkers(a, net'[<<i, j>>]) /\ FewMarkers(b, net'[<<j, i>>])
    BY <1>2, <2>1 DEF LoopsKept, CollectsKept
  <2>4. SentBy("left") = SentFrom(j, phase)
    BY <1>4, <2>1 DEF SentBy, SentFrom
  <2>5. \E c \in 0 .. 2 : FewMarkers(c, net'[<<j, i>>]) /\ c + SeenAt(i) <= SentBy("left")
    BY <1>2, <2>3, <2>4, Zenon
  <2>. QED  BY <1>5, <2>1, <2>2, <2>3, <2>5
<1>7. CASE SendMarkerLeft(j, "receiver") \/ SendMarkerRight(j, "receiver")
  <2>1. PICK at \in {"right", "no"} :
            /\ starting' = [starting EXCEPT ![j]["receiver"] = at] /\ SentBy(at) = SentFrom(j, phase) + 1
            /\ starting[j]["receiver"] \in {"left", "right"} /\ SentFrom(j, phase) \in 0 .. 1
    BY <1>4, <1>7 DEF SendMarkerLeft, SendMarkerRight, SentBy, SentFrom
  <2>2. /\ SendTo(j, i, Marker)
        /\ UNCHANGED <<recordState, isInitiator, finishedRecording, finishedGlobalState, localState, globalState,
                       markerFrom>>
    BY <1>1, <1>7 DEF SendMarkerLeft, SendMarkerRight, states, recording
  <2>3. Marker \in Messages /\ Marker.type = "marker" /\ <<j, i>> # <<i, j>>
    BY <1>1, MessagesTyped
  <2>4. /\ LoopsKept /\ CollectsKept(j, i) /\ net'[<<i, j>>] = net[<<i, j>>]
        /\ \A k \in 0 .. 1 : FewMarkers(k, net[<<j, i>>]) => FewMarkers(k + 1, net'[<<j, i>>])
    BY <1>1, <2>2, <2>3, AddKeeps
  <2>5. b \in 0 .. 1 /\ b + 1 \in 0 .. 2 /\ (b + 1) + SeenAt(i) <= SentBy(at)
    BY <1>2, <2>1, Counts
  <2>6. FewMarkers(b + 1, net'[<<j, i>>]) /\ FewMarkers(a, net'[<<i, j>>])
    BY <1>2, <2>4, <2>5
  <2>7. \E c \in 0 .. 2 : FewMarkers(c, net'[<<j, i>>]) /\ c + SeenAt(i) <= SentBy(at)
    BY <2>5, <2>6, Zenon
  <2>8. recordState[j] = "RIGHT"
    BY <1>1, <2>1 DEF OtherRight
  <2>9. PICK q \in {"starting", "recording"} : q = "recording" <=> at = "no"
    BY <2>1
  <2>. QED  BY <1>5, <2>1, <2>2, <2>4, <2>6, <2>7, <2>8, <2>9
<1>. QED  BY <1>6, <1>7 DEF Starting


\* passOnGs: a tank that has recorded passes the token on with its own state.
LEMMA PassStep ==
  ASSUME TypeOK, NEW i \in Tanks, NEW j \in Tanks, Pair(i, j), NEW phase \in Phases, Running(i, j, phase),
         NEW t \in Tanks, UpdateStep(t)
  PROVE  Running(i, j, phase)'
<1>1. /\ OtherRight(i, j, phase) /\ ResultRight(i, j, phase) /\ i # j
      /\ t = i \/ t = j
      /\ leftNeighbour(i) = j /\ leftNeighbour(j) = i
  BY DEF Running, Pair
<1>2. CASE PassedOn(t)
  <2>1. UNCHANGED <<net, recordState, starting, markerFrom, isInitiator, finishedGlobalState, localState, globalState>>
    BY <1>2 DEF PassedOn, states
  <2>2. finishedRecording'[j] => finishedRecording[j]
    BY <1>2 DEF PassedOn, TypeOK
  <2>3. MarkersKept /\ LoopsKept /\ CollectsKept(j, i)
    BY <2>1 DEF MarkersKept, LoopsKept, CollectsKept
  <2>4. ResultRight(i, j, phase)'
    BY <1>1, <2>1, <2>3, ResultStays
  <2>. QED  BY <2>1, <2>2, <2>3, <2>4, Stays
<1>3. CASE PassOnGs(t)
  <2>1. /\ finishedRecording[t] /\ SendTo(t, leftNeighbour(t), Collect(Collected(t)))
        /\ globalState' = [globalState EXCEPT ![t] = Collected(t)]
        /\ UNCHANGED <<recordState, starting, markerFrom, isInitiator, finishedRecording, finishedGlobalState,
                       localState>>
    BY <1>3 DEF PassOnGs, recording
  <2>2. PICK r \in Tanks : r = leftNeighbour(t) /\ r # t
    BY <1>1
  <2>3. PICK g \in SUBSET Entries : g = Collected(t)
    BY CollectedTyped
  <2>4. PICK m \in Messages : m = Collect(g) /\ m.type = "collect" /\ m.fish = g
    BY MessagesTyped
  <2>5. SendTo(t, r, m)
    BY <2>1, <2>2, <2>3, <2>4, Zenon
  <2>6. m.type # "marker"
    BY <2>4
  <2>7. MarkersKept /\ LoopsKept /\ (<<j, i>> # <<t, r>> => CollectsKept(j, i))
    <3>1. r \in Tanks /\ m \in Messages /\ t # r
      BY <2>2
    <3>2. MarkersKept /\ LoopsKept
      BY <2>5, <2>6, <3>1, AddKeeps
    <3>3. \A u, v \in Tanks : <<u, v>> # <<t, r>> => CollectsKept(u, v)
      BY <2>5, <3>1, AddKeeps
    <3>. QED  BY <3>2, <3>3
  <2>8. globalState[i] \subseteq globalState'[i]
    BY <2>1 DEF TypeOK, Collected
  <2>9. ResultRight(i, j, phase)'
    <3>1. CASE t = i
      <4>1. <<j, i>> # <<t, r>>
        BY <1>1, <3>1
      <4>. QED  BY <1>1, <2>1, <2>7, <2>8, <4>1, ResultStays
    <3>2. CASE t = j
      <4>1. r = i /\ phase = "done" /\ Holds(j, g)
        BY <1>1, <2>1, <2>2, <2>3, <3>2 DEF OtherRight, Holds, Collected, Entry
      <4>2. \A p \in 1 .. Len(net'[<<j, i>>]) :
                net'[<<j, i>>][p] = m \/ \E q \in 1 .. Len(net[<<j, i>>]) : net[<<j, i>>][q] = net'[<<j, i>>][p]
        BY <1>1, <2>5, <3>2, <4>1, AddKeeps
      <4>3. Brings(j, net[<<j, i>>])'
        BY <1>1, <2>1, <2>4, <4>1, <4>2 DEF ResultRight, Brings, Holds
      <4>4. (finishedGlobalState[i] => Holds(j, globalState[i]))'
        BY <1>1, <2>1, <2>8 DEF ResultRight, Holds
      <4>. QED  BY <4>1, <4>3, <4>4 DEF ResultRight
    <3>. QED  BY <1>1, <3>1, <3>2
  <2>. QED  BY <2>1, <2>7, <2>9, Stays
<1>. QED  BY <1>2, <1>3 DEF UpdateStep

LEMMA RunningStep ==
  ASSUME TypeOK, NEW i \in Tanks, NEW j \in Tanks, Pair(i, j), NEW phase \in Phases, Running(i, j, phase),
         Next, \A t \in Tanks : ~Initiate(t)
  PROVE  \E q \in Phases : Running(i, j, q)'
<1>1. ASSUME NEW t \in Tanks, \E f \in Fish : Disappear(t, f) \/ \E d \in Dirs : HandOff(t, f, d)
      PROVE  \E q \in Phases : Running(i, j, q)'
  BY <1>1, FishStep
<1>2. ASSUME NEW s \in Tanks, NEW t \in Tanks, ReceiveFrom(s, t)
      PROVE  \E q \in Phases : Running(i, j, q)'
  <2>1. CASE ReceiveFish(s, t)
    BY <2>1, FishStep
  <2>2. CASE ReceiveGlobalState(s, t)
    BY <2>2, TokenArrives
  <2>3. CASE MarkerStarts(s, t) \/ MarkerStopsOne(s, t) \/ MarkerStopsLast(s, t)
    <3>1. (s = i /\ t = j) \/ (s = j /\ t = i)
      BY <2>3, OtherChannel DEF MarkerStarts, MarkerStopsOne, MarkerStopsLast, Receives
    <3>. QED  BY <2>3, <3>1, OtherMarker, InitiatorMarker
  <2>. QED  BY <1>2, <2>1, <2>2, <2>3 DEF ReceiveFrom
<1>3. ASSUME NEW t \in Tanks, NEW c \in Starters, Starting(t, c)
      PROVE  \E q \in Phases : Running(i, j, q)'
  <2>1. \/ t = i /\ c = "gui"
        \/ t = j /\ c = "receiver"
    <3>1. starting[t][c] # "no"
      BY <1>3 DEF Starting, StartRecording, SendMarkerLeft, SendMarkerRight
    <3>2. starting[i]["receiver"] = "no" /\ starting[j]["gui"] = "no" /\ (t = i \/ t = j)
      BY DEF Running, InitiatorRight, OtherRight, Pair
    <3>. QED  BY <3>1, <3>2 DEF Starters
  <2>. QED  BY <1>3, <2>1, InitiatorSends, OtherSends
<1>4. ASSUME NEW t \in Tanks, UpdateStep(t)
      PROVE  \E q \in Phases : Running(i, j, q)'
  BY <1>4, PassStep
<1>. QED  BY <1>1, <1>2, <1>3, <1>4 DEF Next


LEMMA SnapInvStarts == ASSUME Init PROVE SnapInv
<1>1. initiations = 0 /\ TypeOK
  BY TypeStarts DEF Init
<1>2. ASSUME NEW s \in Tanks, NEW t \in Tanks
      PROVE  net[<<s, t>>] = <<>>
  BY DEF Init
<1>3. Calm
  <2>1. FewMarkers(0, <<>>) /\ NoCollect(<<>>)
    BY DEF FewMarkers, NoCollect
  <2>2. SUFFICES ASSUME NEW t \in Tanks
                 PROVE  /\ recordState[t] = "IDLE" /\ ~isInitiator[t] /\ ~finishedRecording[t]
                        /\ ~finishedGlobalState[t]
                        /\ starting[t] = [c \in Starters |-> "no"]
                        /\ net[<<t, t>>] = <<>>
                        /\ \A s \in Tanks : FewMarkers(0, net[<<s, t>>]) /\ NoCollect(net[<<s, t>>])
    BY DEF Calm
  <2>3. \A s \in Tanks : FewMarkers(0, net[<<s, t>>]) /\ NoCollect(net[<<s, t>>])
    BY <1>2, <2>1
  <2>. QED  BY <1>2, <2>3 DEF Init
<1>. QED  BY <1>1, <1>3 DEF SnapInv

\* Next but for the user's calls leaves the number of snapshots alone.
LEMMA NoneStarted == ASSUME Next, \A t \in Tanks : ~Initiate(t) PROVE initiations' = initiations
<1>1. ASSUME NEW s \in Tanks, NEW t \in Tanks, ReceiveFrom(s, t) PROVE initiations' = initiations
  BY <1>1 DEF ReceiveFrom, ReceiveFish, MarkerStarts, MarkerStopsOne, MarkerStopsLast, ReceiveGlobalState, calls
<1>2. ASSUME NEW t \in Tanks, NEW c \in Starters, Starting(t, c) PROVE initiations' = initiations
  BY <1>2 DEF Starting, StartRecording, SendMarkerLeft, SendMarkerRight
<1>3. ASSUME NEW t \in Tanks, UpdateStep(t) PROVE initiations' = initiations
  BY <1>3 DEF UpdateStep, PassOnGs, PassedOn
<1>4. ASSUME NEW t \in Tanks, NEW f \in Fish, Disappear(t, f) \/ \E d \in Dirs : HandOff(t, f, d)
      PROVE  initiations' = initiations
  BY <1>4 DEF Disappear, HandOff, calls
<1>. QED  BY <1>1, <1>2, <1>3, <1>4 DEF Next

LEMMA SnapInvStep == ASSUME N = 2, SnapInv, [Next]_vars PROVE SnapInv'
<1>1. TypeOK /\ TypeOK'
  BY TypeStep DEF SnapInv
<1>2. CASE UNCHANGED vars
  <2>1. UNCHANGED <<fishies, leaving, net, recordState, isInitiator, finishedRecording, finishedGlobalState,
                    localState, leftState, rightState, globalState, starting, markerFrom, passing, initiations>>
    BY <1>2 DEF vars, recording, states, calls
  <2>2. Calm => Calm'
    BY <2>1 DEF Calm
  <2>3. ASSUME NEW i \in Tanks, NEW phase \in Phases, Running(i, 1 - i, phase)
        PROVE  Running(i, 1 - i, phase)'
    <3>1. PICK j \in Tanks : j = 1 - i /\ Pair(i, j)
      BY RingOfTwo DEF Pair
    <3>2. MarkersKept /\ LoopsKept /\ CollectsKept(j, i)
      BY <2>1 DEF MarkersKept, LoopsKept, CollectsKept
    <3>3. Running(i, j, phase) /\ ResultRight(i, j, phase) /\ j \in Tanks
      BY <2>3, <3>1 DEF Running
    <3>4. ResultRight(i, j, phase)'
      BY <2>1, <3>2, <3>3, ResultStays
    <3>5. Running(i, j, phase)'
      BY <2>1, <3>2, <3>3, <3>4, Stays
    <3>. QED  BY <3>1, <3>5
  <2>. QED  BY <1>1, <2>1, <2>2, <2>3 DEF SnapInv
<1>3. CASE Next /\ \A t \in Tanks : ~Initiate(t)
  <2>1. initiations' = initiations
    BY <1>3, NoneStarted
  <2>2. initiations = 0 => Calm'
    BY <1>1, <1>3, CalmStep DEF SnapInv
  <2>3. ASSUME initiations = 1
        PROVE  \E i \in Tanks : \E phase \in Phases : Running(i, 1 - i, phase)'
    <3>1. PICK i \in Tanks, phase \in Phases : Running(i, 1 - i, phase)
      BY <2>3 DEF SnapInv
    <3>2. PICK j \in Tanks : j = 1 - i /\ Pair(i, j)
      BY RingOfTwo DEF Pair
    <3>3. Running(i, j, phase) /\ i \in Tanks /\ j \in Tanks /\ phase \in Phases
      BY <3>1, <3>2
    <3>4. \E q \in Phases : Running(i, j, q)'
      BY <1>1, <1>3, <3>2, <3>3, RunningStep
    <3>. QED  BY <3>2, <3>3, <3>4
  <2>. QED  BY <1>1, <2>1, <2>2, <2>3 DEF SnapInv
<1>4. ASSUME NEW i \in Tanks, Initiate(i)
      PROVE  SnapInv'
  <2>1. initiations \in Nat /\ initiations' = initiations + 1
    BY <1>1, <1>4, SnapshotAssumption DEF TypeOK, Initiate
  <2>2. CASE initiations = 0
    <3>1. PICK j \in Tanks : j = 1 - i /\ Pair(i, j)
      BY RingOfTwo DEF Pair
    <3>2. Calm /\ j \in Tanks
      BY <2>2, <3>1 DEF SnapInv
    <3>3. Running(i, j, "before")'
      BY <1>1, <1>4, <3>1, <3>2, SnapshotStarts
    <3>. QED  BY <1>1, <2>1, <2>2, <3>1, <3>3 DEF SnapInv, Phases
  <2>3. CASE initiations # 0
    BY <1>1, <2>1, <2>3 DEF SnapInv
  <2>. QED  BY <2>2, <2>3
<1>. QED  BY <1>2, <1>3, <1>4

\* What the window of the initiator, and no other window, may show.
LEMMA SnapInvShows == ASSUME N = 2, SnapInv, initiations <= 1 PROVE ResultHasNeighbour
<1>1. CASE initiations = 0
  BY <1>1 DEF SnapInv, Calm, ResultHasNeighbour
<1>2. CASE initiations = 1
  <2>1. PICK i \in Tanks, phase \in Phases : Running(i, 1 - i, phase)
    BY <1>2 DEF SnapInv
  <2>2. PICK j \in Tanks : j = 1 - i /\ Pair(i, j)
    BY RingOfTwo DEF Pair
  <2>3. OtherRight(i, j, phase) /\ ResultRight(i, j, phase)
    BY <2>1, <2>2 DEF Running
  <2>. QED  BY <2>2, <2>3 DEF OtherRight, ResultRight, Holds, Pair, ResultHasNeighbour
<1>3. initiations \in Nat
  BY SnapshotAssumption DEF SnapInv, TypeOK
<1>. QED  BY <1>1, <1>2, <1>3

(* In a ring of any size, and with any number of snapshots, the fields of  *)
(* TankModel, the messages and the steps of the three threads have their   *)
(* types.                                                                  *)
THEOREM SnapshotTyped == Safe => []TypeOK
<1>1. Init => TypeOK
  BY TypeStarts
<1>2. TypeOK /\ [Next]_vars => TypeOK'
  BY TypeStep
<1>. QED  BY <1>1, <1>2, PTL DEF Safe

(* In a ring of two, as long as one snapshot has been started, the result  *)
(* that receiveGlobalState shows holds what the other tank has recorded,   *)
(* in whatever order the windows, receivers and update loops run.          *)
THEOREM NeighbourRecorded == ASSUME N = 2 PROVE Safe => [](initiations <= 1 => ResultHasNeighbour)
<1>1. Init => SnapInv
  BY SnapInvStarts
<1>2. SnapInv /\ [Next]_vars => SnapInv'
  BY SnapInvStep
<1>3. SnapInv => (initiations <= 1 => ResultHasNeighbour)
  BY SnapInvShows
<1>. QED  BY <1>1, <1>2, <1>3, PTL DEF Safe

\* A behaviour of the two algorithms is, for the snapshot, one of AquaSnapshot.
LEMMA SnapshotAlone == /\ AquaInit => Init
                       /\ [AquaNext]_aquaVars => [Next]_vars
BY DEF AquaInit, SnapshotOff, AquaNext, aquaVars

(* The same for the system that TLC checks: the types, and the neighbour's *)
(* fish in the result of the one snapshot that a user may start.           *)
THEOREM SnapshotRightHolds == ASSUME N = 2, MaxInitiations = 1 PROVE AquaSpec => []SnapshotRight
<1>1. AquaInit => SnapInv
  BY SnapInvStarts, SnapshotAlone
<1>2. SnapInv /\ [AquaNext]_aquaVars => SnapInv'
  BY SnapInvStep, SnapshotAlone
<1>3. SnapInv => SnapshotRight
  <2>1. SnapInv => TypeOK /\ initiations <= 1
    BY DEF SnapInv, TypeOK
  <2>. QED  BY <2>1, SnapInvShows DEF SnapshotRight
<1>. QED  BY <1>1, <1>2, <1>3, PTL DEF AquaSpec

-----------------------------------------------------------------------------
(* The location of fish, as long as no tank leaves.                        *)

Client == [id: Nat, addr: AquaTanks]
AboutFish == {"handoff", "resolve", "resolved", "update"}
AboutHome == AboutFish \ {"handoff"}

Named(f) == bornIn[f] \notin {Null, NamedNull}
Home(f) == nameService[bornIn[f]]
\* the tank that has taken the fish and asks for its home
Taker(m) == IF m.type = "resolved" THEN m.to ELSE m.from

(* The ids are the numbers of the tanks in the broker's list.              *)
Typed ==
    /\ clientCollection \in Seq(Client)
    /\ nameService \in [0 .. Len(clientCollection) - 1 -> AquaTanks]
    /\ running \subseteq AquaTanks /\ receiver \subseteq AquaTanks
    /\ tankId \in [AquaTanks -> Nat \union {Null}]
    /\ fishieAddress \in [AquaTanks -> [Swimmers -> AquaTanks \union {Null}]]
    /\ swims \in [Swimmers -> AquaTanks \union {Null}]
    /\ bornIn \in [Swimmers -> Nat \union {Null, NamedNull}]
    /\ hops \in [Swimmers -> Nat] /\ newest \in [Swimmers -> Nat]

MessageTyped(m) ==
    /\ m.type \in {"response"} \union AboutFish
    /\ m.type \in {"response", "handoff", "resolved", "update"} => m.to \in AquaTanks
    /\ m.type \in {"resolve", "update"} => m.from \in AquaTanks
    /\ m.type \in AboutFish => m.fish \in Swimmers
    /\ m.type = "resolved" => m.addr \in AquaTanks \union {Null}
    /\ m.type \in AboutHome => m.hop \in Nat

(* No two ids name the same tank, and each tank that has an id has the one *)
(* the broker gave it.                                                     *)
IdsAgree ==
    /\ \A i \in DOMAIN nameService : InCollection(nameService[i])
    /\ \A i, j \in DOMAIN nameService : nameService[i] = nameService[j] => i = j
    /\ \A t \in AquaTanks : tankId[t] # Null =>
          tankId[t] \in DOMAIN nameService /\ nameService[tankId[t]] = t
    /\ \A f \in Swimmers : Named(f) =>
          bornIn[f] \in DOMAIN nameService /\ tankId[Home(f)] = bornIn[f]

(* What a message says is still so, or was so at an earlier hop.           *)
MessageRight(m) ==
    /\ m.type = "response" => m.id \in DOMAIN nameService /\ nameService[m.id] = m.to
    /\ m.type \in AboutFish => bornIn[m.fish] # Null
    /\ m.type = "handoff" => swims[m.fish] = Null /\ newest[m.fish] < hops[m.fish]
    /\ m.type = "resolve" => m.id = bornIn[m.fish]
    /\ m.type = "resolved" /\ Named(m.fish) => m.addr = Home(m.fish)
    /\ m.type = "update" /\ Named(m.fish) => m.to = Home(m.fish)
    /\ m.type \in AboutHome => m.hop <= hops[m.fish]
    /\ m.type \in AboutHome /\ m.hop = hops[m.fish] /\ swims[m.fish] # Null =>
          Taker(m) = swims[m.fish]

\* a fish that was handed over but not taken has no message of this hop
HandoffsRight ==
    \A m, n \in sent : m.type = "handoff" /\ n.type \in AboutFish /\ m.fish = n.fish =>
        /\ n.type = "handoff" => n = m
        /\ n.type \in AboutHome => n.hop < hops[m.fish]

Asking(f) == \E m \in sent : m.type \in AboutHome /\ m.fish = f /\ m.hop = hops[f]

(* A fish that swims abroad has told its home of this hop, or is about to. *)
FishRight(f) ==
    /\ newest[f] <= hops[f]
    /\ swims[f] # Null => bornIn[f] # Null
    /\ Named(f) /\ swims[f] \notin {Null, Home(f)} => newest[f] = hops[f] \/ Asking(f)
    /\ Named(f) /\ swims[f] \notin {Null, Home(f)} /\ newest[f] = hops[f] /\ f \notin overtaken =>
          fishieAddress[Home(f)][f] = swims[f]

Consistent ==
    /\ Typed /\ IdsAgree
    /\ \A m \in sent : MessageTyped(m) /\ MessageRight(m)
    /\ HandoffsRight
    /\ \A f \in Swimmers : FishRight(f)
    /\ ReceiverLives

IInv == departed = {} => Consistent

-----------------------------------------------------------------------------
USE LocationAssumption

LEMMA InitiallyConsistent == LocInit => Consistent
<1> SUFFICES ASSUME LocInit PROVE Consistent
  OBVIOUS
<1>1. Typed
  BY DEF LocInit, Typed, Client
<1>2. IdsAgree
  BY DEF LocInit, IdsAgree, Named
<1>3. \A f \in Swimmers : FishRight(f)
  BY DEF LocInit, FishRight, Named
<1>4. HandoffsRight /\ ReceiverLives
  BY DEF LocInit, HandoffsRight, ReceiverLives
<1>5. QED
  BY <1>1, <1>2, <1>3, <1>4 DEF LocInit, Consistent

(* Only a registration changes what the broker knows: the new id is the    *)
(* length of the list, and the tank had none.                              *)
LEMMA RegisterTankKeeps ==
  ASSUME NEW t \in AquaTanks, Consistent, RegisterTank(t)
  PROVE  Consistent'
<1> DEFINE i == Len(clientCollection)
<1>1. /\ ~InCollection(t)
      /\ clientCollection' = Append(clientCollection, [id |-> i, addr |-> t])
      /\ nameService' = [j \in DOMAIN nameService \union {i} |->
                            IF j = i THEN t ELSE nameService[j]]
      /\ sent' = sent \union {Response(t, i)}
      /\ running' = running \union {t}
      /\ UNCHANGED <<receiver, tankId, fishieAddress, fishVars, updates>>
  BY DEF RegisterTank
<1>2. Typed /\ i \in Nat /\ DOMAIN nameService = 0 .. i - 1
  BY DEF Consistent, Typed
<1>3. Len(clientCollection') = i + 1
  BY <1>1, <1>2 DEF Typed, Client
<1>4. /\ DOMAIN nameService' = 0 .. i
      /\ nameService'[i] = t
      /\ \A j \in DOMAIN nameService : nameService'[j] = nameService[j]
  BY <1>1, <1>2
<1>5. Typed'
  <2>1. clientCollection' \in Seq(Client)
    BY <1>1, <1>2 DEF Typed, Client
  <2>2. nameService' \in [0 .. Len(clientCollection') - 1 -> AquaTanks]
    BY <1>1, <1>2, <1>3 DEF Typed
  <2>3. QED
    BY <1>1, <1>2, <2>1, <2>2 DEF Typed, fishVars, updates
<1>6. \A u \in AquaTanks : InCollection(u) \/ u = t => InCollection(u)'
  <2>1. /\ DOMAIN clientCollection' = 1 .. i + 1
        /\ DOMAIN clientCollection = 1 .. i
        /\ clientCollection'[i + 1].addr = t
        /\ \A k \in 1 .. i : clientCollection'[k] = clientCollection[k]
    BY <1>1, <1>2 DEF Typed, Client
  <2>2. QED
    BY <1>2, <2>1 DEF InCollection
<1>7. IdsAgree'
  <2>1. \A j \in DOMAIN nameService : InCollection(nameService[j]) /\ nameService[j] # t
    BY <1>1 DEF Consistent, IdsAgree
  <2>2. \A j \in DOMAIN nameService' : InCollection(nameService[j])'
    BY <1>2, <1>4, <1>6, <2>1, SMTT(30) DEF Typed
  <2>3. \A j, k \in DOMAIN nameService' : nameService'[j] = nameService'[k] => j = k
    BY <1>2, <1>4, <2>1 DEF Consistent, IdsAgree
  <2>4. \A u \in AquaTanks : tankId'[u] # Null =>
           tankId'[u] \in DOMAIN nameService' /\ nameService'[tankId'[u]] = u
    BY <1>1, <1>2, <1>4 DEF Consistent, IdsAgree
  <2>5. \A f \in Swimmers : Named(f)' =>
           bornIn'[f] \in DOMAIN nameService' /\ tankId'[Home(f)'] = bornIn'[f]
    BY <1>1, <1>2, <1>4 DEF Consistent, IdsAgree, Named, Home, fishVars
  <2>6. QED
    BY <2>2, <2>3, <2>4, <2>5 DEF IdsAgree
<1>8. \A f \in Swimmers : /\ Named(f)' <=> Named(f)
                          /\ Named(f) => Home(f)' = Home(f)
  BY <1>1, <1>4 DEF Consistent, IdsAgree, Named, Home, fishVars
<1>9. \A m \in sent' : MessageTyped(m)' /\ MessageRight(m)'
  <2>1. SUFFICES ASSUME NEW m \in sent' PROVE (MessageTyped(m) /\ MessageRight(m))'
    OBVIOUS
  <2>2. CASE m \in sent
    BY <1>1, <2>2, <1>4, <1>8 DEF Consistent, MessageTyped, MessageRight, AboutFish, AboutHome,
       Taker, fishVars, updates
  <2>3. CASE m = Response(t, i)
    BY <1>2, <2>3, <1>4 DEF MessageTyped, MessageRight, AboutFish, AboutHome, Response
  <2>4. QED
    BY <1>1, <2>2, <2>3
<1>10. HandoffsRight'
  BY <1>1 DEF Consistent, HandoffsRight, Response, AboutFish, AboutHome, fishVars
<1>11. \A f \in Swimmers : FishRight(f)'
  BY <1>1, <1>8 DEF Consistent, FishRight, Asking, fishVars, updates
<1>12. ReceiverLives'
  BY <1>1 DEF Consistent, ReceiverLives, RegisterTank, fishVars
<1>13. QED
  BY <1>5, <1>7, <1>9, <1>10, <1>11, <1>12 DEF Consistent

(* The broker's answer takes the place of the request, and holds the       *)
(* address of the home unless the name has no id.                          *)
LEMMA ResoluteNameKeeps ==
  ASSUME NEW m \in sent, Consistent, ResoluteName(m)
  PROVE  Consistent'
<1> DEFINE addr == IF m.id \in DOMAIN nameService THEN nameService[m.id] ELSE Null
           r == Resolved(m.from, addr, m.fish, m.hop)
<1>1. /\ m.type = "resolve" /\ sent' = (sent \ {m}) \union {r}
      /\ UNCHANGED <<brokerVars, tankVars, fishVars, updates>>
  BY DEF ResoluteName, Reply
<1>2. /\ m.fish \in Swimmers /\ m.from \in AquaTanks /\ m.hop \in Nat
      /\ m.hop <= hops[m.fish] /\ bornIn[m.fish] # Null
      /\ Named(m.fish) => addr = Home(m.fish)
      /\ m.hop = hops[m.fish] /\ swims[m.fish] # Null => m.from = swims[m.fish]
  BY <1>1 DEF Consistent, MessageTyped, MessageRight, AboutFish, AboutHome, IdsAgree, Named,
     Home, Taker
<1>3. /\ r.type = "resolved" /\ r.to = m.from /\ r.addr = addr
      /\ r.fish = m.fish /\ r.hop = m.hop /\ addr \in AquaTanks \union {Null}
  BY DEF Resolved, Consistent, Typed
<1> HIDE DEF addr, r
<1>4. Typed' /\ IdsAgree' /\ ReceiverLives'
  BY <1>1 DEF Consistent, Typed, IdsAgree, InCollection, Named, Home, ReceiverLives,
     brokerVars, tankVars, fishVars, updates
<1>5. \A n \in sent' : (MessageTyped(n) /\ MessageRight(n))'
  <2>1. SUFFICES ASSUME NEW n \in sent' PROVE (MessageTyped(n) /\ MessageRight(n))'
    OBVIOUS
  <2>2. CASE n \in sent
    BY <1>1, <2>2 DEF Consistent, MessageTyped, MessageRight, Named, Home,
       brokerVars, fishVars, updates
  <2>3. CASE n = r
    BY <1>1, <1>2, <1>3, <2>3 DEF MessageTyped, MessageRight, AboutFish, AboutHome, Named,
       Home, Taker, brokerVars, fishVars, updates
  <2>4. QED
    BY <1>1, <2>2, <2>3
<1>6. HandoffsRight'
  BY <1>1, <1>2, <1>3 DEF Consistent, HandoffsRight, AboutFish, AboutHome, fishVars
<1>7. \A f \in Swimmers : FishRight(f)'
  <2>1. SUFFICES ASSUME NEW f \in Swimmers PROVE FishRight(f)'
    OBVIOUS
  <2>2. Asking(f) => Asking(f)'
    BY <1>1, <1>3 DEF Asking, AboutHome, AboutFish, fishVars
  <2>3. QED
    BY <1>1, <2>2 DEF Consistent, FishRight, Named, Home, brokerVars, tankVars, fishVars,
       updates
<1>8. QED
  BY <1>4, <1>5, <1>6, <1>7 DEF Consistent

(* A tank that already has an id is given the same one again.              *)
LEMMA OnRegisteredKeeps ==
  ASSUME NEW m \in sent, Consistent, OnRegistered(m)
  PROVE  Consistent'
<1>1. /\ m.type = "response" /\ sent' = sent \ {m}
      /\ tankId' = [tankId EXCEPT ![m.to] = m.id]
      /\ UNCHANGED <<brokerVars, running, receiver, fishieAddress, departed, fishVars, updates>>
  BY DEF OnRegistered, Reply
<1>2. m.to \in AquaTanks /\ m.id \in DOMAIN nameService /\ nameService[m.id] = m.to
  BY <1>1 DEF Consistent, MessageTyped, MessageRight
<1>3. /\ m.id \in Nat /\ tankId'[m.to] = m.id
      /\ \A t \in AquaTanks \ {m.to} : tankId'[t] = tankId[t]
  BY <1>1, <1>2 DEF Consistent, Typed
<1>4. Typed' /\ ReceiverLives'
  BY <1>1, <1>3 DEF Consistent, Typed, ReceiverLives, brokerVars, fishVars, updates
<1>5. IdsAgree'
  <2>1. \A t \in AquaTanks : tankId'[t] # Null =>
           tankId'[t] \in DOMAIN nameService /\ nameService[tankId'[t]] = t
    BY <1>2, <1>3 DEF Consistent, IdsAgree
  <2>2. ASSUME NEW f \in Swimmers, Named(f)
        PROVE  bornIn[f] \in DOMAIN nameService /\ tankId'[Home(f)] = bornIn[f]
    <3>1. bornIn[f] \in DOMAIN nameService /\ tankId[Home(f)] = bornIn[f]
      BY <2>2 DEF Consistent, IdsAgree
    <3>2. Home(f) \in AquaTanks
      BY <3>1 DEF Consistent, Typed, Home
    <3>3. Home(f) = m.to => m.id = bornIn[f]
      BY <1>2, <3>1 DEF Consistent, IdsAgree, Home
    <3>4. QED
      BY <1>3, <3>1, <3>2, <3>3
  <2>3. QED
    BY <1>1, <2>1, <2>2 DEF Consistent, IdsAgree, InCollection, Named, Home, brokerVars, fishVars
<1>6. \A n \in sent' : (MessageTyped(n) /\ MessageRight(n))'
  BY <1>1 DEF Consistent, MessageTyped, MessageRight, Named, Home, brokerVars, fishVars, updates
<1>7. HandoffsRight'
  BY <1>1 DEF Consistent, HandoffsRight, fishVars
<1>8. \A f \in Swimmers : FishRight(f)'
  BY <1>1 DEF Consistent, FishRight, Asking, AboutHome, AboutFish, Named, Home, brokerVars,
     fishVars, updates
<1>9. QED
  BY <1>4, <1>5, <1>6, <1>7, <1>8 DEF Consistent

(* Nobody has heard of a fish that is created, and it swims at home.       *)
LEMMA CreateFishKeeps ==
  ASSUME NEW t \in AquaTanks, NEW f \in Swimmers, Consistent, CreateFish(t, f)
  PROVE  Consistent'
<1> DEFINE id == IF tankId[t] = Null THEN NamedNull ELSE tankId[t]
<1>1. /\ bornIn[f] = Null
      /\ bornIn' = [bornIn EXCEPT ![f] = id]
      /\ swims' = [swims EXCEPT ![f] = t]
      /\ fishieAddress' = [fishieAddress EXCEPT ![t][f] = Null]
      /\ UNCHANGED <<brokerVars, running, receiver, tankId, departed, sent, hops, updates>>
  BY DEF CreateFish
<1>2. /\ id # Null /\ id \in Nat \union {NamedNull}
      /\ id # NamedNull => id \in DOMAIN nameService /\ nameService[id] = t /\ tankId[t] = id
  BY DEF Consistent, Typed, IdsAgree
<1> HIDE DEF id
<1>3. /\ bornIn'[f] = id /\ swims'[f] = t
      /\ \A g \in Swimmers \ {f} : /\ bornIn'[g] = bornIn[g] /\ swims'[g] = swims[g]
                                   /\ \A u \in AquaTanks : fishieAddress'[u][g] = fishieAddress[u][g]
  BY <1>1 DEF Consistent, Typed
<1>4. Typed'
  BY <1>1, <1>2 DEF Consistent, Typed, brokerVars, updates
<1>5. \A g \in Swimmers \ {f} : (Named(g)' <=> Named(g)) /\ Home(g)' = Home(g)
  BY <1>1, <1>3 DEF Named, Home, brokerVars
<1>6. IdsAgree'
  <2>1. ASSUME NEW g \in Swimmers, Named(g)'
        PROVE  (bornIn[g] \in DOMAIN nameService /\ tankId[Home(g)] = bornIn[g])'
    BY <1>1, <1>2, <1>3, <1>5, <2>1 DEF Consistent, IdsAgree, Named, Home, brokerVars
  <2>2. QED
    BY <1>1, <2>1 DEF Consistent, IdsAgree, InCollection, brokerVars
<1>7. \A m \in sent : m.type \in AboutFish => m.fish \in Swimmers \ {f}
  BY <1>1 DEF Consistent, MessageTyped, MessageRight
<1>8. \A m \in sent' : (MessageTyped(m) /\ MessageRight(m))'
  <2>1. SUFFICES ASSUME NEW m \in sent PROVE (MessageTyped(m) /\ MessageRight(m))'
    BY <1>1
  <2>2. CASE m.type \in AboutFish
    BY <1>1, <1>3, <1>5, <1>7, <2>2 DEF Consistent, MessageTyped, MessageRight, AboutFish,
       AboutHome, Taker, brokerVars, updates
  <2>3. CASE m.type \notin AboutFish
    BY <1>1, <2>3 DEF Consistent, MessageTyped, MessageRight, AboutFish, AboutHome, brokerVars
  <2>4. QED
    BY <2>2, <2>3
<1>9. HandoffsRight'
  BY <1>1 DEF Consistent, HandoffsRight
<1>10. \A g \in Swimmers : FishRight(g)'
  <2>1. SUFFICES ASSUME NEW g \in Swimmers PROVE FishRight(g)'
    OBVIOUS
  <2>2. CASE g = f
    BY <1>1, <1>2, <1>3, <2>2 DEF Consistent, FishRight, Named, Home, brokerVars, updates
  <2>3. CASE g # f
    <3>1. Asking(g)' <=> Asking(g)
      BY <1>1 DEF Asking
    <3>2. Named(g) => Home(g) \in AquaTanks
      BY DEF Consistent, IdsAgree, Typed, Home
    <3>3. QED
      BY <1>1, <1>3, <1>5, <2>3, <3>1, <3>2 DEF Consistent, FishRight, updates
  <2>4. QED
    BY <2>2, <2>3
<1>11. ReceiverLives'
  BY <1>1, <1>3 DEF Consistent, ReceiverLives
<1>12. QED
  BY <1>4, <1>6, <1>8, <1>9, <1>10, <1>11 DEF Consistent

(* A hand-over begins a hop: all other messages about the fish are older.  *)
LEMMA PassFishKeeps ==
  ASSUME NEW t \in AquaTanks, NEW f \in Swimmers, NEW u \in AquaTanks, Consistent,
         PassFish(t, f, u)
  PROVE  Consistent'
<1> DEFINE h == HandedTo(u, f)
<1>1. /\ swims[f] = t
      /\ swims' = [swims EXCEPT ![f] = Null] /\ hops' = [hops EXCEPT ![f] = @ + 1]
      /\ sent' = sent \union {h}
      /\ UNCHANGED <<brokerVars, tankVars, bornIn, updates>>
  BY DEF PassFish
<1>2. h.type = "handoff" /\ h.to = u /\ h.fish = f
  BY DEF HandedTo
<1>3. t # Null /\ bornIn[f] # Null /\ hops[f] \in Nat /\ newest[f] \in Nat /\ newest[f] <= hops[f]
  BY <1>1 DEF Consistent, FishRight, Typed
<1> HIDE DEF h
<1>4. /\ swims'[f] = Null /\ hops'[f] = hops[f] + 1
      /\ \A g \in Swimmers \ {f} : swims'[g] = swims[g] /\ hops'[g] = hops[g]
  BY <1>1 DEF Consistent, Typed
<1>5. Typed' /\ IdsAgree' /\ ReceiverLives'
  BY <1>1, <1>3 DEF Consistent, Typed, IdsAgree, InCollection, Named, Home, ReceiverLives,
     brokerVars, tankVars, updates
<1>6. \A g \in Swimmers : (Named(g)' <=> Named(g)) /\ Home(g)' = Home(g)
  BY <1>1 DEF Named, Home, brokerVars
\* swims[f] = t: the fish is in no other hand-over
<1>7. \A m \in sent : /\ m.type = "handoff" => m.fish # f
                      /\ m.type \in AboutHome /\ m.fish = f => m.hop \in Nat /\ m.hop <= hops[f]
  BY <1>1, <1>3 DEF Consistent, MessageRight, MessageTyped, AboutHome, AboutFish
<1>8. \A m \in sent' : (MessageTyped(m) /\ MessageRight(m))'
  <2>1. SUFFICES ASSUME NEW m \in sent' PROVE (MessageTyped(m) /\ MessageRight(m))'
    OBVIOUS
  <2>2. CASE m \in sent
    <3>1. MessageTyped(m) /\ MessageRight(m) /\ MessageTyped(m)'
      BY <2>2 DEF Consistent, MessageTyped
    <3>2. CASE m.type \in AboutFish /\ m.fish = f
      BY <1>1, <1>3, <1>4, <1>6, <1>7, <2>2, <3>1, <3>2 DEF MessageTyped, MessageRight,
         AboutFish, AboutHome, brokerVars, updates
    <3>3. CASE m.type \in AboutFish /\ m.fish # f
      BY <1>1, <1>4, <1>6, <3>1, <3>3 DEF MessageTyped, MessageRight, AboutFish, AboutHome,
         Taker, brokerVars, updates
    <3>4. CASE m.type \notin AboutFish
      BY <1>1, <3>1, <3>4 DEF MessageTyped, MessageRight, AboutFish, AboutHome, brokerVars
    <3>5. QED
      BY <3>2, <3>3, <3>4
  <2>3. CASE m = h
    BY <1>1, <1>2, <1>3, <1>4, <2>3 DEF MessageTyped, MessageRight, AboutFish, AboutHome, updates
  <2>4. QED
    BY <1>1, <2>2, <2>3
<1>9. HandoffsRight'
  <2>1. SUFFICES ASSUME NEW m \in sent', NEW n \in sent',
                        m.type = "handoff", n.type \in AboutFish, m.fish = n.fish
                 PROVE  /\ n.type = "handoff" => n = m
                        /\ n.type \in AboutHome => n.hop < hops'[m.fish]
    BY DEF HandoffsRight
  <2>2. CASE m = h
    BY <1>1, <1>2, <1>3, <1>4, <1>7, <2>1, <2>2 DEF AboutHome
  <2>3. CASE m # h
    BY <1>1, <1>2, <1>4, <1>7, <2>1, <2>3 DEF Consistent, HandoffsRight, MessageTyped, AboutFish
  <2>4. QED
    BY <2>2, <2>3
<1>10. \A g \in Swimmers : FishRight(g)'
  <2>1. SUFFICES ASSUME NEW g \in Swimmers PROVE FishRight(g)'
    OBVIOUS
  <2>2. CASE g = f
    BY <1>1, <1>3, <1>4, <2>2 DEF FishRight, updates
  <2>3. CASE g # f
    <3>1. Asking(g) => Asking(g)'
      BY <1>1, <1>4, <2>3 DEF Asking
    <3>2. QED
      BY <1>1, <1>4, <1>6, <2>3, <3>1 DEF Consistent, FishRight, tankVars, updates
  <2>4. QED
    BY <2>2, <2>3
<1>11. QED
  BY <1>5, <1>8, <1>9, <1>10 DEF Consistent

(* The receiver of a fish is its home exactly if the ids are equal; any    *)
(* other tank asks, with the hop of this hand-over.                        *)
LEMMA TakeFishKeeps ==
  ASSUME NEW m \in sent, Consistent, TakeFish(m)
  PROVE  Consistent'
<1> DEFINE f == m.fish
           t == m.to
           r == Resolve(t, bornIn[f], f, hops[f])
<1>1. /\ m.type = "handoff" /\ swims' = [swims EXCEPT ![f] = t]
      /\ UNCHANGED <<brokerVars, running, receiver, tankId, departed, bornIn, hops, updates>>
      /\ \/ /\ bornIn[f] = tankId[t]
            /\ fishieAddress' = [fishieAddress EXCEPT ![t][f] = Null]
            /\ sent' = sent \ {m}
         \/ /\ bornIn[f] # tankId[t]
            /\ fishieAddress' = fishieAddress
            /\ sent' = (sent \ {m}) \union {r}
  BY DEF TakeFish, Reply
<1>2. /\ f \in Swimmers /\ t \in AquaTanks /\ t # Null
      /\ bornIn[f] # Null /\ newest[f] < hops[f] /\ hops[f] \in Nat /\ newest[f] \in Nat
  BY <1>1 DEF Consistent, MessageTyped, MessageRight, AboutFish, Typed
<1>3. /\ r.type = "resolve" /\ r.from = t /\ r.id = bornIn[f] /\ r.fish = f /\ r.hop = hops[f]
  BY DEF Resolve
<1>4. \A n \in sent \ {m} : n.type \in AboutFish /\ n.fish = f =>
         n.type \in AboutHome /\ n.hop < hops[f]
  BY <1>1 DEF Consistent, HandoffsRight, AboutHome
<1>5. Named(f) => Home(f) \in AquaTanks /\ (t = Home(f) <=> bornIn[f] = tankId[t])
  <2>1. ASSUME Named(f) PROVE bornIn[f] \in DOMAIN nameService /\ tankId[Home(f)] = bornIn[f]
    BY <1>2, <2>1 DEF Consistent, IdsAgree
  <2>2. Named(f) => Home(f) \in AquaTanks
    BY <2>1 DEF Consistent, Typed, Home
  <2>3. ASSUME bornIn[f] = tankId[t] PROVE nameService[bornIn[f]] = t
    BY <1>2, <2>3 DEF Consistent, IdsAgree
  <2>4. QED
    BY <2>1, <2>2, <2>3 DEF Home
<1> HIDE DEF f, t, r
<1>6. /\ swims'[f] = t
      /\ \A g \in Swimmers \ {f} : /\ swims'[g] = swims[g]
                                   /\ \A u \in AquaTanks : fishieAddress'[u][g] = fishieAddress[u][g]
  <2>1. swims'[f] = t /\ \A g \in Swimmers \ {f} : swims'[g] = swims[g]
    BY <1>1, <1>2 DEF Consistent, Typed
  <2>2. CASE fishieAddress' = [fishieAddress EXCEPT ![t][f] = Null]
    BY <1>2, <2>1, <2>2 DEF Consistent, Typed
  <2>3. CASE fishieAddress' = fishieAddress
    BY <2>1, <2>3
  <2>4. QED
    BY <1>1, <2>2, <2>3
<1>7. Typed'
  <2>1. fishieAddress' \in [AquaTanks -> [Swimmers -> AquaTanks \union {Null}]]
    <3>1. CASE fishieAddress' = [fishieAddress EXCEPT ![t][f] = Null]
      BY <1>2, <3>1 DEF Consistent, Typed
    <3>2. CASE fishieAddress' = fishieAddress
      BY <3>2 DEF Consistent, Typed
    <3>3. QED
      BY <1>1, <3>1, <3>2
  <2>2. swims' \in [Swimmers -> AquaTanks \union {Null}]
    BY <1>1, <1>2 DEF Consistent, Typed
  <2>3. QED
    BY <1>1, <2>1, <2>2 DEF Consistent, Typed, brokerVars, updates
<1>8. IdsAgree' /\ ReceiverLives'
  BY <1>1 DEF Consistent, IdsAgree, InCollection, Named, Home, ReceiverLives, brokerVars
<1>9. \A g \in Swimmers : (Named(g)' <=> Named(g)) /\ Home(g)' = Home(g)
  BY <1>1 DEF Named, Home, brokerVars
<1>10. \A n \in sent' : (MessageTyped(n) /\ MessageRight(n))'
  <2>1. SUFFICES ASSUME NEW n \in sent' PROVE (MessageTyped(n) /\ MessageRight(n))'
    OBVIOUS
  <2>2. CASE n \in sent \ {m}
    <3>1. MessageTyped(n) /\ MessageRight(n) /\ MessageTyped(n)'
      BY <2>2 DEF Consistent, MessageTyped
    <3>2. CASE n.type \in AboutFish /\ n.fish = f
      BY <1>1, <1>2, <1>4, <1>9, <2>2, <3>1, <3>2 DEF MessageTyped, MessageRight, AboutFish,
         AboutHome, brokerVars, updates
    <3>3. CASE n.type \in AboutFish /\ n.fish # f
      BY <1>1, <1>6, <1>9, <3>1, <3>3 DEF MessageTyped, MessageRight, AboutFish, AboutHome,
         Taker, brokerVars, updates
    <3>4. CASE n.type \notin AboutFish
      BY <1>1, <3>1, <3>4 DEF MessageTyped, MessageRight, AboutFish, AboutHome, brokerVars
    <3>5. QED
      BY <3>2, <3>3, <3>4
  <2>3. CASE n = r
    BY <1>1, <1>2, <1>3, <1>6, <2>3 DEF MessageTyped, MessageRight, AboutFish, AboutHome, Taker
  <2>4. QED
    BY <1>1, <2>2, <2>3
<1>11. HandoffsRight'
  <2>1. SUFFICES ASSUME NEW p \in sent', NEW n \in sent',
                        p.type = "handoff", n.type \in AboutFish, p.fish = n.fish
                 PROVE  /\ n.type = "handoff" => n = p
                        /\ n.type \in AboutHome => n.hop < hops'[p.fish]
    BY DEF HandoffsRight
  <2>2. p \in sent \ {m} /\ p.fish # f
    BY <1>1, <1>3, <1>4, <2>1 DEF AboutFish, AboutHome
  <2>3. n \in sent
    BY <1>1, <1>3, <2>1, <2>2
  <2>4. QED
    BY <1>1, <2>1, <2>2, <2>3 DEF Consistent, HandoffsRight
<1>12. \A g \in Swimmers : FishRight(g)'
  <2>1. SUFFICES ASSUME NEW g \in Swimmers PROVE FishRight(g)'
    OBVIOUS
  <2>2. CASE g = f
    <3>1. t # Home(f) /\ Named(f) => Asking(f)'
      BY <1>1, <1>3, <1>5 DEF Asking, AboutHome, AboutFish
    <3>2. QED
      BY <1>1, <1>2, <1>6, <1>9, <2>2, <3>1 DEF FishRight, updates
  <2>3. CASE g # f
    <3>1. Asking(g) => Asking(g)'
      BY <1>1, <2>3 DEF Asking, AboutHome
    <3>2. Named(g) => Home(g) \in AquaTanks
      BY DEF Consistent, IdsAgree, Typed, Home
    <3>3. QED
      BY <1>1, <1>6, <1>9, <2>3, <3>1, <3>2 DEF Consistent, FishRight, updates
  <2>4. QED
    BY <2>2, <2>3
<1>13. QED
  BY <1>7, <1>8, <1>10, <1>11, <1>12 DEF Consistent

(* The update goes to the address the broker has given.                    *)
LEMMA ReceiveNameResolutionKeeps ==
  ASSUME NEW m \in sent, Consistent, ReceiveNameResolution(m)
  PROVE  Consistent'
<1> DEFINE l == LocationUpdate(m.to, m.addr, m.fish, m.hop)
<1>1. /\ m.type = "resolved" /\ m.addr # Null /\ sent' = (sent \ {m}) \union {l}
      /\ UNCHANGED <<brokerVars, tankVars, fishVars, updates>>
  BY DEF ReceiveNameResolution, Reply
<1>2. /\ m.fish \in Swimmers /\ m.to \in AquaTanks /\ m.hop \in Nat
      /\ m.hop <= hops[m.fish] /\ bornIn[m.fish] # Null
      /\ Named(m.fish) => m.addr = Home(m.fish)
      /\ m.hop = hops[m.fish] /\ swims[m.fish] # Null => m.to = swims[m.fish]
  BY <1>1 DEF Consistent, MessageTyped, MessageRight, AboutFish, AboutHome, Taker
<1>3. /\ l.type = "update" /\ l.from = m.to /\ l.to = m.addr
      /\ l.fish = m.fish /\ l.hop = m.hop
  BY DEF LocationUpdate
<1>4. m.addr \in AquaTanks
  BY <1>1 DEF Consistent, MessageTyped
<1> HIDE DEF l
<1>5. Typed' /\ IdsAgree' /\ ReceiverLives'
  BY <1>1 DEF Consistent, Typed, IdsAgree, InCollection, Named, Home, ReceiverLives,
     brokerVars, tankVars, fishVars, updates
<1>6. \A n \in sent' : (MessageTyped(n) /\ MessageRight(n))'
  <2>1. SUFFICES ASSUME NEW n \in sent' PROVE (MessageTyped(n) /\ MessageRight(n))'
    OBVIOUS
  <2>2. CASE n \in sent
    BY <1>1, <2>2 DEF Consistent, MessageTyped, MessageRight, Named, Home,
       brokerVars, fishVars, updates
  <2>3. CASE n = l
    BY <1>1, <1>2, <1>3, <1>4, <2>3 DEF MessageTyped, MessageRight, AboutFish, AboutHome,
       Named, Home, Taker, brokerVars, fishVars, updates
  <2>4. QED
    BY <1>1, <2>2, <2>3
<1>7. HandoffsRight'
  BY <1>1, <1>2, <1>3 DEF Consistent, HandoffsRight, AboutFish, AboutHome, fishVars
<1>8. \A f \in Swimmers : FishRight(f)'
  <2>1. SUFFICES ASSUME NEW f \in Swimmers PROVE FishRight(f)'
    OBVIOUS
  <2>2. Asking(f) => Asking(f)'
    BY <1>1, <1>3 DEF Asking, AboutHome, AboutFish, fishVars
  <2>3. QED
    BY <1>1, <2>2 DEF Consistent, FishRight, Named, Home, brokerVars, tankVars, fishVars,
       updates
<1>9. QED
  BY <1>5, <1>6, <1>7, <1>8 DEF Consistent

(* Only the name of a fish without an id resolves to null.                 *)
LEMMA NameResolutionFailsKeeps ==
  ASSUME NEW m \in sent, Consistent, NameResolutionFails(m)
  PROVE  Consistent'
<1>1. /\ m.type = "resolved" /\ m.addr = Null /\ sent' = sent \ {m}
      /\ receiver' = receiver \ {m.to}
      /\ UNCHANGED <<brokerVars, running, tankId, fishieAddress, departed, fishVars, updates>>
  BY DEF NameResolutionFails, Reply
<1>2. m.fish \in Swimmers /\ bornIn[m.fish] = NamedNull
  <2>1. m.fish \in Swimmers /\ bornIn[m.fish] # Null
    BY <1>1 DEF Consistent, MessageTyped, MessageRight, AboutFish
  <2>2. Named(m.fish) => m.addr = Home(m.fish) /\ Home(m.fish) \in AquaTanks
    BY <1>1, <2>1 DEF Consistent, MessageRight, IdsAgree, Typed, Home
  <2>3. QED
    BY <1>1, <2>1, <2>2 DEF Named
<1>3. Typed' /\ IdsAgree' /\ HandoffsRight'
  BY <1>1 DEF Consistent, Typed, IdsAgree, InCollection, Named, Home, HandoffsRight,
     brokerVars, fishVars, updates
<1>4. \A n \in sent' : (MessageTyped(n) /\ MessageRight(n))'
  BY <1>1 DEF Consistent, MessageTyped, MessageRight, Named, Home, brokerVars, fishVars, updates
<1>5. \A f \in Swimmers : FishRight(f)'
  <2>1. SUFFICES ASSUME NEW f \in Swimmers PROVE FishRight(f)'
    OBVIOUS
  <2>2. Named(f) /\ Asking(f) => Asking(f)'
    BY <1>1, <1>2 DEF Asking, Named, fishVars
  <2>3. QED
    BY <1>1, <2>2 DEF Consistent, FishRight, Named, Home, brokerVars, fishVars, updates
<1>6. ReceiverLives'
  BY <1>1, <1>2 DEF ReceiverLives, fishVars
<1>7. QED
  BY <1>3, <1>4, <1>5, <1>6 DEF Consistent

(* An update of the last hop names the tank the fish swims in; an older    *)
(* one, read after it, is an overtaken one.                                *)
LEMMA UpdateFishieLocationKeeps ==
  ASSUME NEW m \in sent, Consistent, UpdateFishieLocation(m)
  PROVE  Consistent'
<1> DEFINE f == m.fish
<1>1. /\ m.type = "update" /\ sent' = sent \ {m}
      /\ fishieAddress' = [fishieAddress EXCEPT ![m.to][f] = m.from]
      /\ newest' = [newest EXCEPT ![f] = IF m.hop > @ THEN m.hop ELSE @]
      /\ overtaken' = IF m.hop < newest[f] THEN overtaken \union {f} ELSE overtaken \ {f}
      /\ UNCHANGED <<brokerVars, running, receiver, tankId, departed, fishVars>>
  BY DEF UpdateFishieLocation, Reply
<1>2. /\ f \in Swimmers /\ m.to \in AquaTanks /\ m.from \in AquaTanks /\ m.hop \in Nat
      /\ m.hop <= hops[f] /\ (Named(f) => m.to = Home(f))
      /\ m.hop = hops[f] /\ swims[f] # Null => m.from = swims[f]
  BY <1>1 DEF Consistent, MessageTyped, MessageRight, AboutFish, AboutHome, Taker
<1>3. hops[f] \in Nat /\ newest[f] \in Nat /\ newest[f] <= hops[f]
  BY <1>2 DEF Consistent, Typed, FishRight
<1> HIDE DEF f
<1>4. /\ newest'[f] = IF m.hop > newest[f] THEN m.hop ELSE newest[f]
      /\ fishieAddress'[m.to][f] = m.from
      /\ \A g \in Swimmers \ {f} : /\ newest'[g] = newest[g]
                                   /\ \A u \in AquaTanks : fishieAddress'[u][g] = fishieAddress[u][g]
  BY <1>1, <1>2 DEF Consistent, Typed
<1>5. Typed'
  <2>1. newest' \in [Swimmers -> Nat]
    BY <1>1, <1>2 DEF Consistent, Typed
  <2>2. fishieAddress' \in [AquaTanks -> [Swimmers -> AquaTanks \union {Null}]]
    BY <1>1, <1>2 DEF Consistent, Typed
  <2>3. QED
    BY <1>1, <2>1, <2>2 DEF Consistent, Typed, brokerVars, fishVars
<1>6. IdsAgree' /\ HandoffsRight' /\ ReceiverLives'
  BY <1>1 DEF Consistent, IdsAgree, InCollection, Named, Home, HandoffsRight, ReceiverLives,
     brokerVars, fishVars
<1>7. \A g \in Swimmers : (Named(g)' <=> Named(g)) /\ Home(g)' = Home(g)
  BY <1>1 DEF Named, Home, brokerVars, fishVars
\* while the fish is handed over, an update is of an earlier hop
<1>8. \A n \in sent : n.type = "handoff" /\ n.fish = f => m.hop < hops[f]
  BY <1>1 DEF Consistent, HandoffsRight, AboutFish, AboutHome, f
<1>9. \A n \in sent' : (MessageTyped(n) /\ MessageRight(n))'
  <2>1. SUFFICES ASSUME NEW n \in sent, n # m PROVE (MessageTyped(n) /\ MessageRight(n))'
    BY <1>1
  <2>2. MessageTyped(n) /\ MessageRight(n) /\ MessageTyped(n)'
    BY DEF Consistent, MessageTyped
  <2>3. n.type = "handoff" => newest'[n.fish] < hops'[n.fish]
    BY <1>1, <1>2, <1>3, <1>4, <1>8, <2>2 DEF MessageTyped, MessageRight, AboutFish, fishVars
  <2>4. QED
    BY <1>1, <1>7, <2>2, <2>3 DEF MessageTyped, MessageRight, AboutFish, AboutHome, Taker,
       brokerVars, fishVars
<1>10. \A g \in Swimmers : FishRight(g)'
  <2>1. SUFFICES ASSUME NEW g \in Swimmers PROVE FishRight(g)'
    OBVIOUS
  <2>2. CASE g = f
    <3>1. Asking(f) => Asking(f)' \/ newest'[f] = hops[f]
      BY <1>1, <1>2, <1>3, <1>4 DEF Asking, fishVars
    <3>2. /\ newest'[f] <= hops[f]
          /\ newest[f] = hops[f] => newest'[f] = hops[f]
          /\ newest'[f] = hops[f] /\ f \notin overtaken' => m.hop = hops[f]
      BY <1>1, <1>2, <1>3, <1>4
    <3>3. QED
      BY <1>1, <1>2, <1>4, <1>7, <2>2, <3>1, <3>2 DEF Consistent, FishRight, fishVars
  <2>3. CASE g # f
    <3>1. Asking(g) => Asking(g)'
      BY <1>1, <2>3 DEF Asking, fishVars, f
    <3>2. Named(g) => Home(g) \in AquaTanks
      BY DEF Consistent, IdsAgree, Typed, Home
    <3>3. QED
      BY <1>1, <1>4, <1>7, <2>3, <3>1, <3>2 DEF Consistent, FishRight, fishVars
  <2>4. QED
    BY <2>2, <2>3
<1>11. QED
  BY <1>5, <1>6, <1>9, <1>10 DEF Consistent

LEMMA NextKeeps == IInv /\ [LocNext]_locVars => IInv'
<1> SUFFICES ASSUME IInv, [LocNext]_locVars, departed' = {} PROVE Consistent'
  BY DEF IInv
<1>1. departed = {}
  BY DEF LocNext, locVars, RegisterTank, Leave, CreateFish, PassFish, Handled, DeregisterTank,
     ResoluteName, OnRegistered, TakeFish, ReceiveNameResolution, NameResolutionFails,
     UpdateFishieLocation, tankVars
<1>2. Consistent
  BY <1>1 DEF IInv
<1>3. ASSUME NEW t \in AquaTanks, RegisterTank(t) PROVE Consistent'
  BY <1>2, <1>3, RegisterTankKeeps
<1>4. ASSUME NEW t \in AquaTanks PROVE ~Leave(t)
  BY <1>1 DEF Leave
<1>5. ASSUME NEW t \in AquaTanks, NEW f \in Swimmers, CreateFish(t, f) PROVE Consistent'
  BY <1>2, <1>5, CreateFishKeeps
<1>6. ASSUME NEW t \in AquaTanks, NEW f \in Swimmers, NEW u \in AquaTanks, PassFish(t, f, u)
      PROVE  Consistent'
  BY <1>2, <1>6, PassFishKeeps
<1>7. ASSUME NEW m \in sent, Handled(m) PROVE Consistent'
  <2>1. ~DeregisterTank(m)
    BY <1>2 DEF Consistent, MessageTyped, AboutFish, DeregisterTank
  <2>2. CASE ResoluteName(m)
    BY <1>2, <2>2, ResoluteNameKeeps
  <2>3. CASE OnRegistered(m)
    BY <1>2, <2>3, OnRegisteredKeeps
  <2>4. CASE TakeFish(m)
    BY <1>2, <2>4, TakeFishKeeps
  <2>5. CASE ReceiveNameResolution(m)
    BY <1>2, <2>5, ReceiveNameResolutionKeeps
  <2>6. CASE NameResolutionFails(m)
    BY <1>2, <2>6, NameResolutionFailsKeeps
  <2>7. CASE UpdateFishieLocation(m)
    BY <1>2, <2>7, UpdateFishieLocationKeeps
  <2>8. QED
    BY <1>7, <2>1, <2>2, <2>3, <2>4, <2>5, <2>6, <2>7 DEF Handled
<1>8. CASE UNCHANGED locVars
  <2>1. Typed' /\ IdsAgree' /\ HandoffsRight' /\ ReceiverLives'
    BY <1>2, <1>8 DEF Consistent, Typed, IdsAgree, InCollection, Named, Home, HandoffsRight,
       ReceiverLives, locVars
  <2>2. \A m \in sent' : (MessageTyped(m) /\ MessageRight(m))'
    BY <1>2, <1>8 DEF Consistent, MessageTyped, MessageRight, Named, Home, locVars
  <2>3. \A f \in Swimmers : FishRight(f)'
    BY <1>2, <1>8 DEF Consistent, FishRight, Asking, Named, Home, locVars
  <2>4. QED
    BY <2>1, <2>2, <2>3 DEF Consistent
<1>9. QED
  BY <1>3, <1>4, <1>5, <1>6, <1>7, <1>8 DEF LocNext

(* In a consistent state without a message on its way, a fish that swims   *)
(* abroad has told its home of its last hop.                               *)
LEMMA ConsistentIsRight == IInv => LocationRight
<1>1. IInv => ReceiverLives
  BY DEF IInv, Consistent, ReceiverLives
<1>2. ASSUME IInv, departed = {}, NEW f \in Swimmers, swims[f] # Null, bornIn[f] # NamedNull,
             Quiet(f), f \notin overtaken
      PROVE  swims[f] = HomeOf(f) \/ fishieAddress[HomeOf(f)][f] = swims[f]
  <2>1. Consistent /\ FishRight(f)
    BY <1>2 DEF IInv, Consistent
  <2>2. Named(f)
    BY <1>2, <2>1 DEF FishRight, Named
  <2>3. ~Asking(f)
    BY <1>2 DEF Quiet, Asking, AboutHome, AboutFish
  <2>4. /\ Home(f) \in AquaTanks /\ tankId[Home(f)] = bornIn[f]
        /\ \A t \in AquaTanks : tankId[t] = bornIn[f] => t = Home(f)
    <3>1. bornIn[f] \in DOMAIN nameService /\ tankId[Home(f)] = bornIn[f]
      BY <2>1, <2>2 DEF Consistent, IdsAgree
    <3>2. Home(f) \in AquaTanks
      BY <2>1, <3>1 DEF Consistent, Typed, Home
    <3>3. \A t \in AquaTanks : tankId[t] = bornIn[f] => nameService[bornIn[f]] = t
      BY <2>1, <2>2 DEF Consistent, IdsAgree, Named
    <3>4. QED
      BY <3>1, <3>2, <3>3 DEF Home
  <2>5. HomeOf(f) = Home(f)
    BY <2>4 DEF HomeOf
  <2>6. QED
    BY <1>2, <2>1, <2>2, <2>3, <2>5 DEF FishRight
<1>3. IInv => HomeKnows
  BY <1>2 DEF HomeKnows
<1>4. QED
  BY <1>1, <1>3 DEF LocationRight

(* For any tanks, fish and number of hand-overs: as long as no tank leaves *)
(* the home of a fish whose updates were not overtaken knows where it      *)
(* swims once they are read, and a receiver ends only because of a fish    *)
(* that was created without an id.                                         *)
THEOREM LocationRightHolds == LocSpec => []LocationRight
<1>1. LocInit => IInv
  BY InitiallyConsistent DEF IInv
<1>2. IInv /\ [LocNext]_locVars => IInv'
  BY NextKeeps
<1>3. IInv => LocationRight
  BY ConsistentIsRight
<1>4. QED
  BY <1>1, <1>2, <1>3, PTL DEF LocSpec
=============================================================================
