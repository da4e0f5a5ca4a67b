----------------------- MODULE SecureEndpoint_proofs -----------------------
(***************************************************************************)
(* KeyFollows, and the channel that SecureEndpoint implements, for any     *)
(* number of endpoints, threads, payloads and losses.                      *)
(***************************************************************************)
EXTENDS SecureEndpoint, SequenceTheorems, FiniteSetTheorems, TLAPS

IInv == TypeOK /\ KeyFollows

\* What the queue of a pair holds after a datagram is sent or taken.
LEMMA QueueStep ==
  ASSUME NEW q \in Seq(Datagrams)
  PROVE  /\ Len(q) \in Nat
         /\ \A d \in Datagrams :
              /\ Append(q, d) \in Seq(Datagrams)
              /\ \A i \in 1 .. Len(q) : i \in 1 .. Len(Append(q, d)) /\ Append(q, d)[i] = q[i]
              /\ Len(q) + 1 \in 1 .. Len(Append(q, d)) /\ Append(q, d)[Len(q) + 1] = d
              /\ \A i \in 1 .. Len(Append(q, d)) : i \in 1 .. Len(q) \/ Append(q, d)[i] = d
         /\ q # << >> =>
              /\ Tail(q) \in Seq(Datagrams)
              /\ Head(q) \in Datagrams
              /\ \A i \in 1 .. Len(Tail(q)) : i + 1 \in 1 .. Len(q) /\ Tail(q)[i] = q[i + 1]
              /\ \A i \in 1 .. Len(q) : q[i] # Head(q) => i - 1 \in 1 .. Len(Tail(q)) /\ Tail(q)[i - 1] = q[i]
<1>1. Len(q) \in Nat
  BY LenProperties
<1>2. ASSUME NEW d \in Datagrams
      PROVE  /\ Append(q, d) \in Seq(Datagrams)
             /\ \A i \in 1 .. Len(q) : i \in 1 .. Len(Append(q, d)) /\ Append(q, d)[i] = q[i]
             /\ Len(q) + 1 \in 1 .. Len(Append(q, d)) /\ Append(q, d)[Len(q) + 1] = d
             /\ \A i \in 1 .. Len(Append(q, d)) : i \in 1 .. Len(q) \/ Append(q, d)[i] = d
  BY <1>1, AppendProperties
<1>3. ASSUME q # << >>
      PROVE  /\ Tail(q) \in Seq(Datagrams)
             /\ Head(q) \in Datagrams
             /\ \A i \in 1 .. Len(Tail(q)) : i + 1 \in 1 .. Len(q) /\ Tail(q)[i] = q[i + 1]
             /\ \A i \in 1 .. Len(q) : q[i] # Head(q) => i - 1 \in 1 .. Len(Tail(q)) /\ Tail(q)[i - 1] = q[i]
  <2>1. /\ Tail(q) \in Seq(Datagrams) /\ Head(q) \in Datagrams /\ Len(Tail(q)) = Len(q) - 1
        /\ \A i \in 1 .. Len(Tail(q)) : Tail(q)[i] = q[i + 1]
    BY <1>3, HeadTailProperties
  <2>2. Head(q) = q[1]
    BY <1>3
  <2>. QED  BY <1>1, <2>1, <2>2
<1>. QED  BY <1>1, <1>2, <1>3

\* Sending a datagram: what is in transit stays, and the datagram is added.
LEMMA AfterSend ==
  ASSUME TypeOK, NEW s \in Endpoints, NEW r \in Endpoints, NEW d \in Datagrams,
         net' = [net EXCEPT ![<<s, r>>] = Append(@, d)]
  PROVE  /\ net' \in [Pairs -> Seq(Datagrams)]
         /\ \A x, y \in Endpoints : KeyInTransit(x, y) => KeyInTransit(x, y)'
         /\ \A x, y \in Endpoints : SealedInTransit(x, y)' =>
              SealedInTransit(x, y) \/ (x = s /\ y = r /\ d # KeyMsg)
         /\ d = KeyMsg => KeyInTransit(s, r)'
<1>1. <<s, r>> \in Pairs /\ net[<<s, r>>] \in Seq(Datagrams)
  BY DEF TypeOK, Pairs
<1>2. /\ net' \in [Pairs -> Seq(Datagrams)]
      /\ net'[<<s, r>>] = Append(net[<<s, r>>], d)
      /\ \A x, y \in Endpoints : x # s \/ y # r => net'[<<x, y>>] = net[<<x, y>>]
  BY <1>1, QueueStep DEF TypeOK, Pairs
<1>3. ASSUME NEW x \in Endpoints, NEW y \in Endpoints, KeyInTransit(x, y)
      PROVE  KeyInTransit(x, y)'
  <2>1. CASE x = s /\ y = r
    BY <1>1, <1>2, <1>3, <2>1, QueueStep DEF KeyInTransit
  <2>2. CASE ~(x = s /\ y = r)
    BY <1>2, <1>3, <2>2 DEF KeyInTransit
  <2>. QED  BY <2>1, <2>2
<1>4. ASSUME NEW x \in Endpoints, NEW y \in Endpoints, SealedInTransit(x, y)',
             ~(x = s /\ y = r /\ d # KeyMsg)
      PROVE  SealedInTransit(x, y)
  <2>1. CASE x = s /\ y = r
    BY <1>1, <1>2, <1>4, <2>1, QueueStep DEF SealedInTransit
  <2>2. CASE ~(x = s /\ y = r)
    BY <1>2, <1>4, <2>2 DEF SealedInTransit
  <2>. QED  BY <2>1, <2>2
<1>5. d = KeyMsg => KeyInTransit(s, r)'
  BY <1>1, <1>2, QueueStep DEF KeyInTransit
<1>. QED  BY <1>2, <1>3, <1>4, <1>5

\* Sending a key adds no sealed payload.
LEMMA AfterSendKey ==
  ASSUME TypeOK, NEW s \in Endpoints, NEW r \in Endpoints,
         net' = [net EXCEPT ![<<s, r>>] = Append(@, KeyMsg)]
  PROVE  /\ net' \in [Pairs -> Seq(Datagrams)]
         /\ \A x, y \in Endpoints : KeyInTransit(x, y) => KeyInTransit(x, y)'
         /\ \A x, y \in Endpoints : SealedInTransit(x, y)' => SealedInTransit(x, y)
         /\ \A x, y \in Endpoints : x = s /\ y = r => KeyInTransit(x, y)'
<1>. DEFINE d == KeyMsg
<1>1. d \in Datagrams
  BY DEF Datagrams
<1>2. net' = [net EXCEPT ![<<s, r>>] = Append(@, d)] /\ d = KeyMsg
  OBVIOUS
<1>. HIDE DEF d
<1>3. /\ net' \in [Pairs -> Seq(Datagrams)]
      /\ \A x, y \in Endpoints : KeyInTransit(x, y) => KeyInTransit(x, y)'
      /\ \A x, y \in Endpoints : SealedInTransit(x, y)' =>
           SealedInTransit(x, y) \/ (x = s /\ y = r /\ d # KeyMsg)
      /\ d = KeyMsg => KeyInTransit(s, r)'
  BY <1>1, <1>2, AfterSend
<1>. QED  BY <1>2, <1>3

\* Taking a datagram: nothing is added, and keys stay unless the key is what was taken.
LEMMA AfterTake ==
  ASSUME TypeOK, NEW s \in Endpoints, NEW r \in Endpoints, net[<<s, r>>] # << >>,
         net' = [net EXCEPT ![<<s, r>>] = Tail(@)]
  PROVE  /\ net' \in [Pairs -> Seq(Datagrams)]
         /\ Head(net[<<s, r>>]) \in Datagrams
         /\ \A x, y \in Endpoints : SealedInTransit(x, y)' => SealedInTransit(x, y)
         /\ \A x, y \in Endpoints : KeyInTransit(x, y) =>
              KeyInTransit(x, y)' \/ (x = s /\ y = r /\ Head(net[<<s, r>>]) = KeyMsg)
<1>1. <<s, r>> \in Pairs /\ net[<<s, r>>] \in Seq(Datagrams)
  BY DEF TypeOK, Pairs
<1>2. /\ net' \in [Pairs -> Seq(Datagrams)]
      /\ net'[<<s, r>>] = Tail(net[<<s, r>>])
      /\ \A x, y \in Endpoints : x # s \/ y # r => net'[<<x, y>>] = net[<<x, y>>]
  BY <1>1, QueueStep DEF TypeOK, Pairs
<1>3. ASSUME NEW x \in Endpoints, NEW y \in Endpoints, SealedInTransit(x, y)'
      PROVE  SealedInTransit(x, y)
  <2>1. CASE x = s /\ y = r
    BY <1>1, <1>2, <1>3, <2>1, QueueStep DEF SealedInTransit
  <2>2. CASE ~(x = s /\ y = r)
    BY <1>2, <1>3, <2>2 DEF SealedInTransit
  <2>. QED  BY <2>1, <2>2
<1>4. ASSUME NEW x \in Endpoints, NEW y \in Endpoints, KeyInTransit(x, y),
             ~(x = s /\ y = r /\ Head(net[<<s, r>>]) = KeyMsg)
      PROVE  KeyInTransit(x, y)'
  <2>1. CASE x = s /\ y = r
    <3>1. PICK i \in 1 .. Len(net[<<s, r>>]) : net[<<s, r>>][i] = KeyMsg
      BY <1>4, <2>1 DEF KeyInTransit
    <3>2. net[<<s, r>>][i] # Head(net[<<s, r>>])
      BY <1>4, <2>1, <3>1
    <3>3. i - 1 \in 1 .. Len(Tail(net[<<s, r>>])) /\ Tail(net[<<s, r>>])[i - 1] = KeyMsg
      BY <1>1, <3>1, <3>2, QueueStep
    <3>4. \E j \in 1 .. Len(net'[<<x, y>>]) : net'[<<x, y>>][j] = KeyMsg
      BY <1>2, <2>1, <3>3
    <3>. QED  BY <3>4 DEF KeyInTransit, KeyMsg
  <2>2. CASE ~(x = s /\ y = r)
    BY <1>2, <1>4, <2>2 DEF KeyInTransit
  <2>. QED  BY <2>1, <2>2
<1>. QED  BY <1>1, <1>2, <1>3, <1>4, QueueStep

\* A sending thread is idle, or has a receiver and a payload.
LEMMA ThreadType ==
  ASSUME TypeOK, NEW t \in Threads
  PROVE  /\ t[1] \in Endpoints /\ t[2] \in Senders /\ t = <<t[1], t[2]>>
         /\ sending[t].stage \in {"key", "sealed"} =>
              /\ sending[t] \in Busy
              /\ sending[t].to \in Endpoints
              /\ sending[t].payload \in Payloads
              /\ Sealed(sending[t].payload) \in Datagrams
              /\ Sealed(sending[t].payload) # KeyMsg
<1>1. t[1] \in Endpoints /\ t[2] \in Senders /\ t = <<t[1], t[2]>>
  BY DEF Threads
<1>2. ASSUME sending[t].stage \in {"key", "sealed"}
      PROVE  sending[t] \in Busy
  BY <1>2 DEF TypeOK, Idle
<1>3. ASSUME sending[t] \in Busy
      PROVE  /\ sending[t].to \in Endpoints
             /\ sending[t].payload \in Payloads
             /\ Sealed(sending[t].payload) \in Datagrams
             /\ Sealed(sending[t].payload) # KeyMsg
  BY <1>3 DEF Busy, Datagrams, Sealed, KeyMsg
<1>. QED  BY <1>1, <1>2, <1>3

\* The two kinds of datagram.
LEMMA Kinds ==
  /\ KeyMsg \in Datagrams
  /\ \A d \in Datagrams : d.kind = "key" => d = KeyMsg
  /\ \A d \in Datagrams : d.kind = "sealed" => d # KeyMsg
  /\ \A d \in Datagrams : d.kind = "sealed" => d.payload \in Payloads
  BY DEF Datagrams, KeyMsg, Sealed

\* Looking a receiver up: a payload sent without the key goes to a partner.
LEMMA LookupKeeps ==
  ASSUME IInv, NEW t \in Threads, NEW to \in Endpoints, NEW x \in Payloads,
         SendLookup(t, to, x)
  PROVE  IInv'
<1>1. TypeOK'
  BY ThreadType DEF IInv, TypeOK, SendLookup, Busy
<1>2. ASSUME NEW s \in Endpoints, NEW r \in Endpoints, SealsFor(s, r)'
      PROVE  SealsFor(s, r) \/ r \in known[s]
  <2>1. PICK a \in Senders : sending'[<<s, a>>].stage = "sealed" /\ sending'[<<s, a>>].to = r
    BY <1>2 DEF SealsFor
  <2>2. <<s, a>> \in Threads
    BY DEF Threads
  <2>3. CASE <<s, a>> = t
    BY <2>1, <2>2, <2>3 DEF SendLookup, IInv, TypeOK
  <2>4. CASE <<s, a>> # t
    BY <2>1, <2>2, <2>4 DEF SendLookup, IInv, TypeOK, SealsFor
  <2>. QED  BY <2>3, <2>4
<1>3. KeyFollows'
  BY <1>2 DEF IInv, KeyFollows, SendLookup, KeyInTransit, SealedInTransit
<1>. QED  BY <1>1, <1>3 DEF IInv

\* Sending the key puts it in transit before the thread seals a payload.
LEMMA SendKeyKeeps ==
  ASSUME IInv, NEW t \in Threads, SendKey(t)
  PROVE  IInv'
<1>. DEFINE to == sending[t].to
<1>1. t[1] \in Endpoints /\ to \in Endpoints /\ sending[t] \in Busy
  BY ThreadType DEF IInv, SendKey
<1>2. net' = [net EXCEPT ![<<t[1], to>>] = Append(@, KeyMsg)]
  BY DEF SendKey
<1>. HIDE DEF to
<1>3. /\ net' \in [Pairs -> Seq(Datagrams)]
      /\ \A x, y \in Endpoints : KeyInTransit(x, y) => KeyInTransit(x, y)'
      /\ \A x, y \in Endpoints : SealedInTransit(x, y)' => SealedInTransit(x, y)
      /\ \A x, y \in Endpoints : x = t[1] /\ y = to => KeyInTransit(x, y)'
  BY <1>1, <1>2, AfterSendKey DEF IInv
<1>4. TypeOK'
  <2>1. sending' \in [Threads -> Busy \cup {Idle}]
    BY <1>1 DEF IInv, TypeOK, SendKey, Busy
  <2>. QED  BY <1>3, <2>1 DEF IInv, TypeOK, SendKey
<1>5. ASSUME NEW s \in Endpoints, NEW r \in Endpoints, SealsFor(s, r)'
      PROVE  SealsFor(s, r) \/ (s = t[1] /\ r = to)
  <2>1. PICK a \in Senders : sending'[<<s, a>>].stage = "sealed" /\ sending'[<<s, a>>].to = r
    BY <1>5 DEF SealsFor
  <2>2. <<s, a>> \in Threads
    BY DEF Threads
  <2>3. CASE <<s, a>> = t
    BY <1>1, <2>1, <2>2, <2>3 DEF SendKey, IInv, TypeOK, to, Busy
  <2>4. CASE <<s, a>> # t
    BY <2>1, <2>2, <2>4 DEF SendKey, IInv, TypeOK, SealsFor
  <2>. QED  BY <2>3, <2>4
<1>6. KeyFollows'
  <2>. SUFFICES ASSUME lost = 0, NEW x \in Endpoints, NEW y \in Endpoints,
                       y \in known[x] \/ SealedInTransit(x, y)' \/ SealsFor(x, y)'
                PROVE  x \in known[y] \/ KeyInTransit(x, y)' \/ replying[x] = y
    BY DEF KeyFollows, SendKey
  <2>1. CASE x = t[1] /\ y = to
    BY <1>3, <2>1
  <2>2. CASE ~(x = t[1] /\ y = to)
    BY <1>3, <1>5, <2>2 DEF IInv, KeyFollows
  <2>. QED  BY <2>1, <2>2
<1>. QED  BY <1>4, <1>6 DEF IInv

\* A payload in transit had its thread sealing it one step before.
LEMMA SendSealedKeeps ==
  ASSUME IInv, NEW t \in Threads, SendSealed(t)
  PROVE  IInv'
<1>. DEFINE to == sending[t].to
            d == Sealed(sending[t].payload)
<1>1. t[1] \in Endpoints /\ t[2] \in Senders /\ t = <<t[1], t[2]>> /\ to \in Endpoints /\ d \in Datagrams
  BY ThreadType DEF IInv, SendSealed
<1>2. net' = [net EXCEPT ![<<t[1], to>>] = Append(@, d)]
  BY DEF SendSealed
<1>3. SealsFor(t[1], to)
  BY <1>1 DEF SealsFor, SendSealed
<1>. HIDE DEF to, d
<1>4. /\ net' \in [Pairs -> Seq(Datagrams)]
      /\ \A x, y \in Endpoints : KeyInTransit(x, y) => KeyInTransit(x, y)'
      /\ \A x, y \in Endpoints : SealedInTransit(x, y)' =>
           SealedInTransit(x, y) \/ (x = t[1] /\ y = to)
  BY <1>1, <1>2, AfterSend DEF IInv
<1>5. TypeOK'
  BY <1>4 DEF IInv, TypeOK, SendSealed
<1>6. ASSUME NEW s \in Endpoints, NEW r \in Endpoints, SealsFor(s, r)'
      PROVE  SealsFor(s, r)
  <2>1. PICK a \in Senders : sending'[<<s, a>>].stage = "sealed" /\ sending'[<<s, a>>].to = r
    BY <1>6 DEF SealsFor
  <2>2. <<s, a>> \in Threads
    BY DEF Threads
  <2>3. <<s, a>> # t
    BY <2>1, <2>2 DEF SendSealed, IInv, TypeOK, Idle
  <2>. QED  BY <2>1, <2>2, <2>3 DEF SendSealed, IInv, TypeOK, SealsFor
<1>7. KeyFollows'
  BY <1>3, <1>4, <1>6 DEF IInv, KeyFollows, SendSealed
<1>. QED  BY <1>5, <1>7 DEF IInv

\* Taking a datagram from the network, and what the receiving thread may do with it.
LEMMA ReceiveKeeps ==
  ASSUME IInv, NEW s \in Endpoints, NEW e \in Endpoints,
         ReceiveNewKey(s, e) \/ ReceiveOldKey(s, e) \/ ReceiveSealed(s, e) \/ ReceiveFromStranger(s, e)
  PROVE  IInv'
<1>1. /\ replying[e] = Nobody
      /\ net[<<s, e>>] # << >>
      /\ net' = [net EXCEPT ![<<s, e>>] = Tail(@)]
      /\ sending' = sending /\ lost' = lost /\ sends' = sends
  BY DEF ReceiveNewKey, ReceiveOldKey, ReceiveSealed, ReceiveFromStranger, Arrives
<1>2. /\ net' \in [Pairs -> Seq(Datagrams)]
      /\ Head(net[<<s, e>>]) \in Datagrams
      /\ \A x, y \in Endpoints : SealedInTransit(x, y)' => SealedInTransit(x, y)
      /\ \A x, y \in Endpoints : KeyInTransit(x, y) =>
           KeyInTransit(x, y)' \/ (x = s /\ y = e /\ Head(net[<<s, e>>]) = KeyMsg)
  BY <1>1, AfterTake DEF IInv
<1>3. TypeOK'
  <2>1. known' \in [Endpoints -> SUBSET Endpoints] /\ replying' \in [Endpoints -> Endpoints \cup {Nobody}]
    <3>1. CASE ReceiveNewKey(s, e)
      BY <3>1 DEF IInv, TypeOK, ReceiveNewKey
    <3>2. CASE ReceiveOldKey(s, e)
      BY <3>2 DEF IInv, TypeOK, ReceiveOldKey
    <3>3. CASE ReceiveSealed(s, e)
      BY <3>3 DEF IInv, TypeOK, ReceiveSealed
    <3>4. CASE ReceiveFromStranger(s, e)
      BY <3>4 DEF IInv, TypeOK, ReceiveFromStranger
    <3>. QED  BY <3>1, <3>2, <3>3, <3>4
  <2>2. delivered' \in [Pairs -> Seq(Payloads)]
    <3>1. CASE ReceiveSealed(s, e)
      <4>1. Head(net[<<s, e>>]).payload \in Payloads
        BY <1>2, <3>1, Kinds DEF ReceiveSealed, Arrives
      <4>2. <<s, e>> \in Pairs /\ delivered[<<s, e>>] \in Seq(Payloads)
        BY DEF Pairs, IInv, TypeOK
      <4>3. Append(delivered[<<s, e>>], Head(net[<<s, e>>]).payload) \in Seq(Payloads)
        BY <4>1, <4>2, AppendProperties
      <4>. QED  BY <3>1, <4>2, <4>3 DEF IInv, TypeOK, ReceiveSealed
    <3>2. CASE ~ReceiveSealed(s, e)
      BY <3>2 DEF IInv, TypeOK, ReceiveNewKey, ReceiveOldKey, ReceiveFromStranger
    <3>. QED  BY <3>1, <3>2
  <2>. QED  BY <1>1, <1>2, <2>1, <2>2 DEF IInv, TypeOK
<1>4. /\ \A x, y \in Endpoints : x \in known[y] => x \in known'[y]
      /\ \A x, y \in Endpoints : y \in known'[x] => y \in known[x] \/ (x = e /\ y = s /\ replying'[e] = s)
      /\ \A x, y \in Endpoints : replying[x] = y => replying'[x] = y
      /\ Head(net[<<s, e>>]) = KeyMsg => s \in known'[e]
  <2>1. CASE ReceiveNewKey(s, e)
    BY <1>1, <2>1, SecureAssumption DEF IInv, TypeOK, ReceiveNewKey
  <2>2. CASE ReceiveOldKey(s, e)
    BY <1>1, <2>2 DEF IInv, TypeOK, ReceiveOldKey
  <2>3. CASE ReceiveSealed(s, e)
    BY <1>1, <1>2, <2>3, Kinds DEF IInv, TypeOK, ReceiveSealed, Arrives
  <2>4. CASE ReceiveFromStranger(s, e)
    BY <1>1, <1>2, <2>4, Kinds, SecureAssumption DEF IInv, TypeOK, ReceiveFromStranger, Arrives
  <2>. QED  BY <2>1, <2>2, <2>3, <2>4
<1>5. \A x, y \in Endpoints : SealsFor(x, y)' = SealsFor(x, y)
  BY <1>1 DEF SealsFor
<1>6. KeyFollows'
  <2>. SUFFICES ASSUME lost = 0, NEW x \in Endpoints, NEW y \in Endpoints,
                       y \in known'[x] \/ SealedInTransit(x, y)' \/ SealsFor(x, y)'
                PROVE  x \in known'[y] \/ KeyInTransit(x, y)' \/ replying'[x] = y
    BY <1>1 DEF KeyFollows
  <2>1. CASE x = e /\ y = s /\ replying'[e] = s
    BY <2>1
  <2>2. CASE ~(x = e /\ y = s /\ replying'[e] = s)
    <3>1. x \in known[y] \/ KeyInTransit(x, y) \/ replying[x] = y
      BY <1>2, <1>4, <1>5, <2>2 DEF IInv, KeyFollows
    <3>. QED  BY <1>2, <1>4, <3>1
  <2>. QED  BY <2>1, <2>2
<1>. QED  BY <1>3, <1>6 DEF IInv

\* The receiving thread's key is in transit once it has replied.
LEMMA ReplyKeeps ==
  ASSUME IInv, NEW e \in Endpoints, ReplyKey(e)
  PROVE  IInv'
<1>. DEFINE to == replying[e]
<1>1. to \in Endpoints
  BY DEF IInv, TypeOK, ReplyKey
<1>2. net' = [net EXCEPT ![<<e, to>>] = Append(@, KeyMsg)]
  BY DEF ReplyKey
<1>3. \A x, y \in Endpoints : replying[x] = y => replying'[x] = y \/ (x = e /\ y = to)
  BY DEF ReplyKey, IInv, TypeOK
<1>. HIDE DEF to
<1>4. /\ net' \in [Pairs -> Seq(Datagrams)]
      /\ \A x, y \in Endpoints : KeyInTransit(x, y) => KeyInTransit(x, y)'
      /\ \A x, y \in Endpoints : SealedInTransit(x, y)' => SealedInTransit(x, y)
      /\ \A x, y \in Endpoints : x = e /\ y = to => KeyInTransit(x, y)'
  BY <1>1, <1>2, AfterSendKey DEF IInv
<1>5. TypeOK'
  BY <1>4 DEF IInv, TypeOK, ReplyKey
<1>6. \A x, y \in Endpoints : SealsFor(x, y)' = SealsFor(x, y)
  BY DEF SealsFor, ReplyKey
<1>7. KeyFollows'
  <2>. SUFFICES ASSUME lost = 0, NEW x \in Endpoints, NEW y \in Endpoints,
                       y \in known[x] \/ SealedInTransit(x, y)' \/ SealsFor(x, y)'
                PROVE  x \in known[y] \/ KeyInTransit(x, y)' \/ replying'[x] = y
    BY DEF KeyFollows, ReplyKey
  <2>1. CASE x = e /\ y = to
    BY <1>4, <2>1
  <2>2. CASE ~(x = e /\ y = to)
    BY <1>3, <1>4, <1>6, <2>2 DEF IInv, KeyFollows
  <2>. QED  BY <2>1, <2>2
<1>. QED  BY <1>5, <1>7 DEF IInv

\* A loss makes the premise of KeyFollows false for ever.
LEMMA LoseKeeps ==
  ASSUME IInv, NEW s \in Endpoints, NEW e \in Endpoints, Lose(s, e)
  PROVE  IInv'
<1>1. net' \in [Pairs -> Seq(Datagrams)]
  BY AfterTake DEF IInv, Lose
<1>2. TypeOK'
  BY <1>1 DEF IInv, TypeOK, Lose
<1>3. KeyFollows'
  BY DEF IInv, TypeOK, KeyFollows, Lose
<1>. QED  BY <1>2, <1>3 DEF IInv

\* A stuttering step.
LEMMA StutterKeeps == ASSUME IInv, UNCHANGED vars PROVE IInv'
  BY DEF IInv, TypeOK, KeyFollows, KeyInTransit, SealedInTransit, SealsFor, vars

(* The key of a sender is known, in transit or about to be sent wherever a   *)
(* payload of that sender goes, however send and handleMessage interleave.   *)
THEOREM KeyFollowsHolds == Safe => [](TypeOK /\ KeyFollows)
<1>1. Init => IInv
  <2>. SUFFICES ASSUME Init PROVE IInv
    OBVIOUS
  <2>1. TypeOK
    BY EmptySeq DEF Init, TypeOK
  <2>2. KeyFollows
    <3>. SUFFICES ASSUME NEW s \in Endpoints, NEW r \in Endpoints
                  PROVE  ~(r \in known[s] \/ SealedInTransit(s, r) \/ SealsFor(s, r))
      BY DEF KeyFollows
    <3>1. r \notin known[s]
      BY DEF Init
    <3>2. net[<<s, r>>] = << >> /\ Len(net[<<s, r>>]) = 0
      BY DEF Init, Pairs
    <3>3. ~SealedInTransit(s, r)
      BY <3>2 DEF SealedInTransit
    <3>4. \A a \in Senders : sending[<<s, a>>].stage = "idle"
      BY DEF Init, Threads, Idle
    <3>5. ~SealsFor(s, r)
      BY <3>4 DEF SealsFor
    <3>. QED  BY <3>1, <3>3, <3>5
  <2>. QED  BY <2>1, <2>2 DEF IInv
<1>2. IInv /\ [Next]_vars => IInv'
  BY LookupKeeps, SendKeyKeeps, SendSealedKeeps, ReceiveKeeps, ReplyKeeps, LoseKeeps,
     StutterKeeps DEF Next, ThreadStep, ReceiverStep
<1>3. IInv => TypeOK /\ KeyFollows
  BY DEF IInv
<1>. QED  BY <1>1, <1>2, <1>3, PTL DEF Safe

-----------------------------------------------------------------------------
(* The refinement: which payloads are in a channel.                          *)

\* The ranks of a finite set of numbers are 1 to its cardinality, in its order.
LEMMA Ranks ==
  \A I \in SUBSET Nat : IsFiniteSet(I) =>
    /\ Cardinality(I) \in Nat
    /\ \A i \in I : Rank(I, i) \in 1 .. Cardinality(I)
    /\ \A i, j \in I : Rank(I, i) = Rank(I, j) => i = j
    /\ \A k \in 1 .. Cardinality(I) : \E i \in I : Rank(I, i) = k
<1>. SUFFICES ASSUME NEW I \in SUBSET Nat, IsFiniteSet(I)
              PROVE  /\ Cardinality(I) \in Nat
                     /\ \A i \in I : Rank(I, i) \in 1 .. Cardinality(I)
                     /\ \A i, j \in I : Rank(I, i) = Rank(I, j) => i = j
                     /\ \A k \in 1 .. Cardinality(I) : \E i \in I : Rank(I, i) = k
  OBVIOUS
<1>. DEFINE U(i) == {j \in I : j <= i}
<1>1. Cardinality(I) \in Nat
  BY FS_CardinalityType
<1>2. ASSUME NEW i \in I
      PROVE  IsFiniteSet(U(i)) /\ Cardinality(U(i)) \in 1 .. Cardinality(I) /\ Rank(I, i) = Cardinality(U(i))
  <2>1. U(i) \in SUBSET I /\ i \in U(i)
    OBVIOUS
  <2>2. IsFiniteSet(U(i)) /\ Cardinality(U(i)) <= Cardinality(I)
    BY <2>1, FS_Subset
  <2>3. Cardinality(U(i)) \in Nat /\ Cardinality(U(i)) # 0
    BY <2>1, <2>2, FS_CardinalityType, FS_EmptySet
  <2>4. Rank(I, i) = Cardinality(U(i))
    BY DEF Rank
  <2>. HIDE DEF U
  <2>. QED  BY <1>1, <2>2, <2>3, <2>4
<1>3. ASSUME NEW i \in I, NEW j \in I, i < j PROVE Rank(I, i) # Rank(I, j)
  <2>0. \A k \in I : k \in Nat
    OBVIOUS
  <2>1. (\A k \in U(i) : k \in U(j)) /\ j \in U(j) /\ j \notin U(i)
    BY <1>3, <2>0
  <2>2. IsFiniteSet(U(j)) /\ Rank(I, i) = Cardinality(U(i)) /\ Rank(I, j) = Cardinality(U(j))
    BY <1>2
  <2>. HIDE DEF U
  <2>3. Cardinality(U(i)) # Cardinality(U(j))
    BY <2>1, <2>2, FS_Subset
  <2>. QED  BY <2>2, <2>3
<1>4. \A i, j \in I : Rank(I, i) = Rank(I, j) => i = j
  <2>1. \A i, j \in I : i < j \/ j < i \/ i = j
    OBVIOUS
  <2>. QED  BY <1>3, <2>1
<1>5. \A i \in I : Rank(I, i) \in 1 .. Cardinality(I)
  BY <1>2
<1>6. ASSUME NEW k \in 1 .. Cardinality(I) PROVE \E i \in I : Rank(I, i) = k
  <2>. DEFINE n == Cardinality(I)
              f == [i \in I |-> Rank(I, i)]
  <2>1. IsFiniteSet(1 .. n) /\ Cardinality(1 .. n) = n
    BY <1>1, FS_Interval
  <2>2. f \in Injection(I, 1 .. n)
    BY <1>4, <1>5 DEF Injection, IsInjective
  <2>. HIDE DEF f, n
  <2>3. f \in Surjection(I, 1 .. n)
    BY <2>1, <2>2, FS_Injection DEF n
  <2>4. \E i \in I : f[i] = k
    BY <2>3 DEF Surjection, n
  <2>. QED  BY <2>4 DEF f
<1>. QED  BY <1>1, <1>4, <1>5, <1>6

\* PayloadsIn lists the payloads of the sealed datagrams in the order of their positions.
LEMMA PayloadsAre ==
  \A q \in Seq(Datagrams) :
    /\ SealedAt(q) \in SUBSET Nat /\ IsFiniteSet(SealedAt(q)) /\ SealedAt(q) \subseteq 1 .. Len(q)
    /\ PayloadsIn(q) \in Seq(Payloads) /\ Len(PayloadsIn(q)) = Cardinality(SealedAt(q))
    /\ \A i \in SealedAt(q) : PayloadsIn(q)[Rank(SealedAt(q), i)] = q[i].payload
<1>. SUFFICES ASSUME NEW q \in Seq(Datagrams)
              PROVE  /\ SealedAt(q) \in SUBSET Nat /\ IsFiniteSet(SealedAt(q)) /\ SealedAt(q) \subseteq 1 .. Len(q)
                     /\ PayloadsIn(q) \in Seq(Payloads) /\ Len(PayloadsIn(q)) = Cardinality(SealedAt(q))
                     /\ \A i \in SealedAt(q) : PayloadsIn(q)[Rank(SealedAt(q), i)] = q[i].payload
  OBVIOUS
<1>. DEFINE I == SealedAt(q)
            n == Cardinality(I)
            at(k) == CHOOSE i \in I : Rank(I, i) = k
            p == [k \in 1 .. n |-> q[at(k)].payload]
<1>1. DOMAIN q = 1 .. Len(q) /\ Len(q) \in Nat /\ \A i \in 1 .. Len(q) : q[i] \in Datagrams
  BY ElementOfSeq, LenProperties
<1>2. I \subseteq 1 .. Len(q) /\ I \in SUBSET Nat
  BY <1>1 DEF SealedAt
<1>3. IsFiniteSet(I)
  <2>1. IsFiniteSet(1 .. Len(q)) /\ I \in SUBSET (1 .. Len(q))
    BY <1>1, <1>2, FS_Interval
  <2>. QED  BY <2>1, FS_Subset
<1>4. \A i \in I : q[i].payload \in Payloads
  BY <1>1 DEF SealedAt, Datagrams, KeyMsg, Sealed
<1>5. PayloadsIn(q) = p
  BY DEF PayloadsIn
<1>. HIDE DEF I
<1>6. /\ n \in Nat
      /\ \A i \in I : Rank(I, i) \in 1 .. n
      /\ \A i, j \in I : Rank(I, i) = Rank(I, j) => i = j
      /\ \A k \in 1 .. n : \E i \in I : Rank(I, i) = k
  BY <1>2, <1>3, Ranks
<1>. HIDE DEF n
<1>7. \A k \in 1 .. n : at(k) \in I /\ Rank(I, at(k)) = k
  BY <1>6
<1>8. \A i \in I : at(Rank(I, i)) = i
  BY <1>6, <1>7
<1>. HIDE DEF at
<1>9. p \in [1 .. n -> Payloads]
  BY <1>4, <1>7
<1>10. p \in Seq(Payloads) /\ Len(p) = n
  BY <1>6, <1>9
<1>11. \A i \in I : p[Rank(I, i)] = q[i].payload
  BY <1>6, <1>8
<1>. QED  BY <1>2, <1>3, <1>5, <1>10, <1>11 DEF I, n

\* A key that is sent adds no payload, a sealed payload is added at the end.
LEMMA PayloadsAppend ==
  \A q \in Seq(Datagrams) :
    /\ PayloadsIn(Append(q, KeyMsg)) = PayloadsIn(q)
    /\ \A x \in Payloads : PayloadsIn(Append(q, Sealed(x))) = Append(PayloadsIn(q), x)
<1>. SUFFICES ASSUME NEW q \in Seq(Datagrams)
              PROVE  /\ PayloadsIn(Append(q, KeyMsg)) = PayloadsIn(q)
                     /\ \A x \in Payloads : PayloadsIn(Append(q, Sealed(x))) = Append(PayloadsIn(q), x)
  OBVIOUS
<1>. DEFINE I == SealedAt(q)
            e == Len(q) + 1
            p == PayloadsIn(q)
<1>1. /\ I \in SUBSET Nat /\ IsFiniteSet(I) /\ I \subseteq 1 .. Len(q)
      /\ p \in Seq(Payloads) /\ Len(p) = Cardinality(I)
      /\ \A i \in I : p[Rank(I, i)] = q[i].payload
  BY PayloadsAre
<1>2. ASSUME NEW d \in Datagrams
      PROVE  /\ Append(q, d) \in Seq(Datagrams) /\ Append(q, d)[e] = d
             /\ \A i \in 1 .. Len(q) : Append(q, d)[i] = q[i]
             /\ SealedAt(Append(q, d)) = IF d.kind = "sealed" THEN I \cup {e} ELSE I
             /\ e \notin I /\ \A i \in I : i \in Nat /\ i < e
  <2>1. /\ Append(q, d) \in Seq(Datagrams) /\ Append(q, d)[e] = d /\ Len(q) \in Nat
        /\ \A i \in 1 .. Len(q) : Append(q, d)[i] = q[i]
        /\ DOMAIN q = 1 .. Len(q) /\ DOMAIN Append(q, d) = 1 .. e
    BY AppendProperties, LenProperties
  <2>2. \A i : i \in 1 .. e <=> i \in 1 .. Len(q) \/ i = e
    BY <2>1
  <2>3. e \notin I /\ \A i \in I : i \in Nat /\ i < e
    BY <1>1, <2>1
  <2>. HIDE DEF e
  <2>4. SealedAt(Append(q, d)) = IF d.kind = "sealed" THEN I \cup {e} ELSE I
    BY <2>1, <2>2 DEF SealedAt
  <2>. QED  BY <2>1, <2>3, <2>4
<1>. HIDE DEF I, e, p
<1>3. \A k \in 1 .. Cardinality(I) : \E i \in I : Rank(I, i) = k
  BY <1>1, Ranks
<1>4. PayloadsIn(Append(q, KeyMsg)) = p
  <2>. DEFINE r == Append(q, KeyMsg)
  <2>1. KeyMsg \in Datagrams /\ KeyMsg.kind # "sealed"
    BY DEF Datagrams, KeyMsg
  <2>2. r \in Seq(Datagrams) /\ SealedAt(r) = I /\ \A i \in I : r[i] = q[i]
    BY <1>1, <1>2, <2>1
  <2>. HIDE DEF r
  <2>3. /\ PayloadsIn(r) \in Seq(Payloads) /\ Len(PayloadsIn(r)) = Len(p)
        /\ \A i \in I : PayloadsIn(r)[Rank(I, i)] = q[i].payload
    BY <1>1, <2>2, PayloadsAre
  <2>4. \A k \in 1 .. Len(p) : PayloadsIn(r)[k] = p[k]
    BY <1>1, <1>3, <2>3
  <2>. QED  BY <1>1, <2>3, <2>4, SeqEqual DEF r
<1>5. ASSUME NEW x \in Payloads PROVE PayloadsIn(Append(q, Sealed(x))) = Append(p, x)
  <2>. DEFINE r == Append(q, Sealed(x))
              J == I \cup {e}
  <2>1. Sealed(x) \in Datagrams /\ Sealed(x).kind = "sealed" /\ Sealed(x).payload = x
    BY DEF Datagrams, Sealed
  <2>2. /\ r \in Seq(Datagrams) /\ SealedAt(r) = J /\ r[e].payload = x
        /\ \A i \in I : r[i] = q[i]
        /\ e \notin I /\ \A i \in I : i \in Nat /\ i < e
    BY <1>1, <1>2, <2>1
  <2>3. e \in Nat
    BY LenProperties DEF e
  <2>4. Cardinality(J) = Cardinality(I) + 1 /\ Cardinality(I) \in Nat
    BY <1>1, <2>2, FS_AddElement, FS_CardinalityType
  <2>5. \A i \in I : Rank(J, i) = Rank(I, i)
    <3>1. \A i \in I : {j \in J : j <= i} = {j \in I : j <= i}
      BY <2>2, <2>3
    <3>. QED  BY <3>1 DEF Rank
  <2>6. Rank(J, e) = Cardinality(J)
    <3>1. {j \in J : j <= e} = J
      BY <2>2, <2>3
    <3>. QED  BY <3>1 DEF Rank
  <2>. HIDE DEF r
  <2>7. /\ PayloadsIn(r) \in Seq(Payloads) /\ Len(PayloadsIn(r)) = Len(p) + 1
        /\ \A i \in J : PayloadsIn(r)[Rank(J, i)] = r[i].payload
    BY <1>1, <2>2, <2>4, PayloadsAre
  <2>8. \A k \in 1 .. Len(p) : PayloadsIn(r)[k] = p[k]
    <3>1. \A i \in I : PayloadsIn(r)[Rank(I, i)] = q[i].payload
      BY <2>2, <2>5, <2>7
    <3>. QED  BY <1>1, <1>3, <3>1
  <2>9. PayloadsIn(r)[Len(p) + 1] = x
    BY <1>1, <2>2, <2>4, <2>6, <2>7
  <2>10. /\ Append(p, x) \in Seq(Payloads) /\ Len(Append(p, x)) = Len(p) + 1
         /\ Append(p, x)[Len(p) + 1] = x /\ \A k \in 1 .. Len(p) : Append(p, x)[k] = p[k]
    BY <1>1, AppendProperties
  <2>11. \A k \in 1 .. Len(p) + 1 : PayloadsIn(r)[k] = Append(p, x)[k]
    BY <1>1, <2>4, <2>8, <2>9, <2>10
  <2>. QED  BY <2>7, <2>10, <2>11, SeqEqual DEF r
<1>. QED  BY <1>4, <1>5 DEF p

\* Moving a finite set of positions down by one keeps cardinality and ranks.
LEMMA Shift ==
  \A J, K \in SUBSET Nat : IsFiniteSet(J) /\ 0 \notin J /\ K = {i \in Nat : i + 1 \in J} =>
    Cardinality(K) = Cardinality(J) /\ \A i \in K : Rank(K, i) = Rank(J, i + 1)
<1>1. ASSUME NEW J \in SUBSET Nat, NEW K \in SUBSET Nat, IsFiniteSet(J), 0 \notin J, K = {i \in Nat : i + 1 \in J}
      PROVE  Cardinality(K) = Cardinality(J)
  <2>. DEFINE f == [j \in J |-> j - 1]
  <2>1. \A j \in J : j - 1 \in Nat /\ (j - 1) + 1 = j
    BY <1>1
  <2>2. \A j \in J : j - 1 \in K
    BY <1>1, <2>1
  <2>3. f \in [J -> K]
    BY <2>2
  <2>4. \A i, j \in J : i - 1 = j - 1 => i = j
    BY <1>1
  <2>5. \A k \in K : k + 1 \in J /\ (k + 1) - 1 = k
    BY <1>1
  <2>6. f \in Bijection(J, K)
    BY <2>3, <2>4, <2>5 DEF Bijection, Injection, Surjection, IsInjective
  <2>. HIDE DEF f
  <2>. QED  BY <1>1, <2>6, FS_Bijection DEF ExistsBijection
<1>2. ASSUME NEW J \in SUBSET Nat, NEW K \in SUBSET Nat, IsFiniteSet(J), 0 \notin J, K = {i \in Nat : i + 1 \in J},
             NEW i \in K
      PROVE  Rank(K, i) = Rank(J, i + 1)
  <2>. DEFINE A == {j \in J : j <= i + 1}
              B == {j \in K : j <= i}
  <2>1. A \in SUBSET Nat /\ B \in SUBSET Nat /\ 0 \notin A /\ IsFiniteSet(A)
    <3>1. A \in SUBSET J
      OBVIOUS
    <3>. QED  BY <1>2, <3>1, FS_Subset
  <2>2. B = {k \in Nat : k + 1 \in A}
    BY <1>2
  <2>3. Rank(K, i) = Cardinality(B) /\ Rank(J, i + 1) = Cardinality(A)
    BY DEF Rank
  <2>. HIDE DEF A, B
  <2>. QED  BY <1>1, <2>1, <2>2, <2>3
<1>. QED  BY <1>1, <1>2

\* A key that is taken removes no payload, a sealed payload is the first one.
LEMMA PayloadsTail ==
  \A q \in Seq(Datagrams) : q # << >> =>
    /\ Head(q).kind = "key" => PayloadsIn(Tail(q)) = PayloadsIn(q)
    /\ Head(q).kind = "sealed" =>
         /\ PayloadsIn(q) # << >> /\ Head(PayloadsIn(q)) = Head(q).payload
         /\ PayloadsIn(Tail(q)) = Tail(PayloadsIn(q))
<1>. SUFFICES ASSUME NEW q \in Seq(Datagrams), q # << >>
              PROVE  /\ Head(q).kind = "key" => PayloadsIn(Tail(q)) = PayloadsIn(q)
                     /\ Head(q).kind = "sealed" =>
                          /\ PayloadsIn(q) # << >> /\ Head(PayloadsIn(q)) = Head(q).payload
                          /\ PayloadsIn(Tail(q)) = Tail(PayloadsIn(q))
  OBVIOUS
<1>. DEFINE I == SealedAt(q)
            p == PayloadsIn(q)
            r == Tail(q)
            J == I \ {1}
            K == SealedAt(r)
            s == PayloadsIn(r)
<1>1. /\ I \in SUBSET Nat /\ IsFiniteSet(I) /\ I \subseteq 1 .. Len(q)
      /\ p \in Seq(Payloads) /\ Len(p) = Cardinality(I)
      /\ \A i \in I : p[Rank(I, i)] = q[i].payload
  BY PayloadsAre
<1>2. /\ r \in Seq(Datagrams) /\ Len(r) = Len(q) - 1 /\ Len(q) \in Nat /\ Len(q) >= 1
      /\ \A i \in 1 .. Len(r) : r[i] = q[i + 1]
      /\ Head(q) = q[1] /\ DOMAIN q = 1 .. Len(q) /\ DOMAIN r = 1 .. Len(r)
  BY HeadTailProperties, EmptySeq, LenProperties
<1>3. /\ K \in SUBSET Nat /\ s \in Seq(Payloads) /\ Len(s) = Cardinality(K)
      /\ \A i \in K : s[Rank(K, i)] = r[i].payload
  BY <1>2, PayloadsAre
<1>4. J \in SUBSET Nat /\ IsFiniteSet(J) /\ 0 \notin J /\ 1 \notin J
  BY <1>1, FS_RemoveElement
<1>. HIDE DEF r
<1>5. K = {i \in Nat : i + 1 \in J}
  <2>1. \A i : i \in K <=> i \in 1 .. Len(r) /\ r[i].kind = "sealed"
    BY <1>2 DEF SealedAt
  <2>2. \A i : i \in J <=> i \in 1 .. Len(q) /\ i # 1 /\ q[i].kind = "sealed"
    BY <1>2 DEF SealedAt
  <2>. HIDE DEF J, K
  <2>3. \A i \in Nat : i \in 1 .. Len(r) <=> i + 1 \in 1 .. Len(q) /\ i + 1 # 1
    BY <1>2
  <2>4. \A i \in Nat : i \in K <=> i + 1 \in J
    BY <1>2, <2>1, <2>2, <2>3
  <2>. QED  BY <1>3, <2>4
<1>6. 1 \in I <=> Head(q).kind = "sealed"
  BY <1>2 DEF SealedAt
<1>7. \A i \in K : i \in Nat /\ i + 1 \in J /\ r[i].payload = q[i + 1].payload
  BY <1>2, <1>5 DEF SealedAt
<1>. HIDE DEF K, s, p, I
<1>8. Cardinality(K) = Cardinality(J) /\ \A i \in K : Rank(K, i) = Rank(J, i + 1)
  <2>. HIDE DEF J
  <2>. QED  BY <1>3, <1>4, <1>5, Shift
<1>9. /\ Cardinality(K) \in Nat /\ \A k \in 1 .. Cardinality(K) : \E i \in K : Rank(K, i) = k
  <2>1. IsFiniteSet(K)
    BY <1>2, PayloadsAre DEF K
  <2>. QED  BY <1>3, <2>1, Ranks
<1>10. CASE Head(q).kind = "key"
  <2>1. J = I
    BY <1>6, <1>10
  <2>2. Len(s) = Len(p) /\ \A i \in K : s[Rank(K, i)] = p[Rank(K, i)]
    BY <1>1, <1>3, <1>7, <1>8, <2>1, ZenonT(30)
  <2>3. \A k \in 1 .. Len(s) : s[k] = p[k]
    BY <1>3, <1>9, <2>2
  <2>4. s = p
    BY <1>1, <1>3, <2>2, <2>3, SeqEqual
  <2>. QED  BY <1>10, <2>4 DEF s, p, r
<1>11. CASE Head(q).kind = "sealed"
  <2>1. 1 \in I /\ I = J \cup {1}
    BY <1>6, <1>11
  <2>2. Cardinality(I) = Cardinality(J) + 1 /\ Cardinality(J) \in Nat
    BY <1>4, <2>1, FS_AddElement, FS_CardinalityType
  <2>3. \A i \in J : Rank(I, i) = Rank(J, i) + 1
    <3>1. ASSUME NEW i \in J PROVE Rank(I, i) = Rank(J, i) + 1
      <4>. DEFINE A == {j \in J : j <= i}
                  B == {j \in I : j <= i}
      <4>1. \A j \in J : j \in Nat /\ j # 0
        BY <1>4
      <4>2. B = A \cup {1} /\ 1 \notin A
        BY <2>1, <3>1, <4>1
      <4>3. IsFiniteSet(A)
        BY <1>4, FS_Subset
      <4>4. Rank(I, i) = Cardinality(B) /\ Rank(J, i) = Cardinality(A)
        BY DEF Rank
      <4>. HIDE DEF A, B
      <4>. QED  BY <4>2, <4>3, <4>4, FS_AddElement
    <3>. QED  BY <3>1
  <2>4. Rank(I, 1) = 1
    <3>0. \A j \in I : j \in Nat /\ j >= 1
      BY <1>1, <1>2
    <3>2. \A j : j \in {u \in I : u <= 1} <=> j = 1
      BY <2>1, <3>0
    <3>1. {j \in I : j <= 1} = {1}
      BY <3>2
    <3>. QED  BY <3>1, FS_Singleton DEF Rank
  <2>5. p[1] = Head(q).payload
    BY <1>1, <1>2, <2>1, <2>4
  <2>6. Len(p) = Len(s) + 1 /\ Len(s) \in Nat
    BY <1>1, <1>3, <1>8, <2>2
  <2>7. p # << >>
    BY <1>1, <2>6, EmptySeq
  <2>8. Head(p) = p[1] /\ Tail(p) \in Seq(Payloads) /\ Len(Tail(p)) = Len(p) - 1
        /\ \A k \in 1 .. Len(Tail(p)) : Tail(p)[k] = p[k + 1]
    BY <1>1, <2>7, HeadTailProperties
  <2>9. \A i \in K : s[Rank(K, i)] = p[Rank(K, i) + 1]
    <3>1. ASSUME NEW i \in K PROVE s[Rank(K, i)] = p[Rank(K, i) + 1]
      <4>1. i + 1 \in J /\ i + 1 \in I
        BY <1>7, <2>1
      <4>2. p[Rank(I, i + 1)] = q[i + 1].payload /\ s[Rank(K, i)] = q[i + 1].payload
        BY <1>1, <1>3, <1>7, <4>1
      <4>3. Rank(I, i + 1) = Rank(K, i) + 1
        BY <1>8, <2>3, <4>1
      <4>. QED  BY <4>2, <4>3
    <3>. QED  BY <3>1
  <2>10. \A k \in 1 .. Len(s) : s[k] = Tail(p)[k]
    <3>1. \A k \in 1 .. Len(s) : s[k] = p[k + 1]
      BY <1>3, <1>9, <2>9
    <3>. QED  BY <2>6, <2>8, <3>1
  <2>11. s = Tail(p)
    BY <1>3, <2>6, <2>8, <2>10, SeqEqual
  <2>. QED  BY <1>11, <2>5, <2>7, <2>8, <2>11 DEF s, p, r
<1>. QED  BY <1>10, <1>11

-----------------------------------------------------------------------------
(* The refinement: every step is a step of the channels, or a stutter.       *)

\* One channel of payloads changes with its queue of datagrams.
LEMMA ChanStep ==
  ASSUME net \in [Pairs -> Seq(Datagrams)], NEW p \in Pairs, NEW q, net' = [net EXCEPT ![p] = q]
  PROVE  Chan' = [Chan EXCEPT ![p] = PayloadsIn(q)]
BY DEF Chan

LEMMA KeyIsInvisible ==
  ASSUME net \in [Pairs -> Seq(Datagrams)], NEW p \in Pairs, net' = [net EXCEPT ![p] = Append(@, KeyMsg)]
  PROVE  Chan' = Chan
<1>1. Chan' = [Chan EXCEPT ![p] = PayloadsIn(Append(net[p], KeyMsg))]
  BY ChanStep
<1>2. PayloadsIn(Append(net[p], KeyMsg)) = Chan[p]
  BY PayloadsAppend DEF Chan
<1>. QED  BY <1>1, <1>2 DEF Chan

\* Taking a datagram: a key changes nothing, a payload is the first of its channel.
LEMMA TakenFrom ==
  ASSUME net \in [Pairs -> Seq(Datagrams)], NEW p \in Pairs, net[p] # << >>, net' = [net EXCEPT ![p] = Tail(@)]
  PROVE  /\ Head(net[p]).kind = "key" => Chan' = Chan
         /\ Head(net[p]).kind = "sealed" =>
              /\ Chan[p] # << >> /\ Head(Chan[p]) = Head(net[p]).payload
              /\ Chan' = [Chan EXCEPT ![p] = Tail(@)]
         /\ Head(net[p]).kind \in {"key", "sealed"}
<1>1. Chan' = [Chan EXCEPT ![p] = PayloadsIn(Tail(net[p]))]
  BY ChanStep
<1>2. Chan[p] = PayloadsIn(net[p]) /\ net[p] \in Seq(Datagrams)
  BY DEF Chan
<1>3. Head(net[p]).kind = "key" => Chan' = Chan
  <2>1. Head(net[p]).kind = "key" => PayloadsIn(Tail(net[p])) = Chan[p]
    BY <1>2, PayloadsTail
  <2>. QED  BY <1>1, <2>1 DEF Chan
<1>4. Head(net[p]).kind = "sealed" =>
        /\ Chan[p] # << >> /\ Head(Chan[p]) = Head(net[p]).payload /\ PayloadsIn(Tail(net[p])) = Tail(Chan[p])
  BY <1>2, PayloadsTail
<1>5. Head(net[p]).kind \in {"key", "sealed"}
  <2>1. Head(net[p]) \in Datagrams
    BY <1>2, HeadTailProperties
  <2>. QED  BY <2>1 DEF Datagrams, KeyMsg, Sealed
<1>. QED  BY <1>1, <1>3, <1>4, <1>5

LEMMA InitChannel == Init => Channel!Init
<1>. SUFFICES ASSUME Init PROVE Channel!Init
  OBVIOUS
<1>1. << >> \in Seq(Datagrams) /\ Len(<< >>) = 0 /\ SealedAt(<< >>) = {}
  BY EmptySeq DEF SealedAt
<1>2. Len(PayloadsIn(<< >>)) = 0 /\ PayloadsIn(<< >>) \in Seq(Payloads)
  BY <1>1, PayloadsAre, FS_EmptySet
<1>3. PayloadsIn(<< >>) = << >>
  BY <1>2, EmptySeq
<1>. QED  BY <1>3 DEF Init, Channel!Init, Chan, Pairs, Channel!Pairs

LEMMA NextChannel == TypeOK /\ [Next]_vars => [Channel!Next]_<<Chan, delivered>>
<1>. SUFFICES ASSUME TypeOK, [Next]_vars PROVE [Channel!Next]_<<Chan, delivered>>
  OBVIOUS
<1>0. net \in [Pairs -> Seq(Datagrams)] /\ delivered \in [Pairs -> Seq(Payloads)] /\ Channel!Pairs = Pairs
  BY DEF TypeOK, Pairs, Channel!Pairs
<1>1. ASSUME NEW t \in Threads, NEW to \in Endpoints, NEW x \in Payloads, SendLookup(t, to, x)
      PROVE  UNCHANGED <<Chan, delivered>>
  BY <1>1 DEF SendLookup, Chan
<1>2. ASSUME NEW t \in Threads, SendKey(t) PROVE UNCHANGED <<Chan, delivered>>
  <2>1. <<t[1], sending[t].to>> \in Pairs
    BY <1>2, ThreadType DEF SendKey, Pairs
  <2>. QED  BY <1>0, <1>2, <2>1, KeyIsInvisible DEF SendKey
<1>3. ASSUME NEW t \in Threads, SendSealed(t) PROVE \E p \in Pairs : Channel!Send(p)
  <2>. DEFINE p == <<t[1], sending[t].to>>
              x == sending[t].payload
  <2>1. p \in Pairs /\ x \in Payloads /\ Sealed(x) \in Datagrams
    BY <1>3, ThreadType DEF SendSealed, Pairs
  <2>2. net' = [net EXCEPT ![p] = Append(net[p], Sealed(x))] /\ delivered' = delivered
    BY <1>3 DEF SendSealed
  <2>. HIDE DEF p, x
  <2>3. Chan' = [Chan EXCEPT ![p] = PayloadsIn(Append(net[p], Sealed(x)))]
    BY <1>0, <2>1, <2>2, ChanStep
  <2>4. PayloadsIn(Append(net[p], Sealed(x))) = Append(Chan[p], x)
    BY <1>0, <2>1, PayloadsAppend DEF Chan
  <2>5. Channel!Send(p)
    BY <2>1, <2>2, <2>3, <2>4 DEF Channel!Send
  <2>. QED  BY <2>1, <2>5
<1>4. ASSUME NEW e \in Endpoints, ReplyKey(e) PROVE UNCHANGED <<Chan, delivered>>
  <2>1. <<e, replying[e]>> \in Pairs
    BY <1>4 DEF ReplyKey, TypeOK, Pairs
  <2>. QED  BY <1>0, <1>4, <2>1, KeyIsInvisible DEF ReplyKey
<1>5. ASSUME NEW s \in Endpoints, NEW e \in Endpoints, ReceiveNewKey(s, e) \/ ReceiveOldKey(s, e)
      PROVE  UNCHANGED <<Chan, delivered>>
  <2>1. <<s, e>> \in Pairs
    BY DEF Pairs
  <2>2. Arrives(s, e, "key") /\ delivered' = delivered
    BY <1>5 DEF ReceiveNewKey, ReceiveOldKey
  <2>. QED  BY <1>0, <2>1, <2>2, TakenFrom DEF Arrives
<1>6. ASSUME NEW s \in Endpoints, NEW e \in Endpoints, ReceiveSealed(s, e) PROVE Channel!Deliver(<<s, e>>)
  <2>. DEFINE p == <<s, e>>
  <2>1. p \in Pairs
    BY DEF Pairs
  <2>2. /\ net[p] # << >> /\ net' = [net EXCEPT ![p] = Tail(@)] /\ Head(net[p]).kind = "sealed"
        /\ delivered' = [delivered EXCEPT ![p] = Append(@, Head(net[p]).payload)]
    BY <1>6 DEF ReceiveSealed, Arrives
  <2>. HIDE DEF p
  <2>3. Chan[p] # << >> /\ Head(Chan[p]) = Head(net[p]).payload /\ Chan' = [Chan EXCEPT ![p] = Tail(@)]
    BY <1>0, <2>1, <2>2, TakenFrom
  <2>4. Channel!Deliver(p)
    BY <2>2, <2>3 DEF Channel!Deliver
  <2>. QED  BY <2>4 DEF p
<1>7. ASSUME NEW s \in Endpoints, NEW e \in Endpoints, ReceiveFromStranger(s, e) \/ Lose(s, e)
      PROVE  Channel!Lose(<<s, e>>) \/ UNCHANGED <<Chan, delivered>>
  <2>. DEFINE p == <<s, e>>
  <2>1. p \in Pairs
    BY DEF Pairs
  <2>2. net[p] # << >> /\ net' = [net EXCEPT ![p] = Tail(@)] /\ delivered' = delivered
    BY <1>7 DEF ReceiveFromStranger, Lose, Arrives
  <2>. HIDE DEF p
  <2>3. \/ Chan' = Chan
        \/ Chan[p] # << >> /\ Chan' = [Chan EXCEPT ![p] = Tail(@)]
    BY <1>0, <2>1, <2>2, TakenFrom
  <2>4. Channel!Lose(p) \/ UNCHANGED <<Chan, delivered>>
    BY <2>2, <2>3 DEF Channel!Lose
  <2>. QED  BY <2>4 DEF p
<1>8. CASE UNCHANGED vars
  BY <1>8 DEF vars, Chan
<1>9. (\E p \in Pairs : Channel!Send(p) \/ Channel!Deliver(p) \/ Channel!Lose(p)) => Channel!Next
  BY <1>0 DEF Channel!Next
<1>10. \A s, e \in Endpoints : <<s, e>> \in Pairs
  BY DEF Pairs
<1>. QED  BY <1>1, <1>2, <1>3, <1>4, <1>5, <1>6, <1>7, <1>8, <1>9, <1>10 DEF Next, ThreadStep, ReceiverStep

(* SecureEndpoint behind send and blockingReceive is a lossy FIFO channel of *)
(* payloads for each pair, whatever keys handleMessage stores, answers or    *)
(* gets late, for any number of endpoints, sending threads and losses.       *)
THEOREM ImplementsChannelHolds == Safe => ImplementsChannel
<1>1. Safe => []TypeOK
  <2>1. TypeOK /\ KeyFollows => TypeOK
    OBVIOUS
  <2>. QED  BY <2>1, KeyFollowsHolds, PTL
<1>2. Init => Channel!Init
  BY InitChannel
<1>3. TypeOK /\ [Next]_vars => [Channel!Next]_<<Chan, delivered>>
  BY NextChannel
<1>. QED  BY <1>1, <1>2, <1>3, PTL DEF Safe, ImplementsChannel, Channel!Spec
=============================================================================
