---------------------------- MODULE Threads_proofs ----------------------------
(***************************************************************************)
(* Proofs about programs whose threads share memory: the two-lock queue of *)
(* BSYS, for any number of threads, nodes and values; its semaphores, for  *)
(* any number of threads and rounds; and the worker pool of VerSy's        *)
(* broker, for any tanks, workers and lease renewals.                      *)
(***************************************************************************)
EXTENDS TwoLockQueue, Semaphores, AquaBroker,
        FiniteSetTheorems, SequenceTheorems, WellFoundedInduction, TLAPS

-----------------------------------------------------------------------------
(* The two-lock queue.                                                     *)

Links == Nodes \cup {NULL}

QueueTypeOK ==
    /\ Allocated \subseteq Nodes /\ IsFiniteSet(Allocated)
    /\ heap \in [Allocated -> [value : Int, next : Links]]
    /\ enqueuer \in [Enqueuers -> [pc : {"malloc", "link", "tail"}, tmp : Links,
                                   i : Int, count : Nat]]
    /\ dequeuer \in [Dequeuers -> [pc : {"lock", "next", "take", "free"}, tmp : Links,
                                   new_head : Links]]

\* An enqueuer counts up from its start value.
Counts ==
    \A t \in Enqueuers :
       /\ \E v \in StartValues : enqueuer[t].i = v + enqueuer[t].count
       /\ enqueuer[t].count <= MaxEnqueues
       /\ enqueuer[t].pc # "malloc" => enqueuer[t].count < MaxEnqueues

\* s is the linked list from head on.
Chain(n, s) ==
    /\ s[0] = head
    /\ \A k \in 0 .. n : s[k] \in Allocated
    /\ \A k \in 1 .. n : heap[s[k - 1]].next = s[k]
    /\ heap[s[n]].next = NULL
    /\ \A j, k \in 0 .. n : s[j] = s[k] => j = k

OffChain(n, s, x) == x \in Allocated /\ \A k \in 0 .. n : s[k] # x

\* A node that is not linked yet belongs to one enqueuer; the tail lags by one
\* node while an enqueuer is about to set it.
EnqueueRight(n, s) ==
    /\ \A t \in Enqueuers :
          /\ enqueuer[t].pc = "link" =>
                /\ OffChain(n, s, enqueuer[t].tmp)
                /\ heap[enqueuer[t].tmp] = [value |-> enqueuer[t].i, next |-> NULL]
          /\ enqueuer[t].pc = "tail" => enqueuer[t].tmp = s[n]
    /\ \A t, u \in Enqueuers :
          /\ enqueuer[t].pc = "tail" /\ enqueuer[u].pc = "tail" => t = u
          /\ enqueuer[t].pc = "link" /\ enqueuer[u].pc = "link"
             /\ enqueuer[t].tmp = enqueuer[u].tmp => t = u
    /\ (\A t \in Enqueuers : enqueuer[t].pc # "tail") => tail = s[n]

\* The holder of head_lock has read the head; a node that was taken off the
\* list belongs to one dequeuer.
DequeueRight(n, s) ==
    /\ \A d \in Dequeuers :
          /\ dequeuer[d].pc = "lock" => dequeuer[d].tmp = NULL
          /\ dequeuer[d].pc \in {"next", "take"} => dequeuer[d].tmp = s[0]
          /\ dequeuer[d].pc = "take" => n # 0 /\ dequeuer[d].new_head = s[1]
          /\ dequeuer[d].pc = "free" =>
                /\ OffChain(n, s, dequeuer[d].tmp)
                /\ \A t \in Enqueuers : enqueuer[t].pc = "link" => enqueuer[t].tmp # dequeuer[d].tmp
    /\ \A d, e \in Dequeuers :
          /\ dequeuer[d].pc \in {"next", "take"} /\ dequeuer[e].pc \in {"next", "take"} => d = e
          /\ dequeuer[d].pc = "free" /\ dequeuer[e].pc = "free"
             /\ dequeuer[d].tmp = dequeuer[e].tmp => d = e

ListRight(n, s) == Chain(n, s) /\ EnqueueRight(n, s) /\ DequeueRight(n, s)

QueueInv == /\ QueueTypeOK /\ Counts
            /\ \E n \in Nat : \E s \in [0 .. n -> Nodes] : ListRight(n, s)

-----------------------------------------------------------------------------
(* The operators of the refinement mapping.                                *)

Body(f) == [k \in Nat |-> IF k = 0 THEN head
                          ELSE IF f[k - 1] \in Allocated THEN heap[f[k - 1]].next ELSE NULL]

\* A non-empty set of numbers has a smallest element.
LEMMA Smallest ==
  ASSUME NEW D \in SUBSET Nat, D # {}
  PROVE  \E k \in D : \A j \in D : k <= j
<1>. DEFINE T == {0 .. k : k \in D}
            R == StrictSubsetOrdering(Nat)
            S == FiniteSubsetsOf(Nat)
<1>1. IsWellFoundedOn(R, S)
  BY FS_StrictSubsetOrderingWellFounded
<1>2. T \subseteq S /\ T # {}
  <2>1. ASSUME NEW k \in D PROVE 0 .. k \in S
    <3>1. 0 .. k \in SUBSET Nat /\ IsFiniteSet(0 .. k)
      BY FS_Interval
    <3>. QED  BY <3>1 DEF FiniteSubsetsOf
  <2>. HIDE DEF S
  <2>. QED  BY <2>1
<1>. HIDE DEF R, S
<1>3. \E x \in T : \A y \in T : <<y, x>> \notin R
  BY <1>1, <1>2, WFMin
<1>4. PICK k \in D : \A j \in D : <<0 .. j, 0 .. k>> \notin R
  BY <1>3
<1>5. ASSUME NEW j \in D, j < k PROVE FALSE
  <2>1. 0 .. j \subseteq 0 .. k /\ k \in 0 .. k /\ k \notin 0 .. j /\ 0 .. j \in SUBSET Nat /\ 0 .. k \in SUBSET Nat
    BY <1>5
  <2>2. 0 .. j # 0 .. k
    BY <2>1
  <2>3. <<0 .. j, 0 .. k>> \in R
    BY <2>1, <2>2 DEF R, StrictSubsetOrdering
  <2>. QED  BY <1>4, <2>3
<1>. QED  BY <1>5

\* A set of numbers with 0 and the successor of each of its members is Nat.
LEMMA AllNaturals ==
  ASSUME NEW D \in SUBSET Nat, 0 \in D, \A n \in D : n + 1 \in D
  PROVE  D = Nat
<1> DEFINE M == Nat \ D
<1>1. SUFFICES ASSUME M # {} PROVE FALSE
  OBVIOUS
<1>2. PICK k \in M : \A j \in M : k <= j
  <2>1. M \in SUBSET Nat
    OBVIOUS
  <2>. HIDE DEF M
  <2>. QED  BY <1>1, <2>1, Smallest
<1>3. k \in Nat /\ k # 0 /\ k \notin D
  BY <1>2
<1>4. k - 1 \in Nat /\ k - 1 \notin M
  BY <1>2, <1>3
<1>5. k - 1 \in D
  BY <1>4
<1>6. (k - 1) + 1 \in D
  BY <1>5
<1>. QED  BY <1>3, <1>6

\* A recursive function is unfolded once it is known to exist.
LEMMA Unfold ==
  ASSUME NEW f,
         f = [k \in Nat |-> IF k = 0 THEN head
                            ELSE IF f[k - 1] \in Allocated THEN heap[f[k - 1]].next ELSE NULL]
  PROVE  NodeAfter =
           [k \in Nat |->
              IF k = 0 THEN head
              ELSE IF NodeAfter[k - 1] \in Allocated THEN heap[NodeAfter[k - 1]].next ELSE NULL]
  BY ZenonT(30) DEF NodeAfter

\* NodeAfter follows the list, and is NULL behind it.
LEMMA NodesOfChain ==
  ASSUME QueueTypeOK, NEW n \in Nat, NEW s \in [0 .. n -> Nodes], Chain(n, s)
  PROVE  NodeAfter = [k \in Nat |-> IF k <= n THEN s[k] ELSE NULL]
<1>. DEFINE g == [k \in Nat |-> IF k <= n THEN s[k] ELSE NULL]
<1>0. NULL \notin Allocated
  BY QueueAssumption DEF QueueTypeOK
<1>1. g = Body(g)
  <2>1. g[0] = head
    BY DEF Chain
  <2>2. ASSUME NEW k \in 1 .. n
        PROVE  g[k] = IF g[k - 1] \in Allocated THEN heap[g[k - 1]].next ELSE NULL
    <3>1. k - 1 \in 0 .. n /\ g[k - 1] = s[k - 1] /\ g[k] = s[k]
      OBVIOUS
    <3>. QED  BY <3>1 DEF Chain
  <2>3. ASSUME NEW k \in Nat, k = n + 1
        PROVE  g[k] = IF g[k - 1] \in Allocated THEN heap[g[k - 1]].next ELSE NULL
    <3>1. k - 1 = n /\ n \in 0 .. n /\ g[k - 1] = s[n] /\ g[k] = NULL
      BY <2>3
    <3>. QED  BY <3>1 DEF Chain
  <2>4. ASSUME NEW k \in Nat, k > n + 1
        PROVE  g[k] = IF g[k - 1] \in Allocated THEN heap[g[k - 1]].next ELSE NULL
    <3>1. g[k - 1] = NULL /\ g[k] = NULL
      BY <2>4
    <3>. QED  BY <1>0, <3>1
  <2>5. ASSUME NEW k \in Nat, k # 0 PROVE k \in 1 .. n \/ k = n + 1 \/ k > n + 1
    BY <2>5
  <2>6. ASSUME NEW k \in Nat
        PROVE  g[k] = IF k = 0 THEN head
                      ELSE IF g[k - 1] \in Allocated THEN heap[g[k - 1]].next ELSE NULL
    <3>. HIDE DEF g
    <3>1. CASE k = 0
      BY <2>1, <3>1
    <3>2. CASE k # 0
      BY <2>2, <2>3, <2>4, <2>5, <3>2
    <3>. QED  BY <3>1, <3>2
  <2>7. g = [k \in Nat |-> g[k]]
    OBVIOUS
  <2>. HIDE DEF g
  <2>. QED  BY <2>6, <2>7, Zenon DEF Body
<1>2. NodeAfter = Body(NodeAfter)
  <2>. HIDE DEF g
  <2>1. g = [k \in Nat |-> IF k = 0 THEN head
                         ELSE IF g[k - 1] \in Allocated THEN heap[g[k - 1]].next ELSE NULL]
    BY <1>1 DEF Body
  <2>. QED  BY <2>1, Unfold DEF Body
<1>3. NodeAfter = [k \in Nat |-> NodeAfter[k]]
  BY <1>2 DEF Body
<1>4. ASSUME NEW k \in Nat, NodeAfter[k] # g[k] PROVE FALSE
  <2>. DEFINE D == {j \in Nat : NodeAfter[j] # g[j]}
  <2>1. PICK j \in D : \A i \in D : j <= i
    <3>1. D \in SUBSET Nat /\ D # {}
      BY <1>4
    <3>. HIDE DEF D
    <3>. QED  BY <3>1, Smallest
  <2>2. j \in Nat /\ NodeAfter[j] # g[j]
    BY <2>1
  <2>3. j # 0 => j - 1 \in Nat /\ NodeAfter[j - 1] = g[j - 1]
    <3>1. j # 0 => j - 1 \in Nat /\ ~(j <= j - 1)
      BY <2>2
    <3>. QED  BY <2>1, <3>1
  <2>. HIDE DEF g
  <2>4. /\ NodeAfter[j] = Body(NodeAfter)[j]
        /\ g[j] = Body(g)[j]
    BY <1>1, <1>2
  <2>. QED  BY <2>2, <2>3, <2>4 DEF Body
<1>5. NodeAfter = [k \in Nat |-> g[k]]
  <2>. HIDE DEF g
  <2>. QED  BY <1>3, <1>4
<1>. QED  BY <1>5

\* What the refinement mapping computes, read off the list.
MappingRight ==
  \A n \in Nat : \A s \in [0 .. n -> Nodes] : QueueTypeOK /\ Chain(n, s) =>
    /\ Length = n
    /\ \A k \in 0 .. n : NodeAfter[k] = s[k]
    /\ Items = [k \in 1 .. n |-> heap[s[k]].value]

LEMMA MappingHolds == MappingRight
<1>. SUFFICES ASSUME NEW n \in Nat, NEW s \in [0 .. n -> Nodes], QueueTypeOK, Chain(n, s)
              PROVE  /\ Length = n
                     /\ \A k \in 0 .. n : NodeAfter[k] = s[k]
                     /\ Items = [k \in 1 .. n |-> heap[s[k]].value]
  BY DEF MappingRight
<1>1. NodeAfter = [k \in Nat |-> IF k <= n THEN s[k] ELSE NULL]
  BY NodesOfChain
<1>2. (\A k \in 0 .. n : NodeAfter[k] = s[k]) /\ \A k \in Nat : k > n => NodeAfter[k] = NULL
  BY <1>1
<1>3. n \in 0 .. Cardinality(Allocated)
  <2>1. s \in Injection(0 .. n, Allocated)
    BY DEF Chain, Injection, IsInjective
  <2>2. Cardinality(0 .. n) <= Cardinality(Allocated) /\ Cardinality(Allocated) \in Nat
    BY <2>1, FS_Injection, FS_CardinalityType DEF QueueTypeOK
  <2>3. Cardinality(0 .. n) = n + 1
    BY FS_Interval
  <2>. QED  BY <2>2, <2>3
<1>4. NodeAfter[n] \in Allocated /\ heap[NodeAfter[n]].next = NULL
  BY <1>2 DEF Chain
<1>5. ASSUME NEW m \in 0 .. Cardinality(Allocated),
             NodeAfter[m] \in Allocated, heap[NodeAfter[m]].next = NULL
      PROVE  m = n
  <2>1. m \in Nat /\ m <= n
    BY <1>2, <1>3, <1>5, QueueAssumption DEF QueueTypeOK
  <2>2. CASE m < n
    <3>1. m \in 0 .. n /\ m + 1 \in 1 .. n /\ (m + 1) - 1 = m
      BY <2>1, <2>2
    <3>2. heap[s[m]].next = s[m + 1]
      BY <3>1 DEF Chain
    <3>3. s[m + 1] # NULL
      BY <3>1, QueueAssumption
    <3>. QED  BY <1>2, <1>5, <3>1, <3>2, <3>3
  <2>. QED  BY <2>1, <2>2
<1>6. Length = n
  BY <1>3, <1>4, <1>5 DEF Length
<1>7. Items = [k \in 1 .. n |-> heap[s[k]].value]
  BY <1>2, <1>6 DEF Items
<1>. QED  BY <1>2, <1>6, <1>7

\* The same after a step.
LEMMA MappingHoldsNext == MappingRight'
BY MappingHolds, PTL

-----------------------------------------------------------------------------
(* Every step keeps the types and the counts.                              *)

NodeState == [value : Int, next : Links]
EnqueueState == [pc : {"malloc", "link", "tail"}, tmp : Links, i : Int, count : Nat]
DequeueState == [pc : {"lock", "next", "take", "free"}, tmp : Links, new_head : Links]

LEMMA Malloc1Types ==
  ASSUME QueueTypeOK, Counts, NEW t \in Enqueuers, Malloc1(t)
  PROVE  QueueTypeOK' /\ Counts'
<1>1. PICK x \in Nodes \ Allocated :
        /\ heap' = [y \in Allocated \cup {x} |->
                      IF y = x THEN [value |-> enqueuer[t].i, next |-> NULL] ELSE heap[y]]
        /\ enqueuer' = [enqueuer EXCEPT ![t].tmp = x, ![t].pc = "link"]
        /\ UNCHANGED <<head, tail, dequeuer, result>>
        /\ enqueuer[t].pc = "malloc" /\ enqueuer[t].count < MaxEnqueues
  BY DEF Malloc1
<1>2. DOMAIN heap' = Allocated \cup {x}
  BY <1>1
<1>3. DOMAIN heap' \subseteq Nodes /\ IsFiniteSet(DOMAIN heap')
  BY <1>2, FS_AddElement DEF QueueTypeOK
<1>4. enqueuer[t] \in EnqueueState
  BY DEF QueueTypeOK, EnqueueState
<1>5. heap' \in [DOMAIN heap' -> NodeState]
  <2>1. [value |-> enqueuer[t].i, next |-> NULL] \in NodeState
    BY <1>4 DEF EnqueueState, NodeState, Links
  <2>2. \A y \in Allocated : heap[y] \in NodeState
    BY DEF QueueTypeOK, NodeState
  <2>. QED  BY <1>1, <1>2, <2>1, <2>2
<1>6. enqueuer' \in [Enqueuers -> EnqueueState]
  <2>1. enqueuer' = [enqueuer EXCEPT ![t] = [enqueuer[t] EXCEPT !.tmp = x, !.pc = "link"]]
    BY <1>1
  <2>2. [enqueuer[t] EXCEPT !.tmp = x, !.pc = "link"] \in EnqueueState
    BY <1>4 DEF EnqueueState, Links
  <2>. QED  BY <2>1, <2>2 DEF QueueTypeOK, EnqueueState
<1>7. QueueTypeOK'
  BY <1>1, <1>3, <1>5, <1>6 DEF QueueTypeOK, NodeState, EnqueueState, Allocated
<1>8. Counts'
  BY <1>1 DEF Counts, QueueTypeOK
<1>. QED  BY <1>7, <1>8

\* Link writes into the last node of the list, which is allocated.
LEMMA LinkTypes ==
  ASSUME QueueTypeOK, Counts, NEW n \in Nat, NEW s \in [0 .. n -> Nodes], ListRight(n, s),
         NEW t \in Enqueuers, Link(t)
  PROVE  /\ QueueTypeOK' /\ Counts'
         /\ tail = s[n] /\ tail \in Allocated
         /\ enqueuer[t].pc = "link" /\ enqueuer' = [enqueuer EXCEPT ![t].pc = "tail"]
         /\ Allocated' = Allocated
         /\ \A x \in Allocated : heap'[x].value = heap[x].value
         /\ \A x \in Allocated : heap'[x].next = IF x = tail THEN enqueuer[t].tmp ELSE heap[x].next
<1>1. /\ heap' = [heap EXCEPT ![tail].next = enqueuer[t].tmp]
      /\ enqueuer' = [enqueuer EXCEPT ![t].pc = "tail"]
      /\ UNCHANGED <<head, tail, dequeuer, result>>
      /\ enqueuer[t].pc = "link"
      /\ \A u \in Enqueuers : enqueuer[u].pc # "tail"
  BY DEF Link, EnqGoes
<1>2. tail = s[n] /\ n \in 0 .. n
  BY <1>1 DEF ListRight, EnqueueRight
<1>3. tail \in Allocated
  BY <1>2 DEF ListRight, Chain
<1>4. enqueuer[t] \in EnqueueState /\ heap[tail] \in NodeState
  BY <1>3 DEF QueueTypeOK, EnqueueState, NodeState
<1>5. [heap[tail] EXCEPT !.next = enqueuer[t].tmp] \in NodeState
  BY <1>4 DEF NodeState, EnqueueState
<1>6. heap' = [heap EXCEPT ![tail] = [heap[tail] EXCEPT !.next = enqueuer[t].tmp]]
  BY <1>1
<1>7. heap' \in [Allocated -> NodeState] /\ Allocated' = Allocated
  BY <1>5, <1>6 DEF QueueTypeOK, NodeState, Allocated
<1>8. enqueuer' \in [Enqueuers -> EnqueueState]
  <2>1. enqueuer' = [enqueuer EXCEPT ![t] = [enqueuer[t] EXCEPT !.pc = "tail"]]
    BY <1>1
  <2>2. [enqueuer[t] EXCEPT !.pc = "tail"] \in EnqueueState
    BY <1>4 DEF EnqueueState
  <2>. QED  BY <2>1, <2>2 DEF QueueTypeOK, EnqueueState
<1>9. QueueTypeOK'
  BY <1>1, <1>7, <1>8 DEF QueueTypeOK, NodeState, EnqueueState, Allocated
<1>10. Counts'
  BY <1>1 DEF Counts, QueueTypeOK
<1>11. \A x \in Allocated : heap'[x] = IF x = tail THEN [heap[tail] EXCEPT !.next = enqueuer[t].tmp] ELSE heap[x]
  BY <1>3, <1>6 DEF QueueTypeOK, Allocated
<1>12. \A x \in Allocated : heap[x] \in NodeState
  BY DEF QueueTypeOK, NodeState
<1>13. \A x \in Allocated :
         /\ heap'[x].value = heap[x].value
         /\ heap'[x].next = IF x = tail THEN enqueuer[t].tmp ELSE heap[x].next
  BY <1>4, <1>11, <1>12 DEF NodeState
<1>. QED  BY <1>1, <1>2, <1>3, <1>7, <1>9, <1>10, <1>13

LEMMA SetTailTypes ==
  ASSUME QueueTypeOK, Counts, NEW t \in Enqueuers, SetTail(t)
  PROVE  QueueTypeOK' /\ Counts'
<1>1. /\ enqueuer' = [enqueuer EXCEPT ![t] = [pc |-> "malloc", tmp |-> NULL, i |-> enqueuer[t].i + 1,
                                              count |-> enqueuer[t].count + 1]]
      /\ UNCHANGED <<heap, head, dequeuer, result>>
      /\ enqueuer[t].pc = "tail"
  BY DEF SetTail
<1>2. enqueuer[t] \in EnqueueState
  BY DEF QueueTypeOK, EnqueueState
<1>3. [pc |-> "malloc", tmp |-> NULL, i |-> enqueuer[t].i + 1, count |-> enqueuer[t].count + 1]
        \in EnqueueState
  BY <1>2 DEF EnqueueState, Links
<1>4. enqueuer' \in [Enqueuers -> EnqueueState]
  BY <1>1, <1>3 DEF QueueTypeOK, EnqueueState
<1>5. QueueTypeOK'
  BY <1>1, <1>4 DEF QueueTypeOK, EnqueueState, Allocated
<1>6. Counts'
  <2>1. \A u \in Enqueuers : u # t => enqueuer'[u] = enqueuer[u]
    BY <1>1 DEF QueueTypeOK
  <2>2. /\ enqueuer'[t].i = enqueuer[t].i + 1 /\ enqueuer'[t].pc = "malloc"
        /\ enqueuer'[t].count = enqueuer[t].count + 1
    BY <1>1 DEF QueueTypeOK
  <2>3. PICK v \in StartValues : enqueuer[t].i = v + enqueuer[t].count
    BY DEF Counts
  <2>4. enqueuer[t].count < MaxEnqueues /\ enqueuer[t].count \in Nat /\ v \in Int
    BY <1>1, <1>2, QueueAssumption DEF Counts, EnqueueState
  <2>5. enqueuer'[t].i = v + enqueuer'[t].count /\ enqueuer'[t].count <= MaxEnqueues
    BY <2>2, <2>3, <2>4, QueueAssumption
  <2>. QED  BY <2>1, <2>2, <2>5 DEF Counts
<1>. QED  BY <1>5, <1>6

\* A dequeuer that moves on, with or without a node in hand.
LEMMA DequeuerTypes ==
  ASSUME QueueTypeOK, Counts, NEW d \in Dequeuers, NEW r \in DequeueState,
         dequeuer' = [dequeuer EXCEPT ![d] = r], UNCHANGED <<heap, enqueuer>>
  PROVE  QueueTypeOK' /\ Counts'
<1>1. dequeuer' \in [Dequeuers -> DequeueState]
  BY DEF QueueTypeOK, DequeueState
<1>2. QueueTypeOK'
  BY <1>1 DEF QueueTypeOK, DequeueState, Allocated
<1>. QED  BY <1>2 DEF Counts

LEMMA Free1Types ==
  ASSUME QueueTypeOK, Counts, NEW d \in Dequeuers, Free1(d)
  PROVE  /\ QueueTypeOK' /\ Counts'
         /\ Allocated' = Allocated \ {dequeuer[d].tmp}
         /\ \A x \in Allocated' : heap'[x] = heap[x]
<1>1. /\ heap' = [x \in Allocated \ {dequeuer[d].tmp} |-> heap[x]]
      /\ dequeuer' = [dequeuer EXCEPT ![d] = [pc |-> "lock", tmp |-> NULL, new_head |-> NULL]]
      /\ UNCHANGED <<head, tail, enqueuer, result>>
  BY DEF Free1
<1>2. DOMAIN heap' = Allocated \ {dequeuer[d].tmp}
  BY <1>1
<1>3. DOMAIN heap' \subseteq Nodes /\ IsFiniteSet(DOMAIN heap')
  BY <1>2, FS_Subset DEF QueueTypeOK
<1>4. heap' \in [DOMAIN heap' -> NodeState] /\ \A x \in DOMAIN heap' : heap'[x] = heap[x]
  BY <1>1, <1>2 DEF QueueTypeOK, NodeState
<1>5. dequeuer' \in [Dequeuers -> DequeueState]
  BY <1>1 DEF QueueTypeOK, DequeueState, Links
<1>6. QueueTypeOK'
  BY <1>1, <1>3, <1>4, <1>5 DEF QueueTypeOK, NodeState, DequeueState, Allocated
<1>7. Counts'
  BY <1>1 DEF Counts
<1>. QED  BY <1>2, <1>4, <1>6, <1>7 DEF Allocated

-----------------------------------------------------------------------------
(* Every step keeps the list, or extends it at one end.                    *)

\* What the mapping shows changes only with the list and the values on it.
LEMMA SameItems ==
  ASSUME QueueTypeOK, QueueTypeOK', NEW n \in Nat, NEW s \in [0 .. n -> Nodes],
         Chain(n, s), Chain(n, s)', \A k \in 0 .. n : heap'[s[k]] = heap[s[k]]
  PROVE  Items' = Items
<1>1. Items = [k \in 1 .. n |-> heap[s[k]].value]
  BY MappingHolds DEF MappingRight
<1>2. Items' = [k \in 1 .. n |-> heap'[s[k]].value]
  BY MappingHoldsNext DEF MappingRight
<1>. QED  BY <1>1, <1>2

\* The new node is none of the list, and no other thread has it.
LEMMA Malloc1List ==
  ASSUME QueueTypeOK, Counts, NEW n \in Nat, NEW s \in [0 .. n -> Nodes], ListRight(n, s),
         NEW t \in Enqueuers, Malloc1(t)
  PROVE  ListRight(n, s)' /\ Items' = Items /\ result' = result
<1>1. PICK x \in Nodes \ Allocated :
        /\ heap' = [y \in Allocated \cup {x} |->
                      IF y = x THEN [value |-> enqueuer[t].i, next |-> NULL] ELSE heap[y]]
        /\ enqueuer' = [enqueuer EXCEPT ![t].tmp = x, ![t].pc = "link"]
        /\ UNCHANGED <<head, tail, dequeuer, result>>
        /\ enqueuer[t].pc = "malloc"
  BY DEF Malloc1
<1>2. /\ Allocated' = Allocated \cup {x}
      /\ \A y \in Allocated : heap'[y] = heap[y]
      /\ heap'[x] = [value |-> enqueuer[t].i, next |-> NULL]
  BY <1>1 DEF Allocated
<1>3. n \in 0 .. n /\ \A k \in 0 .. n : s[k] \in Allocated /\ s[k] # x
  BY <1>1 DEF ListRight, Chain
<1>4. \A k \in 1 .. n : k - 1 \in 0 .. n
  OBVIOUS
<1>5. Chain(n, s)'
  BY <1>1, <1>2, <1>3, <1>4 DEF ListRight, Chain
<1>6. /\ enqueuer'[t].pc = "link" /\ enqueuer'[t].tmp = x /\ enqueuer'[t].i = enqueuer[t].i
      /\ \A u \in Enqueuers : u # t => enqueuer'[u] = enqueuer[u]
  BY <1>1 DEF QueueTypeOK
<1>7. \A u \in Enqueuers : enqueuer[u].pc = "link" => enqueuer[u].tmp \in Allocated /\ enqueuer[u].tmp # x
  BY <1>1 DEF ListRight, EnqueueRight, OffChain
<1>8. EnqueueRight(n, s)'
  <2>1. \A u \in Enqueuers : enqueuer'[u].pc = "link" =>
          /\ OffChain(n, s, enqueuer[u].tmp)' 
          /\ heap'[enqueuer'[u].tmp] = [value |-> enqueuer'[u].i, next |-> NULL]
    BY <1>2, <1>3, <1>6, <1>7 DEF ListRight, EnqueueRight, OffChain
  <2>2. \A u \in Enqueuers : enqueuer'[u].pc = "tail" => enqueuer'[u].tmp = s[n]
    BY <1>6 DEF ListRight, EnqueueRight
  <2>3. \A u, w \in Enqueuers :
          /\ enqueuer'[u].pc = "tail" /\ enqueuer'[w].pc = "tail" => u = w
          /\ enqueuer'[u].pc = "link" /\ enqueuer'[w].pc = "link"
             /\ enqueuer'[u].tmp = enqueuer'[w].tmp => u = w
    BY <1>6, <1>7 DEF ListRight, EnqueueRight
  <2>4. (\A u \in Enqueuers : enqueuer'[u].pc # "tail") => tail' = s[n]
    BY <1>1, <1>6 DEF ListRight, EnqueueRight
  <2>. QED  BY <2>1, <2>2, <2>3, <2>4 DEF EnqueueRight
<1>9. DequeueRight(n, s)'
  <2>1. ASSUME NEW d \in Dequeuers, dequeuer[d].pc = "free"
        PROVE  /\ dequeuer[d].tmp \in Allocated' /\ \A k \in 0 .. n : s[k] # dequeuer[d].tmp
               /\ \A u \in Enqueuers : enqueuer'[u].pc = "link" => enqueuer'[u].tmp # dequeuer[d].tmp
    <3>1. /\ OffChain(n, s, dequeuer[d].tmp) /\ dequeuer[d].tmp \in Allocated
          /\ \A u \in Enqueuers : enqueuer[u].pc = "link" => enqueuer[u].tmp # dequeuer[d].tmp
      BY <2>1 DEF ListRight, DequeueRight, OffChain
    <3>2. dequeuer[d].tmp # x /\ dequeuer[d].tmp \in Allocated'
      BY <1>1, <1>2, <3>1
    <3>. QED  BY <1>6, <3>1, <3>2 DEF OffChain
  <2>2. dequeuer' = dequeuer /\ head' = head
    BY <1>1
  <2>3. \A d \in Dequeuers :
          /\ dequeuer[d].pc = "lock" => dequeuer[d].tmp = NULL
          /\ dequeuer[d].pc \in {"next", "take"} => dequeuer[d].tmp = s[0]
          /\ dequeuer[d].pc = "take" => n # 0 /\ dequeuer[d].new_head = s[1]
    BY DEF ListRight, DequeueRight
  <2>4. \A d, e \in Dequeuers :
          /\ dequeuer[d].pc \in {"next", "take"} /\ dequeuer[e].pc \in {"next", "take"} => d = e
          /\ dequeuer[d].pc = "free" /\ dequeuer[e].pc = "free"
             /\ dequeuer[d].tmp = dequeuer[e].tmp => d = e
    BY DEF ListRight, DequeueRight
  <2>. QED  BY <2>1, <2>2, <2>3, <2>4 DEF DequeueRight, OffChain
<1>10. Items' = Items
  BY <1>2, <1>3, <1>5, SameItems, Malloc1Types DEF ListRight
<1>. QED  BY <1>1, <1>5, <1>8, <1>9, <1>10 DEF ListRight

\* The node is linked behind the last one: the list is one longer.
LEMMA LinkList ==
  ASSUME QueueTypeOK, Counts, NEW n \in Nat, NEW s \in [0 .. n -> Nodes], ListRight(n, s),
         NEW t \in Enqueuers, Link(t)
  PROVE  /\ \E r \in [0 .. n + 1 -> Nodes] : ListRight(n + 1, r)'
         /\ \E v \in Enqueued : Items' = Append(Items, v)
         /\ result' = result
<1>1. /\ QueueTypeOK' /\ Counts'
      /\ tail = s[n] /\ tail \in Allocated
      /\ enqueuer[t].pc = "link" /\ enqueuer' = [enqueuer EXCEPT ![t].pc = "tail"]
      /\ Allocated' = Allocated
      /\ \A y \in Allocated : heap'[y].value = heap[y].value
      /\ \A y \in Allocated : heap'[y].next = IF y = tail THEN enqueuer[t].tmp ELSE heap[y].next
  BY LinkTypes
<1>2. /\ UNCHANGED <<head, tail, dequeuer, result>>
      /\ \A u \in Enqueuers : enqueuer[u].pc # "tail"
      /\ heap' = [heap EXCEPT ![tail].next = enqueuer[t].tmp]
  BY DEF Link
<1>3. PICK x \in Nodes : x = enqueuer[t].tmp /\ OffChain(n, s, x)
                         /\ heap[x] = [value |-> enqueuer[t].i, next |-> NULL]
  BY <1>1 DEF ListRight, EnqueueRight, OffChain, QueueTypeOK
<1>. DEFINE r == [k \in 0 .. n + 1 |-> IF k = n + 1 THEN x ELSE s[k]]
<1>4. r \in [0 .. n + 1 -> Nodes] /\ r[n + 1] = x /\ \A k \in 0 .. n : r[k] = s[k] /\ k # n + 1
  OBVIOUS
<1>5. /\ \A k \in 0 .. n + 1 : k = n + 1 \/ k \in 0 .. n
      /\ \A k \in 1 .. n + 1 : k - 1 \in 0 .. n /\ (k = n + 1 \/ (k \in 1 .. n /\ k - 1 # n))
      /\ (n + 1) - 1 = n /\ 0 \in 0 .. n /\ n \in 0 .. n /\ n + 1 # 0 /\ n + 1 \in Nat
      /\ n + 1 \in 0 .. n + 1 /\ \A k \in 0 .. n : k \in 0 .. n + 1
      /\ n # 0 => 1 \in 0 .. n
  OBVIOUS
<1>. HIDE DEF r
<1>6. Chain(n, s) /\ x \in Allocated /\ \A k \in 0 .. n : s[k] \in Allocated /\ s[k] # x
  BY <1>3 DEF ListRight, Chain, OffChain
<1>7. Chain(n + 1, r)'
  <2>1. r[0] = head'
    BY <1>2, <1>4, <1>5, <1>6 DEF Chain
  <2>2. \A k \in 0 .. n + 1 : r[k] \in Allocated'
    BY <1>1, <1>4, <1>5, <1>6
  <2>3. heap'[r[n + 1]].next = NULL
    <3>1. x # tail
      BY <1>1, <1>5, <1>6
    <3>. QED  BY <1>1, <1>3, <1>4, <1>6, <3>1
  <2>4. ASSUME NEW k \in 1 .. n + 1 PROVE heap'[r[k - 1]].next = r[k]
    <3>1. CASE k = n + 1
      BY <1>1, <1>3, <1>4, <1>5, <1>6, <3>1
    <3>2. CASE k \in 1 .. n /\ k - 1 # n /\ k - 1 \in 0 .. n
      <4>1. s[k - 1] # s[n] /\ s[k - 1] \in Allocated /\ heap[s[k - 1]].next = s[k]
        BY <1>5, <1>6, <3>2 DEF Chain
      <4>2. k \in 0 .. n
        BY <3>2
      <4>. QED  BY <1>1, <1>4, <3>2, <4>1, <4>2
    <3>. QED  BY <1>5, <3>1, <3>2
  <2>5. ASSUME NEW j \in 0 .. n + 1, NEW k \in 0 .. n + 1, r[j] = r[k] PROVE j = k
    <3>1. \A a, b \in 0 .. n : s[a] = s[b] => a = b
      BY <1>6 DEF Chain
    <3>. QED  BY <1>4, <1>5, <1>6, <2>5, <3>1
  <2>. QED  BY <2>1, <2>2, <2>3, <2>4, <2>5 DEF Chain
<1>8. /\ enqueuer'[t].pc = "tail" /\ enqueuer'[t].tmp = x
      /\ \A u \in Enqueuers : u # t => enqueuer'[u] = enqueuer[u]
  BY <1>1, <1>3 DEF QueueTypeOK
<1>9. EnqueueRight(n + 1, r)'
  <2>1. ASSUME NEW u \in Enqueuers, enqueuer'[u].pc = "link"
        PROVE  /\ OffChain(n + 1, r, enqueuer[u].tmp)'
               /\ heap'[enqueuer'[u].tmp] = [value |-> enqueuer'[u].i, next |-> NULL]
    <3>1. u # t /\ enqueuer'[u] = enqueuer[u] /\ enqueuer[u].pc = "link"
      BY <1>8, <2>1
    <3>2. PICK y \in Nodes : y = enqueuer[u].tmp /\ OffChain(n, s, y) /\ y # x
                             /\ heap[y] = [value |-> enqueuer[u].i, next |-> NULL]
      BY <1>1, <1>3, <3>1 DEF ListRight, EnqueueRight, OffChain, QueueTypeOK
    <3>3. y # tail /\ y \in Allocated
      BY <1>1, <1>5, <3>2 DEF OffChain
    <3>4. heap'[y] = heap[y]
      BY <1>2, <3>3 DEF QueueTypeOK
    <3>5. \A k \in 0 .. n + 1 : r[k] # y
      BY <1>4, <1>5, <3>2 DEF OffChain
    <3>. QED  BY <1>1, <3>1, <3>2, <3>3, <3>4, <3>5 DEF OffChain
  <2>2. \A u \in Enqueuers : enqueuer'[u].pc = "tail" => u = t
    BY <1>2, <1>8
  <2>3. \A u, w \in Enqueuers :
          /\ enqueuer'[u].pc = "tail" /\ enqueuer'[w].pc = "tail" => u = w
          /\ enqueuer'[u].pc = "link" /\ enqueuer'[w].pc = "link"
             /\ enqueuer'[u].tmp = enqueuer'[w].tmp => u = w
    BY <1>8, <2>2 DEF ListRight, EnqueueRight
  <2>. QED  BY <1>4, <1>8, <2>1, <2>2, <2>3 DEF EnqueueRight
<1>10. DequeueRight(n + 1, r)'
  <2>1. ASSUME NEW d \in Dequeuers, dequeuer[d].pc = "free"
        PROVE  /\ dequeuer[d].tmp \in Allocated' /\ \A k \in 0 .. n + 1 : r[k] # dequeuer[d].tmp
               /\ \A u \in Enqueuers : enqueuer'[u].pc = "link" => enqueuer'[u].tmp # dequeuer[d].tmp
    <3>1. /\ OffChain(n, s, dequeuer[d].tmp) /\ dequeuer[d].tmp \in Allocated
          /\ \A u \in Enqueuers : enqueuer[u].pc = "link" => enqueuer[u].tmp # dequeuer[d].tmp
      BY <2>1 DEF ListRight, DequeueRight, OffChain
    <3>2. dequeuer[d].tmp # x
      BY <1>1, <1>3, <3>1
    <3>3. \A k \in 0 .. n + 1 : r[k] # dequeuer[d].tmp
      BY <1>4, <1>5, <3>1, <3>2 DEF OffChain
    <3>. QED  BY <1>1, <1>8, <3>1, <3>3
  <2>2. dequeuer' = dequeuer
    BY <1>2
  <2>3. \A d \in Dequeuers :
          /\ dequeuer[d].pc = "lock" => dequeuer[d].tmp = NULL
          /\ dequeuer[d].pc \in {"next", "take"} => dequeuer[d].tmp = r[0]
          /\ dequeuer[d].pc = "take" => n + 1 # 0 /\ dequeuer[d].new_head = r[1]
    <3>1. r[0] = s[0] /\ (n # 0 => r[1] = s[1])
      BY <1>4, <1>5
    <3>. QED  BY <1>5, <3>1 DEF ListRight, DequeueRight
  <2>4. \A d, e \in Dequeuers :
          /\ dequeuer[d].pc \in {"next", "take"} /\ dequeuer[e].pc \in {"next", "take"} => d = e
          /\ dequeuer[d].pc = "free" /\ dequeuer[e].pc = "free"
             /\ dequeuer[d].tmp = dequeuer[e].tmp => d = e
    BY DEF ListRight, DequeueRight
  <2>. QED  BY <2>1, <2>2, <2>3, <2>4 DEF DequeueRight, OffChain
<1>11. \E v \in Enqueued : Items' = Append(Items, v)
  <2>1. Items = [k \in 1 .. n |-> heap[s[k]].value]
    BY <1>6, MappingHolds DEF MappingRight
  <2>2. Items' = [k \in 1 .. n + 1 |-> heap'[r[k]].value]
    BY <1>1, <1>4, <1>5, <1>7, MappingHoldsNext DEF MappingRight
  <2>3. PICK v \in Int : v = enqueuer[t].i /\ v \in Enqueued
    <3>1. PICK w \in StartValues : enqueuer[t].i = w + enqueuer[t].count
      BY DEF Counts
    <3>2. enqueuer[t].count \in Nat /\ enqueuer[t].count <= MaxEnqueues /\ enqueuer[t].i \in Int
      BY DEF Counts, QueueTypeOK
    <3>3. enqueuer[t].count \in 0 .. MaxEnqueues
      BY <3>2, QueueAssumption
    <3>. QED  BY <3>1, <3>2, <3>3 DEF Enqueued
  <2>4. heap'[r[n + 1]].value = v /\ \A k \in 1 .. n : heap'[r[k]].value = heap[s[k]].value
    <3>1. heap'[x].value = v
      BY <1>1, <1>3, <1>6, <2>3
    <3>2. \A k \in 1 .. n : k \in 0 .. n
      OBVIOUS
    <3>. QED  BY <1>1, <1>4, <1>6, <3>1, <3>2
  <2>5. Append(Items, v) = [k \in 1 .. n + 1 |-> IF k = n + 1 THEN v ELSE Items[k]]
    <3>1. \A k \in 1 .. n : heap[s[k]].value \in Int
      <4>1. \A k \in 1 .. n : k \in 0 .. n
        OBVIOUS
      <4>. QED  BY <1>6, <4>1 DEF QueueTypeOK
    <3>2. Items \in [1 .. n -> Int]
      BY <2>1, <3>1
    <3>3. Items \in Seq(Int) /\ Len(Items) = n
      <4>. HIDE DEF Items
      <4>. QED  BY <3>2
    <3>. HIDE DEF Items
    <3>. QED  BY <3>3
  <2>6. \A k \in 1 .. n + 1 : heap'[r[k]].value = IF k = n + 1 THEN v ELSE Items[k]
    BY <1>5, <2>1, <2>4
  <2>. HIDE DEF Items
  <2>. QED  BY <2>2, <2>3, <2>5, <2>6
<1>. QED  BY <1>2, <1>4, <1>7, <1>9, <1>10, <1>11 DEF ListRight

\* The tail catches up with the list.
LEMMA SetTailList ==
  ASSUME QueueTypeOK, Counts, NEW n \in Nat, NEW s \in [0 .. n -> Nodes], ListRight(n, s),
         NEW t \in Enqueuers, SetTail(t)
  PROVE  ListRight(n, s)' /\ Items' = Items /\ result' = result
<1>1. /\ UNCHANGED <<heap, head, dequeuer, result>> /\ Allocated' = Allocated
      /\ enqueuer[t].pc = "tail" /\ tail' = enqueuer[t].tmp
      /\ enqueuer'[t].pc = "malloc"
      /\ \A u \in Enqueuers : u # t => enqueuer'[u] = enqueuer[u]
  BY DEF SetTail, QueueTypeOK, Allocated
<1>2. Chain(n, s)'
  BY <1>1 DEF ListRight, Chain
<1>3. EnqueueRight(n, s)'
  <2>1. \A u \in Enqueuers : enqueuer'[u].pc = "link" =>
          /\ enqueuer'[u].tmp \in Allocated' /\ \A k \in 0 .. n : s[k] # enqueuer'[u].tmp
          /\ heap'[enqueuer'[u].tmp] = [value |-> enqueuer'[u].i, next |-> NULL]
    BY <1>1 DEF ListRight, EnqueueRight, OffChain
  <2>2. \A u \in Enqueuers : enqueuer'[u].pc # "tail"
    BY <1>1 DEF ListRight, EnqueueRight
  <2>3. \A u, w \in Enqueuers : enqueuer'[u].pc = "link" /\ enqueuer'[w].pc = "link"
                                /\ enqueuer'[u].tmp = enqueuer'[w].tmp => u = w
    BY <1>1 DEF ListRight, EnqueueRight
  <2>4. tail' = s[n]
    BY <1>1 DEF ListRight, EnqueueRight
  <2>. QED  BY <2>1, <2>2, <2>3, <2>4 DEF EnqueueRight, OffChain
<1>4. DequeueRight(n, s)'
  <2>1. \A u \in Enqueuers : enqueuer'[u].pc = "link" => enqueuer'[u] = enqueuer[u]
    BY <1>1
  <2>2. Allocated' = Allocated /\ dequeuer' = dequeuer
    BY <1>1
  <2>. QED  BY <2>1, <2>2 DEF ListRight, DequeueRight, OffChain
<1>5. Items' = Items
  BY <1>1, <1>2, SameItems, SetTailTypes DEF ListRight
<1>. QED  BY <1>1, <1>2, <1>3, <1>4, <1>5 DEF ListRight

\* A dequeuer that holds head_lock and leaves the list as it is.
LEMMA HeadHolder ==
  ASSUME QueueTypeOK, Counts, NEW n \in Nat, NEW s \in [0 .. n -> Nodes], ListRight(n, s),
         UNCHANGED <<heap, head, tail, enqueuer>>,
         NEW d \in Dequeuers, NEW r \in DequeueState, dequeuer' = [dequeuer EXCEPT ![d] = r],
         \A e \in Dequeuers : e # d => dequeuer[e].pc \notin {"next", "take"},
         r.pc # "free", r.pc = "lock" => r.tmp = NULL,
         r.pc \in {"next", "take"} => r.tmp = s[0],
         r.pc = "take" => n # 0 /\ r.new_head = s[1]
  PROVE  QueueTypeOK' /\ Counts' /\ ListRight(n, s)' /\ Items' = Items
<1>1. QueueTypeOK' /\ Counts'
  BY DequeuerTypes
<1>2. Allocated' = Allocated /\ Chain(n, s)'
  BY DEF ListRight, Chain, Allocated
<1>3. EnqueueRight(n, s)'
  BY <1>2 DEF ListRight, EnqueueRight, OffChain
<1>4. dequeuer'[d] = r /\ \A e \in Dequeuers : e # d => dequeuer'[e] = dequeuer[e]
  BY DEF QueueTypeOK
<1>5. DequeueRight(n, s)'
  <2>1. ASSUME NEW e \in Dequeuers
        PROVE  /\ dequeuer'[e].pc = "lock" => dequeuer'[e].tmp = NULL
               /\ dequeuer'[e].pc \in {"next", "take"} => dequeuer'[e].tmp = s[0]
               /\ dequeuer'[e].pc = "take" => n # 0 /\ dequeuer'[e].new_head = s[1]
    BY <1>4 DEF ListRight, DequeueRight
  <2>2. ASSUME NEW e \in Dequeuers, dequeuer'[e].pc = "free"
        PROVE  /\ dequeuer'[e].tmp \in Allocated' /\ \A k \in 0 .. n : s[k] # dequeuer'[e].tmp
               /\ \A t \in Enqueuers : enqueuer'[t].pc = "link" => enqueuer'[t].tmp # dequeuer'[e].tmp
    BY <1>2, <1>4, <2>2 DEF ListRight, DequeueRight, OffChain
  <2>3. \A e, f \in Dequeuers :
          /\ dequeuer'[e].pc \in {"next", "take"} /\ dequeuer'[f].pc \in {"next", "take"} => e = f
          /\ dequeuer'[e].pc = "free" /\ dequeuer'[f].pc = "free"
             /\ dequeuer'[e].tmp = dequeuer'[f].tmp => e = f
    BY <1>4 DEF ListRight, DequeueRight
  <2>. QED  BY <2>1, <2>2, <2>3 DEF DequeueRight, OffChain
<1>6. Items' = Items
  BY <1>1, <1>2, SameItems DEF ListRight
<1>. QED  BY <1>1, <1>2, <1>3, <1>5, <1>6 DEF ListRight

LEMMA TakeHeadList ==
  ASSUME QueueTypeOK, Counts, NEW n \in Nat, NEW s \in [0 .. n -> Nodes], ListRight(n, s),
         NEW d \in Dequeuers, TakeHead(d)
  PROVE  QueueTypeOK' /\ Counts' /\ ListRight(n, s)' /\ Items' = Items /\ result' = result
<1>1. /\ UNCHANGED <<heap, head, tail, enqueuer>> /\ result' = result
      /\ \A e \in Dequeuers : dequeuer[e].pc \notin {"next", "take"}
      /\ dequeuer' = [dequeuer EXCEPT ![d].tmp = head, ![d].pc = "next"]
  BY DEF TakeHead
<1>2. head = s[0] /\ s[0] \in Nodes
  BY DEF ListRight, Chain
<1>3. PICK r \in DequeueState : r = [dequeuer[d] EXCEPT !.tmp = head, !.pc = "next"]
  BY <1>2 DEF QueueTypeOK, DequeueState, Links
<1>4. dequeuer[d] \in DequeueState
  BY DEF QueueTypeOK, DequeueState
<1>5. r.pc = "next" /\ r.tmp = s[0]
  BY <1>2, <1>3, <1>4 DEF DequeueState
<1>6. dequeuer' = [dequeuer EXCEPT ![d] = r]
  BY <1>1, <1>3
<1>7. QueueTypeOK' /\ Counts' /\ ListRight(n, s)' /\ Items' = Items
  <2>1. UNCHANGED <<heap, head, tail, enqueuer>> /\ \A e \in Dequeuers : e # d => dequeuer[e].pc \notin {"next", "take"}
    BY <1>1
  <2>. QED  BY <1>5, <1>6, <2>1, HeadHolder
<1>. QED  BY <1>1, <1>7

\* The node behind the head, if there is one, is the next of the list: a
\* dequeue that finds none finds the queue empty.
LEMMA ReadNextList ==
  ASSUME QueueTypeOK, Counts, NEW n \in Nat, NEW s \in [0 .. n -> Nodes], ListRight(n, s),
         NEW d \in Dequeuers, ReadNext(d)
  PROVE  /\ QueueTypeOK' /\ Counts' /\ ListRight(n, s)' /\ Items' = Items
         /\ \/ result' = result
            \/ Items = <<>> /\ result' = [result EXCEPT ![d] = <<>>]
<1>1. /\ UNCHANGED <<heap, head, tail, enqueuer>> /\ dequeuer[d].pc = "next"
      /\ dequeuer[d].tmp = s[0]
      /\ \A e \in Dequeuers : e # d => dequeuer[e].pc \notin {"next", "take"}
  BY DEF ReadNext, ListRight, DequeueRight
<1>2. dequeuer[d] \in DequeueState
  BY DEF QueueTypeOK, DequeueState
<1>3. s[0] \in Allocated /\ heap[s[0]].next = IF n = 0 THEN NULL ELSE s[1]
  <2>1. 0 \in 0 .. n /\ (n # 0 => 1 \in 1 .. n /\ 1 - 1 = 0)
    OBVIOUS
  <2>. QED  BY <2>1 DEF ListRight, Chain
<1>4. CASE n = 0
  <2>1. /\ dequeuer' = [dequeuer EXCEPT ![d].tmp = NULL, ![d].pc = "lock"]
        /\ result' = [result EXCEPT ![d] = <<>>]
    BY <1>1, <1>3, <1>4 DEF ReadNext
  <2>2. PICK r \in DequeueState : r = [dequeuer[d] EXCEPT !.tmp = NULL, !.pc = "lock"]
    BY <1>2 DEF DequeueState, Links
  <2>3. r.pc = "lock" /\ r.tmp = NULL
    BY <1>2, <2>2 DEF DequeueState
  <2>4. dequeuer' = [dequeuer EXCEPT ![d] = r]
    BY <2>1, <2>2
  <2>5. QueueTypeOK' /\ Counts' /\ ListRight(n, s)' /\ Items' = Items
    BY <1>1, <2>3, <2>4, HeadHolder
  <2>6. Items = <<>>
    <3>1. Items = [k \in 1 .. 0 |-> heap[s[k]].value]
      BY <1>4, MappingHolds DEF MappingRight, ListRight
    <3>. QED  BY <3>1
  <2>. QED  BY <2>1, <2>5, <2>6
<1>5. CASE n # 0
  <2>0. s[1] \in Nodes /\ s[1] # NULL
    <3>1. 1 \in 0 .. n
      BY <1>5
    <3>. QED  BY <3>1, QueueAssumption
  <2>1. /\ dequeuer' = [dequeuer EXCEPT ![d].new_head = s[1], ![d].pc = "take"]
        /\ result' = result
    BY <1>1, <1>3, <1>5, <2>0 DEF ReadNext
  <2>2. PICK r \in DequeueState : r = [dequeuer[d] EXCEPT !.new_head = s[1], !.pc = "take"]
    BY <1>2, <2>0 DEF DequeueState, Links
  <2>3. r.pc = "take" /\ r.tmp = s[0] /\ r.new_head = s[1]
    BY <1>1, <1>2, <2>2 DEF DequeueState
  <2>4. dequeuer' = [dequeuer EXCEPT ![d] = r]
    BY <2>1, <2>2
  <2>5. QueueTypeOK' /\ Counts' /\ ListRight(n, s)' /\ Items' = Items
    BY <1>1, <1>5, <2>3, <2>4, HeadHolder
  <2>. QED  BY <2>1, <2>5
<1>. QED  BY <1>4, <1>5

\* The head moves to the next node: the list is one shorter, and the old head
\* is left to the dequeuer.
LEMMA SetHeadList ==
  ASSUME QueueTypeOK, Counts, NEW n \in Nat, NEW s \in [0 .. n -> Nodes], ListRight(n, s),
         NEW d \in Dequeuers, SetHead(d)
  PROVE  /\ QueueTypeOK' /\ Counts'
         /\ n # 0 /\ \E r \in [0 .. n - 1 -> Nodes] : ListRight(n - 1, r)'
         /\ Items # <<>> /\ Items' = Tail(Items)
         /\ result' = [result EXCEPT ![d] = <<Head(Items)>>]
<1>1. /\ UNCHANGED <<heap, tail, enqueuer>> /\ Allocated' = Allocated
      /\ dequeuer[d].pc = "take" /\ dequeuer[d].tmp = s[0]
      /\ n # 0 /\ dequeuer[d].new_head = s[1] /\ head' = s[1]
      /\ result' = [result EXCEPT ![d] = <<heap[s[1]].value>>]
      /\ dequeuer' = [dequeuer EXCEPT ![d].pc = "free"]
      /\ \A e \in Dequeuers : e # d => dequeuer[e].pc \notin {"next", "take"}
  BY DEF SetHead, ListRight, DequeueRight, Allocated
<1>2. dequeuer[d] \in DequeueState
  BY DEF QueueTypeOK, DequeueState
<1>3. QueueTypeOK' /\ Counts'
  <2>1. PICK q \in DequeueState : q = [dequeuer[d] EXCEPT !.pc = "free"]
    BY <1>2 DEF DequeueState
  <2>2. dequeuer' = [dequeuer EXCEPT ![d] = q] /\ UNCHANGED <<heap, enqueuer>>
    BY <1>1, <2>1
  <2>. QED  BY <2>2, DequeuerTypes
<1>. DEFINE r == [k \in 0 .. n - 1 |-> s[k + 1]]
<1>4. /\ n - 1 \in Nat /\ 0 \in 0 .. n - 1 /\ n - 1 \in 0 .. n - 1 /\ (n - 1) + 1 = n /\ 0 + 1 = 1
      /\ 0 \in 0 .. n /\ 1 \in 0 .. n /\ n \in 0 .. n
      /\ \A k \in 0 .. n - 1 : k + 1 \in 0 .. n /\ k + 1 # 0
      /\ \A k \in 1 .. n - 1 : k - 1 \in 0 .. n - 1 /\ k \in 0 .. n - 1 /\ k + 1 \in 1 .. n
                               /\ (k + 1) - 1 = k /\ (k - 1) + 1 = k
      /\ \A j, k \in 0 .. n - 1 : j + 1 = k + 1 => j = k
  <2>1. n # 0
    BY <1>1
  <2>2. \A k \in 1 .. n - 1 : k - 1 \in 0 .. n - 1 /\ k \in 0 .. n - 1 /\ k + 1 \in 1 .. n
                               /\ (k + 1) - 1 = k /\ (k - 1) + 1 = k
    BY <2>1
  <2>3. /\ \A k \in 0 .. n - 1 : k + 1 \in 0 .. n /\ k + 1 # 0
        /\ \A j, k \in 0 .. n - 1 : j + 1 = k + 1 => j = k
    BY <2>1
  <2>. QED  BY <2>1, <2>2, <2>3
<1>5. r \in [0 .. n - 1 -> Nodes] /\ \A k \in 0 .. n - 1 : r[k] = s[k + 1]
  BY <1>4
<1>. HIDE DEF r
<1>6. /\ \A k \in 0 .. n : s[k] \in Allocated
      /\ \A k \in 1 .. n : heap[s[k - 1]].next = s[k]
      /\ heap[s[n]].next = NULL
      /\ \A j, k \in 0 .. n : s[j] = s[k] => j = k
      /\ Chain(n, s)
  BY DEF ListRight, Chain
<1>7. Chain(n - 1, r)'
  <2>1. r[0] = head' /\ heap'[r[n - 1]].next = NULL
    BY <1>1, <1>4, <1>5, <1>6, SMTT(30)
  <2>2. \A k \in 0 .. n - 1 : r[k] \in Allocated'
    BY <1>1, <1>4, <1>5, <1>6
  <2>3. ASSUME NEW k \in 1 .. n - 1 PROVE heap'[r[k - 1]].next = r[k]
    <3>1. r[k - 1] = s[k] /\ r[k] = s[k + 1]
      BY <1>4, <1>5
    <3>. QED  BY <1>1, <1>4, <1>6, <3>1
  <2>4. ASSUME NEW j \in 0 .. n - 1, NEW k \in 0 .. n - 1, r[j] = r[k] PROVE j = k
    <3>1. s[j + 1] = s[k + 1]
      BY <1>5, <2>4
    <3>. QED  BY <1>4, <1>6, <3>1
  <2>. QED  BY <2>1, <2>2, <2>3, <2>4 DEF Chain
<1>8. ASSUME NEW x, OffChain(n, s, x) PROVE x \in Allocated' /\ \A k \in 0 .. n - 1 : r[k] # x
  BY <1>1, <1>4, <1>5, <1>8 DEF OffChain
<1>9. r[n - 1] = s[n]
  BY <1>4, <1>5
<1>10. EnqueueRight(n - 1, r)'
  <2>1. \A t \in Enqueuers : enqueuer[t].pc = "link" =>
          /\ OffChain(n, s, enqueuer[t].tmp)
          /\ heap[enqueuer[t].tmp] = [value |-> enqueuer[t].i, next |-> NULL]
    BY DEF ListRight, EnqueueRight
  <2>2. \A t \in Enqueuers : enqueuer[t].pc = "tail" => enqueuer[t].tmp = s[n]
    BY DEF ListRight, EnqueueRight
  <2>3. \A t, u \in Enqueuers :
          /\ enqueuer[t].pc = "tail" /\ enqueuer[u].pc = "tail" => t = u
          /\ enqueuer[t].pc = "link" /\ enqueuer[u].pc = "link"
             /\ enqueuer[t].tmp = enqueuer[u].tmp => t = u
    BY DEF ListRight, EnqueueRight
  <2>4. (\A t \in Enqueuers : enqueuer[t].pc # "tail") => tail = s[n]
    BY DEF ListRight, EnqueueRight
  <2>5. \A t \in Enqueuers : enqueuer[t].pc = "link" =>
          enqueuer[t].tmp \in Allocated' /\ \A k \in 0 .. n - 1 : r[k] # enqueuer[t].tmp
    BY <1>8, <2>1
  <2>6. enqueuer' = enqueuer /\ heap' = heap /\ tail' = tail
    BY <1>1
  <2>. QED  BY <1>9, <2>1, <2>2, <2>3, <2>4, <2>5, <2>6 DEF EnqueueRight, OffChain
<1>11. /\ dequeuer'[d].pc = "free" /\ dequeuer'[d].tmp = s[0]
       /\ \A e \in Dequeuers : e # d => dequeuer'[e] = dequeuer[e]
  BY <1>1, <1>2 DEF QueueTypeOK, DequeueState
<1>12. DequeueRight(n - 1, r)'
  <2>1. s[0] \in Allocated' /\ \A k \in 0 .. n - 1 : r[k] # s[0]
    BY <1>1, <1>4, <1>5, <1>6, SMTT(30)
  <2>2. \A t \in Enqueuers : enqueuer[t].pc = "link" => enqueuer[t].tmp # s[0]
    BY <1>4 DEF ListRight, EnqueueRight, OffChain
  <2>3. ASSUME NEW e \in Dequeuers
        PROVE  /\ dequeuer'[e].pc = "lock" => dequeuer'[e].tmp = NULL
               /\ dequeuer'[e].pc \notin {"next", "take"}
    BY <1>1, <1>11 DEF ListRight, DequeueRight
  <2>4. ASSUME NEW e \in Dequeuers, dequeuer'[e].pc = "free"
        PROVE  /\ dequeuer'[e].tmp \in Allocated' /\ \A k \in 0 .. n - 1 : r[k] # dequeuer'[e].tmp
               /\ \A t \in Enqueuers : enqueuer'[t].pc = "link" => enqueuer'[t].tmp # dequeuer'[e].tmp
    <3>1. CASE e = d
      BY <1>1, <1>11, <2>1, <2>2, <3>1
    <3>2. CASE e # d
      <4>1. /\ OffChain(n, s, dequeuer[e].tmp)
            /\ \A t \in Enqueuers : enqueuer[t].pc = "link" => enqueuer[t].tmp # dequeuer[e].tmp
        BY <1>11, <2>4, <3>2 DEF ListRight, DequeueRight
      <4>2. dequeuer[e].tmp \in Allocated' /\ \A k \in 0 .. n - 1 : r[k] # dequeuer[e].tmp
        BY <1>8, <4>1
      <4>. QED  BY <1>1, <1>11, <3>2, <4>1, <4>2
    <3>. QED  BY <3>1, <3>2
  <2>5. ASSUME NEW e \in Dequeuers, e # d, dequeuer'[e].pc = "free" PROVE dequeuer'[e].tmp # s[0]
    BY <1>4, <1>11, <2>5 DEF ListRight, DequeueRight, OffChain
  <2>6. \A e, f \in Dequeuers : dequeuer'[e].pc = "free" /\ dequeuer'[f].pc = "free"
                                /\ dequeuer'[e].tmp = dequeuer'[f].tmp => e = f
    <3>1. \A e, f \in Dequeuers : dequeuer[e].pc = "free" /\ dequeuer[f].pc = "free"
                                  /\ dequeuer[e].tmp = dequeuer[f].tmp => e = f
      BY DEF ListRight, DequeueRight
    <3>. QED  BY <1>11, <2>5, <3>1
  <2>. QED  BY <2>3, <2>4, <2>6 DEF DequeueRight, OffChain
<1>13. Items # <<>> /\ Items' = Tail(Items) /\ Head(Items) = heap[s[1]].value
  <2>1. Items = [k \in 1 .. n |-> heap[s[k]].value]
    BY <1>6, MappingHolds DEF MappingRight
  <2>2. Items' = [k \in 1 .. n - 1 |-> heap'[r[k]].value]
    <3>1. n - 1 \in Nat /\ r \in [0 .. n - 1 -> Nodes]
      BY <1>4, <1>5
    <3>. QED  BY <1>3, <1>7, <3>1, MappingHoldsNext, Zenon DEF MappingRight
  <2>3. \A k \in 1 .. n : heap[s[k]].value \in Int
    <3>1. \A k \in 1 .. n : k \in 0 .. n
      OBVIOUS
    <3>. QED  BY <1>6, <3>1 DEF QueueTypeOK
  <2>4. Items \in [1 .. n -> Int]
    BY <2>1, <2>3
  <2>. HIDE DEF Items
  <2>5. Items \in Seq(Int) /\ Len(Items) = n
    BY <2>4
  <2>6. Items # <<>> /\ Head(Items) = Items[1]
    <3>1. Len(Items) # 0
      BY <1>1, <2>5
    <3>. QED  BY <2>5, <3>1
  <2>7. Tail(Items) = [k \in 1 .. n - 1 |-> Items[k + 1]]
    BY <2>5, <2>6, SMTT(30)
  <2>8. 1 \in 1 .. n /\ \A k \in 1 .. n - 1 : k + 1 \in 1 .. n /\ k \in 0 .. n - 1
    BY <1>1
  <2>9. \A k \in 1 .. n - 1 : heap'[r[k]].value = Items[k + 1]
    BY <1>1, <1>5, <2>1, <2>8
  <2>10. Items' = Tail(Items)
    BY <2>2, <2>7, <2>9
  <2>. QED  BY <2>1, <2>6, <2>8, <2>10
<1>. QED  BY <1>1, <1>3, <1>5, <1>7, <1>10, <1>12, <1>13 DEF ListRight

\* The node that is freed is none of the list and none an enqueuer is about to
\* link, though tail may still point to it.
LEMMA Free1List ==
  ASSUME QueueTypeOK, Counts, NEW n \in Nat, NEW s \in [0 .. n -> Nodes], ListRight(n, s),
         NEW d \in Dequeuers, Free1(d)
  PROVE  ListRight(n, s)' /\ Items' = Items /\ result' = result
<1>1. /\ QueueTypeOK' /\ Counts'
      /\ Allocated' = Allocated \ {dequeuer[d].tmp}
      /\ \A y \in Allocated' : heap'[y] = heap[y]
  BY Free1Types
<1>2. /\ UNCHANGED <<head, tail, enqueuer, result>> /\ dequeuer[d].pc = "free"
      /\ dequeuer'[d].pc = "lock" /\ dequeuer'[d].tmp = NULL
      /\ \A e \in Dequeuers : e # d => dequeuer'[e] = dequeuer[e]
  BY DEF Free1, QueueTypeOK
<1>3. PICK x \in Allocated :
        /\ x = dequeuer[d].tmp /\ \A k \in 0 .. n : s[k] # x
        /\ \A t \in Enqueuers : enqueuer[t].pc = "link" => enqueuer[t].tmp # x
        /\ \A e \in Dequeuers : e # d /\ dequeuer[e].pc = "free" => dequeuer[e].tmp # x
  BY <1>2 DEF ListRight, DequeueRight, OffChain
<1>4. \A y \in Allocated : y # x => y \in Allocated' /\ heap'[y] = heap[y]
  BY <1>1, <1>3
<1>5. \A k \in 0 .. n : s[k] \in Allocated' /\ heap'[s[k]] = heap[s[k]]
  BY <1>3, <1>4 DEF ListRight, Chain
<1>6. Chain(n, s)'
  <2>1. n \in 0 .. n /\ \A k \in 1 .. n : k - 1 \in 0 .. n
    OBVIOUS
  <2>. QED  BY <1>2, <1>5, <2>1 DEF ListRight, Chain
<1>7. EnqueueRight(n, s)'
  <2>1. \A t \in Enqueuers : enqueuer[t].pc = "link" =>
          /\ enqueuer[t].tmp \in Allocated' /\ \A k \in 0 .. n : s[k] # enqueuer[t].tmp
          /\ heap'[enqueuer[t].tmp] = [value |-> enqueuer[t].i, next |-> NULL]
    BY <1>3, <1>4 DEF ListRight, EnqueueRight, OffChain
  <2>2. enqueuer' = enqueuer /\ tail' = tail
    BY <1>2
  <2>. QED  BY <2>1, <2>2 DEF ListRight, EnqueueRight, OffChain
<1>8. DequeueRight(n, s)'
  <2>1. ASSUME NEW e \in Dequeuers
        PROVE  /\ dequeuer'[e].pc = "lock" => dequeuer'[e].tmp = NULL
               /\ dequeuer'[e].pc \in {"next", "take"} => dequeuer'[e].tmp = s[0]
               /\ dequeuer'[e].pc = "take" => n # 0 /\ dequeuer'[e].new_head = s[1]
    BY <1>2 DEF ListRight, DequeueRight
  <2>2. ASSUME NEW e \in Dequeuers, dequeuer'[e].pc = "free"
        PROVE  /\ dequeuer'[e].tmp \in Allocated' /\ \A k \in 0 .. n : s[k] # dequeuer'[e].tmp
               /\ \A t \in Enqueuers : enqueuer'[t].pc = "link" => enqueuer'[t].tmp # dequeuer'[e].tmp
    <3>1. e # d /\ dequeuer'[e] = dequeuer[e]
      BY <1>2, <2>2
    <3>. QED  BY <1>2, <1>3, <1>4, <2>2, <3>1 DEF ListRight, DequeueRight, OffChain
  <2>3. \A e, f \in Dequeuers :
          /\ dequeuer'[e].pc \in {"next", "take"} /\ dequeuer'[f].pc \in {"next", "take"} => e = f
          /\ dequeuer'[e].pc = "free" /\ dequeuer'[f].pc = "free"
             /\ dequeuer'[e].tmp = dequeuer'[f].tmp => e = f
    BY <1>2 DEF ListRight, DequeueRight
  <2>. QED  BY <2>1, <2>2, <2>3 DEF DequeueRight, OffChain
<1>9. Items' = Items
  BY <1>1, <1>5, <1>6, SameItems DEF ListRight
<1>. QED  BY <1>2, <1>6, <1>7, <1>8, <1>9 DEF ListRight

-----------------------------------------------------------------------------
(* The invariant, and what follows from it.                                *)

LEMMA QueueInitInv ==
  ASSUME QueueInit
  PROVE  QueueInv /\ Queue!Init
<1>1. PICK x \in Nodes : /\ head = x /\ tail = x
                         /\ heap = [y \in {x} |-> [value |-> 0, next |-> NULL]]
  BY DEF QueueInit
<1>2. /\ \A t \in Enqueuers : \E v \in StartValues :
            enqueuer[t] = [pc |-> "malloc", tmp |-> NULL, i |-> v, count |-> 0]
      /\ enqueuer \in [Enqueuers -> {[pc |-> "malloc", tmp |-> NULL, i |-> v, count |-> 0] :
                                        v \in StartValues}]
      /\ dequeuer = [d \in Dequeuers |-> [pc |-> "lock", tmp |-> NULL, new_head |-> NULL]]
      /\ result = [d \in Dequeuers |-> <<>>]
  BY DEF QueueInit
<1>3. Allocated = {x} /\ heap[x] = [value |-> 0, next |-> NULL]
  BY <1>1 DEF Allocated
<1>4. QueueTypeOK
  <2>1. IsFiniteSet(Allocated)
    BY <1>3, FS_Singleton
  <2>2. heap \in [Allocated -> [value : Int, next : Links]]
    BY <1>1, <1>3 DEF Links
  <2>3. enqueuer \in [Enqueuers -> [pc : {"malloc", "link", "tail"}, tmp : Links, i : Int, count : Nat]]
    <3>1. {[pc |-> "malloc", tmp |-> NULL, i |-> v, count |-> 0] : v \in StartValues}
            \subseteq [pc : {"malloc", "link", "tail"}, tmp : Links, i : Int, count : Nat]
      BY QueueAssumption DEF Links
    <3>. QED  BY <1>2, <3>1
  <2>4. dequeuer \in [Dequeuers -> [pc : {"lock", "next", "take", "free"}, tmp : Links,
                                    new_head : Links]]
    BY <1>2 DEF Links
  <2>. QED  BY <1>3, <2>1, <2>2, <2>3, <2>4 DEF QueueTypeOK
<1>5. Counts
  <2>1. ASSUME NEW t \in Enqueuers
        PROVE  /\ \E v \in StartValues : enqueuer[t].i = v + enqueuer[t].count
               /\ enqueuer[t].count <= MaxEnqueues /\ enqueuer[t].pc = "malloc"
    <3>1. PICK v \in StartValues : enqueuer[t] = [pc |-> "malloc", tmp |-> NULL, i |-> v, count |-> 0]
      BY <1>2
    <3>2. enqueuer[t].i = v /\ enqueuer[t].count = 0 /\ enqueuer[t].pc = "malloc"
      BY <3>1
    <3>3. v = v + 0 /\ 0 <= MaxEnqueues
      BY QueueAssumption
    <3>. QED  BY <3>2, <3>3
  <2>. QED  BY <2>1 DEF Counts
<1>. DEFINE s == [k \in 0 .. 0 |-> x]
<1>6. s \in [0 .. 0 -> Nodes] /\ s[0] = x /\ \A k \in 0 .. 0 : k = 0
  OBVIOUS
<1>. HIDE DEF s
<1>7. Chain(0, s)
  <2>1. \A k \in 1 .. 0 : FALSE
    OBVIOUS
  <2>2. heap[s[0]].next = NULL
    BY <1>3, <1>6
  <2>. QED  BY <1>1, <1>3, <1>6, <2>1, <2>2 DEF Chain
<1>8. EnqueueRight(0, s)
  <2>1. \A t \in Enqueuers : enqueuer[t].pc = "malloc"
    BY <1>2
  <2>. QED  BY <1>1, <1>6, <2>1 DEF EnqueueRight
<1>9. DequeueRight(0, s)
  <2>1. \A d \in Dequeuers : dequeuer[d].pc = "lock" /\ dequeuer[d].tmp = NULL
    BY <1>2
  <2>. QED  BY <2>1 DEF DequeueRight
<1>10. Items = <<>>
  <2>1. Items = [k \in 1 .. 0 |-> heap[s[k]].value]
    BY <1>4, <1>6, <1>7, MappingHolds DEF MappingRight
  <2>. QED  BY <2>1
<1>11. Queue!Init
  BY <1>2, <1>10 DEF Queue!Init
<1>. QED  BY <1>4, <1>5, <1>6, <1>7, <1>8, <1>9, <1>11 DEF QueueInv, ListRight

\* Each step of a thread keeps the invariant and is one step of the queue, or
\* none.
LEMMA QueueStep ==
  ASSUME QueueInv, [QueueNext]_queueVars
  PROVE  QueueInv' /\ [Queue!Next]_<<Items, result>>
<1>1. PICK n \in Nat : \E s \in [0 .. n -> Nodes] : ListRight(n, s)
  BY DEF QueueInv
<1>2. PICK s \in [0 .. n -> Nodes] : ListRight(n, s)
  BY <1>1
<1>3. QueueTypeOK /\ Counts
  BY DEF QueueInv
<1>4. ASSUME NEW m \in Nat, NEW r \in [0 .. m -> Nodes], QueueTypeOK', Counts', ListRight(m, r)'
      PROVE  QueueInv'
  BY <1>4 DEF QueueInv
<1>5. ASSUME Items' = Items, result' = result PROVE [Queue!Next]_<<Items, result>>
  BY <1>5
<1>6. CASE UNCHANGED queueVars
  <2>1. UNCHANGED <<heap, head, tail, enqueuer, dequeuer, result>>
    BY <1>6 DEF queueVars
  <2>2. Allocated' = Allocated /\ \A k \in 0 .. n : heap'[s[k]] = heap[s[k]]
    BY <2>1 DEF Allocated
  <2>3. QueueTypeOK' /\ Counts'
    BY <1>3, <2>1, <2>2 DEF QueueTypeOK, Counts
  <2>4. ListRight(n, s)'
    BY <1>2, <2>1, <2>2 DEF ListRight, Chain, EnqueueRight, DequeueRight, OffChain
  <2>5. Items' = Items
    BY <1>2, <1>3, <2>2, <2>3, <2>4, SameItems DEF ListRight
  <2>. QED  BY <1>4, <1>5, <2>1, <2>3, <2>4, <2>5
<1>7. ASSUME NEW t \in Enqueuers, Malloc1(t) PROVE QueueInv' /\ [Queue!Next]_<<Items, result>>
  BY <1>2, <1>3, <1>4, <1>5, <1>7, Malloc1Types, Malloc1List
<1>8. ASSUME NEW t \in Enqueuers, Link(t) PROVE QueueInv' /\ [Queue!Next]_<<Items, result>>
  <2>1. /\ QueueTypeOK' /\ Counts' /\ \E r \in [0 .. n + 1 -> Nodes] : ListRight(n + 1, r)'
        /\ \E v \in Enqueued : Items' = Append(Items, v)
        /\ result' = result
    BY <1>2, <1>3, <1>8, LinkTypes, LinkList
  <2>2. QueueInv'
    <3>1. n + 1 \in Nat
      OBVIOUS
    <3>. QED  BY <1>4, <2>1, <3>1
  <2>3. Queue!Next
    BY <2>1 DEF Queue!Next, Queue!Enqueue
  <2>. QED  BY <2>2, <2>3
<1>9. ASSUME NEW t \in Enqueuers, SetTail(t) PROVE QueueInv' /\ [Queue!Next]_<<Items, result>>
  BY <1>2, <1>3, <1>4, <1>5, <1>9, SetTailTypes, SetTailList
<1>10. ASSUME NEW d \in Dequeuers, TakeHead(d) PROVE QueueInv' /\ [Queue!Next]_<<Items, result>>
  BY <1>2, <1>3, <1>4, <1>5, <1>10, TakeHeadList
<1>11. ASSUME NEW d \in Dequeuers, ReadNext(d) PROVE QueueInv' /\ [Queue!Next]_<<Items, result>>
  <2>1. /\ QueueTypeOK' /\ Counts' /\ ListRight(n, s)' /\ Items' = Items
        /\ \/ result' = result
           \/ Items = <<>> /\ result' = [result EXCEPT ![d] = <<>>]
    BY <1>2, <1>3, <1>11, ReadNextList
  <2>2. ASSUME Items = <<>>, result' = [result EXCEPT ![d] = <<>>] PROVE Queue!Next
    BY <2>1, <2>2 DEF Queue!Next, Queue!DequeueEmpty
  <2>. QED  BY <1>4, <1>5, <2>1, <2>2
<1>12. ASSUME NEW d \in Dequeuers, SetHead(d) PROVE QueueInv' /\ [Queue!Next]_<<Items, result>>
  <2>1. /\ QueueTypeOK' /\ Counts' /\ n # 0
        /\ \E r \in [0 .. n - 1 -> Nodes] : ListRight(n - 1, r)'
        /\ Items # <<>> /\ Items' = Tail(Items)
        /\ result' = [result EXCEPT ![d] = <<Head(Items)>>]
    BY <1>2, <1>3, <1>12, SetHeadList
  <2>2. n - 1 \in Nat
    BY <2>1
  <2>3. Queue!Next
    BY <2>1 DEF Queue!Next, Queue!Dequeue
  <2>. QED  BY <1>4, <2>1, <2>2, <2>3
<1>13. ASSUME NEW d \in Dequeuers, Free1(d) PROVE QueueInv' /\ [Queue!Next]_<<Items, result>>
  BY <1>2, <1>3, <1>4, <1>5, <1>13, Free1Types, Free1List
<1>. QED  BY <1>6, <1>7, <1>8, <1>9, <1>10, <1>11, <1>12, <1>13 DEF QueueNext

LEMMA QueueInvHolds == QueueSpec => []QueueInv
<1>1. QueueInit => QueueInv
  BY QueueInitInv
<1>2. QueueInv /\ [QueueNext]_queueVars => QueueInv'
  BY QueueStep
<1>. QED  BY <1>1, <1>2, PTL DEF QueueSpec

\* Queue_Enqueue and Queue_Dequeue of any number of threads never follow a
\* pointer to a node that was freed: free works outside of head_lock, and tail,
\* which may point to the freed node, is set before another thread uses it.
THEOREM NoUseAfterFreeHolds == QueueSpec => []NoUseAfterFree
<1>1. ASSUME QueueInv PROVE NoUseAfterFree
  <2>1. PICK n \in Nat : \E s \in [0 .. n -> Nodes] : ListRight(n, s)
    BY <1>1 DEF QueueInv
  <2>2. PICK s \in [0 .. n -> Nodes] : ListRight(n, s)
    BY <2>1
  <2>3. Length = n /\ \A k \in 0 .. n : NodeAfter[k] = s[k]
    BY <1>1, <2>2, MappingHolds DEF MappingRight, QueueInv, ListRight
  <2>4. /\ 0 \in 0 .. n /\ n \in 0 .. n /\ (n # 0 => 1 \in 0 .. n)
        /\ \A k \in 0 .. n : s[k] \in Allocated
    BY <2>2 DEF ListRight, Chain
  <2>5. (\A t \in Enqueuers : enqueuer[t].pc # "tail") => tail = s[n]
    BY <2>2 DEF ListRight, EnqueueRight
  <2>6. ASSUME NEW d \in Dequeuers
        PROVE  /\ dequeuer[d].tmp # NULL => dequeuer[d].tmp \in Allocated
               /\ dequeuer[d].pc = "take" => dequeuer[d].new_head \in Allocated
    <3>1. dequeuer[d].pc \in {"lock", "next", "take", "free"}
      BY <1>1 DEF QueueInv, QueueTypeOK
    <3>. QED  BY <2>2, <2>4, <3>1 DEF ListRight, DequeueRight, OffChain
  <2>. QED  BY <2>3, <2>4, <2>5, <2>6 DEF NoUseAfterFree
<1>. QED  BY <1>1, QueueInvHolds, PTL

\* The queue of mcqueue.c with its two locks is one queue for any number of
\* threads: a value is dequeued once, in the order of the enqueues, and
\* Queue_Dequeue fails only when the queue is empty.
THEOREM ImplementsQueueHolds == QueueSpec => ImplementsQueue
<1>1. QueueInit => Queue!Init
  BY QueueInitInv
<1>2. QueueInv /\ [QueueNext]_queueVars => [Queue!Next]_<<Items, result>>
  BY QueueStep
<1>. QED  BY <1>1, <1>2, QueueInvHolds, PTL DEF QueueSpec, ImplementsQueue

-----------------------------------------------------------------------------
(* The semaphores and locks (Semaphores), whatever the threads do.         *)

SemSpec == SemInit /\ [][SemNext]_semVars

\* The statements of the readers and the writers.
Statements ==
    {Wait("lock"), Wait("writelock"), Wait("readlock"), Post("lock"), Post("writelock"),
     Post("readlock"), Add(1), Add(-1), Unless0(1), LoadWrites, StoreWrites}

LEMMA Joined ==
  ASSUME NEW S, NEW s \in Seq(S), NEW u \in Seq(S), NEW r \in Seq(S)
  PROVE  /\ Len(r) = Len(s) + Len(u)
         /\ \A i \in 1 .. Len(s) : r[i] = s[i]
         /\ \A i \in 1 .. Len(u) : r[Len(s) + i] = u[i]
         => s \o u = r
<1>. SUFFICES ASSUME Len(r) = Len(s) + Len(u), \A i \in 1 .. Len(s) : r[i] = s[i],
                    \A i \in 1 .. Len(u) : r[Len(s) + i] = u[i]
             PROVE  s \o u = r
  OBVIOUS
<1>1. /\ s \o u \in Seq(S) /\ Len(s \o u) = Len(s) + Len(u)
      /\ \A i \in 1 .. Len(s) + Len(u) : (s \o u)[i] = IF i <= Len(s) THEN s[i] ELSE u[i - Len(s)]
  BY ConcatProperties
<1> DEFINE w == s \o u
<1>2. w \in Seq(S) /\ Len(w) = Len(r)
  BY <1>1
<1>3. \A i \in 1 .. Len(r) : w[i] = r[i]
  <2>1. TAKE i \in 1 .. Len(r)
  <2>2. CASE i <= Len(s)
    BY <1>1, <2>2
  <2>3. CASE ~(i <= Len(s))
    <3>1. i - Len(s) \in 1 .. Len(u) /\ Len(s) + (i - Len(s)) = i
      BY <2>3
    <3>. QED  BY <1>1, <2>3, <3>1
  <2>. QED  BY <2>2, <2>3
<1>. HIDE DEF w
<1>4. w = r
  BY <1>2, <1>3
<1>. QED  BY <1>4 DEF w

LEMMA StatementsTyped ==
  /\ Wait("lock") \in Statements /\ Wait("writelock") \in Statements
  /\ Post("lock") \in Statements /\ Post("writelock") \in Statements
  /\ Add(1) \in Statements /\ Add(-1) \in Statements /\ Unless0(1) \in Statements
  /\ LoadWrites \in Statements /\ StoreWrites \in Statements
  /\ Wait("readlock") \in Statements /\ Post("readlock") \in Statements
BY DEF Statements

\* The reader as one list of statements.
LEMMA ReaderText ==
  Reader = <<Wait("lock"), Add(1), Unless0(1), Wait("writelock"), Post("lock"), LoadWrites,
             Wait("lock"), Add(-1), Unless0(1), Post("writelock"), Post("lock")>>
<1>1. EnterReaders \o <<LoadWrites>> =
        <<Wait("lock"), Add(1), Unless0(1), Wait("writelock"), Post("lock"), LoadWrites>>
  <2> DEFINE u == <<LoadWrites>>
             r == <<Wait("lock"), Add(1), Unless0(1), Wait("writelock"), Post("lock"), LoadWrites>>
  <2>1. /\ EnterReaders \in Seq(Statements) /\ u \in Seq(Statements) /\ r \in Seq(Statements)
        /\ Len(EnterReaders) = 5 /\ Len(u) = 1 /\ Len(r) = 6
    BY StatementsTyped DEF EnterReaders
  <2>2. \A i \in 1 .. Len(EnterReaders) : r[i] = EnterReaders[i]
    BY <2>1 DEF EnterReaders
  <2>3. \A i \in 1 .. Len(u) : r[Len(EnterReaders) + i] = u[i]
    BY <2>1
  <2>. HIDE DEF u, r
  <2>4. Len(r) = Len(EnterReaders) + Len(u)
    BY <2>1
  <2>5. EnterReaders \o u = r
    BY <2>1, <2>2, <2>3, <2>4, Joined, Zenon
  <2>. QED  BY <2>5 DEF u, r
<1>2. <<Wait("lock"), Add(1), Unless0(1), Wait("writelock"), Post("lock"), LoadWrites>>
      \o LeaveReaders
        = <<Wait("lock"), Add(1), Unless0(1), Wait("writelock"), Post("lock"), LoadWrites,
            Wait("lock"), Add(-1), Unless0(1), Post("writelock"), Post("lock")>>
  <2> DEFINE s == <<Wait("lock"), Add(1), Unless0(1), Wait("writelock"), Post("lock"), LoadWrites>>
             r == <<Wait("lock"), Add(1), Unless0(1), Wait("writelock"), Post("lock"), LoadWrites,
                    Wait("lock"), Add(-1), Unless0(1), Post("writelock"), Post("lock")>>
  <2>1. /\ s \in Seq(Statements) /\ LeaveReaders \in Seq(Statements) /\ r \in Seq(Statements)
        /\ Len(s) = 6 /\ Len(LeaveReaders) = 5 /\ Len(r) = 11
    BY StatementsTyped DEF LeaveReaders
  <2>2. \A i \in 1 .. Len(s) : r[i] = s[i]
    BY <2>1
  <2>3. \A i \in 1 .. Len(LeaveReaders) : r[Len(s) + i] = LeaveReaders[i]
    BY <2>1 DEF LeaveReaders
  <2>. HIDE DEF s, r
  <2>4. Len(r) = Len(s) + Len(LeaveReaders)
    BY <2>1
  <2>5. s \o LeaveReaders = r
    BY <2>1, <2>2, <2>3, <2>4, Joined, Zenon
  <2>. QED  BY <2>5 DEF s, r
<1>. QED  BY <1>1, <1>2, Zenon DEF Reader

LEMMA FairTexts ==
  /\ FairReader =
       <<Wait("readlock"), Post("readlock"),
         Wait("lock"), Add(1), Unless0(1), Wait("writelock"), Post("lock"), LoadWrites,
         Wait("lock"), Add(-1), Unless0(1), Post("writelock"), Post("lock")>>
  /\ FairWriter =
       <<Wait("lock"), Wait("readlock"), Wait("writelock"), Post("lock"),
         LoadWrites, StoreWrites, Post("writelock"), Post("readlock")>>
<1>2. FairReader =
       <<Wait("readlock"), Post("readlock"),
         Wait("lock"), Add(1), Unless0(1), Wait("writelock"), Post("lock"), LoadWrites,
         Wait("lock"), Add(-1), Unless0(1), Post("writelock"), Post("lock")>>
  <2> DEFINE s == <<Wait("readlock"), Post("readlock")>>
             u == <<Wait("lock"), Add(1), Unless0(1), Wait("writelock"), Post("lock"), LoadWrites,
                    Wait("lock"), Add(-1), Unless0(1), Post("writelock"), Post("lock")>>
             r == <<Wait("readlock"), Post("readlock"),
                    Wait("lock"), Add(1), Unless0(1), Wait("writelock"), Post("lock"), LoadWrites,
                    Wait("lock"), Add(-1), Unless0(1), Post("writelock"), Post("lock")>>
  <2>1. /\ s \in Seq(Statements) /\ u \in Seq(Statements) /\ r \in Seq(Statements)
        /\ Len(s) = 2 /\ Len(u) = 11 /\ Len(r) = 13
    BY StatementsTyped
  <2>2. \A i \in 1 .. Len(s) : r[i] = s[i]
    BY <2>1
  <2>3. \A i \in 1 .. Len(u) : r[Len(s) + i] = u[i]
    BY <2>1
  <2>4. FairReader = s \o u
    BY ReaderText, Zenon DEF FairReader
  <2>. HIDE DEF s, u, r
  <2>5. Len(r) = Len(s) + Len(u)
    BY <2>1
  <2>6. s \o u = r
    BY <2>1, <2>2, <2>3, <2>5, Joined, Zenon
  <2>. QED  BY <2>4, <2>6 DEF r
<1>3. FairWriter =
       <<Wait("lock"), Wait("readlock"), Wait("writelock"), Post("lock"),
         LoadWrites, StoreWrites, Post("writelock"), Post("readlock")>>
  <2> DEFINE s == <<Wait("lock"), Wait("readlock"), Wait("writelock"), Post("lock")>>
             u == <<LoadWrites, StoreWrites, Post("writelock"), Post("readlock")>>
             r == <<Wait("lock"), Wait("readlock"), Wait("writelock"), Post("lock"),
                    LoadWrites, StoreWrites, Post("writelock"), Post("readlock")>>
  <2>1. /\ s \in Seq(Statements) /\ u \in Seq(Statements) /\ r \in Seq(Statements)
        /\ Len(s) = 4 /\ Len(u) = 4 /\ Len(r) = 8
    BY StatementsTyped
  <2>2. \A i \in 1 .. Len(s) : r[i] = s[i]
    BY <2>1
  <2>3. \A i \in 1 .. Len(u) : r[Len(s) + i] = u[i]
    BY <2>1
  <2>4. FairWriter = s \o u
    BY Zenon DEF FairWriter, FairAcquire
  <2>. HIDE DEF s, u, r
  <2>5. Len(r) = Len(s) + Len(u)
    BY <2>1
  <2>6. s \o u = r
    BY <2>1, <2>2, <2>3, <2>5, Joined, Zenon
  <2>. QED  BY <2>4, <2>6 DEF r
<1>. QED  BY <1>2, <1>3

(* The programs with a counter: the mutex and the readers-writer locks.    *)
Counts0 == {"mutex", "rw", "nostarve"}

\* the semaphore that excludes writers, where a thread takes it and gives it
\* back, and where a writer stores
Guard == IF semOpt.program = "mutex" THEN "acquire" ELSE "readlock"
IsWriter(t) == semOpt.program = "mutex" \/ t % 2 # 0
TakesAt(t) == IF semOpt.program # "mutex" /\ IsWriter(t) THEN 2 ELSE 1
GivesAt(t) == IF semOpt.program = "mutex" THEN 4 ELSE IF IsWriter(t) THEN 8 ELSE 2
StoresAt(t) == IF semOpt.program = "nostarve" THEN 6 ELSE 3

\* What the statement at k of a role can be.
RoleRight(role, guard, writer, takes, gives, stores, excluding) ==
    /\ Len(role) \in Nat \ {0} /\ DOMAIN role = 1 .. Len(role) /\ (excluding => gives <= Len(role))
    /\ writer => stores \in 1 .. Len(role) /\ role[stores] = StoreWrites
    /\ \A k \in 1 .. Len(role) :
          /\ role[k].op \in {"wait", "post", "add", "unless0", "load", "store"}
          /\ role[k].op = "store" => writer /\ k = stores /\ role[k] = StoreWrites
          /\ writer /\ k = stores - 1 => role[k].op = "load"
          /\ excluding => /\ role[k].op = "wait" /\ role[k].arg = guard <=> k = takes
                          /\ role[k].op = "post" /\ role[k].arg = guard <=> k = gives
          /\ role[k].op = "unless0" => role[k].arg = 1 /\ k > gives /\ k + 2 <= Len(role) /\ ~writer

LEMMA CountingRole == RoleRight(Counting, "acquire", TRUE, 1, 4, 3, TRUE)
<1>1. /\ Len(Counting) = 4
      /\ Counting[1] = Wait("acquire") /\ Counting[2] = LoadWrites /\ Counting[3] = StoreWrites
      /\ Counting[4] = Post("acquire")
  BY DEF Counting
<1>2. /\ Wait("acquire").op = "wait" /\ Wait("acquire").arg = "acquire"
      /\ Post("acquire").op = "post" /\ Post("acquire").arg = "acquire"
      /\ LoadWrites.op = "load" /\ StoreWrites.op = "store"
  BY DEF Wait, Post, LoadWrites, StoreWrites, Statement
<1>3. \A k \in 1 .. Len(Counting) : k = 1 \/ k = 2 \/ k = 3 \/ k = 4
  BY <1>1
<1>. QED  BY <1>1, <1>2, <1>3 DEF RoleRight

LEMMA StatementParts ==
  /\ \A s : Wait(s).op = "wait" /\ Wait(s).arg = s /\ Post(s).op = "post" /\ Post(s).arg = s
  /\ \A k : Add(k).op = "add" /\ Add(k).arg = k /\ Unless0(k).op = "unless0" /\ Unless0(k).arg = k
  /\ LoadWrites.op = "load" /\ StoreWrites.op = "store"
BY DEF Wait, Post, Add, Unless0, LoadWrites, StoreWrites, Statement

LEMMA WriterRole == RoleRight(Writer, "readlock", TRUE, 2, 8, 3, FALSE)
<1>1. /\ Len(Writer) = 4
      /\ Writer[1] = Wait("writelock") /\ Writer[2] = LoadWrites /\ Writer[3] = StoreWrites
      /\ Writer[4] = Post("writelock")
  BY DEF Writer
<1>2. \A k \in 1 .. Len(Writer) : k = 1 \/ k = 2 \/ k = 3 \/ k = 4
  BY <1>1
<1>. QED  BY <1>1, <1>2, StatementParts DEF RoleRight

LEMMA ReaderRole == RoleRight(Reader, "readlock", FALSE, 1, 2, 3, FALSE)
<1>1. /\ Len(Reader) = 11
      /\ Reader[1] = Wait("lock") /\ Reader[2] = Add(1) /\ Reader[3] = Unless0(1)
      /\ Reader[4] = Wait("writelock") /\ Reader[5] = Post("lock") /\ Reader[6] = LoadWrites
      /\ Reader[7] = Wait("lock") /\ Reader[8] = Add(-1) /\ Reader[9] = Unless0(1)
      /\ Reader[10] = Post("writelock") /\ Reader[11] = Post("lock")
  BY ReaderText
<1>2. \A k \in 1 .. Len(Reader) : \/ k = 1 \/ k = 2 \/ k = 3 \/ k = 4 \/ k = 5 \/ k = 6
                                  \/ k = 7 \/ k = 8 \/ k = 9 \/ k = 10 \/ k = 11
  BY <1>1
<1>. QED  BY <1>1, <1>2, StatementParts DEF RoleRight

LEMMA FairReaderRole == RoleRight(FairReader, "readlock", FALSE, 1, 2, 6, TRUE)
<1>1. /\ Len(FairReader) = 13
      /\ FairReader[1] = Wait("readlock") /\ FairReader[2] = Post("readlock")
      /\ FairReader[3] = Wait("lock") /\ FairReader[4] = Add(1) /\ FairReader[5] = Unless0(1)
      /\ FairReader[6] = Wait("writelock") /\ FairReader[7] = Post("lock")
      /\ FairReader[8] = LoadWrites /\ FairReader[9] = Wait("lock") /\ FairReader[10] = Add(-1)
      /\ FairReader[11] = Unless0(1) /\ FairReader[12] = Post("writelock")
      /\ FairReader[13] = Post("lock")
  BY FairTexts
<1>2. \A k \in 1 .. Len(FairReader) :
         \/ k = 1 \/ k = 2 \/ k = 3 \/ k = 4 \/ k = 5 \/ k = 6 \/ k = 7
         \/ k = 8 \/ k = 9 \/ k = 10 \/ k = 11 \/ k = 12 \/ k = 13
  BY <1>1
<1>. QED  BY <1>1, <1>2, StatementParts DEF RoleRight

LEMMA FairWriterRole == RoleRight(FairWriter, "readlock", TRUE, 2, 8, 6, TRUE)
<1>1. /\ Len(FairWriter) = 8
      /\ FairWriter[1] = Wait("lock") /\ FairWriter[2] = Wait("readlock")
      /\ FairWriter[3] = Wait("writelock") /\ FairWriter[4] = Post("lock")
      /\ FairWriter[5] = LoadWrites /\ FairWriter[6] = StoreWrites
      /\ FairWriter[7] = Post("writelock") /\ FairWriter[8] = Post("readlock")
  BY FairTexts
<1>2. \A k \in 1 .. Len(FairWriter) : \/ k = 1 \/ k = 2 \/ k = 3 \/ k = 4
                                      \/ k = 5 \/ k = 6 \/ k = 7 \/ k = 8
  BY <1>1
<1>. QED  BY <1>1, <1>2, StatementParts DEF RoleRight

\* Excludes holds of the programs whose Guard excludes.
Excludes == semOpt.program \in {"mutex", "nostarve"}

LEMMA RolesRight ==
  ASSUME semOpt.program \in Counts0, NEW t \in SemThreads
  PROVE  RoleRight(Role(t), Guard, IsWriter(t), TakesAt(t), GivesAt(t), StoresAt(t), Excludes)
<1>1. CASE semOpt.program = "mutex"
  <2>1. Role(t) = Counting /\ Guard = "acquire" /\ IsWriter(t) = TRUE /\ TakesAt(t) = 1 /\ GivesAt(t) = 4
        /\ StoresAt(t) = 3 /\ Excludes = TRUE
    BY <1>1 DEF Role, Guard, IsWriter, TakesAt, GivesAt, StoresAt, Excludes
  <2>. QED  BY <2>1, CountingRole
<1>2. CASE semOpt.program = "rw" /\ t % 2 = 0
  <2>1. Role(t) = Reader /\ Guard = "readlock" /\ IsWriter(t) = FALSE /\ TakesAt(t) = 1 /\ GivesAt(t) = 2
        /\ StoresAt(t) = 3 /\ Excludes = FALSE
    BY <1>2 DEF Role, Guard, IsWriter, TakesAt, GivesAt, StoresAt, Excludes
  <2>. QED  BY <2>1, ReaderRole
<1>3. CASE semOpt.program = "rw" /\ t % 2 # 0
  <2>1. Role(t) = Writer /\ Guard = "readlock" /\ IsWriter(t) = TRUE /\ TakesAt(t) = 2 /\ GivesAt(t) = 8
        /\ StoresAt(t) = 3 /\ Excludes = FALSE
    BY <1>3 DEF Role, Guard, IsWriter, TakesAt, GivesAt, StoresAt, Excludes
  <2>. QED  BY <2>1, WriterRole
<1>4. CASE semOpt.program = "nostarve" /\ t % 2 = 0
  <2>1. Role(t) = FairReader /\ Guard = "readlock" /\ IsWriter(t) = FALSE /\ TakesAt(t) = 1 /\ GivesAt(t) = 2
        /\ StoresAt(t) = 6 /\ Excludes = TRUE
    BY <1>4 DEF Role, Guard, IsWriter, TakesAt, GivesAt, StoresAt, Excludes
  <2>. QED  BY <2>1, FairReaderRole
<1>5. CASE semOpt.program = "nostarve" /\ t % 2 # 0
  <2>1. Role(t) = FairWriter /\ Guard = "readlock" /\ IsWriter(t) = TRUE /\ TakesAt(t) = 2 /\ GivesAt(t) = 8
        /\ StoresAt(t) = 6 /\ Excludes = TRUE
    BY <1>5 DEF Role, Guard, IsWriter, TakesAt, GivesAt, StoresAt, Excludes
  <2>. QED  BY <2>1, FairWriterRole
<1>. QED  BY <1>1, <1>2, <1>3, <1>4, <1>5 DEF Counts0

ThreadStates == [pc : Nat, rounds : 0 .. semOpt.rounds, local : Nat]

SemTypeOK ==
    /\ semOpt \in SemOptions
    /\ writes \in Nat /\ thread \in [SemThreads -> ThreadStates]
    /\ \A t \in SemThreads : thread[t].pc \in 1 .. Len(Role(t))

\* What a step of thread t does to the threads.
StepTo(t, n, x) ==
    thread'[t] = IF n <= Len(Role(t)) THEN [pc |-> n, rounds |-> thread[t].rounds, local |-> x]
                 ELSE [pc |-> 1, rounds |-> thread[t].rounds - 1, local |-> x]

LEMMA GoesTo ==
  ASSUME SemTypeOK, NEW t \in SemThreads, NEW n, NEW x, Goes(t, n, x)
  PROVE  /\ StepTo(t, n, x) /\ \A u \in SemThreads : u # t => thread'[u] = thread[u]
         /\ thread'[t] \in ThreadStates => thread' \in [SemThreads -> ThreadStates]
BY DEF SemTypeOK, Goes, StepTo

LEMMA StepShape ==
  ASSUME SemTypeOK, NEW t \in SemThreads, SemStep(t)
  PROVE  /\ ~Finished(t) /\ semOpt' = semOpt
         /\ \A u \in SemThreads : u # t => thread'[u] = thread[u]
         /\ thread'[t] \in ThreadStates => thread' \in [SemThreads -> ThreadStates]
         /\ \/ /\ At(t).op = "wait" /\ sem[At(t).arg] > 0
               /\ sem' = [sem EXCEPT ![At(t).arg] = @ - 1] /\ UNCHANGED <<shared, writes>>
               /\ StepTo(t, thread[t].pc + 1, thread[t].local)
            \/ /\ At(t).op = "post"
               /\ sem' = [sem EXCEPT ![At(t).arg] = @ + 1] /\ UNCHANGED <<shared, writes>>
               /\ StepTo(t, thread[t].pc + 1, thread[t].local)
            \/ /\ At(t).op = "add"
               /\ shared' = shared + At(t).arg /\ UNCHANGED <<sem, writes>>
               /\ StepTo(t, thread[t].pc + 1, thread[t].local)
            \/ /\ At(t).op = "unless0" /\ UNCHANGED <<sem, shared, writes>>
               /\ StepTo(t, thread[t].pc + (IF shared = 0 THEN 1 ELSE 1 + At(t).arg), thread[t].local)
            \/ /\ At(t).op = "load" /\ UNCHANGED <<sem, shared, writes>>
               /\ StepTo(t, thread[t].pc + 1, writes)
            \/ /\ At(t).op = "store"
               /\ writes' = thread[t].local + 1 /\ UNCHANGED <<sem, shared>>
               /\ StepTo(t, thread[t].pc + 1, thread[t].local)
            \/ /\ At(t).op = "exit" /\ UNCHANGED <<sem, shared, writes>>
               /\ StepTo(t, Len(Role(t)) + 1, thread[t].local)
<1>1. ~Finished(t)
  BY DEF SemStep
<1>2. CASE SemWait(t)
  BY <1>1, <1>2, GoesTo DEF SemWait, GoesOn
<1>3. CASE SemPost(t)
  BY <1>1, <1>3, GoesTo DEF SemPost, GoesOn
<1>4. CASE AddShared(t)
  BY <1>1, <1>4, GoesTo DEF AddShared, GoesOn
<1>5. CASE TestShared(t)
  <2>1. /\ StepTo(t, thread[t].pc + (IF shared = 0 THEN 1 ELSE 1 + At(t).arg), thread[t].local)
        /\ \A u \in SemThreads : u # t => thread'[u] = thread[u]
        /\ (thread'[t] \in ThreadStates => thread' \in [SemThreads -> ThreadStates])
    BY <1>5, GoesTo, Zenon DEF TestShared
  <2>2. At(t).op = "unless0" /\ semOpt' = semOpt /\ UNCHANGED <<sem, shared, writes>>
    BY <1>5 DEF TestShared
  <2>. QED  BY <1>1, <2>1, <2>2, Zenon
<1>6. CASE LoadShared(t)
  BY <1>1, <1>6, GoesTo DEF LoadShared, GoesOn
<1>7. CASE StoreShared(t)
  BY <1>1, <1>7, GoesTo DEF StoreShared, GoesOn
<1>8. CASE Exits(t)
  BY <1>1, <1>8, GoesTo DEF Exits, GoesOn
<1>. QED  BY <1>2, <1>3, <1>4, <1>5, <1>6, <1>7, <1>8, Zenon DEF SemStep

-----------------------------------------------------------------------------
Inside(t) == ~Finished(t) /\ TakesAt(t) < thread[t].pc /\ thread[t].pc <= GivesAt(t)

\* what a writer has stored so far
Stored(t) == (semOpt.rounds - thread[t].rounds)
                + (IF ~Finished(t) /\ thread[t].pc > StoresAt(t) THEN 1 ELSE 0)
Written == {p \in SemThreads \X (1 .. semOpt.rounds) : IsWriter(p[1]) /\ p[2] <= Stored(p[1])}

\* One thread is inside, and Guard is 0 while it is.
ExclusionInv ==
    Excludes =>
       /\ Guard \in DOMAIN sem
       /\ sem[Guard] = IF \E t \in SemThreads : Inside(t) THEN 0 ELSE 1
       /\ \A t, u \in SemThreads : Inside(t) /\ Inside(u) => t = u

\* Every write is there, and nobody stores what it has loaded before another write.
WritesInv ==
    /\ \A t \in SemThreads : Storing(t) => thread[t].local = writes
    /\ IsFiniteSet(Written) /\ writes = Cardinality(Written)

CountInv == semOpt.program \in Counts0 => ExclusionInv /\ WritesInv



\* How a thread of a counting program moves through its role.
LEMMA RoleMove ==
  ASSUME SemTypeOK, semOpt.program \in Counts0, NEW t \in SemThreads, SemStep(t)
  PROVE  /\ At(t) = Role(t)[thread[t].pc] /\ thread[t].pc \in 1 .. Len(Role(t))
         /\ thread[t].rounds \in 1 .. semOpt.rounds
         /\ \A u \in SemThreads : u # t => thread'[u] = thread[u]
         /\ thread' \in [SemThreads -> ThreadStates]
         /\ thread'[t].pc \in 1 .. Len(Role(t))
         /\ \/ /\ thread[t].pc < Len(Role(t)) /\ thread'[t].pc = thread[t].pc + 1
               /\ thread'[t].rounds = thread[t].rounds
            \/ /\ thread[t].pc = Len(Role(t)) /\ thread'[t].pc = 1
               /\ thread'[t].rounds = thread[t].rounds - 1
            \/ /\ At(t).op = "unless0" /\ thread'[t].pc = thread[t].pc + 2
               /\ thread'[t].rounds = thread[t].rounds
         /\ At(t).op = "load" => thread'[t].local = writes
         /\ writes' = IF At(t).op = "store" THEN thread[t].local + 1 ELSE writes
<1> DEFINE k == thread[t].pc  N == Len(Role(t))
<1>1. RoleRight(Role(t), Guard, IsWriter(t), TakesAt(t), GivesAt(t), StoresAt(t), Excludes)
  BY RolesRight
<1>2. At(t) = Role(t)[k] /\ k \in 1 .. N
  BY DEF SemTypeOK, At
<1>3. /\ ~Finished(t) /\ semOpt' = semOpt
      /\ \A u \in SemThreads : u # t => thread'[u] = thread[u]
      /\ thread'[t] \in ThreadStates => thread' \in [SemThreads -> ThreadStates]
  BY StepShape
<1>4. thread[t] \in ThreadStates /\ semOpt.rounds \in Nat /\ writes \in Nat
  BY SemAssumption DEF SemTypeOK
<1>5. thread[t].rounds \in 1 .. semOpt.rounds
  BY <1>3, <1>4 DEF Finished, ThreadStates
<1>6. N \in Nat /\ At(t).op \in {"wait", "post", "add", "unless0", "load", "store"}
      /\ (At(t).op = "unless0" => At(t).arg = 1 /\ k + 2 <= N)
  BY <1>1, <1>2 DEF RoleRight
<1>7. \A n \in Nat, x \in Nat : n >= 1 /\ StepTo(t, n, x) =>
        /\ n <= N => thread'[t] = [pc |-> n, rounds |-> thread[t].rounds, local |-> x]
        /\ ~(n <= N) => thread'[t] = [pc |-> 1, rounds |-> thread[t].rounds - 1, local |-> x]
        /\ thread'[t] \in ThreadStates
  BY <1>4, <1>5 DEF StepTo, ThreadStates
<1>8. k \in Nat /\ thread[t].local \in Nat
  BY <1>4 DEF ThreadStates
<1>9. \E x \in Nat : /\ At(t).op = "load" => x = writes
                    /\ \/ StepTo(t, k + 1, x)
                       \/ At(t).op = "unless0" /\ StepTo(t, k + 2, x)
  <2>1. CASE At(t).op \in {"wait", "post", "add"}
    BY <1>8, <2>1, StepShape
  <2>2. CASE At(t).op = "unless0"
    <3>1. At(t).arg = 1 /\ StepTo(t, k + (IF shared = 0 THEN 1 ELSE 1 + At(t).arg), thread[t].local)
      BY <1>6, <2>2, StepShape
    <3>2. StepTo(t, k + 1, thread[t].local) \/ StepTo(t, k + 2, thread[t].local)
      <4>1. CASE shared = 0
        BY <3>1, <4>1
      <4>2. CASE shared # 0
        BY <3>1, <4>2
      <4>. QED  BY <4>1, <4>2
    <3>. QED  BY <1>8, <2>2, <3>2
  <2>3. CASE At(t).op = "load"
    BY <1>4, <2>3, StepShape
  <2>4. CASE At(t).op = "store"
    BY <1>8, <2>4, StepShape
  <2>. QED  BY <1>6, <2>1, <2>2, <2>3, <2>4
<1>10. PICK x \in Nat : /\ At(t).op = "load" => x = writes
                      /\ \/ StepTo(t, k + 1, x)
                         \/ At(t).op = "unless0" /\ StepTo(t, k + 2, x)
  BY <1>9
<1>11. writes' = IF At(t).op = "store" THEN thread[t].local + 1 ELSE writes
  BY <1>6, StepShape
<1>. HIDE DEF N, k
<1>12. CASE StepTo(t, k + 1, x)
  <2>1. k + 1 \in Nat /\ k + 1 >= 1
    BY <1>8
  <2>2. /\ k + 1 <= N => thread'[t] = [pc |-> k + 1, rounds |-> thread[t].rounds, local |-> x]
        /\ ~(k + 1 <= N) => thread'[t] = [pc |-> 1, rounds |-> thread[t].rounds - 1, local |-> x]
        /\ thread'[t] \in ThreadStates
    BY <1>7, <1>10, <1>12, <2>1
  <2>3. CASE k < N
    <3>1. thread'[t] = [pc |-> k + 1, rounds |-> thread[t].rounds, local |-> x] /\ k + 1 \in 1 .. N
      BY <1>2, <1>6, <1>8, <2>2, <2>3
    <3>. QED  BY <1>2, <1>3, <1>5, <1>10, <1>11, <2>2, <2>3, <3>1 DEF k, N
  <2>4. CASE ~(k < N)
    <3>1. thread'[t] = [pc |-> 1, rounds |-> thread[t].rounds - 1, local |-> x] /\ k = N /\ 1 \in 1 .. N
      BY <1>2, <1>6, <1>8, <2>2, <2>4
    <3>. QED  BY <1>2, <1>3, <1>5, <1>10, <1>11, <2>2, <3>1 DEF k, N
  <2>. QED  BY <2>3, <2>4
<1>13. CASE At(t).op = "unless0" /\ StepTo(t, k + 2, x)
  <2>1. k + 2 \in Nat /\ k + 2 >= 1 /\ k + 2 <= N
    BY <1>6, <1>8, <1>13
  <2>2. /\ thread'[t] = [pc |-> k + 2, rounds |-> thread[t].rounds, local |-> x]
        /\ thread'[t] \in ThreadStates
    BY <1>7, <1>10, <1>13, <2>1
  <2>. QED  BY <1>2, <1>3, <1>5, <1>6, <1>10, <1>11, <1>13, <2>1, <2>2 DEF k, N
<1>. QED  BY <1>10, <1>12, <1>13

LEMMA PositionsOrdered ==
  ASSUME semOpt.program \in Counts0, NEW t \in SemThreads
  PROVE  /\ TakesAt(t) \in Nat /\ GivesAt(t) \in Nat /\ StoresAt(t) \in Nat
         /\ 1 <= TakesAt(t) /\ TakesAt(t) < GivesAt(t) /\ 2 < StoresAt(t)
         /\ Excludes /\ IsWriter(t) => TakesAt(t) < StoresAt(t) /\ StoresAt(t) <= GivesAt(t)
BY DEF Counts0, Excludes, TakesAt, GivesAt, StoresAt, IsWriter

\* A thread is inside between taking and giving back the semaphore.
LEMMA InsideStep ==
  ASSUME SemTypeOK, Excludes, NEW t \in SemThreads, SemStep(t)
  PROVE  /\ At(t).op = "wait" /\ At(t).arg = Guard => ~Inside(t) /\ Inside(t)'
         /\ At(t).op = "post" /\ At(t).arg = Guard => Inside(t) /\ ~Inside(t)'
         /\ ~(At(t).op = "wait" /\ At(t).arg = Guard) /\ ~(At(t).op = "post" /\ At(t).arg = Guard)
               => (Inside(t)' <=> Inside(t))
         /\ \A u \in SemThreads : u # t => (Inside(u)' <=> Inside(u))
<1> DEFINE k == thread[t].pc  N == Len(Role(t))  a == TakesAt(t)  g == GivesAt(t)
<1>1. semOpt.program \in Counts0
  BY DEF Excludes, Counts0
<1>2. RoleRight(Role(t), Guard, IsWriter(t), a, g, StoresAt(t), Excludes)
  BY <1>1, RolesRight
<1>3. /\ At(t) = Role(t)[k] /\ k \in 1 .. N
      /\ thread[t].rounds \in 1 .. semOpt.rounds
      /\ \A u \in SemThreads : u # t => thread'[u] = thread[u]
      /\ \/ k < N /\ thread'[t].pc = k + 1 /\ thread'[t].rounds = thread[t].rounds
         \/ k = N /\ thread'[t].pc = 1 /\ thread'[t].rounds = thread[t].rounds - 1
         \/ At(t).op = "unless0" /\ thread'[t].pc = k + 2 /\ thread'[t].rounds = thread[t].rounds
  BY <1>1, RoleMove
<1>4. semOpt' = semOpt
  BY StepShape
<1>5. /\ N \in Nat /\ g <= N
      /\ At(t).op = "wait" /\ At(t).arg = Guard <=> k = a
      /\ At(t).op = "post" /\ At(t).arg = Guard <=> k = g
      /\ At(t).op = "unless0" => k > g
  BY <1>2, <1>3 DEF RoleRight
<1>6. a \in Nat /\ g \in Nat /\ 1 <= a /\ a < g
  BY <1>1, PositionsOrdered
<1>7. semOpt.rounds \in Nat /\ ~Finished(t)
  BY SemAssumption, StepShape DEF SemTypeOK
<1>8. Inside(t) <=> a < k /\ k <= g
  BY <1>7 DEF Inside
<1>9. Inside(t)' <=> thread'[t].rounds # 0 /\ a < thread'[t].pc /\ thread'[t].pc <= g
  BY <1>4 DEF Inside, Finished, TakesAt, GivesAt, IsWriter
<1>10. \A u \in SemThreads : u # t => (Inside(u)' <=> Inside(u))
  BY <1>3, <1>4 DEF Inside, Finished, TakesAt, GivesAt, IsWriter
<1>11. k \in Nat
  BY <1>3, <1>5
<1>. HIDE DEF k, N, a, g
<1>12. CASE k = a
  BY <1>3, <1>5, <1>6, <1>7, <1>8, <1>9, <1>10, <1>11, <1>12
<1>13. CASE k = g
  BY <1>3, <1>5, <1>6, <1>7, <1>8, <1>9, <1>10, <1>11, <1>13
<1>14. CASE k # a /\ k # g
  <2>1. Inside(t)' <=> Inside(t)
    BY <1>3, <1>5, <1>6, <1>7, <1>8, <1>9, <1>11, <1>14
  <2>. QED  BY <1>5, <1>10, <1>14, <2>1
<1>. QED  BY <1>12, <1>13, <1>14

LEMMA ExclusionStep ==
  ASSUME SemTypeOK, ExclusionInv, NEW t \in SemThreads, SemStep(t)
  PROVE  ExclusionInv'
<1>1. semOpt' = semOpt
  BY StepShape
<1>. SUFFICES ASSUME Excludes
             PROVE  /\ Guard \in DOMAIN sem'
                    /\ sem'[Guard] = IF \E u \in SemThreads : Inside(u)' THEN 0 ELSE 1
                    /\ \A u, v \in SemThreads : Inside(u)' /\ Inside(v)' => u = v
  BY <1>1 DEF ExclusionInv, Excludes, Guard, SemThreads
<1>2. /\ Guard \in DOMAIN sem
      /\ sem[Guard] = IF \E u \in SemThreads : Inside(u) THEN 0 ELSE 1
      /\ \A u, v \in SemThreads : Inside(u) /\ Inside(v) => u = v
  BY DEF ExclusionInv
<1>3. CASE At(t).op = "wait" /\ At(t).arg = Guard
  <2>1. sem[Guard] > 0 /\ sem' = [sem EXCEPT ![Guard] = @ - 1]
    BY <1>3, StepShape
  <2>2. \A u \in SemThreads : ~Inside(u)
    BY <1>2, <2>1
  <2>3. Inside(t)' /\ \A u \in SemThreads : u # t => ~Inside(u)'
    BY <1>3, <2>2, InsideStep
  <2>4. Guard \in DOMAIN sem' /\ sem'[Guard] = 0
    BY <1>2, <2>1, <2>2
  <2>. QED  BY <2>3, <2>4
<1>4. CASE At(t).op = "post" /\ At(t).arg = Guard
  <2>1. sem' = [sem EXCEPT ![Guard] = @ + 1]
    BY <1>4, StepShape
  <2>2. Inside(t) /\ \A u \in SemThreads : u # t => ~Inside(u)
    BY <1>2, <1>4, InsideStep
  <2>3. \A u \in SemThreads : ~Inside(u)'
    BY <1>4, <2>2, InsideStep
  <2>4. Guard \in DOMAIN sem' /\ sem'[Guard] = 1
    BY <1>2, <2>1, <2>2
  <2>. QED  BY <2>3, <2>4
<1>5. CASE ~(At(t).op = "wait" /\ At(t).arg = Guard) /\ ~(At(t).op = "post" /\ At(t).arg = Guard)
  <2>1. \A u \in SemThreads : Inside(u)' <=> Inside(u)
    BY <1>5, InsideStep
  <2>2. \/ sem' = sem
        \/ At(t).arg # Guard /\ sem' = [sem EXCEPT ![At(t).arg] = @ - 1]
        \/ At(t).arg # Guard /\ sem' = [sem EXCEPT ![At(t).arg] = @ + 1]
    BY <1>5, StepShape
  <2>3. Guard \in DOMAIN sem' /\ sem'[Guard] = sem[Guard]
    BY <1>2, <2>2
  <2>. QED  BY <1>2, <2>1, <2>3
<1>. QED  BY <1>3, <1>4, <1>5

\* A thread that is about to store is a writer inside; the only other lock has one writer.
LEMMA StoringPlace ==
  ASSUME SemTypeOK, semOpt.program \in Counts0, NEW t \in SemThreads
  PROVE  /\ ~Finished(t) /\ At(t).op = "store" <=> Storing(t)
         /\ Storing(t) <=> ~Finished(t) /\ IsWriter(t) /\ thread[t].pc = StoresAt(t)
         /\ Storing(t) /\ Excludes => Inside(t)
<1>1. RoleRight(Role(t), Guard, IsWriter(t), TakesAt(t), GivesAt(t), StoresAt(t), Excludes)
  BY RolesRight
<1>2. At(t) = Role(t)[thread[t].pc] /\ thread[t].pc \in 1 .. Len(Role(t))
  BY DEF SemTypeOK, At
<1>3. StoreWrites.op = "store"
  BY StatementParts
<1>4. /\ ~Finished(t) /\ At(t).op = "store" <=> Storing(t)
      /\ Storing(t) <=> ~Finished(t) /\ IsWriter(t) /\ thread[t].pc = StoresAt(t)
  BY <1>1, <1>2, <1>3 DEF RoleRight, Storing
<1>5. Storing(t) /\ Excludes => Inside(t)
  BY <1>4, PositionsOrdered DEF Inside
<1>. QED  BY <1>4, <1>5

LEMMA StoringAlone ==
  ASSUME SemTypeOK, semOpt.program \in Counts0, ExclusionInv,
         NEW t \in SemThreads, NEW u \in SemThreads, Storing(t), Storing(u)
  PROVE  t = u
<1>1. CASE Excludes
  BY <1>1, StoringPlace DEF ExclusionInv
<1>2. CASE ~Excludes
  <2>1. semOpt.program = "rw"
    BY <1>2 DEF Excludes, Counts0
  <2>2. semOpt.threads = 2
    BY <2>1, SemAssumption DEF SemTypeOK
  <2>3. t \in 0 .. 1 /\ u \in 0 .. 1
    BY <2>2 DEF SemThreads
  <2>4. t % 2 # 0 /\ u % 2 # 0
    BY <2>1, StoringPlace DEF IsWriter
  <2>. QED  BY <2>3, <2>4
<1>. QED  BY <1>1, <1>2

LEMMA StoredStep ==
  ASSUME SemTypeOK, semOpt.program \in Counts0, NEW t \in SemThreads, SemStep(t)
  PROVE  /\ \A u \in SemThreads : u # t => Stored(u)' = Stored(u)
         /\ Storing(t) => Stored(t)' = Stored(t) + 1 /\ Stored(t) \in 0 .. semOpt.rounds - 1
         /\ ~Storing(t) /\ IsWriter(t) => Stored(t)' = Stored(t)
<1> DEFINE k == thread[t].pc  N == Len(Role(t))  s == StoresAt(t)
           r == thread[t].rounds  r0 == semOpt.rounds
<1>2. RoleRight(Role(t), Guard, IsWriter(t), TakesAt(t), GivesAt(t), s, Excludes)
  BY RolesRight
<1>3. /\ At(t) = Role(t)[k] /\ k \in 1 .. N
      /\ r \in 1 .. r0
      /\ \A u \in SemThreads : u # t => thread'[u] = thread[u]
      /\ \/ k < N /\ thread'[t].pc = k + 1 /\ thread'[t].rounds = r
         \/ k = N /\ thread'[t].pc = 1 /\ thread'[t].rounds = r - 1
         \/ At(t).op = "unless0" /\ thread'[t].pc = k + 2 /\ thread'[t].rounds = r
  BY RoleMove
<1>4. semOpt' = semOpt /\ ~Finished(t)
  BY StepShape
<1>5. N \in Nat /\ (IsWriter(t) => At(t).op # "unless0" /\ s \in 1 .. N)
  BY <1>2, <1>3 DEF RoleRight
<1>6. s \in Nat /\ 2 < s
  BY PositionsOrdered
<1>7. r0 \in Nat
  BY SemAssumption DEF SemTypeOK
<1>8. Stored(t) = (r0 - r) + (IF k > s THEN 1 ELSE 0)
  BY <1>4 DEF Stored
<1>9. Stored(t)' = (r0 - thread'[t].rounds) + (IF thread'[t].rounds # 0 /\ thread'[t].pc > s THEN 1 ELSE 0)
  BY <1>4 DEF Stored, Finished, StoresAt
<1>10. \A u \in SemThreads : u # t => Stored(u)' = Stored(u)
  BY <1>3, <1>4 DEF Stored, Finished, StoresAt
<1>11. Storing(t) <=> IsWriter(t) /\ k = s
  BY <1>4, StoringPlace
<1>12. k \in Nat
  BY <1>3, <1>5
<1>. HIDE DEF k, N, s, r, r0
<1>13. CASE Storing(t)
  BY <1>3, <1>5, <1>6, <1>7, <1>8, <1>9, <1>10, <1>11, <1>12, <1>13 DEF r0
<1>14. CASE ~Storing(t)
  BY <1>3, <1>5, <1>6, <1>7, <1>8, <1>9, <1>10, <1>11, <1>12, <1>14
<1>. QED  BY <1>13, <1>14

LEMMA WritesStep ==
  ASSUME SemTypeOK, semOpt.program \in Counts0, ExclusionInv, WritesInv,
         NEW t \in SemThreads, SemStep(t), SemTypeOK'
  PROVE  WritesInv'
<1>1. semOpt' = semOpt
  BY StepShape
<1>0. SemThreads' = SemThreads
  BY <1>1 DEF SemThreads
<1>2. /\ \A u \in SemThreads : u # t => thread'[u] = thread[u]
      /\ At(t).op = "load" => thread'[t].local = writes
      /\ writes' = IF At(t).op = "store" THEN thread[t].local + 1 ELSE writes
      /\ At(t) = Role(t)[thread[t].pc] /\ thread[t].pc \in 1 .. Len(Role(t))
      /\ \/ thread'[t].pc = thread[t].pc + 1
         \/ thread'[t].pc = 1
         \/ At(t).op = "unless0"
  BY RoleMove
<1>3. ~Finished(t)
  BY StepShape
<1>4. Storing(t) <=> At(t).op = "store"
  BY <1>3, StoringPlace
<1>5. \A u \in SemThreads : Storing(u)' => thread'[u].local = writes'
  <2>1. SUFFICES ASSUME NEW u \in SemThreads, Storing(u)'
                 PROVE  thread'[u].local = writes'
    OBVIOUS
  <2>2. CASE u # t
    <3>1. Storing(u) /\ thread'[u] = thread[u]
      BY <1>1, <1>2, <2>1, <2>2 DEF Storing, Finished, At, Role
    <3>2. At(t).op # "store"
      BY <1>4, <2>2, <3>1, StoringAlone
    <3>. QED  BY <1>2, <3>1, <3>2 DEF WritesInv
  <2>3. CASE u = t
    <3>1. RoleRight(Role(t), Guard, IsWriter(t), TakesAt(t), GivesAt(t), StoresAt(t), Excludes)
      BY RolesRight
    <3>2. IsWriter(t) /\ thread'[t].pc = StoresAt(t)
      <4>1. RoleRight(Role(t), Guard, IsWriter(t), TakesAt(t), GivesAt(t), StoresAt(t), Excludes)'
        BY <1>1, <3>1 DEF Role, Guard, IsWriter, TakesAt, GivesAt, StoresAt, Excludes
      <4>2. Role(t)[thread'[t].pc] = StoreWrites /\ thread'[t].pc \in 1 .. Len(Role(t))
        <5>1. Role(t)' = Role(t)
          BY <1>1 DEF Role
        <5>. QED  BY <1>0, <2>1, <2>3, <5>1 DEF Storing, At, SemTypeOK
      <4>3. StoreWrites.op = "store"
        BY StatementParts
      <4>. QED  BY <3>1, <4>2, <4>3 DEF RoleRight
    <3>3. StoresAt(t) \in Nat /\ 2 < StoresAt(t)
      BY PositionsOrdered
    <3>4. thread[t].pc = StoresAt(t) - 1 /\ At(t).op = "load"
      <4>1. At(t).op # "unless0"
        BY <1>2, <3>1, <3>2 DEF RoleRight
      <4>2. thread[t].pc \in Nat
        BY <1>2, <3>1 DEF RoleRight
      <4>3. thread[t].pc = StoresAt(t) - 1
        BY <1>2, <3>2, <3>3, <4>1, <4>2
      <4>. QED  BY <1>2, <3>1, <3>2, <4>3 DEF RoleRight
    <3>. QED  BY <1>2, <2>3, <3>4
  <2>. QED  BY <2>2, <2>3
<1>6. IsFiniteSet(Written) /\ writes = Cardinality(Written)
  BY DEF WritesInv
<1>7. CASE Storing(t)
  <2>1. Written' = Written \cup {<<t, Stored(t) + 1>>} /\ <<t, Stored(t) + 1>> \notin Written
    <3>1. /\ \A u \in SemThreads : u # t => Stored(u)' = Stored(u)
          /\ Stored(t)' = Stored(t) + 1 /\ Stored(t) \in 0 .. semOpt.rounds - 1
      BY <1>7, StoredStep
    <3>2. IsWriter(t)
      BY <1>7, StoringPlace
    <3>3. semOpt.rounds \in Nat
      BY SemAssumption DEF SemTypeOK
    <3>4. <<t, Stored(t) + 1>> \notin Written
      BY <3>1 DEF Written
    <3>5. Written' = {p \in SemThreads \X (1 .. semOpt.rounds) :
                        IsWriter(p[1]) /\ p[2] <= Stored(p[1])'}
      BY <1>1 DEF Written, IsWriter, SemThreads
    <3>6. ASSUME NEW u \in SemThreads, NEW i \in 1 .. semOpt.rounds
          PROVE  IsWriter(u) /\ i <= Stored(u)' <=>
                   (IsWriter(u) /\ i <= Stored(u)) \/ (u = t /\ i = Stored(t) + 1)
      BY <3>1, <3>2, <3>3
    <3>7. Stored(t) + 1 \in 1 .. semOpt.rounds
      BY <3>1, <3>3
    <3>8. \A p \in SemThreads \X (1 .. semOpt.rounds) :
             IsWriter(p[1]) /\ p[2] <= Stored(p[1])' <=>
                   (IsWriter(p[1]) /\ p[2] <= Stored(p[1])) \/ p = <<t, Stored(t) + 1>>
      <4>1. TAKE p \in SemThreads \X (1 .. semOpt.rounds)
      <4>2. PICK u \in SemThreads, i \in 1 .. semOpt.rounds : p = <<u, i>>
        OBVIOUS
      <4>3. IsWriter(u) /\ i <= Stored(u)' <=>
              (IsWriter(u) /\ i <= Stored(u)) \/ (u = t /\ i = Stored(t) + 1)
        BY <3>6, <4>2
      <4>4. p[1] = u /\ p[2] = i /\ (p = <<t, Stored(t) + 1>> <=> u = t /\ i = Stored(t) + 1)
        BY <4>2
      <4>. QED  BY <4>3, <4>4, Zenon
    <3>9. <<t, Stored(t) + 1>> \in SemThreads \X (1 .. semOpt.rounds)
      BY <3>7
    <3>. QED  BY <3>4, <3>5, <3>8, <3>9 DEF Written
  <2>2. writes' = writes + 1
    BY <1>2, <1>4, <1>7 DEF WritesInv
  <2>3. IsFiniteSet(Written') /\ Cardinality(Written') = Cardinality(Written) + 1
    BY <1>6, <2>1, FS_AddElement
  <2>. QED  BY <1>0, <1>5, <1>6, <2>2, <2>3 DEF WritesInv
<1>8. CASE ~Storing(t)
  <2>1. \A u \in SemThreads : IsWriter(u) => Stored(u)' = Stored(u)
    BY <1>8, StoredStep
  <2>2. Written' = Written
    BY <1>1, <2>1 DEF Written, IsWriter, SemThreads
  <2>3. writes' = writes
    BY <1>2, <1>4, <1>8
  <2>. QED  BY <1>0, <1>5, <1>6, <2>2, <2>3 DEF WritesInv
<1>. QED  BY <1>7, <1>8

-----------------------------------------------------------------------------
(* The types hold for every program.                                       *)

LEMMA MeetingRoles ==
  /\ Len(Man) = 2 /\ Man[1] = Wait("t2") /\ Man[2] = Post("t1")
  /\ Len(Woman) = 2 /\ Woman[1] = Post("t2") /\ Woman[2] = Wait("t1")
  /\ Len(Child) = 8 /\ Child[1] = Wait("m") /\ Child[2] = Add(-1) /\ Child[3] = Post("m")
  /\ Child[4] = Unless0(2) /\ Child[5] = Post("s") /\ Child[6] = Exit /\ Child[7] = Wait("s")
  /\ Child[8] = Post("s") /\ Exit.op = "exit"
<1>1. Len(Man) = 2 /\ Man[1] = Wait("t2") /\ Man[2] = Post("t1")
  BY DEF Man
<1>2. Len(Woman) = 2 /\ Woman[1] = Post("t2") /\ Woman[2] = Wait("t1")
  BY DEF Woman
<1>3. /\ Len(Child) = 8 /\ Child[1] = Wait("m") /\ Child[2] = Add(-1) /\ Child[3] = Post("m")
      /\ Child[4] = Unless0(2) /\ Child[5] = Post("s") /\ Child[6] = Exit /\ Child[7] = Wait("s")
      /\ Child[8] = Post("s")
  BY DEF Child
<1>4. Exit.op = "exit"
  BY DEF Exit, Statement
<1>. QED  BY <1>1, <1>2, <1>3, <1>4, Zenon

LEMMA RolesTyped ==
  ASSUME SemTypeOK, NEW t \in SemThreads, NEW k \in 1 .. Len(Role(t))
  PROVE  /\ Len(Role(t)) \in Nat /\ Len(Role(t)) >= 1
         /\ Role(t)[k].op = "unless0" => Role(t)[k].arg \in Nat
         /\ semOpt.program \notin Counts0 => Role(t)[k].op # "store"
<1>1. CASE semOpt.program \in Counts0
  <2>1. RoleRight(Role(t), Guard, IsWriter(t), TakesAt(t), GivesAt(t), StoresAt(t), Excludes)
    BY <1>1, RolesRight
  <2>2. /\ Len(Role(t)) \in Nat /\ Len(Role(t)) >= 1
        /\ Role(t)[k].op = "unless0" => Role(t)[k].arg \in Nat
    BY <2>1 DEF RoleRight
  <2>. QED  BY <1>1, <2>2
<1>2. CASE semOpt.program = "rendezvous"
  <2>1. Role(t) = Man \/ Role(t) = Woman
    BY <1>2 DEF Role
  <2>2. Len(Role(t)) = 2
    BY <2>1, MeetingRoles, Zenon
  <2>3. k = 1 \/ k = 2
    BY <2>2
  <2>. QED  BY <2>1, <2>2, <2>3, MeetingRoles, StatementParts
<1>3. CASE semOpt.program = "barrier"
  <2>1. Role(t) = Child
    BY <1>3 DEF Role
  <2>2. k \in 1 .. 8 /\ Len(Role(t)) = 8
    BY <2>1, MeetingRoles
  <2>3. k = 1 \/ k = 2 \/ k = 3 \/ k = 4 \/ k = 5 \/ k = 6 \/ k = 7 \/ k = 8
    BY <2>2
  <2>. QED  BY <2>1, <2>2, <2>3, MeetingRoles, StatementParts
<1>4. semOpt.program \in {"rendezvous", "barrier", "mutex", "rw", "nostarve"}
  BY SemAssumption DEF SemTypeOK
<1>. QED  BY <1>1, <1>2, <1>3, <1>4 DEF Counts0

LEMMA SemTypeStep ==
  ASSUME SemTypeOK, NEW t \in SemThreads, SemStep(t)
  PROVE  SemTypeOK'
<1> DEFINE k == thread[t].pc  N == Len(Role(t))
<1>1. /\ ~Finished(t) /\ semOpt' = semOpt
      /\ \A u \in SemThreads : u # t => thread'[u] = thread[u]
      /\ thread'[t] \in ThreadStates => thread' \in [SemThreads -> ThreadStates]
  BY StepShape
<1>2. thread[t] \in ThreadStates /\ semOpt.rounds \in Nat /\ writes \in Nat /\ k \in 1 .. N
  BY SemAssumption DEF SemTypeOK
<1>3. /\ N \in Nat /\ N >= 1 /\ (At(t).op = "unless0" => At(t).arg \in Nat)
  BY <1>2, RolesTyped DEF At
<1>4. thread[t].rounds \in 1 .. semOpt.rounds /\ thread[t].local \in Nat /\ k \in Nat
  BY <1>1, <1>2 DEF Finished, ThreadStates
<1>5. \A n \in Nat, x \in Nat : n >= 1 /\ StepTo(t, n, x) =>
        thread'[t] \in ThreadStates /\ thread'[t].pc \in 1 .. N
  BY <1>2, <1>3, <1>4 DEF StepTo, ThreadStates
<1>6. \E n \in Nat, x \in Nat : n >= 1 /\ StepTo(t, n, x)
  <2>1. k + 1 \in Nat /\ k + 1 >= 1 /\ N + 1 \in Nat /\ N + 1 >= 1
    BY <1>3, <1>4
  <2>2. CASE At(t).op = "unless0"
    <3>1. StepTo(t, k + (IF shared = 0 THEN 1 ELSE 1 + At(t).arg), thread[t].local)
      BY <2>2, StepShape
    <3>2. /\ k + (IF shared = 0 THEN 1 ELSE 1 + At(t).arg) \in Nat
          /\ k + (IF shared = 0 THEN 1 ELSE 1 + At(t).arg) >= 1
      BY <1>3, <1>4, <2>2
    <3>. QED  BY <1>4, <3>1, <3>2
  <2>3. CASE At(t).op # "unless0"
    <3>1. \/ StepTo(t, k + 1, thread[t].local)
          \/ StepTo(t, k + 1, writes)
          \/ StepTo(t, N + 1, thread[t].local)
      BY <2>3, StepShape
    <3>. HIDE DEF k, N
    <3>. QED  BY <1>2, <1>4, <2>1, <3>1
  <2>. QED  BY <2>2, <2>3
<1>7. thread'[t] \in ThreadStates /\ thread'[t].pc \in 1 .. N
  BY <1>5, <1>6
<1>8. writes' \in Nat
  BY <1>2, <1>4, StepShape
<1>9. SemThreads' = SemThreads /\ ThreadStates' = ThreadStates /\ \A u \in SemThreads : Role(u)' = Role(u)
  BY <1>1 DEF SemThreads, ThreadStates, Role
<1>10. thread' \in [SemThreads -> ThreadStates]
  BY <1>1, <1>7
<1>11. \A u \in SemThreads : thread'[u].pc \in 1 .. Len(Role(u))
  BY <1>1, <1>7 DEF SemTypeOK
<1>. QED  BY <1>1, <1>8, <1>9, <1>10, <1>11 DEF SemTypeOK

-----------------------------------------------------------------------------
(* The rendezvous: a semaphore is what one has posted and the other has    *)
(* not taken.                                                              *)
One(b) == IF b THEN 1 ELSE 0

RendezvousInv ==
    semOpt.program = "rendezvous" =>
       /\ "t1" \in DOMAIN sem /\ "t2" \in DOMAIN sem
       /\ sem["t2"] = One(Past(1, 1)) - One(Past(0, 1)) /\ sem["t2"] >= 0
       /\ sem["t1"] = One(Past(0, 2)) - One(Past(1, 2)) /\ sem["t1"] >= 0

LEMMA RendezvousStep ==
  ASSUME SemTypeOK, RendezvousInv, NEW t \in SemThreads, SemStep(t)
  PROVE  RendezvousInv'
<1>1. /\ ~Finished(t) /\ semOpt' = semOpt
      /\ \A u \in SemThreads : u # t => thread'[u] = thread[u]
  BY StepShape
<1>. SUFFICES ASSUME semOpt.program = "rendezvous" PROVE RendezvousInv'
  BY <1>1 DEF RendezvousInv
<1>2. semOpt.threads = 2 /\ semOpt.rounds = 1
  BY SemAssumption DEF SemTypeOK
<1>3. SemThreads = {0, 1}
  BY <1>2 DEF SemThreads
<1>4. /\ Role(0) = Man /\ Role(1) = Woman /\ \A u \in SemThreads : Len(Role(u)) = 2
      /\ At(0) = Man[thread[0].pc] /\ At(1) = Woman[thread[1].pc]
  BY <1>3, MeetingRoles DEF Role, At
<1>5. \A u \in SemThreads : /\ thread[u].rounds \in {0, 1} /\ thread[u].pc \in {1, 2}
                            /\ thread[u] \in ThreadStates
  <2>1. \A u \in SemThreads : thread[u] \in ThreadStates /\ thread[u].pc \in 1 .. Len(Role(u))
    BY DEF SemTypeOK
  <2>2. ThreadStates = [pc : Nat, rounds : 0 .. 1, local : Nat]
    BY <1>2 DEF ThreadStates
  <2>3. \A u \in SemThreads : Len(Role(u)) = 2
    BY <1>4
  <2>4. TAKE u \in SemThreads
  <2>5. thread[u] \in [pc : Nat, rounds : 0 .. 1, local : Nat] /\ thread[u].pc \in 1 .. 2
    BY <2>1, <2>2, <2>3
  <2>6. thread[u].rounds \in 0 .. 1 /\ thread[u] \in ThreadStates
    BY <2>1, <2>5
  <2>. QED  BY <2>5, <2>6
<1>6. /\ "t1" \in DOMAIN sem /\ "t2" \in DOMAIN sem
      /\ sem["t2"] = One(Past(1, 1)) - One(Past(0, 1)) /\ sem["t2"] >= 0
      /\ sem["t1"] = One(Past(0, 2)) - One(Past(1, 2)) /\ sem["t1"] >= 0
  BY DEF RendezvousInv
<1>7. /\ At(t).op \in {"wait", "post"}
      /\ thread[t].rounds = 1
      /\ thread[t].pc = 1 => thread'[t].pc = 2 /\ thread'[t].rounds = 1
      /\ thread[t].pc = 2 => thread'[t].pc = 1 /\ thread'[t].rounds = 0
  <2>1. At(t).op \in {"wait", "post"}
    BY <1>3, <1>4, <1>5, MeetingRoles, StatementParts
  <2>2. StepTo(t, thread[t].pc + 1, thread[t].local)
    BY <2>1, StepShape
  <2>3. thread[t].rounds = 1 /\ thread[t].pc \in {1, 2} /\ Len(Role(t)) = 2
    BY <1>1, <1>4, <1>5 DEF Finished
  <2>4. thread[t].pc = 1 => thread'[t] = [pc |-> 2, rounds |-> 1, local |-> thread[t].local]
    BY <2>2, <2>3 DEF StepTo
  <2>5. thread[t].pc = 2 => thread'[t] = [pc |-> 1, rounds |-> 0, local |-> thread[t].local]
    BY <2>2, <2>3 DEF StepTo
  <2>. QED  BY <2>1, <2>3, <2>4, <2>5
<1>8. /\ At(t).op = "wait" => sem[At(t).arg] > 0 /\ sem' = [sem EXCEPT ![At(t).arg] = @ - 1]
      /\ At(t).op = "post" => sem' = [sem EXCEPT ![At(t).arg] = @ + 1]
  BY <1>7, StepShape
<1>9. CASE t = 0
  <2>1. thread'[1] = thread[1]
    BY <1>1, <1>3, <1>9
  <2>2. CASE thread[0].pc = 1
    <3>1. At(0) = Wait("t2")
      BY <1>4, <2>2, MeetingRoles
    <3>2. sem["t2"] > 0 /\ sem' = [sem EXCEPT !["t2"] = @ - 1]
      BY <1>8, <1>9, <3>1, StatementParts
    <3>. QED  BY <1>5, <1>6, <1>7, <1>9, <2>1, <2>2, <3>2 DEF RendezvousInv, Past, Finished, One
  <2>3. CASE thread[0].pc = 2
    <3>1. At(0) = Post("t1")
      BY <1>4, <2>3, MeetingRoles
    <3>2. sem' = [sem EXCEPT !["t1"] = @ + 1]
      BY <1>8, <1>9, <3>1, StatementParts
    <3>. QED  BY <1>3, <1>5, <1>6, <1>7, <1>9, <2>1, <2>3, <3>2 DEF RendezvousInv, Past, Finished, One
  <2>. QED  BY <1>3, <1>5, <2>2, <2>3
<1>10. CASE t = 1
  <2>1. thread'[0] = thread[0]
    BY <1>1, <1>3, <1>10
  <2>2. CASE thread[1].pc = 1
    <3>1. At(1) = Post("t2")
      BY <1>4, <2>2, MeetingRoles
    <3>2. sem' = [sem EXCEPT !["t2"] = @ + 1]
      BY <1>8, <1>10, <3>1, StatementParts
    <3>. QED  BY <1>3, <1>5, <1>6, <1>7, <1>10, <2>1, <2>2, <3>2 DEF RendezvousInv, Past, Finished, One
  <2>3. CASE thread[1].pc = 2
    <3>1. At(1) = Wait("t1")
      BY <1>4, <2>3, MeetingRoles
    <3>2. sem["t1"] > 0 /\ sem' = [sem EXCEPT !["t1"] = @ - 1]
      BY <1>8, <1>10, <3>1, StatementParts
    <3>. QED  BY <1>3, <1>5, <1>6, <1>7, <1>10, <2>1, <2>3, <3>2 DEF RendezvousInv, Past, Finished, One
  <2>. QED  BY <1>3, <1>5, <2>2, <2>3
<1>. QED  BY <1>3, <1>9, <1>10

-----------------------------------------------------------------------------
(* The barrier: nobody opens it before all have counted themselves.        *)
Uncounted == {t \in SemThreads : ~Past(t, 2)}
Opened == sem["s"] > 0 \/ \E t \in SemThreads : Finished(t) \/ thread[t].pc \in {5, 6, 8}

BarrierInv ==
    semOpt.program = "barrier" =>
       /\ "s" \in DOMAIN sem
       /\ IsFiniteSet(Uncounted) /\ shared = Cardinality(Uncounted)
       /\ Opened => shared = 0

LEMMA BarrierStep ==
  ASSUME SemTypeOK, BarrierInv, NEW t \in SemThreads, SemStep(t)
  PROVE  BarrierInv'
<1>1. /\ ~Finished(t) /\ semOpt' = semOpt
      /\ \A u \in SemThreads : u # t => thread'[u] = thread[u]
  BY StepShape
<1>. SUFFICES ASSUME semOpt.program = "barrier" PROVE BarrierInv'
  BY <1>1 DEF BarrierInv
<1>2. semOpt.rounds = 1
  BY SemAssumption DEF SemTypeOK
<1>3. SemThreads' = SemThreads
  BY <1>1 DEF SemThreads
<1>4. Role(t) = Child /\ Len(Role(t)) = 8 /\ At(t) = Child[thread[t].pc]
  BY MeetingRoles DEF Role, At
<1>5. thread[t].rounds = 1 /\ thread[t].pc \in 1 .. 8
  <2>1. thread[t] \in ThreadStates /\ thread[t].pc \in 1 .. 8
    BY <1>4 DEF SemTypeOK
  <2>2. ThreadStates = [pc : Nat, rounds : 0 .. 1, local : Nat]
    BY <1>2 DEF ThreadStates
  <2>. QED  BY <1>1, <2>1, <2>2 DEF Finished
<1>6. /\ "s" \in DOMAIN sem
      /\ IsFiniteSet(Uncounted) /\ shared = Cardinality(Uncounted)
      /\ Opened => shared = 0
  BY DEF BarrierInv
<1>7. \A n \in 1 .. 9 : \A x : StepTo(t, n, x) =>
         /\ n <= 8 => thread'[t].pc = n /\ thread'[t].rounds = 1
         /\ n = 9 => thread'[t].pc = 1 /\ thread'[t].rounds = 0
  BY <1>4, <1>5 DEF StepTo
<1>8. CASE thread[t].pc = 2
  <2>1. shared' = shared - 1 /\ sem' = sem /\ StepTo(t, 2 + 1, thread[t].local)
    <3>1. At(t).op = "add" /\ At(t).arg = -1
      BY <1>4, <1>8, MeetingRoles, StatementParts
    <3>2. shared' = shared + At(t).arg /\ sem' = sem /\ StepTo(t, 2 + 1, thread[t].local)
      BY <1>8, <3>1, StepShape
    <3>3. Cardinality(Uncounted) \in Nat
      BY <1>6, FS_CardinalityType
    <3>. QED  BY <1>6, <3>1, <3>2, <3>3
  <2>2. thread'[t].pc = 3 /\ thread'[t].rounds = 1
    BY <1>7, <2>1
  <2>3. t \in Uncounted /\ Uncounted' = Uncounted \ {t}
    BY <1>1, <1>3, <1>5, <1>8, <2>2 DEF Uncounted, Past, Finished
  <2>4. IsFiniteSet(Uncounted') /\ Cardinality(Uncounted') = Cardinality(Uncounted) - 1
    BY <1>6, <2>3, FS_RemoveElement
  <2>5. shared # 0
    BY <1>6, <2>3, FS_EmptySet
  <2>6. ~Opened'
    BY <1>1, <1>3, <1>6, <2>1, <2>2, <2>5 DEF Opened, Finished
  <2>. QED  BY <1>3, <1>6, <2>1, <2>4, <2>6 DEF BarrierInv
<1>9. CASE thread[t].pc # 2
  <2>1. shared' = shared
    <3>1. At(t).op # "add"
      <4>1. \/ thread[t].pc = 1 \/ thread[t].pc = 3 \/ thread[t].pc = 4 \/ thread[t].pc = 5
            \/ thread[t].pc = 6 \/ thread[t].pc = 7 \/ thread[t].pc = 8
        BY <1>5, <1>9
      <4>. QED  BY <1>4, <4>1, MeetingRoles, StatementParts
    <3>. QED  BY <3>1, StepShape
  <2>2. Uncounted' = Uncounted /\ (Opened' => Opened \/ shared = 0)
    <3>1. \A u \in SemThreads : u # t => (Past(u, 2)' <=> Past(u, 2))
      BY <1>1 DEF Past, Finished
    <3>2. ASSUME Past(t, 2)' <=> Past(t, 2)
          PROVE  Uncounted' = Uncounted
      BY <1>3, <3>1, <3>2 DEF Uncounted
    <3>3. ASSUME sem'["s"] = sem["s"] \/ Opened, thread'[t].rounds = 1,
                 thread'[t].pc \in {5, 6, 8} => Opened \/ shared = 0
          PROVE  Opened' => Opened \/ shared = 0
      BY <1>1, <1>3, <3>3 DEF Opened, Finished
    <3>4. CASE thread[t].pc = 1
      <4>1. At(t) = Wait("m")
        BY <1>4, <3>4, MeetingRoles
      <4>2. sem' = [sem EXCEPT !["m"] = @ - 1] /\ StepTo(t, 1 + 1, thread[t].local)
        BY <3>4, <4>1, StepShape, StatementParts
      <4>3. thread'[t].pc = 2 /\ thread'[t].rounds = 1
        BY <1>7, <4>2
      <4>4. sem'["s"] = sem["s"]
        BY <1>6, <4>2
      <4>5. Past(t, 2)' <=> Past(t, 2)
        BY <1>1, <3>4, <4>3 DEF Past, Finished
      <4>. QED  BY <3>2, <3>3, <4>3, <4>4, <4>5
    <3>5. CASE thread[t].pc = 3
      <4>1. At(t) = Post("m")
        BY <1>4, <3>5, MeetingRoles
      <4>2. sem' = [sem EXCEPT !["m"] = @ + 1] /\ StepTo(t, 3 + 1, thread[t].local)
        BY <3>5, <4>1, StepShape, StatementParts
      <4>3. thread'[t].pc = 4 /\ thread'[t].rounds = 1
        BY <1>7, <4>2
      <4>4. sem'["s"] = sem["s"]
        BY <1>6, <4>2
      <4>5. Past(t, 2)' <=> Past(t, 2)
        BY <1>1, <3>5, <4>3 DEF Past, Finished
      <4>. QED  BY <3>2, <3>3, <4>3, <4>4, <4>5
    <3>6. CASE thread[t].pc = 4
      <4>1. At(t) = Unless0(2)
        BY <1>4, <3>6, MeetingRoles
      <4>2. sem' = sem /\ StepTo(t, 4 + (IF shared = 0 THEN 1 ELSE 1 + 2), thread[t].local)
        BY <3>6, <4>1, StepShape, StatementParts
      <4>3. /\ thread'[t].pc = (IF shared = 0 THEN 5 ELSE 7) /\ thread'[t].rounds = 1
        BY <1>7, <4>2
      <4>5. Past(t, 2)' <=> Past(t, 2)
        BY <1>1, <3>6, <4>3 DEF Past, Finished
      <4>. QED  BY <3>2, <3>3, <4>2, <4>3, <4>5
    <3>7. CASE thread[t].pc \in {5, 6, 8}
      <4>1. Opened
        BY <3>7 DEF Opened
      <4>2. thread'[t].pc > 2 \/ thread'[t].rounds = 0
        <5>1. thread[t].pc + 1 \in 1 .. 9 /\ Len(Role(t)) + 1 \in 1 .. 9
          BY <1>4, <3>7
        <5>2. At(t).op \in {"post", "exit"}
          BY <1>4, <3>7, MeetingRoles, StatementParts
        <5>3. StepTo(t, thread[t].pc + 1, thread[t].local) \/ StepTo(t, Len(Role(t)) + 1, thread[t].local)
          BY <5>2, StepShape
        <5>. QED  BY <1>4, <1>7, <3>7, <5>1, <5>3
      <4>3. Past(t, 2)' <=> Past(t, 2)
        BY <3>7, <4>2 DEF Past, Finished
      <4>. QED  BY <3>2, <4>1, <4>3
    <3>8. CASE thread[t].pc = 7
      <4>1. At(t) = Wait("s")
        BY <1>4, <3>8, MeetingRoles
      <4>2. sem["s"] > 0 /\ StepTo(t, 7 + 1, thread[t].local)
        BY <3>8, <4>1, StepShape, StatementParts
      <4>3. thread'[t].pc = 8 /\ thread'[t].rounds = 1
        BY <1>7, <4>2
      <4>4. Opened
        BY <4>2 DEF Opened
      <4>5. Past(t, 2)' <=> Past(t, 2)
        BY <1>1, <3>8, <4>3 DEF Past, Finished
      <4>. QED  BY <3>2, <4>4, <4>5
    <3>. QED  BY <1>5, <1>9, <3>4, <3>5, <3>6, <3>7, <3>8
  <2>3. "s" \in DOMAIN sem'
    <3>1. sem' = sem \/ \E x, v : sem' = [sem EXCEPT ![x] = v]
      BY StepShape
    <3>. QED  BY <1>6, <3>1
  <2>. QED  BY <1>6, <2>1, <2>2, <2>3 DEF BarrierInv
<1>. QED  BY <1>8, <1>9

-----------------------------------------------------------------------------
\* Nothing is written by the others.
QuietInv == semOpt.program \notin Counts0 => writes = 0

LEMMA QuietStep ==
  ASSUME SemTypeOK, QuietInv, NEW t \in SemThreads, SemStep(t)
  PROVE  QuietInv'
<1>1. semOpt' = semOpt
  BY StepShape
<1>. SUFFICES ASSUME semOpt.program \notin Counts0 PROVE writes' = 0
  BY <1>1 DEF QuietInv, Counts0
<1>2. At(t).op # "store"
  BY RolesTyped DEF SemTypeOK, At
<1>. QED  BY <1>2, StepShape DEF QuietInv

SemInv == SemTypeOK /\ CountInv /\ RendezvousInv /\ BarrierInv /\ QuietInv

LEMMA SemInitInv == SemInit => SemInv
<1>. SUFFICES ASSUME SemInit PROVE SemInv
  OBVIOUS
<1>1. /\ semOpt \in SemOptions /\ sem = InitialValues /\ writes = 0
      /\ thread = [t \in SemThreads |-> [pc |-> 1, rounds |-> semOpt.rounds, local |-> 0]]
      /\ shared = IF semOpt.program = "barrier" THEN semOpt.threads ELSE 0
  BY DEF SemInit
<1>2. /\ semOpt.program \in {"rendezvous", "barrier", "mutex", "rw", "nostarve"}
      /\ semOpt.threads \in Nat \ {0} /\ semOpt.rounds \in Nat \ {0}
  BY <1>1, SemAssumption
<1>3. \A t \in SemThreads : /\ thread[t].pc = 1 /\ thread[t].rounds = semOpt.rounds /\ ~Finished(t)
                            /\ thread[t].local = 0
  BY <1>1, <1>2 DEF Finished
<1>4. SemTypeOK
  <2>1. \A t \in SemThreads : Len(Role(t)) \in Nat /\ Len(Role(t)) >= 1
    <3>1. TAKE t \in SemThreads
    <3>2. CASE semOpt.program \in Counts0
      <4>1. RoleRight(Role(t), Guard, IsWriter(t), TakesAt(t), GivesAt(t), StoresAt(t), Excludes)
        BY <3>2, RolesRight
      <4>. QED  BY <4>1 DEF RoleRight
    <3>3. CASE semOpt.program \in {"rendezvous", "barrier"}
      <4>1. Role(t) = Man \/ Role(t) = Woman \/ Role(t) = Child
        BY <3>3 DEF Role
      <4>2. Len(Role(t)) = 2 \/ Len(Role(t)) = 8
        BY <4>1, MeetingRoles, Zenon
      <4>. QED  BY <4>2, SMTT(20)
    <3>. QED  BY <1>2, <3>2, <3>3 DEF Counts0
  <2>2. [pc |-> 1, rounds |-> semOpt.rounds, local |-> 0] \in ThreadStates
    BY <1>2 DEF ThreadStates
  <2>3. thread \in [SemThreads -> ThreadStates]
    BY <1>1, <2>2
  <2>4. \A t \in SemThreads : thread[t].pc \in 1 .. Len(Role(t))
    BY <1>3, <2>1
  <2>. QED  BY <1>1, <2>3, <2>4 DEF SemTypeOK
<1>5. CountInv
  <2>. SUFFICES ASSUME semOpt.program \in Counts0 PROVE ExclusionInv /\ WritesInv
    BY DEF CountInv
  <2>1. \A t \in SemThreads : ~Inside(t) /\ ~Storing(t) /\ Stored(t) = 0
    <3>1. TAKE t \in SemThreads
    <3>2. 1 <= TakesAt(t) /\ 2 < StoresAt(t) /\ TakesAt(t) \in Nat /\ StoresAt(t) \in Nat
      BY PositionsOrdered
    <3>3. ~Storing(t)
      BY <1>3, <1>4, <3>2, StoringPlace
    <3>. QED  BY <1>2, <1>3, <3>2, <3>3 DEF Inside, Stored
  <2>2. Excludes => Guard \in DOMAIN sem /\ sem[Guard] = 1
    <3>1. CASE semOpt.program = "mutex"
      <4>1. sem = [acquire |-> 1] /\ Guard = "acquire"
        BY <1>1, <3>1 DEF InitialValues, Guard
      <4>. QED  BY <4>1
    <3>2. CASE semOpt.program = "nostarve"
      <4>1. sem = [lock |-> 1, writelock |-> 1, readlock |-> 1] /\ Guard = "readlock"
        BY <1>1, <3>2 DEF InitialValues, Guard
      <4>. QED  BY <4>1
    <3>. QED  BY <3>1, <3>2 DEF Excludes
  <2>3. Written = {}
    BY <1>2, <2>1 DEF Written
  <2>. QED  BY <1>1, <2>1, <2>2, <2>3, FS_EmptySet DEF ExclusionInv, WritesInv
<1>6. RendezvousInv
  <2>. SUFFICES ASSUME semOpt.program = "rendezvous" PROVE RendezvousInv
    BY DEF RendezvousInv
  <2>1. sem = [t1 |-> 0, t2 |-> 0]
    BY <1>1 DEF InitialValues
  <2>2. 0 \in SemThreads /\ 1 \in SemThreads
    BY <1>1, SemAssumption DEF SemThreads
  <2>3. One(Past(0, 1)) = 0 /\ One(Past(0, 2)) = 0 /\ One(Past(1, 1)) = 0 /\ One(Past(1, 2)) = 0
    BY <1>3, <2>2 DEF One, Past
  <2>. QED  BY <2>1, <2>3 DEF RendezvousInv
<1>7. BarrierInv
  <2>. SUFFICES ASSUME semOpt.program = "barrier" PROVE BarrierInv
    BY DEF BarrierInv
  <2>1. sem = [s |-> 0, m |-> 1]
    BY <1>1 DEF InitialValues
  <2>2. Uncounted = 0 .. semOpt.threads - 1
    BY <1>3 DEF Uncounted, Past, SemThreads
  <2>3. IsFiniteSet(Uncounted) /\ Cardinality(Uncounted) = semOpt.threads
    BY <1>2, <2>2, FS_Interval
  <2>4. ~Opened
    BY <1>3, <2>1 DEF Opened
  <2>. QED  BY <1>1, <2>1, <2>3, <2>4 DEF BarrierInv
<1>8. QuietInv
  BY <1>1 DEF QuietInv
<1>. QED  BY <1>4, <1>5, <1>6, <1>7, <1>8 DEF SemInv

LEMMA SemInvStep == SemInv /\ [SemNext]_semVars => SemInv'
<1>. SUFFICES ASSUME SemInv, [SemNext]_semVars PROVE SemInv'
  OBVIOUS
<1>1. CASE SemNext
  <2>1. PICK t \in SemThreads : SemStep(t)
    BY <1>1 DEF SemNext
  <2>2. SemTypeOK'
    BY <2>1, SemTypeStep DEF SemInv
  <2>3. RendezvousInv' /\ BarrierInv' /\ QuietInv'
    BY <2>1, RendezvousStep, BarrierStep, QuietStep DEF SemInv
  <2>4. semOpt' = semOpt
    BY <2>1, StepShape DEF SemInv
  <2>5. CASE semOpt.program \in Counts0
    <3>1. ExclusionInv /\ WritesInv
      BY <2>5 DEF SemInv, CountInv
    <3>2. ExclusionInv'
      BY <2>1, <3>1, ExclusionStep DEF SemInv
    <3>3. WritesInv'
      BY <2>1, <2>2, <2>5, <3>1, WritesStep DEF SemInv
    <3>. QED  BY <2>2, <2>3, <3>2, <3>3 DEF SemInv, CountInv
  <2>6. CASE semOpt.program \notin Counts0
    BY <2>2, <2>3, <2>4, <2>6 DEF SemInv, CountInv, Counts0
  <2>. QED  BY <2>5, <2>6
<1>2. CASE UNCHANGED semVars
  <2>1. semOpt' = semOpt /\ sem' = sem /\ shared' = shared /\ writes' = writes /\ thread' = thread
    BY <1>2 DEF semVars
  <2>2. SemTypeOK'
    BY <2>1 DEF SemInv, SemTypeOK, ThreadStates, SemThreads, Role
  <2>3. CountInv'
    BY <2>1 DEF SemInv, CountInv, ExclusionInv, WritesInv, Excludes, Guard, Inside, Finished, TakesAt,
       GivesAt, IsWriter, Storing, At, Role, Written, Stored, StoresAt, SemThreads
  <2>4. RendezvousInv'
    BY <2>1 DEF SemInv, RendezvousInv, Past, Finished, One
  <2>5. BarrierInv'
    BY <2>1 DEF SemInv, BarrierInv, Uncounted, Opened, Past, Finished, SemThreads
  <2>6. QuietInv'
    BY <2>1 DEF SemInv, QuietInv, Counts0
  <2>. QED  BY <2>2, <2>3, <2>4, <2>5, <2>6 DEF SemInv
<1>. QED  BY <1>1, <1>2

LEMMA SemInvHolds == SemSpec => []SemInv
BY SemInitInv, SemInvStep, PTL DEF SemSpec

(* No thread leaves the rendezvous or the barrier before all have come, by *)
(* rendezvous.c and barrier.c, although n is read outside its semaphore.   *)
THEOREM LeaveTogetherHolds == SemSpec => []LeaveTogether
<1>1. SemInv => LeaveTogether
  <2>. SUFFICES ASSUME SemInv PROVE LeaveTogether
    OBVIOUS
  <2>1. ASSUME semOpt.program = "rendezvous"
        PROVE  (Past(0, 1) => Past(1, 1)) /\ (Past(1, 2) => Past(0, 2))
    <3>1. /\ sem["t2"] = One(Past(1, 1)) - One(Past(0, 1)) /\ sem["t2"] >= 0
          /\ sem["t1"] = One(Past(0, 2)) - One(Past(1, 2)) /\ sem["t1"] >= 0
      BY <2>1 DEF SemInv, RendezvousInv
    <3>2. \A b \in BOOLEAN, c \in BOOLEAN : One(b) - One(c) >= 0 => (c => b)
      BY DEF One
    <3>3. /\ Past(0, 1) \in BOOLEAN /\ Past(1, 1) \in BOOLEAN
          /\ Past(0, 2) \in BOOLEAN /\ Past(1, 2) \in BOOLEAN
      BY DEF Past
    <3>. QED  BY <3>1, <3>2, <3>3
  <2>2. ASSUME semOpt.program = "barrier", NEW t \in SemThreads, NEW u \in SemThreads, Past(t, 7)
        PROVE  Past(u, 2)
    <3>1. Role(t) = Child /\ Len(Role(t)) = 8
      BY <2>2, MeetingRoles DEF Role
    <3>2. thread[t].pc \in 1 .. 8
      BY <3>1 DEF SemInv, SemTypeOK
    <3>3. Finished(t) \/ thread[t].pc = 8
      BY <2>2, <3>2 DEF Past
    <3>4. shared = 0
      BY <2>2, <3>3 DEF SemInv, BarrierInv, Opened
    <3>5. Uncounted = {}
      BY <2>2, <3>4, FS_EmptySet DEF SemInv, BarrierInv
    <3>. QED  BY <3>5 DEF Uncounted
  <2>. QED  BY <2>1, <2>2 DEF LeaveTogether
<1>. QED  BY <1>1, SemInvHolds, PTL

LEMMA AllWritten ==
  ASSUME SemInv, semOpt.program \in Counts0, SemDone
  PROVE  writes = semOpt.rounds * Cardinality({t \in SemThreads : IsWriter(t)})
<1> DEFINE W == {t \in SemThreads : IsWriter(t)}
<1>1. semOpt.rounds \in Nat \ {0} /\ semOpt.threads \in Nat
  BY SemAssumption DEF SemInv, SemTypeOK
<1>2. \A t \in SemThreads : Stored(t) = semOpt.rounds
  BY <1>1 DEF SemDone, Finished, Stored
<1>3. Written = W \X (1 .. semOpt.rounds)
  <2>1. \A p \in SemThreads \X (1 .. semOpt.rounds) : p[2] <= Stored(p[1])
    BY <1>1, <1>2
  <2>. QED  BY <2>1 DEF Written
<1>4. IsFiniteSet(W)
  <2>1. IsFiniteSet(0 .. semOpt.threads - 1)
    BY <1>1, FS_Interval
  <2>. QED  BY <2>1, FS_Subset DEF SemThreads
<1>5. IsFiniteSet(1 .. semOpt.rounds) /\ Cardinality(1 .. semOpt.rounds) = semOpt.rounds
  <2>1. 1 \in Int /\ semOpt.rounds \in Int /\ semOpt.rounds >= 1
    BY <1>1
  <2>2. semOpt.rounds - 1 + 1 = semOpt.rounds
    BY <1>1
  <2>. QED  BY <2>1, <2>2, FS_Interval
<1>. HIDE DEF W
<1>6. Cardinality(W \X (1 .. semOpt.rounds)) = Cardinality(W) * semOpt.rounds
  BY <1>4, <1>5, FS_Product
<1>7. writes = Cardinality(W) * semOpt.rounds
  BY <1>3, <1>6 DEF SemInv, CountInv, WritesInv
<1>8. Cardinality(W) \in Nat
  BY <1>4, FS_CardinalityType
<1>9. writes = semOpt.rounds * Cardinality(W)
  BY <1>1, <1>7, <1>8
<1>. QED  BY <1>9 DEF W

(* No write is lost, by no-starve-mutex.c, reader-writer.c and             *)
(* reader-writer-nostarve.c, although the last reader posts a writelock    *)
(* that no reader has taken.                                               *)
THEOREM NoWriteLostHolds == SemSpec => []NoWriteLost
<1>1. ASSUME SemInv, semOpt.program \in Counts0
      PROVE  NoWriteLost
  <2>1. \A t, u \in SemThreads : t # u => ~(Storing(t) /\ Storing(u))
    BY <1>1, StoringAlone DEF SemInv, CountInv
  <2>2. \A t \in SemThreads : StoreWrites \in Range(Role(t)) <=> IsWriter(t)
    <3>1. TAKE t \in SemThreads
    <3>2. RoleRight(Role(t), Guard, IsWriter(t), TakesAt(t), GivesAt(t), StoresAt(t), Excludes)
      BY <1>1, RolesRight
    <3>3. StoreWrites.op = "store"
      BY StatementParts
    <3>4. StoreWrites \in Range(Role(t)) <=> \E k \in 1 .. Len(Role(t)) : Role(t)[k] = StoreWrites
      BY <3>2 DEF Range, RoleRight
    <3>. QED  BY <3>2, <3>3, <3>4 DEF RoleRight
  <2>3. {t \in SemThreads : StoreWrites \in Range(Role(t))} = {t \in SemThreads : IsWriter(t)}
    BY <2>2
  <2>. QED  BY <1>1, <2>1, <2>3, AllWritten DEF NoWriteLost
<1>2. ASSUME SemInv, semOpt.program \notin Counts0
      PROVE  NoWriteLost
  <2>1. \A t \in SemThreads : \A k \in 1 .. Len(Role(t)) : Role(t)[k] # StoreWrites
    BY <1>2, RolesTyped, StatementParts DEF SemInv
  <2>2. \A t \in SemThreads : DOMAIN Role(t) = 1 .. Len(Role(t))
    <3>1. DOMAIN Man = 1 .. 2 /\ DOMAIN Woman = 1 .. 2 /\ DOMAIN Child = 1 .. 8
      BY DEF Man, Woman, Child
    <3>2. \A t \in SemThreads : Role(t) = Man \/ Role(t) = Woman \/ Role(t) = Child
      BY <1>2, SemAssumption DEF SemInv, SemTypeOK, Counts0, Role
    <3>. QED  BY <3>1, <3>2, MeetingRoles
  <2>3. {t \in SemThreads : StoreWrites \in Range(Role(t))} = {}
    BY <2>1, <2>2 DEF Range
  <2>4. \A t \in SemThreads : ~Storing(t)
    BY <1>2, <2>1 DEF SemInv, SemTypeOK, Storing, At
  <2>5. writes = 0 /\ semOpt.rounds \in Nat
    BY <1>2, SemAssumption DEF SemInv, QuietInv, SemTypeOK
  <2>6. Cardinality({t \in SemThreads : StoreWrites \in Range(Role(t))}) = 0
    BY <2>3, FS_EmptySet
  <2>. QED  BY <2>4, <2>5, <2>6 DEF NoWriteLost
<1>3. SemInv => NoWriteLost
  BY <1>1, <1>2
<1>. QED  BY <1>3, SemInvHolds, PTL

-----------------------------------------------------------------------------
(* The worker pool of the broker: the list of clients is right until two   *)
(* adds have overlapped.                                                   *)

Busy(w) == work[w].at \in Steps
In(t) == \E i \in 1 .. size : array[i] = t

(* A slot was the size of the list when it was read, and the array only    *)
(* grows.                                                                  *)
SlotsInReach == \A w \in Workers : Busy(w) => work[w].slot <= Len(array)

(* The request of a tank, or its answer, is in one place at a time: a tank *)
(* asks again only after it was answered.                                  *)
OnePlace ==
    /\ asked \intersect (answered \union ready) = {} /\ answered \intersect ready = {}
    /\ \A i, j \in 1 .. Len(queue) : queue[i] = queue[j] => i = j
    /\ \A i \in 1 .. Len(queue) : queue[i] \notin asked \union answered \union ready
    /\ \A w \in Workers : Busy(w) => work[w].tank \notin asked \union answered \union ready
    /\ \A w \in Workers, i \in 1 .. Len(queue) : Busy(w) => work[w].tank # queue[i]
    /\ \A v, w \in Workers : Busy(v) /\ Busy(w) /\ work[v].tank = work[w].tank => v = w

(* What the list says about a tank at each step of register.               *)
ClientsRight ==
    /\ \A i, j \in 1 .. size : array[i] = array[j] => i = j
    /\ \A t \in answered \union ready : In(t)
    /\ \A w \in Workers : work[w].at \in {"add", "store"} => ~In(work[w].tank)
    /\ \A w \in Workers : work[w].at = "link" => In(work[w].tank)

IInv == TypeOK /\ SlotsInReach /\ OnePlace /\ (~raced => ClientsRight)

-----------------------------------------------------------------------------
USE BrokerAssumption

LEMMA ClientsAreTheArray ==
  ASSUME TypeOK
  PROVE  /\ \A i \in 1 .. size : clients[i] = array[i]
         /\ \A t : Listed(t) <=> In(t)
<1>1. size \in Nat /\ size <= Len(array) /\ array \in Seq(Tanks)
  BY DEF TypeOK
<1>2. \A i \in 1 .. size : clients[i] = array[i]
  BY <1>1 DEF clients
<1>3. QED
  BY <1>2 DEF Listed, In

LEMMA BusyHasJob ==
  ASSUME TypeOK, NEW w \in Workers, Busy(w)
  PROVE  work[w] \in Jobs
BY DEF TypeOK, Busy, Steps, Idle

(* A worker that becomes idle leaves everything as it is for the others;   *)
(* done is the tank it was at.                                             *)
LEMMA WorkerRests ==
  ASSUME IInv, NEW w \in Workers, Busy(w), work' = [work EXCEPT ![w] = Idle],
         UNCHANGED <<listVars, queue, stopRequested, asked, ready, leases>>,
         failed' \subseteq Tanks,
         \/ answered' = answered
         \/ answered' = answered \union {work[w].tank} /\ (~raced => In(work[w].tank))
  PROVE  IInv'
<1>1. work[w] \in Jobs /\ work[w].tank \in Tanks
  BY BusyHasJob DEF IInv, Jobs
<1>2. /\ work'[w] = Idle /\ ~Busy(w)'
      /\ \A v \in Workers \ {w} : work'[v] = work[v] /\ (Busy(v)' <=> Busy(v))
  BY DEF IInv, TypeOK, Busy, Idle, Steps
<1>3. TypeOK'
  BY <1>1 DEF IInv, TypeOK, listVars
<1>4. SlotsInReach'
  BY <1>2 DEF IInv, SlotsInReach, listVars
<1>5. OnePlace'
  BY <1>2 DEF IInv, OnePlace
<1>6. \A t : In(t)' <=> In(t)
  BY DEF In, listVars
<1>7. ~raced' => ClientsRight'
  <2>1. SUFFICES ASSUME ~raced PROVE ClientsRight'
    BY DEF listVars
  <2>2. ClientsRight
    BY <2>1 DEF IInv
  <2>3. \A t \in answered' \union ready' : In(t)'
    BY <1>6, <2>1, <2>2 DEF ClientsRight
  <2>4. \A v \in Workers : /\ work'[v].at \in {"add", "store"} => ~In(work'[v].tank)
                           /\ work'[v].at = "link" => In(work'[v].tank)
    BY <1>2, <2>2 DEF ClientsRight, Idle
  <2>5. QED
    BY <1>6, <2>2, <2>3, <2>4 DEF ClientsRight, listVars, In
<1>8. QED
  BY <1>3, <1>4, <1>5, <1>7 DEF IInv

(* A worker goes on with the same tank.                                    *)
LEMMA WorkerGoesOn ==
  ASSUME IInv, NEW w \in Workers, Busy(w), NEW job \in Jobs, work' = [work EXCEPT ![w] = job],
         job.tank = work[w].tank, job.slot <= Len(array),
         ~raced /\ job.at \in {"add", "store"} => ~In(job.tank), job.at # "link",
         UNCHANGED <<listVars, queue, stopRequested, failed, tankVars>>
  PROVE  IInv'
<1>1. /\ work'[w] = job /\ Busy(w)'
      /\ \A v \in Workers \ {w} : work'[v] = work[v] /\ (Busy(v)' <=> Busy(v))
  BY DEF IInv, TypeOK, Busy, Jobs
<1>2. TypeOK'
  BY DEF IInv, TypeOK, listVars, tankVars
<1>3. SlotsInReach'
  BY <1>1 DEF IInv, SlotsInReach, listVars
<1>4. OnePlace'
  BY <1>1 DEF IInv, OnePlace, tankVars
<1>5. \A t : In(t)' <=> In(t)
  BY DEF In, listVars
<1>6. ~raced' => ClientsRight'
  BY <1>1, <1>5 DEF IInv, ClientsRight, listVars, tankVars, In
<1>7. QED
  BY <1>2, <1>3, <1>4, <1>6 DEF IInv

(* A step that changes neither the list nor a worker keeps what they say   *)
(* about each other.                                                       *)
LEMMA ListUntouched ==
  ASSUME IInv, UNCHANGED <<listVars, work>>, answered' \union ready' \subseteq answered \union ready
  PROVE  SlotsInReach' /\ (~raced' => ClientsRight')
<1>1. SlotsInReach'
  BY DEF IInv, SlotsInReach, Busy, listVars
<1>2. \A t : In(t)' <=> In(t)
  BY DEF In, listVars
<1>3. ~raced' => ClientsRight'
  BY <1>2 DEF IInv, ClientsRight, listVars, In
<1>4. QED
  BY <1>1, <1>3

LEMMA DispatchKeeps ==
  ASSUME NEW t \in Tanks, IInv, Dispatch(t)
  PROVE  IInv'
<1>1. /\ t \in asked /\ asked' = asked \ {t} /\ queue' = Append(queue, t)
      /\ UNCHANGED <<listVars, work, failed, stopRequested, answered, ready, leases>>
  BY DEF Dispatch
<1>2. /\ Len(queue') = Len(queue) + 1 /\ queue'[Len(queue) + 1] = t /\ Len(queue) \in Nat
      /\ \A i \in 1 .. Len(queue) : queue'[i] = queue[i]
  BY <1>1 DEF IInv, TypeOK
<1>3. TypeOK'
  BY <1>1 DEF IInv, TypeOK, listVars
<1>4. OnePlace'
  BY <1>1, <1>2 DEF IInv, OnePlace, Busy
<1>5. QED
  BY <1>1, <1>3, <1>4, ListUntouched DEF IInv

LEMMA TakeKeeps ==
  ASSUME NEW w \in Workers, IInv, Take(w)
  PROVE  IInv'
<1> DEFINE job == [at |-> "search", tank |-> Head(queue), size |-> size, slot |-> 0]
<1>1. /\ work[w] = Idle /\ queue # << >> /\ queue' = Tail(queue)
      /\ work' = [work EXCEPT ![w] = job]
      /\ UNCHANGED <<listVars, failed, stopRequested, tankVars>>
  BY DEF Take
<1>2. /\ job.at = "search" /\ job.tank = queue[1] /\ job.slot = 0 /\ job \in Jobs
      /\ Len(queue) \in Nat \ {0} /\ Len(queue') = Len(queue) - 1 /\ queue' \in Seq(Tanks)
      /\ \A i \in 1 .. Len(queue') : queue'[i] = queue[i + 1]
  BY <1>1 DEF IInv, TypeOK, Jobs, Steps
<1> HIDE DEF job
<1>3. /\ work'[w] = job /\ Busy(w)' /\ ~Busy(w)
      /\ \A v \in Workers \ {w} : work'[v] = work[v] /\ (Busy(v)' <=> Busy(v))
  BY <1>1, <1>2 DEF IInv, TypeOK, Busy, Idle, Steps
<1>4. TypeOK'
  BY <1>1, <1>2 DEF IInv, TypeOK, listVars, tankVars
<1>5. SlotsInReach'
  BY <1>1, <1>2, <1>3 DEF IInv, SlotsInReach, listVars, TypeOK
<1>6. OnePlace'
  <2>1. \A i \in 1 .. Len(queue') : queue'[i] # job.tank /\ \E j \in 1 .. Len(queue) : queue'[i] = queue[j]
    BY <1>2 DEF IInv, OnePlace
  <2>2. \A i, j \in 1 .. Len(queue') : queue'[i] = queue'[j] => i = j
    BY <1>2 DEF IInv, OnePlace
  <2>3. \A v \in Workers \ {w} : Busy(v) => work[v].tank # job.tank
    BY <1>2 DEF IInv, OnePlace
  <2>4. job.tank \notin asked \union answered \union ready
    BY <1>2 DEF IInv, OnePlace
  <2>5. QED
    BY <1>1, <1>3, <2>1, <2>2, <2>3, <2>4 DEF IInv, OnePlace, tankVars
<1>7. \A t : In(t)' <=> In(t)
  BY <1>1 DEF In, listVars
<1>8. ~raced' => ClientsRight'
  BY <1>1, <1>2, <1>3, <1>7 DEF IInv, ClientsRight, listVars, tankVars, In
<1>9. QED
  BY <1>4, <1>5, <1>6, <1>8 DEF IInv

LEMMA SearchKeeps ==
  ASSUME NEW w \in Workers, IInv, Search(w)
  PROVE  IInv'
<1> DEFINE job == [work[w] EXCEPT !.at = "add"]
<1>1. Busy(w) /\ ~Listed(work[w].tank) /\ work' = [work EXCEPT ![w] = job]
      /\ UNCHANGED <<listVars, queue, failed, stopRequested, tankVars>>
  BY DEF Search, Busy, Steps
<1>2. work[w] \in Jobs /\ ~In(work[w].tank)
  BY <1>1, BusyHasJob, ClientsAreTheArray DEF IInv
<1>3. job \in Jobs /\ job.tank = work[w].tank /\ job.slot = work[w].slot /\ job.at = "add"
  BY <1>2 DEF Jobs, Steps
<1>4. job.slot <= Len(array)
  BY <1>1, <1>3 DEF IInv, SlotsInReach
<1> HIDE DEF job
<1>5. QED
  BY <1>1, <1>2, <1>3, <1>4, WorkerGoesOn

LEMMA AddReadsSizeKeeps ==
  ASSUME NEW w \in Workers, IInv, AddReadsSize(w)
  PROVE  IInv'
<1> DEFINE job == [work[w] EXCEPT !.at = "store", !.slot = size]
<1>1. Busy(w) /\ work[w].at = "add" /\ work' = [work EXCEPT ![w] = job]
      /\ UNCHANGED <<listVars, queue, failed, stopRequested, tankVars>>
  <2>1. [work EXCEPT ![w].at = "store", ![w].slot = size] = [work EXCEPT ![w] = job]
    BY DEF IInv, TypeOK
  <2>2. QED
    BY <2>1 DEF AddReadsSize, Busy, Steps
<1>2. work[w] \in Jobs /\ size \in Nat
  BY <1>1, BusyHasJob DEF IInv, TypeOK
<1>3. job \in Jobs /\ job.tank = work[w].tank /\ job.slot = size /\ job.at = "store"
  BY <1>2 DEF Jobs, Steps
<1>4. job.slot <= Len(array) /\ (~raced => ~In(job.tank))
  BY <1>1, <1>3 DEF IInv, TypeOK, ClientsRight
<1> HIDE DEF job
<1>5. QED
  BY <1>1, <1>3, <1>4, WorkerGoesOn

(* While nobody else has stored since, the add appends; otherwise raced is *)
(* set.                                                                    *)
LEMMA AddStoresKeeps ==
  ASSUME NEW w \in Workers, IInv, AddStores(w)
  PROVE  IInv'
<1> DEFINE job == [work[w] EXCEPT !.at = "link"]
           slot == work[w].slot
           tank == work[w].tank
           top == IF slot < Len(array) THEN Len(array) ELSE slot + 1
<1>1. /\ Busy(w) /\ work[w].at = "store"
      /\ array' = [i \in 1 .. top |-> IF i = slot + 1 THEN tank ELSE array[i]]
      /\ size' = slot + 1 /\ raced' = (raced \/ size # slot)
      /\ work' = [work EXCEPT ![w] = job]
      /\ UNCHANGED <<queue, failed, stopRequested, tankVars>>
  BY DEF AddStores, Busy, Steps
<1>2. work[w] \in Jobs
  BY <1>1, BusyHasJob DEF IInv
<1>3. /\ job \in Jobs /\ job.tank = tank /\ job.slot = slot /\ job.at = "link"
      /\ slot \in Nat /\ tank \in Tanks
  BY <1>2 DEF Jobs, Steps
<1>4. slot <= Len(array) /\ Len(array) \in Nat /\ size \in Nat /\ size <= Len(array)
  BY <1>1 DEF IInv, SlotsInReach, TypeOK
<1> HIDE DEF job, slot, tank
<1>5. /\ top \in Nat /\ slot + 1 <= top /\ Len(array) <= top
      /\ \A i \in 1 .. top : i <= Len(array) \/ i = slot + 1
  BY <1>3, <1>4
<1>6. array' \in Seq(Tanks) /\ Len(array') = top
  <2>1. \A i \in 1 .. top : (IF i = slot + 1 THEN tank ELSE array[i]) \in Tanks
    BY <1>3, <1>4, <1>5 DEF IInv, TypeOK
  <2>2. QED
    BY <1>1, <1>5, <2>1
<1>7. /\ work'[w] = job /\ Busy(w)'
      /\ \A v \in Workers \ {w} : work'[v] = work[v] /\ (Busy(v)' <=> Busy(v))
  BY <1>1, <1>3 DEF IInv, TypeOK, Busy, Steps
<1>8. TypeOK'
  BY <1>1, <1>3, <1>5, <1>6 DEF IInv, TypeOK, tankVars
<1>9. SlotsInReach'
  BY <1>3, <1>4, <1>5, <1>6, <1>7, BusyHasJob DEF IInv, SlotsInReach, Jobs
<1>10. OnePlace'
  BY <1>1, <1>3, <1>7 DEF IInv, OnePlace, tankVars, tank
<1>11. ASSUME ~raced' PROVE ClientsRight'
  <2>1. size = slot /\ ~raced /\ ClientsRight
    BY <1>1, <1>11 DEF IInv
  <2>2. /\ size' = size + 1 /\ array'[size + 1] = tank
        /\ \A i \in 1 .. size : array'[i] = array[i]
    BY <1>1, <1>3, <1>4, <1>5, <2>1
  <2>3. \A t : In(t)' <=> In(t) \/ t = tank
    BY <1>4, <2>2 DEF In
  <2>4. ~In(tank)
    BY <1>1, <2>1 DEF ClientsRight, tank
  <2>5. \A i, j \in 1 .. size' : array'[i] = array'[j] => i = j
    BY <1>4, <2>1, <2>2, <2>4 DEF ClientsRight, In
  <2>6. \A t \in answered' \union ready' : In(t)'
    BY <1>1, <2>1, <2>3 DEF ClientsRight, tankVars
  <2>7. \A v \in Workers \ {w} : work[v].at \in {"add", "store"} => work[v].tank # tank
    BY <1>1 DEF IInv, OnePlace, Busy, Steps, tank
  <2>8. \A v \in Workers : work'[v].at \in {"add", "store"} => ~In(work[v].tank)'
    <3>1. SUFFICES ASSUME NEW v \in Workers, work'[v].at \in {"add", "store"}
                   PROVE  ~In(work[v].tank)'
      OBVIOUS
    <3>2. v # w /\ work'[v] = work[v]
      BY <1>3, <1>7, <3>1
    <3>3. QED
      BY <2>1, <2>3, <2>7, <3>1, <3>2 DEF ClientsRight
  <2>9. \A v \in Workers : work'[v].at = "link" => In(work[v].tank)'
    BY <1>3, <1>7, <2>1, <2>3 DEF ClientsRight
  <2>10. QED
    BY <2>5, <2>6, <2>8, <2>9 DEF ClientsRight
<1>12. QED
  BY <1>8, <1>9, <1>10, <1>11 DEF IInv

LEMMA WorkerStepKeeps ==
  ASSUME NEW w \in Workers, IInv, WorkerStep(w)
  PROVE  IInv'
<1>1. CASE Take(w)
  BY <1>1, TakeKeeps
<1>2. CASE Search(w)
  BY <1>2, SearchKeeps
<1>3. CASE Reregister(w)
  <2>1. Busy(w) /\ In(work[w].tank)
    BY <1>3, ClientsAreTheArray DEF IInv, Reregister, Busy, Steps
  <2>2. QED
    BY <1>3, <2>1, WorkerRests DEF Reregister, IInv, TypeOK
<1>4. CASE AddReadsSize(w)
  BY <1>4, AddReadsSizeKeeps
<1>5. CASE AddStores(w)
  BY <1>5, AddStoresKeeps
<1>6. CASE LinkAndAnswer(w)
  <2>1. Busy(w) /\ (~raced => In(work[w].tank))
    BY <1>6 DEF LinkAndAnswer, IInv, ClientsRight, Busy, Steps
  <2>2. QED
    BY <1>6, <2>1, WorkerRests DEF LinkAndAnswer, IInv, TypeOK
<1>7. CASE LinkFails(w)
  <2>1. Busy(w) /\ work[w].tank \in Tanks
    BY <1>7, BusyHasJob DEF LinkFails, IInv, Busy, Steps, Jobs
  <2>2. QED
    BY <1>7, <2>1, WorkerRests DEF LinkFails, IInv, TypeOK, tankVars
<1>8. QED
  BY <1>1, <1>2, <1>3, <1>4, <1>5, <1>6, <1>7 DEF WorkerStep

LEMMA TankStepKeeps ==
  ASSUME NEW t \in Tanks, IInv, OnRegistration(t) \/ RenewLease(t)
  PROVE  IInv'
<1>1. CASE OnRegistration(t)
  <2>1. TypeOK' /\ OnePlace' /\ answered' \union ready' \subseteq answered \union ready
    BY <1>1 DEF OnRegistration, IInv, TypeOK, OnePlace, Busy, listVars
  <2>2. QED
    BY <1>1, <2>1, ListUntouched DEF OnRegistration, IInv
<1>2. CASE RenewLease(t)
  <2>1. TypeOK' /\ answered' \union ready' \subseteq answered \union ready
    BY <1>2 DEF RenewLease, IInv, TypeOK, listVars
  <2>2. OnePlace'
    BY <1>2 DEF RenewLease, IInv, OnePlace, Busy
  <2>3. QED
    BY <1>2, <2>1, <2>2, ListUntouched DEF RenewLease, IInv
<1>3. QED
  BY <1>1, <1>2

LEMMA NextKeeps == IInv /\ [Next]_vars => IInv'
<1> SUFFICES ASSUME IInv, [Next]_vars PROVE IInv'
  OBVIOUS
<1>1. CASE LoopStep
  BY <1>1, DispatchKeeps DEF LoopStep
<1>2. CASE PressOK \/ UNCHANGED vars
  <2>1. TypeOK' /\ OnePlace' /\ UNCHANGED <<listVars, work, answered, ready>>
    BY <1>2 DEF PressOK, vars, IInv, TypeOK, OnePlace, Busy, listVars, tankVars
  <2>2. QED
    BY <2>1, ListUntouched DEF IInv
<1>3. ASSUME NEW w \in Workers, WorkerStep(w) PROVE IInv'
  BY <1>3, WorkerStepKeeps
<1>4. ASSUME NEW t \in Tanks, OnRegistration(t) \/ RenewLease(t) PROVE IInv'
  BY <1>4, TankStepKeeps
<1>5. QED
  BY <1>1, <1>2, <1>3, <1>4 DEF Next

LEMMA InitHolds == Init => IInv
<1> SUFFICES ASSUME Init PROVE IInv
  OBVIOUS
<1>1. \A w \in Workers : work[w].at = "idle"
  BY DEF Init, Idle
<1>2. TypeOK
  <2>1. << >> \in Seq(Tanks) /\ Len(<< >>) = 0 /\ 0 \in 0 .. MaxLeases
    OBVIOUS
  <2>2. array \in Seq(Tanks) /\ queue \in Seq(Tanks) /\ size \in 0 .. Len(array) /\ leases \in 0 .. MaxLeases
    BY <2>1 DEF Init
  <2>3. work \in [Workers -> Jobs \cup {Idle}]
    BY DEF Init
  <2>4. raced \in BOOLEAN /\ stopRequested \in BOOLEAN
    BY DEF Init
  <2>5. asked \subseteq Tanks /\ answered \subseteq Tanks /\ ready \subseteq Tanks /\ failed \subseteq Tanks
    BY DEF Init
  <2>6. QED
    BY <2>2, <2>3, <2>4, <2>5 DEF TypeOK
<1>3. SlotsInReach /\ OnePlace
  BY <1>1 DEF Init, SlotsInReach, OnePlace, Busy, Steps
<1>4. ClientsRight
  BY <1>1 DEF Init, ClientsRight
<1>5. QED
  BY <1>2, <1>3, <1>4 DEF IInv

(* For any number of tanks, workers and renewals every variable keeps its  *)
(* type: no add reaches beyond the array, whatever adds overlap.           *)
THEOREM TypeCorrect == Safe => []TypeOK
<1>1. IInv => TypeOK
  BY DEF IInv
<1>2. QED
  BY <1>1, InitHolds, NextKeeps, PTL DEF Safe

(* For any number of tanks, workers and renewals: until two adds overlap,  *)
(* every tank that was answered is in the list, and no tank is in it       *)
(* twice, although register only holds a read lock.                        *)
THEOREM ListedOnceHolds == Safe => []ListedOnce
<1>1. IInv => ListedOnce
  BY ClientsAreTheArray DEF IInv, ClientsRight, ListedOnce
<1>2. QED
  BY <1>1, InitHolds, NextKeeps, PTL DEF Safe
=============================================================================
