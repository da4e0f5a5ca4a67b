------------------------------- MODULE Malloc -------------------------------
(***************************************************************************)
(* Free-space simulator of BSYS (src/Sem3/BSYS/17_Freespace/malloc.py): a  *)
(* heap with a free list, three search policies, five list orders,         *)
(* coalescing, headers and alignment.  The main program either makes       *)
(* random operations or executes the list of -A.                           *)
(***************************************************************************)
EXTENDS Integers, Sequences, FiniteSets, SequencesExt, FiniteSetsExt, Functions, Loops

CONSTANTS
    HeapSize, BaseAddr,
    HeaderSizes, Aligns,   \* what is tried for -H and -a (-1: no alignment)
    AllocSizes,            \* the sizes that are requested
    ListOrders,            \* the values of -l that are tried
    MaxOps                 \* bound: number of operations (-n, or the length of -A)

ASSUME MallocAssumption ==
    /\ HeapSize \in Nat \ {0} /\ BaseAddr \in Nat /\ MaxOps \in Nat
    /\ HeaderSizes \subseteq Nat /\ AllocSizes \subseteq Nat \ {0}
    /\ Aligns \subseteq Int /\ \A a \in Aligns : a = -1 \/ a > 0
    /\ ListOrders \subseteq {"ADDRSORT", "SIZESORT+", "SIZESORT-", "INSERT-FRONT", "INSERT-BACK"}

VARIABLES
    heapOpt,       \* [policy, order, coalesce, header, align, mode]
    freelist,      \* sequence of <<addr, size>>
    sizemap,       \* addr -> size of the allocated blocks
    ptr,           \* p: number of the allocation -> address
    allocs,        \* c: number of allocations so far
    opsDone,       \* j: operations so far
    heapError      \* "", "KeyError" or "AssertionError"

heapVars == <<heapOpt, freelist, sizemap, ptr, allocs, opsDone, heapError>>

HeapOptions == [policy: {"BEST", "WORST", "FIRST"}, order: ListOrders,
                coalesce: BOOLEAN, header: HeaderSizes, align: Aligns,
                mode: {"random", "list"}]

HeapInit ==
    /\ heapOpt \in HeapOptions
    /\ freelist = <<<<BaseAddr, HeapSize>>>>
    /\ sizemap = <<>> /\ ptr = <<>>
    /\ allocs = 0 /\ opsDone = 0 /\ heapError = ""

\* the size of the block for a request: aligned, with the header
Rounded(size) ==
    LET left == IF heapOpt.align = -1 THEN 0 ELSE size % heapOpt.align
    IN  (IF left = 0 THEN size ELSE size + heapOpt.align - left) + heapOpt.header

\* the first best, worst or large enough entry of the free list, 0 if none
BestIdx(size) ==
    LET fits == {i \in 1 .. Len(freelist) : freelist[i][2] >= size}
        best == CASE heapOpt.policy = "FIRST" -> fits
                  [] heapOpt.policy = "BEST"  ->
                        {i \in fits : \A k \in fits : freelist[i][2] <= freelist[k][2]}
                  [] heapOpt.policy = "WORST" ->
                        {i \in fits : \A k \in fits : freelist[i][2] >= freelist[k][2]}
    IN  IF fits = {} THEN 0 ELSE Min(best)

\* what is left of a free block of which size bytes are taken
Split(block, size) == <<block[1] + size, block[2] - size>>

\* map[key] = value
With(map, key, value) ==
    [k \in DOMAIN map \union {key} |-> IF k = key THEN value ELSE map[k]]

\* a line "Alloc" of either mode
Alloc(request) ==
    LET size == Rounded(request)
        i    == BestIdx(size)
        addr == freelist[i][1]
    IN  /\ opsDone < MaxOps /\ heapError = ""
        /\ allocs' = allocs + 1 /\ opsDone' = opsDone + 1
        /\ IF i = 0
           THEN UNCHANGED <<freelist, sizemap, ptr, heapError>>
           ELSE /\ freelist' = IF freelist[i][2] > size
                               THEN [freelist EXCEPT ![i] = Split(@, size)]
                               ELSE RemoveAt(freelist, i)
                /\ IF addr \in DOMAIN sizemap   \* the assert of addToMap
                   THEN heapError' = "AssertionError" /\ UNCHANGED <<sizemap, ptr>>
                   ELSE /\ sizemap' = With(sizemap, addr, size)
                        /\ ptr' = With(ptr, allocs, addr)
                        /\ UNCHANGED heapError
        /\ UNCHANGED heapOpt

\* Python's sorted: equal keys stay in their order
SortedBy(key, list) ==
    LET NotAfter(i) == {j \in DOMAIN list : key[j] < key[i] \/ (key[j] = key[i] /\ j <= i)}
    IN  [k \in DOMAIN list |->
            list[CHOOSE i \in DOMAIN list : Cardinality(NotAfter(i)) = k]]

Returned(block) ==
    LET back == Append(freelist, block)
    IN  CASE heapOpt.order = "INSERT-BACK"  -> back
          [] heapOpt.order = "INSERT-FRONT" -> <<block>> \o freelist
          [] heapOpt.order = "ADDRSORT"  -> SortedBy([i \in DOMAIN back |-> back[i][1]], back)
          [] heapOpt.order = "SIZESORT+" -> SortedBy([i \in DOMAIN back |-> back[i][2]], back)
          [] heapOpt.order = "SIZESORT-" -> SortedBy([i \in DOMAIN back |-> -back[i][2]], back)

\* mutant: only the first two neighbours are joined
CoalesceOnce(list) ==
    IF Len(list) > 1 /\ list[2][1] = list[1][1] + list[1][2]
    THEN <<<<list[1][1], list[1][2] + list[2][2]>>>> \o SubSeq(list, 3, Len(list))
    ELSE list

\* one pass over the list that joins an entry with the one before it
Merged(new, e) ==
    IF new # <<>> /\ e[1] = Last(new)[1] + Last(new)[2]
    THEN [new EXCEPT ![Len(new)] = <<@[1], @[2] + e[2]>>]
    ELSE Append(new, e)

Coalesce(list) == Loop(Merged, <<>>, list)

\* free(addr): nothing happens (-1) when the address is not allocated
FreeAddr(addr) ==
    IF addr \notin DOMAIN sizemap
    THEN UNCHANGED <<freelist, sizemap>>
    ELSE /\ freelist' = IF heapOpt.coalesce
                        THEN Coalesce(Returned(<<addr, sizemap[addr]>>))
                        ELSE Returned(<<addr, sizemap[addr]>>)
         /\ sizemap' = Restrict(sizemap, DOMAIN sizemap \ {addr})

\* del p[L[d]]
PointersWithout(d) == Restrict(ptr, DOMAIN ptr \ {d})

\* random mode: one of the pointers that are still held
FreeRandom(d) ==
    /\ heapOpt.mode = "random" /\ opsDone < MaxOps /\ heapError = ""
    /\ FreeAddr(ptr[d])
    /\ ptr' = PointersWithout(d)
    /\ opsDone' = opsDone + 1
    /\ UNCHANGED <<heapOpt, allocs, heapError>>

\* list mode, "-index": the index is compared with the number of entries of
\* p, in which the failed allocations have none; entries are never removed
FreeListed(index) ==
    /\ heapOpt.mode = "list" /\ opsDone < MaxOps /\ heapError = ""
    /\ index < Cardinality(DOMAIN ptr)
    /\ IF index \in DOMAIN ptr
       THEN FreeAddr(ptr[index]) /\ UNCHANGED heapError
       ELSE heapError' = "KeyError" /\ UNCHANGED <<freelist, sizemap>>
    /\ opsDone' = opsDone + 1
    /\ UNCHANGED <<heapOpt, ptr, allocs>>

\* "Invalid Free: Skipping"
FreeSkipped(index) ==
    /\ heapOpt.mode = "list" /\ opsDone < MaxOps /\ heapError = ""
    /\ index >= Cardinality(DOMAIN ptr)
    /\ opsDone' = opsDone + 1
    /\ UNCHANGED <<heapOpt, freelist, sizemap, ptr, allocs, heapError>>

HeapNext ==
    \/ \E size \in AllocSizes : Alloc(size)
    \/ \E d \in DOMAIN ptr : FreeRandom(d)
    \/ \E index \in 0 .. MaxOps : FreeListed(index) \/ FreeSkipped(index)
-----------------------------------------------------------------------------
FreeBlocks == ToSet(freelist)
UsedBlocks == {<<a, sizemap[a]>> : a \in DOMAIN sizemap}
Bytes(block) == block[1] .. block[1] + block[2] - 1

(* Every byte of the heap is in exactly one block, free or allocated, for  *)
(* every policy, order, header, alignment and sequence of operations; no   *)
(* free block is empty or listed twice.                                    *)
HeapPartition ==
    /\ UNION {Bytes(b) : b \in FreeBlocks \union UsedBlocks}
         = BaseAddr .. BaseAddr + HeapSize - 1
    /\ MapThenSumSet(LAMBDA b : b[2], FreeBlocks)
         + MapThenSumSet(LAMBDA b : b[2], UsedBlocks) = HeapSize
    /\ IsInjective(freelist)
    /\ heapError # "AssertionError"

(* With the list in address order one pass coalesces completely: no two    *)
(* free blocks touch, so that freeing everything gives back one block.     *)
FullyCoalesced ==
    heapOpt.coalesce /\ heapOpt.order = "ADDRSORT" =>
        /\ \A b1, b2 \in FreeBlocks : b1[1] + b1[2] # b2[1]
        /\ DOMAIN sizemap = {} => freelist = <<<<BaseAddr, HeapSize>>>>

(* The pointers the random mode holds are exactly the allocated blocks:    *)
(* each can be freed, once.                                                *)
PointersLive ==
    heapOpt.mode = "random" => IsInjective(ptr) /\ Range(ptr) = DOMAIN sizemap

=============================================================================
