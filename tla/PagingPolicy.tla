---------------------------- MODULE PagingPolicy ----------------------------
(***************************************************************************)
(* Page-replacement simulator of BSYS (src/Sem3/BSYS/22_Policy/            *)
(* paging-policy.py): a list of page accesses and a cache of pages under   *)
(* FIFO, LRU, MRU, OPT, UNOPT, RAND and CLOCK.  One step is one access.    *)
(***************************************************************************)
EXTENDS Integers, Sequences, FiniteSets, SequencesExt, FiniteSetsExt, Functions

CONSTANTS
    MaxPage,       \* pages are 0 .. MaxPage - 1
    NumAddrs,      \* length of the access list
    CacheSizes,    \* what is tried for -C
    ClockBits      \* what is tried for -b

ASSUME PagingAssumption == /\ MaxPage \in Nat \ {0} /\ NumAddrs \in Nat
                           /\ CacheSizes \subseteq Nat \ {0}
                           /\ ClockBits \subseteq Nat \ {0}

VARIABLES
    pagePolicy, cachesize, clockbits, addrList,
    addrIndex,     \* accesses done
    memory,        \* the cache: sequence of pages
    ref,           \* reference counts: page -> Nat
    hits, miss

pageVars == <<pagePolicy, cachesize, clockbits, addrList, addrIndex, memory, ref, hits, miss>>

Pages == 0 .. MaxPage - 1
PagePolicies == {"FIFO", "LRU", "MRU", "OPT", "UNOPT", "RAND", "CLOCK"}

PageInit ==
    /\ pagePolicy \in PagePolicies
    /\ cachesize \in CacheSizes
    /\ clockbits \in IF pagePolicy = "CLOCK" THEN ClockBits ELSE {2}
    /\ addrList \in [1 .. NumAddrs -> Pages]
    /\ addrIndex = 0 /\ memory = <<>> /\ ref = <<>> /\ hits = 0 /\ miss = 0

PageDone == addrIndex = NumAddrs

\* mutant: the last access of the list is overlooked
WhenReferencedEarly(page) ==
    Min({NumAddrs + 1} \union {i \in addrIndex + 2 .. NumAddrs - 1 : addrList[i] = page})

\* when a page is referenced next; NumAddrs + 1 if never
WhenReferenced(page) ==
    Min({NumAddrs + 1} \union {i \in addrIndex + 2 .. NumAddrs : addrList[i] = page})

\* the indexes that the replacement loops may choose
ReplaceIdx ==
    LET when(i) == WhenReferenced(memory[i])
        I       == 1 .. Len(memory)
    IN  CASE pagePolicy \in {"FIFO", "LRU"} -> {1}
          [] pagePolicy = "MRU"   -> {Len(memory)}
          [] pagePolicy = "RAND"  -> I
          [] pagePolicy = "OPT"   -> {Max({i \in I : \A k \in I : when(k) <= when(i)})}
          [] pagePolicy = "UNOPT" -> {Min({i \in I : \A k \in I : when(k) >= when(i)})}
          [] pagePolicy = "CLOCK" -> I

\* CLOCK draws pages at random, takes one from the count of each page drawn,
\* and stops at a page whose count is 0: all results for the victim v
ClockSweeps(v) ==
    IF pagePolicy # "CLOCK" THEN {ref}
    ELSE {r \in [DOMAIN ref -> 0 .. clockbits] :
             r[v] = 0 /\ \A page \in DOMAIN ref : r[page] <= ref[page]}

\* the update of the reference count after the access to n
Referenced(r, n) ==
    [page \in DOMAIN r \union {n} |->
        IF page # n THEN r[page] ELSE IF n \in DOMAIN r THEN Min({r[n] + 1, clockbits}) ELSE 1]

\* a hit moves the page to the MRU side
AfterHit(n) ==
    IF pagePolicy \in {"LRU", "MRU"} THEN Append(RemoveFirst(memory, n), n) ELSE memory

Hit(n) ==
    /\ Contains(memory, n)
    /\ hits' = hits + 1
    /\ memory' = AfterHit(n)
    /\ ref' = Referenced(ref, n)
    /\ UNCHANGED miss

MissWithRoom(n) ==
    /\ ~Contains(memory, n) /\ Len(memory) < cachesize
    /\ miss' = miss + 1
    /\ memory' = Append(memory, n)
    /\ ref' = Referenced(ref, n)
    /\ UNCHANGED hits

\* del ref[victim], which only CLOCK does
Without(r, victim) ==
    IF pagePolicy = "CLOCK" THEN Restrict(r, DOMAIN r \ {victim}) ELSE r

MissReplace(n) ==
    /\ ~Contains(memory, n) /\ Len(memory) = cachesize
    /\ miss' = miss + 1
    /\ \E i \in ReplaceIdx : \E swept \in ClockSweeps(memory[i]) :
          /\ memory' = Append(RemoveAt(memory, i), n)
          /\ ref' = Referenced(Without(swept, memory[i]), n)
    /\ UNCHANGED hits

Access ==
    /\ ~PageDone
    /\ LET n == addrList[addrIndex + 1]
       IN  Hit(n) \/ MissWithRoom(n) \/ MissReplace(n)
    /\ addrIndex' = addrIndex + 1
    /\ UNCHANGED <<pagePolicy, cachesize, clockbits, addrList>>
-----------------------------------------------------------------------------
\* the smallest number of misses of the accesses i .. NumAddrs when the pages
\* S are cached, over all ways to choose victims (reference definition)
FewestMisses[p \in (1 .. NumAddrs + 1) \X SUBSET Pages] ==
    LET i == p[1]
        S == p[2]
    IN  IF i > NumAddrs THEN 0
        ELSE IF addrList[i] \in S THEN FewestMisses[<<i + 1, S>>]
        ELSE 1 + Min({FewestMisses[<<i + 1, T \union {addrList[i]}>>] :
                        T \in IF Cardinality(S) < cachesize THEN {S}
                              ELSE {S \ {v} : v \in S}})

(* The cache is sound under every policy: it never holds more than its     *)
(* size nor a page twice (the assert after a replacement), every access is *)
(* a hit or a miss, and CLOCK keeps a count for exactly the cached pages   *)
(* (otherwise ref[page] and del ref[victim] raise KeyError).               *)
CacheSound ==
    /\ Len(memory) <= cachesize /\ IsInjective(memory)
    /\ hits + miss = addrIndex
    /\ pagePolicy = "CLOCK" => /\ DOMAIN ref = ToSet(memory)
                               /\ \A page \in DOMAIN ref : ref[page] \in 0 .. clockbits

(* OPT is optimal: no choice of victims whatsoever misses less often.      *)
OptOptimal ==
    pagePolicy = "OPT" => miss + FewestMisses[<<addrIndex + 1, ToSet(memory)>>]
                            = FewestMisses[<<1, {}>>]

(* LRU keeps exactly the most recently used pages, in the order of their   *)
(* last use, so that a larger cache holds what a smaller one holds.        *)
LastUse(page) == Max({0} \union {i \in 1 .. addrIndex : addrList[i] = page})
UsedPages == {page \in Pages : LastUse(page) > 0}
LruIsRecency ==
    pagePolicy = "LRU" =>
        /\ Len(memory) = Min({cachesize, Cardinality(UsedPages)}) /\ ToSet(memory) \subseteq UsedPages
        /\ \A i, j \in DOMAIN memory : i < j => LastUse(memory[i]) < LastUse(memory[j])
        /\ \A p \in UsedPages \ ToSet(memory), q \in ToSet(memory) : LastUse(p) < LastUse(q)
=============================================================================
