----------------------------- MODULE MCBsysMemory -----------------------------
(***************************************************************************)
(* The memory and storage simulators of BSYS for TLC: a behaviour is the   *)
(* execution of one of them, the others have not been started.             *)
(***************************************************************************)
EXTENDS Malloc, PagingPolicy, AddressTranslation, MultilevelTable, Raid, Disk, TLC

CONSTANT Simulators    \* the programs that are started
VARIABLE sim

memoryVars == <<heapVars, pageVars, xlVars, mlVars, raidVars, diskVars, sim>>

HeapOff == /\ heapOpt = CHOOSE o \in HeapOptions : TRUE
           /\ freelist = <<<<BaseAddr, HeapSize>>>> /\ sizemap = <<>> /\ ptr = <<>>
           /\ allocs = 0 /\ opsDone = MaxOps /\ heapError = ""
PageOff == /\ pagePolicy = "FIFO" /\ cachesize = 1 /\ clockbits = 2
           /\ addrList = [i \in 1 .. NumAddrs |-> 0] /\ addrIndex = NumAddrs
           /\ memory = <<0>> /\ ref = (0 :> 1) /\ hits = NumAddrs - 1 /\ miss = 1
XlOff == /\ xlOpt = CHOOSE o \in XlOptions : TRUE
         /\ xlReg = <<>> /\ xlPc = "error" /\ xlResult = <<>>
MlOff == /\ usedPages = FrameSet /\ pdbr = -1 /\ ptMap = <<>> /\ osError = TRUE
         /\ mem = [f \in FrameSet |-> [i \in Index |-> 0]]
RaidOff == /\ raidOpt = CHOOSE o \in RaidOptions : TRUE
           /\ disks = <<>> /\ raidReqs = MaxRequests /\ raidError = FALSE
           /\ raidLast = [addr |-> 0, isWrite |-> FALSE, ios |-> <<>>]
DiskOff == /\ diskOpt = CHOOSE o \in DiskOptions : TRUE
           /\ requests = [i \in 1 .. NumRequests |-> 0]
           /\ lateRequests = [i \in 1 .. NumLate |-> 0]
           /\ hd = [DiskBlank EXCEPT !.isDone = TRUE]

MemoryInit ==
    /\ sim \in Simulators
    /\ IF sim = "malloc" THEN HeapInit ELSE HeapOff
    /\ IF sim = "paging" THEN PageInit ELSE PageOff
    /\ IF sim = "translation" THEN XlInit ELSE XlOff
    /\ IF sim = "multilevel" THEN MlInit ELSE MlOff
    /\ IF sim = "raid" THEN RaidInit ELSE RaidOff
    /\ IF sim = "disk" THEN DiskInit ELSE DiskOff

MemoryNext ==
    \/ HeapNext /\ UNCHANGED <<pageVars, xlVars, mlVars, raidVars, diskVars, sim>>
    \/ Access /\ UNCHANGED <<heapVars, xlVars, mlVars, raidVars, diskVars, sim>>
    \/ XlNext /\ UNCHANGED <<heapVars, pageVars, mlVars, raidVars, diskVars, sim>>
    \/ MlNext /\ UNCHANGED <<heapVars, pageVars, xlVars, raidVars, diskVars, sim>>
    \/ RaidNext /\ UNCHANGED <<heapVars, pageVars, xlVars, mlVars, diskVars, sim>>
    \/ Animate /\ UNCHANGED <<heapVars, pageVars, xlVars, mlVars, raidVars, sim>>

\* each program is sequential and runs until it ends
MemorySpec == MemoryInit /\ [][MemoryNext]_memoryVars /\ WF_memoryVars(MemoryNext)

-----------------------------------------------------------------------------
Size(num, unit) == [num |-> num, unit |-> unit]
MCAddrSizes == {Size(8, ""), Size(7, "")}
MCPhysSizes == {Size(16, ""), Size(4, ""), Size(32, "")}
MCPageSizes == {Size(4, ""), Size(16, "")}
MCAligns == {-1, 2}
MCGiven == {-1, 3}
MCGivenBases == {-1, 2, 9}
MCRaidOptions ==
    {o \in [level: {0, 1, 4, 5}, numDisks: {3, 4}, chunkSize: {1, 2}, size: {1, 3, 4},
            raid5type: {"LS", "LA"}, sequential: BOOLEAN] :
        (o.level = 1 => o.numDisks = 4) /\ (o.level # 5 => o.raid5type = "LS")}
MCDiskOptions ==
    {[policy |-> p[1], seekSpeed |-> 1, rotateSpeed |-> rs, skew |-> sk, window |-> p[2],
      zoning |-> <<8, 8, 8>>, lateList |-> FALSE, precise |-> FALSE, requests |-> 2, late |-> 1] :
        p \in {<<"FIFO", -1>>, <<"SSTF", 2>>, <<"SATF", -1>>, <<"SATF", 1>>,
               <<"BSATF", 1>>, <<"BSATF", 2>>},
        rs \in {2, 3}, sk \in {0, 1}}
    \union {[policy |-> "SATF", seekSpeed |-> 2, rotateSpeed |-> 2, skew |-> 0, window |-> -1,
             zoning |-> <<4, 8, 16>>, lateList |-> ll, precise |-> FALSE, requests |-> 2,
             late |-> 1] : ll \in BOOLEAN}
    \union {[policy |-> "BSATF", seekSpeed |-> 2, rotateSpeed |-> 2, skew |-> 1, window |-> 2,
             zoning |-> <<16, 16, 16>>, lateList |-> FALSE, precise |-> pr, requests |-> 1,
             late |-> 3] : pr \in BOOLEAN}
-----------------------------------------------------------------------------
(* The heap of malloc.py is a partition of its bytes, the neighbours of a  *)
(* coalesced list never touch, and the pointers of the workload are those  *)
(* of the map.                                                             *)
HeapSound == HeapPartition /\ FullyCoalesced /\ PointersLive

(* paging-policy.py: the cache is right whatever the policy, OPT replaces  *)
(* best of all, and the LRU list is the recency of its pages.              *)
PagingRight == CacheSound /\ OptOptimal /\ LruIsRecency

(* relocation.py, segmentation.py and the paging programs: what was drawn  *)
(* does not overlap, no translation leaves its bounds, and the walk of the *)
(* two-level table is the map that was allocated.                          *)
TranslationRight == DrawnNeverShared /\ InBounds /\ WalkIsMap

(* raid.py keeps the redundancy with every write and never puts two blocks *)
(* at one place of one disk.                                               *)
RaidRight == RedundancyKept /\ LayoutInjective

(* disk.py: what the policy estimates is what the head then needs, a next  *)
(* request is always found, BSATF does not leave its window early, and the *)
(* totals are the time that has passed.                                    *)
DiskRight == EstimateRight /\ NextAlwaysFound /\ BoundedSatfFair /\ TotalsAddUp
=============================================================================
