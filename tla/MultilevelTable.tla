--------------------------- MODULE MultilevelTable ---------------------------
(***************************************************************************)
(* Two-level page table of BSYS (src/Sem3/BSYS/20_Multilevel_Cache/        *)
(* paging-multilevel-translate.py): the OS object allocates physical pages *)
(* at random for a page directory, page-table pages and data, writes the   *)
(* entries into the simulated memory, and walks them to translate.  The    *)
(* program's 32-byte pages, 5-bit indexes and 128 frames are parameters.   *)
(***************************************************************************)
EXTENDS Integers, FiniteSets, Functions

CONSTANTS
    Slots,         \* page size = entries per table (32); also the bytes of a page
    Frames,        \* physPages (128); Frames - 1 is the pfn of an unused entry
    MaxAllocated,  \* bound: number of pages (-a)
    FillBytes      \* the bytes fillPage writes; they never look valid

ASSUME MultilevelAssumption ==
    /\ Slots \in Nat \ {0} /\ Frames \in Nat \ {0} /\ MaxAllocated \in Nat
    /\ FillBytes \subseteq 0 .. Frames - 1

VARIABLES
    usedPages,     \* the frames that are used
    mem,           \* memory: frame -> offset -> byte
    pdbr,          \* the frame of the page directory, -1 before procAlloc
    ptMap,         \* history: virtual page -> frame, as procAlloc intends it
    osError        \* an assert failed

mlVars == <<usedPages, mem, pdbr, ptMap, osError>>

FrameSet == 0 .. Frames - 1
Index  == 0 .. Slots - 1
VPs    == 0 .. Slots * Slots - 1

\* an entry: the valid bit is the one above the frame number
UnusedEntry == Frames - 1
EntryFor(frame) == Frames + frame
Valid(entry) == entry >= Frames
Pfn(entry) == entry % Frames

PdeBits(vp) == vp \div Slots
PteBits(vp) == vp % Slots

\* findFree(): its assert, and every choice of the random search
FreeFrames == FrameSet \ usedPages

InitPage(m, frame) == [m EXCEPT ![frame] = [i \in Index |-> UnusedEntry]]

MlInit ==
    /\ usedPages = {} /\ pdbr = -1 /\ ptMap = <<>> /\ osError = FALSE
    /\ mem = [f \in FrameSet |-> [i \in Index |-> 0]]

\* the start of procAlloc: a page directory
AllocPageDir ==
    /\ pdbr = -1
    /\ \E dir \in FreeFrames :
          /\ pdbr' = dir
          /\ usedPages' = usedPages \union {dir}
          /\ mem' = InitPage(mem, dir)
    /\ UNCHANGED <<ptMap, osError>>

\* setPageDirEntry, initPageTablePage
NewTable(m, vp, table) ==
    InitPage([m EXCEPT ![pdbr][PdeBits(vp)] = EntryFor(table)], table)

\* the entry for vp in the page-table page, then fillPage of the data page
MapAndFill(m, vp, table, frame) ==
    /\ osError' = (m[table][PteBits(vp)] # UnusedEntry)
    /\ \E byte \in FillBytes :
          mem' = [m EXCEPT ![table][PteBits(vp)] = EntryFor(frame),
                           ![frame] = [i \in Index |-> byte]]

\* one round of procAlloc: the data page is taken first, then, if the
\* directory has no entry yet, a page-table page
AllocVirtualPage(vp) ==
    /\ pdbr # -1 /\ ~osError
    /\ vp \notin DOMAIN ptMap /\ Cardinality(DOMAIN ptMap) < MaxAllocated
    /\ \E frame \in FreeFrames :
          LET pde == mem[pdbr][PdeBits(vp)]
          IN  \/ /\ Valid(pde)
                 /\ MapAndFill(mem, vp, Pfn(pde), frame)
                 /\ usedPages' = usedPages \union {frame}
              \/ /\ ~Valid(pde)
                 /\ \E table \in FreeFrames \ {frame} :
                       /\ MapAndFill(NewTable(mem, vp, table), vp, table, frame)
                       /\ usedPages' = usedPages \union {frame, table}
          /\ ptMap' = [v \in DOMAIN ptMap \union {vp} |->
                         IF v = vp THEN frame ELSE ptMap[v]]
    /\ UNCHANGED pdbr

\* the assert of findFree: no frame left for the data or the table page
OutOfFrames(vp) ==
    /\ pdbr # -1 /\ ~osError
    /\ vp \notin DOMAIN ptMap /\ Cardinality(DOMAIN ptMap) < MaxAllocated
    /\ Cardinality(FreeFrames) < IF Valid(mem[pdbr][PdeBits(vp)]) THEN 1 ELSE 2
    /\ osError' = TRUE
    /\ usedPages' = FrameSet
    /\ UNCHANGED <<mem, pdbr, ptMap>>

MlNext == \/ AllocPageDir
          \/ \E vp \in VPs : AllocVirtualPage(vp) \/ OutOfFrames(vp)

\* translate(): the frame, -1 for a directory fault, -2 for a table fault
MlTranslate(vp) ==
    LET pde == mem[pdbr][PdeBits(vp)]
        pte == mem[Pfn(pde)][PteBits(vp)]
    IN  IF ~Valid(pde) THEN -1 ELSE IF ~Valid(pte) THEN -2 ELSE Pfn(pte)
-----------------------------------------------------------------------------
(* Walking the two levels in memory is the map procAlloc built: a page     *)
(* that was allocated leads to its frame, all others fault, no two pages   *)
(* share a frame and no page is one of the tables themselves; the asserts  *)
(* on unused entries hold.                                                 *)
WalkIsMap ==
    pdbr # -1 =>
        /\ \A vp \in VPs : IF vp \in DOMAIN ptMap THEN MlTranslate(vp) = ptMap[vp]
                                                  ELSE MlTranslate(vp) < 0
        /\ IsInjective(ptMap)
        /\ \A vp \in DOMAIN ptMap :
              ptMap[vp] \notin {pdbr} \union
                  {Pfn(mem[pdbr][i]) : i \in {k \in Index : Valid(mem[pdbr][k])}}
        /\ osError => usedPages = FrameSet
=============================================================================
