------------------------- MODULE AddressTranslation -------------------------
(***************************************************************************)
(* The address-translation programs of BSYS: base and bounds               *)
(* (15_Mechanisms/relocation.py), two segments (16_Segmentation/           *)
(* segmentation.py) and a linear page table (18_Paging/                    *)
(* paging-linear-translate.py).  A program draws or takes its registers,   *)
(* rejects what does not fit, and translates a list of addresses.          *)
(***************************************************************************)
EXTENDS Integers, FiniteSets, FiniteSetsExt, Functions

CONSTANTS
    AddrSizes, PhysSizes,  \* what is tried for -a and -p: records [num, unit]
    PageSizes,             \* what is tried for -P: records [num, unit]
    GivenLens, GivenBases, \* registers a user may give (-1: drawn by the program)
    BaseSamples            \* bound: the random bases that are tried

ASSUME TranslationAssumption ==
    /\ \A s \in AddrSizes \union PhysSizes \union PageSizes :
          s.num \in Nat /\ s.unit \in {"", "k", "m"}
    /\ GivenLens \subseteq Nat \union {-1} /\ GivenBases \subseteq Nat \union {-1}
    /\ BaseSamples \subseteq Nat

VARIABLES
    xlOpt,         \* [program, asize, psize, page, len0, base0, len1, base1]
    xlReg,         \* the registers or the page table of the program
    xlPc,          \* "start", "ready", "done", "error" (rejected or IndexError)
    xlResult       \* virtual address -> physical address, or Fault

xlVars == <<xlOpt, xlReg, xlPc, xlResult>>

Convert(size) ==
    size.num * (CASE size.unit = "" -> 1 [] size.unit = "k" -> 1024
                  [] size.unit = "m" -> 1024 * 1024)

asize == Convert(xlOpt.asize)
psize == Convert(xlOpt.psize)
pagesize == Convert(xlOpt.page)

\* the result of an address that is not translated; never an address
Fault == -psize

XlOptions ==
    [program: {"relocation"}, asize: AddrSizes, psize: PhysSizes, page: PageSizes,
     len0: GivenLens, base0: GivenBases, len1: {-1}, base1: {-1}]
    \union
    [program: {"segmentation"}, asize: AddrSizes, psize: PhysSizes, page: PageSizes,
     len0: GivenLens, base0: GivenBases, len1: GivenLens, base1: GivenBases]
    \union
    [program: {"linear"}, asize: AddrSizes, psize: PhysSizes, page: PageSizes,
     len0: {-1}, base0: {-1}, len1: {-1}, base1: {-1}]

XlInit == /\ xlOpt \in XlOptions
          /\ xlReg = <<>> /\ xlPc = "start" /\ xlResult = <<>>

\* the checks that all three programs start with
SizesOk == psize > 1 /\ asize > 0 /\ psize > asize

Ready(reg) == xlReg' = reg /\ xlPc' = "ready"
Rejected   == xlPc' = "error" /\ UNCHANGED xlReg

BadSizes ==
    /\ xlPc = "start" /\ ~SizesOk
    /\ Rejected /\ UNCHANGED <<xlOpt, xlResult>>

\* int(asize/4.0 + asize/4.0 * random())
Limits(given) ==
    IF given # -1 THEN {given}
    ELSE {n \in 0 .. asize : 4 * n + 4 > asize /\ 2 * n < asize}

\* a random base with room for len below the end of memory
Bases(given, len) ==
    IF given # -1 THEN {given} ELSE {b \in BaseSamples : b + len < psize}

\* relocation.py: base and limit register
RelocRegisters ==
    /\ xlPc = "start" /\ SizesOk /\ xlOpt.program = "relocation"
    /\ \E limit \in Limits(xlOpt.len0) : \E base \in Bases(xlOpt.base0, limit) :
          IF base + limit > psize THEN Rejected
          ELSE Ready([base |-> base, limit |-> limit])
    /\ UNCHANGED <<xlOpt, xlResult>>

\* a base given for segment 1 is its higher address; a drawn one keeps away
\* from segment 0
Bases1(len0, base0, len1) ==
    IF xlOpt.base1 # -1 THEN {xlOpt.base1 - len1}
    ELSE {b \in BaseSamples : /\ b + len1 < psize
                              /\ b > base0 + len0 \/ b + len1 < base0}

\* "segments overlap in physical memory"
Overlap(len0, base0, base1) == len0 + base0 > base1 /\ base1 > base0

\* segmentation.py: two base and limit pairs
SegRegisters ==
    /\ xlPc = "start" /\ SizesOk /\ xlOpt.program = "segmentation"
    /\ \E len0 \in Limits(xlOpt.len0), len1 \in Limits(xlOpt.len1) :
       \E base0 \in Bases(xlOpt.base0, len0) :
       \E base1 \in Bases1(len0, base0, len1) :
          IF 2 * len0 > asize \/ 2 * len1 > asize \/ Overlap(len0, base0, base1)
          THEN Rejected
          ELSE Ready([len0 |-> len0, base0 |-> base0, len1 |-> len1, base1 |-> base1,
                      nbase1 |-> base1 + len1])
    /\ UNCHANGED <<xlOpt, xlResult>>

PowerOf2(n) == \E k \in 0 .. 30 : n = 2 ^ k
VPages == asize \div pagesize

\* pt: a page is invalid (-1) or has a frame that was not used before
PageTables ==
    {pt \in [0 .. VPages - 1 -> -1 .. (psize \div pagesize) - 1] :
        \A v, w \in 0 .. VPages - 1 : v # w /\ pt[v] # -1 => pt[v] # pt[w]}

\* paging-linear-translate.py: mustbemultipleof compares two truncated
\* quotients and accepts everything (a page size of 0 raises there);
\* mustbepowerof2 does reject
LinearTable ==
    /\ xlPc = "start" /\ SizesOk /\ xlOpt.program = "linear"
    /\ IF pagesize = 0 \/ ~PowerOf2(asize) \/ ~PowerOf2(pagesize) THEN Rejected
       ELSE \E pt \in PageTables : Ready([pt |-> pt])
    /\ UNCHANGED <<xlOpt, xlResult>>

RelocTranslate(vaddr) == IF vaddr >= xlReg.limit THEN Fault ELSE vaddr + xlReg.base

\* mutant: segment 1 is checked against the limit of segment 0
SegTranslateWrongLimit(vaddr) ==
    IF vaddr >= asize \div 2
    THEN LET paddr == xlReg.nbase1 + (vaddr - asize)
         IN  IF vaddr - asize < -xlReg.len0 THEN Fault ELSE paddr
    ELSE IF vaddr >= xlReg.len0 THEN Fault ELSE vaddr + xlReg.base0

\* the upper half of the address space is segment 1, which grows downwards
SegTranslate(vaddr) ==
    IF vaddr >= asize \div 2
    THEN LET paddr == xlReg.nbase1 + (vaddr - asize)
         IN  IF paddr < xlReg.base1 THEN Fault ELSE paddr
    ELSE IF vaddr >= xlReg.len0 THEN Fault ELSE vaddr + xlReg.base0

\* vpn and offset by masks and shifts, which are powers of two
LinearTranslate(vaddr) ==
    LET pfn == xlReg.pt[vaddr \div pagesize]
    IN  IF pfn < 0 THEN Fault ELSE (pfn * pagesize) + (vaddr % pagesize)

\* the trace over all addresses the programs draw
Translate ==
    /\ xlPc = "ready"
    /\ IF xlOpt.program = "linear" /\ VPages = 0
       THEN xlPc' = "error" /\ UNCHANGED xlResult      \* IndexError
       ELSE /\ xlPc' = "done"
            /\ xlResult' = [v \in 0 .. asize - 1 |->
                  CASE xlOpt.program = "relocation"   -> RelocTranslate(v)
                    [] xlOpt.program = "segmentation" -> SegTranslate(v)
                    [] xlOpt.program = "linear"       -> LinearTranslate(v)]
    /\ UNCHANGED <<xlOpt, xlReg>>

XlNext == BadSizes \/ RelocRegisters \/ SegRegisters \/ LinearTable \/ Translate
-----------------------------------------------------------------------------
Translated == {v \in DOMAIN xlResult : xlResult[v] # Fault}

NoAddressShared ==
    \A v, w \in Translated : v # w => xlResult[v] # xlResult[w]

(* Protection: two virtual addresses never lead to the same byte, for      *)
(* registers and page tables the programs draw themselves.                 *)
DrawnNeverShared == xlOpt.base1 = -1 => NoAddressShared

(* An address is translated exactly when it is in bounds, i.e. within the  *)
(* limit from the right end of its segment, or on a valid page, and the    *)
(* offset into the segment or the page is kept.                            *)
InBounds ==
    xlPc = "done" =>
        CASE xlOpt.program = "relocation" ->
                Translated = 0 .. Min({xlReg.limit, asize}) - 1
          [] xlOpt.program = "segmentation" ->
                Translated = {v \in 0 .. asize - 1 :
                    IF v < asize \div 2 THEN v < xlReg.len0
                                     ELSE asize - v <= xlReg.len1}
          [] xlOpt.program = "linear" ->
                \A v \in 0 .. asize - 1 :
                    /\ v \in Translated <=> xlReg.pt[v \div pagesize] # -1
                    /\ v \in Translated => /\ xlResult[v] \in 0 .. psize - 1
                                           /\ xlResult[v] % pagesize = v % pagesize
=============================================================================
