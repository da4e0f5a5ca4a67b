------------------------------ MODULE Bsys_proofs ------------------------------
(***************************************************************************)
(* Proofs about BSYS: the address translations of MCBsysMemory, for any    *)
(* sizes, bases and limits; its page cache, for any accesses and cache     *)
(* size; its heap, for any size and operations; its RAID, for any number   *)
(* of disks, level and requests; and the approximate counter, for any      *)
(* number of threads, counters and CPUs.  The other programs with threads  *)
(* are in Threads_proofs.                                                  *)
(***************************************************************************)
EXTENDS MCBsysMemory, SloppyCounter,
        FiniteSetTheorems, SequenceTheorems, WellFoundedInduction, TLAPS

\* A non-empty set of numbers has a smallest element.
LEMMA Smallest ==
  ASSUME NEW D \in SUBSET Nat, D # {}
  PROVE  \E k \in D : \A j \in D : k <= j
<1>. DEFINE T == {0 .. k : k \in D}
            R == StrictSubsetOrdering(Nat)
            S == FiniteSubsetsOf(Nat)
<1>1. IsWellFoundedOn(R, S)
  BY FS_StrictSubsetOrderingWellFounded
<1>2. T \subseteq S /\ T # {}
  <2>1. ASSUME NEW k \in D PROVE 0 .. k \in S
    <3>1. 0 .. k \in SUBSET Nat /\ IsFiniteSet(0 .. k)
      BY FS_Interval
    <3>. QED  BY <3>1 DEF FiniteSubsetsOf
  <2>. HIDE DEF S
  <2>. QED  BY <2>1
<1>. HIDE DEF R, S
<1>3. \E x \in T : \A y \in T : <<y, x>> \notin R
  BY <1>1, <1>2, WFMin
<1>4. PICK k \in D : \A j \in D : <<0 .. j, 0 .. k>> \notin R
  BY <1>3
<1>5. ASSUME NEW j \in D, j < k PROVE FALSE
  <2>1. 0 .. j \subseteq 0 .. k /\ k \in 0 .. k /\ k \notin 0 .. j /\ 0 .. j \in SUBSET Nat /\ 0 .. k \in SUBSET Nat
    BY <1>5
  <2>2. 0 .. j # 0 .. k
    BY <2>1
  <2>3. <<0 .. j, 0 .. k>> \in R
    BY <2>1, <2>2 DEF R, StrictSubsetOrdering
  <2>. QED  BY <1>4, <2>3
<1>. QED  BY <1>5

\* A set of numbers with 0 and the successor of each of its members is Nat.
LEMMA AllNaturals ==
  ASSUME NEW D \in SUBSET Nat, 0 \in D, \A n \in D : n + 1 \in D
  PROVE  D = Nat
<1> DEFINE M == Nat \ D
<1>1. SUFFICES ASSUME M # {} PROVE FALSE
  OBVIOUS
<1>2. PICK k \in M : \A j \in M : k <= j
  <2>1. M \in SUBSET Nat
    OBVIOUS
  <2>. HIDE DEF M
  <2>. QED  BY <1>1, <2>1, Smallest
<1>3. k \in Nat /\ k # 0 /\ k \notin D
  BY <1>2
<1>4. k - 1 \in Nat /\ k - 1 \notin M
  BY <1>2, <1>3
<1>5. k - 1 \in D
  BY <1>4
<1>6. (k - 1) + 1 \in D
  BY <1>5
<1>. QED  BY <1>3, <1>6

-----------------------------------------------------------------------------
\* The powers of two that PowerOf2 knows.
Powers ==
    {1, 2, 4, 8, 16, 32, 64, 128, 256, 512, 1024, 2048, 4096, 8192, 16384,
     32768, 65536, 131072, 262144, 524288, 1048576, 2097152, 4194304,
     8388608, 16777216, 33554432, 67108864, 134217728, 268435456, 536870912,
     1073741824}

LEMMA PowersOfTwo ==
  ASSUME NEW n, PowerOf2(n)
  PROVE  n \in Powers
<1>1. 2^0 \in Powers /\ 2^1 \in Powers /\ 2^2 \in Powers /\ 2^3 \in Powers /\
     2^4 \in Powers /\ 2^5 \in Powers /\ 2^6 \in Powers /\ 2^7 \in Powers /\
     2^8 \in Powers /\ 2^9 \in Powers /\ 2^10 \in Powers /\
     2^11 \in Powers /\ 2^12 \in Powers /\ 2^13 \in Powers /\
     2^14 \in Powers /\ 2^15 \in Powers /\ 2^16 \in Powers /\
     2^17 \in Powers /\ 2^18 \in Powers /\ 2^19 \in Powers /\
     2^20 \in Powers /\ 2^21 \in Powers /\ 2^22 \in Powers /\
     2^23 \in Powers /\ 2^24 \in Powers /\ 2^25 \in Powers /\
     2^26 \in Powers /\ 2^27 \in Powers /\ 2^28 \in Powers /\
     2^29 \in Powers /\ 2^30 \in Powers
  BY DEF Powers
<1>2. PICK k \in 0 .. 30 : n = 2 ^ k
  BY DEF PowerOf2
<1>3. k = 0 \/ k = 1 \/ k = 2 \/ k = 3 \/ k = 4 \/ k = 5 \/ k = 6 \/ k = 7 \/
     k = 8 \/ k = 9 \/ k = 10 \/ k = 11 \/ k = 12 \/ k = 13 \/ k = 14 \/
     k = 15 \/ k = 16 \/ k = 17 \/ k = 18 \/ k = 19 \/ k = 20 \/ k = 21 \/
     k = 22 \/ k = 23 \/ k = 24 \/ k = 25 \/ k = 26 \/ k = 27 \/ k = 28 \/
     k = 29 \/ k = 30
  OBVIOUS
<1>4. 2 ^ k \in Powers
  BY <1>1, <1>3, ZenonT(30)
<1>. QED  BY <1>2, <1>4

\* The smaller of two powers of two divides the other one.
LEMMA PowersDivide ==
  ASSUME NEW n, NEW m, PowerOf2(n), PowerOf2(m), m <= n
  PROVE  n \in Nat /\ m \in Nat /\ m > 0 /\ n = (n \div m) * m
<1>1. n \in Powers /\ m \in Powers
  BY PowersOfTwo
<1>. HIDE DEF PowerOf2
<1>2. n \in Nat /\ m \in Nat /\ m > 0
  BY <1>1 DEF Powers
<1>3. n = (n \div m) * m
  BY <1>1, SMTT(100) DEF Powers
<1>. QED  BY <1>2, <1>3

\* Quotient and remainder: v is a quotient times m and a remainder below m.
LEMMA DivMod ==
  ASSUME NEW m \in Nat, m > 0, NEW v \in Nat
  PROVE  /\ v \div m \in Nat /\ v % m \in 0 .. m - 1
         /\ v = (v \div m) * m + (v % m)
<1>1. v % m \in 0 .. m - 1
  BY SMTT(30)
<1>2. v \div m \in Nat
  BY SMTT(30)
<1>3. v = m * (v \div m) + (v % m)
  BY SMTT(30)
<1>4. m * (v \div m) = (v \div m) * m
  BY <1>2, SMTT(30)
<1>. QED  BY <1>1, <1>2, <1>3, <1>4

\* What a quotient and a remainder determine.
LEMMA DivModUnique ==
  ASSUME NEW m \in Nat, m > 0, NEW p \in Int, NEW q \in Int,
         NEW r \in 0 .. m - 1, NEW s \in 0 .. m - 1, p * m + r = q * m + s
  PROVE  p = q /\ r = s
<1>1. ~(p < q)
  <2>1. p < q => p * m + m <= q * m
    <3>1. p < q => (q - p - 1) * m >= 0
      BY SMTT(30)
    <3>. QED  BY <3>1, SMTT(30)
  <2>. QED  BY <2>1
<1>2. ~(q < p)
  <2>1. q < p => q * m + m <= p * m
    <3>1. q < p => (p - q - 1) * m >= 0
      BY SMTT(30)
    <3>. QED  BY <3>1, SMTT(30)
  <2>. QED  BY <2>1
<1>. QED  BY <1>1, <1>2

LEMMA ModOf ==
  ASSUME NEW m \in Nat, m > 0, NEW p \in Nat, NEW r \in 0 .. m - 1
  PROVE  (p * m + r) % m = r /\ (p * m + r) \div m = p
<1>. DEFINE v == p * m + r
<1>1. v \in Nat
  <2>1. p * m \in Nat
    BY SMTT(30)
  <2>. QED  BY <2>1
<1>2. /\ v \div m \in Nat /\ v % m \in 0 .. m - 1
      /\ v = (v \div m) * m + (v % m)
  BY <1>1, DivMod
<1>. QED  BY <1>2, DivModUnique

-----------------------------------------------------------------------------
(* Address translation.                                                    *)

\* What the registers hold once they are accepted.
RelocRight ==
    xlOpt.program = "relocation" => xlReg \in [base : Nat, limit : Nat]

SegmentRight ==
    xlOpt.program = "segmentation" =>
        /\ xlReg.len0 \in Nat /\ xlReg.base0 \in Nat
        /\ xlReg.len1 \in Nat /\ xlReg.base1 \in Int
        /\ xlReg.nbase1 = xlReg.base1 + xlReg.len1
        /\ 2 * xlReg.len0 <= asize /\ 2 * xlReg.len1 <= asize
        /\ xlReg.base1 + xlReg.len1 >= 0
        /\ xlOpt.base1 = -1 => \/ xlReg.base1 > xlReg.base0 + xlReg.len0
                               \/ xlReg.base1 + xlReg.len1 < xlReg.base0

TableRight ==
    xlOpt.program = "linear" =>
        pagesize # 0 /\ PowerOf2(asize) /\ PowerOf2(pagesize) /\ xlReg.pt \in PageTables

RegistersRight == SizesOk /\ RelocRight /\ SegmentRight /\ TableRight

XlInv ==
    /\ xlPc # "done" => xlResult = <<>>
    /\ xlPc # "error" => xlOpt \in XlOptions
    /\ xlPc = "ready" => RegistersRight
    /\ DrawnNeverShared /\ InBounds

\* The sizes are numbers.
LEMMA SizesAreNumbers ==
  ASSUME xlOpt \in XlOptions
  PROVE  asize \in Nat /\ psize \in Nat /\ pagesize \in Nat
<1>1. /\ xlOpt.asize \in AddrSizes /\ xlOpt.psize \in PhysSizes
      /\ xlOpt.page \in PageSizes
  BY DEF XlOptions
<1>2. ASSUME NEW s \in AddrSizes \union PhysSizes \union PageSizes
      PROVE  Convert(s) \in Nat
  <2>1. s.num \in Nat /\ s.unit \in {"", "k", "m"}
    BY TranslationAssumption
  <2>. DEFINE u == CASE s.unit = "" -> 1 [] s.unit = "k" -> 1024
                     [] s.unit = "m" -> 1024 * 1024
  <2>2. u \in Nat
    <3>0. s.unit = "" \/ s.unit = "k" \/ s.unit = "m"
      BY <2>1
    <3>1. ASSUME s.unit = "" PROVE u = 1
      BY <3>1, ZenonT(30)
    <3>2. s.unit = "k" => u = 1024
      OBVIOUS
    <3>3. s.unit = "m" => u = 1024 * 1024
      OBVIOUS
    <3>. HIDE DEF u
    <3>4. u = 1 \/ u = 1024 \/ u = 1024 * 1024
      BY <3>0, <3>1, <3>2, <3>3, ZenonT(30)
    <3>. HIDE DEF u
    <3>. QED  BY <3>4
  <2>. HIDE DEF u
  <2>3. s.num * u \in Nat
    <3>1. \A x, y \in Nat : x * y \in Nat
      OBVIOUS
    <3>2. s.num \in Nat
      BY <2>1, Zenon
    <3>. QED  BY <2>2, <3>1, <3>2
  <2>. QED  BY <2>3, Zenon DEF Convert, u
<1>. QED  BY <1>1, <1>2 DEF asize, psize, pagesize

\* The options of a program.
LEMMA ProgramOptions ==
  ASSUME xlOpt \in XlOptions
  PROVE  /\ xlOpt.program \in {"relocation", "segmentation", "linear"}
         /\ xlOpt.program # "segmentation" => xlOpt.base1 = -1
         /\ xlOpt.len0 \in Nat \union {-1} /\ xlOpt.base0 \in Nat \union {-1}
         /\ xlOpt.len1 \in Nat \union {-1} /\ xlOpt.base1 \in Nat \union {-1}
<1>1. GivenLens \subseteq Nat \union {-1} /\ GivenBases \subseteq Nat \union {-1}
  BY TranslationAssumption
<1>. QED  BY <1>1 DEF XlOptions

\* A limit or a base is the given one or a number that was drawn.
LEMMA DrawnNumbers ==
  ASSUME asize \in Nat, NEW given \in Nat \union {-1}
  PROVE  /\ \A limit \in Limits(given) : limit \in Nat
         /\ \A len : \A base \in Bases(given, len) : base \in Nat
<1>1. BaseSamples \subseteq Nat
  BY TranslationAssumption
<1>2. CASE given = -1
  BY <1>1, <1>2 DEF Limits, Bases
<1>3. CASE given # -1
  BY <1>3 DEF Limits, Bases
<1>. QED  BY <1>2, <1>3

\* Before the trace nothing is translated.
LEMMA NothingTranslated ==
  ASSUME xlResult = <<>>, xlPc # "done"
  PROVE  DrawnNeverShared /\ InBounds
<1>1. Translated = {}
  BY DEF Translated
<1>. QED  BY <1>1 DEF DrawnNeverShared, NoAddressShared, InBounds

LEMMA XlInitInv ==
  ASSUME XlInit
  PROVE  XlInv
  BY NothingTranslated DEF XlInit, XlInv

\* What all four ways to leave "start" have in common.
LEMMA Unregistered ==
  ASSUME XlInv, SizesOk, xlPc = "start", xlOpt' = xlOpt, xlResult' = xlResult
  PROVE  /\ xlResult = <<>> /\ xlOpt \in XlOptions
         /\ asize \in Nat /\ psize \in Nat /\ pagesize \in Nat
         /\ asize' = asize /\ psize' = psize /\ pagesize' = pagesize
         /\ SizesOk'
<1>1. xlResult = <<>> /\ xlOpt \in XlOptions
  BY DEF XlInv
<1>2. asize \in Nat /\ psize \in Nat /\ pagesize \in Nat
  BY <1>1, SizesAreNumbers
<1>3. asize' = asize /\ psize' = psize /\ pagesize' = pagesize
  BY DEF asize, psize, pagesize
<1>4. SizesOk'
  BY <1>3 DEF SizesOk
<1>. QED  BY <1>1, <1>2, <1>3, <1>4

\* The invariant holds again once the registers are rejected or right.
LEMMA Registered ==
  ASSUME XlInv, xlPc = "start", xlOpt' = xlOpt, xlResult' = xlResult,
         xlPc' = "error" \/ (xlPc' = "ready" /\ RegistersRight')
  PROVE  XlInv'
<1>1. xlResult = <<>> /\ xlOpt \in XlOptions
  BY DEF XlInv
<1>2. (DrawnNeverShared /\ InBounds)'
  <2>1. Translated' = {}
    BY <1>1 DEF Translated
  <2>. QED  BY <2>1 DEF DrawnNeverShared, NoAddressShared, InBounds
<1>3. XlOptions' = XlOptions
  BY DEF XlOptions
<1>. QED  BY <1>1, <1>2, <1>3 DEF XlInv

\* relocation.py accepts numbers.
LEMMA RelocAccepted ==
  ASSUME XlInv, RelocRegisters
  PROVE  XlInv'
<1>1. /\ xlPc = "start" /\ SizesOk /\ xlOpt.program = "relocation"
      /\ xlOpt' = xlOpt /\ xlResult' = xlResult
  BY DEF RelocRegisters
<1>2. xlOpt \in XlOptions /\ asize \in Nat /\ SizesOk'
  BY <1>1, Unregistered
<1>3. PICK limit \in Limits(xlOpt.len0) : \E base \in Bases(xlOpt.base0, limit) :
        IF base + limit > psize THEN Rejected
        ELSE Ready([base |-> base, limit |-> limit])
  BY DEF RelocRegisters
<1>4. PICK base \in Bases(xlOpt.base0, limit) :
        IF base + limit > psize THEN Rejected
        ELSE Ready([base |-> base, limit |-> limit])
  BY <1>3
<1>5. limit \in Nat /\ base \in Nat
  <2>1. xlOpt.len0 \in Nat \union {-1} /\ xlOpt.base0 \in Nat \union {-1}
    BY <1>2, ProgramOptions
  <2>. QED  BY <1>2, <2>1, DrawnNumbers
<1>6. xlPc' = "error" \/ (xlPc' = "ready" /\ xlReg' = [base |-> base, limit |-> limit])
  BY <1>4 DEF Rejected, Ready
<1>7. xlPc' = "ready" => RegistersRight'
  <2>. HAVE xlPc' = "ready"
  <2>1. xlReg' \in [base : Nat, limit : Nat]
    BY <1>5, <1>6
  <2>. QED  BY <1>1, <1>2, <2>1 DEF RegistersRight, RelocRight, SegmentRight, TableRight
<1>. QED  BY <1>1, <1>6, <1>7, Registered

\* segmentation.py keeps a segment that it draws away from the other one.
LEMMA SegAccepted ==
  ASSUME XlInv, SegRegisters
  PROVE  XlInv'
<1>1. /\ xlPc = "start" /\ SizesOk /\ xlOpt.program = "segmentation"
      /\ xlOpt' = xlOpt /\ xlResult' = xlResult
  BY DEF SegRegisters
<1>2. /\ xlOpt \in XlOptions /\ asize \in Nat /\ psize \in Nat
      /\ asize' = asize /\ psize' = psize /\ SizesOk'
  BY <1>1, Unregistered
<1>3. PICK len0 \in Limits(xlOpt.len0), len1 \in Limits(xlOpt.len1) :
       \E base0 \in Bases(xlOpt.base0, len0) :
       \E base1 \in Bases1(len0, base0, len1) :
          IF 2 * len0 > asize \/ 2 * len1 > asize \/ Overlap(len0, base0, base1)
          THEN Rejected
          ELSE Ready([len0 |-> len0, base0 |-> base0, len1 |-> len1, base1 |-> base1,
                      nbase1 |-> base1 + len1])
  BY DEF SegRegisters
<1>4. PICK base0 \in Bases(xlOpt.base0, len0) :
       \E base1 \in Bases1(len0, base0, len1) :
          IF 2 * len0 > asize \/ 2 * len1 > asize \/ Overlap(len0, base0, base1)
          THEN Rejected
          ELSE Ready([len0 |-> len0, base0 |-> base0, len1 |-> len1, base1 |-> base1,
                      nbase1 |-> base1 + len1])
  BY <1>3
<1>5. PICK base1 \in Bases1(len0, base0, len1) :
          IF 2 * len0 > asize \/ 2 * len1 > asize \/ Overlap(len0, base0, base1)
          THEN Rejected
          ELSE Ready([len0 |-> len0, base0 |-> base0, len1 |-> len1, base1 |-> base1,
                      nbase1 |-> base1 + len1])
  BY <1>4
<1>6. /\ xlOpt.len0 \in Nat \union {-1} /\ xlOpt.base0 \in Nat \union {-1}
      /\ xlOpt.len1 \in Nat \union {-1} /\ xlOpt.base1 \in Nat \union {-1}
  BY <1>2, ProgramOptions
<1>7. len0 \in Nat /\ len1 \in Nat /\ base0 \in Nat
  BY <1>2, <1>6, DrawnNumbers
<1>8. /\ base1 \in Int /\ base1 + len1 >= 0
      /\ xlOpt.base1 = -1 => base1 > base0 + len0 \/ base1 + len1 < base0
  <2>1. CASE xlOpt.base1 = -1
    <3>1. BaseSamples \subseteq Nat
      BY TranslationAssumption
    <3>2. base1 \in Nat /\ (base1 > base0 + len0 \/ base1 + len1 < base0)
      BY <2>1, <3>1 DEF Bases1
    <3>. QED  BY <1>7, <3>2
  <2>2. CASE xlOpt.base1 # -1
    <3>1. base1 = xlOpt.base1 - len1 /\ xlOpt.base1 \in Nat
      BY <1>6, <2>2 DEF Bases1
    <3>. QED  BY <1>7, <2>2, <3>1
  <2>. QED  BY <2>1, <2>2
<1>9. \/ xlPc' = "error"
      \/ /\ xlPc' = "ready" /\ 2 * len0 <= asize /\ 2 * len1 <= asize
         /\ xlReg' = [len0 |-> len0, base0 |-> base0, len1 |-> len1, base1 |-> base1,
                      nbase1 |-> base1 + len1]
  BY <1>2, <1>5, <1>7 DEF Rejected, Ready
<1>10. xlPc' = "ready" => RegistersRight'
  <2>. SUFFICES ASSUME xlPc' = "ready" PROVE RegistersRight'
    OBVIOUS
  <2>1. /\ 2 * len0 <= asize /\ 2 * len1 <= asize
        /\ xlReg'.len0 = len0 /\ xlReg'.base0 = base0
        /\ xlReg'.len1 = len1 /\ xlReg'.base1 = base1 /\ xlReg'.nbase1 = base1 + len1
    BY <1>9
  <2>2. SegmentRight'
    BY <1>1, <1>2, <1>7, <1>8, <2>1 DEF SegmentRight
  <2>. QED  BY <1>1, <1>2, <2>2 DEF RegistersRight, RelocRight, TableRight
<1>. QED  BY <1>1, <1>9, <1>10, Registered

\* The page table of a program that accepts its sizes.
LEMMA LinearAccepted ==
  ASSUME XlInv, LinearTable
  PROVE  XlInv'
<1>1. /\ xlPc = "start" /\ SizesOk /\ xlOpt.program = "linear"
      /\ xlOpt' = xlOpt /\ xlResult' = xlResult
  BY DEF LinearTable
<1>2. /\ asize' = asize /\ psize' = psize /\ pagesize' = pagesize /\ SizesOk'
  BY <1>1, Unregistered
<1>3. CASE pagesize = 0 \/ ~PowerOf2(asize) \/ ~PowerOf2(pagesize)
  BY <1>1, <1>3, Registered DEF LinearTable, Rejected
<1>4. CASE ~(pagesize = 0 \/ ~PowerOf2(asize) \/ ~PowerOf2(pagesize))
  <2>1. PICK pt \in PageTables : Ready([pt |-> pt])
    BY <1>4 DEF LinearTable
  <2>2. xlPc' = "ready" /\ xlReg'.pt \in PageTables
    BY <2>1 DEF Ready
  <2>3. PageTables' = PageTables
    BY <1>2 DEF PageTables, VPages
  <2>4. TableRight'
    BY <1>2, <1>4, <2>2, <2>3 DEF TableRight, PowerOf2
  <2>5. RegistersRight'
    BY <1>1, <1>2, <2>4 DEF RegistersRight, RelocRight, SegmentRight
  <2>. QED  BY <1>1, <2>2, <2>5, Registered
<1>. QED  BY <1>3, <1>4

\* The addresses of a trace that RelocTranslate does not reject.
LEMMA RelocTranslated ==
  ASSUME asize \in Nat, psize \in Nat, SizesOk, xlOpt.program = "relocation",
         RelocRight, xlResult = [v \in 0 .. asize - 1 |-> RelocTranslate(v)]
  PROVE  NoAddressShared /\ InBounds
<1>. DEFINE base == xlReg.base  limit == xlReg.limit
<1>1. base \in Nat /\ limit \in Nat /\ psize > 1 /\ asize > 0
  BY DEF RelocRight, SizesOk
<1>2. ASSUME NEW v \in 0 .. asize - 1
      PROVE  /\ v < limit => v \in Translated /\ xlResult[v] = v + base
             /\ v >= limit => v \notin Translated
  <2>1. v \in DOMAIN xlResult /\ xlResult[v] = RelocTranslate(v)
    OBVIOUS
  <2>2. v + base # -psize
    BY <1>1
  <2>. QED  BY <1>1, <2>1, <2>2 DEF Translated, RelocTranslate, Fault
<1>3. Translated \subseteq 0 .. asize - 1
  BY DEF Translated
<1>4. NoAddressShared
  <2>. SUFFICES ASSUME NEW v \in Translated, NEW w \in Translated, v # w
                PROVE  xlResult[v] # xlResult[w]
    BY DEF NoAddressShared
  <2>1. v \in 0 .. asize - 1 /\ w \in 0 .. asize - 1
    BY <1>3
  <2>2. xlResult[v] = v + base /\ xlResult[w] = w + base
    BY <1>1, <1>2, <2>1
  <2>. QED  BY <1>1, <2>1, <2>2
<1>5. Translated = 0 .. Min({limit, asize}) - 1
  <2>. DEFINE m == IF limit <= asize THEN limit ELSE asize
  <2>1. Min({limit, asize}) = m
    <3>1. m \in {limit, asize} /\ \A y \in {limit, asize} : m <= y
      BY <1>1
    <3>2. \A x \in {limit, asize} : (\A y \in {limit, asize} : x <= y) => x = m
      BY <1>1
    <3>. QED  BY <3>1, <3>2 DEF Min
  <2>2. ASSUME NEW v \in 0 .. asize - 1 PROVE v \in Translated <=> v \in 0 .. m - 1
    BY <1>1, <1>2
  <2>3. 0 .. m - 1 \subseteq 0 .. asize - 1
    BY <1>1
  <2>. QED  BY <1>3, <2>1, <2>2, <2>3
<1>. QED  BY <1>4, <1>5 DEF InBounds

\* The addresses of a trace that SegTranslate does not reject.
LEMMA SegTranslated ==
  ASSUME asize \in Nat, psize \in Nat, SizesOk, xlOpt.program = "segmentation",
         SegmentRight, xlResult = [v \in 0 .. asize - 1 |-> SegTranslate(v)]
  PROVE  DrawnNeverShared /\ InBounds
<1>. DEFINE len0 == xlReg.len0  base0 == xlReg.base0  half == asize \div 2
            len1 == xlReg.len1  base1 == xlReg.base1
<1>1. /\ len0 \in Nat /\ base0 \in Nat /\ len1 \in Nat /\ base1 \in Int
      /\ xlReg.nbase1 = base1 + len1 /\ 2 * len0 <= asize /\ 2 * len1 <= asize
      /\ base1 + len1 >= 0 /\ psize > asize
      /\ xlOpt.base1 = -1 => base1 > base0 + len0 \/ base1 + len1 < base0
  BY DEF SegmentRight, SizesOk
<1>2. half \in Nat
  OBVIOUS
<1>3. ASSUME NEW v \in 0 .. asize - 1
      PROVE  /\ v < half /\ v < len0 => v \in Translated /\ xlResult[v] = v + base0
             /\ v < half /\ v >= len0 => v \notin Translated
             /\ v >= half /\ asize - v <= len1 =>
                   v \in Translated /\ xlResult[v] = base1 + len1 + (v - asize)
             /\ v >= half /\ asize - v > len1 => v \notin Translated
  <2>1. v \in DOMAIN xlResult /\ xlResult[v] = SegTranslate(v)
    OBVIOUS
  <2>2. v + base0 # -psize
    BY <1>1
  <2>3. base1 + len1 + (v - asize) # -psize
    BY <1>1
  <2>4. base1 + len1 + (v - asize) < base1 <=> asize - v > len1
    BY <1>1
  <2>5. CASE v < half
    BY <1>1, <1>2, <2>1, <2>2, <2>5 DEF Translated, SegTranslate, Fault
  <2>6. CASE v >= half
    <3>1. xlResult[v] = IF base1 + len1 + (v - asize) < base1 THEN -psize
                        ELSE base1 + len1 + (v - asize)
      BY <1>1, <1>2, <2>1, <2>6 DEF SegTranslate, Fault
    <3>2. asize - v <= len1 => xlResult[v] = base1 + len1 + (v - asize)
      BY <1>1, <2>4, <3>1
    <3>3. asize - v > len1 => xlResult[v] = -psize
      BY <1>1, <2>4, <3>1
    <3>. QED  BY <1>1, <1>2, <2>1, <2>3, <2>6, <3>2, <3>3 DEF Translated, Fault
  <2>. QED  BY <1>2, <2>5, <2>6
<1>4. Translated \subseteq 0 .. asize - 1
  BY DEF Translated
<1>5. DrawnNeverShared
  <2>. SUFFICES ASSUME xlOpt.base1 = -1,
                       NEW v \in Translated, NEW w \in Translated, v # w
                PROVE  xlResult[v] # xlResult[w]
    BY DEF DrawnNeverShared, NoAddressShared
  <2>1. v \in 0 .. asize - 1 /\ w \in 0 .. asize - 1
    BY <1>4
  <2>. HIDE DEF half
  <2>2. ASSUME NEW x \in 0 .. asize - 1, x \in Translated
        PROVE  \/ x < half /\ x < len0 /\ xlResult[x] = x + base0
               \/ x >= half /\ asize - x <= len1 /\ xlResult[x] = base1 + len1 + (x - asize)
    <3>1. CASE x < half
      <4>1. x < len0
        BY <1>1, <1>2, <1>3, <2>2, <3>1
      <4>. QED  BY <1>3, <3>1, <4>1
    <3>2. CASE x >= half
      <4>1. asize - x <= len1
        BY <1>1, <1>2, <1>3, <2>2, <3>2
      <4>. QED  BY <1>3, <3>2, <4>1
    <3>. QED  BY <1>2, <3>1, <3>2
  <2>3. base1 > base0 + len0 \/ base1 + len1 < base0
    BY <1>1
  <2>4. \/ v < half /\ v < len0 /\ xlResult[v] = v + base0
        \/ v >= half /\ asize - v <= len1 /\ xlResult[v] = base1 + len1 + (v - asize)
    BY <2>1, <2>2
  <2>5. \/ w < half /\ w < len0 /\ xlResult[w] = w + base0
        \/ w >= half /\ asize - w <= len1 /\ xlResult[w] = base1 + len1 + (w - asize)
    BY <2>1, <2>2
  <2>. HIDE DEF len0, base0, len1, base1
  <2>. QED  BY <1>1, <1>2, <2>1, <2>3, <2>4, <2>5, SMTT(30)
<1>6. Translated = {v \in 0 .. asize - 1 :
                       IF v < asize \div 2 THEN v < len0 ELSE asize - v <= len1}
  <2>. SUFFICES ASSUME NEW v \in 0 .. asize - 1
                PROVE  v \in Translated <=> IF v < half THEN v < len0 ELSE asize - v <= len1
    BY <1>4
  <2>. QED  BY <1>1, <1>2, <1>3
<1>. QED  BY <1>5, <1>6 DEF InBounds

\* The pages of the addresses of a trace have an entry in the table.
LEMMA PageOfAddress ==
  ASSUME asize \in Nat, pagesize \in Nat, pagesize > 0, VPages # 0,
         PowerOf2(asize), PowerOf2(pagesize), NEW v \in 0 .. asize - 1
  PROVE  /\ v \div pagesize \in 0 .. VPages - 1 /\ v % pagesize \in 0 .. pagesize - 1
         /\ v = (v \div pagesize) * pagesize + (v % pagesize)
<1>. DEFINE p == v \div pagesize  r == v % pagesize
<1>1. p \in Nat /\ r \in 0 .. pagesize - 1 /\ v = p * pagesize + r
  BY DivMod
<1>2. VPages \in Nat
  BY DivMod DEF VPages
<1>3. asize = VPages * pagesize
  <2>1. CASE pagesize <= asize
    BY <2>1, PowersDivide DEF VPages
  <2>2. CASE asize < pagesize
    <3>1. asize = 0 * pagesize + asize /\ asize \in 0 .. pagesize - 1
      BY <2>2
    <3>2. asize = VPages * pagesize + (asize % pagesize) /\ asize % pagesize \in 0 .. pagesize - 1
      BY DivMod DEF VPages
    <3>3. VPages = 0
      <4>1. 0 * pagesize + asize = VPages * pagesize + (asize % pagesize)
        BY <3>1, <3>2
      <4>. HIDE DEF VPages
      <4>. QED  BY <1>2, <3>1, <3>2, <4>1, DivModUnique
    <3>. QED  BY <3>3
  <2>. QED  BY <2>1, <2>2
<1>4. p < VPages
  <2>. SUFFICES ASSUME p >= VPages PROVE FALSE
    BY <1>1, <1>2
  <2>. HIDE DEF p, r, VPages
  <2>1. (p - VPages) * pagesize >= 0
    BY <1>1, <1>2, SMTT(30)
  <2>2. p * pagesize >= VPages * pagesize
    BY <1>1, <1>2, <2>1, SMTT(30)
  <2>. QED  BY <1>1, <1>2, <1>3, <2>2
<1>. QED  BY <1>1, <1>2, <1>4

\* The addresses of a trace whose page is valid.
LEMMA LinearTranslated ==
  ASSUME asize \in Nat, psize \in Nat, pagesize \in Nat, SizesOk, VPages # 0,
         xlOpt.program = "linear", TableRight,
         xlResult = [v \in 0 .. asize - 1 |-> LinearTranslate(v)]
  PROVE  NoAddressShared /\ InBounds
<1>. DEFINE pt == xlReg.pt
            page(v) == v \div pagesize
            offset(v) == v % pagesize
            frames == psize \div pagesize
<1>1. pagesize > 0 /\ psize > 0 /\ pt \in PageTables
  BY DEF TableRight, SizesOk
<1>2. /\ pt \in [0 .. VPages - 1 -> -1 .. frames - 1]
      /\ \A i, j \in 0 .. VPages - 1 : i # j /\ pt[i] # -1 => pt[i] # pt[j]
  BY <1>1 DEF PageTables
<1>3. frames \in Nat /\ frames * pagesize <= psize
  BY <1>1, DivMod
<1>. HIDE DEF pt, frames
<1>4. ASSUME NEW v \in 0 .. asize - 1
      PROVE  /\ page(v) \in 0 .. VPages - 1 /\ offset(v) \in 0 .. pagesize - 1
             /\ v = page(v) * pagesize + offset(v)
  BY <1>1, PageOfAddress DEF TableRight
<1>5. ASSUME NEW v \in 0 .. asize - 1
      PROVE  /\ pt[page(v)] \in -1 .. frames - 1
             /\ pt[page(v)] = -1 => v \notin Translated
             /\ pt[page(v)] # -1 => /\ v \in Translated
                                    /\ xlResult[v] = pt[page(v)] * pagesize + offset(v)
                                    /\ xlResult[v] \in 0 .. psize - 1
  <2>1. pt[page(v)] \in -1 .. frames - 1
    BY <1>2, <1>4
  <2>2. v \in DOMAIN xlResult /\ xlResult[v] = LinearTranslate(v)
    OBVIOUS
  <2>3. CASE pt[page(v)] = -1
    <3>1. xlResult[v] = Fault
      BY <2>2, <2>3 DEF LinearTranslate, pt
    <3>. QED  BY <2>1, <2>3, <3>1 DEF Translated
  <2>4. CASE pt[page(v)] # -1
    <3>. DEFINE f == pt[page(v)]  o == offset(v)
    <3>1. f \in 0 .. frames - 1 /\ o \in 0 .. pagesize - 1
      BY <1>3, <1>4, <2>1, <2>4
    <3>2. xlResult[v] = f * pagesize + o
      BY <2>2, <3>1, SMTT(30) DEF LinearTranslate, pt
    <3>. HIDE DEF f, o
    <3>3. f * pagesize \in Nat /\ (frames - 1 - f) * pagesize >= 0
      BY <1>1, <1>3, <3>1, SMTT(30)
    <3>4. f * pagesize + pagesize <= frames * pagesize
      BY <1>1, <1>3, <3>1, <3>3, SMTT(30)
    <3>5. f * pagesize + o \in 0 .. psize - 1
      <4>1. f * pagesize \in Nat /\ frames * pagesize \in Nat
        BY <1>3, <3>3, SMTT(30)
      <4>. QED  BY <1>1, <1>3, <3>1, <3>4, <4>1
    <3>6. v \in Translated
      BY <1>1, <2>2, <3>2, <3>5 DEF Translated, Fault
    <3>. QED  BY <2>1, <2>4, <3>2, <3>5, <3>6 DEF f, o
  <2>. QED  BY <2>1, <2>3, <2>4
<1>6. Translated \subseteq 0 .. asize - 1
  BY DEF Translated
<1>7. NoAddressShared
  <2>. SUFFICES ASSUME NEW v \in Translated, NEW w \in Translated, v # w
                PROVE  xlResult[v] # xlResult[w]
    BY DEF NoAddressShared
  <2>1. v \in 0 .. asize - 1 /\ w \in 0 .. asize - 1
    BY <1>6
  <2>2. ASSUME NEW x \in 0 .. asize - 1, x \in Translated
        PROVE  pt[page(x)] \in Nat /\ xlResult[x] = pt[page(x)] * pagesize + offset(x)
    <3>1. pt[page(x)] # -1 /\ pt[page(x)] \in -1 .. frames - 1
      BY <1>5, <2>2
    <3>. HIDE DEF page, offset
    <3>2. pt[page(x)] \in Nat
      BY <1>3, <3>1
    <3>. QED  BY <1>5, <3>1, <3>2
  <2>. DEFINE i == page(v)  j == page(w)  o == offset(v)  q == offset(w)
  <2>3. /\ i \in 0 .. VPages - 1 /\ o \in 0 .. pagesize - 1
        /\ j \in 0 .. VPages - 1 /\ q \in 0 .. pagesize - 1
        /\ v = i * pagesize + o /\ w = j * pagesize + q
    BY <1>4, <2>1
  <2>4. /\ pt[i] \in Nat /\ xlResult[v] = pt[i] * pagesize + o
        /\ pt[j] \in Nat /\ xlResult[w] = pt[j] * pagesize + q
    BY <2>1, <2>2
  <2>. HIDE DEF page, offset, i, j, o, q
  <2>. SUFFICES ASSUME xlResult[v] = xlResult[w] PROVE FALSE
    OBVIOUS
  <2>5. pt[i] = pt[j] /\ o = q
    <3>. DEFINE f == pt[i]  g == pt[j]  m == pagesize
    <3>1. f * m + o = g * m + q
      BY <2>4
    <3>2. /\ m \in Nat /\ m > 0 /\ f \in Int /\ g \in Int
          /\ o \in 0 .. m - 1 /\ q \in 0 .. m - 1
      BY <1>1, <2>3, <2>4
    <3>. HIDE DEF f, g, m
    <3>3. f = g /\ o = q
      BY <3>1, <3>2, DivModUnique
    <3>. QED  BY <3>3 DEF f, g
  <2>6. i = j
    BY <1>2, <2>3, <2>4, <2>5
  <2>. QED  BY <2>3, <2>5, <2>6
<1>8. ASSUME NEW v \in 0 .. asize - 1
      PROVE  /\ v \in Translated <=> pt[page(v)] # -1
             /\ v \in Translated => /\ xlResult[v] \in 0 .. psize - 1
                                    /\ xlResult[v] % pagesize = offset(v)
  <2>1. v \in Translated <=> pt[page(v)] # -1
    BY <1>5
  <2>2. ASSUME v \in Translated
        PROVE  xlResult[v] \in 0 .. psize - 1 /\ xlResult[v] % pagesize = offset(v)
    <3>1. /\ pt[page(v)] \in Nat /\ xlResult[v] = pt[page(v)] * pagesize + offset(v)
          /\ xlResult[v] \in 0 .. psize - 1
      BY <1>3, <1>5, <2>1, <2>2
    <3>2. offset(v) \in 0 .. pagesize - 1
      BY <1>4
    <3>. HIDE DEF page, offset
    <3>3. (pt[page(v)] * pagesize + offset(v)) % pagesize = offset(v)
      BY <1>1, <3>1, <3>2, ModOf
    <3>. QED  BY <3>1, <3>3
  <2>. QED  BY <2>1, <2>2
<1>. QED  BY <1>7, <1>8 DEF InBounds, pt

\* A trace over registers that were accepted.
TraceDone ==
    /\ asize \in Nat /\ psize \in Nat /\ pagesize \in Nat /\ RegistersRight
    /\ xlOpt.program \in {"relocation", "segmentation", "linear"}
    /\ xlOpt.program # "segmentation" => xlOpt.base1 = -1
    /\ xlOpt.program = "linear" => VPages # 0
    /\ xlResult = [v \in 0 .. asize - 1 |->
          CASE xlOpt.program = "relocation"   -> RelocTranslate(v)
            [] xlOpt.program = "segmentation" -> SegTranslate(v)
            [] xlOpt.program = "linear"       -> LinearTranslate(v)]

LEMMA TraceRight == TraceDone => DrawnNeverShared /\ InBounds
<1>. SUFFICES ASSUME TraceDone PROVE DrawnNeverShared /\ InBounds
  OBVIOUS
<1>1. /\ asize \in Nat /\ psize \in Nat /\ pagesize \in Nat
      /\ SizesOk /\ RelocRight /\ SegmentRight /\ TableRight
  BY DEF TraceDone, RegistersRight
<1>2. CASE xlOpt.program = "relocation"
  <2>1. xlResult = [v \in 0 .. asize - 1 |-> RelocTranslate(v)]
    BY <1>2 DEF TraceDone
  <2>. QED  BY <1>1, <1>2, <2>1, RelocTranslated DEF DrawnNeverShared
<1>3. CASE xlOpt.program = "segmentation"
  <2>1. xlResult = [v \in 0 .. asize - 1 |-> SegTranslate(v)]
    BY <1>3 DEF TraceDone
  <2>. QED  BY <1>1, <1>3, <2>1, SegTranslated
<1>4. CASE xlOpt.program = "linear"
  <2>1. xlResult = [v \in 0 .. asize - 1 |-> LinearTranslate(v)] /\ VPages # 0
    BY <1>4 DEF TraceDone
  <2>. QED  BY <1>1, <1>4, <2>1, LinearTranslated DEF DrawnNeverShared
<1>. QED  BY <1>2, <1>3, <1>4 DEF TraceDone

\* The trace of a program.
LEMMA TraceTranslated ==
  ASSUME XlInv, Translate
  PROVE  XlInv'
<1>1. /\ xlPc = "ready" /\ xlOpt \in XlOptions /\ RegistersRight
      /\ xlOpt' = xlOpt /\ xlReg' = xlReg /\ XlOptions' = XlOptions
  BY DEF XlInv, Translate, XlOptions
<1>2. /\ asize \in Nat /\ psize \in Nat /\ pagesize \in Nat
      /\ asize' = asize /\ psize' = psize /\ pagesize' = pagesize
      /\ VPages' = VPages
  BY <1>1, SizesAreNumbers DEF asize, psize, pagesize, VPages
<1>3. CASE xlOpt.program = "linear" /\ VPages = 0
  <2>1. xlPc' = "error" /\ xlResult' = <<>>
    BY <1>3 DEF XlInv, Translate
  <2>2. Translated' = {}
    BY <2>1 DEF Translated
  <2>. QED  BY <2>1, <2>2 DEF XlInv, DrawnNeverShared, NoAddressShared, InBounds
<1>4. CASE ~(xlOpt.program = "linear" /\ VPages = 0)
  <2>1. /\ xlPc' = "done"
        /\ xlResult' = [v \in 0 .. asize - 1 |->
              CASE xlOpt.program = "relocation"   -> RelocTranslate(v)
                [] xlOpt.program = "segmentation" -> SegTranslate(v)
                [] xlOpt.program = "linear"       -> LinearTranslate(v)]
    BY <1>4 DEF Translate
  <2>2. RegistersRight'
    <3>1. PageTables' = PageTables /\ SizesOk'
      BY <1>1, <1>2 DEF PageTables, RegistersRight, SizesOk
    <3>. QED  BY <1>1, <1>2, <3>1
              DEF RegistersRight, RelocRight, SegmentRight, TableRight, PowerOf2
  <2>3. xlResult' = [v \in 0 .. asize - 1 |->
              CASE xlOpt.program = "relocation"   -> RelocTranslate(v)
                [] xlOpt.program = "segmentation" -> SegTranslate(v)
                [] xlOpt.program = "linear"       -> LinearTranslate(v)]'
    BY <1>1, <1>2, <2>1 DEF RelocTranslate, SegTranslate, LinearTranslate, Fault
  <2>4. TraceDone'
    BY <1>1, <1>2, <1>4, <2>2, <2>3, ProgramOptions DEF TraceDone
  <2>5. (DrawnNeverShared /\ InBounds)'
    BY <2>4, TraceRight, PTL
  <2>. QED  BY <1>1, <2>1, <2>5 DEF XlInv
<1>. QED  BY <1>3, <1>4

\* A step of the three programs.
LEMMA XlStep ==
  ASSUME XlInv, XlNext
  PROVE  XlInv'
<1>1. CASE BadSizes
  BY <1>1, Registered DEF BadSizes, Rejected
<1>2. CASE RelocRegisters
  BY <1>2, RelocAccepted
<1>3. CASE SegRegisters
  BY <1>3, SegAccepted
<1>4. CASE LinearTable
  BY <1>4, LinearAccepted
<1>5. CASE Translate
  BY <1>5, TraceTranslated
<1>. QED  BY <1>1, <1>2, <1>3, <1>4, <1>5 DEF XlNext

LEMMA XlUnchanged ==
  ASSUME XlInv, UNCHANGED xlVars
  PROVE  XlInv'
<1>1. xlOpt' = xlOpt /\ xlReg' = xlReg /\ xlPc' = xlPc /\ xlResult' = xlResult
  BY DEF xlVars
<1>2. /\ asize' = asize /\ psize' = psize /\ pagesize' = pagesize
      /\ VPages' = VPages /\ XlOptions' = XlOptions
  BY <1>1 DEF asize, psize, pagesize, VPages, XlOptions
<1>3. PageTables' = PageTables /\ Translated' = Translated
  BY <1>1, <1>2 DEF PageTables, Translated, Fault
<1>4. RegistersRight' = RegistersRight
  BY <1>1, <1>2, <1>3
     DEF RegistersRight, SizesOk, RelocRight, SegmentRight, TableRight, PowerOf2
<1>5. DrawnNeverShared' = DrawnNeverShared
  BY <1>1, <1>3 DEF DrawnNeverShared, NoAddressShared
<1>6. InBounds' = InBounds
  BY <1>1, <1>2, <1>3 DEF InBounds
<1>. QED  BY <1>1, <1>2, <1>4, <1>5, <1>6 DEF XlInv

-----------------------------------------------------------------------------
(* The two-level page table.                                               *)

Memories == [FrameSet -> [Index -> Nat]]

MlTypeOK ==
    /\ usedPages \subseteq FrameSet /\ osError \in BOOLEAN /\ mem \in Memories
    /\ DOMAIN ptMap \subseteq VPs

\* A directory entry in use leads to a frame of its own.
DirectoryRight(m, dir, used) ==
    /\ dir \in used
    /\ \A i \in Index : Valid(m[dir][i]) => Pfn(m[dir][i]) \in used \ {dir}
    /\ \A i, j \in Index :
          Valid(m[dir][i]) /\ Valid(m[dir][j]) /\ Pfn(m[dir][i]) = Pfn(m[dir][j]) => i = j

\* The second-level entry of a virtual page.
Pte(m, dir, vp) == m[Pfn(m[dir][PdeBits(vp)])][PteBits(vp)]

\* A page that was allocated has an entry in both levels and a frame that is no
\* table; the second-level entry of any other page is unused.
EntriesRight(m, dir, used, map) ==
    /\ \A vp \in DOMAIN map :
          /\ Valid(m[dir][PdeBits(vp)]) /\ Pte(m, dir, vp) = EntryFor(map[vp])
          /\ map[vp] \in used \ {dir}
          /\ \A i \in Index : Valid(m[dir][i]) => Pfn(m[dir][i]) # map[vp]
    /\ \A vp \in VPs \ DOMAIN map :
          Valid(m[dir][PdeBits(vp)]) => Pte(m, dir, vp) = UnusedEntry

FramesUnshared(map) == \A vp, vq \in DOMAIN map : map[vp] = map[vq] => vp = vq

MlInv ==
    /\ MlTypeOK
    /\ osError => usedPages = FrameSet
    /\ pdbr = -1 => DOMAIN ptMap = {}
    /\ pdbr # -1 => /\ DirectoryRight(mem, pdbr, usedPages)
                    /\ EntriesRight(mem, pdbr, usedPages, ptMap)
                    /\ FramesUnshared(ptMap)

\* A virtual page is the pair of its two indexes.
LEMMA PageIndexes ==
  /\ \A vp \in VPs : PdeBits(vp) \in Index /\ PteBits(vp) \in Index
  /\ \A vp, vq \in VPs :
        PdeBits(vp) = PdeBits(vq) /\ PteBits(vp) = PteBits(vq) => vp = vq
<1>0. Slots \in Nat /\ Slots > 0 /\ Slots * Slots \in Nat
  <2>1. Slots \in Nat /\ Slots > 0
    BY MultilevelAssumption
  <2>. QED  BY <2>1, SMTT(30)
<1>1. ASSUME NEW vp \in VPs
      PROVE  /\ PdeBits(vp) \in Index /\ PteBits(vp) \in Index
             /\ vp = PdeBits(vp) * Slots + PteBits(vp)
  <2>. DEFINE q == vp \div Slots  r == vp % Slots
  <2>1. vp \in Nat /\ vp < Slots * Slots
    BY <1>0 DEF VPs
  <2>2. q \in Nat /\ r \in 0 .. Slots - 1 /\ vp = q * Slots + r
    BY <1>0, <2>1, DivMod
  <2>3. q < Slots
    <3>. SUFFICES ASSUME q >= Slots PROVE FALSE
      BY <1>0, <2>2
    <3>. HIDE DEF q, r
    <3>1. (q - Slots) * Slots >= 0
      BY <1>0, <2>2, SMTT(30)
    <3>2. q * Slots >= Slots * Slots
      BY <1>0, <2>2, <3>1, SMTT(30)
    <3>. QED  BY <1>0, <2>1, <2>2, <3>2
  <2>. QED  BY <1>0, <2>2, <2>3 DEF PdeBits, PteBits, Index
<1>. QED  BY <1>1

\* The bits of an entry.
LEMMA EntryBits ==
  /\ Frames \in Nat /\ Frames > 0 /\ FillBytes \subseteq Nat
  /\ UnusedEntry \in Nat /\ ~Valid(UnusedEntry)
  /\ \A f \in FrameSet : EntryFor(f) \in Nat /\ Valid(EntryFor(f)) /\ Pfn(EntryFor(f)) = f
  /\ \A e \in Nat : Pfn(e) \in FrameSet
<1>1. Frames \in Nat /\ Frames > 0 /\ FillBytes \subseteq Nat
  BY MultilevelAssumption
<1>2. UnusedEntry \in Nat /\ ~Valid(UnusedEntry)
  BY <1>1 DEF UnusedEntry, Valid
<1>3. ASSUME NEW f \in FrameSet
      PROVE  EntryFor(f) \in Nat /\ Valid(EntryFor(f)) /\ Pfn(EntryFor(f)) = f
  <2>1. f \in 0 .. Frames - 1
    BY DEF FrameSet
  <2>2. EntryFor(f) \in Nat /\ Valid(EntryFor(f))
    BY <1>1, <2>1 DEF EntryFor, Valid
  <2>3. (1 * Frames + f) % Frames = f
    BY <1>1, <2>1, ModOf
  <2>. QED  BY <1>1, <2>1, <2>2, <2>3 DEF EntryFor, Pfn
<1>4. ASSUME NEW e \in Nat PROVE Pfn(e) \in FrameSet
  BY <1>1, DivMod DEF Pfn, FrameSet
<1>. QED  BY <1>1, <1>2, <1>3, <1>4

\* The memory with an entry for a page and the bytes of its frame.
Mapped(m, table, slot, frame, byte) ==
    [m EXCEPT ![table][slot] = EntryFor(frame), ![frame] = [i \in Index |-> byte]]

\* The map with one page more.
Extended(map, vp, frame) ==
    [v \in DOMAIN map \union {vp} |-> IF v = vp THEN frame ELSE map[v]]

\* Mapping a page to a free frame, with a table that is there.
LEMMA MappedRight ==
  ASSUME NEW m \in Memories, NEW used \in SUBSET FrameSet, NEW dir \in FrameSet,
         NEW map, DOMAIN map \subseteq VPs,
         DirectoryRight(m, dir, used), EntriesRight(m, dir, used, map), FramesUnshared(map),
         NEW vp \in VPs \ DOMAIN map, Valid(m[dir][PdeBits(vp)]),
         NEW frame \in FrameSet \ used, NEW byte \in FillBytes,
         NEW table, table = Pfn(m[dir][PdeBits(vp)])
  PROVE  LET n    == Mapped(m, table, PteBits(vp), frame, byte)
             nmap == Extended(map, vp, frame)
         IN  /\ n \in Memories /\ m[table][PteBits(vp)] = UnusedEntry
             /\ DirectoryRight(n, dir, used \union {frame})
             /\ EntriesRight(n, dir, used \union {frame}, nmap) /\ FramesUnshared(nmap)
<1>. SUFFICES ASSUME NEW n, n = Mapped(m, table, PteBits(vp), frame, byte),
                     NEW nmap, nmap = Extended(map, vp, frame)
              PROVE  /\ n \in Memories /\ m[table][PteBits(vp)] = UnusedEntry
                     /\ DirectoryRight(n, dir, used \union {frame})
                     /\ EntriesRight(n, dir, used \union {frame}, nmap)
                     /\ FramesUnshared(nmap)
  OBVIOUS
<1>1. /\ PdeBits(vp) \in Index /\ PteBits(vp) \in Index
      /\ \A v \in VPs : PdeBits(v) \in Index /\ PteBits(v) \in Index
  BY PageIndexes
<1>2. /\ dir \in used /\ table \in used /\ table # dir /\ frame # dir /\ frame # table
      /\ table \in FrameSet
  BY <1>1 DEF DirectoryRight
<1>3. m[table][PteBits(vp)] = UnusedEntry
  BY DEF EntriesRight, Pte
<1>4. /\ n[dir] = m[dir]
      /\ n[table][PteBits(vp)] = EntryFor(frame)
      /\ \A i \in Index : i # PteBits(vp) => n[table][i] = m[table][i]
      /\ \A f \in FrameSet : f # table /\ f # frame => n[f] = m[f]
  BY <1>1, <1>2 DEF Mapped, Memories
<1>5. n \in Memories
  <2>1. EntryFor(frame) \in Nat /\ byte \in Nat
    BY EntryBits
  <2>. QED  BY <1>1, <1>2, <2>1 DEF Mapped, Memories
<1>6. DirectoryRight(n, dir, used \union {frame})
  BY <1>4 DEF DirectoryRight
<1>7. ASSUME NEW v \in VPs, Valid(m[dir][PdeBits(v)]), v # vp
      PROVE  Pte(n, dir, v) = Pte(m, dir, v)
  <2>. DEFINE t == Pfn(m[dir][PdeBits(v)])
  <2>1. t \in used /\ t \in FrameSet /\ t # frame
    BY <1>1, <1>7 DEF DirectoryRight
  <2>2. CASE t # table
    <3>1. n[t] = m[t]
      BY <1>4, <2>1, <2>2
    <3>. QED  BY <1>4, <3>1 DEF Pte
  <2>3. CASE t = table
    <3>1. PdeBits(v) = PdeBits(vp)
      BY <1>1, <1>7, <2>3 DEF DirectoryRight
    <3>2. PteBits(v) # PteBits(vp)
      BY <1>7, <3>1, PageIndexes
    <3>. QED  BY <1>1, <1>4, <2>3, <3>2 DEF Pte
  <2>. QED  BY <2>2, <2>3
<1>8. Pte(n, dir, vp) = EntryFor(frame)
  BY <1>4 DEF Pte
<1>9. /\ DOMAIN nmap = DOMAIN map \union {vp} /\ nmap[vp] = frame
      /\ \A v \in DOMAIN map : nmap[v] = map[v] /\ v # vp /\ v \in VPs
  BY DEF Extended
<1>10. EntriesRight(n, dir, used \union {frame}, nmap)
  <2>1. ASSUME NEW v \in DOMAIN nmap
        PROVE  /\ Valid(n[dir][PdeBits(v)]) /\ Pte(n, dir, v) = EntryFor(nmap[v])
               /\ nmap[v] \in (used \union {frame}) \ {dir}
               /\ \A i \in Index : Valid(n[dir][i]) => Pfn(n[dir][i]) # nmap[v]
    <3>1. CASE v = vp
      <4>1. \A i \in Index : Valid(n[dir][i]) => Pfn(n[dir][i]) # frame
        BY <1>4 DEF DirectoryRight
      <4>. QED  BY <1>2, <1>4, <1>8, <1>9, <3>1, <4>1
    <3>2. CASE v # vp
      <4>1. v \in DOMAIN map /\ v \in VPs /\ nmap[v] = map[v]
        BY <1>9, <3>2
      <4>2. /\ Valid(m[dir][PdeBits(v)]) /\ Pte(m, dir, v) = EntryFor(map[v])
            /\ map[v] \in used \ {dir}
            /\ \A i \in Index : Valid(m[dir][i]) => Pfn(m[dir][i]) # map[v]
        BY <4>1 DEF EntriesRight
      <4>3. Pte(n, dir, v) = EntryFor(nmap[v])
        BY <1>7, <3>2, <4>1, <4>2
      <4>. QED  BY <1>4, <4>1, <4>2, <4>3
    <3>. QED  BY <3>1, <3>2
  <2>2. ASSUME NEW v \in VPs \ DOMAIN nmap, Valid(n[dir][PdeBits(v)])
        PROVE  Pte(n, dir, v) = UnusedEntry
    <3>1. v \in VPs \ DOMAIN map /\ v # vp /\ Valid(m[dir][PdeBits(v)])
      BY <1>4, <1>9, <2>2
    <3>2. Pte(m, dir, v) = UnusedEntry
      BY <3>1 DEF EntriesRight
    <3>. QED  BY <1>7, <3>1, <3>2
  <2>. QED  BY <2>1, <2>2 DEF EntriesRight
<1>11. FramesUnshared(nmap)
  <2>1. \A v \in DOMAIN map : map[v] # frame
    BY DEF EntriesRight
  <2>. QED  BY <1>9, <2>1 DEF FramesUnshared
<1>. QED  BY <1>3, <1>5, <1>6, <1>10, <1>11

\* A new table for a directory entry that is not in use yet.
LEMMA NewTableRight ==
  ASSUME NEW m \in Memories, NEW used \in SUBSET FrameSet, pdbr \in FrameSet,
         NEW map, DOMAIN map \subseteq VPs,
         DirectoryRight(m, pdbr, used), EntriesRight(m, pdbr, used, map),
         NEW vp \in VPs, ~Valid(m[pdbr][PdeBits(vp)]),
         NEW table \in FrameSet \ used,
         NEW n, n = NewTable(m, vp, table)
  PROVE  /\ n \in Memories
         /\ Valid(n[pdbr][PdeBits(vp)]) /\ Pfn(n[pdbr][PdeBits(vp)]) = table
         /\ DirectoryRight(n, pdbr, used \union {table})
         /\ EntriesRight(n, pdbr, used \union {table}, map)
<1>. DEFINE d == PdeBits(vp)
<1>1. d \in Index /\ \A v \in VPs : PdeBits(v) \in Index /\ PteBits(v) \in Index
  BY PageIndexes
<1>2. pdbr \in used /\ table # pdbr
  BY DEF DirectoryRight
<1>3. EntryFor(table) \in Nat /\ Valid(EntryFor(table)) /\ Pfn(EntryFor(table)) = table
      /\ UnusedEntry \in Nat
  BY EntryBits
<1>4. /\ n[pdbr][d] = EntryFor(table)
      /\ \A i \in Index : i # d => n[pdbr][i] = m[pdbr][i]
      /\ n[table] = [i \in Index |-> UnusedEntry]
      /\ \A f \in FrameSet : f # pdbr /\ f # table => n[f] = m[f]
  BY <1>1, <1>2 DEF NewTable, InitPage, Memories
<1>5. n \in Memories
  BY <1>1, <1>2, <1>3 DEF NewTable, InitPage, Memories
<1>6. DirectoryRight(n, pdbr, used \union {table})
  <2>1. ASSUME NEW i \in Index, Valid(n[pdbr][i]), i # d
        PROVE  Valid(m[pdbr][i]) /\ n[pdbr][i] = m[pdbr][i] /\ Pfn(m[pdbr][i]) \in used \ {pdbr}
    BY <1>4, <2>1 DEF DirectoryRight
  <2>2. Pfn(n[pdbr][d]) = table
    BY <1>3, <1>4
  <2>. QED  BY <1>2, <2>1, <2>2 DEF DirectoryRight
<1>7. ASSUME NEW v \in VPs, PdeBits(v) # d, Valid(m[pdbr][PdeBits(v)])
      PROVE  n[pdbr][PdeBits(v)] = m[pdbr][PdeBits(v)] /\ Pte(n, pdbr, v) = Pte(m, pdbr, v)
  <2>. DEFINE t == Pfn(m[pdbr][PdeBits(v)])
  <2>1. n[pdbr][PdeBits(v)] = m[pdbr][PdeBits(v)]
    BY <1>1, <1>4, <1>7
  <2>2. t \in FrameSet /\ t # table /\ t # pdbr
    BY <1>1, <1>7 DEF DirectoryRight
  <2>3. n[t] = m[t]
    BY <1>4, <2>2
  <2>. QED  BY <2>1, <2>3 DEF Pte
<1>8. EntriesRight(n, pdbr, used \union {table}, map)
  <2>1. ASSUME NEW v \in DOMAIN map
        PROVE  /\ Valid(n[pdbr][PdeBits(v)]) /\ Pte(n, pdbr, v) = EntryFor(map[v])
               /\ map[v] \in (used \union {table}) \ {pdbr}
               /\ \A i \in Index : Valid(n[pdbr][i]) => Pfn(n[pdbr][i]) # map[v]
    <3>1. /\ v \in VPs /\ Valid(m[pdbr][PdeBits(v)]) /\ Pte(m, pdbr, v) = EntryFor(map[v])
          /\ map[v] \in used \ {pdbr}
          /\ \A i \in Index : Valid(m[pdbr][i]) => Pfn(m[pdbr][i]) # map[v]
      BY DEF EntriesRight
    <3>2. PdeBits(v) # d
      BY <3>1
    <3>3. \A i \in Index : Valid(n[pdbr][i]) => Pfn(n[pdbr][i]) # map[v]
      <4>. SUFFICES ASSUME NEW i \in Index, Valid(n[pdbr][i])
                    PROVE  Pfn(n[pdbr][i]) # map[v]
        OBVIOUS
      <4>1. CASE i = d
        BY <1>3, <1>4, <3>1, <4>1
      <4>2. CASE i # d
        BY <1>4, <3>1, <4>2
      <4>. QED  BY <4>1, <4>2
    <3>. QED  BY <1>7, <3>1, <3>2, <3>3
  <2>2. ASSUME NEW v \in VPs \ DOMAIN map, Valid(n[pdbr][PdeBits(v)])
        PROVE  Pte(n, pdbr, v) = UnusedEntry
    <3>1. CASE PdeBits(v) = d
      BY <1>1, <1>3, <1>4, <3>1 DEF Pte
    <3>2. CASE PdeBits(v) # d
      <4>1. Valid(m[pdbr][PdeBits(v)])
        BY <1>1, <1>4, <2>2, <3>2
      <4>2. Pte(m, pdbr, v) = UnusedEntry
        BY <4>1 DEF EntriesRight
      <4>. QED  BY <1>7, <3>2, <4>1, <4>2
    <3>. QED  BY <3>1, <3>2
  <2>. QED  BY <2>1, <2>2 DEF EntriesRight
<1>. QED  BY <1>3, <1>4, <1>5, <1>6, <1>8

LEMMA MlStep ==
  ASSUME MlInv, MlNext
  PROVE  MlInv'
<1>0. /\ usedPages \in SUBSET FrameSet /\ osError \in BOOLEAN /\ mem \in Memories
      /\ DOMAIN ptMap \subseteq VPs /\ -1 \notin FrameSet
  BY DEF MlInv, MlTypeOK, FrameSet
<1>1. CASE AllocPageDir
  <2>1. PICK dir \in FreeFrames : /\ pdbr' = dir /\ usedPages' = usedPages \union {dir}
                                  /\ mem' = InitPage(mem, dir)
    BY <1>1 DEF AllocPageDir
  <2>2. pdbr = -1 /\ DOMAIN ptMap = {} /\ ptMap' = ptMap /\ osError' = osError
    BY <1>1 DEF AllocPageDir, MlInv
  <2>3. dir \in FrameSet /\ dir \notin usedPages /\ ~osError
    BY DEF FreeFrames, MlInv
  <2>4. mem' \in Memories /\ \A i \in Index : mem'[dir][i] = UnusedEntry
    BY <1>0, <2>1, <2>3, EntryBits DEF InitPage, Memories
  <2>5. \A i \in Index : ~Valid(mem'[dir][i])
    BY <2>4, EntryBits
  <2>6. \A vp \in VPs : PdeBits(vp) \in Index
    BY PageIndexes
  <2>7. DirectoryRight(mem', dir, usedPages') /\ EntriesRight(mem', dir, usedPages', ptMap')
    BY <2>1, <2>2, <2>5, <2>6 DEF DirectoryRight, EntriesRight
  <2>8. FramesUnshared(ptMap')
    BY <2>2 DEF FramesUnshared
  <2>9. usedPages' \subseteq FrameSet
    BY <1>0, <2>1, <2>3
  <2>. QED  BY <1>0, <2>1, <2>2, <2>3, <2>4, <2>7, <2>8, <2>9 DEF MlInv, MlTypeOK
<1>2. ASSUME NEW vp \in VPs, AllocVirtualPage(vp) PROVE MlInv'
  <2>. DEFINE pde == mem[pdbr][PdeBits(vp)]
  <2>1. /\ pdbr # -1 /\ ~osError /\ pdbr' = pdbr /\ vp \in VPs \ DOMAIN ptMap
        /\ DirectoryRight(mem, pdbr, usedPages)
        /\ EntriesRight(mem, pdbr, usedPages, ptMap) /\ FramesUnshared(ptMap)
    BY <1>2 DEF AllocVirtualPage, MlInv
  <2>2. pdbr \in FrameSet /\ PdeBits(vp) \in Index /\ PteBits(vp) \in Index
    BY <1>0, <2>1, PageIndexes DEF DirectoryRight
  <2>3. PICK frame \in FreeFrames :
          /\ \/ /\ Valid(pde)
                /\ MapAndFill(mem, vp, Pfn(pde), frame)
                /\ usedPages' = usedPages \union {frame}
             \/ /\ ~Valid(pde)
                /\ \E table \in FreeFrames \ {frame} :
                      /\ MapAndFill(NewTable(mem, vp, table), vp, table, frame)
                      /\ usedPages' = usedPages \union {frame, table}
          /\ ptMap' = Extended(ptMap, vp, frame)
    BY <1>2 DEF AllocVirtualPage, Extended
  <2>4. frame \in FrameSet \ usedPages
    BY DEF FreeFrames
  <2>5. DOMAIN ptMap' \subseteq VPs /\ ptMap' = Extended(ptMap, vp, frame)
    BY <1>0, <2>1, <2>3 DEF Extended
  <2>6. CASE Valid(pde)
    <3>1. PICK byte \in FillBytes : mem' = Mapped(mem, Pfn(pde), PteBits(vp), frame, byte)
      BY <2>3, <2>6 DEF MapAndFill, Mapped
    <3>2. /\ osError' = (mem[Pfn(pde)][PteBits(vp)] # UnusedEntry)
          /\ usedPages' = usedPages \union {frame}
      BY <2>3, <2>6 DEF MapAndFill
    <3>3. /\ mem' \in Memories /\ mem[Pfn(pde)][PteBits(vp)] = UnusedEntry
          /\ DirectoryRight(mem', pdbr, usedPages \union {frame})
          /\ EntriesRight(mem', pdbr, usedPages \union {frame}, ptMap') /\ FramesUnshared(ptMap')
      BY <1>0, <2>1, <2>2, <2>4, <2>5, <2>6, <3>1, MappedRight
    <3>4. osError' = FALSE /\ usedPages' \subseteq FrameSet
      BY <1>0, <2>4, <3>2, <3>3
    <3>. QED  BY <2>1, <2>5, <3>2, <3>3, <3>4 DEF MlInv, MlTypeOK
  <2>7. CASE ~Valid(pde)
    <3>1. PICK table \in FreeFrames \ {frame} :
                      /\ MapAndFill(NewTable(mem, vp, table), vp, table, frame)
                      /\ usedPages' = usedPages \union {frame, table}
      BY <2>3, <2>7
    <3>. DEFINE n == NewTable(mem, vp, table)  used == usedPages \union {table}
    <3>2. table \in FrameSet \ usedPages /\ frame \in FrameSet \ used
      BY <2>4 DEF FreeFrames
    <3>3. /\ n \in Memories /\ Valid(n[pdbr][PdeBits(vp)])
          /\ Pfn(n[pdbr][PdeBits(vp)]) = table
          /\ DirectoryRight(n, pdbr, used) /\ EntriesRight(n, pdbr, used, ptMap)
      BY <1>0, <2>1, <2>2, <2>7, <3>2, NewTableRight
    <3>4. PICK byte \in FillBytes : mem' = Mapped(n, table, PteBits(vp), frame, byte)
      BY <3>1 DEF MapAndFill, Mapped
    <3>5. osError' = (n[table][PteBits(vp)] # UnusedEntry) /\ usedPages' = used \union {frame}
      BY <3>1 DEF MapAndFill
    <3>6. used \in SUBSET FrameSet
      BY <1>0, <3>2
    <3>. HIDE DEF n, used
    <3>7. /\ mem' \in Memories /\ n[table][PteBits(vp)] = UnusedEntry
          /\ DirectoryRight(mem', pdbr, used \union {frame})
          /\ EntriesRight(mem', pdbr, used \union {frame}, ptMap') /\ FramesUnshared(ptMap')
      <4>1. /\ vp \in VPs \ DOMAIN ptMap /\ DOMAIN ptMap \subseteq VPs
            /\ FramesUnshared(ptMap) /\ byte \in FillBytes
        BY <1>0, <2>1, <3>4
      <4>2. LET t == Pfn(n[pdbr][PdeBits(vp)])
                o == Mapped(n, t, PteBits(vp), frame, byte)
            IN  /\ o \in Memories /\ n[t][PteBits(vp)] = UnusedEntry
                /\ DirectoryRight(o, pdbr, used \union {frame})
                /\ EntriesRight(o, pdbr, used \union {frame}, Extended(ptMap, vp, frame))
                /\ FramesUnshared(Extended(ptMap, vp, frame))
        BY <2>2, <3>2, <3>3, <3>6, <4>1, MappedRight
      <4>. QED  BY <2>5, <3>3, <3>4, <4>2
    <3>8. osError' = FALSE /\ usedPages' \subseteq FrameSet
      BY <3>2, <3>5, <3>6, <3>7
    <3>. QED  BY <2>1, <2>5, <3>5, <3>7, <3>8 DEF MlInv, MlTypeOK
  <2>. QED  BY <2>6, <2>7
<1>3. ASSUME NEW vp \in VPs, OutOfFrames(vp) PROVE MlInv'
  <2>1. /\ pdbr # -1 /\ osError' = TRUE /\ usedPages' = FrameSet
        /\ mem' = mem /\ pdbr' = pdbr /\ ptMap' = ptMap
    BY <1>3 DEF OutOfFrames
  <2>2. DirectoryRight(mem, pdbr, FrameSet) /\ EntriesRight(mem, pdbr, FrameSet, ptMap)
    BY <1>0, <2>1 DEF MlInv, DirectoryRight, EntriesRight
  <2>. QED  BY <1>0, <2>1, <2>2 DEF MlInv, MlTypeOK
<1>. QED  BY <1>1, <1>2, <1>3 DEF MlNext

LEMMA MlUnchanged ==
  ASSUME MlInv, UNCHANGED mlVars
  PROVE  MlInv'
  BY DEF MlInv, MlTypeOK, mlVars

\* The walk finds what the invariant says.
LEMMA WalkFollows ==
  ASSUME MlInv
  PROVE  WalkIsMap
<1>. SUFFICES ASSUME pdbr # -1
              PROVE  /\ \A vp \in VPs : IF vp \in DOMAIN ptMap THEN MlTranslate(vp) = ptMap[vp]
                                                               ELSE MlTranslate(vp) < 0
                     /\ IsInjective(ptMap)
                     /\ \A vp \in DOMAIN ptMap :
                           ptMap[vp] \notin {pdbr} \union
                              {Pfn(mem[pdbr][i]) : i \in {k \in Index : Valid(mem[pdbr][k])}}
                     /\ osError => usedPages = FrameSet
  BY DEF WalkIsMap
<1>1. /\ DirectoryRight(mem, pdbr, usedPages) /\ EntriesRight(mem, pdbr, usedPages, ptMap)
      /\ FramesUnshared(ptMap) /\ usedPages \subseteq FrameSet
      /\ osError => usedPages = FrameSet
  BY DEF MlInv, MlTypeOK
<1>2. ASSUME NEW vp \in VPs
      PROVE  IF vp \in DOMAIN ptMap THEN MlTranslate(vp) = ptMap[vp] ELSE MlTranslate(vp) < 0
  <2>. DEFINE pde == mem[pdbr][PdeBits(vp)]  pte == mem[Pfn(pde)][PteBits(vp)]
  <2>1. CASE vp \in DOMAIN ptMap
    <3>1. Valid(pde) /\ pte = EntryFor(ptMap[vp]) /\ ptMap[vp] \in FrameSet
      BY <1>1, <2>1 DEF EntriesRight, Pte
    <3>2. Valid(pte) /\ Pfn(pte) = ptMap[vp]
      BY <3>1, EntryBits
    <3>. QED  BY <2>1, <3>1, <3>2 DEF MlTranslate
  <2>2. CASE vp \notin DOMAIN ptMap /\ Valid(pde)
    <3>1. pte = UnusedEntry
      BY <1>1, <2>2 DEF EntriesRight, Pte
    <3>2. ~Valid(pte)
      BY <3>1, EntryBits
    <3>. QED  BY <2>2, <3>2 DEF MlTranslate
  <2>3. CASE vp \notin DOMAIN ptMap /\ ~Valid(pde)
    BY <2>3 DEF MlTranslate
  <2>. QED  BY <2>1, <2>2, <2>3
<1>3. IsInjective(ptMap)
  BY <1>1 DEF IsInjective, FramesUnshared
<1>4. ASSUME NEW vp \in DOMAIN ptMap
      PROVE  ptMap[vp] \notin {pdbr} \union
                {Pfn(mem[pdbr][i]) : i \in {k \in Index : Valid(mem[pdbr][k])}}
  BY <1>1 DEF EntriesRight
<1>. QED  BY <1>1, <1>2, <1>3, <1>4

-----------------------------------------------------------------------------
\* The simulators share no variable.
TranslationInv == XlInv /\ MlInv

LEMMA TranslationInit ==
  ASSUME MemoryInit
  PROVE  TranslationInv
<1>1. XlInv
  <2>1. CASE sim = "translation"
    BY <2>1, XlInitInv DEF MemoryInit
  <2>2. CASE sim # "translation"
    <3>1. XlOff
      BY <2>2 DEF MemoryInit
    <3>. QED  BY <3>1, NothingTranslated DEF XlOff, XlInv
  <2>. QED  BY <2>1, <2>2
<1>2. MlInv
  <2>1. [f \in FrameSet |-> [i \in Index |-> 0]] \in Memories
    BY DEF Memories
  <2>2. DOMAIN << >> = {}
    OBVIOUS
  <2>3. CASE sim = "multilevel"
    BY <2>1, <2>2, <2>3 DEF MemoryInit, MlInit, MlInv, MlTypeOK
  <2>4. CASE sim # "multilevel"
    BY <2>1, <2>2, <2>4 DEF MemoryInit, MlOff, MlInv, MlTypeOK
  <2>. QED  BY <2>3, <2>4
<1>. QED  BY <1>1, <1>2 DEF TranslationInv

LEMMA TranslationStep ==
  ASSUME TranslationInv, [MemoryNext]_memoryVars
  PROVE  TranslationInv'
<1>. USE DEF TranslationInv
<1>1. CASE XlNext /\ UNCHANGED mlVars
  BY <1>1, XlStep, MlUnchanged
<1>2. CASE MlNext /\ UNCHANGED xlVars
  BY <1>2, MlStep, XlUnchanged
<1>3. CASE UNCHANGED <<xlVars, mlVars>>
  BY <1>3, XlUnchanged, MlUnchanged
<1>. QED  BY <1>1, <1>2, <1>3 DEF MemoryNext, memoryVars

(* The translation programs of BSYS, for any sizes, registers, random      *)
(* draws, page tables and numbers of frames: two addresses never lead to   *)
(* the same byte, an address is translated exactly when it is in bounds,   *)
(* and the walk of the two-level table is the map procAlloc built.         *)
THEOREM TranslationRightHolds == MemorySpec => []TranslationRight
<1>1. MemoryInit => TranslationInv
  BY TranslationInit
<1>2. TranslationInv /\ [MemoryNext]_memoryVars => TranslationInv'
  BY TranslationStep
<1>3. TranslationInv => TranslationRight
  BY WalkFollows DEF TranslationInv, XlInv, TranslationRight
<1>. QED  BY <1>1, <1>2, <1>3, PTL DEF MemorySpec

-----------------------------------------------------------------------------
(* What FewestMisses computes.                                             *)
Situations == (1 .. NumAddrs + 1) \X SUBSET Pages

\* the misses from access i on when S is cached, if f tells those from i + 1 on
MissesFrom(f, i, S) ==
    IF i > NumAddrs THEN 0
    ELSE IF addrList[i] \in S THEN f[<<i + 1, S>>]
    ELSE 1 + Min({f[<<i + 1, T \union {addrList[i]}>>] :
                    T \in IF Cardinality(S) < cachesize THEN {S} ELSE {S \ {v} : v \in S}})

Traces == addrList \in [1 .. NumAddrs -> Pages] /\ cachesize \in Nat \ {0}

\* f is right from access k on
RightFrom(f, k) ==
    \A i \in 1 .. NumAddrs + 1 : \A S \in SUBSET Pages :
        i >= k => f[<<i, S>>] = MissesFrom(f, i, S)

LEMMA MissesFromNext ==
  ASSUME Traces, NEW i \in 1 .. NumAddrs + 1, NEW S \in SUBSET Pages, NEW f, NEW g,
         i <= NumAddrs => \A T \in SUBSET Pages : f[<<i + 1, T>>] = g[<<i + 1, T>>]
  PROVE  MissesFrom(f, i, S) = MissesFrom(g, i, S)
<1>1. CASE i > NumAddrs
  BY <1>1 DEF MissesFrom
<1>2. CASE ~(i > NumAddrs)
  <2>1. i \in 1 .. NumAddrs /\ addrList[i] \in Pages
    BY <1>2, PagingAssumption DEF Traces
  <2>2. \A T \in SUBSET Pages : f[<<i + 1, T>>] = g[<<i + 1, T>>]
    BY <2>1
  <2> DEFINE C == IF Cardinality(S) < cachesize THEN {S} ELSE {S \ {v} : v \in S}
  <2>3. C \subseteq SUBSET Pages
    OBVIOUS
  <2>. HIDE DEF C
  <2>4. \A T \in C : f[<<i + 1, T \union {addrList[i]}>>] = g[<<i + 1, T \union {addrList[i]}>>]
    BY <2>1, <2>2, <2>3
  <2>5. {f[<<i + 1, T \union {addrList[i]}>>] : T \in C} = {g[<<i + 1, T \union {addrList[i]}>>] : T \in C}
    BY <2>4
  <2>6. f[<<i + 1, S>>] = g[<<i + 1, S>>]
    BY <2>2
  <2>. QED  BY <1>2, <2>5, <2>6, Zenon DEF MissesFrom, C
<1>. QED  BY <1>1, <1>2

\* f is right from access N + 1 - j on, for some f.
LEMMA RightExists ==
  ASSUME Traces
  PROVE  \E f : RightFrom(f, 1)
<1>. DEFINE D == {j \in 0 .. NumAddrs : \A f : ~RightFrom(f, NumAddrs + 1 - j)}
<1>0. NumAddrs \in Nat /\ D \in SUBSET Nat
  BY PagingAssumption
<1>1. SUFFICES ASSUME NumAddrs \in D PROVE FALSE
  <2>1. NumAddrs \notin D => \E f : RightFrom(f, NumAddrs + 1 - NumAddrs)
    BY <1>0
  <2>2. NumAddrs + 1 - NumAddrs = 1
    BY <1>0
  <2>. QED  BY <2>1, <2>2, <1>1
<1>2. PICK k \in D : \A j \in D : k <= j
  <2>. HIDE DEF D
  <2>. QED  BY <1>0, <1>1, Smallest
<1>3. k \in 0 .. NumAddrs /\ \A f : ~RightFrom(f, NumAddrs + 1 - k)
  BY <1>2
<1>4. CASE k = 0
  <2> DEFINE g == [p \in Situations |-> 0]
  <2>1. ASSUME NEW i \in 1 .. NumAddrs + 1, NEW S \in SUBSET Pages, i >= NumAddrs + 1
        PROVE  g[<<i, S>>] = MissesFrom(g, i, S)
    <3>1. g[<<i, S>>] = 0
      BY DEF Situations
    <3>2. i > NumAddrs
      BY <1>0, <2>1
    <3>. QED  BY <3>1, <3>2 DEF MissesFrom
  <2>2. RightFrom(g, NumAddrs + 1)
    BY <2>1 DEF RightFrom
  <2>. QED  BY <1>0, <1>3, <1>4, <2>2
<1>5. CASE k # 0
  <2>1. k - 1 \in 0 .. NumAddrs /\ k - 1 \notin D
    BY <1>0, <1>2, <1>3, <1>5
  <2>2. PICK f : RightFrom(f, NumAddrs + 1 - (k - 1))
    BY <2>1
  <2> DEFINE n == NumAddrs + 1 - k
             g == [p \in Situations |-> IF p[1] = n THEN MissesFrom(f, p[1], p[2]) ELSE f[p]]
  <2>3. n \in 1 .. NumAddrs + 1 /\ NumAddrs + 1 - (k - 1) = n + 1
    BY <1>0, <1>3, <1>5
  <2>. HIDE DEF n
  <2>4. ASSUME NEW i \in 1 .. NumAddrs + 1, NEW S \in SUBSET Pages
        PROVE  g[<<i, S>>] = IF i = n THEN MissesFrom(f, i, S) ELSE f[<<i, S>>]
    BY DEF Situations
  <2>. HIDE DEF g
  <2>5. ASSUME NEW i \in 1 .. NumAddrs + 1, NEW S \in SUBSET Pages, i >= n
        PROVE  g[<<i, S>>] = MissesFrom(g, i, S)
    <3>1. i <= NumAddrs => \A T \in SUBSET Pages : f[<<i + 1, T>>] = g[<<i + 1, T>>]
      <4>1. ASSUME i <= NumAddrs, NEW T \in SUBSET Pages PROVE f[<<i + 1, T>>] = g[<<i + 1, T>>]
        <5>1. i + 1 \in 1 .. NumAddrs + 1 /\ i + 1 # n
          BY <1>0, <2>3, <2>5, <4>1
        <5>. QED  BY <5>1, <2>4
      <4>. QED  BY <4>1
    <3>2. MissesFrom(f, i, S) = MissesFrom(g, i, S)
      BY <3>1, MissesFromNext
    <3>3. CASE i = n
      BY <3>2, <3>3, <2>4
    <3>4. CASE i # n
      <4>1. i >= n + 1
        BY <1>0, <2>3, <2>5, <3>4
      <4>2. f[<<i, S>>] = MissesFrom(f, i, S)
        BY <4>1, <2>2, <2>3 DEF RightFrom
      <4>. QED  BY <4>2, <3>2, <3>4, <2>4
    <3>. QED  BY <3>3, <3>4
  <2>6. RightFrom(g, n)
    BY <2>5 DEF RightFrom
  <2>. QED  BY <1>3, <2>6 DEF n
<1>. QED  BY <1>4, <1>5

LEMMA FewestMissesIs ==
  ASSUME Traces, NEW i \in 1 .. NumAddrs + 1, NEW S \in SUBSET Pages
  PROVE  FewestMisses[<<i, S>>] = MissesFrom(FewestMisses, i, S)
<1> DEFINE Is(f) == f = [p \in Situations |-> MissesFrom(f, p[1], p[2])]
<1>1. PICK f : RightFrom(f, 1)
  BY RightExists
<1> DEFINE h == [p \in Situations |-> f[p]]
<1>2. ASSUME NEW p \in Situations PROVE h[p] = MissesFrom(h, p[1], p[2])
  <2>1. PICK j \in 1 .. NumAddrs + 1, T \in SUBSET Pages : p = <<j, T>>
    BY DEF Situations
  <2>2. j <= NumAddrs => \A U \in SUBSET Pages : f[<<j + 1, U>>] = h[<<j + 1, U>>]
    BY PagingAssumption DEF Situations
  <2>. HIDE DEF h
  <2>3. MissesFrom(f, j, T) = MissesFrom(h, j, T)
    BY <2>2, MissesFromNext
  <2>4. f[<<j, T>>] = MissesFrom(f, j, T)
    BY <1>1 DEF RightFrom
  <2>5. h[p] = f[p]
    BY DEF h
  <2>6. p[1] = j /\ p[2] = T
    BY <2>1
  <2>. QED  BY <2>1, <2>3, <2>4, <2>5, <2>6
<1>3. Is(h)
  <2> DEFINE r == [p \in Situations |-> MissesFrom(h, p[1], p[2])]
  <2>1. \A p \in Situations : h[p] = r[p]
    BY <1>2
  <2>2. h = r
    <3>1. h = [p \in Situations |-> h[p]]
      OBVIOUS
    <3>. QED  BY <1>2
  <2>. QED  BY <2>2
<1>4. FewestMisses = CHOOSE g : Is(g)
  BY Zenon DEF FewestMisses, Situations, MissesFrom
<1>. HIDE DEF h
<1>5. Is(FewestMisses)
  <2>. HIDE DEF Is
  <2>. QED  BY <1>3, <1>4
<1>6. <<i, S>> \in Situations /\ <<i, S>>[1] = i /\ <<i, S>>[2] = S
  BY DEF Situations
<1>. QED  BY <1>5, <1>6

\* the fewest misses from access i on when the pages S are cached
Fewest(i, S) == FewestMisses[<<i, S>>]

LEMMA MinNat ==
  ASSUME NEW D \in SUBSET Nat, D # {}
  PROVE  Min(D) \in D /\ \A x \in D : Min(D) <= x
<1>1. \E x \in D : \A y \in D : x <= y
  BY Smallest
<1>. QED  BY <1>1 DEF Min

LEMMA PagesFinite ==
  ASSUME NEW S \in SUBSET Pages
  PROVE  IsFiniteSet(S) /\ Cardinality(S) \in Nat
<1>1. IsFiniteSet(Pages)
  BY PagingAssumption, FS_Interval DEF Pages
<1>. QED  BY <1>1, FS_Subset, FS_CardinalityType

LEMMA PagesAdd ==
  ASSUME NEW S \in SUBSET Pages, NEW x \in Pages, x \notin S
  PROVE  S \union {x} \in SUBSET Pages /\ Cardinality(S \union {x}) = Cardinality(S) + 1
BY PagesFinite, FS_AddElement

LEMMA PagesRemove ==
  ASSUME NEW S \in SUBSET Pages, NEW x \in S
  PROVE  S \ {x} \in SUBSET Pages /\ Cardinality(S \ {x}) = Cardinality(S) - 1
BY PagesFinite, FS_RemoveElement

\* What may be kept of the cache at a miss.
Kept(S) == IF Cardinality(S) < cachesize THEN {S} ELSE {S \ {v} : v \in S}

LEMMA KeptNonempty ==
  ASSUME Traces, NEW S \in SUBSET Pages
  PROVE  Kept(S) # {} /\ Kept(S) \subseteq SUBSET Pages
<1>1. CASE Cardinality(S) < cachesize
  BY <1>1 DEF Kept
<1>2. CASE ~(Cardinality(S) < cachesize)
  <2>1. S # {}
    BY <1>2, FS_EmptySet DEF Traces
  <2>2. PICK v \in S : TRUE
    BY <2>1
  <2>3. S \ {v} \in Kept(S)
    BY <1>2, <2>2 DEF Kept
  <2>. QED  BY <1>2, <2>3 DEF Kept
<1>. QED  BY <1>1, <1>2

LEMMA FewestOf ==
  ASSUME Traces, NEW i \in 1 .. NumAddrs + 1, NEW S \in SUBSET Pages
  PROVE  /\ i > NumAddrs => Fewest(i, S) = 0
         /\ i <= NumAddrs /\ addrList[i] \in S => Fewest(i, S) = Fewest(i + 1, S)
         /\ i <= NumAddrs /\ addrList[i] \notin S =>
              Fewest(i, S) = 1 + Min({Fewest(i + 1, T \union {addrList[i]}) : T \in Kept(S)})
<1>1. Fewest(i, S) = MissesFrom(FewestMisses, i, S)
  BY FewestMissesIs DEF Fewest
<1>2. i <= NumAddrs => ~(i > NumAddrs)
  BY PagingAssumption
<1>. QED  BY <1>1, <1>2, Zenon DEF Fewest, MissesFrom, Kept

LEMMA FewestNat ==
  ASSUME Traces, NEW i \in 1 .. NumAddrs + 1, NEW S \in SUBSET Pages
  PROVE  Fewest(i, S) \in Nat
<1>. DEFINE Bad(j) == \E k \in 1 .. NumAddrs + 1, T \in SUBSET Pages :
                         k = NumAddrs + 1 - j /\ Fewest(k, T) \notin Nat
            D == {j \in 0 .. NumAddrs : Bad(j)}
<1>0. NumAddrs \in Nat /\ D \in SUBSET Nat
  BY PagingAssumption
<1>1. SUFFICES ASSUME D # {} PROVE FALSE
  <2>1. Fewest(i, S) \notin Nat => NumAddrs + 1 - i \in D
    <3>1. NumAddrs + 1 - i \in 0 .. NumAddrs /\ i = NumAddrs + 1 - (NumAddrs + 1 - i)
      BY <1>0
    <3>. QED  BY <3>1
  <2>. QED  BY <2>1, <1>1
<1>2. PICK j \in D : \A m \in D : j <= m
  <2>. HIDE DEF D
  <2>. QED  BY <1>0, <1>1, Smallest
<1>3. PICK k \in 1 .. NumAddrs + 1, T \in SUBSET Pages :
         k = NumAddrs + 1 - j /\ Fewest(k, T) \notin Nat
  BY <1>2
<1>4. \A U \in SUBSET Pages : k <= NumAddrs => Fewest(k + 1, U) \in Nat
  <2>1. ASSUME NEW U \in SUBSET Pages, k <= NumAddrs, Fewest(k + 1, U) \notin Nat PROVE FALSE
    <3>1. /\ k + 1 \in 1 .. NumAddrs + 1 /\ j - 1 \in 0 .. NumAddrs
          /\ k + 1 = NumAddrs + 1 - (j - 1)
      BY <1>0, <1>2, <1>3, <2>1
    <3>2. j - 1 \in D
      BY <3>1, <2>1
    <3>. QED  BY <1>0, <1>2, <3>1, <3>2
  <2>. QED  BY <2>1
<1>5. CASE k > NumAddrs
  <2>1. Fewest(k, T) = 0
    BY <1>5, FewestOf
  <2>. QED  BY <2>1, <1>3
<1>6. CASE k <= NumAddrs /\ addrList[k] \in T
  <2>1. Fewest(k, T) = Fewest(k + 1, T)
    BY <1>6, FewestOf
  <2>. QED  BY <2>1, <1>3, <1>4, <1>6
<1>7. CASE k <= NumAddrs /\ addrList[k] \notin T
  <2> DEFINE V == {Fewest(k + 1, U \union {addrList[k]}) : U \in Kept(T)}
  <2>1. addrList[k] \in Pages
    BY <1>0, <1>7 DEF Traces
  <2>2. V # {} /\ V \subseteq Nat
    BY <1>4, <1>7, <2>1, KeptNonempty, ZenonT(30)
  <2>3. Fewest(k, T) = 1 + Min(V)
    BY <1>7, FewestOf
  <2>. HIDE DEF V
  <2>4. Min(V) \in Nat
    BY <2>2, MinNat
  <2>. QED  BY <1>3, <2>3, <2>4
<1>. QED  BY <1>0, <1>5, <1>6, <1>7

LEMMA FewestMiss ==
  ASSUME Traces, NEW i \in 1 .. NumAddrs, NEW S \in SUBSET Pages, addrList[i] \notin S
  PROVE  /\ Cardinality(S) < cachesize => Fewest(i, S) = 1 + Fewest(i + 1, S \union {addrList[i]})
         /\ \A v \in S : Cardinality(S) >= cachesize =>
              Fewest(i, S) <= 1 + Fewest(i + 1, (S \ {v}) \union {addrList[i]})
         /\ Cardinality(S) >= cachesize =>
              \E v \in S : Fewest(i, S) = 1 + Fewest(i + 1, (S \ {v}) \union {addrList[i]})
<1> DEFINE a == addrList[i]
           V == {Fewest(i + 1, T \union {a}) : T \in Kept(S)}
<1>1. a \in Pages /\ i + 1 \in 1 .. NumAddrs + 1 /\ i \in 1 .. NumAddrs + 1 /\ i <= NumAddrs
  BY PagingAssumption DEF Traces
<1>2. Fewest(i, S) = 1 + Min(V)
  BY <1>1, FewestOf
<1>3. V # {} /\ V \subseteq Nat
  BY <1>1, KeptNonempty, FewestNat
<1>4. Min(V) \in V /\ \A x \in V : Min(V) <= x
  <2>. HIDE DEF V
  <2>. QED  BY <1>3, MinNat
<1>5. PICK T \in Kept(S) : Min(V) = Fewest(i + 1, T \union {a})
  BY <1>4
<1>6. \A U \in Kept(S) : Fewest(i + 1, U \union {a}) \in V
  OBVIOUS
<1>7. Cardinality(S) \in Nat /\ cachesize \in Nat /\ Min(V) \in Nat
  BY <1>3, <1>4, PagesFinite DEF Traces
<1>8. CASE Cardinality(S) < cachesize
  BY <1>2, <1>5, <1>7, <1>8 DEF Kept
<1>9. CASE Cardinality(S) >= cachesize
  <2>1. Kept(S) = {S \ {v} : v \in S}
    BY <1>7, <1>9 DEF Kept
  <2>2. ASSUME NEW v \in S PROVE Fewest(i, S) <= 1 + Fewest(i + 1, (S \ {v}) \union {a})
    <3>1. Fewest(i + 1, (S \ {v}) \union {a}) \in V
      BY <2>1
    <3>2. Fewest(i + 1, (S \ {v}) \union {a}) \in Nat /\ Min(V) <= Fewest(i + 1, (S \ {v}) \union {a})
      BY <3>1, <1>3, <1>4
    <3>. QED  BY <3>2, <1>2, <1>7
  <2>3. PICK v \in S : T = S \ {v}
    BY <2>1
  <2>4. Fewest(i, S) = 1 + Fewest(i + 1, (S \ {v}) \union {a})
    BY <1>2, <1>5, <2>3
  <2>. HIDE DEF a
  <2>5. ~(Cardinality(S) < cachesize)
    BY <1>7, <1>9
  <2>. QED  BY <2>2, <2>4, <2>5 DEF a
<1>. QED  BY <1>7, <1>8, <1>9

\* One page more does not miss more often.
MoreIsBetter(j) ==
    \A Q \in SUBSET Pages : \A p \in Pages \ Q :
        Cardinality(Q) < cachesize => Fewest(j, Q \union {p}) <= Fewest(j, Q)

\* One page less costs at most one miss.
OneMissFewer(j) ==
    \A Q \in SUBSET Pages : \A q \in Pages \ Q :
        Cardinality(Q) < cachesize => Fewest(j, Q) <= 1 + Fewest(j, Q \union {q})

\* x is referenced from access j on no later than y
Sooner(j, x, y) == \A i \in j .. NumAddrs : addrList[i] = y => \E k \in j .. i : addrList[k] = x

\* To cache the page that is referenced sooner does not miss more often.
SoonerIsBetter(j) ==
    \A R \in SUBSET Pages : \A x, y \in Pages \ R :
        Cardinality(R) < cachesize /\ x # y /\ Sooner(j, x, y) =>
            Fewest(j, R \union {x}) <= Fewest(j, R \union {y})

\* To cache another page instead costs at most one miss.
LEMMA OneSwap ==
  ASSUME Traces, NEW j \in 1 .. NumAddrs + 1, MoreIsBetter(j), OneMissFewer(j),
         NEW Q \in SUBSET Pages, NEW p \in Pages \ Q, NEW q \in Pages \ Q, Cardinality(Q) < cachesize
  PROVE  Fewest(j, Q \union {p}) <= 1 + Fewest(j, Q \union {q})
<1>1. /\ Fewest(j, Q \union {p}) \in Nat /\ Fewest(j, Q) \in Nat
      /\ Fewest(j, Q \union {q}) \in Nat
  BY FewestNat
<1>2. Fewest(j, Q \union {p}) <= Fewest(j, Q)
  BY DEF MoreIsBetter
<1>3. Fewest(j, Q) <= 1 + Fewest(j, Q \union {q})
  BY DEF OneMissFewer
<1>. QED  BY <1>1, <1>2, <1>3

LEMMA MoreStep ==
  ASSUME Traces, NEW j \in 1 .. NumAddrs, MoreIsBetter(j + 1)
  PROVE  MoreIsBetter(j)
<1>. SUFFICES ASSUME NEW Q \in SUBSET Pages, NEW p \in Pages \ Q, Cardinality(Q) < cachesize
              PROVE  Fewest(j, Q \union {p}) <= Fewest(j, Q)
  BY DEF MoreIsBetter
<1> DEFINE a == addrList[j]
           P == Q \union {p}
<1>1. /\ a \in Pages /\ j \in 1 .. NumAddrs + 1 /\ j + 1 \in 1 .. NumAddrs + 1 /\ j <= NumAddrs
      /\ P \in SUBSET Pages /\ Cardinality(P) = Cardinality(Q) + 1 /\ Cardinality(Q) \in Nat
      /\ cachesize \in Nat
  BY PagingAssumption, PagesAdd, PagesFinite DEF Traces
<1>. HIDE DEF a
<1>2. ASSUME NEW S \in SUBSET Pages PROVE Fewest(j, S) \in Nat /\ Fewest(j + 1, S) \in Nat
  BY <1>1, FewestNat
<1>3. CASE a \in Q
  <2>1. Fewest(j, Q) = Fewest(j + 1, Q) /\ Fewest(j, P) = Fewest(j + 1, P)
    BY <1>1, <1>3, FewestOf DEF a
  <2>2. Fewest(j + 1, P) <= Fewest(j + 1, Q)
    BY DEF MoreIsBetter
  <2>. QED  BY <2>1, <2>2
<1>4. CASE a = p
  <2>1. Fewest(j, P) = Fewest(j + 1, P)
    BY <1>1, <1>4, FewestOf DEF a
  <2>2. Fewest(j, Q) = 1 + Fewest(j + 1, P)
    BY <1>4, FewestMiss DEF a
  <2>. QED  BY <2>1, <2>2, <1>1, <1>2
<1>5. CASE a \notin P
  <2>1. Fewest(j, Q) = 1 + Fewest(j + 1, Q \union {a})
    BY <1>5, FewestMiss DEF a
  <2>2. CASE Cardinality(P) < cachesize
    <3>1. Fewest(j, P) = 1 + Fewest(j + 1, P \union {a})
      BY <1>1, <1>5, <2>2, FewestMiss DEF a
    <3>2. /\ Q \union {a} \in SUBSET Pages /\ Cardinality(Q \union {a}) < cachesize
          /\ p \in Pages \ (Q \union {a}) /\ P \union {a} = (Q \union {a}) \union {p}
      BY <1>1, <1>5, <2>2, PagesAdd
    <3>3. Fewest(j + 1, (Q \union {a}) \union {p}) <= Fewest(j + 1, Q \union {a})
      BY <3>2 DEF MoreIsBetter
    <3>4. Fewest(j + 1, (Q \union {a}) \union {p}) \in Nat /\ Fewest(j + 1, Q \union {a}) \in Nat
      BY <1>2, <3>2
    <3>. QED  BY <2>1, <3>1, <3>2, <3>3, <3>4
  <2>3. CASE Cardinality(P) >= cachesize
    <3>1. Fewest(j, P) <= 1 + Fewest(j + 1, (P \ {p}) \union {a})
      BY <1>1, <1>5, <2>3, FewestMiss DEF a
    <3>2. P \ {p} = Q
      OBVIOUS
    <3>. QED  BY <2>1, <3>1, <3>2
  <2>. QED  BY <1>1, <2>2, <2>3
<1>. QED  BY <1>3, <1>4, <1>5

LEMMA FewerStep ==
  ASSUME Traces, NEW j \in 1 .. NumAddrs, MoreIsBetter(j + 1), OneMissFewer(j + 1)
  PROVE  OneMissFewer(j)
<1>. SUFFICES ASSUME NEW Q \in SUBSET Pages, NEW q \in Pages \ Q, Cardinality(Q) < cachesize
              PROVE  Fewest(j, Q) <= 1 + Fewest(j, Q \union {q})
  BY DEF OneMissFewer
<1> DEFINE a == addrList[j]
           P == Q \union {q}
<1>1. /\ a \in Pages /\ j \in 1 .. NumAddrs + 1 /\ j + 1 \in 1 .. NumAddrs + 1 /\ j <= NumAddrs
      /\ P \in SUBSET Pages /\ Cardinality(P) = Cardinality(Q) + 1 /\ Cardinality(Q) \in Nat
      /\ cachesize \in Nat
  BY PagingAssumption, PagesAdd, PagesFinite DEF Traces
<1>. HIDE DEF a
<1>2. ASSUME NEW S \in SUBSET Pages PROVE Fewest(j, S) \in Nat /\ Fewest(j + 1, S) \in Nat
  BY <1>1, FewestNat
<1>3. CASE a \in Q
  <2>1. Fewest(j, Q) = Fewest(j + 1, Q) /\ Fewest(j, P) = Fewest(j + 1, P)
    BY <1>1, <1>3, FewestOf DEF a
  <2>2. Fewest(j + 1, Q) <= 1 + Fewest(j + 1, P)
    BY DEF OneMissFewer
  <2>. QED  BY <2>1, <2>2
<1>4. CASE a = q
  <2>1. Fewest(j, P) = Fewest(j + 1, P)
    BY <1>1, <1>4, FewestOf DEF a
  <2>2. Fewest(j, Q) = 1 + Fewest(j + 1, P)
    BY <1>4, FewestMiss DEF a
  <2>. QED  BY <2>1, <2>2, <1>1, <1>2
<1>5. CASE a \notin P
  <2>1. Fewest(j, Q) = 1 + Fewest(j + 1, Q \union {a})
    BY <1>5, FewestMiss DEF a
  <2>2. CASE Cardinality(P) < cachesize
    <3>1. Fewest(j, P) = 1 + Fewest(j + 1, P \union {a})
      BY <1>1, <1>5, <2>2, FewestMiss DEF a
    <3>2. /\ Q \union {a} \in SUBSET Pages /\ Cardinality(Q \union {a}) < cachesize
          /\ q \in Pages \ (Q \union {a}) /\ P \union {a} = (Q \union {a}) \union {q}
      BY <1>1, <1>5, <2>2, PagesAdd
    <3>3. Fewest(j + 1, Q \union {a}) <= 1 + Fewest(j + 1, (Q \union {a}) \union {q})
      BY <3>2 DEF OneMissFewer
    <3>4. Fewest(j + 1, (Q \union {a}) \union {q}) \in Nat /\ Fewest(j + 1, Q \union {a}) \in Nat
      BY <1>2, <3>2
    <3>. QED  BY <2>1, <3>1, <3>2, <3>3, <3>4
  <2>3. CASE Cardinality(P) >= cachesize
    <3>1. PICK v \in P : Fewest(j, P) = 1 + Fewest(j + 1, (P \ {v}) \union {a})
      BY <1>1, <1>5, <2>3, FewestMiss DEF a
    <3>2. CASE v = q
      <4>1. P \ {v} = Q
        BY <3>2
      <4>2. Q \union {a} \in SUBSET Pages
        BY <1>1
      <4>. QED  BY <1>2, <2>1, <3>1, <4>1, <4>2
    <3>3. CASE v \in Q
      <4> DEFINE B == (Q \ {v}) \union {a}
      <4>1. /\ B \in SUBSET Pages /\ Cardinality(B) < cachesize
            /\ v \in Pages \ B /\ q \in Pages \ B
        <5>1. Q \ {v} \in SUBSET Pages /\ Cardinality(Q \ {v}) = Cardinality(Q) - 1
          BY <3>3, PagesRemove
        <5>2. Cardinality(B) = Cardinality(Q \ {v}) + 1
          BY <1>1, <1>5, <5>1, PagesAdd
        <5>3. v # a
          BY <3>3, <1>5
        <5>. QED  BY <1>1, <1>5, <3>3, <5>1, <5>2, <5>3
      <4>2. B \union {v} = Q \union {a} /\ B \union {q} = (P \ {v}) \union {a}
        BY <3>3
      <4>. HIDE DEF B
      <4>3. Fewest(j + 1, B \union {v}) <= 1 + Fewest(j + 1, B \union {q})
        BY <1>1, <4>1, OneSwap
      <4>4. Fewest(j + 1, B \union {v}) \in Nat /\ Fewest(j + 1, B \union {q}) \in Nat
        BY <1>2, <4>1
      <4>. QED  BY <2>1, <3>1, <4>2, <4>3, <4>4
    <3>. QED  BY <3>2, <3>3
  <2>. QED  BY <1>1, <2>2, <2>3
<1>. QED  BY <1>3, <1>4, <1>5

LEMMA SoonerStep ==
  ASSUME Traces, NEW j \in 1 .. NumAddrs, MoreIsBetter(j + 1), OneMissFewer(j + 1),
         SoonerIsBetter(j + 1)
  PROVE  SoonerIsBetter(j)
<1>. SUFFICES ASSUME NEW R \in SUBSET Pages, NEW x \in Pages \ R, NEW y \in Pages \ R,
                     Cardinality(R) < cachesize, x # y, Sooner(j, x, y)
              PROVE  Fewest(j, R \union {x}) <= Fewest(j, R \union {y})
  BY DEF SoonerIsBetter
<1> DEFINE a == addrList[j]
           X == R \union {x}
           Y == R \union {y}
<1>1. /\ a \in Pages /\ j \in 1 .. NumAddrs + 1 /\ j + 1 \in 1 .. NumAddrs + 1 /\ j <= NumAddrs
      /\ X \in SUBSET Pages /\ Cardinality(X) = Cardinality(R) + 1 /\ Cardinality(R) \in Nat
      /\ Y \in SUBSET Pages /\ Cardinality(Y) = Cardinality(R) + 1 /\ cachesize \in Nat
  BY PagingAssumption, PagesAdd, PagesFinite DEF Traces
<1>. HIDE DEF a
<1>2. ASSUME NEW S \in SUBSET Pages PROVE Fewest(j, S) \in Nat /\ Fewest(j + 1, S) \in Nat
  BY <1>1, FewestNat
<1>3. a # x => a # y /\ Sooner(j + 1, x, y)
  <2>1. ASSUME a # x, a = y PROVE FALSE
    <3>1. j \in j .. NumAddrs /\ j .. j = {j}
      BY <1>1, PagingAssumption
    <3>2. \E k \in j .. j : addrList[k] = x
      BY <2>1, <3>1 DEF Sooner, a
    <3>. QED  BY <2>1, <3>1, <3>2 DEF a
  <2>2. ASSUME a # x, NEW i \in j + 1 .. NumAddrs, addrList[i] = y
        PROVE  \E k \in j + 1 .. i : addrList[k] = x
    <3>1. i \in j .. NumAddrs
      BY PagingAssumption
    <3>2. PICK k \in j .. i : addrList[k] = x
      BY <2>2, <3>1 DEF Sooner
    <3>3. k # j
      BY <2>2, <3>2 DEF a
    <3>4. k \in j + 1 .. i
      BY <3>3
    <3>. QED  BY <3>2, <3>4
  <2>. QED  BY <2>1, <2>2 DEF Sooner
<1>4. CASE a \in R
  <2>1. Fewest(j, X) = Fewest(j + 1, X) /\ Fewest(j, Y) = Fewest(j + 1, Y)
    BY <1>1, <1>4, FewestOf DEF a
  <2>2. Fewest(j + 1, X) <= Fewest(j + 1, Y)
    BY <1>3, <1>4 DEF SoonerIsBetter
  <2>. QED  BY <2>1, <2>2
<1>5. CASE a = x
  <2>1. Fewest(j, X) = Fewest(j + 1, X)
    BY <1>1, <1>5, FewestOf DEF a
  <2>2. a \notin Y
    BY <1>5
  <2>3. CASE Cardinality(Y) < cachesize
    <3>1. Fewest(j, Y) = 1 + Fewest(j + 1, Y \union {a})
      BY <1>1, <2>2, <2>3, FewestMiss DEF a
    <3>2. Fewest(j + 1, X) <= 1 + Fewest(j + 1, X \union {y})
      BY <1>1, <2>3 DEF OneMissFewer
    <3>3. X \union {y} = Y \union {a}
      BY <1>5
    <3>. QED  BY <2>1, <3>1, <3>2, <3>3
  <2>4. CASE Cardinality(Y) >= cachesize
    <3>1. PICK v \in Y : Fewest(j, Y) = 1 + Fewest(j + 1, (Y \ {v}) \union {a})
      BY <1>1, <2>2, <2>4, FewestMiss DEF a
    <3>2. CASE v = y
      <4>1. (Y \ {v}) \union {a} = X
        BY <1>5, <3>2
      <4>. QED  BY <1>1, <1>2, <2>1, <3>1, <4>1
    <3>3. CASE v \in R
      <4> DEFINE B == (R \ {v}) \union {a}
      <4>1. /\ B \in SUBSET Pages /\ Cardinality(B) < cachesize
            /\ v \in Pages \ B /\ y \in Pages \ B
        <5>1. R \ {v} \in SUBSET Pages /\ Cardinality(R \ {v}) = Cardinality(R) - 1
          BY <3>3, PagesRemove
        <5>2. Cardinality(B) = Cardinality(R \ {v}) + 1
          BY <1>1, <1>5, <5>1, PagesAdd
        <5>3. v # a
          BY <3>3, <1>5
        <5>. QED  BY <1>1, <1>5, <3>3, <5>1, <5>2, <5>3
      <4>2. B \union {v} = X /\ B \union {y} = (Y \ {v}) \union {a}
        BY <1>5, <3>3
      <4>. HIDE DEF B
      <4>3. Fewest(j + 1, B \union {v}) <= 1 + Fewest(j + 1, B \union {y})
        BY <1>1, <4>1, OneSwap
      <4>. QED  BY <2>1, <3>1, <4>2, <4>3
    <3>. QED  BY <3>2, <3>3
  <2>. QED  BY <1>1, <2>3, <2>4
<1>6. CASE a \notin X
  <2>1. a \notin Y /\ Sooner(j + 1, x, y)
    BY <1>3, <1>6
  <2>2. CASE Cardinality(X) < cachesize
    <3>1. /\ Fewest(j, X) = 1 + Fewest(j + 1, X \union {a})
          /\ Fewest(j, Y) = 1 + Fewest(j + 1, Y \union {a})
      BY <1>1, <1>6, <2>1, <2>2, FewestMiss DEF a
    <3> DEFINE B == R \union {a}
    <3>2. /\ B \in SUBSET Pages /\ Cardinality(B) < cachesize
          /\ x \in Pages \ B /\ y \in Pages \ B
      BY <1>1, <1>6, <2>1, <2>2, PagesAdd
    <3>3. X \union {a} = B \union {x} /\ Y \union {a} = B \union {y}
      OBVIOUS
    <3>. HIDE DEF B
    <3>4. Fewest(j + 1, B \union {x}) <= Fewest(j + 1, B \union {y})
      BY <2>1, <3>2 DEF SoonerIsBetter
    <3>5. Fewest(j + 1, B \union {x}) \in Nat /\ Fewest(j + 1, B \union {y}) \in Nat
      BY <1>2, <3>2
    <3>. QED  BY <3>1, <3>3, <3>4, <3>5
  <2>3. CASE Cardinality(X) >= cachesize
    <3>1. PICK v \in Y : Fewest(j, Y) = 1 + Fewest(j + 1, (Y \ {v}) \union {a})
      BY <1>1, <2>1, <2>3, FewestMiss, ZenonT(30) DEF a
    <3>2. \A u \in X : Fewest(j, X) <= 1 + Fewest(j + 1, (X \ {u}) \union {a})
      BY <1>1, <1>6, <2>3, FewestMiss DEF a
    <3>3. CASE v = y
      <4>1. (Y \ {v}) \union {a} = (X \ {x}) \union {a}
        BY <3>3
      <4>2. Fewest(j, X) <= 1 + Fewest(j + 1, (X \ {x}) \union {a})
        BY <3>2
      <4>. QED  BY <3>1, <4>1, <4>2
    <3>4. CASE v \in R
      <4> DEFINE B == (R \ {v}) \union {a}
      <4>1. /\ B \in SUBSET Pages /\ Cardinality(B) < cachesize
            /\ x \in Pages \ B /\ y \in Pages \ B
        <5>1. R \ {v} \in SUBSET Pages /\ Cardinality(R \ {v}) = Cardinality(R) - 1
          BY <3>4, PagesRemove
        <5>2. Cardinality(B) = Cardinality(R \ {v}) + 1
          BY <1>1, <1>6, <5>1, PagesAdd
        <5>. QED  BY <1>1, <1>6, <2>1, <3>4, <5>1, <5>2
      <4>2. B \union {x} = (X \ {v}) \union {a} /\ B \union {y} = (Y \ {v}) \union {a}
        BY <3>4
      <4>3. Fewest(j, X) <= 1 + Fewest(j + 1, (X \ {v}) \union {a})
        BY <3>2, <3>4
      <4>. HIDE DEF B
      <4>4. Fewest(j + 1, B \union {x}) <= Fewest(j + 1, B \union {y})
        BY <2>1, <4>1 DEF SoonerIsBetter
      <4>5. /\ Fewest(j + 1, B \union {x}) \in Nat /\ Fewest(j + 1, B \union {y}) \in Nat
            /\ Fewest(j, X) \in Nat
        BY <1>1, <1>2, <4>1
      <4>6. Fewest(j, X) <= 1 + Fewest(j + 1, B \union {x})
        BY <4>2, <4>3
      <4>7. Fewest(j, Y) = 1 + Fewest(j + 1, B \union {y})
        BY <3>1, <4>2
      <4>. HIDE DEF X, Y
      <4>8. Fewest(j, X) <= Fewest(j, Y)
        BY <4>4, <4>5, <4>6, <4>7
      <4>. QED  BY <4>8 DEF X, Y
    <3>. QED  BY <3>3, <3>4
  <2>. QED  BY <1>1, <2>2, <2>3
<1>. QED  BY <1>3, <1>4, <1>5, <1>6

LEMMA AlwaysBetter ==
  ASSUME Traces, NEW i \in 1 .. NumAddrs + 1
  PROVE  SoonerIsBetter(i)
<1>. DEFINE Good(k) == MoreIsBetter(k) /\ OneMissFewer(k) /\ SoonerIsBetter(k)
            D == {j \in 0 .. NumAddrs : ~Good(NumAddrs + 1 - j)}
<1>0. NumAddrs \in Nat /\ D \in SUBSET Nat
  BY PagingAssumption
<1>1. SUFFICES ASSUME D # {} PROVE FALSE
  <2>1. ~Good(i) => NumAddrs + 1 - i \in D
    <3>1. NumAddrs + 1 - i \in 0 .. NumAddrs /\ i = NumAddrs + 1 - (NumAddrs + 1 - i)
      BY <1>0
    <3>. HIDE DEF Good
    <3>. QED  BY <3>1
  <2>. HIDE DEF D
  <2>. QED  BY <2>1, <1>1
<1>2. PICK j \in D : \A m \in D : j <= m
  <2>. HIDE DEF D
  <2>. QED  BY <1>0, <1>1, Smallest
<1> DEFINE k == NumAddrs + 1 - j
<1>3. j \in 0 .. NumAddrs /\ ~Good(k) /\ k \in 1 .. NumAddrs + 1
  <2>. HIDE DEF Good
  <2>. QED  BY <1>0, <1>2
<1>4. CASE j = 0
  <2>1. k > NumAddrs
    BY <1>0, <1>4
  <2>. HIDE DEF k
  <2>2. \A S \in SUBSET Pages : Fewest(k, S) = 0
    BY <1>3, <2>1, FewestOf
  <2>3. MoreIsBetter(k) /\ OneMissFewer(k) /\ SoonerIsBetter(k)
    BY <2>2 DEF MoreIsBetter, OneMissFewer, SoonerIsBetter
  <2>. QED  BY <1>3, <2>3
<1>5. CASE j # 0
  <2>1. /\ j - 1 \in 0 .. NumAddrs /\ ~(j <= j - 1) /\ k \in 1 .. NumAddrs
        /\ NumAddrs + 1 - (j - 1) = k + 1
    BY <1>0, <1>3, <1>5
  <2>. HIDE DEF Good, k
  <2>2. Good(k + 1)
    BY <1>2, <2>1
  <2>. USE DEF Good
  <2>3. MoreIsBetter(k) /\ OneMissFewer(k) /\ SoonerIsBetter(k)
    BY <2>1, <2>2, MoreStep, FewerStep, SoonerStep
  <2>. QED  BY <1>3, <2>3
<1>. QED  BY <1>4, <1>5

-----------------------------------------------------------------------------
(* A list without its entry i: the entries before stay, those behind move up. *)
LEMMA RemoveAtIs ==
  ASSUME NEW S, NEW s \in Seq(S), NEW i \in 1 .. Len(s)
  PROVE  /\ RemoveAt(s, i) \in Seq(S)
         /\ Len(RemoveAt(s, i)) = Len(s) - 1
         /\ \A j \in 1 .. Len(s) - 1 : RemoveAt(s, i)[j] = s[IF j < i THEN j ELSE j + 1]
<1> DEFINE before == SubSeq(s, 1, i - 1)
           behind == SubSeq(s, i + 1, Len(s))
<1>1. Len(s) \in Nat
  OBVIOUS
<1>2. /\ before \in Seq(S) /\ Len(before) = i - 1
      /\ \A j \in 1 .. i - 1 : before[j] = s[j]
  BY <1>1, SubSeqProperties, ElementOfSeq
<1>3. /\ behind \in Seq(S) /\ Len(behind) = Len(s) - i
      /\ \A j \in 1 .. Len(s) - i : behind[j] = s[i + j]
  <2>1. \A j \in i + 1 .. Len(s) : s[j] \in S
    BY ElementOfSeq
  <2>2. /\ behind \in Seq(S)
        /\ Len(behind) = IF i + 1 <= Len(s) THEN Len(s) - (i + 1) + 1 ELSE 0
        /\ \A j \in 1 .. Len(s) - (i + 1) + 1 : behind[j] = s[i + 1 + j - 1]
    BY <1>1, <2>1, SubSeqProperties
  <2>3. QED
    BY <1>1, <2>2
<1> HIDE DEF before, behind
<1>4. /\ before \o behind \in Seq(S)
      /\ Len(before \o behind) = Len(before) + Len(behind)
      /\ \A j \in 1 .. Len(before) + Len(behind) :
           (before \o behind)[j] = IF j <= Len(before) THEN before[j] ELSE behind[j - Len(before)]
  BY <1>2, <1>3, ConcatProperties
<1>5. RemoveAt(s, i) = before \o behind
  BY DEF RemoveAt, before, behind
<1>6. ASSUME NEW j \in 1 .. Len(s) - 1
      PROVE  RemoveAt(s, i)[j] = s[IF j < i THEN j ELSE j + 1]
  <2>1. CASE j < i
    BY <2>1, <1>1, <1>2, <1>3, <1>4, <1>5
  <2>2. CASE ~(j < i)
    <3>1. /\ (before \o behind)[j] = behind[j - (i - 1)] /\ j - (i - 1) \in 1 .. Len(s) - i
          /\ i + (j - (i - 1)) = j + 1
      BY <2>2, <1>1, <1>2, <1>3, <1>4
    <3>2. behind[j - (i - 1)] = s[i + (j - (i - 1))]
      BY <3>1, <1>3
    <3>3. QED
      BY <2>2, <3>1, <3>2, <1>5
  <2>3. QED
    BY <2>1, <2>2
<1>7. RemoveAt(s, i) \in Seq(S)
  BY <1>4, <1>5
<1>8. Len(RemoveAt(s, i)) = Len(s) - 1
  <2>1. Len(before \o behind) = (i - 1) + (Len(s) - i)
    BY <1>2, <1>3, <1>4
  <2>2. QED
    BY <2>1, <1>1, <1>5
<1>9. QED
  BY <1>6, <1>7, <1>8

(* A cache holds each page once.                                           *)
Caches == {s \in Seq(Pages) : \A i, j \in 1 .. Len(s) : s[i] = s[j] => i = j}

LEMMA CacheIs ==
  ASSUME NEW s \in Caches
  PROVE  /\ s \in Seq(Pages) /\ Len(s) \in Nat /\ DOMAIN s = 1 .. Len(s)
         /\ ToSet(s) \in SUBSET Pages
         /\ \A i \in 1 .. Len(s) : s[i] \in Pages /\ s[i] \in ToSet(s)
         /\ \A q : q \in ToSet(s) <=> \E i \in 1 .. Len(s) : s[i] = q
         /\ \A q : Contains(s, q) <=> q \in ToSet(s)
         /\ IsInjective(s)
         /\ Cardinality(ToSet(s)) = Len(s)
<1>1. s \in Seq(Pages) /\ Len(s) \in Nat /\ DOMAIN s = 1 .. Len(s) /\ s \in [1 .. Len(s) -> Pages]
  BY LenProperties DEF Caches
<1>2. \A q : q \in ToSet(s) <=> \E i \in 1 .. Len(s) : s[i] = q
  BY <1>1 DEF ToSet
<1>3. \A i \in 1 .. Len(s) : s[i] \in Pages
  BY <1>1
<1>4. \A q : Contains(s, q) <=> q \in ToSet(s)
  BY <1>2 DEF Contains
<1>5. IsInjective(s)
  BY <1>1 DEF IsInjective, Caches
<1>6. Cardinality(ToSet(s)) = Len(s)
  <2>1. s \in [1 .. Len(s) -> ToSet(s)]
    BY <1>1, <1>2
  <2>2. s \in Bijection(1 .. Len(s), ToSet(s))
    BY <1>2, <1>5, <2>1 DEF Bijection, Injection, Surjection
  <2>3. ExistsBijection(1 .. Len(s), ToSet(s))
    BY <2>2 DEF ExistsBijection
  <2>4. IsFiniteSet(1 .. Len(s)) /\ Cardinality(1 .. Len(s)) = Len(s)
    BY <1>1, FS_Interval
  <2>. QED  BY <2>3, <2>4, FS_Bijection
<1>. QED  BY <1>1, <1>2, <1>3, <1>4, <1>5, <1>6

LEMMA CacheWithout ==
  ASSUME NEW s \in Caches, NEW i \in 1 .. Len(s)
  PROVE  /\ RemoveAt(s, i) \in Caches
         /\ ToSet(RemoveAt(s, i)) = ToSet(s) \ {s[i]}
         /\ Len(RemoveAt(s, i)) = Len(s) - 1
         /\ \A j \in 1 .. Len(s) - 1 : RemoveAt(s, i)[j] = s[IF j < i THEN j ELSE j + 1]
<1> DEFINE t == RemoveAt(s, i)
<1>1. s \in Seq(Pages) /\ Len(s) \in Nat
  BY CacheIs
<1>2. /\ t \in Seq(Pages) /\ Len(t) = Len(s) - 1
      /\ \A j \in 1 .. Len(s) - 1 : t[j] = s[IF j < i THEN j ELSE j + 1]
  BY <1>1, RemoveAtIs
<1>. HIDE DEF t
<1>3. t \in Caches
  <2>1. ASSUME NEW j \in 1 .. Len(t), NEW k \in 1 .. Len(t), t[j] = t[k]
        PROVE  j = k
    <3> DEFINE m == IF j < i THEN j ELSE j + 1
               n == IF k < i THEN k ELSE k + 1
    <3>1. m \in 1 .. Len(s) /\ n \in 1 .. Len(s) /\ t[j] = s[m] /\ t[k] = s[n]
      BY <1>1, <1>2
    <3>. HIDE DEF m, n
    <3>2. m = n
      BY <2>1, <3>1 DEF Caches
    <3>. QED  BY <1>1, <1>2, <3>2 DEF m, n
  <2>. QED  BY <1>2, <2>1 DEF Caches
<1>4. ToSet(t) = ToSet(s) \ {s[i]}
  <2>1. ASSUME NEW q \in ToSet(t) PROVE q \in ToSet(s) \ {s[i]}
    <3>1. PICK j \in 1 .. Len(t) : t[j] = q
      BY <1>3, <2>1, CacheIs
    <3> DEFINE m == IF j < i THEN j ELSE j + 1
    <3>2. m \in 1 .. Len(s) /\ t[j] = s[m] /\ m # i
      BY <1>1, <1>2, <3>1
    <3>. HIDE DEF m
    <3>3. s[m] # s[i]
      BY <3>2 DEF Caches
    <3>. QED  BY <3>1, <3>2, <3>3, CacheIs
  <2>2. ASSUME NEW q \in ToSet(s), q # s[i] PROVE q \in ToSet(t)
    <3>1. PICK m \in 1 .. Len(s) : s[m] = q
      BY CacheIs
    <3>2. CASE m < i
      <4>1. m \in 1 .. Len(t) /\ t[m] = q
        BY <1>1, <1>2, <3>1, <3>2
      <4>. QED  BY <1>3, <4>1, CacheIs
    <3>3. CASE m > i
      <4>1. m - 1 \in 1 .. Len(t) /\ ~(m - 1 < i) /\ m - 1 + 1 = m
        BY <1>1, <1>2, <3>3
      <4>2. t[m - 1] = q
        BY <1>2, <3>1, <4>1
      <4>. QED  BY <1>3, <4>1, <4>2, CacheIs
    <3>. QED  BY <2>2, <3>1, <3>2, <3>3
  <2>. QED  BY <2>1, <2>2
<1>. QED  BY <1>2, <1>3, <1>4 DEF t

LEMMA CacheWith ==
  ASSUME NEW s \in Caches, NEW n \in Pages, n \notin ToSet(s)
  PROVE  /\ Append(s, n) \in Caches
         /\ ToSet(Append(s, n)) = ToSet(s) \union {n}
         /\ Len(Append(s, n)) = Len(s) + 1
         /\ \A i \in 1 .. Len(s) : Append(s, n)[i] = s[i]
         /\ Append(s, n)[Len(s) + 1] = n
<1> DEFINE t == Append(s, n)
<1>1. s \in Seq(Pages) /\ Len(s) \in Nat
  BY CacheIs
<1>2. /\ t \in Seq(Pages) /\ Len(t) = Len(s) + 1
      /\ \A i \in 1 .. Len(s) : t[i] = s[i]
      /\ t[Len(s) + 1] = n
  BY <1>1, AppendProperties
<1>. HIDE DEF t
<1>3. \A i \in 1 .. Len(t) : i \in 1 .. Len(s) \/ i = Len(s) + 1
  BY <1>1, <1>2
<1>4. ASSUME NEW i \in 1 .. Len(t), NEW j \in 1 .. Len(t), t[i] = t[j]
      PROVE  i = j
  <2>1. CASE i \in 1 .. Len(s) /\ j \in 1 .. Len(s)
    BY <1>2, <1>4, <2>1 DEF Caches
  <2>2. CASE i = Len(s) + 1 /\ j \in 1 .. Len(s)
    BY <1>2, <1>4, <2>2, CacheIs
  <2>3. CASE i \in 1 .. Len(s) /\ j = Len(s) + 1
    BY <1>2, <1>4, <2>3, CacheIs
  <2>. QED  BY <1>3, <2>1, <2>2, <2>3
<1>5. t \in Caches
  BY <1>2, <1>4 DEF Caches
<1>6. ToSet(t) = ToSet(s) \union {n}
  <2>1. ASSUME NEW q \in ToSet(t) PROVE q \in ToSet(s) \union {n}
    BY <1>2, <1>3, <1>5, <2>1, CacheIs
  <2>2. ASSUME NEW q \in ToSet(s) PROVE q \in ToSet(t)
    <3>1. PICK i \in 1 .. Len(s) : s[i] = q
      BY CacheIs
    <3>2. i \in 1 .. Len(t) /\ t[i] = q
      BY <1>1, <1>2, <3>1
    <3>. QED  BY <1>5, <3>2, CacheIs
  <2>3. n \in ToSet(t)
    <3>1. Len(s) + 1 \in 1 .. Len(t)
      BY <1>1, <1>2
    <3>. QED  BY <1>2, <1>5, <3>1, CacheIs
  <2>. QED  BY <2>1, <2>2, <2>3
<1>. QED  BY <1>2, <1>5, <1>6 DEF t

-----------------------------------------------------------------------------
(* The recency of the pages: l is the access list, k accesses are done.    *)
UseIn(l, k, q) == Max({0} \union {i \in 1 .. k : l[i] = q})
UsedIn(l, k) == {q \in Pages : UseIn(l, k, q) > 0}
Ordered(l, k, s) == \A i, j \in 1 .. Len(s) : i < j => UseIn(l, k, s[i]) < UseIn(l, k, s[j])
Recency(l, k, c, s) ==
    /\ Len(s) = Min({c, Cardinality(UsedIn(l, k))})
    /\ ToSet(s) \subseteq UsedIn(l, k)
    /\ Ordered(l, k, s)
    /\ \A p \in UsedIn(l, k) \ ToSet(s) : \A q \in ToSet(s) : UseIn(l, k, p) < UseIn(l, k, q)

LEMMA MaxUpTo ==
  ASSUME NEW k \in Nat, NEW D \in SUBSET (0 .. k), D # {}
  PROVE  Max(D) \in D /\ \A x \in D : x <= Max(D)
<1> DEFINE C == {k - x : x \in D}
<1>1. C \in SUBSET Nat /\ C # {}
  <2>1. ASSUME NEW x \in D PROVE k - x \in Nat /\ k - x \in C
    OBVIOUS
  <2>2. C \in SUBSET Nat
    BY <2>1
  <2>3. PICK x \in D : TRUE
    OBVIOUS
  <2>. HIDE DEF C
  <2>. QED  BY <2>1, <2>2, <2>3
<1>. HIDE DEF C
<1>2. PICK m \in C : \A y \in C : m <= y
  BY <1>1, Smallest
<1>3. PICK x \in D : m = k - x
  BY <1>2 DEF C
<1>4. ASSUME NEW y \in D PROVE x >= y
  <2>1. k - y \in C
    BY DEF C
  <2>2. k - x <= k - y
    BY <1>2, <1>3, <2>1
  <2>. QED  BY <2>2
<1>5. \E z \in D : \A y \in D : z >= y
  BY <1>4
<1>6. Max(D) \in D /\ \A y \in D : Max(D) >= y
  BY <1>5 DEF Max
<1>. QED  BY <1>6

LEMMA Min2 ==
  ASSUME NEW a \in Nat, NEW b \in Nat
  PROVE  Min({a, b}) = IF a <= b THEN a ELSE b
<1>1. Min({a, b}) \in {a, b} /\ \A x \in {a, b} : Min({a, b}) <= x
  BY MinNat
<1>. QED  BY <1>1

LEMMA UseNext ==
  ASSUME NEW l \in [1 .. NumAddrs -> Pages], NEW k \in 0 .. NumAddrs, k < NumAddrs, NEW q
  PROVE  /\ UseIn(l, k, q) \in 0 .. k
         /\ UseIn(l, k + 1, q) = IF l[k + 1] = q THEN k + 1 ELSE UseIn(l, k, q)
<1> DEFINE D == {0} \union {i \in 1 .. k : l[i] = q}
           E == {0} \union {i \in 1 .. k + 1 : l[i] = q}
<1>0. k \in Nat /\ k + 1 \in Nat
  BY PagingAssumption
<1>1. D \in SUBSET (0 .. k) /\ D # {} /\ E \in SUBSET (0 .. k + 1) /\ E # {}
  BY <1>0
<1>2. UseIn(l, k, q) = Max(D) /\ UseIn(l, k + 1, q) = Max(E)
  BY DEF UseIn
<1>3. E = IF l[k + 1] = q THEN D \union {k + 1} ELSE D
  <2>1. 1 .. k + 1 = (1 .. k) \union {k + 1}
    BY <1>0
  <2>. QED  BY <2>1
<1>. HIDE DEF D, E
<1>4. Max(D) \in D /\ Max(E) \in E /\ \A x \in E : x <= Max(E)
  BY <1>0, <1>1, MaxUpTo
<1>5. CASE l[k + 1] = q
  <2>1. k + 1 \in E
    BY <1>3, <1>5
  <2>2. k + 1 <= Max(E) /\ Max(E) \in 0 .. k + 1
    BY <1>1, <1>4, <2>1
  <2>3. Max(E) = k + 1
    BY <1>0, <2>2
  <2>4. Max(D) \in 0 .. k
    BY <1>1, <1>4
  <2>. QED  BY <1>2, <1>5, <2>3, <2>4
<1>6. CASE l[k + 1] # q
  BY <1>1, <1>2, <1>3, <1>4, <1>6
<1>. QED  BY <1>5, <1>6

LEMMA UsedNext ==
  ASSUME NEW l \in [1 .. NumAddrs -> Pages], NEW k \in 0 .. NumAddrs, k < NumAddrs
  PROVE  /\ l[k + 1] \in Pages
         /\ UsedIn(l, k + 1) = UsedIn(l, k) \union {l[k + 1]}
         /\ UsedIn(l, k) \in SUBSET Pages
         /\ \A q \in Pages : UseIn(l, k, q) \in Nat /\ UseIn(l, k, q) < k + 1
<1>1. l[k + 1] \in Pages /\ k \in Nat
  BY PagingAssumption
<1>2. ASSUME NEW q \in Pages
      PROVE  /\ UseIn(l, k, q) \in Nat /\ UseIn(l, k, q) < k + 1
             /\ UseIn(l, k + 1, q) > 0 <=> (UseIn(l, k, q) > 0 \/ q = l[k + 1])
  <2>1. UseIn(l, k, q) \in 0 .. k
    BY UseNext
  <2>2. UseIn(l, k + 1, q) = IF l[k + 1] = q THEN k + 1 ELSE UseIn(l, k, q)
    BY UseNext
  <2>. QED  BY <1>1, <2>1, <2>2
<1>3. UsedIn(l, k + 1) = UsedIn(l, k) \union {l[k + 1]}
  BY <1>1, <1>2 DEF UsedIn
<1>. QED  BY <1>1, <1>2, <1>3 DEF UsedIn

\* The accessed page goes to the MRU side of a cache t that is in order without it.
LEMMA OrderedAppend ==
  ASSUME NEW l \in [1 .. NumAddrs -> Pages], NEW k \in 0 .. NumAddrs, k < NumAddrs,
         NEW t \in Caches, Ordered(l, k, t), l[k + 1] \notin ToSet(t)
  PROVE  Ordered(l, k + 1, Append(t, l[k + 1]))
<1> DEFINE n == l[k + 1]
           u == Append(t, n)
<1>1. n \in Pages /\ \A q \in Pages : UseIn(l, k, q) \in Nat /\ UseIn(l, k, q) < k + 1
  BY UsedNext
<1>2. \A q : UseIn(l, k + 1, q) = IF n = q THEN k + 1 ELSE UseIn(l, k, q)
  BY UseNext
<1>. HIDE DEF n
<1>3. /\ Len(u) = Len(t) + 1 /\ Len(t) \in Nat
      /\ \A i \in 1 .. Len(t) : u[i] = t[i] /\ t[i] \in Pages /\ t[i] # n
      /\ u[Len(t) + 1] = n
  <2>1. n \notin ToSet(t)
    BY DEF n
  <2>2. /\ Len(t) \in Nat
        /\ \A i \in 1 .. Len(t) : t[i] \in Pages /\ t[i] \in ToSet(t)
    BY CacheIs
  <2>. HIDE DEF n
  <2>3. /\ Len(u) = Len(t) + 1 /\ u[Len(t) + 1] = n
        /\ \A i \in 1 .. Len(t) : u[i] = t[i]
    BY <1>1, <2>1, CacheWith
  <2>. QED  BY <2>1, <2>2, <2>3
<1>. HIDE DEF u
<1>4. ASSUME NEW i \in 1 .. Len(u), NEW j \in 1 .. Len(u), i < j
      PROVE  UseIn(l, k + 1, u[i]) < UseIn(l, k + 1, u[j])
  <2>1. i \in 1 .. Len(t)
    BY <1>3, <1>4
  <2>2. UseIn(l, k + 1, u[i]) = UseIn(l, k, t[i]) /\ UseIn(l, k, t[i]) < k + 1
    BY <1>1, <1>2, <1>3, <2>1
  <2>3. CASE j = Len(u)
    BY <1>2, <1>3, <2>2, <2>3
  <2>4. CASE j # Len(u)
    <3>1. j \in 1 .. Len(t)
      BY <1>3, <2>4
    <3>2. UseIn(l, k + 1, u[j]) = UseIn(l, k, t[j])
      BY <1>2, <1>3, <3>1
    <3>. QED  BY <1>4, <2>1, <2>2, <3>1, <3>2 DEF Ordered
  <2>. QED  BY <2>3, <2>4
<1>5. Ordered(l, k + 1, u)
  BY <1>4 DEF Ordered
<1>. QED  BY <1>5 DEF u, n

LEMMA OrderedWithout ==
  ASSUME NEW l, NEW k, NEW s \in Caches, NEW m \in 1 .. Len(s), Ordered(l, k, s)
  PROVE  Ordered(l, k, RemoveAt(s, m))
<1> DEFINE t == RemoveAt(s, m)
<1>1. /\ Len(t) = Len(s) - 1 /\ Len(s) \in Nat
      /\ \A j \in 1 .. Len(s) - 1 : t[j] = s[IF j < m THEN j ELSE j + 1]
  BY CacheIs, CacheWithout
<1>. HIDE DEF t
<1>2. ASSUME NEW i \in 1 .. Len(t), NEW j \in 1 .. Len(t), i < j
      PROVE  UseIn(l, k, t[i]) < UseIn(l, k, t[j])
  <2> DEFINE a == IF i < m THEN i ELSE i + 1
             b == IF j < m THEN j ELSE j + 1
  <2>1. a \in 1 .. Len(s) /\ b \in 1 .. Len(s) /\ a < b /\ t[i] = s[a] /\ t[j] = s[b]
    BY <1>1, <1>2
  <2>. HIDE DEF a, b
  <2>. QED  BY <2>1 DEF Ordered
<1>3. Ordered(l, k, t)
  BY <1>2 DEF Ordered
<1>. QED  BY <1>3 DEF t

LEMMA RecencyHit ==
  ASSUME NEW l \in [1 .. NumAddrs -> Pages], NEW k \in 0 .. NumAddrs, k < NumAddrs,
         NEW c \in Nat, NEW s \in Caches, Recency(l, k, c, s),
         NEW m \in 1 .. Len(s), s[m] = l[k + 1]
  PROVE  Recency(l, k + 1, c, Append(RemoveAt(s, m), l[k + 1]))
<1> DEFINE n == l[k + 1]
           t == RemoveAt(s, m)
           u == Append(t, n)
<1>1. /\ t \in Caches /\ ToSet(t) = ToSet(s) \ {n} /\ Len(t) = Len(s) - 1
      /\ n \in ToSet(s) /\ n \in Pages /\ Len(s) \in Nat /\ ToSet(s) \in SUBSET Pages
  <2>1. t \in Caches /\ ToSet(t) = ToSet(s) \ {s[m]} /\ Len(t) = Len(s) - 1
    BY CacheWithout
  <2>2. s[m] \in ToSet(s) /\ s[m] \in Pages /\ Len(s) \in Nat /\ ToSet(s) \in SUBSET Pages
    BY CacheIs
  <2>. QED  BY <2>1, <2>2
<1>2. Ordered(l, k, t)
  BY OrderedWithout DEF Recency
<1>3. Ordered(l, k + 1, u)
  <2>1. n \notin ToSet(t)
    BY <1>1
  <2>. HIDE DEF t
  <2>. QED  BY <1>1, <1>2, <2>1, OrderedAppend
<1>4. Len(u) = Len(s) /\ ToSet(u) = ToSet(s)
  <2>1. n \notin ToSet(t)
    BY <1>1
  <2>. HIDE DEF t, n
  <2>2. Len(u) = Len(t) + 1 /\ ToSet(u) = ToSet(t) \union {n}
    BY <1>1, <2>1, CacheWith
  <2>. HIDE DEF u
  <2>. QED  BY <1>1, <2>2
<1>5. UsedIn(l, k + 1) = UsedIn(l, k)
  <2>1. UsedIn(l, k + 1) = UsedIn(l, k) \union {n}
    BY UsedNext
  <2>2. ToSet(s) \subseteq UsedIn(l, k)
    BY DEF Recency
  <2>. QED  BY <1>1, <2>1, <2>2
<1>6. ASSUME NEW p \in UsedIn(l, k + 1) \ ToSet(u), NEW q \in ToSet(u)
      PROVE  UseIn(l, k + 1, p) < UseIn(l, k + 1, q)
  <2>1. p \in UsedIn(l, k) \ ToSet(s) /\ q \in ToSet(s) /\ p # n /\ p \in Pages /\ q \in Pages
    BY <1>1, <1>4, <1>5, UsedNext
  <2>2. UseIn(l, k + 1, p) = UseIn(l, k, p) /\ UseIn(l, k, p) < k + 1
    BY <2>1, UseNext, UsedNext
  <2>3. UseIn(l, k, p) < UseIn(l, k, q)
    BY <2>1 DEF Recency
  <2>4. UseIn(l, k + 1, q) = IF n = q THEN k + 1 ELSE UseIn(l, k, q)
    BY UseNext
  <2>. QED  BY <2>2, <2>3, <2>4
<1>. HIDE DEF u
<1>7. Len(u) = Min({c, Cardinality(UsedIn(l, k + 1))}) /\ ToSet(u) \subseteq UsedIn(l, k + 1)
  BY <1>4, <1>5 DEF Recency
<1>8. Recency(l, k + 1, c, u)
  BY <1>3, <1>6, <1>7 DEF Recency
<1>. QED  BY <1>8 DEF u

LEMMA RecencyRoom ==
  ASSUME NEW l \in [1 .. NumAddrs -> Pages], NEW k \in 0 .. NumAddrs, k < NumAddrs,
         NEW c \in Nat, NEW s \in Caches, Recency(l, k, c, s),
         l[k + 1] \notin ToSet(s), Len(s) < c
  PROVE  Recency(l, k + 1, c, Append(s, l[k + 1]))
<1> DEFINE n == l[k + 1]
           u == Append(s, n)
           U == UsedIn(l, k)
<1>1. /\ n \in Pages /\ Len(s) \in Nat /\ Cardinality(ToSet(s)) = Len(s)
      /\ U \in SUBSET Pages /\ UsedIn(l, k + 1) = U \union {n}
      /\ IsFiniteSet(U) /\ Cardinality(U) \in Nat
  BY CacheIs, UsedNext, PagesFinite
<1>2. ToSet(s) \in SUBSET U /\ Len(s) = Min({c, Cardinality(U)}) /\ Ordered(l, k, s)
  BY DEF Recency
<1>. HIDE DEF U
<1>3. Len(s) = Cardinality(U)
  BY <1>1, <1>2, Min2
<1>4. ToSet(s) = U
  BY <1>1, <1>2, <1>3, FS_Subset
<1>5. Ordered(l, k + 1, u)
  BY <1>2, OrderedAppend
<1>6. Len(u) = Len(s) + 1 /\ ToSet(u) = U \union {n}
  BY <1>1, <1>4, CacheWith
<1>7. Cardinality(U \union {n}) = Len(s) + 1
  BY <1>1, <1>3, <1>4, PagesAdd
<1>8. Len(u) = Min({c, Cardinality(UsedIn(l, k + 1))})
  <2>1. Min({c, Len(s) + 1}) = IF c <= Len(s) + 1 THEN c ELSE Len(s) + 1
    BY <1>1, Min2
  <2>2. Min({c, Len(s) + 1}) = Len(s) + 1
    BY <1>1, <2>1
  <2>. QED  BY <1>1, <1>6, <1>7, <2>2
<1>. HIDE DEF u
<1>9. Recency(l, k + 1, c, u)
  BY <1>1, <1>5, <1>6, <1>8 DEF Recency
<1>. QED  BY <1>9 DEF u

LEMMA RecencyReplace ==
  ASSUME NEW l \in [1 .. NumAddrs -> Pages], NEW k \in 0 .. NumAddrs, k < NumAddrs,
         NEW c \in Nat \ {0}, NEW s \in Caches, Recency(l, k, c, s),
         l[k + 1] \notin ToSet(s), Len(s) = c
  PROVE  Recency(l, k + 1, c, Append(RemoveAt(s, 1), l[k + 1]))
<1> DEFINE n == l[k + 1]
           t == RemoveAt(s, 1)
           u == Append(t, n)
           U == UsedIn(l, k)
<1>1. /\ n \in Pages /\ Len(s) \in Nat /\ Cardinality(ToSet(s)) = Len(s) /\ 1 \in 1 .. Len(s)
      /\ U \in SUBSET Pages /\ UsedIn(l, k + 1) = U \union {n}
      /\ IsFiniteSet(U) /\ Cardinality(U) \in Nat
  <2>1. n \in Pages /\ U \in SUBSET Pages /\ UsedIn(l, k + 1) = U \union {n}
    BY UsedNext
  <2>2. Len(s) \in Nat /\ Cardinality(ToSet(s)) = Len(s)
    BY CacheIs
  <2>3. 1 \in 1 .. Len(s)
    BY <2>2
  <2>. QED  BY <2>1, <2>2, <2>3, PagesFinite
<1>2. ToSet(s) \in SUBSET U /\ Len(s) = Min({c, Cardinality(U)}) /\ Ordered(l, k, s)
  BY DEF Recency
<1>3. /\ t \in Caches /\ ToSet(t) = ToSet(s) \ {s[1]} /\ Len(t) = Len(s) - 1
      /\ n \notin ToSet(t) /\ Ordered(l, k, t)
  BY <1>1, <1>2, CacheWithout, OrderedWithout
<1>. HIDE DEF U, t
<1>4. Ordered(l, k + 1, u)
  BY <1>3, OrderedAppend
<1>5. Len(u) = Len(s) /\ ToSet(u) = (ToSet(s) \ {s[1]}) \union {n}
  <2>1. Len(u) = Len(t) + 1 /\ ToSet(u) = ToSet(t) \union {n}
    BY <1>1, <1>3, CacheWith
  <2>. HIDE DEF u
  <2>. QED  BY <1>1, <1>3, <2>1
<1>6. Cardinality(U) >= c
  <2>1. Min({c, Cardinality(U)}) = IF c <= Cardinality(U) THEN c ELSE Cardinality(U)
    BY <1>1, Min2
  <2>. QED  BY <1>1, <1>2, <2>1
<1>7. Cardinality(U \union {n}) \in Nat /\ Cardinality(U \union {n}) >= c
  <2>1. Cardinality(U \union {n}) \in {Cardinality(U), Cardinality(U) + 1}
    BY <1>1, FS_AddElement
  <2>. QED  BY <1>1, <1>6, <2>1
<1>8. Len(u) = Min({c, Cardinality(UsedIn(l, k + 1))})
  BY <1>1, <1>5, <1>7, Min2
<1>9. ASSUME NEW p \in UsedIn(l, k + 1) \ ToSet(u), NEW q \in ToSet(u)
      PROVE  UseIn(l, k + 1, p) < UseIn(l, k + 1, q)
  <2>1. p \in U /\ p # n /\ p \in Pages /\ (p \notin ToSet(s) \/ p = s[1])
    BY <1>1, <1>5
  <2>2. UseIn(l, k + 1, p) = UseIn(l, k, p) /\ UseIn(l, k, p) < k + 1
    BY <2>1, UseNext, UsedNext
  <2>3. UseIn(l, k + 1, q) = IF n = q THEN k + 1 ELSE UseIn(l, k, q)
    BY UseNext
  <2>4. CASE q = n
    BY <2>2, <2>3, <2>4
  <2>5. CASE q # n
    <3>1. q \in ToSet(s) /\ q # s[1]
      BY <1>5, <2>5
    <3>2. CASE p \notin ToSet(s)
      <4>1. UseIn(l, k, p) < UseIn(l, k, q)
        BY <2>1, <3>1, <3>2 DEF Recency, U
      <4>. QED  BY <2>2, <2>3, <2>5, <4>1
    <3>3. CASE p = s[1]
      <4>1. PICK j \in 1 .. Len(s) : s[j] = q
        BY <3>1, CacheIs
      <4>2. 1 < j
        BY <1>1, <3>1, <4>1
      <4>3. UseIn(l, k, s[1]) < UseIn(l, k, s[j])
        BY <1>1, <1>2, <4>2 DEF Ordered
      <4>. QED  BY <2>2, <2>3, <2>5, <3>3, <4>1, <4>3
    <3>. QED  BY <2>1, <3>2, <3>3
  <2>. QED  BY <2>4, <2>5
<1>10. ToSet(u) \subseteq UsedIn(l, k + 1)
  BY <1>1, <1>2, <1>5
<1>. HIDE DEF u
<1>11. Recency(l, k + 1, c, u)
  BY <1>4, <1>8, <1>9, <1>10 DEF Recency
<1>. QED  BY <1>11 DEF u, t

-----------------------------------------------------------------------------
(* The cache of paging-policy.py.                                          *)
PageTypeOK ==
    /\ pagePolicy \in PagePolicies
    /\ cachesize \in Nat \ {0} /\ clockbits \in Nat \ {0}
    /\ addrList \in [1 .. NumAddrs -> Pages]
    /\ addrIndex \in 0 .. NumAddrs
    /\ hits \in Int /\ miss \in Int /\ hits + miss = addrIndex
    /\ memory \in Caches /\ Len(memory) <= cachesize

CountsOf(r, M) == DOMAIN r = M /\ \A page \in M : r[page] \in 0 .. clockbits
ClockCounts == pagePolicy = "CLOCK" => CountsOf(ref, ToSet(memory))

LruRecency == pagePolicy = "LRU" => Recency(addrList, addrIndex, cachesize, memory)

PageInv == PageTypeOK /\ ClockCounts /\ LruRecency /\ OptOptimal

LEMMA PageInvRight == PageInv => CacheSound /\ OptOptimal /\ LruIsRecency
<1>. SUFFICES ASSUME PageInv PROVE CacheSound /\ OptOptimal /\ LruIsRecency
  OBVIOUS
<1>1. IsInjective(memory) /\ DOMAIN memory = 1 .. Len(memory)
  BY CacheIs DEF PageInv, PageTypeOK
<1>2. CacheSound
  BY <1>1 DEF PageInv, PageTypeOK, ClockCounts, CountsOf, CacheSound
<1>3. \A q : LastUse(q) = UseIn(addrList, addrIndex, q)
  BY DEF LastUse, UseIn
<1>4. UsedPages = UsedIn(addrList, addrIndex)
  BY <1>3 DEF UsedPages, UsedIn
<1>5. LruIsRecency
  BY <1>1, <1>3, <1>4 DEF PageInv, LruRecency, Recency, Ordered, LruIsRecency
<1>. QED  BY <1>2, <1>5 DEF PageInv

LEMMA ReferencedIs ==
  ASSUME NEW r, NEW n, NEW M, clockbits \in Nat \ {0}, CountsOf(r, M)
  PROVE  CountsOf(Referenced(r, n), M \union {n})
<1> DEFINE x == IF n \in DOMAIN r THEN Min({r[n] + 1, clockbits}) ELSE 1
           f == [page \in DOMAIN r \union {n} |-> IF page # n THEN r[page] ELSE x]
<1>1. x \in 0 .. clockbits
  <2>1. CASE n \in DOMAIN r
    <3>1. r[n] + 1 \in Nat
      BY <2>1 DEF CountsOf
    <3>2. Min({r[n] + 1, clockbits}) \in Nat /\ Min({r[n] + 1, clockbits}) <= clockbits
      BY <3>1, MinNat
    <3>. QED  BY <2>1, <3>2
  <2>2. CASE n \notin DOMAIN r
    BY <2>2
  <2>. QED  BY <2>1, <2>2
<1>. HIDE DEF x
<1>3. DOMAIN f = M \union {n} /\ \A q \in M \union {n} : f[q] = IF q = n THEN x ELSE r[q]
  BY DEF CountsOf
<1>. HIDE DEF f
<1>4. CountsOf(f, M \union {n})
  BY <1>1, <1>3 DEF CountsOf
<1>. QED  BY <1>4 DEF Referenced, f, x

\* A hit keeps the pages that are cached.
LEMMA AfterHitIs ==
  ASSUME PageTypeOK, NEW n \in Pages, Contains(memory, n)
  PROVE  \E m \in 1 .. Len(memory) :
            /\ memory[m] = n
            /\ AfterHit(n) = IF pagePolicy \in {"LRU", "MRU"} THEN Append(RemoveAt(memory, m), n)
                             ELSE memory
<1>1. memory \in Caches /\ Len(memory) \in Nat
  BY CacheIs DEF PageTypeOK
<1>2. PICK m \in 1 .. Len(memory) : memory[m] = n
  BY DEF Contains
<1>3. {i \in 1 .. Len(memory) : memory[i] = n} = {m}
  BY <1>1, <1>2 DEF Caches
<1>4. m \in Nat
  BY <1>1
<1>5. Min({m}) = m
  BY <1>4, MinNat
<1>6. SelectInSeq(memory, LAMBDA v : v = n) = m
  BY <1>3, <1>5 DEF SelectInSeq
<1>7. RemoveFirst(memory, n) = RemoveAt(memory, m)
  BY <1>2, <1>6 DEF RemoveFirst
<1>. QED  BY <1>2, <1>7 DEF AfterHit

LEMMA AfterHitCache ==
  ASSUME PageTypeOK, NEW n \in Pages, Contains(memory, n)
  PROVE  /\ AfterHit(n) \in Caches /\ Len(AfterHit(n)) = Len(memory)
         /\ ToSet(AfterHit(n)) = ToSet(memory) /\ n \in ToSet(memory)
<1>1. memory \in Caches /\ Len(memory) \in Nat /\ n \in ToSet(memory)
  BY CacheIs DEF PageTypeOK
<1>2. PICK m \in 1 .. Len(memory) :
         /\ memory[m] = n
         /\ AfterHit(n) = IF pagePolicy \in {"LRU", "MRU"} THEN Append(RemoveAt(memory, m), n)
                          ELSE memory
  BY AfterHitIs
<1>3. CASE pagePolicy \in {"LRU", "MRU"}
  <2> DEFINE t == RemoveAt(memory, m)
  <2>1. t \in Caches /\ ToSet(t) = ToSet(memory) \ {n} /\ Len(t) = Len(memory) - 1
    BY <1>1, <1>2, CacheWithout
  <2>. HIDE DEF t
  <2>2. /\ Append(t, n) \in Caches /\ ToSet(Append(t, n)) = ToSet(t) \union {n}
        /\ Len(Append(t, n)) = Len(t) + 1
    BY <2>1, CacheWith
  <2>3. AfterHit(n) = Append(t, n)
    BY <1>2, <1>3 DEF t
  <2>4. /\ AfterHit(n) \in Caches /\ ToSet(AfterHit(n)) = ToSet(t) \union {n}
        /\ Len(AfterHit(n)) = Len(t) + 1
    BY <2>2, <2>3
  <2>. QED  BY <1>1, <2>1, <2>4
<1>4. CASE pagePolicy \notin {"LRU", "MRU"}
  BY <1>1, <1>2, <1>4
<1>. QED  BY <1>3, <1>4

FewestWith(l, c) ==
    CHOOSE f : f = [p \in Situations |->
        IF p[1] > NumAddrs THEN 0
        ELSE IF l[p[1]] \in p[2] THEN f[<<p[1] + 1, p[2]>>]
        ELSE 1 + Min({f[<<p[1] + 1, T \union {l[p[1]]}>>] :
                        T \in IF Cardinality(p[2]) < c THEN {p[2]} ELSE {p[2] \ {v} : v \in p[2]}})]

FewestRight == FewestMisses = FewestWith(addrList, cachesize)

LEMMA FewestWithIs == FewestRight
BY Zenon DEF FewestRight, FewestMisses, FewestWith, Situations

LEMMA FewestWithNext == FewestRight'
BY FewestWithIs, PTL

\* With the same accesses and the same size of the cache the fewest misses are the same.
LEMMA FewestNext ==
  ASSUME UNCHANGED <<addrList, cachesize>>
  PROVE  FewestMisses' = FewestMisses
BY FewestWithIs, FewestWithNext, Zenon DEF FewestRight

\* The next access is to n; the options of the program stay.
Accessed(n) ==
    /\ addrIndex < NumAddrs /\ n = addrList[addrIndex + 1]
    /\ addrIndex' = addrIndex + 1
    /\ pagePolicy' = pagePolicy /\ cachesize' = cachesize
    /\ clockbits' = clockbits /\ addrList' = addrList

LEMMA AccessedIs ==
  ASSUME PageTypeOK, NEW n, Accessed(n)
  PROVE  /\ n \in Pages /\ addrIndex \in Nat /\ addrIndex + 1 \in 1 .. NumAddrs
         /\ addrIndex + 1 \in 1 .. NumAddrs + 1 /\ addrIndex + 1 <= NumAddrs
         /\ addrIndex + 1 + 1 \in 1 .. NumAddrs + 1 /\ addrIndex' \in 0 .. NumAddrs
         /\ Traces /\ memory \in Caches /\ ToSet(memory) \in SUBSET Pages
<1>1. NumAddrs \in Nat /\ addrIndex \in 0 .. NumAddrs /\ addrIndex < NumAddrs
  BY PagingAssumption DEF PageTypeOK, Accessed
<1>2. addrIndex + 1 \in 1 .. NumAddrs /\ addrIndex' = addrIndex + 1
  BY <1>1 DEF Accessed
<1>3. n \in Pages /\ Traces /\ memory \in Caches
  BY <1>2 DEF PageTypeOK, Accessed, Traces
<1>. QED  BY <1>1, <1>2, <1>3, CacheIs

LEMMA PageTypesStep ==
  ASSUME PageTypeOK, NEW n, Accessed(n), memory' \in Caches, Len(memory') <= cachesize,
         hits' \in Int, miss' \in Int, hits' + miss' = hits + miss + 1
  PROVE  PageTypeOK'
<1>1. /\ pagePolicy' \in PagePolicies /\ cachesize' \in Nat \ {0} /\ clockbits' \in Nat \ {0}
      /\ addrList' \in [1 .. NumAddrs -> Pages]
  BY DEF PageTypeOK, Accessed
<1>2. addrIndex' \in 0 .. NumAddrs
  BY AccessedIs
<1>3. hits' + miss' = addrIndex'
  BY DEF PageTypeOK, Accessed
<1>4. Len(memory') <= cachesize'
  BY DEF Accessed
<1>. QED  BY <1>1, <1>2, <1>3, <1>4 DEF PageTypeOK

LEMMA OptStep ==
  ASSUME OptOptimal, NEW n, Accessed(n),
         pagePolicy = "OPT" => miss' + Fewest(addrIndex + 1 + 1, ToSet(memory'))
                                 = miss + Fewest(addrIndex + 1, ToSet(memory))
  PROVE  OptOptimal'
<1>1. SUFFICES ASSUME pagePolicy' = "OPT"
               PROVE  miss' + FewestMisses'[<<addrIndex' + 1, ToSet(memory')>>]
                        = FewestMisses'[<<1, {}>>]
  BY DEF OptOptimal
<1>2. FewestMisses' = FewestMisses
  BY FewestNext DEF Accessed
<1>3. pagePolicy = "OPT" /\ addrIndex' = addrIndex + 1
  BY <1>1 DEF Accessed
<1>4. miss + Fewest(addrIndex + 1, ToSet(memory)) = Fewest(1, {})
  BY <1>3, Zenon DEF OptOptimal, Fewest
<1>5. miss' + Fewest(addrIndex' + 1, ToSet(memory')) = Fewest(1, {})
  BY <1>3, <1>4, Zenon
<1>. QED  BY <1>2, <1>5, Zenon DEF Fewest

LEMMA ClockStep ==
  ASSUME PageTypeOK, NEW n, Accessed(n), NEW r, NEW M, ref' = Referenced(r, n),
         pagePolicy = "CLOCK" => CountsOf(r, M), ToSet(memory') = M \union {n}
  PROVE  ClockCounts'
<1>1. SUFFICES ASSUME pagePolicy' = "CLOCK" PROVE CountsOf(ref, ToSet(memory))'
  BY DEF ClockCounts
<1>2. CountsOf(Referenced(r, n), M \union {n})
  <2>1. CountsOf(r, M) /\ clockbits \in Nat \ {0}
    BY <1>1 DEF Accessed, PageTypeOK
  <2>. QED  BY <2>1, ReferencedIs
<1>3. clockbits' = clockbits
  BY DEF Accessed
<1>4. /\ DOMAIN ref' = ToSet(memory')
      /\ \A page \in ToSet(memory') : ref'[page] \in 0 .. clockbits
  BY <1>2, Zenon DEF CountsOf
<1>. QED  BY <1>3, <1>4 DEF CountsOf

LEMMA HitStep ==
  ASSUME PageInv, NEW n, Accessed(n), Hit(n)
  PROVE  PageInv'
<1>1. /\ PageTypeOK /\ ClockCounts /\ LruRecency /\ OptOptimal /\ Contains(memory, n)
      /\ hits' = hits + 1 /\ miss' = miss /\ memory' = AfterHit(n) /\ ref' = Referenced(ref, n)
  BY DEF PageInv, Hit
<1>2. /\ n \in Pages /\ addrIndex + 1 \in 1 .. NumAddrs + 1 /\ addrIndex + 1 <= NumAddrs
      /\ Traces /\ ToSet(memory) \in SUBSET Pages
  BY <1>1, AccessedIs
<1>3. /\ memory' \in Caches /\ Len(memory') = Len(memory)
      /\ ToSet(memory') = ToSet(memory) /\ n \in ToSet(memory)
  <2>1. /\ AfterHit(n) \in Caches /\ Len(AfterHit(n)) = Len(memory)
        /\ ToSet(AfterHit(n)) = ToSet(memory) /\ n \in ToSet(memory)
    BY <1>1, <1>2, AfterHitCache
  <2>. QED  BY <1>1, <2>1, Zenon
<1>4. PageTypeOK'
  <2>1. hits \in Int /\ miss \in Int /\ Len(memory) <= cachesize
    BY <1>1 DEF PageTypeOK
  <2>2. hits' \in Int /\ miss' \in Int /\ hits' + miss' = hits + miss + 1 /\ Len(memory') <= cachesize
    BY <1>1, <1>3, <2>1
  <2>. QED  BY <1>1, <1>3, <2>2, PageTypesStep
<1>5. ClockCounts'
  <2>1. pagePolicy = "CLOCK" => CountsOf(ref, ToSet(memory))
    BY <1>1 DEF ClockCounts
  <2>2. ToSet(memory') = ToSet(memory) \union {n}
    BY <1>3
  <2>. QED  BY <1>1, <2>1, <2>2, ClockStep
<1>6. LruRecency'
  <2>1. SUFFICES ASSUME pagePolicy' = "LRU"
                 PROVE  Recency(addrList', addrIndex', cachesize', memory')
    BY DEF LruRecency
  <2>2. PICK m \in 1 .. Len(memory) :
          /\ memory[m] = n
          /\ AfterHit(n) = IF pagePolicy \in {"LRU", "MRU"} THEN Append(RemoveAt(memory, m), n)
                           ELSE memory
    BY <1>1, <1>2, AfterHitIs
  <2>3. memory' = Append(RemoveAt(memory, m), addrList[addrIndex + 1]) /\ n = addrList[addrIndex + 1]
    BY <1>1, <2>1, <2>2 DEF Accessed
  <2>4. Recency(addrList, addrIndex, cachesize, memory)
    BY <1>1, <2>1 DEF LruRecency, Accessed
  <2>5. /\ addrList \in [1 .. NumAddrs -> Pages] /\ addrIndex \in 0 .. NumAddrs
        /\ cachesize \in Nat /\ memory \in Caches /\ addrIndex < NumAddrs
    BY <1>1 DEF PageTypeOK, Accessed
  <2>6. Recency(addrList, addrIndex + 1, cachesize, Append(RemoveAt(memory, m), addrList[addrIndex + 1]))
    BY <2>2, <2>3, <2>4, <2>5, RecencyHit
  <2>. QED  BY <2>3, <2>6, Zenon DEF Accessed
<1>7. OptOptimal'
  <2>1. Fewest(addrIndex + 1, ToSet(memory)) = Fewest(addrIndex + 1 + 1, ToSet(memory))
    BY <1>2, <1>3, FewestOf DEF Accessed
  <2>2. miss' + Fewest(addrIndex + 1 + 1, ToSet(memory')) = miss + Fewest(addrIndex + 1, ToSet(memory))
    BY <1>1, <1>3, <2>1, Zenon
  <2>. QED  BY <1>1, <2>2, OptStep
<1>. QED  BY <1>4, <1>5, <1>6, <1>7 DEF PageInv

LEMMA RoomStep ==
  ASSUME PageInv, NEW n, Accessed(n), MissWithRoom(n)
  PROVE  PageInv'
<1>1. /\ PageTypeOK /\ ClockCounts /\ LruRecency /\ OptOptimal /\ ~Contains(memory, n)
      /\ hits' = hits /\ miss' = miss + 1 /\ memory' = Append(memory, n) /\ ref' = Referenced(ref, n)
      /\ Len(memory) < cachesize
  BY DEF PageInv, MissWithRoom
<1>2. /\ n \in Pages /\ addrIndex + 1 \in 1 .. NumAddrs /\ Traces
      /\ addrIndex + 1 + 1 \in 1 .. NumAddrs + 1
      /\ memory \in Caches /\ ToSet(memory) \in SUBSET Pages /\ n = addrList[addrIndex + 1]
  BY <1>1, AccessedIs DEF Accessed
<1>3. /\ n \notin ToSet(memory) /\ Len(memory) \in Nat /\ Cardinality(ToSet(memory)) = Len(memory)
  BY <1>1, <1>2, CacheIs
<1>4. /\ memory' \in Caches /\ Len(memory') = Len(memory) + 1
      /\ ToSet(memory') = ToSet(memory) \union {n}
  <2>1. /\ Append(memory, n) \in Caches /\ Len(Append(memory, n)) = Len(memory) + 1
        /\ ToSet(Append(memory, n)) = ToSet(memory) \union {n}
    BY <1>2, <1>3, CacheWith
  <2>. QED  BY <1>1, <2>1, Zenon
<1>5. PageTypeOK'
  <2>1. hits \in Int /\ miss \in Int /\ cachesize \in Nat
    BY <1>1 DEF PageTypeOK
  <2>2. hits' \in Int /\ miss' \in Int /\ hits' + miss' = hits + miss + 1 /\ Len(memory') <= cachesize
    BY <1>1, <1>3, <1>4, <2>1
  <2>. QED  BY <1>1, <1>4, <2>2, PageTypesStep
<1>6. ClockCounts'
  <2>1. pagePolicy = "CLOCK" => CountsOf(ref, ToSet(memory))
    BY <1>1 DEF ClockCounts
  <2>. QED  BY <1>1, <1>4, <2>1, ClockStep
<1>7. LruRecency'
  <2>1. SUFFICES ASSUME pagePolicy' = "LRU"
                 PROVE  Recency(addrList', addrIndex', cachesize', memory')
    BY DEF LruRecency
  <2>2. Recency(addrList, addrIndex, cachesize, memory)
    BY <1>1, <2>1 DEF LruRecency, Accessed
  <2>3. /\ addrList \in [1 .. NumAddrs -> Pages] /\ addrIndex \in 0 .. NumAddrs
        /\ cachesize \in Nat /\ addrIndex < NumAddrs
    BY <1>1 DEF PageTypeOK, Accessed
  <2>4. Recency(addrList, addrIndex + 1, cachesize, Append(memory, addrList[addrIndex + 1]))
    BY <1>1, <1>2, <1>3, <2>2, <2>3, RecencyRoom
  <2>. QED  BY <1>1, <1>2, <2>4, Zenon DEF Accessed
<1>8. OptOptimal'
  <2>1. Fewest(addrIndex + 1, ToSet(memory)) = 1 + Fewest(addrIndex + 1 + 1, ToSet(memory) \union {n})
    BY <1>1, <1>2, <1>3, FewestMiss
  <2>2. /\ ToSet(memory) \union {n} \in SUBSET Pages /\ miss \in Int
    BY <1>1, <1>2 DEF PageTypeOK
  <2>3. Fewest(addrIndex + 1 + 1, ToSet(memory) \union {n}) \in Nat
    BY <1>2, <2>2, FewestNat
  <2>4. miss + 1 + Fewest(addrIndex + 1 + 1, ToSet(memory) \union {n})
          = miss + Fewest(addrIndex + 1, ToSet(memory))
    BY <2>1, <2>2, <2>3
  <2>5. miss' + Fewest(addrIndex + 1 + 1, ToSet(memory')) = miss + Fewest(addrIndex + 1, ToSet(memory))
    BY <1>1, <1>4, <2>4, Zenon
  <2>. QED  BY <1>1, <2>5, OptStep
<1>. QED  BY <1>5, <1>6, <1>7, <1>8 DEF PageInv

\* What the replacement loop of OPT compares.
LEMMA WhenIsSooner ==
  ASSUME addrIndex \in 0 .. NumAddrs, NEW x, NEW y, WhenReferenced(x) <= WhenReferenced(y)
  PROVE  Sooner(addrIndex + 1 + 1, x, y)
<1> DEFINE D(q) == {NumAddrs + 1} \union {i \in addrIndex + 2 .. NumAddrs : addrList[i] = q}
<1>1. NumAddrs \in Nat
  BY PagingAssumption
<1>2. \A q : D(q) \in SUBSET Nat /\ D(q) # {} /\ WhenReferenced(q) = Min(D(q))
  BY <1>1 DEF WhenReferenced
<1>3. ASSUME NEW i \in addrIndex + 1 + 1 .. NumAddrs, addrList[i] = y
      PROVE  \E k \in addrIndex + 1 + 1 .. i : addrList[k] = x
  <2>1. i \in D(y) /\ i \in Nat
    BY <1>1, <1>3
  <2>2. /\ WhenReferenced(y) <= i /\ WhenReferenced(x) \in D(x)
        /\ WhenReferenced(x) \in Nat /\ WhenReferenced(y) \in Nat
    <3>. HIDE DEF D
    <3>. QED  BY <1>2, <2>1, MinNat
  <2>3. WhenReferenced(x) <= i
    BY <2>1, <2>2
  <2>4. WhenReferenced(x) # NumAddrs + 1
    BY <1>1, <1>3, <2>3
  <2>. QED  BY <1>1, <2>2, <2>3, <2>4
<1>. QED  BY <1>3 DEF Sooner

\* The page that OPT throws out is one that no choice can beat.
LEMMA OptVictim ==
  ASSUME PageTypeOK, NEW n, Accessed(n), n \notin ToSet(memory), Len(memory) = cachesize,
         NEW i \in 1 .. Len(memory),
         \A k \in 1 .. Len(memory) : WhenReferenced(memory[k]) <= WhenReferenced(memory[i])
  PROVE  Fewest(addrIndex + 1, ToSet(memory))
           = 1 + Fewest(addrIndex + 1 + 1, (ToSet(memory) \ {memory[i]}) \union {n})
<1> DEFINE S == ToSet(memory)
           v == memory[i]
           j == addrIndex + 1
<1>1. /\ n \in Pages /\ j \in 1 .. NumAddrs /\ j \in 1 .. NumAddrs + 1 /\ j + 1 \in 1 .. NumAddrs + 1
      /\ Traces /\ S \in SUBSET Pages /\ memory \in Caches /\ n = addrList[j]
  BY AccessedIs DEF Accessed
<1>2. v \in S /\ Cardinality(S) = cachesize /\ cachesize \in Nat
  BY <1>1, CacheIs DEF PageTypeOK
<1>3. \A q \in S : Sooner(j + 1, q, v)
  <2>1. ASSUME NEW q \in S PROVE Sooner(j + 1, q, v)
    <3>1. PICK k \in 1 .. Len(memory) : memory[k] = q
      BY <1>1, CacheIs
    <3>2. WhenReferenced(q) <= WhenReferenced(v)
      BY <3>1
    <3>. HIDE DEF v
    <3>3. addrIndex \in 0 .. NumAddrs
      BY DEF PageTypeOK
    <3>. QED  BY <3>2, <3>3, WhenIsSooner
  <2>. QED  BY <2>1
<1>. HIDE DEF S, v, j
<1>4. ASSUME NEW q \in S
      PROVE  Fewest(j + 1, (S \ {v}) \union {n}) <= Fewest(j + 1, (S \ {q}) \union {n})
  <2>0. (S \ {v}) \union {n} \in SUBSET Pages
    BY <1>1
  <2>1. CASE q = v
    <3>1. Fewest(j + 1, (S \ {v}) \union {n}) \in Nat
      BY <1>1, <2>0, FewestNat
    <3>. QED  BY <2>1, <3>1
  <2>2. CASE q # v
    <3> DEFINE R == ((S \ {v}) \ {q}) \union {n}
    <3>1. R \in SUBSET Pages /\ Cardinality(R) < cachesize
      <4>1. S \ {v} \in SUBSET Pages /\ Cardinality(S \ {v}) = cachesize - 1
        BY <1>1, <1>2, PagesRemove
      <4>2. /\ (S \ {v}) \ {q} \in SUBSET Pages
            /\ Cardinality((S \ {v}) \ {q}) = cachesize - 1 - 1
        BY <2>2, <4>1, PagesRemove
      <4>3. n \notin (S \ {v}) \ {q}
        BY DEF S
      <4>4. R \in SUBSET Pages /\ Cardinality(R) = cachesize - 1 - 1 + 1
        BY <1>1, <4>2, <4>3, PagesAdd
      <4>. HIDE DEF R
      <4>. QED  BY <1>2, <4>4
    <3>2. q \in Pages \ R /\ v \in Pages \ R
      <4>1. n # q /\ n # v
        BY <1>2 DEF S
      <4>. QED  BY <1>1, <1>2, <4>1
    <3>3. (S \ {v}) \union {n} = R \union {q} /\ (S \ {q}) \union {n} = R \union {v}
      BY <1>2, <2>2
    <3>. HIDE DEF R
    <3>4. SoonerIsBetter(j + 1)
      BY <1>1, AlwaysBetter
    <3>5. Fewest(j + 1, R \union {q}) <= Fewest(j + 1, R \union {v})
      BY <1>1, <1>3, <2>2, <3>1, <3>2, <3>4 DEF SoonerIsBetter
    <3>. QED  BY <3>3, <3>5
  <2>. QED  BY <2>1, <2>2
<1>5. addrList[j] \notin S /\ Cardinality(S) >= cachesize
  BY <1>1, <1>2 DEF S
<1>6. Fewest(j, S) <= 1 + Fewest(j + 1, (S \ {v}) \union {n})
  BY <1>1, <1>2, <1>5, FewestMiss
<1>7. PICK q \in S : Fewest(j, S) = 1 + Fewest(j + 1, (S \ {q}) \union {n})
  BY <1>1, <1>5, FewestMiss, ZenonT(30)
<1>8. /\ Fewest(j + 1, (S \ {v}) \union {n}) \in Nat /\ Fewest(j + 1, (S \ {q}) \union {n}) \in Nat
      /\ Fewest(j, S) \in Nat
  <2>1. (S \ {v}) \union {n} \in SUBSET Pages /\ (S \ {q}) \union {n} \in SUBSET Pages
    BY <1>1
  <2>. QED  BY <1>1, <2>1, FewestNat
<1>9. Fewest(j + 1, (S \ {v}) \union {n}) <= Fewest(j + 1, (S \ {q}) \union {n})
  BY <1>4
<1>10. Fewest(j, S) = 1 + Fewest(j + 1, (S \ {v}) \union {n})
  BY <1>6, <1>7, <1>8, <1>9
<1>. QED  BY <1>10 DEF S, v, j

LEMMA WhenIs ==
  ASSUME addrIndex \in 0 .. NumAddrs
  PROVE  \A q : WhenReferenced(q) \in 0 .. NumAddrs + 1
<1>. SUFFICES ASSUME NEW q PROVE WhenReferenced(q) \in 0 .. NumAddrs + 1
  OBVIOUS
<1> DEFINE D == {NumAddrs + 1} \union {i \in addrIndex + 2 .. NumAddrs : addrList[i] = q}
<1>1. NumAddrs \in Nat
  BY PagingAssumption
<1>2. D \in SUBSET (0 .. NumAddrs + 1) /\ D # {} /\ WhenReferenced(q) = Min(D)
  BY <1>1 DEF WhenReferenced
<1>3. D \in SUBSET Nat
  BY <1>1, <1>2
<1>. HIDE DEF D
<1>. QED  BY <1>2, <1>3, MinNat

LEMMA ReplaceIdxIs ==
  ASSUME PageTypeOK, Len(memory) = cachesize, NEW i \in ReplaceIdx
  PROVE  /\ i \in 1 .. Len(memory)
         /\ pagePolicy = "LRU" => i = 1
         /\ pagePolicy = "OPT" =>
              \A k \in 1 .. Len(memory) : WhenReferenced(memory[k]) <= WhenReferenced(memory[i])
<1> DEFINE I == 1 .. Len(memory)
           best == {m \in I : \A k \in I : WhenReferenced(memory[k]) <= WhenReferenced(memory[m])}
           worst == {m \in I : \A k \in I : WhenReferenced(memory[k]) >= WhenReferenced(memory[m])}
           W == {WhenReferenced(memory[m]) : m \in I}
<1>1. 1 \in I /\ Len(memory) \in I /\ Len(memory) \in Nat
  BY CacheIs DEF PageTypeOK
<1>2. W \in SUBSET (0 .. NumAddrs + 1) /\ W # {} /\ NumAddrs + 1 \in Nat
  <2>1. addrIndex \in 0 .. NumAddrs
    BY DEF PageTypeOK
  <2>. QED  BY <1>1, <2>1, WhenIs, PagingAssumption
<1>3. best # {}
  <2>1. Max(W) \in W /\ \A x \in W : x <= Max(W)
    <3>. HIDE DEF W
    <3>. QED  BY <1>2, MaxUpTo
  <2>2. PICK m \in I : Max(W) = WhenReferenced(memory[m])
    BY <2>1
  <2>3. m \in best
    BY <2>1, <2>2
  <2>. QED  BY <2>3
<1>4. worst # {}
  <2>0. W \in SUBSET Nat
    BY <1>2
  <2>1. Min(W) \in W /\ \A x \in W : Min(W) <= x
    <3>. HIDE DEF W
    <3>. QED  BY <1>2, <2>0, MinNat
  <2>2. PICK m \in I : Min(W) = WhenReferenced(memory[m])
    BY <2>1
  <2>3. \A k \in I : WhenReferenced(memory[k]) >= WhenReferenced(memory[m])
    <3>1. ASSUME NEW k \in I PROVE WhenReferenced(memory[k]) >= WhenReferenced(memory[m])
      <4>1. WhenReferenced(memory[k]) \in W /\ WhenReferenced(memory[m]) \in W
        OBVIOUS
      <4>2. Min(W) <= WhenReferenced(memory[k])
        BY <2>1, <4>1
      <4>. HIDE DEF W
      <4>. QED  BY <1>2, <2>2, <4>1, <4>2
    <3>. QED  BY <3>1
  <2>4. m \in worst
    BY <2>3
  <2>. QED  BY <2>4
<1>5. Max(best) \in best
  <2>1. best \in SUBSET (0 .. Len(memory))
    BY <1>1
  <2>. HIDE DEF best
  <2>. QED  BY <1>1, <1>3, <2>1, MaxUpTo
<1>6. Min(worst) \in worst
  <2>1. worst \in SUBSET Nat
    BY <1>1
  <2>. HIDE DEF worst
  <2>. QED  BY <1>4, <2>1, MinNat
<1>7. CASE pagePolicy = "OPT"
  <2>1. ReplaceIdx = {Max(best)}
    BY <1>7 DEF ReplaceIdx
  <2>2. i \in best
    <3>. HIDE DEF best
    <3>. QED  BY <1>5, <2>1
  <2>. QED  BY <1>7, <2>2
<1>8. CASE pagePolicy = "UNOPT"
  <2>1. ReplaceIdx = {Min(worst)}
    BY <1>8 DEF ReplaceIdx
  <2>2. i \in worst
    <3>. HIDE DEF worst
    <3>. QED  BY <1>6, <2>1
  <2>. QED  BY <1>8, <2>2
<1>9. CASE pagePolicy \in {"FIFO", "LRU"}
  <2>1. ReplaceIdx = {1}
    BY <1>9 DEF ReplaceIdx
  <2>. QED  BY <1>1, <1>9, <2>1
<1>10. CASE pagePolicy = "MRU"
  <2>1. ReplaceIdx = {Len(memory)}
    BY <1>10 DEF ReplaceIdx
  <2>. QED  BY <1>1, <1>10, <2>1
<1>11. CASE pagePolicy \in {"RAND", "CLOCK"}
  <2>1. ReplaceIdx = I
    BY <1>11 DEF ReplaceIdx
  <2>. QED  BY <1>11, <2>1
<1>. QED  BY <1>7, <1>8, <1>9, <1>10, <1>11 DEF PageTypeOK, PagePolicies

LEMMA ReplaceStep ==
  ASSUME PageInv, NEW n, Accessed(n), MissReplace(n)
  PROVE  PageInv'
<1>1. /\ PageTypeOK /\ ClockCounts /\ LruRecency /\ OptOptimal /\ ~Contains(memory, n)
      /\ hits' = hits /\ miss' = miss + 1 /\ Len(memory) = cachesize
  BY DEF PageInv, MissReplace
<1>2a. PICK i \in ReplaceIdx : \E swept \in ClockSweeps(memory[i]) :
          /\ memory' = Append(RemoveAt(memory, i), n)
          /\ ref' = Referenced(Without(swept, memory[i]), n)
  BY DEF MissReplace
<1>2. PICK swept \in ClockSweeps(memory[i]) :
          /\ memory' = Append(RemoveAt(memory, i), n)
          /\ ref' = Referenced(Without(swept, memory[i]), n)
  BY <1>2a
<1>3. /\ n \in Pages /\ addrIndex + 1 \in 1 .. NumAddrs /\ Traces
      /\ addrIndex + 1 + 1 \in 1 .. NumAddrs + 1
      /\ memory \in Caches /\ ToSet(memory) \in SUBSET Pages /\ n = addrList[addrIndex + 1]
  BY <1>1, AccessedIs DEF Accessed
<1>4. /\ n \notin ToSet(memory) /\ Len(memory) \in Nat
  BY <1>1, <1>3, CacheIs
<1>5. i \in 1 .. Len(memory)
  BY <1>1, ReplaceIdxIs
<1> DEFINE t == RemoveAt(memory, i)
           M == ToSet(memory) \ {memory[i]}
<1>6. t \in Caches /\ ToSet(t) = M /\ Len(t) = Len(memory) - 1
  BY <1>3, <1>5, CacheWithout
<1>7. memory' \in Caches /\ Len(memory') = Len(memory) /\ ToSet(memory') = M \union {n}
  <2>1. n \notin ToSet(t)
    BY <1>4, <1>6
  <2>. HIDE DEF t, M
  <2>2. /\ Append(t, n) \in Caches /\ Len(Append(t, n)) = Len(t) + 1
        /\ ToSet(Append(t, n)) = ToSet(t) \union {n}
    BY <1>3, <1>6, <2>1, CacheWith
  <2>3. memory' = Append(t, n)
    BY <1>2 DEF t
  <2>4. memory' \in Caches /\ Len(memory') = Len(t) + 1 /\ ToSet(memory') = ToSet(t) \union {n}
    BY <2>2, <2>3, Zenon
  <2>. QED  BY <1>4, <1>6, <2>4
<1>8. PageTypeOK'
  <2>1. hits \in Int /\ miss \in Int /\ cachesize \in Nat
    BY <1>1 DEF PageTypeOK
  <2>2. hits' \in Int /\ miss' \in Int /\ hits' + miss' = hits + miss + 1 /\ Len(memory') <= cachesize
    BY <1>1, <1>4, <1>7, <2>1
  <2>. QED  BY <1>1, <1>7, <2>2, PageTypesStep
<1>9. ClockCounts'
  <2> DEFINE r == Without(swept, memory[i])
  <2>1. ASSUME pagePolicy = "CLOCK" PROVE CountsOf(r, M)
    <3>1. CountsOf(ref, ToSet(memory))
      BY <1>1, <2>1 DEF ClockCounts
    <3>2. CountsOf(swept, ToSet(memory))
      BY <2>1, <3>1 DEF ClockSweeps, CountsOf
    <3>3. r = [x \in DOMAIN swept \ {memory[i]} |-> swept[x]]
      BY <2>1 DEF Without, Restrict
    <3>. QED  BY <3>2, <3>3 DEF CountsOf
  <2>2. ref' = Referenced(r, n)
    BY <1>2
  <2>. HIDE DEF r, M
  <2>. QED  BY <1>1, <1>7, <2>1, <2>2, ClockStep
<1>10. LruRecency'
  <2>1. SUFFICES ASSUME pagePolicy' = "LRU"
                 PROVE  Recency(addrList', addrIndex', cachesize', memory')
    BY DEF LruRecency
  <2>2. Recency(addrList, addrIndex, cachesize, memory)
    BY <1>1, <2>1 DEF LruRecency, Accessed
  <2>3. /\ addrList \in [1 .. NumAddrs -> Pages] /\ addrIndex \in 0 .. NumAddrs
        /\ cachesize \in Nat \ {0} /\ addrIndex < NumAddrs
    BY <1>1 DEF PageTypeOK, Accessed
  <2>4. i = 1
    BY <1>1, <2>1, ReplaceIdxIs DEF Accessed
  <2>5. Recency(addrList, addrIndex + 1, cachesize, Append(RemoveAt(memory, 1), addrList[addrIndex + 1]))
    BY <1>1, <1>3, <1>4, <2>2, <2>3, RecencyReplace
  <2>. QED  BY <1>2, <1>3, <2>4, <2>5, Zenon DEF Accessed
<1>11. OptOptimal'
  <2>1. ASSUME pagePolicy = "OPT"
        PROVE  miss' + Fewest(addrIndex + 1 + 1, ToSet(memory')) = miss + Fewest(addrIndex + 1, ToSet(memory))
    <3>1. \A k \in 1 .. Len(memory) : WhenReferenced(memory[k]) <= WhenReferenced(memory[i])
      BY <1>1, <2>1, ReplaceIdxIs
    <3>2. Fewest(addrIndex + 1, ToSet(memory)) = 1 + Fewest(addrIndex + 1 + 1, M \union {n})
      BY <1>1, <1>4, <1>5, <3>1, OptVictim
    <3>3. M \union {n} \in SUBSET Pages /\ miss \in Int
      BY <1>1, <1>3 DEF PageTypeOK
    <3>. HIDE DEF M
    <3>4. Fewest(addrIndex + 1 + 1, M \union {n}) \in Nat
      BY <1>3, <3>3, FewestNat
    <3>5. miss + 1 + Fewest(addrIndex + 1 + 1, M \union {n}) = miss + Fewest(addrIndex + 1, ToSet(memory))
      BY <3>2, <3>3, <3>4
    <3>. QED  BY <1>1, <1>7, <3>5, Zenon
  <2>. QED  BY <1>1, <2>1, OptStep
<1>. QED  BY <1>8, <1>9, <1>10, <1>11 DEF PageInv

LEMMA AccessStep == PageInv /\ Access => PageInv'
<1>. SUFFICES ASSUME PageInv, Access PROVE PageInv'
  OBVIOUS
<1>1. PICK n : n = addrList[addrIndex + 1] /\ (Hit(n) \/ MissWithRoom(n) \/ MissReplace(n))
  BY DEF Access
<1>2. Accessed(n)
  <2>1. addrIndex < NumAddrs
    BY PagingAssumption DEF PageInv, PageTypeOK, Access, PageDone
  <2>. QED  BY <1>1, <2>1 DEF Access, Accessed
<1>. QED  BY <1>1, <1>2, HitStep, RoomStep, ReplaceStep

LEMMA PageUnchanged == PageInv /\ UNCHANGED pageVars => PageInv'
<1>. SUFFICES ASSUME PageInv, UNCHANGED pageVars PROVE PageInv'
  OBVIOUS
<1>1. FewestMisses' = FewestMisses
  BY FewestNext DEF pageVars
<1>2. OptOptimal'
  BY <1>1, Zenon DEF PageInv, OptOptimal, pageVars
<1>3. PageTypeOK' /\ ClockCounts' /\ LruRecency'
  BY DEF PageInv, PageTypeOK, ClockCounts, CountsOf, LruRecency, pageVars
<1>. QED  BY <1>2, <1>3 DEF PageInv

LEMMA EmptyCache == << >> \in Caches /\ Len(<< >>) = 0 /\ ToSet(<< >>) = {}
<1>1. << >> \in Seq(Pages) /\ Len(<< >>) = 0
  BY EmptySeq
<1>2. << >> \in Caches
  BY <1>1 DEF Caches
<1>. QED  BY <1>1, <1>2, CacheIs

LEMMA PageInitInv == PageInit => PageInv
<1>. SUFFICES ASSUME PageInit PROVE PageInv
  OBVIOUS
<1>1. /\ pagePolicy \in PagePolicies /\ cachesize \in Nat \ {0} /\ clockbits \in Nat \ {0}
      /\ addrList \in [1 .. NumAddrs -> Pages] /\ addrIndex = 0 /\ memory = << >> /\ ref = << >>
      /\ hits = 0 /\ miss = 0
  BY PagingAssumption DEF PageInit
<1>2. memory \in Caches /\ Len(memory) = 0 /\ ToSet(memory) = {}
  BY <1>1, EmptyCache
<1>3. PageTypeOK
  BY <1>1, <1>2, PagingAssumption DEF PageTypeOK
<1>4. ClockCounts
  <2>1. DOMAIN ref = {}
    BY <1>1
  <2>. QED  BY <1>2, <2>1 DEF ClockCounts, CountsOf
<1>5. LruRecency
  <2>1. ASSUME NEW q PROVE UseIn(addrList, 0, q) = 0
    <3>1. {0} \union {i \in 1 .. 0 : addrList[i] = q} = {0}
      OBVIOUS
    <3>2. Max({0}) \in {0}
      BY MaxUpTo
    <3>. QED  BY <3>1, <3>2 DEF UseIn
  <2>2. UsedIn(addrList, 0) = {}
    BY <2>1 DEF UsedIn
  <2>3. Min({cachesize, Cardinality(UsedIn(addrList, 0))}) = 0
    <3>1. Cardinality(UsedIn(addrList, 0)) = 0
      BY <2>2, FS_EmptySet
    <3>2. Min({cachesize, 0}) = 0
      BY <1>1, Min2
    <3>. QED  BY <3>1, <3>2
  <2>4. Ordered(addrList, 0, memory)
    BY <1>2 DEF Ordered
  <2>5. Recency(addrList, 0, cachesize, memory)
    BY <1>2, <2>2, <2>3, <2>4 DEF Recency
  <2>. QED  BY <1>1, <2>5, Zenon DEF LruRecency
<1>6. OptOptimal
  <2>1. addrIndex + 1 = 1 /\ ToSet(memory) = {} /\ miss = 0
    BY <1>1, <1>2
  <2>2. Traces /\ 1 \in 1 .. NumAddrs + 1 /\ {} \in SUBSET Pages
    BY <1>1, PagingAssumption DEF Traces
  <2>3. FewestMisses[<<1, {}>>] \in Nat
    BY <2>2, FewestNat DEF Fewest
  <2>4. miss + FewestMisses[<<1, {}>>] = FewestMisses[<<1, {}>>]
    <3> DEFINE f == FewestMisses[<<1, {}>>]
    <3>. HIDE DEF f
    <3>1. f \in Nat
      BY <2>3 DEF f
    <3>2. miss + f = f
      BY <2>1, <3>1
    <3>. QED  BY <3>2 DEF f
  <2>. QED  BY <2>1, <2>4, Zenon DEF OptOptimal
<1>. QED  BY <1>3, <1>4, <1>5, <1>6 DEF PageInv

LEMMA PagingInit == MemoryInit => PageInv
<1>. SUFFICES ASSUME MemoryInit PROVE PageInv
  OBVIOUS
<1>1. CASE PageInit
  BY <1>1, PageInitInv
<1>2. CASE PageOff
  <2>1. /\ pagePolicy = "FIFO" /\ cachesize = 1 /\ clockbits = 2 /\ addrIndex = NumAddrs
        /\ addrList = [i \in 1 .. NumAddrs |-> 0] /\ memory = <<0>>
        /\ hits = NumAddrs - 1 /\ miss = 1
    BY <1>2 DEF PageOff
  <2>2. 0 \in Pages /\ NumAddrs \in Nat
    BY PagingAssumption DEF Pages
  <2>3. <<0>> \in Seq(Pages) /\ Len(<<0>>) = 1
    BY <2>2
  <2>4. memory \in Caches /\ Len(memory) = 1
    BY <2>1, <2>3 DEF Caches
  <2>5. PageTypeOK
    BY <2>1, <2>2, <2>4 DEF PageTypeOK, PagePolicies
  <2>. QED  BY <2>1, <2>5 DEF PageInv, ClockCounts, LruRecency, OptOptimal
<1>. QED  BY <1>1, <1>2 DEF MemoryInit

LEMMA PagingStep == PageInv /\ [MemoryNext]_memoryVars => PageInv'
<1>. SUFFICES ASSUME PageInv, [MemoryNext]_memoryVars PROVE PageInv'
  OBVIOUS
<1>1. Access \/ UNCHANGED pageVars
  BY Zenon DEF MemoryNext, memoryVars
<1>. QED  BY <1>1, AccessStep, PageUnchanged

(* paging-policy.py: in every state of every run the cache holds no page   *)
(* twice and no more than its size, every access is a hit or a miss, CLOCK *)
(* counts exactly the cached pages, OPT has missed as seldom as any choice *)
(* of victims could, and LRU holds the most recently used pages in order.  *)
THEOREM PagingRightHolds == MemorySpec => []PagingRight
<1>1. MemoryInit => PageInv
  BY PagingInit
<1>2. PageInv /\ [MemoryNext]_memoryVars => PageInv'
  BY PagingStep
<1>3. PageInv => PagingRight
  BY PageInvRight DEF PagingRight
<1>. QED  BY <1>1, <1>2, <1>3, PTL DEF MemorySpec

-----------------------------------------------------------------------------
\* the sum of g over S, and one step of it
Sum(g, S) == MapThenSumSet(LAMBDA x : g[x], S)
AnyOf(T) == CHOOSE x \in T : TRUE
SumStep(f, g, T) == IF T = {} THEN 0 ELSE g[AnyOf(T)] + f[T \ {AnyOf(T)}]

Sums(f, g, S) == f = [T \in SUBSET S |-> SumStep(f, g, T)]

LEMMA SumStepEqual ==
  ASSUME NEW f, NEW h, NEW g, NEW T, T # {} => f[T \ {AnyOf(T)}] = h[T \ {AnyOf(T)}]
  PROVE  SumStep(f, g, T) = SumStep(h, g, T)
BY DEF SumStep

LEMMA AnyOfIs ==
  ASSUME NEW T, T # {}
  PROVE  AnyOf(T) \in T
BY DEF AnyOf

\* There is a function that sums up the subsets of a finite set.
LEMMA SumExists ==
  ASSUME NEW S, IsFiniteSet(S), NEW g
  PROVE  \E f : Sums(f, g, S)
<1> DEFINE D == {n \in Nat : \E f : \A T \in SUBSET S :
                                Cardinality(T) <= n => f[T] = SumStep(f, g, T)}
<1>0. \A T \in SUBSET S : /\ IsFiniteSet(T) /\ Cardinality(T) \in Nat /\ (Cardinality(T) = 0 <=> T = {})
                          /\ Cardinality(T) <= Cardinality(S)
                          /\ T # {} => /\ T \ {AnyOf(T)} \in SUBSET S
                                       /\ Cardinality(T \ {AnyOf(T)}) = Cardinality(T) - 1
  BY FS_Subset, FS_CardinalityType, FS_EmptySet, FS_RemoveElement, AnyOfIs
<1>1. 0 \in D
  <2> DEFINE f == [T \in SUBSET S |-> 0]
  <2>1. ASSUME NEW T \in SUBSET S, Cardinality(T) <= 0
        PROVE  f[T] = SumStep(f, g, T)
    <3>1. T = {}
      <4>1. IsFiniteSet(T) /\ Cardinality(T) \in Nat
        BY <1>0
      <4>. QED  BY <2>1, <4>1, FS_EmptySet
    <3>. QED  BY <3>1 DEF SumStep
  <2>. QED  BY <2>1
<1>2. ASSUME NEW n \in D PROVE n + 1 \in D
  <2>1. PICK f : \A T \in SUBSET S : Cardinality(T) <= n => f[T] = SumStep(f, g, T)
    BY <1>2
  <2>2. n \in Nat
    BY <1>2
  <2> DEFINE h == [T \in SUBSET S |-> SumStep(f, g, T)]
  <2>3. ASSUME NEW T \in SUBSET S, Cardinality(T) <= n + 1
        PROVE  h[T] = SumStep(h, g, T)
    <3>1. ASSUME T # {} PROVE f[T \ {AnyOf(T)}] = h[T \ {AnyOf(T)}]
      <4>1. T \ {AnyOf(T)} \in SUBSET S /\ Cardinality(T \ {AnyOf(T)}) <= n
        BY <1>0, <2>2, <2>3, <3>1
      <4>. QED  BY <2>1, <4>1
    <3>2. SumStep(f, g, T) = SumStep(h, g, T)
      <4>. HIDE DEF h
      <4>. QED  BY <3>1, SumStepEqual
    <3>. QED  BY <3>2
  <2>. HIDE DEF h
  <2>. QED  BY <2>2, <2>3
<1>. HIDE DEF D
<1>3. Cardinality(S) \in D
  <2>1. D = Nat
    <3>1. D \in SUBSET Nat
      BY DEF D
    <3>. QED  BY <1>1, <1>2, <3>1, AllNaturals
  <2>. QED  BY <1>0, <2>1
<1>4. PICK f : \A T \in SUBSET S : Cardinality(T) <= Cardinality(S) => f[T] = SumStep(f, g, T)
  BY <1>3 DEF D
<1> DEFINE h == [T \in SUBSET S |-> f[T]]
<1>5. ASSUME NEW T \in SUBSET S PROVE h[T] = SumStep(h, g, T)
  <2>1. h[T] = SumStep(f, g, T)
    BY <1>0, <1>4
  <2>2. ASSUME T # {} PROVE f[T \ {AnyOf(T)}] = h[T \ {AnyOf(T)}]
    BY <1>0, <2>2
  <2>3. SumStep(f, g, T) = SumStep(h, g, T)
    <3>. HIDE DEF h
    <3>. QED  BY <2>2, SumStepEqual
  <2>. QED  BY <2>1, <2>3
<1>6. h = [T \in SUBSET S |-> SumStep(h, g, T)]
  <2>1. h = [T \in SUBSET S |-> h[T]]
    OBVIOUS
  <2>. HIDE DEF h
  <2>. QED  BY <1>5, <2>1
<1>. QED  BY <1>6 DEF Sums

\* The function that Sum chooses.
SumFun(g, S) == CHOOSE f : Sums(f, g, S)

LEMMA SumFunIs ==
  ASSUME NEW S, IsFiniteSet(S), NEW g, NEW T \in SUBSET S
  PROVE  SumFun(g, S)[T] = SumStep(SumFun(g, S), g, T)
<1>1. SumFun(g, S) = [U \in SUBSET S |-> SumStep(SumFun(g, S), g, U)]
  <2>1. Sums(SumFun(g, S), g, S)
    BY SumExists DEF SumFun
  <2>. QED  BY <2>1 DEF Sums
<1>. HIDE DEF SumFun
<1>. QED  BY <1>1

LEMMA SumIs ==
  ASSUME NEW S, NEW g
  PROVE  Sum(g, S) = SumFun(g, S)[S]
BY Zenon DEF Sum, MapThenSumSet, MapThenFoldSet, SumFun, Sums, SumStep, AnyOf

\* Sums are numbers, and the same whichever element is added last.
LEMMA SumTaken ==
  ASSUME NEW S, IsFiniteSet(S), NEW g, \A x \in S : g[x] \in Int
  PROVE  /\ \A T \in SUBSET S : SumFun(g, S)[T] \in Int
         /\ \A T \in SUBSET S : \A x \in T :
               SumFun(g, S)[T] = g[x] + SumFun(g, S)[T \ {x}]
         /\ SumFun(g, S)[{}] = 0
<1> DEFINE F == SumFun(g, S)
           D == {n \in Nat : \A T \in SUBSET S : Cardinality(T) <= n =>
                               /\ F[T] \in Int
                               /\ \A x \in T : F[T] = g[x] + F[T \ {x}]}
<1>1. \A T \in SUBSET S : /\ IsFiniteSet(T) /\ Cardinality(T) \in Nat /\ (Cardinality(T) = 0 <=> T = {})
                          /\ Cardinality(T) <= Cardinality(S)
                          /\ \A x \in T : /\ T \ {x} \in SUBSET S
                                          /\ Cardinality(T \ {x}) = Cardinality(T) - 1
  BY FS_Subset, FS_CardinalityType, FS_EmptySet, FS_RemoveElement
<1>2. \A T \in SUBSET S : F[T] = IF T = {} THEN 0 ELSE g[AnyOf(T)] + F[T \ {AnyOf(T)}]
  BY SumFunIs DEF SumStep
<1>. HIDE DEF F
<1>3. F[{}] = 0
  BY <1>2
<1>4. 0 \in D
  <2>1. ASSUME NEW T \in SUBSET S, Cardinality(T) <= 0 PROVE T = {}
    <3>1. IsFiniteSet(T) /\ Cardinality(T) \in Nat
      BY <1>1
    <3>. QED  BY <2>1, <3>1, FS_EmptySet
  <2>2. ASSUME NEW T \in SUBSET S, Cardinality(T) <= 0
        PROVE  F[T] \in Int /\ \A x \in T : F[T] = g[x] + F[T \ {x}]
    <3>1. T = {}
      BY <2>1, <2>2
    <3>. QED  BY <3>1, <1>3
  <2>. QED  BY <2>2
<1>5. ASSUME NEW n \in D PROVE n + 1 \in D
  <2>1. ASSUME NEW T \in SUBSET S, Cardinality(T) <= n + 1
        PROVE  F[T] \in Int /\ \A x \in T : F[T] = g[x] + F[T \ {x}]
    <3>1. CASE T = {}
      BY <1>3, <3>1
    <3>2. CASE T # {}
      <4> DEFINE c == AnyOf(T)
      <4>1. c \in T /\ c \in S /\ F[T] = g[c] + F[T \ {c}] /\ g[c] \in Int
        BY <1>2, <3>2, AnyOfIs
      <4>. HIDE DEF c
      <4>2. \A y \in T : /\ T \ {y} \in SUBSET S /\ Cardinality(T \ {y}) <= n
                         /\ F[T \ {y}] \in Int
                         /\ \A x \in T \ {y} : F[T \ {y}] = g[x] + F[(T \ {y}) \ {x}]
        <5>1. ASSUME NEW y \in T PROVE T \ {y} \in SUBSET S /\ Cardinality(T \ {y}) <= n
          BY <1>1, <1>5, <2>1
        <5>. QED  BY <1>5, <5>1
      <4>3. F[T] \in Int
        BY <4>1, <4>2
      <4>4. ASSUME NEW x \in T PROVE F[T] = g[x] + F[T \ {x}]
        <5>1. CASE x = c
          BY <4>1, <5>1
        <5>2. CASE x # c
          <6>1. F[T \ {c}] = g[x] + F[(T \ {c}) \ {x}] /\ F[T \ {x}] = g[c] + F[(T \ {x}) \ {c}]
            BY <4>1, <4>2, <5>2
          <6>2. (T \ {c}) \ {x} = (T \ {x}) \ {c}
            OBVIOUS
          <6>3. F[(T \ {x}) \ {c}] \in Int
            <7>1. (T \ {x}) \ {c} \in SUBSET S /\ Cardinality((T \ {x}) \ {c}) <= n
              <8>1. T \ {x} \in SUBSET S /\ c \in T \ {x} /\ Cardinality(T \ {x}) <= n /\ n \in Nat
                BY <1>5, <4>1, <4>2, <5>2
              <8>2. /\ (T \ {x}) \ {c} \in SUBSET S
                    /\ Cardinality((T \ {x}) \ {c}) = Cardinality(T \ {x}) - 1
                    /\ Cardinality(T \ {x}) \in Nat
                BY <1>1, <8>1
              <8>. QED  BY <8>1, <8>2
            <7>. QED  BY <1>5, <7>1
          <6>4. g[x] \in Int
            OBVIOUS
          <6>5. F[T \ {c}] = g[x] + F[(T \ {x}) \ {c}]
            BY <6>1, <6>2
          <6>. QED  BY <4>1, <6>1, <6>3, <6>4, <6>5
        <5>. QED  BY <5>1, <5>2
      <4>. QED  BY <4>3, <4>4
    <3>. QED  BY <3>1, <3>2
  <2>. QED  BY <1>5, <2>1
<1>. HIDE DEF D
<1>6. Cardinality(S) \in D
  <2>1. D = Nat
    <3>1. D \in SUBSET Nat
      BY DEF D
    <3>. QED  BY <1>4, <1>5, <3>1, AllNaturals
  <2>. QED  BY <1>1, <2>1
<1>. QED  BY <1>1, <1>3, <1>6 DEF D, F

\* Only the summands in a set matter.
LEMMA SumSame ==
  ASSUME NEW S, IsFiniteSet(S), NEW g, \A x \in S : g[x] \in Int,
         NEW h, \A x \in S : h[x] \in Int,
         NEW U \in SUBSET S, \A x \in U : g[x] = h[x]
  PROVE  SumFun(g, S)[U] = SumFun(h, S)[U]
<1> DEFINE F == SumFun(g, S)
           H == SumFun(h, S)
           D == {n \in Nat : \A T \in SUBSET U : Cardinality(T) <= n => F[T] = H[T]}
<1>1. \A T \in SUBSET U : /\ IsFiniteSet(T) /\ Cardinality(T) \in Nat /\ (Cardinality(T) = 0 <=> T = {})
                          /\ \A x \in T : /\ T \ {x} \in SUBSET U
                                          /\ Cardinality(T \ {x}) = Cardinality(T) - 1
  BY FS_Subset, FS_CardinalityType, FS_EmptySet, FS_RemoveElement
<1>2. /\ F[{}] = 0 /\ H[{}] = 0
      /\ \A T \in SUBSET U : \A x \in T : F[T] = g[x] + F[T \ {x}] /\ H[T] = h[x] + H[T \ {x}]
  BY SumTaken
<1>. HIDE DEF F, H
<1>3. 0 \in D
  <2>1. ASSUME NEW T \in SUBSET U, Cardinality(T) <= 0 PROVE T = {}
    <3>1. IsFiniteSet(T) /\ Cardinality(T) \in Nat
      BY <1>1
    <3>. QED  BY <2>1, <3>1, FS_EmptySet
  <2>. QED  BY <1>2, <2>1
<1>4. ASSUME NEW n \in D PROVE n + 1 \in D
  <2>1. ASSUME NEW T \in SUBSET U, Cardinality(T) <= n + 1
        PROVE  F[T] = H[T]
    <3>1. CASE T = {}
      BY <1>2, <3>1
    <3>2. CASE T # {}
      <4>1. PICK x \in T : TRUE
        BY <3>2
      <4>2. T \ {x} \in SUBSET U /\ Cardinality(T \ {x}) <= n
        BY <1>1, <1>4, <2>1
      <4>3. F[T \ {x}] = H[T \ {x}]
        BY <1>4, <4>2
      <4>. QED  BY <1>2, <4>3
    <3>. QED  BY <3>1, <3>2
  <2>. QED  BY <1>4, <2>1
<1>. HIDE DEF D
<1>5. D = Nat
  <2>1. D \in SUBSET Nat
    BY DEF D
  <2>. QED  BY <1>3, <1>4, <2>1, AllNaturals
<1>. QED  BY <1>1, <1>5 DEF D, F, H

\* A sum in which one summand changes.
LEMMA SumChange ==
  ASSUME NEW S, IsFiniteSet(S), NEW g, \A x \in S : g[x] \in Int,
         NEW h, \A x \in S : h[x] \in Int,
         NEW p \in S, \A x \in S \ {p} : g[x] = h[x]
  PROVE  Sum(h, S) - Sum(g, S) = h[p] - g[p] /\ Sum(h, S) \in Int /\ Sum(g, S) \in Int
<1>1. SumFun(g, S)[S \ {p}] = SumFun(h, S)[S \ {p}]
  BY SumSame
<1>2. /\ SumFun(g, S)[S] = g[p] + SumFun(g, S)[S \ {p}] /\ SumFun(g, S)[S \ {p}] \in Int
      /\ SumFun(h, S)[S] = h[p] + SumFun(h, S)[S \ {p}] /\ SumFun(h, S)[S \ {p}] \in Int
  BY SumTaken
<1>. QED  BY <1>1, <1>2, SumIs

\* A sum of natural numbers, none of them above b.
LEMMA SumBounds ==
  ASSUME NEW S, IsFiniteSet(S), NEW g, \A x \in S : g[x] \in Nat, NEW b \in Nat
  PROVE  /\ Sum(g, S) \in Nat
         /\ (\A x \in S : g[x] <= b) => Sum(g, S) <= Cardinality(S) * b
<1> DEFINE F == SumFun(g, S)
           Low == \A x \in S : g[x] <= b
           Bounded(T) == 0 <= F[T] /\ (Low => F[T] <= Cardinality(T) * b)
           D == {n \in Nat : \A T \in SUBSET S : Cardinality(T) <= n => Bounded(T)}
<1>1. \A T \in SUBSET S : /\ IsFiniteSet(T) /\ Cardinality(T) \in Nat
                          /\ \A x \in T : /\ T \ {x} \in SUBSET S
                                          /\ Cardinality(T \ {x}) = Cardinality(T) - 1
  BY FS_Subset, FS_CardinalityType, FS_RemoveElement
<1>2. /\ F[{}] = 0
      /\ \A T \in SUBSET S : F[T] \in Int /\ \A x \in T : F[T] = g[x] + F[T \ {x}]
  BY SumTaken
<1>. HIDE DEF F
<1>3. Bounded({})
  BY <1>2, FS_EmptySet
<1>4. ASSUME NEW T \in SUBSET S, NEW x \in T, Bounded(T \ {x})
      PROVE  Bounded(T)
  <2>1. F[T] = g[x] + F[T \ {x}] /\ F[T \ {x}] \in Int /\ g[x] \in Nat
    BY <1>1, <1>2
  <2>2. ASSUME Low PROVE F[T] <= Cardinality(T) * b
    <3> DEFINE k == Cardinality(T)
    <3>1. F[T \ {x}] <= (k - 1) * b /\ g[x] <= b
      BY <1>1, <1>4, <2>2
    <3>2. k \in Int
      BY <1>1
    <3>. HIDE DEF k
    <3>3. (k - 1) * b = k * b - b /\ k * b \in Int
      BY <3>2
    <3>4. F[T] <= k * b
      BY <2>1, <3>1, <3>3
    <3>. QED  BY <3>4 DEF k
  <2>. QED  BY <1>4, <2>1, <2>2
<1>. HIDE DEF Bounded
<1>5. 0 \in D
  <2>1. ASSUME NEW T \in SUBSET S, Cardinality(T) <= 0 PROVE Bounded(T)
    <3>1. IsFiniteSet(T) /\ Cardinality(T) \in Nat
      BY <1>1
    <3>2. T = {}
      BY <2>1, <3>1, FS_EmptySet
    <3>. QED  BY <1>3, <3>2
  <2>. QED  BY <2>1
<1>6. ASSUME NEW n \in D PROVE n + 1 \in D
  <2>1. ASSUME NEW T \in SUBSET S, Cardinality(T) <= n + 1
        PROVE  Bounded(T)
    <3>1. CASE T = {}
      BY <1>3, <3>1
    <3>2. CASE T # {}
      <4>1. PICK x \in T : TRUE
        BY <3>2
      <4>2. T \ {x} \in SUBSET S /\ Cardinality(T \ {x}) <= n
        BY <1>1, <1>6, <2>1
      <4>3. Bounded(T \ {x})
        BY <1>6, <4>2
      <4>. QED  BY <1>4, <4>3
    <3>. QED  BY <3>1, <3>2
  <2>. QED  BY <1>6, <2>1
<1>. HIDE DEF D
<1>7. D = Nat
  <2>1. D \in SUBSET Nat
    BY DEF D
  <2>. QED  BY <1>5, <1>6, <2>1, AllNaturals
<1>8. Bounded(S)
  BY <1>1, <1>7 DEF D
<1>9. Sum(g, S) = F[S] /\ F[S] \in Int
  BY <1>2, SumIs DEF F
<1>. QED  BY <1>8, <1>9 DEF Bounded

-----------------------------------------------------------------------------
(* Lists of blocks without repetition, as the free list of malloc.py.      *)
BlockSet == Nat \X (Nat \ {0})
Lists == {s \in Seq(BlockSet) : \A i, j \in 1 .. Len(s) : s[i] = s[j] => i = j}

LEMMA ListIs ==
  ASSUME NEW s \in Lists
  PROVE  /\ s \in Seq(BlockSet) /\ Len(s) \in Nat /\ DOMAIN s = 1 .. Len(s)
         /\ ToSet(s) \in SUBSET BlockSet /\ IsFiniteSet(ToSet(s)) /\ IsInjective(s)
         /\ \A i \in 1 .. Len(s) : s[i] \in BlockSet /\ s[i] \in ToSet(s)
         /\ \A q : q \in ToSet(s) <=> \E i \in 1 .. Len(s) : s[i] = q
         /\ \A i, j \in 1 .. Len(s) : s[i] = s[j] => i = j
<1>1. s \in Seq(BlockSet) /\ Len(s) \in Nat /\ DOMAIN s = 1 .. Len(s) /\ s \in [1 .. Len(s) -> BlockSet]
  BY LenProperties DEF Lists
<1>2. \A q : q \in ToSet(s) <=> \E i \in 1 .. Len(s) : s[i] = q
  BY <1>1 DEF ToSet
<1>3. \A i \in 1 .. Len(s) : s[i] \in BlockSet
  BY <1>1
<1>4. \A i, j \in 1 .. Len(s) : s[i] = s[j] => i = j
  BY DEF Lists
<1>5. IsInjective(s)
  BY <1>1, <1>4 DEF IsInjective
<1>6. IsFiniteSet(ToSet(s))
  <2>1. s \in [1 .. Len(s) -> ToSet(s)]
    BY <1>1, <1>2
  <2>2. s \in Surjection(1 .. Len(s), ToSet(s))
    BY <1>2, <2>1 DEF Surjection
  <2>3. IsFiniteSet(1 .. Len(s))
    BY <1>1, FS_Interval
  <2>. QED  BY <2>2, <2>3, FS_Surjection
<1>. QED  BY <1>1, <1>2, <1>3, <1>4, <1>5, <1>6

\* A list that reads the entries of s, each at most once.
LEMMA ListOf ==
  ASSUME NEW t \in Seq(BlockSet),
         \A i, j \in 1 .. Len(t) : t[i] = t[j] => i = j
  PROVE  t \in Lists
BY DEF Lists

LEMMA ListAppend ==
  ASSUME NEW s \in Lists, NEW b \in BlockSet, b \notin ToSet(s)
  PROVE  /\ Append(s, b) \in Lists
         /\ ToSet(Append(s, b)) = ToSet(s) \union {b}
         /\ Len(Append(s, b)) = Len(s) + 1
         /\ \A i \in 1 .. Len(s) : Append(s, b)[i] = s[i]
         /\ Append(s, b)[Len(s) + 1] = b
<1> DEFINE t == Append(s, b)
<1>1. /\ t \in Seq(BlockSet) /\ Len(t) = Len(s) + 1 /\ t[Len(s) + 1] = b
      /\ \A i \in 1 .. Len(s) : t[i] = s[i]
  BY ListIs, AppendProperties
<1>. HIDE DEF t
<1>2. t \in Lists
  <2>1. \A i \in 1 .. Len(s) : s[i] # b
    BY ListIs
  <2>2. \A i \in 1 .. Len(t) : i = Len(s) + 1 \/ i \in 1 .. Len(s)
    BY <1>1, ListIs
  <2>. QED  BY <1>1, <2>1, <2>2, ListIs, ListOf
<1>3. ToSet(t) = ToSet(s) \union {b}
  <2>1. \A i \in 1 .. Len(t) : i = Len(s) + 1 \/ i \in 1 .. Len(s)
    BY <1>1, ListIs
  <2>2. 1 .. Len(s) \subseteq 1 .. Len(t) /\ Len(s) + 1 \in 1 .. Len(t)
    BY <1>1, ListIs
  <2>3. \A q : q \in ToSet(t) <=> \E i \in 1 .. Len(t) : t[i] = q
    BY <1>2, ListIs
  <2>4. \A q : q \in ToSet(s) <=> \E i \in 1 .. Len(s) : s[i] = q
    BY ListIs
  <2>5. ASSUME NEW q \in ToSet(t) PROVE q \in ToSet(s) \union {b}
    BY <1>1, <2>1, <2>3, <2>4
  <2>6. ASSUME NEW q \in ToSet(s) PROVE q \in ToSet(t)
    BY <1>1, <2>2, <2>3, <2>4
  <2>7. b \in ToSet(t)
    BY <1>1, <2>2, <2>3
  <2>. QED  BY <2>5, <2>6, <2>7
<1>. QED  BY <1>1, <1>2, <1>3 DEF t

LEMMA ListPrepend ==
  ASSUME NEW s \in Lists, NEW b \in BlockSet, b \notin ToSet(s)
  PROVE  <<b>> \o s \in Lists /\ ToSet(<<b>> \o s) = ToSet(s) \union {b}
<1> DEFINE t == <<b>> \o s
<1>1. <<b>> \in Seq(BlockSet) /\ Len(<<b>>) = 1 /\ <<b>>[1] = b
  OBVIOUS
<1>2. /\ t \in Seq(BlockSet) /\ Len(t) = 1 + Len(s)
      /\ \A i \in 1 .. 1 + Len(s) : t[i] = IF i <= 1 THEN <<b>>[i] ELSE s[i - 1]
  BY <1>1, ListIs, ConcatProperties
<1>3. t[1] = b /\ \A i \in 2 .. Len(t) : t[i] = s[i - 1] /\ i - 1 \in 1 .. Len(s)
  BY <1>1, <1>2, ListIs
<1>. HIDE DEF t
<1>4. t \in Lists
  <2>1. \A i \in 1 .. Len(s) : s[i] # b
    BY ListIs
  <2>2. \A i \in 1 .. Len(t) : i = 1 \/ i \in 2 .. Len(t)
    BY <1>2, ListIs
  <2>3. ASSUME NEW i \in 1 .. Len(t), NEW j \in 1 .. Len(t), t[i] = t[j]
        PROVE  i = j
    <3>1. CASE i = 1 \/ j = 1
      BY <1>3, <2>1, <2>2, <2>3, <3>1
    <3>2. CASE i \in 2 .. Len(t) /\ j \in 2 .. Len(t)
      <4>1. i - 1 \in 1 .. Len(s) /\ j - 1 \in 1 .. Len(s) /\ s[i - 1] = s[j - 1]
        BY <1>3, <2>3, <3>2
      <4>2. i - 1 = j - 1
        BY <4>1, ListIs
      <4>. QED  BY <4>2, <3>2
    <3>. QED  BY <2>2, <3>1, <3>2
  <2>. QED  BY <1>2, <2>3, ListOf
<1>5. ToSet(t) = ToSet(s) \union {b}
  <2>1. \A q : q \in ToSet(t) <=> \E i \in 1 .. Len(t) : t[i] = q
    BY <1>4, ListIs
  <2>2. \A q : q \in ToSet(s) <=> \E i \in 1 .. Len(s) : s[i] = q
    BY ListIs
  <2>3. ASSUME NEW q \in ToSet(t) PROVE q \in ToSet(s) \union {b}
    <3>1. PICK i \in 1 .. Len(t) : t[i] = q
      BY <2>1
    <3>2. i = 1 \/ i \in 2 .. Len(t)
      BY <1>2, ListIs
    <3>. QED  BY <1>3, <2>2, <3>1, <3>2
  <2>4. ASSUME NEW q \in ToSet(s) PROVE q \in ToSet(t)
    <3>1. PICK i \in 1 .. Len(s) : s[i] = q
      BY <2>2
    <3>2. i + 1 \in 2 .. Len(t) /\ i + 1 \in 1 .. Len(t) /\ (i + 1) - 1 = i
      BY <1>2, ListIs
    <3>3. t[i + 1] = s[(i + 1) - 1]
      BY <1>3, <3>2
    <3>. QED  BY <2>1, <3>1, <3>2, <3>3
  <2>5. b \in ToSet(t)
    <3>1. 1 \in 1 .. Len(t)
      BY <1>2, ListIs
    <3>. QED  BY <1>3, <2>1, <3>1
  <2>. QED  BY <2>3, <2>4, <2>5
<1>. QED  BY <1>4, <1>5 DEF t

LEMMA ListReplace ==
  ASSUME NEW s \in Lists, NEW i \in 1 .. Len(s), NEW b \in BlockSet, b \notin ToSet(s),
         NEW t \in Seq(BlockSet), Len(t) = Len(s),
         \A j \in 1 .. Len(s) : t[j] = IF j = i THEN b ELSE s[j]
  PROVE  t \in Lists /\ ToSet(t) = (ToSet(s) \ {s[i]}) \union {b}
<1>1. t \in Seq(BlockSet) /\ Len(t) = Len(s)
      /\ \A j \in 1 .. Len(s) : t[j] = IF j = i THEN b ELSE s[j]
  OBVIOUS
<1>2. \A j \in 1 .. Len(s) : s[j] # b
  BY ListIs
<1>3. t \in Lists
  BY <1>1, <1>2, ListIs, ListOf
<1>4. ToSet(t) = (ToSet(s) \ {s[i]}) \union {b}
  <2>1. \A q : q \in ToSet(t) <=> \E j \in 1 .. Len(s) : t[j] = q
    BY <1>1, <1>3, ListIs
  <2>2. \A q : q \in ToSet(s) <=> \E j \in 1 .. Len(s) : s[j] = q
    BY ListIs
  <2>3. \A j \in 1 .. Len(s) : s[j] = s[i] => j = i
    BY ListIs
  <2>4. ASSUME NEW q \in ToSet(t) PROVE q \in (ToSet(s) \ {s[i]}) \union {b}
    <3>1. PICK j \in 1 .. Len(s) : t[j] = q
      BY <2>1
    <3>2. CASE j = i
      BY <1>1, <3>1, <3>2
    <3>3. CASE j # i
      <4>1. q = s[j] /\ s[j] # s[i]
        BY <1>1, <2>3, <3>1, <3>3
      <4>. QED  BY <2>2, <4>1
    <3>. QED  BY <3>2, <3>3
  <2>5. ASSUME NEW q \in (ToSet(s) \ {s[i]}) \union {b} PROVE q \in ToSet(t)
    BY <1>1, <2>1, <2>2
  <2>. QED  BY <2>4, <2>5
<1>. QED  BY <1>1, <1>3, <1>4

LEMMA ListRemove ==
  ASSUME NEW s \in Lists, NEW i \in 1 .. Len(s)
  PROVE  /\ RemoveAt(s, i) \in Lists
         /\ ToSet(RemoveAt(s, i)) = ToSet(s) \ {s[i]}
         /\ Len(RemoveAt(s, i)) = Len(s) - 1
         /\ \A j \in 1 .. Len(s) - 1 : RemoveAt(s, i)[j] = s[IF j < i THEN j ELSE j + 1]
<1> DEFINE t == RemoveAt(s, i)
<1>1. s \in Seq(BlockSet) /\ Len(s) \in Nat /\ \A j, k \in 1 .. Len(s) : s[j] = s[k] => j = k
  BY ListIs
<1>2. /\ t \in Seq(BlockSet) /\ Len(t) = Len(s) - 1
      /\ \A j \in 1 .. Len(s) - 1 : t[j] = s[IF j < i THEN j ELSE j + 1]
  BY <1>1, RemoveAtIs
<1>. HIDE DEF t
<1>3. t \in Lists
  <2>1. ASSUME NEW j \in 1 .. Len(t), NEW k \in 1 .. Len(t), t[j] = t[k]
        PROVE  j = k
    <3> DEFINE m == IF j < i THEN j ELSE j + 1
               n == IF k < i THEN k ELSE k + 1
    <3>1. m \in 1 .. Len(s) /\ n \in 1 .. Len(s) /\ t[j] = s[m] /\ t[k] = s[n]
      BY <1>1, <1>2
    <3>. HIDE DEF m, n
    <3>2. m = n
      BY <1>1, <2>1, <3>1
    <3>. QED  BY <1>1, <1>2, <3>2 DEF m, n
  <2>. QED  BY <1>2, <2>1, ListOf
<1>4. ToSet(t) = ToSet(s) \ {s[i]}
  <2>0. /\ \A q : q \in ToSet(t) <=> \E j \in 1 .. Len(t) : t[j] = q
        /\ \A q : q \in ToSet(s) <=> \E j \in 1 .. Len(s) : s[j] = q
    BY <1>3, ListIs
  <2>1. ASSUME NEW q \in ToSet(t) PROVE q \in ToSet(s) \ {s[i]}
    <3>1. PICK j \in 1 .. Len(t) : t[j] = q
      BY <2>0
    <3> DEFINE m == IF j < i THEN j ELSE j + 1
    <3>2. m \in 1 .. Len(s) /\ t[j] = s[m] /\ m # i
      BY <1>1, <1>2, <3>1
    <3>. HIDE DEF m
    <3>3. s[m] # s[i]
      BY <1>1, <3>2
    <3>. QED  BY <2>0, <3>1, <3>2, <3>3
  <2>2. ASSUME NEW q \in ToSet(s), q # s[i] PROVE q \in ToSet(t)
    <3>1. PICK m \in 1 .. Len(s) : s[m] = q
      BY <2>0
    <3>2. CASE m < i
      <4>1. m \in 1 .. Len(t) /\ t[m] = q
        BY <1>1, <1>2, <3>1, <3>2
      <4>. QED  BY <2>0, <4>1
    <3>3. CASE m > i
      <4>1. m - 1 \in 1 .. Len(t) /\ ~(m - 1 < i) /\ (m - 1) + 1 = m
        BY <1>1, <1>2, <3>3
      <4>2. t[m - 1] = q
        BY <1>2, <3>1, <4>1
      <4>. QED  BY <2>0, <4>1, <4>2
    <3>4. m # i
      BY <2>2, <3>1
    <3>. QED  BY <3>2, <3>3, <3>4
  <2>. QED  BY <2>1, <2>2
<1>. QED  BY <1>2, <1>3, <1>4 DEF t
-----------------------------------------------------------------------------
\* the entries that are sorted before the entry i, and itself
UpTo(key, n, i) == {j \in 1 .. n : key[j] < key[i] \/ (key[j] = key[i] /\ j <= i)}
Ranks(key, n) == [i \in 1 .. n |-> Cardinality(UpTo(key, n, i))]

\* Each entry has a rank of its own, in the order of the keys.
LEMMA RankIs ==
  ASSUME NEW n \in Nat, NEW key, \A i \in 1 .. n : key[i] \in Int
  PROVE  /\ Ranks(key, n) \in Bijection(1 .. n, 1 .. n)
         /\ \A i, j \in 1 .. n : Ranks(key, n)[i] < Ranks(key, n)[j] => key[i] <= key[j]
<1> DEFINE B(i) == UpTo(key, n, i)
           r == Ranks(key, n)
<1>1. IsFiniteSet(1 .. n) /\ Cardinality(1 .. n) = n
  BY FS_Interval
<1>2. \A i \in 1 .. n : B(i) \in SUBSET (1 .. n) /\ i \in B(i)
  BY DEF UpTo
<1>3. \A i, j \in 1 .. n : key[i] < key[j] \/ (key[i] = key[j] /\ i <= j) =>
         B(i) \subseteq B(j)
  BY DEF UpTo
<1>4. \A i, j \in 1 .. n : (key[i] < key[j] \/ (key[i] = key[j] /\ i <= j)) /\ i # j =>
         j \notin B(i)
  BY DEF UpTo
<1>5. \A i \in 1 .. n : r[i] = Cardinality(B(i))
  BY DEF Ranks
<1>6. \A i \in 1 .. n : IsFiniteSet(B(i)) /\ Cardinality(B(i)) \in 1 .. n
  <2>1. ASSUME NEW i \in 1 .. n
        PROVE  IsFiniteSet(B(i)) /\ Cardinality(B(i)) \in 1 .. n
    <3> DEFINE T == B(i)
    <3>1. T \in SUBSET (1 .. n) /\ i \in T
      BY <1>2
    <3>. HIDE DEF T
    <3>2. IsFiniteSet(T) /\ Cardinality(T) <= n
      BY <1>1, <3>1, FS_Subset
    <3>3. Cardinality(T) \in Nat /\ Cardinality(T) # 0
      BY <3>1, <3>2, FS_CardinalityType, FS_EmptySet
    <3>. QED  BY <3>2, <3>3 DEF T
  <2>. QED  BY <2>1
<1>7. \A i, j \in 1 .. n : (key[i] < key[j] \/ (key[i] = key[j] /\ i <= j)) /\ i # j =>
         r[i] < r[j]
  <2>1. ASSUME NEW i \in 1 .. n, NEW j \in 1 .. n, i # j,
               key[i] < key[j] \/ (key[i] = key[j] /\ i <= j)
        PROVE  r[i] < r[j]
    <3> DEFINE T == B(i)
               U == B(j)
    <3>1. T \in SUBSET U /\ j \in U /\ j \notin T
      BY <1>2, <1>3, <1>4, <2>1
    <3>2. /\ IsFiniteSet(T) /\ IsFiniteSet(U) /\ Cardinality(T) \in 1 .. n
          /\ Cardinality(U) \in 1 .. n /\ r[i] = Cardinality(T) /\ r[j] = Cardinality(U)
      BY <1>5, <1>6
    <3>. HIDE DEF T, U, r
    <3>3. Cardinality(T) <= Cardinality(U) /\ Cardinality(T) # Cardinality(U)
      BY <3>1, <3>2, FS_Subset
    <3>. QED  BY <3>2, <3>3
  <2>. QED  BY <2>1
<1>8. r \in [1 .. n -> 1 .. n]
  BY <1>6 DEF Ranks
<1>. HIDE DEF r, B
<1>9. \A i, j \in 1 .. n : r[i] = r[j] => i = j
  <2>1. ASSUME NEW i \in 1 .. n, NEW j \in 1 .. n, i # j PROVE r[i] # r[j]
    <3>1. r[i] \in Int /\ r[j] \in Int /\ key[i] \in Int /\ key[j] \in Int
      BY <1>8
    <3>2. CASE key[i] < key[j] \/ (key[i] = key[j] /\ i <= j)
      BY <1>7, <2>1, <3>1, <3>2
    <3>3. CASE key[j] < key[i] \/ (key[j] = key[i] /\ j <= i)
      BY <1>7, <2>1, <3>1, <3>3
    <3>. QED  BY <2>1, <3>1, <3>2, <3>3
  <2>. QED  BY <2>1
<1>10. r \in Injection(1 .. n, 1 .. n)
  BY <1>8, <1>9 DEF Injection, IsInjective
<1>11. r \in Surjection(1 .. n, 1 .. n)
  BY <1>1, <1>10, FS_Injection
<1>12. \A i, j \in 1 .. n : r[i] < r[j] => key[i] <= key[j]
  <2>1. ASSUME NEW i \in 1 .. n, NEW j \in 1 .. n, r[i] < r[j] PROVE key[i] <= key[j]
    <3>1. r[i] \in Int /\ r[j] \in Int /\ key[i] \in Int /\ key[j] \in Int
      BY <1>8
    <3>2. ASSUME key[j] < key[i] PROVE FALSE
      BY <1>7, <2>1, <3>1, <3>2
    <3>. QED  BY <3>1, <3>2
  <2>. QED  BY <2>1
<1>. QED  BY <1>10, <1>11, <1>12 DEF Bijection, r

\* A sorted list has the same entries, in the order of the keys.
LEMMA SortedIs ==
  ASSUME NEW s \in Lists, NEW key, \A i \in 1 .. Len(s) : key[i] \in Int
  PROVE  /\ SortedBy(key, s) \in Lists
         /\ ToSet(SortedBy(key, s)) = ToSet(s)
         /\ Len(SortedBy(key, s)) = Len(s)
         /\ \E at \in Bijection(1 .. Len(s), 1 .. Len(s)) :
               /\ \A k \in 1 .. Len(s) : SortedBy(key, s)[k] = s[at[k]]
               /\ \A j, k \in 1 .. Len(s) : j < k => key[at[j]] <= key[at[k]]
<1> DEFINE n == Len(s)
           r == Ranks(key, n)
           at == [k \in 1 .. n |-> CHOOSE i \in 1 .. n : r[i] = k]
           t == SortedBy(key, s)
<1>1. n \in Nat /\ DOMAIN s = 1 .. n
  BY ListIs
<1>2. /\ r \in [1 .. n -> 1 .. n] /\ \A i, j \in 1 .. n : r[i] = r[j] => i = j
      /\ \A k \in 1 .. n : \E i \in 1 .. n : r[i] = k
      /\ \A i, j \in 1 .. n : r[i] < r[j] => key[i] <= key[j]
  BY <1>1, RankIs DEF Bijection, Injection, Surjection, IsInjective
<1>3. \A i \in 1 .. n : r[i] = Cardinality({j \in 1 .. n : key[j] < key[i] \/ (key[j] = key[i] /\ j <= i)})
  BY DEF Ranks, UpTo
<1>4. t = [k \in 1 .. n |-> s[at[k]]]
  <2>1. t = [k \in 1 .. n |-> s[CHOOSE i \in 1 .. n :
              Cardinality({j \in 1 .. n : key[j] < key[i] \/ (key[j] = key[i] /\ j <= i)}) = k]]
    <3>1. t = [k \in DOMAIN s |-> s[CHOOSE i \in DOMAIN s :
                Cardinality({j \in DOMAIN s : key[j] < key[i] \/ (key[j] = key[i] /\ j <= i)}) = k]]
      BY DEF SortedBy
    <3>. HIDE DEF t
    <3>. QED  BY <1>1, <3>1
  <2>2. ASSUME NEW k \in 1 .. n
        PROVE  (CHOOSE i \in 1 .. n :
                 Cardinality({j \in 1 .. n : key[j] < key[i] \/ (key[j] = key[i] /\ j <= i)}) = k)
               = CHOOSE i \in 1 .. n : r[i] = k
    BY <1>3
  <2>. QED  BY <2>1, <2>2
<1>. HIDE DEF r, t
<1>5. \A k \in 1 .. n : at[k] \in 1 .. n /\ r[at[k]] = k
  BY <1>2
<1>. HIDE DEF at
<1>6. \A j, k \in 1 .. n : at[j] = at[k] => j = k
  BY <1>5
<1>7. \A i \in 1 .. n : r[i] \in 1 .. n /\ at[r[i]] = i
  BY <1>2, <1>5
<1>8. at \in Bijection(1 .. n, 1 .. n)
  <2>1. at \in [1 .. n -> 1 .. n]
    BY <1>5 DEF at
  <2>. QED  BY <1>5, <1>6, <1>7, <2>1 DEF Bijection, Injection, Surjection, IsInjective
<1>9. \A j, k \in 1 .. n : j < k => key[at[j]] <= key[at[k]]
  <2>1. ASSUME NEW j \in 1 .. n, NEW k \in 1 .. n, j < k PROVE key[at[j]] <= key[at[k]]
    <3>1. at[j] \in 1 .. n /\ at[k] \in 1 .. n /\ r[at[j]] = j /\ r[at[k]] = k
      BY <1>5
    <3>2. r[at[j]] < r[at[k]]
      BY <2>1, <3>1
    <3>. QED  BY <1>2, <3>1, <3>2
  <2>. QED  BY <2>1
<1>10. t \in Seq(BlockSet) /\ Len(t) = n /\ \A k \in 1 .. n : t[k] = s[at[k]]
  <2>1. \A k \in 1 .. n : s[at[k]] \in BlockSet
    BY <1>5, ListIs
  <2>2. t \in [1 .. n -> BlockSet]
    BY <1>4, <2>1
  <2>3. t \in Seq(BlockSet)
    BY <1>1, <2>2, SeqDef
  <2>4. DOMAIN t = 1 .. n
    BY <1>4
  <2>. QED  BY <1>1, <1>4, <2>3, <2>4, LenProperties
<1>11. t \in Lists
  <2>1. ASSUME NEW i \in 1 .. Len(t), NEW j \in 1 .. Len(t), t[i] = t[j] PROVE i = j
    <3>1. at[i] = at[j]
      <4>1. /\ i \in 1 .. n /\ j \in 1 .. n /\ at[i] \in 1 .. n /\ at[j] \in 1 .. n
            /\ s[at[i]] = s[at[j]]
        BY <1>5, <1>10, <2>1
      <4>2. \A a, b \in 1 .. n : s[a] = s[b] => a = b
        BY ListIs
      <4>. QED  BY <4>1, <4>2
    <3>. QED  BY <1>6, <1>10, <3>1
  <2>. QED  BY <1>10, <2>1, ListOf
<1>12. ToSet(t) = ToSet(s)
  <2>1. /\ \A q : q \in ToSet(t) <=> \E i \in 1 .. n : t[i] = q
        /\ \A q : q \in ToSet(s) <=> \E i \in 1 .. n : s[i] = q
    BY <1>10, <1>11, ListIs
  <2>. HIDE DEF n
  <2>2. ASSUME NEW q \in ToSet(t) PROVE q \in ToSet(s)
    BY <1>5, <1>10, <2>1
  <2>3. ASSUME NEW q \in ToSet(s) PROVE q \in ToSet(t)
    <3>1. PICK i \in 1 .. n : s[i] = q
      BY <2>1
    <3>2. r[i] \in 1 .. n /\ t[r[i]] = q
      BY <1>7, <1>10, <3>1
    <3>. QED  BY <2>1, <3>2
  <2>. QED  BY <2>2, <2>3
<1>. QED  BY <1>8, <1>9, <1>10, <1>11, <1>12 DEF t
-----------------------------------------------------------------------------
(* Sets of blocks that share no byte.                                      *)
LEMMA BlockIs ==
  ASSUME NEW b \in BlockSet
  PROVE  /\ b[1] \in Nat /\ b[2] \in Nat /\ b[2] > 0 /\ b = <<b[1], b[2]>>
         /\ \A x : x \in Bytes(b) <=> x \in Int /\ b[1] <= x /\ x < b[1] + b[2]
         /\ b[1] \in Bytes(b) /\ b[1] + b[2] - 1 \in Bytes(b)
<1>1. b[1] \in Nat /\ b[2] \in Nat /\ b[2] > 0 /\ b = <<b[1], b[2]>>
  BY DEF BlockSet
<1>. QED  BY <1>1 DEF Bytes

Disjoint(B) == \A b, c \in B : b # c => \A x \in Bytes(b) : x \notin Bytes(c)
Covered(B) == UNION {Bytes(b) : b \in B}
HeapBytes == BaseAddr .. BaseAddr + HeapSize - 1

Partition(B) == B \in SUBSET BlockSet /\ Disjoint(B) /\ Covered(B) = HeapBytes

LEMMA CoveredIs ==
  ASSUME NEW B
  PROVE  \A x : x \in Covered(B) <=> \E b \in B : x \in Bytes(b)
BY DEF Covered

\* Blocks of a partition are replaced by others for the same bytes.
LEMMA PartitionReplace ==
  ASSUME NEW B, Partition(B), NEW D \in SUBSET B, NEW N \in SUBSET BlockSet,
         Disjoint(N), Covered(N) = Covered(D)
  PROVE  Partition((B \ D) \union N) /\ (B \ D) \intersect N = {}
<1> DEFINE C == (B \ D) \union N
<1>1. B \in SUBSET BlockSet /\ Disjoint(B) /\ Covered(B) = HeapBytes
  BY DEF Partition
<1>2. ASSUME NEW b \in B \ D, NEW c \in N, NEW x \in Bytes(b) PROVE x \notin Bytes(c)
  <2>1. SUFFICES ASSUME x \in Bytes(c) PROVE FALSE
    OBVIOUS
  <2>2. PICK d \in D : x \in Bytes(d)
    BY <2>1, CoveredIs
  <2>. QED  BY <1>1, <2>2 DEF Disjoint
<1>3. Disjoint(C)
  <2>1. ASSUME NEW b \in C, NEW c \in C, b # c, NEW x \in Bytes(b), x \in Bytes(c) PROVE FALSE
    <3>1. CASE b \in B \ D /\ c \in B \ D
      BY <1>1, <2>1, <3>1 DEF Disjoint
    <3>2. CASE b \in N /\ c \in N
      BY <2>1, <3>2 DEF Disjoint
    <3>3. CASE b \in B \ D /\ c \in N
      BY <1>2, <2>1, <3>3
    <3>4. CASE b \in N /\ c \in B \ D
      BY <1>2, <2>1, <3>4
    <3>. QED  BY <3>1, <3>2, <3>3, <3>4
  <2>. HIDE DEF C
  <2>. QED  BY <2>1 DEF Disjoint
<1>4. Covered(C) = Covered(B)
  <2>1. ASSUME NEW x \in Covered(C) PROVE x \in Covered(B)
    <3>1. PICK b \in C : x \in Bytes(b)
      BY <2>1, CoveredIs
    <3>2. CASE b \in B
      BY <3>1, <3>2, CoveredIs
    <3>3. CASE b \in N
      <4>1. x \in Covered(D)
        BY <3>1, <3>3, CoveredIs
      <4>. QED  BY <4>1, CoveredIs
    <3>. QED  BY <3>2, <3>3
  <2>2. ASSUME NEW x \in Covered(B) PROVE x \in Covered(C)
    <3>1. PICK b \in B : x \in Bytes(b)
      BY <2>2, CoveredIs
    <3>2. CASE b \notin D
      BY <3>1, <3>2, CoveredIs
    <3>3. CASE b \in D
      <4>1. x \in Covered(N)
        BY <3>1, <3>3, CoveredIs
      <4>. QED  BY <4>1, CoveredIs
    <3>. QED  BY <3>2, <3>3
  <2>. HIDE DEF C
  <2>. QED  BY <2>1, <2>2
<1>5. (B \ D) \intersect N = {}
  <2>1. ASSUME NEW b \in B \ D, b \in N PROVE FALSE
    <3>1. b[1] \in Bytes(b)
      BY <2>1, BlockIs
    <3>. QED  BY <1>2, <2>1, <3>1
  <2>. QED  BY <2>1
<1>6. C \in SUBSET BlockSet
  BY <1>1
<1>. HIDE DEF C
<1>. QED  BY <1>1, <1>3, <1>4, <1>5, <1>6 DEF Partition, C

\* A block of a partition is split in two.
LEMMA PartitionSplit ==
  ASSUME NEW B, Partition(B), NEW b \in B, NEW size \in Nat, 0 < size, size < b[2]
  PROVE  /\ <<b[1], size>> \in BlockSet /\ Split(b, size) \in BlockSet
         /\ Split(b, size) # <<b[1], size>>
         /\ <<b[1], size>> \notin B \ {b} /\ Split(b, size) \notin B
         /\ Partition((B \ {b}) \union {<<b[1], size>>, Split(b, size)})
<1> DEFINE c == <<b[1], size>>
           r == Split(b, size)
<1>1. B \in SUBSET BlockSet /\ Disjoint(B)
  BY DEF Partition
<1>2. /\ b[1] \in Nat /\ b[2] \in Nat /\ b[2] > 0
      /\ \A x : x \in Bytes(b) <=> x \in Int /\ b[1] <= x /\ x < b[1] + b[2]
  BY <1>1, BlockIs
<1>3. c \in BlockSet /\ r \in BlockSet /\ c[1] = b[1] /\ c[2] = size
      /\ r[1] = b[1] + size /\ r[2] = b[2] - size
  BY <1>2 DEF BlockSet, Split
<1>. HIDE DEF c, r
<1>4. /\ \A x : x \in Bytes(c) <=> x \in Int /\ b[1] <= x /\ x < b[1] + size
      /\ \A x : x \in Bytes(r) <=> x \in Int /\ b[1] + size <= x /\ x < b[1] + b[2]
  <2>1. \A x : x \in Bytes(c) <=> x \in Int /\ c[1] <= x /\ x < c[1] + c[2]
    BY <1>3, BlockIs
  <2>2. \A x : x \in Bytes(r) <=> x \in Int /\ r[1] <= x /\ x < r[1] + r[2]
    BY <1>3, BlockIs
  <2>. QED  BY <1>2, <1>3, <2>1, <2>2
<1>5. c # r
  BY <1>2, <1>3
<1>6. Disjoint({c, r})
  BY <1>2, <1>4 DEF Disjoint
<1>7. Covered({c, r}) = Covered({b})
  <2>1. ASSUME NEW x PROVE x \in Covered({c, r}) <=> x \in Covered({b})
    <3>1. x \in Covered({c, r}) <=> x \in Bytes(c) \/ x \in Bytes(r)
      BY CoveredIs
    <3>2. x \in Covered({b}) <=> x \in Bytes(b)
      BY CoveredIs
    <3>. QED  BY <1>2, <1>4, <3>1, <3>2
  <2>. QED  BY <2>1
<1>8. Partition((B \ {b}) \union {c, r}) /\ (B \ {b}) \intersect {c, r} = {}
  BY <1>3, <1>6, <1>7, PartitionReplace
<1>9. r # b
  BY <1>2, <1>3
<1>. QED  BY <1>3, <1>5, <1>8, <1>9 DEF c, r

\* Two blocks that touch become one.
LEMMA PartitionMerge ==
  ASSUME NEW B, Partition(B), NEW b \in B, NEW e \in B, e[1] = b[1] + b[2]
  PROVE  /\ <<b[1], b[2] + e[2]>> \in BlockSet
         /\ <<b[1], b[2] + e[2]>> \notin B
         /\ Partition((B \ {b, e}) \union {<<b[1], b[2] + e[2]>>})
<1> DEFINE c == <<b[1], b[2] + e[2]>>
<1>1. B \in SUBSET BlockSet /\ Disjoint(B)
  BY DEF Partition
<1>2. /\ b[1] \in Nat /\ b[2] \in Nat /\ b[2] > 0 /\ e[1] \in Nat /\ e[2] \in Nat /\ e[2] > 0
      /\ \A x : x \in Bytes(b) <=> x \in Int /\ b[1] <= x /\ x < b[1] + b[2]
      /\ \A x : x \in Bytes(e) <=> x \in Int /\ e[1] <= x /\ x < e[1] + e[2]
  BY <1>1, BlockIs
<1>3. c \in BlockSet /\ c[1] = b[1] /\ c[2] = b[2] + e[2]
  BY <1>2 DEF BlockSet
<1>. HIDE DEF c
<1>4. \A x : x \in Bytes(c) <=> x \in Int /\ b[1] <= x /\ x < b[1] + b[2] + e[2]
  <2>1. \A x : x \in Bytes(c) <=> x \in Int /\ c[1] <= x /\ x < c[1] + c[2]
    BY <1>3, BlockIs
  <2>. QED  BY <1>2, <1>3, <2>1
<1>5. Disjoint({c})
  BY DEF Disjoint
<1>6. Covered({c}) = Covered({b, e})
  <2>1. ASSUME NEW x PROVE x \in Covered({c}) <=> x \in Covered({b, e})
    <3>1. x \in Covered({b, e}) <=> x \in Bytes(b) \/ x \in Bytes(e)
      BY CoveredIs
    <3>2. x \in Covered({c}) <=> x \in Bytes(c)
      BY CoveredIs
    <3>. QED  BY <1>2, <1>4, <3>1, <3>2
  <2>. QED  BY <2>1
<1>7. Partition((B \ {b, e}) \union {c}) /\ (B \ {b, e}) \intersect {c} = {}
  BY <1>3, <1>5, <1>6, PartitionReplace
<1>8. c # b /\ c # e
  BY <1>2, <1>3
<1>. QED  BY <1>3, <1>7, <1>8 DEF c
-----------------------------------------------------------------------------
\* Blocks of a partition are as many as their first bytes.
LEMMA PartitionFinite ==
  ASSUME NEW B, Partition(B)
  PROVE  IsFiniteSet(B)
<1> DEFINE f == [b \in B |-> b[1]]
<1>1. /\ B \in SUBSET BlockSet
      /\ \A b, c \in B : b # c => \A x \in Bytes(b) : x \notin Bytes(c)
      /\ Covered(B) = HeapBytes
  BY DEF Partition, Disjoint
<1>2. \A b \in B : b[1] \in Bytes(b)
  BY <1>1, BlockIs
<1>3. f \in [B -> HeapBytes]
  <2>1. \A b \in B : b[1] \in HeapBytes
    BY <1>1, <1>2, CoveredIs
  <2>. QED  BY <2>1
<1>4. \A b, c \in B : f[b] = f[c] => b = c
  BY <1>1, <1>2
<1>. HIDE DEF f
<1>5. f \in Injection(B, HeapBytes)
  BY <1>3, <1>4 DEF Injection, IsInjective
<1>6. IsFiniteSet(HeapBytes)
  BY MallocAssumption, FS_Interval DEF HeapBytes
<1>. QED  BY <1>5, <1>6, FS_Injection

\* the recursive function that adds up the sizes of the subsets of B
Sizes(f, B) ==
  f = [T \in SUBSET B |-> IF T = {} THEN 0 ELSE AnyOf(T)[2] + f[T \ {AnyOf(T)}]]

LEMMA SizesExist ==
  ASSUME NEW B, IsFiniteSet(B)
  PROVE  \E f : Sizes(f, B)
<1> DEFINE g == [b \in B |-> b[2]]
<1>1. PICK f : Sums(f, g, B)
  BY SumExists
<1>2. f = [T \in SUBSET B |-> IF T = {} THEN 0 ELSE g[AnyOf(T)] + f[T \ {AnyOf(T)}]]
  BY <1>1 DEF Sums, SumStep
<1>3. ASSUME NEW T \in SUBSET B, T # {} PROVE g[AnyOf(T)] = AnyOf(T)[2]
  <2>1. AnyOf(T) \in B
    BY <1>3, AnyOfIs
  <2>. QED  BY <2>1
<1>. HIDE DEF g
<1>4. f = [T \in SUBSET B |-> IF T = {} THEN 0 ELSE AnyOf(T)[2] + f[T \ {AnyOf(T)}]]
  BY <1>2, <1>3
<1>. QED  BY <1>4 DEF Sizes

\* The sizes of blocks that share no byte add up to the number of their bytes.
LEMMA SizesAddUp ==
  ASSUME NEW B, IsFiniteSet(B), B \in SUBSET BlockSet, Disjoint(B)
  PROVE  /\ IsFiniteSet(Covered(B))
         /\ MapThenSumSet(LAMBDA b : b[2], B) = Cardinality(Covered(B))
<1> DEFINE F == CHOOSE f : Sizes(f, B)
           D == {n \in Nat : \A T \in SUBSET B : Cardinality(T) <= n =>
                               /\ IsFiniteSet(Covered(T))
                               /\ F[T] = Cardinality(Covered(T))}
<1>1. MapThenSumSet(LAMBDA b : b[2], B) = F[B]
  BY Zenon DEF MapThenSumSet, MapThenFoldSet, Sizes, AnyOf
<1>2. \A T \in SUBSET B : F[T] = IF T = {} THEN 0 ELSE AnyOf(T)[2] + F[T \ {AnyOf(T)}]
  <2>1. Sizes(F, B)
    BY SizesExist
  <2>. HIDE DEF F
  <2>. QED  BY <2>1 DEF Sizes
<1>. HIDE DEF F
<1>3. \A T \in SUBSET B : /\ IsFiniteSet(T) /\ Cardinality(T) \in Nat /\ (Cardinality(T) = 0 <=> T = {})
                          /\ T # {} => /\ AnyOf(T) \in T /\ T \ {AnyOf(T)} \in SUBSET B
                                       /\ Cardinality(T \ {AnyOf(T)}) = Cardinality(T) - 1
  BY FS_Subset, FS_CardinalityType, FS_EmptySet, FS_RemoveElement, AnyOfIs
<1>4. IsFiniteSet(Covered({})) /\ F[{}] = Cardinality(Covered({}))
  <2>1. Covered({}) = {}
    BY DEF Covered
  <2>. QED  BY <1>2, <2>1, FS_EmptySet
<1>5. 0 \in D
  <2>1. ASSUME NEW T \in SUBSET B, Cardinality(T) <= 0
        PROVE  IsFiniteSet(Covered(T)) /\ F[T] = Cardinality(Covered(T))
    <3>1. T = {}
      <4>1. IsFiniteSet(T) /\ Cardinality(T) \in Nat
        BY <1>3
      <4>. QED  BY <2>1, <4>1, FS_EmptySet
    <3>. QED  BY <1>4, <3>1
  <2>. QED  BY <2>1
<1>6. ASSUME NEW n \in D PROVE n + 1 \in D
  <2>1. ASSUME NEW T \in SUBSET B, Cardinality(T) <= n + 1
        PROVE  IsFiniteSet(Covered(T)) /\ F[T] = Cardinality(Covered(T))
    <3>1. CASE T = {}
      BY <1>4, <3>1
    <3>2. CASE T # {}
      <4> DEFINE a == AnyOf(T)
                 U == T \ {a}
      <4>1. /\ a \in T /\ a \in B /\ a \in BlockSet /\ U \in SUBSET B /\ Cardinality(U) <= n
            /\ F[T] = a[2] + F[U]
        BY <1>2, <1>3, <1>6, <2>1, <3>2
      <4>2. IsFiniteSet(Covered(U)) /\ F[U] = Cardinality(Covered(U))
        BY <1>6, <4>1
      <4>3. Covered(T) = Covered(U) \union Bytes(a)
        BY <4>1 DEF Covered
      <4>4. Covered(U) \intersect Bytes(a) = {}
        <5>1. ASSUME NEW x \in Bytes(a), x \in Covered(U) PROVE FALSE
          <6>1. PICK b \in U : x \in Bytes(b)
            BY <5>1, CoveredIs
          <6>. QED  BY <4>1, <5>1, <6>1 DEF Disjoint
        <5>. QED  BY <5>1
      <4>. HIDE DEF a, U
      <4>5. IsFiniteSet(Bytes(a)) /\ Cardinality(Bytes(a)) = a[2]
        <5>1. a[1] \in Int /\ a[2] \in Nat /\ a[2] > 0
          BY <4>1, BlockIs
        <5>2. a[1] + a[2] - 1 \in Int
          BY <5>1
        <5>3. /\ IsFiniteSet(a[1] .. a[1] + a[2] - 1)
              /\ Cardinality(a[1] .. a[1] + a[2] - 1)
                   = IF a[1] > a[1] + a[2] - 1 THEN 0 ELSE (a[1] + a[2] - 1) - a[1] + 1
          BY <5>1, <5>2, FS_Interval
        <5>4. ~ a[1] > a[1] + a[2] - 1 /\ (a[1] + a[2] - 1) - a[1] + 1 = a[2]
          BY <5>1
        <5>. QED  BY <5>3, <5>4 DEF Bytes
      <4>6. /\ IsFiniteSet(Covered(U) \union Bytes(a))
            /\ Cardinality(Covered(U) \union Bytes(a))
                 = Cardinality(Covered(U)) + Cardinality(Bytes(a)) - Cardinality({})
        BY <4>2, <4>4, <4>5, FS_Union
      <4>7. Cardinality({}) = 0 /\ a[2] \in Nat /\ Cardinality(Covered(U)) \in Nat
        BY <4>1, <4>2, BlockIs, FS_EmptySet, FS_CardinalityType
      <4>. QED  BY <4>1, <4>2, <4>3, <4>5, <4>6, <4>7
    <3>. QED  BY <3>1, <3>2
  <2>. QED  BY <1>6, <2>1
<1>. HIDE DEF D
<1>7. Cardinality(B) \in D
  <2>1. D = Nat
    <3>1. D \in SUBSET Nat
      BY DEF D
    <3>. QED  BY <1>5, <1>6, <3>1, AllNaturals
  <2>. QED  BY <1>3, <2>1
<1>. QED  BY <1>1, <1>3, <1>7 DEF D

\* The sizes of the two parts of a partition add up to the heap.
LEMMA PartitionSizes ==
  ASSUME NEW B, NEW C, Partition(B \union C), B \intersect C = {}
  PROVE  MapThenSumSet(LAMBDA b : b[2], B) + MapThenSumSet(LAMBDA b : b[2], C) = HeapSize
<1>1. /\ B \in SUBSET BlockSet /\ C \in SUBSET BlockSet /\ Disjoint(B) /\ Disjoint(C)
      /\ Covered(B \union C) = HeapBytes /\ Disjoint(B \union C)
  BY DEF Partition, Disjoint
<1>2. IsFiniteSet(B) /\ IsFiniteSet(C)
  <2>1. IsFiniteSet(B \union C) /\ B \in SUBSET (B \union C) /\ C \in SUBSET (B \union C)
    BY PartitionFinite
  <2>. QED  BY <2>1, FS_Subset
<1>3. /\ IsFiniteSet(Covered(B)) /\ MapThenSumSet(LAMBDA b : b[2], B) = Cardinality(Covered(B))
      /\ IsFiniteSet(Covered(C)) /\ MapThenSumSet(LAMBDA b : b[2], C) = Cardinality(Covered(C))
  BY <1>1, <1>2, SizesAddUp
<1>4. Covered(B) \union Covered(C) = HeapBytes
  BY <1>1 DEF Covered
<1>5. Covered(B) \intersect Covered(C) = {}
  <2>1. ASSUME NEW x \in Covered(B), x \in Covered(C) PROVE FALSE
    <3>1. PICK b \in B : x \in Bytes(b)
      BY <2>1, CoveredIs
    <3>2. PICK c \in C : x \in Bytes(c)
      BY <2>1, CoveredIs
    <3>3. b # c
      BY <3>1, <3>2
    <3>. QED  BY <1>1, <3>1, <3>2, <3>3 DEF Disjoint
  <2>. QED  BY <2>1
<1>6. /\ Cardinality(Covered(B)) \in Nat /\ Cardinality(Covered(C)) \in Nat
      /\ Cardinality(HeapBytes) = Cardinality(Covered(B)) + Cardinality(Covered(C)) - Cardinality({})
      /\ Cardinality({}) = 0
  <2>1. Cardinality(Covered(B)) \in Nat /\ Cardinality(Covered(C)) \in Nat
    BY <1>3, FS_CardinalityType
  <2>2. Cardinality(Covered(B) \union Covered(C))
          = Cardinality(Covered(B)) + Cardinality(Covered(C))
            - Cardinality(Covered(B) \intersect Covered(C))
    BY <1>3, FS_Union
  <2>. QED  BY <1>4, <1>5, <2>1, <2>2, FS_EmptySet
<1>7. Cardinality(HeapBytes) = HeapSize
  <2>1. BaseAddr \in Int /\ BaseAddr + HeapSize - 1 \in Int /\ ~ BaseAddr > BaseAddr + HeapSize - 1
        /\ (BaseAddr + HeapSize - 1) - BaseAddr + 1 = HeapSize
    BY MallocAssumption
  <2>. QED  BY <2>1, FS_Interval DEF HeapBytes
<1>. QED  BY <1>3, <1>6, <1>7
-----------------------------------------------------------------------------
(* The loop of a coalescing free, one iteration at a time.                 *)
PassStep(f, list, i) ==
  IF i = 0 THEN <<>> ELSE CHOOSE y \in {Merged(s, list[i]) : s \in {f[i - 1]}} : TRUE

Passes(f, list) == f = [i \in 0 .. Len(list) |-> PassStep(f, list, i)]

LEMMA PassStepIs ==
  ASSUME NEW f, NEW list, NEW i
  PROVE  PassStep(f, list, i) = IF i = 0 THEN <<>> ELSE Merged(f[i - 1], list[i])
<1> DEFINE m == Merged(f[i - 1], list[i])
<1>1. {Merged(s, list[i]) : s \in {f[i - 1]}} = {m}
  OBVIOUS
<1>. HIDE DEF m
<1>2. (CHOOSE y \in {m} : TRUE) = m
  OBVIOUS
<1>. QED  BY <1>1, <1>2 DEF PassStep, m

LEMMA PassesExist ==
  ASSUME NEW list, Len(list) \in Nat
  PROVE  \E f : Passes(f, list)
<1> DEFINE D == {n \in Nat : \E f : \A i \in 0 .. n : f[i] = PassStep(f, list, i)}
<1>1. 0 \in D
  <2> DEFINE f == [i \in Nat |-> <<>>]
  <2>1. \A i \in 0 .. 0 : f[i] = PassStep(f, list, i)
    BY DEF PassStep
  <2>. QED  BY <2>1
<1>2. ASSUME NEW n \in D PROVE n + 1 \in D
  <2>1. PICK f : \A i \in 0 .. n : f[i] = PassStep(f, list, i)
    BY <1>2
  <2> DEFINE h == [i \in Nat |-> PassStep(f, list, i)]
  <2>2. ASSUME NEW i \in 0 .. n + 1 PROVE h[i] = PassStep(h, list, i)
    <3>1. CASE i = 0
      BY <3>1 DEF PassStep
    <3>2. CASE i # 0
      <4>1. i - 1 \in 0 .. n /\ i \in Nat /\ i - 1 \in Nat
        BY <1>2, <3>2
      <4>2. h[i - 1] = f[i - 1]
        BY <2>1, <4>1
      <4>3. h[i] = PassStep(f, list, i)
        BY <4>1
      <4>. HIDE DEF h
      <4>. QED  BY <4>2, <4>3, <3>2, PassStepIs
    <3>. QED  BY <3>1, <3>2
  <2>. HIDE DEF h
  <2>. QED  BY <1>2, <2>2
<1>. HIDE DEF D
<1>3. D = Nat
  <2>1. D \in SUBSET Nat
    BY DEF D
  <2>. QED  BY <1>1, <1>2, <2>1, AllNaturals
<1>4. PICK f : \A i \in 0 .. Len(list) : f[i] = PassStep(f, list, i)
  BY <1>3 DEF D
<1> DEFINE h == [i \in 0 .. Len(list) |-> f[i]]
<1>5. ASSUME NEW i \in 0 .. Len(list) PROVE h[i] = PassStep(h, list, i)
  <2>1. h[i] = PassStep(f, list, i)
    BY <1>4
  <2>2. i # 0 => h[i - 1] = f[i - 1]
    OBVIOUS
  <2>. HIDE DEF h
  <2>. QED  BY <2>1, <2>2, PassStepIs
<1>6. h = [i \in 0 .. Len(list) |-> h[i]]
  OBVIOUS
<1>. HIDE DEF h
<1>7. h = [i \in 0 .. Len(list) |-> PassStep(h, list, i)]
  BY <1>5, <1>6
<1>. QED  BY <1>7 DEF Passes

LEMMA CoalesceIs ==
  ASSUME NEW list, Len(list) \in Nat
  PROVE  \E f : /\ f[0] = <<>>
                /\ \A i \in 1 .. Len(list) : f[i] = Merged(f[i - 1], list[i])
                /\ Coalesce(list) = f[Len(list)]
<1> DEFINE f == CHOOSE g : Passes(g, list)
<1>1. Coalesce(list) = f[Len(list)]
  BY Zenon DEF Coalesce, Loop, Passes, PassStep
<1>2. Passes(f, list)
  BY PassesExist
<1>. HIDE DEF f
<1>3. f = [i \in 0 .. Len(list) |-> PassStep(f, list, i)]
  BY <1>2 DEF Passes
<1>4. \A i \in 0 .. Len(list) : f[i] = PassStep(f, list, i)
  BY <1>3
<1>5. f[0] = <<>>
  BY <1>4, PassStepIs
<1>6. \A i \in 1 .. Len(list) : f[i] = Merged(f[i - 1], list[i])
  BY <1>4, PassStepIs
<1>. QED  BY <1>1, <1>5, <1>6
-----------------------------------------------------------------------------
Ascending(s) == \A j, k \in 1 .. Len(s) : j < k => s[j][1] <= s[k][1]
\* the blocks of s are in address order and no two of them touch
Separated(s) == \A j, k \in 1 .. Len(s) : j < k => s[j][1] + s[j][2] < s[k][1]

LEMMA EndsBefore ==
  ASSUME NEW B, Partition(B), NEW b \in B, NEW c \in B, b # c, b[1] <= c[1]
  PROVE  b[1] + b[2] <= c[1]
<1>1. b \in BlockSet /\ c \in BlockSet /\ \A x \in Bytes(b) : x \notin Bytes(c)
  BY DEF Partition, Disjoint
<1>2. /\ b[1] \in Nat /\ b[2] \in Nat /\ c[1] \in Nat /\ c[1] \in Bytes(c)
      /\ \A x : x \in Bytes(b) <=> x \in Int /\ b[1] <= x /\ x < b[1] + b[2]
  BY <1>1, BlockIs
<1>. QED  BY <1>1, <1>2

\* One iteration: the entry e is joined with the last block or appended.
LEMMA MergedIs ==
  ASSUME NEW s \in Lists, NEW e \in BlockSet, NEW R \in SUBSET BlockSet,
         Partition(ToSet(s) \union {e} \union R), e \notin ToSet(s),
         (ToSet(s) \union {e}) \intersect R = {}
  PROVE  /\ Merged(s, e) \in Lists
         /\ Partition(ToSet(Merged(s, e)) \union R)
         /\ ToSet(Merged(s, e)) \intersect R = {}
         /\ (Separated(s) /\ \A j \in 1 .. Len(s) : s[j][1] + s[j][2] <= e[1]) =>
               /\ Separated(Merged(s, e))
               /\ \A j \in 1 .. Len(Merged(s, e)) :
                     Merged(s, e)[j][1] + Merged(s, e)[j][2] <= e[1] + e[2]
<1> DEFINE m == Merged(s, e)
           n == Len(s)
           B == ToSet(s) \union {e} \union R
<1>1. /\ n \in Nat /\ s \in Seq(BlockSet) /\ ToSet(s) \in SUBSET BlockSet
      /\ \A j \in 1 .. n : /\ s[j] \in BlockSet /\ s[j] \in ToSet(s)
                           /\ s[j][1] \in Nat /\ s[j][2] \in Nat /\ s[j][2] > 0
      /\ e[1] \in Nat /\ e[2] \in Nat /\ e[2] > 0
      /\ s # <<>> <=> n # 0
  BY ListIs, BlockIs, EmptySeq
<1>2. CASE s # <<>> /\ e[1] = s[n][1] + s[n][2]
  <2> DEFINE b == s[n]
             c == <<b[1], b[2] + e[2]>>
  <2>1. n \in 1 .. n /\ b \in ToSet(s) /\ b \in B /\ e \in B /\ e[1] = b[1] + b[2]
    BY <1>1, <1>2
  <2>2. m = [s EXCEPT ![n] = c]
    BY <1>2 DEF Merged, Last
  <2>3. /\ c \in BlockSet /\ c \notin B /\ Partition((B \ {b, e}) \union {c})
    BY <2>1, PartitionMerge
  <2>4. c[1] = b[1] /\ c[2] = b[2] + e[2]
    OBVIOUS
  <2>. HIDE DEF m, c
  <2>5. /\ m \in Lists /\ ToSet(m) = (ToSet(s) \ {b}) \union {c} /\ Len(m) = n
        /\ \A j \in 1 .. n : m[j] = IF j = n THEN c ELSE s[j]
    <3>1. n \in 1 .. n /\ c \in BlockSet /\ c \notin ToSet(s)
      BY <2>1, <2>3
    <3>2. /\ m \in Seq(BlockSet) /\ Len(m) = n
          /\ \A j \in 1 .. n : m[j] = IF j = n THEN c ELSE s[j]
      BY <1>1, <2>2, <3>1, ExceptSeq
    <3>3. m \in Lists /\ ToSet(m) = (ToSet(s) \ {s[n]}) \union {c}
      BY <3>1, <3>2, ListReplace, SMTT(30)
    <3>. QED  BY <3>2, <3>3
  <2>6. (B \ {b, e}) \union {c} = ToSet(m) \union R
    BY <2>1, <2>5
  <2>7. ToSet(m) \intersect R = {}
    BY <2>3, <2>5
  <2>8. ASSUME Separated(s), \A j \in 1 .. n : s[j][1] + s[j][2] <= e[1]
        PROVE  Separated(m) /\ \A j \in 1 .. n : m[j][1] + m[j][2] <= e[1] + e[2]
    <3>1. ASSUME NEW j \in 1 .. n, NEW k \in 1 .. n, j < k
          PROVE  m[j][1] + m[j][2] < m[k][1]
      <4>1. j # n /\ m[j] = s[j] /\ m[k][1] = s[k][1]
        BY <1>1, <2>4, <2>5, <3>1
      <4>. QED  BY <2>8, <3>1, <4>1 DEF Separated
    <3>2. ASSUME NEW j \in 1 .. n PROVE m[j][1] + m[j][2] <= e[1] + e[2]
      <4>1. CASE j = n
        <5>1. m[j] = c /\ b[1] \in Nat /\ b[2] \in Nat
          BY <1>1, <2>1, <2>5, <4>1
        <5>. QED  BY <1>1, <2>1, <2>4, <5>1
      <4>2. CASE j # n
        BY <1>1, <2>5, <2>8, <4>2
      <4>. QED  BY <4>1, <4>2
    <3>. QED  BY <2>5, <3>1, <3>2 DEF Separated
  <2>. QED  BY <2>3, <2>5, <2>6, <2>7, <2>8 DEF m
<1>3. CASE ~(s # <<>> /\ e[1] = s[n][1] + s[n][2])
  <2>1. m = Append(s, e)
    BY <1>3 DEF Merged, Last
  <2>. HIDE DEF m
  <2>2. /\ m \in Lists /\ ToSet(m) = ToSet(s) \union {e} /\ Len(m) = n + 1
        /\ \A j \in 1 .. n : m[j] = s[j]
        /\ m[n + 1] = e
    BY <2>1, ListAppend
  <2>3. ASSUME Separated(s), \A j \in 1 .. n : s[j][1] + s[j][2] <= e[1]
        PROVE  Separated(m) /\ \A j \in 1 .. n + 1 : m[j][1] + m[j][2] <= e[1] + e[2]
    <3>1. \A j \in 1 .. n : s[j][1] + s[j][2] < e[1]
      <4>1. ASSUME NEW j \in 1 .. n PROVE s[j][1] + s[j][2] < e[1]
        <5>1. n \in 1 .. n /\ s[n][1] + s[n][2] # e[1] /\ s[n][1] + s[n][2] <= e[1]
          BY <1>1, <1>3, <2>3
        <5>2. CASE j = n
          <6>1. s[n][1] \in Nat /\ s[n][2] \in Nat /\ e[1] \in Nat
            BY <1>1, <5>1
          <6>2. s[n][1] + s[n][2] < e[1]
            BY <5>1, <6>1
          <6>. QED  BY <5>2, <6>2
        <5>3. CASE j # n
          <6>1. s[j][1] + s[j][2] < s[n][1]
            BY <1>1, <2>3, <5>1, <5>3 DEF Separated
          <6>2. \A x, y, z, w \in Int : x < y /\ z >= 0 /\ y + z <= w => x < w
            OBVIOUS
          <6>3. s[n][2] >= 0 /\ s[n][1] + s[n][2] <= e[1]
            BY <1>1, <5>1
          <6>4. s[j][1] + s[j][2] \in Int /\ s[n][1] \in Int /\ s[n][2] \in Int /\ e[1] \in Int
            BY <1>1, <5>1
          <6>. QED  BY <6>1, <6>2, <6>3, <6>4
        <5>. QED  BY <5>2, <5>3
      <4>. QED  BY <4>1
    <3>2. ASSUME NEW j \in 1 .. n + 1, NEW k \in 1 .. n + 1, j < k
          PROVE  m[j][1] + m[j][2] < m[k][1]
      <4>1. j \in 1 .. n /\ m[j] = s[j]
        BY <1>1, <2>2, <3>2
      <4>2. CASE k = n + 1
        BY <2>2, <3>1, <4>1, <4>2
      <4>3. CASE k # n + 1
        <5>1. k \in 1 .. n /\ m[k] = s[k]
          BY <1>1, <2>2, <4>3
        <5>. QED  BY <2>3, <3>2, <4>1, <5>1 DEF Separated
      <4>. QED  BY <4>2, <4>3
    <3>3. ASSUME NEW j \in 1 .. n + 1 PROVE m[j][1] + m[j][2] <= e[1] + e[2]
      <4>1. CASE j = n + 1
        BY <1>1, <2>2, <4>1
      <4>2. CASE j # n + 1
        <5>1. j \in 1 .. n /\ m[j] = s[j]
          BY <1>1, <2>2, <4>2
        <5>. QED  BY <1>1, <3>1, <5>1
      <4>. QED  BY <4>1, <4>2
    <3>. QED  BY <2>2, <3>2, <3>3 DEF Separated
  <2>. QED  BY <2>2, <2>3 DEF m
<1>. QED  BY <1>2, <1>3

\* Coalescing keeps the bytes of the list; in address order it joins all the
\* neighbours.
LEMMA CoalesceRight ==
  ASSUME NEW list \in Lists, NEW U \in SUBSET BlockSet,
         Partition(ToSet(list) \union U), ToSet(list) \intersect U = {}
  PROVE  /\ Coalesce(list) \in Lists
         /\ Partition(ToSet(Coalesce(list)) \union U)
         /\ ToSet(Coalesce(list)) \intersect U = {}
         /\ Ascending(list) => Separated(Coalesce(list))
<1> DEFINE n == Len(list)
           Rest(i) == {list[k] : k \in i + 1 .. n} \union U
<1>1. /\ n \in Nat /\ \A i \in 1 .. n : list[i] \in BlockSet /\ list[i] \in ToSet(list)
      /\ \A i, j \in 1 .. n : list[i] = list[j] => i = j
      /\ \A q : q \in ToSet(list) <=> \E i \in 1 .. n : list[i] = q
  BY ListIs
<1>2. PICK f : /\ f[0] = <<>>
               /\ \A i \in 1 .. n : f[i] = Merged(f[i - 1], list[i])
               /\ Coalesce(list) = f[n]
  BY <1>1, CoalesceIs
<1> DEFINE J(i) == /\ f[i] \in Lists
                   /\ Partition(ToSet(f[i]) \union Rest(i))
                   /\ ToSet(f[i]) \intersect Rest(i) = {}
                   /\ Ascending(list) =>
                         /\ Separated(f[i])
                         /\ i < n => \A j \in 1 .. Len(f[i]) :
                               f[i][j][1] + f[i][j][2] <= list[i + 1][1]
           D == {i \in Nat : i <= n => J(i)}
<1>3. 0 \in D
  <2>1. /\ f[0] \in Lists /\ Len(f[0]) = 0 /\ ToSet(f[0]) = {}
    BY <1>2 DEF Lists, ToSet
  <2>2. Rest(0) = ToSet(list) \union U
    BY <1>1
  <2>. HIDE DEF Rest
  <2>3. Separated(f[0])
    BY <2>1 DEF Separated
  <2>4. \A j \in 1 .. Len(f[0]) : f[0][j][1] + f[0][j][2] <= list[0 + 1][1]
    BY <2>1
  <2>5. ToSet(f[0]) \union Rest(0) = ToSet(list) \union U /\ ToSet(f[0]) \intersect Rest(0) = {}
    BY <2>1, <2>2
  <2>6. J(0)
    BY <2>1, <2>3, <2>4, <2>5
  <2>. HIDE DEF J
  <2>. QED  BY <2>6
<1>4. ASSUME NEW i \in D PROVE i + 1 \in D
  <2>1. ASSUME i + 1 <= n PROVE J(i + 1)
    <3> DEFINE s == f[i]
               e == list[i + 1]
               R == Rest(i + 1)
    <3>1. i \in Nat /\ i + 1 \in 1 .. n /\ (i + 1) - 1 = i /\ J(i) /\ i < n
      BY <1>1, <1>4, <2>1
    <3>2. f[i + 1] = Merged(s, e) /\ e \in BlockSet
      BY <1>1, <1>2, <3>1
    <3>3. Rest(i) = {e} \union R
      <4>1. ASSUME NEW q \in {list[k] : k \in i + 1 .. n} PROVE q = e \/ q \in {list[k] : k \in (i + 1) + 1 .. n}
        <5>1. PICK k \in i + 1 .. n : q = list[k]
          BY <4>1
        <5>2. k = i + 1 \/ k \in (i + 1) + 1 .. n
          BY <3>1, <1>1
        <5>. QED  BY <5>1, <5>2
      <4>2. i + 1 \in i + 1 .. n /\ (i + 1) + 1 .. n \subseteq i + 1 .. n
        BY <3>1, <1>1
      <4>. QED  BY <4>1, <4>2
    <3>4. e \notin R
      <4>1. e \notin U
        BY <1>1, <3>1
      <4>2. \A k \in (i + 1) + 1 .. n : list[k] # e
        <5>1. \A k \in (i + 1) + 1 .. n : k \in 1 .. n /\ k # i + 1
          BY <3>1, <1>1
        <5>. QED  BY <1>1, <3>1, <5>1
      <4>. QED  BY <4>1, <4>2
    <3>5. R \in SUBSET BlockSet
      <4>1. \A k \in (i + 1) + 1 .. n : k \in 1 .. n
        BY <3>1, <1>1
      <4>. QED  BY <1>1, <4>1
    <3>6. e \notin ToSet(s) /\ ToSet(s) \intersect R = {} /\ Partition(ToSet(s) \union {e} \union R)
      <4>. HIDE DEF Rest
      <4>1. ToSet(s) \union Rest(i) = ToSet(s) \union {e} \union R
        BY <3>3
      <4>. QED  BY <3>1, <3>3, <4>1
    <3>. HIDE DEF Rest
    <3>7. ASSUME Ascending(list)
          PROVE  Separated(s) /\ \A j \in 1 .. Len(s) : s[j][1] + s[j][2] <= e[1]
      BY <3>1, <3>7
    <3>8. ASSUME Ascending(list), i + 1 < n
          PROVE  e[1] + e[2] <= list[(i + 1) + 1][1] /\ list[(i + 1) + 1][1] \in Int
      <4>1. (i + 1) + 1 \in 1 .. n /\ i + 1 < (i + 1) + 1 /\ i + 1 # (i + 1) + 1
        BY <1>1, <3>1, <3>8
      <4>2. e[1] <= list[(i + 1) + 1][1] /\ e # list[(i + 1) + 1]
        BY <1>1, <3>1, <3>8, <4>1 DEF Ascending
      <4>3. e \in ToSet(list) \union U /\ list[(i + 1) + 1] \in ToSet(list) \union U
        BY <1>1, <3>1, <4>1
      <4>4. e[1] + e[2] <= list[(i + 1) + 1][1]
        BY <4>2, <4>3, EndsBefore
      <4>5. list[(i + 1) + 1][1] \in Int
        BY <1>1, <4>1, BlockIs
      <4>. QED  BY <4>4, <4>5
    <3>. HIDE DEF s, e, R
    <3>9. /\ Merged(s, e) \in Lists
          /\ Partition(ToSet(Merged(s, e)) \union R)
          /\ ToSet(Merged(s, e)) \intersect R = {}
          /\ Ascending(list) =>
               /\ Separated(Merged(s, e))
               /\ \A j \in 1 .. Len(Merged(s, e)) :
                     Merged(s, e)[j][1] + Merged(s, e)[j][2] <= e[1] + e[2]
      <4>1. s \in Lists /\ (ToSet(s) \union {e}) \intersect R = {}
        BY <3>1, <3>4, <3>6 DEF s
      <4>. QED  BY <3>2, <3>5, <3>6, <3>7, <4>1, MergedIs
    <3> DEFINE m == Merged(s, e)
    <3>10. ASSUME Ascending(list), i + 1 < n, NEW j \in 1 .. Len(m)
           PROVE  m[j][1] + m[j][2] <= list[(i + 1) + 1][1]
      <4>1. m[j] \in BlockSet
        BY <3>9, ListIs
      <4>2. m[j][1] \in Int /\ m[j][2] \in Int /\ e[1] \in Int /\ e[2] \in Int
        BY <3>2, <4>1, BlockIs
      <4>3. m[j][1] + m[j][2] <= e[1] + e[2]
        BY <3>9, <3>10
      <4>. HIDE DEF m
      <4>4. e[1] + e[2] <= list[(i + 1) + 1][1] /\ list[(i + 1) + 1][1] \in Int
        BY <3>8, <3>10
      <4>5. \A x, y, z \in Int : x <= y /\ y <= z => x <= z
        OBVIOUS
      <4>6. m[j][1] + m[j][2] \in Int /\ e[1] + e[2] \in Int
        BY <4>2
      <4>. QED  BY <4>3, <4>4, <4>5, <4>6
    <3>. HIDE DEF m
    <3>11. m \in Lists /\ Partition(ToSet(m) \union R) /\ ToSet(m) \intersect R = {}
           /\ (Ascending(list) => Separated(m))
      BY <3>9 DEF m
    <3>. QED  BY <3>2, <3>10, <3>11 DEF m, R
  <2>. HIDE DEF J
  <2>. QED  BY <1>4, <2>1
<1>. HIDE DEF D
<1>5. D = Nat
  <2>1. D \in SUBSET Nat
    BY DEF D
  <2>. QED  BY <1>3, <1>4, <2>1, AllNaturals
<1>6. J(n)
  <2>1. n \in D
    BY <1>1, <1>5
  <2>. HIDE DEF J
  <2>2. n <= n => J(n)
    BY <2>1 DEF D
  <2>. QED  BY <1>1, <2>2
<1>7. Rest(n) = U
  <2>1. n + 1 .. n = {}
    BY <1>1
  <2>. QED  BY <2>1
<1>. HIDE DEF Rest
<1>. QED  BY <1>2, <1>6, <1>7
-----------------------------------------------------------------------------
(* The heap of malloc.py.                                                  *)
UsedOf(map) == {<<a, map[a]>> : a \in DOMAIN map}

LEMMA WithDomain ==
  ASSUME NEW map, NEW a, NEW value
  PROVE  DOMAIN With(map, a, value) = DOMAIN map \union {a}
BY DEF With

LEMMA WithNew ==
  ASSUME NEW map, NEW a, NEW value
  PROVE  With(map, a, value)[a] = value
BY DEF With

LEMMA WithOther ==
  ASSUME NEW map, NEW a, a \notin DOMAIN map, NEW value, NEW k \in DOMAIN map
  PROVE  With(map, a, value)[k] = map[k]
BY DEF With

LEMMA UsedWith ==
  ASSUME NEW map, NEW a, a \notin DOMAIN map, NEW value
  PROVE  UsedOf(With(map, a, value)) = UsedOf(map) \union {<<a, value>>}
<1> DEFINE w == With(map, a, value)
<1>1. DOMAIN w = DOMAIN map \union {a} /\ w[a] = value
  <2>1. DOMAIN w = DOMAIN map \union {a}
    BY WithDomain
  <2>2. w[a] = value
    BY WithNew
  <2>. QED  BY <2>1, <2>2
<1>2. \A k \in DOMAIN map : w[k] = map[k]
  BY WithOther
<1>. HIDE DEF w
<1>3. UsedOf(w) = UsedOf(map) \union {<<a, value>>}
  BY <1>1, <1>2 DEF UsedOf
<1>. QED  BY <1>3 DEF w

LEMMA UsedWithout ==
  ASSUME NEW map, NEW a \in DOMAIN map
  PROVE  /\ UsedOf(Restrict(map, DOMAIN map \ {a})) = UsedOf(map) \ {<<a, map[a]>>}
         /\ DOMAIN Restrict(map, DOMAIN map \ {a}) = DOMAIN map \ {a}
         /\ \A k \in DOMAIN map \ {a} : Restrict(map, DOMAIN map \ {a})[k] = map[k]
<1> DEFINE w == Restrict(map, DOMAIN map \ {a})
<1>1. DOMAIN w = DOMAIN map \ {a} /\ \A k \in DOMAIN map \ {a} : w[k] = map[k]
  BY DEF Restrict
<1>. HIDE DEF w
<1>2. UsedOf(w) = UsedOf(map) \ {<<a, map[a]>>}
  BY <1>1 DEF UsedOf
<1>. QED  BY <1>1, <1>2 DEF w

HeapInv ==
    /\ opsDone < MaxOps => heapOpt \in HeapOptions
    /\ freelist \in Lists /\ allocs \in Nat
    /\ Partition(ToSet(freelist) \union UsedOf(sizemap))
    /\ ToSet(freelist) \intersect UsedOf(sizemap) = {}
    /\ heapError # "AssertionError"
    /\ DOMAIN ptr \subseteq 0 .. allocs - 1
    /\ heapOpt.mode = "random" => IsInjective(ptr) /\ Range(ptr) = DOMAIN sizemap
    /\ heapOpt.coalesce /\ heapOpt.order = "ADDRSORT" => Separated(freelist)

\* One block that is the heap is a partition.
LEMMA HeapStart ==
  ASSUME freelist = <<<<BaseAddr, HeapSize>>>>, sizemap = <<>>
  PROVE  /\ freelist \in Lists /\ Separated(freelist)
         /\ Partition(ToSet(freelist) \union UsedOf(sizemap))
         /\ ToSet(freelist) \intersect UsedOf(sizemap) = {}
<1> DEFINE b == <<BaseAddr, HeapSize>>
<1>1. b \in BlockSet /\ b[1] = BaseAddr /\ b[2] = HeapSize
  BY MallocAssumption DEF BlockSet
<1>. HIDE DEF b
<1>2. freelist = <<b>> /\ Len(freelist) = 1 /\ freelist[1] = b /\ freelist \in Seq(BlockSet)
  BY <1>1 DEF b
<1>3. \A i \in 1 .. Len(freelist) : i = 1
  BY <1>2
<1>4. freelist \in Lists /\ Separated(freelist)
  <2>1. \A i, j \in 1 .. Len(freelist) : i = j /\ ~(i < j)
    BY <1>3
  <2>2. freelist \in Lists
    BY <1>2, <2>1, ListOf
  <2>. QED  BY <2>1, <2>2 DEF Separated
<1>5. ToSet(freelist) = {b}
  <2>1. \A q : q \in ToSet(freelist) <=> \E i \in 1 .. Len(freelist) : freelist[i] = q
    BY <1>4, ListIs
  <2>2. 1 \in 1 .. Len(freelist)
    BY <1>2
  <2>. QED  BY <1>2, <1>3, <2>1, <2>2
<1>6. UsedOf(sizemap) = {}
  BY DEF UsedOf
<1>7. Partition({b})
  <2>1. Covered({b}) = HeapBytes
    BY <1>1 DEF Covered, Bytes, HeapBytes
  <2>. QED  BY <1>1, <2>1 DEF Partition, Disjoint
<1>. QED  BY <1>4, <1>5, <1>6, <1>7

LEMMA HeapInitInv ==
  ASSUME HeapInit \/ HeapOff
  PROVE  HeapInv
<1>1. /\ freelist = <<<<BaseAddr, HeapSize>>>> /\ sizemap = <<>> /\ ptr = <<>> /\ allocs = 0
      /\ heapError = "" /\ (opsDone < MaxOps => heapOpt \in HeapOptions)
  <2>1. CASE HeapInit
    BY <2>1 DEF HeapInit
  <2>2. CASE HeapOff
    <3>1. opsDone = MaxOps
      BY <2>2 DEF HeapOff
    <3>2. ~ opsDone < MaxOps
      BY <3>1, MallocAssumption
    <3>. QED  BY <2>2, <3>2, Zenon DEF HeapOff
  <2>. QED  BY <2>1, <2>2
<1>2. DOMAIN ptr = {} /\ DOMAIN sizemap = {}
  <2>1. <<>> \in Seq(Nat) /\ Len(<<>>) = 0
    BY EmptySeq
  <2>2. DOMAIN <<>> = 1 .. 0
    BY <2>1, LenProperties
  <2>3. DOMAIN ptr = 1 .. 0 /\ DOMAIN sizemap = 1 .. 0
    BY <1>1, <2>2, Zenon
  <2>. QED  BY <2>3
<1>3. IsInjective(ptr) /\ Range(ptr) = DOMAIN sizemap
  BY <1>2 DEF IsInjective, Range
<1>. QED  BY <1>1, <1>2, <1>3, HeapStart DEF HeapInv

\* The sizes of the blocks of a partition.
LEMMA PartitionSizeBound ==
  ASSUME NEW B, Partition(B), NEW b \in B
  PROVE  b[2] <= HeapSize
<1>1. b \in BlockSet /\ Covered(B) = HeapBytes
  BY DEF Partition
<1>2. /\ b[1] \in Nat /\ b[2] \in Nat /\ b[2] > 0
      /\ b[1] \in Bytes(b) /\ b[1] + b[2] - 1 \in Bytes(b)
  BY <1>1, BlockIs
<1>3. b[1] \in HeapBytes /\ b[1] + b[2] - 1 \in HeapBytes
  BY <1>1, <1>2, CoveredIs
<1>. QED  BY <1>2, <1>3, MallocAssumption DEF HeapBytes

\* The search returns an entry that is large enough.
LEMMA BestIdxIs ==
  ASSUME HeapInv, heapOpt \in HeapOptions, NEW size \in Nat, BestIdx(size) # 0
  PROVE  BestIdx(size) \in 1 .. Len(freelist) /\ freelist[BestIdx(size)][2] >= size
<1> DEFINE n == Len(freelist)
           fits == {i \in 1 .. n : freelist[i][2] >= size}
           Best == {i \in fits : \A k \in fits : freelist[i][2] <= freelist[k][2]}
           Worst == {i \in fits : \A k \in fits : freelist[i][2] >= freelist[k][2]}
           best == CASE heapOpt.policy = "FIRST" -> fits
                     [] heapOpt.policy = "BEST"  -> Best
                     [] heapOpt.policy = "WORST" -> Worst
<1>1. freelist \in Lists /\ Partition(ToSet(freelist) \union UsedOf(sizemap))
  BY DEF HeapInv
<1>2. \A i \in 1 .. n : freelist[i][2] \in Nat /\ freelist[i][2] <= HeapSize
  <2>1. ASSUME NEW i \in 1 .. n PROVE freelist[i][2] \in Nat /\ freelist[i][2] <= HeapSize
    <3>1. freelist[i] \in BlockSet /\ freelist[i] \in ToSet(freelist) \union UsedOf(sizemap)
      BY <1>1, ListIs
    <3>. QED  BY <1>1, <3>1, BlockIs, PartitionSizeBound
  <2>. QED  BY <2>1
<1>3. BestIdx(size) = IF fits = {} THEN 0 ELSE Min(best)
  BY DEF BestIdx
<1>4. fits # {}
  BY <1>3
<1>5. Best # {}
  <2> DEFINE D == {freelist[i][2] : i \in fits}
  <2>1. D \in SUBSET Nat /\ D # {}
    BY <1>2, <1>4
  <2>2. PICK d \in D : \A j \in D : d <= j
    <3>. HIDE DEF D
    <3>. QED  BY <2>1, Smallest
  <2>3. PICK i \in fits : d = freelist[i][2]
    BY <2>2
  <2>4. \A k \in fits : freelist[i][2] <= freelist[k][2]
    BY <2>2, <2>3
  <2>. QED  BY <2>4
<1>6. Worst # {}
  <2> DEFINE D == {HeapSize - freelist[i][2] : i \in fits}
  <2>1. D \in SUBSET Nat /\ D # {}
    <3>1. ASSUME NEW i \in fits PROVE HeapSize - freelist[i][2] \in Nat
      <4>1. freelist[i][2] \in Nat /\ freelist[i][2] <= HeapSize /\ HeapSize \in Nat
        BY <1>2, MallocAssumption
      <4>. QED  BY <4>1
    <3>. QED  BY <1>4, <3>1
  <2>2. PICK d \in D : \A j \in D : d <= j
    <3>. HIDE DEF D
    <3>. QED  BY <2>1, Smallest
  <2>3. PICK i \in fits : d = HeapSize - freelist[i][2]
    BY <2>2
  <2>4. \A k \in fits : freelist[i][2] >= freelist[k][2]
    <3>1. ASSUME NEW k \in fits PROVE freelist[i][2] >= freelist[k][2]
      <4>1. HeapSize - freelist[i][2] <= HeapSize - freelist[k][2]
        BY <2>2, <2>3
      <4>2. freelist[i][2] \in Nat /\ freelist[k][2] \in Nat /\ HeapSize \in Nat
        BY <1>2, MallocAssumption
      <4>. QED  BY <4>1, <4>2
    <3>. QED  BY <3>1
  <2>. QED  BY <2>4
<1>7. best \in SUBSET fits /\ best # {}
  <2>1. heapOpt.policy = "FIRST" \/ heapOpt.policy = "BEST" \/ heapOpt.policy = "WORST"
    BY DEF HeapOptions
  <2>2. Best \in SUBSET fits /\ Worst \in SUBSET fits
    OBVIOUS
  <2>. HIDE DEF Best, Worst, fits
  <2>3. CASE heapOpt.policy = "FIRST"
    BY <1>4, <2>3
  <2>4. CASE heapOpt.policy = "BEST"
    BY <1>5, <2>2, <2>4
  <2>5. CASE heapOpt.policy = "WORST"
    BY <1>6, <2>2, <2>5
  <2>. QED  BY <2>1, <2>3, <2>4, <2>5
<1>8. fits \in SUBSET Nat /\ fits \in SUBSET (1 .. n) /\ \A i \in fits : freelist[i][2] >= size
  BY <1>1, ListIs
<1>. HIDE DEF best, fits
<1>9. Min(best) \in best
  BY <1>7, <1>8, MinNat
<1>. QED  BY <1>3, <1>4, <1>7, <1>8, <1>9

LEMMA RoundedIs ==
  ASSUME heapOpt \in HeapOptions, NEW size \in AllocSizes
  PROVE  Rounded(size) \in Nat /\ Rounded(size) > 0
<1>1. /\ size \in Nat /\ size > 0 /\ heapOpt.header \in Nat
      /\ heapOpt.align = -1 \/ (heapOpt.align \in Nat /\ heapOpt.align > 0)
  <2>1. size \in AllocSizes /\ heapOpt.header \in HeaderSizes /\ heapOpt.align \in Aligns
    BY DEF HeapOptions
  <2>2. /\ \A a \in AllocSizes : a \in Nat /\ a > 0
        /\ \A h \in HeaderSizes : h \in Nat
        /\ \A a \in Aligns : a \in Int /\ (a = -1 \/ a > 0)
    BY MallocAssumption
  <2>3. heapOpt.align \in Int /\ (heapOpt.align = -1 \/ heapOpt.align > 0)
    BY <2>1, <2>2
  <2>. QED  BY <2>1, <2>2, <2>3
<1> DEFINE left == IF heapOpt.align = -1 THEN 0 ELSE size % heapOpt.align
<1>2. left = 0 \/ (left \in Nat /\ heapOpt.align \in Nat /\ left < heapOpt.align)
  BY <1>1
<1>3. Rounded(size) = (IF left = 0 THEN size ELSE size + heapOpt.align - left) + heapOpt.header
  BY DEF Rounded
<1>. HIDE DEF left
<1>. QED  BY <1>1, <1>2, <1>3
\* A freed block is added to the list, wherever the order puts it.
LEMMA ReturnedIs ==
  ASSUME freelist \in Lists, heapOpt \in HeapOptions,
         NEW b \in BlockSet, b \notin ToSet(freelist)
  PROVE  /\ Returned(b) \in Lists
         /\ ToSet(Returned(b)) = ToSet(freelist) \union {b}
         /\ heapOpt.order = "ADDRSORT" => Ascending(Returned(b))
<1> DEFINE back == Append(freelist, b)
           r == Returned(b)
           key1 == [i \in DOMAIN back |-> back[i][1]]
           key2 == [i \in DOMAIN back |-> back[i][2]]
           key3 == [i \in DOMAIN back |-> -back[i][2]]
<1>1. /\ back \in Lists /\ ToSet(back) = ToSet(freelist) \union {b}
  BY ListAppend
<1>2. r = CASE heapOpt.order = "INSERT-BACK"  -> back
            [] heapOpt.order = "INSERT-FRONT" -> <<b>> \o freelist
            [] heapOpt.order = "ADDRSORT"  -> SortedBy(key1, back)
            [] heapOpt.order = "SIZESORT+" -> SortedBy(key2, back)
            [] heapOpt.order = "SIZESORT-" -> SortedBy(key3, back)
  BY DEF Returned
<1>3. heapOpt.order \in {"ADDRSORT", "SIZESORT+", "SIZESORT-", "INSERT-FRONT", "INSERT-BACK"}
  BY MallocAssumption DEF HeapOptions
<1>. HIDE DEF back, r
<1>4. /\ DOMAIN back = 1 .. Len(back)
      /\ \A i \in 1 .. Len(back) : back[i] \in BlockSet /\ back[i][1] \in Int /\ back[i][2] \in Int
  BY <1>1, ListIs, BlockIs
<1>5. /\ \A i \in 1 .. Len(back) : key1[i] = back[i][1] /\ key1[i] \in Int
      /\ \A i \in 1 .. Len(back) : key2[i] \in Int
      /\ \A i \in 1 .. Len(back) : key3[i] \in Int
  BY <1>4
<1>. HIDE DEF key1, key2, key3
<1>6. CASE heapOpt.order = "INSERT-BACK"
  <2>1. r = back
    BY <1>2, <1>6
  <2>. QED  BY <1>1, <1>6, <2>1 DEF r
<1>7. CASE heapOpt.order = "INSERT-FRONT"
  <2>1. r = <<b>> \o freelist
    BY <1>2, <1>7
  <2>2. r \in Lists /\ ToSet(r) = ToSet(freelist) \union {b}
    BY <2>1, ListPrepend
  <2>. QED  BY <1>7, <2>2 DEF r
<1>8. CASE heapOpt.order = "ADDRSORT"
  <2>1. r = SortedBy(key1, back)
    BY <1>2, <1>8
  <2>2. /\ r \in Lists /\ ToSet(r) = ToSet(back) /\ Len(r) = Len(back)
        /\ \E at \in Bijection(1 .. Len(back), 1 .. Len(back)) :
              /\ \A k \in 1 .. Len(back) : r[k] = back[at[k]]
              /\ \A j, k \in 1 .. Len(back) : j < k => key1[at[j]] <= key1[at[k]]
    BY <1>1, <1>5, <2>1, SortedIs
  <2>3. PICK at \in Bijection(1 .. Len(back), 1 .. Len(back)) :
              /\ \A k \in 1 .. Len(back) : r[k] = back[at[k]]
              /\ \A j, k \in 1 .. Len(back) : j < k => key1[at[j]] <= key1[at[k]]
    BY <2>2
  <2>4. \A k \in 1 .. Len(back) : at[k] \in 1 .. Len(back)
    BY DEF Bijection, Injection
  <2>5. \A k \in 1 .. Len(back) : r[k][1] = key1[at[k]]
    BY <1>5, <2>3, <2>4
  <2>6. Ascending(r)
    BY <2>2, <2>3, <2>5 DEF Ascending
  <2>. QED  BY <1>1, <2>2, <2>6 DEF r
<1>9. CASE heapOpt.order = "SIZESORT+"
  <2>1. r = SortedBy(key2, back)
    BY <1>2, <1>9
  <2>2. r \in Lists /\ ToSet(r) = ToSet(back)
    BY <1>1, <1>5, <2>1, SortedIs
  <2>. QED  BY <1>1, <1>9, <2>2 DEF r
<1>10. CASE heapOpt.order = "SIZESORT-"
  <2>1. r = SortedBy(key3, back)
    BY <1>2, <1>10
  <2>2. r \in Lists /\ ToSet(r) = ToSet(back)
    BY <1>1, <1>5, <2>1, SortedIs
  <2>. QED  BY <1>1, <1>10, <2>2 DEF r
<1>. QED  BY <1>3, <1>6, <1>7, <1>8, <1>9, <1>10

\* free moves a block from the map to the list, or does nothing.
LEMMA FreeAddrIs ==
  ASSUME HeapInv, heapOpt \in HeapOptions, NEW addr, FreeAddr(addr)
  PROVE  /\ freelist' \in Lists
         /\ Partition(ToSet(freelist') \union UsedOf(sizemap'))
         /\ ToSet(freelist') \intersect UsedOf(sizemap') = {}
         /\ heapOpt.coalesce /\ heapOpt.order = "ADDRSORT" => Separated(freelist')
         /\ DOMAIN sizemap' = DOMAIN sizemap \ {addr}
<1>1. /\ freelist \in Lists /\ Partition(ToSet(freelist) \union UsedOf(sizemap))
      /\ ToSet(freelist) \intersect UsedOf(sizemap) = {}
      /\ heapOpt.coalesce /\ heapOpt.order = "ADDRSORT" => Separated(freelist)
  BY DEF HeapInv
<1>2. CASE addr \notin DOMAIN sizemap
  <2>1. freelist' = freelist /\ sizemap' = sizemap
    BY <1>2 DEF FreeAddr
  <2>. QED  BY <1>1, <1>2, <2>1
<1>3. CASE addr \in DOMAIN sizemap
  <2> DEFINE b == <<addr, sizemap[addr]>>
             U == UsedOf(sizemap) \ {b}
             r == Returned(b)
             c == Coalesce(r)
  <2>1. /\ freelist' = IF heapOpt.coalesce THEN c ELSE r
        /\ sizemap' = Restrict(sizemap, DOMAIN sizemap \ {addr})
    BY <1>3 DEF FreeAddr
  <2>2. b \in UsedOf(sizemap)
    BY <1>3 DEF UsedOf
  <2>3. UsedOf(sizemap') = U /\ DOMAIN sizemap' = DOMAIN sizemap \ {addr}
    BY <1>3, <2>1, UsedWithout
  <2>4. b \in BlockSet /\ b \notin ToSet(freelist) /\ U \in SUBSET BlockSet
    BY <1>1, <2>2 DEF Partition
  <2>. HIDE DEF b
  <2>5. /\ r \in Lists /\ ToSet(r) = ToSet(freelist) \union {b}
        /\ heapOpt.order = "ADDRSORT" => Ascending(r)
    BY <1>1, <2>4, ReturnedIs
  <2>. HIDE DEF r
  <2>6. ToSet(r) \union U = ToSet(freelist) \union UsedOf(sizemap) /\ ToSet(r) \intersect U = {}
    BY <1>1, <2>2, <2>5
  <2>7. Partition(ToSet(r) \union U)
    BY <1>1, <2>6
  <2>. HIDE DEF U
  <2>8. CASE heapOpt.coalesce
    <3>1. /\ c \in Lists /\ Partition(ToSet(c) \union U) /\ ToSet(c) \intersect U = {}
          /\ Ascending(r) => Separated(c)
      BY <2>4, <2>5, <2>6, <2>7, CoalesceRight
    <3>2. freelist' = c
      BY <2>1, <2>8
    <3>. HIDE DEF c
    <3>. QED  BY <2>3, <2>5, <3>1, <3>2
  <2>9. CASE ~heapOpt.coalesce
    <3>1. freelist' = r
      BY <2>1, <2>9
    <3>. QED  BY <2>3, <2>5, <2>6, <2>7, <2>9, <3>1
  <2>. QED  BY <2>8, <2>9
<1>. QED  BY <1>2, <1>3

LEMMA FreeRandomStep ==
  ASSUME HeapInv, NEW d \in DOMAIN ptr, FreeRandom(d)
  PROVE  HeapInv'
<1>1. /\ heapOpt.mode = "random" /\ opsDone < MaxOps /\ FreeAddr(ptr[d])
      /\ ptr' = Restrict(ptr, DOMAIN ptr \ {d})
      /\ heapOpt' = heapOpt /\ allocs' = allocs /\ heapError' = heapError
  BY DEF FreeRandom, PointersWithout
<1>2. /\ heapOpt \in HeapOptions /\ allocs \in Nat /\ heapError # "AssertionError"
      /\ DOMAIN ptr \subseteq 0 .. allocs - 1
      /\ IsInjective(ptr) /\ Range(ptr) = DOMAIN sizemap
  BY <1>1 DEF HeapInv
<1>3. /\ freelist' \in Lists
      /\ Partition(ToSet(freelist') \union UsedOf(sizemap'))
      /\ ToSet(freelist') \intersect UsedOf(sizemap') = {}
      /\ heapOpt.coalesce /\ heapOpt.order = "ADDRSORT" => Separated(freelist')
      /\ DOMAIN sizemap' = DOMAIN sizemap \ {ptr[d]}
  BY <1>1, <1>2, FreeAddrIs
<1>4. DOMAIN ptr' = DOMAIN ptr \ {d} /\ \A x \in DOMAIN ptr' : ptr'[x] = ptr[x]
  BY <1>1 DEF Restrict
<1>5. IsInjective(ptr')
  BY <1>2, <1>4 DEF IsInjective
<1>6. Range(ptr') = DOMAIN sizemap'
  <2>1. \A q : q \in Range(ptr') <=> \E x \in DOMAIN ptr' : ptr'[x] = q
    BY DEF Range
  <2>2. \A q : q \in DOMAIN sizemap <=> \E x \in DOMAIN ptr : ptr[x] = q
    BY <1>2 DEF Range
  <2>3. \A x \in DOMAIN ptr : ptr[x] = ptr[d] => x = d
    BY <1>2 DEF IsInjective
  <2>4. ASSUME NEW q \in Range(ptr') PROVE q \in DOMAIN sizemap'
    <3>1. PICK x \in DOMAIN ptr' : ptr'[x] = q
      BY <2>1
    <3>2. x \in DOMAIN ptr /\ x # d /\ ptr[x] = q
      BY <1>4, <3>1
    <3>3. q \in DOMAIN sizemap /\ q # ptr[d]
      BY <2>2, <2>3, <3>2
    <3>. QED  BY <1>3, <3>3
  <2>5. ASSUME NEW q \in DOMAIN sizemap' PROVE q \in Range(ptr')
    <3>1. q \in DOMAIN sizemap /\ q # ptr[d]
      BY <1>3
    <3>2. PICK x \in DOMAIN ptr : ptr[x] = q
      BY <2>2, <3>1
    <3>3. x \in DOMAIN ptr' /\ ptr'[x] = q
      BY <1>4, <3>1, <3>2
    <3>. QED  BY <2>1, <3>3
  <2>. QED  BY <2>4, <2>5
<1>. QED  BY <1>1, <1>2, <1>3, <1>4, <1>5, <1>6 DEF HeapInv

LEMMA FreeListedStep ==
  ASSUME HeapInv, NEW index \in 0 .. MaxOps, FreeListed(index) \/ FreeSkipped(index)
  PROVE  HeapInv'
<1>1. /\ heapOpt.mode = "list" /\ opsDone < MaxOps
      /\ heapOpt' = heapOpt /\ ptr' = ptr /\ allocs' = allocs
      /\ heapError' = heapError \/ heapError' = "KeyError"
      /\ FreeAddr(ptr[index]) \/ (freelist' = freelist /\ sizemap' = sizemap)
  BY DEF FreeListed, FreeSkipped
<1>2. /\ heapOpt \in HeapOptions /\ allocs \in Nat /\ heapError' # "AssertionError"
      /\ DOMAIN ptr \subseteq 0 .. allocs - 1
      /\ heapOpt.mode # "random"
  BY <1>1 DEF HeapInv
<1>3. /\ freelist' \in Lists
      /\ Partition(ToSet(freelist') \union UsedOf(sizemap'))
      /\ ToSet(freelist') \intersect UsedOf(sizemap') = {}
      /\ heapOpt.coalesce /\ heapOpt.order = "ADDRSORT" => Separated(freelist')
  <2>1. CASE FreeAddr(ptr[index])
    BY <1>2, <2>1, FreeAddrIs
  <2>2. CASE freelist' = freelist /\ sizemap' = sizemap
    BY <2>2 DEF HeapInv
  <2>. QED  BY <1>1, <2>1, <2>2
<1>. QED  BY <1>1, <1>2, <1>3 DEF HeapInv
\* the list after size bytes of its entry i are taken
Taken(s, i, size) ==
    IF s[i][2] > size THEN [s EXCEPT ![i] = Split(@, size)] ELSE RemoveAt(s, i)

LEMMA TakenIs ==
  ASSUME NEW s \in Lists, NEW U, Partition(ToSet(s) \union U), ToSet(s) \intersect U = {},
         NEW i \in 1 .. Len(s), NEW size \in Nat, size > 0, size <= s[i][2]
  PROVE  /\ Taken(s, i, size) \in Lists
         /\ Partition(ToSet(Taken(s, i, size)) \union (U \union {<<s[i][1], size>>}))
         /\ ToSet(Taken(s, i, size)) \intersect (U \union {<<s[i][1], size>>}) = {}
         /\ Separated(s) => Separated(Taken(s, i, size))
<1> DEFINE t == Taken(s, i, size)
           b == s[i]
           c == <<b[1], size>>
           r == Split(b, size)
           n == Len(s)
           B == ToSet(s) \union U
<1>1. /\ n \in Nat /\ s \in Seq(BlockSet) /\ b \in ToSet(s) /\ b \in BlockSet /\ b \in B
      /\ \A j \in 1 .. n : s[j] \in BlockSet /\ s[j][1] \in Nat /\ s[j][2] \in Nat
      /\ b[1] \in Nat /\ b[2] \in Nat
  BY ListIs, BlockIs
<1>2. CASE b[2] > size
  <2>1. /\ c \in BlockSet /\ r \in BlockSet /\ r # c /\ c \notin B \ {b} /\ r \notin B
        /\ Partition((B \ {b}) \union {c, r})
    BY <1>1, <1>2, PartitionSplit
  <2>2. r[1] = b[1] + size /\ r[2] = b[2] - size
    BY DEF Split
  <2>3. t = [s EXCEPT ![i] = r]
    BY <1>2 DEF Taken
  <2>. HIDE DEF r, c, t
  <2>4. /\ t \in Seq(BlockSet) /\ Len(t) = n
        /\ \A j \in 1 .. n : t[j] = IF j = i THEN r ELSE s[j]
    BY <1>1, <2>1, <2>3, ExceptSeq
  <2>5. t \in Lists /\ ToSet(t) = (ToSet(s) \ {b}) \union {r}
    <3>1. r \in BlockSet /\ r \notin ToSet(s)
      BY <2>1
    <3>. QED  BY <2>4, <3>1, ListReplace
  <2>6. /\ (B \ {b}) \union {c, r} = ToSet(t) \union (U \union {c})
        /\ ToSet(t) \intersect (U \union {c}) = {}
    BY <1>1, <2>1, <2>5
  <2>7. ASSUME Separated(s) PROVE Separated(t)
    <3>1. ASSUME NEW j \in 1 .. n, NEW k \in 1 .. n, j < k
          PROVE  t[j][1] + t[j][2] < t[k][1]
      <4>1. s[j][1] + s[j][2] < s[k][1]
        BY <2>7, <3>1 DEF Separated
      <4>2. CASE j = i
        <5>1. k # i /\ t[k] = s[k] /\ t[j] = r
          BY <2>4, <3>1, <4>2
        <5>2. r[1] + r[2] = b[1] + b[2]
          <6>1. b[1] \in Nat /\ b[2] \in Nat
            BY <1>1
          <6>. QED  BY <2>2, <6>1
        <5>3. /\ t[j][1] + t[j][2] = s[j][1] + s[j][2] /\ t[k][1] = s[k][1]
          BY <4>2, <5>1, <5>2
        <5>. QED  BY <4>1, <5>3
      <4>3. CASE k = i
        <5>1. j # i /\ t[j] = s[j] /\ t[k] = r
          BY <2>4, <3>1, <4>3
        <5>2. /\ s[j][1] \in Nat /\ s[j][2] \in Nat /\ t[k][1] = s[k][1] + size
              /\ s[k][1] \in Nat
          BY <1>1, <2>2, <4>3, <5>1
        <5>. QED  BY <4>1, <5>1, <5>2
      <4>4. CASE j # i /\ k # i
        BY <2>4, <4>1, <4>4
      <4>. QED  BY <4>2, <4>3, <4>4
    <3>. QED  BY <2>4, <3>1 DEF Separated
  <2>. QED  BY <2>1, <2>5, <2>6, <2>7 DEF c, t
<1>3. CASE ~ b[2] > size
  <2>1. t = RemoveAt(s, i)
    BY <1>3 DEF Taken
  <2>2. c = b
    <3>1. size = b[2]
      BY <1>1, <1>3
    <3>2. b = <<b[1], b[2]>>
      BY <1>1, BlockIs
    <3>. QED  BY <3>1, <3>2
  <2>. HIDE DEF c, t
  <2>3. /\ t \in Lists /\ ToSet(t) = ToSet(s) \ {b} /\ Len(t) = n - 1
        /\ \A j \in 1 .. n - 1 : t[j] = s[IF j < i THEN j ELSE j + 1]
    <3>1. /\ RemoveAt(s, i) \in Lists /\ ToSet(RemoveAt(s, i)) = ToSet(s) \ {s[i]}
          /\ Len(RemoveAt(s, i)) = Len(s) - 1
          /\ \A j \in 1 .. Len(s) - 1 : RemoveAt(s, i)[j] = s[IF j < i THEN j ELSE j + 1]
      BY ListRemove
    <3>. QED  BY <2>1, <3>1
  <2>4. ToSet(t) \union (U \union {c}) = B /\ ToSet(t) \intersect (U \union {c}) = {}
    BY <1>1, <2>2, <2>3
  <2>5. ASSUME Separated(s) PROVE Separated(t)
    <3>1. ASSUME NEW j \in 1 .. n - 1, NEW k \in 1 .. n - 1, j < k
          PROVE  t[j][1] + t[j][2] < t[k][1]
      <4> DEFINE x == IF j < i THEN j ELSE j + 1
                 y == IF k < i THEN k ELSE k + 1
      <4>1. x \in 1 .. n /\ y \in 1 .. n /\ x < y
        BY <1>1, <3>1
      <4>2. t[j] = s[x] /\ t[k] = s[y]
        BY <2>3
      <4>. HIDE DEF x, y
      <4>. QED  BY <2>5, <4>1, <4>2 DEF Separated
    <3>. QED  BY <2>3, <3>1 DEF Separated
  <2>. QED  BY <2>3, <2>4, <2>5 DEF c, t
<1>. QED  BY <1>2, <1>3

LEMMA AllocStep ==
  ASSUME HeapInv, NEW request \in AllocSizes, Alloc(request)
  PROVE  HeapInv'
<1> DEFINE size == Rounded(request)
           i == BestIdx(size)
           addr == freelist[i][1]
<1>1. /\ opsDone < MaxOps /\ heapOpt' = heapOpt /\ allocs' = allocs + 1
      /\ i = 0 => freelist' = freelist /\ sizemap' = sizemap /\ ptr' = ptr /\ heapError' = heapError
      /\ i # 0 => /\ freelist' = IF freelist[i][2] > size
                                 THEN [freelist EXCEPT ![i] = Split(@, size)]
                                 ELSE RemoveAt(freelist, i)
                  /\ addr \notin DOMAIN sizemap =>
                        /\ sizemap' = With(sizemap, addr, size)
                        /\ ptr' = With(ptr, allocs, addr)
                        /\ heapError' = heapError
  BY DEF Alloc
<1>2. /\ heapOpt \in HeapOptions /\ allocs \in Nat /\ heapError # "AssertionError"
      /\ freelist \in Lists /\ Partition(ToSet(freelist) \union UsedOf(sizemap))
      /\ ToSet(freelist) \intersect UsedOf(sizemap) = {}
      /\ DOMAIN ptr \subseteq 0 .. allocs - 1
      /\ heapOpt.mode = "random" => IsInjective(ptr) /\ Range(ptr) = DOMAIN sizemap
      /\ heapOpt.coalesce /\ heapOpt.order = "ADDRSORT" => Separated(freelist)
  BY <1>1 DEF HeapInv
<1>3. size \in Nat /\ size > 0
  BY <1>2, RoundedIs
<1>4. CASE i = 0
  <2>1. DOMAIN ptr \subseteq 0 .. (allocs + 1) - 1 /\ allocs + 1 \in Nat
    BY <1>2
  <2>. HIDE DEF i
  <2>. QED  BY <1>1, <1>2, <1>4, <2>1 DEF HeapInv
<1>5. CASE i # 0
  <2>1. i \in 1 .. Len(freelist) /\ freelist[i][2] >= size
    <3>. HIDE DEF size
    <3>. QED  BY <1>2, <1>3, <1>5, BestIdxIs
  <2>. HIDE DEF i, size
  <2>2. addr \notin DOMAIN sizemap
    <3>1. SUFFICES ASSUME addr \in DOMAIN sizemap PROVE FALSE
      OBVIOUS
    <3> DEFINE u == <<addr, sizemap[addr]>>
    <3>2. u \in UsedOf(sizemap)
      BY <3>1 DEF UsedOf
    <3>3. freelist[i] \in ToSet(freelist)
      BY <1>2, <2>1, ListIs
    <3>4. u # freelist[i]
      BY <1>2, <3>2, <3>3
    <3>5. u[1] = freelist[i][1]
      OBVIOUS
    <3>. HIDE DEF u
    <3>6. u \in BlockSet /\ freelist[i] \in BlockSet
      BY <1>2, <3>2, <3>3 DEF Partition
    <3>7. u[1] \in Bytes(u) /\ freelist[i][1] \in Bytes(freelist[i])
      BY <3>6, BlockIs
    <3>. QED  BY <1>2, <3>2, <3>3, <3>4, <3>5, <3>7 DEF Partition, Disjoint
  <2> DEFINE U == UsedOf(sizemap)
             c == <<addr, size>>
  <2>3. /\ sizemap' = With(sizemap, addr, size) /\ ptr' = With(ptr, allocs, addr)
        /\ heapError' = heapError
    BY <1>1, <1>5, <2>2
  <2>4. /\ UsedOf(sizemap') = U \union {c}
        /\ DOMAIN sizemap' = DOMAIN sizemap \union {addr}
    <3>. HIDE DEF addr
    <3>1. UsedOf(With(sizemap, addr, size)) = UsedOf(sizemap) \union {<<addr, size>>}
      BY <2>2, UsedWith
    <3>2. DOMAIN With(sizemap, addr, size) = DOMAIN sizemap \union {addr}
      BY WithDomain
    <3>. QED  BY <2>3, <3>1, <3>2
  <2>5. size <= freelist[i][2]
    <3>1. freelist[i][2] \in Nat
      BY <1>2, <2>1, ListIs, BlockIs
    <3>. QED  BY <1>3, <2>1, <3>1
  <2>6. /\ freelist' \in Lists
        /\ Partition(ToSet(freelist') \union (U \union {c}))
        /\ ToSet(freelist') \intersect (U \union {c}) = {}
        /\ Separated(freelist) => Separated(freelist')
    <3>1. freelist' = Taken(freelist, i, size)
      BY <1>1, <1>5 DEF Taken
    <3>. HIDE DEF U
    <3>2. Partition(ToSet(freelist) \union U) /\ ToSet(freelist) \intersect U = {}
      BY <1>2 DEF U
    <3>3. /\ Taken(freelist, i, size) \in Lists
          /\ Partition(ToSet(Taken(freelist, i, size)) \union (U \union {<<freelist[i][1], size>>}))
          /\ ToSet(Taken(freelist, i, size)) \intersect (U \union {<<freelist[i][1], size>>}) = {}
          /\ Separated(freelist) => Separated(Taken(freelist, i, size))
      BY <1>2, <1>3, <2>1, <2>5, <3>2, TakenIs
    <3>. QED  BY <3>1, <3>3
  <2>. HIDE DEF addr, c, U
  <2>7. allocs \notin DOMAIN ptr
    BY <1>2
  <2>8. /\ DOMAIN ptr' = DOMAIN ptr \union {allocs} /\ ptr'[allocs] = addr
        /\ \A x \in DOMAIN ptr : ptr'[x] = ptr[x]
    <3>1. DOMAIN With(ptr, allocs, addr) = DOMAIN ptr \union {allocs}
      BY WithDomain
    <3>3. With(ptr, allocs, addr)[allocs] = addr
      BY WithNew
    <3>2. \A x \in DOMAIN ptr : With(ptr, allocs, addr)[x] = ptr[x]
      BY <2>7, WithOther
    <3>. QED  BY <2>3, <3>1, <3>2, <3>3
  <2>9. DOMAIN ptr' \subseteq 0 .. allocs' - 1 /\ allocs' \in Nat
    BY <1>1, <1>2, <2>8
  <2>10. ASSUME heapOpt.mode = "random"
         PROVE  IsInjective(ptr') /\ Range(ptr') = DOMAIN sizemap'
    <3>1. IsInjective(ptr) /\ \A q : q \in DOMAIN sizemap <=> \E x \in DOMAIN ptr : ptr[x] = q
      BY <1>2, <2>10 DEF Range
    <3>2. \A q : q \in Range(ptr') <=> \E x \in DOMAIN ptr' : ptr'[x] = q
      BY DEF Range
    <3>3. \A q : q \in Range(ptr') <=> q \in DOMAIN sizemap \union {addr}
      <4>1. ASSUME NEW q \in Range(ptr') PROVE q \in DOMAIN sizemap \union {addr}
        <5>1. PICK x \in DOMAIN ptr' : ptr'[x] = q
          BY <3>2
        <5>2. x \in DOMAIN ptr \/ x = allocs
          BY <2>8
        <5>. QED  BY <2>8, <3>1, <5>1, <5>2
      <4>2. ASSUME NEW q \in DOMAIN sizemap PROVE q \in Range(ptr')
        <5>1. PICK x \in DOMAIN ptr : ptr[x] = q
          BY <3>1
        <5>. QED  BY <2>8, <3>2, <5>1
      <4>3. addr \in Range(ptr')
        BY <2>8, <3>2
      <4>. QED  BY <4>1, <4>2, <4>3
    <3>4. IsInjective(ptr')
      <4>1. ASSUME NEW x \in DOMAIN ptr', NEW y \in DOMAIN ptr', ptr'[x] = ptr'[y]
            PROVE  x = y
        <5>1. \A z \in DOMAIN ptr : ptr'[z] = ptr[z] /\ ptr[z] # addr
          BY <2>2, <2>8, <3>1
        <5>2. CASE x \in DOMAIN ptr /\ y \in DOMAIN ptr
          BY <3>1, <4>1, <5>1, <5>2 DEF IsInjective
        <5>3. CASE x = allocs \/ y = allocs
          BY <2>8, <4>1, <5>1, <5>3
        <5>. QED  BY <2>8, <5>2, <5>3
      <4>. QED  BY <4>1 DEF IsInjective
    <3>. QED  BY <2>4, <3>3, <3>4
  <2>. QED  BY <1>1, <1>2, <2>3, <2>4, <2>6, <2>9, <2>10 DEF HeapInv
<1>. QED  BY <1>4, <1>5

LEMMA HeapStep ==
  ASSUME HeapInv, HeapNext
  PROVE  HeapInv'
<1>1. ASSUME NEW size \in AllocSizes, Alloc(size) PROVE HeapInv'
  BY <1>1, AllocStep
<1>2. ASSUME NEW d \in DOMAIN ptr, FreeRandom(d) PROVE HeapInv'
  BY <1>2, FreeRandomStep
<1>3. ASSUME NEW index \in 0 .. MaxOps, FreeListed(index) \/ FreeSkipped(index) PROVE HeapInv'
  BY <1>3, FreeListedStep
<1>. QED  BY <1>1, <1>2, <1>3 DEF HeapNext

LEMMA HeapStutter ==
  ASSUME HeapInv, UNCHANGED heapVars
  PROVE  HeapInv'
<1>1. /\ heapOpt' = heapOpt /\ freelist' = freelist /\ sizemap' = sizemap /\ ptr' = ptr
      /\ allocs' = allocs /\ opsDone' = opsDone /\ heapError' = heapError
  BY DEF heapVars
<1>. QED  BY <1>1 DEF HeapInv

\* What the invariant says of the heap.
LEMMA HeapInvSound ==
  ASSUME HeapInv
  PROVE  HeapPartition /\ FullyCoalesced /\ PointersLive
<1>1. /\ freelist \in Lists /\ heapError # "AssertionError"
      /\ Partition(ToSet(freelist) \union UsedOf(sizemap))
      /\ ToSet(freelist) \intersect UsedOf(sizemap) = {}
      /\ heapOpt.mode = "random" => IsInjective(ptr) /\ Range(ptr) = DOMAIN sizemap
      /\ heapOpt.coalesce /\ heapOpt.order = "ADDRSORT" => Separated(freelist)
  BY DEF HeapInv
<1>2. FreeBlocks = ToSet(freelist) /\ UsedBlocks = UsedOf(sizemap)
  BY DEF FreeBlocks, UsedBlocks, UsedOf
<1>3. HeapPartition
  <2>1. UNION {Bytes(b) : b \in FreeBlocks \union UsedBlocks}
          = BaseAddr .. BaseAddr + HeapSize - 1
    BY <1>1, <1>2 DEF Partition, Covered, HeapBytes
  <2>2. MapThenSumSet(LAMBDA b : b[2], FreeBlocks)
          + MapThenSumSet(LAMBDA b : b[2], UsedBlocks) = HeapSize
    <3>1. Partition(FreeBlocks \union UsedBlocks) /\ FreeBlocks \intersect UsedBlocks = {}
      BY <1>1, <1>2
    <3>. QED  BY <3>1, PartitionSizes
  <2>3. IsInjective(freelist)
    BY <1>1, ListIs
  <2>. QED  BY <1>1, <2>1, <2>2, <2>3, Zenon DEF HeapPartition
<1>4. PointersLive
  BY <1>1 DEF PointersLive
<1>5. ASSUME Separated(freelist)
      PROVE  /\ \A b1, b2 \in FreeBlocks : b1[1] + b1[2] # b2[1]
             /\ DOMAIN sizemap = {} => freelist = <<<<BaseAddr, HeapSize>>>>
  <2> DEFINE n == Len(freelist)
  <2>1. /\ n \in Nat /\ freelist \in Seq(BlockSet) /\ DOMAIN freelist = 1 .. n
        /\ \A q : q \in FreeBlocks <=> \E i \in 1 .. n : freelist[i] = q
        /\ \A i \in 1 .. n : /\ freelist[i] \in BlockSet
                             /\ freelist[i][1] \in Nat /\ freelist[i][2] \in Nat
                             /\ freelist[i][2] > 0
    BY <1>1, <1>2, ListIs, BlockIs
  <2>2. ASSUME NEW b1 \in FreeBlocks, NEW b2 \in FreeBlocks PROVE b1[1] + b1[2] # b2[1]
    <3>1. PICK j \in 1 .. n : freelist[j] = b1
      BY <2>1
    <3>2. PICK k \in 1 .. n : freelist[k] = b2
      BY <2>1
    <3>3. /\ b1[1] \in Nat /\ b1[2] \in Nat /\ b1[2] > 0
          /\ b2[1] \in Nat /\ b2[2] \in Nat /\ b2[2] > 0
      BY <2>1, <3>1, <3>2
    <3>4. CASE j < k
      <4>1. b1[1] + b1[2] < b2[1]
        BY <1>5, <3>1, <3>2, <3>4 DEF Separated
      <4>. QED  BY <3>3, <4>1
    <3>5. CASE k < j
      <4>1. b2[1] + b2[2] < b1[1]
        BY <1>5, <3>1, <3>2, <3>5 DEF Separated
      <4>. QED  BY <3>3, <4>1
    <3>6. CASE j = k
      <4>1. b1 = b2
        BY <3>1, <3>2, <3>6
      <4>. QED  BY <3>3, <4>1
    <3>. QED  BY <2>1, <3>4, <3>5, <3>6
  <2>3. ASSUME DOMAIN sizemap = {} PROVE freelist = <<<<BaseAddr, HeapSize>>>>
    <3>1. UsedOf(sizemap) = {}
      BY <2>3 DEF UsedOf
    <3>2. FreeBlocks \in SUBSET BlockSet /\ Covered(FreeBlocks) = HeapBytes
      <4>1. Partition(FreeBlocks)
        BY <1>1, <1>2, <3>1
      <4>. QED  BY <4>1 DEF Partition
    <3>3. \A x : x \in HeapBytes <=> x \in Int /\ BaseAddr <= x /\ x < BaseAddr + HeapSize
      BY MallocAssumption DEF HeapBytes
    <3>4. \A i \in 1 .. n : \A x : x \in Bytes(freelist[i]) <=>
              x \in Int /\ freelist[i][1] <= x /\ x < freelist[i][1] + freelist[i][2]
      BY <2>1, BlockIs
    <3>5. \A x : x \in HeapBytes <=> \E i \in 1 .. n : x \in Bytes(freelist[i])
      <4>1. \A x : x \in HeapBytes <=> \E b \in FreeBlocks : x \in Bytes(b)
        BY <3>2, CoveredIs
      <4>. QED  BY <2>1, <4>1
    <3>6. n >= 1
      <4>1. BaseAddr \in HeapBytes
        BY <3>3, MallocAssumption
      <4>2. PICK i \in 1 .. n : BaseAddr \in Bytes(freelist[i])
        BY <3>5, <4>1
      <4>. QED  BY <2>1, <4>2
    <3> DEFINE b == freelist[1]
               e == b[1] + b[2]
    <3>7. /\ 1 \in 1 .. n /\ b \in BlockSet /\ b[1] \in Nat /\ b[2] \in Nat /\ b[2] > 0
          /\ \A x : x \in Bytes(b) <=> x \in Int /\ b[1] <= x /\ x < e
      BY <2>1, <3>4, <3>6
    <3>8. n = 1
      <4>1. SUFFICES ASSUME n # 1 PROVE FALSE
        OBVIOUS
      <4>2. 2 \in 1 .. n /\ e < freelist[2][1]
        <5>1. 2 \in 1 .. n
          BY <2>1, <3>6, <4>1
        <5>. QED  BY <1>5, <3>7, <5>1 DEF Separated
      <4>3. freelist[2][1] \in HeapBytes /\ b[1] \in HeapBytes
        <5>1. freelist[2][1] \in Bytes(freelist[2]) /\ b[1] \in Bytes(b)
          BY <2>1, <3>7, <4>2, BlockIs
        <5>. QED  BY <3>5, <3>7, <4>2, <5>1
      <4>4. e \in HeapBytes
        <5>1. /\ freelist[2][1] < BaseAddr + HeapSize /\ BaseAddr <= b[1]
              /\ freelist[2][1] \in Nat
          BY <2>1, <3>3, <4>2, <4>3
        <5>2. e \in Int /\ BaseAddr <= e /\ e < BaseAddr + HeapSize
          BY <3>7, <4>2, <5>1, MallocAssumption
        <5>. QED  BY <3>3, <5>2
      <4>5. PICK i \in 1 .. n : e \in Bytes(freelist[i])
        BY <3>5, <4>4
      <4>6. freelist[i][1] <= e /\ freelist[i][1] \in Nat
        BY <2>1, <3>4, <4>5
      <4>7. CASE i = 1
        <5>1. e < e
          BY <3>7, <4>5, <4>7
        <5>. QED  BY <3>7, <5>1
      <4>8. CASE i # 1
        <5>1. 1 < i
          BY <4>8
        <5>2. e < freelist[i][1]
          BY <1>5, <3>7, <5>1 DEF Separated
        <5>. QED  BY <3>7, <4>6, <5>2
      <4>. QED  BY <4>7, <4>8
    <3>9. \A x : x \in HeapBytes <=> x \in Bytes(b)
      BY <3>5, <3>8
    <3>10. b[1] = BaseAddr /\ e = BaseAddr + HeapSize
      <4>0. BaseAddr \in Nat /\ HeapSize \in Nat /\ HeapSize > 0
        BY MallocAssumption
      <4>1. \A x \in Int : BaseAddr <= x /\ x < BaseAddr + HeapSize <=> b[1] <= x /\ x < e
        BY <3>3, <3>7, <3>9
      <4>. HIDE DEF b
      <4>2. b[1] <= BaseAddr /\ BaseAddr < e
        BY <4>0, <4>1
      <4>3. BaseAddr <= b[1]
        BY <3>7, <4>0, <4>1
      <4>4. e - 1 \in Int /\ b[1] <= e - 1 /\ e - 1 < e
        BY <3>7
      <4>5. e - 1 < BaseAddr + HeapSize
        BY <4>1, <4>4
      <4>6. /\ BaseAddr + HeapSize - 1 \in Int /\ BaseAddr <= BaseAddr + HeapSize - 1
            /\ BaseAddr + HeapSize - 1 < BaseAddr + HeapSize
        BY <4>0
      <4>7. BaseAddr + HeapSize - 1 < e
        BY <4>1, <4>6
      <4>. QED  BY <3>7, <4>0, <4>2, <4>3, <4>5, <4>7
    <3>11. b = <<BaseAddr, HeapSize>>
      <4>1. b = <<b[1], b[2]>>
        BY <3>7, BlockIs
      <4>2. b[2] = HeapSize
        BY <3>7, <3>10, MallocAssumption
      <4>. QED  BY <3>10, <4>1, <4>2
    <3>12. freelist = [i \in 1 .. 1 |-> b]
      BY <2>1, <3>8
    <3>13. <<b>> = [i \in 1 .. 1 |-> b]
      OBVIOUS
    <3>. HIDE DEF b
    <3>. QED  BY <3>11, <3>12, <3>13
  <2>. QED  BY <2>2, <2>3
<1>6. FullyCoalesced
  BY <1>1, <1>5 DEF FullyCoalesced
<1>. QED  BY <1>3, <1>4, <1>6

LEMMA HeapInitial == MemoryInit => HeapInv
<1>. SUFFICES ASSUME MemoryInit PROVE HeapInv
  OBVIOUS
<1>1. HeapInit \/ HeapOff
  BY Zenon DEF MemoryInit
<1>. QED  BY <1>1, HeapInitInv

LEMMA HeapStepInv == HeapInv /\ [MemoryNext]_memoryVars => HeapInv'
<1>. SUFFICES ASSUME HeapInv, [MemoryNext]_memoryVars PROVE HeapInv'
  OBVIOUS
<1>1. HeapNext \/ UNCHANGED heapVars
  BY Zenon DEF MemoryNext, memoryVars
<1>. QED  BY <1>1, HeapStep, HeapStutter

(* malloc.py: for any heap, header, alignment and request sizes and any    *)
(* sequence of operations, the free and the allocated blocks partition the *)
(* bytes of the heap and the assert of addToMap never fails, a coalesced   *)
(* list in address order has no neighbours that touch, and the random mode *)
(* holds exactly the allocated blocks, each once.                          *)
THEOREM HeapSoundHolds == MemorySpec => []HeapSound
<1>1. MemoryInit => HeapInv
  BY HeapInitial
<1>2. HeapInv /\ [MemoryNext]_memoryVars => HeapInv'
  BY HeapStepInv
<1>3. HeapInv => HeapSound
  BY HeapInvSound DEF HeapSound
<1>. QED  BY <1>1, <1>2, <1>3, PTL DEF MemorySpec

-----------------------------------------------------------------------------
(* The RAID: where blocks are placed.                                      *)

LEMMA RaidSizes ==
  ASSUME raidOpt \in RaidOptions
  PROVE  /\ chunk \in Nat \ {0} /\ ndisk \in Nat \ {0} /\ raidOpt.size \in Nat \ {0}
         /\ raidOpt.level \in {0, 1, 4, 5} /\ raidOpt.raid5type \in {"LS", "LA"}
         /\ raidOpt.level # 0 => ndisk >= 2 /\ ndisk - 1 \in Nat \ {0}
         /\ raidOpt.level = 1 => ndisk % 2 = 0
         /\ Disks = 0 .. ndisk - 1
<1>1. /\ raidOpt.chunkSize \in Nat \ {0} /\ raidOpt.numDisks \in Nat \ {0}
      /\ raidOpt.size \in Nat \ {0}
      /\ raidOpt.level \in {0, 1, 4, 5} /\ raidOpt.raid5type \in {"LS", "LA"}
  BY RaidAssumption
<1>2. /\ raidOpt.numDisks >= IF raidOpt.level = 0 THEN 1 ELSE 2
      /\ raidOpt.level = 1 => raidOpt.numDisks % 2 = 0
  BY RaidAssumption
<1>. QED  BY <1>1, <1>2 DEF chunk, ndisk, Disks

\* Blocks that are not the same are not at one place of one of the disks.
LEMMA PlaceIs ==
  ASSUME raidOpt \in RaidOptions, NEW w \in Nat \ {0}, NEW b \in Nat
  PROVE  /\ Place(w, b)[1] \in 0 .. w - 1 /\ Place(w, b)[2] \in Nat
         /\ Place(w, b)[2] \div chunk = (b \div chunk) \div w
         /\ Place(w, b)[2] % chunk = b % chunk
         /\ Place(w, b)[1] = (b \div chunk) % w
<1> DEFINE q == b \div chunk
<1>1. chunk \in Nat /\ chunk > 0
  BY RaidSizes
<1>2. q \in Nat /\ b % chunk \in 0 .. chunk - 1
  BY <1>1, DivMod
<1>. HIDE DEF q
<1>3. q \div w \in Nat /\ q % w \in 0 .. w - 1
  BY <1>2, DivMod
<1> DEFINE o == (q \div w) * chunk + (b % chunk)
<1>4. o % chunk = b % chunk /\ o \div chunk = q \div w
  BY <1>1, <1>2, <1>3, ModOf
<1>5. o \in Nat
  <2>1. (q \div w) * chunk \in Nat
    BY <1>1, <1>3, SMTT(30)
  <2>. QED  BY <1>1, <1>2, <2>1
<1>6. Place(w, b)[1] = q % w /\ Place(w, b)[2] = o
  BY DEF Place, q
<1>. HIDE DEF o
<1>. QED  BY <1>3, <1>4, <1>5, <1>6 DEF q

LEMMA PlaceInjective ==
  ASSUME raidOpt \in RaidOptions, NEW w \in Nat \ {0}, NEW b \in Nat, NEW c \in Nat,
         Place(w, b) = Place(w, c)
  PROVE  b = c
<1>1. chunk \in Nat /\ chunk > 0
  BY RaidSizes
<1>2. /\ (b \div chunk) \div w = (c \div chunk) \div w /\ (b \div chunk) % w = (c \div chunk) % w
      /\ b % chunk = c % chunk
  <2>1. Place(w, b)[1] = Place(w, c)[1] /\ Place(w, b)[2] = Place(w, c)[2]
    OBVIOUS
  <2>. QED  BY <2>1, PlaceIs
<1>3. ASSUME NEW x \in Nat, NEW y \in Nat, NEW m \in Nat, m > 0, x \div m = y \div m, x % m = y % m
      PROVE  x = y
  BY <1>3, DivMod
<1>4. b \div chunk \in Nat /\ c \div chunk \in Nat
  BY <1>1, DivMod
<1>5. b \div chunk = c \div chunk
  BY <1>2, <1>3, <1>4
<1>. QED  BY <1>1, <1>2, <1>3, <1>5

\* The stripe of a block is the offset of its chunk.
LEMMA StripeIs ==
  ASSUME raidOpt \in RaidOptions, ndisk >= 2, NEW b \in Nat
  PROVE  /\ BlocksInStripe \in Nat \ {0} /\ StripeOf(b) \in Nat
         /\ StripeOf(b) = (b \div chunk) \div (ndisk - 1)
         /\ StripeOf(b) * BlocksInStripe <= b /\ b < (StripeOf(b) + 1) * BlocksInStripe
<1> DEFINE w == ndisk - 1
           m == chunk
           q == b \div m
           k == q % w
           s == q \div w
           r == b % m
<1>1. w \in Nat /\ w > 0 /\ m \in Nat /\ m > 0
  BY RaidSizes
<1>2. BlocksInStripe = w * m
  BY DEF BlocksInStripe
<1>. HIDE DEF w, m
<1>3. q \in Nat /\ r \in 0 .. m - 1 /\ b = q * m + r
  BY <1>1, DivMod
<1>. HIDE DEF q, r
<1>4. s \in Nat /\ k \in 0 .. w - 1 /\ q = s * w + k
  BY <1>1, <1>3, DivMod
<1>. HIDE DEF s, k
<1>5. w * m \in Nat /\ w * m > 0 /\ k * m \in Nat /\ s * (w * m) \in Nat
  BY <1>1, <1>4, SMTT(30)
<1>6. k * m + r \in 0 .. w * m - 1
  <2>1. (w - 1 - k) * m >= 0 /\ (w - 1 - k) * m = w * m - m - k * m
    BY <1>1, <1>4, SMTT(30)
  <2>. QED  BY <1>1, <1>3, <1>4, <1>5, <2>1
<1>7. b = s * (w * m) + (k * m + r)
  <2>1. q * m = (s * w) * m + k * m
    BY <1>1, <1>4, SMTT(30)
  <2>2. (s * w) * m = s * (w * m)
    BY <1>1, <1>4, SMTT(30)
  <2>3. q * m \in Nat /\ (s * w) * m \in Nat
    BY <1>1, <1>3, <1>4, SMTT(30)
  <2>. QED  BY <1>3, <1>5, <2>1, <2>2, <2>3
<1>8. b \div (w * m) = s
  BY <1>4, <1>5, <1>6, <1>7, ModOf
<1>9. (s + 1) * (w * m) = s * (w * m) + w * m
  BY <1>4, <1>5, SMTT(30)
<1>10. StripeOf(b) = s
  BY <1>2, <1>8 DEF StripeOf
<1>11. s * (w * m) <= b /\ b < (s + 1) * (w * m)
  BY <1>5, <1>6, <1>7, <1>9
<1>. QED  BY <1>2, <1>4, <1>5, <1>10, <1>11 DEF s, q, w, m

StripeBlocks(s) == s * BlocksInStripe .. (s + 1) * BlocksInStripe - 1

\* The block of a stripe that is in column k at the offset r of its chunk.
LEMMA ColumnIs ==
  ASSUME raidOpt \in RaidOptions, ndisk >= 2, NEW s \in Nat, NEW k \in 0 .. ndisk - 2,
         NEW r \in 0 .. chunk - 1
  PROVE  \E c \in StripeBlocks(s) :
            c % chunk = r /\ Place(ndisk - 1, c)[1] = k /\ c \in Nat
<1> DEFINE w == ndisk - 1
           m == chunk
           p == s * w + k
           c == p * m + r
<1>1. w \in Nat \ {0} /\ m \in Nat /\ m > 0 /\ k \in 0 .. w - 1
  BY RaidSizes
<1>2. BlocksInStripe = w * m
  BY DEF BlocksInStripe
<1>. HIDE DEF w
<1>3. s * w \in Nat /\ p \in Nat
  <2>1. s * w \in Nat
    BY <1>1, SMTT(30)
  <2>. QED  BY <1>1, <2>1
<1>4. p % w = k /\ p \div w = s
  BY <1>1, ModOf
<1>. HIDE DEF p, m
<1>5. r \in 0 .. m - 1
  BY DEF m
<1>6. c % m = r /\ c \div m = p /\ c \in Nat
  <2>1. p * m \in Nat
    BY <1>1, <1>3, SMTT(30)
  <2>. QED  BY <1>1, <1>3, <1>5, <2>1, ModOf
<1>. HIDE DEF c
<1>7. Place(w, c)[1] = k
  BY <1>1, <1>4, <1>6, PlaceIs DEF m
<1>8. StripeOf(c) = s
  BY <1>4, <1>6, StripeIs DEF m, w
<1>9. BlocksInStripe \in Nat /\ s * BlocksInStripe <= c /\ c < (s + 1) * BlocksInStripe
  BY <1>6, <1>8, StripeIs
<1>10. s * BlocksInStripe \in Nat /\ (s + 1) * BlocksInStripe \in Nat
  BY <1>9, SMTT(30)
<1>11. c \in s * BlocksInStripe .. (s + 1) * BlocksInStripe - 1
  BY <1>6, <1>9, <1>10
<1>. QED  BY <1>6, <1>7, <1>11 DEF m, w, StripeBlocks

\* the disk of column k of a stripe of levels 4 and 5
DataDisk(k, s) ==
    CASE raidOpt.level = 4 -> k
      [] raidOpt.level = 5 /\ raidOpt.raid5type = "LA" -> IF k >= Pmap(s) THEN k + 1 ELSE k
      [] raidOpt.level = 5 /\ raidOpt.raid5type = "LS" -> (k - (s % ndisk)) % ndisk

Parities == raidOpt \in RaidOptions /\ raidOpt.level \in {4, 5}

LEMMA ShiftedMod ==
  ASSUME NEW n \in Nat, n > 0, NEW k \in 0 .. n - 1, NEW r \in 0 .. n - 1
  PROVE  (k - r) % n = IF k >= r THEN k - r ELSE k - r + n
<1>1. CASE k >= r
  <2>1. k - r \in 0 .. n - 1
    BY <1>1
  <2>2. (0 * n + (k - r)) % n = k - r
    BY <2>1, ModOf
  <2>3. 0 * n + (k - r) = k - r
    OBVIOUS
  <2>. QED  BY <1>1, <2>2, <2>3
<1>2. CASE k < r
  <2> DEFINE x == k - r
  <2>1. x \in Int /\ x < 0 /\ x + n >= 0 /\ x + n < n
    BY <1>2
  <2>. HIDE DEF x
  <2>2. x % n \in 0 .. n - 1 /\ x \div n \in Int /\ x = n * (x \div n) + (x % n)
    BY <2>1, SMTT(30)
  <2>3. n * (x \div n) = (x \div n) * n
    BY <2>2, SMTT(30)
  <2> DEFINE q == 0 - 1
             y == x + n
  <2>4. q \in Int /\ y \in 0 .. n - 1 /\ (x \div n) * n + (x % n) = q * n + y
    <3>1. q * n = 0 - n
      OBVIOUS
    <3>. HIDE DEF q
    <3>. QED  BY <2>1, <2>2, <2>3, <3>1 DEF q
  <2>. HIDE DEF q, y
  <2>5. x % n = y
    BY <2>2, <2>4, DivModUnique
  <2>6. x % n = x + n
    BY <2>5 DEF y
  <2>. QED  BY <1>2, <2>6 DEF x
<1>. QED  BY <1>1, <1>2

LEMMA Bmap45Is ==
  ASSUME Parities, NEW b \in Nat
  PROVE  /\ Bmap45(b)[1] = DataDisk(Place(ndisk - 1, b)[1], StripeOf(b))
         /\ Bmap45(b)[2] = Place(ndisk - 1, b)[2]
         /\ Bmap45(b)[2] \in Nat
<1> DEFINE p == Place(ndisk - 1, b)
           s == StripeOf(b)
<1>1. ndisk >= 2 /\ ndisk - 1 \in Nat \ {0} /\ raidOpt \in RaidOptions
      /\ raidOpt.raid5type \in {"LS", "LA"} /\ raidOpt.level \in {4, 5}
  BY RaidSizes DEF Parities
<1>2. p[2] \div chunk = s /\ p[2] \in Nat
  BY <1>1, PlaceIs, StripeIs
<1>3. p = <<p[1], p[2]>>
  BY DEF Place
<1>. HIDE DEF p, s
<1>4. CASE raidOpt.level = 4
  <2>1. Bmap45(b) = p
    BY <1>4 DEF Bmap45, p
  <2>2. DataDisk(p[1], s) = p[1]
    BY <1>4 DEF DataDisk
  <2>. QED  BY <1>2, <2>1, <2>2 DEF p, s
<1>5. CASE raidOpt.level = 5 /\ raidOpt.raid5type = "LA"
  <2>1. Bmap45(b) = <<IF p[1] >= Pmap(s) THEN p[1] + 1 ELSE p[1], p[2]>>
    BY <1>2, <1>5 DEF Bmap45, p
  <2>2. DataDisk(p[1], s) = IF p[1] >= Pmap(s) THEN p[1] + 1 ELSE p[1]
    BY <1>5 DEF DataDisk
  <2>. QED  BY <1>2, <2>1, <2>2 DEF p, s
<1>6. CASE raidOpt.level = 5 /\ raidOpt.raid5type = "LS"
  <2>1. Bmap45(b) = <<(p[1] - (s % ndisk)) % ndisk, p[2]>>
    BY <1>2, <1>6 DEF Bmap45, p
  <2>2. DataDisk(p[1], s) = (p[1] - (s % ndisk)) % ndisk
    BY <1>6 DEF DataDisk
  <2>. QED  BY <1>2, <2>1, <2>2 DEF p, s
<1>. QED  BY <1>1, <1>4, <1>5, <1>6

\* The columns of a stripe are on the disks but that of the parity, each on its own.
LEMMA ColumnsApart ==
  ASSUME Parities, NEW s \in Nat
  PROVE  /\ Pmap(s) \in Disks
         /\ \A k \in 0 .. ndisk - 2 : DataDisk(k, s) \in Disks \ {Pmap(s)}
         /\ \A d \in Disks \ {Pmap(s)} : \E k \in 0 .. ndisk - 2 : DataDisk(k, s) = d
         /\ \A j, k \in 0 .. ndisk - 2 : DataDisk(j, s) = DataDisk(k, s) => j = k
<1> DEFINE n == ndisk
           r == s % n
<1>1. /\ n \in Nat /\ n >= 2 /\ n > 0 /\ Disks = 0 .. n - 1
      /\ raidOpt.raid5type \in {"LS", "LA"} /\ raidOpt.level \in {4, 5}
  BY RaidSizes DEF Parities
<1>2. r \in 0 .. n - 1
  BY <1>1, DivMod
<1>3. Pmap(s) = IF raidOpt.level = 4 THEN n - 1 ELSE n - 1 - r
  BY DEF Pmap
<1>4. CASE raidOpt.level = 4
  <2>1. \A k : DataDisk(k, s) = k
    BY <1>4 DEF DataDisk
  <2>2. Pmap(s) = n - 1
    BY <1>3, <1>4
  <2>. HIDE DEF n
  <2>3. 0 .. n - 2 = Disks \ {Pmap(s)} /\ Pmap(s) \in Disks
    BY <1>1, <2>2
  <2>. QED  BY <2>1, <2>3 DEF n
<1>5. CASE raidOpt.level = 5 /\ raidOpt.raid5type = "LA"
  <2>1. \A k : DataDisk(k, s) = IF k >= Pmap(s) THEN k + 1 ELSE k
    BY <1>5 DEF DataDisk
  <2>2. Pmap(s) = n - 1 - r
    BY <1>3, <1>5
  <2>. HIDE DEF n, r
  <2>3. Pmap(s) \in Int /\ 0 <= Pmap(s) /\ Pmap(s) <= n - 1
    BY <1>1, <1>2, <2>2
  <2>4. \A d \in Disks \ {Pmap(s)} : \E k \in 0 .. n - 2 : DataDisk(k, s) = d
    <3>1. ASSUME NEW d \in Disks \ {Pmap(s)} PROVE \E k \in 0 .. n - 2 : DataDisk(k, s) = d
      <4>1. CASE d > Pmap(s)
        <5>1. d - 1 \in 0 .. n - 2 /\ DataDisk(d - 1, s) = d
          BY <1>1, <2>1, <2>3, <4>1
        <5>. QED  BY <5>1
      <4>2. CASE d < Pmap(s)
        <5>1. d \in 0 .. n - 2 /\ DataDisk(d, s) = d
          BY <1>1, <2>1, <2>3, <4>2
        <5>. QED  BY <5>1
      <4>. QED  BY <1>1, <2>3, <4>1, <4>2
    <3>. QED  BY <3>1
  <2>5. \A k \in 0 .. n - 2 : DataDisk(k, s) \in Disks \ {Pmap(s)}
    BY <1>1, <2>1, <2>3
  <2>6. \A j, k \in 0 .. n - 2 : DataDisk(j, s) = DataDisk(k, s) => j = k
    BY <1>1, <2>1, <2>3
  <2>7. Pmap(s) \in Disks
    BY <1>1, <2>3
  <2>. QED  BY <2>4, <2>5, <2>6, <2>7 DEF n
<1>6. CASE raidOpt.level = 5 /\ raidOpt.raid5type = "LS"
  <2>1. \A k : DataDisk(k, s) = (k - r) % n
    BY <1>6 DEF DataDisk
  <2>2. Pmap(s) = n - 1 - r
    BY <1>3, <1>6
  <2>. HIDE DEF n, r
  <2>3. \A k \in 0 .. n - 1 : DataDisk(k, s) = IF k >= r THEN k - r ELSE k - r + n
    BY <1>1, <1>2, <2>1, ShiftedMod
  <2>4. \A k \in 0 .. n - 2 : k \in 0 .. n - 1 /\ k \in Int /\ 0 <= k /\ k <= n - 2
    BY <1>1
  <2>5. r \in Int /\ 0 <= r /\ r <= n - 1
    BY <1>1, <1>2
  <2>6. \A d \in Disks \ {Pmap(s)} : \E k \in 0 .. n - 2 : DataDisk(k, s) = d
    <3>1. ASSUME NEW d \in Disks \ {Pmap(s)} PROVE \E k \in 0 .. n - 2 : DataDisk(k, s) = d
      <4>0. d \in Int /\ 0 <= d /\ d <= n - 1 /\ d + r # n - 1
        BY <1>1, <2>2, <2>5
      <4>1. CASE d + r < n - 1
        <5>1. d + r \in 0 .. n - 2 /\ d + r \in 0 .. n - 1 /\ d + r >= r /\ (d + r) - r = d
          BY <1>1, <2>5, <4>0, <4>1
        <5>. QED  BY <2>3, <5>1
      <4>2. CASE d + r > n - 1
        <5> DEFINE k == d + r - n
        <5>1. k \in 0 .. n - 2 /\ k \in 0 .. n - 1 /\ ~(k >= r) /\ k - r + n = d
          BY <1>1, <2>5, <4>0, <4>2
        <5>. HIDE DEF k
        <5>. QED  BY <2>3, <5>1
      <4>. QED  BY <1>1, <2>5, <4>0, <4>1, <4>2
    <3>. QED  BY <3>1
  <2>7. \A k \in 0 .. n - 2 : DataDisk(k, s) \in Disks \ {Pmap(s)}
    <3>1. ASSUME NEW k \in 0 .. n - 2 PROVE DataDisk(k, s) \in 0 .. n - 1 /\ DataDisk(k, s) # n - 1 - r
      BY <1>1, <2>3, <2>4, <2>5
    <3>. QED  BY <1>1, <2>2, <3>1
  <2>8. \A j, k \in 0 .. n - 2 : DataDisk(j, s) = DataDisk(k, s) => j = k
    BY <1>1, <2>3, <2>4, <2>5
  <2>9. Pmap(s) \in Disks
    BY <1>1, <2>2, <2>5
  <2>. QED  BY <2>6, <2>7, <2>8, <2>9 DEF n
<1>. QED  BY <1>1, <1>4, <1>5, <1>6

LEMMA Bmap45Injective ==
  ASSUME Parities, NEW b \in Nat, NEW c \in Nat, Bmap45(b) = Bmap45(c)
  PROVE  b = c
<1> DEFINE w == ndisk - 1
           p == Place(w, b)
           q == Place(w, c)
<1>1. ndisk >= 2 /\ w \in Nat \ {0} /\ raidOpt \in RaidOptions /\ ndisk \in Nat
  BY RaidSizes DEF Parities
<1>2. /\ Bmap45(b)[1] = DataDisk(p[1], StripeOf(b)) /\ Bmap45(b)[2] = p[2]
      /\ Bmap45(c)[1] = DataDisk(q[1], StripeOf(c)) /\ Bmap45(c)[2] = q[2]
  BY Bmap45Is
<1>3. /\ p[1] \in 0 .. w - 1 /\ p[2] \div chunk = StripeOf(b) /\ StripeOf(b) \in Nat
      /\ q[1] \in 0 .. w - 1 /\ q[2] \div chunk = StripeOf(c)
      /\ p = <<p[1], p[2]>> /\ q = <<q[1], q[2]>>
  <2>1. p = <<p[1], p[2]>> /\ q = <<q[1], q[2]>>
    BY DEF Place
  <2>. QED  BY <1>1, <2>1, PlaceIs, StripeIs
<1>. HIDE DEF p, q
<1>4. p[2] = q[2] /\ StripeOf(b) = StripeOf(c)
  BY <1>2, <1>3
<1>5. w - 1 = ndisk - 2
  BY <1>1
<1>. HIDE DEF w
<1>6. p[1] = q[1]
  BY <1>2, <1>3, <1>4, <1>5, ColumnsApart
<1>7. p = q
  BY <1>3, <1>4, <1>6
<1>. QED  BY <1>1, <1>7, PlaceInjective DEF p, q

\* The data of a row are on all disks but that of its parity.
LEMMA RowDisks ==
  ASSUME Parities, NEW b \in Nat
  PROVE  /\ {Bmap45(c)[1] : c \in Row(b)} = Disks \ {Pmap(StripeOf(b))}
         /\ \A c \in Row(b) : c \in Nat /\ StripeOf(c) = StripeOf(b)
<1> DEFINE s == StripeOf(b)
           n == BlocksInStripe
<1>1. /\ ndisk >= 2 /\ ndisk - 1 \in Nat \ {0} /\ raidOpt \in RaidOptions /\ ndisk \in Nat
      /\ chunk \in Nat /\ chunk > 0
  BY RaidSizes DEF Parities
<1>2. s \in Nat /\ n \in Nat \ {0}
  BY <1>1, StripeIs
<1>3. ASSUME NEW c \in Row(b) PROVE c \in Nat /\ StripeOf(c) = s
  <2>1. c \in s * n .. (s + 1) * n - 1
    BY DEF Row
  <2>2. s * n \in Nat /\ (s + 1) * n = s * n + n
    BY <1>2, SMTT(30)
  <2> DEFINE k == c - s * n
  <2>3. c \in Nat /\ k \in 0 .. n - 1 /\ c = s * n + k
    BY <1>2, <2>1, <2>2
  <2>. HIDE DEF k, n
  <2>4. c \div n = s
    BY <1>2, <2>3, ModOf
  <2>. QED  BY <2>3, <2>4 DEF StripeOf, n
<1>. HIDE DEF n
<1>4. ASSUME NEW c \in Row(b) PROVE Bmap45(c)[1] \in Disks \ {Pmap(s)}
  <2>1. c \in Nat /\ StripeOf(c) = s
    BY <1>3
  <2>2. Place(ndisk - 1, c)[1] \in 0 .. ndisk - 2
    <3>1. Place(ndisk - 1, c)[1] \in 0 .. (ndisk - 1) - 1 /\ (ndisk - 1) - 1 = ndisk - 2
      BY <1>1, <2>1, PlaceIs
    <3>. QED  BY <3>1
  <2>3. Bmap45(c)[1] = DataDisk(Place(ndisk - 1, c)[1], s)
    BY <2>1, Bmap45Is
  <2>. QED  BY <1>2, <2>2, <2>3, ColumnsApart
<1>5. ASSUME NEW d \in Disks \ {Pmap(s)} PROVE \E c \in Row(b) : Bmap45(c)[1] = d
  <2>1. PICK k \in 0 .. ndisk - 2 : DataDisk(k, s) = d
    BY <1>2, ColumnsApart
  <2> DEFINE r == b % chunk
  <2>2. r \in 0 .. chunk - 1
    BY <1>1, DivMod
  <2>. HIDE DEF r, s
  <2>3. PICK c \in StripeBlocks(s) :
           c % chunk = r /\ Place(ndisk - 1, c)[1] = k /\ c \in Nat
    BY <1>1, <1>2, <2>2, ColumnIs
  <2>4. c \in Row(b)
    BY <2>3 DEF Row, StripeBlocks, r, s
  <2>5. StripeOf(c) = s
    BY <1>3, <2>4
  <2>. QED  BY <2>1, <2>3, <2>4, <2>5, Bmap45Is
<1>. QED  BY <1>3, <1>4, <1>5

-----------------------------------------------------------------------------
(* The RAID: the requests that are sent to the disks.                      *)
Ios == [op : {"read", "write"}, disk : Nat, off : Nat]

LEMMA SeqIs ==
  ASSUME NEW S, NEW s \in Seq(S)
  PROVE  /\ Len(s) \in Nat /\ DOMAIN s = 1 .. Len(s) /\ \A i \in 1 .. Len(s) : s[i] \in S
         /\ \A q : q \in ToSet(s) <=> \E i \in 1 .. Len(s) : s[i] = q
<1>1. Len(s) \in Nat /\ DOMAIN s = 1 .. Len(s) /\ \A i \in 1 .. Len(s) : s[i] \in S
  OBVIOUS
<1>. QED  BY <1>1, Zenon DEF ToSet

LEMMA JoinIs ==
  ASSUME NEW S, NEW s \in Seq(S), NEW t \in Seq(S)
  PROVE  s \o t \in Seq(S) /\ ToSet(s \o t) = ToSet(s) \union ToSet(t)
<1> DEFINE u == s \o t
<1>1. /\ u \in Seq(S) /\ Len(u) = Len(s) + Len(t)
      /\ \A i \in 1 .. Len(s) + Len(t) : u[i] = IF i <= Len(s) THEN s[i] ELSE t[i - Len(s)]
  BY ConcatProperties
<1>2. Len(s) \in Nat /\ Len(t) \in Nat
  OBVIOUS
<1>. HIDE DEF u
<1>3. ASSUME NEW q \in ToSet(u) PROVE q \in ToSet(s) \union ToSet(t)
  <2>1. PICK i \in 1 .. Len(u) : u[i] = q
    BY <1>1, SeqIs
  <2>2. CASE i <= Len(s)
    <3>1. i \in 1 .. Len(s) /\ s[i] = q
      BY <1>1, <1>2, <2>1, <2>2
    <3>. QED  BY <3>1, SeqIs
  <2>3. CASE i > Len(s)
    <3>1. i - Len(s) \in 1 .. Len(t) /\ t[i - Len(s)] = q
      BY <1>1, <1>2, <2>1, <2>3
    <3>. QED  BY <3>1, SeqIs
  <2>. QED  BY <1>1, <1>2, <2>1, <2>2, <2>3
<1>4. ASSUME NEW q \in ToSet(s) PROVE q \in ToSet(u)
  <2>1. PICK i \in 1 .. Len(s) : s[i] = q
    BY SeqIs
  <2>2. i \in 1 .. Len(u) /\ u[i] = q
    BY <1>1, <1>2, <2>1
  <2>. QED  BY <1>1, <2>2, SeqIs
<1>5. ASSUME NEW q \in ToSet(t) PROVE q \in ToSet(u)
  <2>1. PICK i \in 1 .. Len(t) : t[i] = q
    BY SeqIs
  <2>2. Len(s) + i \in 1 .. Len(u) /\ u[Len(s) + i] = q
    <3>1. Len(s) + i \in 1 .. Len(u) /\ Len(s) + i \in 1 .. Len(s) + Len(t)
          /\ ~(Len(s) + i <= Len(s)) /\ (Len(s) + i) - Len(s) = i
      BY <1>1, <1>2
    <3>. QED  BY <1>1, <2>1, <3>1
  <2>. QED  BY <1>1, <2>2, SeqIs
<1>. QED  BY <1>1, <1>3, <1>4, <1>5 DEF u

\* The loop of FlattenSeq.
FlatStep(f, ss, i) == IF i = 1 THEN ss[i] ELSE f[i - 1] \o ss[i]
Flattens(f, ss) == f = [i \in 1 .. Len(ss) |-> FlatStep(f, ss, i)]

LEMMA FlattensExist ==
  ASSUME NEW ss, Len(ss) \in Nat
  PROVE  \E f : Flattens(f, ss)
<1> DEFINE D == {n \in Nat : \E f : \A i \in 1 .. n : f[i] = FlatStep(f, ss, i)}
<1>1. 0 \in D
  OBVIOUS
<1>2. ASSUME NEW n \in D PROVE n + 1 \in D
  <2>1. PICK f : \A i \in 1 .. n : f[i] = FlatStep(f, ss, i)
    BY <1>2
  <2> DEFINE h == [i \in Nat |-> FlatStep(f, ss, i)]
  <2>2. ASSUME NEW i \in 1 .. n + 1 PROVE h[i] = FlatStep(h, ss, i)
    <3>1. i \in Nat /\ h[i] = FlatStep(f, ss, i)
      BY <1>2
    <3>2. CASE i = 1
      <4>. HIDE DEF h
      <4>. QED  BY <3>1, <3>2 DEF FlatStep
    <3>3. CASE i # 1
      <4>1. i - 1 \in 1 .. n /\ i - 1 \in Nat
        BY <1>2, <3>3
      <4>2. h[i - 1] = f[i - 1]
        BY <2>1, <4>1
      <4>. HIDE DEF h
      <4>. QED  BY <3>1, <3>3, <4>2 DEF FlatStep
    <3>. QED  BY <3>2, <3>3
  <2>. HIDE DEF h
  <2>. QED  BY <1>2, <2>2
<1>. HIDE DEF D
<1>3. D = Nat
  <2>1. D \in SUBSET Nat
    BY DEF D
  <2>. QED  BY <1>1, <1>2, <2>1, AllNaturals
<1>4. PICK f : \A i \in 1 .. Len(ss) : f[i] = FlatStep(f, ss, i)
  BY <1>3 DEF D
<1> DEFINE h == [i \in 1 .. Len(ss) |-> f[i]]
<1>5. ASSUME NEW i \in 1 .. Len(ss) PROVE h[i] = FlatStep(h, ss, i)
  <2>1. h[i] = FlatStep(f, ss, i)
    BY <1>4
  <2>2. i # 1 => h[i - 1] = f[i - 1]
    OBVIOUS
  <2>. HIDE DEF h
  <2>. QED  BY <2>1, <2>2 DEF FlatStep
<1>6. h = [i \in 1 .. Len(ss) |-> h[i]]
  OBVIOUS
<1>. HIDE DEF h
<1>7. h = [i \in 1 .. Len(ss) |-> FlatStep(h, ss, i)]
  BY <1>5, <1>6
<1>. QED  BY <1>7 DEF Flattens

\* Flattening keeps what is in the sequences.
LEMMA FlattenKeeps ==
  ASSUME NEW S, NEW ss \in Seq(Seq(S)), Len(ss) # 0
  PROVE  /\ FlattenSeq(ss) \in Seq(S)
         /\ \A i \in 1 .. Len(ss) : ToSet(ss[i]) \subseteq ToSet(FlattenSeq(ss))
<1> DEFINE f == CHOOSE g : Flattens(g, ss)
<1>0. Len(ss) \in Nat /\ \A i \in 1 .. Len(ss) : ss[i] \in Seq(S)
  OBVIOUS
<1>1. FlattenSeq(ss) = f[Len(ss)]
  BY Zenon DEF FlattenSeq, Flattens, FlatStep
<1>2. Flattens(f, ss)
  BY <1>0, FlattensExist
<1>. HIDE DEF f
<1>3. \A i \in 1 .. Len(ss) : f[i] = FlatStep(f, ss, i)
  <2>1. f = [i \in 1 .. Len(ss) |-> FlatStep(f, ss, i)]
    BY <1>2 DEF Flattens
  <2>. QED  BY <2>1
<1> DEFINE D == {n \in Nat : n + 1 <= Len(ss) =>
                   f[n + 1] \in Seq(S) /\ \A i \in 1 .. n + 1 : ToSet(ss[i]) \subseteq ToSet(f[n + 1])}
<1>4. 0 \in D
  <2>1. ASSUME 1 <= Len(ss) PROVE f[1] = ss[1] /\ ss[1] \in Seq(S)
    BY <1>0, <1>3, <2>1 DEF FlatStep
  <2>2. 0 + 1 = 1 /\ \A i \in 1 .. 0 + 1 : i = 1
    OBVIOUS
  <2>. QED  BY <2>1, <2>2
<1>5. ASSUME NEW n \in D PROVE n + 1 \in D
  <2>1. SUFFICES ASSUME (n + 1) + 1 <= Len(ss)
                 PROVE  /\ f[(n + 1) + 1] \in Seq(S)
                        /\ \A i \in 1 .. (n + 1) + 1 : ToSet(ss[i]) \subseteq ToSet(f[(n + 1) + 1])
    BY <1>5
  <2>2. n \in Nat /\ n + 1 <= Len(ss) /\ (n + 1) + 1 \in 1 .. Len(ss) /\ (n + 1) + 1 # 1
        /\ ((n + 1) + 1) - 1 = n + 1
    BY <1>0, <1>5, <2>1
  <2>3. f[n + 1] \in Seq(S) /\ \A i \in 1 .. n + 1 : ToSet(ss[i]) \subseteq ToSet(f[n + 1])
    BY <1>5, <2>2
  <2> DEFINE m == (n + 1) + 1
  <2>4. f[m] = f[n + 1] \o ss[m] /\ ss[m] \in Seq(S)
    BY <1>0, <1>3, <2>2 DEF FlatStep
  <2>. HIDE DEF D
  <2>5. \A i \in 1 .. m : i = m \/ i \in 1 .. n + 1
    BY <2>2
  <2>. HIDE DEF m
  <2>6. f[m] \in Seq(S) /\ ToSet(f[m]) = ToSet(f[n + 1]) \union ToSet(ss[m])
    BY <2>3, <2>4, JoinIs
  <2>7. \A i \in 1 .. m : ToSet(ss[i]) \subseteq ToSet(f[m])
    BY <2>3, <2>5, <2>6
  <2>. QED  BY <2>6, <2>7 DEF m
<1>. HIDE DEF D
<1>6. D = Nat
  <2>1. D \in SUBSET Nat
    BY DEF D
  <2>. QED  BY <1>4, <1>5, <2>1, AllNaturals
<1>7. PICK n \in D : n + 1 = Len(ss)
  <2>1. Len(ss) - 1 \in Nat /\ (Len(ss) - 1) + 1 = Len(ss)
    BY <1>0
  <2>. QED  BY <1>6, <2>1
<1>8. f[Len(ss)] \in Seq(S) /\ \A i \in 1 .. Len(ss) : ToSet(ss[i]) \subseteq ToSet(f[Len(ss)])
  BY <1>0, <1>7 DEF D
<1>. QED  BY <1>1, <1>8

\* The loop of Distinct, one iteration at a time.
Noted(s, x) == IF Contains(s, x) THEN s ELSE Append(s, x)
NoteStep(f, seq, i) ==
  IF i = 0 THEN <<>> ELSE CHOOSE y \in {Noted(s, seq[i]) : s \in {f[i - 1]}} : TRUE
Notes(f, seq) == f = [i \in 0 .. Len(seq) |-> NoteStep(f, seq, i)]

LEMMA NoteStepIs ==
  ASSUME NEW f, NEW seq, NEW i
  PROVE  NoteStep(f, seq, i) = IF i = 0 THEN <<>> ELSE Noted(f[i - 1], seq[i])
<1> DEFINE m == Noted(f[i - 1], seq[i])
<1>1. {Noted(s, seq[i]) : s \in {f[i - 1]}} = {m}
  OBVIOUS
<1>. HIDE DEF m
<1>2. (CHOOSE y \in {m} : TRUE) = m
  OBVIOUS
<1>. QED  BY <1>1, <1>2 DEF NoteStep, m

LEMMA NotesExist ==
  ASSUME NEW seq, Len(seq) \in Nat
  PROVE  \E f : Notes(f, seq)
<1> DEFINE D == {n \in Nat : \E f : \A i \in 0 .. n : f[i] = NoteStep(f, seq, i)}
<1>1. 0 \in D
  <2> DEFINE f == [i \in Nat |-> <<>>]
  <2>1. \A i \in 0 .. 0 : f[i] = NoteStep(f, seq, i)
    BY DEF NoteStep
  <2>. QED  BY <2>1
<1>2. ASSUME NEW n \in D PROVE n + 1 \in D
  <2>1. PICK f : \A i \in 0 .. n : f[i] = NoteStep(f, seq, i)
    BY <1>2
  <2> DEFINE h == [i \in Nat |-> NoteStep(f, seq, i)]
  <2>2. ASSUME NEW i \in 0 .. n + 1 PROVE h[i] = NoteStep(h, seq, i)
    <3>1. CASE i = 0
      BY <3>1 DEF NoteStep
    <3>2. CASE i # 0
      <4>1. i - 1 \in 0 .. n /\ i \in Nat /\ i - 1 \in Nat
        BY <1>2, <3>2
      <4>2. h[i - 1] = f[i - 1]
        BY <2>1, <4>1
      <4>3. h[i] = NoteStep(f, seq, i)
        BY <4>1
      <4>. HIDE DEF h
      <4>. QED  BY <4>2, <4>3, <3>2, NoteStepIs
    <3>. QED  BY <3>1, <3>2
  <2>. HIDE DEF h
  <2>. QED  BY <1>2, <2>2
<1>. HIDE DEF D
<1>3. D = Nat
  <2>1. D \in SUBSET Nat
    BY DEF D
  <2>. QED  BY <1>1, <1>2, <2>1, AllNaturals
<1>4. PICK f : \A i \in 0 .. Len(seq) : f[i] = NoteStep(f, seq, i)
  BY <1>3 DEF D
<1> DEFINE h == [i \in 0 .. Len(seq) |-> f[i]]
<1>5. ASSUME NEW i \in 0 .. Len(seq) PROVE h[i] = NoteStep(h, seq, i)
  <2>1. h[i] = NoteStep(f, seq, i)
    BY <1>4
  <2>2. i # 0 => h[i - 1] = f[i - 1]
    OBVIOUS
  <2>. HIDE DEF h
  <2>. QED  BY <2>1, <2>2, NoteStepIs
<1>6. h = [i \in 0 .. Len(seq) |-> h[i]]
  OBVIOUS
<1>. HIDE DEF h
<1>7. h = [i \in 0 .. Len(seq) |-> NoteStep(h, seq, i)]
  BY <1>5, <1>6
<1>. QED  BY <1>7 DEF Notes

\* No offset is left out.
LEMMA DistinctKeeps ==
  ASSUME NEW S, NEW seq \in Seq(S)
  PROVE  Distinct(seq) \in Seq(S) /\ ToSet(seq) \subseteq ToSet(Distinct(seq))
<1> DEFINE f == CHOOSE g : Notes(g, seq)
<1>0. Len(seq) \in Nat /\ \A i \in 1 .. Len(seq) : seq[i] \in S
  OBVIOUS
<1>1. Distinct(seq) = f[Len(seq)]
  BY Zenon DEF Distinct, Loop, Notes, NoteStep, Noted
<1>2. Notes(f, seq)
  BY <1>0, NotesExist
<1>. HIDE DEF f
<1>3. \A i \in 0 .. Len(seq) : f[i] = NoteStep(f, seq, i)
  <2>1. f = [i \in 0 .. Len(seq) |-> NoteStep(f, seq, i)]
    BY <1>2 DEF Notes
  <2>. QED  BY <2>1
<1> DEFINE D == {n \in Nat : n <= Len(seq) =>
                   f[n] \in Seq(S) /\ \A i \in 1 .. n : seq[i] \in ToSet(f[n])}
<1>4. 0 \in D
  <2>1. f[0] = <<>>
    BY <1>0, <1>3, NoteStepIs
  <2>2. <<>> \in Seq(S) /\ \A i \in 1 .. 0 : FALSE
    OBVIOUS
  <2>. QED  BY <2>1, <2>2
<1>5. ASSUME NEW n \in D PROVE n + 1 \in D
  <2>1. SUFFICES ASSUME n + 1 <= Len(seq)
                 PROVE  /\ f[n + 1] \in Seq(S)
                        /\ \A i \in 1 .. n + 1 : seq[i] \in ToSet(f[n + 1])
    BY <1>5
  <2>2. n \in Nat /\ n <= Len(seq) /\ n + 1 \in 1 .. Len(seq) /\ n + 1 # 0 /\ (n + 1) - 1 = n
        /\ n + 1 \in 0 .. Len(seq)
    BY <1>0, <1>5, <2>1
  <2>3. f[n] \in Seq(S) /\ \A i \in 1 .. n : seq[i] \in ToSet(f[n])
    BY <1>5, <2>2
  <2> DEFINE m == n + 1
             x == seq[m]
  <2>4. f[m] = Noted(f[n], x) /\ x \in S
    BY <1>0, <1>3, <2>2, NoteStepIs
  <2>5. \A i \in 1 .. m : i = m \/ i \in 1 .. n
    BY <2>2
  <2>. HIDE DEF D, m
  <2>6. f[m] \in Seq(S) /\ ToSet(f[n]) \subseteq ToSet(f[m]) /\ x \in ToSet(f[m])
    <3>1. CASE Contains(f[n], x)
      <4>1. f[m] = f[n]
        BY <2>4, <3>1 DEF Noted
      <4>2. \E i \in 1 .. Len(f[n]) : f[n][i] = x
        BY <3>1 DEF Contains
      <4>. HIDE DEF x
      <4>. QED  BY <2>3, <4>1, <4>2, SeqIs
    <3>2. CASE ~Contains(f[n], x)
      <4>1. f[m] = Append(f[n], x)
        BY <2>4, <3>2 DEF Noted
      <4>. HIDE DEF x
      <4>2. /\ Append(f[n], x) \in Seq(S) /\ Len(Append(f[n], x)) = Len(f[n]) + 1
            /\ Append(f[n], x)[Len(f[n]) + 1] = x
            /\ \A i \in 1 .. Len(f[n]) : Append(f[n], x)[i] = f[n][i]
            /\ Len(f[n]) \in Nat
        BY <2>3, <2>4
      <4>3. Len(f[n]) + 1 \in 1 .. Len(f[m]) /\ \A i \in 1 .. Len(f[n]) : i \in 1 .. Len(f[m])
        BY <4>1, <4>2
      <4>4. ASSUME NEW q \in ToSet(f[n]) PROVE q \in ToSet(f[m])
        <5>1. PICK i \in 1 .. Len(f[n]) : f[n][i] = q
          BY <2>3, SeqIs
        <5>2. i \in 1 .. Len(f[m]) /\ f[m][i] = q
          BY <4>1, <4>2, <4>3, <5>1
        <5>. QED  BY <4>1, <4>2, <5>2, SeqIs
      <4>5. x \in ToSet(f[m])
        BY <4>1, <4>2, <4>3, SeqIs
      <4>. QED  BY <4>1, <4>2, <4>4, <4>5
    <3>. QED  BY <3>1, <3>2
  <2>7. \A i \in 1 .. m : seq[i] \in ToSet(f[m])
    BY <2>3, <2>5, <2>6
  <2>. QED  BY <2>6, <2>7 DEF m
<1>. HIDE DEF D
<1>6. Len(seq) \in D
  <2>1. D \in SUBSET Nat
    BY DEF D
  <2>. QED  BY <1>0, <1>4, <1>5, <2>1, AllNaturals
<1>7. f[Len(seq)] \in Seq(S) /\ \A i \in 1 .. Len(seq) : seq[i] \in ToSet(f[Len(seq)])
  BY <1>0, <1>6 DEF D
<1>8. \A q \in ToSet(seq) : \E i \in 1 .. Len(seq) : seq[i] = q
  BY SeqIs
<1>. QED  BY <1>1, <1>7, <1>8

LEMMA BlocksAre ==
  ASSUME NEW from \in Nat, NEW to \in Nat, from <= to
  PROVE  /\ Blocks(from, to) \in Seq(Nat) /\ Len(Blocks(from, to)) = to - from
         /\ \A x : x \in ToSet(Blocks(from, to)) <=> x \in from .. to - 1
<1> DEFINE s == Blocks(from, to)
           n == to - from
<1>1. n \in Nat /\ s = [i \in 1 .. n |-> from + i - 1]
  BY DEF Blocks
<1>. HIDE DEF n
<1>2. s \in Seq(Nat) /\ Len(s) = n /\ \A i \in 1 .. n : s[i] = from + i - 1
  BY <1>1
<1>. HIDE DEF s
<1>3. ASSUME NEW x \in from .. to - 1 PROVE x \in ToSet(s)
  <2>1. x - from + 1 \in 1 .. n /\ from + (x - from + 1) - 1 = x
    BY <1>1 DEF n
  <2>. QED  BY <1>2, <2>1, SeqIs
<1>4. ASSUME NEW x \in ToSet(s) PROVE x \in from .. to - 1
  <2>1. PICK i \in 1 .. n : s[i] = x
    BY <1>2, SeqIs
  <2>. QED  BY <1>1, <1>2, <2>1 DEF n
<1>. QED  BY <1>2, <1>3, <1>4 DEF s, n

Rds == {"read", "write"}

LEMMA OnPlacesAre ==
  ASSUME Parities, NEW op \in Rds, NEW s \in Seq(Nat)
  PROVE  /\ OnPlaces(op, s) \in Seq(Ios)
         /\ \A b \in ToSet(s) : Io(op, Bmap45(b)) \in ToSet(OnPlaces(op, s))
<1> DEFINE t == OnPlaces(op, s)
<1>1. /\ Len(s) \in Nat /\ DOMAIN s = 1 .. Len(s) /\ \A i \in 1 .. Len(s) : s[i] \in Nat
      /\ \A q : q \in ToSet(s) <=> \E i \in 1 .. Len(s) : s[i] = q
  BY SeqIs
<1>2. ASSUME NEW b \in Nat PROVE Io(op, Bmap45(b)) \in Ios
  <2>1. Bmap45(b)[1] \in Nat /\ Bmap45(b)[2] \in Nat
    <3>1. /\ ndisk \in Nat /\ ndisk >= 2 /\ ndisk - 1 \in Nat \ {0} /\ raidOpt \in RaidOptions
          /\ Disks = 0 .. ndisk - 1
      BY RaidSizes DEF Parities
    <3>2. Place(ndisk - 1, b)[1] \in 0 .. ndisk - 2 /\ StripeOf(b) \in Nat
      <4>1. Place(ndisk - 1, b)[1] \in 0 .. (ndisk - 1) - 1 /\ (ndisk - 1) - 1 = ndisk - 2
        BY <3>1, PlaceIs
      <4>. QED  BY <3>1, <4>1, StripeIs
    <3>3. Bmap45(b)[1] \in Disks
      BY <3>2, Bmap45Is, ColumnsApart
    <3>. QED  BY <3>1, <3>3, Bmap45Is
  <2>. QED  BY <2>1 DEF Io, Ios, Rds
<1>3. t = [i \in 1 .. Len(s) |-> Io(op, Bmap45(s[i]))]
  BY <1>1 DEF OnPlaces
<1>4. t \in [1 .. Len(s) -> Ios]
  BY <1>1, <1>2, <1>3
<1>5. t \in Seq(Ios) /\ Len(t) = Len(s) /\ \A i \in 1 .. Len(s) : t[i] = Io(op, Bmap45(s[i]))
  BY <1>1, <1>3, <1>4
<1>. HIDE DEF t
<1>. QED  BY <1>1, <1>5, SeqIs DEF t

LEMMA OnParityAre ==
  ASSUME Parities, NEW op \in Rds, NEW stripe \in Nat, NEW s \in Seq(Nat)
  PROVE  /\ OnParity(op, stripe, s) \in Seq(Ios)
         /\ \A b \in ToSet(s) :
               Io(op, <<Pmap(stripe), Bmap45(b)[2]>>) \in ToSet(OnParity(op, stripe, s))
<1> DEFINE all == [i \in DOMAIN s |-> Bmap45(s[i])[2]]
           offs == Distinct(all)
           p == Pmap(stripe)
           t == OnParity(op, stripe, s)
<1>1. /\ Len(s) \in Nat /\ DOMAIN s = 1 .. Len(s) /\ \A i \in 1 .. Len(s) : s[i] \in Nat
      /\ \A q : q \in ToSet(s) <=> \E i \in 1 .. Len(s) : s[i] = q
  BY SeqIs
<1>2. all \in Seq(Nat) /\ Len(all) = Len(s) /\ \A i \in 1 .. Len(s) : all[i] = Bmap45(s[i])[2]
  <2>1. \A i \in 1 .. Len(s) : Bmap45(s[i])[2] \in Nat
    BY <1>1, Bmap45Is
  <2>2. all \in [1 .. Len(s) -> Nat] /\ \A i \in 1 .. Len(s) : all[i] = Bmap45(s[i])[2]
    BY <1>1, <2>1
  <2>. HIDE DEF all
  <2>3. all \in Seq(Nat) /\ Len(all) = Len(s)
    <3>1. Len(s) \in Nat /\ all \in [1 .. Len(s) -> Nat]
      BY <1>1, <2>2
    <3>. QED  BY <3>1
  <2>. QED  BY <2>2, <2>3
<1>3. t = [i \in DOMAIN offs |-> Io(op, <<p, offs[i]>>)]
  BY DEF OnParity
<1>. HIDE DEF all
<1>4. offs \in Seq(Nat) /\ ToSet(all) \subseteq ToSet(offs)
  BY <1>2, DistinctKeeps
<1>5. p \in Nat
  <2>1. ndisk \in Nat /\ Disks = 0 .. ndisk - 1
    BY RaidSizes DEF Parities
  <2>. QED  BY <2>1, ColumnsApart
<1>. HIDE DEF offs, p, t
<1>6. \A o \in Nat : Io(op, <<p, o>>) \in Ios
  BY <1>5, SMTT(20) DEF Io, Ios, Rds
<1>7. Len(offs) \in Nat /\ DOMAIN offs = 1 .. Len(offs) /\ \A i \in 1 .. Len(offs) : offs[i] \in Nat
  BY <1>4, SeqIs
<1>8. t \in [1 .. Len(offs) -> Ios] /\ \A i \in 1 .. Len(offs) : t[i] = Io(op, <<p, offs[i]>>)
  BY <1>3, <1>6, <1>7, SMTT(20)
<1>9. t \in Seq(Ios) /\ Len(t) = Len(offs)
  BY <1>7, <1>8
<1>10. ASSUME NEW b \in ToSet(s) PROVE Io(op, <<p, Bmap45(b)[2]>>) \in ToSet(t)
  <2>1. PICK i \in 1 .. Len(s) : s[i] = b
    BY <1>1
  <2>2. Bmap45(b)[2] \in ToSet(all)
    BY <1>2, <2>1, SeqIs
  <2>3. PICK j \in 1 .. Len(offs) : offs[j] = Bmap45(b)[2]
    BY <1>4, <2>2, SeqIs
  <2>4. t[j] = Io(op, <<p, Bmap45(b)[2]>>) /\ j \in 1 .. Len(t)
    BY <1>8, <1>9, <2>3
  <2>. QED  BY <1>9, <2>4, SeqIs
<1>. QED  BY <1>9, <1>10 DEF t, p

\* What the writes and the reads within a stripe are.
LEMMA PartialWriteRight ==
  ASSUME Parities, NEW s \in Nat, NEW begin \in Nat, NEW end \in Nat, begin < end,
         s * BlocksInStripe <= begin, end <= (s + 1) * BlocksInStripe
  PROVE  LET sent == ToSet(DoPartialWrite(s, begin, end)) IN
         /\ DoPartialWrite(s, begin, end) \in Seq(Ios)
         /\ \A b \in begin .. end - 1 :
               /\ Io("write", Bmap45(b)) \in sent
               /\ Io("write", <<Pmap(s), Bmap45(b)[2]>>) \in sent
         /\ \/ \A b \in begin .. end - 1 :
                  /\ Io("read", Bmap45(b)) \in sent
                  /\ Io("read", <<Pmap(s), Bmap45(b)[2]>>) \in sent
            \/ \A c \in (s * BlocksInStripe .. begin - 1) \union (end .. (s + 1) * BlocksInStripe - 1) :
                  Io("read", Bmap45(c)) \in sent
<1> DEFINE n == BlocksInStripe
           blocks == Blocks(begin, end)
           left == Blocks(s * n, begin)
           right == Blocks(end, (s + 1) * n)
           small == Len(blocks) + 1 <= n - Len(blocks)
           old == OnPlaces("read", blocks) \o OnParity("read", s, blocks)
           rest == OnPlaces("read", left \o right)
           reads == IF small THEN old ELSE rest
           new == OnPlaces("write", blocks)
           parity == OnParity("write", s, blocks)
<1>1. n \in Nat /\ s * n \in Nat /\ (s + 1) * n \in Nat
  <2>1. ndisk - 1 \in Nat /\ chunk \in Nat
    BY RaidSizes DEF Parities
  <2>2. n \in Nat
    BY <2>1, SMTT(30) DEF BlocksInStripe
  <2>. QED  BY <2>2, SMTT(30)
<1>2. /\ blocks \in Seq(Nat) /\ \A x : x \in ToSet(blocks) <=> x \in begin .. end - 1
      /\ left \in Seq(Nat) /\ \A x : x \in ToSet(left) <=> x \in s * n .. begin - 1
      /\ right \in Seq(Nat) /\ \A x : x \in ToSet(right) <=> x \in end .. (s + 1) * n - 1
  <2>1. begin <= end
    OBVIOUS
  <2>. HIDE DEF n, blocks, left, right
  <2>2. blocks \in Seq(Nat) /\ \A x : x \in ToSet(blocks) <=> x \in begin .. end - 1
    BY <2>1, BlocksAre DEF blocks
  <2>3. s * n <= begin /\ end <= (s + 1) * n
    BY DEF n
  <2>4. left \in Seq(Nat) /\ \A x : x \in ToSet(left) <=> x \in s * n .. begin - 1
    BY <1>1, <2>3, BlocksAre DEF left
  <2>5. right \in Seq(Nat) /\ \A x : x \in ToSet(right) <=> x \in end .. (s + 1) * n - 1
    BY <1>1, <2>3, BlocksAre DEF right
  <2>. QED  BY <2>2, <2>4, <2>5
<1>3. DoPartialWrite(s, begin, end) = (reads \o new) \o parity
  BY DEF DoPartialWrite, AdditiveReads
<1>. HIDE DEF blocks, left, right, small, n
<1>4. left \o right \in Seq(Nat) /\ ToSet(left \o right) = ToSet(left) \union ToSet(right)
  BY <1>2, JoinIs
<1>5. /\ new \in Seq(Ios) /\ \A b \in ToSet(blocks) : Io("write", Bmap45(b)) \in ToSet(new)
      /\ parity \in Seq(Ios)
      /\ \A b \in ToSet(blocks) : Io("write", <<Pmap(s), Bmap45(b)[2]>>) \in ToSet(parity)
  BY <1>2, OnPlacesAre, OnParityAre DEF Rds
<1>6. /\ old \in Seq(Ios)
      /\ \A b \in ToSet(blocks) : /\ Io("read", Bmap45(b)) \in ToSet(old)
                                  /\ Io("read", <<Pmap(s), Bmap45(b)[2]>>) \in ToSet(old)
  <2>1. /\ OnPlaces("read", blocks) \in Seq(Ios)
        /\ \A b \in ToSet(blocks) : Io("read", Bmap45(b)) \in ToSet(OnPlaces("read", blocks))
    BY <1>2, OnPlacesAre DEF Rds
  <2>2. /\ OnParity("read", s, blocks) \in Seq(Ios)
        /\ \A b \in ToSet(blocks) :
              Io("read", <<Pmap(s), Bmap45(b)[2]>>) \in ToSet(OnParity("read", s, blocks))
    BY <1>2, OnParityAre DEF Rds
  <2>3. old \in Seq(Ios)
        /\ ToSet(old) = ToSet(OnPlaces("read", blocks)) \union ToSet(OnParity("read", s, blocks))
    BY <2>1, <2>2, JoinIs
  <2>. HIDE DEF old
  <2>. QED  BY <2>1, <2>2, <2>3
<1>7. /\ rest \in Seq(Ios)
      /\ \A c \in ToSet(left) \union ToSet(right) : Io("read", Bmap45(c)) \in ToSet(rest)
  BY <1>4, OnPlacesAre DEF Rds
<1>. HIDE DEF old, rest, new, parity
<1>8. reads \in Seq(Ios)
  BY <1>6, <1>7
<1>9. reads = old \/ reads = rest
  OBVIOUS
<1>. HIDE DEF reads
<1>10. reads \o new \in Seq(Ios) /\ ToSet(reads \o new) = ToSet(reads) \union ToSet(new)
  BY <1>5, <1>8, JoinIs
<1> DEFINE sent == ToSet(DoPartialWrite(s, begin, end))
<1>11. /\ DoPartialWrite(s, begin, end) \in Seq(Ios)
       /\ sent = (ToSet(reads) \union ToSet(new)) \union ToSet(parity)
  <2> DEFINE most == reads \o new
  <2>1. most \in Seq(Ios) /\ ToSet(most) = ToSet(reads) \union ToSet(new)
    BY <1>10
  <2>2. DoPartialWrite(s, begin, end) = most \o parity
    BY <1>3
  <2>. HIDE DEF most
  <2>3. most \o parity \in Seq(Ios) /\ ToSet(most \o parity) = ToSet(most) \union ToSet(parity)
    BY <1>5, <2>1, JoinIs
  <2>. QED  BY <2>1, <2>2, <2>3
<1>. HIDE DEF sent
<1>12. \A b \in begin .. end - 1 : /\ Io("write", Bmap45(b)) \in sent
                                   /\ Io("write", <<Pmap(s), Bmap45(b)[2]>>) \in sent
  BY <1>2, <1>5, <1>11
<1>13. CASE reads = old
  <2>1. \A b \in begin .. end - 1 : /\ Io("read", Bmap45(b)) \in sent
                                    /\ Io("read", <<Pmap(s), Bmap45(b)[2]>>) \in sent
    BY <1>2, <1>6, <1>11, <1>13
  <2>. QED  BY <1>11, <1>12, <2>1 DEF sent
<1>14. CASE reads = rest
  <2>1. \A c \in (s * n .. begin - 1) \union (end .. (s + 1) * n - 1) : Io("read", Bmap45(c)) \in sent
    BY <1>2, <1>7, <1>11, <1>14
  <2>. QED  BY <1>11, <1>12, <2>1 DEF sent, n
<1>. QED  BY <1>9, <1>13, <1>14

LEMMA OfTwo ==
  ASSUME NEW a \in Int, NEW b \in Int
  PROVE  /\ Max({a, b}) = IF a >= b THEN a ELSE b
         /\ Min({a, b}) = IF a <= b THEN a ELSE b
<1>1. Max({a, b}) = IF a >= b THEN a ELSE b
  <2>1. \E x \in {a, b} : \A y \in {a, b} : x >= y
    OBVIOUS
  <2>2. Max({a, b}) \in {a, b} /\ \A y \in {a, b} : Max({a, b}) >= y
    BY <2>1 DEF Max
  <2>. QED  BY <2>2
<1>2. Min({a, b}) = IF a <= b THEN a ELSE b
  <2>1. \E x \in {a, b} : \A y \in {a, b} : x <= y
    OBVIOUS
  <2>2. Min({a, b}) \in {a, b} /\ \A y \in {a, b} : Min({a, b}) <= y
    BY <2>1 DEF Min
  <2>. QED  BY <2>2
<1>. QED  BY <1>1, <1>2

\* The quotient by n is the last s with s * n not above v.
LEMMA QuotientBounds ==
  ASSUME NEW n \in Nat \ {0}, NEW v \in Nat, NEW s \in Nat
  PROVE  /\ s <= v \div n => s * n <= v
         /\ s >= v \div n => v < (s + 1) * n
         /\ s * n \in Nat /\ (s + 1) * n = s * n + n
<1> DEFINE q == v \div n
           r == v % n
<1>1. q \in Nat /\ r \in 0 .. n - 1 /\ v = q * n + r
  BY DivMod
<1>. HIDE DEF q, r
<1>2. s * n \in Nat /\ (s + 1) * n = s * n + n /\ q * n \in Nat
  BY <1>1, SMTT(30)
<1>3. s <= q => s * n <= q * n
  <2>1. s <= q => (q - s) * n >= 0 /\ (q - s) * n = q * n - s * n
    BY <1>1, SMTT(30)
  <2>. QED  BY <1>2, <2>1
<1>4. s >= q => q * n <= s * n
  <2>1. s >= q => (s - q) * n >= 0 /\ (s - q) * n = s * n - q * n
    BY <1>1, SMTT(30)
  <2>. QED  BY <1>2, <2>1
<1>. QED  BY <1>1, <1>2, <1>3, <1>4 DEF q

\* A write is the partial writes of its stripes.
LEMMA WriteRight ==
  ASSUME Parities, NEW addr \in Nat, NEW size \in Nat \ {0}
  PROVE  /\ Enqueue45(addr, size, TRUE) \in Seq(Ios)
         /\ \A s \in addr \div BlocksInStripe .. (addr + size - 1) \div BlocksInStripe :
               \E begin, end \in Nat :
                  /\ begin = Max({addr, s * BlocksInStripe}) /\ begin < end
                  /\ end = Min({addr + size, (s + 1) * BlocksInStripe})
                  /\ ToSet(DoPartialWrite(s, begin, end)) \subseteq ToSet(Enqueue45(addr, size, TRUE))
<1> DEFINE n == BlocksInStripe
           a == addr \div n
           z == (addr + size - 1) \div n
           stripes == Blocks(a, z + 1)
           Begin(s) == Max({addr, s * n})
           End(s) == Min({addr + size, (s + 1) * n})
           parts == [i \in DOMAIN stripes |-> DoPartialWrite(stripes[i], Begin(stripes[i]), End(stripes[i]))]
<1>1. n \in Nat /\ n > 0
  <2>1. ndisk >= 2 /\ raidOpt \in RaidOptions
    BY RaidSizes DEF Parities
  <2>2. 0 \in Nat
    OBVIOUS
  <2>. QED  BY <2>1, <2>2, StripeIs
<1>2. a \in Nat /\ z \in Nat /\ addr + size - 1 \in Nat
  BY <1>1, DivMod
<1>3. Enqueue45(addr, size, TRUE) = FlattenSeq(parts)
  BY DEF Enqueue45
<1>4. a <= z
  <2>1. a * n <= addr
    BY <1>1, <1>2, QuotientBounds
  <2>2. z < a => addr + size - 1 < a * n
    <3>1. ASSUME z < a PROVE addr + size - 1 < a * n
      <4>1. a - 1 \in Nat /\ a - 1 >= z /\ (a - 1) + 1 = a
        BY <1>2, <3>1
      <4>2. addr + size - 1 < ((a - 1) + 1) * n
        BY <1>1, <1>2, <4>1, QuotientBounds
      <4>. QED  BY <4>1, <4>2
    <3>. QED  BY <3>1
  <2>3. a * n \in Nat
    BY <1>1, <1>2, QuotientBounds
  <2>. QED  BY <1>2, <2>1, <2>2, <2>3
<1>5. ASSUME NEW s \in a .. z
      PROVE  /\ s \in Nat /\ Begin(s) \in Nat /\ End(s) \in Nat /\ Begin(s) < End(s)
             /\ DoPartialWrite(s, Begin(s), End(s)) \in Seq(Ios)
  <2>1. s \in Nat /\ a <= s /\ s <= z
    BY <1>2
  <2>2. s * n <= addr + size - 1 /\ addr < (s + 1) * n
    BY <1>1, <1>2, <2>1, QuotientBounds
  <2>3. s * n \in Nat /\ (s + 1) * n = s * n + n
    BY <1>1, <2>1, QuotientBounds
  <2> DEFINE x == s * n
             y == (s + 1) * n
  <2>4. x \in Nat /\ y \in Nat /\ x < y /\ x <= addr + size - 1 /\ addr < y
    BY <1>1, <2>2, <2>3
  <2>. HIDE DEF x, y
  <2>5. /\ Max({addr, x}) = IF addr >= x THEN addr ELSE x
        /\ Min({addr + size, y}) = IF addr + size <= y THEN addr + size ELSE y
    BY <2>4, OfTwo
  <2>6. /\ Begin(s) = Max({addr, x}) /\ End(s) = Min({addr + size, y})
    BY DEF x, y
  <2>. HIDE DEF Begin, End
  <2>7. /\ Begin(s) \in Nat /\ End(s) \in Nat /\ Begin(s) < End(s) /\ x <= Begin(s) /\ End(s) <= y
    BY <2>4, <2>5, <2>6
  <2>8. s * BlocksInStripe <= Begin(s) /\ End(s) <= (s + 1) * BlocksInStripe
    BY <2>7 DEF x, y, n
  <2>. QED  BY <2>1, <2>7, <2>8, PartialWriteRight
<1>6. /\ stripes \in Seq(Nat) /\ Len(stripes) = (z + 1) - a
      /\ \A x : x \in ToSet(stripes) <=> x \in a .. (z + 1) - 1
  <2>1. z + 1 \in Nat /\ a <= z + 1
    BY <1>2, <1>4
  <2>. HIDE DEF a, z
  <2>. QED  BY <1>2, <2>1, BlocksAre
<1>. HIDE DEF n, a, z, stripes
<1>7. (z + 1) - 1 = z /\ Len(stripes) # 0
  BY <1>2, <1>4, <1>6
<1>8. /\ Len(stripes) \in Nat /\ DOMAIN stripes = 1 .. Len(stripes)
      /\ \A i \in 1 .. Len(stripes) : stripes[i] \in a .. z
      /\ \A s \in a .. z : \E i \in 1 .. Len(stripes) : stripes[i] = s
  <2>1. /\ Len(stripes) \in Nat /\ DOMAIN stripes = 1 .. Len(stripes)
        /\ \A q : q \in ToSet(stripes) <=> \E i \in 1 .. Len(stripes) : stripes[i] = q
    BY <1>6, SeqIs
  <2>. QED  BY <1>6, <1>7, <2>1
<1>. HIDE DEF Begin, End
<1>9. /\ parts \in [1 .. Len(stripes) -> Seq(Ios)]
      /\ \A i \in 1 .. Len(stripes) :
            parts[i] = DoPartialWrite(stripes[i], Begin(stripes[i]), End(stripes[i]))
  BY <1>5, <1>8
<1>. HIDE DEF parts
<1>10. parts \in Seq(Seq(Ios)) /\ Len(parts) = Len(stripes)
  BY <1>8, <1>9
<1>11. /\ FlattenSeq(parts) \in Seq(Ios)
       /\ \A i \in 1 .. Len(parts) : ToSet(parts[i]) \subseteq ToSet(FlattenSeq(parts))
  BY <1>7, <1>10, FlattenKeeps
<1>12. ASSUME NEW s \in a .. z
       PROVE  ToSet(DoPartialWrite(s, Begin(s), End(s))) \subseteq ToSet(FlattenSeq(parts))
  <2>1. PICK i \in 1 .. Len(stripes) : stripes[i] = s
    BY <1>8
  <2>2. parts[i] = DoPartialWrite(s, Begin(s), End(s)) /\ i \in 1 .. Len(parts)
    BY <1>9, <1>10, <2>1
  <2>. QED  BY <1>11, <2>2
<1>13. ASSUME NEW s \in a .. z
       PROVE  \E begin, end \in Nat :
                  /\ begin = Begin(s) /\ begin < end /\ end = End(s)
                  /\ ToSet(DoPartialWrite(s, begin, end)) \subseteq ToSet(Enqueue45(addr, size, TRUE))
  BY <1>3, <1>5, <1>12
<1>. QED  BY <1>3, <1>11, <1>13 DEF a, z, n, Begin, End

-----------------------------------------------------------------------------
(* The RAID: what the run checks.                                          *)
RaidInv ==
    /\ raidOpt \in RaidOptions /\ raidLast.addr \in Nat
    /\ raidLast.isWrite /\ ~raidError =>
          raidLast.ios = EnqueueIos(raidLast.addr, raidOpt.size, TRUE)

LEMMA InReadsOrWrites ==
  ASSUME NEW p, p = <<p[1], p[2]>>
  PROVE  /\ Io("write", p) \in ToSet(raidLast.ios) => p \in Writes
         /\ Io("read", p) \in ToSet(raidLast.ios) => p \in Reads
<1>1. /\ Io("write", p).op = "write" /\ Io("write", p).disk = p[1] /\ Io("write", p).off = p[2]
      /\ Io("read", p).op = "read" /\ Io("read", p).disk = p[1] /\ Io("read", p).off = p[2]
  BY DEF Io
<1>2. ASSUME Io("write", p) \in ToSet(raidLast.ios) PROVE p \in Writes
  BY <1>1, <1>2 DEF Writes
<1>3. ASSUME Io("read", p) \in ToSet(raidLast.ios) PROVE p \in Reads
  BY <1>1, <1>3 DEF Reads
<1>. QED  BY <1>2, <1>3

LEMMA ParityKept ==
  ASSUME Parities, raidLast.addr \in Nat,
         raidLast.ios = Enqueue45(raidLast.addr, raidOpt.size, TRUE), NEW b \in Requested
  PROVE  LET p == <<Pmap(StripeOf(b)), Bmap45(b)[2]>>
             written == Row(b) \intersect Requested
         IN  /\ Bmap45(b) \in Writes /\ p \in Writes
             /\ {Bmap45(c)[1] : c \in Row(b)} = Disks \ {p[1]}
             /\ \/ p \in Reads /\ \A c \in written : Bmap45(c) \in Reads
                \/ \A c \in Row(b) \ written : Bmap45(c) \in Reads
<1> DEFINE p == <<Pmap(StripeOf(b)), Bmap45(b)[2]>>
           written == Row(b) \intersect Requested
           addr == raidLast.addr
           size == raidOpt.size
           n == BlocksInStripe
           s == StripeOf(b)
           sent == ToSet(raidLast.ios)
<1>1. /\ addr \in Nat /\ size \in Nat \ {0} /\ raidOpt \in RaidOptions /\ ndisk >= 2
  BY RaidSizes DEF Parities
<1>2. Requested = addr .. addr + size - 1
  BY DEF Requested
<1>. HIDE DEF addr, size
<1>3. b \in Nat /\ addr <= b /\ b <= addr + size - 1
  BY <1>1, <1>2
<1>4. n \in Nat \ {0} /\ s \in Nat /\ s * n <= b /\ b < (s + 1) * n
  BY <1>1, <1>3, StripeIs
<1>. HIDE DEF s, n
<1>5. s \in addr \div n .. (addr + size - 1) \div n
  <2>1. addr + size - 1 \in Nat
    BY <1>1
  <2>2. addr \div n \in Nat /\ (addr + size - 1) \div n \in Nat
    BY <1>1, <1>4, <2>1, DivMod
  <2>3. ~(s < addr \div n)
    <3>1. s < addr \div n => s + 1 \in Nat /\ s + 1 <= addr \div n
      BY <1>4, <2>2
    <3>2. s + 1 \in Nat /\ s + 1 <= addr \div n => (s + 1) * n <= addr
      BY <1>1, <1>4, QuotientBounds
    <3>3. (s + 1) * n \in Int
      BY <1>4, QuotientBounds
    <3>. QED  BY <1>1, <1>3, <1>4, <3>1, <3>2, <3>3
  <2>4. ~(s > (addr + size - 1) \div n)
    <3>1. ASSUME s > (addr + size - 1) \div n PROVE FALSE
      <4>1. s - 1 \in Nat /\ s - 1 >= (addr + size - 1) \div n /\ (s - 1) + 1 = s
        BY <1>4, <2>2, <3>1
      <4>2. addr + size - 1 < ((s - 1) + 1) * n
        BY <1>4, <2>1, <4>1, QuotientBounds
      <4>3. s * n \in Nat /\ addr + size - 1 < s * n
        BY <1>4, <4>1, <4>2, QuotientBounds
      <4>. QED  BY <1>1, <1>3, <1>4, <4>3
    <3>. QED  BY <3>1
  <2>. QED  BY <1>4, <2>2, <2>3, <2>4
<1>6. PICK begin, end \in Nat :
         /\ begin = Max({addr, s * n}) /\ begin < end
         /\ end = Min({addr + size, (s + 1) * n})
         /\ ToSet(DoPartialWrite(s, begin, end)) \subseteq sent
  BY <1>1, <1>5, WriteRight DEF n, addr, size
<1> DEFINE x == s * n
           y == (s + 1) * n
<1>7. x \in Nat /\ y \in Nat /\ x <= b /\ b < y
  BY <1>3, <1>4, QuotientBounds
<1>8. /\ begin = (IF addr >= x THEN addr ELSE x)
      /\ end = (IF addr + size <= y THEN addr + size ELSE y)
  <2>1. begin = Max({addr, x}) /\ end = Min({addr + size, y})
    BY <1>6
  <2>. HIDE DEF x, y
  <2> DEFINE t == addr + size
  <2>2. t \in Int /\ addr \in Int /\ begin = Max({addr, x}) /\ end = Min({t, y})
    BY <1>1, <2>1
  <2>. HIDE DEF t
  <2>3. begin = (IF addr >= x THEN addr ELSE x)
    BY <1>7, <2>2, OfTwo
  <2>4. end = (IF t <= y THEN t ELSE y)
    <3>1. t \in Int /\ y \in Int
      BY <1>7, <2>2
    <3>2. Min({t, y}) = IF t <= y THEN t ELSE y
      BY <3>1, OfTwo, Zenon
    <3>. QED  BY <2>2, <3>2
  <2>. QED  BY <2>3, <2>4 DEF t
<1>9. /\ x <= begin /\ end <= y /\ b \in begin .. end - 1
  <2>. HIDE DEF x, y
  <2>. QED  BY <1>1, <1>3, <1>7, <1>8
<1>10. \A c \in Row(b) : /\ c \in Nat /\ x <= c /\ c < y
                         /\ c \in Requested => c \in begin .. end - 1
                         /\ c \notin Requested => c \in (x .. begin - 1) \union (end .. y - 1)
  <2>1. ASSUME NEW c \in Row(b)
        PROVE  /\ c \in Nat /\ x <= c /\ c < y
               /\ c \in Requested => c \in begin .. end - 1
               /\ c \notin Requested => c \in (x .. begin - 1) \union (end .. y - 1)
    <3>1. c \in x .. y - 1
      BY DEF Row, x, y, s, n
    <3>. HIDE DEF x, y
    <3>2. c \in Nat /\ x <= c /\ c < y
      BY <1>7, <3>1
    <3>3. c \in Requested => c \in begin .. end - 1
      BY <1>1, <1>2, <1>7, <1>8, <3>2
    <3>4. c \notin Requested => c < addr \/ c >= addr + size
      BY <1>1, <1>2, <3>2
    <3>5. c \notin Requested => c \in (x .. begin - 1) \union (end .. y - 1)
      BY <1>1, <1>7, <1>8, <3>2, <3>4
    <3>. QED  BY <3>2, <3>3, <3>5
  <2>. QED  BY <2>1
<1> DEFINE done == ToSet(DoPartialWrite(s, begin, end))
<1>11. /\ \A c \in begin .. end - 1 : /\ Io("write", Bmap45(c)) \in done
                                      /\ Io("write", <<Pmap(s), Bmap45(c)[2]>>) \in done
       /\ \/ \A c \in begin .. end - 1 : /\ Io("read", Bmap45(c)) \in done
                                         /\ Io("read", <<Pmap(s), Bmap45(c)[2]>>) \in done
          \/ \A c \in (x .. begin - 1) \union (end .. y - 1) : Io("read", Bmap45(c)) \in done
  <2>1. s * BlocksInStripe <= begin /\ end <= (s + 1) * BlocksInStripe
    BY <1>9 DEF x, y, n
  <2>. QED  BY <1>4, <1>6, <2>1, PartialWriteRight DEF x, y, n
<1>. HIDE DEF x, y
<1>12. done \subseteq sent
  BY <1>6
<1>. HIDE DEF done
<1>13. \A c : Bmap45(c) = <<Bmap45(c)[1], Bmap45(c)[2]>>
  <2>1. raidOpt.level \in {4, 5} /\ raidOpt.raid5type \in {"LS", "LA"}
    BY RaidSizes DEF Parities
  <2>. QED  BY <2>1 DEF Bmap45, Place
<1>14. /\ \A c : Io("write", Bmap45(c)) \in done => Bmap45(c) \in Writes
       /\ \A c : Io("read", Bmap45(c)) \in done => Bmap45(c) \in Reads
  BY <1>12, <1>13, InReadsOrWrites DEF sent
<1>15. /\ Io("write", <<Pmap(s), Bmap45(b)[2]>>) \in done => p \in Writes
       /\ Io("read", <<Pmap(s), Bmap45(b)[2]>>) \in done => p \in Reads
  <2>1. p = <<p[1], p[2]>> /\ p = <<Pmap(s), Bmap45(b)[2]>>
    BY DEF s
  <2>. HIDE DEF p
  <2>. QED  BY <1>12, <2>1, InReadsOrWrites DEF sent
<1>16. Bmap45(b) \in Writes /\ p \in Writes
  BY <1>9, <1>11, <1>14, <1>15
<1>17. {Bmap45(c)[1] : c \in Row(b)} = Disks \ {p[1]}
  BY <1>3, RowDisks
<1>18. \/ p \in Reads /\ \A c \in written : Bmap45(c) \in Reads
       \/ \A c \in Row(b) \ written : Bmap45(c) \in Reads
  <2>1. CASE \A c \in begin .. end - 1 : /\ Io("read", Bmap45(c)) \in done
                                         /\ Io("read", <<Pmap(s), Bmap45(c)[2]>>) \in done
    <3>1. p \in Reads
      BY <1>9, <1>15, <2>1
    <3>2. \A c \in written : Bmap45(c) \in Reads
      BY <1>10, <1>14, <2>1
    <3>. QED  BY <3>1, <3>2
  <2>2. CASE \A c \in (x .. begin - 1) \union (end .. y - 1) : Io("read", Bmap45(c)) \in done
    <3>1. \A c \in Row(b) \ written : Bmap45(c) \in Reads
      BY <1>10, <1>14, <2>2
    <3>. QED  BY <3>1
  <2>. QED  BY <1>11, <2>1, <2>2
<1>. QED  BY <1>16, <1>17, <1>18

\* The two copies of a block.
LEMMA Bmap1Is ==
  ASSUME raidOpt \in RaidOptions, raidOpt.level = 1, NEW b \in Nat
  PROVE  LET q == Place(ndisk \div 2, b) IN
         /\ Bmap1(b)[1] = 2 * q[1] /\ Bmap1(b)[2] = 2 * q[1] + 1 /\ Bmap1(b)[3] = q[2]
         /\ q[1] \in Nat /\ q[2] \in Nat /\ ndisk \div 2 \in Nat \ {0}
         /\ q = <<q[1], q[2]>>
<1> DEFINE q == Place(ndisk \div 2, b)
<1>1. ndisk \div 2 \in Nat \ {0}
  <2>1. ndisk \in Nat /\ ndisk >= 2
    BY RaidSizes
  <2>. QED  BY <2>1
<1>2. q = <<q[1], q[2]>>
  BY DEF Place
<1>3. q[1] \in 0 .. (ndisk \div 2) - 1 /\ q[2] \in Nat
  BY <1>1, PlaceIs
<1>4. Bmap1(b) = <<2 * q[1], 2 * q[1] + 1, q[2]>>
  BY DEF Bmap1
<1>. HIDE DEF q
<1>5. q[1] \in Nat
  BY <1>1, <1>3
<1>. QED  BY <1>1, <1>2, <1>3, <1>4, <1>5 DEF q

LEMMA MirrorKept ==
  ASSUME raidOpt \in RaidOptions, raidOpt.level = 1, raidLast.addr \in Nat,
         raidLast.ios = Enqueue1(Blocks(raidLast.addr, raidLast.addr + raidOpt.size), TRUE),
         NEW b \in Requested
  PROVE  LET p == Bmap1(b) IN
            p[1] # p[2] /\ {<<p[1], p[3]>>, <<p[2], p[3]>>} \subseteq Writes
<1> DEFINE addr == raidLast.addr
           size == raidOpt.size
           blocks == Blocks(addr, addr + size)
           Copies(c) == <<Io("write", <<Bmap1(c)[1], Bmap1(c)[3]>>),
                          Io("write", <<Bmap1(c)[2], Bmap1(c)[3]>>)>>
           parts == [i \in DOMAIN blocks |-> Copies(blocks[i])]
<1>1. addr \in Nat /\ size \in Nat \ {0}
  BY RaidSizes
<1>2. Requested = addr .. addr + size - 1
  BY DEF Requested
<1>3. raidLast.ios = FlattenSeq(parts)
  BY DEF Enqueue1
<1>. HIDE DEF addr, size
<1>4. /\ blocks \in Seq(Nat) /\ Len(blocks) = size
      /\ \A x : x \in ToSet(blocks) <=> x \in addr .. addr + size - 1
  <2> DEFINE u == addr + size
  <2>1. u \in Nat /\ addr <= u /\ u - addr = size /\ blocks = Blocks(addr, u)
        /\ addr .. u - 1 = addr .. addr + size - 1
    BY <1>1
  <2>. HIDE DEF u, blocks
  <2>2. /\ blocks \in Seq(Nat) /\ Len(blocks) = size
        /\ \A x : x \in ToSet(blocks) <=> x \in addr .. u - 1
    BY <1>1, <2>1, BlocksAre
  <2>. QED  BY <2>1, <2>2
<1>. HIDE DEF blocks
<1>5. ASSUME NEW c \in Nat PROVE Copies(c) \in Seq(Ios)
  <2>1. Bmap1(c)[1] \in Nat /\ Bmap1(c)[2] \in Nat /\ Bmap1(c)[3] \in Nat
    BY Bmap1Is
  <2>2. /\ Io("write", <<Bmap1(c)[1], Bmap1(c)[3]>>) \in Ios
        /\ Io("write", <<Bmap1(c)[2], Bmap1(c)[3]>>) \in Ios
    BY <2>1 DEF Io, Ios
  <2>. QED  BY <2>2
<1>6. ASSUME NEW c
      PROVE  /\ Io("write", <<Bmap1(c)[1], Bmap1(c)[3]>>) \in ToSet(Copies(c))
             /\ Io("write", <<Bmap1(c)[2], Bmap1(c)[3]>>) \in ToSet(Copies(c))
  <2> DEFINE i1 == Io("write", <<Bmap1(c)[1], Bmap1(c)[3]>>)
             i2 == Io("write", <<Bmap1(c)[2], Bmap1(c)[3]>>)
  <2>1. Copies(c) = <<i1, i2>>
    OBVIOUS
  <2>. HIDE DEF i1, i2, Copies
  <2>2. 1 \in DOMAIN <<i1, i2>> /\ 2 \in DOMAIN <<i1, i2>> /\ <<i1, i2>>[1] = i1 /\ <<i1, i2>>[2] = i2
    OBVIOUS
  <2>3. i1 \in ToSet(Copies(c)) /\ i2 \in ToSet(Copies(c))
    BY <2>1, <2>2, Zenon DEF ToSet
  <2>. QED  BY <2>3 DEF i1, i2
<1>. HIDE DEF Copies
<1>7. /\ Len(blocks) \in Nat /\ DOMAIN blocks = 1 .. Len(blocks)
      /\ \A i \in 1 .. Len(blocks) : blocks[i] \in Nat
      /\ \A q : q \in ToSet(blocks) <=> \E i \in 1 .. Len(blocks) : blocks[i] = q
  BY <1>4, SeqIs
<1>8. /\ parts \in [1 .. Len(blocks) -> Seq(Ios)]
      /\ \A i \in 1 .. Len(blocks) : parts[i] = Copies(blocks[i])
  BY <1>5, <1>7
<1>. HIDE DEF parts
<1>9. parts \in Seq(Seq(Ios)) /\ Len(parts) = Len(blocks) /\ Len(parts) # 0
  BY <1>1, <1>4, <1>7, <1>8
<1>10. \A i \in 1 .. Len(parts) : ToSet(parts[i]) \subseteq ToSet(FlattenSeq(parts))
  BY <1>9, FlattenKeeps
<1>11. PICK i \in 1 .. Len(blocks) : blocks[i] = b
  BY <1>2, <1>4, <1>7
<1>12. ToSet(Copies(b)) \subseteq ToSet(raidLast.ios)
  BY <1>3, <1>8, <1>9, <1>10, <1>11
<1>13. b \in Nat
  BY <1>7, <1>11
<1> DEFINE p1 == <<Bmap1(b)[1], Bmap1(b)[3]>>
           p2 == <<Bmap1(b)[2], Bmap1(b)[3]>>
<1>14. p1 = <<p1[1], p1[2]>> /\ p2 = <<p2[1], p2[2]>>
  OBVIOUS
<1>15. Io("write", p1) \in ToSet(raidLast.ios) /\ Io("write", p2) \in ToSet(raidLast.ios)
  BY <1>6, <1>12
<1>. HIDE DEF p1, p2
<1>16. p1 \in Writes /\ p2 \in Writes
  BY <1>14, <1>15, InReadsOrWrites
<1>17. Bmap1(b)[1] # Bmap1(b)[2]
  BY <1>13, Bmap1Is
<1>. QED  BY <1>16, <1>17 DEF p1, p2

\* No two blocks are at one place.
LEMMA LayoutRight ==
  ASSUME RaidInv
  PROVE  LayoutInjective
<1> DEFINE places(b) == CASE raidOpt.level = 0 -> {Bmap0(b)}
                       [] raidOpt.level = 1 ->
                             {<<Bmap1(b)[1], Bmap1(b)[3]>>, <<Bmap1(b)[2], Bmap1(b)[3]>>}
                       [] raidOpt.level \in {4, 5} -> {Bmap45(b)}
<1>1. /\ raidOpt \in RaidOptions /\ raidLast.addr \in Nat /\ raidOpt.size \in Nat
      /\ raidOpt.level \in {0, 1, 4, 5} /\ ndisk \in Nat \ {0}
  BY RaidSizes DEF RaidInv
<1>2. ASSUME NEW b \in Nat, NEW c \in Nat, b # c PROVE places(b) \intersect places(c) = {}
  <2>1. CASE raidOpt.level = 0
    <3>1. places(b) = {Bmap0(b)} /\ places(c) = {Bmap0(c)}
      BY <2>1
    <3>2. Bmap0(b) # Bmap0(c)
      BY <1>1, <1>2, PlaceInjective DEF Bmap0
    <3>. HIDE DEF places
    <3>. QED  BY <3>1, <3>2
  <2>2. CASE raidOpt.level = 1
    <3> DEFINE q == Place(ndisk \div 2, b)
               r == Place(ndisk \div 2, c)
    <3>1. /\ places(b) = {<<2 * q[1], q[2]>>, <<2 * q[1] + 1, q[2]>>}
          /\ places(c) = {<<2 * r[1], r[2]>>, <<2 * r[1] + 1, r[2]>>}
      <4>1. /\ places(b) = {<<Bmap1(b)[1], Bmap1(b)[3]>>, <<Bmap1(b)[2], Bmap1(b)[3]>>}
            /\ places(c) = {<<Bmap1(c)[1], Bmap1(c)[3]>>, <<Bmap1(c)[2], Bmap1(c)[3]>>}
        BY <2>2
      <4>. HIDE DEF places
      <4>. QED  BY <1>1, <2>2, <4>1, Bmap1Is
    <3>2. /\ q[1] \in Nat /\ r[1] \in Nat /\ q = <<q[1], q[2]>> /\ r = <<r[1], r[2]>>
          /\ q # r
      BY <1>1, <1>2, <2>2, Bmap1Is, PlaceInjective
    <3>. HIDE DEF q, r, places
    <3>3. q[1] # r[1] \/ q[2] # r[2]
      BY <3>2
    <3>4. /\ <<2 * q[1], q[2]>> # <<2 * r[1], r[2]>> /\ <<2 * q[1], q[2]>> # <<2 * r[1] + 1, r[2]>>
          /\ <<2 * q[1] + 1, q[2]>> # <<2 * r[1], r[2]>> /\ <<2 * q[1] + 1, q[2]>> # <<2 * r[1] + 1, r[2]>>
      BY <3>2, <3>3
    <3>. QED  BY <3>1, <3>4
  <2>3. CASE raidOpt.level \in {4, 5}
    <3>1. places(b) = {Bmap45(b)} /\ places(c) = {Bmap45(c)}
      BY <2>3
    <3>2. Bmap45(b) # Bmap45(c)
      BY <1>1, <1>2, <2>3, Bmap45Injective DEF Parities
    <3>. HIDE DEF places
    <3>. QED  BY <3>1, <3>2
  <2>. QED  BY <1>1, <2>1, <2>2, <2>3
<1>3. Requested \union 0 .. Range0 \subseteq Nat
  <2>1. Range0 \in Nat
    BY RaidAssumption
  <2>. QED  BY <1>1, <2>1 DEF Requested
<1>. QED  BY <1>2, <1>3, Zenon DEF LayoutInjective

LEMMA RaidInvRight ==
  ASSUME RaidInv
  PROVE  RaidRight
<1>1. /\ raidOpt \in RaidOptions /\ raidLast.addr \in Nat /\ raidOpt.level \in {0, 1, 4, 5}
  BY RaidSizes DEF RaidInv
<1>2. ASSUME raidLast.isWrite, ~raidError
      PROVE  CASE raidOpt.level = 0 -> TRUE
               [] raidOpt.level = 1 ->
                \A b \in Requested : LET p == Bmap1(b) IN
                    p[1] # p[2] /\ {<<p[1], p[3]>>, <<p[2], p[3]>>} \subseteq Writes
               [] raidOpt.level \in {4, 5} ->
                \A b \in Requested :
                    LET p == <<Pmap(StripeOf(b)), Bmap45(b)[2]>>
                        written == Row(b) \intersect Requested
                    IN  /\ Bmap45(b) \in Writes /\ p \in Writes
                        /\ {Bmap45(c)[1] : c \in Row(b)} = Disks \ {p[1]}
                        /\ \/ p \in Reads /\ \A c \in written : Bmap45(c) \in Reads
                           \/ \A c \in Row(b) \ written : Bmap45(c) \in Reads
  <2>1. raidLast.ios = EnqueueIos(raidLast.addr, raidOpt.size, TRUE)
    BY <1>2 DEF RaidInv
  <2>2. CASE raidOpt.level = 0
    BY <2>2
  <2>3. CASE raidOpt.level = 1
    <3>1. raidLast.ios = Enqueue1(Blocks(raidLast.addr, raidLast.addr + raidOpt.size), TRUE)
      BY <2>1, <2>3 DEF EnqueueIos
    <3>2. \A b \in Requested : LET p == Bmap1(b) IN
                    p[1] # p[2] /\ {<<p[1], p[3]>>, <<p[2], p[3]>>} \subseteq Writes
      BY <1>1, <2>3, <3>1, MirrorKept
    <3>. QED  BY <2>3, <3>2
  <2>4. CASE raidOpt.level \in {4, 5}
    <3>0. raidOpt.level # 0 /\ raidOpt.level # 1
      BY <2>4
    <3>1. raidLast.ios = Enqueue45(raidLast.addr, raidOpt.size, TRUE)
      BY <2>1, <2>4, <3>0, Zenon DEF EnqueueIos
    <3>2. Parities
      BY <1>1, <2>4 DEF Parities
    <3>3. \A b \in Requested :
                    LET p == <<Pmap(StripeOf(b)), Bmap45(b)[2]>>
                        written == Row(b) \intersect Requested
                    IN  /\ Bmap45(b) \in Writes /\ p \in Writes
                        /\ {Bmap45(c)[1] : c \in Row(b)} = Disks \ {p[1]}
                        /\ \/ p \in Reads /\ \A c \in written : Bmap45(c) \in Reads
                           \/ \A c \in Row(b) \ written : Bmap45(c) \in Reads
      BY <1>1, <3>1, <3>2, ParityKept
    <3>. QED  BY <2>4, <3>0, <3>3, Zenon
  <2>. QED  BY <1>1, <2>2, <2>3, <2>4
<1>3. RedundancyKept
  BY <1>2, Zenon DEF RedundancyKept
<1>. QED  BY <1>3, LayoutRight DEF RaidRight

LEMMA RaidInitial == MemoryInit => RaidInv
<1>. SUFFICES ASSUME MemoryInit PROVE RaidInv
  OBVIOUS
<1>1. raidOpt \in RaidOptions
  BY RaidAssumption DEF MemoryInit, RaidInit, RaidOff
<1>2. raidLast.addr = 0 /\ raidLast.isWrite = FALSE
  BY DEF MemoryInit, RaidInit, RaidOff
<1>3. ~raidLast.isWrite
  BY <1>2
<1>4. raidLast.addr \in Nat
  BY <1>2
<1>. QED  BY <1>1, <1>3, <1>4, Zenon DEF RaidInv

\* The requests depend on the configuration alone.
LEMMA IosKept ==
  ASSUME raidOpt' = raidOpt
  PROVE  \A addr, size : EnqueueIos(addr, size, TRUE)' = EnqueueIos(addr, size, TRUE)
<1>1. chunk' = chunk /\ ndisk' = ndisk
  BY DEF chunk, ndisk
<1>2. BlocksInStripe' = BlocksInStripe /\ \A w, b : Place(w, b)' = Place(w, b)
  BY <1>1 DEF BlocksInStripe, Place
<1>3. \A b : Bmap0(b)' = Bmap0(b) /\ Bmap1(b)' = Bmap1(b) /\ Pmap(b)' = Pmap(b)
  BY <1>1 DEF Place, Bmap0, Bmap1, Pmap
<1>4. \A b : Bmap45(b)' = Bmap45(b)
  BY <1>1 DEF Bmap45, Place, Pmap
<1>5. \A op, s : OnPlaces(op, s)' = OnPlaces(op, s)
  BY <1>4 DEF OnPlaces
<1>6. \A op, k, s : OnParity(op, k, s)' = OnParity(op, k, s)
  BY <1>3, <1>4 DEF OnParity
<1>7. \A k, b, e : DoPartialWrite(k, b, e)' = DoPartialWrite(k, b, e)
  <2>1. \A k, b, e : AdditiveReads(k, b, e)' = AdditiveReads(k, b, e)
    BY <1>2, <1>5 DEF AdditiveReads
  <2>. QED  BY <1>2, <1>5, <1>6, <2>1 DEF DoPartialWrite
<1>8. \A addr, size : Enqueue45(addr, size, TRUE)' = Enqueue45(addr, size, TRUE)
  BY <1>2, <1>7, ZenonT(60) DEF Enqueue45
<1>9. \A s : Enqueue0(s, TRUE)' = Enqueue0(s, TRUE) /\ Enqueue1(s, TRUE)' = Enqueue1(s, TRUE)
  BY <1>3 DEF Enqueue0, Enqueue1
<1>10. \A addr, size : EnqueueIos(addr, size, TRUE)' = EnqueueIos(addr, size, TRUE)
  BY <1>8, <1>9 DEF EnqueueIos
<1>. QED  BY <1>10

LEMMA RaidStep == RaidInv /\ [MemoryNext]_memoryVars => RaidInv'
<1>. SUFFICES ASSUME RaidInv, [MemoryNext]_memoryVars PROVE RaidInv'
  OBVIOUS
<1>1. CASE RaidNext
  <2>1. PICK addr \in 0 .. Max({Range0 - 1, MaxRequests * raidOpt.size}), isWrite \in BOOLEAN :
           Request(addr, isWrite)
    BY <1>1 DEF RaidNext
  <2>2. addr \in Nat
    <3> DEFINE k == MaxRequests * raidOpt.size
               m == Max({Range0 - 1, k})
    <3>1. k \in Int /\ Range0 - 1 \in Int
      <4>1. raidOpt.size \in Nat /\ MaxRequests \in Nat /\ Range0 \in Nat
        BY RaidSizes, RaidAssumption DEF RaidInv
      <4>. QED  BY <4>1, SMTT(30)
    <3>. HIDE DEF k
    <3>2. m \in Int
      BY <3>1, OfTwo
    <3>. HIDE DEF m
    <3>3. addr \in 0 .. m
      BY DEF m, k
    <3>. QED  BY <3>2, <3>3
  <2>3. raidOpt' = raidOpt
    BY <2>1 DEF Request
  <2> DEFINE ios == EnqueueIos(addr, raidOpt.size, isWrite)
  <2>4. /\ raidLast' = [addr |-> addr, isWrite |-> isWrite, ios |-> Accepted(ios)]
        /\ raidError' = (Accepted(ios) # ios)
    BY <2>1, Zenon DEF Request
  <2>5. EnqueueIos(addr, raidOpt.size, TRUE)' = EnqueueIos(addr, raidOpt.size, TRUE)
    BY <2>3, IosKept
  <2>. QED  BY <2>2, <2>3, <2>4, <2>5 DEF RaidInv
<1>2. CASE UNCHANGED raidVars
  <2>1. raidOpt' = raidOpt /\ raidLast' = raidLast /\ raidError' = raidError
    BY <1>2 DEF raidVars
  <2>2. EnqueueIos(raidLast.addr, raidOpt.size, TRUE)' = EnqueueIos(raidLast.addr, raidOpt.size, TRUE)
    BY <2>1, IosKept
  <2>. QED  BY <2>1, <2>2 DEF RaidInv
<1>. QED  BY <1>1, <1>2 DEF MemoryNext, memoryVars

(* raid.py: a write leaves every block recoverable from the loss of a      *)
(* disk, and no two blocks share a place, for any number of disks, chunk   *)
(* and request sizes, level, layout and sequence of requests.              *)
THEOREM RaidRightHolds == MemorySpec => []RaidRight
<1>1. MemoryInit => RaidInv
  BY RaidInitial
<1>2. RaidInv /\ [MemoryNext]_memoryVars => RaidInv'
  BY RaidStep
<1>3. RaidInv => RaidRight
  BY RaidInvRight
<1>. QED  BY <1>1, <1>2, <1>3, PTL DEF MemorySpec

-----------------------------------------------------------------------------
(* The approximate counter.                                                *)
CountSpec == CountInit /\ [][CountNext]_countVars

SloppyTypeOK ==
    /\ countOpt \in CounterOptions
    /\ global \in [Counters -> Int] /\ added \in [Counters -> Int] /\ got \in [Counters -> Int]
    /\ local \in [Counters -> [CpusOf -> Nat]]
    /\ updater \in [Updaters -> [pc : {"llock", "glock", "store", "reset", "unlock"},
                                 val : Int, count : Nat]]

\* a thread is between its add to the global counter and its reset of the local one
Counted(c, p) == \E t \in Updaters : CounterOf(t) = c /\ CpuOf(t) = p /\ updater[t].pc = "reset"

\* what of the local counter is not in the global one
Owed(c) == [p \in CpusOf |-> IF Counted(c, p) THEN 0 ELSE local[c][p]]

\* the mutexes exclude
CountersExclude ==
    /\ \A t, u \in Updaters : updater[t].pc # "llock" /\ HoldsLocal(t, u) => t = u
    /\ \A t, u \in Updaters :
          updater[t].pc = "store" /\ HoldsGlobal(CounterOf(t), u) => t = u

\* nothing is lost or counted twice, and what was loaded is still right
CountsKept ==
    /\ \A c \in Counters : added[c] = global[c] + Sum(Owed(c), CpusOf) /\ got[c] <= added[c]
    /\ \A t \in Updaters :
          updater[t].pc = "store" =>
             updater[t].val = global[CounterOf(t)] + local[CounterOf(t)][CpuOf(t)]

\* only the thread that transfers it leaves a local counter at the threshold
Transfers(t) == updater[t].pc \in {"glock", "store", "reset"}
BelowThreshold ==
    \A c \in Counters, p \in CpusOf :
        local[c][p] < countOpt.threshold
          \/ \E t \in Updaters : CounterOf(t) = c /\ CpuOf(t) = p /\ Transfers(t)

SloppyInv == SloppyTypeOK /\ CountersExclude /\ CountsKept /\ BelowThreshold

LEMMA CountOptions ==
  ASSUME countOpt \in CounterOptions
  PROVE  /\ countOpt.threads \in Nat \ {0} /\ countOpt.counters \in Nat \ {0}
         /\ countOpt.cpus \in Nat \ {0} /\ countOpt.amt \in Nat
         /\ countOpt.threshold \in Nat \ {0}
         /\ \A t \in Updaters : CounterOf(t) \in Counters /\ CpuOf(t) \in CpusOf
         /\ IsFiniteSet(CpusOf) /\ Cardinality(CpusOf) = countOpt.cpus
<1>1. /\ countOpt.threads \in Nat \ {0} /\ countOpt.counters \in Nat \ {0}
      /\ countOpt.cpus \in Nat \ {0} /\ countOpt.amt \in Nat
      /\ countOpt.threshold \in Nat \ {0}
  BY SloppyAssumption
<1>2. ASSUME NEW t \in Updaters PROVE CounterOf(t) \in Counters /\ CpuOf(t) \in CpusOf
  <2>1. t \in Nat
    BY <1>1 DEF Updaters
  <2>2. ASSUME NEW n \in Nat \ {0} PROVE t % n \in 0 .. n - 1
    BY <2>1
  <2>. QED  BY <1>1, <2>2 DEF CounterOf, CpuOf, Counters, CpusOf
<1>3. IsFiniteSet(CpusOf) /\ Cardinality(CpusOf) = countOpt.cpus
  <2>1. 0 \in Int /\ countOpt.cpus - 1 \in Int /\ ~(0 > countOpt.cpus - 1)
    BY <1>1
  <2>2. IsFiniteSet(0 .. countOpt.cpus - 1)
        /\ Cardinality(0 .. countOpt.cpus - 1) = (countOpt.cpus - 1) - 0 + 1
    BY <2>1, FS_Interval
  <2>. QED  BY <1>1, <2>2 DEF CpusOf
<1>. QED  BY <1>1, <1>2, <1>3

LEMMA SloppyInitInv == CountInit => SloppyInv
<1>. SUFFICES ASSUME CountInit PROVE SloppyInv
  OBVIOUS
<1>0. countOpt \in CounterOptions
  BY DEF CountInit
<1>1. \A t \in Updaters : updater[t].pc = "llock"
  BY DEF CountInit
<1>2. SloppyTypeOK
  <2>1. [t \in Updaters |-> [pc |-> "llock", val |-> 0, count |-> 0]]
          \in [Updaters -> [pc : {"llock", "glock", "store", "reset", "unlock"}, val : Int, count : Nat]]
    OBVIOUS
  <2>. QED  BY <2>1 DEF CountInit, SloppyTypeOK
<1>3. CountersExclude
  BY <1>1 DEF CountersExclude, HoldsLocal, HoldsGlobal
<1>4. ASSUME NEW c \in Counters
      PROVE  added[c] = global[c] + Sum(Owed(c), CpusOf) /\ got[c] <= added[c]
  <2>1. \A p \in CpusOf : Owed(c)[p] = 0
    BY <1>4 DEF Owed, CountInit
  <2>2. IsFiniteSet(CpusOf) /\ Cardinality(CpusOf) \in Nat
    BY <1>0, CountOptions, FS_CardinalityType
  <2>3. Sum(Owed(c), CpusOf) \in Nat /\ Sum(Owed(c), CpusOf) <= Cardinality(CpusOf) * 0
    <3>1. ASSUME NEW g, \A p \in CpusOf : g[p] = 0
          PROVE  Sum(g, CpusOf) \in Nat /\ Sum(g, CpusOf) <= Cardinality(CpusOf) * 0
      <4>1. 0 \in Nat /\ \A p \in CpusOf : g[p] \in Nat /\ g[p] <= 0
        BY <3>1
      <4>. QED  BY <2>2, <4>1, SumBounds, Zenon
    <3>. QED  BY <2>1, <3>1
  <2>4. Sum(Owed(c), CpusOf) = 0
    BY <2>2, <2>3
  <2>. QED  BY <2>4 DEF CountInit
<1>5. CountsKept
  BY <1>1, <1>4 DEF CountsKept
<1>6. BelowThreshold
  BY <1>0, CountOptions DEF BelowThreshold, CountInit
<1>. QED  BY <1>2, <1>3, <1>5, <1>6 DEF SloppyInv

\* The steps of one thread.
Update(t) == AddLocal(t) \/ LoadGlobal(t) \/ StoreGlobal(t) \/ ResetLocal(t) \/ UnlockLocal(t)

LEMMA UpdateTyped ==
  ASSUME SloppyTypeOK, NEW t \in Updaters, Update(t)
  PROVE  /\ SloppyTypeOK' /\ countOpt' = countOpt
         /\ Updaters' = Updaters /\ Counters' = Counters /\ CpusOf' = CpusOf
         /\ \A u : CounterOf(u)' = CounterOf(u) /\ CpuOf(u)' = CpuOf(u)
         /\ \A u \in Updaters : u # t => updater'[u] = updater[u]
<1>1. countOpt' = countOpt
  BY DEF Update, AddLocal, LoadGlobal, StoreGlobal, ResetLocal, UnlockLocal
<1>2. /\ Updaters' = Updaters /\ Counters' = Counters /\ CpusOf' = CpusOf
      /\ \A u : CounterOf(u)' = CounterOf(u) /\ CpuOf(u)' = CpuOf(u)
  BY <1>1 DEF Updaters, Counters, CpusOf, CounterOf, CpuOf
<1>3. \A u \in Updaters : u # t => updater'[u] = updater[u]
  BY DEF Update, AddLocal, LoadGlobal, StoreGlobal, ResetLocal, UnlockLocal, SloppyTypeOK
<1>4. CounterOf(t) \in Counters /\ CpuOf(t) \in CpusOf /\ countOpt.amt \in Nat
  BY CountOptions DEF SloppyTypeOK
<1>. USE DEF SloppyTypeOK
<1>5. CASE AddLocal(t)
  BY <1>1, <1>2, <1>3, <1>4, <1>5 DEF AddLocal
<1>6. CASE LoadGlobal(t)
  <2>1. global[CounterOf(t)] + local[CounterOf(t)][CpuOf(t)] \in Int
    BY <1>4
  <2>. QED  BY <1>1, <1>2, <1>3, <1>6, <2>1 DEF LoadGlobal
<1>7. CASE StoreGlobal(t)
  BY <1>1, <1>2, <1>3, <1>4, <1>7 DEF StoreGlobal
<1>8. CASE ResetLocal(t)
  BY <1>1, <1>2, <1>3, <1>4, <1>8 DEF ResetLocal
<1>9. CASE UnlockLocal(t)
  BY <1>1, <1>2, <1>3, <1>4, <1>9 DEF UnlockLocal
<1>. QED  BY <1>1, <1>2, <1>3, <1>5, <1>6, <1>7, <1>8, <1>9 DEF Update

\* Mutual exclusion of the local and of the global mutex.
LEMMA ExcludeStep ==
  ASSUME SloppyTypeOK, CountersExclude, NEW t \in Updaters, Update(t)
  PROVE  CountersExclude'
<1>1. /\ Updaters' = Updaters
      /\ \A u : CounterOf(u)' = CounterOf(u) /\ CpuOf(u)' = CpuOf(u)
      /\ \A u \in Updaters : u # t => updater'[u] = updater[u]
  BY UpdateTyped
<1>2. \/ updater[t].pc # "llock" \/ \A u \in Updaters : ~HoldsLocal(t, u)
  BY DEF Update, AddLocal, LoadGlobal, StoreGlobal, ResetLocal, UnlockLocal
<1>3. updater'[t].pc = "store" => \A u \in Updaters : ~HoldsGlobal(CounterOf(t), u)
  BY DEF Update, AddLocal, LoadGlobal, StoreGlobal, ResetLocal, UnlockLocal, SloppyTypeOK
<1>4. ASSUME NEW u \in Updaters, NEW v \in Updaters, updater'[u].pc # "llock", HoldsLocal(u, v)'
      PROVE  u = v
  <2>1. CounterOf(u) = CounterOf(v) /\ CpuOf(u) = CpuOf(v) /\ updater'[v].pc # "llock"
    BY <1>1, <1>4 DEF HoldsLocal
  <2>2. CASE u # t /\ v # t
    BY <1>1, <1>4, <2>1, <2>2 DEF HoldsLocal, CountersExclude
  <2>3. CASE u = t /\ v # t
    BY <1>1, <1>2, <2>1, <2>3 DEF HoldsLocal, CountersExclude
  <2>4. CASE u # t /\ v = t
    BY <1>1, <1>2, <1>4, <2>1, <2>4 DEF HoldsLocal, CountersExclude
  <2>. QED  BY <2>2, <2>3, <2>4
<1>5. ASSUME NEW u \in Updaters, NEW v \in Updaters,
             updater'[u].pc = "store", HoldsGlobal(CounterOf(u), v)'
      PROVE  u = v
  <2>1. CounterOf(u) = CounterOf(v) /\ updater'[v].pc = "store"
    BY <1>1, <1>5 DEF HoldsGlobal
  <2>2. CASE u # t /\ v # t
    BY <1>1, <1>5, <2>1, <2>2 DEF HoldsGlobal, CountersExclude
  <2>3. CASE u = t /\ v # t
    BY <1>1, <1>3, <1>5, <2>1, <2>3 DEF HoldsGlobal
  <2>4. CASE u # t /\ v = t
    BY <1>1, <1>3, <1>5, <2>1, <2>4 DEF HoldsGlobal
  <2>. QED  BY <2>2, <2>3, <2>4
<1>. QED  BY <1>1, <1>4, <1>5 DEF CountersExclude, HoldsGlobal

\* What is owed at one counter after a step that changes it at one CPU only.
LEMMA OwedChange ==
  ASSUME SloppyTypeOK, NEW c \in Counters, NEW p \in CpusOf, CpusOf' = CpusOf, SloppyTypeOK',
         c \in Counters',
         \A q \in CpusOf \ {p} : Owed(c)'[q] = Owed(c)[q]
  PROVE  /\ Sum(Owed(c)', CpusOf) = Sum(Owed(c), CpusOf) + Owed(c)'[p] - Owed(c)[p]
         /\ Sum(Owed(c), CpusOf) \in Int /\ Sum(Owed(c)', CpusOf) \in Int
         /\ \A q \in CpusOf : Owed(c)[q] \in Nat /\ Owed(c)'[q] \in Nat
<1>1. \A q \in CpusOf : Owed(c)[q] \in Nat /\ Owed(c)'[q] \in Nat
  BY DEF Owed, SloppyTypeOK
<1>2. IsFiniteSet(CpusOf)
  BY CountOptions DEF SloppyTypeOK
<1>3. ASSUME NEW g, NEW h, \A q \in CpusOf : g[q] \in Nat /\ h[q] \in Nat,
             \A q \in CpusOf \ {p} : h[q] = g[q]
      PROVE  /\ Sum(h, CpusOf) = Sum(g, CpusOf) + h[p] - g[p]
             /\ Sum(g, CpusOf) \in Int /\ Sum(h, CpusOf) \in Int
  <2>1. \A q \in CpusOf : g[q] \in Int /\ h[q] \in Int
    BY <1>3
  <2>2. \A q \in CpusOf \ {p} : g[q] = h[q]
    BY <1>3
  <2>3. Sum(h, CpusOf) - Sum(g, CpusOf) = h[p] - g[p] /\ Sum(h, CpusOf) \in Int /\ Sum(g, CpusOf) \in Int
    BY <1>2, <2>1, <2>2, SumChange
  <2>. QED  BY <2>1, <2>3
<1>. QED  BY <1>1, <1>3, Zenon

\* A step changes what is owed at the thread's counter and CPU only.
LEMMA OwedElsewhere ==
  ASSUME SloppyTypeOK, CountersExclude, NEW t \in Updaters, Update(t)
  PROVE  \A c \in Counters, p \in CpusOf :
            c # CounterOf(t) \/ p # CpuOf(t) => /\ Counted(c, p)' = Counted(c, p)
                                              /\ local'[c][p] = local[c][p]
                                              /\ Owed(c)'[p] = Owed(c)[p]
<1>1. /\ Updaters' = Updaters /\ CpusOf' = CpusOf
      /\ \A u : CounterOf(u)' = CounterOf(u) /\ CpuOf(u)' = CpuOf(u)
      /\ \A u \in Updaters : u # t => updater'[u] = updater[u]
  BY UpdateTyped
<1>2. CounterOf(t) \in Counters /\ CpuOf(t) \in CpusOf
  BY CountOptions DEF SloppyTypeOK
<1>. SUFFICES ASSUME NEW c \in Counters, NEW p \in CpusOf, c # CounterOf(t) \/ p # CpuOf(t)
              PROVE  /\ Counted(c, p)' = Counted(c, p) /\ local'[c][p] = local[c][p]
                     /\ Owed(c)'[p] = Owed(c)[p]
  OBVIOUS
<1>3. Counted(c, p)' = Counted(c, p)
  BY <1>1 DEF Counted
<1>4. local'[c][p] = local[c][p]
  BY <1>2 DEF Update, AddLocal, LoadGlobal, StoreGlobal, ResetLocal, UnlockLocal, SloppyTypeOK
<1>. QED  BY <1>1, <1>3, <1>4 DEF Owed

LEMMA CountsStep ==
  ASSUME SloppyTypeOK, CountersExclude, CountsKept, NEW t \in Updaters, Update(t)
  PROVE  CountsKept'
<1> DEFINE c0 == CounterOf(t)
           p0 == CpuOf(t)
<1>1. /\ SloppyTypeOK' /\ countOpt' = countOpt
      /\ Updaters' = Updaters /\ Counters' = Counters /\ CpusOf' = CpusOf
      /\ \A u : CounterOf(u)' = CounterOf(u) /\ CpuOf(u)' = CpuOf(u)
      /\ \A u \in Updaters : u # t => updater'[u] = updater[u]
  BY UpdateTyped
<1>2. /\ c0 \in Counters /\ p0 \in CpusOf /\ countOpt.amt \in Nat
      /\ \A u \in Updaters : CounterOf(u) \in Counters /\ CpuOf(u) \in CpusOf
  BY CountOptions DEF SloppyTypeOK
<1>3. \A c \in Counters :
         /\ Sum(Owed(c)', CpusOf) = Sum(Owed(c), CpusOf)
                                     + (IF c = c0 THEN Owed(c)'[p0] - Owed(c)[p0] ELSE 0)
         /\ Sum(Owed(c), CpusOf) \in Int /\ Sum(Owed(c)', CpusOf) \in Int
  <2>. SUFFICES ASSUME NEW c \in Counters
                PROVE  /\ Sum(Owed(c)', CpusOf) = Sum(Owed(c), CpusOf)
                                     + (IF c = c0 THEN Owed(c)'[p0] - Owed(c)[p0] ELSE 0)
                       /\ Sum(Owed(c), CpusOf) \in Int /\ Sum(Owed(c)', CpusOf) \in Int
    OBVIOUS
  <2>1. \A q \in CpusOf : c # c0 \/ q # p0 => Owed(c)'[q] = Owed(c)[q]
    BY OwedElsewhere
  <2>2. c \in Counters' /\ \A q \in CpusOf \ {p0} : Owed(c)'[q] = Owed(c)[q]
    BY <1>1, <2>1
  <2>3. /\ Sum(Owed(c)', CpusOf) = Sum(Owed(c), CpusOf) + Owed(c)'[p0] - Owed(c)[p0]
        /\ Sum(Owed(c), CpusOf) \in Int /\ Sum(Owed(c)', CpusOf) \in Int
        /\ \A q \in CpusOf : Owed(c)[q] \in Nat /\ Owed(c)'[q] \in Nat
    BY <1>1, <1>2, <2>2, OwedChange
  <2>4. c # c0 => Owed(c)'[p0] = Owed(c)[p0]
    BY <1>2, <2>1
  <2>. HIDE DEF Owed, c0, p0
  <2>. QED  BY <1>2, <2>3, <2>4
<1>4. \A u \in Updaters : HoldsLocal(t, u) /\ updater[t].pc # "llock" => t = u
  BY DEF CountersExclude
<1>5. ASSUME NEW c \in Counters, c = c0
      PROVE  /\ added'[c] >= added[c] /\ got'[c] = got[c]
             /\ Owed(c)[p0] \in Int /\ Owed(c)'[p0] \in Int
             /\ added'[c] - added[c] = global'[c] - global[c] + Owed(c)'[p0] - Owed(c)[p0]
  <2>0. Owed(c)[p0] = (IF Counted(c, p0) THEN 0 ELSE local[c][p0])
        /\ Owed(c)'[p0] = (IF Counted(c, p0)' THEN 0 ELSE local'[c][p0])
    BY <1>1, <1>2 DEF Owed
  <2>1. /\ local[c][p0] \in Int /\ local'[c][p0] \in Int
        /\ added[c] \in Int /\ global[c] \in Int /\ got[c] \in Int
    BY <1>1, <1>2 DEF SloppyTypeOK
  <2>2. CASE AddLocal(t)
    <3>1. ~Counted(c, p0) /\ ~Counted(c, p0)'
      BY <1>1, <1>5, <2>2 DEF AddLocal, Counted, HoldsLocal, SloppyTypeOK
    <3>2. local'[c][p0] = local[c][p0] + countOpt.amt /\ added'[c] = added[c] + countOpt.amt
          /\ global' = global /\ got' = got
      BY <1>2, <1>5, <2>2 DEF AddLocal, SloppyTypeOK
    <3>. QED  BY <1>2, <2>0, <2>1, <3>1, <3>2
  <2>3. CASE LoadGlobal(t)
    <3>1. Counted(c, p0)' = Counted(c, p0)
      <4>1. updater[t].pc = "glock" /\ updater'[t].pc = "store"
        BY <2>3 DEF LoadGlobal, SloppyTypeOK
      <4>. QED  BY <1>1, <4>1 DEF Counted
    <3>2. UNCHANGED <<local, added, global, got>>
      BY <2>3 DEF LoadGlobal
    <3>. QED  BY <2>0, <2>1, <3>1, <3>2
  <2>4. CASE StoreGlobal(t)
    <3>1. ~Counted(c, p0) /\ Counted(c, p0)'
      <4>1. updater[t].pc = "store" /\ updater'[t].pc = "reset"
        BY <2>4 DEF StoreGlobal, SloppyTypeOK
      <4>. QED  BY <1>1, <1>4, <1>5, <4>1 DEF Counted, HoldsLocal
    <3>2. global'[c] = global[c] + local[c][p0] /\ local' = local /\ added' = added /\ got' = got
      BY <1>2, <1>5, <2>4 DEF StoreGlobal, SloppyTypeOK, CountsKept
    <3>. QED  BY <2>0, <2>1, <3>1, <3>2
  <2>5. CASE ResetLocal(t)
    <3>1. Counted(c, p0)
      BY <1>5, <2>5 DEF ResetLocal, Counted
    <3>2. local'[c][p0] = 0 /\ UNCHANGED <<added, global, got>>
      BY <1>2, <1>5, <2>5 DEF ResetLocal, SloppyTypeOK
    <3>. QED  BY <2>0, <2>1, <3>1, <3>2
  <2>6. CASE UnlockLocal(t)
    <3>1. Counted(c, p0)' = Counted(c, p0)
      BY <1>1, <2>6 DEF UnlockLocal, Counted, SloppyTypeOK
    <3>2. UNCHANGED <<local, added, global, got>>
      BY <2>6 DEF UnlockLocal
    <3>. QED  BY <2>0, <2>1, <3>1, <3>2
  <2>. QED  BY <2>2, <2>3, <2>4, <2>5, <2>6 DEF Update
<1>6. ASSUME NEW c \in Counters, c # c0
      PROVE  global'[c] = global[c] /\ added'[c] = added[c] /\ got'[c] = got[c]
  BY <1>2, <1>6 DEF Update, AddLocal, LoadGlobal, StoreGlobal, ResetLocal, UnlockLocal, SloppyTypeOK
<1>8. ASSUME NEW c \in Counters
      PROVE  added'[c] = global'[c] + Sum(Owed(c)', CpusOf) /\ got'[c] <= added'[c]
  <2>1. /\ added[c] = global[c] + Sum(Owed(c), CpusOf) /\ got[c] <= added[c]
        /\ added[c] \in Int /\ global[c] \in Int /\ got[c] \in Int
        /\ added'[c] \in Int /\ global'[c] \in Int
    BY <1>1 DEF CountsKept, SloppyTypeOK
  <2>2. /\ Sum(Owed(c)', CpusOf) = Sum(Owed(c), CpusOf)
                                     + (IF c = c0 THEN Owed(c)'[p0] - Owed(c)[p0] ELSE 0)
        /\ Sum(Owed(c), CpusOf) \in Int /\ Sum(Owed(c)', CpusOf) \in Int
    BY <1>3
  <2>3. CASE c = c0
    <3>1. Sum(Owed(c)', CpusOf) = Sum(Owed(c), CpusOf) + (Owed(c)'[p0] - Owed(c)[p0])
      BY <2>2, <2>3, Zenon
    <3>2. /\ added'[c] >= added[c] /\ got'[c] = got[c]
          /\ Owed(c)[p0] \in Int /\ Owed(c)'[p0] \in Int
          /\ added'[c] - added[c] = global'[c] - global[c] + Owed(c)'[p0] - Owed(c)[p0]
      BY <1>5, <2>3, Zenon
    <3>. HIDE DEF p0
    <3>. QED  BY <2>1, <2>2, <3>1, <3>2
  <2>4. CASE c # c0
    BY <1>6, <2>1, <2>2, <2>4
  <2>. QED  BY <2>3, <2>4
<1>9. ASSUME NEW u \in Updaters, updater'[u].pc = "store"
      PROVE  updater'[u].val = global'[CounterOf(u)] + local'[CounterOf(u)][CpuOf(u)]
  <2>1. CASE u = t
    BY <1>9, <2>1 DEF Update, AddLocal, LoadGlobal, StoreGlobal, ResetLocal, UnlockLocal, SloppyTypeOK
  <2>2. CASE u # t
    <3>1. updater[u].pc = "store" /\ updater'[u] = updater[u]
      BY <1>1, <1>9, <2>2
    <3>2. updater[u].val = global[CounterOf(u)] + local[CounterOf(u)][CpuOf(u)]
      BY <3>1 DEF CountsKept
    <3>3. global'[CounterOf(u)] = global[CounterOf(u)]
      <4>1. CounterOf(u) = c0 => ~StoreGlobal(t)
        BY <2>2, <3>1 DEF StoreGlobal, CountersExclude, HoldsGlobal
      <4>. QED  BY <1>2, <4>1 DEF Update, AddLocal, LoadGlobal, StoreGlobal, ResetLocal, UnlockLocal, SloppyTypeOK
    <3>4. local'[CounterOf(u)][CpuOf(u)] = local[CounterOf(u)][CpuOf(u)]
      <4>1. CASE CounterOf(u) = c0 /\ CpuOf(u) = p0
        <5>1. HoldsLocal(t, u)
          BY <3>1, <4>1 DEF HoldsLocal
        <5>2. ~AddLocal(t) /\ ~ResetLocal(t)
          BY <1>4, <2>2, <5>1 DEF AddLocal, ResetLocal
        <5>. QED  BY <5>2 DEF Update, LoadGlobal, StoreGlobal, UnlockLocal
      <4>2. CASE CounterOf(u) # c0 \/ CpuOf(u) # p0
        BY <1>2, <4>2, OwedElsewhere
      <4>. QED  BY <4>1, <4>2
    <3>. QED  BY <3>1, <3>2, <3>3, <3>4
  <2>. QED  BY <2>1, <2>2
<1>. QED  BY <1>1, <1>8, <1>9 DEF CountsKept

LEMMA BelowStep ==
  ASSUME SloppyTypeOK, CountersExclude, BelowThreshold, NEW t \in Updaters, Update(t)
  PROVE  BelowThreshold'
<1> DEFINE c0 == CounterOf(t)
           p0 == CpuOf(t)
<1>1. /\ SloppyTypeOK' /\ countOpt' = countOpt
      /\ Updaters' = Updaters /\ Counters' = Counters /\ CpusOf' = CpusOf
      /\ \A u : CounterOf(u)' = CounterOf(u) /\ CpuOf(u)' = CpuOf(u)
      /\ \A u \in Updaters : u # t => updater'[u] = updater[u]
  BY UpdateTyped
<1>2. c0 \in Counters /\ p0 \in CpusOf /\ countOpt.threshold \in Nat \ {0}
  BY CountOptions DEF SloppyTypeOK
<1>. SUFFICES ASSUME NEW c \in Counters, NEW p \in CpusOf
              PROVE  local'[c][p] < countOpt.threshold
                       \/ \E u \in Updaters : CounterOf(u) = c /\ CpuOf(u) = p /\ Transfers(u)'
  BY <1>1 DEF BelowThreshold, Transfers
<1>3. CASE c # c0 \/ p # p0
  <2>1. local'[c][p] = local[c][p]
    BY <1>3, OwedElsewhere
  <2>2. \A u \in Updaters : CounterOf(u) = c /\ CpuOf(u) = p => u # t /\ updater'[u] = updater[u]
    BY <1>1, <1>3
  <2>. QED  BY <2>1, <2>2 DEF BelowThreshold, Transfers
<1>4. CASE c = c0 /\ p = p0
  <2>1. CASE Transfers(t)'
    BY <1>4, <2>1
  <2>2. CASE ~Transfers(t)' /\ AddLocal(t)
    <3>1. ~(local'[c0][p0] >= countOpt.threshold)
      BY <2>2 DEF AddLocal, Transfers, SloppyTypeOK
    <3>2. local'[c0][p0] \in Nat
      BY <1>1, <1>2 DEF SloppyTypeOK
    <3>. QED  BY <1>2, <1>4, <3>1, <3>2
  <2>3. CASE ~Transfers(t)' /\ ResetLocal(t)
    <3>1. local'[c0][p0] = 0
      BY <1>2, <2>3 DEF ResetLocal, SloppyTypeOK
    <3>. QED  BY <1>2, <1>4, <3>1
  <2>4. CASE UnlockLocal(t)
    <3>1. local' = local /\ updater[t].pc = "unlock"
      BY <2>4 DEF UnlockLocal
    <3>2. \A u \in Updaters : CounterOf(u) = c /\ CpuOf(u) = p /\ Transfers(u) => u = t
      BY <1>4, <3>1 DEF CountersExclude, HoldsLocal, Transfers
    <3>. QED  BY <3>1, <3>2 DEF BelowThreshold, Transfers
  <2>5. CASE LoadGlobal(t) \/ StoreGlobal(t)
    BY <1>4, <2>5 DEF LoadGlobal, StoreGlobal, Transfers, SloppyTypeOK
  <2>. QED  BY <2>1, <2>2, <2>3, <2>4, <2>5 DEF Update
<1>. QED  BY <1>3, <1>4

LEMMA GetStep ==
  ASSUME SloppyInv, NEW c0 \in Counters, Get(c0)
  PROVE  SloppyInv'
<1>1. /\ UNCHANGED <<countOpt, global, local, updater, added>>
      /\ got' = [got EXCEPT ![c0] = global[c0]]
  BY DEF Get
<1>2. Updaters' = Updaters /\ Counters' = Counters /\ CpusOf' = CpusOf
      /\ \A u : CounterOf(u)' = CounterOf(u) /\ CpuOf(u)' = CpuOf(u)
  BY <1>1 DEF Updaters, Counters, CpusOf, CounterOf, CpuOf
<1>3. SloppyTypeOK'
  BY <1>1, <1>2 DEF SloppyInv, SloppyTypeOK
<1>4. CountersExclude'
  BY <1>1, <1>2 DEF SloppyInv, CountersExclude, HoldsLocal, HoldsGlobal
<1>5. BelowThreshold'
  BY <1>1, <1>2 DEF SloppyInv, BelowThreshold, Transfers
<1>6. ASSUME NEW c \in Counters
      PROVE  Owed(c)' = Owed(c) /\ got'[c] <= added[c]
  <2>1. Owed(c)' = Owed(c)
    BY <1>1, <1>2 DEF Owed, Counted
  <2>2. added[c] = global[c] + Sum(Owed(c), CpusOf) /\ got[c] <= added[c]
        /\ added[c] \in Int /\ global[c] \in Int
    BY DEF SloppyInv, CountsKept, SloppyTypeOK
  <2>3. Sum(Owed(c), CpusOf) \in Nat
    <3>1. \A p \in CpusOf : Owed(c)[p] \in Nat
      BY DEF Owed, SloppyInv, SloppyTypeOK
    <3>2. IsFiniteSet(CpusOf)
      BY CountOptions DEF SloppyInv, SloppyTypeOK
    <3>3. 0 \in Nat
      OBVIOUS
    <3>. QED  BY <3>1, <3>2, <3>3, SumBounds, Zenon
  <2>4. global[c] <= added[c]
    BY <2>2, <2>3
  <2>5. got'[c] = IF c = c0 THEN global[c] ELSE got[c]
    BY <1>1 DEF SloppyInv, SloppyTypeOK
  <2>. QED  BY <2>1, <2>2, <2>4, <2>5
<1>7. CountsKept'
  <2>1. ASSUME NEW c \in Counters
        PROVE  added'[c] = global'[c] + Sum(Owed(c)', CpusOf) /\ got'[c] <= added'[c]
    BY <1>1, <1>6 DEF SloppyInv, CountsKept
  <2>2. \A t \in Updaters :
           updater'[t].pc = "store" =>
              updater'[t].val = global'[CounterOf(t)] + local'[CounterOf(t)][CpuOf(t)]
    BY <1>1 DEF SloppyInv, CountsKept
  <2>. QED  BY <1>2, <2>1, <2>2 DEF CountsKept
<1>. QED  BY <1>3, <1>4, <1>5, <1>7 DEF SloppyInv

LEMMA SloppyStep == SloppyInv /\ [CountNext]_countVars => SloppyInv'
<1>. SUFFICES ASSUME SloppyInv, [CountNext]_countVars PROVE SloppyInv'
  OBVIOUS
<1>1. ASSUME NEW t \in Updaters, Update(t) PROVE SloppyInv'
  BY <1>1, UpdateTyped, ExcludeStep, CountsStep, BelowStep DEF SloppyInv
<1>2. ASSUME UNCHANGED countVars PROVE SloppyInv'
  <2>1. Updaters' = Updaters /\ Counters' = Counters /\ CpusOf' = CpusOf
        /\ \A u : CounterOf(u)' = CounterOf(u) /\ CpuOf(u)' = CpuOf(u)
    BY <1>2 DEF countVars, Updaters, Counters, CpusOf, CounterOf, CpuOf
  <2>2. \A c : Owed(c)' = Owed(c)
    BY <1>2, <2>1 DEF countVars, Owed, Counted
  <2>3. SloppyTypeOK'
    BY <1>2, <2>1 DEF SloppyInv, countVars, SloppyTypeOK
  <2>4. CountersExclude' /\ BelowThreshold'
    BY <1>2, <2>1 DEF SloppyInv, countVars, CountersExclude, HoldsLocal, HoldsGlobal, BelowThreshold, Transfers
  <2>5. CountsKept'
    BY <1>2, <2>1, <2>2 DEF SloppyInv, countVars, CountsKept
  <2>. QED  BY <2>3, <2>4, <2>5 DEF SloppyInv
<1>. QED  BY <1>1, <1>2, GetStep DEF CountNext, Update

(* What get of sloppy_counter.c returns never exceeds the sum of the updates, and *)
(* the global counter lags behind by less than one threshold per CPU when no      *)
(* update is under way, for any number of threads, counters and CPUs.             *)
THEOREM LagsBoundedlyHolds == CountSpec => []LagsBoundedly
<1>1. SloppyInv => LagsBoundedly
  <2>. SUFFICES ASSUME SloppyInv, NEW c \in Counters
                PROVE  /\ got[c] <= added[c]
                       /\ (\A t \in Updaters : CounterOf(t) = c => updater[t].pc = "llock") =>
                             /\ added[c] = global[c] + MapThenSumSet(LAMBDA p : local[c][p], CpusOf)
                             /\ MapThenSumSet(LAMBDA p : local[c][p], CpusOf)
                                   <= countOpt.cpus * (countOpt.threshold - 1)
    BY Zenon DEF LagsBoundedly
  <2>1. got[c] <= added[c] /\ added[c] = global[c] + Sum(Owed(c), CpusOf)
    BY DEF SloppyInv, CountsKept
  <2>2. MapThenSumSet(LAMBDA p : local[c][p], CpusOf) = Sum(local[c], CpusOf)
    BY DEF Sum
  <2>3. ASSUME \A t \in Updaters : CounterOf(t) = c => updater[t].pc = "llock"
        PROVE  /\ added[c] = global[c] + Sum(local[c], CpusOf)
               /\ Sum(local[c], CpusOf) <= countOpt.cpus * (countOpt.threshold - 1)
    <3>1. Owed(c) = local[c]
      <4>1. \A p \in CpusOf : ~Counted(c, p)
        BY <2>3 DEF Counted
      <4>2. local[c] = [p \in CpusOf |-> local[c][p]]
        BY DEF SloppyInv, SloppyTypeOK
      <4>3. Owed(c) = [p \in CpusOf |-> local[c][p]]
        BY <4>1 DEF Owed
      <4>. QED  BY <4>2, <4>3
    <3>2. /\ countOpt.cpus \in Nat \ {0} /\ countOpt.threshold - 1 \in Nat
          /\ countOpt.threshold \in Nat /\ IsFiniteSet(CpusOf) /\ Cardinality(CpusOf) = countOpt.cpus
      BY CountOptions DEF SloppyInv, SloppyTypeOK
    <3>3. \A p \in CpusOf : local[c][p] \in Nat /\ local[c][p] <= countOpt.threshold - 1
      <4>. SUFFICES ASSUME NEW p \in CpusOf
                    PROVE  local[c][p] \in Nat /\ local[c][p] <= countOpt.threshold - 1
        OBVIOUS
      <4>1. local[c][p] \in Nat
        BY DEF SloppyInv, SloppyTypeOK
      <4>2. local[c][p] < countOpt.threshold
        BY <2>3 DEF SloppyInv, BelowThreshold, Transfers
      <4>. QED  BY <3>2, <4>1, <4>2
    <3>4. Sum(local[c], CpusOf) <= Cardinality(CpusOf) * (countOpt.threshold - 1)
      BY <3>2, <3>3, SumBounds
    <3>. QED  BY <2>1, <3>1, <3>2, <3>4
  <2>. QED  BY <2>1, <2>2, <2>3
<1>2. CountSpec => []SloppyInv
  BY SloppyInitInv, SloppyStep, PTL DEF CountSpec
<1>. QED  BY <1>1, <1>2, PTL

=============================================================================
