-------------------------------- MODULE Raid --------------------------------
(***************************************************************************)
(* RAID simulator of BSYS (src/Sem3/BSYS/38_RAID/raid.py): levels 0, 1, 4  *)
(* and 5 map the blocks of a logical request to reads and writes of the    *)
(* disks; a disk counts and times its requests.  One step is one logical   *)
(* request.  Times are in tenths of a millisecond (seek 100, transfer 1).  *)
(***************************************************************************)
EXTENDS Integers, Sequences, FiniteSets, SequencesExt, FiniteSetsExt, Functions, Loops

CONSTANTS
    RaidOptions,     \* records [level, numDisks, chunkSize, size, raid5type, sequential]
    Range0,          \* random requests start at 0 .. Range0 - 1 (-R)
    NumTracks, BlocksPerTrack,
    MaxRequests      \* bound: number of requests (-n)

ASSUME RaidAssumption ==
    /\ RaidOptions # {}
    /\ RaidOptions \subseteq [level: {0, 1, 4, 5}, numDisks: Nat \ {0}, chunkSize: Nat \ {0},
                              size: Nat \ {0}, raid5type: {"LS", "LA"}, sequential: BOOLEAN]
    /\ \A o \in RaidOptions :
          /\ o.numDisks >= IF o.level = 0 THEN 1 ELSE 2
          /\ o.level = 1 => o.numDisks % 2 = 0
    /\ Range0 \in Nat /\ MaxRequests \in Nat
    /\ NumTracks \in Nat \ {0} /\ BlocksPerTrack \in Nat \ {0}

VARIABLES
    raidOpt,
    disks,         \* disk -> [currAddr, seq, nseq, rand, utilTime]
    raidReqs,      \* requests so far
    raidLast,      \* history: the last request and its disk requests, in order
    raidError      \* the assert of disk.enqueue failed

raidVars == <<raidOpt, disks, raidReqs, raidLast, raidError>>

chunk == raidOpt.chunkSize
ndisk == raidOpt.numDisks
Disks == 0 .. ndisk - 1
BlocksInStripe == (ndisk - 1) * chunk
BlocksPerDisk == NumTracks * BlocksPerTrack

RaidInit ==
    /\ raidOpt \in RaidOptions
    /\ disks = [d \in Disks |->
                  [currAddr |-> -10000, seq |-> 0, nseq |-> 0, rand |-> 0, utilTime |-> 0]]
    /\ raidReqs = 0 /\ raidError = FALSE
    /\ raidLast = [addr |-> 0, isWrite |-> FALSE, ios |-> <<>>]

\* disk.enqueue: near the arm's position, or a seek
DiskEnqueue(disk, addr) ==
    LET diff == IF addr > disk.currAddr THEN addr - disk.currAddr ELSE disk.currAddr - addr
        near == disk.currAddr \div NumTracks = addr \div NumTracks \/ diff < BlocksPerTrack
    IN  [currAddr |-> addr,
         seq  |-> disk.seq  + (IF near /\ diff = 1 THEN 1 ELSE 0),
         nseq |-> disk.nseq + (IF near /\ diff # 1 THEN 1 ELSE 0),
         rand |-> disk.rand + (IF near THEN 0 ELSE 1),
         utilTime |-> disk.utilTime + (IF near THEN diff ELSE 100 + 1)]

Place(width, b) ==
    <<(b \div chunk) % width, ((b \div chunk) \div width) * chunk + (b % chunk)>>

Bmap0(b) == Place(ndisk, b)

\* the two copies of a block: <<disk1, disk2, off>>
Bmap1(b) == LET p == Place(ndisk \div 2, b) IN <<2 * p[1], 2 * p[1] + 1, p[2]>>

Pmap(stripe) ==
    IF raidOpt.level = 4 THEN ndisk - 1 ELSE ndisk - 1 - (stripe % ndisk)

\* data blocks beside a parity disk that is fixed (4) or rotates (5)
Bmap45(b) ==
    LET p == Place(ndisk - 1, b)
        ddsk == p[2] \div chunk
    IN  CASE raidOpt.level = 4 -> p
          [] raidOpt.level = 5 /\ raidOpt.raid5type = "LA" ->
                <<IF p[1] >= Pmap(ddsk) THEN p[1] + 1 ELSE p[1], p[2]>>
          [] raidOpt.level = 5 /\ raidOpt.raid5type = "LS" ->
                <<(p[1] - (ddsk % ndisk)) % ndisk, p[2]>>

Io(op, place) == [op |-> op, disk |-> place[1], off |-> place[2]]
Blocks(from, to) == [i \in 1 .. to - from |-> from + i - 1]

Enqueue0(blocks, isWrite) ==
    [i \in DOMAIN blocks |-> Io(IF isWrite THEN "write" ELSE "read", Bmap0(blocks[i]))]

\* a write goes to both copies, reads are balanced by the offset
Enqueue1(blocks, isWrite) ==
    FlattenSeq([i \in DOMAIN blocks |->
        LET p == Bmap1(blocks[i])
        IN  IF isWrite THEN <<Io("write", <<p[1], p[3]>>), Io("write", <<p[2], p[3]>>)>>
            ELSE IF p[3] % 2 = 0 THEN <<Io("read", <<p[1], p[3]>>)>>
            ELSE <<Io("read", <<p[2], p[3]>>)>>])

Distinct(seq) ==
    Loop(LAMBDA s, x : IF Contains(s, x) THEN s ELSE Append(s, x), <<>>, seq)

OnPlaces(op, blocks) == [i \in DOMAIN blocks |-> Io(op, Bmap45(blocks[i]))]
OnParity(op, stripe, blocks) ==
    LET offs == Distinct([i \in DOMAIN blocks |-> Bmap45(blocks[i])[2]])
    IN  [i \in DOMAIN offs |-> Io(op, <<Pmap(stripe), offs[i]>>)]

\* mutant: the rest of the stripe is not read when it is on the left
AdditiveReadsRight(stripe, begin, end) ==
    OnPlaces("read", Blocks(end, (stripe + 1) * BlocksInStripe))

AdditiveReads(stripe, begin, end) ==
    OnPlaces("read", Blocks(stripe * BlocksInStripe, begin)
                       \o Blocks(end, (stripe + 1) * BlocksInStripe))

\* subtractive parity for small writes: old data and old parity are read;
\* additive parity otherwise: the rest of the stripe is read
DoPartialWrite(stripe, begin, end) ==
    LET blocks == Blocks(begin, end)
    IN  (IF Len(blocks) + 1 <= BlocksInStripe - Len(blocks)
         THEN OnPlaces("read", blocks) \o OnParity("read", stripe, blocks)
         ELSE AdditiveReads(stripe, begin, end))
        \o OnPlaces("write", blocks) \o OnParity("write", stripe, blocks)

\* a write is done stripe by stripe
Enqueue45(addr, size, isWrite) ==
    LET stripes == Blocks(addr \div BlocksInStripe, (addr + size - 1) \div BlocksInStripe + 1)
    IN  IF ~isWrite THEN OnPlaces("read", Blocks(addr, addr + size))
        ELSE FlattenSeq([i \in DOMAIN stripes |->
                DoPartialWrite(stripes[i],
                               Max({addr, stripes[i] * BlocksInStripe}),
                               Min({addr + size, (stripes[i] + 1) * BlocksInStripe}))])

EnqueueIos(addr, size, isWrite) ==
    CASE raidOpt.level = 0 -> Enqueue0(Blocks(addr, addr + size), isWrite)
      [] raidOpt.level = 1 -> Enqueue1(Blocks(addr, addr + size), isWrite)
      [] raidOpt.level \in {4, 5} -> Enqueue45(addr, size, isWrite)

\* the part of the request before the assert of a disk fails
Accepted(ios) ==
    LET bad == {i \in DOMAIN ios : ios[i].off >= BlocksPerDisk}
    IN  IF bad = {} THEN ios ELSE SubSeq(ios, 1, Min(bad) - 1)

Request(addr, isWrite) ==
    /\ raidReqs < MaxRequests /\ ~raidError
    /\ raidOpt.sequential => addr = raidReqs * raidOpt.size
    /\ raidReqs' = raidReqs + 1
    /\ \E ios \in {EnqueueIos(addr, raidOpt.size, isWrite)} :
          /\ raidLast' = [addr |-> addr, isWrite |-> isWrite, ios |-> Accepted(ios)]
          /\ disks' = Loop(LAMBDA ds, io : [ds EXCEPT ![io.disk] = DiskEnqueue(@, io.off)],
                           disks, Accepted(ios))
          /\ raidError' = (Accepted(ios) # ios)
    /\ UNCHANGED raidOpt

RaidNext == \E addr \in 0 .. Max({Range0 - 1, MaxRequests * raidOpt.size}), isWrite \in BOOLEAN :
               /\ raidOpt.sequential \/ addr < Range0
               /\ Request(addr, isWrite)
-----------------------------------------------------------------------------
Reads  == {<<io.disk, io.off>> : io \in {x \in ToSet(raidLast.ios) : x.op = "read"}}
Writes == {<<io.disk, io.off>> : io \in {x \in ToSet(raidLast.ios) : x.op = "write"}}
Requested == raidLast.addr .. raidLast.addr + raidOpt.size - 1
StripeOf(b) == b \div BlocksInStripe
\* the data blocks that share the parity block of b
Row(b) == {c \in StripeOf(b) * BlocksInStripe .. (StripeOf(b) + 1) * BlocksInStripe - 1 :
              c % chunk = b % chunk}

(* After a write the array survives the loss of one disk: each block has   *)
(* a second copy on another disk (level 1), or a parity block that is      *)
(* written, on a disk that holds no data of the row, and that can be       *)
(* computed from what was read: from the old row by subtraction, or from   *)
(* the other blocks of the row.                                            *)
RedundancyKept ==
    raidLast.isWrite /\ ~raidError /\ raidLast.ios # <<>> =>
        CASE raidOpt.level = 0 -> TRUE
          [] raidOpt.level = 1 ->
                \A b \in Requested : LET p == Bmap1(b) IN
                    p[1] # p[2] /\ {<<p[1], p[3]>>, <<p[2], p[3]>>} \subseteq Writes
          [] raidOpt.level \in {4, 5} ->
                \A b \in Requested :
                    LET p == <<Pmap(StripeOf(b)), Bmap45(b)[2]>>
                        written == Row(b) \intersect Requested
                    IN  /\ Bmap45(b) \in Writes /\ p \in Writes
                        /\ {Bmap45(c)[1] : c \in Row(b)} = Disks \ {p[1]}
                        /\ \/ p \in Reads /\ \A c \in written : Bmap45(c) \in Reads
                           \/ \A c \in Row(b) \ written : Bmap45(c) \in Reads

(* Layout: no two blocks have the same place on a disk, and a request of   *)
(* level 1 touches one disk of each pair for a read, both for a write.     *)
LayoutInjective ==
    LET places(b) == CASE raidOpt.level = 0 -> {Bmap0(b)}
                       [] raidOpt.level = 1 ->
                             {<<Bmap1(b)[1], Bmap1(b)[3]>>, <<Bmap1(b)[2], Bmap1(b)[3]>>}
                       [] raidOpt.level \in {4, 5} -> {Bmap45(b)}
    IN  \A b, c \in Requested \union 0 .. Range0 :
            b # c => places(b) \intersect places(c) = {}
=============================================================================
