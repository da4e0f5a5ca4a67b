-------------------------------- MODULE Disk --------------------------------
(***************************************************************************)
(* Disk simulator of BSYS (src/Sem3/BSYS/37_HDD/disk.py, and its version   *)
(* with Decimal numbers, disk-precise.py, whose fair window ends with the  *)
(* queue): three tracks, an arm, a rotating platter, and a queue of block  *)
(* requests that is served in the order FIFO, SSTF, SATF or BSATF chooses. *)
(* One step is one call of Animate.  Angles and speeds are integers; the   *)
(* circle (360), and the track width (40) are parameters.                  *)
(***************************************************************************)
EXTENDS Integers, Sequences, FiniteSets, SequencesExt, FiniteSetsExt, Functions, Loops

CONSTANTS
    DiskOptions,   \* [policy, seekSpeed, rotateSpeed, skew, window, zoning, lateList,
                   \*  precise, requests, late]: the last two are numbers
    Circle,        \* of an even number of degrees
    TrackWidth,
    DiskMaxTime    \* bound on the clock

ASSUME DiskAssumption ==
    /\ DiskMaxTime \in Nat /\ Circle \in Nat /\ Circle % 2 = 0 /\ TrackWidth \in Nat \ {0}
    /\ DiskOptions # {}
    /\ \A o \in DiskOptions :
          /\ o \in [policy : {"FIFO", "SSTF", "SATF", "BSATF"},
                     seekSpeed : Nat \ {0}, rotateSpeed : Nat \ {0}, skew : Int,
                     window : Int \ {0}, zoning : [1 .. 3 -> 2 .. Circle],
                     lateList : BOOLEAN, precise : BOOLEAN,
                     requests : Nat \ {0}, late : Nat]
          /\ TrackWidth % o.seekSpeed = 0

VARIABLES
    diskOpt,
    requests, lateRequests,  \* sequences of blocks
    hd             \* the Disk object, see DiskInit

NumRequests == diskOpt.requests
NumLate == diskOpt.late
diskVars == <<diskOpt, requests, lateRequests, hd>>

Tracks == 0 .. 2
\* half the angle of a block on a track
BlockAngleOffset(t) == diskOpt.zoning[t + 1] \div 2
PerTrack(t) == (Circle + 2 * BlockAngleOffset(t) - 1) \div (2 * BlockAngleOffset(t))
FirstBlock(t) == (IF t > 0 THEN PerTrack(0) ELSE 0)
                   + (IF t > 1 THEN PerTrack(1) ELSE 0)
LastBlock(t) == FirstBlock(t) + PerTrack(t) - 1
TrackOf(b) == CHOOSE t \in Tracks : b \in FirstBlock(t) .. LastBlock(t)
AngleOf(b) ==
    LET t == TrackOf(b)
    IN  ((b - FirstBlock(t) + diskOpt.skew * t) * 2 * BlockAngleOffset(t) + Circle \div 2)
          % Circle

\* what a maximum of -1 stands for: the first block of the inner track
MaxBlock == FirstBlock(2)

\* entries of the queue: the late ones of a list stay strings
Entry(b, str) == [block |-> b, str |-> str]

Dist(a, b) == IF a > b THEN a - b ELSE b - a
SeekTime(h, b) == (TrackWidth \div diskOpt.seekSpeed) * Dist(h.armTrack, TrackOf(b))

\* the estimate of DoSATF, times the speed of rotation
Estimate(h, b) ==
    LET seek == SeekTime(h, b) * diskOpt.rotateSpeed
        off  == BlockAngleOffset(TrackOf(b))
    IN  seek + ((AngleOf(b) - off - (h.angle + seek)) % Circle) + 2 * off

Candidates(h, idxs) == idxs \ h.done

\* the nearest track, or all
Nearest(h, idxs) ==
    LET d(i) == Dist(h.armTrack, TrackOf(h.queue[i].block))
    IN  IF diskOpt.policy # "SSTF" THEN idxs
        ELSE {i \in idxs : \A k \in idxs : d(i) <= d(k)}

\* the window of BSATF moves on when all of it is served
FairWindow == IF diskOpt.policy = "BSATF" THEN diskOpt.window ELSE -1

\* currWindow after GetWindow, -1 for no limit
GetWindow(h) ==
    IF h.currWindow > -1 /\ FairWindow # -1 /\ h.count > 0 /\ h.count % FairWindow = 0
    THEN IF diskOpt.precise THEN Min({h.currWindow + FairWindow, Len(h.queue)})
                            ELSE h.currWindow + FairWindow
    ELSE h.currWindow

InWindow(h) ==
    CASE diskOpt.policy = "FIFO" -> {h.count + 1}
      [] h.currWindow <= -1 -> DOMAIN h.queue
      [] OTHER -> 1 .. Min({h.currWindow, Len(h.queue)})

\* PlanSeek: the state and the beginning of the phases for request i
PlanSeek(h, i) ==
    LET t == TrackOf(h.queue[i].block)
    IN  [h EXCEPT !.curr = i, !.seekBegin = h.timer, !.est = Estimate(h, h.queue[i].block),
                  !.state = IF t = h.armTrack THEN "ROTATE" ELSE "SEEK",
                  !.rotBegin = IF t = h.armTrack THEN h.timer ELSE @,
                  !.armTarget = IF t = h.armTrack THEN @ ELSE t]

\* another request arrives
AddLate(h) ==
    IF h.late = NumLate THEN h
    ELSE [h EXCEPT !.queue = Append(@, Entry(lateRequests[h.late + 1], diskOpt.lateList)),
                   !.late = @ + 1]

\* the first of the requests with the least estimate
DoSATF(h, idxs) ==
    Let(LAMBDA est : Min({i \in idxs : \A k \in idxs : est[i] <= est[k]}),
        [i \in idxs |-> Estimate(h, h.queue[i].block)])

\* what GetNextIO does when a request among cands is to be chosen
Schedule(h, cands) ==
    IF cands = {} THEN [h EXCEPT !.error = "AssertionError"]
    ELSE IF \E i \in cands : h.queue[i].str THEN [h EXCEPT !.error = "KeyError"]
    ELSE Let(LAMBDA i : Let(AddLate, PlanSeek(h, i)), DoSATF(h, Nearest(h, cands)))

GetNextIO(h) ==
    IF h.count = Len(h.queue) THEN [h EXCEPT !.isDone = TRUE]
    ELSE Let(LAMBDA g : Schedule(g, Candidates(g, InWindow(g))),
             IF diskOpt.policy = "FIFO" THEN h ELSE [h EXCEPT !.currWindow = GetWindow(h)])

DiskBlank ==
    [queue |-> [i \in 1 .. NumRequests |-> Entry(requests[i], FALSE)], late |-> 0,
     done |-> {}, count |-> 0, currWindow |-> diskOpt.window,
     armTrack |-> 0, armTarget |-> 0, armX |-> 0, angle |-> 0, state |-> "NULL", curr |-> 0,
     timer |-> 0, seekBegin |-> 0, rotBegin |-> 0, xferBegin |-> 0, est |-> 0,
     seekTotal |-> 0, rotTotal |-> 0, xferTotal |-> 0,
     served |-> <<>>,          \* history: <<index, time * rotateSpeed, estimate>>
     isDone |-> FALSE, error |-> ""]

DiskInit ==
    /\ diskOpt \in DiskOptions
    /\ requests \in [1 .. NumRequests -> 0 .. LastBlock(2)]
    /\ lateRequests \in [1 .. NumLate -> IF diskOpt.lateList THEN 0 .. LastBlock(2)
                                         ELSE 0 .. MaxBlock - 1]
    /\ hd = GetNextIO(DiskBlank)

\* the platter; what is beyond the full circle is dropped
Turned(h) ==
    [h EXCEPT !.timer = @ + 1,
              !.angle = IF @ + diskOpt.rotateSpeed >= Circle THEN 0
                        ELSE @ + diskOpt.rotateSpeed]

\* DoneWithSeek: the arm moves and may arrive
Seeked(h) ==
    LET x == IF h.armTarget > h.armTrack THEN h.armX + diskOpt.seekSpeed
                                         ELSE h.armX - diskOpt.seekSpeed
    IN  IF h.state # "SEEK" THEN h
        ELSE IF x # h.armTarget * TrackWidth THEN [h EXCEPT !.armX = x]
        ELSE [h EXCEPT !.armX = x, !.armTrack = h.armTarget,
                       !.state = "ROTATE", !.rotBegin = h.timer]

\* mutant: the test that is commented out in DoneWithRotation
RadiallyEqual(a, b) == a = b

RadiallyCloseTo(a, b) == Dist(a, b) < diskOpt.rotateSpeed

\* DoneWithRotation: the head is at the start of the block
Rotated(h) ==
    LET b == h.queue[h.curr].block
        start == (AngleOf(b) - BlockAngleOffset(h.armTrack)) % Circle
    IN  IF h.state = "ROTATE" /\ RadiallyCloseTo(h.angle, start)
        THEN [h EXCEPT !.state = "XFER", !.xferBegin = h.timer] ELSE h

\* DoRequestStats and UpdateWindow
Served(h) ==
    [h EXCEPT !.state = "DONE", !.done = @ \union {h.curr}, !.count = @ + 1,
              !.seekTotal = @ + (h.rotBegin - h.seekBegin),
              !.rotTotal = @ + (h.xferBegin - h.rotBegin),
              !.xferTotal = @ + (h.timer - h.xferBegin),
              !.served = Append(@, <<h.curr, (h.timer - h.seekBegin) * diskOpt.rotateSpeed,
                                     h.est>>),
              !.currWindow = IF FairWindow = -1 /\ @ > 0 /\ @ < Len(h.queue)
                             THEN @ + 1 ELSE @]

\* mutant: a sequential request starts with a rotation like any other
NextInTransferNever(h, g, b, c) == g

\* the block behind the one just served is transferred at once
NextInTransfer(h, g, b, c) ==
    IF /\ TrackOf(b) = TrackOf(c)
       /\ \/ b = LastBlock(h.armTrack) /\ c = FirstBlock(h.armTrack)
          \/ b + 1 = c
    THEN [g EXCEPT !.rotBegin = g.timer, !.seekBegin = g.timer, !.xferBegin = g.timer,
                   !.state = "XFER"]
    ELSE g

\* DoneWithTransfer: the head is at the end of the block; the next request
Transferred(h) ==
    LET b == h.queue[h.curr].block
        end == (AngleOf(b) + BlockAngleOffset(h.armTrack)) % Circle
    IN  IF h.state = "XFER" /\ RadiallyCloseTo(h.angle, end)
        THEN Let(LAMBDA g : NextInTransfer(h, g, b, g.queue[g.curr].block),
                 Let(GetNextIO, Served(h)))
        ELSE h

Animate ==
    /\ ~hd.isDone /\ hd.error = "" /\ hd.timer < DiskMaxTime
    /\ \E h1 \in {Turned(hd)} : \E h2 \in {Seeked(h1)} : \E h3 \in {Rotated(h2)} :
          hd' = Transferred(h3)
    /\ UNCHANGED <<diskOpt, requests, lateRequests>>
-----------------------------------------------------------------------------
(* The estimate by which SATF chooses is the time the request then takes   *)
(* (the "INTERNAL ERROR" that is commented out in DoRequestStats), when a  *)
(* tick turns the platter by a divisor of all angles and the blocks fill   *)
(* the tracks (the last block of another track overlaps its first one);    *)
(* but not for a first request at whose start the head already is (the     *)
(* first tick passes it), nor when a block is a whole track.               *)
EstimateRight ==
    LET exact == /\ \A t \in Tracks : /\ BlockAngleOffset(t) % diskOpt.rotateSpeed = 0
                                       /\ PerTrack(t) > 1
                                       /\ PerTrack(t) * 2 * BlockAngleOffset(t) = Circle
                 /\ (Circle \div 2) % diskOpt.rotateSpeed = 0
        passed(b) == (AngleOf(b) - BlockAngleOffset(TrackOf(b))) % Circle = 0
    IN  exact => \A i \in DOMAIN hd.served :
                    \/ hd.served[i][2] = hd.served[i][3]
                    \/ i = 1 /\ passed(hd.queue[hd.served[1][1]].block)

(* Every scheduler finds a request while one is waiting (the asserts of    *)
(* DoSATF and DoSSTF), also when the window only holds served ones until   *)
(* it moves, and no request is served twice.  Only disk-precise.py, where  *)
(* a window that was cut off at the end of the queue does not grow with a  *)
(* late request, can find its window served and a request left beyond it.  *)
NextAlwaysFound ==
    /\ hd.error = "AssertionError" =>
          diskOpt.precise /\ FairWindow > 1 /\ hd.currWindow = hd.count
                          /\ hd.count < Len(hd.queue) /\ NumLate > 0
    /\ hd.count = Cardinality(hd.done)

(* BSATF is fair: a request waits for no request beyond its own window of  *)
(* -w requests.                                                            *)
BoundedSatfFair ==
    FairWindow > 0 =>
        \A i \in DOMAIN hd.served :
            {k \in DOMAIN hd.queue : (k - 1) \div FairWindow < (hd.served[i][1] - 1) \div FairWindow}
              \subseteq {hd.served[k][1] : k \in 1 .. i}

(* The totals that are printed are times, and add up to the time that has  *)
(* passed, also when a request starts in the middle of its transfer.       *)
TotalsAddUp ==
    /\ hd.seekTotal >= 0 /\ hd.rotTotal >= 0 /\ hd.xferTotal >= 0
    /\ hd.isDone => hd.seekTotal + hd.rotTotal + hd.xferTotal = hd.timer

(* Every request is served in the end, those that arrive late included,    *)
(* whatever the speed of rotation: the platter never turns past the start  *)
(* or the end of a block unnoticed.                                        *)
DiskAllDone == <>(hd.isDone \/ hd.error # "")
=============================================================================
