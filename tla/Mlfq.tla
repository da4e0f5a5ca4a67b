-------------------------------- MODULE Mlfq --------------------------------
(***************************************************************************)
(* Multi-level feedback queue simulator of BSYS (src/Sem3/BSYS/08_MLF/     *)
(* mlfq.py, and the same program for Python 3, mlfq-2.py).  One step is    *)
(* one iteration of its while loop, i.e. one unit of time: the boost, the  *)
(* completed I/Os, and one tick of the first job of the highest queue.     *)
(***************************************************************************)
EXTENDS Integers, Sequences, FiniteSets, SequencesExt, FiniteSetsExt, Loops

CONSTANTS
    MlfqJobs,      \* number of jobs
    MlfqWorkloads, \* the jobs that are tried: records [start, run, freq]
    MlfqOptions,   \* records [quantum, allot, boost, iotime, stay, iobump];
                   \* quantum and allot are functions on the queues 0 .. n-1
    MlfqMaxTime    \* bound on the clock; every execution ends before it

ASSUME MlfqAssumption ==
    /\ MlfqJobs \in Nat \ {0} /\ MlfqMaxTime \in Nat
    /\ \A w \in MlfqWorkloads : w.start \in Nat /\ w.run \in Nat \ {0} /\ w.freq \in Nat
    /\ \A o \in MlfqOptions : /\ o.boost \in Nat /\ o.iotime \in Nat
                              /\ \A q \in DOMAIN o.quantum :
                                    o.quantum[q] > 0 /\ o.allot[q] > 0

VARIABLES
    mlfqOpt,       \* the options of this execution
    mlfqJob,       \* job: number -> record, see NewJob
    mlfqQueue,     \* queue: level -> sequence of job numbers
    mlfqEvents,    \* ioDone: sequence of [at, job, type], in order of insertion
    currTime, finishedJobs,
    mlfqAbort      \* Abort or a failed assert ended the program

mlfqVars == <<mlfqOpt, mlfqJob, mlfqQueue, mlfqEvents, currTime, finishedJobs, mlfqAbort>>

MJobs == 0 .. MlfqJobs - 1
Levels(opt) == DOMAIN opt.quantum
HiQueue(opt) == Cardinality(Levels(opt)) - 1

\* the record of a job; spent counts the ticks since the job came to its level
NewJob(opt, w) ==
    [pri |-> HiQueue(opt), ticks |-> opt.quantum[HiQueue(opt)],
     allot |-> opt.allot[HiQueue(opt)], start |-> w.start, run |-> w.run,
     left |-> w.run, freq |-> w.freq, io |-> FALSE, first |-> -1, end |-> -1,
     spent |-> 0]

MlfqInit ==
    /\ mlfqOpt \in MlfqOptions
    /\ \E w \in [MJobs -> MlfqWorkloads] :
          /\ mlfqJob = [j \in MJobs |-> NewJob(mlfqOpt, w[j])]
          /\ mlfqEvents = [i \in 1 .. MlfqJobs |->
                             [at |-> w[i - 1].start, job |-> i - 1, type |-> "JOB BEGINS"]]
    /\ mlfqQueue = [q \in Levels(mlfqOpt) |-> <<>>]
    /\ currTime = 0 /\ finishedJobs = 0 /\ mlfqAbort = FALSE

\* highest nonempty queue, -1 if all are empty
FindQueue(queue) == Max({-1} \union {q \in DOMAIN queue : queue[q] # <<>>})

\* the jobs of the lower queues move to the high queue, lowest level first
BoostedQueues(queue) ==
    LET hi    == HiQueue(mlfqOpt)
        lower == FlattenSeq([i \in 1 .. hi |->
                    SelectSeq(queue[i - 1], LAMBDA j : ~mlfqJob[j].io)])
    IN  [q \in DOMAIN queue |-> IF q = hi THEN queue[hi] \o lower ELSE <<>>]

BoostedJob(job) ==
    IF job.left > 0
    THEN [job EXCEPT !.pri = HiQueue(mlfqOpt), !.ticks = mlfqOpt.allot[HiQueue(mlfqOpt)],
                     !.spent = 0]
    ELSE job

BoostNow == mlfqOpt.boost > 0 /\ currTime # 0 /\ currTime % mlfqOpt.boost = 0

\* an I/O is done or a job begins: the job enters the queue of its level
Arrive(s, ev) ==
    LET q == s.job[ev.job].pri
    IN  [job   |-> [s.job EXCEPT ![ev.job].io = FALSE],
         queue |-> [s.queue EXCEPT ![q] =
                      IF ~mlfqOpt.iobump \/ ev.type = "JOB BEGINS"
                      THEN Append(@, ev.job) ELSE <<ev.job>> \o @]]

\* the start of an iteration: boost, then the events of this moment
Ready ==
    LET s == IF BoostNow
             THEN [job   |-> [j \in MJobs |-> BoostedJob(mlfqJob[j])],
                   queue |-> BoostedQueues(mlfqQueue)]
             ELSE [job |-> mlfqJob, queue |-> mlfqQueue]
    IN  Loop(Arrive, s, SelectSeq(mlfqEvents, LAMBDA e : e.at = currTime))

Pending == SelectSeq(mlfqEvents, LAMBDA e : e.at # currTime)

\* the while loop goes on
MlfqGoesOn == finishedJobs < MlfqJobs /\ ~mlfqAbort /\ currTime < MlfqMaxTime

\* no job can run: time passes
MlfqIdle ==
    /\ MlfqGoesOn
    /\ \E ready \in {Ready} :
          /\ FindQueue(ready.queue) = -1
          /\ mlfqJob' = ready.job /\ mlfqQueue' = ready.queue
    /\ mlfqEvents' = Pending
    /\ currTime' = currTime + 1
    /\ UNCHANGED <<mlfqOpt, finishedJobs, mlfqAbort>>

\* mutant: the allotment is renewed with every time slice
QuantumEndForgetful(j, q) == [j EXCEPT !.ticks = mlfqOpt.quantum[q]]

\* the quantum is over: the allotment of the level is charged, and when it is
\* used up the job moves down, or starts again on the lowest level
QuantumEnd(j, q) ==
    LET to == IF q > 0 THEN q - 1 ELSE q
    IN  IF j.allot - 1 = 0
        THEN [j EXCEPT !.pri = to, !.ticks = mlfqOpt.quantum[to],
                       !.allot = mlfqOpt.allot[to], !.spent = 0]
        ELSE [j EXCEPT !.allot = @ - 1, !.ticks = mlfqOpt.quantum[q]]

\* the bad rule: a job that stays gets its time back when it issues an I/O
IoStart(j, q) ==
    IF mlfqOpt.stay
    THEN [j EXCEPT !.io = TRUE, !.ticks = mlfqOpt.quantum[q],
                   !.allot = mlfqOpt.allot[q], !.spent = 0]
    ELSE [j EXCEPT !.io = TRUE]

\* mutant: the time of the completion is computed before the clock moves on
IoDoneAtNow(now) == now + mlfqOpt.iotime

\* futureTime, after the update of currTime
IoDoneAt(now) == now + 1 + mlfqOpt.iotime

\* the first job c of the highest queue q runs for one tick
RunTick(ready, q, c) ==
    LET ran     == [ready.job[c] EXCEPT !.left = @ - 1, !.ticks = @ - 1,
                                        !.spent = @ + 1,
                                        !.first = IF @ = -1 THEN currTime ELSE @]
        over    == ran.left = 0
        issued  == ~over /\ ran.freq > 0 /\ (ran.run - ran.left) % ran.freq = 0
        expired == ~over /\ ran.ticks = 0
        afterIo == IF issued THEN IoStart(ran, q) ELSE ran
        after   == IF over THEN [ran EXCEPT !.end = currTime + 1]
                   ELSE IF expired THEN QuantumEnd(afterIo, q) ELSE afterIo
        popped  == IF over \/ issued \/ expired
                   THEN [ready.queue EXCEPT ![q] = Tail(@)] ELSE ready.queue
    IN  /\ mlfqAbort' = (ready.job[c].pri # q \/ ran.left < 0)
        /\ mlfqJob' = [ready.job EXCEPT ![c] = after]
        /\ mlfqQueue' = IF expired /\ ~issued
                        THEN [popped EXCEPT ![after.pri] = Append(@, c)] ELSE popped
        /\ mlfqEvents' = IF issued
                         THEN Append(Pending, [at |-> IoDoneAt(currTime),
                                               job |-> c, type |-> "IO_DONE"])
                         ELSE Pending
        /\ finishedJobs' = IF over THEN finishedJobs + 1 ELSE finishedJobs

MlfqRun ==
    /\ MlfqGoesOn
    /\ \E ready \in {Ready} :
          LET q == FindQueue(ready.queue)
          IN  q # -1 /\ RunTick(ready, q, Head(ready.queue[q]))
    /\ currTime' = currTime + 1
    /\ UNCHANGED mlfqOpt

MlfqNext == MlfqIdle \/ MlfqRun
MlfqDone == finishedJobs = MlfqJobs
-----------------------------------------------------------------------------
(* A job is in exactly one place: finished, waiting for an event that is   *)
(* still to come, or exactly once in exactly the queue of its priority.    *)
(* This is what the Abort calls and the asserts of the program rely on.    *)
JobInOnePlace ==
    /\ ~mlfqAbort
    /\ \A j \in MJobs :
          LET queued == {x \in (DOMAIN mlfqQueue) \X (1 .. MlfqJobs) :
                            x[2] <= Len(mlfqQueue[x[1]]) /\ mlfqQueue[x[1]][x[2]] = j}
              events == {i \in 1 .. Len(mlfqEvents) : mlfqEvents[i].job = j}
              done   == IF mlfqJob[j].end # -1 THEN 1 ELSE 0
          IN  /\ Cardinality(queued) + Cardinality(events) + done = 1
              /\ \A x \in queued : x[1] = mlfqJob[j].pri /\ ~mlfqJob[j].io

(* No job can keep its priority by giving up the CPU early: without -S and *)
(* without a boost it runs on a level at most for its allotment, counted   *)
(* over all its time slices there.                                         *)
AllotmentRespected ==
    mlfqOpt.boost = 0 =>
        \A j \in MJobs : LET q == mlfqJob[j].pri
                         IN  mlfqJob[j].spent <= mlfqOpt.quantum[q] * mlfqOpt.allot[q]
=============================================================================
