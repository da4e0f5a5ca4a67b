--------------------------- MODULE BatchScheduler ---------------------------
(***************************************************************************)
(* Scheduler simulator of BSYS (src/Sem3/BSYS/07_Scheduler/scheduler.py):  *)
(* jobs that arrive together and run under FIFO, SJF or round robin, with  *)
(* the response, turnaround and wait statistics the program prints.  One   *)
(* step runs one job for its turn.                                         *)
(***************************************************************************)
EXTENDS Integers, Sequences, FiniteSets, SequencesExt, FiniteSetsExt

CONSTANTS
    MaxJobs,       \* bound: jobs in the list
    Runtimes,      \* the job lengths that are tried
    Quanta         \* the values of -q that are tried, all positive

ASSUME BatchAssumption == /\ MaxJobs \in Nat \ {0}
                          /\ Runtimes \subseteq Nat
                          /\ Quanta \subseteq Nat \ {0}

VARIABLES
    policy, quantum,
    joblist,       \* sequence of <<jobnum, runtime>>
    runlist,       \* the jobs that still have to run, with their rest
    thetime,
    stats          \* per job: [turnaround, response, wait, lastran]

batchVars == <<policy, quantum, joblist, runlist, thetime, stats>>

Jobnums == 0 .. Len(joblist) - 1

\* sorted(joblist, key=itemgetter(1)): stable, and the list is in the order
\* of the job numbers
SortedByRuntime(jobs) ==
    SortSeq(jobs, LAMBDA a, b : a[2] < b[2] \/ (a[2] = b[2] /\ a[1] < b[1]))

\* the job list: random lengths, or the ones of -l
BatchJoblist ==
    {[i \in 1 .. Len(r) |-> <<i - 1, r[i]>>] :
        r \in UNION {[1 .. n -> Runtimes] : n \in 1 .. MaxJobs}}

BatchInit ==
    /\ policy \in {"FIFO", "SJF", "RR"}
    /\ quantum \in Quanta
    /\ joblist \in BatchJoblist
    /\ runlist = IF policy = "SJF" THEN SortedByRuntime(joblist) ELSE joblist
    /\ thetime = 0
    /\ stats = [j \in Jobnums |->
                  [turnaround |-> 0, response |-> -1, wait |-> 0, lastran |-> 0]]

BatchDone == runlist = <<>>

\* FIFO (and SJF, once sorted): the next job runs to its end
RunFifo ==
    /\ policy # "RR" /\ ~BatchDone
    /\ LET jobnum == Head(runlist)[1]
           end    == thetime + Head(runlist)[2]
       IN  /\ stats' = [stats EXCEPT ![jobnum] =
                          [turnaround |-> end, response |-> thetime,
                           wait |-> thetime, lastran |-> end]]
           /\ thetime' = end
    /\ runlist' = Tail(runlist)
    /\ UNCHANGED <<policy, quantum, joblist>>

\* mutant: an unfinished job goes back to the front
RequeuedFront(job) == <<job>> \o Tail(runlist)

\* runlist.append
Requeued(job) == Append(Tail(runlist), job)

\* the accounting of one turn of a job in round robin
Accounted(s, ranfor, done) ==
    [turnaround |-> IF done THEN thetime + ranfor ELSE s.turnaround,
     response   |-> IF s.response = -1 THEN thetime ELSE s.response,
     wait       |-> s.wait + (thetime - s.lastran),
     lastran    |-> thetime + ranfor]

\* round robin: the first job of the run list runs for at most a quantum
RunRR ==
    /\ policy = "RR" /\ ~BatchDone
    /\ LET jobnum  == Head(runlist)[1]
           runtime == Head(runlist)[2]
           done    == runtime <= quantum
           ranfor  == IF done THEN runtime ELSE quantum
       IN  /\ stats' = [stats EXCEPT ![jobnum] = Accounted(@, ranfor, done)]
           /\ thetime' = thetime + ranfor
           /\ runlist' = IF done THEN Tail(runlist)
                                 ELSE Requeued(<<jobnum, runtime - quantum>>)
    /\ UNCHANGED <<policy, quantum, joblist>>

BatchNext == RunFifo \/ RunRR
-----------------------------------------------------------------------------
Runtime(j) == joblist[j + 1][2]

\* the turnaround times of the jobs run one after the other in this order
TurnaroundSum(order) ==
    MapThenSumSet(LAMBDA k : MapThenSumSet(LAMBDA i : order[i][2], 1 .. k),
                  1 .. Len(order))

(* The statistics agree with the execution trace: whenever a job is done,  *)
(* its wait is its turnaround without its own run time, and the time is    *)
(* the work done so far.                                                   *)
StatsAgree ==
    LET left(j) == MapThenSumSet(LAMBDA i : runlist[i][2],
                                 {i \in 1 .. Len(runlist) : runlist[i][1] = j})
        done    == {j \in Jobnums : \A i \in 1 .. Len(runlist) : runlist[i][1] # j}
    IN  /\ thetime = MapThenSumSet(LAMBDA j : Runtime(j) - left(j), Jobnums)
        /\ \A j \in done : /\ stats[j].wait = stats[j].turnaround - Runtime(j)
                           /\ stats[j].response \in 0 .. stats[j].wait

(* SJF is optimal for jobs that arrive together: no order of the same jobs *)
(* has a smaller sum of turnaround times than the one the program printed. *)
SjfOptimal ==
    policy = "SJF" /\ BatchDone =>
        \A order \in SetToSeqs(ToSet(joblist)) :
            MapThenSumSet(LAMBDA j : stats[j].turnaround, Jobnums)
                <= TurnaroundSum(order)

(* Round robin is fair: no two jobs that are both unfinished differ by     *)
(* more than one quantum in what they were given.                          *)
RRFair ==
    policy = "RR" =>
        \A i, k \in 1 .. Len(runlist) :
            LET given(x) == Runtime(runlist[x][1]) - runlist[x][2]
            IN  given(i) - given(k) \in -quantum .. quantum
=============================================================================
