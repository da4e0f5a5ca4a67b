------------------------------ MODULE MultiCpu ------------------------------
(***************************************************************************)
(* Multiprocessor scheduler simulator of BSYS (src/Sem3/BSYS/              *)
(* 10_Multiprocessor/multi.py): CPUs with a central queue or a queue each, *)
(* affinity, work stealing, and caches that warm up.  One step is one tick *)
(* of run(): interrupts, stealing, assignment of jobs, one tick per CPU.   *)
(***************************************************************************)
EXTENDS Integers, Sequences, FiniteSets, SequencesExt, FiniteSetsExt, Loops

CONSTANTS
    NumCpus,
    MultiJobs,     \* the job names
    JobOrder,      \* the order of the names in the job list
    MultiWorks,    \* what is tried for a job: records [run, wset, affinity]
    MultiOptions,  \* records [perCpu, peek, slice, size, warm, warmup, random]
    MultiMaxTime   \* bound on the clock; every execution ends before it

ASSUME MultiAssumption ==
    /\ NumCpus \in Nat \ {0, 1}   \* random.choice of steal_jobs needs another CPU
    /\ MultiMaxTime \in Nat
    /\ IsInjective(JobOrder) /\ ToSet(JobOrder) = MultiJobs
    /\ \A w \in MultiWorks : /\ w.run \in Nat /\ w.wset \in Nat
                             /\ w.affinity \subseteq 0 .. NumCpus - 1
    /\ \A o \in MultiOptions : /\ o.slice > 0 /\ o.warm > 0
                               /\ {o.peek, o.size, o.warmup} \subseteq Nat

VARIABLES
    multiOpt, works,   \* the options, the job table
    queues,        \* per_cpu_sched_queue; the central queue is queues[0]
    current,       \* sched_current: cpu -> job or "" (the CPU is idle)
    timeLeft,      \* job -> time_left
    caches,        \* cpu -> [contents, warming, counter]
    sysTime, jobsFinished

multiVars == <<multiOpt, works, queues, current, timeLeft, caches, sysTime, jobsFinished>>

Cpus == 0 .. NumCpus - 1
CpuOrder == [i \in 1 .. NumCpus |-> i - 1]

\* the queue a CPU uses
QueueOf(cpu) == IF multiOpt.perCpu THEN cpu ELSE 0

MayRun(job, cpu) == works[job].affinity = {} \/ cpu \in works[job].affinity

\* get_job's and the assignment loop's search: the first job this CPU may run
FirstFor(cpu, queue) == SelectInSeq(queue, LAMBDA job : MayRun(job, cpu))

\* the assignment loop: each CPU in turn takes the first job it may run
Deal(d, cpu) ==
    LET i == FirstFor(cpu, d.jobs)
    IN  IF i = 0 THEN d
        ELSE [jobs |-> RemoveAt(d.jobs, i),
              q    |-> [d.q EXCEPT ![cpu] = Append(@, d.jobs[i])]]

Dealt ==
    LET rounds == FlattenSeq([k \in 1 .. Len(JobOrder) |-> CpuOrder])
    IN  Loop(Deal, [jobs |-> JobOrder, q |-> [c \in Cpus |-> <<>>]], rounds).q

MultiInit ==
    /\ multiOpt \in MultiOptions
    /\ works \in [MultiJobs -> MultiWorks]
    /\ queues = IF multiOpt.perCpu THEN Dealt
                ELSE [c \in Cpus |-> IF c = 0 THEN JobOrder ELSE <<>>]
    /\ current = [c \in Cpus |-> ""]
    /\ timeLeft = [j \in MultiJobs |-> works[j].run]
    /\ caches = [c \in Cpus |-> [contents |-> <<>>, warming |-> {},
                                 counter |-> [j \in MultiJobs |-> 0]]]
    /\ sysTime = 0 /\ jobsFinished = 0
-----------------------------------------------------------------------------
\* class cache

WorkingSets(contents) ==
    MapThenSumSet(LAMBDA i : works[contents[i]].wset, 1 .. Len(contents))

\* adjust_size: how many of the most recent entries stay
Fitting(contents) ==
    Max({n \in 0 .. Len(contents) : WorkingSets(SubSeq(contents, 1, n)) <= multiOpt.size})

\* contents.insert(0, job), then adjust_size: the evicted jobs warm up again
Insert(cache, job) ==
    LET all  == <<job>> \o cache.contents
        n    == Fitting(all)
        gone == ToSet(SubSeq(all, n + 1, Len(all)))
    IN  [contents |-> SubSeq(all, 1, n),
         warming  |-> cache.warming \union gone,
         counter  |-> [j \in MultiJobs |-> IF j \in gone THEN multiOpt.warmup
                                                         ELSE cache.counter[j]]]

CacheNewJob(cache, job) ==
    IF job \in ToSet(cache.contents) \union cache.warming THEN cache
    ELSE IF multiOpt.warmup = 0 THEN Insert(cache, job)
    ELSE [cache EXCEPT !.warming = @ \union {job}, !.counter[job] = multiOpt.warmup]

GetRate(cache, job) == IF job \in ToSet(cache.contents) THEN multiOpt.warm ELSE 1

UpdateWarming(cache, job) ==
    LET c == [cache EXCEPT !.counter[job] = @ - 1]
    IN  IF job \notin cache.warming THEN cache
        ELSE IF c.counter[job] <= 0
             THEN Insert([c EXCEPT !.warming = @ \ {job}], job)
             ELSE c
-----------------------------------------------------------------------------
\* The parts of a tick.  m is the scheduler: [queues, current, timeLeft,
\* caches, finished].

\* mutant: the CPU keeps the job that it puts back
HandleInterruptKeeps(m, cpu) ==
    IF m.current[cpu] = "" THEN m
    ELSE [m EXCEPT !.queues[QueueOf(cpu)] = Append(@, m.current[cpu])]

\* handle_one_interrupt: the running job goes back to a queue
HandleInterrupt(m, cpu) ==
    IF m.current[cpu] = "" THEN m
    ELSE [m EXCEPT !.current[cpu] = "",
                   !.queues[QueueOf(cpu)] = Append(@, m.current[cpu])]

HandleInterrupts(m) ==
    IF sysTime % multiOpt.slice = 0 /\ sysTime > 0
    THEN Loop(HandleInterrupt, m, CpuOrder) ELSE m

\* the test of steal_jobs: "cpu in self.jobs[job_name]" compares the CPU
\* number with the fields of the job tuple, i.e. its run time and its working
\* set, and not with the affinity list
MaySteal(job, cpu) ==
    works[job].affinity = {} \/ cpu \in {works[job].run, works[job].wset}

\* one CPU with an empty queue looks at the queue of the CPU other
Steal(m, cpu, other) ==
    LET i == SelectInSeq(m.queues[other], LAMBDA job : MaySteal(job, cpu))
    IN  IF m.queues[cpu] # <<>> \/ i = 0 THEN m
        ELSE [m EXCEPT !.queues[other] = RemoveAt(@, i),
                       !.queues[cpu] = Append(@, m.queues[other][i])]

\* steal_jobs: victim is the random choice each CPU makes
StealJobs(m, victim) ==
    IF multiOpt.perCpu /\ multiOpt.peek > 0 /\ sysTime > 0 /\ sysTime % multiOpt.peek = 0
    THEN Loop(LAMBDA s, cpu : Steal(s, cpu, victim[cpu]), m, CpuOrder) ELSE m

\* get_job
GetJob(m, cpu) ==
    LET q == QueueOf(cpu)
        i == FirstFor(cpu, m.queues[q])
    IN  IF m.current[cpu] # "" \/ i = 0 THEN m
        ELSE [m EXCEPT !.queues[q] = RemoveAt(@, i),
                       !.current[cpu] = m.queues[q][i],
                       !.caches[cpu] = CacheNewJob(@, m.queues[q][i])]

\* run_one_tick
RunOneTick(m, cpu) ==
    LET job  == m.current[cpu]
        rest == Max({0, m.timeLeft[job] - GetRate(m.caches[cpu], job)})
    IN  IF job = "" THEN m
        ELSE [m EXCEPT !.timeLeft[job] = rest,
                       !.caches[cpu] = UpdateWarming(@, job),
                       !.current[cpu] = IF rest = 0 THEN "" ELSE @,
                       !.finished = IF rest = 0 THEN @ + 1 ELSE @]

MultiDone == jobsFinished = Cardinality(MultiJobs)

\* the scheduler after interrupts, stealing, assignment and execution
Ticked(victim, order) ==
    LET m0 == [queues |-> queues, current |-> current, timeLeft |-> timeLeft,
               caches |-> caches, finished |-> jobsFinished]
        m1 == Let(LAMBDA m : StealJobs(m, victim), HandleInterrupts(m0))
    IN  Loop(RunOneTick, Loop(GetJob, m1, order), CpuOrder)

\* one iteration of run(); order is the (possibly shuffled) list of CPUs
MultiTick ==
    /\ ~MultiDone /\ sysTime < MultiMaxTime
    /\ \E victim \in {v \in [Cpus -> Cpus] : \A c \in Cpus : v[c] # c},
          order \in IF multiOpt.random THEN SetToSeqs(Cpus) ELSE {CpuOrder} :
          \E m \in {Ticked(victim, order)} :
              /\ queues' = m.queues /\ current' = m.current
              /\ timeLeft' = m.timeLeft /\ caches' = m.caches
              /\ jobsFinished' = m.finished
    /\ sysTime' = sysTime + 1
    /\ UNCHANGED <<multiOpt, works>>
-----------------------------------------------------------------------------
\* how often a job is in a queue or on a CPU
Places(j) ==
    Cardinality({c \in Cpus : current[c] = j})
      + Cardinality({x \in Cpus \X (1 .. Cardinality(MultiJobs)) :
                        x[2] <= Len(queues[x[1]]) /\ queues[x[1]][x[2]] = j})

(* An unfinished job is in exactly one place, in one queue or on one CPU,  *)
(* across interrupts, stealing and assignment in any order of the CPUs; a  *)
(* finished job is in none and is counted once, so that the loop of run()  *)
(* ends when the last one is done; and a job runs only where it may.       *)
JobOnOneCpu ==
    /\ \A j \in MultiJobs : Places(j) <= 1 /\ (timeLeft[j] > 0 => Places(j) = 1)
    /\ jobsFinished = Cardinality({j \in MultiJobs : Places(j) = 0})
    /\ \A c \in Cpus : current[c] # "" => MayRun(current[c], c)

(* The working sets in a cache fit into it, no job is there twice, and no  *)
(* job that is warm is also warming up (it would be inserted again).       *)
CacheFits ==
    \A c \in Cpus :
        /\ WorkingSets(caches[c].contents) <= multiOpt.size
        /\ IsInjective(caches[c].contents)
        /\ ToSet(caches[c].contents) \intersect caches[c].warming = {}

(* The only jobs that may never finish are misplaced: a job with an        *)
(* affinity whose run time or working set is the number of a CPU may be    *)
(* stolen by that CPU, though it may not run there (multi.py:348).         *)
Misplaced ==
    \E c \in Cpus : multiOpt.perCpu /\ \E j \in ToSet(queues[c]) : ~MayRun(j, c)
=============================================================================
