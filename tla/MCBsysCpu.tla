------------------------------ MODULE MCBsysCpu ------------------------------
(***************************************************************************)
(* The CPU simulators and the C exercises on threads of BSYS, and the      *)
(* scheduling simulator of the RESY laboratory, for TLC.                   *)
(* They are programs that share nothing: a behaviour is the execution of   *)
(* one of them, the others have not been started and have nothing to do.   *)
(***************************************************************************)
EXTENDS ProcessRun, BatchScheduler, Lottery, Mlfq, MultiCpu, ThreadPrograms,
        DmSimulator, Semaphores, TwoLockQueue, SloppyCounter

CONSTANT Simulators    \* the programs that are started
VARIABLE sim

exerciseVars == <<semVars, queueVars, countVars>>
simVars == <<procVars, batchVars, lotVars, mlfqVars, multiVars, x86Vars, dmVars>>
cpuVars == <<simVars, exerciseVars, sim>>

ProcOff == /\ procOpt = CHOOSE o \in ProcOptions : TRUE
           /\ proc = [st |-> [q \in Pids |-> "DONE"], code |-> [q \in Pids |-> <<>>],
                      curr |-> 0, ok |-> TRUE]
           /\ ioFinish = [q \in Pids |-> {}]
           /\ procClock = 0 /\ cpuBusy = 0 /\ ioBusy = 0
BatchOff == /\ policy = "FIFO" /\ quantum = CHOOSE q \in Quanta : TRUE
            /\ joblist = <<>> /\ runlist = <<>> /\ thetime = 0 /\ stats = <<>>
LotOff == /\ lotQuantum = 1 /\ tickTotal = 0 /\ lotLeft = 0 /\ lotClock = 0
          /\ lotList0 = [i \in 1 .. LotJobs |-> [run |-> 1, tix |-> 0]]
          /\ lotList = [i \in 1 .. LotJobs |-> [run |-> 0, tix |-> 0]]
          /\ lotDraws = 0 /\ lotPc = "end"
MlfqOff == /\ mlfqOpt = CHOOSE o \in MlfqOptions : TRUE
           /\ mlfqJob = [j \in MJobs |-> [NewJob(mlfqOpt, CHOOSE w \in MlfqWorkloads : TRUE)
                                          EXCEPT !.left = 0, !.end = 0]]
           /\ mlfqQueue = [q \in Levels(mlfqOpt) |-> <<>>] /\ mlfqEvents = <<>>
           /\ currTime = 0 /\ finishedJobs = MlfqJobs /\ mlfqAbort = FALSE
MultiOff == /\ multiOpt = CHOOSE o \in MultiOptions : TRUE
            /\ works = [j \in MultiJobs |-> CHOOSE w \in MultiWorks : TRUE]
            /\ queues = [c \in Cpus |-> <<>>] /\ current = [c \in Cpus |-> ""]
            /\ timeLeft = [j \in MultiJobs |-> 0]
            /\ caches = [c \in Cpus |-> [contents |-> <<>>, warming |-> {},
                                         counter |-> [j \in MultiJobs |-> 0]]]
            /\ sysTime = 0 /\ jobsFinished = Cardinality(MultiJobs)
X86Off == /\ x86Opt = CHOOSE o \in X86Options : TRUE
          /\ code = <<>> /\ machine = [Process(0) EXCEPT !.done = TRUE]
          /\ procs = [t \in Threads |-> Process(t)]
          /\ currThread = 1 /\ interrupt = 1 /\ x86Status = "finished"
DmOff == /\ dmOpt = [tasks |-> <<>>, mode |-> "none", stop |-> 0] /\ tick = 1
         /\ tasks = <<>> /\ ready_queue = <<>> /\ dmStats = <<>> /\ missed = {}

SemOff == /\ semOpt = CHOOSE o \in SemOptions : o.program = "rendezvous"
          /\ sem = <<>> /\ shared = 0
          /\ writes = 0 /\ thread = [t \in SemThreads |-> [pc |-> 1, rounds |-> 0, local |-> 0]]
QueueOff == /\ head = NULL /\ tail = NULL /\ heap = (NULL :> [value |-> 0, next |-> NULL])
            /\ enqueuer = [t \in Enqueuers |-> [pc |-> "end", tmp |-> NULL, i |-> 0, count |-> 0]]
            /\ dequeuer = [d \in Dequeuers |-> [pc |-> "end", tmp |-> NULL, new_head |-> NULL]]
            /\ result = [d \in Dequeuers |-> <<>>]
CountOff == /\ countOpt = CHOOSE o \in CounterOptions : TRUE
            /\ global = [c \in Counters |-> 0] /\ added = [c \in Counters |-> 0]
            /\ local = [c \in Counters |-> [p \in CpusOf |-> 0]]
            /\ updater = [t \in Updaters |-> [pc |-> "llock", val |-> 0, count |-> MaxUpdates]]
            /\ got = [c \in Counters |-> 0]

CpuInit ==
    /\ sim \in Simulators
    /\ IF sim = "process" THEN ProcInit ELSE ProcOff
    /\ IF sim = "scheduler" THEN BatchInit ELSE BatchOff
    /\ IF sim = "lottery" THEN LotInit ELSE LotOff
    /\ IF sim = "mlfq" THEN MlfqInit ELSE MlfqOff
    /\ IF sim = "multi" THEN MultiInit ELSE MultiOff
    /\ IF sim = "x86" THEN X86Init ELSE X86Off
    /\ IF sim = "resy" THEN DmInit ELSE DmOff
    /\ IF sim = "semaphores" THEN SemInit ELSE SemOff
    /\ IF sim = "queue" THEN QueueInit ELSE QueueOff
    /\ IF sim = "counter" THEN CountInit ELSE CountOff

CpuNext ==
    \/ ProcTick /\ UNCHANGED <<batchVars, lotVars, mlfqVars, multiVars, x86Vars, dmVars, exerciseVars, sim>>
    \/ BatchNext /\ UNCHANGED <<procVars, lotVars, mlfqVars, multiVars, x86Vars, dmVars, exerciseVars, sim>>
    \/ LotNext /\ UNCHANGED <<procVars, batchVars, mlfqVars, multiVars, x86Vars, dmVars, exerciseVars, sim>>
    \/ MlfqNext /\ UNCHANGED <<procVars, batchVars, lotVars, multiVars, x86Vars, dmVars, exerciseVars, sim>>
    \/ MultiTick /\ UNCHANGED <<procVars, batchVars, lotVars, mlfqVars, x86Vars, dmVars, exerciseVars, sim>>
    \/ Run /\ UNCHANGED <<procVars, batchVars, lotVars, mlfqVars, multiVars, dmVars, exerciseVars, sim>>
    \/ DmTick /\ UNCHANGED <<procVars, batchVars, lotVars, mlfqVars, multiVars, x86Vars,
                             exerciseVars, sim>>
    \/ SemNext /\ UNCHANGED <<simVars, queueVars, countVars, sim>>
    \/ QueueNext /\ UNCHANGED <<simVars, semVars, countVars, sim>>
    \/ sim = "counter" /\ CountNext /\ UNCHANGED <<simVars, semVars, queueVars, sim>>

\* a simulator is sequential and runs until it ends, a thread until all have
\* ended: the operating system goes on with some thread as long as one is ready
CpuSpec == CpuInit /\ [][CpuNext]_cpuVars /\ WF_cpuVars(CpuNext)

-----------------------------------------------------------------------------
MCMlfqWorkloads == [start: {0, 2}, run: {1, 3, 4}, freq: {0, 2}]
MCMlfqOptions ==
    {[quantum |-> qu, allot |-> al, boost |-> bo, iotime |-> io, stay |-> st, iobump |-> bu] :
        qu \in {(0 :> 2) @@ (1 :> 1)}, al \in {(0 :> 1) @@ (1 :> 2), (0 :> 2) @@ (1 :> 1)},
        bo \in {0, 3}, io \in {0, 2}, st \in BOOLEAN, bu \in BOOLEAN}
MCJobOrder == <<"a", "b", "c">>
MCMultiWorks ==
    {[run |-> 3, wset |-> 2, affinity |-> {}],
     [run |-> 4, wset |-> 3, affinity |-> {}], [run |-> 4, wset |-> 2, affinity |-> {1}],
     [run |-> 2, wset |-> 3, affinity |-> {0}], [run |-> 1, wset |-> 2, affinity |-> {0}]}
MCMultiOptions ==
    [perCpu: BOOLEAN, peek: {2}, slice: {1, 2}, size: {2, 4}, warm: {2},
     warmup: {0, 1}, random: {FALSE}]
      \union [perCpu: {FALSE}, peek: {0}, slice: {2}, size: {4}, warm: {2},
              warmup: {1}, random: {TRUE}]

\* no program of the repository uses the stack: a call that doubles its
\* argument between push and pop, and keeps the argument in bx
Doubled ==
    [Program(<<>>, <<Label("main"), Ins("push", <<ax>>), Jump("call", "double"),
                     Ins("pop", <<bx>>), Halt, Label("double"),
                     Ins("add", <<ax, ax>>), Ins("mul", <<Imm(2), ax>>),
                     Ins("push", <<At2000("zero")>>), Ins("pop", <<>>),
                     Ins("nop", <<>>), Ins("ret", <<>>)>>)
     EXCEPT !.stack = TRUE]

Option(version, prog, intfreq, intrand, procsched, a0, a1) ==
    [version |-> version, prog |-> prog, intfreq |-> intfreq, intrand |-> intrand,
     procsched |-> procsched, argv |-> (0 :> a0) @@ (1 :> a1)]
Args(r, n) == r :> n

\* -i 3 -r: any interleaving in slices of one to three instructions
RandomLocks(prog, n0, n1) == Option("locks", prog, 3, TRUE, <<>>, Args("bx", n0), Args("bx", n1))
MCX86Two ==
    {RandomLocks(prog, 2, 1) : prog \in {Flag, TestAndSet, TestAndTestAndSet, Ticket, Yield}}
    \union {RandomLocks(Peterson, 0, 1)}
    \union {Option("locks", TestAndSet, i, FALSE, <<>>, Args("bx", 1), Args("bx", 2)) : i \in 1 .. 5}
    \union {Option("locks", prog, 1, FALSE, s, Args("bx", n), Args("bx", 1)) :
               s \in {<<0, 0, 1>>, <<0, 1, 1, 1>>, <<1, 0>>}, prog \in {Ticket, Peterson}, n \in {0}}
    \union {Option("threads", p[1], i, r, <<>>, p[2], p[3]) :
               i \in {2, 3}, r \in BOOLEAN,
               p \in {<<WaitForMe, Args("ax", 0), Args("ax", 1)>>,
                      <<WaitForMe, Args("ax", 1), Args("ax", 0)>>,
                      <<ThreadLoop, Args("dx", 1), Args("dx", 2)>>,
                      <<LoopingRace, Args("bx", 2), Args("bx", 1)>>,
                      <<SimpleRace, Args("bx", 0), Args("bx", 4)>>,
                      <<TestAndSet, Args("bx", 1), Args("bx", 1)>>}}
    \union {Option("locks", Doubled, 3, TRUE, <<>>, Args("ax", 3), Args("ax", 5))}
    \* the older version has neither lea nor arrays, and aborts
    \union {Option("threads", Peterson, 3, TRUE, <<>>, Args("bx", 0), Args("bx", 1))}

\* three threads contend for the ticket lock
MCThree == {[Option("locks", Ticket, 3, TRUE, <<>>, Args("bx", 1), Args("bx", 1))
                EXCEPT !.argv = @ @@ (2 :> Args("bx", 1))]}
MCX86All == MCX86Two \union MCThree

SemProgram(program, threads, rounds) ==
    [program |-> program, threads |-> threads, rounds |-> rounds]
MCSemOptions ==
    {SemProgram("rendezvous", 2, 1), SemProgram("barrier", 3, 1), SemProgram("mutex", 4, 1),
     SemProgram("rw", 2, 3), SemProgram("nostarve", 4, 1), SemProgram("nostarve", 2, 3)}

\* main has a counter for each thread; threads that share one; threads that
\* share the CPU of one, with an amount that skips the threshold
MCCounterOptions ==
    {[threads |-> 4, counters |-> 4, cpus |-> 4, amt |-> 1, threshold |-> 2],
     [threads |-> 3, counters |-> 1, cpus |-> 2, amt |-> 1, threshold |-> 2],
     [threads |-> 2, counters |-> 1, cpus |-> 1, amt |-> 2, threshold |-> 3]}

\* the input files of V4, and all pairs of small tasks
PeriodicTask(ph, per, e, d) == [ph |-> ph, per |-> per, e |-> e, d |-> d]
DmInput(ts, mode, stop) == [tasks |-> ts, mode |-> mode, stop |-> stop]
DmInputs ==
    {<<PeriodicTask(0, 4, 2, 4), PeriodicTask(1, 5, 2, 2), PeriodicTask(0, 10, 1, 10)>>,
     <<PeriodicTask(0, 3, 1, 3), PeriodicTask(0, 5, 2, 5), PeriodicTask(0, 8, 3, 8)>>,
     <<PeriodicTask(2, 8, 3, 8), PeriodicTask(0, 10, 3, 10), PeriodicTask(0, 14, 2, 14)>>,
     <<PeriodicTask(3, 8, 3, 8), PeriodicTask(0, 10, 3, 10), PeriodicTask(2, 8, 2, 4)>>}
DmSmall == UNION {[ph : {0, 1}, per : {p}, e : {1, 2}, d : 2 .. p] : p \in 3 .. 4}
MCDmOptions ==
    {DmInput(ts, m, 30) : ts \in DmInputs, m \in {"kill", "nokill", "none"}}
    \union {DmInput(<<a, b>>, m, 13) : a \in DmSmall, b \in DmSmall, m \in {"kill", "nokill"}}
-----------------------------------------------------------------------------
(* What the schedulers promise: process-run.py uses its CPU whenever a     *)
(* process is ready, scheduler.py accounts for all time and orders its     *)
(* jobs, lottery.py holds as many tickets as its jobs have and draws often *)
(* enough, and the RESY simulator agrees with the time demand analysis and *)
(* lets a task that was killed run no more.                                *)
SchedulersRight ==
    OneCpu /\ StatsAgree /\ SjfOptimal /\ RRFair /\ LotHatRight /\ LotEnoughDraws
    /\ AnalysisAgrees /\ MissedHandled

(* mlfq.py keeps each job in one place and lets none stay at a level for   *)
(* longer than its allotment.                                              *)
MlfqRight == JobInOnePlace /\ AllotmentRespected

(* multi.py runs a job on one CPU at a time, and no cache holds more than  *)
(* its size.                                                               *)
MultiRight == JobOnOneCpu /\ CacheFits

(* The lock programs of x86.py and the semaphore programs exclude, lose no *)
(* update and leave their stacks as they were, for every interleaving; no  *)
(* thread leaves a rendezvous or a barrier early; the queue uses no node   *)
(* that was freed; the approximate counter lags by a bounded amount.       *)
LocksRight ==
    /\ MutualExclusion /\ CountRight /\ StackBalanced
    /\ LeaveTogether /\ NoWriteLost /\ NoUseAfterFree /\ LagsBoundedly

(* A context switch of x86.py keeps the registers of the thread that was   *)
(* interrupted, and the two locks of mcqueue.c implement one queue.        *)
ThreadsIsolated == ContextKept /\ ImplementsQueue

(* Every program ends: in process-run.py no process waits for an I/O for   *)
(* ever, in mlfq.py no job starves, in multi.py none is kept from its CPUs *)
(* (but for the misplaced one), in x86.py no thread spins for ever, and no *)
(* semaphore program deadlocks.                                            *)
AllFinish ==
    <>(/\ ProcDone /\ MlfqDone
       /\ MultiDone \/ Misplaced
       /\ x86Status \in {"finished", "ABORT"} /\ SemDone /\ DmDone)
=============================================================================
