----------------------------- MODULE ProcessRun -----------------------------
(***************************************************************************)
(* Process-state simulator of BSYS (src/Sem3/BSYS/04_Process/              *)
(* process-run.py): one CPU, processes made of "cpu" and "io"              *)
(* instructions, I/O that completes a fixed number of ticks later, and two *)
(* switches that decide who runs.  One step of the specification is one    *)
(* iteration of the while loop of run(), i.e. one clock tick.              *)
(***************************************************************************)
EXTENDS Integers, Sequences, FiniteSets, SequencesExt, Loops

CONSTANTS
    NumProcs,      \* processes in the -l list
    MaxCode,       \* bound: longest program (X of the X:Y description)
    IoLengths,     \* the values of -L that are tried, all positive
    ProcMaxTime    \* bound on the clock; every execution ends before it

ASSUME ProcAssumption == /\ NumProcs \in Nat \ {0}
                         /\ MaxCode \in Nat
                         /\ IoLengths \subseteq Nat \ {0}
                         /\ ProcMaxTime \in Nat

VARIABLES
    procOpt,       \* the options: [switch, iodone, iolen]
    proc,          \* the scheduler object: [st, code, curr, ok]
    ioFinish,      \* io_finish_times: pid -> set of ticks
    procClock,     \* clock_tick
    cpuBusy, ioBusy

procVars == <<procOpt, proc, ioFinish, procClock, cpuBusy, ioBusy>>

Pids == 0 .. NumProcs - 1

ProcOptions == [switch: {"SWITCH_ON_IO", "SWITCH_ON_END"},
                iodone: {"IO_RUN_LATER", "IO_RUN_IMMEDIATE"},
                iolen:  IoLengths]

\* load(): every instruction is a compute or an I/O, at random
Load == UNION {[1 .. n -> {"cpu", "io"}] : n \in 0 .. MaxCode}

\* move_to_ready, _wait, _running, _done: the assert, then the assignment
MoveToState(p, pid, expected, to) ==
    [p EXCEPT !.st[pid] = to, !.ok = @ /\ p.st[pid] = expected]

\* next_proc(pid)
RunProc(p, pid) == MoveToState([p EXCEPT !.curr = pid], pid, "READY", "RUNNING")

\* next_proc(): the next READY process after curr_proc, cyclically
NextProc(p) ==
    LET turn  == [i \in 1 .. NumProcs |-> (p.curr + i) % NumProcs]
        ready == {i \in 1 .. NumProcs : p.st[turn[i]] = "READY"}
    IN  IF ready = {} THEN p ELSE RunProc(p, turn[Min(ready)])

GetNumRunnable(p) == Cardinality({q \in Pids : p.st[q] \in {"READY", "RUNNING"}})

GetIosInFlight(fin, now) ==
    Cardinality({x \in Pids \X UNION {fin[q] : q \in Pids} :
                    x[2] \in fin[x[1]] /\ x[2] > now})

CheckIfDone(p) ==
    IF p.code[p.curr] = <<>> /\ p.st[p.curr] = "RUNNING"
    THEN Let(NextProc, MoveToState(p, p.curr, "RUNNING", "DONE"))
    ELSE p

\* IO_RUN_IMMEDIATE: the running process, if it is another one, is preempted
RunImmediate(p, pid) ==
    RunProc(IF p.curr # pid /\ p.st[p.curr] = "RUNNING"
            THEN MoveToState(p, p.curr, "RUNNING", "READY") ELSE p, pid)

\* IO_RUN_LATER: the process only runs if it kept the CPU or nobody else can
RunLater(p, pid) ==
    LET more == procOpt.switch = "SWITCH_ON_END" /\ GetNumRunnable(p) > 1
    IN  IF more \/ GetNumRunnable(p) = 1 THEN RunProc(p, pid) ELSE p

\* body of "check for io finish" for one process whose I/O is done
IoFinished(p, pid) ==
    Let(CheckIfDone,
        Let(LAMBDA r : IF procOpt.iodone = "IO_RUN_IMMEDIATE"
                       THEN RunImmediate(r, pid) ELSE RunLater(r, pid),
            MoveToState(p, pid, "WAITING", "READY")))

\* the pids whose I/O finishes now, in the order of the for loop
FinishedNow(now) ==
    SelectSeq([i \in 1 .. NumProcs |-> i - 1], LAMBDA q : now \in ioFinish[q])

ProcInit ==
    /\ procOpt \in ProcOptions
    /\ \E code \in [Pids -> Load] :
          proc = [st   |-> [q \in Pids |-> IF q = 0 THEN "RUNNING" ELSE "READY"],
                  code |-> code, curr |-> 0, ok |-> TRUE]
    /\ ioFinish = [q \in Pids |-> {}]
    /\ procClock = 0 /\ cpuBusy = 0 /\ ioBusy = 0

\* get_num_active() = 0
ProcDone == \A q \in Pids : proc.st[q] = "DONE"

\* the issuing of an I/O by the running process of p
IssueIo(p) ==
    Let(LAMBDA w : IF procOpt.switch = "SWITCH_ON_IO" THEN NextProc(w) ELSE w,
        MoveToState(p, p.curr, "RUNNING", "WAITING"))

\* one iteration of the while loop, after the completed I/Os (woken)
Execute(woken, now) ==
    LET c    == woken.curr
        runs == woken.st[c] = "RUNNING" /\ woken.code[c] # <<>>
        inst == IF runs THEN Head(woken.code[c]) ELSE ""
        ran  == IF runs THEN [woken EXCEPT !.code[c] = Tail(@)] ELSE woken
    IN  /\ cpuBusy' = cpuBusy + (IF runs THEN 1 ELSE 0)
        /\ ioFinish' = IF inst = "io"
                       THEN [ioFinish EXCEPT ![c] = @ \union {now + procOpt.iolen}]
                       ELSE ioFinish
        /\ proc' = Let(CheckIfDone, IF inst = "io" THEN IssueIo(ran) ELSE ran)

ProcTick ==
    LET now == procClock + 1
    IN  /\ ~ProcDone /\ proc.ok /\ procClock < ProcMaxTime
        /\ procClock' = now
        /\ ioBusy' = ioBusy + (IF GetIosInFlight(ioFinish, now) > 0 THEN 1 ELSE 0)
        /\ \E woken \in {Loop(IoFinished, proc, FinishedNow(now))} : Execute(woken, now)
        /\ UNCHANGED procOpt
-----------------------------------------------------------------------------
(* The CPU is never given to two processes, never lost while the policy    *)
(* says that someone must have it, and no assert of move_to_* fails: a     *)
(* process that is READY after a tick waits for a RUNNING one (or, under   *)
(* SWITCH_ON_END, for the I/O of the process that keeps the CPU).          *)
OneCpu ==
    /\ proc.ok
    /\ \A q \in Pids : proc.st[q] = "RUNNING" => q = proc.curr
    /\ \A q \in Pids : proc.st[q] = "READY" =>
          \/ proc.st[proc.curr] = "RUNNING"
          \/ procOpt.switch = "SWITCH_ON_END" /\ proc.st[proc.curr] = "WAITING"
=============================================================================
