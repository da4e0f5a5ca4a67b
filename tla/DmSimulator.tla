----------------------------- MODULE DmSimulator -----------------------------
(***************************************************************************)
(* Deadline-monotonic scheduling simulator of the RESY laboratory          *)
(* (src/Sem6/RESY-Labor/V4/simulator.c).  Periodic tasks release jobs into *)
(* a queue; in every tick the job with the smallest deadline runs for one  *)
(* unit.  A job that misses its deadline is taken out of the queue with    *)
(* -nokill, with -kill its task is taken out too, and without either it    *)
(* goes on.  One step is one round of the loop of sim_scheduler.           *)
(***************************************************************************)
EXTENDS Integers, Sequences, SequencesExt, FiniteSetsExt

CONSTANTS
    DmOptions,     \* what is tried: [tasks, mode, stop], tasks as <<[ph, per, e, d]>>
    UintMax        \* what an unsigned int wraps to, larger than every stop

ASSUME DmAssumption ==
    \A o \in DmOptions :
        /\ o.mode \in {"kill", "nokill", "none"} /\ o.stop \in Nat /\ o.stop < UintMax
        /\ \A i \in DOMAIN o.tasks : o.tasks[i].per > 0

VARIABLES
    dmOpt,         \* the input file and the flags
    tick,
    tasks,         \* the tasks (by index) that still release jobs
    ready_queue,   \* sequence of [task, e, d, elapsed, flag], e and d what remains
    dmStats,       \* per task: max. reaction time
    missed         \* history: the tasks a job of which missed its deadline

dmVars == <<dmOpt, tick, tasks, ready_queue, dmStats, missed>>

LIVE_TASK   == 0
REMOVE_TASK == 1
KILL_TASK   == 2

Task(i) == dmOpt.tasks[i]
TaskIds(o) == DOMAIN o.tasks

DmInit ==
    /\ dmOpt \in DmOptions
    /\ tick = 0
    /\ tasks = [i \in TaskIds(dmOpt) |-> i]
    /\ ready_queue = <<>>
    /\ dmStats = [i \in TaskIds(dmOpt) |-> 0]
    /\ missed = {}

DmDone == tick > dmOpt.stop

\* --n of an unsigned int
Decrement(n) == IF n = 0 THEN UintMax ELSE n - 1

Released(i) == tick >= Task(i).ph /\ (tick - Task(i).ph) % Task(i).per = 0

NewInstance(i) ==
    [task |-> i, e |-> Task(i).e, d |-> Task(i).d, elapsed |-> 0, flag |-> LIVE_TASK]

\* handle_pending_queue and handle_ready_queue: a copy of each task that is
\* released, in the order of the tasks, at the end of the queue
WithReleased(q) ==
    LET pending == SelectSeq(tasks, Released)
    IN  q \o [k \in 1 .. Len(pending) |-> NewInstance(pending[k])]

LateJobs(q) == {k \in 1 .. Len(q) : q[k].d = 0 /\ q[k].e > 0}

\* handle_deadline: the flag a job has after its deadline was looked at
DeadlineFlag(q, k) ==
    IF dmOpt.mode = "kill" /\ \E j \in LateJobs(q) : q[j].task = q[k].task
        THEN KILL_TASK
    ELSE IF dmOpt.mode = "nokill" /\ k \in LateJobs(q) THEN REMOVE_TASK
    ELSE q[k].flag

DeadlineChecked(q) ==
    [k \in 1 .. Len(q) |->
        [q[k] EXCEPT !.d = Decrement(@), !.flag = DeadlineFlag(q, k)]]

\* pick_next_task_dm: the first of the jobs with the smallest deadline
NextTask(q) ==
    CHOOSE k \in 1 .. Len(q) :
        /\ \A j \in 1 .. Len(q) : Task(q[k].task).d <= Task(q[j].task).d
        /\ \A j \in 1 .. k - 1 : Task(q[j].task).d > Task(q[k].task).d

\* one unit of the job that was picked, which is marked when it is its last;
\* handle_reaction_time: every job in the queue is one tick older
Executed(q) ==
    [k \in 1 .. Len(q) |->
        IF k # NextTask(q) THEN [q[k] EXCEPT !.elapsed = @ + 1]
        ELSE [q[k] EXCEPT !.elapsed = @ + 1, !.e = Decrement(@),
                          !.flag = IF q[k].e = 1 /\ @ < REMOVE_TASK
                                       THEN REMOVE_TASK ELSE @]]

Marked(q) == {k \in 1 .. Len(q) : q[k].flag >= REMOVE_TASK}

\* handle_tasks_to_delete unlinks a marked job from the job looked at before
\* it, even if that one has just been unlinked itself: of two marked jobs
\* side by side behind one that is not marked, the second stays
Unlinked(q) ==
    LET out[k \in 0 .. Len(q)] ==
            k \in Marked(q) /\ (1 .. k - 1 \subseteq Marked(q) \/ ~out[k - 1])
    IN  {k \in 1 .. Len(q) : out[k]}

Remaining(q) ==
    LET out == Unlinked(q)
    IN  [n \in 1 .. Len(q) - Cardinality(out) |->
            q[CHOOSE k \in 1 .. Len(q) \ out :
                  Cardinality({j \in 1 .. k : j \notin out}) = n]]

\* the reaction time of every marked job counts
MaxElapsed(q) ==
    [i \in TaskIds(dmOpt) |->
        Max({dmStats[i]} \union {q[k].elapsed : k \in {m \in Marked(q) : q[m].task = i}})]

Killed(q) == {q[k].task : k \in {m \in 1 .. Len(q) : q[m].flag = KILL_TASK}}

DmTick ==
    /\ ~DmDone
    /\ \E released \in {WithReleased(ready_queue)} :
       \E executed \in {Executed(DeadlineChecked(released))} :
           /\ missed' = missed \union {released[k].task : k \in LateJobs(released)}
           /\ ready_queue' = Remaining(executed)
           /\ dmStats' = MaxElapsed(executed)
           /\ tasks' = SelectSeq(tasks, LAMBDA i : i \notin Killed(executed))
    /\ tick' = tick + 1
    /\ UNCHANGED dmOpt
-----------------------------------------------------------------------------
\* the work of i and of all tasks that may go before it in t ticks
Demand(i, t) ==
    Task(i).e + MapThenSumSet(LAMBDA j : ((t + Task(j).per - 1) \div Task(j).per) * Task(j).e,
                              {j \in TaskIds(dmOpt) \ {i} : Task(j).d <= Task(i).d})

\* time demand analysis: the ticks in which the demand of i is met
MeetsDemand(i) == {t \in 1 .. Task(i).d : Demand(i, t) <= t}
Analysed(i) == Min(MeetsDemand(i))

Feasible == \A i \in TaskIds(dmOpt) :
                Task(i).e >= 1 /\ Task(i).d <= Task(i).per /\ MeetsDemand(i) # {}

(* Time demand analysis is right about the simulation: when it finds the   *)
(* tasks schedulable no job misses its deadline, whatever the phases, and  *)
(* no reaction time exceeds the computed one; when all tasks start at once *)
(* with different deadlines, the first job of each takes just that long.   *)
AnalysisAgrees ==
    Feasible =>
        /\ missed = {} /\ Len(tasks) = Len(dmOpt.tasks)
        /\ \A i \in TaskIds(dmOpt) : dmStats[i] <= Analysed(i)
        /\ (/\ \A i \in TaskIds(dmOpt) : Task(i).ph = 0
            /\ \A i, j \in TaskIds(dmOpt) : i # j => Task(i).d # Task(j).d)
             => \A i \in TaskIds(dmOpt) : tick >= Analysed(i) => dmStats[i] = Analysed(i)

(* -nokill and -kill keep their promise: with -nokill no task is lost, and *)
(* a task that -kill took out never gets another job of its into the queue *)
(* that could run for more than the tick that is left to it.               *)
MissedHandled ==
    /\ dmOpt.mode # "kill" => Len(tasks) = Len(dmOpt.tasks)
    /\ \A k \in 1 .. Len(ready_queue) :
           ready_queue[k].task \notin ToSet(tasks) => ready_queue[k].flag = KILL_TASK
    /\ dmOpt.mode = "kill" => \A i \in missed : i \notin ToSet(tasks)
=============================================================================
