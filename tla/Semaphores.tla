------------------------------ MODULE Semaphores ------------------------------
(***************************************************************************)
(* The semaphore exercises of BSYS (31_Semaphores): the rendezvous, the    *)
(* barrier, the mutex and the two readers-writer locks.  A role is the     *)
(* sequence of what a thread does to semaphores and shared integers; each  *)
(* program is a sequence of roles, one per thread.                         *)
(***************************************************************************)
EXTENDS Integers, Sequences, FiniteSets, Functions

CONSTANTS
    SemOptions     \* [program, threads, rounds]: how often a reader or writer enters

\* main starts a man and a woman, and one reader and one writer; nobody meets twice
ASSUME SemAssumption ==
    /\ SemOptions \subseteq [program: {"rendezvous", "barrier", "mutex", "rw", "nostarve"},
                             threads: Nat \ {0}, rounds: Nat \ {0}]
    /\ \A o \in SemOptions :
          /\ o.program \in {"rendezvous", "rw"} => o.threads = 2
          /\ o.program \in {"rendezvous", "barrier"} => o.rounds = 1

VARIABLES
    semOpt, sem,       \* semaphore -> value
    shared,            \* n of the barrier, readers of the locks
    writes,            \* writes of the locks, counter of the mutex
    thread             \* thread -> [pc, rounds, local]

semVars == <<semOpt, sem, shared, writes, thread>>

-----------------------------------------------------------------------------
(* Roles.  Unless0(k) goes on behind the next k statements unless shared   *)
(* is 0.                                                                   *)
Statement(op, arg) == [op |-> op, arg |-> arg]
Wait(s) == Statement("wait", s)
Post(s) == Statement("post", s)
Add(k) == Statement("add", k)
Unless0(k) == Statement("unless0", k)
LoadWrites == Statement("load", "")
StoreWrites == Statement("store", "")
Exit == Statement("exit", "")

Man == <<Wait("t2"), Post("t1")>>
Woman == <<Post("t2"), Wait("t1")>>

Child == <<Wait("m"), Add(-1), Post("m"), Unless0(2), Post("s"), Exit, Wait("s"), Post("s")>>

Counting == <<Wait("acquire"), LoadWrites, StoreWrites, Post("acquire")>>

\* readers is never 0 behind its increment: no reader takes writelock
EnterReaders == <<Wait("lock"), Add(1), Unless0(1), Wait("writelock"), Post("lock")>>
LeaveReaders == <<Wait("lock"), Add(-1), Unless0(1), Post("writelock"), Post("lock")>>

Reader == EnterReaders \o <<LoadWrites>> \o LeaveReaders
Writer == <<Wait("writelock"), LoadWrites, StoreWrites, Post("writelock")>>

FairReader == <<Wait("readlock"), Post("readlock")>> \o Reader
FairAcquire == <<Wait("lock"), Wait("readlock"), Wait("writelock"), Post("lock")>>
FairWriter == FairAcquire \o <<LoadWrites, StoreWrites, Post("writelock"), Post("readlock")>>

\* even threads read, odd ones write
Role(t) ==
    CASE semOpt.program = "rendezvous" -> IF t = 0 THEN Man ELSE Woman
      [] semOpt.program = "barrier"  -> Child
      [] semOpt.program = "mutex"    -> Counting
      [] semOpt.program = "rw"       -> IF t % 2 = 0 THEN Reader ELSE Writer
      [] semOpt.program = "nostarve" -> IF t % 2 = 0 THEN FairReader ELSE FairWriter

InitialValues ==
    CASE semOpt.program = "rendezvous" -> [t1 |-> 0, t2 |-> 0]
      [] semOpt.program = "barrier"  -> [s |-> 0, m |-> 1]
      [] semOpt.program = "mutex"    -> [acquire |-> 1]
      [] semOpt.program = "rw"       -> [lock |-> 1, writelock |-> 1]
      [] semOpt.program = "nostarve" -> [lock |-> 1, writelock |-> 1, readlock |-> 1]

SemThreads == 0 .. semOpt.threads - 1

SemInit ==
    /\ semOpt \in SemOptions
    /\ sem = InitialValues
    /\ shared = IF semOpt.program = "barrier" THEN semOpt.threads ELSE 0
    /\ writes = 0
    /\ thread = [t \in SemThreads |-> [pc |-> 1, rounds |-> semOpt.rounds, local |-> 0]]

-----------------------------------------------------------------------------
Finished(t) == thread[t].rounds = 0
At(t) == Role(t)[thread[t].pc]

\* thread t goes on at pc, or with its next round behind the end of its role
Goes(t, pc, local) ==
    thread' = [thread EXCEPT ![t] =
        IF pc <= Len(Role(t)) THEN [pc |-> pc, rounds |-> @.rounds, local |-> local]
        ELSE [pc |-> 1, rounds |-> @.rounds - 1, local |-> local]]
GoesOn(t) == Goes(t, thread[t].pc + 1, thread[t].local)

\* sem_wait blocks until the value is positive
SemWait(t) ==
    /\ At(t).op = "wait" /\ sem[At(t).arg] > 0
    /\ sem' = [sem EXCEPT ![At(t).arg] = @ - 1]
    /\ GoesOn(t) /\ UNCHANGED <<semOpt, shared, writes>>

SemPost(t) ==
    /\ At(t).op = "post"
    /\ sem' = [sem EXCEPT ![At(t).arg] = @ + 1]
    /\ GoesOn(t) /\ UNCHANGED <<semOpt, shared, writes>>

AddShared(t) ==
    /\ At(t).op = "add"
    /\ shared' = shared + At(t).arg
    /\ GoesOn(t) /\ UNCHANGED <<semOpt, sem, writes>>

TestShared(t) ==
    /\ At(t).op = "unless0"
    /\ Goes(t, thread[t].pc + (IF shared = 0 THEN 1 ELSE 1 + At(t).arg), thread[t].local)
    /\ UNCHANGED <<semOpt, sem, shared, writes>>

LoadShared(t) ==
    /\ At(t).op = "load"
    /\ Goes(t, thread[t].pc + 1, writes)
    /\ UNCHANGED <<semOpt, sem, shared, writes>>

StoreShared(t) ==
    /\ At(t).op = "store"
    /\ writes' = thread[t].local + 1
    /\ GoesOn(t) /\ UNCHANGED <<semOpt, sem, shared>>

Exits(t) ==
    /\ At(t).op = "exit"
    /\ Goes(t, Len(Role(t)) + 1, thread[t].local)
    /\ UNCHANGED <<semOpt, sem, shared, writes>>

SemStep(t) ==
    /\ ~Finished(t)
    /\ \/ SemWait(t) \/ SemPost(t) \/ AddShared(t) \/ TestShared(t)
       \/ LoadShared(t) \/ StoreShared(t) \/ Exits(t)

SemNext == \E t \in SemThreads : SemStep(t)

SemDone == \A t \in SemThreads : Finished(t)

-----------------------------------------------------------------------------
Past(t, pc) == Finished(t) \/ thread[t].pc > pc

(* Nobody leaves early: the man and the woman leave when both have come,   *)
(* and no thread passes the barrier before all threads have reached it,    *)
(* although n is read outside its semaphore.                               *)
LeaveTogether ==
    /\ semOpt.program = "rendezvous" =>
          (Past(0, 1) => Past(1, 1)) /\ (Past(1, 2) => Past(0, 2))
    /\ semOpt.program = "barrier" =>
          \A t, u \in SemThreads : Past(t, 7) => Past(u, 2)

(* Writers exclude each other and no write is lost, neither of the mutex   *)
(* nor of the locks: with the second lock it is readlock that excludes     *)
(* them, as each last reader posts a writelock that no reader has taken.   *)
Storing(t) == ~Finished(t) /\ At(t) = StoreWrites
NoWriteLost ==
    /\ \A t, u \in SemThreads : t # u => ~(Storing(t) /\ Storing(u))
    /\ SemDone => writes = semOpt.rounds * Cardinality(
                              {t \in SemThreads : StoreWrites \in Range(Role(t))})
=============================================================================
