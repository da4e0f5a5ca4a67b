---------------------------- MODULE SloppyCounter ----------------------------
(***************************************************************************)
(* The approximate counter of BSYS (29_Sloppy/sloppy_counter.c): each CPU  *)
(* counts in a local counter, which is added to the global one when it     *)
(* reaches the threshold; main reads the global one.                       *)
(***************************************************************************)
EXTENDS Integers, FiniteSets, FiniteSetsExt

CONSTANTS
    CounterOptions,   \* [threads, counters, cpus, amt, threshold]: the counter of thread
                      \* k is k % counters
    MaxUpdates        \* calls of update by each thread

ASSUME SloppyAssumption ==
    /\ CounterOptions \subseteq [threads: Nat \ {0}, counters: Nat \ {0}, cpus: Nat \ {0},
                                 amt: Nat, threshold: Nat \ {0}]
    /\ MaxUpdates \in Nat

VARIABLES
    countOpt,
    global,        \* counter -> global
    local,         \* counter -> CPU -> local[cpu]
    updater,       \* thread -> [pc, val, count]
    added,         \* history: counter -> amounts of the updates
    got            \* counter -> what get has returned last

countVars == <<countOpt, global, local, updater, added, got>>

Updaters == 0 .. countOpt.threads - 1
Counters == 0 .. countOpt.counters - 1
CpusOf == 0 .. countOpt.cpus - 1
CounterOf(t) == t % countOpt.counters
CpuOf(t) == t % countOpt.cpus

CountInit ==
    /\ countOpt \in CounterOptions
    /\ global = [c \in Counters |-> 0] /\ added = [c \in Counters |-> 0]
    /\ local = [c \in Counters |-> [p \in CpusOf |-> 0]]
    /\ updater = [t \in Updaters |-> [pc |-> "llock", val |-> 0, count |-> 0]]
    /\ got = [c \in Counters |-> 0]

-----------------------------------------------------------------------------
\* the mutexes: llock[cpu] is held from AddLocal to Unlock, glock from
\* LoadGlobal to StoreGlobal
HoldsLocal(t, u) == /\ CounterOf(t) = CounterOf(u) /\ CpuOf(t) = CpuOf(u)
                    /\ updater[u].pc # "llock"
HoldsGlobal(c, u) == CounterOf(u) = c /\ updater[u].pc = "store"

AddLocal(t) ==
    /\ updater[t].pc = "llock" /\ updater[t].count < MaxUpdates
    /\ \A u \in Updaters : ~HoldsLocal(t, u)
    /\ local' = [local EXCEPT ![CounterOf(t)][CpuOf(t)] = @ + countOpt.amt]
    /\ added' = [added EXCEPT ![CounterOf(t)] = @ + countOpt.amt]
    /\ updater' = [updater EXCEPT ![t].pc =
          IF local'[CounterOf(t)][CpuOf(t)] >= countOpt.threshold THEN "glock" ELSE "unlock"]
    /\ UNCHANGED <<countOpt, global, got>>

LoadGlobal(t) ==
    /\ updater[t].pc = "glock" /\ \A u \in Updaters : ~HoldsGlobal(CounterOf(t), u)
    /\ updater' = [updater EXCEPT ![t].pc = "store",
                                  ![t].val = global[CounterOf(t)] + local[CounterOf(t)][CpuOf(t)]]
    /\ UNCHANGED <<countOpt, global, local, added, got>>

StoreGlobal(t) ==
    /\ updater[t].pc = "store"
    /\ global' = [global EXCEPT ![CounterOf(t)] = updater[t].val]
    /\ updater' = [updater EXCEPT ![t].pc = "reset"]
    /\ UNCHANGED <<countOpt, local, added, got>>

\* behind the unlock of glock: for a moment the amount is counted twice
ResetLocal(t) ==
    /\ updater[t].pc = "reset"
    /\ local' = [local EXCEPT ![CounterOf(t)][CpuOf(t)] = 0]
    /\ updater' = [updater EXCEPT ![t].pc = "unlock"]
    /\ UNCHANGED <<countOpt, global, added, got>>

UnlockLocal(t) ==
    /\ updater[t].pc = "unlock"
    /\ updater' = [updater EXCEPT ![t] = [pc |-> "llock", val |-> 0, count |-> @.count + 1]]
    /\ UNCHANGED <<countOpt, global, local, added, got>>

Get(c) ==
    /\ \A u \in Updaters : ~HoldsGlobal(c, u)
    /\ got' = [got EXCEPT ![c] = global[c]]
    /\ UNCHANGED <<countOpt, global, local, updater, added>>

CountNext ==
    \/ \E t \in Updaters : \/ AddLocal(t) \/ LoadGlobal(t) \/ StoreGlobal(t)
                           \/ ResetLocal(t) \/ UnlockLocal(t)
    \/ \E c \in Counters : Get(c)

-----------------------------------------------------------------------------
(* What get returns never exceeds the sum of the updates, and the global   *)
(* counter lags behind it by less than one threshold per CPU as long as no *)
(* update is under way; nothing is lost or counted twice.                  *)
LagsBoundedly ==
    \A c \in Counters :
        /\ got[c] <= added[c]
        /\ (\A t \in Updaters : CounterOf(t) = c => updater[t].pc = "llock") =>
              LET kept == MapThenSumSet(LAMBDA p : local[c][p], CpusOf)
              IN  /\ added[c] = global[c] + kept
                  /\ kept <= countOpt.cpus * (countOpt.threshold - 1)
=============================================================================
