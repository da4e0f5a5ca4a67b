----------------------------- MODULE TwoLockQueue -----------------------------
(***************************************************************************)
(* The queue with a lock for each end of BSYS (29_Sloppy/mcqueue.c): a     *)
(* linked list behind a node without value.  The threads of main enqueue   *)
(* increasing integers, main dequeues.  An enqueue and a dequeue may run   *)
(* at the same time: in an empty queue they share a node.  A node that was *)
(* freed may be returned by the next malloc.                               *)
(***************************************************************************)
EXTENDS Integers, Sequences, FiniteSets

CONSTANTS
    Enqueuers, Dequeuers,
    Nodes,          \* addresses malloc may return
    NULL,
    StartValues,    \* what the uninitialized i of Thread_Queue may be
    MaxEnqueues     \* enqueues of each thread

ASSUME QueueAssumption ==
    /\ Cardinality(Nodes) >= 2 /\ NULL \notin Nodes
    /\ StartValues \subseteq Int /\ MaxEnqueues \in Nat

VARIABLES
    heap,           \* allocated node -> [value, next]
    head, tail,
    enqueuer,       \* thread -> [pc, tmp, i, count]
    dequeuer,       \* thread -> [pc, tmp, new_head]
    result          \* dequeuer -> value of its last dequeue, <<>> if it was -1

queueVars == <<heap, head, tail, enqueuer, dequeuer, result>>

\* Queue_Init: head and tail are the same node; its value is never read
QueueInit ==
    /\ \E n \in Nodes : /\ head = n /\ tail = n
                        /\ heap = [x \in {n} |-> [value |-> 0, next |-> NULL]]
    /\ enqueuer \in [Enqueuers -> {[pc |-> "malloc", tmp |-> NULL, i |-> v, count |-> 0] :
                                       v \in StartValues}]
    /\ dequeuer = [d \in Dequeuers |-> [pc |-> "lock", tmp |-> NULL, new_head |-> NULL]]
    /\ result = [d \in Dequeuers |-> <<>>]

Allocated == DOMAIN heap

-----------------------------------------------------------------------------
EnqGoes(t, pc) == enqueuer' = [enqueuer EXCEPT ![t].pc = pc]

\* Queue_Enqueue: the new node, which no other thread knows yet
Malloc1(t) ==
    /\ enqueuer[t].pc = "malloc" /\ enqueuer[t].count < MaxEnqueues
    /\ \E n \in Nodes \ Allocated :
          /\ heap' = [x \in Allocated \cup {n} |->
                        IF x = n THEN [value |-> enqueuer[t].i, next |-> NULL] ELSE heap[x]]
          /\ enqueuer' = [enqueuer EXCEPT ![t].tmp = n, ![t].pc = "link"]
    /\ UNCHANGED <<head, tail, dequeuer, result>>

\* takes tail_lock, which is held until the tail is set
Link(t) ==
    /\ enqueuer[t].pc = "link" /\ \A u \in Enqueuers : enqueuer[u].pc # "tail"
    /\ heap' = [heap EXCEPT ![tail].next = enqueuer[t].tmp]
    /\ EnqGoes(t, "tail")
    /\ UNCHANGED <<head, tail, dequeuer, result>>

SetTail(t) ==
    /\ enqueuer[t].pc = "tail"
    /\ tail' = enqueuer[t].tmp
    /\ enqueuer' = [enqueuer EXCEPT ![t] = [pc |-> "malloc", tmp |-> NULL,
                                          i |-> @.i + 1, count |-> @.count + 1]]
    /\ UNCHANGED <<heap, head, dequeuer, result>>

-----------------------------------------------------------------------------
\* Queue_Dequeue takes head_lock, which is held until the head is set
TakeHead(d) ==
    /\ dequeuer[d].pc = "lock"
    /\ \A e \in Dequeuers : dequeuer[e].pc \notin {"next", "take"}
    /\ dequeuer' = [dequeuer EXCEPT ![d].tmp = head, ![d].pc = "next"]
    /\ UNCHANGED <<heap, head, tail, enqueuer, result>>

\* the new head, read while an enqueue may write it
ReadNext(d) ==
    /\ dequeuer[d].pc = "next"
    /\ LET next == heap[dequeuer[d].tmp].next IN
       IF next = NULL
       THEN /\ dequeuer' = [dequeuer EXCEPT ![d].tmp = NULL, ![d].pc = "lock"]
            /\ result' = [result EXCEPT ![d] = <<>>]
       ELSE /\ dequeuer' = [dequeuer EXCEPT ![d].new_head = next, ![d].pc = "take"]
            /\ UNCHANGED result
    /\ UNCHANGED <<heap, head, tail, enqueuer>>

SetHead(d) ==
    /\ dequeuer[d].pc = "take"
    /\ result' = [result EXCEPT ![d] = <<heap[dequeuer[d].new_head].value>>]
    /\ head' = dequeuer[d].new_head
    /\ dequeuer' = [dequeuer EXCEPT ![d].pc = "free"]
    /\ UNCHANGED <<heap, tail, enqueuer>>

\* the old node is freed behind the unlock; tail may still point to it
Free1(d) ==
    /\ dequeuer[d].pc = "free"
    /\ heap' = [n \in Allocated \ {dequeuer[d].tmp} |-> heap[n]]
    /\ dequeuer' = [dequeuer EXCEPT ![d] = [pc |-> "lock", tmp |-> NULL, new_head |-> NULL]]
    /\ UNCHANGED <<head, tail, enqueuer, result>>

QueueNext ==
    \/ \E t \in Enqueuers : Malloc1(t) \/ Link(t) \/ SetTail(t)
    \/ \E d \in Dequeuers : TakeHead(d) \/ ReadNext(d) \/ SetHead(d) \/ Free1(d)

QueueSpec == QueueInit /\ [][QueueNext]_queueVars

-----------------------------------------------------------------------------
(* The nodes of the queue from head on, NULL behind the last, and their    *)
(* values but for the first.                                               *)
NodeAfter[k \in Nat] ==
    IF k = 0 THEN head
    ELSE IF NodeAfter[k - 1] \in Allocated THEN heap[NodeAfter[k - 1]].next ELSE NULL
Length == CHOOSE n \in 0 .. Cardinality(Allocated) :
              NodeAfter[n] \in Allocated /\ heap[NodeAfter[n]].next = NULL
Items == [k \in 1 .. Length |-> heap[NodeAfter[k]].value]

(* No thread uses a node that was freed, though tail may point to one: the *)
(* thread that has linked the node behind it sets tail before another uses *)
(* it.                                                                     *)
NoUseAfterFree ==
    /\ \A k \in 0 .. Length : NodeAfter[k] \in Allocated
    /\ (\A t \in Enqueuers : enqueuer[t].pc # "tail") => tail = NodeAfter[Length]
    /\ \A d \in Dequeuers :
          /\ dequeuer[d].tmp # NULL => dequeuer[d].tmp \in Allocated
          /\ dequeuer[d].pc = "take" => dequeuer[d].new_head \in Allocated

(* The two locks implement one queue: an enqueue takes effect when its     *)
(* node is linked, a dequeue when the head is set, or when no node is      *)
(* found behind it.                                                        *)
Enqueued == {v + k : v \in StartValues, k \in 0 .. MaxEnqueues}
Queue == INSTANCE FifoQueue WITH Values <- Enqueued, items <- Items
ImplementsQueue == Queue!Init /\ [][Queue!Next]_<<Items, result>>
=============================================================================
