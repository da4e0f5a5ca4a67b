------------------------------ MODULE FifoQueue ------------------------------
(***************************************************************************)
(* What a concurrent queue promises: each enqueued value is dequeued once, *)
(* in order, and a dequeue fails only when the queue is empty.             *)
(***************************************************************************)
EXTENDS Sequences

CONSTANTS Values, Dequeuers

VARIABLES items,     \* the values in the queue
          result     \* dequeuer -> what its last dequeue has returned: <<>> if
                     \* the queue was empty

Init == /\ items = <<>>
        /\ result = [d \in Dequeuers |-> <<>>]

Enqueue == /\ \E v \in Values : items' = Append(items, v)
           /\ UNCHANGED result

Dequeue(d) == /\ items # <<>>
              /\ items' = Tail(items)
              /\ result' = [result EXCEPT ![d] = <<Head(items)>>]

DequeueEmpty(d) == /\ items = <<>>
                   /\ result' = [result EXCEPT ![d] = <<>>]
                   /\ UNCHANGED items

Next == Enqueue \/ \E d \in Dequeuers : Dequeue(d) \/ DequeueEmpty(d)

Spec == Init /\ [][Next]_<<items, result>>
=============================================================================
