----------------------------- MODULE LossyFifo -----------------------------
(***************************************************************************)
(* What an encrypted connection promises the application: for each ordered *)
(* pair of endpoints a FIFO channel that may lose a payload, and never     *)
(* reorders, duplicates or invents one.                                    *)
(***************************************************************************)
EXTENDS Sequences

CONSTANTS Endpoints, Payloads

VARIABLES chan,       \* payloads on their way, per <<sender, receiver>>
          delivered   \* payloads handed to the application, per <<sender, receiver>>

Pairs == Endpoints \X Endpoints

Init == /\ chan = [p \in Pairs |-> << >>]
        /\ delivered = [p \in Pairs |-> << >>]

Send(p) == \E x \in Payloads :
  /\ chan' = [chan EXCEPT ![p] = Append(@, x)]
  /\ UNCHANGED delivered

Deliver(p) ==
  /\ chan[p] # << >>
  /\ chan' = [chan EXCEPT ![p] = Tail(@)]
  /\ delivered' = [delivered EXCEPT ![p] = Append(@, Head(chan[p]))]

Lose(p) ==
  /\ chan[p] # << >>
  /\ chan' = [chan EXCEPT ![p] = Tail(@)]
  /\ UNCHANGED delivered

Next == \E p \in Pairs : Send(p) \/ Deliver(p) \/ Lose(p)

Spec == Init /\ [][Next]_<<chan, delivered>>
=============================================================================
