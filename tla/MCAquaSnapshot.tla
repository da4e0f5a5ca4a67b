--------------------------- MODULE MCAquaSnapshot ---------------------------
(***************************************************************************)
(* The two algorithms that run on top of Aqualife's ring, for TLC: the     *)
(* global snapshot and the location of fish.  They share no state: a       *)
(* behaviour is one of them, the other has not been started.               *)
(***************************************************************************)
EXTENDS AquaSnapshot, AquaLocation

CONSTANT Algorithms
VARIABLE algorithm

aquaVars == <<vars, locVars, algorithm>>

\* nobody starts a snapshot and no fish moves; no tank registers
SnapshotOff == Init /\ fishies = [t \in Tanks |-> IF t = 0 THEN Fish ELSE {}]

AquaInit ==
    /\ algorithm \in Algorithms
    /\ IF algorithm = "snapshot" THEN Init ELSE SnapshotOff
    /\ LocInit

AquaNext ==
    \/ algorithm = "snapshot" /\ Next /\ UNCHANGED <<locVars, algorithm>>
    \/ algorithm = "location" /\ LocNext /\ UNCHANGED <<vars, algorithm>>

\* the threads of the tanks go on (AquaSnapshot); fish need not move
AquaSpec == AquaInit /\ [][AquaNext]_aquaVars /\ Fairness
-----------------------------------------------------------------------------
(* The snapshot has its types, and what it shows holds what the right      *)
(* neighbour has recorded.                                                 *)
SnapshotRight == TypeOK /\ ResultHasNeighbour
=============================================================================
