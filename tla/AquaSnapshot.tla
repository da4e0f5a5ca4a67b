---------------------------- MODULE AquaSnapshot ----------------------------
(***************************************************************************)
(* The global snapshot of VerSy's Aqualife (blatt7, TankModel) in a ring   *)
(* that no longer changes: markers start and stop the recording, a         *)
(* CollectToken gathers the result on its way to the left.                 *)
(*                                                                         *)
(* Three threads of a tank take part: the window ("gui"), which initiates  *)
(* a snapshot, the receiver and the update loop.  Only receiveFish and     *)
(* the update loop take the monitor of the tank.  When a tank holds a      *)
(* token is left open: a fish may be handed over at any time.              *)
(***************************************************************************)
EXTENDS Naturals, Sequences, FiniteSets

CONSTANTS N,              \* tanks in the ring
          Fish,
          MaxInitiations  \* bound: snapshots started by users

ASSUME SnapshotAssumption == N \in Nat \ {0} /\ MaxInitiations \in Nat

Tanks == 0 .. N - 1
leftNeighbour(t) == (t + N - 1) % N
rightNeighbour(t) == (t + 1) % N
Dirs == {"LEFT", "RIGHT"}
Starters == {"gui", "receiver"}

VARIABLES
  fishies,        \* fish that swim in the tank
  leaving,        \* fish that were handed over and have not disappeared yet
  net,            \* messages in transit, per <<sender, receiver>>
  recordState,
  isInitiator,
  finishedRecording,
  finishedGlobalState,
  localState,
  leftState,
  rightState,
  globalState,    \* contents of the CollectToken, {} while null
  starting,       \* step of initiateSnapshot, per tank and calling thread
  markerFrom,     \* the neighbour argument of the receiver's initiateSnapshot
  passing,        \* the update loop is inside passOnGs
  initiations     \* snapshots started by users so far

recording == <<recordState, isInitiator, finishedRecording, finishedGlobalState>>
states == <<localState, leftState, rightState, globalState>>
calls == <<starting, markerFrom, passing, initiations>>
vars == <<fishies, leaving, net, recording, states, calls>>

Marker == [type |-> "marker"]
Collect(g) == [type |-> "collect", fish |-> g]
Handoff(f, d) == [type |-> "handoff", fish |-> f, dir |-> d]

\* A recorded fish: the tank that recorded it belongs to the object.
Entries == [fish : Fish, tank : Tanks]
Entry(S, t) == {[fish |-> f, tank |-> t] : f \in S}
Messages == [type : {"marker"}] \cup [type : {"collect"}, fish : SUBSET Entries]
              \cup [type : {"handoff"}, fish : Fish, dir : Dirs]

(* Every variable has the type of the field or thread state it stands for. *)
TypeOK ==
  /\ fishies \in [Tanks -> SUBSET Fish]
  /\ leaving \in [Tanks -> SUBSET Fish]
  /\ net \in [Tanks \X Tanks -> Seq(Messages)]
  /\ recordState \in [Tanks -> {"IDLE", "LEFT", "RIGHT", "BOTH"}]
  /\ isInitiator \in [Tanks -> BOOLEAN]
  /\ finishedRecording \in [Tanks -> BOOLEAN]
  /\ finishedGlobalState \in [Tanks -> BOOLEAN]
  /\ localState \in [Tanks -> SUBSET Fish]
  /\ leftState \in [Tanks -> SUBSET Fish]
  /\ rightState \in [Tanks -> SUBSET Fish]
  /\ globalState \in [Tanks -> SUBSET Entries]
  /\ starting \in [Tanks -> [Starters -> {"no", "record", "left", "right"}]]
  /\ markerFrom \in [Tanks -> Tanks]
  /\ passing \in [Tanks -> BOOLEAN]
  /\ initiations \in 0 .. MaxInitiations

Init ==
  /\ fishies \in [Tanks -> SUBSET Fish]
  /\ \A f \in Fish : Cardinality({t \in Tanks : f \in fishies[t]}) = 1
  /\ leaving = [t \in Tanks |-> {}]
  /\ net = [p \in Tanks \X Tanks |-> << >>]
  /\ recordState = [t \in Tanks |-> "IDLE"]
  /\ isInitiator = [t \in Tanks |-> FALSE]
  /\ finishedRecording = [t \in Tanks |-> FALSE]
  /\ finishedGlobalState = [t \in Tanks |-> FALSE]
  /\ localState = [t \in Tanks |-> {}]
  /\ leftState = [t \in Tanks |-> {}]
  /\ rightState = [t \in Tanks |-> {}]
  /\ globalState = [t \in Tanks |-> {}]
  /\ starting = [t \in Tanks |-> [c \in Starters |-> "no"]]
  /\ markerFrom = [t \in Tanks |-> 0]
  /\ passing = [t \in Tanks |-> FALSE]
  /\ initiations = 0

SendTo(s, r, msg) == net' = [net EXCEPT ![<<s, r>>] = Append(@, msg)]

-----------------------------------------------------------------------------
(* Fish                                                                      *)

HandOff(t, f, d) ==
  /\ f \in fishies[t] /\ ~passing[t]
  /\ SendTo(t, IF d = "RIGHT" THEN rightNeighbour(t) ELSE leftNeighbour(t), Handoff(f, d))
  /\ fishies' = [fishies EXCEPT ![t] = @ \ {f}]
  /\ leaving' = [leaving EXCEPT ![t] = @ \cup {f}]
  /\ UNCHANGED <<recording, states, calls>>

Disappear(t, f) ==
  /\ f \in leaving[t] /\ ~passing[t]
  /\ leaving' = [leaving EXCEPT ![t] = @ \ {f}]
  /\ UNCHANGED <<fishies, net, recording, states, calls>>

-----------------------------------------------------------------------------
(* ClientReceiver.run: one message of s at a time                            *)

Receives(s, t, type) ==
  /\ starting[t]["receiver"] = "no"
  /\ net[<<s, t>>] # << >>
  /\ Head(net[<<s, t>>]).type = type

\* Reads of recordState and the sets they select, as receiveFish tests them.
Records(t, d) == recordState[t] \in {d, "BOTH"}

ReceiveFish(s, t) ==
  /\ Receives(s, t, "handoff") /\ ~passing[t]
  /\ LET m == Head(net[<<s, t>>]) IN
     /\ fishies' = [fishies EXCEPT ![t] = @ \cup {m.fish}]
     /\ rightState' = IF m.dir = "LEFT" /\ Records(t, "LEFT")
                      THEN [rightState EXCEPT ![t] = @ \cup {m.fish}] ELSE rightState
     /\ leftState' = IF m.dir = "RIGHT" /\ Records(t, "RIGHT")
                     THEN [leftState EXCEPT ![t] = @ \cup {m.fish}] ELSE leftState
  /\ net' = [net EXCEPT ![<<s, t>>] = Tail(@)]
  /\ UNCHANGED <<leaving, recording, localState, globalState, calls>>

\* receiveMarker while idle enters initiateSnapshot(false, neighbour).
MarkerStarts(s, t) ==
  /\ Receives(s, t, "marker")
  /\ recordState[t] = "IDLE"
  /\ net' = [net EXCEPT ![<<s, t>>] = Tail(@)]
  /\ finishedRecording' = [finishedRecording EXCEPT ![t] = FALSE]
  /\ finishedGlobalState' = [finishedGlobalState EXCEPT ![t] = FALSE]
  /\ localState' = [localState EXCEPT ![t] = fishies[t] \cup leaving[t]]
  /\ starting' = [starting EXCEPT ![t]["receiver"] = "record"]
  /\ markerFrom' = [markerFrom EXCEPT ![t] = s]
  /\ UNCHANGED <<fishies, leaving, recordState, isInitiator, leftState, rightState, globalState,
                 passing, initiations>>

\* sendGlobalState: what the CollectToken holds afterwards.
Collected(t) == globalState[t] \cup Entry(leftState[t] \cup localState[t] \cup rightState[t], t)

\* receiveMarker while recording: stopSnapshot, first marker of two.
MarkerStopsOne(s, t) ==
  /\ Receives(s, t, "marker")
  /\ recordState[t] = "BOTH"
  /\ recordState' = [recordState EXCEPT ![t] = IF s = leftNeighbour(t) THEN "RIGHT" ELSE "LEFT"]
  /\ net' = [net EXCEPT ![<<s, t>>] = Tail(@)]
  /\ UNCHANGED <<fishies, leaving, isInitiator, finishedRecording, finishedGlobalState, states, calls>>

\* stopSnapshot, last marker; only the initiator sends its state at once.
MarkerStopsLast(s, t) ==
  /\ Receives(s, t, "marker")
  /\ recordState[t] \in {"LEFT", "RIGHT"}
  /\ recordState' = [recordState EXCEPT ![t] = "IDLE"]
  /\ finishedRecording' = [finishedRecording EXCEPT ![t] = TRUE]
  /\ LET taken == [net EXCEPT ![<<s, t>>] = Tail(@)] IN
     IF isInitiator[t]
     THEN /\ globalState' = [globalState EXCEPT ![t] = Collected(t)]
          /\ net' = [taken EXCEPT ![<<t, leftNeighbour(t)>>] = Append(@, Collect(Collected(t)))]
     ELSE net' = taken /\ UNCHANGED globalState
  /\ UNCHANGED <<fishies, leaving, isInitiator, finishedGlobalState, localState, leftState,
                 rightState, calls>>

ReceiveGlobalState(s, t) ==
  /\ Receives(s, t, "collect")
  /\ net' = [net EXCEPT ![<<s, t>>] = Tail(@)]
  /\ globalState' = [globalState EXCEPT ![t] = Head(net[<<s, t>>]).fish]
  /\ LET done == isInitiator[t] /\ finishedRecording[t] IN
     /\ finishedGlobalState' = [finishedGlobalState EXCEPT ![t] = @ \/ done]
     /\ isInitiator' = [isInitiator EXCEPT ![t] = @ /\ ~done]
     /\ finishedRecording' = [finishedRecording EXCEPT ![t] = @ /\ ~done]
  /\ UNCHANGED <<fishies, leaving, recordState, localState, leftState, rightState, calls>>

-----------------------------------------------------------------------------
(* initiateSnapshot                                                          *)

\* The user's call: initiateSnapshot(true, null).
Initiate(t) ==
  /\ starting[t]["gui"] = "no"
  /\ initiations < MaxInitiations
  /\ initiations' = initiations + 1
  /\ isInitiator' = [isInitiator EXCEPT ![t] = TRUE]
  /\ globalState' = [globalState EXCEPT ![t] = {}]
  /\ finishedGlobalState' = [finishedGlobalState EXCEPT ![t] = FALSE]
  /\ localState' = [localState EXCEPT ![t] = fishies[t] \cup leaving[t]]
  /\ starting' = [starting EXCEPT ![t]["gui"] = "record"]
  /\ UNCHANGED <<fishies, leaving, net, recordState, finishedRecording, leftState, rightState,
                 markerFrom, passing>>

\* The right neighbour is compared by reference with a received address: never equal.
SameReference(a, b) == FALSE

\* Mutant: the receiver, too, starts recording on both sides.
StartRecordingBoth(t, caller) ==
  /\ starting[t][caller] = "record"
  /\ recordState' = [recordState EXCEPT ![t] = "BOTH"]
  /\ starting' = [starting EXCEPT ![t][caller] = "left"]
  /\ UNCHANGED <<fishies, leaving, net, isInitiator, finishedRecording, finishedGlobalState, states,
                 markerFrom, passing, initiations>>

StartRecording(t, caller) ==
  /\ starting[t][caller] = "record"
  /\ recordState' = [recordState EXCEPT ![t] =
       IF caller = "gui" THEN "BOTH"
       ELSE IF markerFrom[t] = leftNeighbour(t) THEN "RIGHT"
       ELSE IF SameReference(markerFrom[t], rightNeighbour(t)) THEN "LEFT" ELSE @]
  /\ starting' = [starting EXCEPT ![t][caller] = "left"]
  /\ UNCHANGED <<fishies, leaving, net, isInitiator, finishedRecording, finishedGlobalState, states,
                 markerFrom, passing, initiations>>

SendMarkerLeft(t, caller) ==
  /\ starting[t][caller] = "left"
  /\ SendTo(t, leftNeighbour(t), Marker)
  /\ starting' = [starting EXCEPT ![t][caller] = "right"]
  /\ UNCHANGED <<fishies, leaving, recording, states, markerFrom, passing, initiations>>

SendMarkerRight(t, caller) ==
  /\ starting[t][caller] = "right"
  /\ SendTo(t, rightNeighbour(t), Marker)
  /\ starting' = [starting EXCEPT ![t][caller] = "no"]
  /\ UNCHANGED <<fishies, leaving, recording, states, markerFrom, passing, initiations>>

-----------------------------------------------------------------------------
(* passOnGs in the update loop                                               *)

\* Mutant: the tank passes the token on without its own fish.
PassOnOnly(t) ==
  /\ ~passing[t]
  /\ finishedRecording[t] /\ ~isInitiator[t]
  /\ SendTo(t, leftNeighbour(t), Collect(globalState[t]))
  /\ passing' = [passing EXCEPT ![t] = TRUE]
  /\ UNCHANGED <<fishies, leaving, recording, states, starting, markerFrom, initiations>>

PassOnGs(t) ==
  /\ ~passing[t]
  /\ finishedRecording[t] /\ ~isInitiator[t]
  /\ globalState' = [globalState EXCEPT ![t] = Collected(t)]
  /\ SendTo(t, leftNeighbour(t), Collect(Collected(t)))
  /\ passing' = [passing EXCEPT ![t] = TRUE]
  /\ UNCHANGED <<fishies, leaving, recording, localState, leftState, rightState, starting, markerFrom,
                 initiations>>

PassedOn(t) ==
  /\ passing[t]
  /\ finishedRecording' = [finishedRecording EXCEPT ![t] = FALSE]
  /\ passing' = [passing EXCEPT ![t] = FALSE]
  /\ UNCHANGED <<fishies, leaving, net, recordState, isInitiator, finishedGlobalState, states, starting,
                 markerFrom, initiations>>

-----------------------------------------------------------------------------
ReceiveFrom(s, t) ==
  \/ ReceiveFish(s, t) \/ MarkerStarts(s, t) \/ MarkerStopsOne(s, t) \/ MarkerStopsLast(s, t)
  \/ ReceiveGlobalState(s, t)
Starting(t, caller) ==
  StartRecording(t, caller) \/ SendMarkerLeft(t, caller) \/ SendMarkerRight(t, caller)
UpdateStep(t) == PassOnGs(t) \/ PassedOn(t)

Next == \E t \in Tanks :
  \/ \E s \in Tanks : ReceiveFrom(s, t)
  \/ Initiate(t)
  \/ \E c \in Starters : Starting(t, c)
  \/ UpdateStep(t)
  \/ \E f \in Fish : Disappear(t, f) \/ \E d \in Dirs : HandOff(t, f, d)

\* The receiver, the update loop and a call of initiateSnapshot go on.
Fairness == \A t \in Tanks :
  /\ \A s \in Tanks : WF_vars(ReceiveFrom(s, t))
  /\ \A c \in Starters : WF_vars(Starting(t, c))
  /\ WF_vars(UpdateStep(t))
  /\ \A f \in Fish : WF_vars(Disappear(t, f))

Safe == Init /\ [][Next]_vars
Spec == Safe /\ Fairness

-----------------------------------------------------------------------------
(* Properties.                                                               *)

MarkersInTransit ==
  \E s, t \in Tanks : \E i \in 1 .. Len(net[<<s, t>>]) : net[<<s, t>>][i] = Marker

(* In a ring of two, one snapshot stops recording on both sides, whatever    *)
(* the order in which the window, the receivers and the update loops run.    *)
RecordingEnds ==
  <>[](~MarkersInTransit /\ \A t \in Tanks : recordState[t] = "IDLE")

(* The result that is shown holds at least what the right neighbour of the   *)
(* initiator has recorded: passOnGs and receiveGlobalState may overtake each *)
(* other, but a token never arrives without it.                              *)
ResultHasNeighbour ==
  \A t \in Tanks : finishedGlobalState[t] =>
    Entry(localState[rightNeighbour(t)], rightNeighbour(t)) \subseteq globalState[t]

(* Comment in initiateSnapshot: "when getting a message from right only      *)
(* record left".                                                             *)
RightMarkerRecordsLeft ==
  \A t \in Tanks :
    starting[t]["receiver"] = "left" /\ markerFrom[t] # leftNeighbour(t) => recordState[t] = "LEFT"

=============================================================================
