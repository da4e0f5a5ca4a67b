---------------------------- MODULE AquaLocation ----------------------------
(***************************************************************************)
(* Locating fish in VerSy's Aqualife (blatt7), by way of their home: a     *)
(* fish carries the id of the tank that created it.  A tank that receives  *)
(* a fish asks the broker for the address of the fish's home and sends a   *)
(* LocationUpdate there; the home asks the sender of the last update.      *)
(*                                                                         *)
(* Requests to the broker are tasks of its pool and are handled in any     *)
(* order; the messages of different senders overtake each other.  The ring *)
(* is left open: a fish may be handed to any tank that has registered      *)
(* (AquaRing).  The names of fish are distinct.                            *)
(***************************************************************************)
EXTENDS Integers, Sequences, FiniteSets, SequencesExt

CONSTANTS
    AquaTanks,     \* addresses of the tanks
    Swimmers,      \* fish that may be created
    Null,
    NamedNull,     \* the id "null" in the name of a fish
    MayLeave,      \* tanks whose window may be closed
    MaxHops        \* bound: how often a fish is handed over

ASSUME LocationAssumption ==
    /\ {Null, NamedNull} \intersect (AquaTanks \union Nat) = {} /\ Null # NamedNull
    /\ MayLeave \subseteq AquaTanks /\ MaxHops \in Nat

VARIABLES
    clientCollection,  \* broker: sequence of [id, addr]
    nameService,       \* broker: id -> address
    running,           \* tanks that were started and not left
    receiver,          \* tanks whose receiver no exception has ended
    tankId,            \* TankModel.id
    fishieAddress,     \* TankModel.fishieAddress, Null also for a missing key
    swims,             \* fish -> the tank it swims in, Null on its way
    bornIn,            \* fish -> the tank id in its name; Null before it is created,
                       \* NamedNull if that tank had no id yet
    sent,              \* messages in transit
    hops,              \* fish -> how often it was handed over
    newest,            \* history: fish -> hop of the newest update its home has read
    overtaken,         \* history: fish whose home has read an older update last
    departed           \* history: tanks that have left

locVars == <<clientCollection, nameService, running, receiver, tankId, fishieAddress,
             swims, bornIn, sent, hops, newest, overtaken, departed>>
brokerVars == <<clientCollection, nameService>>
tankVars == <<running, receiver, tankId, fishieAddress, departed>>
fishVars == <<swims, bornIn, hops>>
updates == <<newest, overtaken>>

Response(t, i) == [type |-> "response", to |-> t, id |-> i]
Deregistration(i) == [type |-> "deregister", id |-> i]
HandedTo(t, f) == [type |-> "handoff", to |-> t, fish |-> f]
\* h tells the hops of a fish apart
Resolve(t, i, f, h) == [type |-> "resolve", from |-> t, id |-> i, fish |-> f, hop |-> h]
Resolved(t, a, f, h) == [type |-> "resolved", to |-> t, addr |-> a, fish |-> f, hop |-> h]
LocationUpdate(t, a, f, h) == [type |-> "update", from |-> t, to |-> a, fish |-> f, hop |-> h]

LocInit ==
    /\ clientCollection = <<>> /\ nameService = <<>>
    /\ running = {} /\ departed = {} /\ receiver = AquaTanks
    /\ tankId = [t \in AquaTanks |-> Null]
    /\ fishieAddress = [t \in AquaTanks |-> [f \in Swimmers |-> Null]]
    /\ swims = [f \in Swimmers |-> Null] /\ bornIn = [f \in Swimmers |-> Null]
    /\ sent = {}
    /\ hops = [f \in Swimmers |-> 0] /\ newest = [f \in Swimmers |-> 0]
    /\ overtaken = {}

\* message m is taken and msgs are sent
Reply(m, msgs) == m \in sent /\ sent' = (sent \ {m}) \union msgs
Receiving(t) == t \in running \intersect receiver

-----------------------------------------------------------------------------
(* Broker                                                                  *)

InCollection(t) == \E k \in DOMAIN clientCollection : clientCollection[k].addr = t
IndexOf(i) == SelectInSeq(clientCollection, LAMBDA c : c.id = i)

\* the first registration, or a lease renewal of a tank that is no longer listed;
\* any other renewal changes nothing
RegisterTank(t) ==
    /\ t \notin departed /\ ~InCollection(t)
    /\ \A m \in sent : m.type = "response" => m.to # t
    /\ LET i == Len(clientCollection) IN
       /\ clientCollection' = Append(clientCollection, [id |-> i, addr |-> t])
       /\ nameService' = [j \in DOMAIN nameService \union {i} |->
                              IF j = i THEN t ELSE nameService[j]]
       /\ sent' = sent \union {Response(t, i)}
    /\ running' = running \union {t}
    /\ UNCHANGED <<receiver, tankId, fishieAddress, departed, fishVars, updates>>

DeregisterTank(m) ==
    /\ m.type = "deregister" /\ Reply(m, {})
    /\ IF IndexOf(m.id) = 0
       THEN UNCHANGED brokerVars           \* the lookup of the neighbour throws
       ELSE /\ clientCollection' = RemoveAt(clientCollection, IndexOf(m.id))
            /\ nameService' = [j \in DOMAIN nameService \ {m.id} |-> nameService[j]]
    /\ UNCHANGED <<tankVars, fishVars, updates>>

ResoluteName(m) ==
    /\ m.type = "resolve"
    /\ Reply(m, {Resolved(m.from,
                          IF m.id \in DOMAIN nameService THEN nameService[m.id] ELSE Null,
                          m.fish, m.hop)})
    /\ UNCHANGED <<brokerVars, tankVars, fishVars, updates>>

-----------------------------------------------------------------------------
(* Tank                                                                    *)

OnRegistered(m) ==
    /\ m.type = "response" /\ Receiving(m.to) /\ Reply(m, {})
    /\ tankId' = [tankId EXCEPT ![m.to] = m.id]
    /\ UNCHANGED <<brokerVars, running, receiver, fishieAddress, departed, fishVars, updates>>

\* finish, then System.exit: its fish are gone
Leave(t) ==
    /\ t \in running \intersect MayLeave
    /\ running' = running \ {t} /\ departed' = departed \union {t}
    /\ sent' = sent \union {Deregistration(tankId[t])}
    /\ swims' = [f \in Swimmers |-> IF swims[f] = t THEN Null ELSE swims[f]]
    /\ UNCHANGED <<brokerVars, receiver, tankId, fishieAddress, bornIn, hops, updates>>

CreateFish(t, f) ==
    /\ t \in running /\ bornIn[f] = Null
    /\ bornIn' = [bornIn EXCEPT ![f] = IF tankId[t] = Null THEN NamedNull ELSE tankId[t]]
    /\ swims' = [swims EXCEPT ![f] = t]
    /\ fishieAddress' = [fishieAddress EXCEPT ![t][f] = Null]
    /\ UNCHANGED <<brokerVars, running, receiver, tankId, departed, sent, hops, updates>>

PassFish(t, f, u) ==
    /\ t \in running /\ swims[f] = t /\ hops[f] < MaxHops
    /\ u \in running \union departed
    /\ swims' = [swims EXCEPT ![f] = Null]
    /\ hops' = [hops EXCEPT ![f] = @ + 1]
    /\ sent' = sent \union {HandedTo(u, f)}
    /\ UNCHANGED <<brokerVars, tankVars, bornIn, updates>>

\* NamedNull is nobody's id
TakeFish(m) ==
    /\ m.type = "handoff" /\ Receiving(m.to)
    /\ swims' = [swims EXCEPT ![m.fish] = m.to]
    /\ IF bornIn[m.fish] = tankId[m.to]
       THEN /\ fishieAddress' = [fishieAddress EXCEPT ![m.to][m.fish] = Null]
            /\ Reply(m, {})
       ELSE /\ Reply(m, {Resolve(m.to, bornIn[m.fish], m.fish, hops[m.fish])})
            /\ UNCHANGED fishieAddress
    /\ UNCHANGED <<brokerVars, running, receiver, tankId, departed, bornIn, hops, updates>>

ReceiveNameResolution(m) ==
    /\ m.type = "resolved" /\ Receiving(m.to) /\ m.addr # Null
    /\ Reply(m, {LocationUpdate(m.to, m.addr, m.fish, m.hop)})
    /\ UNCHANGED <<brokerVars, tankVars, fishVars, updates>>

\* sending to null throws and ends the receiver
NameResolutionFails(m) ==
    /\ m.type = "resolved" /\ Receiving(m.to) /\ m.addr = Null
    /\ Reply(m, {}) /\ receiver' = receiver \ {m.to}
    /\ UNCHANGED <<brokerVars, running, tankId, fishieAddress, departed, fishVars, updates>>

\* mutant: putIfAbsent instead of put
UpdateFirstLocation(m) ==
    /\ m.type = "update" /\ Receiving(m.to) /\ Reply(m, {})
    /\ fishieAddress' = [fishieAddress EXCEPT ![m.to][m.fish] = IF @ = Null THEN m.from ELSE @]
    /\ newest' = [newest EXCEPT ![m.fish] = IF m.hop > @ THEN m.hop ELSE @]
    /\ overtaken' = IF m.hop < newest[m.fish] THEN overtaken \union {m.fish}
                    ELSE overtaken \ {m.fish}
    /\ UNCHANGED <<brokerVars, running, receiver, tankId, departed, fishVars>>

UpdateFishieLocation(m) ==
    /\ m.type = "update" /\ Receiving(m.to) /\ Reply(m, {})
    /\ fishieAddress' = [fishieAddress EXCEPT ![m.to][m.fish] = m.from]
    /\ newest' = [newest EXCEPT ![m.fish] = IF m.hop > @ THEN m.hop ELSE @]
    /\ overtaken' = IF m.hop < newest[m.fish] THEN overtaken \union {m.fish}
                    ELSE overtaken \ {m.fish}
    /\ UNCHANGED <<brokerVars, running, receiver, tankId, departed, fishVars>>

Handled(m) ==
    \/ DeregisterTank(m) \/ ResoluteName(m) \/ OnRegistered(m) \/ TakeFish(m)
    \/ ReceiveNameResolution(m) \/ NameResolutionFails(m) \/ UpdateFishieLocation(m)

LocNext ==
    \/ \E t \in AquaTanks : RegisterTank(t) \/ Leave(t)
    \/ \E t \in AquaTanks, f \in Swimmers :
          CreateFish(t, f) \/ \E u \in AquaTanks : PassFish(t, f, u)
    \/ \E m \in sent : Handled(m)

LocSpec == LocInit /\ [][LocNext]_locVars

-----------------------------------------------------------------------------
Quiet(f) == \A m \in sent : m.type \in {"resolve", "resolved", "update"} => m.fish # f
HomeOf(f) == CHOOSE t \in AquaTanks : tankId[t] = bornIn[f]

(* The home of a fish knows where it swims once its updates are read: as   *)
(* long as no tank has left, and unless the updates of two hops came in    *)
(* the wrong order, which nothing in the messages prevents.                *)
HomeKnows ==
    departed = {} =>
        \A f \in Swimmers :
            swims[f] # Null /\ bornIn[f] # NamedNull /\ Quiet(f) /\ f \notin overtaken =>
                \/ swims[f] = HomeOf(f)
                \/ fishieAddress[HomeOf(f)][f] = swims[f]

(* A receiver goes on as long as no tank has left and every fish was       *)
(* created by a tank that had its id: else the home of a fish may be       *)
(* unknown to the broker.                                                  *)
ReceiverLives ==
    departed = {} /\ (\A f \in Swimmers : bornIn[f] # NamedNull) => receiver = AquaTanks

(* The home of a fish knows where it swims, and asking for a home ends no  *)
(* receiver, under the conditions above.                                   *)
LocationRight == HomeKnows /\ ReceiverLives
=============================================================================
