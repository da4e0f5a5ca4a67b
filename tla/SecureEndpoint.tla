--------------------------- MODULE SecureEndpoint ---------------------------
(***************************************************************************)
(* The key exchange of VerSy's SecureEndpoint (blatt7, mode ASYMMETRICAL). *)
(* Each endpoint has one receiving thread (handleMessage) and several      *)
(* sending threads (send); both use communicationPartners without a lock.  *)
(* The datagram Endpoint below it is external: a FIFO queue per ordered    *)
(* pair that may lose up to MaxLoss datagrams.                             *)
(***************************************************************************)
EXTENDS Naturals, Sequences, FiniteSets

CONSTANTS Endpoints, \* addresses
          Senders,   \* sending threads of each endpoint
          Payloads,  \* what the application sends
          MaxSends,  \* bound: payloads the endpoints send
          MaxLoss,   \* bound: datagrams the network loses
          Nobody     \* no endpoint

ASSUME SecureAssumption ==
  /\ MaxSends \in Nat
  /\ MaxLoss \in Nat
  /\ Nobody \notin Endpoints

VARIABLES
  known,     \* keys of communicationPartners, per endpoint
  net,       \* datagrams in transit, per <<sender, receiver>>
  sending,   \* what each sending thread is doing, per <<endpoint, thread>>
  replying,  \* the address the receiving thread is about to send its key to
  delivered, \* payloads returned by blockingReceive, per <<sender, receiver>>
  sends,     \* payloads sent so far
  lost       \* datagrams lost so far

vars == <<known, net, sending, replying, delivered, sends, lost>>

Pairs == Endpoints \X Endpoints
Threads == Endpoints \X Senders
KeyMsg == [kind |-> "key"]
Sealed(x) == [kind |-> "sealed", payload |-> x]
Datagrams == {KeyMsg} \cup {Sealed(x) : x \in Payloads}
Idle == [stage |-> "idle"]
Busy == [stage : {"key", "sealed"}, to : Endpoints, payload : Payloads]

(* Every variable has the type of the field or thread state it stands for. *)
TypeOK ==
  /\ known \in [Endpoints -> SUBSET Endpoints]
  /\ net \in [Pairs -> Seq(Datagrams)]
  /\ sending \in [Threads -> Busy \cup {Idle}]
  /\ replying \in [Endpoints -> Endpoints \cup {Nobody}]
  /\ delivered \in [Pairs -> Seq(Payloads)]
  /\ sends \in Nat
  /\ lost \in Nat

Init ==
  /\ known = [e \in Endpoints |-> {}]
  /\ net = [p \in Pairs |-> << >>]
  /\ sending = [t \in Threads |-> Idle]
  /\ replying = [e \in Endpoints |-> Nobody]
  /\ delivered = [p \in Pairs |-> << >>]
  /\ sends = 0
  /\ lost = 0

-----------------------------------------------------------------------------
(* send: look the receiver up, send the key to a stranger, send the payload. *)

SendLookup(t, to, x) ==
  /\ sending[t] = Idle
  /\ sends < MaxSends
  /\ sending' = [sending EXCEPT ![t] =
       [stage |-> IF to \in known[t[1]] THEN "sealed" ELSE "key", to |-> to, payload |-> x]]
  /\ sends' = sends + 1
  /\ UNCHANGED <<known, net, replying, delivered, lost>>

SendKey(t) ==
  /\ sending[t].stage = "key"
  /\ net' = [net EXCEPT ![<<t[1], sending[t].to>>] = Append(@, KeyMsg)]
  /\ sending' = [sending EXCEPT ![t].stage = "sealed"]
  /\ UNCHANGED <<known, replying, delivered, sends, lost>>

SendSealed(t) ==
  /\ sending[t].stage = "sealed"
  /\ net' = [net EXCEPT ![<<t[1], sending[t].to>>] = Append(@, Sealed(sending[t].payload))]
  /\ sending' = [sending EXCEPT ![t] = Idle]
  /\ UNCHANGED <<known, replying, delivered, sends, lost>>

-----------------------------------------------------------------------------
(* handleMessage on the receiving thread of endpoint e.                      *)

Arrives(s, e, kind) ==
  /\ replying[e] = Nobody
  /\ net[<<s, e>>] # << >>
  /\ Head(net[<<s, e>>]).kind = kind
  /\ net' = [net EXCEPT ![<<s, e>>] = Tail(@)]

\* Mutant: the stranger's key is stored and not answered.
ReceiveKeySilently(s, e) ==
  /\ Arrives(s, e, "key")
  /\ s \notin known[e]
  /\ known' = [known EXCEPT ![e] = @ \cup {s}]
  /\ UNCHANGED <<sending, replying, delivered, sends, lost>>

ReceiveNewKey(s, e) ==
  /\ Arrives(s, e, "key")
  /\ s \notin known[e]
  /\ known' = [known EXCEPT ![e] = @ \cup {s}]
  /\ replying' = [replying EXCEPT ![e] = s]
  /\ UNCHANGED <<sending, delivered, sends, lost>>

\* A known partner's key is neither stored again nor answered.
ReceiveOldKey(s, e) ==
  /\ Arrives(s, e, "key")
  /\ s \in known[e]
  /\ UNCHANGED <<known, sending, replying, delivered, sends, lost>>

ReplyKey(e) ==
  /\ replying[e] # Nobody
  /\ net' = [net EXCEPT ![<<e, replying[e]>>] = Append(@, KeyMsg)]
  /\ replying' = [replying EXCEPT ![e] = Nobody]
  /\ UNCHANGED <<known, sending, delivered, sends, lost>>

ReceiveSealed(s, e) ==
  /\ Arrives(s, e, "sealed")
  /\ s \in known[e]
  /\ delivered' = [delivered EXCEPT ![<<s, e>>] = Append(@, Head(net[<<s, e>>]).payload)]
  /\ UNCHANGED <<known, sending, replying, sends, lost>>

\* Mutant: the payload of a stranger is put back behind the others.
RequeueStranger(s, e) ==
  /\ replying[e] = Nobody
  /\ net[<<s, e>>] # << >>
  /\ Head(net[<<s, e>>]).kind = "sealed"
  /\ s \notin known[e]
  /\ net' = [net EXCEPT ![<<s, e>>] = Append(Tail(@), Head(@))]
  /\ replying' = [replying EXCEPT ![e] = s]
  /\ UNCHANGED <<known, sending, delivered, sends, lost>>

\* The payload of a stranger is dropped and answered with the own key.
ReceiveFromStranger(s, e) ==
  /\ Arrives(s, e, "sealed")
  /\ s \notin known[e]
  /\ replying' = [replying EXCEPT ![e] = s]
  /\ UNCHANGED <<known, sending, delivered, sends, lost>>

\* External: a datagram disappears.
Lose(s, e) ==
  /\ lost < MaxLoss
  /\ net[<<s, e>>] # << >>
  /\ net' = [net EXCEPT ![<<s, e>>] = Tail(@)]
  /\ lost' = lost + 1
  /\ UNCHANGED <<known, sending, replying, delivered, sends>>

ThreadStep(t) == SendKey(t) \/ SendSealed(t)
ReceiverStep(e) ==
  \/ ReplyKey(e)
  \/ \E s \in Endpoints : \/ ReceiveNewKey(s, e) \/ ReceiveOldKey(s, e)
                          \/ ReceiveSealed(s, e) \/ ReceiveFromStranger(s, e)

Next ==
  \/ \E t \in Threads, to \in Endpoints, x \in Payloads : SendLookup(t, to, x)
  \/ \E t \in Threads : ThreadStep(t)
  \/ \E e \in Endpoints : ReceiverStep(e)
  \/ \E s, e \in Endpoints : Lose(s, e)

\* Threads inside send, and receiving threads with a datagram to read, go on.
Fairness ==
  /\ \A t \in Threads : WF_vars(ThreadStep(t))
  /\ \A e \in Endpoints : WF_vars(ReceiverStep(e))

Safe == Init /\ [][Next]_vars
Spec == Safe /\ Fairness

-----------------------------------------------------------------------------
(* Properties.                                                               *)

KeyInTransit(s, r) == \E i \in 1 .. Len(net[<<s, r>>]) : net[<<s, r>>][i] = KeyMsg
SealedInTransit(s, r) == \E i \in 1 .. Len(net[<<s, r>>]) : net[<<s, r>>][i] # KeyMsg
SealsFor(s, r) == \E a \in Senders : sending[<<s, a>>].stage = "sealed" /\ sending[<<s, a>>].to = r

(* send leaves the key out for a partner it knows, and handleMessage answers *)
(* a key only once.  As long as no datagram is lost this never makes an      *)
(* endpoint deaf for good: whoever is about to be sent, or is sent, a sealed *)
(* payload by s has the key of s, or that key is in transit, or the          *)
(* receiving thread of s is about to send it.                                *)
KeyFollows ==
  lost = 0 => \A s, r \in Endpoints :
    r \in known[s] \/ SealedInTransit(s, r) \/ SealsFor(s, r) =>
      s \in known[r] \/ KeyInTransit(s, r) \/ replying[s] = r

(* Knowing a partner's key leads to the partner knowing ours, unless a       *)
(* datagram is lost: keys are answered, never acknowledged.                  *)
BothKnow ==
  \A s, r \in Endpoints : r \in known[s] ~> s \in known[r] \/ lost > 0

(* The key exchange is invisible to the application: every run of the        *)
(* endpoints is a run of lossy FIFO channels of payloads, also when the      *)
(* network loses datagrams and when a payload overtakes its key. The k-th    *)
(* payload of a queue is in the sealed datagram with k of them up to it.     *)
SealedAt(q) == {i \in DOMAIN q : q[i].kind = "sealed"}
Rank(I, i) == Cardinality({j \in I : j <= i})
PayloadsIn(q) == LET I == SealedAt(q) IN
  [k \in 1 .. Cardinality(I) |-> q[CHOOSE i \in I : Rank(I, i) = k].payload]
Chan == [p \in Pairs |-> PayloadsIn(net[p])]
Channel == INSTANCE LossyFifo WITH chan <- Chan
ImplementsChannel == Channel!Spec
=============================================================================
