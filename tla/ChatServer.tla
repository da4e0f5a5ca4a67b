----------------------------- MODULE ChatServer -----------------------------
(***************************************************************************)
(* The server of Rechnernetze's PeerToPeerChat.  Workers of a thread pool  *)
(* handle the first request of every accepted connection, a registration;  *)
(* the thread check_msgs reads the later requests of registered clients.   *)
(* Both change clientList under CLIENTS_LOCK and send user lists after     *)
(* releasing it.  The early return of register_client releases the lock    *)
(* twice.                                                                  *)
(*                                                                         *)
(* A client is a connection with the nickname it registers under.          *)
(* addr_to_nick has the connections of clientList and is left out.         *)
(***************************************************************************)
EXTENDS Naturals, Sequences, FiniteSets, SequencesExt

CONSTANTS Clients, Workers,
          Checker,        \* the thread check_msgs
          None,           \* no thread, no client
          Nick,           \* nickname of each client
          MaxRequests,    \* bound: requests that follow registrations
          MaxDisconnects  \* bound: clients that end without unregistering

ASSUME ChatAssumption ==
  /\ Checker \notin Workers /\ None \notin Workers \cup {Checker} \cup Clients
  /\ MaxRequests \in Nat /\ MaxDisconnects \in Nat

Threads == Workers \cup {Checker}

VARIABLES
  lock,          \* the thread that acquired CLIENTS_LOCK last, None while it is free
  clientList,    \* connections in the order of the dictionary
  conn,          \* state of each connection
  inbox,         \* requests the server has not read, per connection
  requests,      \* requests sent so far
  view,          \* clients named to each client, from the lists sent to it
  at,            \* the next step of each thread
  who,           \* the client its handler works for
  todo,          \* the copy of clientList its handler made
  kind,          \* what its broadcast tells
  ready,         \* check_msgs: connections it has still to look at
  raised,        \* history: clients whose handler has ended with an exception
  stolen         \* history: a release has freed a lock that another thread held

peers == <<conn, inbox, requests, view>>
handler == <<who, todo, kind>>
history == <<raised, stolen>>
vars == <<lock, clientList, peers, at, handler, ready, history>>

Kinds == {"added", "removed", "message"}
Requests == {"unregister", "broadcast"}
Critical == {"regTest", "regList", "regAdd", "regRelease", "unRemove", "unRelease", "bcCopy", "bcRelease",
             "ckCopy", "ckRelease"}
Steps == Critical \cup
  {"idle", "dead", "regAcquire", "regDuplicate", "regSend", "unAcquire", "bcAcquire", "bcSend",
   "ckAcquire", "ckSelect", "ckServe"}

(* Every variable has the type of the object or thread state it stands for. *)
TypeOK ==
  /\ lock \in Threads \cup {None}
  /\ clientList \in Seq(Clients)
  /\ conn \in [Clients -> {"none", "accepted", "open", "closed", "reset", "done"}]
  /\ inbox \in [Clients -> Seq(Requests)]
  /\ requests \in Nat
  /\ view \in [Clients -> SUBSET Clients]
  /\ at \in [Threads -> Steps]
  /\ who \in [Threads -> Clients \cup {None}]
  /\ todo \in [Threads -> Seq(Clients)]
  /\ kind \in [Threads -> Kinds]
  /\ ready \in Seq(Clients)
  /\ raised \subseteq Clients \cup {None}
  /\ stolen \in BOOLEAN

Init ==
  /\ lock = None
  /\ clientList = << >>
  /\ conn = [c \in Clients |-> "none"]
  /\ inbox = [c \in Clients |-> << >>]
  /\ requests = 0
  /\ view = [c \in Clients |-> {}]
  /\ at = [th \in Threads |-> IF th = Checker THEN "ckAcquire" ELSE "idle"]
  /\ who = [th \in Threads |-> None]
  /\ todo = [th \in Threads |-> << >>]
  /\ kind = [th \in Threads |-> "added"]
  /\ ready = << >>
  /\ raised = {}
  /\ stolen = FALSE

-----------------------------------------------------------------------------
(* Threads, the lock and sockets                                             *)

Goto(th, step) == at' = [at EXCEPT ![th] = step]
\* The locals of a handler end with it.
Forget(th) ==
  /\ who' = [who EXCEPT ![th] = None]
  /\ todo' = [todo EXCEPT ![th] = << >>]
  /\ kind' = [kind EXCEPT ![th] = "added"]
\* The handler returns: check_msgs goes on with the next connection.
Return(th) == Goto(th, IF th = Checker THEN "ckServe" ELSE "idle") /\ Forget(th)
\* The handler raises: the pool keeps the worker, check_msgs ends.
Raise(th) ==
  /\ Goto(th, IF th = Checker THEN "dead" ELSE "idle")
  /\ Forget(th)
  /\ raised' = raised \cup {who[th]}

Acquire(th, from, to) ==
  /\ at[th] = from /\ lock = None
  /\ lock' = th
  /\ Goto(th, to)
  /\ UNCHANGED <<clientList, peers, handler, ready, history>>

\* release frees the lock whoever holds it ...
Release(th, from, to) ==
  /\ at[th] = from /\ lock # None
  /\ lock' = None
  /\ stolen' = (stolen \/ lock # th)
  /\ Goto(th, to)
  /\ UNCHANGED <<clientList, peers, handler, ready, raised>>

\* ... and raises when nobody does.
ReleaseRaises(th) ==
  /\ at[th] \in {"regDuplicate", "regRelease", "unRelease", "bcRelease", "ckRelease"}
  /\ lock = None
  /\ Raise(th)
  /\ UNCHANGED <<lock, clientList, peers, ready, stolen>>

\* A send to a peer that has gone is answered with a reset; the next one fails.
Sendable(c) == conn[c] \in {"open", "closed"}
AfterSend(c) == conn' = [conn EXCEPT ![c] = IF @ = "closed" THEN "reset" ELSE @]

-----------------------------------------------------------------------------
(* register_client                                                           *)

Named(nick) == {i \in 1 .. Len(clientList) : Nick[clientList[i]] = nick}

\* Accept, and a worker that reads the registration.
Take(th, c) ==
  /\ th \in Workers /\ at[th] = "idle"
  /\ conn[c] = "accepted"
  /\ conn' = [conn EXCEPT ![c] = "open"]
  /\ Goto(th, "regAcquire")
  /\ who' = [who EXCEPT ![th] = c]
  /\ UNCHANGED <<lock, clientList, inbox, requests, view, todo, kind, ready, history>>

RegTest(th) ==
  /\ at[th] = "regTest"
  /\ Named(Nick[who[th]]) = {}
  /\ Goto(th, "regList")
  /\ UNCHANGED <<lock, clientList, peers, handler, ready, history>>

\* The nickname is taken: a release (which raises when the lock is free), then finally.
RegRefuse(th) ==
  /\ at[th] = "regTest"
  /\ Named(Nick[who[th]]) # {}
  /\ lock' = None
  /\ stolen' = (stolen \/ lock \notin {None, th})
  /\ Goto(th, "regDuplicate")
  /\ UNCHANGED <<clientList, peers, handler, ready, raised>>

\* The second release, in finally.
RegRefused(th) ==
  /\ at[th] = "regDuplicate" /\ lock # None
  /\ lock' = None
  /\ stolen' = TRUE
  /\ Return(th)
  /\ UNCHANGED <<clientList, peers, ready, raised>>

RegList(th) ==
  /\ at[th] = "regList"
  /\ Goto(th, "regAdd")
  /\ todo' = [todo EXCEPT ![th] = clientList]
  /\ UNCHANGED <<lock, clientList, peers, who, kind, ready, history>>

\* clientList[nickname] = ... replaces an entry of that name.
RegAdd(th) ==
  /\ at[th] = "regAdd"
  /\ clientList' = IF Named(Nick[who[th]]) = {} THEN Append(clientList, who[th])
       ELSE [i \in 1 .. Len(clientList) |-> IF i \in Named(Nick[who[th]]) THEN who[th] ELSE clientList[i]]
  /\ Goto(th, "regRelease")
  /\ UNCHANGED <<lock, peers, handler, ready, history>>

\* Mutant: the list that is sent is empty.
RegSendEmpty(th) ==
  /\ at[th] = "regSend"
  /\ Sendable(who[th])
  /\ AfterSend(who[th])
  /\ Goto(th, "bcAcquire")
  /\ kind' = [kind EXCEPT ![th] = "added"]
  /\ UNCHANGED <<lock, clientList, inbox, requests, view, who, todo, ready, history>>

\* The initial list, then the broadcast of the newcomer.
RegSend(th) ==
  /\ at[th] = "regSend"
  /\ Sendable(who[th])
  /\ AfterSend(who[th])
  /\ view' = [view EXCEPT ![who[th]] = @ \cup Range(todo[th])]
  /\ Goto(th, "bcAcquire")
  /\ kind' = [kind EXCEPT ![th] = "added"]
  /\ UNCHANGED <<lock, clientList, inbox, requests, who, todo, ready, history>>

RegSendRaises(th) ==
  /\ at[th] = "regSend"
  /\ ~Sendable(who[th])
  /\ Raise(th)
  /\ UNCHANGED <<lock, clientList, peers, ready, stolen>>

Register(th) ==
  \/ Acquire(th, "regAcquire", "regTest")
  \/ RegTest(th) \/ RegRefuse(th) \/ RegRefused(th) \/ RegList(th) \/ RegAdd(th)
  \/ Release(th, "regRelease", "regSend")
  \/ RegSend(th) \/ RegSendRaises(th)

-----------------------------------------------------------------------------
(* unregister_client: only listed connections are read, so the name is known *)

\* Mutant: the entry is read and stays.
UnGet(th) ==
  /\ at[th] = "unRemove"
  /\ \E i \in Named(Nick[who[th]]) : who' = [who EXCEPT ![th] = clientList[i]]
  /\ Goto(th, "unRelease")
  /\ kind' = [kind EXCEPT ![th] = "removed"]
  /\ UNCHANGED <<lock, clientList, peers, todo, ready, history>>

\* Mutant: the lock is not released.
UnRemoveKeepsLock(th) ==
  /\ at[th] = "unRemove"
  /\ \E i \in Named(Nick[who[th]]) :
       /\ clientList' = RemoveAt(clientList, i)
       /\ who' = [who EXCEPT ![th] = clientList[i]]
  /\ Goto(th, "bcAcquire")
  /\ kind' = [kind EXCEPT ![th] = "removed"]
  /\ UNCHANGED <<lock, peers, todo, ready, history>>

UnRemove(th) ==
  /\ at[th] = "unRemove"
  /\ \E i \in Named(Nick[who[th]]) :
       /\ clientList' = RemoveAt(clientList, i)
       /\ who' = [who EXCEPT ![th] = clientList[i]]
  /\ Goto(th, "unRelease")
  /\ kind' = [kind EXCEPT ![th] = "removed"]
  /\ UNCHANGED <<lock, peers, todo, ready, history>>

\* After its broadcast.
UnClose(th) ==
  /\ at[th] = "bcSend" /\ todo[th] = << >> /\ kind[th] = "removed"
  /\ conn' = [conn EXCEPT ![who[th]] = "done"]
  /\ inbox' = [inbox EXCEPT ![who[th]] = << >>]
  /\ Return(th)
  /\ UNCHANGED <<lock, clientList, requests, view, ready, history>>

Unregister(th) ==
  \/ Acquire(th, "unAcquire", "unRemove")
  \/ UnRemove(th)
  \/ Release(th, "unRelease", "bcAcquire")
  \/ UnClose(th)

-----------------------------------------------------------------------------
(* broadcast_clients                                                         *)

\* The list could change while broadcasting.
BcCopy(th) ==
  /\ at[th] = "bcCopy"
  /\ Goto(th, "bcRelease")
  /\ todo' = [todo EXCEPT ![th] = clientList]
  /\ UNCHANGED <<lock, clientList, peers, who, kind, ready, history>>

\* A newcomer and the author of a message are left out.
Excluded(th) == kind[th] # "removed" /\ Head(todo[th]) = who[th]

ToldBy(th) ==
  LET c == Head(todo[th]) IN
  CASE kind[th] = "added" -> view[c] \cup {who[th]}
    [] kind[th] = "removed" -> view[c] \ {who[th]}
    [] kind[th] = "message" -> view[c]

BcSend(th) ==
  /\ at[th] = "bcSend" /\ todo[th] # << >>
  /\ ~Excluded(th) /\ Sendable(Head(todo[th]))
  /\ AfterSend(Head(todo[th]))
  /\ view' = [view EXCEPT ![Head(todo[th])] = ToldBy(th)]
  /\ todo' = [todo EXCEPT ![th] = Tail(@)]
  /\ UNCHANGED <<lock, clientList, inbox, requests, at, who, kind, ready, history>>

\* Excluded, or a ConnectionResetError: the next client.
BcSkip(th) ==
  /\ at[th] = "bcSend" /\ todo[th] # << >>
  /\ Excluded(th) \/ conn[Head(todo[th])] = "reset"
  /\ todo' = [todo EXCEPT ![th] = Tail(@)]
  /\ UNCHANGED <<lock, clientList, peers, at, who, kind, ready, history>>

\* Any other error (a broken pipe, a socket closed meanwhile) ends the handler.
BcRaises(th) ==
  /\ at[th] = "bcSend" /\ todo[th] # << >>
  /\ ~Excluded(th) /\ ~Sendable(Head(todo[th]))
  /\ Raise(th)
  /\ UNCHANGED <<lock, clientList, peers, ready, stolen>>

BcEnd(th) ==
  /\ at[th] = "bcSend" /\ todo[th] = << >> /\ kind[th] # "removed"
  /\ Return(th)
  /\ UNCHANGED <<lock, clientList, peers, ready, history>>

Broadcast(th) ==
  \/ Acquire(th, "bcAcquire", "bcCopy")
  \/ BcCopy(th)
  \/ Release(th, "bcRelease", "bcSend")
  \/ BcSend(th) \/ BcSkip(th) \/ BcRaises(th) \/ BcEnd(th)

-----------------------------------------------------------------------------
(* check_msgs                                                                *)

CkCopy ==
  /\ at[Checker] = "ckCopy"
  /\ ready' = clientList
  /\ Goto(Checker, "ckRelease")
  /\ UNCHANGED <<lock, clientList, peers, handler, history>>

\* Readable: a request has come, or the peer has closed.
Readable(c) == inbox[c] # << >> \/ conn[c] \in {"closed", "reset"}

CkSelect ==
  /\ at[Checker] = "ckSelect"
  /\ ready' = SelectSeq(ready, Readable)
  /\ Goto(Checker, "ckServe")
  /\ UNCHANGED <<lock, clientList, peers, handler, history>>

\* The next connection that select found readable.
Reading(c) == at[Checker] = "ckServe" /\ ready # << >> /\ c = Head(ready)

CkServe(c) ==
  /\ Reading(c) /\ inbox[c] # << >>
  /\ inbox' = [inbox EXCEPT ![c] = Tail(@)]
  /\ Goto(Checker, IF Head(inbox[c]) = "unregister" THEN "unAcquire" ELSE "bcAcquire")
  /\ who' = [who EXCEPT ![Checker] = c]
  /\ kind' = [kind EXCEPT ![Checker] = "message"]
  /\ ready' = Tail(ready)
  /\ UNCHANGED <<lock, clientList, conn, requests, view, todo, history>>

\* An empty read: b == 0 is false, the empty payload is no JSON, the client stays.
CkServeClosed(c) ==
  /\ Reading(c) /\ inbox[c] = << >>
  /\ ready' = Tail(ready)
  /\ UNCHANGED <<lock, clientList, peers, at, handler, history>>

\* The reset has come when recv is called: the client is unregistered ...
CkReset(c) ==
  /\ Reading(c) /\ conn[c] = "reset"
  /\ Goto(Checker, "unAcquire")
  /\ who' = [who EXCEPT ![Checker] = c]
  /\ ready' = Tail(ready)
  /\ UNCHANGED <<lock, clientList, peers, todo, kind, history>>

\* ... or before: a socket without a peer has no getpeername, and no one catches that.
CkNoPeer(c) ==
  /\ Reading(c) /\ conn[c] = "reset"
  /\ Raise(Checker)
  /\ UNCHANGED <<lock, clientList, peers, ready, stolen>>

CkAgain ==
  /\ at[Checker] = "ckServe" /\ ready = << >>
  /\ Goto(Checker, "ckAcquire")
  /\ UNCHANGED <<lock, clientList, peers, handler, ready, history>>

CheckMsgs ==
  \/ Acquire(Checker, "ckAcquire", "ckCopy")
  \/ CkCopy
  \/ Release(Checker, "ckRelease", "ckSelect")
  \/ CkSelect \/ CkAgain
  \/ \E c \in Clients : CkServe(c) \/ CkServeClosed(c) \/ CkReset(c) \/ CkNoPeer(c)

-----------------------------------------------------------------------------
(* Clients: register, unregister and broadcast of Client, and a lost peer    *)

Connect(c) ==
  /\ conn[c] = "none"
  /\ conn' = [conn EXCEPT ![c] = "accepted"]
  /\ UNCHANGED <<lock, clientList, inbox, requests, view, at, handler, ready, history>>

Request(c, r) ==
  /\ conn[c] = "open" /\ requests < MaxRequests
  /\ inbox' = [inbox EXCEPT ![c] = Append(@, r)]
  /\ requests' = requests + 1
  /\ UNCHANGED <<lock, clientList, conn, view, at, handler, ready, history>>

Disconnect(c) ==
  /\ conn[c] = "open"
  /\ Cardinality({d \in Clients : conn[d] \in {"closed", "reset"}}) < MaxDisconnects
  /\ conn' = [conn EXCEPT ![c] = "closed"]
  /\ UNCHANGED <<lock, clientList, inbox, requests, view, at, handler, ready, history>>

-----------------------------------------------------------------------------
Next ==
  \/ \E th \in Threads : Register(th) \/ Unregister(th) \/ Broadcast(th) \/ ReleaseRaises(th)
  \/ \E th \in Workers, c \in Clients : Take(th, c)
  \/ CheckMsgs
  \/ \E c \in Clients : Connect(c) \/ Disconnect(c) \/ \E r \in Requests : Request(c, r)

Safe == Init /\ [][Next]_vars

-----------------------------------------------------------------------------
(* Properties.                                                               *)

(* CLIENTS_LOCK is released in finally and, on a refusal, before it too.     *)
(* Whatever raises, the lock is never left held by a thread outside its      *)
(* critical sections; and as long as no doubled release has hit a lock that  *)
(* someone else held, two threads are never inside at the same time.         *)
LockOwned ==
  /\ lock # None => at[lock] \in Critical
  /\ ~stolen => \A th \in Threads : at[th] \in Critical => lock = th

Registering(c) == \E th \in Threads : who[th] = c /\ kind[th] = "added"
Listed == Range(clientList)

(* A newcomer is listed before its own list and the news of it are sent, and *)
(* both are sent outside the lock: still two registered clients know each    *)
(* other once their registrations are over, unless one of them raised, the   *)
(* one to be told has gone, or a doubled release has let a third client      *)
(* register between a newcomer's list and its entry.                         *)
Introduced ==
  stolen \/ \A c, d \in Listed \ raised :
    conn[c] = "open" /\ c # d /\ ~Registering(c) /\ ~Registering(d) => d \in view[c]

(* The thread that reads all later requests dies only of a peer that went    *)
(* away without a word or of a lock that a doubled release took from it.     *)
CheckerLives ==
  at[Checker] = "dead" => stolen \/ \E c \in Clients : conn[c] = "reset"

(* register_client says of a later newcomer that "he would be added through  *)
(* an update", which goes "to all other clients": without lost peers and     *)
(* with a nickname each, registered clients know of each other.              *)
BroadcastToAll ==
  \A c, d \in Listed : conn[c] = "open" /\ c # d /\ ~Registering(c) /\ ~Registering(d) => d \in view[c]
=============================================================================
