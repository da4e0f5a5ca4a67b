-------------------------- MODULE ChatServer_proofs --------------------------
(***************************************************************************)
(* Proof about ChatServer for any number of clients and workers: what the  *)
(* doubled release leaves of mutual exclusion.                             *)
(***************************************************************************)
EXTENDS ChatServer, SequenceTheorems, TLAPS

(* The part of the type invariant that the lock's argument needs. *)
LockTyped ==
  /\ lock \in Threads \cup {None}
  /\ at \in [Threads -> Steps]
  /\ stolen \in BOOLEAN

LockInv == LockTyped /\ LockOwned

LEMMA NoneIsNoThread == None \notin Threads
BY ChatAssumption DEF Threads

LEMMA CheckerIsThread == Checker \in Threads
BY DEF Threads

(* A step that leaves the lock alone and keeps a thread inside its critical  *)
(* section, or outside all of them, preserves the invariant.                 *)
LEMMA StaysInside ==
  ASSUME NEW th \in Threads, NEW step \in Steps, LockInv, Goto(th, step),
         lock' = lock, stolen' = stolen,
         at[th] \in Critical <=> step \in Critical
  PROVE  LockInv'
<1>1. /\ at' \in [Threads -> Steps]
      /\ at' = [at EXCEPT ![th] = step]
  BY DEF LockInv, LockTyped, Goto
<1>2. LockTyped'
  BY <1>1 DEF LockInv, LockTyped
<1>3. \A u \in Threads : at'[u] \in Critical <=> at[u] \in Critical
  BY <1>1 DEF LockInv, LockTyped
<1>4. LockOwned'
  BY <1>3, NoneIsNoThread DEF LockInv, LockTyped, LockOwned
<1>5. QED
  BY <1>2, <1>4 DEF LockInv

(* Without a move the invariant is preserved too. *)
LEMMA Unmoved ==
  ASSUME LockInv, UNCHANGED <<lock, at, stolen>>
  PROVE  LockInv'
BY DEF LockInv, LockTyped, LockOwned

(* A thread that raises has no lock: either it is outside, or its release    *)
(* has found the lock free.                                                  *)
LEMMA RaisesWithoutLock ==
  ASSUME NEW th \in Threads, LockInv, Raise(th), lock' = lock, stolen' = stolen,
         at[th] \notin Critical \/ lock = None
  PROVE  LockInv'
<1>1. PICK step \in {"dead", "idle"} : at' = [at EXCEPT ![th] = step]
  BY DEF Raise, Goto
<1>2. step \in Steps /\ step \notin Critical
  BY DEF Steps, Critical
<1>3. LockTyped'
  BY <1>1, <1>2 DEF LockInv, LockTyped
<1>4. /\ at'[th] = step
      /\ \A u \in Threads \ {th} : at'[u] = at[u]
  BY <1>1 DEF LockInv, LockTyped
<1>5. LockOwned'
  BY <1>2, <1>4, NoneIsNoThread DEF LockInv, LockTyped, LockOwned
<1>6. QED
  BY <1>3, <1>5 DEF LockInv

(* acquire waits for a free lock, and then nobody is inside.                 *)
LEMMA AcquireKeeps ==
  ASSUME NEW th \in Threads, NEW from \in Steps, NEW to \in Critical, LockInv, Acquire(th, from, to)
  PROVE  LockInv'
<1>1. /\ lock = None /\ lock' = th /\ stolen' = stolen
      /\ at' = [at EXCEPT ![th] = to]
  BY DEF Acquire, Goto, history
<1>2. to \in Steps
  BY DEF Steps
<1>3. LockTyped'
  BY <1>1, <1>2 DEF LockInv, LockTyped
<1>4. /\ at'[th] = to
      /\ \A u \in Threads \ {th} : at'[u] = at[u]
  BY <1>1 DEF LockInv, LockTyped
<1>5. LockOwned'
  BY <1>1, <1>4, NoneIsNoThread DEF LockInv, LockTyped, LockOwned
<1>6. QED
  BY <1>3, <1>5 DEF LockInv

(* A release by the owner empties the critical sections; by anyone else it   *)
(* is remembered in stolen.                                                  *)
LEMMA FreeKeeps ==
  ASSUME NEW th \in Threads, NEW step \in Steps \ Critical, LockInv, Goto(th, step),
         lock' = None, stolen' \in BOOLEAN,
         stolen' \/ (at[th] \in Critical /\ lock \in {None, th} /\ stolen' = stolen)
  PROVE  LockInv'
<1>1. at' = [at EXCEPT ![th] = step]
  BY DEF Goto
<1>2. LockTyped'
  BY <1>1 DEF LockInv, LockTyped
<1>3. /\ at'[th] = step
      /\ \A u \in Threads \ {th} : at'[u] = at[u]
  BY <1>1 DEF LockInv, LockTyped
<1>4. CASE stolen'
  <2>1. LockOwned'
    BY <1>4 DEF LockOwned
  <2>2. QED
    BY <2>1, <1>2 DEF LockInv
<1>5. CASE at[th] \in Critical /\ lock \in {None, th} /\ stolen' = stolen
  <2>1. ~stolen => \A u \in Threads \ {th} : at[u] \notin Critical
    BY <1>5, NoneIsNoThread DEF LockInv, LockOwned
  <2>2. LockOwned'
    BY <1>3, <1>5, <2>1, NoneIsNoThread DEF LockOwned
  <2>3. QED
    BY <2>2, <1>2 DEF LockInv
<1>6. QED
  BY <1>4, <1>5

LEMMA ReleaseKeeps ==
  ASSUME NEW th \in Threads, NEW from \in Critical, NEW to \in Steps \ Critical, LockInv, Release(th, from, to)
  PROVE  LockInv'
<1>1. /\ at[th] \in Critical /\ Goto(th, to) /\ lock' = None
      /\ stolen' = (stolen \/ lock # th)
  BY DEF Release
<1>2. stolen' \in BOOLEAN /\ stolen \in BOOLEAN
  BY <1>1 DEF LockInv, LockTyped
<1>3. stolen' \/ (at[th] \in Critical /\ lock \in {None, th} /\ stolen' = stolen)
  BY <1>1, <1>2
<1>4. QED
  BY <1>1, <1>2, <1>3, FreeKeeps

(* register_client, with its two ways to end.                                *)
LEMMA RegisterKeeps ==
  ASSUME NEW th \in Threads, LockInv, Register(th)
  PROVE  LockInv'
<1>1. CASE Acquire(th, "regAcquire", "regTest")
  BY <1>1, AcquireKeeps DEF Steps, Critical
<1>2. CASE RegTest(th)
  BY <1>2, StaysInside DEF RegTest, Steps, Critical, history
<1>3. CASE RegRefuse(th)
  <2>1. /\ at[th] \in Critical /\ lock' = None /\ Goto(th, "regDuplicate")
        /\ stolen' = (stolen \/ lock \notin {None, th})
    BY <1>3 DEF RegRefuse, Critical
  <2>2. stolen' \in BOOLEAN /\ stolen \in BOOLEAN
    BY <2>1 DEF LockInv, LockTyped
  <2>3. stolen' \/ (at[th] \in Critical /\ lock \in {None, th} /\ stolen' = stolen)
    BY <2>1, <2>2
  <2>4. "regDuplicate" \in Steps \ Critical
    BY DEF Steps, Critical
  <2>5. QED
    BY <2>1, <2>2, <2>3, <2>4, FreeKeeps
<1>4. CASE RegRefused(th)
  <2>1. PICK step \in {"ckServe", "idle"} : Goto(th, step)
    BY <1>4 DEF RegRefused, Return, Goto
  <2>2. step \in Steps \ Critical
    BY DEF Steps, Critical
  <2>3. QED
    BY <1>4, <2>1, <2>2, FreeKeeps DEF RegRefused
<1>5. CASE RegList(th)
  BY <1>5, StaysInside DEF RegList, Steps, Critical, history
<1>6. CASE RegAdd(th)
  BY <1>6, StaysInside DEF RegAdd, Steps, Critical, history
<1>7. CASE Release(th, "regRelease", "regSend")
  BY <1>7, ReleaseKeeps DEF Steps, Critical
<1>8. CASE RegSend(th)
  BY <1>8, StaysInside DEF RegSend, Steps, Critical, history
<1>9. CASE RegSendRaises(th)
  BY <1>9, RaisesWithoutLock DEF RegSendRaises, Critical
<1>10. QED
  BY <1>1, <1>2, <1>3, <1>4, <1>5, <1>6, <1>7, <1>8, <1>9 DEF Register

(* A handler that returns is outside the critical sections already.          *)
LEMMA ReturnKeeps ==
  ASSUME NEW th \in Threads, LockInv, Return(th), lock' = lock, stolen' = stolen, at[th] = "bcSend"
  PROVE  LockInv'
<1>1. PICK step \in {"ckServe", "idle"} : Goto(th, step)
  BY DEF Return, Goto
<1>2. QED
  BY <1>1, StaysInside DEF Steps, Critical

LEMMA UnregisterKeeps ==
  ASSUME NEW th \in Threads, LockInv, Unregister(th)
  PROVE  LockInv'
<1>1. CASE Acquire(th, "unAcquire", "unRemove")
  BY <1>1, AcquireKeeps DEF Steps, Critical
<1>2. CASE UnRemove(th)
  BY <1>2, StaysInside DEF UnRemove, Steps, Critical, history
<1>3. CASE Release(th, "unRelease", "bcAcquire")
  BY <1>3, ReleaseKeeps DEF Steps, Critical
<1>4. CASE UnClose(th)
  BY <1>4, ReturnKeeps DEF UnClose, history
<1>5. QED
  BY <1>1, <1>2, <1>3, <1>4 DEF Unregister

LEMMA BroadcastKeeps ==
  ASSUME NEW th \in Threads, LockInv, Broadcast(th)
  PROVE  LockInv'
<1>1. CASE Acquire(th, "bcAcquire", "bcCopy")
  BY <1>1, AcquireKeeps DEF Steps, Critical
<1>2. CASE BcCopy(th)
  BY <1>2, StaysInside DEF BcCopy, Steps, Critical, history
<1>3. CASE Release(th, "bcRelease", "bcSend")
  BY <1>3, ReleaseKeeps DEF Steps, Critical
<1>4. CASE BcSend(th) \/ BcSkip(th)
  BY <1>4, Unmoved DEF BcSend, BcSkip, history
<1>5. CASE BcRaises(th)
  BY <1>5, RaisesWithoutLock DEF BcRaises, Critical
<1>6. CASE BcEnd(th)
  BY <1>6, ReturnKeeps DEF BcEnd, history
<1>7. QED
  BY <1>1, <1>2, <1>3, <1>4, <1>5, <1>6 DEF Broadcast

LEMMA CheckMsgsKeeps ==
  ASSUME LockInv, CheckMsgs
  PROVE  LockInv'
<1>1. CASE Acquire(Checker, "ckAcquire", "ckCopy")
  BY <1>1, AcquireKeeps, CheckerIsThread DEF Steps, Critical
<1>2. CASE CkCopy
  BY <1>2, StaysInside, CheckerIsThread DEF CkCopy, Steps, Critical, history
<1>3. CASE Release(Checker, "ckRelease", "ckSelect")
  BY <1>3, ReleaseKeeps, CheckerIsThread DEF Steps, Critical
<1>4. CASE CkSelect
  BY <1>4, StaysInside, CheckerIsThread DEF CkSelect, Steps, Critical, history
<1>5. ASSUME NEW c \in Clients, CkServe(c) PROVE LockInv'
  <2>1. PICK step \in {"unAcquire", "bcAcquire"} : Goto(Checker, step)
    BY <1>5 DEF CkServe, Goto
  <2>2. /\ lock' = lock /\ stolen' = stolen /\ at[Checker] = "ckServe"
    BY <1>5 DEF CkServe, Reading, history
  <2>3. QED
    BY <2>1, <2>2, StaysInside, CheckerIsThread DEF Steps, Critical
<1>6. ASSUME NEW c \in Clients, CkServeClosed(c) PROVE LockInv'
  BY <1>6, Unmoved DEF CkServeClosed, history
<1>7. ASSUME NEW c \in Clients, CkReset(c) PROVE LockInv'
  BY <1>7, StaysInside, CheckerIsThread DEF CkReset, Reading, Steps, Critical, history
<1>8. ASSUME NEW c \in Clients, CkNoPeer(c) PROVE LockInv'
  BY <1>8, RaisesWithoutLock, CheckerIsThread DEF CkNoPeer, Reading, Critical
<1>9. CASE CkAgain
  BY <1>9, StaysInside, CheckerIsThread DEF CkAgain, Steps, Critical, history
<1>10. QED
  BY <1>1, <1>2, <1>3, <1>4, <1>5, <1>6, <1>7, <1>8, <1>9 DEF CheckMsgs

LEMMA NextKeeps ==
  ASSUME LockInv, [Next]_vars
  PROVE  LockInv'
<1>1. CASE \E th \in Threads : Register(th)
  BY <1>1, RegisterKeeps
<1>2. CASE \E th \in Threads : Unregister(th)
  BY <1>2, UnregisterKeeps
<1>3. CASE \E th \in Threads : Broadcast(th)
  BY <1>3, BroadcastKeeps
<1>4. CASE \E th \in Threads : ReleaseRaises(th)
  <2>1. PICK th \in Threads : ReleaseRaises(th)
    BY <1>4
  <2>2. QED
    BY <2>1, RaisesWithoutLock DEF ReleaseRaises
<1>5. CASE \E th \in Workers, c \in Clients : Take(th, c)
  <2>1. PICK th \in Workers, c \in Clients : Take(th, c)
    BY <1>5
  <2>2. th \in Threads
    BY DEF Threads
  <2>3. QED
    BY <2>1, <2>2, StaysInside DEF Take, Steps, Critical, history
<1>6. CASE CheckMsgs
  BY <1>6, CheckMsgsKeeps
<1>7. CASE \E c \in Clients : Connect(c) \/ Disconnect(c) \/ \E r \in Requests : Request(c, r)
  BY <1>7, Unmoved DEF Connect, Disconnect, Request, history
<1>8. CASE UNCHANGED vars
  BY <1>8, Unmoved DEF vars, history
<1>9. QED
  BY <1>1, <1>2, <1>3, <1>4, <1>5, <1>6, <1>7, <1>8 DEF Next

LEMMA InitLock ==
  ASSUME Init
  PROVE  LockInv
<1>1. lock = None /\ stolen = FALSE
  BY DEF Init
<1>2. at = [th \in Threads |-> IF th = Checker THEN "ckAcquire" ELSE "idle"]
  BY DEF Init
<1>3. LockTyped
  BY <1>1, <1>2 DEF LockTyped, Steps
<1>4. \A th \in Threads : at[th] \notin Critical
  BY <1>2 DEF Critical
<1>5. QED
  BY <1>1, <1>3, <1>4 DEF LockInv, LockOwned

(* CLIENTS_LOCK, released twice by a refused registration: for any clients   *)
(* and workers it is never left held by a thread outside its critical        *)
(* sections, and excludes until a doubled release has hit someone's lock.    *)
THEOREM LockOwnedHolds == Safe => []LockOwned
<1>1. Init => LockInv
  BY InitLock
<1>2. LockInv /\ [Next]_vars => LockInv'
  BY NextKeeps
<1>3. LockInv => LockOwned
  BY DEF LockInv
<1>4. QED
  BY <1>1, <1>2, <1>3, PTL DEF Safe

-----------------------------------------------------------------------------
(* The list of clients                                                       *)

(* What the sequence operators of the model do to the members of a list.     *)
LEMMA RangeIs ==
  ASSUME NEW S, NEW s \in Seq(S)
  PROVE  /\ Range(s) \subseteq S
         /\ \A i \in 1 .. Len(s) : s[i] \in Range(s)
         /\ \A x \in Range(s) : \E i \in 1 .. Len(s) : s[i] = x
BY DEF Range

LEMMA RangeEmpty == Range(<< >>) = {}
BY DEF Range

LEMMA RangeTail ==
  ASSUME NEW S, NEW s \in Seq(S), s # << >>
  PROVE  /\ Head(s) \in S /\ Tail(s) \in Seq(S)
         /\ Range(s) = {Head(s)} \cup Range(Tail(s))
<1>1. /\ Tail(s) \in Seq(S) /\ Len(Tail(s)) = Len(s) - 1 /\ Head(s) = s[1] /\ Head(s) \in S
      /\ \A i \in 1 .. Len(Tail(s)) : Tail(s)[i] = s[i + 1]
  BY HeadTailProperties
<1>2. Len(s) \in Nat \ {0}
  BY EmptySeq
<1>3. \A i \in 1 .. Len(s) : i = 1 \/ (i - 1 \in 1 .. Len(Tail(s)) /\ s[i] = Tail(s)[i - 1])
  BY <1>1, <1>2
<1>4. Range(s) \subseteq {Head(s)} \cup Range(Tail(s))
  <2>1. SUFFICES ASSUME NEW i \in 1 .. Len(s)
                 PROVE  s[i] \in {Head(s)} \cup Range(Tail(s))
    BY RangeIs
  <2>2. CASE i = 1
    BY <2>2, <1>1
  <2>3. CASE i - 1 \in 1 .. Len(Tail(s)) /\ s[i] = Tail(s)[i - 1]
    BY <2>3, <1>1, RangeIs
  <2>4. QED
    BY <2>2, <2>3, <1>3
<1>5. {Head(s)} \cup Range(Tail(s)) \subseteq Range(s)
  <2>1. Head(s) \in Range(s)
    BY <1>1, <1>2, RangeIs
  <2>2. ASSUME NEW x \in Range(Tail(s)) PROVE x \in Range(s)
    <3>1. PICK i \in 1 .. Len(Tail(s)) : Tail(s)[i] = x
      BY <1>1, RangeIs
    <3>2. i + 1 \in 1 .. Len(s) /\ s[i + 1] = x
      BY <3>1, <1>1, <1>2
    <3>3. QED
      BY <3>2, RangeIs
  <2>3. QED
    BY <2>1, <2>2
<1>6. QED
  BY <1>1, <1>4, <1>5

LEMMA RangeAppend ==
  ASSUME NEW S, NEW s \in Seq(S), NEW e \in S
  PROVE  Append(s, e) \in Seq(S) /\ Range(Append(s, e)) = Range(s) \cup {e}
<1> DEFINE t == Append(s, e)
<1>1. /\ t \in Seq(S) /\ Len(t) = Len(s) + 1
      /\ \A i \in 1 .. Len(s) : t[i] = s[i]
      /\ t[Len(s) + 1] = e /\ Len(s) \in Nat
  BY AppendProperties
<1> HIDE DEF t
<1>2. Range(t) \subseteq Range(s) \cup {e}
  <2>1. SUFFICES ASSUME NEW i \in 1 .. Len(t)
                 PROVE  t[i] \in Range(s) \cup {e}
    BY <1>1, RangeIs
  <2>2. CASE i = Len(s) + 1
    BY <2>2, <1>1
  <2>3. CASE i \in 1 .. Len(s)
    BY <2>3, <1>1, RangeIs
  <2>4. QED
    BY <2>2, <2>3, <1>1
<1>3. Range(s) \cup {e} \subseteq Range(t)
  <2>1. e \in Range(t)
    BY <1>1, RangeIs
  <2>2. ASSUME NEW x \in Range(s) PROVE x \in Range(t)
    <3>1. PICK i \in 1 .. Len(s) : s[i] = x
      BY RangeIs
    <3>2. i \in 1 .. Len(t) /\ t[i] = x
      BY <3>1, <1>1
    <3>3. QED
      BY <3>2, <1>1, RangeIs
  <2>3. QED
    BY <2>1, <2>2
<1>4. QED
  BY <1>1, <1>2, <1>3 DEF t

(* A list without its entry i: the entries before stay, those behind move up. *)
LEMMA RemoveAtIs ==
  ASSUME NEW S, NEW s \in Seq(S), NEW i \in 1 .. Len(s)
  PROVE  /\ RemoveAt(s, i) \in Seq(S)
         /\ Len(RemoveAt(s, i)) = Len(s) - 1
         /\ \A j \in 1 .. Len(s) - 1 : RemoveAt(s, i)[j] = s[IF j < i THEN j ELSE j + 1]
<1> DEFINE before == SubSeq(s, 1, i - 1)
           behind == SubSeq(s, i + 1, Len(s))
<1>1. Len(s) \in Nat
  OBVIOUS
<1>2. /\ before \in Seq(S) /\ Len(before) = i - 1
      /\ \A j \in 1 .. i - 1 : before[j] = s[j]
  BY <1>1, SubSeqProperties, ElementOfSeq
<1>3. /\ behind \in Seq(S) /\ Len(behind) = Len(s) - i
      /\ \A j \in 1 .. Len(s) - i : behind[j] = s[i + j]
  <2>1. \A j \in i + 1 .. Len(s) : s[j] \in S
    BY ElementOfSeq
  <2>2. /\ behind \in Seq(S)
        /\ Len(behind) = IF i + 1 <= Len(s) THEN Len(s) - (i + 1) + 1 ELSE 0
        /\ \A j \in 1 .. Len(s) - (i + 1) + 1 : behind[j] = s[i + 1 + j - 1]
    BY <1>1, <2>1, SubSeqProperties
  <2>3. QED
    BY <1>1, <2>2
<1> HIDE DEF before, behind
<1>4. /\ before \o behind \in Seq(S)
      /\ Len(before \o behind) = Len(before) + Len(behind)
      /\ \A j \in 1 .. Len(before) + Len(behind) :
           (before \o behind)[j] = IF j <= Len(before) THEN before[j] ELSE behind[j - Len(before)]
  BY <1>2, <1>3, ConcatProperties
<1>5. RemoveAt(s, i) = before \o behind
  BY DEF RemoveAt, before, behind
<1>6. ASSUME NEW j \in 1 .. Len(s) - 1
      PROVE  RemoveAt(s, i)[j] = s[IF j < i THEN j ELSE j + 1]
  <2>1. CASE j < i
    BY <2>1, <1>1, <1>2, <1>3, <1>4, <1>5
  <2>2. CASE ~(j < i)
    <3>1. /\ (before \o behind)[j] = behind[j - (i - 1)] /\ j - (i - 1) \in 1 .. Len(s) - i
          /\ i + (j - (i - 1)) = j + 1
      BY <2>2, <1>1, <1>2, <1>3, <1>4
    <3>2. behind[j - (i - 1)] = s[i + (j - (i - 1))]
      BY <3>1, <1>3
    <3>3. QED
      BY <2>2, <3>1, <3>2, <1>5
  <2>3. QED
    BY <2>1, <2>2
<1>7. RemoveAt(s, i) \in Seq(S)
  BY <1>4, <1>5
<1>8. Len(RemoveAt(s, i)) = Len(s) - 1
  <2>1. Len(before \o behind) = (i - 1) + (Len(s) - i)
    BY <1>2, <1>3, <1>4
  <2>2. QED
    BY <2>1, <1>1, <1>5
<1>9. QED
  BY <1>6, <1>7, <1>8

Alive == {"open", "closed", "reset"}
Newcoming == {"regAcquire", "regTest", "regList", "regAdd"}
Casting == {"bcAcquire", "bcCopy", "bcRelease", "bcSend"}
WorkerSteps == {"idle", "regDuplicate", "regRelease", "regSend"} \cup Newcoming \cup Casting
CheckerSteps ==
  {"dead", "ckAcquire", "ckCopy", "ckRelease", "ckSelect", "ckServe", "unAcquire", "unRemove", "unRelease"}
  \cup Casting

(* The thread that is about to list c, and the one that has removed it.      *)
Coming(th) == th \in Workers /\ at[th] \in Newcoming
Leaving == at[Checker] \in {"unRelease"} \cup Casting /\ kind[Checker] = "removed"

ListTyped ==
  /\ clientList \in Seq(Clients)
  /\ conn \in [Clients -> {"none", "accepted", "open", "closed", "reset", "done"}]
  /\ at \in [Threads -> Steps]
  /\ who \in [Threads -> Clients \cup {None}]
  /\ todo \in [Threads -> Seq(Clients)]
  /\ kind \in [Threads -> Kinds]

(* Workers register, the thread check_msgs does all the rest.                *)
Roles ==
  /\ \A th \in Workers : at[th] \in WorkerSteps /\ kind[th] = "added"
  /\ at[Checker] \in CheckerSteps

NamesOnce == \A i, j \in 1 .. Len(clientList) : Nick[clientList[i]] = Nick[clientList[j]] => i = j

(* Who is listed, or about to be told by check_msgs, has a connection;       *)
ConnectedOnes ==
  /\ \A c \in Listed : conn[c] \in Alive
  /\ \A c \in Range(todo[Checker]) : conn[c] \in Alive

(* so has who is about to be listed, by one worker only;                     *)
ComingOnes ==
  \A th \in Workers : Coming(th) =>
    /\ who[th] \in Clients \ Listed /\ conn[who[th]] \in Alive
    /\ \A u \in Workers : Coming(u) /\ who[u] = who[th] => u = th

(* and who was removed, and will never be listed again.                      *)
LeavingOne ==
  Leaving =>
    /\ who[Checker] \in Clients \ Listed /\ conn[who[Checker]] \in Alive
    /\ \A th \in Workers : Coming(th) => who[th] # who[Checker]

ListInv == ListTyped /\ Roles /\ NamesOnce /\ ConnectedOnes /\ ComingOnes /\ LeavingOne

ListVars == <<clientList, conn, at, who, todo, kind>>

LEMMA ListUnmoved ==
  ASSUME ListInv, UNCHANGED ListVars
  PROVE  ListInv'
BY DEF ListVars, ListInv, ListTyped, Roles, NamesOnce, ConnectedOnes, ComingOnes, LeavingOne, Coming, Leaving, Listed

(* A step that leaves the list alone and starts nothing: connections stay    *)
(* alive, nobody new is coming or leaving, and check_msgs is to tell listed  *)
(* clients only.                                                             *)
Calm ==
  /\ clientList' = clientList
  /\ \A c \in Clients : conn[c] \in Alive => conn'[c] \in Alive
  /\ \A th \in Workers : Coming(th)' => Coming(th) /\ who'[th] = who[th]
  /\ Leaving' => Leaving /\ who'[Checker] = who[Checker]
  /\ Range(todo'[Checker]) \subseteq Range(todo[Checker]) \cup Listed

LEMMA CalmKeeps ==
  ASSUME ListInv, ListTyped', Roles', Calm
  PROVE  ListInv'
<1>1. Listed' = Listed /\ Listed \subseteq Clients
  BY RangeIs DEF Listed, Calm, ListInv, ListTyped
<1>2. Range(todo[Checker]) \subseteq Clients
  BY RangeIs, CheckerIsThread DEF ListInv, ListTyped
<1>3. NamesOnce'
  BY DEF NamesOnce, Calm, ListInv
<1>4. ConnectedOnes'
  BY <1>1, <1>2 DEF ConnectedOnes, Calm, ListInv
<1>5. ComingOnes'
  <2>1. SUFFICES ASSUME NEW th \in Workers, Coming(th)'
                 PROVE  /\ who'[th] \in Clients \ Listed' /\ conn'[who'[th]] \in Alive
                        /\ \A u \in Workers : Coming(u)' /\ who'[u] = who'[th] => u = th
    BY DEF ComingOnes
  <2>2. Coming(th) /\ who'[th] = who[th]
    BY <2>1 DEF Calm
  <2>3. /\ who[th] \in Clients \ Listed /\ conn[who[th]] \in Alive
        /\ \A u \in Workers : Coming(u) /\ who[u] = who[th] => u = th
    BY <2>2 DEF ListInv, ComingOnes
  <2>4. QED
    BY <1>1, <2>2, <2>3 DEF Calm
<1>6. LeavingOne'
  <2>1. SUFFICES ASSUME Leaving'
                 PROVE  /\ who'[Checker] \in Clients \ Listed' /\ conn'[who'[Checker]] \in Alive
                        /\ \A th \in Workers : Coming(th)' => who'[th] # who'[Checker]
    BY DEF LeavingOne
  <2>2. Leaving /\ who'[Checker] = who[Checker]
    BY <2>1 DEF Calm
  <2>3. /\ who[Checker] \in Clients \ Listed /\ conn[who[Checker]] \in Alive
        /\ \A th \in Workers : Coming(th) => who[th] # who[Checker]
    BY <2>2 DEF ListInv, LeavingOne
  <2>4. QED
    BY <1>1, <2>2, <2>3 DEF Calm
<1>7. QED
  BY <1>3, <1>4, <1>5, <1>6 DEF ListInv

(* The role a thread has follows from the step it is at.                     *)
LEMMA RoleOf ==
  ASSUME NEW th \in Threads, ListInv
  PROVE  /\ at[th] \in {"regDuplicate", "regRelease", "regSend", "idle"} \cup Newcoming => th \in Workers
         /\ at[th] \in {"unAcquire", "unRemove", "unRelease"} => th = Checker
         /\ kind[th] = "removed" => th = Checker
BY DEF Threads, ListInv, Roles, WorkerSteps, CheckerSteps, Newcoming, Casting

(* A thread takes a step that starts nothing.                                *)
LEMMA StepKeeps ==
  ASSUME NEW th \in Threads, NEW step \in Steps, ListInv, ListTyped', Goto(th, step),
         clientList' = clientList,
         \A c \in Clients : conn[c] \in Alive => conn'[c] \in Alive,
         \A u \in Threads \ {th} : who'[u] = who[u] /\ kind'[u] = kind[u] /\ todo'[u] = todo[u],
         th \in Workers => /\ step \in WorkerSteps /\ kind'[th] = "added"
                           /\ step \in Newcoming => at[th] \in Newcoming /\ who'[th] = who[th],
         th = Checker => /\ step \in CheckerSteps
                         /\ step \in {"unRelease"} \cup Casting /\ kind'[th] = "removed" =>
                              Leaving /\ who'[th] = who[th]
                         /\ Range(todo'[th]) \subseteq Range(todo[th]) \cup Listed
  PROVE  ListInv'
<1>1. /\ at'[th] = step
      /\ \A u \in Threads \ {th} : at'[u] = at[u]
  BY DEF Goto, ListInv, ListTyped
<1>2. Workers \subseteq Threads /\ Checker \in Threads /\ Checker \notin Workers
  BY ChatAssumption DEF Threads
<1>3. Roles'
  <2>1. ASSUME NEW u \in Workers PROVE at'[u] \in WorkerSteps /\ kind'[u] = "added"
    <3>1. CASE u = th
      BY <3>1, <1>1
    <3>2. CASE u # th
      BY <3>2, <1>1, <1>2 DEF ListInv, Roles
    <3>3. QED
      BY <3>1, <3>2
  <2>2. at'[Checker] \in CheckerSteps
    BY <1>1, <1>2 DEF ListInv, Roles
  <2>3. QED
    BY <2>1, <2>2 DEF Roles
<1>4. Calm
  <2>1. \A u \in Workers : Coming(u)' => Coming(u) /\ who'[u] = who[u]
    BY <1>1, <1>2 DEF Coming
  <2>2. Leaving' => Leaving /\ who'[Checker] = who[Checker]
    BY <1>1, <1>2 DEF Leaving
  <2>3. Range(todo'[Checker]) \subseteq Range(todo[Checker]) \cup Listed
    BY <1>2
  <2>4. QED
    BY <2>1, <2>2, <2>3 DEF Calm
<1>5. QED
  BY <1>3, <1>4, CalmKeeps

(* The commonest step: only the thread's place changes.                      *)
LEMMA MoveKeeps ==
  ASSUME NEW th \in Threads, NEW step \in Steps, ListInv, Goto(th, step),
         UNCHANGED <<clientList, conn, who, todo, kind>>,
         th \in Workers => step \in WorkerSteps /\ (step \in Newcoming => at[th] \in Newcoming),
         th = Checker => step \in CheckerSteps /\ (step \in {"unRelease"} \cup Casting => at[th] \in {"unRelease"} \cup Casting)
  PROVE  ListInv'
<1>1. ListTyped'
  BY DEF ListInv, ListTyped, Goto
<1>2. th \in Workers => kind[th] = "added"
  BY DEF ListInv, Roles
<1>3. th = Checker /\ step \in {"unRelease"} \cup Casting /\ kind[th] = "removed" => Leaving
  BY DEF Leaving
<1>4. QED
  BY <1>1, <1>2, <1>3, StepKeeps

(* A handler that ends, with or without an exception, forgets its client.    *)
LEMMA EndKeeps ==
  ASSUME NEW th \in Threads, ListInv, Forget(th),
         th \in Workers => Goto(th, "idle"),
         th = Checker => Goto(th, "ckServe") \/ Goto(th, "dead"),
         clientList' = clientList, conn' = conn
  PROVE  ListInv'
<1>1. PICK step \in {"idle", "ckServe", "dead"} :
        Goto(th, step) /\ (th \in Workers => step = "idle") /\ (th = Checker => step # "idle")
  BY ChatAssumption DEF Threads
<1>2. step \in Steps
  BY DEF Steps
<1>3. ListTyped'
  <2>1. who' \in [Threads -> Clients \cup {None}] /\ kind' \in [Threads -> Kinds]
    BY DEF Forget, ListInv, ListTyped, Kinds
  <2>2. todo' \in [Threads -> Seq(Clients)]
    BY EmptySeq DEF Forget, ListInv, ListTyped
  <2>3. at' \in [Threads -> Steps]
    BY <1>1, <1>2 DEF Goto, ListInv, ListTyped
  <2>4. QED
    BY <2>1, <2>2, <2>3 DEF ListInv, ListTyped
<1>4. /\ kind'[th] = "added" /\ todo'[th] = << >>
      /\ \A u \in Threads \ {th} : who'[u] = who[u] /\ kind'[u] = kind[u] /\ todo'[u] = todo[u]
  BY DEF Forget, ListInv, ListTyped
<1>5. step \notin Newcoming /\ step \notin {"unRelease"} \cup Casting
  BY <1>1 DEF Newcoming, Casting
<1>6. (th \in Workers => step \in WorkerSteps) /\ (th = Checker => step \in CheckerSteps)
  BY <1>1 DEF WorkerSteps, CheckerSteps
<1>7. QED
  BY <1>1, <1>2, <1>3, <1>4, <1>5, <1>6, RangeEmpty, StepKeeps

LEMMA RaiseListed ==
  ASSUME NEW th \in Threads, ListInv, Raise(th), clientList' = clientList, conn' = conn
  PROVE  ListInv'
BY EndKeeps, ChatAssumption DEF Raise

LEMMA ReturnListed ==
  ASSUME NEW th \in Threads, ListInv, Return(th), clientList' = clientList, conn' = conn
  PROVE  ListInv'
BY EndKeeps, ChatAssumption DEF Return

(* A send ages the connection at most.                                       *)
LEMMA SendAges ==
  ASSUME NEW c, ListInv, AfterSend(c)
  PROVE  /\ conn' \in [Clients -> {"none", "accepted", "open", "closed", "reset", "done"}]
         /\ \A d \in Clients : conn[d] \in Alive => conn'[d] \in Alive
         /\ \A d \in Clients : conn'[d] = "open" => conn[d] = "open"
BY DEF AfterSend, Alive, ListInv, ListTyped

(* clientList[nickname] = ...: the newcomer is new, and its name is once.    *)
LEMMA RegAddListed ==
  ASSUME NEW th \in Threads, ListInv, RegAdd(th)
  PROVE  ListInv'
<1> DEFINE c == who[th]
           old == Named(Nick[c])
           list == IF old = {} THEN Append(clientList, c)
                   ELSE [i \in 1 .. Len(clientList) |-> IF i \in old THEN c ELSE clientList[i]]
<1>1. /\ th \in Workers /\ Coming(th) /\ at[th] = "regAdd"
      /\ clientList' = list
      /\ at' = [at EXCEPT ![th] = "regRelease"]
      /\ conn' = conn /\ who' = who /\ todo' = todo /\ kind' = kind
  BY RoleOf DEF RegAdd, Goto, Newcoming, Coming, peers, handler
<1>2. /\ c \in Clients \ Listed /\ conn[c] \in Alive
      /\ \A u \in Workers : Coming(u) /\ who[u] = c => u = th
  BY <1>1 DEF ListInv, ComingOnes
<1>3. /\ clientList \in Seq(Clients) /\ Len(clientList) \in Nat
      /\ Listed \subseteq Clients
      /\ \A i \in 1 .. Len(clientList) : clientList[i] \in Clients /\ clientList[i] \in Listed
  BY RangeIs DEF ListInv, ListTyped, Listed
<1>4. old = {i \in 1 .. Len(clientList) : Nick[clientList[i]] = Nick[c]}
  BY DEF Named
<1>5. \A i, j \in 1 .. Len(clientList) : Nick[clientList[i]] = Nick[clientList[j]] => i = j
  BY DEF ListInv, NamesOnce
<1> HIDE DEF c, old
<1>6. /\ list \in Seq(Clients) /\ Range(list) \subseteq Listed \cup {c}
      /\ \A i, j \in 1 .. Len(list) : Nick[list[i]] = Nick[list[j]] => i = j
  <2>1. CASE old = {}
    <3>1. /\ list \in Seq(Clients) /\ Len(list) = Len(clientList) + 1
          /\ \A i \in 1 .. Len(clientList) : list[i] = clientList[i]
          /\ list[Len(clientList) + 1] = c
      BY <2>1, <1>2, <1>3, AppendProperties
    <3>2. Range(list) = Listed \cup {c}
      BY <2>1, <1>2, <1>3, RangeAppend DEF Listed
    <3>3. \A i \in 1 .. Len(clientList) : Nick[clientList[i]] # Nick[c]
      BY <2>1, <1>4
    <3> HIDE DEF list
    <3>4. ASSUME NEW i \in 1 .. Len(list), NEW j \in 1 .. Len(list), Nick[list[i]] = Nick[list[j]]
          PROVE  i = j
      <4>1. CASE i = Len(clientList) + 1
        BY <4>1, <3>1, <3>3, <3>4, <1>3
      <4>2. CASE j = Len(clientList) + 1
        BY <4>2, <3>1, <3>3, <3>4, <1>3
      <4>3. CASE i \in 1 .. Len(clientList) /\ j \in 1 .. Len(clientList)
        BY <4>3, <3>1, <3>4, <1>5
      <4>4. QED
        BY <4>1, <4>2, <4>3, <3>1, <1>3
    <3>5. QED
      BY <3>1, <3>2, <3>4
  <2>2. CASE old # {}
    <3>1. list = [i \in 1 .. Len(clientList) |-> IF i \in old THEN c ELSE clientList[i]]
      BY <2>2
    <3> HIDE DEF list
    <3>2. list \in Seq(Clients) /\ Len(list) = Len(clientList)
      BY <3>1, <1>2, <1>3
    <3>3. \A i \in 1 .. Len(clientList) :
            list[i] = (IF i \in old THEN c ELSE clientList[i]) /\ Nick[list[i]] = Nick[clientList[i]]
      BY <3>1, <1>4
    <3>4. \A i \in 1 .. Len(list) : list[i] \in Listed \cup {c}
      BY <3>2, <3>3, <1>3
    <3>5. Range(list) \subseteq Listed \cup {c}
      BY <3>2, <3>4, RangeIs
    <3>6. QED
      BY <3>2, <3>3, <3>5, <1>5
  <2>3. QED
    BY <2>1, <2>2
<1> HIDE DEF list
<1>7. Listed' \subseteq Listed \cup {c}
  BY <1>1, <1>6 DEF Listed
<1>8. /\ at'[th] = "regRelease"
      /\ \A u \in Threads \ {th} : at'[u] = at[u]
  BY <1>1 DEF ListInv, ListTyped
<1>9. Workers \subseteq Threads /\ Checker \in Threads /\ Checker # th
  BY <1>1, ChatAssumption DEF Threads
<1>10. ListTyped'
  BY <1>1, <1>6 DEF ListInv, ListTyped, Steps, Critical
<1>11. Roles'
  BY <1>1, <1>8, <1>9 DEF ListInv, Roles, WorkerSteps
<1>12. NamesOnce'
  BY <1>1, <1>6 DEF NamesOnce
<1>13. ConnectedOnes'
  BY <1>1, <1>2, <1>3, <1>7 DEF ListInv, ConnectedOnes
<1>14. \A u \in Workers : Coming(u)' => Coming(u) /\ u # th
  BY <1>8, <1>9 DEF Coming, Newcoming
<1>15. ComingOnes'
  <2>1. SUFFICES ASSUME NEW u \in Workers, Coming(u)'
                 PROVE  /\ who'[u] \in Clients \ Listed' /\ conn'[who'[u]] \in Alive
                        /\ \A v \in Workers : Coming(v)' /\ who'[v] = who'[u] => v = u
    BY DEF ComingOnes
  <2>2. Coming(u) /\ who[u] # c
    BY <2>1, <1>2, <1>14
  <2>3. /\ who[u] \in Clients \ Listed /\ conn[who[u]] \in Alive
        /\ \A v \in Workers : Coming(v) /\ who[v] = who[u] => v = u
    BY <2>2 DEF ListInv, ComingOnes
  <2>4. QED
    BY <2>2, <2>3, <1>1, <1>7, <1>14
<1>16. LeavingOne'
  <2>1. Leaving' => Leaving
    BY <1>1, <1>8, <1>9 DEF Leaving
  <2>2. Leaving => who[Checker] # c
    BY <1>1 DEF ListInv, LeavingOne, c
  <2>3. QED
    BY <2>1, <2>2, <1>1, <1>7, <1>14 DEF ListInv, LeavingOne
<1>17. QED
  BY <1>10, <1>11, <1>12, <1>13, <1>15, <1>16 DEF ListInv

LEMMA RegisterListed ==
  ASSUME NEW th \in Threads, ListInv, Register(th)
  PROVE  ListInv'
<1>1. th \in Workers => th # Checker
  BY ChatAssumption
<1>2. CASE Acquire(th, "regAcquire", "regTest")
  BY <1>1, <1>2, MoveKeeps, RoleOf DEF Acquire, peers, handler, Steps, Critical, WorkerSteps, Newcoming
<1>3. CASE RegTest(th)
  <2>1. th \in Workers
    BY <1>3, RoleOf DEF RegTest, Newcoming
  <2>2. QED
    BY <1>1, <1>3, <2>1, MoveKeeps DEF RegTest, peers, handler, Steps, Critical, WorkerSteps, Newcoming
<1>4. CASE RegRefuse(th)
  <2>1. th \in Workers
    BY <1>4, RoleOf DEF RegRefuse, Newcoming
  <2>2. QED
    BY <1>1, <1>4, <2>1, MoveKeeps DEF RegRefuse, peers, handler, Steps, WorkerSteps, Newcoming
<1>5. CASE RegRefused(th)
  BY <1>5, ReturnListed DEF RegRefused, peers
<1>6. CASE RegList(th)
  <2>1. /\ th \in Workers /\ at[th] \in Newcoming /\ Goto(th, "regAdd")
        /\ todo' = [todo EXCEPT ![th] = clientList]
        /\ UNCHANGED <<clientList, conn, who, kind>>
    BY <1>6, RoleOf DEF RegList, Newcoming, peers
  <2>2. "regAdd" \in Steps /\ "regAdd" \in WorkerSteps
    BY DEF Steps, Critical, WorkerSteps, Newcoming
  <2>3. ListTyped'
    BY <2>1, <2>2 DEF ListInv, ListTyped, Goto
  <2>4. \A u \in Threads \ {th} : todo'[u] = todo[u]
    BY <2>1 DEF ListInv, ListTyped
  <2>5. kind[th] = "added"
    BY <2>1 DEF ListInv, Roles
  <2>6. QED
    BY <1>1, <2>1, <2>2, <2>3, <2>4, <2>5, StepKeeps
<1>7. CASE RegAdd(th)
  BY <1>7, RegAddListed
<1>8. CASE Release(th, "regRelease", "regSend")
  <2>1. th \in Workers
    BY <1>8, RoleOf DEF Release
  <2>2. QED
    BY <1>1, <1>8, <2>1, MoveKeeps DEF Release, peers, handler, Steps, WorkerSteps, Newcoming
<1>9. CASE RegSend(th)
  <2>1. /\ th \in Workers /\ Goto(th, "bcAcquire")
        /\ kind' = [kind EXCEPT ![th] = "added"]
        /\ AfterSend(who[th])
        /\ UNCHANGED <<clientList, who, todo>>
    BY <1>9, RoleOf DEF RegSend
  <2>2. "bcAcquire" \in Steps /\ "bcAcquire" \in WorkerSteps /\ "bcAcquire" \notin Newcoming
    BY DEF Steps, WorkerSteps, Casting, Newcoming
  <2>3. ListTyped'
    BY <2>1, <2>2, SendAges DEF ListInv, ListTyped, Goto, Kinds
  <2>4. kind'[th] = "added" /\ \A u \in Threads \ {th} : kind'[u] = kind[u]
    BY <2>1 DEF ListInv, ListTyped
  <2>5. QED
    BY <1>1, <2>1, <2>2, <2>3, <2>4, SendAges, StepKeeps
<1>10. CASE RegSendRaises(th)
  BY <1>10, RaiseListed DEF RegSendRaises, peers
<1>11. QED
  BY <1>2, <1>3, <1>4, <1>5, <1>6, <1>7, <1>8, <1>9, <1>10 DEF Register

(* clientList.pop: the removed client is the one of that name, and gone.     *)
LEMMA UnRemoveListed ==
  ASSUME NEW th \in Threads, ListInv, UnRemove(th)
  PROVE  ListInv'
<1>1. /\ th = Checker /\ UNCHANGED <<conn, todo>>
      /\ at' = [at EXCEPT ![Checker] = "unRelease"]
      /\ kind' = [kind EXCEPT ![Checker] = "removed"]
  BY RoleOf DEF UnRemove, Goto, peers
<1>2. PICK i \in 1 .. Len(clientList) :
        /\ clientList' = RemoveAt(clientList, i)
        /\ who' = [who EXCEPT ![Checker] = clientList[i]]
  BY <1>1 DEF UnRemove, Named
<1> DEFINE c == clientList[i]
           list == RemoveAt(clientList, i)
<1>3. /\ clientList \in Seq(Clients) /\ Len(clientList) \in Nat
      /\ Listed \subseteq Clients
      /\ \A j \in 1 .. Len(clientList) : clientList[j] \in Clients /\ clientList[j] \in Listed
  BY RangeIs DEF ListInv, ListTyped, Listed
<1>4. \A j, k \in 1 .. Len(clientList) : Nick[clientList[j]] = Nick[clientList[k]] => j = k
  BY DEF ListInv, NamesOnce
<1>5. /\ list \in Seq(Clients) /\ Len(list) = Len(clientList) - 1
      /\ \A j \in 1 .. Len(clientList) - 1 : list[j] = clientList[IF j < i THEN j ELSE j + 1]
  BY <1>3, RemoveAtIs
<1> HIDE DEF list
<1>6. \A j \in 1 .. Len(list) : \E k \in 1 .. Len(clientList) :
        k # i /\ list[j] = clientList[k] /\ k = (IF j < i THEN j ELSE j + 1)
  BY <1>3, <1>5
<1>7. Range(list) \subseteq Listed \ {c}
  <2>1. \A j \in 1 .. Len(list) : list[j] \in Listed /\ list[j] # c
    BY <1>3, <1>4, <1>6
  <2>2. QED
    BY <2>1, <1>5, RangeIs
<1>8. \A j, k \in 1 .. Len(list) : Nick[list[j]] = Nick[list[k]] => j = k
  <2>1. SUFFICES ASSUME NEW j \in 1 .. Len(list), NEW k \in 1 .. Len(list), Nick[list[j]] = Nick[list[k]]
                 PROVE  j = k
    OBVIOUS
  <2>2. PICK m \in 1 .. Len(clientList) : list[j] = clientList[m] /\ m = (IF j < i THEN j ELSE j + 1)
    BY <1>6
  <2>3. PICK n \in 1 .. Len(clientList) : list[k] = clientList[n] /\ n = (IF k < i THEN k ELSE k + 1)
    BY <1>6
  <2>4. m = n
    BY <2>1, <2>2, <2>3, <1>4
  <2>5. QED
    BY <2>2, <2>3, <2>4, <1>3, <1>5
<1>9. clientList' = list /\ Listed' \subseteq Listed \ {c} /\ c \in Clients /\ c \in Listed
  BY <1>2, <1>3, <1>7 DEF list, Listed
<1>10. Workers \subseteq Threads /\ Checker \in Threads /\ Checker \notin Workers
  BY ChatAssumption DEF Threads
<1>11. /\ at'[Checker] = "unRelease" /\ who'[Checker] = c
       /\ \A u \in Threads \ {Checker} : at'[u] = at[u] /\ who'[u] = who[u] /\ kind'[u] = kind[u]
  BY <1>1, <1>2, <1>10 DEF ListInv, ListTyped
<1>12. ListTyped'
  BY <1>1, <1>2, <1>5, <1>9 DEF ListInv, ListTyped, Steps, Critical, Kinds
<1>13. Roles'
  BY <1>10, <1>11 DEF ListInv, Roles, CheckerSteps
<1>14. NamesOnce'
  BY <1>8, <1>9 DEF NamesOnce
<1>15. ConnectedOnes'
  BY <1>1, <1>9 DEF ListInv, ConnectedOnes
<1>16. \A u \in Workers : (Coming(u)' <=> Coming(u)) /\ who'[u] = who[u]
  BY <1>10, <1>11 DEF Coming
<1>17. ComingOnes'
  BY <1>1, <1>9, <1>16 DEF ListInv, ComingOnes
<1>18. LeavingOne'
  <2>1. conn[c] \in Alive
    BY <1>9 DEF ListInv, ConnectedOnes
  <2>2. \A u \in Workers : Coming(u) => who[u] # c
    BY <1>9 DEF ListInv, ComingOnes
  <2>3. QED
    BY <2>1, <2>2, <1>1, <1>9, <1>11, <1>16 DEF LeavingOne
<1>19. QED
  BY <1>12, <1>13, <1>14, <1>15, <1>17, <1>18 DEF ListInv

(* removed_client[2].close(): nobody who is listed, coming or to be told by  *)
(* check_msgs loses a connection by it.                                      *)
LEMMA UnCloseListed ==
  ASSUME NEW th \in Threads, ListInv, UnClose(th)
  PROVE  ListInv'
<1>1. /\ th = Checker /\ Leaving /\ todo[Checker] = << >>
      /\ conn' = [conn EXCEPT ![who[Checker]] = "done"]
      /\ clientList' = clientList /\ Return(Checker)
  BY RoleOf DEF UnClose, Leaving, Casting
<1>2. /\ who[Checker] \in Clients \ Listed
      /\ \A u \in Workers : Coming(u) => who[u] # who[Checker]
  BY <1>1 DEF ListInv, LeavingOne
<1>3. Workers \subseteq Threads /\ Checker \in Threads /\ Checker \notin Workers
  BY ChatAssumption DEF Threads
<1>4. /\ at' = [at EXCEPT ![Checker] = "ckServe"]
      /\ who' = [who EXCEPT ![Checker] = None]
      /\ todo' = [todo EXCEPT ![Checker] = << >>]
      /\ kind' = [kind EXCEPT ![Checker] = "added"]
  BY <1>1 DEF Return, Goto, Forget
<1>5. /\ at'[Checker] = "ckServe" /\ kind'[Checker] = "added" /\ todo'[Checker] = << >>
      /\ \A u \in Threads \ {Checker} : at'[u] = at[u] /\ who'[u] = who[u] /\ kind'[u] = kind[u]
  BY <1>3, <1>4 DEF ListInv, ListTyped
<1>6. \A c \in Clients : c # who[Checker] => conn'[c] = conn[c]
  BY <1>1 DEF ListInv, ListTyped
<1>7. Listed' = Listed /\ Listed \subseteq Clients
  BY <1>1, RangeIs DEF Listed, ListInv, ListTyped
<1>8. ListTyped'
  <2>1. todo' \in [Threads -> Seq(Clients)]
    BY <1>4, EmptySeq DEF ListInv, ListTyped
  <2>2. QED
    BY <2>1, <1>1, <1>4 DEF ListInv, ListTyped, Steps, Kinds
<1>9. Roles'
  BY <1>3, <1>5 DEF ListInv, Roles, CheckerSteps
<1>10. NamesOnce'
  BY <1>1 DEF ListInv, NamesOnce
<1>11. ConnectedOnes'
  BY <1>2, <1>5, <1>6, <1>7, RangeEmpty DEF ListInv, ConnectedOnes
<1>12. \A u \in Workers : (Coming(u)' <=> Coming(u)) /\ who'[u] = who[u]
  BY <1>3, <1>5 DEF Coming
<1>13. ComingOnes'
  BY <1>2, <1>6, <1>7, <1>12 DEF ListInv, ComingOnes
<1>14. LeavingOne'
  BY <1>5 DEF LeavingOne, Leaving
<1>15. QED
  BY <1>8, <1>9, <1>10, <1>11, <1>13, <1>14 DEF ListInv

LEMMA UnregisterListed ==
  ASSUME NEW th \in Threads, ListInv, Unregister(th)
  PROVE  ListInv'
<1>1. CASE Acquire(th, "unAcquire", "unRemove")
  <2>1. th = Checker
    BY <1>1, RoleOf DEF Acquire
  <2>2. QED
    BY <1>1, <2>1, ChatAssumption, MoveKeeps DEF Acquire, peers, handler, Steps, Critical, CheckerSteps, Casting
<1>2. CASE UnRemove(th)
  BY <1>2, UnRemoveListed
<1>3. CASE Release(th, "unRelease", "bcAcquire")
  <2>1. th = Checker
    BY <1>3, RoleOf DEF Release
  <2>2. QED
    BY <1>3, <2>1, ChatAssumption, MoveKeeps DEF Release, peers, handler, Steps, CheckerSteps, Casting
<1>4. CASE UnClose(th)
  BY <1>4, UnCloseListed
<1>5. QED
  BY <1>1, <1>2, <1>3, <1>4 DEF Unregister

(* The list of a broadcast gets shorter; nothing else of the handler moves.  *)
LEMMA CastListed ==
  ASSUME NEW th \in Threads, ListInv, todo[th] # << >>,
         todo' = [todo EXCEPT ![th] = Tail(@)],
         UNCHANGED <<clientList, at, who, kind>>,
         conn' = conn \/ AfterSend(Head(todo[th]))
  PROVE  ListInv'
<1>1. Tail(todo[th]) \in Seq(Clients) /\ Range(Tail(todo[th])) \subseteq Range(todo[th])
  BY RangeTail DEF ListInv, ListTyped
<1>2. /\ conn' \in [Clients -> {"none", "accepted", "open", "closed", "reset", "done"}]
      /\ \A c \in Clients : conn[c] \in Alive => conn'[c] \in Alive
  BY SendAges DEF ListInv, ListTyped
<1>3. ListTyped'
  BY <1>1, <1>2 DEF ListInv, ListTyped
<1>4. Roles'
  BY DEF ListInv, Roles
<1>5. Range(todo'[Checker]) \subseteq Range(todo[Checker])
  BY <1>1, CheckerIsThread DEF ListInv, ListTyped
<1>6. Calm
  BY <1>2, <1>5 DEF Calm, Coming, Leaving
<1>7. QED
  BY <1>3, <1>4, <1>6, CalmKeeps

LEMMA BroadcastListed ==
  ASSUME NEW th \in Threads, ListInv, Broadcast(th)
  PROVE  ListInv'
<1>1. {"bcCopy", "bcRelease", "bcSend"} \subseteq Steps /\ Casting \subseteq WorkerSteps \cap CheckerSteps
      /\ Casting \cap Newcoming = {}
  BY DEF Steps, Critical, WorkerSteps, CheckerSteps, Casting, Newcoming
<1>2. CASE Acquire(th, "bcAcquire", "bcCopy")
  BY <1>1, <1>2, MoveKeeps DEF Acquire, peers, handler, Casting
<1>3. CASE BcCopy(th)
  <2>1. /\ at[th] = "bcCopy" /\ Goto(th, "bcRelease")
        /\ todo' = [todo EXCEPT ![th] = clientList]
        /\ UNCHANGED <<clientList, conn, who, kind>>
    BY <1>3 DEF BcCopy, peers
  <2>2. ListTyped'
    BY <2>1, <1>1 DEF ListInv, ListTyped, Goto
  <2>3. todo'[th] = clientList /\ \A u \in Threads \ {th} : todo'[u] = todo[u]
    BY <2>1 DEF ListInv, ListTyped
  <2>4. th \in Workers => kind[th] = "added"
    BY DEF ListInv, Roles
  <2>5. th = Checker /\ kind[th] = "removed" => Leaving
    BY <2>1 DEF Leaving, Casting
  <2>6. "bcRelease" \in Casting /\ "bcRelease" \in Steps
    BY <1>1 DEF Casting
  <2>7. th = Checker => Range(todo'[th]) \subseteq Range(todo[th]) \cup Listed
    BY <2>3 DEF Listed
  <2>8. QED
    BY <1>1, <2>1, <2>2, <2>3, <2>4, <2>5, <2>6, <2>7, StepKeeps
<1>4. CASE Release(th, "bcRelease", "bcSend")
  BY <1>1, <1>4, MoveKeeps DEF Release, peers, handler, Casting
<1>5. CASE BcSend(th)
  BY <1>5, CastListed DEF BcSend
<1>6. CASE BcSkip(th)
  BY <1>6, CastListed DEF BcSkip, peers
<1>7. CASE BcRaises(th)
  BY <1>7, RaiseListed DEF BcRaises, peers
<1>8. CASE BcEnd(th)
  BY <1>8, ReturnListed DEF BcEnd, peers
<1>9. QED
  BY <1>2, <1>3, <1>4, <1>5, <1>6, <1>7, <1>8 DEF Broadcast

LEMMA CheckMsgsListed ==
  ASSUME ListInv, CheckMsgs
  PROVE  ListInv'
<1> DEFINE Calls == {"ckAcquire", "ckCopy", "ckRelease", "ckSelect", "ckServe", "unAcquire"}
<1>1. /\ Calls \subseteq Steps /\ Calls \subseteq CheckerSteps
      /\ Calls \cap ({"unRelease"} \cup Casting) = {}
  BY DEF Steps, Critical, CheckerSteps, Casting
<1>2. Checker \in Threads /\ Checker \notin Workers
  BY ChatAssumption DEF Threads
<1>3. ASSUME NEW step \in Calls, Goto(Checker, step), UNCHANGED <<clientList, conn, who, todo, kind>>
      PROVE  ListInv'
  BY <1>1, <1>2, <1>3, MoveKeeps
<1>4. CASE Acquire(Checker, "ckAcquire", "ckCopy")
  BY <1>3, <1>4 DEF Acquire, peers, handler
<1>5. CASE CkCopy
  BY <1>3, <1>5 DEF CkCopy, peers, handler
<1>6. CASE Release(Checker, "ckRelease", "ckSelect")
  BY <1>3, <1>6 DEF Release, peers, handler
<1>7. CASE CkSelect
  BY <1>3, <1>7 DEF CkSelect, peers, handler
<1>8. CASE CkAgain
  BY <1>3, <1>8 DEF CkAgain, peers, handler
<1>9. ASSUME NEW c \in Clients, CkServe(c) PROVE ListInv'
  <2>1. PICK step \in {"unAcquire", "bcAcquire"} : Goto(Checker, step)
    BY <1>9 DEF CkServe
  <2>2. /\ who' = [who EXCEPT ![Checker] = c]
        /\ kind' = [kind EXCEPT ![Checker] = "message"]
        /\ UNCHANGED <<clientList, conn, todo>>
    BY <1>9 DEF CkServe
  <2>3. step \in Steps /\ step \in CheckerSteps
    BY DEF Steps, CheckerSteps, Casting
  <2>4. ListTyped'
    BY <2>1, <2>2, <2>3 DEF ListInv, ListTyped, Goto, Kinds
  <2>5. /\ kind'[Checker] = "message"
        /\ \A u \in Threads \ {Checker} : who'[u] = who[u] /\ kind'[u] = kind[u]
    BY <1>2, <2>2 DEF ListInv, ListTyped
  <2>6. QED
    BY <1>2, <2>1, <2>2, <2>3, <2>4, <2>5, StepKeeps
<1>10. ASSUME NEW c \in Clients, CkServeClosed(c) PROVE ListInv'
  BY <1>10, ListUnmoved DEF CkServeClosed, peers, handler, ListVars
<1>11. ASSUME NEW c \in Clients, CkReset(c) PROVE ListInv'
  <2>1. /\ Goto(Checker, "unAcquire")
        /\ who' = [who EXCEPT ![Checker] = c]
        /\ UNCHANGED <<clientList, conn, todo, kind>>
    BY <1>11 DEF CkReset, peers
  <2>2. ListTyped'
    BY <2>1, <1>1 DEF ListInv, ListTyped, Goto
  <2>3. \A u \in Threads \ {Checker} : who'[u] = who[u]
    BY <1>2, <2>1 DEF ListInv, ListTyped
  <2>4. "unAcquire" \in Calls
    OBVIOUS
  <2>5. QED
    BY <1>1, <1>2, <2>1, <2>2, <2>3, <2>4, StepKeeps
<1>12. ASSUME NEW c \in Clients, CkNoPeer(c) PROVE ListInv'
  BY <1>2, <1>12, RaiseListed DEF CkNoPeer, peers
<1>13. QED
  BY <1>4, <1>5, <1>6, <1>7, <1>8, <1>9, <1>10, <1>11, <1>12 DEF CheckMsgs

(* A worker takes a connection that nobody works for and nobody has listed.  *)
LEMMA TakeListed ==
  ASSUME NEW th \in Workers, NEW c \in Clients, ListInv, Take(th, c)
  PROVE  ListInv'
<1>1. /\ at[th] = "idle" /\ conn[c] = "accepted"
      /\ conn' = [conn EXCEPT ![c] = "open"]
      /\ at' = [at EXCEPT ![th] = "regAcquire"]
      /\ who' = [who EXCEPT ![th] = c]
      /\ UNCHANGED <<clientList, todo, kind>>
  BY DEF Take, Goto
<1>2. Workers \subseteq Threads /\ Checker \in Threads /\ Checker # th
  BY ChatAssumption DEF Threads
<1>3. /\ at'[th] = "regAcquire" /\ who'[th] = c /\ conn'[c] = "open"
      /\ \A u \in Threads \ {th} : at'[u] = at[u] /\ who'[u] = who[u]
      /\ \A d \in Clients \ {c} : conn'[d] = conn[d]
  BY <1>1, <1>2 DEF ListInv, ListTyped
<1>4. conn[c] \notin Alive
  BY <1>1 DEF Alive
<1>5. Listed' = Listed /\ Listed \subseteq Clients /\ c \notin Listed
  BY <1>1, <1>4, RangeIs DEF Listed, ListInv, ListTyped, ConnectedOnes
<1>6. ListTyped'
  BY <1>1 DEF ListInv, ListTyped, Steps
<1>7. Roles'
  BY <1>1, <1>2, <1>3 DEF ListInv, Roles, WorkerSteps, Newcoming
<1>8. NamesOnce'
  BY <1>1 DEF ListInv, NamesOnce
<1>9. \A d \in Clients : conn[d] \in Alive => conn'[d] \in Alive /\ d # c
  BY <1>3, <1>4
<1>10. Range(todo[Checker]) \subseteq Clients
  BY <1>2, RangeIs DEF ListInv, ListTyped
<1>11. ConnectedOnes'
  BY <1>1, <1>5, <1>9, <1>10 DEF ListInv, ConnectedOnes
<1>12. \A u \in Workers \ {th} : (Coming(u)' <=> Coming(u)) /\ who'[u] = who[u]
  BY <1>2, <1>3 DEF Coming
<1>13. \A u \in Workers \ {th} : Coming(u) => who[u] # c
  BY <1>4 DEF ListInv, ComingOnes
<1>14. ComingOnes'
  <2>1. SUFFICES ASSUME NEW u \in Workers, Coming(u)'
                 PROVE  /\ who'[u] \in Clients \ Listed' /\ conn'[who'[u]] \in Alive
                        /\ \A v \in Workers : Coming(v)' /\ who'[v] = who'[u] => v = u
    BY DEF ComingOnes
  <2>2. CASE u = th
    BY <2>2, <1>3, <1>5, <1>12, <1>13 DEF Alive
  <2>3. CASE u # th
    <3>1. Coming(u) /\ who'[u] = who[u] /\ who[u] # c
      BY <2>1, <2>3, <1>12, <1>13
    <3>2. /\ who[u] \in Clients \ Listed /\ conn[who[u]] \in Alive
          /\ \A v \in Workers : Coming(v) /\ who[v] = who[u] => v = u
      BY <3>1 DEF ListInv, ComingOnes
    <3>3. QED
      BY <3>1, <3>2, <1>3, <1>5, <1>9, <1>12
  <2>4. QED
    BY <2>2, <2>3
<1>15. LeavingOne'
  <2>1. (Leaving' <=> Leaving) /\ who'[Checker] = who[Checker]
    BY <1>1, <1>2, <1>3 DEF Leaving
  <2>2. Leaving => who[Checker] # c
    BY <1>4 DEF ListInv, LeavingOne
  <2>3. QED
    BY <2>1, <2>2, <1>3, <1>5, <1>9, <1>12 DEF ListInv, LeavingOne
<1>16. QED
  BY <1>6, <1>7, <1>8, <1>11, <1>14, <1>15 DEF ListInv

LEMMA NextListed ==
  ASSUME ListInv, [Next]_vars
  PROVE  ListInv'
<1>1. CASE \E th \in Threads : ReleaseRaises(th)
  BY <1>1, RaiseListed DEF ReleaseRaises, peers
<1>2. CASE \E c \in Clients : Connect(c) \/ Disconnect(c)
  <2>1. PICK c \in Clients : Connect(c) \/ Disconnect(c)
    BY <1>2
  <2>2. /\ conn' \in [Clients -> {"none", "accepted", "open", "closed", "reset", "done"}]
        /\ \A d \in Clients : conn[d] \in Alive => conn'[d] \in Alive
        /\ UNCHANGED <<clientList, at, who, todo, kind>>
    BY <2>1 DEF Connect, Disconnect, handler, Alive, ListInv, ListTyped
  <2>3. Calm
    BY <2>2 DEF Calm, Coming, Leaving
  <2>4. ListTyped' /\ Roles'
    BY <2>2 DEF ListInv, ListTyped, Roles
  <2>5. QED
    BY <2>3, <2>4, CalmKeeps
<1>3. CASE \E c \in Clients, r \in Requests : Request(c, r)
  BY <1>3, ListUnmoved DEF Request, handler, ListVars
<1>4. CASE UNCHANGED vars
  BY <1>4, ListUnmoved DEF vars, peers, handler, ListVars
<1>5. QED
  BY <1>1, <1>2, <1>3, <1>4, RegisterListed, UnregisterListed, BroadcastListed, CheckMsgsListed, TakeListed
  DEF Next

LEMMA InitListed ==
  ASSUME Init
  PROVE  ListInv
<1>1. /\ clientList = << >> /\ conn = [c \in Clients |-> "none"]
      /\ at = [th \in Threads |-> IF th = Checker THEN "ckAcquire" ELSE "idle"]
      /\ who = [th \in Threads |-> None] /\ todo = [th \in Threads |-> << >>]
      /\ kind = [th \in Threads |-> "added"]
  BY DEF Init
<1>2. Workers \subseteq Threads /\ Checker \in Threads /\ Checker \notin Workers
  BY ChatAssumption DEF Threads
<1>3. ListTyped
  <2>1. clientList \in Seq(Clients) /\ todo \in [Threads -> Seq(Clients)]
    BY <1>1, EmptySeq
  <2>2. QED
    BY <1>1, <2>1 DEF ListTyped, Steps, Critical, Kinds
<1>4. Roles
  BY <1>1, <1>2 DEF Roles, WorkerSteps, CheckerSteps
<1>5. NamesOnce
  BY <1>1 DEF NamesOnce
<1>6. ConnectedOnes
  BY <1>1, <1>2, RangeEmpty DEF ConnectedOnes, Listed
<1>7. ComingOnes /\ LeavingOne
  BY <1>1, <1>2 DEF ComingOnes, LeavingOne, Coming, Leaving, Newcoming
<1>8. QED
  BY <1>3, <1>4, <1>5, <1>6, <1>7 DEF ListInv

-----------------------------------------------------------------------------
(* What ends check_msgs                                                      *)

LEMMA StolenStays ==
  ASSUME stolen, LockInv, [Next]_vars
  PROVE  stolen'
BY DEF Next, vars, history, Register, Unregister, Broadcast, CheckMsgs, Acquire, Release, ReleaseRaises, RegTest, RegRefuse,
  RegRefused, RegList, RegAdd, RegSend, RegSendRaises, UnRemove, UnClose, BcCopy, BcSend, BcSkip, BcRaises, BcEnd,
  CkCopy, CkSelect, CkServe, CkServeClosed, CkReset, CkNoPeer, CkAgain, Take, Connect, Disconnect, Request, LockInv, LockTyped

(* A connection that was reset is so until its client is unregistered.       *)
LEMMA ResetStays ==
  ASSUME ListInv, [Next]_vars, NEW c \in Clients, conn[c] = "reset"
  PROVE  conn'[c] = "reset" \/ UnClose(Checker)
<1>1. CASE \E th \in Threads : Register(th)
  BY <1>1 DEF Register, Acquire, Release, RegTest, RegRefuse, RegRefused, RegList, RegAdd, RegSend, RegSendRaises,
    AfterSend, peers, ListInv, ListTyped
<1>2. CASE \E th \in Threads : Unregister(th)
  <2>1. PICK th \in Threads : Unregister(th)
    BY <1>2
  <2>2. UnClose(th) => th = Checker
    BY RoleOf DEF UnClose
  <2>3. QED
    BY <2>1, <2>2 DEF Unregister, Acquire, Release, UnRemove, peers
<1>3. CASE \E th \in Threads : Broadcast(th) \/ ReleaseRaises(th)
  BY <1>3 DEF Broadcast, ReleaseRaises, Acquire, Release, BcCopy, BcSend, BcSkip, BcRaises, BcEnd,
    AfterSend, peers, ListInv, ListTyped
<1>4. CASE CheckMsgs
  BY <1>4 DEF CheckMsgs, Acquire, Release, CkCopy, CkSelect, CkServe, CkServeClosed, CkReset, CkNoPeer, CkAgain, peers
<1>5. CASE \E th \in Workers, d \in Clients : Take(th, d)
  BY <1>5 DEF Take, ListInv, ListTyped
<1>6. CASE \E d \in Clients : Connect(d) \/ Disconnect(d) \/ \E r \in Requests : Request(d, r)
  BY <1>6 DEF Connect, Disconnect, Request, ListInv, ListTyped
<1>7. CASE UNCHANGED vars
  BY <1>7 DEF vars, peers
<1>8. QED
  BY <1>1, <1>2, <1>3, <1>4, <1>5, <1>6, <1>7 DEF Next

(* check_msgs dies of its own release that finds the lock free, which only a *)
(* theft explains, or of a peer that is gone: whom it tells is connected.    *)
LEMMA DiesOf ==
  ASSUME ListInv, LockInv, [Next]_vars, at'[Checker] = "dead"
  PROVE  at[Checker] = "dead" \/ stolen \/ \E c \in Clients : conn[c] = "reset"
<1> DEFINE Live == at[Checker] = "dead" \/ stolen \/ \E c \in Clients : conn[c] = "reset"
<1>1. Checker \in Threads /\ Checker \notin Workers /\ at \in [Threads -> Steps]
  BY ChatAssumption DEF Threads, ListInv, ListTyped
<1>2. ASSUME NEW th \in Threads, NEW step, Goto(th, step), step # "dead" PROVE Live
  BY <1>1, <1>2 DEF Goto
<1>3. ASSUME NEW th \in Threads, Return(th) PROVE Live
  <2>1. PICK step \in {"ckServe", "idle"} : Goto(th, step)
    BY <1>3 DEF Return
  <2>2. QED
    BY <2>1, <1>2
<1>4. ASSUME NEW th \in Threads, Raise(th), th # Checker PROVE Live
  BY <1>2, <1>4 DEF Raise
<1>5. ASSUME NEW th \in Threads, Register(th) PROVE Live
  <2>1. CASE RegSendRaises(th)
    <3>1. th \in Workers
      BY <2>1, RoleOf DEF RegSendRaises
    <3>2. QED
      BY <3>1, <2>1, <1>1, <1>4 DEF RegSendRaises
  <2>2. CASE RegRefused(th)
    BY <2>2, <1>3 DEF RegRefused
  <2>3. CASE ~RegSendRaises(th) /\ ~RegRefused(th)
    BY <2>3, <1>2, <1>5 DEF Register, Acquire, Release, RegTest, RegRefuse, RegList, RegAdd, RegSend
  <2>4. QED
    BY <2>1, <2>2, <2>3
<1>6. ASSUME NEW th \in Threads, Unregister(th) PROVE Live
  <2>1. CASE UnClose(th)
    BY <2>1, <1>3 DEF UnClose
  <2>2. CASE ~UnClose(th)
    BY <2>2, <1>2, <1>6 DEF Unregister, Acquire, Release, UnRemove
  <2>3. QED
    BY <2>1, <2>2
<1>7. ASSUME NEW th \in Threads, Broadcast(th) PROVE Live
  <2>1. CASE BcRaises(th) /\ th = Checker
    <3>1. /\ todo[Checker] # << >> /\ ~Sendable(Head(todo[Checker]))
      BY <2>1 DEF BcRaises
    <3>2. Head(todo[Checker]) \in Clients /\ Head(todo[Checker]) \in Range(todo[Checker])
      BY <3>1, <1>1, RangeTail DEF ListInv, ListTyped
    <3>3. conn[Head(todo[Checker])] \in Alive
      BY <3>2 DEF ListInv, ConnectedOnes
    <3>4. QED
      BY <3>1, <3>2, <3>3 DEF Sendable, Alive
  <2>2. CASE BcRaises(th) /\ th # Checker
    BY <2>2, <1>4 DEF BcRaises
  <2>3. CASE BcEnd(th)
    BY <2>3, <1>3 DEF BcEnd
  <2>4. CASE BcSend(th) \/ BcSkip(th)
    BY <2>4 DEF BcSend, BcSkip
  <2>5. CASE ~BcRaises(th) /\ ~BcEnd(th) /\ ~BcSend(th) /\ ~BcSkip(th)
    BY <2>5, <1>2, <1>7 DEF Broadcast, Acquire, Release, BcCopy
  <2>6. QED
    BY <2>1, <2>2, <2>3, <2>4, <2>5
<1>8. ASSUME NEW th \in Threads, ReleaseRaises(th) PROVE Live
  <2>1. CASE th = Checker
    <3>1. at[Checker] \in Critical /\ lock = None
      BY <2>1, <1>1, <1>8, RoleOf DEF ReleaseRaises, Critical
    <3>2. QED
      BY <3>1, <1>1, NoneIsNoThread DEF LockInv, LockOwned
  <2>2. CASE th # Checker
    BY <2>2, <1>4, <1>8 DEF ReleaseRaises
  <2>3. QED
    BY <2>1, <2>2
<1>9. ASSUME CheckMsgs PROVE Live
  <2>1. ASSUME NEW c \in Clients, CkNoPeer(c) PROVE Live
    BY <2>1 DEF CkNoPeer
  <2>2. ASSUME NEW c \in Clients, CkServe(c) PROVE Live
    BY <2>2, <1>1, <1>2 DEF CkServe
  <2>3. ASSUME NEW c \in Clients, CkServeClosed(c) PROVE Live
    BY <2>3 DEF CkServeClosed
  <2>4. ASSUME NEW c \in Clients, CkReset(c) PROVE Live
    BY <2>4, <1>1, <1>2 DEF CkReset
  <2>5. CASE Acquire(Checker, "ckAcquire", "ckCopy") \/ CkCopy \/ Release(Checker, "ckRelease", "ckSelect") \/ CkSelect \/ CkAgain
    BY <2>5, <1>1, <1>2 DEF Acquire, Release, CkCopy, CkSelect, CkAgain
  <2>6. QED
    BY <2>1, <2>2, <2>3, <2>4, <2>5, <1>9 DEF CheckMsgs
<1>10. ASSUME NEW th \in Workers, NEW c \in Clients, Take(th, c) PROVE Live
  BY <1>10, <1>2 DEF Take, Threads
<1>11. CASE UNCHANGED at
  BY <1>11
<1>12. QED
  BY <1>5, <1>6, <1>7, <1>8, <1>9, <1>10, <1>11 DEF Next, Connect, Disconnect, Request, vars

(* The thread that reads all later requests dies only of a peer that went    *)
(* away without a word or of a lock taken by a doubled release, for any      *)
(* number of clients and workers and whatever their nicknames.               *)
THEOREM CheckerLivesHolds == Safe => []CheckerLives
<1>1. Init => LockInv /\ ListInv /\ CheckerLives
  <2>1. Init => at[Checker] = "ckAcquire"
    BY CheckerIsThread DEF Init
  <2>2. QED
    BY <2>1, InitLock, InitListed DEF CheckerLives
<1>2. LockInv /\ ListInv /\ CheckerLives /\ [Next]_vars => LockInv' /\ ListInv' /\ CheckerLives'
  <2> SUFFICES ASSUME LockInv, ListInv, CheckerLives, [Next]_vars
               PROVE  LockInv' /\ ListInv' /\ CheckerLives'
    OBVIOUS
  <2>1. LockInv' /\ ListInv'
    BY NextKeeps, NextListed
  <2>2. CheckerLives'
    <3>1. SUFFICES ASSUME at'[Checker] = "dead"
                   PROVE  stolen' \/ \E c \in Clients : conn'[c] = "reset"
      BY DEF CheckerLives
    <3>2. stolen \/ \E c \in Clients : conn[c] = "reset"
      BY <3>1, DiesOf DEF CheckerLives
    <3>3. ~UnClose(Checker)
      <4>1. UnClose(Checker) => Goto(Checker, "ckServe")
        BY DEF UnClose, Return
      <4>2. QED
        BY <4>1, <3>1, CheckerIsThread DEF Goto, ListInv, ListTyped
    <3>4. QED
      BY <3>2, <3>3, StolenStays, ResetStays
  <2>3. QED
    BY <2>1, <2>2
<1>3. QED
  BY <1>1, <1>2, PTL DEF Safe

-----------------------------------------------------------------------------
(* Who knows whom                                                            *)

(* c is about to get the list with d in it; c is to get the news of d.       *)
ListComing(th, c, d) == at[th] \in {"regRelease", "regSend"} /\ who[th] = c /\ d \in Range(todo[th])
NewsComing(th, c, d) ==
  /\ who[th] = d
  /\ \/ at[th] \in {"regRelease", "regSend", "bcAcquire", "bcCopy"}
     \/ at[th] \in {"bcRelease", "bcSend"} /\ c \in Range(todo[th])
Telling(th, c, d) == ListComing(th, c, d) \/ NewsComing(th, c, d)

(* Under the lock the list a newcomer gets has all whom the entry joins;     *)
CopyExact == ~stolen => \A th \in Workers : at[th] = "regAdd" => Range(todo[th]) = Listed

(* from then on, of two listed clients, each knows the other or is about to. *)
Informed ==
  ~stolen => \A c, d \in Listed \ raised :
    conn[c] = "open" /\ c # d => d \in view[c] \/ \E th \in Workers : Telling(th, c, d)

TellInv == DOMAIN view = Clients /\ CopyExact /\ Informed

TellVars == <<ListVars, view, raised, stolen>>

LEMMA TellUnmoved ==
  ASSUME TellInv, UNCHANGED TellVars
  PROVE  TellInv'
BY DEF TellVars, ListVars, TellInv, CopyExact, Informed, Telling, ListComing, NewsComing, Listed

(* A step of th that leaves the list alone and forgets no news.              *)
LEMMA TellCalm ==
  ASSUME NEW th \in Threads, TellInv, stolen => stolen',
         clientList' = clientList, raised \subseteq raised', DOMAIN view' = Clients,
         \A c \in Listed : conn'[c] = "open" => conn[c] = "open",
         \A c, d \in Listed : d \in view[c] => d \in view'[c],
         \A u \in Workers \ {th} : at'[u] = at[u] /\ who'[u] = who[u] /\ todo'[u] = todo[u],
         th \in Workers /\ at'[th] = "regAdd" =>
           Range(todo'[th]) = Listed \/ (at[th] = "regAdd" /\ todo'[th] = todo[th]),
         \A c, d \in Listed \ raised' :
           th \in Workers /\ conn'[c] = "open" /\ c # d /\ Telling(th, c, d) => d \in view'[c] \/ Telling(th, c, d)'
  PROVE  TellInv'
<1>1. Listed' = Listed
  BY DEF Listed
<1>2. CopyExact'
  <2>1. SUFFICES ASSUME ~stolen', NEW u \in Workers, at'[u] = "regAdd"
                 PROVE  Range(todo'[u]) = Listed
    BY <1>1 DEF CopyExact
  <2>2. \A v \in Workers : at[v] = "regAdd" => Range(todo[v]) = Listed
    BY <2>1 DEF TellInv, CopyExact
  <2>3. CASE u = th
    BY <2>1, <2>2, <2>3
  <2>4. CASE u # th
    BY <2>1, <2>2, <2>4
  <2>5. QED
    BY <2>3, <2>4
<1>3. Informed'
  <2>1. SUFFICES ASSUME ~stolen', NEW c \in Listed \ raised', NEW d \in Listed \ raised', conn'[c] = "open", c # d
                 PROVE  d \in view'[c] \/ \E u \in Workers : Telling(u, c, d)'
    BY <1>1 DEF Informed
  <2>2. d \in view[c] \/ \E u \in Workers : Telling(u, c, d)
    BY <2>1 DEF TellInv, Informed
  <2>3. CASE d \in view[c]
    BY <2>1, <2>3
  <2>4. ASSUME NEW u \in Workers, Telling(u, c, d)
        PROVE  d \in view'[c] \/ \E v \in Workers : Telling(v, c, d)'
    <3>1. CASE u = th
      BY <2>1, <2>4, <3>1
    <3>2. CASE u # th
      <4>1. Telling(u, c, d)'
        BY <2>4, <3>2 DEF Telling, ListComing, NewsComing
      <4>2. QED
        BY <4>1
    <3>3. QED
      BY <3>1, <3>2
  <2>5. QED
    BY <2>2, <2>3, <2>4
<1>4. QED
  BY <1>2, <1>3 DEF TellInv

(* A step that changes only where a thread is, or ends its handler.          *)
Outside == {"idle", "dead", "regAcquire", "regTest", "regList", "regAdd", "regDuplicate", "unAcquire", "unRemove",
            "unRelease", "ckAcquire", "ckCopy", "ckRelease", "ckSelect", "ckServe"}

LEMMA OutsideTellsNobody ==
  ASSUME NEW th, at[th] \in Outside, NEW c, NEW d
  PROVE  ~Telling(th, c, d)
BY DEF Telling, ListComing, NewsComing, Outside

LEMMA TellMoves ==
  ASSUME NEW th \in Threads, NEW step, ListInv, TellInv, stolen => stolen', Goto(th, step),
         UNCHANGED <<clientList, conn, view, who, todo>>, raised \subseteq raised',
         step = "regAdd" => at[th] = "regAdd",
         \A c, d \in Listed : Telling(th, c, d) =>
           \/ at[th] \in {"regRelease"} /\ step = "regSend"
           \/ at[th] = "bcAcquire" /\ step = "bcCopy"
           \/ at[th] = "bcRelease" /\ step = "bcSend"
  PROVE  TellInv'
<1>1. Workers \subseteq Threads
  BY DEF Threads
<1>2. /\ at'[th] = step
      /\ \A u \in Threads \ {th} : at'[u] = at[u]
  BY DEF Goto, ListInv, ListTyped
<1>3. \A c, d \in Listed : Telling(th, c, d) => Telling(th, c, d)'
  BY <1>2 DEF Telling, ListComing, NewsComing
<1>4. DOMAIN view' = Clients
  BY DEF TellInv
<1>5. QED
  BY <1>1, <1>2, <1>3, <1>4, TellCalm

(* Who raises is nobody others must know, or be told by: it is in raised.    *)
LEMMA RaiseTells ==
  ASSUME NEW th \in Threads, ListInv, TellInv, stolen => stolen', Raise(th),
         UNCHANGED <<clientList, conn, view>>
  PROVE  TellInv'
<1>1. PICK step \in {"dead", "idle"} : at' = [at EXCEPT ![th] = step]
  BY DEF Raise, Goto
<1>2. Workers \subseteq Threads
  BY DEF Threads
<1>3. /\ at'[th] # "regAdd" /\ raised' = raised \cup {who[th]}
      /\ \A u \in Threads \ {th} : at'[u] = at[u] /\ who'[u] = who[u] /\ todo'[u] = todo[u]
  BY <1>1 DEF Raise, Forget, ListInv, ListTyped
<1>4. \A c, d \in Listed \ raised' : ~Telling(th, c, d)
  BY <1>3 DEF Telling, ListComing, NewsComing
<1>5. DOMAIN view' = Clients
  BY DEF TellInv
<1>6. QED
  BY <1>2, <1>3, <1>4, <1>5, TellCalm

(* Who returns has told all.                                                 *)
LEMMA ReturnTells ==
  ASSUME NEW th \in Threads, ListInv, TellInv, stolen => stolen', Return(th),
         UNCHANGED <<clientList, view, raised>>,
         \A c \in Listed : conn'[c] = "open" => conn[c] = "open",
         at[th] = "regDuplicate" \/ (at[th] = "bcSend" /\ todo[th] = << >>)
  PROVE  TellInv'
<1>1. PICK step \in {"ckServe", "idle"} : at' = [at EXCEPT ![th] = step]
  BY DEF Return, Goto
<1>2. Workers \subseteq Threads
  BY DEF Threads
<1>3. /\ at'[th] # "regAdd"
      /\ \A u \in Threads \ {th} : at'[u] = at[u] /\ who'[u] = who[u] /\ todo'[u] = todo[u]
  BY <1>1 DEF Return, Forget, ListInv, ListTyped
<1>4. \A c, d \in Listed : ~Telling(th, c, d)
  BY RangeEmpty DEF Telling, ListComing, NewsComing
<1>5. DOMAIN view' = Clients
  BY DEF TellInv
<1>6. QED
  BY <1>2, <1>3, <1>4, <1>5, TellCalm

(* Two threads are never both about to change the list, while no release has *)
(* hit someone else's lock.                                                  *)
LEMMA ListersExclude ==
  ASSUME LockInv, ~stolen, NEW th \in Threads, NEW u \in Threads,
         at[th] \in Critical, at[u] \in Critical
  PROVE  th = u
BY DEF LockInv, LockOwned

(* The newcomer's own list is complete, and it will be news to all others.   *)
LEMMA RegAddTells ==
  ASSUME NEW th \in Threads, LockInv, ListInv, TellInv, stolen => stolen', RegAdd(th)
  PROVE  TellInv'
<1>1. /\ at[th] = "regAdd" /\ at' = [at EXCEPT ![th] = "regRelease"]
      /\ th \in Workers /\ UNCHANGED <<conn, view, who, todo, raised, stolen>>
  BY RoleOf DEF RegAdd, Goto, Newcoming, peers, handler, history
<1>2. Workers \subseteq Threads
  BY DEF Threads
<1>3. /\ at'[th] = "regRelease"
      /\ \A u \in Threads \ {th} : at'[u] = at[u]
  BY <1>1 DEF ListInv, ListTyped
<1>4. Listed' \subseteq Listed \cup {who[th]}
  <2> DEFINE c == who[th]
             old == Named(Nick[c])
             list == [i \in 1 .. Len(clientList) |-> IF i \in old THEN c ELSE clientList[i]]
  <2>1. c \in Clients /\ clientList \in Seq(Clients) /\ Len(clientList) \in Nat
    BY <1>1 DEF ListInv, ListTyped, ComingOnes, Coming, Newcoming
  <2>2. clientList' = IF old = {} THEN Append(clientList, c) ELSE list
    BY DEF RegAdd
  <2> HIDE DEF c, old
  <2>3. Range(Append(clientList, c)) = Listed \cup {c}
    BY <2>1, RangeAppend DEF Listed
  <2>4. \A i \in 1 .. Len(clientList) : list[i] \in Listed \cup {c}
    BY <2>1, RangeIs DEF Listed
  <2>5. Range(list) \subseteq Listed \cup {c}
    BY <2>4 DEF Range
  <2>6. Listed' \subseteq Listed \cup {c}
    BY <2>2, <2>3, <2>5 DEF Listed
  <2>7. QED
    BY <2>6 DEF c
<1>5. CopyExact'
  <2>1. SUFFICES ASSUME ~stolen', NEW u \in Workers, at'[u] = "regAdd"
                 PROVE  FALSE
    BY DEF CopyExact
  <2>2. u # th /\ at[u] = "regAdd"
    BY <2>1, <1>2, <1>3
  <2>3. QED
    BY <2>1, <2>2, <1>1, <1>2, ListersExclude DEF Critical
<1>6. Informed'
  <2>1. SUFFICES ASSUME ~stolen', NEW c \in Listed' \ raised', NEW d \in Listed' \ raised', conn'[c] = "open", c # d
                 PROVE  d \in view'[c] \/ \E u \in Workers : Telling(u, c, d)'
    BY DEF Informed
  <2>2. CASE d = who[th]
    <3>1. Telling(th, c, d)'
      BY <2>2, <1>1, <1>3 DEF Telling, NewsComing
    <3>2. QED
      BY <3>1, <1>1
  <2>3. CASE c = who[th] /\ d # who[th]
    <3>1. d \in Range(todo[th])
      BY <2>1, <2>3, <1>1, <1>4 DEF TellInv, CopyExact
    <3>2. Telling(th, c, d)'
      BY <2>3, <3>1, <1>1, <1>3 DEF Telling, ListComing
    <3>3. QED
      BY <3>2, <1>1
  <2>4. CASE c # who[th] /\ d # who[th]
    <3>1. d \in view[c] \/ \E u \in Workers : Telling(u, c, d)
      BY <2>1, <2>4, <1>1, <1>4 DEF TellInv, Informed
    <3>2. ASSUME NEW u \in Workers, Telling(u, c, d) PROVE Telling(u, c, d)' /\ u # th
      <4>1. u # th
        BY <3>2, <1>1 DEF Telling, ListComing, NewsComing
      <4>2. QED
        BY <4>1, <3>2, <1>1, <1>2, <1>3 DEF Telling, ListComing, NewsComing
    <3>3. QED
      BY <3>1, <3>2, <1>1
  <2>5. QED
    BY <2>2, <2>3, <2>4
<1>7. QED
  BY <1>1, <1>5, <1>6 DEF TellInv

LEMMA RegisterTells ==
  ASSUME NEW th \in Threads, LockInv, ListInv, TellInv, stolen => stolen', Register(th)
  PROVE  TellInv'
<1>1. \A c, d \in Listed : at[th] \in {"regAcquire", "regTest", "regList"} => ~Telling(th, c, d)
  BY OutsideTellsNobody DEF Outside
<1>2. CASE Acquire(th, "regAcquire", "regTest")
  BY <1>1, <1>2, TellMoves DEF Acquire, peers, handler, history
<1>3. CASE RegTest(th)
  BY <1>1, <1>3, TellMoves DEF RegTest, peers, handler, history
<1>4. CASE RegRefuse(th)
  BY <1>1, <1>4, TellMoves DEF RegRefuse, peers, handler
<1>5. CASE RegRefused(th)
  BY <1>5, ReturnTells DEF RegRefused, peers
<1>6. CASE RegList(th)
  <2>1. /\ at[th] = "regList" /\ at' = [at EXCEPT ![th] = "regAdd"]
        /\ todo' = [todo EXCEPT ![th] = clientList]
        /\ UNCHANGED <<clientList, conn, view, who, raised>>
    BY <1>6 DEF RegList, Goto, peers, history
  <2>2. /\ todo'[th] = clientList
        /\ \A u \in Threads \ {th} : at'[u] = at[u] /\ todo'[u] = todo[u]
    BY <2>1 DEF ListInv, ListTyped
  <2>3. Range(todo'[th]) = Listed
    BY <2>2 DEF Listed
  <2>4. Workers \subseteq Threads /\ DOMAIN view' = Clients
    BY <2>1 DEF Threads, TellInv
  <2>5. QED
    BY <1>1, <2>1, <2>2, <2>3, <2>4, TellCalm
<1>7. CASE RegAdd(th)
  BY <1>7, RegAddTells
<1>8. CASE Release(th, "regRelease", "regSend")
  BY <1>8, TellMoves DEF Release, peers, handler
<1>9. CASE RegSend(th)
  <2>1. /\ at[th] = "regSend" /\ at' = [at EXCEPT ![th] = "bcAcquire"]
        /\ AfterSend(who[th])
        /\ view' = [view EXCEPT ![who[th]] = @ \cup Range(todo[th])]
        /\ UNCHANGED <<clientList, who, todo, raised>>
    BY <1>9 DEF RegSend, Goto, history
  <2>2. /\ at'[th] = "bcAcquire"
        /\ \A u \in Threads \ {th} : at'[u] = at[u]
    BY <2>1 DEF ListInv, ListTyped
  <2>3. Listed \subseteq Clients
    BY RangeIs DEF Listed, ListInv, ListTyped
  <2>4. /\ DOMAIN view' = Clients
        /\ \A c, d \in Listed : d \in view[c] => d \in view'[c]
        /\ \A c, d \in Listed : c = who[th] /\ d \in Range(todo[th]) => d \in view'[c]
    BY <2>1, <2>3 DEF TellInv
  <2>5. \A c, d \in Listed : Telling(th, c, d) => d \in view'[c] \/ Telling(th, c, d)'
    BY <2>1, <2>2, <2>4 DEF Telling, ListComing, NewsComing
  <2>6. \A c \in Listed : conn'[c] = "open" => conn[c] = "open"
    BY <2>1, <2>3, SendAges
  <2>7. Workers \subseteq Threads
    BY DEF Threads
  <2>8. QED
    BY <2>1, <2>2, <2>4, <2>5, <2>6, <2>7, TellCalm
<1>10. CASE RegSendRaises(th)
  BY <1>10, RaiseTells DEF RegSendRaises, peers
<1>11. QED
  BY <1>2, <1>3, <1>4, <1>5, <1>6, <1>7, <1>8, <1>9, <1>10 DEF Register

(* The list loses a client; while no lock is stolen nobody is amid an entry. *)
LEMMA UnRemoveTells ==
  ASSUME NEW th \in Threads, LockInv, ListInv, TellInv, stolen => stolen', UnRemove(th)
  PROVE  TellInv'
<1>1. /\ th = Checker /\ at[th] = "unRemove" /\ at' = [at EXCEPT ![th] = "unRelease"]
      /\ UNCHANGED <<conn, view, todo, raised, stolen>>
  BY RoleOf DEF UnRemove, Goto, peers, history
<1>2. Workers \subseteq Threads /\ Checker \in Threads /\ Checker \notin Workers
  BY ChatAssumption DEF Threads
<1>3. PICK i \in 1 .. Len(clientList) :
        clientList' = RemoveAt(clientList, i) /\ who' = [who EXCEPT ![th] = clientList[i]]
  BY DEF UnRemove, Named
<1>4. \A u \in Workers : at'[u] = at[u] /\ who'[u] = who[u] /\ todo'[u] = todo[u]
  BY <1>1, <1>2, <1>3 DEF ListInv, ListTyped
<1>5. Listed' \subseteq Listed
  <2> DEFINE list == RemoveAt(clientList, i)
  <2>1. clientList \in Seq(Clients) /\ Len(clientList) \in Nat
    BY DEF ListInv, ListTyped
  <2>2. /\ list \in Seq(Clients) /\ Len(list) = Len(clientList) - 1
        /\ \A j \in 1 .. Len(clientList) - 1 : list[j] = clientList[IF j < i THEN j ELSE j + 1]
    BY <2>1, RemoveAtIs
  <2> HIDE DEF list
  <2>3. \A j \in 1 .. Len(list) : list[j] \in Listed
    BY <2>1, <2>2, RangeIs DEF Listed
  <2>4. Range(list) \subseteq Listed
    BY <2>2, <2>3, RangeIs
  <2>5. QED
    BY <2>4, <1>3 DEF list, Listed
<1>6. CopyExact'
  <2>1. SUFFICES ASSUME ~stolen', NEW u \in Workers, at'[u] = "regAdd"
                 PROVE  FALSE
    BY DEF CopyExact
  <2>2. QED
    BY <2>1, <1>1, <1>2, <1>4, ListersExclude DEF Critical
<1>7. Informed'
  <2>1. \A u \in Workers : \A c, d \in Listed : Telling(u, c, d) => Telling(u, c, d)'
    BY <1>4 DEF Telling, ListComing, NewsComing
  <2>2. QED
    BY <2>1, <1>1, <1>5 DEF TellInv, Informed
<1>8. QED
  BY <1>1, <1>6, <1>7 DEF TellInv

LEMMA UnregisterTells ==
  ASSUME NEW th \in Threads, LockInv, ListInv, TellInv, stolen => stolen', Unregister(th)
  PROVE  TellInv'
<1>1. \A c, d \in Listed : at[th] \in {"unAcquire", "unRelease"} => ~Telling(th, c, d)
  BY OutsideTellsNobody DEF Outside
<1>2. CASE Acquire(th, "unAcquire", "unRemove")
  BY <1>1, <1>2, TellMoves DEF Acquire, peers, handler, history
<1>3. CASE UnRemove(th)
  BY <1>3, UnRemoveTells
<1>4. CASE Release(th, "unRelease", "bcAcquire")
  BY <1>1, <1>4, TellMoves DEF Release, peers, handler
<1>5. CASE UnClose(th)
  <2>1. \A c \in Listed : conn'[c] = "open" => conn[c] = "open"
    BY <1>5, RangeIs DEF UnClose, Listed, ListInv, ListTyped
  <2>2. QED
    BY <1>5, <2>1, ReturnTells DEF UnClose, history
<1>6. QED
  BY <1>2, <1>3, <1>4, <1>5 DEF Unregister

LEMMA BroadcastTells ==
  ASSUME NEW th \in Threads, LockInv, ListInv, TellInv, stolen => stolen', Broadcast(th)
  PROVE  TellInv'
<1>1. th \in Workers => kind[th] = "added"
  BY DEF Threads, ListInv, Roles
<1>2. todo[th] \in Seq(Clients) /\ Listed \subseteq Clients /\ DOMAIN view = Clients
  BY RangeIs DEF Listed, ListInv, ListTyped, TellInv
<1>3. CASE Acquire(th, "bcAcquire", "bcCopy")
  BY <1>3, TellMoves DEF Acquire, peers, handler, history
<1>4. CASE BcCopy(th)
  <2>1. /\ at[th] = "bcCopy" /\ at' = [at EXCEPT ![th] = "bcRelease"]
        /\ todo' = [todo EXCEPT ![th] = clientList]
        /\ UNCHANGED <<clientList, conn, view, who, raised>>
    BY <1>4 DEF BcCopy, Goto, peers, history
  <2>2. /\ at'[th] = "bcRelease" /\ todo'[th] = clientList
        /\ \A u \in Threads \ {th} : at'[u] = at[u] /\ todo'[u] = todo[u]
    BY <2>1 DEF ListInv, ListTyped
  <2>3. \A c, d \in Listed : Telling(th, c, d) => Telling(th, c, d)'
    BY <2>1, <2>2 DEF Telling, ListComing, NewsComing, Listed
  <2>4. Workers \subseteq Threads
    BY DEF Threads
  <2>5. QED
    BY <1>2, <2>1, <2>2, <2>3, <2>4, TellCalm
<1>5. CASE Release(th, "bcRelease", "bcSend")
  BY <1>5, TellMoves DEF Release, peers, handler
<1>6. CASE BcSend(th)
  <2> DEFINE h == Head(todo[th])
  <2>1. /\ at[th] = "bcSend" /\ todo[th] # << >> /\ AfterSend(h)
        /\ view' = [view EXCEPT ![h] = ToldBy(th)]
        /\ todo' = [todo EXCEPT ![th] = Tail(@)]
        /\ UNCHANGED <<clientList, at, who, kind, raised>>
    BY <1>6 DEF BcSend, history
  <2>2. /\ h \in Clients /\ Range(todo[th]) = {h} \cup Range(Tail(todo[th]))
    BY <1>2, <2>1, RangeTail
  <2>3. /\ todo'[th] = Tail(todo[th])
        /\ \A u \in Threads \ {th} : todo'[u] = todo[u]
    BY <2>1 DEF ListInv, ListTyped
  <2>4. ToldBy(th) = CASE kind[th] = "added" -> view[h] \cup {who[th]}
                       [] kind[th] = "removed" -> view[h] \ {who[th]}
                       [] kind[th] = "message" -> view[h]
    BY DEF ToldBy
  <2> HIDE DEF h
  <2>5. kind[th] = "removed" => who[th] \notin Listed
    <3>1. kind[th] = "removed" => th = Checker /\ Leaving
      BY <2>1, RoleOf DEF Leaving, Casting
    <3>2. QED
      BY <3>1 DEF ListInv, LeavingOne
  <2>6. kind[th] \in Kinds
    BY DEF ListInv, ListTyped
  <2>7. \A d \in Listed : d \in view[h] => d \in ToldBy(th)
    <3>1. CASE kind[th] = "added"
      BY <2>4, <3>1
    <3>2. CASE kind[th] = "removed"
      BY <2>4, <2>5, <3>2
    <3>3. CASE kind[th] = "message"
      BY <2>4, <3>3
    <3>4. QED
      BY <2>6, <3>1, <3>2, <3>3 DEF Kinds
  <2>8. DOMAIN view' = Clients /\ \A c, d \in Listed : d \in view[c] => d \in view'[c]
    BY <1>2, <2>1, <2>7
  <2>9. ASSUME NEW c \in Listed, NEW d \in Listed, th \in Workers, Telling(th, c, d)
        PROVE  d \in view'[c] \/ Telling(th, c, d)'
    <3>1. kind[th] = "added" /\ who[th] = d /\ c \in Range(todo[th])
      BY <1>1, <2>1, <2>9 DEF Telling, ListComing, NewsComing
    <3>2. CASE c = h
      BY <1>2, <2>1, <2>4, <3>1, <3>2
    <3>3. CASE c # h
      BY <2>1, <2>2, <2>3, <3>1, <3>3 DEF Telling, NewsComing
    <3>4. QED
      BY <3>2, <3>3
  <2>10. \A c \in Listed : conn'[c] = "open" => conn[c] = "open"
    BY <1>2, <2>1, SendAges
  <2>11. \A u \in Workers \ {th} : at'[u] = at[u] /\ who'[u] = who[u] /\ todo'[u] = todo[u]
    BY <2>1, <2>3 DEF Threads
  <2>12. QED
    BY <2>1, <2>8, <2>9, <2>10, <2>11, TellCalm
<1>7. CASE BcSkip(th)
  <2> DEFINE h == Head(todo[th])
  <2>1. /\ at[th] = "bcSend" /\ todo[th] # << >>
        /\ Excluded(th) \/ conn[h] = "reset"
        /\ todo' = [todo EXCEPT ![th] = Tail(@)]
        /\ UNCHANGED <<clientList, conn, view, at, who, raised>>
    BY <1>7 DEF BcSkip, peers, history
  <2>2. Range(todo[th]) = {h} \cup Range(Tail(todo[th]))
    BY <1>2, <2>1, RangeTail
  <2>3. /\ todo'[th] = Tail(todo[th])
        /\ \A u \in Threads \ {th} : todo'[u] = todo[u]
    BY <2>1 DEF ListInv, ListTyped
  <2>4. ASSUME NEW c \in Listed, NEW d \in Listed, conn'[c] = "open", c # d, Telling(th, c, d)
        PROVE  Telling(th, c, d)'
    <3>1. who[th] = d /\ c \in Range(todo[th])
      BY <2>1, <2>4 DEF Telling, ListComing, NewsComing
    <3>2. c # h
      BY <2>1, <2>4, <3>1 DEF Excluded
    <3>3. QED
      BY <2>1, <2>2, <2>3, <3>1, <3>2 DEF Telling, NewsComing
  <2>5. \A u \in Workers \ {th} : at'[u] = at[u] /\ who'[u] = who[u] /\ todo'[u] = todo[u]
    BY <2>1, <2>3 DEF Threads
  <2>6. QED
    BY <1>2, <2>1, <2>4, <2>5, TellCalm
<1>8. CASE BcRaises(th)
  BY <1>8, RaiseTells DEF BcRaises, peers
<1>9. CASE BcEnd(th)
  BY <1>9, ReturnTells DEF BcEnd, peers, history
<1>10. QED
  BY <1>3, <1>4, <1>5, <1>6, <1>7, <1>8, <1>9 DEF Broadcast

LEMMA CheckMsgsTells ==
  ASSUME LockInv, ListInv, TellInv, stolen => stolen', CheckMsgs
  PROVE  TellInv'
<1>1. \A c, d \in Listed :
        at[Checker] \in {"ckAcquire", "ckCopy", "ckRelease", "ckSelect", "ckServe"} => ~Telling(Checker, c, d)
  BY OutsideTellsNobody DEF Outside
<1>2. Checker \in Threads /\ Checker \notin Workers /\ Workers \subseteq Threads
  BY ChatAssumption DEF Threads
<1>3. CASE Acquire(Checker, "ckAcquire", "ckCopy")
  BY <1>1, <1>2, <1>3, TellMoves DEF Acquire, peers, handler, history
<1>4. CASE CkCopy
  BY <1>1, <1>2, <1>4, TellMoves DEF CkCopy, peers, handler, history
<1>5. CASE Release(Checker, "ckRelease", "ckSelect")
  BY <1>1, <1>2, <1>5, TellMoves DEF Release, peers, handler
<1>6. CASE CkSelect
  BY <1>1, <1>2, <1>6, TellMoves DEF CkSelect, peers, handler, history
<1>7. CASE CkAgain
  BY <1>1, <1>2, <1>7, TellMoves DEF CkAgain, peers, handler, history
<1>8. ASSUME NEW c \in Clients, CkServe(c) \/ CkReset(c) PROVE TellInv'
  <2>1. PICK step : at' = [at EXCEPT ![Checker] = step]
    BY <1>8 DEF CkServe, CkReset, Goto
  <2>2. /\ who' = [who EXCEPT ![Checker] = c]
        /\ UNCHANGED <<clientList, conn, view, todo, raised>>
    BY <1>8 DEF CkServe, CkReset, peers, history
  <2>3. \A u \in Workers \ {Checker} : at'[u] = at[u] /\ who'[u] = who[u] /\ todo'[u] = todo[u]
    BY <1>2, <2>1, <2>2 DEF ListInv, ListTyped
  <2>4. DOMAIN view' = Clients
    BY <2>2 DEF TellInv
  <2>5. QED
    BY <1>2, <2>2, <2>3, <2>4, TellCalm
<1>9. ASSUME NEW c \in Clients, CkServeClosed(c) PROVE TellInv'
  BY <1>9, TellUnmoved DEF CkServeClosed, TellVars, ListVars, peers, handler, history
<1>10. ASSUME NEW c \in Clients, CkNoPeer(c) PROVE TellInv'
  BY <1>2, <1>10, RaiseTells DEF CkNoPeer, peers
<1>11. QED
  BY <1>3, <1>4, <1>5, <1>6, <1>7, <1>8, <1>9, <1>10 DEF CheckMsgs

LEMMA NextTells ==
  ASSUME LockInv, ListInv, TellInv, [Next]_vars
  PROVE  TellInv'
<1>1. stolen => stolen'
  BY StolenStays
<1>2. CASE \E th \in Threads : ReleaseRaises(th)
  BY <1>1, <1>2, RaiseTells DEF ReleaseRaises, peers
<1>3. CASE \E th \in Workers, c \in Clients : Take(th, c)
  <2>1. PICK th \in Workers, c \in Clients : Take(th, c)
    BY <1>3
  <2>2. /\ at[th] = "idle" /\ conn[c] = "accepted"
        /\ at' = [at EXCEPT ![th] = "regAcquire"]
        /\ who' = [who EXCEPT ![th] = c]
        /\ conn' = [conn EXCEPT ![c] = "open"]
        /\ UNCHANGED <<clientList, view, todo, raised>>
    BY <2>1 DEF Take, Goto, history
  <2>3. Workers \subseteq Threads /\ DOMAIN view' = Clients /\ Listed \subseteq Clients
    BY <2>2, RangeIs DEF Threads, TellInv, Listed, ListInv, ListTyped
  <2>4. c \notin Listed
    BY <2>2 DEF ListInv, ConnectedOnes, Alive
  <2>5. /\ at'[th] = "regAcquire"
        /\ \A u \in Workers \ {th} : at'[u] = at[u] /\ who'[u] = who[u] /\ todo'[u] = todo[u]
        /\ \A d \in Listed : conn'[d] = conn[d]
    BY <2>2, <2>3, <2>4 DEF ListInv, ListTyped
  <2>6. \A d, e \in Listed : ~Telling(th, d, e)
    BY <2>2, OutsideTellsNobody DEF Outside
  <2>7. QED
    BY <1>1, <2>2, <2>3, <2>5, <2>6, TellCalm
<1>4. CASE \E c \in Clients : Connect(c) \/ Disconnect(c)
  <2>1. PICK c \in Clients : Connect(c) \/ Disconnect(c)
    BY <1>4
  <2>2. /\ \A d \in Clients : conn'[d] = "open" => conn[d] = "open"
        /\ UNCHANGED <<clientList, at, who, todo, view, raised, stolen>>
    BY <2>1 DEF Connect, Disconnect, handler, history, ListInv, ListTyped
  <2>3. Listed \subseteq Clients /\ DOMAIN view' = Clients
    BY <2>2, RangeIs DEF Listed, ListInv, ListTyped, TellInv
  <2>4. \A th : \A d, e : Telling(th, d, e) => Telling(th, d, e)'
    BY <2>2 DEF Telling, ListComing, NewsComing
  <2>5. QED
    BY <2>2, <2>3, <2>4, CheckerIsThread, TellCalm
<1>5. CASE \E c \in Clients, r \in Requests : Request(c, r)
  BY <1>5, TellUnmoved DEF Request, TellVars, ListVars, handler, history
<1>6. CASE UNCHANGED vars
  BY <1>6, TellUnmoved DEF vars, TellVars, ListVars, peers, handler, history
<1>7. QED
  BY <1>1, <1>2, <1>3, <1>4, <1>5, <1>6, RegisterTells, UnregisterTells, BroadcastTells, CheckMsgsTells DEF Next

(* The newcomer is listed under the lock and told outside it: still any two  *)
(* listed clients know each other once their registrations are over, for any *)
(* number of clients and workers, unless one of them raised, the one to be   *)
(* told has gone or a doubled release has freed someone's lock.              *)
THEOREM IntroducedHolds == Safe => []Introduced
<1>1. Init => LockInv /\ ListInv /\ TellInv
  <2> SUFFICES ASSUME Init PROVE TellInv
    BY InitLock, InitListed
  <2>1. /\ DOMAIN view = Clients /\ Listed = {}
        /\ \A th \in Workers : at[th] \in {"idle", "ckAcquire"}
    BY RangeEmpty DEF Init, Listed, Threads
  <2>2. QED
    BY <2>1 DEF TellInv, CopyExact, Informed
<1>2. LockInv /\ ListInv /\ TellInv /\ [Next]_vars => LockInv' /\ ListInv' /\ TellInv'
  BY NextKeeps, NextListed, NextTells
<1>3. ListInv /\ TellInv => Introduced
  <2> SUFFICES ASSUME ListInv, TellInv, ~stolen, NEW c \in Listed \ raised, NEW d \in Listed \ raised,
                      conn[c] = "open", c # d, ~Registering(c), ~Registering(d)
               PROVE  d \in view[c]
    BY DEF Introduced
  <2>1. \A th \in Workers : kind[th] = "added" /\ th \in Threads
    BY DEF ListInv, Roles, Threads
  <2>2. \A th \in Workers : ~Telling(th, c, d)
    BY <2>1 DEF Registering, Telling, ListComing, NewsComing
  <2>3. QED
    BY <2>2 DEF TellInv, Informed
<1>4. QED
  BY <1>1, <1>2, <1>3, PTL DEF Safe
=============================================================================
