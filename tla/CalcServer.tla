------------------------------ MODULE CalcServer ------------------------------
(***************************************************************************)
(* Calculation servers and clients of Rechnernetze (Socketprogrammierung;  *)
(* PeerToPeerChat holds copies).  Integers have Width bits on the wire and *)
(* twice as many in numpy.  After t_end, the end of the activity period, a *)
(* server takes no new turn of its loop, but one blocked in accept or      *)
(* recvfrom waits on.                                                      *)
(***************************************************************************)
EXTENDS Integers, Sequences, FiniteSets, SequencesExt, FiniteSetsExt, Functions

CONSTANTS
    CalcClients,
    CalcWorkers,     \* the threads of ThreadPoolExecutor
    CalcRequests,    \* records [op, operands]
    Width,           \* bits of an 'i'
    RecvOperands,    \* operands that fit into recv(1024)
    Backlog          \* connections that wait for accept

ASSUME CalcAssumption ==
    Width \in Nat \ {0} /\ RecvOperands \in Nat /\ Backlog \in Nat \ {0}

VARIABLES
    proto,           \* "tcp" or "udp": which of the two servers runs
    over,            \* time.time() >= t_end
    mainPc,          \* "test", "wait" (accept, recvfrom), "shutdown" or "ended"
    held,            \* the connection main still refers to
    arrived,         \* clients to be accepted, datagrams to be received
    pool,            \* tasks to be started
    worker,          \* worker -> [client, at]; at is "idle", "test" or "recv"
    request,         \* what each client asks
    client,          \* "idle", "connected", "waiting" or "done"
    unread,          \* clients whose request has not been read
    replies,         \* [client, result] on the way
    closed,          \* connections the server has closed
    outcome          \* what a client got: [kind, result]

calcVars == <<proto, over, mainPc, held, arrived, pool, worker, request, client,
              unread, replies, closed, outcome>>

Idle == [client |-> "", at |-> "idle"]
Pending1(c) == [client |-> c, at |-> "test"]
NoOutcome == [kind |-> "", result |-> 0]

-----------------------------------------------------------------------------
(* Arithmetic.                                                             *)
Fits(n) == n \in -(2 ^ (Width - 1)) .. 2 ^ (Width - 1) - 1
\* numpy's int64
Wrap(n) == ((n + 2 ^ (2 * Width - 1)) % (2 ^ (2 * Width))) - 2 ^ (2 * Width - 1)

Minimum(l) == FoldLeft(LAMBDA a, b : IF b < a THEN b ELSE a, 2 ^ (Width - 1) - 1, l)
Maximum(l) == FoldLeft(LAMBDA a, b : IF b > a THEN b ELSE a, 2 ^ (Width - 1), l)
Summe(l) == FoldLeft(LAMBDA a, b : a + b, 0, l)
Produkt(l) == FoldLeft(LAMBDA a, b : Wrap(a * b), 1, l)

Operators == {"Summe", "Produkt", "Minimum", "Maximum"}
Function(op, l) ==
    CASE op = "Summe" -> Summe(l)     [] op = "Produkt" -> Produkt(l)
      [] op = "Minimum" -> Minimum(l) [] op = "Maximum" -> Maximum(l)

\* struct.pack of the client
Packable(r) == \A i \in DOMAIN r.operands : Fits(r.operands[i])

\* no exception: all operands were read, the operator exists, the array is
\* not empty, which numpy makes one of floats, and the result can be packed
Answerable(r) ==
    /\ Packable(r) /\ Len(r.operands) \in 1 .. RecvOperands
    /\ r.op \in Operators
    /\ Fits(Function(r.op, r.operands))

-----------------------------------------------------------------------------
CalcInit ==
    /\ proto \in {"tcp", "udp"}
    /\ over = FALSE /\ mainPc = "test" /\ held = ""
    /\ arrived = <<>> /\ pool = <<>>
    /\ worker = [w \in CalcWorkers |-> Idle]
    /\ request \in [CalcClients -> CalcRequests]
    /\ client = [c \in CalcClients |-> "idle"]
    /\ unread = {} /\ replies = {} /\ closed = {}
    /\ outcome = [c \in CalcClients |-> NoOutcome]

Tasks == ToSet(pool) \union {worker[w].client : w \in CalcWorkers}

\* exec.shutdown() waits for the tasks
Shutdown == pool = <<>> /\ \A w \in CalcWorkers : worker[w] = Idle

\* the interpreter waits for the tasks, too, before the process is over
Exited == mainPc = "ended" /\ Shutdown

\* a connection nobody refers to is closed as well
ServerEndOpen(c) ==
    c \notin closed /\ (c \in Tasks \/ (c \in ToSet(arrived) \union {held} /\ ~Exited))

TimePasses ==
    /\ ~over /\ over' = TRUE
    /\ UNCHANGED <<proto, mainPc, held, arrived, pool, worker, request, client, unread,
                   replies, closed, outcome>>

\* the main loop: while time.time() < t_end; only the UDP server shuts down
MainTest ==
    /\ mainPc = "test"
    /\ mainPc' = IF ~over THEN "wait" ELSE IF proto = "udp" THEN "shutdown" ELSE "ended"
    /\ UNCHANGED <<proto, over, held, arrived, pool, worker, request, client, unread,
                   replies, closed, outcome>>

\* the queue of ThreadPoolExecutor has no bound
Submitted(c) == Append(pool, c)

\* accept or recvfrom returns, and the task is submitted
MainTakes ==
    /\ mainPc = "wait" /\ arrived # <<>>
    /\ held' = Head(arrived)
    /\ arrived' = Tail(arrived)
    /\ pool' = Submitted(Head(arrived))
    /\ mainPc' = "test"
    /\ UNCHANGED <<proto, over, worker, request, client, unread, replies, closed, outcome>>

UdpCloses ==
    /\ mainPc = "shutdown" /\ Shutdown
    /\ mainPc' = "ended"
    /\ UNCHANGED <<proto, over, held, arrived, pool, worker, request, client, unread,
                   replies, closed, outcome>>

Start(w) ==
    /\ worker[w] = Idle /\ pool # <<>>
    /\ worker' = [worker EXCEPT ![w] = Pending1(Head(pool))]
    /\ pool' = Tail(pool)
    /\ UNCHANGED <<proto, over, mainPc, held, arrived, request, client, unread, replies,
                   closed, outcome>>

\* process_request: an answer, or an exception that ends the task; the
\* answer may be lost
UdpProcess(w) ==
    /\ proto = "udp" /\ worker[w].at = "test"
    /\ LET c == worker[w].client IN
       \/ replies' = replies
       \/ /\ Answerable(request[c])
          /\ replies' = replies \union
                {[client |-> c, result |-> Function(request[c].op, request[c].operands)]}
    /\ worker' = [worker EXCEPT ![w] = Idle]
    /\ UNCHANGED <<proto, over, mainPc, held, arrived, pool, request, client, unread,
                   closed, outcome>>

\* process_data: while time.time() < t_end
TcpTest(w) ==
    /\ proto = "tcp" /\ worker[w].at = "test"
    /\ worker' = [worker EXCEPT ![w] = IF over THEN Idle ELSE [@ EXCEPT !.at = "recv"]]
    /\ UNCHANGED <<proto, over, mainPc, held, arrived, pool, request, client, unread,
                   replies, closed, outcome>>

\* a request is answered and the connection closed; or an exception ends the
\* task and the connection stays as it is
TcpRequest(w) ==
    /\ worker[w].at = "recv"
    /\ LET c == worker[w].client IN
       /\ c \in unread /\ c \notin closed
       /\ unread' = unread \ {c}
       /\ IF Answerable(request[c])
          THEN /\ replies' = replies \union
                     {[client |-> c, result |-> Function(request[c].op, request[c].operands)]}
               /\ closed' = closed \union {c}
               /\ worker' = [worker EXCEPT ![w].at = "test"]
          ELSE /\ worker' = [worker EXCEPT ![w] = Idle]
               /\ UNCHANGED <<replies, closed>>
    /\ UNCHANGED <<proto, over, mainPc, held, arrived, pool, request, client, outcome>>

\* mutant: the loop goes on at the end of the stream
AtEofGoesOn(w) == worker' = [worker EXCEPT ![w].at = "test"] /\ UNCHANGED closed

AtEof(w) ==
    /\ worker' = [worker EXCEPT ![w] = Idle]
    /\ closed' = closed \union {worker[w].client}

\* the client has gone: recv returns nothing; or the connection was closed
\* after the answer: recv raises
TcpGone(w) ==
    /\ worker[w].at = "recv"
    /\ LET c == worker[w].client IN
       \/ /\ c \in closed
          /\ worker' = [worker EXCEPT ![w] = Idle]
          /\ UNCHANGED closed
       \/ /\ c \notin closed /\ c \notin unread /\ client[c] = "done"
          /\ AtEof(w)
    /\ UNCHANGED <<proto, over, mainPc, held, arrived, pool, request, client, unread,
                   replies, outcome>>

-----------------------------------------------------------------------------
(* calculate of the clients.                                               *)
Ends(c, kind, result) ==
    /\ client' = [client EXCEPT ![c] = "done"]
    /\ outcome' = [outcome EXCEPT ![c] = [kind |-> kind, result |-> result]]

Connect(c) ==
    /\ proto = "tcp" /\ client[c] = "idle" /\ ~Exited /\ Len(arrived) < Backlog
    /\ client' = [client EXCEPT ![c] = "connected"]
    /\ arrived' = Append(arrived, c)
    /\ UNCHANGED <<proto, over, mainPc, held, pool, worker, request, unread, replies,
                   closed, outcome>>

ConnectRefused(c) ==
    /\ proto = "tcp" /\ client[c] = "idle" /\ Exited
    /\ Ends(c, "error", 0)
    /\ UNCHANGED <<proto, over, mainPc, held, arrived, pool, worker, request, unread,
                   replies, closed>>

TcpSend(c) ==
    /\ client[c] = "connected" /\ Packable(request[c])
    /\ client' = [client EXCEPT ![c] = "waiting"]
    /\ unread' = unread \union {c}
    /\ UNCHANGED <<proto, over, mainPc, held, arrived, pool, worker, request, replies,
                   closed, outcome>>

\* an operand has too many bits: the client ends, and its connection with it
PackRaises(c) ==
    /\ client[c] = IF proto = "tcp" THEN "connected" ELSE "idle"
    /\ ~Packable(request[c])
    /\ Ends(c, "error", 0)
    /\ UNCHANGED <<proto, over, mainPc, held, arrived, pool, worker, request, unread,
                   replies, closed>>

\* sendto: the datagram arrives or not
UdpSend(c) ==
    /\ proto = "udp" /\ client[c] = "idle" /\ Packable(request[c])
    /\ client' = [client EXCEPT ![c] = "waiting"]
    /\ \/ mainPc # "ended" /\ arrived' = Append(arrived, c)
       \/ arrived' = arrived
    /\ UNCHANGED <<proto, over, mainPc, held, pool, worker, request, unread, replies,
                   closed, outcome>>

Receive(c) ==
    /\ client[c] = "waiting"
    /\ \E r \in replies : r.client = c /\ Ends(c, "answer", r.result)
    /\ UNCHANGED <<proto, over, mainPc, held, arrived, pool, worker, request, unread,
                   replies, closed>>

\* the server's end is closed without an answer: nothing to unpack
ReceiveEof(c) ==
    /\ proto = "tcp" /\ client[c] = "waiting" /\ ~ServerEndOpen(c)
    /\ \A r \in replies : r.client # c
    /\ Ends(c, "error", 0)
    /\ UNCHANGED <<proto, over, mainPc, held, arrived, pool, worker, request, unread,
                   replies, closed>>

\* settimeout(10)
Timeout(c) ==
    /\ client[c] = "waiting"
    /\ Ends(c, "timeout", 0)
    /\ UNCHANGED <<proto, over, mainPc, held, arrived, pool, worker, request, unread,
                   replies, closed>>

MainStep == MainTest \/ MainTakes \/ UdpCloses
WorkerStep(w) == Start(w) \/ UdpProcess(w) \/ TcpTest(w) \/ TcpRequest(w) \/ TcpGone(w)
ClientStep(c) == Connect(c) \/ ConnectRefused(c) \/ TcpSend(c) \/ PackRaises(c) \/ UdpSend(c)
                   \/ Receive(c) \/ ReceiveEof(c) \/ Timeout(c)

CalcNext == TimePasses \/ MainStep \/ (\E w \in CalcWorkers : WorkerStep(w))
              \/ (\E c \in CalcClients : ClientStep(c))

\* the threads run; a client that has connected sends, and waits 10 s at most
CalcFairness ==
    /\ \A w \in CalcWorkers : WF_calcVars(WorkerStep(w))
    /\ \A c \in CalcClients : WF_calcVars(TcpSend(c) \/ PackRaises(c)) /\ WF_calcVars(Timeout(c))

-----------------------------------------------------------------------------
TrueValue(op, l) ==
    CASE op = "Summe"   -> FoldLeft(LAMBDA a, b : a + b, 0, l)
      [] op = "Produkt" -> FoldLeft(LAMBDA a, b : a * b, 1, l)
      [] op = "Minimum" -> Min(ToSet(l))
      [] op = "Maximum" -> Max(ToSet(l))

(* An answer is the value of the request of that client, computed without  *)
(* overflow.  The exception: a product of three or more operands wraps     *)
(* around in numpy, and what is left may fit into the answer.              *)
AnswerRight ==
    \A c \in CalcClients :
        LET r == request[c] IN
        outcome[c].kind = "answer" /\ ~(r.op = "Produkt" /\ Len(r.operands) > 2) =>
            outcome[c].result = TrueValue(r.op, r.operands)

(* Every task ends, even when the activity period does not: a client that  *)
(* goes away is noticed, so that five of them cannot occupy the pool.      *)
WorkersFreed == \A w \in CalcWorkers : worker[w].at # "idle" ~> worker[w].at = "idle"

(* While the activity period lasts, a TCP client whose request can be      *)
(* answered is refused or cut off by nobody: the connection it waits on is *)
(* referred to by the backlog, the pool or a worker until it is answered,  *)
(* however many clients there are (no socket is closed while it is needed, *)
(* and process_data closes it only behind the answer).                     *)
OnlyBadRequestsFail ==
    \A c \in CalcClients :
        outcome[c].kind = "error" => over \/ ~Answerable(request[c])
===============================================================================
