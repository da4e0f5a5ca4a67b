---------------------------- MODULE MCRechnernetze ----------------------------
(***************************************************************************)
(* The exercises of Rechnernetze for TLC: a behaviour is the execution of  *)
(* one of them, the others have not been started.                          *)
(***************************************************************************)
EXTENDS EventSupermarket, CalcServer, PortScan, ChatClient

CONSTANT Simulators    \* the programs that are started
VARIABLE sim

netVars == <<evVars, calcVars, scanVars, chatVars, sim>>

EvOff == /\ evOpt = CHOOSE o \in SupermarketOptions : TRUE
         /\ eventQueue = <<>> /\ simulationTime = 0 /\ customerList = {} /\ kund = <<>>
         /\ customerQueue = [s \in Stations |-> <<>>]
         /\ amount = [s \in Stations |-> 0] /\ skipped = [s \in Stations |-> 0]
         /\ evStatus = "logged"
CalcOff == /\ proto = "udp" /\ over = TRUE /\ mainPc = "ended" /\ held = ""
           /\ arrived = <<>> /\ pool = <<>> /\ worker = [w \in CalcWorkers |-> Idle]
           /\ request = [c \in CalcClients |-> CHOOSE r \in CalcRequests : TRUE]
           /\ client = [c \in CalcClients |-> "done"]
           /\ unread = {} /\ replies = {} /\ closed = {}
           /\ outcome = [c \in CalcClients |-> NoOutcome]
ScanOff == /\ host = [p \in Ports |-> "nothing"] /\ phase = "printed"
           /\ scan = [k \in Kinds \X Ports |-> "closed"] /\ echoed = {} /\ inbox = 0
\* no client has been started: no user is known and no thread runs
ChatOff == /\ hup = FALSE /\ users = [c \in Peers |-> {}]
           /\ conn = [c \in Peers |-> [p \in Others(c) |-> 0]]
           /\ nick = [c \in Peers |-> <<>>]
           /\ links = <<>> /\ buffer = [x \in {} |-> <<>>]
           /\ queued = [c \in Peers |-> <<>>] /\ requests1 = [c \in Peers |-> <<>>]
           /\ user = [c \in Peers |-> NotSending] /\ connector = [c \in Peers |-> Resting]
           /\ loop = [c \in Peers |-> Looping({})] /\ reader = [c \in Peers |-> "select"]
           /\ heard = [c \in Peers |-> {}]
           /\ sends = 0 /\ updates = 0 /\ timedOut = {} /\ dropped = FALSE

NetInit ==
    /\ sim \in Simulators
    /\ IF sim = "supermarket" THEN EvInit ELSE EvOff
    /\ IF sim = "calc" THEN CalcInit ELSE CalcOff
    /\ IF sim = "scan" THEN ScanInit ELSE ScanOff
    /\ IF sim = "chat" THEN ChatInit ELSE ChatOff

NetNext ==
    \/ EvNext /\ UNCHANGED <<calcVars, scanVars, chatVars, sim>>
    \/ CalcNext /\ UNCHANGED <<evVars, scanVars, chatVars, sim>>
    \/ ScanNext /\ UNCHANGED <<evVars, calcVars, chatVars, sim>>
    \/ ChatNext /\ UNCHANGED <<evVars, calcVars, scanVars, sim>>

NetSpec == NetInit /\ [][NetNext]_netVars /\ CalcFairness /\ ChatFairness

-----------------------------------------------------------------------------
V(w, tol, n, s) == [walk |-> w, tolerance |-> tol, items |-> n, station |-> s]
MCSupermarketOptions ==
    [plan: [A: {<<V(w, tol, 2, "x"), V(1, 0, 1, "y")>> : w \in {0, 2}, tol \in {0, 1}}
               \union {<<V(1, 1, 1, "x"), V(0, 1, 1, "x"), V(1, 1, 2, "y")>>},
            B: {<<V(w, tol, 1, "y"), V(0, 1, n, "x")>> : w \in {0, 1}, tol \in {0, 1}, n \in {1, 2}}],
     between: [A: {2}, B: {1, 2, 4}], time: [x: {1, 2}, y: {1, 3}]]

R(op, l) == [op |-> op, operands |-> l]
MCCalcRequests ==
    {R("Summe", <<2, 1>>), R("Summe", <<0, 0, 0, 0>>), R("Summe", <<4>>),
     R("Produkt", <<-4, -4, -4>>), R("Minimum", <<2, 3>>), R("Maximum", <<-2, 2>>)}

Case(registered, hups, s, u) == [registered |-> registered, hup |-> hups, sends |-> s, updates |-> u]
MCCases ==
    {Case({"a", "b", "c"}, FALSE, 2, 0), Case({"a", "b"}, FALSE, 2, 0),
     Case({"a", "b"}, FALSE, 1, 1), Case({"a", "b"}, TRUE, 1, 1)}
-----------------------------------------------------------------------------
(* The event list serves one customer at a time, loses no visit, and a     *)
(* full purchase takes the time of all its stations.                       *)
EventsRight == OneService /\ VisitsCounted /\ FullTakesItsTime

(* The socket exercises: answers of the calculation servers are right and  *)
(* only bad requests remain without one, the sets of the port scanner are  *)
(* complete and its count of UDP ports is no larger than the answers.      *)
SocketsRight == AnswerRight /\ OnlyBadRequestsFail /\ ScanComplete /\ UdpCountRight

(* The chat client prints each message under its author's name and keeps   *)
(* its client thread, as long as no connection is replaced.                *)
ChatClientRight == Attributed /\ ClientThreadLives

(* Neither the pool of the calculation server nor the client thread of the *)
(* chat waits for ever for what has already arrived.                       *)
EverythingRead == WorkersFreed /\ MessagesRead
=============================================================================
