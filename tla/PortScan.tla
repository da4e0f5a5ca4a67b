------------------------------- MODULE PortScan -------------------------------
(***************************************************************************)
(* Port scanner of Rechnernetze (Socketprogrammierung/port_scan.py): one   *)
(* thread for each port, first with TCP, then with UDP.  The threads of    *)
(* the second scan share one socket.                                       *)
(***************************************************************************)
EXTENDS Integers, FiniteSets, Functions

CONSTANT Ports     \* 1 .. 50 in startScan

ASSUME ScanAssumption == IsFiniteSet(Ports)

VARIABLES
    host,          \* port -> what is there: "answers" (also "binary", what is not
                   \* UTF-8), "silent" or "nothing"
    phase,         \* "tcp", "udp" or "printed"
    scan,          \* scan and port -> "none", "sent", "opened", "closed" or "raised"
    echoed,        \* ports whose answer to the datagram is on its way
    inbox          \* answers that have arrived at sockUDP

scanVars == <<host, phase, scan, echoed, inbox>>

Kinds == {"tcp", "udp"}
TCPPortsOpened == {p \in Ports : scan[<<"tcp", p>>] = "opened"}
TCPPortsClosed == {p \in Ports : scan[<<"tcp", p>>] = "closed"}
UDPPortsOpened == {p \in Ports : scan[<<"udp", p>>] = "opened"}
UDPPortsClosed == {p \in Ports : scan[<<"udp", p>>] = "closed"}

ScanInit ==
    /\ host \in [Ports -> {"answers", "binary", "silent", "nothing"}]
    /\ phase = "tcp"
    /\ scan = [k \in Kinds \X Ports |-> "none"]
    /\ echoed = {} /\ inbox = 0

Answering == {p \in Ports : host[p] \in {"answers", "binary"}}

\* scanTCP: connect, send and recv; a silent port times out; decode raises
\* UnicodeDecodeError, which is no socket.error, and the thread ends
ScanTcp(p) ==
    /\ phase = "tcp" /\ scan[<<"tcp", p>>] = "none"
    /\ scan' = [scan EXCEPT ![<<"tcp", p>>] = IF host[p] = "answers" THEN "opened"
                                             ELSE IF host[p] = "binary" THEN "raised" ELSE "closed"]
    /\ UNCHANGED <<host, phase, echoed, inbox>>

\* mutant: the thread sends its datagram again after a while
SendAgain(p) == scan[<<"udp", p>>] \in {"none", "sent"}

Unsent(p) == scan[<<"udp", p>>] = "none"

\* scanUDP: sendto; a datagram may be lost on its way
SendUdp(p) ==
    /\ phase = "udp" /\ Unsent(p)
    /\ scan' = [scan EXCEPT ![<<"udp", p>>] = "sent"]
    /\ \/ p \in Answering /\ echoed' = echoed \union {p}
       \/ echoed' = echoed
    /\ UNCHANGED <<host, phase, inbox>>

Echo(p) ==
    /\ p \in echoed
    /\ echoed' = echoed \ {p}
    /\ \E arrives \in BOOLEAN : inbox' = IF arrives THEN inbox + 1 ELSE inbox
    /\ UNCHANGED <<host, phase, scan>>

\* recvfrom returns the next datagram to any thread that waits
RecvUdp(p) ==
    /\ scan[<<"udp", p>>] = "sent" /\ inbox > 0
    /\ scan' = [scan EXCEPT ![<<"udp", p>>] = "opened"]
    /\ inbox' = inbox - 1
    /\ UNCHANGED <<host, phase, echoed>>

\* socket.error: ten seconds are over
TimeoutUdp(p) ==
    /\ scan[<<"udp", p>>] = "sent"
    /\ scan' = [scan EXCEPT ![<<"udp", p>>] = "closed"]
    /\ UNCHANGED <<host, phase, echoed, inbox>>

Ended(kind, p) == scan[<<kind, p>>] \in {"opened", "closed", "raised"}

\* stopScan joins all threads
Joined(kind) == \A p \in Ports : Ended(kind, p)

StopScan ==
    /\ \/ phase = "tcp" /\ Joined("tcp") /\ phase' = "udp"
       \/ phase = "udp" /\ Joined("udp") /\ phase' = "printed"
    /\ UNCHANGED <<host, scan, echoed, inbox>>

ScanNext ==
    \/ \E p \in Ports : ScanTcp(p) \/ SendUdp(p) \/ Echo(p) \/ RecvUdp(p) \/ TimeoutUdp(p)
    \/ StopScan

-----------------------------------------------------------------------------
(* The result that is printed: stopScan joins every thread, so each port   *)
(* is in one set of each scan and the open TCP ports are those that        *)
(* answered; the exception are ports whose TCP answer is not UTF-8, which  *)
(* are in none (port_scan.py:34).                                          *)
ScanComplete ==
    phase = "printed" =>
        /\ TCPPortsOpened = {p \in Ports : host[p] = "answers"}
        /\ TCPPortsOpened \union TCPPortsClosed = {p \in Ports : host[p] # "binary"}
        /\ UDPPortsOpened \union UDPPortsClosed = Ports

(* An answer is credited to any waiting thread, so UDPPortsOpened may name *)
(* the wrong ports (port_scan.py:18-23), but never more than have answered. *)
UdpCountRight ==
    Cardinality(UDPPortsOpened) + inbox + Cardinality(echoed) <= Cardinality(Answering)
===============================================================================
