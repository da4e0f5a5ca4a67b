------------------------------ MODULE ChatClient ------------------------------
(***************************************************************************)
(* Clients of the peer-to-peer chat (Rechnernetze, PeerToPeerChat/         *)
(* Client.py).  A client that has no connection to another one asks it by  *)
(* UDP to connect back to its listening socket.  Each client has a user    *)
(* thread (send_message), a connection thread (handle_connection_requests) *)
(* and a client thread (receive_client_messages); the user lists come from *)
(* the server.  A connection has the end of its connector and that of the  *)
(* client that listens.                                                    *)
(***************************************************************************)
EXTENDS Integers, Sequences, FiniteSets, SequencesExt, Functions

CONSTANTS
    Peers,
    MaxLinks,      \* connections that are made
    Cases          \* [registered, hup, sends, updates]: the clients that the server
                   \* has announced, whether select reports an unconnected socket,
                   \* the messages users send and the changes of the user lists

ASSUME ChatClientAssumption ==
    /\ MaxLinks \in Nat
    /\ Cases \subseteq [registered: SUBSET Peers, hup: BOOLEAN, sends: Nat, updates: Nat]

VARIABLES
    hup,           \* select reports an unconnected socket (Linux) or not
    users,         \* client -> keys of clients and of udp_to_nick
    conn,          \* client -> peer -> clients[peer][2], 0 if not connected
    nick,          \* client -> connection -> tcp_to_nick
    links,         \* connection -> [from, to]
    buffer,        \* connection, end -> messages to be read there
    queued,        \* client -> connections that wait for accept
    requests1,     \* client -> peers whose requests by UDP wait for recvfrom
    user,          \* client -> user thread [pc, peer, refs], connections it accepted
    connector,     \* client -> connection thread [pc, peer, link]
    loop,          \* client -> [copied, ready, todo, last]: the connections copied for
                   \* select, those it returned last, those of them to be read, the
                   \* last one read
    reader,        \* client -> client thread: "select", "read" or "dead"
    heard,         \* client -> messages [from, nick] printed
    sends, updates,  \* what users and server may still do
    timedOut, dropped    \* history: whose accept timed out; whether an entry of
                         \* clients or its connection was replaced or removed

chatVars == <<hup, users, conn, nick, links, buffer, queued, requests1, user, connector,
              loop, reader, heard, sends, updates, timedOut, dropped>>

Others(c) == Peers \ {c}
Resting == [pc |-> "idle", peer |-> "", link |-> 0]
NotSending == [pc |-> "idle", peer |-> "", refs |-> <<>>]
Looping(copied) == [copied |-> copied, ready |-> {}, todo |-> {}, last |-> 0]
Links == DOMAIN links
OtherEnd(c, k) == IF links[k].from = c THEN links[k].to ELSE links[k].from

ChatInit ==
    /\ \E case \in Cases :
           /\ users = [c \in Peers |-> case.registered \ {c}]
           /\ hup = case.hup /\ sends = case.sends /\ updates = case.updates
    /\ conn = [c \in Peers |-> [p \in Others(c) |-> 0]]
    /\ nick = [c \in Peers |-> <<>>]
    /\ links = <<>> /\ buffer = [x \in {} |-> <<>>]
    /\ queued = [c \in Peers |-> <<>>]
    /\ requests1 = [c \in Peers |-> <<>>]
    /\ user = [c \in Peers |-> NotSending]
    /\ connector = [c \in Peers |-> Resting]
    /\ loop = [c \in Peers |-> Looping({0})]
    /\ reader = [c \in Peers |-> "select"]
    /\ heard = [c \in Peers |-> {}]
    /\ timedOut = {} /\ dropped = FALSE

\* messages that c has not read from a connection
Unread(c, k) == <<k, c>> \in DOMAIN buffer /\ buffer[<<k, c>>] # <<>>

\* the end of a connection at c stays open as long as a thread refers to it
Open(c, k) ==
    \/ \E p \in users[c] : conn[c][p] = k
    \/ k \in loop[c].copied \union loop[c].ready \union {loop[c].last}
    \/ k \in {connector[c].link} \union ToSet(user[c].refs) \union ToSet(queued[c])

-----------------------------------------------------------------------------
(* update_user_list, with an entry of the server's message: a socket that  *)
(* is not connected, or none any more.  An entry is not added anew while a *)
(* message to that user is being sent.                                     *)
UserAdded(c, p) ==
    /\ updates > 0 /\ user[c].peer # p
    /\ users' = [users EXCEPT ![c] = @ \union {p}]
    /\ conn' = [conn EXCEPT ![c][p] = 0]
    /\ dropped' = (dropped \/ p \in users[c])
    /\ updates' = updates - 1
    /\ UNCHANGED <<hup, nick, links, buffer, queued, requests1, user, connector, loop,
                   reader, heard, sends, timedOut>>

UserRemoved(c, p) ==
    /\ updates > 0 /\ p \in users[c]
    /\ users' = [users EXCEPT ![c] = @ \ {p}]
    /\ dropped' = TRUE
    /\ updates' = updates - 1
    /\ UNCHANGED <<hup, conn, nick, links, buffer, queued, requests1, user, connector,
                   loop, reader, heard, sends, timedOut>>

-----------------------------------------------------------------------------
(* send_message.                                                           *)
SendMessage(c, p) ==
    /\ user[c].pc = "idle" /\ p \in users[c] /\ sends > 0
    /\ user' = [user EXCEPT ![c] = [NotSending EXCEPT !.pc = "send", !.peer = p]]
    /\ sends' = sends - 1
    /\ UNCHANGED <<hup, users, conn, nick, links, buffer, queued, requests1, connector,
                   loop, reader, heard, updates, timedOut, dropped>>

\* mutant: sendOverTCP without keepAlive closes the socket
AfterSendClosed(c, p) == [conn EXCEPT ![c][p] = 0]

AfterSend(c, p) == conn

\* user[2], the socket to which the user thread sends
Socket(c) == conn[c][user[c].peer]

\* what is sent to an end that is closed is lost
Send(c) ==
    /\ user[c].pc = "send" /\ Socket(c) # 0
    /\ LET k == Socket(c)
           p == OtherEnd(c, k)
       IN  buffer' = [buffer EXCEPT ![<<k, p>>] = IF Open(p, k) THEN Append(@, c) ELSE @]
    /\ conn' = AfterSend(c, user[c].peer)
    /\ user' = [user EXCEPT ![c] = NotSending]
    /\ UNCHANGED <<hup, users, nick, links, queued, requests1, connector, loop,
                   reader, heard, sends, updates, timedOut, dropped>>

\* OSError, not connected or reset by the peer: connect_to_client; the
\* request may be lost
SendRaises(c) ==
    /\ user[c].pc = "send"
    /\ ~(Socket(c) # 0 /\ Open(OtherEnd(c, Socket(c)), Socket(c)))
    /\ LET p == user[c].peer IN
       requests1' \in {requests1, [requests1 EXCEPT ![p] = Append(@, c)]}
    /\ user' = [user EXCEPT ![c].pc = "accept"]
    /\ UNCHANGED <<hup, users, conn, nick, links, buffer, queued, connector, loop,
                   reader, heard, sends, updates, timedOut, dropped>>

\* whichever client has connected
Accept(c) ==
    /\ user[c].pc = "accept" /\ queued[c] # <<>>
    /\ user' = [user EXCEPT ![c].pc = "store", ![c].refs = Append(@, Head(queued[c]))]
    /\ queued' = [queued EXCEPT ![c] = Tail(@)]
    /\ UNCHANGED <<hup, users, conn, nick, links, buffer, requests1, connector, loop,
                   reader, heard, sends, updates, timedOut, dropped>>

\* socket.timeout is caught, but conn has no value: UnboundLocalError
AcceptTimesOut(c) ==
    /\ user[c].pc = "accept" /\ queued[c] = <<>>
    /\ user' = [user EXCEPT ![c] = NotSending]
    /\ timedOut' = timedOut \union {c}
    /\ UNCHANGED <<hup, users, conn, nick, links, buffer, queued, requests1, connector,
                   loop, reader, heard, sends, updates, dropped>>

\* clients[p][2] = k, tcp_to_nick[address of k] = p
Stored(c, p, k) ==
    /\ conn' = [conn EXCEPT ![c][p] = k]
    /\ nick' = [nick EXCEPT ![c] = [l \in DOMAIN @ \union {k} |-> IF l = k THEN p ELSE @[l]]]
    /\ dropped' = (dropped \/ conn[c][p] # 0)

\* and send_message again, which raises when the user is unknown by now
StoreAccepted(c) ==
    /\ user[c].pc = "store"
    /\ LET p == user[c].peer IN
       IF p \in users[c]
       THEN Stored(c, p, Last(user[c].refs)) /\ user' = [user EXCEPT ![c].pc = "send"]
       ELSE user' = [user EXCEPT ![c] = NotSending] /\ UNCHANGED <<conn, nick, dropped>>
    /\ UNCHANGED <<hup, users, links, buffer, queued, requests1, connector, loop,
                   reader, heard, sends, updates, timedOut>>

-----------------------------------------------------------------------------
(* process_connection_requests: connect, then store; the request of an     *)
(* unknown address is dropped.                                             *)
ConnectBack(c, p) ==
    /\ connector[c].pc = "idle" /\ requests1[c] # <<>> /\ Head(requests1[c]) = p
    /\ Len(queued[p]) < 2 /\ Len(links) < MaxLinks
    /\ requests1' = [requests1 EXCEPT ![c] = Tail(@)]
    /\ IF p \in users[c]
       THEN LET k == Len(links) + 1 IN
            /\ links' = Append(links, [from |-> c, to |-> p])
            /\ buffer' = [x \in DOMAIN buffer \union {<<k, c>>, <<k, p>>} |->
                             IF x[1] = k THEN <<>> ELSE buffer[x]]
            /\ queued' = [queued EXCEPT ![p] = Append(@, k)]
            /\ connector' = [connector EXCEPT ![c] = [pc |-> "store", peer |-> p, link |-> k]]
       ELSE UNCHANGED <<links, buffer, queued, connector>>
    /\ UNCHANGED <<hup, users, conn, nick, user, loop, reader, heard, sends, updates,
                   timedOut, dropped>>

Nickname(c) == connector[c].peer

\* an unknown user by now: KeyError ends the thread
StoreConnected(c) ==
    /\ connector[c].pc = "store"
    /\ IF connector[c].peer \in users[c]
       THEN /\ Stored(c, Nickname(c), connector[c].link)
            /\ connector' = [connector EXCEPT ![c] = Resting]
       ELSE /\ connector' = [connector EXCEPT ![c] = [@ EXCEPT !.pc = "dead", !.link = 0]]
            /\ UNCHANGED <<conn, nick, dropped>>
    /\ UNCHANGED <<hup, users, links, buffer, queued, requests1, user, loop, reader,
                   heard, sends, updates, timedOut>>

-----------------------------------------------------------------------------
(* receive_client_messages.                                                *)

Connections(c) == {conn[c][p] : p \in users[c]}

\* select returns the sockets of the copy that can be read; when there are
\* none within its timeout, the list is copied anew
Ready(c) == {k \in loop[c].copied : IF k = 0 THEN hup
                                    ELSE Unread(c, k) \/ ~Open(OtherEnd(c, k), k)}

Select(c) ==
    /\ reader[c] = "select"
    /\ IF Ready(c) = {}
       THEN /\ loop' = [loop EXCEPT ![c].copied = Connections(c), ![c].ready = {}]
            /\ UNCHANGED reader
       ELSE /\ loop' = [loop EXCEPT ![c].ready = Ready(c), ![c].todo = Ready(c)]
            /\ reader' = [reader EXCEPT ![c] = "read"]
    /\ UNCHANGED <<hup, users, conn, nick, links, buffer, queued, requests1, user,
                   connector, heard, sends, updates, timedOut, dropped>>

\* receive_message: the size has the other byte order and is larger than any
\* message, so that recv takes all that is there; two messages are none
Received(c, k) ==
    IF Len(buffer[<<k, c>>]) > 1 THEN {} ELSE {[from |-> buffer[<<k, c>>][1], nick |-> nick[c][k]]}

\* process_client_msgs; after the last socket the list is copied
ReadMessages(c, k) ==
    /\ reader[c] = "read" /\ Unread(c, k)
    /\ heard' = [heard EXCEPT ![c] = @ \union Received(c, k)]
    /\ buffer' = [buffer EXCEPT ![<<k, c>>] = <<>>]
    /\ LET read == [loop[c] EXCEPT !.todo = @ \ {k}, !.last = k] IN
       IF read.todo = {}
       THEN /\ loop' = [loop EXCEPT ![c] = [read EXCEPT !.copied = Connections(c)]]
            /\ reader' = [reader EXCEPT ![c] = "select"]
       ELSE loop' = [loop EXCEPT ![c] = read] /\ UNCHANGED reader
    /\ UNCHANGED <<hup, users, conn, nick, links, queued, requests1, user, connector,
                   sends, updates, timedOut, dropped>>

\* getpeername of a closed socket, or recv of one never connected, raises
ReaderDies(c, k) ==
    /\ reader[c] = "read" /\ ~Unread(c, k)
    /\ reader' = [reader EXCEPT ![c] = "dead"]
    /\ loop' = [loop EXCEPT ![c] = Looping({})]
    /\ UNCHANGED <<hup, users, conn, nick, links, buffer, queued, requests1, user,
                   connector, heard, sends, updates, timedOut, dropped>>

UserThread(c) == Send(c) \/ SendRaises(c) \/ Accept(c) \/ AcceptTimesOut(c) \/ StoreAccepted(c)
ConnectionThread(c) == StoreConnected(c) \/ \E p \in Others(c) : ConnectBack(c, p)
ClientThread(c) == Select(c) \/ \E k \in loop[c].todo : ReadMessages(c, k) \/ ReaderDies(c, k)

ChatNext == \E c \in Peers :
    \/ UserThread(c) \/ ConnectionThread(c) \/ ClientThread(c)
    \/ \E p \in Others(c) : UserAdded(c, p) \/ UserRemoved(c, p) \/ SendMessage(c, p)

\* the three threads of a client run
ChatFairness ==
    \A c \in Peers : WF_chatVars(UserThread(c)) /\ WF_chatVars(ConnectionThread(c))
                       /\ WF_chatVars(ClientThread(c))

-----------------------------------------------------------------------------
(* A message is printed with the name of its sender.  The exception: after *)
(* connect_to_client has timed out, the late connection of one peer is     *)
(* accepted for the next one that is asked (Client.py:269).                *)
Attributed ==
    \A c \in Peers \ timedOut : \A m \in heard[c] : m.nick = m.from

(* The client thread lives as long as no connection is replaced or         *)
(* removed; two clients that write to each other at the same time replace  *)
(* connections, and the one whose peer's end is collected ends the thread. *)
ClientThreadLives == ~hup /\ ~dropped => \A c \in Peers : reader[c] # "dead"

(* A message that has arrived at an open end is read, though not always    *)
(* printed: the client thread finds new connections in its next copy.  The *)
(* exceptions: connections were replaced or removed meanwhile, or one      *)
(* still waits at a client whose accept has timed out.                     *)
MessagesRead ==
    \A c \in Peers, k \in 1 .. MaxLinks :
        Unread(c, k) ~> (hup \/ dropped \/ timedOut # {} \/ ~Unread(c, k) \/ ~Open(c, k))
===============================================================================
