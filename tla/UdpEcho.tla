------------------------------- MODULE UdpEcho -------------------------------
(***************************************************************************)
(* udp_server.c and udp_client.c of semestr1/Task6/Task6_1: clients that     *)
(* send a line and wait for the answer, and a server that sends every        *)
(* datagram back.  All is on one host (127.0.0.1): a datagram is neither     *)
(* duplicated nor overtaken, but dropped when nobody is bound to the port or *)
(* the receive queue is full, or when the client it is for has exited.  The  *)
(* server may be killed and started again, a client ends when a call fails.  *)
(***************************************************************************)
EXTENDS Integers, Sequences

CONSTANTS Clients,
          Lines,     \* what is typed; "" is an empty datagram
          RCVBUF,    \* datagrams the server's socket can hold
          KILLS      \* bound on the server's deaths

VARIABLES server,       \* "down", "recvfrom" or "sendto"
          queue,        \* the server's socket: <<sender, data>>
          client_addr, buffer,
          kills,
          client,       \* client[c]: "fgets", "recvfrom", "print" or "exited"
          line,         \* line[c]: the client's buffer
          socket,       \* socket[c]: datagrams that reached the client
          sent,         \* sent[c]: its last request
          dropped       \* dropped[c]: that request, or its answer, was lost

serverVars == <<server, client_addr, buffer, kills>>
clientVars == <<client, line, sent>>
echoVars == <<serverVars, queue, clientVars, socket, dropped>>

EchoInit ==
    /\ server = "down" /\ queue = <<>> /\ kills = 0
    /\ client_addr \in Clients /\ buffer = ""
    /\ client = [c \in Clients |-> "fgets"]
    /\ line \in [Clients -> Lines] /\ sent = line
    /\ socket = [c \in Clients |-> <<>>] /\ dropped = [c \in Clients |-> FALSE]
-----------------------------------------------------------------------------
\* socket and bind.
Start ==
    /\ server = "down"
    /\ server' = "recvfrom"
    /\ UNCHANGED <<client_addr, buffer, kills, queue, clientVars, socket, dropped>>

ReceiveKeepAddress ==
    /\ server = "recvfrom" /\ queue # <<>>
    /\ buffer' = Head(queue)[2] /\ queue' = Tail(queue)
    /\ server' = "sendto"
    /\ UNCHANGED <<client_addr, kills, clientVars, socket, dropped>>

ReceiveStopOnEmpty ==
    /\ server = "recvfrom" /\ queue # <<>>
    /\ client_addr' = Head(queue)[1] /\ buffer' = Head(queue)[2] /\ queue' = Tail(queue)
    /\ server' = IF Head(queue)[2] = "" THEN "exited" ELSE "sendto"
    /\ UNCHANGED <<kills, clientVars, socket, dropped>>

\* recvfrom: an empty datagram is as good as any other.
Receive ==
    /\ server = "recvfrom" /\ queue # <<>>
    /\ client_addr' = Head(queue)[1] /\ buffer' = Head(queue)[2] /\ queue' = Tail(queue)
    /\ server' = "sendto"
    /\ UNCHANGED <<kills, clientVars, socket, dropped>>

\* sendto the client the datagram came from, which may have closed its socket.
Answer ==
    /\ server = "sendto"
    /\ socket' = IF client[client_addr] = "exited" THEN socket
                 ELSE [socket EXCEPT ![client_addr] = Append(@, buffer)]
    /\ server' = "recvfrom"
    /\ UNCHANGED <<client_addr, buffer, kills, queue, clientVars, dropped>>

\* The server is killed, or recvfrom or sendto fails and it exits; the datagrams
\* in its socket go with it.
Kill ==
    /\ server # "down" /\ kills < KILLS
    /\ kills' = kills + 1 /\ server' = "down" /\ queue' = <<>>
    /\ dropped' = [c \in Clients |->
                     \/ dropped[c]
                     \/ server = "sendto" /\ client_addr = c
                     \/ \E k \in 1 .. Len(queue) : queue[k][1] = c]
    /\ UNCHANGED <<client_addr, buffer, clientVars, socket>>
-----------------------------------------------------------------------------
\* fgets and sendto.  At the end of the input fgets leaves the buffer alone,
\* and the last answer is sent again; a q is a line like any other.
Request(c) ==
    /\ client[c] = "fgets"
    /\ \E data \in Lines \cup {line[c]} :
         /\ sent' = [sent EXCEPT ![c] = data]
         /\ IF server # "down" /\ Len(queue) < RCVBUF
            THEN queue' = Append(queue, <<c, data>>) /\ UNCHANGED dropped
            ELSE dropped' = [dropped EXCEPT ![c] = TRUE] /\ UNCHANGED queue
    /\ line' = [line EXCEPT ![c] = ""]
    /\ client' = [client EXCEPT ![c] = "recvfrom"]
    /\ UNCHANGED <<serverVars, socket>>

\* recvfrom, without a timeout.
Response(c) ==
    /\ client[c] = "recvfrom" /\ socket[c] # <<>>
    /\ line' = [line EXCEPT ![c] = Head(socket[c])]
    /\ socket' = [socket EXCEPT ![c] = Tail(@)]
    /\ client' = [client EXCEPT ![c] = "print"]
    /\ UNCHANGED <<serverVars, queue, sent, dropped>>

Printed(c) ==
    /\ client[c] = "print"
    /\ client' = [client EXCEPT ![c] = "fgets"]
    /\ UNCHANGED <<serverVars, queue, line, sent, socket, dropped>>

\* sendto or recvfrom fails: the client closes its socket and exits.
Exit(c) ==
    /\ client[c] \in {"fgets", "recvfrom"}
    /\ client' = [client EXCEPT ![c] = "exited"]
    /\ socket' = [socket EXCEPT ![c] = <<>>]
    /\ UNCHANGED <<serverVars, queue, line, sent, dropped>>

\* Every client has exited or waits for a datagram that was lost, and the server
\* for another one: nothing happens any more.
Hung ==
    /\ \A c \in Clients : client[c] = "exited" \/ (client[c] = "recvfrom" /\ dropped[c])
    /\ server = "recvfrom" /\ queue = <<>>
    /\ UNCHANGED echoVars

ServerStep == Start \/ Receive \/ Answer
ClientStep(c) == Request(c) \/ Response(c) \/ Printed(c) \/ Exit(c)
EchoNext == ServerStep \/ Kill \/ Hung \/ \E c \in Clients : ClientStep(c)
EchoSpec == EchoInit /\ [][EchoNext]_echoVars
-----------------------------------------------------------------------------
(* Properties.                                                               *)

\* What a client prints as the server's response is the echo of its own last
\* request: no answer to another client, and none to an earlier request, however
\* many datagrams were dropped and however often the server was started again.
AnswerIsEcho == \A c \in Clients : client[c] = "print" => line[c] = sent[c]

\* A client waits for ever only for a datagram that was lost.
EveryRequestAnswered ==
    \A c \in Clients :
        client[c] = "recvfrom" ~> (client[c] \in {"print", "exited"} \/ dropped[c])
=============================================================================
