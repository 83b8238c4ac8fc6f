-------------------------------- MODULE Proxy --------------------------------
(***************************************************************************)
(* semestr2/Task3: the caching HTTP proxy.  One thread accepts clients and   *)
(* reads their requests; each request gets a thread of its own that answers  *)
(* from the cache or from the origin server, and then caches the answer.     *)
(*                                                                           *)
(* What the threads share is kept exactly: ctx, the one stack slot of        *)
(* accept_new_client whose ADDRESS every thread gets and the next turn of    *)
(* the loop overwrites; the descriptor table, which hands out a closed       *)
(* number again; the request buffers; the cache list and its mutex; the      *)
(* semaphore.  Data are abstracted: a request is a model value (and its own  *)
(* hash), a response is the sequence of its parts, one part per read().      *)
(***************************************************************************)
EXTENDS Integers, FiniteSets, SequencesExt

CONSTANTS Clients,    \* the connections; each client connects once
          Requests,   \* what a client may ask for
          Binary,     \* those whose response has a zero byte in its last part
          Parts,      \* bound: parts of a response
          Slots,      \* MAX_USERS_COUNT
          Faults,     \* the failures of the environment that may happen
          Junk,       \* the text of a buffer that holds no request
          Nobody

ASSUME ProxyAssumption ==
    /\ IsFiniteSet(Clients) /\ Binary \subseteq Requests /\ Junk \notin Requests
    /\ Parts \in Nat \ {0} /\ Slots \in Nat \ {0}
    /\ Faults \subseteq {"accept", "create", "connect", "read", "client"}
ASSUME NobodyAssumption == Nobody \notin 1 .. Cardinality(Clients)

VARIABLES alive,      \* FALSE once the process has exited or was killed
          backlog,    \* connections waiting for accept()
          cl,         \* the clients: request, whether it is sent and read, gone
          out,        \* what each client's connection has been sent
          fds,        \* the descriptor table
          origin,     \* the connections to origin servers, by thread
          heap,       \* the request buffers
          acc,        \* accept_new_client: control and locals
          ctx,        \* its variable ctx
          sem,        \* thread_semaphore
          mutex,      \* owner of cache_mutex
          cache,      \* the list behind the head node
          destroyed,  \* destroy_cache has freed the list
          th          \* the handler threads: control and locals

envVars == <<backlog, cl>>
netVars == <<out, fds, origin>>
cacheVars == <<mutex, cache, destroyed>>
vars == <<alive, envVars, netVars, heap, acc, ctx, sem, cacheVars, th>>

Threads == 1 .. Cardinality(Clients)
Bufs == 1 .. Cardinality(Clients)
FdNums == 1 .. 2 * Cardinality(Clients)
None == -1                       \* SOCKET_ERROR, and a local not yet set
Closed == <<"closed">>
Lowest(S) == CHOOSE n \in S : \A k \in S : n <= k

\* Part 0 is the text of the request, the parts from 1 on are its response.
Piece(r, n) == [of |-> r, part |-> n]
Pieces == {Piece(r, n) : r \in Requests \cup {Junk}, n \in 0 .. Parts}
Zeros == Piece(Junk, 0)

\* The proxy listens, the cache is empty (main, run_proxy, init_cache).
Init ==
    /\ alive = TRUE
    /\ backlog = <<>>
    /\ cl = [c \in Clients |-> [req |-> Junk, sent |-> "no", gone |-> FALSE]]
    /\ out = [c \in Clients |-> <<>>]
    /\ fds = [n \in FdNums |-> Closed]
    /\ origin = [t \in Threads |-> [asked |-> None, pos |-> 0]]
    /\ heap = [b \in Bufs |-> [free |-> TRUE, text |-> Junk]]
    /\ acc = [pc |-> "accept", sock |-> None, buf |-> None]
    /\ ctx = [sock |-> None, req |-> None]
    /\ sem = Slots
    /\ mutex = Nobody
    /\ cache = <<>>
    /\ destroyed = FALSE
    /\ th = [t \in Threads |->
               [pc |-> "none", sock |-> None, req0 |-> None, req |-> Junk, dest |-> None,
                key |-> Junk, body |-> <<>>, copy |-> <<>>, tail |-> 0]]
-----------------------------------------------------------------------------
(* The clients: one connects, asks when it likes, and may leave.             *)

Client(c) ==
    /\ \/ /\ cl[c].req = Junk
          /\ \E r \in Requests : cl' = [cl EXCEPT ![c].req = r]
          /\ backlog' = Append(backlog, c)
       \/ /\ cl[c].req # Junk /\ cl[c].sent = "no" /\ ~cl[c].gone
          /\ cl' = [cl EXCEPT ![c].sent = "unread"]
          /\ UNCHANGED backlog
       \/ /\ "client" \in Faults /\ cl[c].req # Junk /\ ~cl[c].gone
          /\ cl' = [cl EXCEPT ![c].gone = TRUE]
          /\ UNCHANGED backlog
    /\ UNCHANGED <<alive, netVars, heap, acc, ctx, sem, cacheVars, th>>
-----------------------------------------------------------------------------
(* Descriptors, sockets and buffers.                                         *)

End(n) == IF n \in FdNums THEN fds[n] ELSE Closed
IsClient(e) == e[1] = "client"
IsOrigin(e) == e[1] = "origin"
Left(e) == IsClient(e) /\ cl[e[2]].gone
FreeFd == Lowest({n \in FdNums : fds[n] = Closed})
CloseFd(n) == fds' = [k \in FdNums |-> IF k = n THEN Closed ELSE fds[k]]

\* write() fails on a closed descriptor and may fail on a peer that has left.
WriteFails(n) == End(n) = Closed \/ Left(End(n))

\* A write() that succeeds: a client's connection carries the pieces, an origin
\* server takes the first thing it is sent for the request.
Write(n, pieces) ==
    LET e == End(n) IN
    /\ e # Closed
    /\ out' = IF IsClient(e) /\ ~Left(e) THEN [out EXCEPT ![e[2]] = @ \o pieces] ELSE out
    /\ origin' = IF IsOrigin(e) /\ origin[e[2]].asked = None /\ pieces # <<>>
                 THEN [origin EXCEPT ![e[2]].asked =
                         IF pieces[1].part = 0 THEN pieces[1].of ELSE Junk]
                 ELSE origin

\* A read() that returns a piece: a client's request, or the next part.
Read(n, piece) ==
    LET e == End(n) IN
    \/ /\ IsClient(e) /\ cl[e[2]].sent = "unread"
       /\ piece = Piece(cl[e[2]].req, 0)
       /\ cl' = [cl EXCEPT ![e[2]].sent = "read"]
       /\ UNCHANGED origin
    \/ /\ IsOrigin(e) /\ origin[e[2]].asked # None /\ origin[e[2]].pos < Parts
       /\ piece = Piece(origin[e[2]].asked, origin[e[2]].pos + 1)
       /\ origin' = [origin EXCEPT ![e[2]].pos = @ + 1]
       /\ UNCHANGED cl

\* A read() that returns 0 or -1, which the callers treat alike.
ReadEnds(n) ==
    LET e == End(n) IN
    \/ e = Closed \/ "read" \in Faults
    \/ Left(e) /\ cl[e[2]].sent # "unread"
    \/ IsOrigin(e) /\ origin[e[2]].pos = Parts

\* free(b): the allocator may or may not write its links over the text.
\* Freeing what is free aborts the process.
Free(b) ==
    IF heap[b].free
    THEN alive' = FALSE /\ UNCHANGED heap
    ELSE /\ UNCHANGED alive
         /\ \E text \in {heap[b].text, Junk} :
               heap' = [heap EXCEPT ![b] = [free |-> TRUE, text |-> text]]
-----------------------------------------------------------------------------
(* accept_new_client.                                                        *)

Go(from, to) == acc.pc = from /\ acc' = [acc EXCEPT !.pc = to]
AccKeeps == UNCHANGED <<envVars, netVars, heap, cacheVars>>

\* accept(), and calloc() of the request buffer.
Accept ==
    /\ acc.pc = "accept"
    /\ backlog # <<>>
    /\ backlog' = Tail(backlog)
    /\ fds' = [fds EXCEPT ![FreeFd] = <<"client", Head(backlog)>>]
    /\ \E b \in {b \in Bufs : heap[b].free} :
          /\ heap' = [heap EXCEPT ![b] = [free |-> FALSE, text |-> Junk]]
          /\ acc' = [pc |-> "read", sock |-> FreeFd, buf |-> b]
    /\ UNCHANGED <<alive, cl, out, origin, ctx, sem, cacheVars, th>>

\* accept() fails: destroy_cache(), while handlers run on, and then exit().
AcceptFails ==
    /\ "accept" \in Faults
    /\ Go("accept", "destroy")
    /\ AccKeeps /\ UNCHANGED <<alive, ctx, sem, th>>

DestroyCache ==
    /\ Go("destroy", "exit")
    /\ mutex = Nobody
    /\ cache' = <<>>
    /\ destroyed' = TRUE
    /\ UNCHANGED <<alive, envVars, netVars, heap, ctx, sem, mutex, th>>

Exit ==
    /\ Go("exit", "exit")
    /\ alive' = FALSE
    /\ AccKeeps /\ UNCHANGED <<ctx, sem, th>>

\* read_request() blocks the accept loop until the client's bytes are there.
ReadRequest ==
    /\ Go("read", "wait")
    /\ \E piece \in Pieces :
          /\ Read(acc.sock, piece)
          /\ heap' = [heap EXCEPT ![acc.buf].text = IF piece.part = 0 THEN piece.of ELSE Junk]
    /\ UNCHANGED <<alive, backlog, out, fds, ctx, sem, cacheVars, th>>

\* It fails and closes the socket; its caller frees the buffer and closes again.
ReadRequestFails ==
    /\ Go("read", "unread")
    /\ ReadEnds(acc.sock)
    /\ CloseFd(acc.sock)
    /\ UNCHANGED <<alive, envVars, out, origin, heap, ctx, sem, cacheVars, th>>

DropClient ==
    /\ Go("unread", "accept")
    /\ Free(acc.buf)
    /\ CloseFd(acc.sock)
    /\ UNCHANGED <<envVars, out, origin, ctx, sem, cacheVars, th>>

\* sem_wait(&thread_semaphore).
WaitSlot ==
    /\ Go("wait", "ctxSock")
    /\ sem > 0
    /\ sem' = sem - 1
    /\ AccKeeps /\ UNCHANGED <<alive, ctx, th>>

\* context ctx = {client_socket, request}: two stores into the one stack slot.
SetCtxSock ==
    /\ Go("ctxSock", "ctxReq")
    /\ ctx' = [ctx EXCEPT !.sock = acc.sock]
    /\ AccKeeps /\ UNCHANGED <<alive, sem, th>>

SetCtxReq ==
    /\ Go("ctxReq", "create")
    /\ ctx' = [ctx EXCEPT !.req = acc.buf]
    /\ AccKeeps /\ UNCHANGED <<alive, sem, th>>

\* pthread_create(..., &ctx).  It fails with a positive number, never with
\* PTHREAD_ERROR: the loop goes on as if the thread were there.
CreateThread ==
    /\ Go("create", "accept")
    /\ \/ \E t \in Threads :
             /\ th[t].pc = "none" /\ \A s \in 1 .. t - 1 : th[s].pc # "none"
             /\ th' = [th EXCEPT ![t].pc = "sock"]
       \/ "create" \in Faults /\ UNCHANGED th
    /\ AccKeeps /\ UNCHANGED <<alive, ctx, sem>>

accept_new_client ==
    \/ Accept \/ AcceptFails \/ DestroyCache \/ Exit
    \/ ReadRequest \/ ReadRequestFails \/ DropClient
    \/ WaitSlot \/ SetCtxSock \/ SetCtxReq \/ CreateThread
-----------------------------------------------------------------------------
(* execute_client_request, run by thread t.                                  *)

Move(t, from, to) == th[t].pc = from /\ th' = [th EXCEPT ![t].pc = to]
MoveSet(t, from, locals) == th[t].pc = from /\ th' = [th EXCEPT ![t] = locals]
Keeps == UNCHANGED <<envVars, acc, ctx>>
KeepsAll == Keeps /\ UNCHANGED <<alive, netVars, heap, sem, cacheVars>>
KeepsAllButNet == Keeps /\ UNCHANGED <<alive, heap, sem, cacheVars>>

\* client_socket = ctx->client_socket, request0 = ctx->request: whatever ctx
\* holds by now.  strcpy(request, request0): the buffer may be another's by now.
LoadSock(t) == KeepsAll /\ MoveSet(t, "sock", [th[t] EXCEPT !.sock = ctx.sock, !.pc = "req0"])
LoadReq(t) == KeepsAll /\ MoveSet(t, "req0", [th[t] EXCEPT !.req0 = ctx.req, !.pc = "copy"])
CopyRequest(t) ==
    /\ KeepsAll
    /\ MoveSet(t, "copy", [th[t] EXCEPT !.req = heap[th[t].req0].text, !.pc = "find"])

\* close(n), on the way from one place of the code to another.
Close(t, from, n, to) ==
    Move(t, from, to) /\ CloseFd(n) /\ KeepsAllButNet /\ UNCHANGED <<out, origin>>

\* strncpy(copy, response, len) stops at a zero byte and fills with zeros.
StrnCpy(body) ==
    [k \in DOMAIN body |->
        IF \E j \in 1 .. k : body[j].of \in Binary /\ body[j].part = Parts
        THEN Zeros ELSE body[k]]

\* What find_in_cache may return.  The head node's fields are never set; on
\* fresh memory its key is 0, the hash of an empty string, and its length is 0.
Hits(req) ==
    {StrnCpy(cache[k].body) : k \in {k \in DOMAIN cache : cache[k].key = req}}
    \cup (IF req = Junk THEN {<<>>} ELSE {})

\* send_from_cache: find_in_cache searches and copies under the mutex.
FindInCache(t) ==
    /\ mutex = Nobody /\ ~destroyed
    /\ \/ \E body \in Hits(th[t].req) :
             MoveSet(t, "find", [th[t] EXCEPT !.copy = body, !.pc = "hit"])
       \/ /\ \A k \in DOMAIN cache : cache[k].key # th[t].req
          /\ Move(t, "find", "key")
    /\ KeepsAll

\* The response is written and the socket closed; when the write fails the
\* socket is closed too, and the caller takes it for a miss.
SendCached(t) ==
    Write(th[t].sock, th[t].copy) /\ Move(t, "hit", "hitClose") /\ KeepsAllButNet /\ UNCHANGED fds
SendCachedFails(t) == WriteFails(th[t].sock) /\ Close(t, "hit", th[t].sock, "key")
HitClose(t) == Close(t, "hitClose", th[t].sock, "hitFree")

\* free(ctx->request), through ctx again and not through request0; a second
\* close(client_socket); and no sem_post.
HitFree(t) ==
    Move(t, "hitFree", "hitEnd") /\ Free(ctx.req) /\ Keeps /\ UNCHANGED <<netVars, sem, cacheVars>>
HitEnd(t) == Close(t, "hitEnd", th[t].sock, "done")

\* A new record, whose key is hashed from request0 and not from the copy.
AddRequest(t) ==
    KeepsAll /\ MoveSet(t, "key", [th[t] EXCEPT !.key = heap[th[t].req0].text, !.pc = "connect"])

\* connect_to_remote(): when it fails the client's socket is closed, and the
\* thread goes on with a descriptor of -1.
ConnectOrigin(t) ==
    /\ th[t].pc = "connect" /\ th[t].req # Junk
    /\ th' = [th EXCEPT ![t].dest = FreeFd, ![t].pc = "ask"]
    /\ fds' = [fds EXCEPT ![FreeFd] = <<"origin", t>>]
    /\ KeepsAllButNet /\ UNCHANGED <<out, origin>>
ConnectFails(t) ==
    th[t].req # Junk /\ "connect" \in Faults /\ Close(t, "connect", th[t].sock, "ask")

SendRequest(t) ==
    /\ Write(th[t].dest, <<Piece(th[t].req, 0)>>)
    /\ Move(t, "ask", "read")
    /\ KeepsAllButNet /\ UNCHANGED fds

\* The error returns close both sockets; no sem_post, and nothing is freed.
SendRequestFails(t) == WriteFails(th[t].dest) /\ Close(t, "ask", th[t].sock, "giveUp")
GiveUp(t) == Close(t, "giveUp", th[t].dest, "done")

\* One part is read, goes to the client, and then into the record.
ReadResponse(t) ==
    /\ \E piece \in Pieces :
          /\ Read(th[t].dest, piece)
          /\ MoveSet(t, "read", [th[t] EXCEPT !.copy = <<piece>>, !.pc = "forward"])
    /\ UNCHANGED <<alive, backlog, out, fds, heap, acc, ctx, sem, cacheVars>>
Forward(t) ==
    /\ Write(th[t].sock, th[t].copy)
    /\ MoveSet(t, "forward", [th[t] EXCEPT !.body = @ \o th[t].copy, !.pc = "read"])
    /\ KeepsAllButNet /\ UNCHANGED fds
ForwardFails(t) == WriteFails(th[t].sock) /\ Close(t, "forward", th[t].sock, "giveUp")

\* read() returned 0, or -1: the record counts as complete.
ResponseEnds(t) == ReadEnds(th[t].dest) /\ Move(t, "read", "push") /\ KeepsAll

PushKeeps == Keeps /\ UNCHANGED <<alive, netVars, heap, sem, destroyed>>

PushLockIgnored(t) == Move(t, "push", "walk") /\ mutex' = t /\ PushKeeps /\ UNCHANGED cache

\* push_record: lock, ...
PushLock(t) ==
    /\ Move(t, "push", "walk")
    /\ mutex = Nobody /\ ~destroyed
    /\ mutex' = t
    /\ PushKeeps /\ UNCHANGED cache

PushWalkSkipsLast(t) ==
    /\ IF \E k \in 1 .. Len(cache) - 1 : cache[k].key = th[t].key
       THEN Move(t, "walk", "end") /\ mutex' = Nobody
       ELSE MoveSet(t, "walk", [th[t] EXCEPT !.tail = Len(cache), !.pc = "link"]) /\ UNCHANGED mutex
    /\ PushKeeps /\ UNCHANGED cache

PushWalkKeepsLock(t) ==
    /\ IF \E k \in DOMAIN cache : cache[k].key = th[t].key
       THEN Move(t, "walk", "end")
       ELSE MoveSet(t, "walk", [th[t] EXCEPT !.tail = Len(cache), !.pc = "link"])
    /\ KeepsAll

\* ... walk to the last node, or free the record and unlock on a duplicate, ...
PushWalk(t) ==
    /\ IF \E k \in DOMAIN cache : cache[k].key = th[t].key
       THEN Move(t, "walk", "end") /\ mutex' = Nobody
       ELSE MoveSet(t, "walk", [th[t] EXCEPT !.tail = Len(cache), !.pc = "link"]) /\ UNCHANGED mutex
    /\ PushKeeps /\ UNCHANGED cache

\* ... hang the record on the node the walk ended at, unlock.
PushLink(t) ==
    /\ Move(t, "link", "end")
    /\ cache' = Append(SubSeq(cache, 1, th[t].tail), [key |-> th[t].key, body |-> th[t].body])
    /\ mutex' = Nobody
    /\ PushKeeps

\* The good end: close both, free(request0), sem_post.
EndClose(t) == Close(t, "end", th[t].sock, "endDest")
EndCloseDest(t) == Close(t, "endDest", th[t].dest, "endFree")
EndFreePosts(t) ==
    Move(t, "endFree", "post") /\ Free(th[t].req0) /\ sem' = sem + 1 /\ Keeps /\ UNCHANGED <<netVars, cacheVars>>
EndFree(t) ==
    Move(t, "endFree", "post") /\ Free(th[t].req0) /\ Keeps /\ UNCHANGED <<netVars, sem, cacheVars>>
PostSlot(t) ==
    Move(t, "post", "done") /\ sem' = sem + 1 /\ Keeps /\ UNCHANGED <<alive, netVars, heap, cacheVars>>

\* What ends the process: no host in the text (strstr() returned NULL), the
\* uninitialized pointer connect_to_remote() frees when getaddrinfo() fails, the
\* SIGPIPE of a write to a client that has left, a list that was destroyed.
Crash(t) ==
    /\ CASE th[t].pc = "connect" -> th[t].req = Junk \/ "connect" \in Faults
         [] th[t].pc \in {"hit", "forward"} -> Left(End(th[t].sock))
         [] th[t].pc \in {"find", "push"} -> mutex = Nobody /\ destroyed
         [] OTHER -> FALSE
    /\ alive' = FALSE
    /\ Keeps /\ UNCHANGED <<netVars, heap, sem, cacheVars, th>>

execute_client_request(t) ==
    \/ LoadSock(t) \/ LoadReq(t) \/ CopyRequest(t)
    \/ FindInCache(t) \/ SendCached(t) \/ SendCachedFails(t)
    \/ HitClose(t) \/ HitFree(t) \/ HitEnd(t)
    \/ AddRequest(t) \/ ConnectOrigin(t) \/ ConnectFails(t)
    \/ SendRequest(t) \/ SendRequestFails(t) \/ GiveUp(t)
    \/ ReadResponse(t) \/ Forward(t) \/ ForwardFails(t) \/ ResponseEnds(t)
    \/ PushLock(t) \/ PushWalk(t) \/ PushLink(t)
    \/ EndClose(t) \/ EndCloseDest(t) \/ EndFree(t) \/ PostSlot(t)
    \/ Crash(t)
-----------------------------------------------------------------------------
Next ==
    /\ alive
    /\ \/ \E c \in Clients : Client(c)
       \/ accept_new_client
       \/ \E t \in Threads : execute_client_request(t)

Spec == Init /\ [][Next]_vars
-----------------------------------------------------------------------------
(* Properties.                                                               *)

\* push_record's search for a duplicate and its append are one critical section:
\* however many threads load the same page at once, the list has it once.
OneRecordPerRequest ==
    \A j, k \in DOMAIN cache : cache[j].key = cache[k].key => j = k

\* A record that find_in_cache could have returned stays in the list, unchanged,
\* until destroy_cache: no thread's append loses another thread's record.
CacheOnlyGrows == [][IsPrefix(cache, cache') \/ destroyed']_vars

\* thread_semaphore bounds the handlers that exist at any moment: none gives its
\* slot back early or twice, whichever way it leaves.
Running == {t \in Threads : th[t].pc \notin {"none", "done"}}
AtMostSlotsThreads == sem + Cardinality(Running) <= Slots

\* Whoever locks cache_mutex in push_record unlocks it, on the duplicate's early
\* return too: the mutex is held only by a handler that is still inside.
CacheLockInside == \A t \in Threads : mutex = t => th[t].pc \in {"walk", "link"}

\* README: the proxy may not block incoming connections.  The accept loop waits
\* in sem_wait only while some handler is still running and will post.
AcceptLoopNotWedged == ~(alive /\ acc.pc = "wait" /\ sem = 0 /\ Running = {})

\* README: the proxy returns data from the cache, for several clients at a time.
\* A client's connection carries a prefix of the response to that client's own
\* request and nothing else.
Response(r) == [n \in 1 .. Parts |-> Piece(r, n)]
ClientGetsItsResponse == \A c \in Clients : IsPrefix(out[c], Response(cl[c].req))
-----------------------------------------------------------------------------
(* What the properties of the cache and of the semaphore need to be          *)
(* inductive.                                                                *)

\* The locals of execute_client_request and of accept_new_client.
Shape ==
    /\ DOMAIN acc = {"pc", "sock", "buf"}
    /\ DOMAIN th = Threads
    /\ \A t \in Threads : DOMAIN th[t] =
          {"pc", "sock", "req0", "req", "dest", "key", "body", "copy", "tail"}

\* The owner of cache_mutex is the one thread inside push_record; between its
\* walk and its append the node it walked to is the last, and none has its key.
CacheInv ==
    /\ cache \in Seq(Range(cache))
    /\ \A t \in Threads : mutex = t <=> th[t].pc \in {"walk", "link"}
    /\ \A t \in Threads : th[t].pc = "link" =>
          /\ th[t].tail = Len(cache)
          /\ \A k \in DOMAIN cache : cache[k].key # th[t].key
    /\ OneRecordPerRequest

\* accept_new_client has taken a slot for a thread it has not created yet.
Pending == IF acc.pc \in {"ctxSock", "ctxReq", "create"} THEN 1 ELSE 0
SlotsInv == sem \in Nat /\ sem + Cardinality(Running) + Pending <= Slots

ProxyInv == Shape /\ CacheInv /\ SlotsInv
=============================================================================
