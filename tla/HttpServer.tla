----------------------------- MODULE HttpServer -----------------------------
(***************************************************************************)
(* The multi-threaded HTTP server of asgn4/httpserver.c.  A dispatcher     *)
(* accepts connections and pushes them into a queue; each worker pops a    *)
(* connection and serves its request under a reader/writer lock of the     *)
(* URI, found in, or added to, a list guarded by one global mutex.  The    *)
(* mutex is held across reader_lock and writer_lock, whose wait is the     *)
(* step Acquire.  The queue, the locks and the connection library are      *)
(* linked from an archive and appear by the contract of their headers.     *)
(***************************************************************************)
EXTENDS Integers, FiniteSets, Sequences, SequencesExt

CONSTANTS
  Workers,     \* the worker threads that the -t option may ask for
  Main,        \* the dispatcher thread
  Conns,       \* the connections that clients may open
  BadFd,       \* -1, which listener_accept returns when it fails
  Uris,
  Kinds,       \* what may be on disk at a URI when the server starts
  Old,         \* the one chunk of a file that is there at start
  FdLimit,     \* descriptors left to the process for connections and files
  BodySize     \* chunks in the body of a PUT

ASSUME WorkersAssumption == IsFiniteSet(Workers) /\ Main \notin Workers
ASSUME BadFdAssumption == BadFd \notin Conns \cup {Old} /\ Old \notin Conns
ASSUME KindsAssumption == Kinds \subseteq {"file", "absent", "no_dir", "dir", "forbidden"}
ASSUME SizesAssumption == FdLimit \in Nat /\ BodySize \in Nat

VARIABLES
  threads,     \* the workers main has created, nt of them
  rqueue,      \* the queue between the dispatcher and the workers
  main,        \* where the dispatcher is: "accept" or "push"
  connfd,      \* what listener_accept returned last
  mutex,       \* the worker that holds the global mutex, or Main when it is free
  locklist,    \* the nodes of the list: a URI and the holders of its rwlock
  files,       \* what is on disk at each URI
  fds,         \* the open descriptors, of connections and of files
  pc,          \* where each worker is
  fd,          \* the connection a worker has popped
  job,         \* the local variables of handle_get and handle_put
  req,         \* the request of each connection, NoRequest before it is accepted
  body,        \* the chunks sent to, or received from, a client; NoBody before
  reply,       \* the response code the client was sent, 0 for none
  log,         \* the audit log on stderr
  disk0        \* history: the files at start

dispatch == <<rqueue, main, connfd>>
fixed == <<threads, disk0>>
disk == <<files, fixed>>
clients == <<req, body, reply>>
vars == <<dispatch, mutex, locklist, disk, fds, pc, fd, job, clients, log>>

Requests == [method : {"GET", "PUT"}, uri : Uris] \cup [method : {"other", "malformed"}]
NoRequest == [method |-> "none"]
NoBody == <<BadFd>>

\* A file is a sequence of chunks; below "no_dir" nothing can be created.
File(data) == [kind |-> "file", data |-> data]
Content == Seq(Conns \cup {Old})

\* The locals: the lock found, whether the file existed, its size, the code for the
\* log, and whether the function is on its way to an early return.
NoJob == [lock |-> 0, existed |-> FALSE, size |-> 0, code |-> 0, early |-> FALSE]

Locations == {"start", "pop", "handle", "mutex", "find", "add", "acquire", "access", "open",
              "transfer", "log", "reply", "unlock", "close"}

Codes == {0, 200, 201, 400, 403, 404, 500, 501}

\* Types: the queue keeps to its size, the descriptors to their limit, what is on disk
\* and on the wire is made of whole chunks, and no connection is logged twice.
TypeOK ==
  /\ threads \subseteq Workers
  /\ rqueue \in Seq(Conns \cup {BadFd}) /\ Len(rqueue) <= Cardinality(threads)
  /\ main \in {"accept", "push"}
  /\ connfd \in Conns \cup {BadFd}
  /\ mutex \in Workers \cup {Main}
  /\ locklist \in Seq([uri : Uris, readers : SUBSET Conns, writers : SUBSET Conns])
  /\ files \in [Uris -> [kind : {"absent", "no_dir", "dir", "forbidden"}]
                         \cup [kind : {"file"}, data : Content]]
  /\ \A u \in Uris : files[u].kind = "file" => Len(files[u].data) <= BodySize + 1
  /\ fds \subseteq {"conn", "file"} \X Conns /\ Cardinality(fds) <= FdLimit
  /\ pc \in [Workers -> Locations]
  /\ fd \in [Workers -> Conns \cup {BadFd}]
  /\ job \in [Workers -> [lock : Nat, existed : BOOLEAN, size : Nat, code : Codes,
                          early : BOOLEAN]]
  /\ req \in [Conns -> Requests \cup {NoRequest}]
  /\ body \in [Conns -> {NoBody} \cup Content]
  /\ \A c \in Conns : Len(body[c]) <= BodySize + 1
  /\ reply \in [Conns -> Codes]
  /\ log \in Seq([conn : Conns, code : Codes])
  /\ \A i, j \in DOMAIN log : log[i].conn = log[j].conn => i = j

\* main when its threads are created: -t is at least 0, and 0 passes the test for it.
Init ==
  /\ threads \in SUBSET Workers
  /\ rqueue = << >>
  /\ main = "accept"
  /\ connfd = BadFd
  /\ mutex = Main
  /\ locklist = << >>
  /\ files \in [Uris -> {IF k = "file" THEN File(<<Old>>) ELSE [kind |-> k] : k \in Kinds}]
  /\ disk0 = files
  /\ fds = {}
  /\ pc = [w \in Workers |-> "start"]
  /\ fd = [w \in Workers |-> BadFd]
  /\ job = [w \in Workers |-> NoJob]
  /\ req = [c \in Conns |-> NoRequest]
  /\ body = [c \in Conns |-> NoBody]
  /\ reply = [c \in Conns |-> 0]
  /\ log = << >>
-----------------------------------------------------------------------------
(***************************************************************************)
(* The dispatcher loop of main, and the connections clients open.          *)
(***************************************************************************)

FdsLeft == Cardinality(fds) < FdLimit

Accept(c, r) ==
  /\ main = "accept"
  /\ req[c] = NoRequest
  /\ FdsLeft
  /\ req' = [req EXCEPT ![c] = r]
  /\ fds' = fds \cup {<<"conn", c>>}
  /\ connfd' = c
  /\ main' = "push"
  /\ UNCHANGED <<rqueue, mutex, locklist, disk, pc, fd, job, body, reply, log>>

\* accept fails, for one because the descriptors have run out; main does not look.
AcceptFails ==
  /\ main = "accept"
  /\ connfd' = BadFd
  /\ main' = "push"
  /\ UNCHANGED <<rqueue, mutex, locklist, disk, fds, pc, fd, job, clients, log>>

\* Mutants: the push does not wait for a slot; it jumps the queue.
QueueNeverFull == FALSE
EnqueueFirst(e) == <<e>> \o rqueue

\* queue_new(nt): one slot for each worker thread.
QueueFull == Len(rqueue) = Cardinality(threads)
Enqueue(e) == Append(rqueue, e)

\* queue_push waits for a slot.
Push ==
  /\ main = "push"
  /\ ~QueueFull
  /\ rqueue' = Enqueue(connfd)
  /\ connfd' = BadFd
  /\ main' = "accept"
  /\ UNCHANGED <<mutex, locklist, disk, fds, pc, fd, job, clients, log>>
-----------------------------------------------------------------------------
(***************************************************************************)
(* A worker, from queue_pop to close.                                      *)
(***************************************************************************)

Goto(w, from, to) == pc[w] = from /\ pc' = [pc EXCEPT ![w] = to]

Uri(w) == req[fd[w]].uri
IsGet(w) == req[fd[w]].method = "GET"

\* A thread that pthread_create made enters the loop and calls queue_pop.
Start(w) ==
  /\ w \in threads
  /\ Goto(w, "start", "pop")
  /\ UNCHANGED <<dispatch, mutex, locklist, disk, fds, fd, job, clients, log>>

Pop(w) ==
  /\ Goto(w, "pop", "handle")
  /\ rqueue # << >>
  /\ fd' = [fd EXCEPT ![w] = Head(rqueue)]
  /\ rqueue' = Tail(rqueue)
  /\ UNCHANGED <<main, connfd, mutex, locklist, disk, fds, job, clients, log>>

\* handle_connection: a request that is malformed, or cannot be read because the
\* descriptor is bad, is answered by conn_parse's response, an unsupported one by
\* handle_unsupported; neither is logged.
Refuse(w) ==
  /\ Goto(w, "handle", "close")
  /\ \/ fd[w] = BadFd /\ UNCHANGED reply
     \/ /\ fd[w] # BadFd
        /\ req[fd[w]].method \in {"other", "malformed"}
        /\ reply' = [reply EXCEPT ![fd[w]] =
                       IF req[fd[w]].method = "other" THEN 501 ELSE 400]
  /\ UNCHANGED <<dispatch, mutex, locklist, disk, fds, fd, job, req, body, log>>

Handle(w) ==
  /\ Goto(w, "handle", "mutex")
  /\ fd[w] # BadFd
  /\ req[fd[w]].method \in {"GET", "PUT"}
  /\ UNCHANGED <<dispatch, mutex, locklist, disk, fds, fd, job, clients, log>>

MutexFree == mutex = Main

LockMutex(w) ==
  /\ Goto(w, "mutex", "find")
  /\ MutexFree
  /\ mutex' = w
  /\ UNCHANGED <<dispatch, locklist, disk, fds, fd, job, clients, log>>

\* find: the first node of the URI, or 0 for NULL.
NodeOf(uri, list) == SelectInSeq(list, LAMBDA node : node.uri = uri)

FindLock(w) ==
  LET i == NodeOf(Uri(w), locklist) IN
  /\ Goto(w, "find", IF i = 0 THEN "add" ELSE "acquire")
  /\ job' = [job EXCEPT ![w].lock = i]
  /\ UNCHANGED <<dispatch, mutex, locklist, disk, fds, fd, clients, log>>

\* addtolist appends a node with a new lock, and a second find returns it.
AddLock(w) ==
  /\ Goto(w, "add", "acquire")
  /\ locklist' = Append(locklist, [uri |-> Uri(w), readers |-> {}, writers |-> {}])
  /\ job' = [job EXCEPT ![w].lock = NodeOf(Uri(w), locklist')]
  /\ UNCHANGED <<dispatch, mutex, disk, fds, fd, clients, log>>

\* Mutant: a writer does not wait for the readers.
AdmitsSoon(w, node) == node.writers = {}

\* Whom rwlock.h lets in: a reader beside readers, a writer alone.
Admits(w, node) == node.writers = {} /\ (IsGet(w) \/ node.readers = {})

Admit(w, node) ==
  IF IsGet(w) THEN [node EXCEPT !.readers = @ \cup {fd[w]}]
  ELSE [node EXCEPT !.writers = @ \cup {fd[w]}]

\* reader_lock or writer_lock returns, and the global mutex is unlocked.
Acquire(w) ==
  /\ Goto(w, "acquire", IF IsGet(w) THEN "open" ELSE "access")
  /\ Admits(w, locklist[job[w].lock])
  /\ locklist' = [locklist EXCEPT ![job[w].lock] = Admit(w, @)]
  /\ mutex' = Main
  /\ UNCHANGED <<dispatch, disk, fds, fd, job, clients, log>>

\* handle_put asks for the file before it opens it.
Access(w) ==
  /\ Goto(w, "access", "open")
  /\ job' = [job EXCEPT ![w].existed = files[Uri(w)].kind \notin {"absent", "no_dir"}]
  /\ UNCHANGED <<dispatch, mutex, locklist, disk, fds, fd, clients, log>>

\* What open fails with, as the response that is sent for it; 0 if it succeeds.
OpenError(w) ==
  LET kind == files[Uri(w)].kind IN
  IF ~FdsLeft THEN 500
  ELSE IF kind = "forbidden" THEN 403
  ELSE IF IsGet(w) THEN (IF kind \in {"absent", "no_dir"} THEN 404 ELSE 0)
  ELSE IF kind \in {"dir", "no_dir"} THEN 403
  ELSE 0

\* open fails: respond, and log before returning early.
OpenFails(w) ==
  /\ Goto(w, "open", "log")
  /\ OpenError(w) # 0
  /\ reply' = [reply EXCEPT ![fd[w]] = OpenError(w)]
  /\ job' = [job EXCEPT ![w].code = OpenError(w), ![w].early = TRUE]
  /\ UNCHANGED <<dispatch, mutex, locklist, disk, fds, fd, req, body, log>>

\* A GET opens a directory: 403, and an early return that does not close it.
OpenDirectory(w) ==
  /\ Goto(w, "open", "log")
  /\ OpenError(w) = 0
  /\ IsGet(w) /\ files[Uri(w)].kind = "dir"
  /\ fds' = fds \cup {<<"file", fd[w]>>}
  /\ reply' = [reply EXCEPT ![fd[w]] = 403]
  /\ job' = [job EXCEPT ![w].code = 403, ![w].early = TRUE]
  /\ UNCHANGED <<dispatch, mutex, locklist, disk, fd, req, body, log>>

\* fstat gives a GET the number of bytes it will send.
OpenToRead(w) ==
  /\ Goto(w, "open", "transfer")
  /\ OpenError(w) = 0
  /\ IsGet(w) /\ files[Uri(w)].kind = "file"
  /\ fds' = fds \cup {<<"file", fd[w]>>}
  /\ job' = [job EXCEPT ![w].size = Len(files[Uri(w)].data)]
  /\ body' = [body EXCEPT ![fd[w]] = << >>]
  /\ UNCHANGED <<dispatch, mutex, locklist, disk, fd, req, reply, log>>

\* Mutant: O_TRUNC is forgotten.
CreatedOnly(u) == IF files[u].kind = "file" THEN files[u] ELSE File(<< >>)

\* O_CREAT | O_TRUNC leaves an empty file.
Truncated(u) == File(<< >>)

OpenToWrite(w) ==
  /\ Goto(w, "open", "transfer")
  /\ OpenError(w) = 0
  /\ ~IsGet(w)
  /\ fds' = fds \cup {<<"file", fd[w]>>}
  /\ files' = [files EXCEPT ![Uri(w)] = Truncated(Uri(w))]
  /\ body' = [body EXCEPT ![fd[w]] = << >>]
  /\ UNCHANGED <<dispatch, mutex, locklist, fixed, fd, job, req, reply, log>>

\* conn_send_file passes one chunk of the file to the client.
SendChunk(w) ==
  /\ pc[w] = "transfer" /\ IsGet(w)
  /\ Len(body[fd[w]]) < job[w].size
  /\ Len(body[fd[w]]) < Len(files[Uri(w)].data)
  /\ body' = [body EXCEPT ![fd[w]] = Append(@, files[Uri(w)].data[Len(@) + 1])]
  /\ UNCHANGED <<dispatch, mutex, locklist, disk, fds, pc, fd, job, req, reply, log>>

\* conn_recv_file passes one chunk of the request's body to the file.
ReceiveChunk(w) ==
  /\ pc[w] = "transfer" /\ ~IsGet(w)
  /\ Len(body[fd[w]]) < BodySize
  /\ body' = [body EXCEPT ![fd[w]] = Append(@, fd[w])]
  /\ files' = [files EXCEPT ![Uri(w)] = File(Append(@.data, fd[w]))]
  /\ UNCHANGED <<dispatch, mutex, locklist, fixed, fds, pc, fd, job, req, reply, log>>

\* The whole body has been passed: conn_send_file, which answers 200 itself, or
\* conn_recv_file returns NULL.
TransferDone(w) ==
  /\ Goto(w, "transfer", "log")
  /\ Len(body[fd[w]]) = IF IsGet(w) THEN job[w].size ELSE BodySize
  /\ job' = [job EXCEPT ![w].code = IF IsGet(w) \/ job[w].existed THEN 200 ELSE 201]
  /\ reply' = IF IsGet(w) THEN [reply EXCEPT ![fd[w]] = 200] ELSE reply
  /\ UNCHANGED <<dispatch, mutex, locklist, disk, fds, fd, req, body, log>>

\* The client is gone or too slow: the transfer stops where it is.
TransferFails(w) ==
  /\ Goto(w, "transfer", "log")
  /\ job' = [job EXCEPT ![w].code = 500]
  /\ UNCHANGED <<dispatch, mutex, locklist, disk, fds, fd, clients, log>>

\* Mutant: an early return of handle_get, too, leaves out the unlock.
AfterLogEarly(w) == IF job[w].early THEN "close" ELSE IF IsGet(w) THEN "unlock" ELSE "reply"

\* What follows the log line: a GET unlocks; a PUT responds and unlocks, but after its
\* early return, with the writer_unlock commented out, does neither.
AfterLog(w) == IF IsGet(w) THEN "unlock" ELSE IF job[w].early THEN "close" ELSE "reply"

\* The line on stderr.
Log(w) ==
  /\ Goto(w, "log", AfterLog(w))
  /\ log' = Append(log, [conn |-> fd[w], code |-> job[w].code])
  /\ UNCHANGED <<dispatch, mutex, locklist, disk, fds, fd, job, clients>>

Reply(w) ==
  /\ Goto(w, "reply", "unlock")
  /\ reply' = [reply EXCEPT ![fd[w]] = job[w].code]
  /\ UNCHANGED <<dispatch, mutex, locklist, disk, fds, fd, job, req, body, log>>

\* Mutant: handle_put calls reader_unlock.
ReleaseReader(w, node) == [node EXCEPT !.readers = @ \ {fd[w]}]

Release(w, node) == [node EXCEPT !.readers = @ \ {fd[w]}, !.writers = @ \ {fd[w]}]

Unlock(w) ==
  /\ Goto(w, "unlock", "close")
  /\ locklist' = [locklist EXCEPT ![job[w].lock] = Release(w, @)]
  /\ UNCHANGED <<dispatch, mutex, disk, fds, fd, job, clients, log>>

\* Mutant: handle_get and handle_put do not close the file.
ClosesConnection(w) == {<<"conn", fd[w]>>}

\* close(fd) unless the function returned early; conn_delete; close the connection.
Closes(w) == IF job[w].early THEN {<<"conn", fd[w]>>} ELSE {"conn", "file"} \X {fd[w]}

\* Then the loop declares a new fd, -1, and calls queue_pop.
Close(w) ==
  /\ Goto(w, "close", "pop")
  /\ fds' = fds \ Closes(w)
  /\ fd' = [fd EXCEPT ![w] = BadFd]
  /\ job' = [job EXCEPT ![w] = NoJob]
  /\ UNCHANGED <<dispatch, mutex, locklist, disk, clients, log>>

Work(w) ==
  \/ Start(w) \/ Pop(w) \/ Refuse(w) \/ Handle(w)
  \/ LockMutex(w) \/ FindLock(w) \/ AddLock(w) \/ Acquire(w)
  \/ Access(w) \/ OpenFails(w) \/ OpenDirectory(w) \/ OpenToRead(w) \/ OpenToWrite(w)
  \/ SendChunk(w) \/ ReceiveChunk(w) \/ TransferDone(w) \/ TransferFails(w)
  \/ Log(w) \/ Reply(w) \/ Unlock(w) \/ Close(w)

Next ==
  \/ \E c \in Conns, r \in Requests : Accept(c, r)
  \/ AcceptFails \/ Push
  \/ \E w \in Workers : Work(w)

Spec == Init /\ [][Next]_vars

\* Clients connect as they like; the dispatcher and the workers are scheduled.
FairSpec == Spec /\ WF_vars(Push) /\ \A w \in Workers : WF_vars(Work(w))
-----------------------------------------------------------------------------
(***************************************************************************)
(* Properties.                                                             *)
(***************************************************************************)

\* The audit log is an order in which the requests could have been served one at a
\* time: what a request answered, and the body of a GET, is explained by the disk at
\* start and the PUTs on lines above its own, although requests overlap.
PutsBefore(k, u) ==
  {j \in 1 .. k - 1 : LET c == log[j].conn IN
     req[c].uri = u /\ req[c].method = "PUT" /\ body[c] # NoBody}

FileBefore(k, u) ==
  IF PutsBefore(k, u) = {} THEN disk0[u]
  ELSE File(body[log[Max(PutsBefore(k, u))].conn])

Explains(before, line) ==
  LET c == line.conn IN
  /\ line.code = 200 => before.kind = "file"
                        /\ (req[c].method = "GET" => body[c] = before.data)
  /\ line.code = 201 => before.kind = "absent"
  /\ line.code = 404 => before.kind \in {"absent", "no_dir"}
  /\ line.code = 403 => before.kind \in {"dir", "forbidden", "no_dir"}

LogExplainsAnswers ==
  \A k \in DOMAIN log : Explains(FileBefore(k, req[log[k].conn].uri), log[k])

\* At the end of the log is the disk: a file nobody is writing is what the last PUT
\* in the log left, be it half a body.
Writing(u) == \E w \in Workers : fd[w] # BadFd /\ pc[w] \in {"transfer", "log"}
                                 /\ ~IsGet(w) /\ Uri(w) = u
LogExplainsDisk ==
  \A u \in Uris : Writing(u) \/ files[u] = FileBefore(Len(log) + 1, u)

\* All the requests for a URI meet in one reader/writer lock: the list, its mutex
\* and its nodes together implement one lock of rwlock.h for each URI.
Lock(u) == INSTANCE RWLockContract WITH
  Threads <- Conns,
  allocated <- TRUE,
  use <- [c \in Conns |->
            IF \E i \in DOMAIN locklist : locklist[i].uri = u /\ c \in locklist[i].readers
            THEN "read"
            ELSE IF \E i \in DOMAIN locklist : locklist[i].uri = u /\ c \in locklist[i].writers
            THEN "write"
            ELSE IF \E w \in Workers : fd[w] = c /\ pc[w] = "acquire" /\ Uri(w) = u
            THEN IF req[c].method = "GET" THEN "wants read" ELSE "wants write"
            ELSE "none"]
LocksFree == \A u \in Uris : Lock(u)!Init
LocksStep == \A u \in Uris : [Lock(u)!Next]_(Lock(u)!vars)
OneLockPerUri == LocksFree /\ [][LocksStep]_vars

\* The connections reach the workers through the FIFO of queue.h, each to one of
\* them and in the order they were accepted; a -1 from accept travels like them.
Threads == Workers \cup {Main}
Dispatch == INSTANCE BoundedFifo WITH
  Elems <- Conns \cup {BadFd},
  Size <- Cardinality(Workers),
  NoElem <- BadFd,
  q <- "live",
  items <- rqueue,
  pc <- [t \in Threads |->
           IF t = Main THEN (IF main = "push" THEN "push" ELSE "idle")
           ELSE IF pc[t] = "pop" THEN "pop" ELSE "idle"],
  elem <- [t \in Threads |-> IF t = Main THEN connfd ELSE BadFd],
  got <- [t \in Threads |-> IF t = Main THEN BadFd ELSE fd[t]]
DispatchFifo == Dispatch!Spec

\* One worker at most waits for a reader/writer lock in the whole server, for it
\* holds the global mutex meanwhile: the N_WAY priority never has to choose.
OnlyOneWaits == Cardinality({w \in Workers : pc[w] = "acquire"}) <= 1

\* A lock outlives the request that took it only if that is a PUT whose open failed.
OpenFailed(c) == req[c].method = "PUT" /\ body[c] = NoBody /\ reply[c] \in {403, 500}
LeftLocked ==
  \A i \in DOMAIN locklist : \A c \in locklist[i].readers \cup locklist[i].writers :
    (\A w \in Workers : fd[w] # c) => OpenFailed(c)

\* A descriptor outlives its request only if that is a GET of a directory.
LeftOpen ==
  \A d \in fds :
    \/ d[2] = connfd \/ (\E i \in DOMAIN rqueue : rqueue[i] = d[2])
    \/ \E w \in Workers : fd[w] = d[2]
    \/ d[1] = "file" /\ req[d[2]].method = "GET" /\ reply[d[2]] = 403

\* Whether the call that a worker is in can return; the other calls wait for nobody.  A
\* GET goes on sending while the file has what fstat said it has.
CanGo(w) ==
  /\ pc[w] = "start" => w \in threads
  /\ pc[w] = "pop" => rqueue # << >>
  /\ pc[w] = "mutex" => MutexFree
  /\ pc[w] = "acquire" => Admits(w, locklist[job[w].lock])
  /\ (pc[w] = "transfer" /\ IsGet(w)) =>
       Len(body[fd[w]]) = job[w].size \/ Len(body[fd[w]]) < Len(files[Uri(w)].data)
CanPush == main = "push" /\ ~QueueFull

\* No deadlock, although a worker waits for a lock with the global mutex in its hands:
\* unless the open of a PUT has failed, or -t was 0, then as long as a connection is
\* queued or served, or waits to be queued, somebody can go on.
SomebodyGoesOn ==
  (threads # {} /\ \A c \in Conns : ~OpenFailed(c)) =>
    \A d \in fds : d[1] = "conn" => CanPush \/ \E w \in Workers : CanGo(w)

\* Where every PUT can open its file, each accepted connection is served and closed,
\* whatever the other requests, their order and the failures of clients; all it takes
\* is one worker, which -t 0 does not give.
EveryConnectionCloses ==
  \A c \in Conns : (threads # {} /\ <<"conn", c>> \in fds) ~> <<"conn", c>> \notin fds

\* asgn4/rwlock.h: reader_lock and writer_lock acquire the lock; the worker that
\* calls one, holding the global mutex, goes on in the end.
LockCallReturns == \A w \in Workers : pc[w] = "acquire" ~> pc[w] # "acquire"
=============================================================================
