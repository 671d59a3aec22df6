-------------------------- MODULE HttpServerProofs --------------------------
(***************************************************************************)
(* Proofs about HttpServer.                                                *)
(***************************************************************************)
EXTENDS HttpServer, TLAPS, FiniteSetTheorems, SequenceTheorems

USE WorkersAssumption, BadFdAssumption, SizesAssumption

\* The nodes of the list have different URIs.
UniqueNodes ==
  \A i, j \in DOMAIN locklist : locklist[i].uri = locklist[j].uri => i = j

JobSet == [lock : Nat, existed : BOOLEAN, size : Nat, code : Codes, early : BOOLEAN]
NodeSet == [uri : Uris, readers : SUBSET Conns, writers : SUBSET Conns]

\* The smallest element of a singleton.
LEMMA MinOfOne ==
  ASSUME NEW i \in Nat
  PROVE  Min({i}) = i
BY DEF Min

\* find returns the node of the URI, and NULL when there is none.
LEMMA NodeFound ==
  ASSUME NEW uri, NEW list \in Seq(NodeSet),
         \A i, j \in DOMAIN list : list[i].uri = list[j].uri => i = j
  PROVE  \/ NodeOf(uri, list) = 0 /\ \A i \in DOMAIN list : list[i].uri # uri
         \/ NodeOf(uri, list) \in DOMAIN list /\ list[NodeOf(uri, list)].uri = uri
<1> DEFINE I == {i \in 1 .. Len(list) : list[i].uri = uri}
<1>1. NodeOf(uri, list) = IF I # {} THEN Min(I) ELSE 0
  BY DEF NodeOf, SelectInSeq
<1>2. DOMAIN list = 1 .. Len(list)
  OBVIOUS
<1>3. CASE I = {}
  BY <1>1, <1>2, <1>3
<1>4. ASSUME NEW i \in I
      PROVE  I = {i} /\ Min(I) = i
  <2>1. I = {i}
    BY <1>2
  <2> QED
    BY <2>1, MinOfOne
<1> QED
  BY <1>1, <1>2, <1>3, <1>4

\* The list after one node has been replaced.
LEMMA NodeUpdate ==
  ASSUME NEW L \in Seq(NodeSet), NEW i \in DOMAIN L, NEW r \in NodeSet,
         NEW M, M = [L EXCEPT ![i] = r]
  PROVE  /\ M \in Seq(NodeSet)
         /\ DOMAIN M = DOMAIN L
         /\ M[i] = r
         /\ \A j \in DOMAIN L : j # i => M[j] = L[j]
<1> DEFINE n == Len(L)
<1>1. DOMAIN L = 1 .. n /\ n \in Nat
  OBVIOUS
<1>2. L \in [1 .. n -> NodeSet]
  OBVIOUS
<1>3. i \in 1 .. n
  OBVIOUS
<1> HIDE DEF n
<1>4. M \in [1 .. n -> NodeSet]
  BY <1>2
<1>5. DOMAIN M = 1 .. n
  BY <1>4, Zenon
<1>6. M \in Seq(NodeSet)
  BY <1>1, <1>4, IsASeq
<1>7. M[i] = r /\ \A j \in 1 .. n : j # i => M[j] = L[j]
  BY <1>2, <1>3, Zenon
<1> QED
  BY <1>1, <1>5, <1>6, <1>7

\* The node after reader_lock or writer_lock, and after the unlock.
LEMMA Admitted ==
  ASSUME NEW w \in Workers, fd[w] \in Conns, NEW r \in NodeSet
  PROVE  /\ Admit(w, r) \in NodeSet
         /\ Admit(w, r).uri = r.uri
         /\ Admit(w, r).readers = IF IsGet(w) THEN r.readers \cup {fd[w]} ELSE r.readers
         /\ Admit(w, r).writers = IF IsGet(w) THEN r.writers ELSE r.writers \cup {fd[w]}
BY DEF Admit, NodeSet

\* The node after the unlock.
LEMMA Released ==
  ASSUME NEW w \in Workers, fd[w] \in Conns, NEW r \in NodeSet
  PROVE  /\ Release(w, r) \in NodeSet
         /\ Release(w, r).uri = r.uri
         /\ Release(w, r).readers = r.readers \ {fd[w]}
         /\ Release(w, r).writers = r.writers \ {fd[w]}
BY DEF Release, NodeSet

\* NoBody is not a sequence of chunks.
LEMMA NoContentIsNoBody == NoBody \notin Content
<1>1. ASSUME NoBody \in Content
      PROVE  FALSE
  <2>1. NoBody[1] \in Conns \cup {Old}
    BY <1>1 DEF NoBody, Content
  <2> QED
    BY <2>1 DEF NoBody
<1> QED
  BY <1>1

-----------------------------------------------------------------------------
(***************************************************************************)
(* The inductive invariant.                                                *)
(***************************************************************************)

Serving == {"mutex", "find", "add", "acquire", "access", "open", "transfer", "log",
            "reply", "unlock"}
Holding == {"access", "open", "transfer", "log", "reply", "unlock"}
Queued(c) == \E i \in DOMAIN rqueue : rqueue[i] = c
Logged(c) == \E i \in DOMAIN log : log[i].conn = c
Holds(c, i) == c \in locklist[i].readers \cup locklist[i].writers

\* A connection is with the dispatcher, in the queue, or with one worker.
OneOwner ==
  /\ main = "accept" => connfd = BadFd
  /\ \A i \in DOMAIN rqueue : rqueue[i] # BadFd =>
       /\ rqueue[i] # connfd
       /\ \A j \in DOMAIN rqueue : rqueue[i] = rqueue[j] => i = j
       /\ \A w \in Workers : rqueue[i] # fd[w]
  /\ \A w \in Workers : fd[w] # BadFd =>
       /\ fd[w] # connfd
       /\ \A v \in Workers : fd[w] = fd[v] => v = w

\* Until a worker has locked for it, a connection has left no trace.
Untouched(c) ==
  /\ body[c] = NoBody
  /\ ~Logged(c)
  /\ <<"file", c>> \notin fds
  /\ \A i \in DOMAIN locklist : ~Holds(c, i)

Fresh ==
  \A c \in Conns :
    /\ req[c] = NoRequest => <<"conn", c>> \notin fds /\ c # connfd /\ ~Queued(c)
    /\ req[c] = NoRequest \/ c = connfd \/ Queued(c) => Untouched(c)

\* Where the worker is tells what it has: a connection, the mutex, an early return.
WorkerInv(w) ==
  /\ pc[w] \in {"start", "pop"} => fd[w] = BadFd
  /\ fd[w] # BadFd => req[fd[w]] # NoRequest
  /\ pc[w] \in Serving => fd[w] \in Conns /\ req[fd[w]].method \in {"GET", "PUT"}
  /\ pc[w] \in {"access", "reply"} => ~IsGet(w)
  /\ pc[w] \in {"find", "add", "acquire"} => mutex = w
  /\ pc[w] \in {"handle", "mutex", "find", "add", "acquire"} /\ fd[w] # BadFd =>
       Untouched(fd[w])
  /\ pc[w] \in {"access", "open"} => body[fd[w]] = NoBody
  /\ pc[w] \in {"access", "open", "transfer", "log"} => ~Logged(fd[w])

EarlyInv(w) ==
  /\ job[w].early => pc[w] \in {"log", "unlock", "close"} /\ fd[w] \in Conns
  /\ job[w].early /\ ~IsGet(w) =>
       /\ pc[w] \in {"log", "close"}
       /\ req[fd[w]].method = "PUT"
       /\ body[fd[w]] = NoBody
       /\ reply[fd[w]] \in {403, 500}
  /\ fd[w] \in Conns /\ <<"file", fd[w]>> \in fds =>
       /\ pc[w] \in {"transfer", "log", "reply", "unlock", "close"}
       /\ job[w].early => IsGet(w) /\ reply[fd[w]] = 403

\* A worker that holds a lock holds the one of its URI, in the mode of its method.
LockInv(w) ==
  /\ pc[w] \in {"acquire"} \cup Holding =>
       /\ job[w].lock \in DOMAIN locklist
       /\ locklist[job[w].lock].uri = Uri(w)
  /\ pc[w] = "add" => \A i \in DOMAIN locklist : locklist[i].uri # Uri(w)
  /\ pc[w] \in Holding =>
       IF IsGet(w) THEN fd[w] \in locklist[job[w].lock].readers
       ELSE fd[w] \in locklist[job[w].lock].writers
  /\ fd[w] \in Conns => \A i \in DOMAIN locklist : Holds(fd[w], i) =>
       \/ pc[w] \in Holding /\ job[w].lock = i
       \/ pc[w] = "close" /\ job[w].early /\ ~IsGet(w)

\* The locks exclude.
ListInv ==
  /\ UniqueNodes
  /\ \A i \in DOMAIN locklist : \A c \in locklist[i].writers :
       locklist[i].readers = {} /\ locklist[i].writers = {c}

\* What has been transferred is in the file, as far as it goes.
TransferInv(w) ==
  pc[w] = "transfer" \/ (pc[w] = "log" /\ ~job[w].early) =>
    /\ body[fd[w]] # NoBody
    /\ IF IsGet(w)
       THEN /\ files[Uri(w)].kind = "file"
            /\ job[w].size = Len(files[Uri(w)].data)
            /\ Len(body[fd[w]]) <= job[w].size
            /\ \A i \in 1 .. Len(body[fd[w]]) : body[fd[w]][i] = files[Uri(w)].data[i]
            /\ pc[w] = "log" /\ job[w].code = 200 => Len(body[fd[w]]) = job[w].size
       ELSE files[Uri(w)] = File(body[fd[w]])

ServerInv ==
  /\ TypeOK /\ IsFiniteSet(fds)
  /\ OneOwner /\ Fresh /\ ListInv /\ LeftLocked /\ LeftOpen
  /\ \A w \in Workers : WorkerInv(w) /\ EarlyInv(w) /\ LockInv(w) /\ TransferInv(w)

-----------------------------------------------------------------------------
(***************************************************************************)
(* A worker leaves alone what belongs to others.                           *)
(***************************************************************************)

\* The steps of a worker touch its own variables and its connection, ...
Footprint(w) ==
  /\ threads' = threads /\ disk0' = disk0 /\ req' = req
  /\ main' = main /\ connfd' = connfd
  /\ \A v \in Workers \ {w} :
       /\ pc'[v] = pc[v] /\ fd'[v] = fd[v] /\ job'[v] = job[v]
       /\ mutex = v => mutex' = v
  /\ \A c \in Conns \ {fd[w]} :
       /\ reply'[c] = reply[c] /\ body'[c] = body[c]
       /\ \A k \in {"conn", "file"} : <<k, c>> \in fds' <=> <<k, c>> \in fds

\* ... its line of the log, ...
OwnLine(w) ==
  \/ log' = log
  \/ /\ pc[w] = "log"
     /\ log' = Append(log, [conn |-> fd[w], code |-> job[w].code])

\* ... its connection in a lock, ...
LocksKept(w) ==
  /\ DOMAIN locklist \subseteq DOMAIN locklist'
  /\ pc[w] # "add" => DOMAIN locklist' = DOMAIN locklist
  /\ \A i \in DOMAIN locklist : locklist'[i].uri = locklist[i].uri
  /\ \A i \in DOMAIN locklist' : \A c \in Conns \ {fd[w]} :
       /\ c \in locklist'[i].readers <=> i \in DOMAIN locklist /\ c \in locklist[i].readers
       /\ c \in locklist'[i].writers <=> i \in DOMAIN locklist /\ c \in locklist[i].writers

\* ... the file of its URI, under the lock of a PUT, ...
OtherFiles(w) ==
  \A u \in Uris : \/ files'[u] = files[u]
                  \/ pc[w] \in {"open", "transfer"} /\ ~IsGet(w) /\ u = Uri(w)

\* ... and the head of the queue, when it has no connection.
Moves(w) ==
  \/ fd'[w] = fd[w] /\ rqueue' = rqueue
  \/ Close(w) /\ fd'[w] = BadFd /\ rqueue' = rqueue
  \/ pc[w] = "pop" /\ rqueue # << >> /\ fd'[w] = Head(rqueue) /\ rqueue' = Tail(rqueue)

\* Every step of a worker keeps to its footprint.
LEMMA FootprintOfWork ==
  ASSUME NEW w \in Workers, TypeOK, WorkerInv(w), Work(w)
  PROVE  Footprint(w)
<1> USE DEF Footprint, TypeOK, Goto, dispatch, disk, fixed, clients
<1>1. CASE Start(w)
  BY <1>1 DEF Start
<1>2. CASE Pop(w)
  BY <1>2 DEF Pop
<1>3. CASE Refuse(w)
  BY <1>3 DEF Refuse
<1>4. CASE Handle(w)
  BY <1>4 DEF Handle
<1>5. CASE LockMutex(w)
  BY <1>5 DEF LockMutex, MutexFree
<1>6. CASE FindLock(w)
  BY <1>6 DEF FindLock
<1>7. CASE AddLock(w)
  BY <1>7 DEF AddLock
<1>8. CASE Acquire(w)
  BY <1>8 DEF Acquire, WorkerInv
<1>9. CASE Access(w)
  BY <1>9 DEF Access
<1>10. CASE OpenFails(w)
  BY <1>10 DEF OpenFails
<1>11. CASE OpenDirectory(w)
  BY <1>11, SMTT(40) DEF OpenDirectory
<1>12. CASE OpenToRead(w)
  BY <1>12 DEF OpenToRead
<1>13. CASE OpenToWrite(w)
  BY <1>13 DEF OpenToWrite
<1>14. CASE SendChunk(w)
  BY <1>14 DEF SendChunk
<1>15. CASE ReceiveChunk(w)
  BY <1>15 DEF ReceiveChunk
<1>16. CASE TransferDone(w)
  BY <1>16 DEF TransferDone
<1>17. CASE TransferFails(w)
  BY <1>17 DEF TransferFails
<1>18. CASE Log(w)
  BY <1>18 DEF Log
<1>19. CASE Reply(w)
  BY <1>19 DEF Reply
<1>20. CASE Unlock(w)
  BY <1>20 DEF Unlock
<1>21. CASE Close(w)
  BY <1>21 DEF Close, Closes
<1> QED
  BY <1>1, <1>2, <1>3, <1>4, <1>5, <1>6, <1>7, <1>8, <1>9, <1>10, <1>11, <1>12, <1>13,
     <1>14, <1>15, <1>16, <1>17, <1>18, <1>19, <1>20, <1>21 DEF Work

\* Every step of a worker writes its own line or none.
LEMMA LineOfWork ==
  ASSUME NEW w \in Workers, Work(w)
  PROVE  OwnLine(w)
<1> USE DEF OwnLine, Goto, dispatch, disk, fixed, clients
<1>1. CASE Start(w)
  BY <1>1 DEF Start
<1>2. CASE Pop(w)
  BY <1>2 DEF Pop
<1>3. CASE Refuse(w)
  BY <1>3 DEF Refuse
<1>4. CASE Handle(w)
  BY <1>4 DEF Handle
<1>5. CASE LockMutex(w)
  BY <1>5 DEF LockMutex
<1>6. CASE FindLock(w)
  BY <1>6 DEF FindLock
<1>7. CASE AddLock(w)
  BY <1>7 DEF AddLock
<1>8. CASE Acquire(w)
  BY <1>8 DEF Acquire
<1>9. CASE Access(w)
  BY <1>9 DEF Access
<1>10. CASE OpenFails(w)
  BY <1>10 DEF OpenFails
<1>11. CASE OpenDirectory(w)
  BY <1>11 DEF OpenDirectory
<1>12. CASE OpenToRead(w)
  BY <1>12 DEF OpenToRead
<1>13. CASE OpenToWrite(w)
  BY <1>13 DEF OpenToWrite
<1>14. CASE SendChunk(w)
  BY <1>14 DEF SendChunk
<1>15. CASE ReceiveChunk(w)
  BY <1>15 DEF ReceiveChunk
<1>16. CASE TransferDone(w)
  BY <1>16 DEF TransferDone
<1>17. CASE TransferFails(w)
  BY <1>17 DEF TransferFails
<1>18. CASE Log(w)
  BY <1>18 DEF Log
<1>19. CASE Reply(w)
  BY <1>19 DEF Reply
<1>20. CASE Unlock(w)
  BY <1>20 DEF Unlock
<1>21. CASE Close(w)
  BY <1>21 DEF Close
<1> QED
  BY <1>1, <1>2, <1>3, <1>4, <1>5, <1>6, <1>7, <1>8, <1>9, <1>10, <1>11, <1>12, <1>13,
     <1>14, <1>15, <1>16, <1>17, <1>18, <1>19, <1>20, <1>21 DEF Work

\* Every step of a worker writes the file of its own PUT or none.
LEMMA FilesOfWork ==
  ASSUME NEW w \in Workers, TypeOK, Work(w)
  PROVE  OtherFiles(w)
<1> USE DEF OtherFiles, TypeOK, Goto, dispatch, disk, fixed, clients
<1>1. CASE Start(w)
  BY <1>1 DEF Start
<1>2. CASE Pop(w)
  BY <1>2 DEF Pop
<1>3. CASE Refuse(w)
  BY <1>3 DEF Refuse
<1>4. CASE Handle(w)
  BY <1>4 DEF Handle
<1>5. CASE LockMutex(w)
  BY <1>5 DEF LockMutex
<1>6. CASE FindLock(w)
  BY <1>6 DEF FindLock
<1>7. CASE AddLock(w)
  BY <1>7 DEF AddLock
<1>8. CASE Acquire(w)
  BY <1>8 DEF Acquire
<1>9. CASE Access(w)
  BY <1>9 DEF Access
<1>10. CASE OpenFails(w)
  BY <1>10 DEF OpenFails
<1>11. CASE OpenDirectory(w)
  BY <1>11 DEF OpenDirectory
<1>12. CASE OpenToRead(w)
  BY <1>12 DEF OpenToRead
<1>13. CASE OpenToWrite(w)
  BY <1>13 DEF OpenToWrite
<1>14. CASE SendChunk(w)
  BY <1>14 DEF SendChunk
<1>15. CASE ReceiveChunk(w)
  BY <1>15 DEF ReceiveChunk
<1>16. CASE TransferDone(w)
  BY <1>16 DEF TransferDone
<1>17. CASE TransferFails(w)
  BY <1>17 DEF TransferFails
<1>18. CASE Log(w)
  BY <1>18 DEF Log
<1>19. CASE Reply(w)
  BY <1>19 DEF Reply
<1>20. CASE Unlock(w)
  BY <1>20 DEF Unlock
<1>21. CASE Close(w)
  BY <1>21 DEF Close
<1> QED
  BY <1>1, <1>2, <1>3, <1>4, <1>5, <1>6, <1>7, <1>8, <1>9, <1>10, <1>11, <1>12, <1>13,
     <1>14, <1>15, <1>16, <1>17, <1>18, <1>19, <1>20, <1>21 DEF Work

\* Every step of a worker takes the head of the queue or leaves the queue alone.
LEMMA MovesOfWork ==
  ASSUME NEW w \in Workers, TypeOK, Work(w)
  PROVE  Moves(w)
<1> USE DEF Moves, TypeOK, Goto, dispatch, disk, fixed, clients
<1>1. CASE Start(w)
  BY <1>1 DEF Start
<1>2. CASE Pop(w)
  BY <1>2 DEF Pop
<1>3. CASE Refuse(w)
  BY <1>3 DEF Refuse
<1>4. CASE Handle(w)
  BY <1>4 DEF Handle
<1>5. CASE LockMutex(w)
  BY <1>5 DEF LockMutex
<1>6. CASE FindLock(w)
  BY <1>6 DEF FindLock
<1>7. CASE AddLock(w)
  BY <1>7 DEF AddLock
<1>8. CASE Acquire(w)
  BY <1>8 DEF Acquire
<1>9. CASE Access(w)
  BY <1>9 DEF Access
<1>10. CASE OpenFails(w)
  BY <1>10 DEF OpenFails
<1>11. CASE OpenDirectory(w)
  BY <1>11 DEF OpenDirectory
<1>12. CASE OpenToRead(w)
  BY <1>12 DEF OpenToRead
<1>13. CASE OpenToWrite(w)
  BY <1>13 DEF OpenToWrite
<1>14. CASE SendChunk(w)
  BY <1>14 DEF SendChunk
<1>15. CASE ReceiveChunk(w)
  BY <1>15 DEF ReceiveChunk
<1>16. CASE TransferDone(w)
  BY <1>16 DEF TransferDone
<1>17. CASE TransferFails(w)
  BY <1>17 DEF TransferFails
<1>18. CASE Log(w)
  BY <1>18 DEF Log
<1>19. CASE Reply(w)
  BY <1>19 DEF Reply
<1>20. CASE Unlock(w)
  BY <1>20 DEF Unlock
<1>21. CASE Close(w)
  BY <1>21 DEF Close
<1> QED
  BY <1>1, <1>2, <1>3, <1>4, <1>5, <1>6, <1>7, <1>8, <1>9, <1>10, <1>11, <1>12, <1>13,
     <1>14, <1>15, <1>16, <1>17, <1>18, <1>19, <1>20, <1>21 DEF Work

\* A GET and a PUT name a URI.
LEMMA ServedRequests ==
  ASSUME TypeOK, NEW c \in Conns, req[c].method \in {"GET", "PUT"}
  PROVE  req[c].uri \in Uris
<1>1. req[c] \in Requests \cup {NoRequest}
  BY DEF TypeOK
<1>2. req[c] # NoRequest
  BY DEF NoRequest
<1>3. req[c] \notin [method : {"other", "malformed"}]
  OBVIOUS
<1> QED
  BY <1>1, <1>2, <1>3 DEF Requests

\* The list is a sequence of nodes.
LEMMA ListTyped ==
  ASSUME TypeOK
  PROVE  /\ locklist \in Seq(NodeSet)
         /\ \A k \in DOMAIN locklist : locklist[k] \in NodeSet
<1>1. locklist \in Seq(NodeSet)
  BY DEF TypeOK, NodeSet
<1> QED
  BY <1>1

\* What addtolist, the lock and the unlock do to the list.
LEMMA AddEffect ==
  ASSUME TypeOK, NEW w \in Workers, WorkerInv(w), AddLock(w)
  PROVE  /\ locklist' \in Seq(NodeSet) /\ pc[w] = "add" /\ Len(locklist) \in Nat
         /\ DOMAIN locklist = 1 .. Len(locklist) /\ DOMAIN locklist' = 1 .. Len(locklist) + 1
         /\ \A j \in DOMAIN locklist : locklist'[j] = locklist[j]
         /\ locklist'[Len(locklist) + 1].uri = Uri(w)
         /\ locklist'[Len(locklist) + 1].readers = {}
         /\ locklist'[Len(locklist) + 1].writers = {}
<1>1. locklist' = Append(locklist, [uri |-> Uri(w), readers |-> {}, writers |-> {}])
      /\ pc[w] = "add"
  BY DEF AddLock, Goto
<1>2. Uri(w) \in Uris
  BY <1>1, ServedRequests DEF WorkerInv, Serving, Uri
<1>3. locklist \in Seq(NodeSet)
  BY ListTyped
<1> DEFINE node == [uri |-> Uri(w), readers |-> {}, writers |-> {}]
<1>4. node \in NodeSet
  BY <1>2 DEF NodeSet
<1>5. node.uri = Uri(w) /\ node.readers = {} /\ node.writers = {}
  OBVIOUS
<1>6. locklist' = Append(locklist, node)
  BY <1>1
<1> HIDE DEF node
<1>7. /\ locklist' \in Seq(NodeSet) /\ Len(locklist) \in Nat
      /\ DOMAIN locklist = 1 .. Len(locklist) /\ DOMAIN locklist' = 1 .. Len(locklist) + 1
      /\ \A j \in 1 .. Len(locklist) : locklist'[j] = locklist[j]
      /\ locklist'[Len(locklist) + 1] = node
  BY <1>3, <1>4, <1>6
<1> QED
  BY <1>1, <1>5, <1>7

\* reader_lock or writer_lock adds the connection to the one node the worker found.
LEMMA AcquireEffect ==
  ASSUME TypeOK, NEW w \in Workers, WorkerInv(w), LockInv(w), Acquire(w)
  PROVE  /\ locklist' \in Seq(NodeSet) /\ DOMAIN locklist' = DOMAIN locklist
         /\ job[w].lock \in DOMAIN locklist /\ fd[w] \in Conns
         /\ \A j \in DOMAIN locklist : j # job[w].lock => locklist'[j] = locklist[j]
         /\ locklist'[job[w].lock].uri = locklist[job[w].lock].uri
         /\ locklist'[job[w].lock].readers =
              IF IsGet(w) THEN locklist[job[w].lock].readers \cup {fd[w]}
              ELSE locklist[job[w].lock].readers
         /\ locklist'[job[w].lock].writers =
              IF IsGet(w) THEN locklist[job[w].lock].writers
              ELSE locklist[job[w].lock].writers \cup {fd[w]}
<1>0. PICK k : k = job[w].lock
  OBVIOUS
<1>1. /\ k \in DOMAIN locklist /\ fd[w] \in Conns
      /\ locklist' = [locklist EXCEPT ![k] = Admit(w, locklist[k])]
  BY <1>0 DEF Acquire, Goto, LockInv, WorkerInv, Serving
<1>2. locklist \in Seq(NodeSet) /\ locklist[k] \in NodeSet
  BY <1>1, ListTyped
<1>3. Admit(w, locklist[k]) \in NodeSet
  BY <1>1, <1>2, Admitted
<1>4. /\ locklist' \in Seq(NodeSet) /\ DOMAIN locklist' = DOMAIN locklist
      /\ locklist'[k] = Admit(w, locklist[k])
      /\ \A j \in DOMAIN locklist : j # k => locklist'[j] = locklist[j]
  BY <1>1, <1>2, <1>3, NodeUpdate
<1>5. Admit(w, locklist[k]).uri = locklist[k].uri
  BY <1>1, <1>2, Admitted
<1>6. Admit(w, locklist[k]).readers =
        IF IsGet(w) THEN locklist[k].readers \cup {fd[w]} ELSE locklist[k].readers
  BY <1>1, <1>2, Admitted
<1>7. Admit(w, locklist[k]).writers =
        IF IsGet(w) THEN locklist[k].writers ELSE locklist[k].writers \cup {fd[w]}
  BY <1>1, <1>2, Admitted
<1> QED
  BY <1>0, <1>1, <1>4, <1>5, <1>6, <1>7

\* The unlock takes the connection out of that node.
LEMMA UnlockEffect ==
  ASSUME TypeOK, NEW w \in Workers, WorkerInv(w), LockInv(w), Unlock(w)
  PROVE  /\ locklist' \in Seq(NodeSet) /\ DOMAIN locklist' = DOMAIN locklist
         /\ job[w].lock \in DOMAIN locklist /\ fd[w] \in Conns
         /\ \A j \in DOMAIN locklist : j # job[w].lock => locklist'[j] = locklist[j]
         /\ locklist'[job[w].lock].uri = locklist[job[w].lock].uri
         /\ locklist'[job[w].lock].readers = locklist[job[w].lock].readers \ {fd[w]}
         /\ locklist'[job[w].lock].writers = locklist[job[w].lock].writers \ {fd[w]}
<1>0. PICK k : k = job[w].lock
  OBVIOUS
<1>1. /\ k \in DOMAIN locklist /\ fd[w] \in Conns
      /\ locklist' = [locklist EXCEPT ![k] = Release(w, locklist[k])]
  BY <1>0 DEF Unlock, Goto, LockInv, WorkerInv, Serving, Holding
<1>2. locklist \in Seq(NodeSet) /\ locklist[k] \in NodeSet
  BY <1>1, ListTyped
<1>3. /\ Release(w, locklist[k]) \in NodeSet
      /\ Release(w, locklist[k]).uri = locklist[k].uri
      /\ Release(w, locklist[k]).readers = locklist[k].readers \ {fd[w]}
      /\ Release(w, locklist[k]).writers = locklist[k].writers \ {fd[w]}
  BY <1>1, <1>2, Released
<1>4. /\ locklist' \in Seq(NodeSet) /\ DOMAIN locklist' = DOMAIN locklist
      /\ locklist'[k] = Release(w, locklist[k])
      /\ \A j \in DOMAIN locklist : j # k => locklist'[j] = locklist[j]
  BY <1>1, <1>2, <1>3, NodeUpdate, SMTT(40)
<1> QED
  BY <1>0, <1>1, <1>3, <1>4

\* Every step of a worker moves its own connection in and out of the locks, no other.
LEMMA LocksOfWork ==
  ASSUME NEW w \in Workers, TypeOK, WorkerInv(w), LockInv(w), Work(w)
  PROVE  LocksKept(w)
<1>1. CASE UNCHANGED locklist
  BY <1>1 DEF LocksKept
<1>2. CASE AddLock(w)
  <2>1. /\ DOMAIN locklist = 1 .. Len(locklist) /\ DOMAIN locklist' = 1 .. Len(locklist) + 1
        /\ \A j \in DOMAIN locklist : locklist'[j] = locklist[j]
        /\ Len(locklist) \in Nat /\ pc[w] = "add"
    BY <1>2, AddEffect
  <2>2. /\ locklist'[Len(locklist) + 1].readers = {}
        /\ locklist'[Len(locklist) + 1].writers = {}
    BY <1>2, AddEffect
  <2>3. \A i \in DOMAIN locklist' : i \in DOMAIN locklist \/ i = Len(locklist) + 1
    BY <2>1
  <2>4. Len(locklist) + 1 \notin DOMAIN locklist
    BY <2>1
  <2> QED
    BY <2>1, <2>2, <2>3, <2>4 DEF LocksKept
<1>3. CASE Acquire(w)
  BY <1>3, AcquireEffect DEF LocksKept
<1>4. CASE Unlock(w)
  BY <1>4, UnlockEffect DEF LocksKept
<1> QED
  BY <1>1, <1>2, <1>3, <1>4
  DEF Work, Start, Pop, Refuse, Handle, LockMutex, FindLock, Access, OpenFails,
      OpenDirectory, OpenToRead, OpenToWrite, SendChunk, ReceiveChunk, TransferDone,
      TransferFails, Log, Reply, Close, dispatch, disk, fixed, clients

\* Of two workers that hold the lock of one URI, both serve a GET.
LEMMA Excluded ==
  ASSUME TypeOK, OneOwner, ListInv, NEW w \in Workers, NEW v \in Workers, v # w,
         WorkerInv(w), WorkerInv(v), LockInv(w), LockInv(v),
         pc[w] \in Holding, pc[v] \in Holding, Uri(w) = Uri(v)
  PROVE  IsGet(w) /\ IsGet(v)
<1>1. fd[w] \in Conns /\ fd[v] \in Conns /\ fd[w] # fd[v]
  BY DEF WorkerInv, OneOwner, Serving, Holding
<1>2. job[w].lock = job[v].lock
  BY DEF LockInv, ListInv, UniqueNodes
<1> QED
  BY <1>1, <1>2 DEF LockInv, ListInv

\* What holds of the other workers still holds.
LEMMA OthersKeep ==
  ASSUME ServerInv, NEW w \in Workers, NEW v \in Workers, v # w, Work(w)
  PROVE  WorkerInv(v)' /\ EarlyInv(v)' /\ LockInv(v)' /\ TransferInv(v)'
<1>1. /\ TypeOK /\ OneOwner /\ ListInv
      /\ WorkerInv(w) /\ LockInv(w)
      /\ WorkerInv(v) /\ EarlyInv(v) /\ LockInv(v) /\ TransferInv(v)
  BY DEF ServerInv
<1>2. Footprint(w) /\ OwnLine(w) /\ LocksKept(w) /\ OtherFiles(w)
  BY <1>1, FootprintOfWork, LineOfWork, LocksOfWork, FilesOfWork
<1>3. pc'[v] = pc[v] /\ fd'[v] = fd[v] /\ job'[v] = job[v] /\ req' = req
  BY <1>2 DEF Footprint
<1>4. IsGet(v)' <=> IsGet(v)
  BY <1>3 DEF IsGet
<1>5. Uri(v)' = Uri(v)
  BY <1>3 DEF Uri
<1>6. fd[v] \in Conns =>
        /\ reply'[fd[v]] = reply[fd[v]] /\ body'[fd[v]] = body[fd[v]]
        /\ <<"file", fd[v]>> \in fds' <=> <<"file", fd[v]>> \in fds
  BY <1>1, <1>2, ZenonT(60) DEF Footprint, OneOwner
<1>7. fd[v] \in Conns => (Logged(fd[v])' => Logged(fd[v]))
  <2>1. fd[v] \in Conns => fd[w] # fd[v]
    BY <1>1 DEF OneOwner
  <2>2. log \in Seq([conn : Conns, code : Codes])
    BY <1>1 DEF TypeOK
  <2>3. CASE log' = Append(log, [conn |-> fd[w], code |-> job[w].code])
    <3>1. \A i \in DOMAIN log' : log'[i].conn = fd[w] \/ (i \in DOMAIN log /\ log'[i] = log[i])
      BY <2>2, <2>3
    <3> QED
      BY <1>3, <2>1, <3>1 DEF Logged
  <2> QED
    BY <1>2, <1>3, <2>3 DEF OwnLine, Logged
<1>8. fd[v] \in Conns =>
        \A i \in DOMAIN locklist' :
          /\ fd[v] \in locklist'[i].readers
               <=> i \in DOMAIN locklist /\ fd[v] \in locklist[i].readers
          /\ fd[v] \in locklist'[i].writers
               <=> i \in DOMAIN locklist /\ fd[v] \in locklist[i].writers
  BY <1>1, <1>2 DEF LocksKept, OneOwner
<1>9. fd[v] \in Conns =>
        \A i \in DOMAIN locklist' : Holds(fd[v], i)' => i \in DOMAIN locklist /\ Holds(fd[v], i)
  BY <1>3, <1>8 DEF Holds
<1>10. fd[v] # BadFd => fd[v] \in Conns
  BY <1>1 DEF TypeOK
<1>11. fd[v] \in Conns => (Untouched(fd[v]) => Untouched(fd[v])')
  BY <1>3, <1>6, <1>7, <1>9 DEF Untouched
<1>12. WorkerInv(v)'
  <2>1. mutex = v => mutex' = v
    BY <1>2 DEF Footprint
  <2> QED
    BY <1>1, <1>3, <1>4, <1>6, <1>7, <1>10, <1>11, <2>1 DEF WorkerInv, Serving
<1>13. EarlyInv(v)'
  BY <1>1, <1>3, <1>4, <1>6 DEF EarlyInv
<1>14. LockInv(v)'
  <2>1. pc[v] \in {"acquire"} \cup Holding =>
          /\ job[v].lock \in DOMAIN locklist'
          /\ locklist'[job[v].lock].uri = Uri(v)
    BY <1>1, <1>2 DEF LockInv, LocksKept
  <2>2. pc[v] = "add" => \A i \in DOMAIN locklist' : locklist'[i].uri # Uri(v)
    BY <1>1, <1>2 DEF LockInv, LocksKept, WorkerInv
  <2>3. pc[v] \in Holding => fd[v] \in Conns /\ job[v].lock \in DOMAIN locklist
    BY <1>1 DEF WorkerInv, LockInv, Serving, Holding
  <2>4. pc[v] \in Holding => IF IsGet(v) THEN fd[v] \in locklist'[job[v].lock].readers
                             ELSE fd[v] \in locklist'[job[v].lock].writers
    BY <1>1, <1>8, <2>1, <2>3 DEF LockInv
  <2>5. fd[v] \in Conns => \A i \in DOMAIN locklist' : Holds(fd[v], i)' =>
          \/ pc[v] \in Holding /\ job[v].lock = i
          \/ pc[v] = "close" /\ job[v].early /\ ~IsGet(v)
    BY <1>1, <1>9 DEF LockInv
  <2> QED
    BY <1>3, <1>4, <1>5, <2>1, <2>2, <2>4, <2>5 DEF LockInv
<1>15. TransferInv(v)'
  <2>1. pc[v] \in {"transfer", "log"} => files'[Uri(v)] = files[Uri(v)]
    BY <1>1, <1>2, Excluded, ServedRequests DEF OtherFiles, Holding, Serving, WorkerInv, Uri
  <2> QED
    BY <1>1, <1>3, <1>4, <1>5, <1>6, <1>10, <2>1, SMTT(40) DEF TransferInv, WorkerInv, Serving
<1> QED
  BY <1>12, <1>13, <1>14, <1>15

\* What holds of the connections as a whole still holds.
LEMMA OwnersKept ==
  ASSUME ServerInv, NEW w \in Workers, Work(w)
  PROVE  OneOwner'
<1>1. TypeOK /\ OneOwner /\ WorkerInv(w)
  BY DEF ServerInv
<1>2. Footprint(w) /\ Moves(w)
  BY <1>1, FootprintOfWork, MovesOfWork
<1>3. CASE rqueue' = rqueue /\ fd'[w] \in {fd[w], BadFd}
  BY <1>1, <1>2, <1>3 DEF OneOwner, Footprint
<1>4. CASE pc[w] = "pop" /\ rqueue # << >> /\ fd'[w] = Head(rqueue) /\ rqueue' = Tail(rqueue)
  <2>1. /\ \A i \in DOMAIN rqueue' : i + 1 \in DOMAIN rqueue /\ rqueue'[i] = rqueue[i + 1]
        /\ 1 \in DOMAIN rqueue /\ fd'[w] = rqueue[1]
        /\ DOMAIN rqueue' \subseteq Nat \ {0}
    BY <1>1, <1>4, SMTT(40) DEF TypeOK
  <2>2. main' = main /\ connfd' = connfd /\ \A v \in Workers : v # w => fd'[v] = fd[v]
    BY <1>2 DEF Footprint
  <2>3. ASSUME NEW i \in DOMAIN rqueue', rqueue'[i] # BadFd
        PROVE  /\ rqueue'[i] # connfd
               /\ \A j \in DOMAIN rqueue' : rqueue'[i] = rqueue'[j] => i = j
               /\ \A v \in Workers : rqueue'[i] # fd'[v]
    BY <1>1, <2>1, <2>2, <2>3 DEF OneOwner
  <2>4. ASSUME NEW v \in Workers, fd'[v] # BadFd
        PROVE  fd'[v] # connfd /\ \A x \in Workers : fd'[v] = fd'[x] => x = v
    BY <1>1, <2>1, <2>2, <2>4 DEF OneOwner
  <2> QED
    BY <1>1, <2>2, <2>3, <2>4 DEF OneOwner
<1> QED
  BY <1>2, <1>3, <1>4 DEF Moves

\* A connection that no worker has yet has still left no trace.
LEMMA FreshKept ==
  ASSUME ServerInv, NEW w \in Workers, Work(w)
  PROVE  Fresh'
<1>1. TypeOK /\ OneOwner /\ Fresh /\ WorkerInv(w) /\ LockInv(w)
  BY DEF ServerInv
<1>2. Footprint(w) /\ OwnLine(w) /\ LocksKept(w) /\ Moves(w)
  BY <1>1, FootprintOfWork, LineOfWork, LocksOfWork, MovesOfWork
<1> SUFFICES ASSUME NEW c \in Conns
             PROVE  /\ req'[c] = NoRequest =>
                         <<"conn", c>> \notin fds' /\ c # connfd' /\ ~Queued(c)'
                    /\ req'[c] = NoRequest \/ c = connfd' \/ Queued(c)' => Untouched(c)'
  BY DEF Fresh
<1>3. Queued(c)' => Queued(c)
  <2>1. CASE rqueue' = rqueue
    BY <2>1 DEF Queued
  <2>2. CASE rqueue # << >> /\ rqueue' = Tail(rqueue)
    <3>1. \A i \in DOMAIN rqueue' : i + 1 \in DOMAIN rqueue /\ rqueue'[i] = rqueue[i + 1]
      BY <1>1, <2>2, SMTT(40) DEF TypeOK
    <3> QED
      BY <3>1 DEF Queued
  <2> QED
    BY <1>2, <2>1, <2>2 DEF Moves
<1>4. req' = req /\ connfd' = connfd
  BY <1>2 DEF Footprint
<1>5. CASE c = fd[w]
  <2>1. req[c] # NoRequest /\ c # connfd /\ ~Queued(c)
    BY <1>1, <1>5 DEF OneOwner, WorkerInv, Queued
  <2> QED
    BY <1>3, <1>4, <2>1
<1>6. CASE c # fd[w]
  <2>1. /\ body'[c] = body[c]
        /\ \A k \in {"conn", "file"} : <<k, c>> \in fds' <=> <<k, c>> \in fds
    BY <1>2, <1>6 DEF Footprint
  <2>2. Logged(c)' => Logged(c)
    <3>1. CASE log' = Append(log, [conn |-> fd[w], code |-> job[w].code])
      <4>1. log \in Seq([conn : Conns, code : Codes])
        BY <1>1 DEF TypeOK
      <4>2. \A i \in DOMAIN log' : log'[i].conn = fd[w] \/ (i \in DOMAIN log /\ log'[i] = log[i])
        BY <3>1, <4>1
      <4> QED
        BY <1>6, <4>2 DEF Logged
    <3> QED
      BY <1>2, <3>1 DEF OwnLine, Logged
  <2>3. \A i \in DOMAIN locklist' : Holds(c, i)' => i \in DOMAIN locklist /\ Holds(c, i)
    BY <1>2, <1>6 DEF LocksKept, Holds
  <2>4. Untouched(c) => Untouched(c)'
    BY <2>1, <2>2, <2>3 DEF Untouched
  <2> QED
    BY <1>1, <1>3, <1>4, <2>1, <2>4 DEF Fresh
<1> QED
  BY <1>5, <1>6

\* What a worker leaves locked is left by a PUT whose open failed.
LEMMA LeftLockedKept ==
  ASSUME ServerInv, NEW w \in Workers, Work(w), TypeOK'
  PROVE  LeftLocked'
<1>1. TypeOK /\ OneOwner /\ LeftLocked /\ WorkerInv(w) /\ LockInv(w) /\ EarlyInv(w)
  BY DEF ServerInv
<1>2. Footprint(w) /\ LocksKept(w) /\ Moves(w)
  BY <1>1, FootprintOfWork, LocksOfWork, MovesOfWork
<1> SUFFICES ASSUME NEW i \in DOMAIN locklist',
                    NEW c \in locklist'[i].readers \cup locklist'[i].writers,
                    \A v \in Workers : fd'[v] # c, c \in Conns
             PROVE  req'[c].method = "PUT" /\ body'[c] = NoBody /\ reply'[c] \in {403, 500}
  <2>1. locklist' \in Seq(NodeSet)
    BY DEF TypeOK, NodeSet
  <2>2. \A j \in DOMAIN locklist' : locklist'[j] \in NodeSet
    BY <2>1
  <2>3. \A j \in DOMAIN locklist' :
          locklist'[j].readers \subseteq Conns /\ locklist'[j].writers \subseteq Conns
    BY <2>2 DEF NodeSet
  <2> QED
    BY <2>3 DEF LeftLocked, OpenFailed
<1>3. req' = req
  BY <1>2 DEF Footprint
<1>4. CASE c # fd[w]
  <2>1. i \in DOMAIN locklist /\ c \in locklist[i].readers \cup locklist[i].writers
    BY <1>2, <1>4 DEF LocksKept
  <2>2. \A v \in Workers : fd[v] # c
    BY <1>2, <1>4 DEF Footprint
  <2>3. req[c].method = "PUT" /\ body[c] = NoBody /\ reply[c] \in {403, 500}
    BY <1>1, <2>1, <2>2 DEF LeftLocked, OpenFailed
  <2>4. reply'[c] = reply[c] /\ body'[c] = body[c]
    BY <1>2, <1>4 DEF Footprint
  <2> QED
    BY <1>3, <2>3, <2>4
<1>5. CASE c = fd[w]
  <2>1. Close(w)
    BY <1>1, <1>2, <1>5 DEF Moves, WorkerInv
  <2>2. /\ pc[w] = "close" /\ locklist' = locklist
        /\ body' = body /\ reply' = reply
    BY <2>1 DEF Close, Goto, clients
  <2>3. job[w].early /\ ~IsGet(w)
    BY <1>1, <1>5, <2>2 DEF LockInv, Holds, Holding
  <2> QED
    BY <1>1, <1>3, <1>5, <2>2, <2>3 DEF EarlyInv
<1> QED
  BY <1>4, <1>5

\* What a worker leaves open is left by a GET of a directory.
LEMMA LeftOpenKept ==
  ASSUME ServerInv, NEW w \in Workers, Work(w), TypeOK'
  PROVE  LeftOpen'
<1>1. TypeOK /\ OneOwner /\ LeftOpen /\ WorkerInv(w) /\ EarlyInv(w)
  BY DEF ServerInv
<1>2. Footprint(w) /\ Moves(w)
  BY <1>1, FootprintOfWork, MovesOfWork
<1> SUFFICES ASSUME NEW d \in fds'
             PROVE  \/ d[2] = connfd' \/ (\E i \in DOMAIN rqueue' : rqueue'[i] = d[2])
                    \/ \E v \in Workers : fd'[v] = d[2]
                    \/ d[1] = "file" /\ req'[d[2]].method = "GET" /\ reply'[d[2]] = 403
  BY DEF LeftOpen
<1>3. PICK k \in {"conn", "file"}, c \in Conns : d = <<k, c>>
  BY DEF TypeOK
<1>4. req' = req /\ connfd' = connfd
  BY <1>2 DEF Footprint
<1>5. CASE c # fd[w]
  <2>1. d \in fds /\ reply'[c] = reply[c]
    BY <1>2, <1>3, <1>5 DEF Footprint
  <2>2. \/ c = connfd \/ (\E i \in DOMAIN rqueue : rqueue[i] = c)
        \/ \E v \in Workers : fd[v] = c
        \/ k = "file" /\ req[c].method = "GET" /\ reply[c] = 403
    BY <1>1, <1>3, <2>1 DEF LeftOpen
  <2>3. ASSUME NEW i \in DOMAIN rqueue, rqueue[i] = c
        PROVE  (\E j \in DOMAIN rqueue' : rqueue'[j] = c) \/ fd'[w] = c
    <3>1. CASE rqueue # << >> /\ fd'[w] = Head(rqueue) /\ rqueue' = Tail(rqueue)
      <4>0. rqueue \in Seq(Conns \cup {BadFd})
        BY <1>1 DEF TypeOK
      <4>1. rqueue \in Seq(Conns \cup {BadFd}) /\ i \in 1 .. Len(rqueue)
        BY <4>0
      <4>2. CASE i = 1
        BY <2>3, <3>1, <4>1, <4>2
      <4>3. CASE i # 1
        <5>1. i - 1 \in 1 .. Len(rqueue) - 1
          BY <4>1, <4>3
        <5>2. DOMAIN rqueue' = 1 .. Len(rqueue) - 1 /\ rqueue'[i - 1] = rqueue[(i - 1) + 1]
          BY <3>1, <4>1, <5>1, HeadTailProperties
        <5> QED
          BY <2>3, <4>1, <5>1, <5>2
      <4> QED
        BY <4>2, <4>3
    <3> QED
      BY <1>2, <2>3, <3>1 DEF Moves
  <2>4. ASSUME NEW v \in Workers, fd[v] = c
        PROVE  fd'[v] = c
    BY <1>2, <1>5, <2>4 DEF Footprint
  <2> QED
    BY <1>3, <1>4, <2>1, <2>2, <2>3, <2>4
<1>6. CASE c = fd[w] /\ fd'[w] # fd[w]
  <2>1. Close(w)
    BY <1>1, <1>2, <1>6 DEF Moves, WorkerInv
  <2>2. d \in fds /\ d \notin Closes(w) /\ reply' = reply
    BY <2>1 DEF Close, clients
  <2>3. job[w].early /\ k = "file"
    BY <1>3, <1>6, <2>2 DEF Closes
  <2>4. IsGet(w) /\ reply[c] = 403
    BY <1>1, <1>3, <1>6, <2>2, <2>3, SMTT(40) DEF EarlyInv
  <2> QED
    BY <1>3, <1>4, <1>6, <2>2, <2>3, <2>4 DEF IsGet
<1> QED
  BY <1>3, <1>5, <1>6

-----------------------------------------------------------------------------
(***************************************************************************)
(* Types.                                                                  *)
(***************************************************************************)

\* queue_pop leaves a queue within its slots.
LEMMA QueueTyped ==
  ASSUME TypeOK, NEW w \in Workers, Work(w)
  PROVE  rqueue' \in Seq(Conns \cup {BadFd}) /\ Len(rqueue') <= Cardinality(threads)
<1>1. CASE Pop(w)
  <2>1. rqueue \in Seq(Conns \cup {BadFd}) /\ rqueue # << >> /\ rqueue' = Tail(rqueue)
        /\ Len(rqueue) <= Cardinality(threads)
    BY <1>1 DEF Pop, TypeOK
  <2>2. Cardinality(threads) \in Nat
    BY FS_Subset, FS_CardinalityType, SMTT(40) DEF TypeOK
  <2> QED
    BY <2>1, <2>2
<1> QED
  BY <1>1 DEF TypeOK,
      Work, Start, Refuse, Handle, LockMutex, FindLock, AddLock, Acquire, Access,
      OpenFails, OpenDirectory, OpenToRead, OpenToWrite, SendChunk, ReceiveChunk,
      TransferDone, TransferFails, Log, Reply, Unlock, Close, dispatch, disk, fixed,
      clients

\* A worker has a connection or -1.
LEMMA FdTyped ==
  ASSUME TypeOK, NEW w \in Workers, Work(w)
  PROVE  fd' \in [Workers -> Conns \cup {BadFd}]
<1>1. CASE Pop(w)
  BY <1>1 DEF Pop, TypeOK
<1>2. CASE Close(w)
  BY <1>2, SMTT(40) DEF Close, TypeOK
<1> QED
  BY <1>1, <1>2 DEF TypeOK,
      Work, Start, Refuse, Handle, LockMutex, FindLock, AddLock, Acquire, Access,
      OpenFails, OpenDirectory, OpenToRead, OpenToWrite, SendChunk, ReceiveChunk,
      TransferDone, TransferFails, Log, Reply, Unlock, dispatch, disk, fixed, clients

\* The global mutex has one owner or none.
LEMMA MutexTyped ==
  ASSUME TypeOK, NEW w \in Workers, Work(w)
  PROVE  mutex' \in Workers \cup {Main}
<1>1. CASE LockMutex(w)
  BY <1>1 DEF LockMutex
<1>2. CASE Acquire(w)
  BY <1>2 DEF Acquire
<1> QED
  BY <1>1, <1>2 DEF TypeOK,
      Work, Start, Pop, Refuse, Handle, FindLock, AddLock, Access, OpenFails,
     OpenDirectory, OpenToRead, OpenToWrite, SendChunk, ReceiveChunk, TransferDone,
     TransferFails, Log, Reply, Unlock, Close, dispatch, disk, fixed, clients

\* A worker stays within its loop.
LEMMA PcTyped ==
  ASSUME TypeOK, NEW w \in Workers, Work(w)
  PROVE  pc' \in [Workers -> Locations]
<1> USE DEF TypeOK, Goto, Locations
<1>1. CASE Start(w)
  BY <1>1 DEF Start
<1>2. CASE Pop(w)
  BY <1>2 DEF Pop
<1>3. CASE Refuse(w)
  BY <1>3 DEF Refuse
<1>4. CASE Handle(w)
  BY <1>4 DEF Handle
<1>5. CASE LockMutex(w)
  BY <1>5 DEF LockMutex
<1>6. CASE FindLock(w)
  BY <1>6 DEF FindLock
<1>7. CASE AddLock(w)
  BY <1>7 DEF AddLock
<1>8. CASE Acquire(w)
  BY <1>8 DEF Acquire
<1>9. CASE Access(w)
  BY <1>9 DEF Access
<1>10. CASE OpenFails(w)
  BY <1>10 DEF OpenFails
<1>11. CASE OpenDirectory(w)
  BY <1>11 DEF OpenDirectory
<1>12. CASE OpenToRead(w)
  BY <1>12 DEF OpenToRead
<1>13. CASE OpenToWrite(w)
  BY <1>13 DEF OpenToWrite
<1>14. CASE SendChunk(w)
  BY <1>14 DEF SendChunk
<1>15. CASE ReceiveChunk(w)
  BY <1>15 DEF ReceiveChunk
<1>16. CASE TransferDone(w)
  BY <1>16 DEF TransferDone
<1>17. CASE TransferFails(w)
  BY <1>17 DEF TransferFails
<1>18. CASE Log(w)
  BY <1>18 DEF Log, AfterLog
<1>19. CASE Reply(w)
  BY <1>19 DEF Reply
<1>20. CASE Unlock(w)
  BY <1>20 DEF Unlock
<1>21. CASE Close(w)
  BY <1>21 DEF Close
<1> QED
  BY <1>1, <1>2, <1>3, <1>4, <1>5, <1>6, <1>7, <1>8, <1>9, <1>10, <1>11, <1>12, <1>13,
     <1>14, <1>15, <1>16, <1>17, <1>18, <1>19, <1>20, <1>21 DEF Work

\* A client is sent one of the codes.
LEMMA ReplyTyped ==
  ASSUME TypeOK, NEW w \in Workers, Work(w)
  PROVE  reply' \in [Conns -> Codes]
<1>1. CASE Refuse(w)
  <2>1. reply' = reply \/ \E x \in Codes : reply' = [reply EXCEPT ![fd[w]] = x]
    BY <1>1 DEF Refuse, Codes
  <2> QED
    BY <2>1 DEF TypeOK
<1>2. CASE OpenFails(w)
  <2>1. OpenError(w) \in Codes
    BY DEF OpenError, Codes
  <2> QED
    BY <1>2, <2>1 DEF OpenFails, TypeOK
<1>3. CASE OpenDirectory(w)
  <2>1. 403 \in Codes
    BY DEF Codes
  <2> QED
    BY <1>3, <2>1 DEF OpenDirectory, TypeOK
<1>4. CASE TransferDone(w)
  <2>1. 200 \in Codes
    BY DEF Codes
  <2> QED
    BY <1>4, <2>1 DEF TransferDone, TypeOK
<1>5. CASE Reply(w)
  <2>1. job[w].code \in Codes
    BY DEF TypeOK
  <2> QED
    BY <1>5, <2>1 DEF Reply, TypeOK
<1> QED
  BY <1>1, <1>2, <1>3, <1>4, <1>5 DEF TypeOK,
      Work, Start, Pop, Handle, LockMutex, FindLock, AddLock, Acquire, Access,
     OpenToRead, OpenToWrite, SendChunk, ReceiveChunk, TransferFails, Log, Unlock,
     Close, dispatch, disk, fixed, clients

\* What is served has its URI, and a file there has contents.
LEMMA ServedFile ==
  ASSUME TypeOK, NEW w \in Workers, WorkerInv(w), pc[w] \in Serving
  PROVE  /\ fd[w] \in Conns /\ Uri(w) \in Uris
         /\ files[Uri(w)].kind = "file" =>
              files[Uri(w)].data \in Content /\ files[Uri(w)] = File(files[Uri(w)].data)
<1>1. fd[w] \in Conns /\ req[fd[w]].method \in {"GET", "PUT"}
  BY DEF WorkerInv
<1>2. Uri(w) \in Uris
  BY <1>1, ServedRequests DEF Uri
<1>3. ASSUME files[Uri(w)].kind = "file"
      PROVE  files[Uri(w)].data \in Content /\ files[Uri(w)] = File(files[Uri(w)].data)
  <2>1. files[Uri(w)] \in [kind : {"file"}, data : Content]
    BY <1>2, <1>3 DEF TypeOK
  <2> QED
    BY <2>1 DEF File
<1> QED
  BY <1>1, <1>2, <1>3

\* A line names a connection and a code.
LEMMA LogTyped ==
  ASSUME TypeOK, NEW w \in Workers, WorkerInv(w), Work(w)
  PROVE  log' \in Seq([conn : Conns, code : Codes])
<1>1. CASE Log(w)
  <2>1. fd[w] \in Conns /\ job[w].code \in Codes
    BY <1>1 DEF Log, Goto, WorkerInv, Serving, TypeOK
  <2>2. [conn |-> fd[w], code |-> job[w].code] \in [conn : Conns, code : Codes]
    BY <2>1
  <2> QED
    BY <1>1, <2>2 DEF Log, TypeOK
<1> QED
  BY <1>1 DEF TypeOK,
      Work, Start, Pop, Refuse, Handle, LockMutex, FindLock, AddLock, Acquire, Access,
      OpenFails, OpenDirectory, OpenToRead, OpenToWrite, SendChunk, ReceiveChunk,
     TransferDone, TransferFails, Reply, Unlock, Close, dispatch, disk, fixed, clients

\* A worker opens files for its connection.
LEMMA FdsTyped ==
  ASSUME TypeOK, NEW w \in Workers, WorkerInv(w), Work(w)
  PROVE  fds' \subseteq {"conn", "file"} \X Conns
<1>1. CASE OpenDirectory(w)
  <2>1. fd[w] \in Conns
    BY <1>1 DEF OpenDirectory, Goto, WorkerInv, Serving
  <2> QED
    BY <1>1, <2>1 DEF OpenDirectory, TypeOK
<1>2. CASE OpenToRead(w)
  <2>1. fd[w] \in Conns
    BY <1>2 DEF OpenToRead, Goto, WorkerInv, Serving
  <2> QED
    BY <1>2, <2>1 DEF OpenToRead, TypeOK
<1>3. CASE OpenToWrite(w)
  <2>1. fd[w] \in Conns
    BY <1>3 DEF OpenToWrite, Goto, WorkerInv, Serving
  <2> QED
    BY <1>3, <2>1 DEF OpenToWrite, TypeOK
<1>4. CASE Close(w)
  BY <1>4 DEF Close, TypeOK
<1> QED
  BY <1>1, <1>2, <1>3, <1>4 DEF TypeOK,
      Work, Start, Pop, Refuse, Handle, LockMutex, FindLock, AddLock, Acquire, Access,
     OpenFails, SendChunk, ReceiveChunk, TransferDone, TransferFails, Log, Reply,
     Unlock, dispatch, disk, fixed, clients

\* open fails when the descriptors have run out.
LEMMA FdsBounded ==
  ASSUME TypeOK, NEW w \in Workers, IsFiniteSet(fds), Work(w)
  PROVE  IsFiniteSet(fds') /\ Cardinality(fds') <= FdLimit
<1>1. CASE OpenDirectory(w)
  <2>1. FdsLeft
    BY <1>1 DEF OpenDirectory, OpenError
  <2>2. Cardinality(fds) \in Nat /\ Cardinality(fds) < FdLimit
    BY <2>1, FS_CardinalityType DEF FdsLeft
  <2>3. fds' = fds \cup {<<"file", fd[w]>>}
    BY <1>1 DEF OpenDirectory
  <2>4. IsFiniteSet(fds \cup {<<"file", fd[w]>>})
    BY FS_AddElement
  <2>5. Cardinality(fds \cup {<<"file", fd[w]>>}) \in {Cardinality(fds), Cardinality(fds) + 1}
    BY FS_AddElement
  <2> QED
    BY <2>2, <2>3, <2>4, <2>5
<1>2. CASE OpenToRead(w)
  <2>1. FdsLeft
    BY <1>2 DEF OpenToRead, OpenError
  <2>2. Cardinality(fds) \in Nat /\ Cardinality(fds) < FdLimit
    BY <2>1, FS_CardinalityType DEF FdsLeft
  <2>3. fds' = fds \cup {<<"file", fd[w]>>}
    BY <1>2 DEF OpenToRead
  <2>4. IsFiniteSet(fds \cup {<<"file", fd[w]>>})
    BY FS_AddElement
  <2>5. Cardinality(fds \cup {<<"file", fd[w]>>}) \in {Cardinality(fds), Cardinality(fds) + 1}
    BY FS_AddElement
  <2> QED
    BY <2>2, <2>3, <2>4, <2>5
<1>3. CASE OpenToWrite(w)
  <2>1. FdsLeft
    BY <1>3 DEF OpenToWrite, OpenError
  <2>2. Cardinality(fds) \in Nat /\ Cardinality(fds) < FdLimit
    BY <2>1, FS_CardinalityType DEF FdsLeft
  <2>3. fds' = fds \cup {<<"file", fd[w]>>}
    BY <1>3 DEF OpenToWrite
  <2>4. IsFiniteSet(fds \cup {<<"file", fd[w]>>})
    BY FS_AddElement
  <2>5. Cardinality(fds \cup {<<"file", fd[w]>>}) \in {Cardinality(fds), Cardinality(fds) + 1}
    BY FS_AddElement
  <2> QED
    BY <2>2, <2>3, <2>4, <2>5
<1>4. CASE Close(w)
  <2>1. fds' \subseteq fds
    BY <1>4 DEF Close
  <2>2. Cardinality(fds') <= Cardinality(fds) /\ IsFiniteSet(fds') /\ Cardinality(fds) <= FdLimit
    BY <2>1, FS_Subset DEF TypeOK
  <2>3. Cardinality(fds) \in Nat /\ Cardinality(fds') \in Nat
    BY <2>2, FS_CardinalityType
  <2> QED
    BY <2>2, <2>3
<1> QED
  BY <1>1, <1>2, <1>3, <1>4 DEF TypeOK,
      Work, Start, Pop, Refuse, Handle, LockMutex, FindLock, AddLock, Acquire, Access,
     OpenFails, SendChunk, ReceiveChunk, TransferDone, TransferFails, Log, Reply,
     Unlock, dispatch, disk, fixed, clients

\* The list stays a sequence of nodes.
LEMMA ListTypedAfter ==
  ASSUME TypeOK, NEW w \in Workers, WorkerInv(w), LockInv(w), Work(w)
  PROVE  locklist' \in Seq(NodeSet)
<1>1. CASE AddLock(w)
  BY <1>1, AddEffect
<1>2. CASE Acquire(w)
  BY <1>2, AcquireEffect
<1>3. CASE Unlock(w)
  BY <1>3, UnlockEffect
<1> QED
  BY <1>1, <1>2, <1>3 DEF TypeOK, NodeSet,
      Work, Start, Pop, Refuse, Handle, LockMutex, FindLock, Access, OpenFails,
     OpenDirectory, OpenToRead, OpenToWrite, SendChunk, ReceiveChunk, TransferDone,
     TransferFails, Log, Reply, Close, dispatch, disk, fixed, clients

\* The number of a node is a number.
LEMMA NodeNumber ==
  ASSUME NEW L \in Seq(NodeSet), NEW uri, NodeOf(uri, L) = 0 \/ NodeOf(uri, L) \in DOMAIN L
  PROVE  NodeOf(uri, L) \in Nat
OBVIOUS

\* find after addtolist returns the new node.
LEMMA NewNode ==
  ASSUME TypeOK, NEW w \in Workers, WorkerInv(w), LockInv(w), ListInv, AddLock(w)
  PROVE  /\ UniqueNodes'
         /\ NodeOf(Uri(w), locklist') \in DOMAIN locklist'
         /\ locklist'[NodeOf(Uri(w), locklist')].uri = Uri(w)
<1>1. /\ locklist' \in Seq(NodeSet) /\ pc[w] = "add" /\ Len(locklist) \in Nat
      /\ DOMAIN locklist = 1 .. Len(locklist) /\ DOMAIN locklist' = 1 .. Len(locklist) + 1
      /\ \A j \in DOMAIN locklist : locklist'[j] = locklist[j]
  BY AddEffect
<1>a. locklist'[Len(locklist) + 1].uri = Uri(w)
  BY AddEffect
<1>2. \A i \in 1 .. Len(locklist) : locklist[i].uri # Uri(w)
  BY <1>1 DEF LockInv
<1>3. \A i, j \in DOMAIN locklist' : locklist'[i].uri = locklist'[j].uri => i = j
  <2> SUFFICES ASSUME NEW i \in DOMAIN locklist', NEW j \in DOMAIN locklist',
                      locklist'[i].uri = locklist'[j].uri
               PROVE  i = j
    OBVIOUS
  <2>1. CASE i \in 1 .. Len(locklist) /\ j \in 1 .. Len(locklist)
    BY <1>1, <2>1 DEF ListInv, UniqueNodes
  <2>2. CASE i = Len(locklist) + 1
    BY <1>1, <1>a, <1>2, <2>2
  <2>3. CASE j = Len(locklist) + 1
    BY <1>1, <1>a, <1>2, <2>3
  <2> QED
    BY <1>1, <2>1, <2>2, <2>3
<1> QED
  BY <1>1, <1>a, <1>3, NodeFound DEF UniqueNodes

\* find returns NULL, or the node of the URI.
LEMMA OldNode ==
  ASSUME TypeOK, ListInv, NEW uri
  PROVE  /\ NodeOf(uri, locklist) \in Nat
         /\ \/ NodeOf(uri, locklist) = 0 /\ \A i \in DOMAIN locklist : locklist[i].uri # uri
            \/ /\ NodeOf(uri, locklist) \in DOMAIN locklist
               /\ locklist[NodeOf(uri, locklist)].uri = uri
<1>1. locklist \in Seq(NodeSet)
  BY ListTyped
<1>2. \/ NodeOf(uri, locklist) = 0 /\ \A i \in DOMAIN locklist : locklist[i].uri # uri
      \/ /\ NodeOf(uri, locklist) \in DOMAIN locklist
         /\ locklist[NodeOf(uri, locklist)].uri = uri
  BY <1>1, NodeFound DEF ListInv, UniqueNodes
<1> QED
  BY <1>1, <1>2, NodeNumber

\* The locals of the handlers keep their types.
LEMMA JobTyped ==
  ASSUME TypeOK, NEW w \in Workers, WorkerInv(w), LockInv(w), ListInv, Work(w)
  PROVE  job' \in [Workers -> JobSet]
<1>1. CASE FindLock(w)
  <2>1. NodeOf(Uri(w), locklist) \in Nat
    BY OldNode
  <2>2. job \in [Workers -> JobSet]
    BY DEF TypeOK, JobSet, JobSet
  <2> QED
    BY <1>1, <2>1, <2>2 DEF FindLock, JobSet
<1>2. CASE AddLock(w)
  <2>1. NodeOf(Uri(w), locklist') \in Nat
    BY <1>2, NewNode, ListTypedAfter
  <2>2. job \in [Workers -> JobSet]
    BY DEF TypeOK, JobSet, JobSet
  <2> QED
    BY <1>2, <2>1, <2>2 DEF AddLock, JobSet
<1>3. CASE Access(w)
  <2>1. (files[Uri(w)].kind \notin {"absent", "no_dir"}) \in BOOLEAN
    OBVIOUS
  <2>2. job \in [Workers -> JobSet]
    BY DEF TypeOK, JobSet, JobSet
  <2> QED
    BY <1>3, <2>1, <2>2 DEF Access, JobSet
<1>4. CASE OpenFails(w)
  <2>1. OpenError(w) \in Codes
    BY DEF OpenError, Codes
  <2>2. job \in [Workers -> JobSet]
    BY DEF TypeOK, JobSet, JobSet
  <2> QED
    BY <1>4, <2>1, <2>2 DEF OpenFails, JobSet
<1>5. CASE OpenDirectory(w)
  <2>1. 403 \in Codes
    BY DEF Codes
  <2>2. job \in [Workers -> JobSet]
    BY DEF TypeOK, JobSet, JobSet
  <2> DEFINE x == 403
  <2>3. x \in Codes /\ job' = [job EXCEPT ![w].code = x, ![w].early = TRUE]
    BY <1>5, <2>1 DEF OpenDirectory
  <2> HIDE DEF x
  <2> QED
    BY <2>2, <2>3 DEF JobSet
<1>6. CASE OpenToRead(w)
  <2>1. Len(files[Uri(w)].data) \in Nat
    BY <1>6, ServedFile DEF OpenToRead, Goto, Serving, Content
  <2>2. job \in [Workers -> JobSet]
    BY DEF TypeOK, JobSet, JobSet
  <2> QED
    BY <1>6, <2>1, <2>2 DEF OpenToRead, JobSet
<1>7. CASE TransferDone(w)
  <2>1. {200, 201} \subseteq Codes
    BY DEF Codes
  <2>2. job \in [Workers -> JobSet]
    BY DEF TypeOK, JobSet, JobSet
  <2> QED
    BY <1>7, <2>1, <2>2 DEF TransferDone, JobSet
<1>8. CASE TransferFails(w)
  <2>1. 500 \in Codes
    BY DEF Codes
  <2>2. job \in [Workers -> JobSet]
    BY DEF TypeOK, JobSet, JobSet
  <2> QED
    BY <1>8, <2>1, <2>2 DEF TransferFails, JobSet
<1>9. CASE Close(w)
  <2>1. NoJob \in JobSet
    BY DEF NoJob, JobSet, Codes
  <2>2. job \in [Workers -> JobSet]
    BY DEF TypeOK, JobSet, JobSet
  <2> QED
    BY <1>9, <2>1, <2>2 DEF Close
<1> QED
  BY <1>1, <1>2, <1>3, <1>4, <1>5, <1>6, <1>7, <1>8, <1>9 DEF TypeOK, JobSet,
      Work, Start, Pop, Refuse, Handle, LockMutex, Acquire, OpenToWrite, SendChunk,
     ReceiveChunk, Log, Reply, Unlock, dispatch, disk, fixed, clients

\* A file with one more chunk.
LEMMA AppendedContent ==
  ASSUME NEW s \in Content, NEW x \in Conns \cup {Old}
  PROVE  /\ Append(s, x) \in Content /\ Append(s, x) # NoBody
         /\ Len(Append(s, x)) = Len(s) + 1
         /\ Append(s, x)[Len(s) + 1] = x
         /\ \A i \in 1 .. Len(s) : Append(s, x)[i] = s[i]
         /\ Len(s) \in Nat
<1>1. Append(s, x) \in Seq(Conns \cup {Old})
  BY DEF Content
<1>2. Append(s, x) # NoBody
  BY <1>1, NoContentIsNoBody DEF Content
<1> QED
  BY <1>1, <1>2 DEF Content

\* The file that O_TRUNC leaves.
LEMMA EmptyContent == << >> \in Content /\ << >> # NoBody /\ Len(<< >>) = 0
BY DEF Content, NoBody

\* A file is made of whole chunks, and no longer than a body or the file at start.
LEMMA FilesTyped ==
  ASSUME TypeOK, NEW w \in Workers, WorkerInv(w), TransferInv(w), Work(w)
  PROVE  /\ files' \in [Uris -> [kind : {"absent", "no_dir", "dir", "forbidden"}]
                                \cup [kind : {"file"}, data : Content]]
         /\ \A u \in Uris : files'[u].kind = "file" => Len(files'[u].data) <= BodySize + 1
<1> USE DEF File
<1>1. CASE OpenToWrite(w)
  <2>1. files' = [files EXCEPT ![Uri(w)] = [kind |-> "file", data |-> << >>]]
    BY <1>1 DEF OpenToWrite, Truncated
  <2> DEFINE empty == << >>
             new == [kind |-> "file", data |-> empty]
  <2>2. empty \in Content /\ Len(empty) <= BodySize + 1
    BY EmptyContent
  <2>3. files' = [files EXCEPT ![Uri(w)] = new]
    BY <2>1
  <2> HIDE DEF empty
  <2>4. new \in [kind : {"file"}, data : Content] /\ Len(new.data) <= BodySize + 1
    BY <2>2
  <2> HIDE DEF new
  <2> QED
    BY <2>3, <2>4 DEF TypeOK
<1>2. CASE ReceiveChunk(w)
  <2> DEFINE new == Append(body[fd[w]], fd[w])
  <2>1. /\ pc[w] = "transfer" /\ ~IsGet(w) /\ Len(body[fd[w]]) < BodySize
        /\ files' = [files EXCEPT ![Uri(w)] = [kind |-> "file",
                                               data |-> Append(files[Uri(w)].data, fd[w])]]
    BY <1>2 DEF ReceiveChunk
  <2>2. fd[w] \in Conns /\ Uri(w) \in Uris
    BY <2>1, ServedFile DEF Serving
  <2>3. body[fd[w]] # NoBody /\ files[Uri(w)] = [kind |-> "file", data |-> body[fd[w]]]
    BY <2>1 DEF TransferInv
  <2>4. body[fd[w]] \in Content
    BY <2>2, <2>3 DEF TypeOK
  <2>5. new \in Content /\ Len(new) <= BodySize + 1
    BY <2>1, <2>2, <2>4, AppendedContent, SMTT(40)
  <2>6. files' = [files EXCEPT ![Uri(w)] = [kind |-> "file", data |-> new]]
    BY <2>1, <2>3
  <2> HIDE DEF new
  <2>7. [kind |-> "file", data |-> new] \in [kind : {"file"}, data : Content]
    BY <2>5
  <2> QED
    BY <2>2, <2>5, <2>6, <2>7 DEF TypeOK
<1> QED
  BY <1>1, <1>2 DEF TypeOK,
      Work, Start, Pop, Refuse, Handle, LockMutex, FindLock, AddLock, Acquire, Access,
      OpenFails, OpenDirectory, OpenToRead, SendChunk, TransferDone, TransferFails, Log,
     Reply, Unlock, Close, dispatch, disk, fixed, clients

\* So is what has been transferred.
LEMMA BodyTyped ==
  ASSUME TypeOK, NEW w \in Workers, WorkerInv(w), TransferInv(w), Work(w)
  PROVE  /\ body' \in [Conns -> {NoBody} \cup Content]
         /\ \A c \in Conns : Len(body'[c]) <= BodySize + 1
<1>1. CASE OpenToRead(w) \/ OpenToWrite(w)
  <2>1. body' = [body EXCEPT ![fd[w]] = << >>]
    BY <1>1 DEF OpenToRead, OpenToWrite
  <2> DEFINE empty == << >>
  <2>2. empty \in Content /\ Len(empty) <= BodySize + 1
    BY EmptyContent
  <2>3. body' = [body EXCEPT ![fd[w]] = empty]
    BY <2>1
  <2> HIDE DEF empty
  <2> QED
    BY <2>2, <2>3 DEF TypeOK
<1>2. CASE SendChunk(w)
  <2> DEFINE x == files[Uri(w)].data[Len(body[fd[w]]) + 1]
             new == Append(body[fd[w]], x)
  <2>1. /\ pc[w] = "transfer" /\ IsGet(w)
        /\ Len(body[fd[w]]) < Len(files[Uri(w)].data)
        /\ body' = [body EXCEPT ![fd[w]] = new]
    BY <1>2 DEF SendChunk
  <2>2. fd[w] \in Conns /\ Uri(w) \in Uris
    BY <2>1, ServedFile DEF Serving
  <2>3. body[fd[w]] # NoBody /\ files[Uri(w)].kind = "file"
    BY <2>1 DEF TransferInv
  <2>4. body[fd[w]] \in Content /\ files[Uri(w)].data \in Content
    BY <2>1, <2>2, <2>3, ServedFile DEF TypeOK, Serving
  <2>5. x \in Conns \cup {Old}
    BY <2>1, <2>4 DEF Content
  <2>6. Len(files[Uri(w)].data) <= BodySize + 1
    BY <2>2, <2>3 DEF TypeOK
  <2> HIDE DEF x
  <2>7. new \in Content /\ Len(new) = Len(body[fd[w]]) + 1 /\ Len(body[fd[w]]) \in Nat
    BY <2>4, <2>5, AppendedContent
  <2>8. Len(files[Uri(w)].data) \in Nat
    BY <2>4 DEF Content
  <2>9. Len(new) <= BodySize + 1
    BY <2>1, <2>6, <2>7, <2>8
  <2> HIDE DEF new
  <2> QED
    BY <2>1, <2>7, <2>9 DEF TypeOK
<1>3. CASE ReceiveChunk(w)
  <2> DEFINE new == Append(body[fd[w]], fd[w])
  <2>1. /\ pc[w] = "transfer" /\ ~IsGet(w) /\ Len(body[fd[w]]) < BodySize
        /\ body' = [body EXCEPT ![fd[w]] = new]
    BY <1>3 DEF ReceiveChunk
  <2>2. fd[w] \in Conns
    BY <2>1, ServedFile DEF Serving
  <2>3. body[fd[w]] \in Content
    BY <2>1, <2>2 DEF TransferInv, TypeOK
  <2>4. new \in Content /\ Len(new) = Len(body[fd[w]]) + 1 /\ Len(body[fd[w]]) \in Nat
    BY <2>2, <2>3, AppendedContent
  <2> HIDE DEF new
  <2>5. Len(new) <= BodySize + 1
    BY <2>1, <2>4
  <2> QED
    BY <2>1, <2>4, <2>5 DEF TypeOK
<1> QED
  BY <1>1, <1>2, <1>3 DEF TypeOK,
      Work, Start, Pop, Refuse, Handle, LockMutex, FindLock, AddLock, Acquire, Access,
      OpenFails, OpenDirectory, TransferDone, TransferFails, Log, Reply, Unlock, Close,
     dispatch, disk, fixed, clients

\* A worker writes one line for its connection.
LEMMA LoggedOnce ==
  ASSUME TypeOK, NEW w \in Workers, WorkerInv(w), Work(w)
  PROVE  \A i, j \in DOMAIN log' : log'[i].conn = log'[j].conn => i = j
<1>1. CASE log' = log
  BY <1>1 DEF TypeOK
<1>2. CASE pc[w] = "log" /\ log' = Append(log, [conn |-> fd[w], code |-> job[w].code])
  <2>1. log \in Seq([conn : Conns, code : Codes])
    BY DEF TypeOK
  <2>2. DOMAIN log' = 1 .. Len(log) + 1 /\ DOMAIN log = 1 .. Len(log) /\ Len(log) \in Nat
    BY <1>2, <2>1
  <2>3. /\ log'[Len(log) + 1].conn = fd[w]
        /\ \A i \in DOMAIN log : log'[i] = log[i]
    BY <1>2, <2>1
  <2>4. \A i \in DOMAIN log : log[i].conn # fd[w]
    BY <1>2 DEF WorkerInv, Logged
  <2>5. \A i, j \in DOMAIN log : log[i].conn = log[j].conn => i = j
    BY DEF TypeOK
  <2> QED
    BY <2>2, <2>3, <2>4, <2>5
<1> QED
  BY <1>1, <1>2, LineOfWork DEF OwnLine

\* A step of a worker keeps the types.
LEMMA TypesKept ==
  ASSUME ServerInv, NEW w \in Workers, Work(w)
  PROVE  TypeOK' /\ IsFiniteSet(fds')
<1>1. TypeOK /\ IsFiniteSet(fds) /\ ListInv /\ WorkerInv(w) /\ LockInv(w) /\ TransferInv(w)
  BY DEF ServerInv
<1>2. threads' = threads /\ main' = main /\ connfd' = connfd /\ req' = req
  BY <1>1, FootprintOfWork DEF Footprint
<1>3. /\ rqueue' \in Seq(Conns \cup {BadFd}) /\ Len(rqueue') <= Cardinality(threads)
      /\ mutex' \in Workers \cup {Main}
  BY <1>1, QueueTyped, MutexTyped
<1>4. locklist' \in Seq([uri : Uris, readers : SUBSET Conns, writers : SUBSET Conns])
  BY <1>1, ListTypedAfter DEF NodeSet
<1>5. /\ files' \in [Uris -> [kind : {"absent", "no_dir", "dir", "forbidden"}]
                             \cup [kind : {"file"}, data : Content]]
      /\ \A u \in Uris : files'[u].kind = "file" => Len(files'[u].data) <= BodySize + 1
  BY <1>1, FilesTyped
<1>6. fds' \subseteq {"conn", "file"} \X Conns /\ Cardinality(fds') <= FdLimit /\ IsFiniteSet(fds')
  BY <1>1, FdsTyped, FdsBounded
<1>7. pc' \in [Workers -> Locations] /\ fd' \in [Workers -> Conns \cup {BadFd}]
  BY <1>1, PcTyped, FdTyped
<1>8. job' \in [Workers -> [lock : Nat, existed : BOOLEAN, size : Nat, code : Codes,
                           early : BOOLEAN]]
  BY <1>1, JobTyped DEF JobSet
<1>9. /\ body' \in [Conns -> {NoBody} \cup Content]
      /\ \A c \in Conns : Len(body'[c]) <= BodySize + 1
  BY <1>1, BodyTyped
<1>10. reply' \in [Conns -> Codes] /\ log' \in Seq([conn : Conns, code : Codes])
  BY <1>1, ReplyTyped, LogTyped
<1>11. \A i, j \in DOMAIN log' : log'[i].conn = log'[j].conn => i = j
  BY <1>1, LoggedOnce
<1>12. /\ threads' \subseteq Workers /\ main' \in {"accept", "push"}
       /\ connfd' \in Conns \cup {BadFd} /\ req' \in [Conns -> Requests \cup {NoRequest}]
  BY <1>1, <1>2 DEF TypeOK
<1>13. Len(rqueue') <= Cardinality(threads')
  BY <1>2, <1>3
<1> QED
  BY <1>3, <1>4, <1>5, <1>6, <1>7, <1>8, <1>9, <1>10, <1>11, <1>12, <1>13, Zenon DEF TypeOK

-----------------------------------------------------------------------------
(***************************************************************************)
(* Each step of a worker keeps what is said of that worker.                *)
(***************************************************************************)

\* A step of a worker keeps what it has.
LEMMA OwnWorkerInv ==
  ASSUME ServerInv, NEW w \in Workers, Work(w)
  PROVE  WorkerInv(w)'
<1>a. TypeOK /\ OneOwner /\ Fresh /\ ListInv
  BY DEF ServerInv
<1>b. WorkerInv(w) /\ EarlyInv(w) /\ LockInv(w) /\ TransferInv(w)
  BY DEF ServerInv
<1>c. req' = req
  BY <1>a, <1>b, FootprintOfWork DEF Footprint
<1>d. pc'[w] \in Locations /\ fd[w] \in Conns \cup {BadFd}
  BY <1>a, PcTyped DEF TypeOK
<1> USE DEF WorkerInv, Serving, TypeOK, Goto, dispatch, disk, fixed, clients, IsGet
<1>1. CASE Start(w)
  BY <1>1, <1>a, <1>b, <1>c DEF Start
<1>2. CASE Pop(w)
  <2>1. /\ pc[w] = "pop" /\ pc'[w] = "handle" /\ fd'[w] = Head(rqueue) /\ rqueue # << >>
        /\ body' = body /\ log' = log /\ fds' = fds /\ locklist' = locklist
    BY <1>2, <1>a DEF Pop
  <2>2. rqueue[1] = Head(rqueue) /\ 1 \in DOMAIN rqueue
    BY <2>1, <1>a
  <2>3. fd'[w] # BadFd => fd'[w] \in Conns /\ Queued(fd'[w])
    BY <2>1, <2>2, <1>a DEF Queued
  <2>4. fd'[w] # BadFd => Untouched(fd'[w]) /\ req[fd'[w]] # NoRequest
    BY <2>3, <1>a DEF Fresh
  <2>5. Untouched(fd'[w]) => Untouched(fd[w])'
    BY <2>1 DEF Untouched, Logged, Holds
  <2> QED
    BY <2>1, <2>4, <2>5, <1>c
<1>3. CASE Refuse(w)
  BY <1>3, <1>a, <1>b, <1>c DEF Refuse
<1>4. CASE Handle(w)
  <2>1. fd' = fd /\ body' = body /\ log' = log /\ fds' = fds /\ locklist' = locklist
    BY <1>4 DEF Handle
  <2>2. Untouched(fd[w]) => Untouched(fd[w])'
    BY <2>1 DEF Untouched, Logged, Holds
  <2> QED
    BY <1>4, <2>1, <2>2, <1>a, <1>b, <1>c DEF Handle
<1>5. CASE LockMutex(w)
  <2>1. fd' = fd /\ body' = body /\ log' = log /\ fds' = fds /\ locklist' = locklist
    BY <1>5 DEF LockMutex
  <2>2. Untouched(fd[w]) => Untouched(fd[w])'
    BY <2>1 DEF Untouched, Logged, Holds
  <2> QED
    BY <1>5, <2>1, <2>2, <1>a, <1>b, <1>c DEF LockMutex
<1>6. CASE FindLock(w)
  <2>1. fd' = fd /\ body' = body /\ log' = log /\ fds' = fds /\ locklist' = locklist
    BY <1>6 DEF FindLock
  <2>2. Untouched(fd[w]) => Untouched(fd[w])'
    BY <2>1 DEF Untouched, Logged, Holds
  <2> QED
    BY <1>6, <2>1, <2>2, <1>a, <1>b, <1>c DEF FindLock
<1>7. CASE AddLock(w)
  <2>1. fd' = fd /\ body' = body /\ log' = log /\ fds' = fds
        /\ locklist' = Append(locklist, [uri |-> Uri(w), readers |-> {}, writers |-> {}])
    BY <1>7 DEF AddLock
  <2>2. \A i \in DOMAIN locklist' : Holds(fd[w], i)' => i \in DOMAIN locklist /\ Holds(fd[w], i)
    <3>1. locklist \in Seq(NodeSet)
      BY <1>a, ListTyped
    <3>2. \A i \in DOMAIN locklist' : \/ i \in DOMAIN locklist /\ locklist'[i] = locklist[i]
                                      \/ locklist'[i].readers = {} /\ locklist'[i].writers = {}
      BY <2>1, <3>1
    <3> QED
      BY <2>1, <3>2 DEF Holds
  <2>3. Untouched(fd[w]) => Untouched(fd[w])'
    BY <2>1, <2>2 DEF Untouched, Logged
  <2> QED
    BY <1>7, <2>1, <2>3, <1>a, <1>b, <1>c DEF AddLock
<1>8. CASE Acquire(w)
  BY <1>8, <1>a, <1>b, <1>c DEF Acquire, Untouched, Logged
<1>9. CASE Access(w)
  BY <1>9, <1>a, <1>b, <1>c DEF Access, Logged
<1>10. CASE OpenFails(w)
  BY <1>10, <1>a, <1>b, <1>c DEF OpenFails, Logged
<1>11. CASE OpenDirectory(w)
  BY <1>11, <1>a, <1>b, <1>c DEF OpenDirectory, Logged
<1>12. CASE OpenToRead(w)
  BY <1>12, <1>a, <1>b, <1>c DEF OpenToRead, Logged
<1>13. CASE OpenToWrite(w)
  BY <1>13, <1>a, <1>b, <1>c DEF OpenToWrite, Logged
<1>14. CASE SendChunk(w)
  BY <1>14, <1>a, <1>b, <1>c DEF SendChunk, Logged
<1>15. CASE ReceiveChunk(w)
  BY <1>15, <1>a, <1>b, <1>c DEF ReceiveChunk, Logged
<1>16. CASE TransferDone(w)
  BY <1>16, <1>a, <1>b, <1>c DEF TransferDone, Logged
<1>17. CASE TransferFails(w)
  BY <1>17, <1>a, <1>b, <1>c DEF TransferFails, Logged
<1>18. CASE Log(w)
  BY <1>18, <1>a, <1>b, <1>c DEF Log, AfterLog
<1>19. CASE Reply(w)
  BY <1>19, <1>a, <1>b, <1>c DEF Reply
<1>20. CASE Unlock(w)
  BY <1>20, <1>a, <1>b, <1>c DEF Unlock
<1>21. CASE Close(w)
  BY <1>21, <1>a, <1>b, <1>c, SMTT(40) DEF Close
<1> QED
  BY <1>1, <1>2, <1>3, <1>4, <1>5, <1>6, <1>7, <1>8, <1>9, <1>10, <1>11, <1>12, <1>13,
     <1>14, <1>15, <1>16, <1>17, <1>18, <1>19, <1>20, <1>21 DEF Work

\* A step of a worker keeps what an early return leaves behind.
LEMMA OwnEarlyInv ==
  ASSUME ServerInv, NEW w \in Workers, Work(w)
  PROVE  EarlyInv(w)'
<1>a. TypeOK /\ OneOwner /\ Fresh /\ ListInv
  BY DEF ServerInv
<1>b. WorkerInv(w) /\ EarlyInv(w) /\ LockInv(w) /\ TransferInv(w)
  BY DEF ServerInv
<1>c. req' = req
  BY <1>a, <1>b, FootprintOfWork DEF Footprint
<1>d. pc'[w] \in Locations /\ fd[w] \in Conns \cup {BadFd}
  BY <1>a, PcTyped DEF TypeOK
<1> USE DEF EarlyInv, Serving, TypeOK, Goto, dispatch, disk, fixed, clients, IsGet, NoJob
<1>1. CASE Start(w)
  BY <1>1, <1>a, <1>b, <1>c DEF Start
<1>2. CASE Pop(w)
  <2>1. /\ pc[w] = "pop" /\ pc'[w] = "handle" /\ fd'[w] = Head(rqueue) /\ rqueue # << >>
        /\ fds' = fds /\ job' = job
    BY <1>2, <1>a DEF Pop
  <2>2. rqueue[1] = Head(rqueue) /\ 1 \in DOMAIN rqueue
    BY <2>1, <1>a
  <2>3. fd'[w] \in Conns => <<"file", fd'[w]>> \notin fds
    BY <2>1, <2>2, <1>a DEF Fresh, Queued, Untouched
  <2>4. ~job[w].early
    BY <2>1, <1>b
  <2> QED
    BY <2>1, <2>3, <2>4
<1>3. CASE Refuse(w)
  BY <1>3, <1>a, <1>b, <1>c DEF Refuse
<1>4. CASE Handle(w)
  BY <1>4, <1>a, <1>b, <1>c DEF Handle
<1>5. CASE LockMutex(w)
  BY <1>5, <1>a, <1>b, <1>c DEF LockMutex
<1>6. CASE FindLock(w)
  BY <1>6, <1>a, <1>b, <1>c DEF FindLock
<1>7. CASE AddLock(w)
  BY <1>7, <1>a, <1>b, <1>c DEF AddLock
<1>8. CASE Acquire(w)
  BY <1>8, <1>a, <1>b, <1>c DEF Acquire
<1>9. CASE Access(w)
  BY <1>9, <1>a, <1>b, <1>c DEF Access
<1>10. CASE OpenFails(w)
  <2>1. /\ pc[w] = "open" /\ pc'[w] = "log" /\ fd' = fd /\ fds' = fds /\ body' = body
        /\ reply' = [reply EXCEPT ![fd[w]] = OpenError(w)]
        /\ job' = [job EXCEPT ![w].code = OpenError(w), ![w].early = TRUE]
    BY <1>10, <1>a DEF OpenFails
  <2>2. fd[w] \in Conns /\ req[fd[w]].method \in {"GET", "PUT"} /\ body[fd[w]] = NoBody
    BY <2>1, <1>b DEF WorkerInv
  <2>3. <<"file", fd[w]>> \notin fds
    BY <2>1, <2>2, <1>b
  <2>4. ~IsGet(w) => OpenError(w) \in {403, 500}
    BY <1>10 DEF OpenFails, OpenError
  <2>5. reply'[fd[w]] = OpenError(w)
    BY <2>1, <2>2, <1>a
  <2> QED
    BY <2>1, <2>2, <2>3, <2>4, <2>5, <1>c
<1>11. CASE OpenDirectory(w)
  <2>1. /\ pc[w] = "open" /\ pc'[w] = "log" /\ fd' = fd /\ IsGet(w)
        /\ reply' = [reply EXCEPT ![fd[w]] = 403]
    BY <1>11, <1>a DEF OpenDirectory
  <2>2. fd[w] \in Conns
    BY <2>1, <1>b DEF WorkerInv
  <2>3. reply'[fd[w]] = 403
    BY <2>1, <2>2, <1>a
  <2> QED
    BY <2>1, <2>2, <2>3, <1>c
<1>12. CASE OpenToRead(w)
  BY <1>12, <1>a, <1>b, <1>c DEF OpenToRead
<1>13. CASE OpenToWrite(w)
  BY <1>13, <1>a, <1>b, <1>c DEF OpenToWrite
<1>14. CASE SendChunk(w)
  BY <1>14, <1>a, <1>b, <1>c DEF SendChunk
<1>15. CASE ReceiveChunk(w)
  BY <1>15, <1>a, <1>b, <1>c DEF ReceiveChunk
<1>16. CASE TransferDone(w)
  BY <1>16, <1>a, <1>b, <1>c DEF TransferDone
<1>17. CASE TransferFails(w)
  BY <1>17, <1>a, <1>b, <1>c DEF TransferFails
<1>18. CASE Log(w)
  BY <1>18, <1>a, <1>b, <1>c DEF Log, AfterLog, WorkerInv
<1>19. CASE Reply(w)
  BY <1>19, <1>a, <1>b, <1>c DEF Reply
<1>20. CASE Unlock(w)
  BY <1>20, <1>a, <1>b, <1>c DEF Unlock
<1>21. CASE Close(w)
  BY <1>21, <1>a, <1>b, <1>c, SMTT(40) DEF Close
<1> QED
  BY <1>1, <1>2, <1>3, <1>4, <1>5, <1>6, <1>7, <1>8, <1>9, <1>10, <1>11, <1>12, <1>13,
     <1>14, <1>15, <1>16, <1>17, <1>18, <1>19, <1>20, <1>21 DEF Work

\* A step of a worker keeps to the lock of its URI.
LEMMA OwnLockInv ==
  ASSUME ServerInv, NEW w \in Workers, Work(w)
  PROVE  LockInv(w)'
<1>a. TypeOK /\ OneOwner /\ Fresh /\ ListInv
  BY DEF ServerInv
<1>b. WorkerInv(w) /\ EarlyInv(w) /\ LockInv(w) /\ TransferInv(w)
  BY DEF ServerInv
<1>c. req' = req
  BY <1>a, <1>b, FootprintOfWork DEF Footprint
<1>d. pc'[w] \in Locations /\ fd[w] \in Conns \cup {BadFd}
  BY <1>a, PcTyped DEF TypeOK
<1>e. Acquire(w) =>
        /\ job[w].lock \in DOMAIN locklist /\ DOMAIN locklist' = DOMAIN locklist
        /\ fd[w] \in Conns
        /\ \A j \in DOMAIN locklist : j # job[w].lock => locklist'[j] = locklist[j]
        /\ locklist'[job[w].lock].uri = locklist[job[w].lock].uri
  BY <1>a, <1>b, AcquireEffect
<1>f. Acquire(w) => IF IsGet(w) THEN fd[w] \in locklist'[job[w].lock].readers
                    ELSE fd[w] \in locklist'[job[w].lock].writers
  BY <1>a, <1>b, AcquireEffect
<1>g. Unlock(w) =>
        /\ DOMAIN locklist' = DOMAIN locklist
        /\ \A j \in DOMAIN locklist : j # job[w].lock => locklist'[j] = locklist[j]
        /\ fd[w] \notin locklist'[job[w].lock].readers
        /\ fd[w] \notin locklist'[job[w].lock].writers
  BY <1>a, <1>b, UnlockEffect
<1>h. AddLock(w) =>
        /\ DOMAIN locklist = 1 .. Len(locklist) /\ DOMAIN locklist' = 1 .. Len(locklist) + 1
        /\ \A j \in DOMAIN locklist : locklist'[j] = locklist[j]
        /\ Len(locklist) \in Nat
  BY <1>a, <1>b, AddEffect
<1>i. AddLock(w) =>
        /\ locklist'[Len(locklist) + 1].readers = {}
        /\ locklist'[Len(locklist) + 1].writers = {}
  BY <1>a, <1>b, AddEffect
<1>j. AddLock(w) =>
        /\ NodeOf(Uri(w), locklist') \in DOMAIN locklist'
        /\ locklist'[NodeOf(Uri(w), locklist')].uri = Uri(w)
  BY <1>a, <1>b, NewNode
<1> USE DEF LockInv, Holding, TypeOK, Goto, dispatch, disk, fixed, clients, IsGet, Uri
<1>1. CASE Start(w)
  BY <1>1, <1>a, <1>b, <1>c DEF Start, Holds
<1>2. CASE Pop(w)
  <2>1. /\ pc[w] = "pop" /\ pc'[w] = "handle" /\ fd'[w] = Head(rqueue) /\ rqueue # << >>
        /\ locklist' = locklist
    BY <1>2, <1>a DEF Pop
  <2>2. rqueue[1] = Head(rqueue) /\ 1 \in DOMAIN rqueue
    BY <2>1, <1>a
  <2>3. fd'[w] \in Conns => \A i \in DOMAIN locklist : ~Holds(fd'[w], i)
    BY <2>1, <2>2, <1>a DEF Fresh, Queued, Untouched
  <2>4. fd'[w] \in Conns => \A i \in DOMAIN locklist' : ~Holds(fd[w], i)'
    BY <2>1, <2>3 DEF Holds
  <2> QED
    BY <2>1, <2>4
<1>3. CASE Refuse(w)
  BY <1>3, <1>a, <1>b, <1>c DEF Refuse, Holds
<1>4. CASE Handle(w)
  BY <1>4, <1>a, <1>b, <1>c DEF Handle, Holds
<1>5. CASE LockMutex(w)
  BY <1>5, <1>a, <1>b, <1>c DEF LockMutex, Holds
<1>6. CASE FindLock(w)
  <2>1. /\ pc[w] = "find" /\ fd' = fd /\ locklist' = locklist
        /\ job' = [job EXCEPT ![w].lock = NodeOf(Uri(w), locklist)]
        /\ pc'[w] = IF NodeOf(Uri(w), locklist) = 0 THEN "add" ELSE "acquire"
    BY <1>6, <1>a DEF FindLock
  <2>2. fd[w] \in Conns => \A i \in DOMAIN locklist' : ~Holds(fd[w], i)'
    BY <2>1, <1>b DEF WorkerInv, Untouched, Holds
  <2>3. job'[w].lock = NodeOf(Uri(w), locklist)
    BY <2>1, <1>a
  <2>4. Uri(w)' = Uri(w)
    BY <2>1, <1>c
  <2>5. \/ NodeOf(Uri(w), locklist) = 0 /\ \A i \in DOMAIN locklist : locklist[i].uri # Uri(w)
        \/ /\ NodeOf(Uri(w), locklist) \in DOMAIN locklist
           /\ locklist[NodeOf(Uri(w), locklist)].uri = Uri(w)
    BY <1>a, OldNode
  <2>6. 0 \notin DOMAIN locklist
    BY <1>a
  <2> HIDE DEF Uri
  <2> QED
    BY <2>1, <2>2, <2>3, <2>4, <2>5, <2>6
<1>7. CASE AddLock(w)
  <2>1. /\ pc[w] = "add" /\ pc'[w] = "acquire" /\ fd' = fd
        /\ job'[w].lock = NodeOf(Uri(w), locklist')
    BY <1>7, <1>a DEF AddLock
  <2>2. /\ NodeOf(Uri(w), locklist') \in DOMAIN locklist'
        /\ locklist'[NodeOf(Uri(w), locklist')].uri = Uri(w)
    BY <1>7, <1>j
  <2>3. /\ DOMAIN locklist = 1 .. Len(locklist) /\ DOMAIN locklist' = 1 .. Len(locklist) + 1
        /\ \A j \in DOMAIN locklist : locklist'[j] = locklist[j]
        /\ Len(locklist) \in Nat
        /\ locklist'[Len(locklist) + 1].readers = {}
        /\ locklist'[Len(locklist) + 1].writers = {}
    BY <1>7, <1>h, <1>i
  <2>4. fd[w] \in Conns => \A i \in DOMAIN locklist : ~Holds(fd[w], i)
    BY <2>1, <1>b DEF WorkerInv, Untouched
  <2>5. fd[w] \in Conns => \A i \in DOMAIN locklist' : ~Holds(fd[w], i)'
    BY <2>1, <2>3, <2>4 DEF Holds
  <2>6. Uri(w)' = Uri(w)
    BY <2>1, <1>c
  <2> HIDE DEF Uri
  <2> QED
    BY <2>1, <2>2, <2>5, <2>6
<1>8. CASE Acquire(w)
  <2> DEFINE k == job[w].lock
  <2>1. /\ pc[w] = "acquire" /\ pc'[w] \in {"open", "access"} /\ fd' = fd /\ job' = job
    BY <1>8, <1>a DEF Acquire
  <2>2. /\ k \in DOMAIN locklist' /\ locklist'[k].uri = Uri(w)
        /\ fd[w] \in Conns
        /\ IF IsGet(w) THEN fd[w] \in locklist'[k].readers ELSE fd[w] \in locklist'[k].writers
    BY <1>8, <2>1, <1>b, <1>e, <1>f
  <2>3. \A i \in DOMAIN locklist' : i # k => ~Holds(fd[w], i)'
    <3>1. \A i \in DOMAIN locklist : ~Holds(fd[w], i)
      BY <2>1, <2>2, <1>b DEF WorkerInv, Untouched
    <3>2. /\ DOMAIN locklist' = DOMAIN locklist
          /\ \A j \in DOMAIN locklist : j # k => locklist'[j] = locklist[j]
      BY <1>8, <1>e
    <3> QED
      BY <2>1, <3>1, <3>2 DEF Holds
  <2>4. Uri(w)' = Uri(w) /\ (IsGet(w)' <=> IsGet(w))
    BY <2>1, <1>c
  <2> HIDE DEF Uri, IsGet
  <2> QED
    BY <2>1, <2>2, <2>3, <2>4
<1>9. CASE Access(w)
  BY <1>9, <1>a, <1>b, <1>c DEF Access, Holds
<1>10. CASE OpenFails(w)
  BY <1>10, <1>a, <1>b, <1>c DEF OpenFails, Holds
<1>11. CASE OpenDirectory(w)
  BY <1>11, <1>a, <1>b, <1>c DEF OpenDirectory, Holds
<1>12. CASE OpenToRead(w)
  BY <1>12, <1>a, <1>b, <1>c DEF OpenToRead, Holds
<1>13. CASE OpenToWrite(w)
  BY <1>13, <1>a, <1>b, <1>c DEF OpenToWrite, Holds
<1>14. CASE SendChunk(w)
  BY <1>14, <1>a, <1>b, <1>c DEF SendChunk, Holds
<1>15. CASE ReceiveChunk(w)
  BY <1>15, <1>a, <1>b, <1>c DEF ReceiveChunk, Holds
<1>16. CASE TransferDone(w)
  BY <1>16, <1>a, <1>b, <1>c DEF TransferDone, Holds
<1>17. CASE TransferFails(w)
  BY <1>17, <1>a, <1>b, <1>c DEF TransferFails, Holds
<1>18. CASE Log(w)
  <2>1. /\ pc[w] = "log" /\ pc'[w] = AfterLog(w) /\ fd' = fd /\ job' = job /\ locklist' = locklist
    BY <1>18, <1>a DEF Log
  <2>2. \/ AfterLog(w) \in {"unlock", "reply"}
        \/ AfterLog(w) = "close" /\ job[w].early /\ ~IsGet(w)
    BY DEF AfterLog
  <2>3. fd[w] \in Conns => \A i \in DOMAIN locklist : Holds(fd[w], i)' => job[w].lock = i
    BY <2>1, <1>b DEF Holds
  <2> QED
    BY <2>1, <2>2, <2>3, <1>b, <1>c
<1>19. CASE Reply(w)
  BY <1>19, <1>a, <1>b, <1>c DEF Reply, Holds
<1>20. CASE Unlock(w)
  <2> DEFINE k == job[w].lock
  <2>1. pc[w] = "unlock" /\ pc'[w] = "close" /\ fd' = fd
    BY <1>20, <1>a DEF Unlock
  <2>2. /\ DOMAIN locklist' = DOMAIN locklist
        /\ \A j \in DOMAIN locklist : j # k => locklist'[j] = locklist[j]
        /\ fd[w] \notin locklist'[k].readers /\ fd[w] \notin locklist'[k].writers
    BY <1>20, <1>g
  <2>3. fd[w] \in Conns => \A i \in DOMAIN locklist : Holds(fd[w], i) => i = k
    BY <2>1, <1>b
  <2>4. fd[w] \in Conns => \A i \in DOMAIN locklist' : ~Holds(fd[w], i)'
    BY <2>1, <2>2, <2>3 DEF Holds
  <2> QED
    BY <2>1, <2>4
<1>21. CASE Close(w)
  BY <1>21, <1>a, <1>b, <1>c, SMTT(40) DEF Close, Holds
<1> QED
  BY <1>1, <1>2, <1>3, <1>4, <1>5, <1>6, <1>7, <1>8, <1>9, <1>10, <1>11, <1>12, <1>13,
     <1>14, <1>15, <1>16, <1>17, <1>18, <1>19, <1>20, <1>21 DEF Work

\* A step of a worker keeps what it has transferred in the file.
LEMMA OwnTransferInv ==
  ASSUME ServerInv, NEW w \in Workers, Work(w)
  PROVE  TransferInv(w)'
<1>a. TypeOK /\ OneOwner /\ Fresh /\ ListInv
  BY DEF ServerInv
<1>b. WorkerInv(w) /\ EarlyInv(w) /\ LockInv(w) /\ TransferInv(w)
  BY DEF ServerInv
<1>c. req' = req
  BY <1>a, <1>b, FootprintOfWork DEF Footprint
<1>d. pc'[w] \in Locations /\ fd[w] \in Conns \cup {BadFd}
  BY <1>a, PcTyped DEF TypeOK
<1> USE DEF TransferInv, TypeOK, Goto, dispatch, disk, fixed, clients
<1>1. CASE Start(w)
  BY <1>1, <1>a, <1>b, <1>c DEF Start
<1>2. CASE Pop(w)
  BY <1>2, <1>a, <1>b, <1>c DEF Pop
<1>3. CASE Refuse(w)
  BY <1>3, <1>a, <1>b, <1>c DEF Refuse
<1>4. CASE Handle(w)
  BY <1>4, <1>a, <1>b, <1>c DEF Handle
<1>5. CASE LockMutex(w)
  BY <1>5, <1>a, <1>b, <1>c DEF LockMutex
<1>6. CASE FindLock(w)
  BY <1>6, <1>a, <1>b, <1>c DEF FindLock
<1>7. CASE AddLock(w)
  BY <1>7, <1>a, <1>b, <1>c DEF AddLock
<1>8. CASE Acquire(w)
  BY <1>8, <1>a, <1>b, <1>c DEF Acquire
<1>9. CASE Access(w)
  BY <1>9, <1>a, <1>b, <1>c DEF Access
<1>10. CASE OpenFails(w)
  BY <1>10, <1>a, <1>b, <1>c DEF OpenFails
<1>11. CASE OpenDirectory(w)
  BY <1>11, <1>a, <1>b, <1>c DEF OpenDirectory
<1>12. CASE OpenToRead(w)
  <2> DEFINE empty == << >>
  <2>1. /\ pc'[w] = "transfer" /\ fd' = fd /\ files' = files
        /\ IsGet(w) /\ files[Uri(w)].kind = "file"
        /\ job' = [job EXCEPT ![w].size = Len(files[Uri(w)].data)]
        /\ body' = [body EXCEPT ![fd[w]] = empty]
    BY <1>12, <1>a DEF OpenToRead
  <2>2. fd[w] \in Conns /\ Uri(w)' = Uri(w) /\ (IsGet(w)' <=> IsGet(w))
    BY <1>12, <2>1, <1>b, <1>c DEF OpenToRead, WorkerInv, Serving, Uri, IsGet
  <2>3. empty # NoBody /\ Len(empty) = 0
    BY EmptyContent
  <2>4. Len(files[Uri(w)].data) \in Nat
    <3>1. pc[w] \in Serving
      BY <1>12 DEF OpenToRead, Serving
    <3>2. files[Uri(w)].data \in Content
      BY <1>a, <1>b, <2>1, <3>1, ServedFile
    <3> QED
      BY <3>2 DEF Content
  <2> HIDE DEF empty
  <2>5. body'[fd[w]] = empty
    BY <2>1, <2>2, <1>a
  <2>6. job'[w].size = Len(files[Uri(w)].data)
    BY <2>1, <1>a
  <2>7. \A i \in 1 .. Len(empty) : FALSE
    BY <2>3
  <2> QED
    BY <2>1, <2>2, <2>3, <2>4, <2>5, <2>6, <2>7
<1>13. CASE OpenToWrite(w)
  <2> DEFINE empty == << >>
  <2>1. /\ pc'[w] = "transfer" /\ fd' = fd /\ ~IsGet(w)
        /\ files' = [files EXCEPT ![Uri(w)] = File(empty)]
        /\ body' = [body EXCEPT ![fd[w]] = empty]
    BY <1>13, <1>a DEF OpenToWrite, Truncated
  <2>2. fd[w] \in Conns /\ Uri(w)' = Uri(w) /\ (IsGet(w)' <=> IsGet(w))
    BY <1>13, <2>1, <1>b, <1>c DEF OpenToWrite, WorkerInv, Serving, Uri, IsGet
  <2>3. Uri(w) \in Uris
    BY <1>13, <1>a, <1>b, ServedFile DEF OpenToWrite, Serving
  <2>4. empty # NoBody
    BY EmptyContent
  <2> HIDE DEF empty
  <2>5. body'[fd[w]] = empty
    BY <2>1, <2>2, <1>a
  <2>6. files'[Uri(w)] = File(empty)
    BY <2>1, <2>3, <1>a
  <2> QED
    BY <2>1, <2>2, <2>4, <2>5, <2>6
<1>14. CASE SendChunk(w)
  <2> DEFINE x == files[Uri(w)].data[Len(body[fd[w]]) + 1]
             old == body[fd[w]]
             new == Append(old, x)
             data == files[Uri(w)].data
  <2>1. /\ pc[w] = "transfer" /\ pc' = pc /\ fd' = fd /\ files' = files /\ job' = job /\ IsGet(w)
        /\ Len(old) < job[w].size /\ Len(old) < Len(data)
        /\ body' = [body EXCEPT ![fd[w]] = new]
    BY <1>14, <1>a DEF SendChunk
  <2>2. fd[w] \in Conns /\ Uri(w)' = Uri(w) /\ (IsGet(w)' <=> IsGet(w))
    BY <2>1, <1>b, <1>c DEF WorkerInv, Serving, Uri, IsGet
  <2>3. /\ old # NoBody /\ files[Uri(w)].kind = "file" /\ job[w].size = Len(data)
        /\ \A i \in 1 .. Len(old) : old[i] = data[i]
    BY <2>1, <1>b
  <2>4. old \in Content /\ data \in Content
    BY <2>1, <2>2, <2>3, <1>a, <1>b, ServedFile DEF Serving
  <2>5. x \in Conns \cup {Old}
    BY <2>1, <2>4 DEF Content
  <2>6. data[Len(old) + 1] = x
    OBVIOUS
  <2> HIDE DEF x
  <2>7. /\ new # NoBody /\ Len(new) = Len(old) + 1 /\ new[Len(old) + 1] = x
        /\ \A i \in 1 .. Len(old) : new[i] = old[i]
        /\ Len(old) \in Nat
    BY <2>4, <2>5, AppendedContent
  <2>8. Len(data) \in Nat
    BY <2>4 DEF Content
  <2> HIDE DEF new, old
  <2>9. \A i \in 1 .. Len(new) : new[i] = data[i]
    <3>1. \A i \in 1 .. Len(new) : i \in 1 .. Len(old) \/ i = Len(old) + 1
      BY <2>7
    <3> QED
      BY <2>3, <2>6, <2>7, <3>1
  <2>10. body'[fd[w]] = new
    BY <2>1, <2>2, <1>a
  <2>11. Len(new) <= job[w].size
    BY <2>1, <2>3, <2>7, <2>8
  <2> QED
    BY <2>1, <2>2, <2>3, <2>7, <2>9, <2>10, <2>11
<1>15. CASE ReceiveChunk(w)
  <2> DEFINE old == body[fd[w]]
             new == Append(old, fd[w])
  <2>1. /\ pc[w] = "transfer" /\ pc' = pc /\ fd' = fd /\ job' = job /\ ~IsGet(w)
        /\ files' = [files EXCEPT ![Uri(w)] = File(Append(files[Uri(w)].data, fd[w]))]
        /\ body' = [body EXCEPT ![fd[w]] = new]
    BY <1>15, <1>a DEF ReceiveChunk
  <2>2. fd[w] \in Conns /\ Uri(w)' = Uri(w) /\ (IsGet(w)' <=> IsGet(w))
    BY <2>1, <1>b, <1>c DEF WorkerInv, Serving, Uri, IsGet
  <2>3. Uri(w) \in Uris
    BY <2>1, <1>a, <1>b, ServedFile DEF Serving
  <2>4. old # NoBody /\ files[Uri(w)] = File(old)
    BY <2>1, <1>b
  <2>5. files[Uri(w)].data = old
    BY <2>4 DEF File
  <2>6. old \in Content
    BY <2>2, <2>4, <1>a
  <2>7. new # NoBody
    BY <2>2, <2>6, AppendedContent
  <2>8. files' = [files EXCEPT ![Uri(w)] = File(new)]
    BY <2>1, <2>5
  <2> HIDE DEF new, old
  <2>9. body'[fd[w]] = new
    BY <2>1, <2>2, <1>a
  <2>10. files'[Uri(w)] = File(new)
    BY <2>3, <2>8, <1>a
  <2> QED
    BY <2>1, <2>2, <2>7, <2>9, <2>10
<1>16. CASE TransferDone(w)
  <2>1. /\ pc[w] = "transfer" /\ fd' = fd /\ files' = files /\ body' = body
        /\ Len(body[fd[w]]) = IF IsGet(w) THEN job[w].size ELSE BodySize
        /\ job' = [job EXCEPT ![w].code = IF IsGet(w) \/ job[w].existed THEN 200 ELSE 201]
    BY <1>16, <1>a DEF TransferDone
  <2>2. Uri(w)' = Uri(w) /\ (IsGet(w)' <=> IsGet(w))
    BY <2>1, <1>c DEF Uri, IsGet
  <2>3. job'[w].size = job[w].size
    BY <2>1, <1>a
  <2> QED
    BY <2>1, <2>2, <2>3, <1>b
<1>17. CASE TransferFails(w)
  <2>1. /\ pc[w] = "transfer" /\ fd' = fd /\ files' = files /\ body' = body
        /\ job' = [job EXCEPT ![w].code = 500]
    BY <1>17, <1>a DEF TransferFails
  <2>2. Uri(w)' = Uri(w) /\ (IsGet(w)' <=> IsGet(w))
    BY <2>1, <1>c DEF Uri, IsGet
  <2>3. job'[w].size = job[w].size /\ job'[w].code = 500
    BY <2>1, <1>a
  <2> QED
    BY <2>1, <2>2, <2>3, <1>b
<1>18. CASE Log(w)
  <2>1. pc'[w] = AfterLog(w) /\ AfterLog(w) \notin {"transfer", "log"}
    BY <1>18, <1>a DEF Log, AfterLog
  <2> QED
    BY <2>1
<1>19. CASE Reply(w)
  BY <1>19, <1>a, <1>b, <1>c DEF Reply
<1>20. CASE Unlock(w)
  BY <1>20, <1>a, <1>b, <1>c DEF Unlock
<1>21. CASE Close(w)
  BY <1>21, <1>a, <1>b, <1>c DEF Close
<1> QED
  BY <1>1, <1>2, <1>3, <1>4, <1>5, <1>6, <1>7, <1>8, <1>9, <1>10, <1>11, <1>12, <1>13,
     <1>14, <1>15, <1>16, <1>17, <1>18, <1>19, <1>20, <1>21 DEF Work

\* The locks still exclude, and no URI gets a second one.
LEMMA ListKept ==
  ASSUME ServerInv, NEW w \in Workers, Work(w)
  PROVE  ListInv'
<1>1. TypeOK /\ ListInv /\ WorkerInv(w) /\ LockInv(w)
  BY DEF ServerInv
<1>2. UniqueNodes /\ \A i \in DOMAIN locklist : \A c \in locklist[i].writers :
                        locklist[i].readers = {} /\ locklist[i].writers = {c}
  BY <1>1 DEF ListInv
<1>3. CASE UNCHANGED locklist
  BY <1>2, <1>3 DEF ListInv, UniqueNodes
<1>4. CASE AddLock(w)
  <2>1. UniqueNodes'
    BY <1>1, <1>4, NewNode
  <2>2. /\ DOMAIN locklist = 1 .. Len(locklist) /\ DOMAIN locklist' = 1 .. Len(locklist) + 1
        /\ \A j \in DOMAIN locklist : locklist'[j] = locklist[j]
        /\ Len(locklist) \in Nat
    BY <1>1, <1>4, AddEffect
  <2>3. locklist'[Len(locklist) + 1].writers = {}
    BY <1>1, <1>4, AddEffect
  <2>4. \A i \in DOMAIN locklist' : i \in DOMAIN locklist \/ i = Len(locklist) + 1
    BY <2>2
  <2> QED
    BY <1>2, <2>1, <2>2, <2>3, <2>4 DEF ListInv
<1>5. CASE Acquire(w)
  <2>1. /\ DOMAIN locklist' = DOMAIN locklist
        /\ \A j \in DOMAIN locklist : j # job[w].lock => locklist'[j] = locklist[j]
        /\ locklist'[job[w].lock].uri = locklist[job[w].lock].uri
        /\ job[w].lock \in DOMAIN locklist
    BY <1>1, <1>5, AcquireEffect
  <2>2. /\ locklist'[job[w].lock].readers =
             IF IsGet(w) THEN locklist[job[w].lock].readers \cup {fd[w]}
             ELSE locklist[job[w].lock].readers
        /\ locklist'[job[w].lock].writers =
             IF IsGet(w) THEN locklist[job[w].lock].writers
             ELSE locklist[job[w].lock].writers \cup {fd[w]}
    BY <1>1, <1>5, AcquireEffect
  <2>3. locklist[job[w].lock].writers = {} /\ (IsGet(w) \/ locklist[job[w].lock].readers = {})
    BY <1>5 DEF Acquire, Admits
  <2>4. UniqueNodes'
    BY <1>2, <2>1 DEF UniqueNodes
  <2>5. ASSUME NEW i \in DOMAIN locklist', NEW c \in locklist'[i].writers
        PROVE  locklist'[i].readers = {} /\ locklist'[i].writers = {c}
    BY <1>2, <2>1, <2>2, <2>3, <2>5
  <2> QED
    BY <2>4, <2>5 DEF ListInv
<1>6. CASE Unlock(w)
  <2>1. /\ DOMAIN locklist' = DOMAIN locklist
        /\ \A j \in DOMAIN locklist : j # job[w].lock => locklist'[j] = locklist[j]
        /\ locklist'[job[w].lock].uri = locklist[job[w].lock].uri
        /\ job[w].lock \in DOMAIN locklist
    BY <1>1, <1>6, UnlockEffect
  <2>2. /\ locklist'[job[w].lock].readers = locklist[job[w].lock].readers \ {fd[w]}
        /\ locklist'[job[w].lock].writers = locklist[job[w].lock].writers \ {fd[w]}
    BY <1>1, <1>6, UnlockEffect
  <2>3. UniqueNodes'
    BY <1>2, <2>1 DEF UniqueNodes
  <2>4. ASSUME NEW i \in DOMAIN locklist', NEW c \in locklist'[i].writers
        PROVE  locklist'[i].readers = {} /\ locklist'[i].writers = {c}
    <3>1. CASE i = job[w].lock
      <4>1. c \in locklist[i].writers
        BY <2>2, <2>4, <3>1
      <4>2. locklist[i].readers = {} /\ locklist[i].writers = {c}
        BY <1>2, <2>1, <4>1
      <4> QED
        BY <2>2, <2>4, <3>1, <4>2
    <3>2. CASE i # job[w].lock
      BY <1>2, <2>1, <2>4, <3>2
    <3> QED
      BY <3>1, <3>2
  <2> QED
    BY <2>3, <2>4 DEF ListInv
<1> QED
  BY <1>3, <1>4, <1>5, <1>6
  DEF Work, Start, Pop, Refuse, Handle, LockMutex, FindLock, Access, OpenFails,
      OpenDirectory, OpenToRead, OpenToWrite, SendChunk, ReceiveChunk, TransferDone,
      TransferFails, Log, Reply, Close, dispatch, disk, fixed, clients

\* A step of a worker preserves the invariant.
LEMMA WorkStep ==
  ASSUME ServerInv, NEW w \in Workers, Work(w)
  PROVE  ServerInv'
<1>1. TypeOK' /\ IsFiniteSet(fds')
  BY TypesKept
<1>2. OneOwner' /\ Fresh' /\ ListInv'
  BY OwnersKept, FreshKept, ListKept
<1>3. LeftLocked' /\ LeftOpen'
  BY <1>1, LeftLockedKept, LeftOpenKept
<1>4. WorkerInv(w)' /\ EarlyInv(w)' /\ LockInv(w)' /\ TransferInv(w)'
  BY OwnWorkerInv, OwnEarlyInv, OwnLockInv, OwnTransferInv
<1>5. ASSUME NEW v \in Workers
      PROVE  WorkerInv(v)' /\ EarlyInv(v)' /\ LockInv(v)' /\ TransferInv(v)'
  <2>1. CASE v = w
    BY <1>4, <2>1
  <2>2. CASE v # w
    BY <2>2, OthersKeep
  <2> QED
    BY <2>1, <2>2
<1> QED
  BY <1>1, <1>2, <1>3, <1>5 DEF ServerInv

-----------------------------------------------------------------------------
(***************************************************************************)
(* The steps of the dispatcher, and the invariance.                        *)
(***************************************************************************)

\* The dispatcher leaves the workers and what they have alone.
LEMMA WorkersUntouched ==
  ASSUME ServerInv, NEW w \in Workers,
         UNCHANGED <<pc, fd, job, mutex, files, locklist, body, reply, log>>,
         \A c \in Conns : <<"file", c>> \in fds' <=> <<"file", c>> \in fds,
         fd[w] \in Conns => req'[fd[w]] = req[fd[w]]
  PROVE  WorkerInv(w)' /\ EarlyInv(w)' /\ LockInv(w)' /\ TransferInv(w)'
<1>1. WorkerInv(w) /\ EarlyInv(w) /\ LockInv(w) /\ TransferInv(w)
  BY DEF ServerInv
<1>2. fd[w] \in Conns \cup {BadFd}
  BY DEF ServerInv, TypeOK
<1>3. fd[w] \in Conns => Uri(w)' = Uri(w) /\ (IsGet(w)' <=> IsGet(w))
  BY DEF Uri, IsGet
<1>4. fd[w] \in Conns => (Untouched(fd[w]) => Untouched(fd[w])')
  BY DEF Untouched, Logged, Holds
<1>5. fd[w] \in Conns => (Logged(fd[w])' => Logged(fd[w]))
  BY DEF Logged
<1>6. WorkerInv(w)'
  BY <1>1, <1>2, <1>3, <1>4, <1>5 DEF WorkerInv, Serving
<1>7. EarlyInv(w)'
  BY <1>1, <1>2, <1>3 DEF EarlyInv
<1>8. LockInv(w)'
  BY <1>1, <1>2, <1>3 DEF LockInv, WorkerInv, Holds, Serving, Holding
<1>9. TransferInv(w)'
  BY <1>1, <1>2, <1>3 DEF TransferInv, WorkerInv, Serving
<1> QED
  BY <1>6, <1>7, <1>8, <1>9

\* A new connection goes to the dispatcher, and had left no trace.
LEMMA AcceptStep ==
  ASSUME ServerInv, NEW c \in Conns, NEW r \in Requests, Accept(c, r)
  PROVE  ServerInv'
<1>1. /\ main = "accept" /\ req[c] = NoRequest /\ FdsLeft
      /\ req' = [req EXCEPT ![c] = r] /\ fds' = fds \cup {<<"conn", c>>}
      /\ connfd' = c /\ main' = "push"
      /\ UNCHANGED <<rqueue, mutex, locklist, files, threads, disk0, pc, fd, job, body, reply, log>>
  BY DEF Accept, disk, fixed
<1>2. TypeOK /\ IsFiniteSet(fds) /\ OneOwner /\ Fresh /\ ListInv /\ LeftLocked /\ LeftOpen
  BY DEF ServerInv
<1>3. connfd = BadFd /\ <<"conn", c>> \notin fds /\ ~Queued(c) /\ Untouched(c)
  BY <1>1, <1>2 DEF OneOwner, Fresh
<1>4. \A w \in Workers : fd[w] # c
  BY <1>1, <1>2 DEF ServerInv, WorkerInv
<1>5. \A x \in Conns : x # c => req'[x] = req[x]
  BY <1>1, <1>2 DEF TypeOK
<1>6. IsFiniteSet(fds') /\ Cardinality(fds') <= FdLimit
  <2>1. Cardinality(fds) \in Nat /\ Cardinality(fds) < FdLimit
    BY <1>1, <1>2, FS_CardinalityType DEF FdsLeft
  <2>2. IsFiniteSet(fds \cup {<<"conn", c>>})
    BY <1>2, FS_AddElement
  <2>3. Cardinality(fds \cup {<<"conn", c>>}) \in {Cardinality(fds), Cardinality(fds) + 1}
    BY <1>2, FS_AddElement
  <2> QED
    BY <1>1, <2>1, <2>2, <2>3
<1>7. TypeOK'
  <2>1. req' \in [Conns -> Requests \cup {NoRequest}] /\ fds' \subseteq {"conn", "file"} \X Conns
    BY <1>1, <1>2 DEF TypeOK
  <2> QED
    BY <1>1, <1>2, <1>6, <2>1 DEF TypeOK
<1>8. OneOwner'
  BY <1>1, <1>2, <1>3, <1>4 DEF OneOwner, Queued
<1>9. \A x \in Conns : Untouched(x) => Untouched(x)'
  BY <1>1 DEF Untouched, Logged, Holds
<1>10. Fresh'
  <2> SUFFICES ASSUME NEW x \in Conns
               PROVE  /\ req'[x] = NoRequest =>
                           <<"conn", x>> \notin fds' /\ x # connfd' /\ ~Queued(x)'
                      /\ req'[x] = NoRequest \/ x = connfd' \/ Queued(x)' => Untouched(x)'
    BY DEF Fresh
  <2>1. CASE x = c
    <3>1. req'[x] = r /\ r # NoRequest
      BY <1>1, <1>2, <2>1 DEF TypeOK, Requests, NoRequest
    <3> QED
      BY <1>3, <1>9, <2>1, <3>1
  <2>2. CASE x # c
    <3>1. Queued(x)' <=> Queued(x)
      BY <1>1 DEF Queued
    <3> QED
      BY <1>1, <1>2, <1>5, <1>9, <2>2, <3>1 DEF Fresh
  <2> QED
    BY <2>1, <2>2
<1>11. ListInv'
  BY <1>1, <1>2 DEF ListInv, UniqueNodes
<1>12. LeftLocked'
  <2> SUFFICES ASSUME NEW i \in DOMAIN locklist,
                      NEW x \in locklist[i].readers \cup locklist[i].writers,
                      \A w \in Workers : fd[w] # x
               PROVE  req'[x].method = "PUT" /\ body[x] = NoBody /\ reply[x] \in {403, 500}
    BY <1>1 DEF LeftLocked, OpenFailed
  <2>1. x \in Conns /\ x # c
    <3>1. locklist[i].readers \subseteq Conns /\ locklist[i].writers \subseteq Conns
      BY <1>2, ListTyped DEF NodeSet
    <3> QED
      BY <1>3, <3>1 DEF Untouched, Holds
  <2> QED
    BY <1>2, <1>5, <2>1 DEF LeftLocked, OpenFailed
<1>13. LeftOpen'
  <2> SUFFICES ASSUME NEW d \in fds'
               PROVE  \/ d[2] = connfd' \/ (\E i \in DOMAIN rqueue : rqueue[i] = d[2])
                      \/ \E w \in Workers : fd[w] = d[2]
                      \/ d[1] = "file" /\ req'[d[2]].method = "GET" /\ reply[d[2]] = 403
    BY <1>1 DEF LeftOpen
  <2>1. CASE d = <<"conn", c>>
    BY <1>1, <2>1
  <2>2. CASE d # <<"conn", c>>
    <3>1. PICK k \in {"conn", "file"}, x \in Conns : d = <<k, x>> /\ d \in fds
      BY <1>1, <1>2, <2>2 DEF TypeOK
    <3>2. x # c
      BY <1>3, <2>2, <3>1 DEF Untouched
    <3>3. \/ x = connfd \/ (\E i \in DOMAIN rqueue : rqueue[i] = x)
          \/ \E w \in Workers : fd[w] = x
          \/ k = "file" /\ req[x].method = "GET" /\ reply[x] = 403
      BY <1>2, <3>1 DEF LeftOpen
    <3> QED
      BY <1>3, <1>5, <3>1, <3>2, <3>3
  <2> QED
    BY <2>1, <2>2
<1>14. \A x \in Conns : <<"file", x>> \in fds' <=> <<"file", x>> \in fds
  BY <1>1
<1>15. ASSUME NEW w \in Workers
       PROVE  WorkerInv(w)' /\ EarlyInv(w)' /\ LockInv(w)' /\ TransferInv(w)'
  BY <1>1, <1>4, <1>5, <1>14, WorkersUntouched
<1> QED
  BY <1>6, <1>7, <1>8, <1>10, <1>11, <1>12, <1>13, <1>15 DEF ServerInv

\* A failed accept gives the dispatcher no connection.
LEMMA AcceptFailsStep ==
  ASSUME ServerInv, AcceptFails
  PROVE  ServerInv'
<1>1. /\ main = "accept" /\ connfd' = BadFd /\ main' = "push"
      /\ UNCHANGED <<rqueue, mutex, locklist, files, threads, disk0, fds, pc, fd, job, req,
                     body, reply, log>>
  BY DEF AcceptFails, disk, fixed, clients
<1>2. TypeOK /\ IsFiniteSet(fds) /\ OneOwner /\ Fresh /\ ListInv /\ LeftLocked /\ LeftOpen
  BY DEF ServerInv
<1>3. connfd = BadFd
  BY <1>1, <1>2 DEF OneOwner
<1>4. TypeOK' /\ IsFiniteSet(fds')
  BY <1>1, <1>2 DEF TypeOK
<1>5. OneOwner'
  BY <1>1, <1>2, <1>3 DEF OneOwner
<1>6. Fresh'
  BY <1>1, <1>2, <1>3 DEF Fresh, Untouched, Logged, Holds, Queued
<1>7. ListInv' /\ LeftLocked'
  BY <1>1, <1>2 DEF ListInv, UniqueNodes, LeftLocked, OpenFailed
<1>8. LeftOpen'
  BY <1>1, <1>2, <1>3 DEF LeftOpen
<1>9. ASSUME NEW w \in Workers
      PROVE  WorkerInv(w)' /\ EarlyInv(w)' /\ LockInv(w)' /\ TransferInv(w)'
  BY <1>1, WorkersUntouched
<1> QED
  BY <1>4, <1>5, <1>6, <1>7, <1>8, <1>9 DEF ServerInv

\* queue_push passes the connection on to the queue.
LEMMA PushStep ==
  ASSUME ServerInv, Push
  PROVE  ServerInv'
<1>1. /\ main = "push" /\ connfd' = BadFd /\ main' = "accept"
      /\ Len(rqueue) # Cardinality(threads) /\ rqueue' = Append(rqueue, connfd)
      /\ UNCHANGED <<mutex, locklist, files, threads, disk0, fds, pc, fd, job, req,
                     body, reply, log>>
  BY DEF Push, QueueFull, Enqueue, disk, fixed, clients
<1>2. TypeOK /\ IsFiniteSet(fds) /\ OneOwner /\ Fresh /\ ListInv /\ LeftLocked /\ LeftOpen
  BY DEF ServerInv
<1>3. /\ rqueue \in Seq(Conns \cup {BadFd}) /\ connfd \in Conns \cup {BadFd}
      /\ Len(rqueue) <= Cardinality(threads) /\ Cardinality(threads) \in Nat
  BY <1>2, FS_Subset, FS_CardinalityType DEF TypeOK
<1>4. /\ DOMAIN rqueue = 1 .. Len(rqueue) /\ DOMAIN rqueue' = 1 .. Len(rqueue) + 1
      /\ Len(rqueue) \in Nat
      /\ \A i \in DOMAIN rqueue : rqueue'[i] = rqueue[i]
      /\ rqueue'[Len(rqueue) + 1] = connfd
  BY <1>1, <1>3
<1>5. \A i \in DOMAIN rqueue' : i \in DOMAIN rqueue \/ i = Len(rqueue) + 1
  BY <1>4
<1>6. rqueue' \in Seq(Conns \cup {BadFd}) /\ Len(rqueue') <= Cardinality(threads')
  BY <1>1, <1>3
<1>7. TypeOK' /\ IsFiniteSet(fds')
  BY <1>1, <1>2, <1>6 DEF TypeOK
<1>8. OneOwner'
  <2>1. ASSUME NEW i \in DOMAIN rqueue', rqueue'[i] # BadFd
        PROVE  /\ \A j \in DOMAIN rqueue' : rqueue'[i] = rqueue'[j] => i = j
               /\ \A w \in Workers : rqueue'[i] # fd[w]
    <3>1. CASE i \in DOMAIN rqueue
      BY <1>2, <1>4, <1>5, <2>1, <3>1 DEF OneOwner
    <3>2. CASE i = Len(rqueue) + 1
      BY <1>2, <1>4, <1>5, <2>1, <3>2 DEF OneOwner
    <3> QED
      BY <1>5, <3>1, <3>2
  <2> QED
    BY <1>1, <1>2, <2>1 DEF OneOwner
<1>9. \A c \in Conns : Queued(c)' <=> Queued(c) \/ c = connfd
  BY <1>4, <1>5 DEF Queued
<1>10. Fresh'
  BY <1>1, <1>2, <1>9 DEF Fresh, Untouched, Logged, Holds
<1>11. ListInv' /\ LeftLocked'
  BY <1>1, <1>2 DEF ListInv, UniqueNodes, LeftLocked, OpenFailed
<1>12. LeftOpen'
  <2> SUFFICES ASSUME NEW d \in fds
               PROVE  \/ \E i \in DOMAIN rqueue' : rqueue'[i] = d[2]
                      \/ \E w \in Workers : fd[w] = d[2]
                      \/ d[1] = "file" /\ req[d[2]].method = "GET" /\ reply[d[2]] = 403
    BY <1>1 DEF LeftOpen
  <2>1. d[2] \in Conns
    BY <1>2 DEF TypeOK
  <2>2. \/ d[2] = connfd \/ Queued(d[2])
        \/ \E w \in Workers : fd[w] = d[2]
        \/ d[1] = "file" /\ req[d[2]].method = "GET" /\ reply[d[2]] = 403
    BY <1>2 DEF LeftOpen, Queued
  <2>3. d[2] = connfd \/ Queued(d[2]) => \E i \in DOMAIN rqueue' : rqueue'[i] = d[2]
    BY <1>9, <2>1 DEF Queued
  <2> QED
    BY <2>2, <2>3
<1>13. ASSUME NEW w \in Workers
       PROVE  WorkerInv(w)' /\ EarlyInv(w)' /\ LockInv(w)' /\ TransferInv(w)'
  BY <1>1, WorkersUntouched
<1> QED
  BY <1>7, <1>8, <1>10, <1>11, <1>12, <1>13 DEF ServerInv

\* The invariant is about the variables of the specification.
LEMMA ServerStutters ==
  ASSUME ServerInv, UNCHANGED vars
  PROVE  ServerInv'
<1>1. UNCHANGED <<threads, rqueue, main, connfd, mutex, locklist, files, fds, pc, fd, job,
                  req, body, reply, log>>
  BY DEF vars, dispatch, disk, fixed, clients
<1>2. TypeOK' /\ IsFiniteSet(fds')
  BY <1>1 DEF ServerInv, TypeOK
<1>3. OneOwner' /\ Fresh' /\ ListInv' /\ LeftLocked' /\ LeftOpen'
  BY <1>1 DEF ServerInv, OneOwner, Fresh, Untouched, Logged, Holds, Queued, ListInv,
              UniqueNodes, LeftLocked, OpenFailed, LeftOpen
<1>4. ASSUME NEW w \in Workers
      PROVE  WorkerInv(w)' /\ EarlyInv(w)' /\ LockInv(w)' /\ TransferInv(w)'
  BY <1>1, WorkersUntouched
<1> QED
  BY <1>2, <1>3, <1>4 DEF ServerInv

\* The server starts with nothing queued, locked or open.
LEMMA InitInv ==
  ASSUME Init
  PROVE  ServerInv
<1>1. TypeOK /\ IsFiniteSet(fds)
  <2>1. threads \subseteq Workers /\ fds = {} /\ rqueue = << >> /\ log = << >> /\ locklist = << >>
    BY DEF Init
  <2>2. Cardinality(threads) \in Nat
    BY <2>1, FS_Subset, FS_CardinalityType
  <2>3. IsFiniteSet(fds) /\ Cardinality(fds) = 0
    BY <2>1, FS_EmptySet
  <2>4. fds \subseteq {"conn", "file"} \X Conns
    BY <2>1
  <2>5. /\ rqueue \in Seq(Conns \cup {BadFd}) /\ Len(rqueue) = 0
        /\ locklist \in Seq([uri : Uris, readers : SUBSET Conns, writers : SUBSET Conns])
        /\ log \in Seq([conn : Conns, code : Codes]) /\ DOMAIN log = {}
    BY <2>1
  <2>6. /\ files \in [Uris -> [kind : {"absent", "no_dir", "dir", "forbidden"}]
                              \cup [kind : {"file"}, data : Content]]
        /\ \A u \in Uris : files[u].kind = "file" => Len(files[u].data) <= BodySize + 1
    <3>1. <<Old>> \in Content /\ Len(<<Old>>) = 1
      BY DEF Content
    <3>2. \A u \in Uris : \/ files[u] = File(<<Old>>)
                          \/ \E k \in Kinds \ {"file"} : files[u] = [kind |-> k]
      BY DEF Init
    <3>3. \A k \in Kinds \ {"file"} : k \in {"absent", "no_dir", "dir", "forbidden"}
      BY KindsAssumption
    <3>4. DOMAIN files = Uris /\ files = [u \in Uris |-> files[u]]
      BY DEF Init
    <3> DEFINE one == <<Old>>
    <3>5. \A u \in Uris : \/ files[u] = [kind |-> "file", data |-> one]
                          \/ files[u] \in [kind : {"absent", "no_dir", "dir", "forbidden"}]
      <4> SUFFICES ASSUME NEW u \in Uris, files[u] # File(<<Old>>)
                   PROVE  files[u] \in [kind : {"absent", "no_dir", "dir", "forbidden"}]
        BY DEF File
      <4>1. PICK k \in Kinds \ {"file"} : files[u] = [kind |-> k]
        BY <3>2
      <4> QED
        BY <3>3, <4>1
    <3>6. one \in Content /\ Len(one) = 1
      BY <3>1
    <3> HIDE DEF one
    <3>7. \A u \in Uris : files[u] \in [kind : {"absent", "no_dir", "dir", "forbidden"}]
                                       \cup [kind : {"file"}, data : Content]
      BY <3>5, <3>6
    <3>8. ASSUME NEW u \in Uris, files[u].kind = "file"
          PROVE  Len(files[u].data) <= BodySize + 1
      <4>1. files[u] = [kind |-> "file", data |-> one]
        BY <3>5, <3>8
      <4>2. files[u].data = one
        BY <4>1
      <4>3. Len(one) <= BodySize + 1
        BY <3>6, SizesAssumption
      <4> QED
        BY <4>2, <4>3
    <3> QED
      BY <3>4, <3>7, <3>8
  <2>7. body \in [Conns -> {NoBody} \cup Content] /\ \A c \in Conns : Len(body[c]) <= BodySize + 1
    <3>1. Len(NoBody) = 1
      BY DEF NoBody
    <3>2. body = [c \in Conns |-> NoBody]
      BY DEF Init
    <3>3. \A c \in Conns : body[c] = NoBody
      BY <3>2
    <3>4. body \in [Conns -> {NoBody} \cup Content]
      BY <3>2
    <3>5. Len(NoBody) <= BodySize + 1
      BY <3>1, SizesAssumption
    <3>6. \A c \in Conns : Len(body[c]) <= BodySize + 1
      BY <3>3, <3>5
    <3> QED
      BY <3>4, <3>6
  <2>8. /\ job \in [Workers -> [lock : Nat, existed : BOOLEAN, size : Nat, code : Codes,
                               early : BOOLEAN]]
        /\ reply \in [Conns -> Codes]
    BY DEF Init, NoJob, Codes
  <2>9. /\ main \in {"accept", "push"} /\ connfd \in Conns \cup {BadFd}
        /\ mutex \in Workers \cup {Main}
        /\ pc \in [Workers -> Locations] /\ fd \in [Workers -> Conns \cup {BadFd}]
        /\ req \in [Conns -> Requests \cup {NoRequest}]
    BY DEF Init, Locations
  <2> QED
    BY <2>1, <2>2, <2>3, <2>4, <2>5, <2>6, <2>7, <2>8, <2>9 DEF TypeOK
<1>2. OneOwner /\ Fresh /\ ListInv /\ LeftLocked /\ LeftOpen
  BY DEF Init, OneOwner, Fresh, Untouched, Logged, Queued, ListInv, UniqueNodes, LeftLocked,
         LeftOpen
<1>3. ASSUME NEW w \in Workers
      PROVE  WorkerInv(w) /\ EarlyInv(w) /\ LockInv(w) /\ TransferInv(w)
  BY DEF Init, NoJob, WorkerInv, EarlyInv, LockInv, TransferInv, Serving, Holding
<1> QED
  BY <1>1, <1>2, <1>3 DEF ServerInv

\* The invariant holds for any number of workers, connections, URIs and descriptors.
THEOREM ServerCorrect == Spec => []ServerInv
<1>1. Init => ServerInv
  BY InitInv
<1>2. ServerInv /\ [Next]_vars => ServerInv'
  <2> SUFFICES ASSUME ServerInv, [Next]_vars
               PROVE  ServerInv'
    OBVIOUS
  <2>1. ASSUME NEW c \in Conns, NEW r \in Requests, Accept(c, r)
        PROVE  ServerInv'
    BY <2>1, AcceptStep
  <2>2. CASE AcceptFails
    BY <2>2, AcceptFailsStep
  <2>3. CASE Push
    BY <2>3, PushStep
  <2>4. ASSUME NEW w \in Workers, Work(w)
        PROVE  ServerInv'
    BY <2>4, WorkStep
  <2>5. CASE UNCHANGED vars
    BY <2>5, ServerStutters
  <2> QED
    BY <2>1, <2>2, <2>3, <2>4, <2>5 DEF Next
<1> QED
  BY <1>1, <1>2, PTL DEF Spec

\* The queue keeps to its slots, the descriptors to their limit, and no connection is
\* logged twice.
THEOREM TypesCorrect == Spec => []TypeOK
<1>1. ServerInv => TypeOK
  BY DEF ServerInv
<1> QED
  BY <1>1, ServerCorrect, PTL

\* The global mutex is held across reader_lock and writer_lock, so that whatever the
\* number of workers one of them at most is waiting in a lock.
THEOREM OneWaiter == Spec => []OnlyOneWaits
<1>1. ServerInv => OnlyOneWaits
  <2> SUFFICES ASSUME ServerInv
               PROVE  Cardinality({w \in Workers : pc[w] = "acquire"}) <= 1
    BY DEF OnlyOneWaits
  <2>1. {w \in Workers : pc[w] = "acquire"} \subseteq {mutex}
    BY DEF ServerInv, WorkerInv
  <2>2. IsFiniteSet({mutex}) /\ Cardinality({mutex}) = 1
    BY FS_Singleton
  <2>3. /\ IsFiniteSet({w \in Workers : pc[w] = "acquire"})
        /\ Cardinality({w \in Workers : pc[w] = "acquire"}) <= Cardinality({mutex})
    BY <2>1, <2>2, FS_Subset
  <2> QED
    BY <2>2, <2>3
<1> QED
  BY <1>1, ServerCorrect, PTL

\* A lock is left behind by nothing but a PUT whose open failed.
THEOREM LocksReleased == Spec => []LeftLocked
<1>1. ServerInv => LeftLocked
  BY DEF ServerInv
<1> QED
  BY <1>1, ServerCorrect, PTL

\* A descriptor is left behind by nothing but a GET of a directory.
THEOREM DescriptorsClosed == Spec => []LeftOpen
<1>1. ServerInv => LeftOpen
  BY DEF ServerInv
<1> QED
  BY <1>1, ServerCorrect, PTL

\* The global mutex is with a worker that looks for a lock, adds it or waits for it.
MutexInv == mutex # Main => mutex \in Workers /\ pc[mutex] \in {"find", "add", "acquire"}

\* Every step keeps the global mutex with such a worker.
LEMMA MutexInvKept ==
  ASSUME TypeOK, MutexInv, \A w \in Workers : WorkerInv(w), Next
  PROVE  MutexInv'
<1>1. Main \notin Workers
  OBVIOUS
<1>2. CASE (\E c \in Conns, r \in Requests : Accept(c, r)) \/ AcceptFails \/ Push
  <2>1. UNCHANGED <<mutex, pc>>
    BY <1>2 DEF Accept, AcceptFails, Push
  <2> QED
    BY <2>1 DEF MutexInv
<1>3. ASSUME NEW w \in Workers, Work(w)
      PROVE  MutexInv'
  <2>1. pc \in [Workers -> Locations] /\ WorkerInv(w) /\ Footprint(w)
    BY <1>3, FootprintOfWork DEF TypeOK
  <2>2. CASE mutex = w
    <3>1. pc[w] \in {"find", "add", "acquire"}
      BY <1>1, <2>2 DEF MutexInv
    <3>2. CASE FindLock(w) \/ AddLock(w)
      BY <2>1, <2>2, <3>2 DEF FindLock, AddLock, Goto, MutexInv
    <3>3. CASE Acquire(w)
      BY <3>3 DEF Acquire, MutexInv
    <3>4. FindLock(w) \/ AddLock(w) \/ Acquire(w)
      BY <1>3, <3>1
      DEF Work, Start, Pop, Refuse, Handle, LockMutex, Access, OpenFails, OpenDirectory,
          OpenToRead, OpenToWrite, SendChunk, ReceiveChunk, TransferDone, TransferFails,
          Log, Reply, Unlock, Close, Goto
    <3> QED
      BY <3>2, <3>3, <3>4
  <2>3. CASE mutex \in Workers \ {w}
    BY <1>1, <2>1, <2>3 DEF Footprint, MutexInv
  <2>4. CASE mutex = Main
    <3>1. CASE LockMutex(w)
      BY <2>1, <3>1 DEF LockMutex, Goto, MutexInv
    <3>2. CASE ~LockMutex(w)
      <4>1. mutex' = Main
        BY <1>3, <2>4, <3>2
        DEF Work, Start, Pop, Refuse, Handle, FindLock, AddLock, Acquire, Access, OpenFails,
            OpenDirectory, OpenToRead, OpenToWrite, SendChunk, ReceiveChunk, TransferDone,
            TransferFails, Log, Reply, Unlock, Close
      <4> QED
        BY <4>1 DEF MutexInv
    <3> QED
      BY <3>1, <3>2
  <2> QED
    BY <2>2, <2>3, <2>4 DEF MutexInv
<1> QED
  BY <1>2, <1>3 DEF Next

\* A worker that holds a lock waits for nobody; the file of a GET keeps its size.
LEMMA HoldersGoOn ==
  ASSUME ServerInv, NEW w \in Workers, pc[w] \in Holding
  PROVE  CanGo(w)
<1>1. TransferInv(w) /\ WorkerInv(w) /\ TypeOK
  BY DEF ServerInv
<1>2. CASE pc[w] = "transfer" /\ IsGet(w)
  <2>1. /\ job[w].size = Len(files[Uri(w)].data) /\ Len(body[fd[w]]) <= job[w].size
        /\ body[fd[w]] # NoBody
    BY <1>1, <1>2 DEF TransferInv
  <2>2. fd[w] \in Conns
    BY <1>1, <1>2 DEF WorkerInv, Serving
  <2>3. Len(body[fd[w]]) \in Nat /\ job[w].size \in Nat
    BY <1>1, <2>1, <2>2 DEF TypeOK, Content
  <2> QED
    BY <1>2, <2>1, <2>3 DEF CanGo
<1>3. CASE ~(pc[w] = "transfer" /\ IsGet(w))
  BY <1>3 DEF CanGo, Holding
<1> QED
  BY <1>2, <1>3

\* A worker that waits for a lock waits for another that holds it.
LEMMA WaitersHaveHolders ==
  ASSUME ServerInv, \A c \in Conns : ~OpenFailed(c), NEW w \in Workers, pc[w] = "acquire"
  PROVE  \E v \in Workers : CanGo(v)
<1>1. CASE Admits(w, locklist[job[w].lock])
  BY <1>1 DEF CanGo
<1>2. CASE ~Admits(w, locklist[job[w].lock])
  <2>1. TypeOK /\ LeftLocked /\ LockInv(w)
    BY DEF ServerInv
  <2>2. PICK i \in DOMAIN locklist : i = job[w].lock
    BY <2>1 DEF LockInv
  <2>3. locklist[i].readers \subseteq Conns /\ locklist[i].writers \subseteq Conns
    BY <2>1, <2>2, ListTyped DEF NodeSet
  <2>4. PICK c \in Conns : Holds(c, i)
    BY <1>2, <2>2, <2>3 DEF Admits, Holds
  <2>5. PICK v \in Workers : fd[v] = c
    BY <2>1, <2>4 DEF LeftLocked, Holds
  <2>6. pc[v] \in Holding \/ (pc[v] = "close" /\ job[v].early /\ ~IsGet(v))
    <3>1. LockInv(v) /\ fd[v] \in Conns /\ Holds(fd[v], i)
      BY <2>4, <2>5 DEF ServerInv
    <3> QED
      BY <3>1 DEF LockInv
  <2>7. ~(job[v].early /\ ~IsGet(v))
    <3>1. EarlyInv(v) /\ ~OpenFailed(fd[v])
      BY <2>4, <2>5 DEF ServerInv
    <3> QED
      BY <3>1 DEF EarlyInv, OpenFailed
  <2> QED
    BY <2>6, <2>7, HoldersGoOn
<1> QED
  BY <1>1, <1>2

\* Whoever has begun to serve a connection goes on, or waits for one who does.
LEMMA ServersGoOn ==
  ASSUME ServerInv, MutexInv, \A c \in Conns : ~OpenFailed(c),
         NEW w \in Workers, pc[w] \notin {"start", "pop"}
  PROVE  \E v \in Workers : CanGo(v)
<1>1. CASE pc[w] \in Holding
  BY <1>1, HoldersGoOn
<1>2. CASE pc[w] = "acquire"
  BY <1>2, WaitersHaveHolders
<1>3. CASE pc[w] = "mutex" /\ mutex # Main
  <2>1. mutex \in Workers /\ pc[mutex] \in {"find", "add", "acquire"}
    BY <1>3 DEF MutexInv
  <2>2. CASE pc[mutex] = "acquire"
    BY <2>1, <2>2, WaitersHaveHolders
  <2>3. CASE pc[mutex] \in {"find", "add"}
    BY <2>1, <2>3 DEF CanGo
  <2> QED
    BY <2>1, <2>2, <2>3
<1>4. CASE pc[w] = "mutex" /\ mutex = Main
  BY <1>4 DEF CanGo, MutexFree
<1>5. CASE pc[w] \notin Holding \cup {"acquire", "mutex"}
  BY <1>5 DEF CanGo, Holding
<1> QED
  BY <1>1, <1>2, <1>3, <1>4, <1>5

\* With a connection in the queue somebody goes on: its poppers, or who serves others.
LEMMA QueueGoesOn ==
  ASSUME ServerInv, MutexInv, \A c \in Conns : ~OpenFailed(c),
         threads # {}, rqueue # << >>
  PROVE  \E v \in Workers : CanGo(v)
<1>1. PICK t \in threads : t \in Workers
  BY DEF ServerInv, TypeOK
<1>2. CASE pc[t] \in {"start", "pop"}
  BY <1>1, <1>2 DEF CanGo
<1>3. CASE pc[t] \notin {"start", "pop"}
  BY <1>1, <1>3, ServersGoOn
<1> QED
  BY <1>2, <1>3

\* No deadlock, for any number of workers, connections and URIs: a worker waits for the
\* mutex, its owner for a lock, and the holders of a lock wait for nobody, unless the open
\* of a PUT has failed.
THEOREM NoDeadlock == Spec => []SomebodyGoesOn
<1>1. Init => MutexInv
  BY DEF Init, MutexInv
<1>2. ServerInv /\ MutexInv /\ [Next]_vars => MutexInv'
  <2> SUFFICES ASSUME ServerInv, MutexInv, [Next]_vars
               PROVE  MutexInv'
    OBVIOUS
  <2>1. CASE Next
    BY <2>1, MutexInvKept DEF ServerInv
  <2>2. CASE UNCHANGED vars
    BY <2>2 DEF vars, MutexInv
  <2> QED
    BY <2>1, <2>2
<1>3. ServerInv /\ MutexInv => SomebodyGoesOn
  <2> SUFFICES ASSUME ServerInv, MutexInv, threads # {}, \A c \in Conns : ~OpenFailed(c),
                      NEW d \in fds, d[1] = "conn"
               PROVE  CanPush \/ \E w \in Workers : CanGo(w)
    BY DEF SomebodyGoesOn
  <2>1. TypeOK /\ OneOwner /\ LeftOpen
    BY DEF ServerInv
  <2>2. d[2] \in Conns
    BY <2>1 DEF TypeOK
  <2>3. CASE rqueue # << >>
    BY <2>3, QueueGoesOn
  <2>4. ASSUME NEW w \in Workers, fd[w] = d[2]
        PROVE  \E v \in Workers : CanGo(v)
    <3>1. pc[w] \notin {"start", "pop"}
      BY <2>2, <2>4 DEF ServerInv, WorkerInv
    <3> QED
      BY <3>1, ServersGoOn
  <2>5. CASE d[2] = connfd /\ rqueue = << >>
    <3>1. main = "push"
      BY <2>1, <2>2, <2>5 DEF OneOwner, TypeOK
    <3>2. Cardinality(threads) # 0
      BY <2>1, FS_EmptySet, FS_Subset DEF TypeOK
    <3> QED
      BY <2>5, <3>1, <3>2 DEF CanPush, QueueFull
  <2> QED
    BY <2>1, <2>2, <2>3, <2>4, <2>5 DEF LeftOpen
<1> QED
  BY <1>1, <1>2, <1>3, ServerCorrect, PTL DEF Spec

-----------------------------------------------------------------------------
(***************************************************************************)
(* No request can keep a worker for ever: the steps it may still take.     *)
(***************************************************************************)

\* The most steps a worker takes from a place to its next pop, chunks left out.
Position == [handle |-> 13, mutex |-> 12, find |-> 11, add |-> 10, acquire |-> 9,
             access |-> 8, open |-> 7, transfer |-> 6, log |-> 5, reply |-> 4,
             unlock |-> 3, close |-> 2, start |-> 1, pop |-> 0]
BeforeTransfer == {"handle", "mutex", "find", "add", "acquire", "access", "open"}

\* The chunks to pass: what fstat says of the file of a GET, and otherwise as many as a
\* file may have.
ToPass(w) ==
  IF pc[w] \in BeforeTransfer THEN BodySize + 1
  ELSE IF pc[w] = "transfer"
  THEN (IF IsGet(w) THEN job[w].size ELSE BodySize + 1) - Len(body[fd[w]])
  ELSE 0
StepsLeft(w) == Position[pc[w]] + ToPass(w)
Countable(w) == Position[pc[w]] \in Nat /\ ToPass(w) \in Nat

\* The body that a worker passes, and how much of it there is to pass.
LEMMA Passing ==
  ASSUME ServerInv, NEW w \in Workers, pc[w] = "transfer"
  PROVE  /\ fd[w] \in Conns
         /\ body[fd[w]] \in Content /\ Len(body[fd[w]]) \in Nat
         /\ (IF IsGet(w) THEN job[w].size ELSE BodySize + 1) - Len(body[fd[w]]) \in Nat
<1>1. TypeOK /\ TransferInv(w) /\ WorkerInv(w)
  BY DEF ServerInv
<1>2. fd[w] \in Conns
  BY <1>1 DEF WorkerInv, Serving
<1>3. body[fd[w]] \in Content /\ Len(body[fd[w]]) <= BodySize + 1
  BY <1>1, <1>2 DEF TypeOK, TransferInv
<1>4. Len(body[fd[w]]) \in Nat /\ job[w].size \in Nat /\ BodySize \in Nat
  BY <1>1, <1>3 DEF TypeOK, Content
<1>5. IsGet(w) => Len(body[fd[w]]) <= job[w].size
  BY <1>1 DEF TransferInv
<1> QED
  BY <1>2, <1>3, <1>4, <1>5

\* The steps left are a natural number.
LEMMA StepsAreNat == ServerInv => \A w \in Workers : Countable(w)
<1> SUFFICES ASSUME ServerInv, NEW w \in Workers
             PROVE  Position[pc[w]] \in Nat /\ ToPass(w) \in Nat
  BY DEF Countable
<1>1. Position[pc[w]] \in Nat
  <2>1. pc[w] \in Locations
    BY DEF ServerInv, TypeOK
  <2> QED
    BY <2>1 DEF Locations, Position
<1>2. ToPass(w) \in Nat
  BY Passing DEF ToPass
<1> QED
  BY <1>1, <1>2

\* A sum shrinks with either of its terms.
LEMMA SumShrinks ==
  ASSUME NEW a \in Nat, NEW b \in Nat, NEW c \in Nat, NEW d \in Nat,
         c <= a, d <= b, c < a \/ d < b
  PROVE  c + d < a + b
  OBVIOUS

\* Every step of a worker but its pop brings the end of its request nearer.
LEMMA WorkShrinks ==
  ASSUME ServerInv, NEW w \in Workers, Countable(w), Countable(w)', Work(w), pc[w] # "pop"
  PROVE  StepsLeft(w)' < StepsLeft(w)
<1>1. /\ Position[pc[w]] \in Nat /\ ToPass(w) \in Nat
      /\ Position[pc[w]]' \in Nat /\ ToPass(w)' \in Nat
  BY DEF Countable
<1>2. ASSUME Position[pc[w]]' <= Position[pc[w]], ToPass(w)' <= ToPass(w),
             Position[pc[w]]' < Position[pc[w]] \/ ToPass(w)' < ToPass(w)
      PROVE  StepsLeft(w)' < StepsLeft(w)
  BY <1>1, <1>2, SumShrinks, Zenon DEF StepsLeft
<1>3. TypeOK /\ BodySize \in Nat
  BY DEF ServerInv
<1>4. CASE \/ Start(w) \/ Refuse(w) \/ Handle(w) \/ LockMutex(w) \/ FindLock(w) \/ AddLock(w)
           \/ Acquire(w) \/ Access(w) \/ OpenFails(w) \/ OpenDirectory(w) \/ Log(w)
           \/ Reply(w) \/ Unlock(w) \/ Close(w)
  <2>1. \/ pc[w] = "start" /\ pc'[w] = "pop"
        \/ pc[w] = "handle" /\ pc'[w] \in {"mutex", "close"}
        \/ pc[w] = "mutex" /\ pc'[w] = "find"
        \/ pc[w] = "find" /\ pc'[w] \in {"add", "acquire"}
        \/ pc[w] = "add" /\ pc'[w] = "acquire"
        \/ pc[w] = "acquire" /\ pc'[w] \in {"access", "open"}
        \/ pc[w] = "access" /\ pc'[w] = "open"
        \/ pc[w] = "open" /\ pc'[w] = "log"
        \/ pc[w] = "log" /\ pc'[w] \in {"reply", "unlock", "close"}
        \/ pc[w] = "reply" /\ pc'[w] = "unlock"
        \/ pc[w] = "unlock" /\ pc'[w] = "close"
        \/ pc[w] = "close" /\ pc'[w] = "pop"
    BY <1>3, <1>4
    DEF TypeOK, Start, Refuse, Handle, LockMutex, FindLock, AddLock, Acquire, Access,
        OpenFails, OpenDirectory, Log, AfterLog, Reply, Unlock, Close, Goto
  <2>2. Position[pc[w]]' <= Position[pc[w]] /\ Position[pc[w]]' < Position[pc[w]]
    BY <2>1 DEF Position
  <2>3. ToPass(w)' <= ToPass(w)
    BY <1>3, <2>1 DEF ToPass, BeforeTransfer
  <2> QED
    BY <1>2, <2>2, <2>3
<1>5. CASE OpenToRead(w) \/ OpenToWrite(w)
  <2>1. pc[w] = "open" /\ pc'[w] = "transfer"
    BY <1>3, <1>5 DEF TypeOK, OpenToRead, OpenToWrite, Goto
  <2>2. Position[pc[w]]' <= Position[pc[w]] /\ Position[pc[w]]' < Position[pc[w]]
    BY <2>1 DEF Position
  <2>3. fd[w] \in Conns /\ fd' = fd /\ req' = req /\ body'[fd[w]] = << >>
    <3>1. fd[w] \in Conns
      BY <2>1 DEF ServerInv, WorkerInv, Serving
    <3> QED
      BY <1>3, <1>5, <3>1 DEF TypeOK, OpenToRead, OpenToWrite, clients
  <2>4. IsGet(w) => job'[w].size \in Nat /\ job'[w].size <= BodySize + 1
    <3>1. ASSUME IsGet(w)
          PROVE  /\ files[Uri(w)].kind = "file" /\ job'[w].size = Len(files[Uri(w)].data)
                 /\ Uri(w) \in Uris
      <4>1. OpenToRead(w)
        BY <1>5, <3>1 DEF OpenToWrite
      <4>2. req[fd[w]] \in Requests
        BY <1>3, <2>1, <2>3 DEF ServerInv, WorkerInv, TypeOK
      <4>3. Uri(w) \in Uris
        BY <3>1, <4>2 DEF Requests, IsGet, Uri
      <4> QED
        BY <1>3, <4>1, <4>3 DEF OpenToRead, TypeOK
    <3>2. ASSUME NEW u \in Uris, files[u].kind = "file"
          PROVE  Len(files[u].data) \in Nat /\ Len(files[u].data) <= BodySize + 1
      BY <1>3, <3>2 DEF TypeOK, Content
    <3> QED
      BY <3>1, <3>2
  <2>5. ToPass(w) = BodySize + 1
    BY <2>1 DEF ToPass, BeforeTransfer
  <2>6. ToPass(w)' <= BodySize + 1
    BY <1>3, <2>1, <2>3, <2>4 DEF ToPass, BeforeTransfer, IsGet
  <2> QED
    BY <1>2, <2>2, <2>5, <2>6
<1>6. CASE SendChunk(w) \/ ReceiveChunk(w)
  <2>1. pc[w] = "transfer" /\ pc' = pc /\ fd' = fd /\ job' = job /\ req' = req
    BY <1>6 DEF SendChunk, ReceiveChunk
  <2>2. Position[pc[w]]' <= Position[pc[w]]
    BY <1>1, <2>1
  <2>3. Len(body'[fd[w]]) = Len(body[fd[w]]) + 1
    <3>1. fd[w] \in Conns /\ body[fd[w]] \in Content
      BY <2>1, Passing
    <3>2. \E x : body'[fd[w]] = Append(body[fd[w]], x)
      BY <1>3, <1>6, <3>1 DEF TypeOK, SendChunk, ReceiveChunk
    <3> QED
      BY <3>1, <3>2 DEF Content
  <2>4. ToPass(w)' <= ToPass(w) /\ ToPass(w)' < ToPass(w)
    BY <1>3, <2>1, <2>3, Passing DEF ToPass, BeforeTransfer, IsGet, TypeOK
  <2> QED
    BY <1>2, <2>2, <2>4
<1>7. CASE TransferDone(w) \/ TransferFails(w)
  <2>1. pc[w] = "transfer" /\ pc'[w] = "log"
    BY <1>3, <1>7 DEF TypeOK, TransferDone, TransferFails, Goto
  <2>2. Position[pc[w]]' <= Position[pc[w]] /\ Position[pc[w]]' < Position[pc[w]]
    BY <2>1 DEF Position
  <2>3. ToPass(w)' <= ToPass(w)
    <3>1. (IF IsGet(w) THEN job[w].size ELSE BodySize + 1) - Len(body[fd[w]]) \in Nat
      BY <2>1, Passing
    <3> QED
      BY <2>1, <3>1 DEF ToPass, BeforeTransfer
  <2> QED
    BY <1>2, <2>2, <2>3
<1> QED
  BY <1>4, <1>5, <1>6, <1>7 DEF Work, Pop, Goto

\* Nobody else puts the end of a request off.
LEMMA OthersLeaveSteps ==
  ASSUME ServerInv, NEW w \in Workers, Next, ~Work(w)
  PROVE  StepsLeft(w)' = StepsLeft(w)
<1>1. TypeOK /\ WorkerInv(w)
  BY DEF ServerInv
<1>2. pc[w] = "transfer" => fd[w] \in Conns /\ req[fd[w]] # NoRequest
  BY <1>1 DEF WorkerInv, Serving
<1>3. ASSUME /\ pc'[w] = pc[w] /\ fd'[w] = fd[w] /\ job'[w] = job[w]
             /\ pc[w] = "transfer" => /\ req'[fd[w]] = req[fd[w]]
                                      /\ body'[fd[w]] = body[fd[w]]
      PROVE  StepsLeft(w)' = StepsLeft(w)
  BY <1>3 DEF StepsLeft, ToPass, IsGet
<1>4. ASSUME NEW c \in Conns, NEW r \in Requests, Accept(c, r)
      PROVE  StepsLeft(w)' = StepsLeft(w)
  BY <1>1, <1>2, <1>3, <1>4 DEF Accept, TypeOK
<1>5. CASE AcceptFails \/ Push
  BY <1>3, <1>5 DEF AcceptFails, Push, clients
<1>6. ASSUME NEW v \in Workers, Work(v)
      PROVE  StepsLeft(w)' = StepsLeft(w)
  <2>1. v # w
    BY <1>6
  <2>2. Footprint(v)
    BY <1>6, FootprintOfWork DEF ServerInv
  <2>3. pc[w] = "transfer" => fd[w] # fd[v]
    BY <1>2, <2>1 DEF ServerInv, OneOwner
  <2> QED
    BY <1>2, <1>3, <2>1, <2>2, <2>3 DEF Footprint
<1> QED
  BY <1>4, <1>5, <1>6 DEF Next

\* A request that was popped ends after at most thirteen steps of its worker and one
\* for each chunk of the largest file, whatever the other threads do: with NoDeadlock,
\* and workers that are scheduled, this is why connections are closed.
THEOREM RequestsShrink ==
  Spec => /\ [](\A w \in Workers : StepsLeft(w) \in Nat)
          /\ [][\A w \in Workers :
                  IF Work(w) THEN pc[w] = "pop" \/ StepsLeft(w)' < StepsLeft(w)
                  ELSE StepsLeft(w)' = StepsLeft(w)]_vars
<1> DEFINE AllCountable == \A w \in Workers : Countable(w)
<1>1. ServerInv => AllCountable
  BY StepsAreNat
<1>2. AllCountable => \A w \in Workers : StepsLeft(w) \in Nat
  BY DEF Countable, StepsLeft
<1>3. ServerInv /\ AllCountable /\ AllCountable' /\ [Next]_vars =>
        [\A w \in Workers :
           IF Work(w) THEN pc[w] = "pop" \/ StepsLeft(w)' < StepsLeft(w)
           ELSE StepsLeft(w)' = StepsLeft(w)]_vars
  <2> SUFFICES ASSUME ServerInv, AllCountable, AllCountable', [Next]_vars, vars' # vars,
                      NEW w \in Workers
               PROVE  IF Work(w) THEN pc[w] = "pop" \/ StepsLeft(w)' < StepsLeft(w)
                      ELSE StepsLeft(w)' = StepsLeft(w)
    OBVIOUS
  <2>1. Countable(w) /\ Countable(w)'
    OBVIOUS
  <2> QED
    BY <2>1, WorkShrinks, OthersLeaveSteps
<1> HIDE DEF AllCountable
<1> QED
  BY <1>1, <1>2, <1>3, ServerCorrect, PTL DEF Spec

-----------------------------------------------------------------------------
(***************************************************************************)
(* The dispatcher and the workers meet in the bounded FIFO of queue.h.     *)
(***************************************************************************)

\* The state of that FIFO, by the names of DispatchFifo: which operation a thread is
\* in, what it pushes, and what its last pop returned.
Calls == [t \in Threads |->
            IF t = Main THEN (IF main = "push" THEN "push" ELSE "idle")
            ELSE IF pc[t] = "pop" THEN "pop" ELSE "idle"]
Pushed == [t \in Threads |-> IF t = Main THEN connfd ELSE BadFd]
Popped == [t \in Threads |-> IF t = Main THEN BadFd ELSE fd[t]]

\* A function that differs from another at one argument.
LEMMA OneArgument ==
  ASSUME NEW S, NEW f, NEW g, f = [t \in S |-> f[t]], g = [t \in S |-> g[t]],
         NEW a \in S, \A t \in S : t # a => g[t] = f[t]
  PROVE  g = [f EXCEPT ![a] = g[a]]
OBVIOUS

\* A step of the dispatcher leaves what the workers popped.
LEMMA DispatcherShape ==
  ASSUME UNCHANGED <<pc, fd>>
  PROVE  /\ Popped' = Popped /\ Popped = [Popped EXCEPT ![Main] = BadFd]
         /\ Main \in Threads
         /\ Calls' = [Calls EXCEPT ![Main] = IF main' = "push" THEN "push" ELSE "idle"]
         /\ Pushed' = [Pushed EXCEPT ![Main] = connfd']
         /\ Calls[Main] = (IF main = "push" THEN "push" ELSE "idle")
         /\ Pushed[Main] = connfd
<1>1. Main \in Threads
  BY DEF Threads
<1>2. Popped' = Popped
  BY DEF Popped
<1>3. Popped[Main] = BadFd /\ Popped = [t \in Threads |-> Popped[t]]
  BY <1>1 DEF Popped
<1>4. Popped = [Popped EXCEPT ![Main] = BadFd]
  BY <1>1, <1>3, OneArgument
<1>5. /\ Calls'[Main] = (IF main' = "push" THEN "push" ELSE "idle")
      /\ Calls[Main] = (IF main = "push" THEN "push" ELSE "idle")
      /\ \A t \in Threads : t # Main => Calls'[t] = Calls[t]
  BY <1>1 DEF Calls
<1>6. Calls = [t \in Threads |-> Calls[t]] /\ Calls' = [t \in Threads |-> Calls'[t]]
  BY DEF Calls
<1>7. Calls' = [Calls EXCEPT ![Main] = IF main' = "push" THEN "push" ELSE "idle"]
  BY <1>1, <1>5, <1>6, OneArgument
<1>8. /\ Pushed'[Main] = connfd' /\ Pushed[Main] = connfd
      /\ \A t \in Threads : t # Main => Pushed'[t] = Pushed[t]
  BY <1>1 DEF Pushed
<1>9. Pushed = [t \in Threads |-> Pushed[t]] /\ Pushed' = [t \in Threads |-> Pushed'[t]]
  BY DEF Pushed
<1>10. Pushed' = [Pushed EXCEPT ![Main] = connfd']
  BY <1>1, <1>8, <1>9, OneArgument
<1> QED
  BY <1>1, <1>2, <1>4, <1>5, <1>7, <1>8, <1>10

\* main calls queue_push with what accept returned, be it -1.
LEMMA AcceptRefines ==
  ASSUME TypeOK, UNCHANGED <<rqueue, pc, fd>>, main = "accept", main' = "push",
         NEW e \in Conns \cup {BadFd}, connfd' = e
  PROVE  Dispatch!CallPush(Main, e)
<1>1. /\ Popped' = [Popped EXCEPT ![Main] = BadFd]
      /\ Calls[Main] = "idle" /\ Calls' = [Calls EXCEPT ![Main] = "push"]
      /\ Pushed' = [Pushed EXCEPT ![Main] = e]
  BY DispatcherShape
<1> QED
  BY <1>1, Zenon DEF Dispatch!CallPush, Calls, Pushed, Popped

\* queue_push stores it; the slots are the threads main created, no more than Workers.
LEMMA PushRefines ==
  ASSUME TypeOK, Push
  PROVE  Dispatch!Push(Main)
<1>1. /\ main = "push" /\ main' = "accept" /\ ~QueueFull /\ connfd' = BadFd
      /\ rqueue' = Append(rqueue, connfd) /\ UNCHANGED <<pc, fd>>
  BY DEF Push, Enqueue
<1>2. /\ Popped' = Popped
      /\ Calls[Main] = "push" /\ Calls' = [Calls EXCEPT ![Main] = "idle"]
      /\ Pushed' = [Pushed EXCEPT ![Main] = BadFd] /\ Pushed[Main] = connfd
  BY <1>1, DispatcherShape
<1>3. Len(rqueue) < Cardinality(Workers)
  <2>1. threads \subseteq Workers /\ IsFiniteSet(Workers)
    BY DEF TypeOK
  <2>2. Cardinality(threads) <= Cardinality(Workers)
    BY <2>1, FS_Subset
  <2>3. Cardinality(threads) \in Nat /\ Cardinality(Workers) \in Nat
    BY <2>1, FS_Subset, FS_CardinalityType
  <2>4. Len(rqueue) \in Nat /\ Len(rqueue) <= Cardinality(threads)
    BY DEF TypeOK
  <2> QED
    BY <1>1, <2>2, <2>3, <2>4 DEF QueueFull
<1>4. rqueue' = Append(rqueue, Pushed[Main])
  BY <1>1, <1>2
<1> QED
  BY <1>2, <1>3, <1>4, Zenon DEF Dispatch!Push, Calls, Pushed, Popped

\* A step of a worker leaves what the dispatcher pushes.
LEMMA WorkerShape ==
  ASSUME TypeOK, TypeOK', NEW w \in Workers, Footprint(w)
  PROVE  /\ w \in Threads /\ Pushed' = Pushed
         /\ Calls' = [Calls EXCEPT ![w] = IF pc'[w] = "pop" THEN "pop" ELSE "idle"]
         /\ Popped' = [Popped EXCEPT ![w] = fd'[w]]
         /\ Calls[w] = (IF pc[w] = "pop" THEN "pop" ELSE "idle")
         /\ Popped[w] = fd[w]
<1>1. w \in Threads /\ w # Main
  BY DEF Threads
<1>2. UNCHANGED <<main, connfd>>
  BY DEF Footprint
<1>3. Pushed' = Pushed
  BY <1>2 DEF Pushed
<1>4. \A t \in Threads : t # w => t = Main \/ t \in Workers \ {w}
  BY DEF Threads
<1>5. /\ Calls'[w] = (IF pc'[w] = "pop" THEN "pop" ELSE "idle")
      /\ Calls[w] = (IF pc[w] = "pop" THEN "pop" ELSE "idle")
      /\ \A t \in Threads : t # w => Calls'[t] = Calls[t]
  BY <1>1, <1>2, <1>4 DEF Calls, Footprint
<1>6. Calls = [t \in Threads |-> Calls[t]] /\ Calls' = [t \in Threads |-> Calls'[t]]
  BY DEF Calls
<1>7. Calls' = [Calls EXCEPT ![w] = IF pc'[w] = "pop" THEN "pop" ELSE "idle"]
  BY <1>1, <1>5, <1>6, OneArgument
<1>8. /\ Popped'[w] = fd'[w] /\ Popped[w] = fd[w]
      /\ \A t \in Threads : t # w => Popped'[t] = Popped[t]
  BY <1>1, <1>4 DEF Popped, Footprint
<1>9. Popped = [t \in Threads |-> Popped[t]] /\ Popped' = [t \in Threads |-> Popped'[t]]
  BY DEF Popped
<1>10. Popped' = [Popped EXCEPT ![w] = fd'[w]]
  BY <1>1, <1>8, <1>9, OneArgument
<1> QED
  BY <1>1, <1>3, <1>5, <1>7, <1>8, <1>10

\* A worker calls queue_pop with a new fd, -1, when it starts and when it is done with a
\* connection, and leaves the queue alone while it serves one.
LEMMA WorkRefines ==
  ASSUME ServerInv, TypeOK', NEW w \in Workers, Work(w)
  PROVE  [Dispatch!Next]_Dispatch!vars
<1>1. TypeOK /\ WorkerInv(w)
  BY DEF ServerInv
<1>2. Footprint(w)
  BY <1>1, FootprintOfWork
<1>3. /\ w \in Threads /\ Pushed' = Pushed
      /\ Calls' = [Calls EXCEPT ![w] = IF pc'[w] = "pop" THEN "pop" ELSE "idle"]
      /\ Popped' = [Popped EXCEPT ![w] = fd'[w]]
      /\ Calls[w] = (IF pc[w] = "pop" THEN "pop" ELSE "idle")
      /\ Popped[w] = fd[w]
  BY <1>1, <1>2, WorkerShape
<1>4. CASE Start(w) \/ Close(w)
  <2>1. /\ pc[w] \in {"start", "close"} /\ pc'[w] = "pop" /\ UNCHANGED rqueue
        /\ fd'[w] = BadFd
    BY <1>1, <1>4 DEF Start, Close, Goto, dispatch, TypeOK, WorkerInv
  <2>2. /\ Calls[w] = "idle" /\ Calls' = [Calls EXCEPT ![w] = "pop"]
        /\ Popped' = [Popped EXCEPT ![w] = BadFd]
    BY <1>3, <2>1
  <2>3. Dispatch!CallPop(w)
    BY <1>3, <2>1, <2>2, Zenon DEF Dispatch!CallPop, Calls, Pushed, Popped
  <2> QED
    BY <1>3, <2>3, Zenon DEF Dispatch!Next
<1>5. CASE Pop(w)
  <2>1. /\ pc[w] = "pop" /\ pc'[w] = "handle" /\ rqueue # << >> /\ rqueue' = Tail(rqueue)
        /\ fd'[w] = Head(rqueue)
    BY <1>1, <1>5 DEF Pop, Goto, TypeOK
  <2>2. /\ Calls[w] = "pop" /\ Calls' = [Calls EXCEPT ![w] = "idle"]
        /\ Popped' = [Popped EXCEPT ![w] = Head(rqueue)]
    BY <1>3, <2>1
  <2>3. Dispatch!Pop(w)
    BY <1>3, <2>1, <2>2, Zenon DEF Dispatch!Pop, Calls, Pushed, Popped
  <2> QED
    BY <1>3, <2>3, Zenon DEF Dispatch!Next
<1>6. CASE ~Start(w) /\ ~Pop(w) /\ ~Close(w)
  <2>1. pc[w] # "pop" /\ pc'[w] # "pop" /\ UNCHANGED <<rqueue, fd>>
    BY <1>1, <1>6, ZenonT(60)
    DEF Work, Refuse, Handle, LockMutex, FindLock, AddLock, Acquire, Access, OpenFails,
        OpenDirectory, OpenToRead, OpenToWrite, SendChunk, ReceiveChunk, TransferDone,
        TransferFails, Log, Reply, Unlock, AfterLog, Goto, dispatch, TypeOK
  <2>2. \A t \in Threads : Calls'[t] = Calls[t]
    <3>1. Calls'[w] = Calls[w]
      BY <1>3, <2>1 DEF Calls
    <3>2. \A t \in Threads : t # w => t = Main \/ t \in Workers \ {w}
      BY DEF Threads
    <3> QED
      BY <1>2, <3>1, <3>2 DEF Calls, Footprint
  <2>3. Calls' = Calls
    BY <2>2 DEF Calls
  <2>4. Popped' = Popped
    BY <2>1 DEF Popped
  <2> QED
    BY <1>3, <2>1, <2>3, <2>4, Zenon DEF Dispatch!vars, Calls, Pushed, Popped
<1> QED
  BY <1>4, <1>5, <1>6

\* The connections reach the workers through the bounded FIFO of queue.h, for any number
\* of workers and connections: none is lost, doubled or overtaken between accept and
\* the worker that serves it, and the -1 of a failed accept takes its turn.
THEOREM DispatchesInOrder == Spec => DispatchFifo
<1>1. Init => Dispatch!Init
  <2> SUFFICES ASSUME Init PROVE Dispatch!Init
    OBVIOUS
  <2>1. /\ rqueue = << >> /\ main = "accept" /\ connfd = BadFd
        /\ \A w \in Workers : pc[w] = "start" /\ fd[w] = BadFd
    BY DEF Init
  <2>2. /\ Calls = [t \in Threads |-> "idle"]
        /\ Pushed = [t \in Threads |-> BadFd]
        /\ Popped = [t \in Threads |-> BadFd]
    BY <2>1 DEF Calls, Pushed, Popped, Threads
  <2> QED
    BY <2>1, <2>2, Zenon DEF Dispatch!Init, Calls, Pushed, Popped
<1>2. ServerInv /\ ServerInv' /\ [Next]_vars => [Dispatch!Next]_Dispatch!vars
  <2> SUFFICES ASSUME ServerInv, ServerInv', [Next]_vars
               PROVE  [Dispatch!Next]_Dispatch!vars
    OBVIOUS
  <2>1. TypeOK /\ TypeOK'
    BY DEF ServerInv
  <2>2. Main \in Threads
    BY DEF Threads
  <2>3. CASE (\E c \in Conns, r \in Requests : Accept(c, r)) \/ AcceptFails
    <3>1. /\ UNCHANGED <<rqueue, pc, fd>> /\ main = "accept" /\ main' = "push"
          /\ connfd' \in Conns \cup {BadFd}
      BY <2>3 DEF Accept, AcceptFails
    <3>2. PICK e \in Conns \cup {BadFd} : e = connfd'
      BY <3>1
    <3>3. Dispatch!CallPush(Main, e)
      BY <2>1, <3>1, <3>2, AcceptRefines
    <3> QED
      BY <2>2, <3>3, Zenon DEF Dispatch!Next
  <2>4. CASE Push
    <3>1. Dispatch!Push(Main)
      BY <2>1, <2>4, PushRefines
    <3> QED
      BY <2>2, <3>1, Zenon DEF Dispatch!Next
  <2>5. CASE \E w \in Workers : Work(w)
    BY <2>1, <2>5, WorkRefines
  <2>6. CASE UNCHANGED vars
    <3>1. UNCHANGED <<rqueue, main, connfd, pc, fd>>
      BY <2>6 DEF vars, dispatch
    <3>2. UNCHANGED <<Calls, Pushed, Popped>>
      BY <3>1 DEF Calls, Pushed, Popped
    <3> QED
      BY <3>1, <3>2, Zenon DEF Dispatch!vars, Calls, Pushed, Popped
  <2> QED
    BY <2>3, <2>4, <2>5, <2>6 DEF Next
<1> QED
  BY <1>1, <1>2, ServerCorrect, PTL DEF Spec, DispatchFifo, Dispatch!Spec

-----------------------------------------------------------------------------
(***************************************************************************)
(* The nodes of the list are one reader/writer lock for each URI.          *)
(***************************************************************************)

\* What a connection has of the lock of u, or asks of it.
Reads(c, u) == \E i \in DOMAIN locklist : locklist[i].uri = u /\ c \in locklist[i].readers
Writes(c, u) == \E i \in DOMAIN locklist : locklist[i].uri = u /\ c \in locklist[i].writers
Waits(c, u) == \E w \in Workers : fd[w] = c /\ pc[w] = "acquire" /\ Uri(w) = u
UseOf(c, u) ==
  IF Reads(c, u) THEN "read" ELSE IF Writes(c, u) THEN "write"
  ELSE IF Waits(c, u) THEN IF req[c].method = "GET" THEN "wants read" ELSE "wants write"
  ELSE "none"
Use(u) == [c \in Conns |-> UseOf(c, u)]

\* The connection c asks, is granted the lock, or releases it; nobody else does.
UseBecomes(u, c, a) == Use(u)' = [Use(u) EXCEPT ![c] = a]
Alone(u) == \A d \in Conns : Use(u)[d] # "write"
Unused(u) == \A d \in Conns : Use(u)[d] \notin {"read", "write"}

\* A lock that nobody uses.
LEMMA FreeLock ==
  ASSUME NEW u, Use(u) = [c \in Conns |-> "none"]
  PROVE  Lock(u)!Init
BY Zenon DEF Lock!Init, Use, UseOf, Reads, Writes, Waits

\* A connection asks for the lock.
LEMMA AskRefines ==
  ASSUME NEW u, NEW c \in Conns, NEW a \in {"wants read", "wants write"},
         Use(u)[c] = "none", UseBecomes(u, c, a)
  PROVE  Lock(u)!Next
<1>1. Lock(u)!Ask(c, a)
  BY Zenon DEF Lock!Ask, UseBecomes, Use, UseOf, Reads, Writes, Waits
<1> QED
  BY <1>1, Zenon DEF Lock!Next

\* It is granted the lock to read beside readers, ...
LEMMA GrantReadRefines ==
  ASSUME NEW u, NEW c \in Conns, Use(u)[c] = "wants read", Alone(u), UseBecomes(u, c, "read")
  PROVE  Lock(u)!Next
<1>1. {d \in Conns : Use(u)[d] = "write"} = {}
  BY DEF Alone
<1>2. Lock(u)!GrantRead(c)
  BY <1>1, Zenon DEF Lock!GrantRead, Lock!Users, UseBecomes, Use, UseOf, Reads, Writes, Waits
<1> QED
  BY <1>2, Zenon DEF Lock!Next

\* ... to write alone, ...
LEMMA GrantWriteRefines ==
  ASSUME NEW u, NEW c \in Conns, Use(u)[c] = "wants write", Unused(u), UseBecomes(u, c, "write")
  PROVE  Lock(u)!Next
<1>1. /\ {d \in Conns : Use(u)[d] = "write"} = {}
      /\ {d \in Conns : Use(u)[d] = "read"} = {}
  BY DEF Unused
<1>2. Lock(u)!GrantWrite(c)
  BY <1>1, Zenon DEF Lock!GrantWrite, Lock!Users, UseBecomes, Use, UseOf, Reads, Writes, Waits
<1> QED
  BY <1>2, Zenon DEF Lock!Next

\* ... and releases it.
LEMMA ReleaseRefines ==
  ASSUME NEW u, NEW c \in Conns, Use(u)[c] \in {"read", "write"}, UseBecomes(u, c, "none")
  PROVE  Lock(u)!Next
<1>1. Lock(u)!Release(c)
  BY Zenon DEF Lock!Release, UseBecomes, Use, UseOf, Reads, Writes, Waits
<1> QED
  BY <1>1, Zenon DEF Lock!Next

\* Nobody does anything with the lock.
LEMMA UseStutters ==
  ASSUME NEW u, Use(u)' = Use(u)
  PROVE  UNCHANGED Lock(u)!vars
BY Zenon DEF Lock!vars, Use, UseOf, Reads, Writes, Waits

\* The use of a lock changes for one connection.
LEMMA OneUse ==
  ASSUME NEW u, NEW c \in Conns, \A d \in Conns : d # c => UseOf(d, u)' = UseOf(d, u)
  PROVE  UseBecomes(u, c, UseOf(c, u)')
<1>1. /\ Use(u) = [d \in Conns |-> Use(u)[d]]
      /\ Use(u)' = [d \in Conns |-> Use(u)'[d]]
      /\ \A d \in Conns : Use(u)[d] = UseOf(d, u) /\ Use(u)'[d] = UseOf(d, u)'
  BY DEF Use
<1>2. \A d \in Conns : d # c => Use(u)'[d] = Use(u)[d]
  BY <1>1
<1>3. Use(u)'[c] = UseOf(c, u)'
  BY <1>1
<1> HIDE DEF Use, UseOf
<1>4. \A f, g : (f = [t \in Conns |-> f[t]] /\ g = [t \in Conns |-> g[t]]
                 /\ \A t \in Conns : t # c => g[t] = f[t]) => g = [f EXCEPT ![c] = g[c]]
  OBVIOUS
<1> QED
  BY <1>1, <1>2, <1>3, <1>4, Zenon DEF UseBecomes

\* A step of a worker changes the use of its own connection only, of the lock of its URI.
LEMMA OthersUse ==
  ASSUME ServerInv, ServerInv', NEW w \in Workers, Work(w), fd[w] \in Conns, fd'[w] = fd[w],
         NEW u, NEW c \in Conns, c # fd[w]
  PROVE  UseOf(c, u)' = UseOf(c, u)
<1>1. TypeOK /\ WorkerInv(w) /\ LockInv(w)
  BY DEF ServerInv
<1>2. Footprint(w) /\ LocksKept(w)
  BY <1>1, FootprintOfWork, LocksOfWork
<1>3. Reads(c, u)' <=> Reads(c, u)
  BY <1>2 DEF Reads, LocksKept
<1>4. Writes(c, u)' <=> Writes(c, u)
  BY <1>2 DEF Writes, LocksKept
<1>5. Waits(c, u)' <=> Waits(c, u)
  <2>1. \A v \in Workers \ {w} : pc'[v] = pc[v] /\ fd'[v] = fd[v] /\ Uri(v)' = Uri(v)
    BY <1>2 DEF Footprint, Uri
  <2> QED
    BY <2>1 DEF Waits
<1>6. req' = req
  BY <1>2 DEF Footprint
<1> QED
  BY <1>3, <1>4, <1>5, <1>6, Zenon DEF UseOf

\* A connection that holds no lock reads and writes nothing.
LEMMA UntouchedUse ==
  ASSUME NEW c \in Conns, NEW u, Untouched(c)
  PROVE  ~Reads(c, u) /\ ~Writes(c, u)
BY DEF Untouched, Holds, Reads, Writes

\* Who is not among the writers does not write, and likewise for the readers.
LEMMA NotUsing ==
  ASSUME NEW u, NEW d \in Conns
  PROVE  /\ ~Writes(d, u) => Use(u)[d] # "write"
         /\ ~Reads(d, u) => Use(u)[d] # "read"
<1>1. Use(u)[d] = UseOf(d, u)
  BY DEF Use
<1>2. /\ ~Writes(d, u) => UseOf(d, u) # "write"
      /\ ~Reads(d, u) => UseOf(d, u) # "read"
  BY DEF UseOf
<1> QED
  BY <1>1, <1>2

\* Who waits for the lock of a URI is a worker on it.
LEMMA WaitsAlone ==
  ASSUME ServerInv, NEW w \in Workers, fd[w] \in Conns, NEW u
  PROVE  Waits(fd[w], u) <=> pc[w] = "acquire" /\ Uri(w) = u
<1>1. \A v \in Workers : fd[v] = fd[w] => v = w
  BY DEF ServerInv, OneOwner
<1> QED
  BY <1>1 DEF Waits

\* The worker begins to wait for the lock of its URI: reader_lock or writer_lock is called
\* on the node that find returned, or that addtolist made.
LEMMA BeginsToWait ==
  ASSUME ServerInv, ServerInv', NEW w \in Workers, Work(w),
         NEW c \in Conns, c = fd[w], fd'[w] = c,
         pc[w] \in {"find", "add"}, pc'[w] = "acquire",
         \A i \in DOMAIN locklist' : ~(c \in locklist'[i].readers \cup locklist'[i].writers),
         NEW u
  PROVE  [Lock(u)!Next]_(Lock(u)!vars)
<1>1. TypeOK /\ WorkerInv(w)
  BY DEF ServerInv
<1>2. Footprint(w)
  BY <1>1, FootprintOfWork
<1>3. Untouched(c)
  BY <1>1 DEF WorkerInv
<1>4. UseOf(c, u) = "none"
  <2>1. ~Waits(c, u)
    BY WaitsAlone
  <2> QED
    BY <1>3, <2>1, UntouchedUse DEF UseOf
<1>5. ~Reads(c, u)' /\ ~Writes(c, u)'
  BY DEF Reads, Writes
<1>6. Waits(c, u)' <=> Uri(w) = u
  <2>1. Uri(w)' = Uri(w)
    BY <1>2 DEF Uri, Footprint
  <2>2. \A v \in Workers : fd'[v] = c => v = w
    BY DEF ServerInv, OneOwner
  <2> QED
    BY <2>1, <2>2 DEF Waits
<1>7. req' = req
  BY <1>2 DEF Footprint
<1>8. \A d \in Conns : d # c => UseOf(d, u)' = UseOf(d, u)
  BY OthersUse
<1>9. UseBecomes(u, c, UseOf(c, u)')
  BY <1>8, OneUse
<1>10. Use(u)[c] = "none"
  BY <1>4 DEF Use
<1>11. CASE Uri(w) = u
  <2>1. UseOf(c, u)' \in {"wants read", "wants write"}
    BY <1>5, <1>6, <1>11 DEF UseOf
  <2>2. PICK a \in {"wants read", "wants write"} : a = UseOf(c, u)'
    BY <2>1
  <2>3. UseBecomes(u, c, a)
    BY <1>9, <2>2
  <2> QED
    BY <1>10, <2>3, AskRefines
<1>12. CASE Uri(w) # u
  <2>1. UseOf(c, u)' = "none"
    BY <1>5, <1>6, <1>12 DEF UseOf
  <2>2. \A d \in Conns : UseOf(d, u)' = UseOf(d, u)
    BY <1>4, <1>8, <2>1
  <2>3. Use(u)' = Use(u)
    BY <2>2 DEF Use
  <2> QED
    BY <2>3, UseStutters
<1> QED
  BY <1>11, <1>12

\* reader_lock or writer_lock returns: the rwlock of the node grants what its contract
\* allows, and there is no other node of the URI.
LEMMA IsGranted ==
  ASSUME ServerInv, ServerInv', NEW w \in Workers, Acquire(w), NEW u,
         NEW c \in Conns, c = fd[w]
  PROVE  [Lock(u)!Next]_(Lock(u)!vars)
<1>1. TypeOK /\ WorkerInv(w) /\ LockInv(w) /\ ListInv
  BY DEF ServerInv
<1>2. /\ pc[w] = "acquire" /\ pc'[w] # "acquire" /\ fd'[w] = fd[w] /\ req' = req
      /\ Admits(w, locklist[job[w].lock])
  BY <1>1 DEF Acquire, Goto, TypeOK, clients
<1> DEFINE k == job[w].lock
<1>3. /\ DOMAIN locklist' = DOMAIN locklist /\ k \in DOMAIN locklist /\ c \in Conns
      /\ \A j \in DOMAIN locklist : j # k => locklist'[j] = locklist[j]
      /\ locklist'[k].uri = locklist[k].uri
      /\ locklist'[k].readers =
           IF IsGet(w) THEN locklist[k].readers \cup {c} ELSE locklist[k].readers
      /\ locklist'[k].writers =
           IF IsGet(w) THEN locklist[k].writers ELSE locklist[k].writers \cup {c}
  BY <1>1, AcquireEffect
<1>4. locklist[k].uri = Uri(w)
  BY <1>1, <1>2 DEF LockInv
<1>5. Untouched(c)
  BY <1>1, <1>2, <1>3 DEF WorkerInv
<1>6. ~Reads(c, u) /\ ~Writes(c, u)
  BY <1>3, <1>5, UntouchedUse
<1>7. Waits(c, u) <=> Uri(w) = u
  BY <1>2, <1>3, WaitsAlone
<1>8. ~Waits(c, u)'
  <2>1. \A v \in Workers : fd'[v] = fd'[w] => v = w
    BY <1>2, <1>3 DEF ServerInv, OneOwner
  <2> QED
    BY <1>2, <2>1 DEF Waits
<1>9. \A d \in Conns : d # c => UseOf(d, u)' = UseOf(d, u)
  BY <1>2, <1>3, OthersUse DEF Work
<1>10. UseBecomes(u, c, UseOf(c, u)')
  BY <1>3, <1>9, OneUse
<1>11. Use(u)[c] = UseOf(c, u)
  BY <1>3 DEF Use
<1>12. CASE Uri(w) = u
  <2>1. \A i \in DOMAIN locklist : locklist[i].uri = u => i = k
    BY <1>1, <1>3, <1>4, <1>12 DEF ListInv, UniqueNodes
  <2>2. locklist[k].writers = {}
    BY <1>2 DEF Admits
  <2>3. \A d : ~Writes(d, u)
    BY <2>1, <2>2 DEF Writes
  <2>4. Alone(u)
    <3>1. ASSUME NEW d \in Conns PROVE Use(u)[d] # "write"
      BY <2>3, NotUsing
    <3> QED
      BY <3>1 DEF Alone
  <2>5. CASE IsGet(w)
    <3>1. UseOf(c, u) = "wants read"
      BY <1>6, <1>7, <1>12, <2>5 DEF UseOf, IsGet
    <3>2. Reads(c, u)'
      <4>1. c \in locklist'[k].readers
        BY <1>3, <2>5
      <4> QED
        BY <1>3, <1>4, <1>12, <4>1 DEF Reads
    <3>3. UseOf(c, u)' = "read"
      BY <3>2 DEF UseOf
    <3>4. UseBecomes(u, c, "read")
      BY <1>10, <3>3
    <3> QED
      BY <1>11, <2>4, <3>1, <3>4, GrantReadRefines
  <2>6. CASE ~IsGet(w)
    <3>1. UseOf(c, u) = "wants write"
      BY <1>6, <1>7, <1>12, <2>6 DEF UseOf, IsGet
    <3>2. Writes(c, u)'
      <4>1. c \in locklist'[k].writers
        BY <1>3, <2>6
      <4> QED
        BY <1>3, <1>4, <1>12, <4>1 DEF Writes
    <3>3. ~Reads(c, u)'
      BY <1>3, <1>6, <2>6 DEF Reads
    <3>8. UseOf(c, u)' = "write"
      BY <3>2, <3>3 DEF UseOf
    <3>4. UseBecomes(u, c, "write")
      BY <1>10, <3>8
    <3>5. locklist[k].readers = {}
      BY <1>2, <2>6 DEF Admits
    <3>6. \A d : ~Reads(d, u)
      BY <2>1, <3>5 DEF Reads
    <3>7. Unused(u)
      <4>1. ASSUME NEW d \in Conns PROVE Use(u)[d] \notin {"read", "write"}
        BY <2>3, <3>6, NotUsing
      <4> QED
        BY <4>1 DEF Unused
    <3> QED
      BY <1>3, <1>11, <3>1, <3>4, <3>7, GrantWriteRefines
  <2> QED
    BY <2>5, <2>6
<1>13. CASE Uri(w) # u
  <2>1. ~Reads(c, u)' /\ ~Writes(c, u)'
    BY <1>3, <1>4, <1>6, <1>13 DEF Reads, Writes
  <2>2. UseOf(c, u)' = "none" /\ UseOf(c, u) = "none"
    BY <1>6, <1>7, <1>8, <1>13, <2>1 DEF UseOf
  <2>3. \A d \in Conns : UseOf(d, u)' = UseOf(d, u)
    BY <1>9, <2>2
  <2>4. Use(u)' = Use(u)
    BY <2>3 DEF Use
  <2> QED
    BY <2>4, UseStutters
<1> QED
  BY <1>12, <1>13

\* The worker unlocks the node it locked, the only one that holds its connection.
LEMMA IsReleased ==
  ASSUME ServerInv, ServerInv', NEW w \in Workers, Unlock(w), NEW u,
         NEW c \in Conns, c = fd[w]
  PROVE  [Lock(u)!Next]_(Lock(u)!vars)
<1>1. TypeOK /\ WorkerInv(w) /\ LockInv(w) /\ ListInv
  BY DEF ServerInv
<1>2. pc[w] = "unlock" /\ pc'[w] = "close" /\ fd'[w] = fd[w] /\ req' = req
  BY <1>1 DEF Unlock, Goto, TypeOK, clients
<1> DEFINE k == job[w].lock
<1>3. /\ DOMAIN locklist' = DOMAIN locklist /\ k \in DOMAIN locklist /\ c \in Conns
      /\ \A j \in DOMAIN locklist : j # k => locklist'[j] = locklist[j]
      /\ locklist'[k].uri = locklist[k].uri
      /\ locklist'[k].readers = locklist[k].readers \ {c}
      /\ locklist'[k].writers = locklist[k].writers \ {c}
  BY <1>1, UnlockEffect
<1>4. /\ locklist[k].uri = Uri(w)
      /\ c \in locklist[k].readers \cup locklist[k].writers
      /\ \A i \in DOMAIN locklist : c \in locklist[i].readers \cup locklist[i].writers => i = k
  BY <1>1, <1>2, <1>3 DEF LockInv, Holding, Holds
<1>5. ~Reads(c, u)' /\ ~Writes(c, u)'
  BY <1>3, <1>4 DEF Reads, Writes
<1>6. ~Waits(c, u)
  BY <1>2, <1>3, WaitsAlone
<1>7. ~Waits(c, u)'
  <2>1. \A v \in Workers : fd'[v] = fd'[w] => v = w
    BY <1>2, <1>3 DEF ServerInv, OneOwner
  <2> QED
    BY <1>2, <2>1 DEF Waits
<1>8. UseOf(c, u)' = "none"
  BY <1>5, <1>7 DEF UseOf
<1>9. \A d \in Conns : d # c => UseOf(d, u)' = UseOf(d, u)
  BY <1>2, <1>3, OthersUse DEF Work
<1>10. UseBecomes(u, c, UseOf(c, u)')
  BY <1>3, <1>9, OneUse
<1>11. Use(u)[c] = UseOf(c, u)
  BY <1>3 DEF Use
<1>12. CASE Uri(w) = u
  <2>1. Reads(c, u) \/ Writes(c, u)
    BY <1>3, <1>4, <1>12 DEF Reads, Writes
  <2>2. UseOf(c, u) \in {"read", "write"}
    BY <2>1 DEF UseOf
  <2>3. UseBecomes(u, c, "none")
    BY <1>8, <1>10
  <2> QED
    BY <1>3, <1>11, <2>2, <2>3, ReleaseRefines
<1>13. CASE Uri(w) # u
  <2>1. ~Reads(c, u) /\ ~Writes(c, u)
    BY <1>4, <1>13 DEF Reads, Writes
  <2>2. UseOf(c, u) = "none"
    BY <1>6, <2>1 DEF UseOf
  <2>3. \A d \in Conns : UseOf(d, u)' = UseOf(d, u)
    BY <1>8, <1>9, <2>2
  <2>4. Use(u)' = Use(u)
    BY <2>3 DEF Use
  <2> QED
    BY <2>4, UseStutters
<1> QED
  BY <1>12, <1>13

\* A step that leaves the list, and those who wait, leaves every lock.
LEMMA QuietUse ==
  ASSUME ServerInv, UNCHANGED locklist,
         \A v \in Workers : pc[v] = "acquire" \/ pc'[v] = "acquire" =>
           pc'[v] = pc[v] /\ fd'[v] = fd[v] /\ req'[fd[v]] = req[fd[v]],
         NEW u
  PROVE  [Lock(u)!Next]_(Lock(u)!vars)
<1>1. ASSUME NEW c \in Conns PROVE UseOf(c, u)' = UseOf(c, u)
  <2>1. (Reads(c, u)' <=> Reads(c, u)) /\ (Writes(c, u)' <=> Writes(c, u))
    BY DEF Reads, Writes
  <2>2. Waits(c, u)' <=> Waits(c, u)
    BY DEF Waits, Uri
  <2>3. Waits(c, u) => req'[c] = req[c]
    BY DEF Waits
  <2> QED
    BY <2>1, <2>2, <2>3 DEF UseOf
<1>2. Use(u)' = Use(u)
  BY <1>1 DEF Use
<1> QED
  BY <1>2, UseStutters

\* Every step of a worker is a step of the lock of each URI, or none.
LEMMA WorkLocks ==
  ASSUME ServerInv, ServerInv', NEW w \in Workers, Work(w), NEW u
  PROVE  [Lock(u)!Next]_(Lock(u)!vars)
<1>1. TypeOK /\ WorkerInv(w) /\ LockInv(w)
  BY DEF ServerInv
<1>2. Footprint(w)
  BY <1>1, FootprintOfWork
<1>3. CASE Acquire(w) \/ Unlock(w)
  <2>1. PICK c \in Conns : c = fd[w]
    BY <1>1, <1>3, AcquireEffect, UnlockEffect
  <2> QED
    BY <1>3, <2>1, IsGranted, IsReleased
<1>4. CASE AddLock(w)
  <2>1. pc[w] = "add" /\ pc'[w] = "acquire" /\ fd'[w] = fd[w]
    BY <1>1, <1>4 DEF AddLock, Goto, TypeOK
  <2>2. PICK c \in Conns : c = fd[w] /\ Untouched(c)
    BY <1>1, <2>1, BadFdAssumption DEF WorkerInv, Serving
  <2>3. /\ DOMAIN locklist = 1 .. Len(locklist) /\ DOMAIN locklist' = 1 .. Len(locklist) + 1
        /\ \A j \in DOMAIN locklist : locklist'[j] = locklist[j]
        /\ locklist'[Len(locklist) + 1].readers = {}
        /\ locklist'[Len(locklist) + 1].writers = {}
        /\ Len(locklist) \in Nat
    BY <1>1, <1>4, AddEffect
  <2>4. \A i \in DOMAIN locklist' : i \in DOMAIN locklist \/ i = Len(locklist) + 1
    BY <2>3
  <2>5. \A i \in DOMAIN locklist' : ~(c \in locklist'[i].readers \cup locklist'[i].writers)
    BY <2>2, <2>3, <2>4 DEF Untouched, Holds
  <2> QED
    BY <2>1, <2>2, <2>5, BeginsToWait
<1>5. CASE FindLock(w) /\ pc'[w] = "acquire"
  <2>1. pc[w] = "find" /\ fd'[w] = fd[w] /\ UNCHANGED locklist
    BY <1>1, <1>5 DEF FindLock, Goto, TypeOK
  <2>2. PICK c \in Conns : c = fd[w] /\ Untouched(c)
    BY <1>1, <2>1, BadFdAssumption DEF WorkerInv, Serving
  <2>3. \A i \in DOMAIN locklist' : ~(c \in locklist'[i].readers \cup locklist'[i].writers)
    BY <2>1, <2>2 DEF Untouched, Holds
  <2> QED
    BY <1>5, <2>1, <2>2, <2>3, BeginsToWait
<1>6. CASE ~Acquire(w) /\ ~Unlock(w) /\ ~AddLock(w) /\ ~(FindLock(w) /\ pc'[w] = "acquire")
  <2>1. UNCHANGED locklist
    BY <1>6
    DEF Work, Start, Pop, Refuse, Handle, LockMutex, FindLock, Access, OpenFails,
        OpenDirectory, OpenToRead, OpenToWrite, SendChunk, ReceiveChunk, TransferDone,
        TransferFails, Log, Reply, Close
  <2>2. pc[w] # "acquire" /\ pc'[w] # "acquire"
    <3>1. CASE FindLock(w)
      BY <1>6, <3>1 DEF FindLock, Goto
    <3>2. CASE ~FindLock(w)
      BY <1>1, <1>6, <3>2, SMTT(40)
      DEF Work, Start, Pop, Refuse, Handle, LockMutex, Access, OpenFails,
          OpenDirectory, OpenToRead, OpenToWrite, SendChunk, ReceiveChunk, TransferDone,
          TransferFails, Log, Reply, Close, AfterLog, Goto, TypeOK
    <3> QED
      BY <3>1, <3>2
  <2>3. \A v \in Workers : pc[v] = "acquire" \/ pc'[v] = "acquire" =>
          pc'[v] = pc[v] /\ fd'[v] = fd[v] /\ req'[fd[v]] = req[fd[v]]
    BY <1>2, <2>2 DEF Footprint
  <2> QED
    BY <2>1, <2>3, QuietUse
<1> QED
  BY <1>3, <1>4, <1>5, <1>6

\* All the requests for a URI meet in one reader/writer lock, for any number of workers,
\* connections and URIs: the list never gets a second node for a URI, because find and
\* addtolist run under the mutex that is held until the lock is acquired, and each node
\* keeps the contract of rwlock.h towards the connections that use it.
THEOREM UriHasOneLock == Spec => OneLockPerUri
<1>1. Init => LocksFree
  <2> SUFFICES ASSUME Init, NEW u \in Uris PROVE Lock(u)!Init
    BY Zenon DEF LocksFree
  <2>1. locklist = << >> /\ \A w \in Workers : pc[w] = "start"
    BY DEF Init
  <2>2. ASSUME NEW c \in Conns PROVE UseOf(c, u) = "none"
    <3>1. ~Reads(c, u) /\ ~Writes(c, u) /\ ~Waits(c, u)
      BY <2>1 DEF Reads, Writes, Waits
    <3> QED
      BY <3>1 DEF UseOf
  <2>3. Use(u) = [c \in Conns |-> "none"]
    BY <2>2 DEF Use
  <2> QED
    BY <2>3, FreeLock
<1>2. ServerInv /\ ServerInv' /\ [Next]_vars => [LocksStep]_vars
  <2> SUFFICES ASSUME ServerInv, ServerInv', Next, NEW u \in Uris
               PROVE  [Lock(u)!Next]_(Lock(u)!vars)
    BY Zenon DEF LocksStep
  <2>1. CASE \E c \in Conns, r \in Requests : Accept(c, r)
    <3>1. PICK c \in Conns, r \in Requests : Accept(c, r)
      BY <2>1
    <3>2. /\ UNCHANGED <<locklist, pc, fd>> /\ req[c] = NoRequest
          /\ req' = [req EXCEPT ![c] = r]
      BY <3>1 DEF Accept
    <3>3. \A v \in Workers : pc[v] = "acquire" => req'[fd[v]] = req[fd[v]]
      <4> SUFFICES ASSUME NEW v \in Workers, pc[v] = "acquire"
                   PROVE  req'[fd[v]] = req[fd[v]]
        OBVIOUS
      <4>1. fd[v] \in Conns /\ req[fd[v]] # NoRequest
        BY BadFdAssumption DEF ServerInv, WorkerInv, Serving
      <4>2. fd[v] # c
        BY <3>2, <4>1
      <4> QED
        BY <3>2, <4>1, <4>2 DEF ServerInv, TypeOK
    <3> QED
      BY <3>2, <3>3, QuietUse
  <2>2. CASE AcceptFails \/ Push
    <3>1. UNCHANGED <<locklist, pc, fd, req>>
      BY <2>2 DEF AcceptFails, Push, clients
    <3> QED
      BY <3>1, QuietUse
  <2>3. CASE \E w \in Workers : Work(w)
    BY <2>3, WorkLocks
  <2> QED
    BY <2>1, <2>2, <2>3 DEF Next
<1> QED
  BY <1>1, <1>2, ServerCorrect, PTL DEF Spec, OneLockPerUri
=============================================================================
