------------------------ MODULE HttpServerLogProofs ------------------------
(***************************************************************************)
(* The audit log of HttpServer is an order in which its requests could     *)
(* have been served one at a time: proof of LogExplainsAnswers and         *)
(* LogExplainsDisk, from the invariant of HttpServerProofs.                *)
(***************************************************************************)
EXTENDS HttpServerProofs

USE WorkersAssumption, BadFdAssumption, SizesAssumption

\* The file as the log so far explains it, and the line a worker is about to write.
Now(u) == FileBefore(Len(log) + 1, u)
LineFor(w) == [conn |-> fd[w], code |-> job[w].code]

\* The Max of FileBefore is there.
LastExists ==
  \A k \in 1 .. Len(log) + 1 : \A u \in Uris :
    \/ PutsBefore(k, u) = {}
    \/ \E m \in PutsBefore(k, u) : \A j \in PutsBefore(k, u) : m >= j

\* A worker that holds the lock of its URI knows the file as the log explains it.
ReplyInv(w) ==
  /\ pc[w] = "open" /\ ~IsGet(w) =>
       (job[w].existed <=> files[Uri(w)].kind \notin {"absent", "no_dir"})
  /\ (pc[w] = "transfer" \/ (pc[w] = "log" /\ ~job[w].early)) /\ ~IsGet(w) =>
       Now(Uri(w)).kind = IF job[w].existed THEN "file" ELSE "absent"
  /\ pc[w] = "log" /\ job[w].early => files[Uri(w)] = Now(Uri(w))
  /\ pc[w] = "log" => Explains(Now(Uri(w)), LineFor(w))

\* Only requests that are served get a line.
LinesServed == \A k \in DOMAIN log : req[log[k].conn].method \in {"GET", "PUT"}

LogInv ==
  /\ ServerInv /\ LastExists /\ LinesServed /\ LogExplainsAnswers /\ LogExplainsDisk
  /\ \A w \in Workers : ReplyInv(w)
-----------------------------------------------------------------------------
(***************************************************************************)
(* What the log explains does not change.                                  *)
(***************************************************************************)

\* A line names a connection and a code.
LEMMA LineTyped ==
  ASSUME TypeOK, NEW j \in DOMAIN log
  PROVE  log[j].conn \in Conns /\ log[j].code \in Codes
<1> DEFINE Lines == [conn : Conns, code : Codes]
<1>1. log \in Seq(Lines)
  BY DEF TypeOK
<1>2. \A r \in Lines : r.conn \in Conns /\ r.code \in Codes
  OBVIOUS
<1> HIDE DEF Lines
<1>3. log[j] \in Lines
  BY <1>1
<1> QED
  BY <1>2, <1>3

\* The largest element of a set is its Max.
LEMMA MaxIs ==
  ASSUME NEW S, S \subseteq Int, NEW m \in S, \A j \in S : m >= j
  PROVE  Max(S) = m
<1>1. \A x \in S : (\A y \in S : x >= y) => x = m
  OBVIOUS
<1>2. Max(S) = CHOOSE x \in S : \A y \in S : x >= y
  BY DEF Max
<1> QED
  BY <1>1, <1>2

\* The PUTs above a line are lines.
LEMMA PutsAreLines ==
  ASSUME TypeOK, NEW k \in 1 .. Len(log) + 1, NEW u
  PROVE  /\ PutsBefore(k, u) \subseteq DOMAIN log /\ PutsBefore(k, u) \subseteq Int
         /\ \A j \in PutsBefore(k, u) : j < k
<1>1. log \in Seq([conn : Conns, code : Codes])
  BY DEF TypeOK
<1>2. DOMAIN log = 1 .. Len(log) /\ Len(log) \in Nat
  BY <1>1
<1>3. PutsBefore(k, u) \subseteq 1 .. k - 1
  BY DEF PutsBefore
<1> QED
  BY <1>2, <1>3

\* The last PUT above a line is one of them.
LEMMA MaxOfPuts ==
  ASSUME TypeOK, LastExists, NEW k \in 1 .. Len(log) + 1, NEW u \in Uris,
         PutsBefore(k, u) # {}
  PROVE  Max(PutsBefore(k, u)) \in PutsBefore(k, u)
<1>1. PICK m \in PutsBefore(k, u) : \A j \in PutsBefore(k, u) : m >= j
  BY DEF LastExists
<1> QED
  BY <1>1, MaxIs, PutsAreLines

\* A step that leaves the lines of the log, and the requests and bodies they are about,
\* leaves what the log explains.
LEMMA PastKept ==
  ASSUME TypeOK, LastExists, disk0' = disk0,
         \A j \in DOMAIN log : /\ log'[j] = log[j]
                               /\ body'[log[j].conn] = body[log[j].conn]
                               /\ req'[log[j].conn] = req[log[j].conn],
         NEW k \in 1 .. Len(log) + 1, NEW u \in Uris
  PROVE  PutsBefore(k, u)' = PutsBefore(k, u) /\ FileBefore(k, u)' = FileBefore(k, u)
<1>1. DOMAIN log = 1 .. Len(log) /\ Len(log) \in Nat
  BY DEF TypeOK
<1>2. \A j \in 1 .. k - 1 : j \in DOMAIN log
  BY <1>1
<1>3. PutsBefore(k, u)' = PutsBefore(k, u)
  <2> DEFINE S == {j \in 1 .. k - 1 : /\ req[log[j].conn].uri = u
                                      /\ req[log[j].conn].method = "PUT"
                                      /\ body[log[j].conn] # NoBody}
             T == {j \in 1 .. k - 1 : /\ req'[log'[j].conn].uri = u
                                      /\ req'[log'[j].conn].method = "PUT"
                                      /\ body'[log'[j].conn] # NoBody}
  <2>1. PutsBefore(k, u) = S /\ PutsBefore(k, u)' = T
    BY DEF PutsBefore, NoBody
  <2>2. S = T
    BY <1>2
  <2> QED
    BY <2>1, <2>2
<1>4. CASE PutsBefore(k, u) = {}
  BY <1>3, <1>4 DEF FileBefore
<1>5. CASE PutsBefore(k, u) # {}
  <2>1. Max(PutsBefore(k, u)) \in DOMAIN log
    BY <1>5, MaxOfPuts, PutsAreLines
  <2>2. Max(PutsBefore(k, u)') = Max(PutsBefore(k, u))
    BY <1>3
  <2> DEFINE m == Max(PutsBefore(k, u))
  <2>3. FileBefore(k, u) = File(body[log[m].conn])
    BY <1>5 DEF FileBefore
  <2>4. FileBefore(k, u)' = File(body'[log'[m].conn])
    BY <1>3, <1>5 DEF FileBefore, File
  <2>5. body'[log'[m].conn] = body[log[m].conn]
    BY <2>1, SMTT(40)
  <2> HIDE DEF m
  <2> QED
    BY <1>3, <2>3, <2>4, <2>5
<1> QED
  BY <1>3, <1>4, <1>5

\* A worker touches a body, or a file, only while it transfers it.
LEMMA BodyOfWork ==
  ASSUME NEW w \in Workers, Work(w)
  PROVE  body' = body \/ pc[w] \in {"open", "transfer"}
BY DEF Work, Start, Pop, Refuse, Handle, LockMutex, FindLock, AddLock, Acquire, Access,
     OpenFails, OpenDirectory, OpenToRead, OpenToWrite, SendChunk, ReceiveChunk,
     TransferDone, TransferFails, Log, Reply, Unlock, Close, Goto, disk, fixed, clients

\* The lines of the log, their requests and their bodies stay as they are.
LEMMA LinesKept ==
  ASSUME ServerInv, NEW w \in Workers, Work(w)
  PROVE  /\ disk0' = disk0 /\ req' = req
         /\ \A j \in DOMAIN log : /\ log'[j] = log[j]
                                  /\ body'[log[j].conn] = body[log[j].conn]
<1>1. TypeOK /\ WorkerInv(w)
  BY DEF ServerInv
<1>2. Footprint(w) /\ OwnLine(w)
  BY <1>1, FootprintOfWork, LineOfWork
<1>3. log \in Seq([conn : Conns, code : Codes])
  BY <1>1 DEF TypeOK
<1>4. \A j \in DOMAIN log : log'[j] = log[j] /\ log[j].conn \in Conns
  <2> DEFINE line == [conn |-> fd[w], code |-> job[w].code]
  <2>1. log' = log \/ log' = Append(log, line)
    BY <1>2 DEF OwnLine
  <2> HIDE DEF line
  <2>2. \A j \in DOMAIN log : log[j].conn \in Conns
    BY <1>1, LineTyped
  <2>3. \A j \in DOMAIN log : log'[j] = log[j]
    BY <1>3, <2>1
  <2> QED
    BY <2>2, <2>3
<1>5. ASSUME NEW j \in DOMAIN log
      PROVE  body'[log[j].conn] = body[log[j].conn]
  <2>1. CASE log[j].conn # fd[w]
    BY <1>2, <1>4, <2>1 DEF Footprint
  <2>2. CASE log[j].conn = fd[w]
    <3>1. Logged(fd[w])
      BY <2>2 DEF Logged
    <3> QED
      BY <1>1, <3>1, BodyOfWork DEF WorkerInv
  <2> QED
    BY <2>1, <2>2
<1> QED
  BY <1>2, <1>4, <1>5 DEF Footprint

\* Nobody writes the file of a worker that holds its lock and does not write it.
LEMMA NotWriting ==
  ASSUME ServerInv, NEW w \in Workers, pc[w] \in Holding,
         IsGet(w) \/ pc[w] \notin {"transfer", "log"}
  PROVE  ~Writing(Uri(w))
<1> SUFFICES ASSUME NEW v \in Workers, pc[v] \in {"transfer", "log"}, ~IsGet(v),
                    Uri(v) = Uri(w)
             PROVE  FALSE
  BY DEF Writing
<1>1. v # w
  OBVIOUS
<1> QED
  BY <1>1, Excluded DEF ServerInv, Holding

\* So it finds the file that the log explains.
LEMMA HolderFinds ==
  ASSUME LogInv, NEW w \in Workers, pc[w] \in Holding,
         IsGet(w) \/ pc[w] \notin {"transfer", "log"}
  PROVE  Uri(w) \in Uris /\ files[Uri(w)] = Now(Uri(w))
<1>1. Uri(w) \in Uris
  BY ServedFile DEF LogInv, ServerInv, Holding, Serving
<1>2. ~Writing(Uri(w))
  BY NotWriting DEF LogInv
<1> QED
  BY <1>1, <1>2 DEF LogInv, LogExplainsDisk, Now
-----------------------------------------------------------------------------
(***************************************************************************)
(* The steps that do not log.                                              *)
(***************************************************************************)

\* What the log explains of a file changes only with a line.
LEMMA NowKept ==
  ASSUME TypeOK, LastExists, log' = log, disk0' = disk0,
         \A j \in DOMAIN log : /\ body'[log[j].conn] = body[log[j].conn]
                               /\ req'[log[j].conn] = req[log[j].conn],
         NEW u \in Uris
  PROVE  Now(u)' = Now(u)
<1>1. Len(log) + 1 \in 1 .. Len(log) + 1
  BY DEF TypeOK
<1>2. PICK k \in 1 .. Len(log) + 1 : k = Len(log) + 1
  BY <1>1
<1>3. FileBefore(k, u)' = FileBefore(k, u)
  BY PastKept
<1>4. Now(u)' = FileBefore(k, u)'
  BY <1>2 DEF Now, FileBefore, PutsBefore
<1>5. Now(u) = FileBefore(k, u)
  BY <1>2 DEF Now
<1> QED
  BY <1>3, <1>4, <1>5

\* A step that writes no line leaves the past of the log as it was.
LEMMA PastStays ==
  ASSUME TypeOK, LastExists, LinesServed, LogExplainsAnswers, log' = log, disk0' = disk0,
         \A j \in DOMAIN log : /\ body'[log[j].conn] = body[log[j].conn]
                               /\ req'[log[j].conn] = req[log[j].conn]
  PROVE  LastExists' /\ LinesServed' /\ LogExplainsAnswers'
<1>1. LinesServed'
  BY DEF LinesServed
<1>2. ASSUME NEW k \in 1 .. Len(log) + 1, NEW u \in Uris
      PROVE  PutsBefore(k, u)' = PutsBefore(k, u) /\ FileBefore(k, u)' = FileBefore(k, u)
  BY PastKept
<1>3. LastExists'
  <2> SUFFICES ASSUME NEW k \in 1 .. Len(log) + 1, NEW u \in Uris
               PROVE  \/ PutsBefore(k, u)' = {}
                      \/ \E m \in PutsBefore(k, u)' : \A j \in PutsBefore(k, u)' : m >= j
    BY DEF LastExists
  <2> QED
    BY <1>2 DEF LastExists
<1>4. LogExplainsAnswers'
  <2> SUFFICES ASSUME NEW k \in DOMAIN log
               PROVE  Explains(FileBefore(k, req[log[k].conn].uri), log[k])'
    BY DEF LogExplainsAnswers
  <2>1. log[k].conn \in Conns /\ req[log[k].conn].uri \in Uris
    <3>1. log[k].conn \in Conns
      BY LineTyped
    <3> QED
      BY <3>1, ServedRequests DEF LinesServed
  <2>2. PICK u \in Uris : u = req[log[k].conn].uri
    BY <2>1
  <2>3. Explains(FileBefore(k, u), log[k])
    BY <2>2 DEF LogExplainsAnswers
  <2>4. k \in 1 .. Len(log) + 1
    BY SMTT(40) DEF TypeOK
  <2>5. FileBefore(k, u)' = FileBefore(k, u)
    BY <1>2, <2>4
  <2>6. FileBefore(k, req[log[k].conn].uri)' = FileBefore(k, u)'
    BY <2>2, ZenonT(60) DEF FileBefore, PutsBefore
  <2>7. body'[log[k].conn] = body[log[k].conn] /\ req'[log[k].conn] = req[log[k].conn]
    OBVIOUS
  <2> QED
    BY <2>3, <2>5, <2>6, <2>7 DEF Explains
<1> QED
  BY <1>1, <1>3, <1>4

\* O_TRUNC and conn_recv_file are what writes files.
LEMMA FilesWritten ==
  ASSUME NEW w \in Workers, Work(w)
  PROVE  files' = files \/ OpenToWrite(w) \/ ReceiveChunk(w)
BY DEF Work, Start, Pop, Refuse, Handle, LockMutex, FindLock, AddLock, Acquire, Access,
     OpenFails, OpenDirectory, OpenToRead, SendChunk,
     TransferDone, TransferFails, Log, Reply, Unlock, Close, disk, fixed

\* A transfer goes on, or ends at the line of the log.
LEMMA TransferGoesOn ==
  ASSUME TypeOK, NEW w \in Workers, Work(w), pc[w] = "transfer"
  PROVE  pc'[w] \in {"transfer", "log"} /\ fd' = fd
<1>1. SendChunk(w) \/ ReceiveChunk(w) \/ TransferDone(w) \/ TransferFails(w)
  BY DEF Work, Start, Pop, Refuse, Handle, LockMutex, FindLock, AddLock, Acquire, Access,
     OpenFails, OpenDirectory, OpenToRead, OpenToWrite, Log, Reply, Unlock, Close, Goto
<1> QED
  BY <1>1 DEF SendChunk, ReceiveChunk, TransferDone, TransferFails, Goto, TypeOK

\* The line of the log is written where the worker is about to.
LEMMA OnlyLogLogs ==
  ASSUME NEW w \in Workers, Work(w)
  PROVE  IF pc[w] = "log" THEN Log(w) ELSE log' = log
<1>1. CASE pc[w] = "log"
  BY <1>1 DEF Work, Start, Pop, Refuse, Handle, LockMutex, FindLock, AddLock, Acquire, Access,
     OpenFails, OpenDirectory, OpenToRead, OpenToWrite, SendChunk, ReceiveChunk,
     TransferDone, TransferFails, Reply, Unlock, Close, Goto
<1>2. CASE pc[w] # "log"
  BY <1>2, LineOfWork DEF OwnLine
<1> QED
  BY <1>1, <1>2

\* What the log explains stays the disk, as far as nobody writes it.
LEMMA DiskStays ==
  ASSUME LogInv, NEW w \in Workers, Work(w), pc[w] # "log"
  PROVE  LogExplainsDisk'
<1>1. TypeOK /\ WorkerInv(w) /\ LastExists /\ LogExplainsDisk
  BY DEF LogInv, ServerInv
<1>2. Footprint(w) /\ OtherFiles(w)
  BY <1>1, FootprintOfWork, FilesOfWork
<1>3. log' = log /\ \A u \in Uris : Now(u)' = Now(u)
  BY <1>1, OnlyLogLogs, LinesKept, NowKept DEF LogInv
<1> SUFFICES ASSUME NEW u \in Uris
             PROVE  Writing(u)' \/ files'[u] = Now(u)'
  BY DEF LogExplainsDisk, Now
<1>4. Writing(u) => Writing(u)'
  <2> SUFFICES ASSUME NEW v \in Workers, fd[v] # BadFd, pc[v] \in {"transfer", "log"},
                      ~IsGet(v), Uri(v) = u
               PROVE  Writing(u)'
    BY DEF Writing
  <2>1. pc'[v] \in {"transfer", "log"} /\ fd'[v] = fd[v]
    BY <1>1, <1>2, TransferGoesOn DEF Footprint
  <2>2. ~IsGet(v)' /\ Uri(v)' = u
    BY <1>2, <2>1 DEF Footprint, IsGet, Uri
  <2> QED
    BY <2>1, <2>2 DEF Writing
<1>5. CASE files'[u] = files[u]
  BY <1>1, <1>3, <1>4, <1>5 DEF LogExplainsDisk, Now
<1>6. CASE files'[u] # files[u]
  <2>1. pc[w] \in {"open", "transfer"} /\ ~IsGet(w) /\ u = Uri(w)
    BY <1>2, <1>6 DEF OtherFiles
  <2>2. OpenToWrite(w) \/ ReceiveChunk(w)
    BY <1>6, FilesWritten
  <2>3. pc'[w] = "transfer" /\ fd'[w] = fd[w]
    BY <1>1, <2>2 DEF OpenToWrite, ReceiveChunk, Goto, TypeOK
  <2>a. fd[w] # BadFd
    BY <1>1, <2>1, BadFdAssumption DEF WorkerInv, Serving
  <2>4. ~IsGet(w)' /\ Uri(w)' = u
    BY <1>2, <2>1, <2>3 DEF Footprint, IsGet, Uri
  <2> QED
    BY <2>3, <2>a, <2>4 DEF Writing
<1> QED
  BY <1>5, <1>6
-----------------------------------------------------------------------------
(***************************************************************************)
(* The step that logs.                                                     *)
(***************************************************************************)

\* The line that is added, and what the log explains after it.
LEMMA LogEffect ==
  ASSUME ServerInv, NEW w \in Workers, Log(w)
  PROVE  /\ log' = Append(log, LineFor(w))
         /\ Len(log) \in Nat /\ Len(log') = Len(log) + 1
         /\ DOMAIN log = 1 .. Len(log) /\ DOMAIN log' = 1 .. Len(log) + 1
         /\ log'[Len(log) + 1] = LineFor(w)
         /\ \A j \in DOMAIN log : log'[j] = log[j]
         /\ UNCHANGED <<files, req, body, job, fd, disk0>>
         /\ fd[w] \in Conns /\ req[fd[w]].method \in {"GET", "PUT"} /\ Uri(w) \in Uris
<1>1. log' = Append(log, LineFor(w)) /\ UNCHANGED <<files, req, body, job, fd, disk0>>
  BY DEF Log, LineFor, disk, fixed, clients
<1>2. log \in Seq([conn : Conns, code : Codes])
  BY DEF ServerInv, TypeOK
<1>3. pc[w] = "log" /\ WorkerInv(w) /\ TypeOK
  BY DEF Log, Goto, ServerInv
<1>4. fd[w] \in Conns /\ req[fd[w]].method \in {"GET", "PUT"} /\ Uri(w) \in Uris
  BY <1>3, ServedFile DEF WorkerInv, Serving
<1> QED
  BY <1>1, <1>2, <1>4

\* The line that is written is that of a PUT, to u, that opened its file.
Stored(w, u) == u = Uri(w) /\ req[fd[w]].method = "PUT" /\ body[fd[w]] # NoBody

\* The PUTs above the end of the log, once the line is written.
LEMMA PutsAfterLog ==
  ASSUME LogInv, NEW w \in Workers, Log(w), NEW u \in Uris,
         NEW k \in 1 .. Len(log) + 2, k = Len(log) + 2
  PROVE  /\ PutsBefore(k, u)' = PutsBefore(k - 1, u)
                                 \cup (IF Stored(w, u) THEN {Len(log) + 1} ELSE {})
         /\ FileBefore(k, u)' = IF Stored(w, u) THEN File(body[fd[w]]) ELSE Now(u)
<1> DEFINE n == Len(log) + 1
<1>1. /\ TypeOK /\ LastExists /\ ServerInv
  BY DEF LogInv, ServerInv
<1>2. /\ Len(log) \in Nat /\ DOMAIN log = 1 .. Len(log)
      /\ log'[n] = LineFor(w) /\ \A j \in DOMAIN log : log'[j] = log[j]
      /\ req' = req /\ body' = body /\ disk0' = disk0
  BY <1>1, LogEffect
<1>3. n \in 1 .. Len(log) + 1 /\ k - 1 = n /\ n \in Nat
  BY <1>2
<1>4. PICK m \in 1 .. Len(log) + 1 : m = n
  BY <1>3
<1>5. /\ PutsBefore(m, u)' = PutsBefore(m, u) /\ FileBefore(m, u)' = FileBefore(m, u)
  BY <1>1, <1>2, PastKept
<1>6. log'[n].conn = fd[w]
  BY <1>2 DEF LineFor
<1>7. PutsBefore(k, u)' = PutsBefore(m, u)' \cup (IF Stored(w, u) THEN {n} ELSE {})
  <2> DEFINE Put(j) == /\ req'[log'[j].conn].uri = u
                       /\ req'[log'[j].conn].method = "PUT"
                       /\ body'[log'[j].conn] # NoBody
  <2>1. Put(n) <=> Stored(w, u)
    BY <1>2, <1>6 DEF Stored, Uri
  <2>2. PutsBefore(k, u)' = {j \in 1 .. k - 1 : Put(j)}
    BY DEF PutsBefore, NoBody
  <2>3. PutsBefore(m, u)' = {j \in 1 .. m - 1 : Put(j)}
    BY DEF PutsBefore, NoBody
  <2> HIDE DEF Put
  <2>4. 1 .. k - 1 = (1 .. m - 1) \cup {n}
    BY <1>2, <1>3, <1>4
  <2> QED
    BY <2>1, <2>2, <2>3, <2>4
<1>8. PutsBefore(k - 1, u) = PutsBefore(m, u) /\ Now(u) = FileBefore(m, u)
  BY <1>3, <1>4 DEF Now
<1>9. FileBefore(k, u)' = IF Stored(w, u) THEN File(body[fd[w]]) ELSE Now(u)
  <2>1. CASE Stored(w, u)
    <3>1. /\ PutsBefore(m, u) \subseteq Int
          /\ \A j \in PutsBefore(m, u) : j < n
      BY <1>1, <1>4, PutsAreLines
    <3>2. PutsBefore(k, u)' = PutsBefore(m, u) \cup {n}
      BY <1>5, <1>7, <2>1
    <3>3. Max(PutsBefore(m, u) \cup {n}) = n
      <4> DEFINE S == PutsBefore(m, u) \cup {n}
      <4>1. S \subseteq Int /\ n \in S /\ \A j \in S : n >= j
        BY <1>3, <3>1
      <4> HIDE DEF S
      <4>2. Max(S) = n
        BY <4>1, MaxIs
      <4> QED
        BY <4>2 DEF S
    <3>4. FileBefore(k, u)' = File(body'[log'[n].conn])
      BY <3>2, <3>3 DEF FileBefore, File
    <3> QED
      BY <1>2, <1>6, <2>1, <3>4
  <2>2. CASE ~Stored(w, u)
    <3>1. PutsBefore(k, u)' = PutsBefore(m, u)'
      BY <1>7, <2>2
    <3>2. FileBefore(k, u)' = FileBefore(m, u)'
      BY <3>1 DEF FileBefore
    <3> QED
      BY <1>5, <1>8, <2>2, <3>2
  <2> QED
    BY <2>1, <2>2
<1> QED
  BY <1>5, <1>7, <1>8, <1>9

\* A PUT that could open its file is the last word on it; any other line changes nothing.
LEMMA NowAfterLog ==
  ASSUME LogInv, NEW w \in Workers, Log(w), NEW u \in Uris
  PROVE  Now(u)' = IF Stored(w, u) THEN File(body[fd[w]]) ELSE Now(u)
<1>1. Len(log) \in Nat /\ Len(log') = Len(log) + 1
  BY LogEffect DEF LogInv
<1>2. PICK k \in 1 .. Len(log) + 2 : k = Len(log) + 2
  BY <1>1
<1>3. FileBefore(k, u)' = IF Stored(w, u) THEN File(body[fd[w]]) ELSE Now(u)
  BY <1>2, PutsAfterLog, SMTT(40)
<1>4. Now(u)' = FileBefore(k, u)'
  <2>1. Len(log') + 1 = k
    BY <1>1, <1>2
  <2>2. PutsBefore(Len(log) + 1, u)' = PutsBefore(k, u)'
    BY <2>1, Zenon DEF PutsBefore
  <2>3. FileBefore(Len(log) + 1, u)' = FileBefore(k, u)'
    BY <2>2, Zenon DEF FileBefore
  <2> QED
    BY <2>3, Zenon DEF Now
<1> QED
  BY <1>3, <1>4

\* The new line is explained by those above it, and they stay explained.
LEMMA PastAfterLog ==
  ASSUME LogInv, NEW w \in Workers, Log(w)
  PROVE  LastExists' /\ LinesServed' /\ LogExplainsAnswers'
<1> DEFINE n == Len(log) + 1
<1>1. /\ TypeOK /\ LastExists /\ ServerInv /\ LinesServed /\ LogExplainsAnswers
  BY DEF LogInv, ServerInv
<1>2. /\ Len(log) \in Nat /\ DOMAIN log = 1 .. Len(log) /\ Len(log') = n
      /\ DOMAIN log' = 1 .. n
      /\ log'[n] = LineFor(w) /\ \A j \in DOMAIN log : log'[j] = log[j]
      /\ req' = req /\ body' = body /\ disk0' = disk0
      /\ fd[w] \in Conns /\ req[fd[w]].method \in {"GET", "PUT"} /\ Uri(w) \in Uris
  BY <1>1, LogEffect
<1>3. log'[n].conn = fd[w]
  BY <1>2 DEF LineFor
<1>4. \A j \in DOMAIN log' : j \in DOMAIN log \/ j = n
  BY <1>2
<1>5. ASSUME NEW k \in 1 .. Len(log) + 1, NEW u \in Uris
      PROVE  PutsBefore(k, u)' = PutsBefore(k, u) /\ FileBefore(k, u)' = FileBefore(k, u)
  BY <1>1, <1>2, PastKept
<1>6. LinesServed'
  BY <1>1, <1>2, <1>3, <1>4 DEF LinesServed
<1>7. LastExists'
  <2> SUFFICES ASSUME NEW k \in 1 .. Len(log) + 2, NEW u \in Uris
               PROVE  \/ PutsBefore(k, u)' = {}
                      \/ \E m \in PutsBefore(k, u)' : \A j \in PutsBefore(k, u)' : m >= j
    BY <1>2 DEF LastExists
  <2>1. CASE k \in 1 .. Len(log) + 1
    BY <1>1, <1>5, <2>1 DEF LastExists
  <2>2. CASE k = Len(log) + 2
    <3>1. PutsBefore(k, u)' = PutsBefore(k - 1, u)
                              \cup (IF Stored(w, u) THEN {n} ELSE {})
      BY <2>2, PutsAfterLog
    <3>2. PICK m \in 1 .. Len(log) + 1 : m = k - 1 /\ m = n
      BY <1>2, <2>2
    <3>3. /\ PutsBefore(m, u) \subseteq Int
          /\ \A j \in PutsBefore(m, u) : j < n
      BY <1>1, <3>2, PutsAreLines
    <3>4. \/ PutsBefore(m, u) = {}
          \/ \E x \in PutsBefore(m, u) : \A j \in PutsBefore(m, u) : x >= j
      BY <1>1 DEF LastExists
    <3> QED
      BY <1>2, <3>1, <3>2, <3>3, <3>4
  <2> QED
    BY <1>2, <2>1, <2>2
<1>8. LogExplainsAnswers'
  <2> SUFFICES ASSUME NEW k \in DOMAIN log'
               PROVE  Explains(FileBefore(k, req[log[k].conn].uri), log[k])'
    BY DEF LogExplainsAnswers
  <2>1. CASE k \in DOMAIN log
    <3>1. log[k].conn \in Conns /\ req[log[k].conn].uri \in Uris
      <4>1. log[k].conn \in Conns
        BY <1>1, <2>1, LineTyped
      <4> QED
        BY <1>1, <2>1, <4>1, ServedRequests DEF LinesServed
    <3>2. PICK u \in Uris : u = req[log[k].conn].uri
      BY <3>1
    <3>3. Explains(FileBefore(k, u), log[k])
      BY <1>1, <2>1, <3>2 DEF LogExplainsAnswers
    <3>4. FileBefore(k, u)' = FileBefore(k, u)
      BY <1>2, <1>5, <2>1
    <3>5. log'[k] = log[k]
      BY <1>2, <2>1
    <3>6. FileBefore(k, req[log[k].conn].uri)' = FileBefore(k, u)'
      BY <1>2, <3>2, <3>5 DEF FileBefore, PutsBefore
    <3> QED
      BY <1>2, <3>3, <3>4, <3>5, <3>6 DEF Explains
  <2>2. CASE k = n
    <3>1. PICK u \in Uris : u = Uri(w)
      BY <1>2
    <3>2. pc[w] = "log"
      BY DEF Log, Goto
    <3>3. Explains(Now(Uri(w)), LineFor(w))
      BY <3>2 DEF LogInv, ReplyInv
    <3>4. k \in 1 .. Len(log) + 1 /\ FileBefore(k, u) = Now(Uri(w))
      BY <1>2, <2>2, <3>1 DEF Now
    <3>5. FileBefore(k, u)' = FileBefore(k, u)
      BY <1>5, <3>4
    <3>a. req'[log'[k].conn].uri = u
      BY <1>2, <1>3, <2>2, <3>1 DEF Uri
    <3>6. FileBefore(k, req[log[k].conn].uri)' = FileBefore(k, u)'
      BY <3>a DEF FileBefore, PutsBefore
    <3>7. FileBefore(k, req[log[k].conn].uri)' = Now(Uri(w))
      BY <3>4, <3>5, <3>6
    <3>8. log'[k] = LineFor(w)
      BY <1>2, <2>2
    <3> QED
      BY <1>2, <3>3, <3>7, <3>8 DEF Explains
  <2> QED
    BY <1>4, <2>1, <2>2
<1> QED
  BY <1>6, <1>7, <1>8

\* The disk is explained with the new line.
LEMMA DiskAfterLog ==
  ASSUME LogInv, NEW w \in Workers, Log(w)
  PROVE  LogExplainsDisk'
<1>1. /\ TypeOK /\ WorkerInv(w) /\ EarlyInv(w) /\ TransferInv(w) /\ ReplyInv(w)
      /\ LogExplainsDisk
  BY DEF LogInv, ServerInv
<1>2. pc[w] = "log" /\ \A v \in Workers : v # w => pc'[v] = pc[v]
  BY <1>1 DEF Log, Goto, TypeOK
<1>3. /\ files' = files /\ req' = req /\ body' = body /\ fd' = fd
      /\ fd[w] \in Conns /\ req[fd[w]].method \in {"GET", "PUT"} /\ Uri(w) \in Uris
  BY LogEffect DEF LogInv
<1> SUFFICES ASSUME NEW u \in Uris
             PROVE  Writing(u)' \/ files[u] = Now(u)'
  BY <1>3 DEF LogExplainsDisk, Now
<1>4. Now(u)' = IF Stored(w, u) THEN File(body[fd[w]]) ELSE Now(u)
  BY NowAfterLog
<1>5. CASE u = Uri(w) /\ ~IsGet(w)
  <2>1. Stored(w, u) <=> ~job[w].early
    BY <1>1, <1>2, <1>3, <1>5 DEF Stored, IsGet, EarlyInv, TransferInv
  <2>2. CASE job[w].early
    BY <1>1, <1>2, <1>4, <1>5, <2>1, <2>2 DEF ReplyInv
  <2>3. CASE ~job[w].early
    BY <1>1, <1>2, <1>4, <1>5, <2>1, <2>3 DEF TransferInv
  <2> QED
    BY <2>2, <2>3
<1>6. CASE ~(u = Uri(w) /\ ~IsGet(w))
  <2>1. ~Stored(w, u)
    BY <1>6 DEF Stored, IsGet
  <2>2. Writing(u) \/ files[u] = Now(u)
    BY <1>1 DEF LogExplainsDisk, Now
  <2>3. ASSUME Writing(u)
        PROVE  Writing(u)'
    <3>1. PICK v \in Workers : fd[v] # BadFd /\ pc[v] \in {"transfer", "log"}
                               /\ ~IsGet(v) /\ Uri(v) = u
      BY <2>3 DEF Writing
    <3>2. v # w
      BY <1>6, <3>1
    <3> QED
      BY <1>2, <1>3, <3>1, <3>2 DEF Writing, IsGet, Uri
  <2> QED
    BY <1>4, <2>1, <2>2, <2>3
<1> QED
  BY <1>5, <1>6
-----------------------------------------------------------------------------
(***************************************************************************)
(* What a worker knows.                                                    *)
(***************************************************************************)

\* Another worker's step does not touch the file of a worker that holds its lock, nor
\* what the log explains of it.
LEMMA OthersReply ==
  ASSUME LogInv, NEW w \in Workers, NEW v \in Workers, v # w, Work(w)
  PROVE  ReplyInv(v)'
<1>1. /\ TypeOK /\ OneOwner /\ ListInv /\ WorkerInv(w) /\ LockInv(w)
      /\ WorkerInv(v) /\ LockInv(v) /\ LastExists /\ ReplyInv(v)
  BY DEF LogInv, ServerInv
<1>2. Footprint(w) /\ OtherFiles(w)
  BY <1>1, FootprintOfWork, FilesOfWork
<1>3. pc'[v] = pc[v] /\ fd'[v] = fd[v] /\ job'[v] = job[v] /\ req' = req
  BY <1>2 DEF Footprint
<1>4. (IsGet(v)' <=> IsGet(v)) /\ Uri(v)' = Uri(v)
  BY <1>3 DEF IsGet, Uri
<1> SUFFICES ASSUME pc[v] \in {"open", "transfer", "log"}
             PROVE  ReplyInv(v)'
  BY <1>3 DEF ReplyInv
<1>5. fd[v] \in Conns /\ Uri(v) \in Uris /\ pc[v] \in Holding /\ fd[v] # fd[w]
  BY <1>1, ServedFile, BadFdAssumption DEF Holding, Serving, OneOwner
<1>6. body'[fd[v]] = body[fd[v]]
  BY <1>2, <1>5 DEF Footprint
<1>7. ASSUME Uri(v) = Uri(w), pc[w] \in {"open", "transfer", "log"}
      PROVE  IsGet(w)
  BY <1>1, <1>5, <1>7, Excluded DEF Holding
<1>8. files'[Uri(v)] = files[Uri(v)]
  BY <1>2, <1>5, <1>7 DEF OtherFiles
<1>9. PICK u \in Uris : u = Uri(v)
  BY <1>5
<1>10. Now(u)' = Now(u)
  <2>1. CASE pc[w] = "log"
    <3>1. Log(w) /\ (u = Uri(w) => IsGet(w))
      BY <1>7, <1>9, <2>1, OnlyLogLogs
    <3>2. ~Stored(w, u)
      BY <3>1 DEF Stored, IsGet
    <3> QED
      BY <3>1, <3>2, NowAfterLog
  <2>2. CASE pc[w] # "log"
    BY <1>1, <2>2, OnlyLogLogs, LinesKept, NowKept DEF LogInv
  <2> QED
    BY <2>1, <2>2
<1>11. Now(Uri(v))' = Now(Uri(v))
  <2>1. Now(Uri(v))' = Now(u)'
    BY <1>4, <1>9 DEF Now, FileBefore, PutsBefore
  <2> QED
    BY <1>9, <1>10, <2>1
<1> QED
  BY <1>1, <1>3, <1>4, <1>6, <1>8, <1>11 DEF ReplyInv, Explains, LineFor

\* A worker answers as the file it found under its lock tells it.
LEMMA OwnReply ==
  ASSUME LogInv, NEW w \in Workers, Work(w)
  PROVE  ReplyInv(w)'
<1>a. TypeOK /\ LastExists /\ WorkerInv(w) /\ EarlyInv(w) /\ TransferInv(w) /\ ReplyInv(w)
  BY DEF LogInv, ServerInv
<1>b. req' = req
  BY <1>a, FootprintOfWork DEF Footprint
<1> SUFFICES ASSUME pc'[w] \in {"open", "transfer", "log"}
             PROVE  ReplyInv(w)'
  BY SMTT(40) DEF ReplyInv
<1>c. /\ Acquire(w) \/ Access(w) \/ OpenFails(w) \/ OpenDirectory(w) \/ OpenToRead(w)
         \/ OpenToWrite(w) \/ SendChunk(w) \/ ReceiveChunk(w) \/ TransferDone(w)
         \/ TransferFails(w)
      /\ fd' = fd
  BY <1>a, ZenonT(60) DEF TypeOK, Work, Start, Pop, Refuse, Handle, LockMutex, FindLock, AddLock, Acquire,
     Access, OpenFails, OpenDirectory, OpenToRead, OpenToWrite, SendChunk, ReceiveChunk,
     TransferDone, TransferFails, Log, AfterLog, Reply, Unlock, Close, Goto
<1>d. (IsGet(w)' <=> IsGet(w)) /\ Uri(w)' = Uri(w) /\ fd'[w] = fd[w]
  BY <1>b, <1>c DEF IsGet, Uri
<1>e. pc[w] \in Serving /\ (pc[w] \in Holding \/ Acquire(w)) /\ pc[w] # "log"
  BY <1>c DEF Acquire, Access, OpenFails, OpenDirectory, OpenToRead, OpenToWrite, SendChunk,
     ReceiveChunk, TransferDone, TransferFails, Goto, Serving, Holding
<1>f. fd[w] \in Conns /\ Uri(w) \in Uris
  BY <1>a, <1>e, ServedFile
<1>g. Now(Uri(w))' = Now(Uri(w))
  <2>1. PICK u \in Uris : u = Uri(w)
    BY <1>f
  <2>2. Now(u)' = Now(u)
    BY <1>a, <1>e, OnlyLogLogs, LinesKept, NowKept DEF LogInv
  <2>3. Now(Uri(w))' = Now(u)'
    BY <1>d, <2>1 DEF Now, FileBefore, PutsBefore
  <2> QED
    BY <2>1, <2>2, <2>3
<1>h. pc[w] = "open" => files[Uri(w)] = Now(Uri(w))
  BY HolderFinds DEF Holding
<1>1. CASE Acquire(w)
  BY <1>1, <1>a, <1>d DEF Acquire, Goto, ReplyInv, TypeOK
<1>2. CASE Access(w)
  <2>1. pc'[w] = "open" /\ files' = files
        /\ job'[w].existed = (files[Uri(w)].kind \notin {"absent", "no_dir"})
    BY <1>2, <1>a DEF Access, Goto, TypeOK, disk
  <2> QED
    BY <1>d, <2>1 DEF ReplyInv
<1>3. CASE OpenFails(w) \/ OpenDirectory(w)
  <2>1. pc[w] = "open" /\ pc'[w] = "log" /\ files' = files /\ body' = body
    BY <1>3, <1>a DEF OpenFails, OpenDirectory, Goto, TypeOK, disk
  <2>2. job'[w].early
    BY <1>3, <1>a DEF OpenFails, OpenDirectory, TypeOK
  <2>3. /\ job'[w].code \in {500, 403, 404}
        /\ job'[w].code = 404 => files[Uri(w)].kind \in {"absent", "no_dir"}
        /\ job'[w].code = 403 => files[Uri(w)].kind \in {"dir", "forbidden", "no_dir"}
    <3>1. CASE OpenFails(w)
      BY <1>a, <3>1 DEF OpenFails, OpenError, TypeOK
    <3>2. CASE OpenDirectory(w)
      BY <1>a, <3>2 DEF OpenDirectory, TypeOK
    <3> QED
      BY <1>3, <3>1, <3>2
  <2>4. Explains(Now(Uri(w)), LineFor(w))'
    BY <1>g, <1>h, <2>1, <2>3 DEF Explains, LineFor
  <2> QED
    BY <1>d, <1>g, <1>h, <2>1, <2>2, <2>4 DEF ReplyInv
<1>4. CASE OpenToRead(w)
  BY <1>4, <1>a, <1>d DEF OpenToRead, Goto, ReplyInv, TypeOK
<1>5. CASE OpenToWrite(w)
  <2>1. pc[w] = "open" /\ pc'[w] = "transfer" /\ job' = job /\ ~IsGet(w) /\ OpenError(w) = 0
    BY <1>5, <1>a DEF OpenToWrite, Goto, TypeOK
  <2>2. files[Uri(w)].kind \in {"file", "absent"}
    BY <1>a, <1>f, <2>1 DEF OpenError, TypeOK
  <2>3. job[w].existed <=> files[Uri(w)].kind \notin {"absent", "no_dir"}
    BY <1>a, <2>1 DEF ReplyInv
  <2> QED
    BY <1>d, <1>g, <1>h, <2>1, <2>2, <2>3 DEF ReplyInv
<1>6. CASE SendChunk(w)
  <2>1. pc'[w] = "transfer" /\ IsGet(w)
    BY <1>6 DEF SendChunk
  <2> QED
    BY <1>d, <2>1 DEF ReplyInv
<1>7. CASE ReceiveChunk(w)
  <2>1. pc[w] = "transfer" /\ pc'[w] = "transfer" /\ job' = job
    BY <1>7 DEF ReceiveChunk
  <2> QED
    BY <1>a, <1>d, <1>g, <2>1 DEF ReplyInv
<1>8. CASE TransferDone(w)
  <2>1. /\ pc[w] = "transfer" /\ pc'[w] = "log" /\ files' = files /\ body' = body
        /\ Len(body[fd[w]]) = IF IsGet(w) THEN job[w].size ELSE BodySize
    BY <1>8, <1>a DEF TransferDone, Goto, TypeOK, disk
  <2>2. /\ job'[w].code = IF IsGet(w) \/ job[w].existed THEN 200 ELSE 201
        /\ job'[w].early = job[w].early /\ job'[w].existed = job[w].existed
    BY <1>8, <1>a DEF TransferDone, TypeOK
  <2>3. ~job[w].early
    BY <1>a, <2>1 DEF EarlyInv
  <2>4. ~IsGet(w) => Now(Uri(w)).kind = IF job[w].existed THEN "file" ELSE "absent"
    BY <1>a, <2>1 DEF ReplyInv
  <2>5. IsGet(w) => Now(Uri(w)).kind = "file" /\ body[fd[w]] = Now(Uri(w)).data
    <3> SUFFICES ASSUME IsGet(w)
                 PROVE  Now(Uri(w)).kind = "file" /\ body[fd[w]] = Now(Uri(w)).data
      OBVIOUS
    <3>1. files[Uri(w)] = Now(Uri(w)) /\ files[Uri(w)].kind = "file"
      BY <1>a, <2>1, HolderFinds DEF Holding, TransferInv
    <3>2. files[Uri(w)].data \in Content
      BY <1>a, <1>e, <3>1, ServedFile
    <3>3. body[fd[w]] \in Content
      BY <1>a, <1>f, <2>1 DEF TransferInv, TypeOK
    <3>4. /\ Len(body[fd[w]]) = Len(files[Uri(w)].data)
          /\ \A i \in 1 .. Len(body[fd[w]]) : body[fd[w]][i] = files[Uri(w)].data[i]
      BY <1>a, <2>1 DEF TransferInv
    <3> DEFINE b == body[fd[w]]
               d == files[Uri(w)].data
               S == Conns \cup {Old}
    <3>5. b \in Seq(S) /\ d \in Seq(S)
      BY <3>2, <3>3 DEF Content
    <3> HIDE DEF b, d, S
    <3>6. b = d
      BY <3>4, <3>5, SeqEqual DEF b, d
    <3> QED
      BY <3>1, <3>6 DEF b, d
  <2>6. Explains(Now(Uri(w)), LineFor(w))'
    BY <1>b, <1>d, <1>g, <2>1, <2>2, <2>4, <2>5 DEF Explains, LineFor, IsGet
  <2> QED
    BY <1>d, <1>g, <2>1, <2>2, <2>3, <2>4, <2>6 DEF ReplyInv
<1>9. CASE TransferFails(w)
  <2>1. pc[w] = "transfer" /\ pc'[w] = "log"
    BY <1>9, <1>a DEF TransferFails, Goto, TypeOK
  <2>2. /\ job'[w].code = 500
        /\ job'[w].early = job[w].early /\ job'[w].existed = job[w].existed
    BY <1>9, <1>a DEF TransferFails, TypeOK
  <2>3. ~job[w].early
    BY <1>a, <2>1 DEF EarlyInv
  <2>4. Explains(Now(Uri(w)), LineFor(w))'
    BY <2>2 DEF Explains, LineFor
  <2> QED
    BY <1>a, <1>d, <1>g, <2>1, <2>2, <2>3, <2>4 DEF ReplyInv
<1> QED
  BY <1>c, <1>1, <1>2, <1>3, <1>4, <1>5, <1>6, <1>7, <1>8, <1>9
-----------------------------------------------------------------------------
(***************************************************************************)
(* The dispatcher, the initial states, and the theorems.                   *)
(***************************************************************************)

\* The dispatcher touches no request that has a line or a worker.
LEMMA DispatcherKeeps ==
  ASSUME LogInv, ServerInv',
         UNCHANGED <<pc, fd, job, files, body, log, disk0>>,
         \A c \in Conns : req'[c] = req[c] \/ req[c] = NoRequest
  PROVE  LogInv'
<1>1. TypeOK /\ LastExists /\ LinesServed /\ LogExplainsAnswers /\ LogExplainsDisk
  BY DEF LogInv, ServerInv
<1>2. \A j \in DOMAIN log : req'[log[j].conn] = req[log[j].conn]
  BY <1>1, LineTyped DEF LinesServed, NoRequest
<1>3. LastExists' /\ LinesServed' /\ LogExplainsAnswers'
  BY <1>1, <1>2, PastStays
<1>4. \A u \in Uris : Now(u)' = Now(u)
  BY <1>1, <1>2, NowKept
<1>5. ASSUME NEW w \in Workers, fd[w] # BadFd
      PROVE  /\ req'[fd[w]] = req[fd[w]] /\ fd'[w] = fd[w]
             /\ Uri(w)' = Uri(w) /\ (IsGet(w)' <=> IsGet(w))
  <2>1. req'[fd[w]] = req[fd[w]]
    BY <1>1, <1>5 DEF LogInv, ServerInv, WorkerInv, TypeOK
  <2> QED
    BY <2>1 DEF Uri, IsGet
<1>6. LogExplainsDisk'
  <2> SUFFICES ASSUME NEW u \in Uris
               PROVE  Writing(u)' \/ files[u] = Now(u)'
    BY DEF LogExplainsDisk, Now
  <2>1. Writing(u) \/ files[u] = Now(u)
    BY <1>1 DEF LogExplainsDisk, Now
  <2>2. Writing(u) => Writing(u)'
    BY <1>5 DEF Writing
  <2> QED
    BY <1>4, <2>1, <2>2
<1>7. ASSUME NEW w \in Workers
      PROVE  ReplyInv(w)'
  <2> SUFFICES ASSUME pc[w] \in {"open", "transfer", "log"}
               PROVE  ReplyInv(w)'
    BY DEF ReplyInv
  <2>1. ReplyInv(w) /\ fd[w] \in Conns /\ Uri(w) \in Uris
    BY ServedFile DEF LogInv, ServerInv, Serving
  <2>2. fd[w] # BadFd
    BY <2>1, BadFdAssumption
  <2>3. PICK u \in Uris : u = Uri(w)
    BY <2>1
  <2>a. Uri(w)' = u
    BY <1>5, <2>2, <2>3
  <2>4. Now(Uri(w))' = Now(u)'
    BY <2>a DEF Now, FileBefore, PutsBefore
  <2>5. Now(Uri(w))' = Now(Uri(w))
    BY <1>4, <2>3, <2>4
  <2> QED
    BY <1>5, <2>1, <2>2, <2>5 DEF ReplyInv, Explains, LineFor
<1> QED
  BY <1>3, <1>6, <1>7 DEF LogInv

\* At the start there is no line, and the disk is the disk at start.
LEMMA LogInit ==
  ASSUME Init
  PROVE  LogInv
<1>1. ServerInv
  BY InitInv
<1>2. log = << >> /\ files = disk0 /\ \A w \in Workers : pc[w] = "start"
  BY DEF Init
<1>3. Len(log) = 0 /\ DOMAIN log = {}
  BY <1>2
<1>4. \A k \in 1 .. Len(log) + 1 : \A u \in Uris : PutsBefore(k, u) = {}
  BY <1>3 DEF PutsBefore
<1>5. LastExists /\ LinesServed /\ LogExplainsAnswers
  BY <1>3, <1>4 DEF LastExists, LinesServed, LogExplainsAnswers
<1>6. LogExplainsDisk
  BY <1>2, <1>3, <1>4 DEF LogExplainsDisk, FileBefore
<1>7. \A w \in Workers : ReplyInv(w)
  BY <1>2 DEF ReplyInv
<1> QED
  BY <1>1, <1>5, <1>6, <1>7 DEF LogInv

\* A step of a worker keeps the invariant.
LEMMA WorkKeepsLog ==
  ASSUME LogInv, NEW w \in Workers, Work(w)
  PROVE  LogInv'
<1>1. ServerInv'
  BY WorkStep DEF LogInv
<1>2. LastExists' /\ LinesServed' /\ LogExplainsAnswers' /\ LogExplainsDisk'
  <2>1. CASE pc[w] = "log"
    BY <2>1, OnlyLogLogs, PastAfterLog, DiskAfterLog
  <2>2. CASE pc[w] # "log"
    <3>1. LastExists' /\ LinesServed' /\ LogExplainsAnswers'
      BY <2>2, OnlyLogLogs, LinesKept, PastStays DEF LogInv, ServerInv
    <3> QED
      BY <2>2, <3>1, DiskStays
  <2> QED
    BY <2>1, <2>2
<1>3. \A v \in Workers : ReplyInv(v)'
  BY OwnReply, OthersReply
<1> QED
  BY <1>1, <1>2, <1>3 DEF LogInv

\* The invariant holds for any number of workers, connections, URIs and lines.
THEOREM LogCorrect == Spec => []LogInv
<1>1. Init => LogInv
  BY LogInit
<1>2. LogInv /\ [Next]_vars => LogInv'
  <2> SUFFICES ASSUME LogInv, [Next]_vars
               PROVE  LogInv'
    OBVIOUS
  <2>1. ASSUME NEW c \in Conns, NEW r \in Requests, Accept(c, r)
        PROVE  LogInv'
    <3>1. ServerInv'
      BY <2>1, AcceptStep DEF LogInv
    <3>2. \A x \in Conns : req'[x] = req[x] \/ req[x] = NoRequest
      BY <2>1 DEF Accept, LogInv, ServerInv, TypeOK
    <3>3. UNCHANGED <<pc, fd, job, files, body, log, disk0>>
      BY <2>1 DEF Accept, disk, fixed
    <3> QED
      BY <3>1, <3>2, <3>3, DispatcherKeeps
  <2>2. CASE AcceptFails
    <3>1. ServerInv'
      BY <2>2, AcceptFailsStep DEF LogInv
    <3>2. UNCHANGED <<pc, fd, job, files, body, log, disk0, req>>
      BY <2>2 DEF AcceptFails, disk, fixed, clients
    <3> QED
      BY <3>1, <3>2, DispatcherKeeps
  <2>3. CASE Push
    <3>1. ServerInv'
      BY <2>3, PushStep DEF LogInv
    <3>2. UNCHANGED <<pc, fd, job, files, body, log, disk0, req>>
      BY <2>3 DEF Push, disk, fixed, clients
    <3> QED
      BY <3>1, <3>2, DispatcherKeeps
  <2>4. ASSUME NEW w \in Workers, Work(w)
        PROVE  LogInv'
    BY <2>4, WorkKeepsLog
  <2>5. CASE UNCHANGED vars
    <3>1. ServerInv'
      BY <2>5, ServerStutters DEF LogInv
    <3>2. UNCHANGED <<pc, fd, job, files, body, log, disk0, req>>
      BY <2>5 DEF vars, disk, fixed, clients
    <3> QED
      BY <3>1, <3>2, DispatcherKeeps
  <2> QED
    BY <2>1, <2>2, <2>3, <2>4, <2>5 DEF Next
<1> QED
  BY <1>1, <1>2, PTL DEF Spec

\* Whatever requests overlap, the audit log is an order of serving them that explains
\* every answer.
THEOREM AnswersExplained == Spec => []LogExplainsAnswers
<1>1. LogInv => LogExplainsAnswers
  BY DEF LogInv
<1> QED
  BY <1>1, LogCorrect, PTL

\* A file that nobody is writing is what the last PUT in the audit log left.
THEOREM DiskExplained == Spec => []LogExplainsDisk
<1>1. LogInv => LogExplainsDisk
  BY DEF LogInv
<1> QED
  BY <1>1, LogCorrect, PTL
=============================================================================
