-------------------------- MODULE OneBufferServer --------------------------
(***************************************************************************)
(* The single-threaded HTTP server of asgn2.  main accepts a connection,   *)
(* reads it into one buffer until a blank line, parses the buffer in       *)
(* place, serves a GET or a PUT, closes the connection and clears the      *)
(* buffer.  What a client sends is a sequence of units: the request line,  *)
(* header lines, the last of them with the blank line, and the body.       *)
(***************************************************************************)
EXTENDS Integers, Sequences

CONSTANTS
  Uris,
  Kinds,      \* what may be on disk at a URI when the server starts
  Heads,      \* how many units the head of a request may have
  Lengths,    \* the numbers that the last header of a PUT may carry
  NoHeader,   \* there is no header line before the blank line
  MaxBody,    \* units in the body of a request, at most
  BufSize,    \* BUFFSIZE, in units; the library passes as much at a time
  FdLimit,    \* descriptors left to the process for connections and files
  MaxConns    \* how many connections are accepted

ASSUME HeadsAssumption == Heads \subseteq Nat \ {0, 1}
ASSUME LengthsAssumption == Lengths \subseteq Int /\ NoHeader \notin Int
ASSUME SizesAssumption ==
  MaxBody \in Nat /\ BufSize \in Nat \ {0} /\ FdLimit \in Nat \ {0, 1} /\ MaxConns \in Nat
ASSUME KindsAssumption ==
  Kinds \subseteq {"absent", "uncreatable", "dir", "file", "read-only", "write-only"}

VARIABLES
  phase,      \* where main is
  conn,       \* the number of the connection: the fd and, at "accept", the last one
  request,    \* what its client sends
  taken,      \* units of it that were received
  buff,       \* main's buffer
  readtotal,
  rinfo,      \* contentlength, leftoverbytes and messagebody; the rest is set before use
  existed,    \* put's fileExists
  left,       \* what pass_n_bytes has still to pass; below zero, the size_t has no end
  files,      \* what is on disk at each URI
  code,       \* the status of the next dprintf
  answers,    \* the statuses the client was sent
  leaked      \* descriptors that nothing refers to any more

client == <<conn, request>>
input == <<taken, buff, readtotal>>
vars == <<phase, client, input, rinfo, existed, left, files, code, answers, leaked>>

\* A unit in the buffer or in a file: the connection that sent it and its place
\* there.  Memory that was never written is <<0, 0>>, and so is what a wild pointer
\* points at; what is in a file at the start is <<0, 1>>.
Unit == Nat \X Nat
Zero == <<0, 0>>
Old == <<0, 1>>
Cleared == [i \in 1 .. BufSize |-> Zero]
Wild == -1

\* A client sends the first `sent' units of its request, and then shuts its side of
\* the connection down or waits.
Requests == UNION {
  [line : {"PUT"}, uri : Uris, length : Lengths \cup {NoHeader}, head : {h},
   sent : 0 .. h + MaxBody, closes : BOOLEAN]
  \cup [line : {"GET", "malformed", "POST", "HTTP/1.0"}, uri : Uris, length : {NoHeader},
        head : {h}, sent : 0 .. h, closes : BOOLEAN] : h \in Heads}

NoRequest == [line |-> "none", sent |-> 0]

Init ==
  /\ phase = "accept"
  /\ conn = 0
  /\ request = NoRequest
  /\ taken = 0
  /\ buff = Cleared
  /\ readtotal = 0
  /\ rinfo \in [contentlength : Lengths, leftoverbytes : {-1, 0, 1}, messagebody : {Wild}]
  /\ existed = FALSE
  /\ left = 0
  /\ files \in [Uris -> {[kind |-> k, data |-> IF k \in {"absent", "uncreatable", "dir"}
                                               THEN << >> ELSE <<Old>>] : k \in Kinds}]
  /\ code = 0
  /\ answers = << >>
  /\ leaked = 0
-----------------------------------------------------------------------------
(***************************************************************************)
(* The loop of main: accept, read, parse.                                  *)
(***************************************************************************)

Goto(from, to) == phase = from /\ phase' = to

\* The descriptors in use beside the leaked ones leave room for one more.
FdsLeft(used) == leaked + used < FdLimit

Accept(r) ==
  /\ Goto("accept", "read")
  /\ conn < MaxConns
  /\ FdsLeft(0)
  /\ conn' = conn + 1
  /\ request' = r
  /\ answers' = << >>
  /\ UNCHANGED <<input, rinfo, existed, left, files, code, leaked>>

\* listener_accept returns -1 and main returns.
AcceptFails ==
  /\ Goto("accept", "exited")
  /\ UNCHANGED <<client, input, rinfo, existed, left, files, code, answers, leaked>>

\* strstr finds the blank line at the end of the head.
BlankLineAt(b, i) == b[i] = <<conn, request.head>>
HasBlankLine(b) == \E i \in 1 .. BufSize : BlankLineAt(b, i)

\* read returns k units.
Read(k) ==
  /\ phase = "read"
  /\ k \in 1 .. request.sent - taken
  /\ readtotal + k <= BufSize
  /\ buff' = [i \in 1 .. BufSize |->
                IF i \in readtotal + 1 .. readtotal + k
                THEN <<conn, taken + i - readtotal>> ELSE buff[i]]
  /\ readtotal' = readtotal + k
  /\ taken' = taken + k
  /\ Goto("read", IF HasBlankLine(buff') \/ readtotal' = BufSize THEN "parse" ELSE "read")
  /\ UNCHANGED <<client, rinfo, existed, left, files, code, answers, leaked>>

\* read returns 0 after all the client sent, or -1 after five seconds without
\* anything: either way what has come is parsed.
ReadEnds ==
  /\ Goto("read", "parse")
  /\ UNCHANGED <<client, input, rinfo, existed, left, files, code, answers, leaked>>

\* Where main goes next to send a status.
Answer(from, status) ==
  /\ Goto(from, "answer")
  /\ code' = status

\* parse refuses a buffer without a line, and a line it cannot serve.
Refusal ==
  IF buff[1] = Zero \/ request.line = "malformed" THEN 400
  ELSE IF request.line = "POST" THEN 501
  ELSE IF request.line = "HTTP/1.0" THEN 505
  ELSE 0

ParseRefuses ==
  /\ Answer("parse", Refusal)
  /\ Refusal # 0
  /\ UNCHANGED <<client, input, rinfo, existed, left, files, answers, leaked>>

ParseGet ==
  /\ Goto("parse", "get")
  /\ Refusal = 0
  /\ request.line = "GET"
  /\ UNCHANGED <<client, input, rinfo, existed, left, files, code, answers, leaked>>

\* Mutant: the units of the head count as body, too.
LeftoverOfAll(p) == readtotal

\* What the buffer holds beyond the head.
Leftover(p) == readtotal - p

\* The regular expression finds the last header, whatever its name, at the blank
\* line; when it finds none, rinfo is what the last connection left.
ParsePut ==
  /\ Goto("parse", "put")
  /\ Refusal = 0
  /\ request.line = "PUT"
  /\ \/ /\ request.length # NoHeader
        /\ \E p \in 1 .. BufSize :
             /\ BlankLineAt(buff, p)
             /\ rinfo' = [contentlength |-> request.length,
                          leftoverbytes |-> Leftover(p), messagebody |-> p]
     \/ (request.length = NoHeader \/ ~HasBlankLine(buff)) /\ UNCHANGED rinfo
  /\ UNCHANGED <<client, input, existed, left, files, code, answers, leaked>>
-----------------------------------------------------------------------------
(***************************************************************************)
(* get and put.                                                            *)
(***************************************************************************)

file == files[request.uri]

\* The connection is open; so is the file of put's first open, if that found one.
GetStatus ==
  IF ~FdsLeft(1) THEN 500
  ELSE IF file.kind \in {"absent", "uncreatable"} THEN 404
  ELSE IF file.kind \in {"write-only", "dir"} THEN 403
  ELSE 200

Get ==
  /\ Answer("get", GetStatus)
  /\ UNCHANGED <<client, input, rinfo, existed, left, files, answers, leaked>>

\* pass_n_bytes has sent the file; or it could not read it, and a second status
\* follows the first.
SendFile ==
  /\ Goto("send", "close")
  /\ UNCHANGED <<client, input, rinfo, existed, left, files, code, answers, leaked>>

SendFails ==
  /\ Answer("send", 403)
  /\ UNCHANGED <<client, input, rinfo, existed, left, files, answers, leaked>>

\* put opens the file to see that it is there, and forgets the descriptor.
Reopened == file.kind \in {"dir", "file", "read-only"} /\ FdsLeft(1)
leakedByPut == IF Reopened THEN leaked + 1 ELSE leaked

PutStatus ==
  IF leakedByPut + 1 >= FdLimit THEN 500
  ELSE IF file.kind \in {"uncreatable", "dir", "read-only"} THEN 403
  ELSE 0

PutOpenFails ==
  /\ Answer("put", PutStatus)
  /\ PutStatus # 0
  /\ leaked' = leakedByPut
  /\ existed' = (file.kind \notin {"absent", "uncreatable"})
  /\ UNCHANGED <<client, input, rinfo, left, files, answers>>

PutOpens ==
  /\ Goto("put", "leftover")
  /\ PutStatus = 0
  /\ leaked' = leakedByPut
  /\ existed' = (file.kind # "absent")
  /\ files' = [files EXCEPT ![request.uri] =
                 [kind |-> IF @.kind = "absent" THEN "file" ELSE @.kind, data |-> << >>]]
  /\ UNCHANGED <<client, input, rinfo, left, code, answers>>

\* The memory that messagebody points at.
Message(n) ==
  [i \in 1 .. n |-> IF rinfo.messagebody = Wild THEN Zero ELSE buff[rinfo.messagebody + i]]

Stores(units) == files' = [files EXCEPT ![request.uri].data = @ \o units]

\* Mutant: the leftover is asked for again.
RemainingAll == rinfo.contentlength

\* The difference of two ints becomes a size_t.
Remaining == rinfo.contentlength - rinfo.leftoverbytes

PutLeftover ==
  /\ Goto("leftover", "pass")
  /\ rinfo.leftoverbytes >= 0
  /\ Stores(Message(rinfo.leftoverbytes))
  /\ left' = Remaining
  /\ UNCHANGED <<client, input, rinfo, existed, code, answers, leaked>>

\* The disk is full, or the pointer is wild, or the count is a wild one.
PutLeftoverFails(k) ==
  /\ Answer("leftover", 501)
  /\ k < rinfo.leftoverbytes \/ (k = 0 /\ rinfo.leftoverbytes < 0)
  /\ Stores(Message(k))
  /\ UNCHANGED <<client, input, rinfo, existed, left, answers, leaked>>

\* pass_n_bytes asks for a buffer at a time, and reads until that is full or the
\* client has closed.
Wanted == IF left < 0 \/ left > BufSize THEN BufSize ELSE left
Coming == request.sent - taken
Received(k) == [i \in 1 .. k |-> <<conn, taken + i>>]

Chunk(k) ==
  /\ 0 < k /\ k <= Coming
  /\ k = Wanted \/ (k = Coming /\ k < Wanted /\ request.closes)

PassChunk(k) ==
  /\ Goto("pass", "pass")
  /\ Chunk(k)
  /\ Stores(Received(k))
  /\ taken' = taken + k
  /\ left' = left - k
  /\ UNCHANGED <<client, buff, readtotal, rinfo, existed, code, answers, leaked>>

\* Nothing is left to read: of the request or, with the client gone, at all.
PassEnds ==
  /\ Answer("pass", IF existed THEN 200 ELSE 201)
  /\ left = 0 \/ (Coming = 0 /\ request.closes)
  /\ UNCHANGED <<client, input, rinfo, existed, left, files, answers, leaked>>

\* Mutant: a timeout is no error.
OnTimeoutRetry == Goto("pass", "pass") /\ UNCHANGED code
OnTimeout == Answer("pass", 500)

\* Five seconds without a unit: what was read of this chunk is lost.
PassTimesOut(k) ==
  /\ OnTimeout
  /\ k < Wanted
  /\ k <= Coming
  /\ taken' = taken + k
  /\ UNCHANGED <<client, buff, readtotal, rinfo, existed, left, files, answers, leaked>>

\* The disk is full: of the chunk only a part is written.
PassWriteFails(k, written) ==
  /\ Answer("pass", 500)
  /\ Chunk(k)
  /\ written < k
  /\ Stores(Received(written))
  /\ taken' = taken + k
  /\ UNCHANGED <<client, buff, readtotal, rinfo, existed, left, answers, leaked>>
-----------------------------------------------------------------------------
\* Mutant: get goes on to send the file whatever it answered.
AfterAnswerGet == IF request.line = "GET" THEN "send" ELSE "close"

\* Only a get that has opened its file has more to send.
AfterAnswer == IF code = 200 /\ request.line = "GET" THEN "send" ELSE "close"

\* dprintf sends the status.
SendAnswer ==
  /\ Goto("answer", AfterAnswer)
  /\ answers' = Append(answers, code)
  /\ UNCHANGED <<client, input, rinfo, existed, left, files, code, leaked>>

\* The client has reset the connection: SIGPIPE, which nothing ignores here, ends
\* the process.
Killed ==
  /\ phase \in {"answer", "send"}
  /\ phase' = "exited"
  /\ UNCHANGED <<client, input, rinfo, existed, left, files, code, answers, leaked>>

\* Mutants: the buffer is not cleared; the connection is not closed.
NotCleared == buff
LeakedToo == leaked + 1

ClearedBuffer == Cleared
StillLeaked == leaked

\* close and memset, at the end of the loop's body; the locals of put are gone.
Close ==
  /\ Goto("close", "accept")
  /\ buff' = ClearedBuffer
  /\ leaked' = StillLeaked
  /\ readtotal' = 0
  /\ taken' = 0
  /\ request' = NoRequest
  /\ existed' = FALSE
  /\ left' = 0
  /\ code' = 0
  /\ UNCHANGED <<conn, rinfo, files, answers>>

Serve ==
  \/ (\E k \in 1 .. BufSize : Read(k)) \/ ReadEnds
  \/ ParseRefuses \/ ParseGet \/ ParsePut
  \/ Get \/ SendFile \/ SendFails
  \/ PutOpenFails \/ PutOpens
  \/ PutLeftover \/ (\E k \in 0 .. BufSize : PutLeftoverFails(k))
  \/ (\E k \in 0 .. BufSize : PassChunk(k) \/ PassTimesOut(k))
  \/ (\E k, written \in 0 .. BufSize : PassWriteFails(k, written))
  \/ PassEnds
  \/ SendAnswer \/ Killed \/ Close

Next == (\E r \in Requests : Accept(r)) \/ AcceptFails \/ Serve

\* main runs, and a client that sends nothing is timed out.
Spec == Init /\ [][Next]_vars /\ WF_vars(Serve)
-----------------------------------------------------------------------------
(***************************************************************************)
(* Properties.                                                             *)
(***************************************************************************)

Phases == {"accept", "read", "parse", "get", "send", "put", "leftover", "pass",
           "answer", "close", "exited"}

\* Types: messagebody and leftoverbytes, also when a connection left them for the
\* next, name a part of the buffer.
TypeOK ==
  /\ phase \in Phases
  /\ conn \in 0 .. MaxConns
  /\ request \in Requests \cup {NoRequest}
  /\ taken \in 0 .. request.sent
  /\ buff \in [1 .. BufSize -> Unit]
  /\ readtotal \in 0 .. BufSize
  /\ rinfo \in [contentlength : Lengths, leftoverbytes : Int, messagebody : Int]
  /\ \/ rinfo.messagebody = Wild /\ rinfo.leftoverbytes \in {-1, 0, 1}
     \/ /\ rinfo.messagebody \in 1 .. BufSize
        /\ rinfo.leftoverbytes \in 0 .. BufSize - rinfo.messagebody
  /\ existed \in BOOLEAN
  /\ left \in Int
  /\ files \in [Uris -> [kind : Kinds \cup {"file"}, data : Seq(Unit)]]
  /\ code \in {0, 200, 201, 400, 403, 404, 500, 501, 505}
  /\ answers \in Seq(Nat) /\ Len(answers) <= 2
  /\ leaked \in Nat

\* What the PUTs of existing files leave open ends in a server that answers no
\* request with success, but there is always a descriptor left to accept with.
LeakStarves ==
  /\ leaked < FdLimit
  /\ \A i \in DOMAIN answers : answers[i] \in {200, 201} => leaked + 2 <= FdLimit

\* A request is answered once; only a GET that fails after its 200 is answered again.
AnsweredOnce ==
  phase = "close" => Len(answers) = 1 \/ (answers = <<200, 403>> /\ request.line = "GET")

\* A PUT stores nothing that another connection sent, not even when rinfo still
\* describes the buffer of the connection before.
NoForeignBytes ==
  phase = "pass" =>
    \A i \in DOMAIN file.data : file.data[i] = Zero \/ file.data[i][1] = conn

\* A PUT to be answered with success, whose head came in one buffer and ended in a
\* header with the number n, stored the first n units of its body, or all that came if
\* the client closed before; with more than n in that buffer, whatever came.  A client
\* that resets its connection before the answer takes nothing of that away.
PutStores ==
  (/\ phase \in {"answer", "close", "exited"}
   /\ code \in {200, 201}
   /\ request.line = "PUT" /\ request.length # NoHeader /\ readtotal >= request.head)
  => LET came == request.sent - request.head
         n == IF request.length < readtotal - request.head \/ came < request.length
              THEN came ELSE request.length
     IN file.data = [i \in 1 .. n |-> <<conn, request.head + i>>]

\* Every connection is closed, or ends the server: a client can keep main no longer
\* than it goes on sending, however much pass_n_bytes is told to wait for.
EveryConnectionEnds ==
  \A n \in 1 .. MaxConns : conn = n ~> (conn > n \/ phase \in {"accept", "exited"})
=============================================================================
