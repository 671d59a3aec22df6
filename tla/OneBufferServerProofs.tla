----------------------- MODULE OneBufferServerProofs -----------------------
(***************************************************************************)
(* Theorems about the single-threaded server of asgn2, for every size of   *)
(* its buffer, every limit of descriptors and every number of connections. *)
(***************************************************************************)
EXTENDS OneBufferServer, SequenceTheorems, TLAPS

USE HeadsAssumption, LengthsAssumption, SizesAssumption, KindsAssumption

-----------------------------------------------------------------------------
(***************************************************************************)
(* The inductive invariant.                                                *)
(***************************************************************************)

\* A connection is being served, or was when the process ended.
Serving == Phases \ {"accept", "exited"}

\* Between connections nothing is left of the last one but rinfo; get and put serve
\* the requests that are theirs.
RequestInv ==
  /\ phase \in Serving => request \in Requests
  /\ phase \in {"get", "send"} => request.line = "GET"
  /\ phase \in {"put", "leftover", "pass"} => request.line = "PUT"

\* The buffer holds what this connection has sent, and zeros: the memset at the end
\* of the loop.
BufferInv ==
  /\ \A i \in 1 .. BufSize : buff[i] = IF i <= readtotal THEN <<conn, i>> ELSE Zero
  /\ readtotal <= taken
  /\ phase = "accept" => taken = 0
  /\ phase \in {"accept", "read", "parse", "put", "leftover"} => taken = readtotal

\* A file is open, and its descriptor is not one of the leaked, where a status of
\* success is on its way.
DescriptorInv ==
  /\ (phase \in {"leftover", "pass"} \/ (phase = "answer" /\ code \in {200, 201}))
     => leaked + 2 <= FdLimit
  /\ LeakStarves

\* What has been sent to the client at each point.
AnswerInv ==
  /\ phase \in {"read", "parse", "get", "put", "leftover", "pass"} => answers = << >>
  /\ phase = "send" => answers = <<200>>
  /\ phase = "answer" => \/ answers = << >>
                         \/ answers = <<200>> /\ request.line = "GET" /\ code = 403
  /\ phase = "accept" => code = 0
  /\ AnsweredOnce

\* The head of a PUT was read whole, and its last header parsed.
HeaderRead ==
  request.line = "PUT" /\ request.length # NoHeader /\ readtotal >= request.head

\* The file is the first n units of the body.
Stored(n) ==
  /\ Len(file.data) = n
  /\ \A i \in 1 .. n : file.data[i] = <<conn, request.head + i>>

Came == request.sent - request.head
Expected ==
  IF request.length < readtotal - request.head \/ Came < request.length
  THEN Came ELSE request.length

\* A status of success is decided, sent, or kept from the client by its reset.
Succeeded == phase \in {"answer", "close", "exited"} /\ code \in {200, 201}

\* put keeps in step: what it has stored, what it has received, and what it still
\* asks for.
StoreInv ==
  /\ phase = "leftover" => file.data = << >>
  /\ NoForeignBytes
  /\ (phase \in {"put", "leftover", "pass"} /\ HeaderRead) =>
       rinfo = [contentlength |-> request.length,
                leftoverbytes |-> readtotal - request.head, messagebody |-> request.head]
  /\ (phase = "pass" /\ HeaderRead) =>
       /\ Stored(taken - request.head)
       /\ left = request.length - (taken - request.head)
       /\ request.length >= readtotal - request.head <=> left >= 0
  /\ (Succeeded /\ HeaderRead) => Stored(Expected)

IInv == TypeOK /\ RequestInv /\ BufferInv /\ DescriptorInv /\ AnswerInv /\ StoreInv

-----------------------------------------------------------------------------
(***************************************************************************)
(* Lemmas on the operators of the model.                                   *)
(***************************************************************************)

\* The fields of a request that are numbers, or name a file.
LEMMA RequestFields ==
  ASSUME NEW r \in Requests
  PROVE  /\ r.head \in Nat /\ r.head >= 2
         /\ r.sent \in Nat
         /\ r.uri \in Uris
         /\ r.line \in {"PUT", "GET", "malformed", "POST", "HTTP/1.0"}
         /\ r.length \in Lengths \cup {NoHeader}
  BY DEF Requests

\* No request is a request.
LEMMA NoRequestSent == NoRequest.sent = 0 /\ NoRequest.line = "none"
  BY DEF NoRequest

\* A file in which a sequence of units was appended to what it was.
LEMMA Appended ==
  ASSUME NEW s \in Seq(Unit), NEW t \in Seq(Unit)
  PROVE  /\ s \o t \in Seq(Unit)
         /\ Len(s \o t) = Len(s) + Len(t)
         /\ \A i \in 1 .. Len(s) : (s \o t)[i] = s[i]
         /\ \A i \in Len(s) + 1 .. Len(s) + Len(t) : (s \o t)[i] = t[i - Len(s)]
  BY ConcatProperties

\* A status is appended to what was sent before, nothing or a 200.
LEMMA StatusAppended ==
  ASSUME NEW c \in Nat
  PROVE  /\ Append(<< >>, c) = <<c>>
         /\ Append(<<200>>, c) = <<200, c>>
<1>1. Append(<<200>>, c) \in Seq(Nat) /\ <<200, c>> \in Seq(Nat)
  OBVIOUS
<1>2. Len(Append(<<200>>, c)) = 2 /\ Len(<<200, c>>) = 2
  OBVIOUS
<1>3. \A i \in 1 .. 2 : Append(<<200>>, c)[i] = <<200, c>>[i]
  OBVIOUS
<1>4. \A s, t \in Seq(Nat) :
        (Len(s) = 2 /\ Len(t) = 2 /\ \A i \in 1 .. 2 : s[i] = t[i]) => s = t
  BY SeqEqual
<1>5. Append(<<200>>, c) = <<200, c>>
  BY <1>1, <1>2, <1>3, <1>4, ZenonT(60)
<1> QED
  BY <1>5

\* What pass_n_bytes reads: the next k units of the connection.
LEMMA ReceivedUnits ==
  ASSUME NEW k \in Nat, conn \in Nat, taken \in Nat
  PROVE  /\ Received(k) \in Seq(Unit)
         /\ Len(Received(k)) = k
         /\ \A i \in 1 .. k : Received(k)[i] = <<conn, taken + i>>
<1>1. Received(k) \in [1 .. k -> Unit]
  BY DEF Received, Unit
<1>2. Received(k) \in Seq(Unit) /\ Len(Received(k)) = k
  BY <1>1, IsASeq, LenProperties
<1> QED  BY <1>2 DEF Received

\* What put stores of the buffer: as many units as the leftover has, the first of
\* them after the head.
LEMMA MessageUnits ==
  ASSUME TypeOK, NEW n \in Nat, n <= rinfo.leftoverbytes \/ n = 0
  PROVE  /\ Message(n) \in Seq(Unit)
         /\ Len(Message(n)) = n
         /\ \A i \in 1 .. n : Message(n)[i] = IF rinfo.messagebody = Wild THEN Zero
                                             ELSE buff[rinfo.messagebody + i]
<1> DEFINE At(i) == IF rinfo.messagebody = Wild THEN Zero ELSE buff[rinfo.messagebody + i]
<1>1. \A i \in 1 .. n : At(i) \in Unit
  <2>1. SUFFICES ASSUME NEW i \in 1 .. n PROVE At(i) \in Unit
    OBVIOUS
  <2>2. CASE rinfo.messagebody = Wild
    BY <2>2 DEF Zero, Unit
  <2>3. CASE rinfo.messagebody # Wild
    <3>1. rinfo.messagebody + i \in 1 .. BufSize
      BY <2>3 DEF TypeOK
    <3> QED
      BY <2>3, <3>1 DEF TypeOK
  <2> QED
    BY <2>2, <2>3
<1> HIDE DEF At
<1>4. Message(n) = [i \in 1 .. n |-> At(i)]
  BY DEF Message, At
<1>3. Message(n) \in [1 .. n -> Unit]
  BY <1>1, <1>4
<1>2. Message(n) \in Seq(Unit) /\ Len(Message(n)) = n
  BY <1>3, IsASeq, LenProperties
<1> QED
  BY <1>2, <1>4 DEF At

\* Units are appended to one file; the others stay as they are.
LEMMA FileAppended ==
  ASSUME TypeOK, request \in Requests, NEW t \in Seq(Unit), Stores(t)
  PROVE  /\ files' \in [Uris -> [kind : Kinds \cup {"file"}, data : Seq(Unit)]]
         /\ files'[request.uri].data = file.data \o t
         /\ file.data \in Seq(Unit)
<1>1. request.uri \in Uris
  BY RequestFields
<1>2. file \in [kind : Kinds \cup {"file"}, data : Seq(Unit)]
  BY <1>1 DEF TypeOK, file
<1>3. file.data \o t \in Seq(Unit)
  BY <1>2
<1> DEFINE f == [file EXCEPT !.data = file.data \o t]
<1>4. f \in [kind : Kinds \cup {"file"}, data : Seq(Unit)] /\ f.data = file.data \o t
  BY <1>2, <1>3
<1>5. files' = [files EXCEPT ![request.uri] = f]
  BY DEF Stores, file
<1> HIDE DEF f
<1> QED
  BY <1>1, <1>2, <1>4, <1>5, SMTT(40) DEF TypeOK

\* strstr and the regular expression look at the same place: the end of the head, if
\* it has been read.
LEMMA BlankLine ==
  ASSUME TypeOK, BufferInv, request \in Requests, NEW p \in 1 .. BufSize
  PROVE  BlankLineAt(buff, p) <=> (p = request.head /\ p <= readtotal)
<1>1. buff[p] = IF p <= readtotal THEN <<conn, p>> ELSE <<0, 0>>
  BY DEF BufferInv, Zero
<1>2. request.head # 0
  BY RequestFields
<1> QED
  BY <1>1, <1>2 DEF BlankLineAt

\* get and put serve their own requests.
LEMMA RequestStep == IInv /\ [Next]_vars => RequestInv'
<1> SUFFICES ASSUME IInv, [Next]_vars PROVE RequestInv'
  OBVIOUS
<1> USE DEF IInv, Goto, Answer, client, input
<1>1. ASSUME NEW r \in Requests, Accept(r) PROVE RequestInv'
  BY <1>1 DEF Accept, RequestInv
<1>2. ASSUME AcceptFails PROVE RequestInv'
  BY <1>2 DEF AcceptFails, RequestInv, Serving
<1>3. ASSUME NEW k \in 1 .. BufSize, Read(k) PROVE RequestInv'
  BY <1>3 DEF Read, RequestInv, Serving, Phases
<1>4. ASSUME ReadEnds PROVE RequestInv'
  BY <1>4 DEF ReadEnds, RequestInv, Serving, Phases
<1>5. ASSUME ParseRefuses PROVE RequestInv'
  BY <1>5 DEF ParseRefuses, RequestInv, Serving, Phases
<1>6. ASSUME ParseGet PROVE RequestInv'
  BY <1>6 DEF ParseGet, RequestInv, Serving, Phases
<1>7. ASSUME ParsePut PROVE RequestInv'
  BY <1>7 DEF ParsePut, RequestInv, Serving, Phases
<1>8. ASSUME Get PROVE RequestInv'
  BY <1>8 DEF Get, RequestInv, Serving, Phases
<1>9. ASSUME SendFile PROVE RequestInv'
  BY <1>9 DEF SendFile, RequestInv, Serving, Phases
<1>10. ASSUME SendFails PROVE RequestInv'
  BY <1>10 DEF SendFails, RequestInv, Serving, Phases
<1>11. ASSUME PutOpenFails PROVE RequestInv'
  BY <1>11 DEF PutOpenFails, RequestInv, Serving, Phases
<1>12. ASSUME PutOpens PROVE RequestInv'
  BY <1>12 DEF PutOpens, RequestInv, Serving, Phases
<1>13. ASSUME PutLeftover PROVE RequestInv'
  BY <1>13 DEF PutLeftover, RequestInv, Serving, Phases
<1>14. ASSUME NEW k \in 0 .. BufSize, PutLeftoverFails(k) PROVE RequestInv'
  BY <1>14 DEF PutLeftoverFails, RequestInv, Serving, Phases
<1>15. ASSUME NEW k \in 0 .. BufSize, PassChunk(k) PROVE RequestInv'
  BY <1>15 DEF PassChunk, RequestInv
<1>16. ASSUME NEW k \in 0 .. BufSize, PassTimesOut(k) PROVE RequestInv'
  BY <1>16 DEF PassTimesOut, OnTimeout, RequestInv, Serving, Phases
<1>17. ASSUME NEW k \in 0 .. BufSize, NEW written \in 0 .. BufSize, PassWriteFails(k, written) PROVE RequestInv'
  BY <1>17 DEF PassWriteFails, RequestInv, Serving, Phases
<1>18. ASSUME PassEnds PROVE RequestInv'
  BY <1>18 DEF PassEnds, RequestInv, Serving, Phases
<1>19. ASSUME SendAnswer PROVE RequestInv'
  BY <1>19 DEF SendAnswer, RequestInv, Serving, Phases, AfterAnswer
<1>20. ASSUME Killed PROVE RequestInv'
  BY <1>20 DEF Killed, RequestInv, Serving
<1>21. ASSUME Close PROVE RequestInv'
  BY <1>21 DEF Close, RequestInv, Serving
<1>22. CASE UNCHANGED vars
  BY <1>22 DEF vars, RequestInv
<1> QED
  BY <1>1, <1>2, <1>3, <1>4, <1>5, <1>6, <1>7, <1>8, <1>9, <1>10, <1>11,
     <1>12, <1>13, <1>14, <1>15, <1>16, <1>17, <1>18, <1>19, <1>20, <1>21, <1>22
  DEF Next, Serve

\* The answers a request has had.
LEMMA AnswerStep == IInv /\ [Next]_vars => AnswerInv'
<1> SUFFICES ASSUME IInv, [Next]_vars PROVE AnswerInv'
  OBVIOUS
<1> USE DEF IInv, Goto, Answer, client, input
<1>1. ASSUME NEW r \in Requests, Accept(r) PROVE AnswerInv'
  BY <1>1 DEF Accept, AnswerInv, AnsweredOnce
<1>2. ASSUME AcceptFails PROVE AnswerInv'
  BY <1>2 DEF AcceptFails, AnswerInv, AnsweredOnce
<1>3. ASSUME NEW k \in 1 .. BufSize, Read(k) PROVE AnswerInv'
  BY <1>3 DEF Read, AnswerInv, AnsweredOnce
<1>4. ASSUME ReadEnds PROVE AnswerInv'
  BY <1>4 DEF ReadEnds, AnswerInv, AnsweredOnce
<1>5. ASSUME ParseRefuses PROVE AnswerInv'
  BY <1>5 DEF ParseRefuses, AnswerInv, AnsweredOnce
<1>6. ASSUME ParseGet PROVE AnswerInv'
  BY <1>6 DEF ParseGet, AnswerInv, AnsweredOnce
<1>7. ASSUME ParsePut PROVE AnswerInv'
  BY <1>7 DEF ParsePut, AnswerInv, AnsweredOnce
<1>8. ASSUME Get PROVE AnswerInv'
  BY <1>8 DEF Get, AnswerInv, AnsweredOnce
<1>9. ASSUME SendFile PROVE AnswerInv'
  BY <1>9 DEF SendFile, AnswerInv, AnsweredOnce
<1>10. ASSUME SendFails PROVE AnswerInv'
  BY <1>10 DEF SendFails, AnswerInv, AnsweredOnce, RequestInv
<1>11. ASSUME PutOpenFails PROVE AnswerInv'
  BY <1>11 DEF PutOpenFails, AnswerInv, AnsweredOnce
<1>12. ASSUME PutOpens PROVE AnswerInv'
  BY <1>12 DEF PutOpens, AnswerInv, AnsweredOnce
<1>13. ASSUME PutLeftover PROVE AnswerInv'
  BY <1>13 DEF PutLeftover, AnswerInv, AnsweredOnce
<1>14. ASSUME NEW k \in 0 .. BufSize, PutLeftoverFails(k) PROVE AnswerInv'
  BY <1>14 DEF PutLeftoverFails, AnswerInv, AnsweredOnce
<1>15. ASSUME NEW k \in 0 .. BufSize, PassChunk(k) PROVE AnswerInv'
  BY <1>15 DEF PassChunk, AnswerInv, AnsweredOnce
<1>16. ASSUME NEW k \in 0 .. BufSize, PassTimesOut(k) PROVE AnswerInv'
  BY <1>16 DEF PassTimesOut, OnTimeout, AnswerInv, AnsweredOnce
<1>17. ASSUME NEW k \in 0 .. BufSize, NEW written \in 0 .. BufSize, PassWriteFails(k, written) PROVE AnswerInv'
  BY <1>17 DEF PassWriteFails, AnswerInv, AnsweredOnce
<1>18. ASSUME PassEnds PROVE AnswerInv'
  BY <1>18 DEF PassEnds, AnswerInv, AnsweredOnce
<1>19. ASSUME SendAnswer PROVE AnswerInv'
  <2>1. phase = "answer" /\ answers' = Append(answers, code)
    BY <1>19 DEF SendAnswer
  <2>2. CASE answers = << >>
    <3>1. answers' = <<code>> /\ Len(answers') = 1
      BY <2>1, <2>2
    <3>2. code = 200 /\ request.line = "GET" => phase' = "send"
      BY <1>19 DEF SendAnswer, AfterAnswer
    <3>3. ~(code = 200 /\ request.line = "GET") => phase' = "close"
      BY <1>19 DEF SendAnswer, AfterAnswer
    <3> QED
      BY <3>1, <3>2, <3>3 DEF AnswerInv, AnsweredOnce
  <2>3. CASE answers = <<200>> /\ request.line = "GET" /\ code = 403
    <3>1. answers' = <<200, 403>>
      BY <2>1, <2>3, StatusAppended
    <3>2. phase' = "close" /\ UNCHANGED request
      BY <1>19, <2>3 DEF SendAnswer, AfterAnswer
    <3> QED
      BY <3>1, <3>2, <2>3 DEF AnswerInv, AnsweredOnce
  <2> QED
    BY <2>1, <2>2, <2>3 DEF AnswerInv
<1>20. ASSUME Killed PROVE AnswerInv'
  BY <1>20 DEF Killed, AnswerInv, AnsweredOnce
<1>21. ASSUME Close PROVE AnswerInv'
  BY <1>21 DEF Close, AnswerInv, AnsweredOnce
<1>22. CASE UNCHANGED vars
  BY <1>22 DEF vars, AnswerInv, AnsweredOnce
<1> QED
  BY <1>1, <1>2, <1>3, <1>4, <1>5, <1>6, <1>7, <1>8, <1>9, <1>10, <1>11,
     <1>12, <1>13, <1>14, <1>15, <1>16, <1>17, <1>18, <1>19, <1>20, <1>21, <1>22
  DEF Next, Serve

\* The leak never takes the descriptor of the connection, nor of an open file.
LEMMA DescriptorStep == IInv /\ [Next]_vars => DescriptorInv'
<1> SUFFICES ASSUME IInv, [Next]_vars PROVE DescriptorInv'
  OBVIOUS
<1> USE DEF IInv, Goto, Answer, client, input
<1>1. ASSUME NEW r \in Requests, Accept(r) PROVE DescriptorInv'
  BY <1>1 DEF Accept, DescriptorInv, LeakStarves
<1>2. ASSUME AcceptFails PROVE DescriptorInv'
  BY <1>2 DEF AcceptFails, DescriptorInv, LeakStarves
<1>3. ASSUME NEW k \in 1 .. BufSize, Read(k) PROVE DescriptorInv'
  BY <1>3 DEF Read, DescriptorInv, LeakStarves
<1>4. ASSUME ReadEnds PROVE DescriptorInv'
  BY <1>4 DEF ReadEnds, DescriptorInv, LeakStarves
<1>5. ASSUME ParseRefuses PROVE DescriptorInv'
  BY <1>5 DEF ParseRefuses, DescriptorInv, LeakStarves, Refusal
<1>6. ASSUME ParseGet PROVE DescriptorInv'
  BY <1>6 DEF ParseGet, DescriptorInv, LeakStarves
<1>7. ASSUME ParsePut PROVE DescriptorInv'
  BY <1>7 DEF ParsePut, DescriptorInv, LeakStarves
<1>8. ASSUME Get PROVE DescriptorInv'
  BY <1>8
  DEF Get, DescriptorInv, LeakStarves, FdsLeft, GetStatus, PutStatus, leakedByPut,
      Reopened, Refusal, AfterAnswer, ClearedBuffer, StillLeaked, TypeOK
<1>9. ASSUME SendFile PROVE DescriptorInv'
  BY <1>9 DEF SendFile, DescriptorInv, LeakStarves
<1>10. ASSUME SendFails PROVE DescriptorInv'
  BY <1>10 DEF SendFails, DescriptorInv, LeakStarves
<1>11. ASSUME PutOpenFails PROVE DescriptorInv'
  BY <1>11
  DEF PutOpenFails, DescriptorInv, LeakStarves, AnswerInv, FdsLeft, PutStatus,
      leakedByPut, Reopened
<1>12. ASSUME PutOpens PROVE DescriptorInv'
  BY <1>12 DEF PutOpens, DescriptorInv, LeakStarves, PutStatus, leakedByPut
<1>13. ASSUME PutLeftover PROVE DescriptorInv'
  BY <1>13 DEF PutLeftover, DescriptorInv, LeakStarves
<1>14. ASSUME NEW k \in 0 .. BufSize, PutLeftoverFails(k) PROVE DescriptorInv'
  BY <1>14 DEF PutLeftoverFails, DescriptorInv, LeakStarves
<1>15. ASSUME NEW k \in 0 .. BufSize, PassChunk(k) PROVE DescriptorInv'
  BY <1>15 DEF PassChunk, DescriptorInv, LeakStarves
<1>16. ASSUME NEW k \in 0 .. BufSize, PassTimesOut(k) PROVE DescriptorInv'
  BY <1>16 DEF PassTimesOut, OnTimeout, DescriptorInv, LeakStarves
<1>17. ASSUME NEW k \in 0 .. BufSize, NEW written \in 0 .. BufSize, PassWriteFails(k, written) PROVE DescriptorInv'
  BY <1>17 DEF PassWriteFails, DescriptorInv, LeakStarves
<1>18. ASSUME PassEnds PROVE DescriptorInv'
  BY <1>18 DEF PassEnds, DescriptorInv, LeakStarves
<1>19. ASSUME SendAnswer PROVE DescriptorInv'
  <2>1. phase = "answer" /\ phase' \in {"send", "close"}
    BY <1>19 DEF SendAnswer, AfterAnswer
  <2>2. code \in Nat /\ answers' = Append(answers, code)
    BY <1>19 DEF SendAnswer, TypeOK
  <2>3. (code \in {200, 201} => leaked + 2 <= FdLimit) /\ leaked < FdLimit /\ UNCHANGED leaked
    BY <1>19, <2>1 DEF SendAnswer, DescriptorInv, LeakStarves
  <2>4. answers = << >> \/ answers = <<200>>
    BY <2>1 DEF AnswerInv
  <2>5. CASE answers = << >>
    <3>1. answers' = <<code>>
      BY <2>2, <2>5, StatusAppended
    <3> QED
      BY <2>1, <2>3, <3>1 DEF DescriptorInv, LeakStarves
  <2>6. CASE answers = <<200>>
    <3>1. answers' = <<200, code>>
      BY <2>2, <2>6, StatusAppended
    <3>2. leaked + 2 <= FdLimit
      BY <2>6 DEF DescriptorInv, LeakStarves
    <3> QED
      BY <2>1, <2>3, <3>1, <3>2 DEF DescriptorInv, LeakStarves
  <2> QED
    BY <2>4, <2>5, <2>6
<1>20. ASSUME Killed PROVE DescriptorInv'
  BY <1>20 DEF Killed, DescriptorInv, LeakStarves
<1>21. ASSUME Close PROVE DescriptorInv'
  BY <1>21 DEF Close, DescriptorInv, LeakStarves, StillLeaked
<1>22. CASE UNCHANGED vars
  BY <1>22 DEF vars, DescriptorInv, LeakStarves
<1> QED
  BY <1>1, <1>2, <1>3, <1>4, <1>5, <1>6, <1>7, <1>8, <1>9, <1>10, <1>11,
     <1>12, <1>13, <1>14, <1>15, <1>16, <1>17, <1>18, <1>19, <1>20, <1>21, <1>22
  DEF Next, Serve

\* The buffer between two memsets.
LEMMA BufferStep == IInv /\ [Next]_vars => BufferInv'
<1> SUFFICES ASSUME IInv, [Next]_vars PROVE BufferInv'
  OBVIOUS
<1> USE DEF IInv, Goto, Answer, client, input
<1>1. ASSUME NEW r \in Requests, Accept(r) PROVE BufferInv'
  BY <1>1 DEF Accept, BufferInv, TypeOK
<1>2. ASSUME AcceptFails PROVE BufferInv'
  BY <1>2 DEF AcceptFails, BufferInv
<1>3. ASSUME NEW k \in 1 .. BufSize, Read(k) PROVE BufferInv'
  <2>1. taken = readtotal /\ readtotal \in 0 .. BufSize /\ k \in Nat
    BY <1>3 DEF Read, BufferInv, TypeOK
  <2>2. /\ phase' \in {"read", "parse"}
        /\ readtotal' = readtotal + k /\ taken' = taken + k
        /\ UNCHANGED conn
    BY <1>3 DEF Read
  <2>3. ASSUME NEW i \in 1 .. BufSize
        PROVE  buff'[i] = IF i <= readtotal + k THEN <<conn, i>> ELSE Zero
    <3>1. buff'[i] = IF i \in readtotal + 1 .. readtotal + k
                     THEN <<conn, taken + i - readtotal>> ELSE buff[i]
      BY <1>3 DEF Read
    <3>2. buff[i] = IF i <= readtotal THEN <<conn, i>> ELSE Zero
      BY DEF BufferInv
    <3>3. taken + i - readtotal = i
      BY <2>1
    <3> QED
      BY <2>1, <3>1, <3>2, <3>3
  <2> QED
    BY <2>1, <2>2, <2>3 DEF BufferInv
<1>4. ASSUME ReadEnds PROVE BufferInv'
  BY <1>4 DEF ReadEnds, BufferInv
<1>5. ASSUME ParseRefuses PROVE BufferInv'
  BY <1>5 DEF ParseRefuses, BufferInv
<1>6. ASSUME ParseGet PROVE BufferInv'
  BY <1>6 DEF ParseGet, BufferInv
<1>7. ASSUME ParsePut PROVE BufferInv'
  BY <1>7 DEF ParsePut, BufferInv
<1>8. ASSUME Get PROVE BufferInv'
  BY <1>8 DEF Get, BufferInv
<1>9. ASSUME SendFile PROVE BufferInv'
  BY <1>9 DEF SendFile, BufferInv
<1>10. ASSUME SendFails PROVE BufferInv'
  BY <1>10 DEF SendFails, BufferInv
<1>11. ASSUME PutOpenFails PROVE BufferInv'
  BY <1>11 DEF PutOpenFails, BufferInv
<1>12. ASSUME PutOpens PROVE BufferInv'
  BY <1>12 DEF PutOpens, BufferInv
<1>13. ASSUME PutLeftover PROVE BufferInv'
  BY <1>13 DEF PutLeftover, BufferInv
<1>14. ASSUME NEW k \in 0 .. BufSize, PutLeftoverFails(k) PROVE BufferInv'
  BY <1>14 DEF PutLeftoverFails, BufferInv
<1>15. ASSUME NEW k \in 0 .. BufSize, PassChunk(k) PROVE BufferInv'
  BY <1>15 DEF PassChunk, BufferInv, TypeOK
<1>16. ASSUME NEW k \in 0 .. BufSize, PassTimesOut(k) PROVE BufferInv'
  BY <1>16 DEF PassTimesOut, OnTimeout, BufferInv, Chunk, TypeOK, AfterAnswer
<1>17. ASSUME NEW k \in 0 .. BufSize, NEW written \in 0 .. BufSize, PassWriteFails(k, written) PROVE BufferInv'
  BY <1>17 DEF PassWriteFails, BufferInv, TypeOK
<1>18. ASSUME PassEnds PROVE BufferInv'
  BY <1>18 DEF PassEnds, BufferInv
<1>19. ASSUME SendAnswer PROVE BufferInv'
  BY <1>19 DEF SendAnswer, BufferInv, AfterAnswer
<1>20. ASSUME Killed PROVE BufferInv'
  BY <1>20 DEF Killed, BufferInv
<1>21. ASSUME Close PROVE BufferInv'
  BY <1>21 DEF Close, BufferInv, Cleared, ClearedBuffer
<1>22. CASE UNCHANGED vars
  BY <1>22 DEF vars, BufferInv
<1> QED
  BY <1>1, <1>2, <1>3, <1>4, <1>5, <1>6, <1>7, <1>8, <1>9, <1>10, <1>11,
     <1>12, <1>13, <1>14, <1>15, <1>16, <1>17, <1>18, <1>19, <1>20, <1>21, <1>22
  DEF Next, Serve

\* Types are preserved.
LEMMA TypeStep == IInv /\ [Next]_vars => TypeOK'
<1> SUFFICES ASSUME IInv, [Next]_vars PROVE TypeOK'
  OBVIOUS
<1> USE DEF IInv, Goto, Answer, client, input
<1>1. ASSUME NEW r \in Requests, Accept(r) PROVE TypeOK'
  BY <1>1, RequestFields DEF Accept, TypeOK, Phases, BufferInv
<1>2. ASSUME AcceptFails PROVE TypeOK'
  BY <1>2 DEF AcceptFails, TypeOK, Phases, Refusal, GetStatus, PutStatus, leakedByPut
<1>3. ASSUME NEW k \in 1 .. BufSize, Read(k) PROVE TypeOK'
  <2>1. phase' \in {"read", "parse"} /\ request \in Requests
    BY <1>3 DEF Read, RequestInv, Serving, Phases
  <2>2. request.sent \in Nat
    BY <2>1, RequestFields
  <2>3. \A i \in 1 .. BufSize : buff'[i] \in Unit
    <3> SUFFICES ASSUME NEW i \in 1 .. BufSize PROVE buff'[i] \in Unit
      OBVIOUS
    <3>1. buff'[i] = IF i \in readtotal + 1 .. readtotal + k
                     THEN <<conn, taken + i - readtotal>> ELSE buff[i]
      BY <1>3 DEF Read
    <3>2. buff[i] \in Unit /\ conn \in Nat
      BY DEF TypeOK
    <3>3. taken + i - readtotal \in Nat
      BY <1>3 DEF Read, BufferInv, TypeOK
    <3> QED
      BY <3>1, <3>2, <3>3 DEF Unit
  <2>4. buff' \in [1 .. BufSize -> Unit]
    BY <1>3, <2>3 DEF Read
  <2> QED
    BY <1>3, <2>1, <2>2, <2>4, SMTT(40) DEF Read, TypeOK, Phases
<1>4. ASSUME ReadEnds PROVE TypeOK'
  BY <1>4 DEF ReadEnds, TypeOK, Phases, Refusal, GetStatus, PutStatus, leakedByPut
<1>5. ASSUME ParseRefuses PROVE TypeOK'
  BY <1>5 DEF ParseRefuses, TypeOK, Phases, Refusal, GetStatus, PutStatus, leakedByPut
<1>6. ASSUME ParseGet PROVE TypeOK'
  BY <1>6 DEF ParseGet, TypeOK, Phases, GetStatus, PutStatus, leakedByPut
<1>7. ASSUME ParsePut PROVE TypeOK'
  <2>1. request \in Requests /\ taken = readtotal
    BY <1>7 DEF ParsePut, RequestInv, Serving, Phases, BufferInv
  <2>2. CASE UNCHANGED rinfo
    BY <1>7, <2>2 DEF ParsePut, TypeOK, Phases
  <2>3. CASE request.length # NoHeader /\ \E p \in 1 .. BufSize :
               /\ BlankLineAt(buff, p)
               /\ rinfo' = [contentlength |-> request.length,
                            leftoverbytes |-> Leftover(p), messagebody |-> p]
    <3>1. request.length \in Lengths
      BY <1>7, <2>1, <2>3, RequestFields
    <3>2. PICK p \in 1 .. BufSize :
            /\ BlankLineAt(buff, p)
            /\ rinfo' = [contentlength |-> request.length,
                         leftoverbytes |-> Leftover(p), messagebody |-> p]
      BY <2>3
    <3>3. p <= readtotal
      BY <3>2, <2>1, BlankLine
    <3>4. Leftover(p) \in 0 .. BufSize - p
      BY <3>3 DEF Leftover, TypeOK
    <3> QED
      BY <1>7, <3>1, <3>2, <3>4 DEF ParsePut, TypeOK, Phases
  <2> QED
    BY <1>7, <2>2, <2>3 DEF ParsePut
<1>8. ASSUME Get PROVE TypeOK'
  BY <1>8 DEF Get, TypeOK, Phases, Refusal, GetStatus, PutStatus, leakedByPut
<1>9. ASSUME SendFile PROVE TypeOK'
  BY <1>9 DEF SendFile, TypeOK, Phases, Refusal, GetStatus, PutStatus, leakedByPut
<1>10. ASSUME SendFails PROVE TypeOK'
  BY <1>10 DEF SendFails, TypeOK, Phases, Refusal, GetStatus, PutStatus, leakedByPut
<1>11. ASSUME PutOpenFails PROVE TypeOK'
  BY <1>11
  DEF PutOpenFails, TypeOK, Phases, Refusal, GetStatus, PutStatus, leakedByPut
<1>12. ASSUME PutOpens PROVE TypeOK'
  <2>1. request.uri \in Uris /\ UNCHANGED request
    BY <1>12, RequestFields DEF PutOpens, RequestInv, Serving, Phases
  <2>2. files' \in [Uris -> [kind : Kinds \cup {"file"}, data : Seq(Unit)]]
    BY <1>12, <2>1 DEF PutOpens, TypeOK
  <2> QED
    BY <1>12, <2>2 DEF PutOpens, TypeOK, Phases, leakedByPut
<1>13. ASSUME PutLeftover PROVE TypeOK'
  <2>1. request \in Requests /\ UNCHANGED request
    BY <1>13 DEF PutLeftover, RequestInv, Serving, Phases
  <2>2. Message(rinfo.leftoverbytes) \in Seq(Unit)
    BY <1>13, MessageUnits DEF PutLeftover, TypeOK, Chunk
  <2>3. files' \in [Uris -> [kind : Kinds \cup {"file"}, data : Seq(Unit)]]
    BY <1>13, <2>1, <2>2, FileAppended DEF PutLeftover
  <2>4. request.sent \in Nat
    BY <2>1, RequestFields
  <2> QED
    BY <1>13, <2>1, <2>3, <2>4, SMTT(40)
    DEF PutLeftover, TypeOK, Phases, Chunk, Coming, Remaining
<1>14. ASSUME NEW k \in 0 .. BufSize, PutLeftoverFails(k) PROVE TypeOK'
  <2>1. request \in Requests /\ UNCHANGED request
    BY <1>14 DEF PutLeftoverFails, RequestInv, Serving, Phases
  <2>2. Message(k) \in Seq(Unit)
    BY <1>14, MessageUnits, SMTT(40) DEF PutLeftoverFails, TypeOK, Chunk
  <2>3. files' \in [Uris -> [kind : Kinds \cup {"file"}, data : Seq(Unit)]]
    BY <1>14, <2>1, <2>2, FileAppended DEF PutLeftoverFails
  <2>4. request.sent \in Nat
    BY <2>1, RequestFields
  <2> QED
    BY <1>14, <2>1, <2>3, <2>4, SMTT(40)
    DEF PutLeftoverFails, TypeOK, Phases, Chunk, Coming, Remaining
<1>15. ASSUME NEW k \in 0 .. BufSize, PassChunk(k) PROVE TypeOK'
  <2>1. request \in Requests /\ UNCHANGED request
    BY <1>15 DEF PassChunk, RequestInv, Serving, Phases
  <2>2. Received(k) \in Seq(Unit)
    BY <1>15, ReceivedUnits DEF PassChunk, TypeOK, Chunk
  <2>3. files' \in [Uris -> [kind : Kinds \cup {"file"}, data : Seq(Unit)]]
    BY <1>15, <2>1, <2>2, FileAppended DEF PassChunk
  <2>4. request.sent \in Nat
    BY <2>1, RequestFields
  <2> QED
    BY <1>15, <2>1, <2>3, <2>4, SMTT(40) DEF PassChunk, TypeOK, Chunk, Coming, Remaining
<1>16. ASSUME NEW k \in 0 .. BufSize, PassTimesOut(k) PROVE TypeOK'
  <2>1. request \in Requests
    BY <1>16 DEF PassTimesOut, OnTimeout, RequestInv, Serving, Phases
  <2>2. request.sent \in Nat
    BY <2>1, RequestFields
  <2> QED
    BY <1>16, <2>2, SMTT(40) DEF PassTimesOut, OnTimeout, TypeOK, Phases, Coming
<1>17. ASSUME NEW k \in 0 .. BufSize, NEW written \in 0 .. BufSize, PassWriteFails(k, written) PROVE TypeOK'
  <2>1. request \in Requests /\ UNCHANGED request
    BY <1>17 DEF PassWriteFails, RequestInv, Serving, Phases
  <2>2. Received(written) \in Seq(Unit)
    BY <1>17, ReceivedUnits DEF PassWriteFails, TypeOK, Chunk
  <2>3. files' \in [Uris -> [kind : Kinds \cup {"file"}, data : Seq(Unit)]]
    BY <1>17, <2>1, <2>2, FileAppended DEF PassWriteFails
  <2>4. request.sent \in Nat
    BY <2>1, RequestFields
  <2> QED
    BY <1>17, <2>1, <2>3, <2>4, SMTT(40)
    DEF PassWriteFails, TypeOK, Phases, Chunk, Coming, Remaining
<1>18. ASSUME PassEnds PROVE TypeOK'
  BY <1>18, SMTT(40) DEF PassEnds, TypeOK, Phases, Refusal, GetStatus, PutStatus, leakedByPut
<1>19. ASSUME SendAnswer PROVE TypeOK'
  <2>1. answers = << >> \/ answers = <<200>>
    BY <1>19 DEF SendAnswer, AnswerInv
  <2>2. code \in Nat /\ answers' = Append(answers, code)
    BY <1>19 DEF SendAnswer, TypeOK
  <2>3. answers' \in Seq(Nat) /\ Len(answers') <= 2
    <3>1. answers' = <<code>> \/ answers' = <<200, code>>
      BY <2>1, <2>2, StatusAppended, ZenonT(60)
    <3>2. CASE answers' = <<code>>
      BY <2>2, <3>2
    <3>3. CASE answers' = <<200, code>>
      BY <2>2, <3>3
    <3> QED
      BY <3>1, <3>2, <3>3
  <2>4. phase' \in {"send", "close"}
    BY <1>19 DEF SendAnswer, AfterAnswer
  <2> QED
    BY <1>19, <2>3, <2>4 DEF SendAnswer, TypeOK, Phases
<1>20. ASSUME Killed PROVE TypeOK'
  BY <1>20 DEF Killed, TypeOK, Phases, Refusal, GetStatus, PutStatus, leakedByPut
<1>21. ASSUME Close PROVE TypeOK'
  <2>1. buff' \in [1 .. BufSize -> Unit]
    BY <1>21 DEF Close, ClearedBuffer, Cleared, Zero, Unit
  <2>2. taken' \in 0 .. request'.sent /\ request' \in Requests \cup {NoRequest}
    BY <1>21, NoRequestSent DEF Close
  <2>3. /\ phase' = "accept" /\ readtotal' = 0 /\ left' = 0 /\ code' = 0
        /\ UNCHANGED <<conn, rinfo, files, answers, leaked>>
    BY <1>21 DEF Close, StillLeaked
  <2>5. existed' \in BOOLEAN
    BY <1>21 DEF Close
  <2>4. readtotal' \in 0 .. BufSize
    BY <2>3
  <2> QED
    BY <2>1, <2>2, <2>3, <2>4, <2>5 DEF TypeOK, Phases
<1>22. CASE UNCHANGED vars
  BY <1>22 DEF vars, TypeOK
<1> QED
  BY <1>1, <1>2, <1>3, <1>4, <1>5, <1>6, <1>7, <1>8, <1>9, <1>10, <1>11,
     <1>12, <1>13, <1>14, <1>15, <1>16, <1>17, <1>18, <1>19, <1>20, <1>21, <1>22
  DEF Next, Serve

\* What put stores.
LEMMA StoreStep == IInv /\ [Next]_vars => StoreInv'
<1> SUFFICES ASSUME IInv, [Next]_vars PROVE StoreInv'
  OBVIOUS
<1> USE DEF IInv, Goto, Answer, client, input
<1>1. ASSUME NEW r \in Requests, Accept(r) PROVE StoreInv'
  BY <1>1 DEF Accept, StoreInv, NoForeignBytes, Succeeded
<1>2. ASSUME AcceptFails PROVE StoreInv'
  BY <1>2 DEF AcceptFails, AnswerInv, StoreInv, NoForeignBytes, Succeeded
<1>3. ASSUME NEW k \in 1 .. BufSize, Read(k) PROVE StoreInv'
  BY <1>3 DEF Read, StoreInv, NoForeignBytes, Succeeded
<1>4. ASSUME ReadEnds PROVE StoreInv'
  BY <1>4 DEF ReadEnds, StoreInv, NoForeignBytes, Succeeded
<1>5. ASSUME ParseRefuses PROVE StoreInv'
  BY <1>5
  DEF ParseRefuses, StoreInv, NoForeignBytes, Succeeded, Refusal, GetStatus,
      PutStatus, AfterAnswer
<1>6. ASSUME ParseGet PROVE StoreInv'
  BY <1>6 DEF ParseGet, StoreInv, NoForeignBytes, HeaderRead
<1>7. ASSUME ParsePut PROVE StoreInv'
  <2>1. request \in Requests
    BY <1>7 DEF ParsePut, RequestInv, Serving, Phases
  <2>2. phase' = "put" /\ UNCHANGED <<request, readtotal>>
    BY <1>7 DEF ParsePut
  <2>3. ASSUME HeaderRead
        PROVE  rinfo' = [contentlength |-> request.length,
                         leftoverbytes |-> readtotal - request.head,
                         messagebody |-> request.head]
    <3>1. request.head \in 1 .. BufSize /\ request.head <= readtotal
      BY <2>1, <2>3, RequestFields DEF HeaderRead, TypeOK
    <3>2. HasBlankLine(buff)
      BY <2>1, <3>1, BlankLine DEF HasBlankLine
    <3>3. PICK p \in 1 .. BufSize :
            /\ BlankLineAt(buff, p)
            /\ rinfo' = [contentlength |-> request.length,
                         leftoverbytes |-> Leftover(p), messagebody |-> p]
      BY <1>7, <2>3, <3>2 DEF ParsePut, HeaderRead
    <3>4. p = request.head
      BY <2>1, <3>3, BlankLine
    <3> QED
      BY <3>3, <3>4 DEF Leftover
  <2> QED
    BY <2>2, <2>3 DEF StoreInv, NoForeignBytes, HeaderRead, Succeeded
<1>8. ASSUME Get PROVE StoreInv'
  BY <1>8
  DEF Get, StoreInv, NoForeignBytes, HeaderRead, RequestInv, PutStatus, AfterAnswer
<1>9. ASSUME SendFile PROVE StoreInv'
  BY <1>9
  DEF SendFile, StoreInv, NoForeignBytes, HeaderRead, RequestInv, Refusal, GetStatus,
      PutStatus, AfterAnswer
<1>10. ASSUME SendFails PROVE StoreInv'
  BY <1>10 DEF SendFails, StoreInv, NoForeignBytes, Succeeded
<1>11. ASSUME PutOpenFails PROVE StoreInv'
  BY <1>11
  DEF PutOpenFails, StoreInv, NoForeignBytes, Succeeded, Refusal, GetStatus,
      PutStatus, AfterAnswer
<1>12. ASSUME PutOpens PROVE StoreInv'
  <2>1. request.uri \in Uris
    BY <1>12, RequestFields DEF PutOpens, RequestInv, Serving, Phases
  <2>2. file'.data = << >>
    BY <1>12, <2>1 DEF PutOpens, TypeOK, file
  <2> QED
    BY <1>12, <2>2 DEF PutOpens, StoreInv, NoForeignBytes, HeaderRead, Succeeded
<1>13. ASSUME PutLeftover PROVE StoreInv'
  <2> DEFINE n == rinfo.leftoverbytes
  <2>1. /\ request \in Requests /\ taken = readtotal /\ file.data = << >>
        /\ n \in Nat /\ phase' = "pass" /\ Stores(Message(n))
        /\ UNCHANGED <<request, readtotal, rinfo, conn, taken>>
    BY <1>13 DEF PutLeftover, RequestInv, Serving, BufferInv, StoreInv, TypeOK
  <2>2. /\ Message(n) \in Seq(Unit)
        /\ Len(Message(n)) = n
        /\ \A i \in 1 .. n : Message(n)[i] = IF rinfo.messagebody = Wild THEN Zero
                                            ELSE buff[rinfo.messagebody + i]
    BY <2>1, MessageUnits
  <2>3. file'.data = file.data \o Message(n)
    BY <2>1, <2>2, FileAppended DEF file
  <2>4. file'.data = Message(n)
    BY <2>1, <2>2, <2>3, ConcatEmptySeq
  <2>5. \A i \in 1 .. n : rinfo.messagebody # Wild => rinfo.messagebody + i \in 1 .. BufSize
    BY DEF TypeOK
  <2>6. \A i \in DOMAIN file'.data : file'.data[i] = Zero \/ file'.data[i][1] = conn
    <3>1. SUFFICES ASSUME NEW i \in 1 .. n
                   PROVE  Message(n)[i] = Zero \/ Message(n)[i][1] = conn
      BY <2>2, <2>4
    <3>2. CASE rinfo.messagebody = Wild
      BY <2>2, <3>2
    <3>3. CASE rinfo.messagebody # Wild
      <4> DEFINE j == rinfo.messagebody + i
      <4>1. j \in 1 .. BufSize
        BY <2>5, <3>3
      <4>2. Message(n)[i] = buff[j]
        BY <2>2, <3>3
      <4> HIDE DEF j
      <4>3. buff[j] = <<conn, j>> \/ buff[j] = Zero
        BY <4>1 DEF BufferInv
      <4> QED
        BY <4>2, <4>3
    <3> QED
      BY <3>2, <3>3
  <2>7. ASSUME HeaderRead
        PROVE  /\ Len(file'.data) = taken - request.head
               /\ \A i \in 1 .. taken - request.head :
                    file'.data[i] = <<conn, request.head + i>>
               /\ left' = request.length - (taken - request.head)
               /\ request.length >= readtotal - request.head <=> left' >= 0
    <3>1. /\ rinfo.contentlength = request.length
          /\ n = readtotal - request.head
          /\ rinfo.messagebody = request.head
      BY <1>13, <2>7 DEF PutLeftover, StoreInv
    <3>2. request.head \in Nat /\ request.head >= 2 /\ request.length \in Int
      BY <2>1, <2>7, RequestFields DEF HeaderRead
    <3>3. \A i \in 1 .. n : Message(n)[i] = <<conn, request.head + i>>
      <4>1. SUFFICES ASSUME NEW i \in 1 .. n
                     PROVE  Message(n)[i] = <<conn, request.head + i>>
        OBVIOUS
      <4>2. Message(n)[i] = buff[request.head + i]
        BY <2>2, <3>1, <3>2 DEF Wild
      <4>3. request.head + i \in 1 .. BufSize /\ request.head + i <= readtotal
        BY <3>1, <3>2, SMTT(40) DEF TypeOK
      <4> QED
        BY <4>2, <4>3 DEF BufferInv
    <3>4. left' = request.length - n
      BY <1>13, <3>1 DEF PutLeftover, Remaining
    <3> HIDE DEF n
    <3> QED
      <4>1. Len(file'.data) = taken - request.head
        BY <2>1, <2>2, <2>4, <3>1
      <4>2. left' = request.length - (taken - request.head)
        BY <2>1, <3>1, <3>4
      <4>3. request.length >= readtotal - request.head <=> left' >= 0
        <5>1. readtotal \in Nat
          BY DEF TypeOK
        <5> QED
          BY <2>1, <3>1, <3>2, <3>4, <5>1
      <4>4. \A i \in 1 .. taken - request.head :
              file'.data[i] = <<conn, request.head + i>>
        BY <2>1, <2>4, <3>1, <3>3
      <4> QED
        BY <4>1, <4>2, <4>3, <4>4
  <2> QED
    BY <2>1, <2>6, <2>7, <1>13
    DEF PutLeftover, StoreInv, NoForeignBytes, HeaderRead, Stored, Succeeded
<1>14. ASSUME NEW k \in 0 .. BufSize, PutLeftoverFails(k) PROVE StoreInv'
  BY <1>14 DEF PutLeftoverFails, StoreInv, NoForeignBytes, Succeeded
<1>15. ASSUME NEW k \in 0 .. BufSize, PassChunk(k) PROVE StoreInv'
  <2>1. /\ request \in Requests /\ phase = "pass" /\ phase' = "pass" /\ Stores(Received(k))
        /\ taken' = taken + k /\ left' = left - k
        /\ UNCHANGED <<request, readtotal, rinfo, conn>>
    BY <1>15 DEF PassChunk, RequestInv, Serving, Phases
  <2>2. conn \in Nat /\ taken \in Nat /\ left \in Int /\ k \in Nat /\ k > 0
    BY <1>15 DEF TypeOK, PassChunk, Chunk
  <2>3. /\ Received(k) \in Seq(Unit)
        /\ Len(Received(k)) = k
        /\ \A i \in 1 .. k : Received(k)[i] = <<conn, taken + i>>
    BY <2>2, ReceivedUnits
  <2>4. file'.data = file.data \o Received(k) /\ file.data \in Seq(Unit)
    BY <2>1, <2>3, FileAppended DEF file
  <2>5. /\ file'.data \in Seq(Unit)
        /\ Len(file'.data) = Len(file.data) + k
        /\ \A i \in 1 .. Len(file.data) : file'.data[i] = file.data[i]
        /\ \A i \in Len(file.data) + 1 .. Len(file.data) + k :
             file'.data[i] = <<conn, taken + (i - Len(file.data))>>
    <3>1. /\ file.data \o Received(k) \in Seq(Unit)
          /\ Len(file.data \o Received(k)) = Len(file.data) + Len(Received(k))
          /\ \A i \in 1 .. Len(file.data) : (file.data \o Received(k))[i] = file.data[i]
          /\ \A i \in Len(file.data) + 1 .. Len(file.data) + Len(Received(k)) :
               (file.data \o Received(k))[i] = Received(k)[i - Len(file.data)]
      BY <2>3, <2>4, Appended
    <3>2. Len(file.data) \in Nat
      BY <2>4
    <3>3. \A i \in Len(file.data) + 1 .. Len(file.data) + k : i - Len(file.data) \in 1 .. k
      BY <2>2, <3>2
    <3> QED
      BY <2>3, <2>4, <3>1, <3>3
  <2>6. \A i \in DOMAIN file'.data : file'.data[i] = Zero \/ file'.data[i][1] = conn
    <3> DEFINE len == Len(file.data)
    <3>1. SUFFICES ASSUME NEW i \in 1 .. len + k
                   PROVE  file'.data[i] = Zero \/ file'.data[i][1] = conn
      BY <2>4, <2>5
    <3>2. len \in Nat /\ DOMAIN file.data = 1 .. len
      BY <2>4
    <3>3. CASE i \in 1 .. len
      BY <2>1, <2>5, <3>2, <3>3 DEF StoreInv, NoForeignBytes
    <3>4. CASE i \in len + 1 .. len + k
      BY <2>5, <3>4
    <3> QED
      BY <2>2, <3>2, <3>3, <3>4
  <2>7. ASSUME HeaderRead
        PROVE  /\ Len(file'.data) = taken' - request.head
               /\ \A i \in 1 .. taken' - request.head :
                    file'.data[i] = <<conn, request.head + i>>
               /\ left' = request.length - (taken' - request.head)
               /\ request.length >= readtotal - request.head <=> left' >= 0
    <3>1. /\ Len(file.data) = taken - request.head
          /\ \A i \in 1 .. taken - request.head : file.data[i] = <<conn, request.head + i>>
          /\ left = request.length - (taken - request.head)
          /\ request.length >= readtotal - request.head <=> left >= 0
      BY <2>1, <2>7 DEF StoreInv, Stored
    <3>2. request.head \in Nat /\ request.length \in Int
      BY <2>1, <2>7, RequestFields DEF HeaderRead
    <3>3. left >= 0 <=> left - k >= 0
      BY <1>15, <2>2 DEF PassChunk, Chunk, Wanted
    <3>4. \A i \in 1 .. taken + k - request.head : file'.data[i] = <<conn, request.head + i>>
      <4>1. taken - request.head \in Nat
        BY <2>4, <3>1
      <4>2. SUFFICES ASSUME NEW i \in 1 .. taken + k - request.head
                     PROVE  file'.data[i] = <<conn, request.head + i>>
        OBVIOUS
      <4>3. CASE i \in 1 .. taken - request.head
        BY <2>5, <3>1, <4>3
      <4>4. CASE i \in (taken - request.head) + 1 .. (taken - request.head) + k
        <5>1. taken + (i - (taken - request.head)) = request.head + i
          BY <2>2, <3>2, <4>4
        <5> QED
          BY <2>5, <3>1, <4>4, <5>1
      <4> QED
        BY <2>2, <3>2, <4>1, <4>3, <4>4
    <3> QED
      <4>1. Len(file'.data) = taken' - request.head
        BY <2>1, <2>2, <2>5, <3>1, <3>2
      <4>2. left' = request.length - (taken' - request.head)
        BY <2>1, <2>2, <3>1, <3>2, SMTT(40)
      <4>3. request.length >= readtotal - request.head <=> left' >= 0
        BY <2>1, <3>1, <3>3
      <4> QED
        <5>1. \A i \in 1 .. taken' - request.head :
                file'.data[i] = <<conn, request.head + i>>
          <6>1. taken' - request.head = taken + k - request.head
            BY <2>1, <2>2, <3>2
          <6> QED
            BY <3>4, <6>1, Zenon
        <5> QED
          BY <4>1, <4>2, <4>3, <5>1
  <2> QED
    BY <2>1, <2>6, <2>7 DEF StoreInv, NoForeignBytes, HeaderRead, Stored, Succeeded
<1>16. ASSUME NEW k \in 0 .. BufSize, PassTimesOut(k) PROVE StoreInv'
  BY <1>16 DEF PassTimesOut, OnTimeout, StoreInv, NoForeignBytes, Succeeded
<1>17. ASSUME NEW k \in 0 .. BufSize, NEW written \in 0 .. BufSize, PassWriteFails(k, written) PROVE StoreInv'
  BY <1>17 DEF PassWriteFails, StoreInv, NoForeignBytes, Succeeded
<1>18. ASSUME PassEnds PROVE StoreInv'
  <2>1. /\ request \in Requests /\ phase = "pass" /\ phase' = "answer"
        /\ left = 0 \/ Coming = 0
        /\ UNCHANGED <<request, readtotal, taken, conn, files, answers, rinfo>>
    BY <1>18 DEF PassEnds, RequestInv, Serving, Phases
  <2>2. ASSUME HeaderRead PROVE Stored(Expected)
    <3>1. /\ Stored(taken - request.head)
          /\ left = request.length - (taken - request.head)
          /\ request.length >= readtotal - request.head <=> left >= 0
      BY <2>1, <2>2 DEF StoreInv
    <3>2. /\ request.head \in Nat /\ request.length \in Int /\ request.sent \in Nat
          /\ taken \in 0 .. request.sent /\ readtotal \in Nat
      <4>1. request.head \in Nat /\ request.sent \in Nat
        BY <2>1, RequestFields
      <4>2. request.length \in Int
        BY <2>1, <2>2, RequestFields DEF HeaderRead
      <4>3. taken \in 0 .. request.sent /\ readtotal \in Nat
        BY DEF TypeOK
      <4> QED
        BY <4>1, <4>2, <4>3
    <3>3. Expected = taken - request.head
      BY <2>1, <3>1, <3>2 DEF Expected, Came, Coming
    <3> QED
      BY <3>1, <3>3
  <2> QED
    BY <2>1, <2>2
    DEF StoreInv, NoForeignBytes, HeaderRead, Stored, Expected, Came, file
<1>19. ASSUME SendAnswer PROVE StoreInv'
  <2>1. /\ phase = "answer" /\ phase' \in {"send", "close"}
        /\ UNCHANGED <<request, readtotal, taken, conn, files, rinfo, code>>
    BY <1>19 DEF SendAnswer, AfterAnswer
  <2> QED
    BY <2>1
    DEF StoreInv, NoForeignBytes, HeaderRead, Stored, Expected, Came, Succeeded, file
<1>20. ASSUME Killed PROVE StoreInv'
  <2>1. /\ phase \in {"answer", "send"} /\ phase' = "exited"
        /\ UNCHANGED <<request, readtotal, taken, conn, files, rinfo, code>>
    BY <1>20 DEF Killed
  <2> QED
    BY <2>1
    DEF RequestInv, StoreInv, NoForeignBytes, HeaderRead, Stored, Expected, Came,
        Succeeded, file
<1>21. ASSUME Close PROVE StoreInv'
  BY <1>21 DEF Close, StoreInv, NoForeignBytes, Succeeded
<1>22. CASE UNCHANGED vars
  BY <1>22
  DEF vars, StoreInv, NoForeignBytes, HeaderRead, Stored, Succeeded, Expected, Came,
      file, Refusal, GetStatus, PutStatus, AfterAnswer
<1> QED
  BY <1>1, <1>2, <1>3, <1>4, <1>5, <1>6, <1>7, <1>8, <1>9, <1>10, <1>11,
     <1>12, <1>13, <1>14, <1>15, <1>16, <1>17, <1>18, <1>19, <1>20, <1>21, <1>22
  DEF Next, Serve

\* The invariant holds when main has set its variables up.
LEMMA InitInv == Init => IInv
<1> SUFFICES ASSUME Init PROVE IInv
  OBVIOUS
<1>1. TypeOK
  <2>1. \A k \in Kinds : (IF k \in {"absent", "uncreatable", "dir"} THEN << >> ELSE <<Old>>)
                         \in Seq(Unit)
    <3>1. Old \in Unit
      BY DEF Old, Unit
    <3>2. <<Old>> \in Seq(Unit) /\ << >> \in Seq(Unit)
      BY <3>1
    <3> QED
      BY <3>2
  <2>2. files \in [Uris -> [kind : Kinds \cup {"file"}, data : Seq(Unit)]]
    <3> DEFINE d(k) == IF k \in {"absent", "uncreatable", "dir"} THEN << >> ELSE <<Old>>
    <3>1. \A k \in Kinds : d(k) \in Seq(Unit)
      BY <2>1
    <3> HIDE DEF d
    <3>2. files \in [Uris -> {[kind |-> k, data |-> d(k)] : k \in Kinds}]
      BY DEF Init, d
    <3>3. {[kind |-> k, data |-> d(k)] : k \in Kinds}
            \subseteq [kind : Kinds \cup {"file"}, data : Seq(Unit)]
      <4>1. ASSUME NEW k \in Kinds
            PROVE  [kind |-> k, data |-> d(k)] \in [kind : Kinds \cup {"file"}, data : Seq(Unit)]
        <5>1. d(k) \in Seq(Unit)
          BY <3>1
        <5> QED
          BY <5>1, Zenon
      <4> QED
        BY <4>1, ZenonT(60)
    <3> QED
      BY <3>2, <3>3
  <2>3. buff \in [1 .. BufSize -> Unit]
    BY DEF Init, Cleared, Zero, Unit
  <2>4. answers \in Seq(Nat) /\ Len(answers) <= 2
    BY DEF Init
  <2>5. existed \in BOOLEAN
    BY DEF Init
  <2> QED
    BY <2>2, <2>3, <2>4, <2>5, NoRequestSent DEF Init, TypeOK, Phases, Wild
<1>2. RequestInv /\ DescriptorInv /\ AnswerInv
  BY DEF Init, RequestInv, Serving, DescriptorInv, LeakStarves, AnswerInv, AnsweredOnce
<1>3. BufferInv
  BY DEF Init, BufferInv, Cleared
<1>4. StoreInv
  BY DEF Init, StoreInv, NoForeignBytes, Succeeded
<1> QED
  BY <1>1, <1>2, <1>3, <1>4 DEF IInv

\* Every step keeps the invariant.
LEMMA StepInv == IInv /\ [Next]_vars => IInv'
  BY TypeStep, RequestStep, BufferStep, DescriptorStep, AnswerStep, StoreStep DEF IInv

\* The invariant holds always.
LEMMA Invariance == Spec => []IInv
  BY InitInv, StepInv, PTL DEF Spec

-----------------------------------------------------------------------------
(***************************************************************************)
(* The theorems.                                                           *)
(***************************************************************************)

\* The variables keep their types: put and pass_n_bytes never look outside the
\* buffer, whatever rinfo was left with, unless its pointer was never set.
THEOREM TypesCorrect == Spec => []TypeOK
<1>1. IInv => TypeOK
  BY DEF IInv
<1> QED
  BY <1>1, Invariance, PTL

\* However many descriptors the PUTs leak, accept has one left, and no request is
\* answered with success any more once they are gone.
THEOREM LeakBounded == Spec => []LeakStarves
<1>1. IInv => LeakStarves
  BY DEF IInv, DescriptorInv
<1> QED
  BY <1>1, Invariance, PTL

\* A connection is closed with one answer, except a GET that failed after its 200.
THEOREM OneAnswer == Spec => []AnsweredOnce
<1>1. IInv => AnsweredOnce
  BY DEF IInv, AnswerInv
<1> QED
  BY <1>1, Invariance, PTL

\* No PUT stores bytes of another connection: the memset of main is enough.
THEOREM OwnBytesOnly == Spec => []NoForeignBytes
<1>1. IInv => NoForeignBytes
  BY DEF IInv, StoreInv
<1> QED
  BY <1>1, Invariance, PTL

\* A PUT with its head in one buffer and a number in its last header stores what it
\* should, through the leftover in the buffer and all the chunks that follow.
THEOREM PutIsStored == Spec => []PutStores
<1>1. IInv => PutStores
  <2>1. SUFFICES ASSUME IInv, Succeeded, HeaderRead
                 PROVE  file.data = [i \in 1 .. Expected |-> <<conn, request.head + i>>]
    BY DEF PutStores, HeaderRead, Expected, Came, Succeeded
  <2>2. Stored(Expected)
    BY <2>1 DEF IInv, StoreInv
  <2>3. request \in Requests
    BY <2>1, NoRequestSent DEF IInv, TypeOK, HeaderRead
  <2>4. file.data \in Seq(Unit)
    BY <2>1, <2>3, RequestFields DEF IInv, TypeOK, file
  <2> QED
    <3> DEFINE n == Len(file.data)
               t == [i \in 1 .. n |-> <<conn, request.head + i>>]
    <3>1. n \in Nat /\ n = Expected /\ \A i \in 1 .. n : file.data[i] = <<conn, request.head + i>>
      BY <2>2, <2>4 DEF Stored
    <3>2. conn \in Nat /\ request.head \in Nat
      BY <2>1, <2>3, RequestFields DEF IInv, TypeOK
    <3> HIDE DEF n
    <3>3. t \in [1 .. n -> Unit]
      BY <3>1, <3>2 DEF Unit
    <3>4. t \in Seq(Unit) /\ Len(t) = n
      BY <3>1, <3>3, IsASeq, LenProperties
    <3>5. \A i \in 1 .. n : file.data[i] = t[i]
      BY <3>1
    <3>6. file.data = t
      BY <2>4, <3>4, <3>5, SeqEqual DEF n
    <3> QED
      BY <3>1, <3>6
<1> QED
  BY <1>1, Invariance, PTL

-----------------------------------------------------------------------------
(***************************************************************************)
(* No connection can keep main for ever: the steps it may still take.      *)
(***************************************************************************)

\* How far the longest way from a phase goes; the second status of a GET is the last.
Rest == [read |-> 9, parse |-> 8, get |-> 7, put |-> 7, leftover |-> 6, pass |-> 5,
         answer |-> 4, send |-> 3, close |-> 1, accept |-> 0, exited |-> 0]
Stage == IF phase = "answer" /\ answers # << >> THEN 2 ELSE Rest[phase]

\* One step for each unit that the client has still to send, and the rest of the way.
StepsLeft == Stage + Coming
Countable == Coming \in Nat /\ Stage \in Nat

\* The steps left are a natural number.
LEMMA StepsAreNat == IInv => Countable
<1> SUFFICES ASSUME IInv
             PROVE  Coming \in Nat /\ Stage \in Nat
  BY DEF Countable
<1>1. request.sent \in Nat /\ taken \in 0 .. request.sent
  BY RequestFields, NoRequestSent DEF IInv, TypeOK
<1>2. Coming \in Nat
  BY <1>1 DEF Coming
<1>3. Stage \in Nat
  <2>1. phase \in Phases
    BY DEF IInv, TypeOK
  <2>2. Rest[phase] \in Nat
    BY <2>1 DEF Phases, Rest
  <2> QED
    BY <2>2 DEF Stage
<1> QED
  BY <1>2, <1>3

\* A sum shrinks with either of its terms.
LEMMA SumShrinks ==
  ASSUME NEW a \in Nat, NEW b \in Nat, NEW c \in Nat, NEW d \in Nat,
         c <= a, d <= b, c < a \/ d < b
  PROVE  c + d < a + b
  OBVIOUS

\* Every step of main for a connection brings its end nearer.
LEMMA ServeShrinks ==
  ASSUME IInv, Countable, Countable', Serve
  PROVE  StepsLeft' < StepsLeft
<1>1. Coming \in Nat /\ Stage \in Nat /\ request.sent \in Nat /\ taken \in Nat
  <2>1. request.sent \in Nat /\ taken \in Nat
    BY RequestFields, NoRequestSent DEF IInv, TypeOK
  <2> QED
    BY <2>1 DEF Countable
<1>2. Coming' \in Nat /\ Stage' \in Nat
  BY DEF Countable
<1>3. ASSUME Stage' <= Stage, Coming' <= Coming, Stage' < Stage \/ Coming' < Coming
      PROVE  StepsLeft' < StepsLeft
  BY <1>1, <1>2, <1>3, SumShrinks, Zenon DEF StepsLeft
<1>9. CASE \E k \in 1 .. BufSize : Read(k)
  <2>1. Coming' < Coming /\ phase = "read" /\ phase' \in {"read", "parse"}
    BY <1>1, <1>9 DEF Read, Goto, client, Coming
  <2>2. Stage' <= Stage
    BY <2>1 DEF Stage, Rest
  <2> QED
    BY <1>3, <2>1, <2>2, <1>1, <1>2
<1>10. CASE \E k \in 0 .. BufSize : PassChunk(k)
  <2>1. Coming' < Coming /\ phase = "pass" /\ phase' = "pass"
    BY <1>1, <1>10 DEF PassChunk, Goto, Chunk, client, Coming
  <2>2. Stage' <= Stage
    BY <2>1 DEF Stage, Rest
  <2> QED
    BY <1>3, <2>1, <2>2, <1>1, <1>2
<1>4. CASE ReadEnds \/ ParseRefuses \/ ParseGet \/ ParsePut \/ Get \/ PutOpenFails \/ PutOpens
           \/ PutLeftover \/ (\E k \in 0 .. BufSize : PutLeftoverFails(k)) \/ PassEnds
  <2>1. Coming' <= Coming
    BY <1>1, <1>4 DEF ReadEnds, ParseRefuses, ParseGet, ParsePut, Get, PutOpenFails, PutOpens,
                PutLeftover, PutLeftoverFails, PassEnds, Coming, client, input
  <2>2. Stage' <= Stage /\ Stage' < Stage
    BY <1>4 DEF ReadEnds, ParseRefuses, ParseGet, ParsePut, Get, PutOpenFails, PutOpens,
                PutLeftover, PutLeftoverFails, PassEnds, Answer, Goto, Stage, Rest
  <2> QED
    BY <1>3, <2>1, <2>2
<1>5. CASE (\E k \in 0 .. BufSize : PassTimesOut(k))
           \/ \E k, written \in 0 .. BufSize : PassWriteFails(k, written)
  <2>1. Coming' <= Coming
    BY <1>1, <1>5 DEF PassTimesOut, PassWriteFails, Coming, client
  <2>2. Stage' <= Stage /\ Stage' < Stage
    BY <1>5 DEF PassTimesOut, OnTimeout, PassWriteFails, Answer, Goto, Stage, Rest
  <2> QED
    BY <1>3, <2>1, <2>2
<1>6. CASE SendFile \/ SendFails \/ Killed
  <2>1. Coming' <= Coming
    BY <1>1, <1>6 DEF SendFile, SendFails, Killed, Coming, client, input
  <2>2. phase = "send" => answers # << >>
    BY DEF IInv, AnswerInv
  <2>3. Stage' <= Stage /\ Stage' < Stage
    BY <1>6, <2>2 DEF SendFile, SendFails, Killed, Answer, Goto, Stage, Rest
  <2> QED
    BY <1>3, <2>1, <2>3
<1>7. CASE SendAnswer
  <2>1. Coming' <= Coming /\ phase = "answer" /\ phase' = AfterAnswer
    BY <1>1, <1>7 DEF SendAnswer, Goto, Coming, client, input
  <2>2. answers # << >> => phase' = "close"
    BY <2>1 DEF IInv, AnswerInv, AfterAnswer
  <2>3. Stage' <= Stage /\ Stage' < Stage
    BY <2>1, <2>2 DEF AfterAnswer, Stage, Rest
  <2> QED
    BY <1>3, <2>1, <2>3
<1>8. CASE Close
  <2>1. phase = "close" /\ phase' = "accept"
    BY <1>8 DEF Close, Goto
  <2>2. Coming' <= Coming
    BY <1>1, <1>8, NoRequestSent DEF Close, Coming
  <2>3. Stage' <= Stage /\ Stage' < Stage
    BY <2>1 DEF Stage, Rest
  <2> QED
    BY <1>3, <2>2, <2>3
<1> QED
  BY <1>4, <1>5, <1>6, <1>7, <1>8, <1>9, <1>10 DEF Serve

\* A connection ends after at most nine steps and one for each unit its client sends,
\* whatever is asked of pass_n_bytes: the variant that, with a main that runs, makes
\* every connection end.
THEOREM ConnectionsShrink ==
  Spec => [](StepsLeft \in Nat) /\ [][Serve => StepsLeft' < StepsLeft]_vars
<1>1. IInv => Countable
  BY StepsAreNat
<1>2. Countable => StepsLeft \in Nat
  BY DEF Countable, StepsLeft
<1>3. IInv /\ Countable /\ Countable' => [Serve => StepsLeft' < StepsLeft]_vars
  BY ServeShrinks
<1> QED
  BY <1>1, <1>2, <1>3, Invariance, PTL
=============================================================================
