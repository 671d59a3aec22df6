-------------------------- MODULE MemoryToolProofs --------------------------
(***************************************************************************)
(* Theorems about the memory tool of asgn1, for every size of its buffer,  *)
(* every file and message, and every way in which reads and writes are     *)
(* cut.                                                                    *)
(***************************************************************************)
EXTENDS MemoryTool, SequenceTheorems, TLAPS

-----------------------------------------------------------------------------
(***************************************************************************)
(* The inductive invariant.                                                *)
(***************************************************************************)

\* A command is served by its own code, and the file is opened for writing only by a
\* set that is valid.
CommandInv ==
  /\ pc \in {"get", "get_read", "get_write"} => command.name = "get"
  /\ pc \in {"set", "set_write", "set_read"} => command.name = "set"
  /\ pc \in {"set_write", "set_read"} => SetValid
  /\ pc \in {"read", "get", "get_read", "get_write", "set"} => file = file0
  /\ RefusedTouchesNothing

\* The first n units of the file are what was printed.
Printed(n) == Len(out) = n /\ \A i \in 1 .. n : out[i] = file.data[i]

\* The buffer holds what the last read of the file returned.
Loaded ==
  /\ Len(buff) <= pos
  /\ \A i \in 1 .. Len(buff) : buff[i] = file.data[pos - Len(buff) + i]

\* Until a write fails, what was printed is what was read, but for the rest of the
\* buffer.
GetInv ==
  /\ pc \in {"read", "get"} => out = << >>
  /\ pc \in {"read", "get", "set", "set_write", "set_read"} => pos = 0
  /\ (pc = "get_read" /\ fails = 0) => Printed(pos)
  /\ pc = "get_write" => Loaded
  /\ (pc = "get_write" /\ fails = 0) => Printed(pos - Len(buff) + written)
  /\ GetIsFile

\* What SetIsMessage requires of a set.
Whole == ~short /\ HeadFits /\ (full => command.length >= InBuffer)

\* The units of the message that are stored when the chunk in the buffer is.
Target == IF full THEN taken ELSE Wanted

\* The first n units of the message.
IsMessage(s, n) == Len(s) = n /\ \A i \in 1 .. n : s[i] = <<"message", i>>

\* The units of the message from first on.
IsMessageFrom(s, first) == \A i \in 1 .. Len(s) : s[i] = <<"message", first + i - 1>>

\* Until a write falls short, the file is the message up to the chunk in the buffer,
\* and that chunk comes next.
SetInv ==
  /\ pc \in {"read", "set"} => written = 0 /\ ~short /\ ~cut
  /\ pc = "read" => taken = 0
  /\ pc = "set" => taken = (IF InBuffer < command.message THEN InBuffer ELSE command.message)
  /\ (pc \in {"set", "set_write", "set_read"} /\ HeadFits) =>
       /\ taken <= command.message
       /\ ~full => taken = command.message
  /\ (pc = "set_write" /\ Whole) =>
       /\ written = 0
       /\ IsMessage(file.data, Target - Len(buff))
       /\ IsMessageFrom(buff, Target - Len(buff) + 1)
  /\ pc = "set_read" => full
  /\ (pc = "set_read" /\ Whole) => IsMessage(file.data, taken)
  /\ (Done("set") /\ Whole) =>
       /\ IsMessage(file.data, Target)
       /\ full => taken <= command.message /\ (cut \/ taken = command.message)

IInv == TypeOK /\ CommandInv /\ GetInv /\ SetInv

-----------------------------------------------------------------------------
(***************************************************************************)
(* Lemmas on the operators of the model.                                   *)
(***************************************************************************)

\* The fields of a set command.
LEMMA SetCommand ==
  ASSUME command \in Commands, command.name = "set"
  PROVE  /\ command.head \in Nat /\ command.head \in 1 .. BufSize
         /\ command.extra \in {0, 1}
         /\ command.length \in Int
         /\ command.message \in Nat
<1>1. \/ command \in [name : {"get"}, tokens : 0 .. 2, long : BOOLEAN, extra : {0, 1},
                      newline : BOOLEAN]
      \/ command \in [name : {"set"}, tokens : 0 .. 2, long : BOOLEAN, head : Heads,
                      extra : {0, 1}, length : Lengths, message : 0 .. MaxMessage]
      \/ command \in [name : {"other", "empty"}]
  BY DEF Commands
<1>2. command \in [name : {"set"}, tokens : 0 .. 2, long : BOOLEAN, head : Heads,
                   extra : {0, 1}, length : Lengths, message : 0 .. MaxMessage]
  BY <1>1
<1>3. command.head \in Heads /\ command.length \in Lengths /\ command.message \in 0 .. MaxMessage
  BY <1>2
<1>4. command.extra \in {0, 1}
  BY <1>2
<1>5. command.head \in 1 .. BufSize
  BY <1>3, SizesAssumption
<1>6. command.length \in Int
  BY <1>3, LengthsAssumption
<1>7. command.message \in Nat
  BY <1>3, SizesAssumption
<1>8. command.head \in Nat
  BY <1>5, SizesAssumption
<1> QED
  BY <1>4, <1>5, <1>6, <1>7, <1>8

\* A part of a sequence of units, from its m-th to its n-th.
LEMMA Part ==
  ASSUME NEW s \in Seq(Unit), NEW m \in Nat \ {0}, NEW n \in Int, n <= Len(s)
  PROVE  /\ SubSeq(s, m, n) \in Seq(Unit)
         /\ Len(SubSeq(s, m, n)) = IF m <= n THEN n - m + 1 ELSE 0
         /\ \A i \in 1 .. n - m + 1 : SubSeq(s, m, n)[i] = s[m + i - 1]
<1>1. \A i \in m .. n : s[i] \in Unit
  OBVIOUS
<1> QED
  BY <1>1, SubSeqProperties

\* Its first n units; none if n is not positive.
LEMMA Prefix ==
  ASSUME NEW s \in Seq(Unit), NEW n \in Int, n <= Len(s)
  PROVE  /\ SubSeq(s, 1, n) \in Seq(Unit)
         /\ Len(SubSeq(s, 1, n)) = IF n > 0 THEN n ELSE 0
         /\ \A i \in 1 .. n : SubSeq(s, 1, n)[i] = s[i]
<1>1. SubSeq(s, 1, n) \in Seq(Unit)
  BY Part
<1>2. Len(SubSeq(s, 1, n)) = IF n > 0 THEN n ELSE 0
  BY Part
<1>3. ASSUME NEW i \in 1 .. n PROVE SubSeq(s, 1, n)[i] = s[i]
  <2>1. 1 + i - 1 = i /\ i \in 1 .. n - 1 + 1
    OBVIOUS
  <2>2. SubSeq(s, 1, n)[i] = s[1 + i - 1]
    BY <2>1, Part
  <2> QED
    BY <2>1, <2>2
<1> QED
  BY <1>1, <1>2, <1>3

\* All of it.
LEMMA SubSeqIsWhole ==
  ASSUME NEW s \in Seq(Unit)
  PROVE  SubSeq(s, 1, Len(s)) = s
<1>1. Len(s) \in Nat
  OBVIOUS
<1>2. SubSeq(s, 1, Len(s)) \in Seq(Unit)
  BY <1>1, Prefix
<1>3. Len(SubSeq(s, 1, Len(s))) = Len(s)
  BY <1>1, Prefix
<1>4. \A i \in 1 .. Len(s) : SubSeq(s, 1, Len(s))[i] = s[i]
  BY <1>1, Prefix
<1> QED
  BY <1>2, <1>3, <1>4, SeqEqual

\* Units are appended to others.
LEMMA Appended ==
  ASSUME NEW s \in Seq(Unit), NEW t \in Seq(Unit)
  PROVE  /\ s \o t \in Seq(Unit)
         /\ Len(s \o t) = Len(s) + Len(t)
         /\ \A i \in 1 .. Len(s) : (s \o t)[i] = s[i]
         /\ \A i \in Len(s) + 1 .. Len(s) + Len(t) : (s \o t)[i] = t[i - Len(s)]
  BY ConcatProperties

\* A run of units of one kind.
LEMMA UnitsRun ==
  ASSUME NEW what \in {"head", "message", "file", "junk"}, NEW first \in Nat, NEW n \in Nat
  PROVE  /\ Units(what, first, n) \in Seq(Unit)
         /\ Len(Units(what, first, n)) = n
         /\ \A i \in 1 .. n : Units(what, first, n)[i] = <<what, first + i - 1>>
<1>1. \A i \in 1 .. n : <<what, first + i - 1>> \in Unit
  BY DEF Unit
<1>2. Units(what, first, n) \in [1 .. n -> Unit]
  BY <1>1 DEF Units
<1>3. Units(what, first, n) \in Seq(Unit) /\ Len(Units(what, first, n)) = n
  BY <1>2, IsASeq, LenProperties
<1> QED
  BY <1>3 DEF Units

\* What is left of the buffer from the i-th unit on, if i is in it.
LEMMA RestRun ==
  ASSUME buff \in Seq(Unit), NEW i \in Int, i < Len(buff)
  PROVE  /\ Rest(i) \in Seq(Unit)
         /\ Len(Rest(i)) = Len(buff) - i
         /\ i >= 0 => \A j \in 1 .. Len(buff) - i : Rest(i)[j] = buff[i + j]
<1> DEFINE n == Len(buff) - i
<1>1. n \in Nat
  BY LenProperties
<1>2. \A j \in 1 .. n : (IF i + j < 1 THEN <<"junk", 0>> ELSE buff[i + j]) \in Unit
  BY DEF Unit
<1>3. Rest(i) \in [1 .. n -> Unit]
  BY <1>2 DEF Rest
<1>4. Rest(i) \in Seq(Unit) /\ Len(Rest(i)) = n
  BY <1>1, <1>3, IsASeq, LenProperties
<1> QED
  BY <1>4 DEF Rest

\* What set takes from its buffer for the message.
LEMMA FirstChunk ==
  ASSUME command \in Commands, command.name = "set", taken \in Nat,
         taken <= BufSize - command.head, NEW m,
         m = SubSeq(Units("head", 1, command.extra) \o Units("message", 1, taken),
                    1, MessageLength)
  PROVE  /\ m \in Seq(Unit) /\ Len(m) <= BufSize
         /\ Len(m) = IF MessageLength > 0 THEN MessageLength ELSE 0
         /\ command.extra = 0 => \A i \in 1 .. Len(m) : m[i] = <<"message", i>>
<1> DEFINE h == Units("head", 1, command.extra)
           u == Units("message", 1, taken)
<1>1. command.extra \in {0, 1} /\ command.length \in Int /\ command.head \in 1 .. BufSize
  BY SetCommand
<1>2. /\ h \in Seq(Unit) /\ Len(h) = command.extra
      /\ u \in Seq(Unit) /\ Len(u) = taken
      /\ \A i \in 1 .. taken : u[i] = <<"message", i>>
  <2>8. command.extra \in Nat
    BY <1>1
  <2>1. h \in Seq(Unit)
    BY <2>8, UnitsRun, SMTT(40)
  <2>2. Len(h) = command.extra
    BY <2>8, UnitsRun, SMTT(40)
  <2>3. u \in Seq(Unit)
    BY UnitsRun
  <2>4. Len(u) = taken
    BY UnitsRun
  <2>5. \A i \in 1 .. taken : u[i] = <<"message", 1 + i - 1>>
    BY UnitsRun
  <2>6. \A i \in 1 .. taken : 1 + i - 1 = i
    OBVIOUS
  <2> HIDE DEF h, u
  <2>7. \A i \in 1 .. taken : u[i] = <<"message", i>>
    BY <2>5, <2>6
  <2> QED
    BY <2>1, <2>2, <2>3, <2>4, <2>7
<1> HIDE DEF h, u
<1>3. /\ h \o u \in Seq(Unit) /\ Len(h \o u) = command.extra + taken
      /\ \A i \in command.extra + 1 .. command.extra + taken :
           (h \o u)[i] = u[i - command.extra]
  <2>1. /\ h \o u \in Seq(Unit) /\ Len(h \o u) = Len(h) + Len(u)
        /\ \A i \in Len(h) + 1 .. Len(h) + Len(u) : (h \o u)[i] = u[i - Len(h)]
    BY <1>2, Appended
  <2> QED
    BY <1>2, <2>1
<1>4. MessageLength \in Int /\ MessageLength <= taken + command.extra
  BY <1>1 DEF MessageLength, Smaller
<1> HIDE DEF MessageLength
<1>5. /\ m \in Seq(Unit) /\ Len(m) = IF MessageLength > 0 THEN MessageLength ELSE 0
      /\ \A i \in 1 .. MessageLength : m[i] = (h \o u)[i]
  <2>1. m = SubSeq(h \o u, 1, MessageLength)
    BY DEF h, u
  <2>2. MessageLength <= Len(h \o u)
    BY <1>1, <1>3, <1>4
  <2>3. m \in Seq(Unit)
    BY <1>3, <1>4, <2>1, <2>2, Prefix
  <2>4. Len(m) = IF MessageLength > 0 THEN MessageLength ELSE 0
    BY <1>3, <1>4, <2>1, <2>2, Prefix
  <2>5. \A i \in 1 .. MessageLength : SubSeq(h \o u, 1, MessageLength)[i] = (h \o u)[i]
    BY <1>3, <1>4, <2>2, Prefix
  <2> QED
    BY <2>1, <2>3, <2>4, <2>5
<1>6. Len(m) <= BufSize
  BY <1>1, <1>4, <1>5, SizesAssumption
<1>7. ASSUME command.extra = 0, NEW i \in 1 .. Len(m) PROVE m[i] = <<"message", i>>
  <2>1. i \in 1 .. MessageLength /\ i \in 1 .. taken
    BY <1>4, <1>5, <1>7
  <2>2. m[i] = (h \o u)[i]
    BY <1>5, <2>1
  <2>4. i \in command.extra + 1 .. command.extra + taken
    BY <1>2, <1>7, <2>1
  <2>5. (h \o u)[i] = u[i - 0]
    BY <1>3, <1>7, <2>4
  <2>3. i - 0 = i
    BY <2>1
  <2> QED
    BY <1>2, <2>1, <2>2, <2>3, <2>5
<1> QED
  BY <1>5, <1>6, <1>7

\* A command that is refused has not opened its file for writing.
LEMMA CommandStep == IInv /\ [Next]_vars => CommandInv'
<1> SUFFICES ASSUME IInv, [Next]_vars PROVE CommandInv'
  OBVIOUS
<1> USE DEF IInv, Goto, history
<1>1. ASSUME ReadCommand PROVE CommandInv'
  BY <1>1 DEF ReadCommand, CommandInv, RefusedTouchesNothing
<1>2. ASSUME ReadCommandFails PROVE CommandInv'
  BY <1>2 DEF ReadCommandFails, CommandInv, RefusedTouchesNothing
<1>3. ASSUME GetRefused PROVE CommandInv'
  BY <1>3 DEF GetRefused, CommandInv, RefusedTouchesNothing
<1>4. ASSUME GetOpens PROVE CommandInv'
  BY <1>4 DEF GetOpens, CommandInv, RefusedTouchesNothing
<1>5. ASSUME GetEnds PROVE CommandInv'
  BY <1>5 DEF GetEnds, CommandInv, RefusedTouchesNothing
<1>6. ASSUME GetWriteFails PROVE CommandInv'
  BY <1>6 DEF GetWriteFails, CommandInv, RefusedTouchesNothing
<1>7. ASSUME GetWritesNothing PROVE CommandInv'
  BY <1>7 DEF GetWritesNothing, CommandInv, RefusedTouchesNothing
<1>8. ASSUME SetRefused PROVE CommandInv'
  BY <1>8 DEF SetRefused, CommandInv, RefusedTouchesNothing
<1>9. ASSUME SetOpens PROVE CommandInv'
  BY <1>9 DEF SetOpens, CommandInv, RefusedTouchesNothing, SetValid
<1>10. ASSUME SetWriteFails PROVE CommandInv'
  <2>1. command.name = "set" /\ command.tokens = 2 /\ ~command.long
    BY <1>10 DEF SetWriteFails, CommandInv, SetValid
  <2>2. ~(command.tokens < 2)
    BY <2>1
  <2>3. RefusedTouchesNothing'
    BY <1>10, <2>1, <2>2, Zenon DEF SetWriteFails, RefusedTouchesNothing
  <2> QED
    BY <1>10, <2>3 DEF SetWriteFails, CommandInv
<1>11. ASSUME SetEnds PROVE CommandInv'
  BY <1>11 DEF SetEnds, CommandInv, RefusedTouchesNothing
<1>12. ASSUME NEW k \in 1 .. BufSize + MaxFails, GetReads(k) PROVE CommandInv'
  BY <1>12 DEF GetReads, CommandInv, RefusedTouchesNothing
<1>13. ASSUME NEW k \in 1 .. BufSize + MaxFails, GetWrites(k) PROVE CommandInv'
  BY <1>13 DEF GetWrites, CommandInv, RefusedTouchesNothing
<1>14. ASSUME NEW k \in 1 .. BufSize + MaxFails, SetWrites(k) PROVE CommandInv'
  BY <1>14 DEF SetWrites, CommandInv, RefusedTouchesNothing, SetValid
<1>15. ASSUME NEW k \in 1 .. BufSize + MaxFails, SetReads(k) PROVE CommandInv'
  BY <1>15 DEF SetReads, CommandInv, RefusedTouchesNothing, SetValid
<1>16. CASE UNCHANGED vars
  BY <1>16 DEF vars, CommandInv, RefusedTouchesNothing, SetValid
<1> QED
  BY <1>1, <1>2, <1>3, <1>4, <1>5, <1>6, <1>7, <1>8, <1>9, <1>10, <1>11, <1>12, <1>13, <1>14, <1>15, <1>16
  DEF Next

\* The types: bytesWritten stays below the end of the buffer.
LEMMA TypeStep == IInv /\ [Next]_vars => TypeOK'
<1> SUFFICES ASSUME IInv, [Next]_vars PROVE TypeOK'
  OBVIOUS
<1> USE DEF IInv, Goto, history
<1>1. ASSUME ReadCommand PROVE TypeOK'
  <2>1. taken' \in Nat
    <3>1. CASE command.name = "set"
      <4>1. InBuffer \in Nat /\ command.message \in Nat
        BY <3>1, SetCommand, SizesAssumption DEF InBuffer, TypeOK
      <4> QED
        BY <1>1, <3>1, <4>1 DEF ReadCommand
    <3>2. CASE command.name # "set"
      BY <1>1, <3>2 DEF ReadCommand, TypeOK
    <3> QED
      BY <3>1, <3>2
  <2>2. full' \in BOOLEAN
    <3>1. full' = (InBuffer <= command.message) \/ full' = full
      BY <1>1, Zenon DEF ReadCommand
    <3>2. full \in BOOLEAN
      BY Zenon DEF TypeOK
    <3>3. (InBuffer <= command.message) \in BOOLEAN
      OBVIOUS
    <3> QED
      BY <3>1, <3>2, <3>3, Zenon
  <2>3. pc' \in {"get", "set", "crash", "exit_1"}
    BY <1>1 DEF ReadCommand
  <2> QED
    BY <1>1, <2>1, <2>2, <2>3 DEF ReadCommand, TypeOK
<1>2. ASSUME ReadCommandFails PROVE TypeOK'
  BY <1>2 DEF ReadCommandFails, TypeOK
<1>3. ASSUME GetRefused PROVE TypeOK'
  BY <1>3 DEF GetRefused, TypeOK
<1>4. ASSUME GetOpens PROVE TypeOK'
  BY <1>4 DEF GetOpens, TypeOK
<1>5. ASSUME GetEnds PROVE TypeOK'
  BY <1>5 DEF GetEnds, TypeOK
<1>6. ASSUME GetWriteFails PROVE TypeOK'
  BY <1>6, SizesAssumption DEF GetWriteFails, TypeOK
<1>7. ASSUME GetWritesNothing PROVE TypeOK'
  BY <1>7 DEF GetWritesNothing, TypeOK
<1>8. ASSUME SetRefused PROVE TypeOK'
  BY <1>8 DEF SetRefused, TypeOK
<1>9. ASSUME SetOpens PROVE TypeOK'
  <2>1. command.name = "set" /\ pos = 0
    BY <1>9 DEF SetOpens, CommandInv, GetInv
  <2>2. taken <= BufSize - command.head
    <3>1. command.head \in Nat /\ command.message \in Nat
      BY <2>1, SetCommand DEF TypeOK
    <3> QED
      BY <1>9, <3>1, SizesAssumption DEF SetOpens, SetInv, InBuffer
  <2>3. buff' \in Seq(Unit) /\ Len(buff') <= BufSize
    BY <1>9, <2>1, <2>2, FirstChunk DEF SetOpens, TypeOK
  <2>4. file'.kind = "file" /\ file'.data = << >>
    BY <1>9 DEF SetOpens
  <2>5. pc' \in {"set_write", "exit_0"}
    BY <1>9 DEF SetOpens
  <2>6. file'.data \in Seq(Unit) /\ pos' \in 0 .. Len(file'.data)
    BY <1>9, <2>1, <2>4 DEF SetOpens
  <2> QED
    BY <1>9, <2>3, <2>4, <2>5, <2>6 DEF SetOpens, TypeOK
<1>10. ASSUME SetWriteFails PROVE TypeOK'
  BY <1>10 DEF SetWriteFails, TypeOK
<1>11. ASSUME SetEnds PROVE TypeOK'
  BY <1>11 DEF SetEnds, TypeOK
<1>12. ASSUME NEW k \in 1 .. BufSize + MaxFails, GetReads(k) PROVE TypeOK'
  <2>1. /\ file.data \in Seq(Unit) /\ pos \in 0 .. Len(file.data)
        /\ k \in Nat /\ k > 0 /\ k <= BufSize /\ k <= Len(file.data) - pos
    BY <1>12, SizesAssumption DEF GetReads, TypeOK, Smaller
  <2>2. buff' = SubSeq(file.data, pos + 1, pos + k) /\ pos + 1 \in Nat \ {0} /\ pos + k \in Int
    BY <1>12, <2>1 DEF GetReads
  <2>3. pos + k <= Len(file.data)
    BY <2>1
  <2>4. buff' \in Seq(Unit)
    BY <2>1, <2>2, <2>3, Part
  <2>5. Len(buff') = IF pos + 1 <= pos + k THEN (pos + k) - (pos + 1) + 1 ELSE 0
    BY <2>1, <2>2, <2>3, Part
  <2>6. Len(buff') = k
    BY <2>1, <2>5
  <2>7. pos' \in 0 .. Len(file.data)
    BY <1>12, <2>1, <2>3 DEF GetReads
  <2> QED
    BY <1>12, <2>1, <2>4, <2>6, <2>7 DEF GetReads, StartOfChunk, TypeOK
<1>13. ASSUME NEW k \in 1 .. BufSize + MaxFails, GetWrites(k) PROVE TypeOK'
  <2>1. /\ buff \in Seq(Unit) /\ written \in Int /\ written < Len(buff) /\ k \in Int
        /\ k <= Len(buff) - written /\ k > 0
    BY <1>13 DEF GetWrites, TypeOK
  <2>2. Rest(written) \in Seq(Unit) /\ Len(Rest(written)) = Len(buff) - written
    BY <2>1, RestRun
  <2>3. SubSeq(Rest(written), 1, k) \in Seq(Unit)
    BY <2>1, <2>2, Prefix
  <2>4. out' \in Seq(Unit)
    BY <1>13, <2>3, Appended DEF GetWrites, TypeOK
  <2>5. written' \in Int /\ written' + fails' >= 0
    BY <1>13, <2>1 DEF GetWrites, TypeOK
  <2>6. pc' = "get_write" => written' < Len(buff')
    BY <1>13, <2>1 DEF GetWrites
  <2>7. pc' \in {"get_write", "get_read"}
    BY <1>13 DEF GetWrites
  <2> QED
    BY <1>13, <2>4, <2>5, <2>6, <2>7 DEF GetWrites, TypeOK
<1>14. ASSUME NEW k \in 1 .. BufSize + MaxFails, SetWrites(k) PROVE TypeOK'
  <2>9. k \in 1 .. Len(buff) /\ written' = written + k
    BY <1>14, Zenon DEF SetWrites
  <2>1. SubSeq(buff, 1, k) \in Seq(Unit)
    BY <2>9, Prefix DEF TypeOK
  <2>2. file'.data = file.data \o SubSeq(buff, 1, k) /\ file'.kind = file.kind
    BY <1>14 DEF SetWrites, TypeOK
  <2>3. file'.data \in Seq(Unit) /\ Len(file'.data) = Len(file.data) + Len(SubSeq(buff, 1, k))
    BY <2>1, <2>2, Appended DEF TypeOK
  <2>4. pos' = 0
    BY <1>14 DEF SetWrites, GetInv
  <2>5. Len(file'.data) \in Nat
    BY <2>3
  <2>6. pos' \in 0 .. Len(file'.data)
    BY <2>4, <2>5
  <2>7. written' \in Int /\ written' + fails' >= 0
    <3>1. UNCHANGED fails
      BY <1>14 DEF SetWrites
    <3> QED
      BY <2>9, <3>1 DEF TypeOK
  <2>8. pc' \in {"set_write", "set_read", "exit_0"}
    BY <1>14 DEF SetWrites
  <2> QED
    BY <1>14, <2>2, <2>3, <2>6, <2>7, <2>8 DEF SetWrites, TypeOK
<1>15. ASSUME NEW k \in 1 .. BufSize + MaxFails, SetReads(k) PROVE TypeOK'
  <2>1. command.message \in Nat /\ taken \in Nat
    BY <1>15, SetCommand DEF SetReads, CommandInv, TypeOK
  <2>2. k \in Nat /\ k <= BufSize /\ taken + 1 \in Nat
    BY <1>15, <2>1, SizesAssumption DEF SetReads, Smaller
  <2>3. buff' \in Seq(Unit)
    BY <1>15, <2>2, UnitsRun DEF SetReads
  <2>4. Len(buff') = k
    BY <1>15, <2>2, UnitsRun DEF SetReads
  <2>5. taken' \in Nat /\ written' = 0
    BY <1>15, <2>1, <2>2 DEF SetReads
  <2> QED
    BY <1>15, <2>2, <2>3, <2>4, <2>5 DEF SetReads, TypeOK
<1>16. CASE UNCHANGED vars
  BY <1>16 DEF vars, TypeOK
<1> QED
  BY <1>1, <1>2, <1>3, <1>4, <1>5, <1>6, <1>7, <1>8, <1>9, <1>10, <1>11, <1>12, <1>13, <1>14, <1>15, <1>16
  DEF Next

\* What get has printed, and what it has in its buffer.
LEMMA GetStep == IInv /\ [Next]_vars => GetInv'
<1> SUFFICES ASSUME IInv, [Next]_vars PROVE GetInv'
  OBVIOUS
<1> USE DEF IInv, Goto, history
<1>1. ASSUME ReadCommand PROVE GetInv'
  BY <1>1 DEF ReadCommand, GetInv, GetIsFile, Done
<1>2. ASSUME ReadCommandFails PROVE GetInv'
  BY <1>2 DEF ReadCommandFails, GetInv, GetIsFile, Done
<1>3. ASSUME GetRefused PROVE GetInv'
  BY <1>3 DEF GetRefused, GetInv, GetIsFile, Done
<1>4. ASSUME GetOpens PROVE GetInv'
  BY <1>4 DEF GetOpens, GetInv, GetIsFile, Printed, Done
<1>5. ASSUME GetEnds PROVE GetInv'
  <2>1. pc = "get_read" /\ pc' = "exit_0" /\ UNCHANGED <<command, pos, file, file0, out, fails>>
    BY <1>5 DEF GetEnds
  <2>2. (fails = 0 /\ ~cut') => pos = Len(file.data)
    BY <1>5 DEF GetEnds
  <2>3. file.data \in Seq(Unit) /\ out \in Seq(Unit)
    BY DEF TypeOK
  <2>4. file = file0
    BY <2>1 DEF CommandInv
  <2>5. ASSUME fails = 0, ~cut' PROVE out = file.data
    <3>1. Len(out) = Len(file.data) /\ \A i \in 1 .. Len(out) : out[i] = file.data[i]
      BY <2>1, <2>2, <2>5 DEF GetInv, Printed
    <3> QED
      BY <2>3, <3>1, SeqEqual
  <2>6. GetIsFile'
    BY <2>1, <2>4, <2>5 DEF GetIsFile, Done
  <2> QED
    BY <2>1, <2>6 DEF GetInv
<1>6. ASSUME GetWriteFails PROVE GetInv'
  <2>1. fails' # 0
    BY <1>6, SizesAssumption DEF GetWriteFails, TypeOK
  <2> QED
    BY <1>6, <2>1 DEF GetWriteFails, GetInv, GetIsFile, Loaded
<1>7. ASSUME GetWritesNothing PROVE GetInv'
  BY <1>7 DEF GetWritesNothing, GetInv, GetIsFile, Done
<1>8. ASSUME SetRefused PROVE GetInv'
  BY <1>8 DEF SetRefused, GetInv, GetIsFile, Done
<1>9. ASSUME SetOpens PROVE GetInv'
  BY <1>9 DEF SetOpens, GetInv, GetIsFile, Done, CommandInv
<1>10. ASSUME SetWriteFails PROVE GetInv'
  BY <1>10 DEF SetWriteFails, GetInv, GetIsFile, Done
<1>11. ASSUME SetEnds PROVE GetInv'
  BY <1>11 DEF SetEnds, GetInv, GetIsFile, Done, CommandInv
<1>12. ASSUME NEW k \in 1 .. BufSize + MaxFails, GetReads(k) PROVE GetInv'
  <2>1. /\ file.data \in Seq(Unit) /\ pos \in Nat /\ k \in Nat /\ k > 0
        /\ pos + k <= Len(file.data) /\ fails \in Nat
    BY <1>12, SizesAssumption DEF GetReads, TypeOK, Smaller
  <2>2. buff' = SubSeq(file.data, pos + 1, pos + k)
    BY <1>12 DEF GetReads
  <2>3. Len(buff') = IF pos + 1 <= pos + k THEN (pos + k) - (pos + 1) + 1 ELSE 0
    BY <2>1, <2>2, Part
  <2>4. Len(buff') = k
    BY <2>1, <2>3
  <2>5. \A i \in 1 .. (pos + k) - (pos + 1) + 1 :
          SubSeq(file.data, pos + 1, pos + k)[i] = file.data[(pos + 1) + i - 1]
    BY <2>1, Part
  <2>6. \A i \in 1 .. k : buff'[i] = file.data[pos' - Len(buff') + i]
    <3>1. SUFFICES ASSUME NEW i \in 1 .. k
                   PROVE  buff'[i] = file.data[pos' - Len(buff') + i]
      OBVIOUS
    <3>2. (pos + k) - (pos + 1) + 1 = k
      BY <2>1
    <3>3. pos' - Len(buff') + i = (pos + 1) + i - 1
      BY <1>12, <2>1, <2>4 DEF GetReads
    <3> QED
      BY <2>2, <2>5, <3>2, <3>3
  <2>7. Loaded'
    BY <1>12, <2>1, <2>4, <2>6 DEF GetReads, Loaded
  <2>8. ASSUME fails = 0 PROVE Printed(pos - Len(buff) + written)'
    <3>1. pos' - Len(buff') + written' = pos
      BY <1>12, <2>1, <2>4 DEF GetReads, StartOfChunk
    <3>2. Len(out) = pos /\ \A i \in 1 .. pos : out[i] = file.data[i]
      BY <1>12, <2>8 DEF GetReads, GetInv, Printed
    <3>3. UNCHANGED <<out, file>>
      BY <1>12 DEF GetReads
    <3> QED
      BY <3>1, <3>2, <3>3 DEF Printed
  <2> QED
    BY <1>12, <2>7, <2>8 DEF GetReads, GetInv, GetIsFile, Done
<1>13. ASSUME NEW k \in 1 .. BufSize + MaxFails, GetWrites(k) PROVE GetInv'
  <2>1. /\ buff \in Seq(Unit) /\ written \in Int /\ written < Len(buff) /\ k \in Nat
        /\ k <= Len(buff) - written /\ k > 0 /\ written + fails >= 0 /\ fails \in Nat
        /\ out \in Seq(Unit) /\ pos \in Nat
    BY <1>13, SizesAssumption DEF GetWrites, TypeOK
  <2> DEFINE w == SubSeq(Rest(written), 1, k)
             start == pos - Len(buff) + written
  <2>2. UNCHANGED <<buff, file, pos, file0, fails, cut, command>> /\ written' = written + k
    BY <1>13 DEF GetWrites
  <2>3. pc = "get_write" /\ pc' \in {"get_write", "get_read"} /\ Loaded
    BY <1>13 DEF GetWrites, GetInv
  <2>4. pc' = "get_read" => written' = Len(buff)
    BY <1>13, <2>1 DEF GetWrites
  <2>5. ASSUME fails = 0
        PROVE  Len(out') = start + k /\ \A i \in 1 .. start + k : out'[i] = file'.data[i]
    <3>1. Rest(written) \in Seq(Unit)
      BY <2>1, RestRun
    <3>2. Len(Rest(written)) = Len(buff) - written
      BY <2>1, RestRun
    <3>3. \A j \in 1 .. Len(buff) - written : Rest(written)[j] = buff[written + j]
      BY <2>1, <2>5, RestRun
    <3>4. w \in Seq(Unit)
      BY <2>1, <3>1, <3>2, Prefix
    <3>5. Len(w) = k
      BY <2>1, <3>1, <3>2, Prefix
    <3>6. \A i \in 1 .. k : w[i] = Rest(written)[i]
      BY <2>1, <3>1, <3>2, Prefix
    <3>7. out' = out \o w
      BY <1>13 DEF GetWrites
    <3> HIDE DEF w
    <3>8. Len(out) = start /\ \A i \in 1 .. start : out[i] = file.data[i]
      BY <2>3, <2>5 DEF GetInv, Printed
    <3>9. Len(out') = start + k
      BY <2>1, <3>4, <3>5, <3>7, <3>8, Appended
    <3>10. \A i \in 1 .. Len(out) : out'[i] = out[i]
      BY <2>1, <3>4, <3>7, Appended
    <3>11. \A i \in Len(out) + 1 .. Len(out) + Len(w) : out'[i] = w[i - Len(out)]
      BY <2>1, <3>4, <3>7, Appended
    <3>12. ASSUME NEW i \in start + 1 .. start + k PROVE out'[i] = file.data[i]
      <4> DEFINE j == i - start
      <4>1. start \in Nat
        BY <2>1, <3>8
      <4> HIDE DEF start
      <4>2. j \in 1 .. k /\ j \in 1 .. Len(buff) - written
        BY <2>1, <4>1
      <4>3. out'[i] = w[j]
        BY <3>5, <3>8, <3>11, <4>1
      <4>4. w[j] = buff[written + j]
        BY <3>3, <3>6, <4>2
      <4>5. written + j \in 1 .. Len(buff)
        BY <2>1, <2>5, <4>2
      <4>6. buff[written + j] = file.data[pos - Len(buff) + (written + j)]
        BY <2>3, <4>5 DEF Loaded
      <4>7. pos - Len(buff) + (written + j) = i
        BY <2>1, <4>1 DEF start
      <4> QED
        BY <4>3, <4>4, <4>6, <4>7
    <3>13. start \in Nat
      BY <2>1, <3>8
    <3> HIDE DEF start
    <3>14. \A i \in 1 .. start + k : out'[i] = file.data[i]
      <4>1. SUFFICES ASSUME NEW i \in 1 .. start + k PROVE out'[i] = file.data[i]
        OBVIOUS
      <4>2. CASE i \in 1 .. start
        BY <3>8, <3>10, <4>2
      <4>3. CASE i \in start + 1 .. start + k
        BY <3>12, <4>3
      <4> QED
        BY <2>1, <3>13, <4>2, <4>3
    <3> QED
      BY <2>2, <3>9, <3>14
  <2>6. Loaded'
    BY <2>2, <2>3 DEF Loaded
  <2>7. start + k = pos' - Len(buff') + written'
    BY <2>1, <2>2
  <2>8. pc' = "get_read" => start + k = pos'
    BY <2>1, <2>2, <2>4, <2>7
  <2> HIDE DEF start
  <2>9. (pc' = "get_write" /\ fails' = 0) => Printed(pos - Len(buff) + written)'
    BY <2>2, <2>5, <2>7 DEF Printed
  <2>10. (pc' = "get_read" /\ fails' = 0) => Printed(pos)'
    BY <2>2, <2>5, <2>8 DEF Printed
  <2> QED
    BY <2>3, <2>6, <2>9, <2>10 DEF GetInv, GetIsFile, Done
<1>14. ASSUME NEW k \in 1 .. BufSize + MaxFails, SetWrites(k) PROVE GetInv'
  BY <1>14 DEF SetWrites, GetInv, GetIsFile, Done, CommandInv
<1>15. ASSUME NEW k \in 1 .. BufSize + MaxFails, SetReads(k) PROVE GetInv'
  BY <1>15 DEF SetReads, GetInv, GetIsFile, Done
<1>16. CASE UNCHANGED vars
  BY <1>16 DEF vars, GetInv, GetIsFile, Loaded, Printed, Done
<1> QED
  BY <1>1, <1>2, <1>3, <1>4, <1>5, <1>6, <1>7, <1>8, <1>9, <1>10, <1>11, <1>12, <1>13, <1>14, <1>15, <1>16
  DEF Next

\* What set has stored, and what it has in its buffer.
LEMMA SetStep == IInv /\ [Next]_vars => SetInv'
<1> SUFFICES ASSUME IInv, [Next]_vars PROVE SetInv'
  OBVIOUS
<1> USE DEF IInv, Goto, history
<1>1. ASSUME ReadCommand PROVE SetInv'
  <2>1. CASE command.name = "set"
    <3>1. /\ command.head \in Nat /\ command.message \in Nat
          /\ BufSize \in Nat /\ InBuffer = BufSize - command.head
      BY <2>1, SetCommand, SizesAssumption DEF InBuffer, TypeOK
    <3>2. /\ pc' = "set" /\ UNCHANGED <<command, written, short, cut>>
          /\ taken' = (IF InBuffer < command.message THEN InBuffer ELSE command.message)
      BY <1>1, <2>1 DEF ReadCommand
    <3>3. full' = (InBuffer <= command.message)
      BY <1>1, <2>1 DEF ReadCommand
    <3>4. ~full' => taken' = command.message
      <4>1. ~(InBuffer <= command.message) => taken' = command.message
        BY <3>1, <3>2
      <4> QED
        BY <3>3, <4>1, Zenon
    <3>5. taken' <= command.message
      BY <3>1, <3>2
    <3>6. written = 0 /\ ~short /\ ~cut
      BY <1>1 DEF ReadCommand, SetInv
    <3>7. InBuffer' = InBuffer
      BY <3>2 DEF InBuffer
    <3> HIDE DEF InBuffer
    <3> QED
      BY <3>2, <3>4, <3>5, <3>6, <3>7 DEF SetInv, Done
  <2>2. CASE command.name # "set"
    BY <1>1, <2>2 DEF ReadCommand, SetInv, Done
  <2> QED
    BY <2>1, <2>2
<1>2. ASSUME ReadCommandFails PROVE SetInv'
  BY <1>2 DEF ReadCommandFails, SetInv, Done
<1>3. ASSUME GetRefused PROVE SetInv'
  BY <1>3 DEF GetRefused, SetInv, Done
<1>4. ASSUME GetOpens PROVE SetInv'
  BY <1>4 DEF GetOpens, SetInv, Done
<1>5. ASSUME GetEnds PROVE SetInv'
  BY <1>5 DEF GetEnds, SetInv, Done, CommandInv
<1>6. ASSUME GetWriteFails PROVE SetInv'
  BY <1>6 DEF GetWriteFails, SetInv, Done
<1>7. ASSUME GetWritesNothing PROVE SetInv'
  BY <1>7 DEF GetWritesNothing, SetInv, Done
<1>8. ASSUME SetRefused PROVE SetInv'
  BY <1>8 DEF SetRefused, SetInv, Done
<1>9. ASSUME SetOpens PROVE SetInv'
  <2>1. /\ command.name = "set" /\ pc = "set" /\ file'.data = << >>
        /\ UNCHANGED <<command, full, taken, written, short, cut>>
    BY <1>9 DEF SetOpens, CommandInv
  <2>2. /\ command.head \in Nat /\ command.message \in Nat /\ command.length \in Int
        /\ BufSize \in Nat /\ taken \in Nat
    BY <2>1, SetCommand, SizesAssumption DEF TypeOK
  <2>3. /\ taken = (IF BufSize - command.head < command.message
                    THEN BufSize - command.head ELSE command.message)
        /\ written = 0
    BY <2>1 DEF SetInv, InBuffer
  <2>4. taken <= BufSize - command.head
    BY <2>2, <2>3
  <2>5. Len(buff') = IF MessageLength > 0 THEN MessageLength ELSE 0
    BY <1>9, <2>1, <2>4, FirstChunk DEF SetOpens, TypeOK
  <2>6. command.extra = 0 => \A i \in 1 .. Len(buff') : buff'[i] = <<"message", i>>
    BY <1>9, <2>1, <2>4, FirstChunk DEF SetOpens, TypeOK
  <2>7. pc' = IF MessageLength > 0 THEN "set_write" ELSE "exit_0"
    BY <1>9 DEF SetOpens
  <2>8. HeadFits => taken <= command.message /\ (~full => taken = command.message)
    BY <2>1 DEF SetInv
  <2>9. Wanted = IF command.length < 0 THEN 0
                 ELSE IF command.length < command.message THEN command.length
                 ELSE command.message
    BY DEF Wanted, Smaller
  <2>10. HeadFits => MessageLength = IF command.length < taken THEN command.length ELSE taken
    BY <2>2 DEF HeadFits, MessageLength, Smaller
  <2>11. Whole' <=> Whole
    BY <2>1 DEF Whole, HeadFits, InBuffer
  <2>12. (Whole /\ full) => command.length >= taken
    BY <2>2, <2>3 DEF Whole, InBuffer
  <2>13. ASSUME Whole, MessageLength > 0 PROVE Target = Len(buff')
    BY <2>2, <2>5, <2>8, <2>9, <2>10, <2>12, <2>13 DEF Whole, Target
  <2>14. ASSUME Whole, ~(MessageLength > 0)
         PROVE  Target = 0 /\ (full => taken = command.message)
    <3>1. command.head < BufSize
      BY <2>14 DEF Whole, HeadFits
    <3>2. command.length <= 0 \/ taken = 0
      BY <2>2, <2>10, <2>14 DEF Whole
    <3>3. taken = 0 => command.message = 0
      BY <2>2, <2>3, <3>1
    <3>4. Wanted = 0
      BY <2>2, <2>9, <3>2, <3>3
    <3>5. full => taken = 0
      BY <2>2, <2>12, <2>14, <3>2
    <3> QED
      BY <3>3, <3>4, <3>5 DEF Target
  <2>15. UNCHANGED <<Wanted, HeadFits, Target>>
    BY <2>1 DEF Wanted, HeadFits, Target
  <2>16. ASSUME Whole, pc' = "set_write"
         PROVE  /\ IsMessage(file'.data, Target - Len(buff'))
                /\ IsMessageFrom(buff', Target - Len(buff') + 1)
    <3>1. MessageLength > 0
      BY <2>7, <2>16
    <3>2. Target = Len(buff') /\ Len(buff') \in Nat
      BY <2>2, <2>5, <2>10, <2>13, <2>16, <3>1 DEF Whole
    <3>3. Target - Len(buff') = 0
      BY <3>2
    <3>4. \A i \in 1 .. Len(buff') : buff'[i] = <<"message", 0 + 1 + i - 1>>
      <4>1. \A i \in 1 .. Len(buff') : buff'[i] = <<"message", i>>
        BY <2>6, <2>16 DEF Whole, HeadFits
      <4>2. \A i \in 1 .. Len(buff') : 0 + 1 + i - 1 = i
        BY <3>2
      <4> QED
        BY <4>1, <4>2
    <3> QED
      BY <2>1, <3>3, <3>4 DEF IsMessage, IsMessageFrom
  <2>17. ASSUME Whole, pc' = "exit_0"
         PROVE  /\ IsMessage(file'.data, Target)
                /\ full => taken <= command.message /\ taken = command.message
    BY <2>1, <2>2, <2>7, <2>14, <2>17 DEF IsMessage
  <2>18. pc' = "set_write" \/ pc' = "exit_0"
    BY <2>7
  <2> QED
    BY <2>1, <2>3, <2>8, <2>11, <2>15, <2>16, <2>17, <2>18 DEF SetInv, Done
<1>10. ASSUME SetWriteFails PROVE SetInv'
  BY <1>10 DEF SetWriteFails, SetInv, Done
<1>11. ASSUME SetEnds PROVE SetInv'
  <2>1. /\ pc = "set_read" /\ pc' = "exit_0"
        /\ UNCHANGED <<command, full, file, taken, short>>
    BY <1>11 DEF SetEnds
  <2>2. ~cut' => taken = command.message /\ ~cut
    BY <1>11 DEF SetEnds
  <2>3. full /\ command.name = "set"
    BY <2>1 DEF SetInv, CommandInv
  <2>4. ASSUME Whole' PROVE IsMessage(file.data, Target) /\ taken <= command.message
    <3>1. Whole
      BY <2>1, <2>4 DEF Whole, HeadFits, InBuffer
    <3> QED
      BY <2>1, <2>3, <3>1 DEF SetInv, Whole, Target
  <2>5. UNCHANGED Target
    BY <2>1, <2>3 DEF Target
  <2> QED
    BY <2>1, <2>2, <2>4, <2>5 DEF SetInv, Done
<1>12. ASSUME NEW k \in 1 .. BufSize + MaxFails, GetReads(k) PROVE SetInv'
  BY <1>12 DEF GetReads, SetInv, Done
<1>13. ASSUME NEW k \in 1 .. BufSize + MaxFails, GetWrites(k) PROVE SetInv'
  BY <1>13 DEF GetWrites, SetInv, Done
<1>14. ASSUME NEW k \in 1 .. BufSize + MaxFails, SetWrites(k) PROVE SetInv'
  <2> DEFINE M == Target
  <2>1. /\ pc = "set_write" /\ k \in 1 .. Len(buff) /\ written' = written + k
        /\ short' = (short \/ k < Len(buff))
        /\ UNCHANGED <<command, full, taken, cut>>
    BY <1>14, Zenon DEF SetWrites
  <2>2. pc' = IF ~(written + k >= Len(buff)) THEN "set_write"
              ELSE IF full THEN "set_read" ELSE "exit_0"
    BY <1>14, Zenon DEF SetWrites, AllWritten
  <2>3. UNCHANGED <<Target, HeadFits>>
    BY <2>1 DEF Wanted, HeadFits, Target
  <2>4. Whole' => Whole /\ ~(k < Len(buff))
    BY <2>1, Zenon DEF Whole, HeadFits, InBuffer
  <2>5. ASSUME Whole' PROVE IsMessage(file'.data, M) /\ pc' # "set_write"
    <3>1. /\ written = 0
          /\ IsMessage(file.data, M - Len(buff))
          /\ IsMessageFrom(buff, M - Len(buff) + 1)
      BY <2>1, <2>4, <2>5 DEF SetInv
    <3>2. buff \in Seq(Unit) /\ file.data \in Seq(Unit)
      BY DEF TypeOK
    <3>3. k = Len(buff)
      BY <2>1, <2>4, <2>5, <3>2
    <3>4. file'.data = file.data \o SubSeq(buff, 1, k)
      BY <1>14 DEF SetWrites, TypeOK
    <3>5. file'.data = file.data \o buff
      BY <3>2, <3>3, <3>4, SubSeqIsWhole
    <3>6. Len(file'.data) = Len(file.data) + Len(buff)
      BY <3>2, <3>5, Appended
    <3>7. \A i \in 1 .. Len(file.data) : file'.data[i] = file.data[i]
      BY <3>2, <3>5, Appended
    <3>8. \A i \in Len(file.data) + 1 .. Len(file.data) + Len(buff) :
            file'.data[i] = buff[i - Len(file.data)]
      BY <3>2, <3>5, Appended
    <3> HIDE DEF M
    <3>9. /\ Len(file.data) = M - Len(buff)
          /\ \A i \in 1 .. M - Len(buff) : file.data[i] = <<"message", i>>
          /\ \A i \in 1 .. Len(buff) : buff[i] = <<"message", M - Len(buff) + 1 + i - 1>>
      BY <3>1 DEF IsMessage, IsMessageFrom
    <3>10. M \in Int
      <4>1. taken \in Nat /\ command \in Commands
        BY DEF TypeOK
      <4>2. command.name = "set"
        BY <2>1 DEF CommandInv
      <4>3. command.message \in Nat
        BY <4>1, <4>2, SetCommand
      <4>4. command.length \in Int
        BY <4>1, <4>2, SetCommand
      <4> QED
        BY <4>1, <4>3, <4>4 DEF M, Target, Wanted, Smaller
    <3>11. Len(buff) \in Nat /\ Len(file.data) \in Nat
      BY <3>2
    <3>12. Len(file'.data) = M
      BY <3>6, <3>9, <3>10, <3>11
    <3>13. ASSUME NEW i \in 1 .. M PROVE file'.data[i] = <<"message", i>>
      <4>1. CASE i \in 1 .. Len(file.data)
        BY <3>7, <3>9, <4>1
      <4>2. CASE i \in Len(file.data) + 1 .. Len(file.data) + Len(buff)
        <5> DEFINE j == i - Len(file.data)
        <5>1. j \in 1 .. Len(buff)
          BY <3>11, <4>2
        <5>2. M - Len(buff) + 1 + j - 1 = i
          BY <3>9, <3>10, <3>11, <4>2
        <5>3. file'.data[i] = buff[j]
          BY <3>8, <4>2
        <5> HIDE DEF j
        <5> QED
          BY <3>9, <5>1, <5>2, <5>3
      <4> QED
        BY <3>9, <3>10, <3>11, <4>1, <4>2
    <3>14. pc' # "set_write"
      BY <2>2, <3>1, <3>3, <3>11
    <3> QED
      BY <3>12, <3>13, <3>14 DEF IsMessage
  <2>6. pc' \in {"set_write", "set_read", "exit_0"} /\ (pc' = "set_read" => full)
        /\ (pc' = "exit_0" => ~full)
    BY <2>2
  <2>7. HeadFits => taken <= command.message /\ (~full => taken = command.message)
    BY <2>1 DEF SetInv
  <2>8. (pc' = "set_read" /\ Whole') => IsMessage(file'.data, taken')
    BY <2>1, <2>5, <2>6 DEF Target
  <2>9. UNCHANGED <<command, full, taken>>
    BY <2>1
  <2> HIDE DEF M
  <2>10. Whole' => IsMessage(file'.data, Target') /\ pc' # "set_write"
    BY <2>3, <2>5 DEF M
  <2> QED
    BY <2>3, <2>6, <2>7, <2>8, <2>9, <2>10, Zenon DEF SetInv, Done
<1>15. ASSUME NEW k \in 1 .. BufSize + MaxFails, SetReads(k) PROVE SetInv'
  <2>1. /\ pc = "set_read" /\ pc' = "set_write" /\ buff' = Units("message", taken + 1, k)
        /\ taken' = taken + k /\ written' = 0
        /\ UNCHANGED <<command, full, file, short, cut>>
    BY <1>15 DEF SetReads
  <2>2. /\ command.message \in Nat /\ taken \in Nat /\ k \in Nat
        /\ k <= command.message - taken /\ full
    BY <1>15, SetCommand, SizesAssumption
    DEF SetReads, Smaller, CommandInv, SetInv, TypeOK
  <2>3. taken + 1 \in Nat
    BY <2>2
  <2>4. Len(buff') = k
    BY <2>1, <2>2, <2>3, UnitsRun
  <2>5. \A i \in 1 .. k : buff'[i] = <<"message", taken + 1 + i - 1>>
    BY <2>1, <2>2, <2>3, UnitsRun
  <2>6. taken' - Len(buff') = taken /\ taken' - Len(buff') + 1 = taken + 1
    BY <2>1, <2>2, <2>4
  <2>7. IsMessageFrom(buff', taken' - Len(buff') + 1)
    BY <2>4, <2>5, <2>6 DEF IsMessageFrom
  <2>8. Whole => IsMessage(file'.data, taken' - Len(buff'))
    BY <2>1, <2>6 DEF SetInv
  <2>9. Whole' <=> Whole
    BY <2>1 DEF Whole, HeadFits, InBuffer
  <2>10. taken' <= command.message
    BY <2>1, <2>2
  <2>11. Target' = taken'
    BY <2>1, <2>2 DEF Target
  <2> QED
    BY <2>1, <2>2, <2>7, <2>8, <2>9, <2>10, <2>11, Zenon DEF SetInv, Done
<1>16. CASE UNCHANGED vars
  BY <1>16 DEF vars, SetInv, Whole, HeadFits, Wanted, Target, Done, InBuffer
<1> QED
  BY <1>1, <1>2, <1>3, <1>4, <1>5, <1>6, <1>7, <1>8, <1>9, <1>10, <1>11, <1>12, <1>13, <1>14, <1>15, <1>16
  DEF Next

\* The invariant holds at the start.
LEMMA InitInv == Init => IInv
<1> SUFFICES ASSUME Init PROVE IInv
  OBVIOUS
<1>1. TypeOK
  <2>1. file \in [kind : Kinds \cup {"file"}, data : Seq(Unit)]
    <3>1. CASE file \in [kind : Kinds \ {"absent", "dir", "uncreatable"},
                         data : {Units("file", 1, n) : n \in 0 .. MaxFile}]
      <4>1. \A n \in 0 .. MaxFile : Units("file", 1, n) \in Seq(Unit)
        BY UnitsRun, SizesAssumption
      <4>2. PICK n \in 0 .. MaxFile : file.data = Units("file", 1, n)
        BY <3>1
      <4>3. file.data \in Seq(Unit)
        BY <4>1, <4>2
      <4> QED
        BY <3>1, <4>3
    <3>2. CASE file \in [kind : Kinds \cap {"absent", "dir", "uncreatable"}, data : {<< >>}]
      <4>1. << >> \in Seq(Unit)
        OBVIOUS
      <4>2. file.data = << >>
        BY <3>2
      <4> QED
        BY <3>2, <4>1, <4>2
    <3> QED
      BY <3>1, <3>2 DEF Init
  <2>2. pos \in 0 .. Len(file.data)
    <3>1. Len(file.data) \in Nat
      BY <2>1
    <3> QED
      BY <3>1 DEF Init
  <2>3. full \in BOOLEAN
    BY Zenon DEF Init
  <2> QED
    BY <2>1, <2>2, <2>3, SizesAssumption DEF Init, TypeOK
<1>2. CommandInv
  BY DEF Init, CommandInv, RefusedTouchesNothing
<1>3. GetInv
  BY DEF Init, GetInv, GetIsFile, Done
<1>4. SetInv
  BY DEF Init, SetInv, Done
<1> QED
  BY <1>1, <1>2, <1>3, <1>4 DEF IInv

\* Every step keeps the invariant.
LEMMA StepInv == IInv /\ [Next]_vars => IInv'
  BY TypeStep, CommandStep, GetStep, SetStep DEF IInv

\* The invariant holds always.
LEMMA Invariance == Spec => []IInv
  BY InitInv, StepInv, PTL DEF Spec

-----------------------------------------------------------------------------
(***************************************************************************)
(* The theorems.                                                           *)
(***************************************************************************)

\* The types: get never writes beyond the end of its buffer, and below its beginning by
\* no more units than writes have failed.
THEOREM TypesCorrect == Spec => []TypeOK
<1>1. IInv => TypeOK
  BY DEF IInv
<1> QED
  BY <1>1, Invariance, PTL

\* Without a failure get prints the file, in whatever pieces read and write move it.
THEOREM GetPrintsTheFile == Spec => []GetIsFile
<1>1. IInv => GetIsFile
  BY DEF IInv, GetInv
<1> QED
  BY <1>1, Invariance, PTL

\* Without a short write set stores its message, from the buffer of the command and
\* from the reads that follow, as far as those succeed.
THEOREM SetStoresTheMessage == Spec => []SetIsMessage
<1>1. IInv => SetIsMessage
  <2>1. SUFFICES ASSUME IInv, Done("set"), Whole
                 PROVE  \E n \in 0 .. command.message :
                          /\ file.data = Units("message", 1, n)
                          /\ cut \/ n = (IF full THEN command.message ELSE Wanted)
    BY DEF SetIsMessage, Whole
  <2>2. /\ IsMessage(file.data, Target) /\ file.data \in Seq(Unit)
        /\ full => taken <= command.message /\ (cut \/ taken = command.message)
    BY <2>1 DEF IInv, SetInv, TypeOK
  <2>3. Target \in Nat
    BY <2>2 DEF IsMessage
  <2>4. Units("message", 1, Target) \in Seq(Unit)
    BY <2>3, UnitsRun
  <2>5. Len(Units("message", 1, Target)) = Target
    BY <2>3, UnitsRun
  <2>6. \A i \in 1 .. Target : Units("message", 1, Target)[i] = <<"message", 1 + i - 1>>
    BY <2>3, UnitsRun
  <2>7. \A i \in 1 .. Target : file.data[i] = Units("message", 1, Target)[i]
    <3>1. \A i \in 1 .. Target : 1 + i - 1 = i
      BY <2>3
    <3> QED
      BY <2>2, <2>6, <3>1 DEF IsMessage
  <2>8. file.data = Units("message", 1, Target)
    BY <2>2, <2>4, <2>5, <2>7, SeqEqual DEF IsMessage
  <2>9. command.message \in Nat /\ command.length \in Int
    BY <2>1, SetCommand DEF IInv, TypeOK, Done
  <2>10. Target <= command.message
    BY <2>2, <2>9 DEF Target, Wanted, Smaller
  <2>11. cut \/ Target = (IF full THEN command.message ELSE Wanted)
    BY <2>2 DEF Target
  <2>12. Target \in 0 .. command.message
    BY <2>3, <2>9, <2>10
  <2> QED
    BY <2>8, <2>11, <2>12
<1> QED
  BY <1>1, Invariance, PTL

\* A command that is refused has not touched the file.
THEOREM RefusalIsHarmless == Spec => []RefusedTouchesNothing
<1>1. IInv => RefusedTouchesNothing
  BY DEF IInv, CommandInv
<1> QED
  BY <1>1, Invariance, PTL

-----------------------------------------------------------------------------
(***************************************************************************)
(* What a get whose writes fail prints, and what a set whose writes fall   *)
(* short stores.                                                           *)
(***************************************************************************)

\* The first n units of d are among those of s, in their order.
Embeds(d, n, s) ==
  \E at \in [1 .. n -> 1 .. Len(s)] :
    /\ \A i \in 1 .. n : s[at[i]] = d[i]
    /\ \A i, j \in 1 .. n : i < j => at[i] < at[j]

\* How many units of the file the writes of a get have passed, those below the buffer
\* not counted.
Passed == pos - Len(buff) + (IF written > 0 THEN written ELSE 0)

LossInv ==
  /\ pc = "get_read" => Embeds(file.data, pos, out)
  /\ pc = "get_write" => Embeds(file.data, Passed, out)
  /\ (Done("get") /\ ~cut) => Embeds(file0.data, Len(file0.data), out)
  /\ Done("get") => file = file0

\* Until the last chunk is written, the file lacks no more than what is left of it.
LengthInv ==
  (command.name = "set" /\ HeadFits /\ command.length > 0) =>
    /\ pc = "set_write" =>
         Len(file.data) >= Smaller(command.length, taken) - Len(buff) + written
    /\ pc = "set_read" => Len(file.data) >= Smaller(command.length, taken)
    /\ SetNoShorter

\* Units that were found stay found when fewer are looked for.
LEMMA EmbedsFewer ==
  ASSUME NEW d, NEW s, NEW n \in Nat, NEW m \in Nat, m <= n, Embeds(d, n, s)
  PROVE  Embeds(d, m, s)
<1>1. PICK at \in [1 .. n -> 1 .. Len(s)] :
        /\ \A i \in 1 .. n : s[at[i]] = d[i]
        /\ \A i, j \in 1 .. n : i < j => at[i] < at[j]
  BY DEF Embeds
<1> DEFINE few == [i \in 1 .. m |-> at[i]]
<1>2. \A i \in 1 .. m : i \in 1 .. n
  OBVIOUS
<1>3. few \in [1 .. m -> 1 .. Len(s)]
  BY <1>2
<1>4. \A i \in 1 .. m : s[few[i]] = d[i]
  BY <1>1, <1>2
<1>5. \A i, j \in 1 .. m : i < j => few[i] < few[j]
  BY <1>1, <1>2
<1> HIDE DEF few
<1> QED
  BY <1>3, <1>4, <1>5 DEF Embeds

\* None are to be found.
LEMMA EmbedsNone ==
  ASSUME NEW d, NEW s
  PROVE  Embeds(d, 0, s)
<1> DEFINE none == [i \in 1 .. 0 |-> 1]
<1>1. \A i : i \notin 1 .. 0
  OBVIOUS
<1>2. none \in [1 .. 0 -> 1 .. Len(s)]
  BY <1>1
<1> HIDE DEF none
<1> QED
  BY <1>1, <1>2, Zenon DEF Embeds

\* Units are printed whose end, after the first o, are the next of the file.
LEMMA EmbedsMore ==
  ASSUME NEW d, NEW n \in Nat, NEW s \in Seq(Unit), NEW t \in Seq(Unit),
         NEW o \in Nat, o <= Len(t),
         Embeds(d, n, s), \A j \in 1 .. Len(t) - o : t[o + j] = d[n + j]
  PROVE  Embeds(d, n + (Len(t) - o), s \o t)
<1>1. PICK at \in [1 .. n -> 1 .. Len(s)] :
        /\ \A i \in 1 .. n : s[at[i]] = d[i]
        /\ \A i, j \in 1 .. n : i < j => at[i] < at[j]
  BY DEF Embeds
<1>2. Len(s) \in Nat /\ Len(t) \in Nat
  OBVIOUS
<1> DEFINE m == n + (Len(t) - o)
           r == s \o t
           more == [i \in 1 .. m |-> IF i <= n THEN at[i] ELSE Len(s) + o + (i - n)]
<1>3. /\ Len(r) = Len(s) + Len(t)
      /\ \A i \in 1 .. Len(s) : r[i] = s[i]
      /\ \A i \in Len(s) + 1 .. Len(s) + Len(t) : r[i] = t[i - Len(s)]
  BY Appended
<1> HIDE DEF r
<1>4. m \in Nat
  BY <1>2
<1>5. ASSUME NEW i \in 1 .. m, i <= n
      PROVE  /\ i \in 1 .. n /\ more[i] = at[i]
             /\ at[i] \in 1 .. Len(s) /\ at[i] \in 1 .. Len(r) /\ r[at[i]] = d[i]
  <2>1. i \in 1 .. n /\ more[i] = at[i]
    BY <1>5
  <2>2. at[i] \in 1 .. Len(s)
    BY <1>1, <2>1
  <2>3. at[i] \in 1 .. Len(r)
    BY <1>2, <1>3, <2>2
  <2> QED
    BY <1>1, <1>3, <2>1, <2>2, <2>3
<1>6. ASSUME NEW i \in 1 .. m, ~(i <= n)
      PROVE  /\ more[i] = Len(s) + o + (i - n)
             /\ more[i] \in 1 .. Len(r) /\ r[more[i]] = d[i]
  <2> DEFINE p == Len(s) + o + (i - n)
  <2>1. more[i] = p
    BY <1>6
  <2>2. i - n \in 1 .. Len(t) - o /\ n + (i - n) = i
    BY <1>2, <1>6
  <2>3. p \in Len(s) + 1 .. Len(s) + Len(t) /\ p - Len(s) = o + (i - n)
    BY <1>2, <2>2
  <2>4. r[p] = t[o + (i - n)]
    BY <1>3, <2>3
  <2>5. t[o + (i - n)] = d[i]
    <3>1. t[o + (i - n)] = d[n + (i - n)]
      BY <2>2, Zenon
    <3> QED
      BY <2>2, <3>1
  <2>6. p \in 1 .. Len(r)
    BY <1>2, <1>3, <2>3
  <2> QED
    BY <2>1, <2>4, <2>5, <2>6
<1> HIDE DEF m
<1>7. \A i \in 1 .. m : more[i] \in 1 .. Len(r) /\ r[more[i]] = d[i]
  BY <1>5, <1>6
<1>8. ASSUME NEW i \in 1 .. m, NEW j \in 1 .. m, i < j PROVE more[i] < more[j]
  <2>1. CASE j <= n
    <3>1. i <= n
      BY <1>4, <1>8, <2>1
    <3>2. /\ i \in 1 .. n /\ more[i] = at[i]
          /\ j \in 1 .. n /\ more[j] = at[j]
      BY <1>5, <2>1, <3>1
    <3> QED
      BY <1>1, <1>8, <3>2
  <2>2. CASE i <= n /\ ~(j <= n)
    <3>1. more[i] = at[i] /\ at[i] \in 1 .. Len(s)
      BY <1>5, <2>2
    <3>2. more[j] = Len(s) + o + (j - n)
      BY <1>6, <2>2
    <3> HIDE DEF more
    <3> QED
      BY <1>2, <1>4, <2>2, <3>1, <3>2
  <2>3. CASE ~(i <= n)
    <3>1. ~(j <= n)
      BY <1>4, <1>8, <2>3
    <3>2. more[i] = Len(s) + o + (i - n) /\ more[j] = Len(s) + o + (j - n)
      BY <1>6, <2>3, <3>1
    <3> HIDE DEF more
    <3> QED
      BY <1>2, <1>4, <1>8, <3>2
  <2> QED
    BY <2>1, <2>2, <2>3
<1>9. more \in [1 .. m -> 1 .. Len(r)]
  BY <1>7
<1> HIDE DEF more
<1>10. Embeds(d, m, r)
  BY <1>7, <1>8, <1>9 DEF Embeds
<1> QED
  BY <1>10 DEF m, r

\* What a write that begins below the buffer prints of the buffer itself.
LEMMA RestOfBuffer ==
  ASSUME buff \in Seq(Unit), NEW i \in Int, i < Len(buff), NEW k \in 1 .. Len(buff) - i
  PROVE  /\ SubSeq(Rest(i), 1, k) \in Seq(Unit)
         /\ Len(SubSeq(Rest(i), 1, k)) = k
         /\ \A j \in 1 .. k : i + j >= 1 => SubSeq(Rest(i), 1, k)[j] = buff[i + j]
<1>1. Rest(i) \in Seq(Unit) /\ Len(Rest(i)) = Len(buff) - i
  BY RestRun
<1>2. Len(buff) \in Nat /\ k \in Nat /\ k > 0
  OBVIOUS
<1>3. \A j \in 1 .. Len(buff) - i : i + j >= 1 => Rest(i)[j] = buff[i + j]
  BY <1>2 DEF Rest
<1>4. SubSeq(Rest(i), 1, k) \in Seq(Unit)
  BY <1>1, <1>2, Prefix
<1>5. Len(SubSeq(Rest(i), 1, k)) = k
  BY <1>1, <1>2, Prefix
<1>6. \A j \in 1 .. k : SubSeq(Rest(i), 1, k)[j] = Rest(i)[j]
  BY <1>1, <1>2, Prefix
<1>7. \A j \in 1 .. k : j \in 1 .. Len(buff) - i
  BY <1>2
<1> QED
  BY <1>3, <1>4, <1>5, <1>6, <1>7, Zenon

\* Get: a write that fails repeats units or prints others, and none is passed over.
LEMMA LossStep == IInv /\ IInv' /\ LossInv /\ [Next]_vars => LossInv'
<1> SUFFICES ASSUME IInv, IInv', LossInv, [Next]_vars PROVE LossInv'
  OBVIOUS
<1> USE DEF Goto, history
<1>1. ASSUME NEW k \in 1 .. BufSize + MaxFails, GetReads(k) PROVE LossInv'
  <2>1. /\ pc = "get_read" /\ pc' = "get_write" /\ pos' = pos + k /\ written' = 0
        /\ UNCHANGED <<file, out>>
        /\ buff' = SubSeq(file.data, pos + 1, pos + k)
    BY <1>1 DEF GetReads, StartOfChunk
  <2>2. /\ file.data \in Seq(Unit) /\ pos \in Nat /\ k \in Nat /\ k > 0 /\ pos + k <= Len(file.data)
    BY <1>1, SizesAssumption DEF GetReads, IInv, TypeOK, Smaller
  <2>3. Len(buff') = IF pos + 1 <= pos + k THEN (pos + k) - (pos + 1) + 1 ELSE 0
    BY <2>1, <2>2, Part
  <2>4. Passed' = pos
    BY <2>1, <2>2, <2>3 DEF Passed
  <2>5. Embeds(file.data, pos, out)
    BY <2>1 DEF LossInv
  <2> QED
    BY <2>1, <2>4, <2>5 DEF LossInv, Done
<1>2. ASSUME NEW k \in 1 .. BufSize + MaxFails, GetWrites(k) PROVE LossInv'
  <2>1. /\ pc = "get_write" /\ pc' = IF written + k < Len(buff) THEN "get_write" ELSE "get_read"
        /\ k \in 1 .. Len(buff) - written /\ written' = written + k
        /\ out' = out \o SubSeq(Rest(written), 1, k)
        /\ UNCHANGED <<buff, file, pos>>
    BY <1>2 DEF GetWrites
  <2>2. /\ buff \in Seq(Unit) /\ out \in Seq(Unit) /\ written \in Int /\ written < Len(buff)
        /\ pos \in Nat /\ Len(buff) \in Nat
    BY <2>1 DEF IInv, TypeOK
  <2>3. Len(buff) <= pos /\ \A i \in 1 .. Len(buff) : buff[i] = file.data[pos - Len(buff) + i]
    BY <2>1 DEF IInv, GetInv, Loaded
  <2> DEFINE w == SubSeq(Rest(written), 1, k)
  <2>4. w \in Seq(Unit)
    BY <2>1, <2>2, RestOfBuffer, Zenon
  <2>5. Len(w) = k
    BY <2>1, <2>2, RestOfBuffer, Zenon
  <2>6. \A j \in 1 .. k : written + j >= 1 => w[j] = buff[written + j]
    BY <2>1, <2>2, RestOfBuffer, Zenon
  <2>7. out' = out \o w
    BY <2>1
  <2> HIDE DEF w
  <2>8. Embeds(file.data, Passed, out)
    BY <2>1 DEF LossInv
  <2>9. Passed \in Nat
    BY <2>2, <2>3 DEF Passed
  <2> DEFINE o == IF written >= 0 THEN 0 ELSE IF written + k >= 0 THEN 0 - written ELSE k
  <2>10. o \in Nat /\ o <= k /\ k \in Nat
    BY <2>1, <2>2
  <2>11. ASSUME NEW j \in 1 .. k - o PROVE w[o + j] = file.data[Passed + j]
    <3>1. /\ o + j \in 1 .. k /\ written + (o + j) \in 1 .. Len(buff)
          /\ pos - Len(buff) + (written + (o + j)) = Passed + j
      BY <2>1, <2>2, <2>3 DEF Passed
    <3> HIDE DEF o
    <3>2. w[o + j] = buff[written + (o + j)]
      BY <2>6, <3>1
    <3>3. buff[written + (o + j)] = file.data[pos - Len(buff) + (written + (o + j))]
      BY <2>3, <3>1
    <3> QED
      BY <3>1, <3>2, <3>3
  <2>12. Passed' = Passed + (k - o)
    BY <2>1, <2>2, <2>3 DEF Passed
  <2> HIDE DEF o
  <2>13. Embeds(file.data, Passed + (k - o), out')
    BY <2>2, <2>4, <2>5, <2>7, <2>8, <2>9, <2>10, <2>11, EmbedsMore
  <2>14. ASSUME pc' = "get_read" PROVE Passed' = pos'
    <3>1. ~(written + k < Len(buff))
      BY <2>1, <2>14
    <3>2. written' = Len(buff) /\ Len(buff') = Len(buff) /\ pos' = pos
      BY <2>1, <2>2, <3>1
    <3>3. Passed' = pos - Len(buff) + (IF Len(buff) > 0 THEN Len(buff) ELSE 0)
      BY <3>2 DEF Passed
    <3> QED
      BY <2>2, <3>2, <3>3
  <2>15. Embeds(file'.data, Passed', out')
    BY <2>1, <2>12, <2>13
  <2>16. pc' = "get_write" \/ pc' = "get_read"
    BY <2>1
  <2> QED
    BY <2>14, <2>15, <2>16 DEF LossInv, Done
<1>3. ASSUME GetWriteFails PROVE LossInv'
  <2>1. /\ pc = "get_write" /\ pc' = "get_write" /\ written' = written - 1
        /\ UNCHANGED <<buff, file, pos, out>>
    BY <1>3 DEF GetWriteFails
  <2>2. written \in Int /\ pos \in Nat /\ Len(buff) \in Nat /\ Len(buff) <= pos
    BY <2>1 DEF IInv, TypeOK, GetInv, Loaded
  <2>3. Passed \in Nat /\ Passed' \in Nat /\ Passed' <= Passed
    BY <2>1, <2>2 DEF Passed
  <2>4. Embeds(file.data, Passed, out)
    BY <2>1 DEF LossInv
  <2>5. Embeds(file.data, Passed', out)
    BY <2>3, <2>4, EmbedsFewer
  <2> QED
    BY <2>1, <2>5 DEF LossInv, Done
<1>4. ASSUME GetEnds PROVE LossInv'
  <2>1. /\ pc = "get_read" /\ pc' = "exit_0" /\ UNCHANGED <<file, file0, out, pos>>
        /\ pos = Len(file.data) \/ cut'
    BY <1>4 DEF GetEnds
  <2>2. file = file0
    BY <2>1 DEF IInv, CommandInv
  <2>3. Embeds(file.data, pos, out)
    BY <2>1 DEF LossInv
  <2> QED
    BY <2>1, <2>2, <2>3 DEF LossInv
<1>5. ASSUME GetOpens PROVE LossInv'
  <2>1. pc' = "get_read" /\ pos' = 0
    BY <1>5 DEF GetOpens, IInv, GetInv
  <2> QED
    BY <2>1, EmbedsNone DEF LossInv, Done
<1>6. CASE UNCHANGED vars
  BY <1>6 DEF vars, LossInv, Done, Passed
<1>7. ASSUME \/ ReadCommand \/ ReadCommandFails \/ GetRefused \/ GetWritesNothing
             \/ SetRefused \/ SetOpens \/ SetWriteFails \/ SetEnds
             \/ \E k \in 1 .. BufSize + MaxFails : SetWrites(k) \/ SetReads(k)
      PROVE  LossInv'
  <2>1. pc' \notin {"get_read", "get_write"}
    BY <1>7 DEF ReadCommand, ReadCommandFails, GetRefused, GetWritesNothing, SetRefused, SetOpens,
                SetWriteFails, SetEnds, SetWrites, SetReads
  <2>2. pc' = "exit_0" => command.name = "set" /\ command' = command
    BY <1>7 DEF ReadCommand, ReadCommandFails, GetRefused, GetWritesNothing, SetRefused, SetOpens,
                SetWriteFails, SetEnds, SetWrites, SetReads, IInv, CommandInv
  <2> QED
    BY <2>1, <2>2 DEF LossInv, Done
<1> QED
  BY <1>1, <1>2, <1>3, <1>4, <1>5, <1>6, <1>7 DEF Next

\* A get that ends with status 0, and whose reads all succeeded, leaves nothing of the
\* file out: readfile and its caller may repeat units, or print others, after a write
\* that failed, but never skip one.
THEOREM GetSkipsNothing == Spec => []GetLosesNothing
<1>1. Init => LossInv
  BY DEF Init, LossInv, Done
<1>2. IInv /\ LossInv => GetLosesNothing
  <2> SUFFICES ASSUME IInv, LossInv, Done("get"), ~cut
               PROVE  \E at \in [DOMAIN file0.data -> DOMAIN out] :
                        /\ \A i \in DOMAIN at : out[at[i]] = file0.data[i]
                        /\ \A i, j \in DOMAIN at : i < j => at[i] < at[j]
    BY Zenon DEF GetLosesNothing
  <2>1. Embeds(file0.data, Len(file0.data), out)
    BY DEF LossInv
  <2>2. out \in Seq(Unit)
    BY DEF IInv, TypeOK
  <2>3. DOMAIN out = 1 .. Len(out) /\ DOMAIN file0.data = 1 .. Len(file0.data)
    <3>1. file0.data \in Seq(Unit)
      BY DEF IInv, TypeOK, LossInv
    <3> QED
      BY <2>2, <3>1
  <2> QED
    BY <2>1, <2>3, Zenon DEF Embeds
<1> QED
  BY <1>1, <1>2, Invariance, LossStep, PTL DEF Spec

\* Set: what is in the file and what is left of the chunk are together as long as what
\* was taken of the message, however often a write begins the chunk again.
LEMMA LengthStep == IInv /\ IInv' /\ LengthInv /\ [Next]_vars => LengthInv'
<1> SUFFICES ASSUME IInv, IInv', LengthInv, [Next]_vars PROVE LengthInv'
  OBVIOUS
<1> USE DEF Goto, history
<1> DEFINE Premise == command.name = "set" /\ HeadFits /\ command.length > 0
<1>1. ASSUME SetOpens PROVE LengthInv'
  <2>1. /\ command.name = "set" /\ pc = "set" /\ file'.data = << >>
        /\ UNCHANGED <<command, full, taken, written, short, cut>>
    BY <1>1 DEF SetOpens, IInv, CommandInv
  <2>2. /\ command.head \in Nat /\ command.message \in Nat /\ command.length \in Int
        /\ BufSize \in Nat /\ taken \in Nat
    BY <2>1, SetCommand, SizesAssumption DEF IInv, TypeOK
  <2>3. /\ taken = (IF BufSize - command.head < command.message
                    THEN BufSize - command.head ELSE command.message)
        /\ written = 0
    BY <2>1 DEF IInv, SetInv, InBuffer
  <2>4. taken <= BufSize - command.head
    BY <2>2, <2>3
  <2>5. Len(buff') = IF MessageLength > 0 THEN MessageLength ELSE 0
    BY <1>1, <2>1, <2>4, FirstChunk DEF SetOpens, IInv, TypeOK
  <2>6. pc' = IF MessageLength > 0 THEN "set_write" ELSE "exit_0"
    BY <1>1 DEF SetOpens
  <2>7. UNCHANGED <<Wanted, HeadFits>>
    BY <2>1 DEF Wanted, HeadFits
  <2>8. HeadFits => MessageLength = Smaller(command.length, taken)
    BY <2>2 DEF HeadFits, MessageLength
  <2>9. Len(file'.data) = 0
    BY <2>1
  <2>10. ASSUME Premise, pc' = "exit_0" PROVE Wanted = 0
    <3>1. taken = 0
      BY <2>2, <2>6, <2>8, <2>10 DEF Smaller
    <3>2. command.message = 0
      BY <2>2, <2>3, <2>10, <3>1 DEF HeadFits
    <3> QED
      BY <2>10, <3>2 DEF Wanted, Smaller
  <2>11. ASSUME Premise, pc' = "set_write"
         PROVE  Len(file'.data) >= Smaller(command.length, taken) - Len(buff') + written
    <3>1. MessageLength > 0
      BY <2>6, <2>11
    <3>2. Len(buff') = Smaller(command.length, taken) /\ Smaller(command.length, taken) \in Int
      BY <2>2, <2>5, <2>8, <2>11, <3>1 DEF Smaller
    <3> QED
      BY <2>3, <2>9, <3>2
  <2>12. pc' = "set_write" \/ pc' = "exit_0"
    BY <2>6
  <2> QED
    BY <2>1, <2>7, <2>9, <2>10, <2>11, <2>12 DEF LengthInv, SetNoShorter, Done
<1>2. ASSUME NEW k \in 1 .. BufSize + MaxFails, SetWrites(k) PROVE LengthInv'
  <2>1. /\ pc = "set_write" /\ k \in 1 .. Len(buff) /\ written' = written + k
        /\ UNCHANGED <<command, buff, full, taken, cut>>
    BY <1>2, Zenon DEF SetWrites
  <2>2. pc' = IF ~(written + k >= Len(buff)) THEN "set_write"
              ELSE IF full THEN "set_read" ELSE "exit_0"
    BY <1>2, Zenon DEF SetWrites, AllWritten
  <2>3. UNCHANGED <<Wanted, HeadFits>>
    BY <2>1 DEF Wanted, HeadFits
  <2>4. buff \in Seq(Unit) /\ file.data \in Seq(Unit) /\ written \in Int /\ taken \in Nat
    BY DEF IInv, TypeOK
  <2>5. command.name = "set" /\ command.length \in Int /\ command.message \in Nat
    BY <2>1, SetCommand DEF IInv, TypeOK, CommandInv
  <2>6. k \in Nat /\ k > 0 /\ k <= Len(buff)
    BY <2>1, <2>4
  <2>7. file'.data = file.data \o SubSeq(buff, 1, k)
    BY <1>2 DEF SetWrites, IInv, TypeOK
  <2>8. Len(file'.data) = Len(file.data) + k
    <3>1. SubSeq(buff, 1, k) \in Seq(Unit) /\ Len(SubSeq(buff, 1, k)) = k
      BY <2>4, <2>6, Prefix
    <3> QED
      BY <2>4, <2>7, <3>1, Appended
  <2> DEFINE most == Smaller(command.length, taken)
  <2>9. most \in Int
    BY <2>4, <2>5 DEF Smaller
  <2>10. Len(file.data) \in Nat /\ Len(buff) \in Nat
    BY <2>4
  <2>11. ASSUME Premise PROVE Len(file'.data) >= most - Len(buff) + (written + k)
    <3>1. Len(file.data) >= most - Len(buff) + written
      BY <2>1, <2>11 DEF LengthInv
    <3> HIDE DEF most
    <3> QED
      BY <2>4, <2>6, <2>8, <2>9, <2>10, <3>1
  <2>12. ASSUME Premise, pc' # "set_write" PROVE Len(file'.data) >= most
    <3>1. written + k >= Len(buff)
      BY <2>2, <2>12
    <3> HIDE DEF most
    <3> QED
      BY <2>4, <2>6, <2>8, <2>9, <2>10, <2>11, <2>12, <3>1
  <2>13. ASSUME Premise, pc' = "exit_0" PROVE Wanted = most
    <3>1. ~full
      BY <2>2, <2>13
    <3>2. taken = command.message
      BY <2>1, <2>13, <3>1 DEF IInv, SetInv
    <3> QED
      BY <2>5, <2>13, <3>2 DEF Wanted
  <2> QED
    BY <2>1, <2>3, <2>11, <2>12, <2>13 DEF LengthInv, SetNoShorter, Done
<1>3. ASSUME NEW k \in 1 .. BufSize + MaxFails, SetReads(k) PROVE LengthInv'
  <2>1. /\ pc = "set_read" /\ pc' = "set_write" /\ buff' = Units("message", taken + 1, k)
        /\ taken' = taken + k /\ written' = 0
        /\ UNCHANGED <<command, full, file, short, cut>>
    BY <1>3 DEF SetReads
  <2>2. k \in Nat /\ taken \in Nat /\ taken + 1 \in Nat
    BY SizesAssumption DEF IInv, TypeOK
  <2>3. Len(buff') = k
    BY <2>1, <2>2, UnitsRun
  <2>4. command.length \in Int /\ Len(file.data) \in Nat
    BY <2>1, SetCommand DEF IInv, TypeOK, CommandInv
  <2>5. Smaller(command.length, taken + k) - k + 0 <= Smaller(command.length, taken)
    BY <2>2, <2>4 DEF Smaller
  <2>6. Smaller(command.length, taken + k) \in Int /\ Smaller(command.length, taken) \in Int
    BY <2>2, <2>4 DEF Smaller
  <2>7. ASSUME Premise
        PROVE  Len(file'.data) >= Smaller(command.length, taken') - Len(buff') + written'
    <3>1. Len(file.data) >= Smaller(command.length, taken)
      BY <2>1, <2>7 DEF LengthInv
    <3> QED
      BY <2>1, <2>2, <2>3, <2>4, <2>5, <2>6, <3>1
  <2>8. UNCHANGED HeadFits
    BY <2>1 DEF HeadFits
  <2> QED
    BY <2>1, <2>7, <2>8 DEF LengthInv, SetNoShorter, Done
<1>4. ASSUME SetEnds PROVE LengthInv'
  <2>1. /\ pc = "set_read" /\ pc' = "exit_0" /\ UNCHANGED <<command, file, taken>>
        /\ taken = command.message \/ cut'
    BY <1>4 DEF SetEnds
  <2>2. UNCHANGED <<Wanted, HeadFits>>
    BY <2>1 DEF Wanted, HeadFits
  <2>3. ASSUME Premise, ~cut' PROVE Len(file.data) >= Wanted
    <3>1. Len(file.data) >= Smaller(command.length, taken)
      BY <2>1, <2>3 DEF LengthInv
    <3>2. command.length \in Int
      BY <2>3, SetCommand DEF IInv, TypeOK
    <3> QED
      BY <2>1, <2>3, <3>1, <3>2 DEF Wanted
  <2> QED
    BY <2>1, <2>2, <2>3 DEF LengthInv, SetNoShorter, Done
<1>5. CASE UNCHANGED vars
  BY <1>5 DEF vars, LengthInv, SetNoShorter, HeadFits, Wanted, Done
<1>6. ASSUME \/ ReadCommand \/ ReadCommandFails \/ GetRefused \/ GetOpens \/ GetEnds
             \/ GetWriteFails \/ GetWritesNothing \/ SetRefused \/ SetWriteFails
             \/ \E k \in 1 .. BufSize + MaxFails : GetReads(k) \/ GetWrites(k)
      PROVE  LengthInv'
  <2>1. pc' \notin {"set_write", "set_read"}
    BY <1>6 DEF ReadCommand, ReadCommandFails, GetRefused, GetOpens, GetEnds, GetWriteFails,
                GetWritesNothing, SetRefused, SetWriteFails, GetReads, GetWrites
  <2>2. pc' = "exit_0" => command.name = "get" /\ command' = command
    BY <1>6 DEF ReadCommand, ReadCommandFails, GetRefused, GetOpens, GetEnds, GetWriteFails,
                GetWritesNothing, SetRefused, SetWriteFails, GetReads, GetWrites, IInv, CommandInv
  <2> QED
    BY <2>1, <2>2 DEF LengthInv, SetNoShorter, Done
<1> QED
  BY <1>1, <1>2, <1>3, <1>4, <1>5, <1>6 DEF Next

\* A set that prints OK after writes that fell short has made the file too long, never
\* too short: each of them is repeated from the beginning of its chunk.
THEOREM SetKeepsTheLength == Spec => []SetNoShorter
<1>1. Init => LengthInv
  BY DEF Init, LengthInv, SetNoShorter, Done
<1>2. IInv /\ LengthInv => SetNoShorter
  BY DEF LengthInv, SetNoShorter, Done, IInv
<1> QED
  BY <1>1, <1>2, Invariance, LengthStep, PTL DEF Spec
=============================================================================
