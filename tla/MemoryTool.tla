----------------------------- MODULE MemoryTool -----------------------------
(***************************************************************************)
(* The memory tool of asgn1/memory.c: one command on stdin, "get" and a    *)
(* file to print, or "set", a file, a length and a message to store.  read *)
(* and write may move fewer units than asked for, or fail.  What stdin     *)
(* holds is a head, the lines of the command, and the message; both are    *)
(* counted in units, as the file and the buffer are.                       *)
(***************************************************************************)
EXTENDS Integers, Sequences

CONSTANTS
  Heads,       \* how many units the head of a set command may have
  Lengths,     \* the numbers the length of a set command may be
  MaxMessage,  \* units in the message, at most
  MaxFile,     \* units in the file at start, at most
  Kinds,       \* what the file may be at start
  BufSize,     \* BUFF_SIZE
  MaxFails     \* how many writes to stdout fail

ASSUME SizesAssumption ==
  /\ BufSize \in Nat \ {0} /\ Heads \subseteq 1 .. BufSize
  /\ MaxMessage \in Nat /\ MaxFile \in Nat /\ MaxFails \in Nat
ASSUME LengthsAssumption == Lengths \subseteq Int
ASSUME KindsAssumption == Kinds \subseteq {"file", "absent", "dir", "read-only", "uncreatable"}

VARIABLES
  pc,        \* where main is; at the end "exit_0", "exit_1" or "crash"
  command,   \* what is on stdin
  taken,     \* units of the message that were read
  buff,      \* what the last read put in the buffer, or message, from its start
  written,   \* bytesWritten
  full,      \* the command filled the buffer: readtotal = BUFF_SIZE
  file,      \* the file the command names
  pos,       \* where the next read of the file begins
  out,       \* stdout
  file0, fails, short, cut   \* history: the file at start, the writes to stdout that
                             \* failed, a write fell short, a read failed

history == <<file0, fails, short, cut>>
vars == <<pc, command, taken, buff, written, full, file, pos, out, history>>

\* strtok drops empty lines, so a command is its tokens and the empty lines, or other
\* units too many, that it has besides them.
Commands ==
  [name : {"get"}, tokens : 0 .. 2, long : BOOLEAN, extra : {0, 1}, newline : BOOLEAN]
  \cup [name : {"set"}, tokens : 0 .. 2, long : BOOLEAN, head : Heads, extra : {0, 1},
        length : Lengths, message : 0 .. MaxMessage]
  \cup [name : {"other", "empty"}]

Unit == {"head", "message", "file", "junk"} \X Nat
Units(what, first, n) == [i \in 1 .. n |-> <<what, first + i - 1>>]
Smaller(a, b) == IF a < b THEN a ELSE b

Init ==
  /\ pc = "read"
  /\ command \in Commands
  /\ taken = 0
  /\ buff = << >>
  /\ written = 0
  /\ full = FALSE
  /\ file \in [kind : Kinds \ {"absent", "dir", "uncreatable"},
               data : {Units("file", 1, n) : n \in 0 .. MaxFile}]
              \cup [kind : Kinds \cap {"absent", "dir", "uncreatable"}, data : {<< >>}]
  /\ pos = 0
  /\ out = << >>
  /\ file0 = file
  /\ fails = 0
  /\ short = FALSE
  /\ cut = FALSE
-----------------------------------------------------------------------------
Goto(from, to) == pc = from /\ pc' = to

InBuffer == BufSize - command.head

\* The first loop reads until the end of stdin or a full buffer.  strtok then finds
\* no token at all in an input without text, and strcmp gets a null pointer.
ReadCommand ==
  /\ Goto("read", IF command.name \in {"get", "set"} THEN command.name
                  ELSE IF command.name = "empty" THEN "crash" ELSE "exit_1")
  /\ IF command.name = "set"
       THEN /\ taken' = IF InBuffer < command.message THEN InBuffer ELSE command.message
            /\ full' = (InBuffer <= command.message)
       ELSE UNCHANGED <<taken, full>>
  /\ UNCHANGED <<command, buff, written, file, pos, out, history>>

ReadCommandFails ==
  /\ Goto("read", "exit_1")
  /\ UNCHANGED <<command, taken, buff, written, full, file, pos, out, history>>
-----------------------------------------------------------------------------
\* A get names one file, and ends with the newline after it.
GetValid ==
  command.tokens = 1 /\ command.newline /\ command.extra = 0 /\ ~command.long

\* readfile opens the file to read and write.
Openable == file.kind = "file"

GetRefused ==
  /\ Goto("get", "exit_1")
  /\ ~GetValid \/ ~Openable
  /\ UNCHANGED <<command, taken, buff, written, full, file, pos, out, history>>

GetOpens ==
  /\ Goto("get", "get_read")
  /\ GetValid /\ Openable
  /\ UNCHANGED <<command, taken, buff, written, full, file, pos, out, history>>

\* Mutants: bytesWritten goes on from the last chunk; every write starts at buff.
OffsetKept == written
BufferFrom(i) == [j \in 1 .. Len(buff) - i |-> IF j > Len(buff) THEN <<"junk", 0>> ELSE buff[j]]

StartOfChunk == 0

\* What buff + i holds for the write: below the buffer, whatever is there.
Rest(i) == [j \in 1 .. Len(buff) - i |-> IF i + j < 1 THEN <<"junk", 0>> ELSE buff[i + j]]

GetReads(k) ==
  /\ Goto("get_read", "get_write")
  /\ k \in 1 .. Smaller(BufSize, Len(file.data) - pos)
  /\ buff' = SubSeq(file.data, pos + 1, pos + k)
  /\ pos' = pos + k
  /\ written' = StartOfChunk
  /\ UNCHANGED <<command, taken, full, file, out, history>>

\* read returns 0, or -1, which the loop takes for the end of the file.
GetEnds ==
  /\ Goto("get_read", "exit_0")
  /\ (pos = Len(file.data) /\ UNCHANGED cut) \/ cut' = TRUE
  /\ UNCHANGED <<command, taken, buff, written, full, file, pos, out, file0, fails, short>>

GetWrites(k) ==
  /\ Goto("get_write", IF written + k < Len(buff) THEN "get_write" ELSE "get_read")
  /\ k \in 1 .. Len(buff) - written
  /\ out' = out \o SubSeq(Rest(written), 1, k)
  /\ written' = written + k
  /\ UNCHANGED <<command, taken, buff, full, file, pos, history>>

\* write returns -1: as a size_t it is not <= 0, and added to bytesWritten it moves
\* the next write back by one.
GetWriteFails ==
  /\ Goto("get_write", "get_write")
  /\ fails < MaxFails
  /\ fails' = fails + 1
  /\ written' = written - 1
  /\ UNCHANGED <<command, taken, buff, full, file, pos, out, file0, short, cut>>

GetWritesNothing ==
  /\ Goto("get_write", "exit_1")
  /\ UNCHANGED <<command, taken, buff, written, full, file, pos, out, history>>
-----------------------------------------------------------------------------
\* Mutants: a missing length is not noticed; the message is not cut to the length;
\* the message is written once.
NamesAFile == command.tokens > 0 /\ ~command.long
UnlimitedMessage == taken + command.extra
WrittenOnce(count) == count > 0

SetValid == command.tokens = 2 /\ ~command.long

\* The head is counted without its empty lines, so that the end of a longer head is
\* taken for the beginning of the message.
MessageLength == Smaller(command.length, taken + command.extra)
AllWritten(count) == count >= Len(buff)

SetRefused ==
  /\ Goto("set", "exit_1")
  /\ ~SetValid \/ file.kind \in {"dir", "read-only", "uncreatable"}
  /\ UNCHANGED <<command, taken, buff, written, full, file, pos, out, history>>

\* open creates or truncates; without a message, or with a length that is not
\* positive, that is all.
SetOpens ==
  /\ Goto("set", IF MessageLength > 0 THEN "set_write" ELSE "exit_0")
  /\ SetValid /\ file.kind \in {"file", "absent"}
  /\ file' = [kind |-> "file", data |-> << >>]
  /\ buff' = SubSeq(Units("head", 1, command.extra) \o Units("message", 1, taken),
                    1, MessageLength)
  /\ UNCHANGED <<command, taken, written, full, pos, out, history>>

\* Every write starts at the beginning of message, and asks for all of it.
SetWrites(k) ==
  /\ Goto("set_write", IF ~AllWritten(written + k) THEN "set_write"
                       ELSE IF full THEN "set_read" ELSE "exit_0")
  /\ k \in 1 .. Len(buff)
  /\ file' = [file EXCEPT !.data = @ \o SubSeq(buff, 1, k)]
  /\ written' = written + k
  /\ short' = (short \/ k < Len(buff))
  /\ UNCHANGED <<command, taken, buff, full, pos, out, file0, fails, cut>>

SetWriteFails ==
  /\ Goto("set_write", "exit_1")
  /\ UNCHANGED <<command, taken, buff, written, full, file, pos, out, history>>

\* After a full buffer, stdin is read to its end, whatever the length was.
SetReads(k) ==
  /\ Goto("set_read", "set_write")
  /\ k \in 1 .. Smaller(BufSize, command.message - taken)
  /\ buff' = Units("message", taken + 1, k)
  /\ taken' = taken + k
  /\ written' = 0
  /\ UNCHANGED <<command, full, file, pos, out, history>>

\* read returns 0, or -1, which ends the loop with OK as well.
SetEnds ==
  /\ Goto("set_read", "exit_0")
  /\ (taken = command.message /\ UNCHANGED cut) \/ cut' = TRUE
  /\ UNCHANGED <<command, taken, buff, written, full, file, pos, out, file0, fails, short>>

Next ==
  \/ ReadCommand \/ ReadCommandFails
  \/ GetRefused \/ GetOpens \/ GetEnds \/ GetWriteFails \/ GetWritesNothing
  \/ SetRefused \/ SetOpens \/ SetWriteFails \/ SetEnds
  \/ \E k \in 1 .. BufSize + MaxFails :
       GetReads(k) \/ GetWrites(k) \/ SetWrites(k) \/ SetReads(k)

Spec == Init /\ [][Next]_vars
-----------------------------------------------------------------------------
(***************************************************************************)
(* Properties.                                                             *)
(***************************************************************************)

\* Types: bytesWritten leaves the buffer at its lower end, by one for every write that
\* failed, and never at its upper end while a get still writes.
TypeOK ==
  /\ pc \in {"read", "get", "get_read", "get_write", "set", "set_write", "set_read",
             "exit_0", "exit_1", "crash"}
  /\ command \in Commands
  /\ taken \in Nat
  /\ buff \in Seq(Unit) /\ Len(buff) <= BufSize
  /\ written \in Int /\ written + fails >= 0
  /\ pc = "get_write" => written < Len(buff)
  /\ full \in BOOLEAN
  /\ file \in [kind : Kinds \cup {"file"}, data : Seq(Unit)]
  /\ pos \in 0 .. Len(file.data)
  /\ out \in Seq(Unit)
  /\ fails \in 0 .. MaxFails

Done(name) == pc = "exit_0" /\ command.name = name

\* A get that ends with status 0, and no read or write of which failed, printed the
\* file, however its reads and writes were cut.
GetIsFile == (Done("get") /\ fails = 0 /\ ~cut) => out = file0.data

\* Writes that fail move bytesWritten back, and repeat units or print what lies below
\* the buffer, but a get whose reads all succeeded leaves nothing of the file out.
GetLosesNothing ==
  (Done("get") /\ ~cut) =>
    \E at \in [DOMAIN file0.data -> DOMAIN out] :
      /\ \A i \in DOMAIN at : out[at[i]] = file0.data[i]
      /\ \A i, j \in DOMAIN at : i < j => at[i] < at[j]

\* How much of its message a set is to store.
Wanted == IF command.length < 0 THEN 0 ELSE Smaller(command.length, command.message)

\* The lines of a set left room in the buffer for the message.
HeadFits == command.extra = 0 /\ command.head < BufSize

\* A set that prints OK, and no write of which fell short, stored the beginning of its
\* message: up to its length if it came with the command in the buffer, else whole,
\* whatever its length, or what was read of it before a read failed.  Only what the
\* buffer holds may not be longer than the length.
SetIsMessage ==
  (Done("set") /\ ~short /\ HeadFits /\ (full => command.length >= InBuffer))
  => \E n \in 0 .. command.message :
       /\ file.data = Units("message", 1, n)
       /\ cut \/ n = (IF full THEN command.message ELSE Wanted)

\* A write that falls short has the message written again from its beginning, so the
\* file is longer, and never shorter, than it should be.
SetNoShorter ==
  (Done("set") /\ ~cut /\ HeadFits /\ command.length > 0) => Len(file.data) >= Wanted

\* A command that is refused leaves the file as it was.
RefusedTouchesNothing ==
  (pc = "exit_1" /\ (command.name = "set" => command.tokens < 2 \/ command.long))
  => file = file0
=============================================================================
