-------------------------- MODULE RWLockNWayProofs --------------------------
(***************************************************************************)
(* The bounds on overtaking, for every number of threads and every n.      *)
(***************************************************************************)
EXTENDS RWLockNWay, RWLockProofs

USE NsAssumption, IntMaxAssumption

\* Only a step that acquires adds a holder or changes readersT.
LEMMA AcquireOrNot ==
  ASSUME TypeOK, Next
  PROVE  \/ \E t \in Threads : ReaderAcquire(t) \/ WriterAcquire(t)
         \/ /\ UNCHANGED <<n, priority, readersT>>
            /\ writers' <= writers /\ readers' <= readers
BY DEF TypeOK, Next, Step, Call, ReaderWait, ReaderUnlock, WriterWait, WriterUnlock,
       SpuriousWakeup, Delete, args

\* readersT counts at least the readers that passed, so it shuts them out in time.
NWayInvariant ==
  ~wrapped => /\ readersT >= 0
              /\ passed \in Nat
              /\ passed <= readersT
              /\ AtMostNPass

\* Every step keeps the readers that passed within readersT and within n.
LEMMA NWayStep ==
  ASSUME TypeOK, TypeOK', NWayInvariant, [Next /\ Record]_hvars
  PROVE  NWayInvariant'
<1> SUFFICES ASSUME ~wrapped'
             PROVE  NWayInvariant'
  BY DEF NWayInvariant
<1>0. /\ ~wrapped
      /\ readersT \in Nat /\ passed \in Nat /\ passed <= readersT /\ AtMostNPass
      /\ n \in Int /\ IntMax \in Nat /\ readersT' \in Int
      /\ readers \in Nat /\ writers \in Nat
  <2>1. ~wrapped
    <3>1. ASSUME Record
          PROVE  ~wrapped
      BY <3>1, Zenon DEF Record
    <3>2. ASSUME UNCHANGED hvars
          PROVE  ~wrapped
      BY <3>2, Zenon DEF hvars
    <3> QED
      BY <3>1, <3>2
  <2>2. readersT >= 0 /\ passed \in Nat /\ passed <= readersT /\ AtMostNPass
    BY <2>1 DEF NWayInvariant
  <2> QED
    BY <2>1, <2>2 DEF TypeOK, CInt
<1>1. ASSUME Record, NEW t \in Threads, ReaderAcquire(t)
      PROVE  NWayInvariant'
  <2>1. /\ n' = n /\ priority' = priority
        /\ writers' = writers /\ readers' = readers + 1
        /\ readersT' = Succ(readersT) /\ ~ReaderBlocked
    BY <1>1 DEF ReaderAcquire, args
  <2>2. readersT' >= 0
    <3>1. ~(readersT' < 0)
      BY <1>1, Zenon DEF Record
    <3> QED
      BY <1>0, <3>1
  <2>3. readersT' = readersT + 1
    BY <1>0, <2>1, <2>2 DEF Succ
  <2>4. CASE priority # "READERS" /\ write_wait > 0
    <3>1. passed' = passed + 1
      BY <1>0, <1>1, <2>1, <2>4 DEF Record
    <3>2. priority = "N_WAY" => readersT < n
      BY <1>0, <2>1, <2>4 DEF ReaderBlocked
    <3> QED
      BY <1>0, <2>1, <2>3, <3>1, <3>2 DEF NWayInvariant, AtMostNPass
  <2>5. CASE ~(priority # "READERS" /\ write_wait > 0)
    <3>1. passed' = passed
      BY <1>0, <1>1, <2>1, <2>5 DEF Record
    <3> QED
      BY <1>0, <2>1, <2>3, <3>1 DEF NWayInvariant, AtMostNPass
  <2> QED
    BY <2>4, <2>5
<1>2. ASSUME Record, NEW t \in Threads, WriterAcquire(t)
      PROVE  NWayInvariant'
  <2>1. writers' > writers /\ readersT' = 0
    BY <1>0, <1>2 DEF WriterAcquire
  <2>2. passed' = 0
    BY <1>2, <2>1 DEF Record
  <2> QED
    BY <2>1, <2>2 DEF NWayInvariant, AtMostNPass
<1>3. ASSUME Record,
             /\ UNCHANGED <<n, priority, readersT>>
             /\ writers' <= writers /\ readers' <= readers
      PROVE  NWayInvariant'
  <2>1. passed' = passed
    BY <1>0, <1>3 DEF Record, TypeOK
  <2> QED
    BY <1>0, <1>3, <2>1 DEF NWayInvariant, AtMostNPass
<1>4. ASSUME UNCHANGED hvars
      PROVE  NWayInvariant'
  BY <1>0, <1>4 DEF hvars, vars, args, NWayInvariant, AtMostNPass
<1> QED
  BY <1>1, <1>2, <1>3, <1>4, AcquireOrNot

\* A reader that acquires begins a new count; a writer that passes waiting readers
\* leaves readersT at 0, and the next one has to wait for it to reach n.
OvertakingInvariant ==
  /\ overtook \in Nat
  /\ priority = "WRITERS" => passed = 0
  /\ priority = "READERS" => overtook = 0
  /\ (priority = "N_WAY" /\ n > 0 /\ overtook > 0) => overtook = 1 /\ readersT = 0

\* Every step keeps the side that a priority protects from being passed.
LEMMA OvertakingStep ==
  ASSUME TypeOK, TypeOK', OvertakingInvariant, [Next /\ Record]_hvars
  PROVE  OvertakingInvariant'
<1>0. /\ overtook \in Nat
      /\ n \in Int /\ readersT \in Int /\ readers \in Nat /\ writers \in Nat
      /\ readers' \in Nat /\ writers' \in Nat
      /\ reader_wait \in Nat
  BY DEF TypeOK, CInt, OvertakingInvariant
<1>1. ASSUME Record, NEW t \in Threads, ReaderAcquire(t)
      PROVE  OvertakingInvariant'
  <2>1. /\ n' = n /\ priority' = priority /\ writers' = writers /\ readers' > readers
        /\ ~ReaderBlocked
    BY <1>0, <1>1 DEF ReaderAcquire, args
  <2>2. overtook' = 0
    BY <1>1, <2>1, Zenon DEF Record
  <2>3. priority = "WRITERS" => passed' = passed
    <3>1. priority = "WRITERS" => ~(write_wait > 0)
      BY <2>1 DEF ReaderBlocked
    <3> QED
      BY <1>0, <1>1, <2>1, <3>1 DEF Record
  <2> QED
    BY <2>1, <2>2, <2>3 DEF OvertakingInvariant
<1>2. ASSUME Record, NEW t \in Threads, WriterAcquire(t)
      PROVE  OvertakingInvariant'
  <2>1. /\ n' = n /\ priority' = priority /\ readers' = readers /\ writers' > writers
        /\ readersT' = 0 /\ ~WriterBlocked
    BY <1>0, <1>2 DEF WriterAcquire, args
  <2>2. passed' = 0
    BY <1>2, <2>1, Zenon DEF Record
  <2>3. CASE reader_wait > 0 /\ priority # "WRITERS"
    <3>1. overtook' = overtook + 1
      BY <1>0, <1>2, <2>1, <2>3 DEF Record
    <3>2. priority # "READERS" /\ (priority = "N_WAY" => readersT >= n)
      BY <1>0, <2>1, <2>3 DEF WriterBlocked
    <3>3. priority = "N_WAY" /\ n > 0 => overtook = 0
      BY <1>0, <3>2 DEF OvertakingInvariant
    <3> QED
      BY <1>0, <2>1, <2>2, <3>1, <3>2, <3>3 DEF OvertakingInvariant
  <2>4. CASE ~(reader_wait > 0 /\ priority # "WRITERS")
    <3>1. overtook' = overtook
      BY <1>0, <1>2, <2>1, <2>4 DEF Record
    <3> QED
      BY <2>1, <2>2, <3>1 DEF OvertakingInvariant
  <2> QED
    BY <2>3, <2>4
<1>3. ASSUME Record,
             /\ UNCHANGED <<n, priority, readersT>>
             /\ writers' <= writers /\ readers' <= readers
      PROVE  OvertakingInvariant'
  <2>1. passed' = passed /\ overtook' = overtook
    BY <1>0, <1>3 DEF Record
  <2> QED
    BY <1>3, <2>1 DEF OvertakingInvariant
<1>4. ASSUME UNCHANGED hvars
      PROVE  OvertakingInvariant'
  BY <1>4 DEF hvars, vars, args, OvertakingInvariant
<1> QED
  BY <1>1, <1>2, <1>3, <1>4, AcquireOrNot

-----------------------------------------------------------------------------
(***************************************************************************)
(* Theorems.                                                               *)
(***************************************************************************)

\* Who may overtake whom under each priority, and how often: no reader a writer with
\* WRITERS, no writer a reader with READERS, and with N_WAY at most n readers, as
\* long as readersT has not passed INT_MAX, or one writer.
THEOREM OvertakingBounded == HSpec => []BoundedOvertaking
<1>1. HInit => NWayInvariant /\ OvertakingInvariant
  BY DEF HInit, Init, NWayInvariant, AtMostNPass, OvertakingInvariant
<1>2. HSpec => Spec
  <2>1. [Next /\ Record]_hvars => [Next]_vars
    BY DEF hvars
  <2> QED
    BY <2>1, PTL DEF HSpec, HInit, Spec
<1>3. LockInvariant => TypeOK
  BY DEF LockInvariant
<1>4. TypeOK /\ TypeOK' /\ NWayInvariant /\ [Next /\ Record]_hvars => NWayInvariant'
  BY NWayStep
<1>5. /\ TypeOK /\ TypeOK' /\ OvertakingInvariant
      /\ [Next /\ Record]_hvars
      => OvertakingInvariant'
  BY OvertakingStep
<1>6. NWayInvariant /\ OvertakingInvariant => BoundedOvertaking
  BY DEF NWayInvariant, OvertakingInvariant, BoundedOvertaking
<1> QED
  BY <1>1, <1>2, <1>3, <1>4, <1>5, <1>6, LockCorrect, PTL DEF HSpec
=============================================================================
