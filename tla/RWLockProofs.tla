---------------------------- MODULE RWLockProofs ----------------------------
(***************************************************************************)
(* Theorems about the reader/writer lock of asgn3/rwlock.c, for every      *)
(* number of threads, every priority, every n and every width of int.      *)
(***************************************************************************)
EXTENDS RWLock, FiniteSetTheorems, TLAPS

USE ThreadsAssumption, PrioritiesAssumption, NsAssumption, IntMaxAssumption

-----------------------------------------------------------------------------
(***************************************************************************)
(* Lemmas on counting threads.                                             *)
(***************************************************************************)

\* The threads at a location are finitely many.
LEMMA AtFinite ==
  ASSUME NEW l
  PROVE  /\ IsFiniteSet(At(l)) /\ Cardinality(At(l)) \in Nat
         /\ Cardinality(At(l)) = 0 <=> At(l) = {}
<1>1. At(l) \subseteq Threads
  BY DEF At
<1> QED
  BY <1>1, FS_Subset, FS_CardinalityType, FS_EmptySet

\* Thread t leaves the set of one location and joins that of another.
Moves(t, from, to) ==
  \A k \in Locations :
    /\ At(k)' = IF k = to THEN At(k) \cup {t}
                ELSE IF k = from THEN At(k) \ {t} ELSE At(k)
    /\ Cardinality(At(k)') = IF k = to THEN Cardinality(At(k)) + 1
                             ELSE IF k = from THEN Cardinality(At(k)) - 1
                             ELSE Cardinality(At(k))

\* A thread that moves leaves one location and joins another, by one each.
LEMMA Move ==
  ASSUME pc \in [Threads -> Locations], NEW t \in Threads, NEW l \in Locations,
         pc[t] # l, pc' = [pc EXCEPT ![t] = l]
  PROVE  Moves(t, pc[t], l)
<1> SUFFICES ASSUME NEW k \in Locations
             PROVE  /\ At(k)' = IF k = l THEN At(k) \cup {t}
                                ELSE IF k = pc[t] THEN At(k) \ {t} ELSE At(k)
                    /\ Cardinality(At(k)') =
                         IF k = l THEN Cardinality(At(k)) + 1
                         ELSE IF k = pc[t] THEN Cardinality(At(k)) - 1
                         ELSE Cardinality(At(k))
  BY DEF Moves
<1>1. CASE k = l
  <2>1. At(k)' = At(k) \cup {t} /\ t \notin At(k)
    BY <1>1 DEF At
  <2>2. Cardinality(At(k) \cup {t}) = Cardinality(At(k)) + 1
    BY <2>1, AtFinite, FS_AddElement
  <2> QED
    BY <1>1, <2>1, <2>2
<1>2. CASE k # l /\ k = pc[t]
  <2>1. At(k)' = At(k) \ {t} /\ t \in At(k)
    BY <1>2 DEF At
  <2>2. Cardinality(At(k) \ {t}) = Cardinality(At(k)) - 1
    BY <2>1, AtFinite, FS_RemoveElement
  <2> QED
    BY <1>2, <2>1, <2>2
<1>3. CASE k # l /\ k # pc[t]
  <2>1. At(k)' = At(k)
    BY <1>3 DEF At
  <2> QED
    BY <1>3, <2>1
<1> QED
  BY <1>1, <1>2, <1>3

\* Signals only take threads off a condition variable, and k > 0 signals to one
\* that is not empty wake somebody.
\* Signals only ever take sleepers away.
LEMMA SignalledSubset ==
  ASSUME NEW cond, NEW k \in Int, NEW rest \in Signalled(cond, k)
  PROVE  rest \subseteq cond
  BY DEF Signalled
-----------------------------------------------------------------------------
(***************************************************************************)
(* Types, counters, exclusion and the mutex.  Exclusion is only inductive  *)
(* with the counters, which are what the code tests; and the mutex can be  *)
(* shown to be lost by nobody who waits only with the counters.            *)
(***************************************************************************)

LockInvariant ==
  /\ TypeOK
  /\ CountsAgree
  /\ writers \in 0 .. 1
  /\ writers = 1 => readers = 0
  /\ mutex # NoThread =>
       readers = 0 /\ writers = 0 /\ reader_wait = 0 /\ write_wait = 0

\* rwlock_new establishes the invariant.
LEMMA LockInvariantInit == Init => LockInvariant
<1> SUFFICES ASSUME Init
             PROVE  LockInvariant
  OBVIOUS
<1>1. \A l \in Locations \ {"idle"} : At(l) = {}
  BY DEF Init, At, Locations
<1>2. Cardinality({}) = 0
  BY FS_EmptySet
<1>3. CountsAgree
  BY <1>1, <1>2 DEF Init, CountsAgree, Locations
<1>4. TypeOK
  BY DEF Init, TypeOK, Locations, CInt
<1> QED
  BY <1>3, <1>4 DEF Init, LockInvariant

\* Every step of every thread preserves the invariant.
LEMMA LockInvariantStep ==
  ASSUME LockInvariant, [Next]_vars
  PROVE  LockInvariant'
<1> USE DEF LockInvariant
<1>0. /\ \A l \in Locations : Cardinality(At(l)) \in Nat
      /\ \A l \in Locations, t \in Threads : pc[t] = l => Cardinality(At(l)) > 0
  <2>1. \A l \in Locations : Cardinality(At(l)) \in Nat
    BY AtFinite
  <2>2. ASSUME NEW l \in Locations, NEW t \in Threads, pc[t] = l
        PROVE  Cardinality(At(l)) > 0
    <3>1. At(l) # {}
      BY <2>2 DEF At
    <3> QED
      BY <2>1, <3>1, AtFinite
  <2> QED
    BY <2>1, <2>2
<1>1. ASSUME NEW t \in Threads, NEW l \in {"rcall", "wcall"}, Call(t, l)
      PROVE  LockInvariant'
  <2>1. \A k \in {"rwait", "reading", "wwait", "writing"} : At(k)' = At(k)
    BY <1>1 DEF Call, At, TypeOK
  <2>2. CountsAgree'
    BY <1>1, <2>1 DEF Call, CountsAgree
  <2>3. TypeOK'
    BY <1>1, <2>1 DEF Call, TypeOK, Locations, args, conds
  <2> QED
    BY <1>1, <2>2, <2>3 DEF Call
<1>2. ASSUME NEW t \in Threads, ReaderWait(t)
      PROVE  LockInvariant'
  <2>1. CASE pc[t] = "rcall"
    <3>1. Moves(t, "rcall", "rwait")
      BY <1>2, <2>1, Move DEF ReaderWait, TypeOK, Locations
    <3>2. CountsAgree'
      BY <1>2, <2>1, <3>1 DEF Moves, ReaderWait, CountsAgree, Locations
    <3>3. TypeOK'
      BY <1>2, <2>1, <3>1 DEF Moves, ReaderWait, TypeOK, Locations, args
    <3> QED
      BY <1>2, <3>2, <3>3 DEF ReaderWait
  <2>2. CASE pc[t] = "rwait"
    <3>1. pc' = pc /\ \A k : At(k)' = At(k)
      BY <1>2, <2>2 DEF ReaderWait, TypeOK, At
    <3>2. t \in At("rwait")
      BY <2>2 DEF At
    <3>3. CountsAgree'
      BY <1>2, <2>2, <3>1 DEF ReaderWait, CountsAgree
    <3>4. TypeOK'
      BY <1>2, <2>2, <3>1, <3>2 DEF Moves, ReaderWait, TypeOK, Locations, args
    <3> QED
      BY <1>2, <3>3, <3>4 DEF ReaderWait
  <2> QED
    BY <1>2, <2>1, <2>2 DEF ReaderWait, AwakeReaders, At
<1>3. ASSUME NEW t \in Threads, ReaderAcquire(t)
      PROVE  LockInvariant'
  <2>1. pc[t] \in {"rcall", "rwait"} /\ t \notin read_cond
    BY <1>3 DEF ReaderAcquire, AwakeReaders, At, TypeOK
  <2>2. Moves(t, pc[t], "reading")
    BY <1>3, <2>1, Move DEF ReaderAcquire, TypeOK, Locations
  <2>3. CountsAgree'
    BY <1>3, <2>1, <2>2 DEF Moves, ReaderAcquire, WaitOver, CountsAgree, Locations
  <2>4. TypeOK'
    <3>1. readers' \in Nat /\ reader_wait' \in Nat /\ readersT' \in CInt
      BY <1>0, <1>3, <2>1 DEF ReaderAcquire, WaitOver, TypeOK, CountsAgree, Locations, Succ, CInt
    <3>2. /\ read_cond' \subseteq At("rwait")' /\ write_cond' \subseteq At("wwait")'
          /\ pc' \in [Threads -> Locations]
      BY <1>3, <2>1, <2>2 DEF Moves, ReaderAcquire, TypeOK, Locations, conds
    <3> QED
      BY <1>3, <3>1, <3>2 DEF ReaderAcquire, TypeOK, args
  <2>5. writers = 0
    BY <1>3 DEF ReaderAcquire, ReaderBlocked
  <2> QED
    BY <1>3, <2>3, <2>4, <2>5 DEF ReaderAcquire
<1>4. ASSUME NEW t \in Threads, ReaderUnlock(t)
      PROVE  LockInvariant'
  <2>1. Moves(t, "reading", "idle")
    BY <1>4, Move DEF ReaderUnlock, TypeOK, Locations
  <2>2. CountsAgree'
    BY <1>4, <2>1 DEF Moves, ReaderUnlock, CountsAgree, Locations
  <2>3. TypeOK'
    <3>1. readers' \in Nat
      BY <1>0, <1>4 DEF ReaderUnlock, TypeOK, CountsAgree, Locations
    <3>2. write_cond' \subseteq write_cond
      BY <1>4, SignalledSubset DEF ReaderUnlock
    <3> QED
      BY <1>4, <2>1, <3>1, <3>2 DEF Moves, ReaderUnlock, TypeOK, Locations, args
  <2> QED
    BY <1>4, <2>2, <2>3, <1>0 DEF Moves, ReaderUnlock, CountsAgree, Locations
<1>5. ASSUME NEW t \in Threads, WriterWait(t)
      PROVE  LockInvariant'
  <2>1. CASE pc[t] = "wcall"
    <3>1. Moves(t, "wcall", "wwait")
      BY <1>5, <2>1, Move DEF WriterWait, TypeOK, Locations
    <3>2. CountsAgree'
      BY <1>5, <2>1, <3>1 DEF Moves, WriterWait, CountsAgree, Locations
    <3>3. TypeOK'
      BY <1>5, <2>1, <3>1 DEF Moves, WriterWait, TypeOK, Locations, args
    <3> QED
      BY <1>5, <3>2, <3>3 DEF WriterWait
  <2>2. CASE pc[t] = "wwait"
    <3>1. pc' = pc /\ \A k : At(k)' = At(k)
      BY <1>5, <2>2 DEF WriterWait, TypeOK, At
    <3>2. t \in At("wwait")
      BY <2>2 DEF At
    <3>3. CountsAgree'
      BY <1>5, <2>2, <3>1 DEF WriterWait, CountsAgree
    <3>4. TypeOK'
      BY <1>5, <2>2, <3>1, <3>2 DEF Moves, WriterWait, TypeOK, Locations, args
    <3> QED
      BY <1>5, <3>3, <3>4 DEF WriterWait
  <2> QED
    BY <1>5, <2>1, <2>2 DEF WriterWait, AwakeWriters, At
<1>6. ASSUME NEW t \in Threads, WriterAcquire(t)
      PROVE  LockInvariant'
  <2>1. pc[t] \in {"wcall", "wwait"} /\ t \notin write_cond
    BY <1>6 DEF WriterAcquire, AwakeWriters, At, TypeOK
  <2>2. Moves(t, pc[t], "writing")
    BY <1>6, <2>1, Move DEF WriterAcquire, TypeOK, Locations
  <2>3. CountsAgree'
    BY <1>6, <2>1, <2>2 DEF Moves, WriterAcquire, WaitOver, CountsAgree, Locations
  <2>4. TypeOK'
    <3>1. writers' \in Nat /\ write_wait' \in Nat /\ readersT' \in CInt
      BY <1>0, <1>6, <2>1 DEF WriterAcquire, WaitOver, TypeOK, CountsAgree, Locations, CInt
    <3>2. /\ read_cond' \subseteq At("rwait")' /\ write_cond' \subseteq At("wwait")'
          /\ pc' \in [Threads -> Locations]
      BY <1>6, <2>1, <2>2 DEF Moves, WriterAcquire, TypeOK, Locations, conds
    <3> QED
      BY <1>6, <3>1, <3>2 DEF WriterAcquire, TypeOK, args
  <2>5. writers = 0 /\ readers = 0
    BY <1>6 DEF WriterAcquire, WriterBlocked, TypeOK
  <2> QED
    BY <1>6, <2>3, <2>4, <2>5 DEF WriterAcquire
<1>7. ASSUME NEW t \in Threads, WriterUnlock(t)
      PROVE  LockInvariant'
  <2>1. Moves(t, "writing", "idle")
    BY <1>7, Move DEF WriterUnlock, TypeOK, Locations
  <2>2. CountsAgree'
    BY <1>7, <2>1 DEF Moves, WriterUnlock, CountsAgree, Locations
  <2>3. writers = 1 /\ readers = 0
    BY <1>0, <1>7 DEF Moves, WriterUnlock, CountsAgree, Locations
  <2>4. TypeOK'
    <3>1. /\ read_cond' \subseteq read_cond /\ write_cond' \subseteq write_cond
          /\ mutex' \in {mutex, t}
      BY <1>7, SignalledSubset DEF WriterUnlock, TypeOK, CInt, conds
    <3> QED
      BY <1>7, <2>1, <2>3, <3>1 DEF Moves, WriterUnlock, TypeOK, Locations, args
  <2>5. mutex' # NoThread => reader_wait = 0 /\ write_wait = 0
    <3> SUFFICES ASSUME ~(WakesAllReaders \/ WakesNReaders \/ WakesOneWriter)
                 PROVE  reader_wait = 0 /\ write_wait = 0
      BY <1>7 DEF WriterUnlock, conds
    <3>1. reader_wait \in Nat /\ write_wait \in Nat /\ n \in Int
      BY DEF TypeOK
    <3> QED
      BY <3>1 DEF TypeOK, WakesAllReaders, WakesNReaders, WakesOneWriter
  <2> QED
    BY <1>7, <2>2, <2>3, <2>4, <2>5 DEF WriterUnlock
<1>8. ASSUME NEW t \in Threads, SpuriousWakeup(t)
      PROVE  LockInvariant'
  <2>1. \A k : At(k)' = At(k)
    BY <1>8 DEF SpuriousWakeup, At
  <2> QED
    BY <1>8, <2>1 DEF SpuriousWakeup, TypeOK, CountsAgree, args
<1>9. ASSUME Delete \/ UNCHANGED vars
      PROVE  LockInvariant'
  <2>1. \A k : At(k)' = At(k)
    BY <1>9 DEF Delete, vars, At
  <2> QED
    BY <1>9, <2>1 DEF Delete, vars, TypeOK, CountsAgree, args, conds
<1> QED
  BY <1>1, <1>2, <1>3, <1>4, <1>5, <1>6, <1>7, <1>8, <1>9 DEF Next, Step

\* The struct keeps its type, its counters count the holders and the waiters, at
\* most one writer is in and then alone, and the mutex is lost by no user.
THEOREM LockCorrect == Spec => []LockInvariant
<1>1. LockInvariant /\ [Next]_vars => LockInvariant'
  BY LockInvariantStep
<1> QED
  BY <1>1, LockInvariantInit, PTL DEF Spec

\* The counters that the code tests count what they are for: readers and writers the
\* threads that hold the lock, reader_wait and write_wait those in the two loops.
THEOREM CountersCorrect == Spec => [](TypeOK /\ CountsAgree)
<1>1. LockInvariant => TypeOK /\ CountsAgree
  BY DEF LockInvariant
<1> QED
  BY <1>1, LockCorrect, PTL

\* In particular no counter goes below zero, and readersT stays within an int.
THEOREM TypeCorrect == Spec => []TypeOK
  BY CountersCorrect, PTL

\* A writers counter of 1 and a readers counter of 0 mean one writer, alone.
LEMMA ExclusionFromCounts == LockInvariant => Exclusion
<1> SUFFICES ASSUME LockInvariant, NEW t \in At("writing")
             PROVE  At("writing") = {t} /\ At("reading") = {}
  BY DEF Exclusion
<1>1. Cardinality(At("writing")) = writers /\ Cardinality(At("reading")) = readers
  BY DEF LockInvariant, CountsAgree
<1>2. Cardinality(At("writing")) = 1
  BY <1>1, AtFinite DEF LockInvariant
<1>3. At("reading") = {}
  BY <1>1, <1>2, AtFinite DEF LockInvariant
<1>4. PICK x : At("writing") = {x}
  BY <1>2, AtFinite, FS_Singleton
<1> QED
  BY <1>3, <1>4

\* A writer never shares the lock, whatever the priority, n and the order of calls.
THEOREM WriterAlone == Spec => []Exclusion
  BY LockCorrect, ExclusionFromCounts, PTL

\* With the mutex lost the counters are zero, and so are the sets they count.
LEMMA LostUnused == LockInvariant => LostOnlyWhenUnused
<1> SUFFICES ASSUME LockInvariant, mutex # NoThread
             PROVE  Holders \cup At("rwait") \cup At("wwait") = {}
  BY DEF LostOnlyWhenUnused
<1>1. \A l \in {"reading", "writing", "rwait", "wwait"} : Cardinality(At(l)) = 0
  BY DEF LockInvariant, CountsAgree
<1>2. \A l \in {"reading", "writing", "rwait", "wwait"} : At(l) = {}
  BY <1>1, AtFinite
<1> QED
  BY <1>2 DEF Holders

\* writer_unlock loses the mutex only when it leaves the lock with no holder and no
\* registered waiter; those who call after that are the ones who block.
THEOREM MutexLostUnused == Spec => []LostOnlyWhenUnused
  BY LockCorrect, LostUnused, PTL

-----------------------------------------------------------------------------
(***************************************************************************)
(* The lock implements the contract of rwlock.h.  The grant of a read or   *)
(* of a write is enabled in the contract because the counters, which the   *)
(* code tests, agree with the sets of holders, which the contract tests.   *)
(***************************************************************************)

\* A step of a thread changes what that thread, and no other, has of the lock.
LEMMA UseChanges ==
  ASSUME TypeOK, NEW t \in Threads, NEW l \in Locations,
         pc' = [pc EXCEPT ![t] = l]
  PROVE  use' = [use EXCEPT ![t] = UseAt(l)]
  BY DEF use, TypeOK

\* Every step of the lock is a step of its contract or none, for any number of threads
\* and any n of N_WAY.
THEOREM ImplementsContract == Spec => ContractSpec
<1>1. Init => Contract!Init
  BY DEF Init, Contract!Init, use, UseAt
<1>2. LockInvariant /\ [Next]_vars => [Contract!Next]_Contract!vars
  <2> SUFFICES ASSUME LockInvariant, [Next]_vars
               PROVE  [Contract!Next]_Contract!vars
    OBVIOUS
  <2>0. /\ TypeOK
        /\ writers = 0 => At("writing") = {}
        /\ readers = 0 => At("reading") = {}
    BY AtFinite DEF LockInvariant, CountsAgree
  <2>1. ASSUME NEW t \in Threads, NEW l \in {"rcall", "wcall"}, Call(t, l)
        PROVE  \E u \in {"wants read", "wants write"} : Contract!Ask(t, u)
    <3>1. use[t] = "none"
      BY <2>1 DEF Call, use, UseAt
    <3>2. use' = [use EXCEPT ![t] = IF l = "rcall" THEN "wants read" ELSE "wants write"]
      BY <2>0, <2>1, UseChanges DEF UseAt, Call, Locations
    <3> QED
      BY <2>0, <2>1, <3>1, <3>2 DEF Call, Contract!Ask, TypeOK
  <2>2. ASSUME NEW t \in Threads, ReaderAcquire(t)
        PROVE  Contract!GrantRead(t)
    <3>1. use[t] = "wants read"
      BY <2>2 DEF ReaderAcquire, AwakeReaders, At, use, UseAt
    <3>2. use' = [use EXCEPT ![t] = "read"]
      BY <2>0, <2>2, UseChanges DEF UseAt, ReaderAcquire, Locations
    <3>3. At("writing") = {}
      BY <2>0, <2>2 DEF ReaderAcquire, ReaderBlocked, TypeOK
    <3>4. Contract!Users("write") = {}
      BY <2>0, <3>3 DEF Contract!Users, use, UseAt, At, TypeOK, Locations
    <3> QED
      BY <2>2, <3>1, <3>2, <3>4 DEF ReaderAcquire, Contract!GrantRead
  <2>3. ASSUME NEW t \in Threads, WriterAcquire(t)
        PROVE  Contract!GrantWrite(t)
    <3>1. use[t] = "wants write"
      BY <2>3 DEF WriterAcquire, AwakeWriters, At, use, UseAt
    <3>2. use' = [use EXCEPT ![t] = "write"]
      BY <2>0, <2>3, UseChanges DEF UseAt, WriterAcquire, Locations
    <3>3. At("writing") = {} /\ At("reading") = {}
      BY <2>0, <2>3 DEF WriterAcquire, WriterBlocked, TypeOK
    <3>4. Contract!Users("write") = {} /\ Contract!Users("read") = {}
      BY <2>0, <3>3 DEF Contract!Users, use, UseAt, At, TypeOK, Locations
    <3> QED
      BY <2>3, <3>1, <3>2, <3>4 DEF WriterAcquire, Contract!GrantWrite
  <2>4. ASSUME NEW t \in Threads, ReaderUnlock(t) \/ WriterUnlock(t)
        PROVE  Contract!Release(t)
    <3>1. use[t] \in {"read", "write"}
      BY <2>4 DEF ReaderUnlock, WriterUnlock, use, UseAt
    <3>2. use' = [use EXCEPT ![t] = "none"]
      BY <2>0, <2>4, UseChanges DEF UseAt, ReaderUnlock, WriterUnlock, Locations
    <3> QED
      BY <2>4, <3>1, <3>2 DEF ReaderUnlock, WriterUnlock, Contract!Release
  <2>5. ASSUME Delete
        PROVE  Contract!Delete
    BY <2>0, <2>5 DEF Delete, Contract!Delete, use, UseAt, TypeOK
  <2>6. ASSUME NEW t \in Threads,
               ReaderWait(t) \/ WriterWait(t) \/ SpuriousWakeup(t)
        PROVE  UNCHANGED Contract!vars
    <3>1. CASE SpuriousWakeup(t)
      BY <3>1 DEF SpuriousWakeup, Contract!vars, use, UseAt
    <3>2. CASE ReaderWait(t)
      <4>1. use[t] = "wants read"
        BY <3>2 DEF ReaderWait, AwakeReaders, At, use, UseAt
      <4>2. use' = [use EXCEPT ![t] = "wants read"]
        BY <2>0, <3>2, UseChanges DEF UseAt, ReaderWait, Locations
      <4> QED
        BY <3>2, <4>1, <4>2 DEF ReaderWait, Contract!vars, use, UseAt
    <3>3. CASE WriterWait(t)
      <4>1. use[t] = "wants write"
        BY <3>3 DEF WriterWait, AwakeWriters, At, use, UseAt
      <4>2. use' = [use EXCEPT ![t] = "wants write"]
        BY <2>0, <3>3, UseChanges DEF UseAt, WriterWait, Locations
      <4> QED
        BY <3>3, <4>1, <4>2 DEF WriterWait, Contract!vars, use, UseAt
    <3> QED
      BY <2>6, <3>1, <3>2, <3>3
  <2>7. ASSUME UNCHANGED vars
        PROVE  UNCHANGED Contract!vars
    BY <2>7 DEF vars, Contract!vars, use, UseAt
  <2> QED
    BY <2>1, <2>2, <2>3, <2>4, <2>5, <2>6, <2>7 DEF Next, Step, Contract!Next
<1> QED
  BY <1>1, <1>2, LockCorrect, PTL DEF Spec, ContractSpec, Contract!Spec

-----------------------------------------------------------------------------
(***************************************************************************)
(* No wakeup is lost when n is positive.  SomebodyIsNext is not        *)
(* inductive: after a step that removes the reason to sleep somebody who   *)
(* can go on must be awake, and WakeupInvariant says who that is.  Its     *)
(* fourth conjunct counts: a writer_unlock that signals n readers is       *)
(* enough because n - readersT of them are still allowed to pass.          *)
(***************************************************************************)

\* The readers awake in the loop of reader_lock are finitely many.
LEMMA AwakeReadersFinite ==
  IsFiniteSet(AwakeReaders) /\ Cardinality(AwakeReaders) \in Nat
  BY AtFinite, FS_Difference, FS_CardinalityType DEF AwakeReaders

\* k signals leave nobody asleep, or wake exactly k threads.
\* k signals wake k sleepers, or all of them if there are fewer.
LEMMA SignalledWakes ==
  ASSUME NEW cond, IsFiniteSet(cond), NEW k \in Nat, NEW rest \in Signalled(cond, k)
  PROVE  rest = {} \/ Cardinality(cond \ rest) = k
<1>1. rest \subseteq cond /\ Cardinality(cond) \in Nat
  BY FS_CardinalityType DEF Signalled
<1>2. CASE k <= Cardinality(cond)
  BY <1>1, <1>2 DEF Signalled
<1>3. CASE ~(k <= Cardinality(cond))
  <2>1. Cardinality(cond \ rest) = Cardinality(cond)
    BY <1>1, <1>3 DEF Signalled
  <2>2. cond \ rest = cond
    BY <2>1, FS_Subset
  <2> QED
    BY <1>1, <2>2
<1> QED
  BY <1>2, <1>3

\* One signal to a condition variable with sleepers wakes one.
LEMMA SignalledOne ==
  ASSUME NEW cond, IsFiniteSet(cond), cond # {}, NEW rest \in Signalled(cond, 1)
  PROVE  cond \ rest # {}
<1>1. rest \subseteq cond
  BY DEF Signalled
<1>2. rest = {} \/ Cardinality(cond \ rest) = 1
  BY SignalledWakes
<1>3. Cardinality({}) = 0
  BY FS_EmptySet
<1> QED
  BY <1>2, <1>3

\* With n > 0 every step preserves the reasons for which the sleepers can rely on
\* those who are awake.
LEMMA WakeupStep ==
  ASSUME LockInvariant, LockInvariant', WakeupInvariant, n > 0, [Next]_vars
  PROVE  WakeupInvariant'
<1>0. /\ TypeOK /\ TypeOK' /\ CountsAgree /\ CountsAgree'
      /\ n \in Int /\ n <= IntMax /\ n' = n /\ priority' = priority
      /\ readersT \in Int /\ readersT' \in Int
      /\ reader_wait \in Nat /\ reader_wait' \in Nat
      /\ write_wait \in Nat /\ write_wait' \in Nat
      /\ readers \in Nat /\ writers \in 0 .. 1
      /\ read_cond # {} => reader_wait > 0
      /\ write_cond # {} => write_wait > 0
      /\ Cardinality(AwakeReaders) \in Nat /\ Cardinality(AwakeReaders') \in Nat
      /\ IsFiniteSet(AwakeReaders)
      /\ IsFiniteSet(read_cond) /\ IsFiniteSet(write_cond)
  <2>1. TypeOK /\ TypeOK' /\ CountsAgree /\ CountsAgree' /\ writers \in 0 .. 1
    BY DEF LockInvariant
  <2>2. n \in Int /\ n <= IntMax
    BY <2>1 DEF TypeOK
  <2>3. n' = n /\ priority' = priority
    BY DEF Next, Step, Call, ReaderWait, ReaderAcquire, ReaderUnlock, WriterWait,
           WriterAcquire, WriterUnlock, SpuriousWakeup, Delete, vars, args
  <2>4. read_cond # {} => reader_wait > 0
    BY <2>1, AtFinite DEF TypeOK, CountsAgree
  <2>5. write_cond # {} => write_wait > 0
    BY <2>1, AtFinite DEF TypeOK, CountsAgree
  <2>6. IsFiniteSet(read_cond) /\ IsFiniteSet(write_cond)
    BY <2>1, AtFinite, FS_Subset DEF TypeOK
  <2>7. Cardinality(AwakeReaders') \in Nat
    <3>1. AwakeReaders' \subseteq Threads
      BY DEF AwakeReaders, At
    <3> QED
      BY <3>1, FS_Subset, FS_CardinalityType
  <2>8. readersT \in Int /\ readersT' \in Int
    BY <2>1 DEF TypeOK, CInt
  <2> QED
    BY <2>1, <2>2, <2>3, <2>4, <2>5, <2>6, <2>7, <2>8, AwakeReadersFinite DEF TypeOK
<1>1. ASSUME NEW t \in Threads, ReaderWait(t)
      PROVE  WakeupInvariant'
  <2>1. /\ UNCHANGED <<readers, writers, readersT, write_wait, write_cond>>
        /\ read_cond' = read_cond \cup {t}
        /\ reader_wait' > 0
    <3>1. pc[t] = "rcall" \/ reader_wait > 0
      <4>1. pc[t] = "rcall" \/ t \in At("rwait")
        BY <1>1 DEF ReaderWait, AwakeReaders, At
      <4> QED
        BY <1>0, <4>1, AtFinite DEF CountsAgree
    <3> QED
      BY <1>0, <1>1, <3>1 DEF ReaderWait
  <2>2. AwakeWriters' = AwakeWriters
    BY <1>0, <1>1 DEF ReaderWait, AwakeWriters, AwakeReaders, At, TypeOK
  <2>3. WriterBlocked => WriterBlocked'
    BY <1>0, <2>1 DEF WriterBlocked
  <2>4. ReaderBlocked
    BY <1>1 DEF ReaderWait
  <2> QED
    BY <1>0, <2>1, <2>2, <2>3, <2>4 DEF WakeupInvariant, ReaderBlocked
<1>2. ASSUME NEW t \in Threads, ReaderAcquire(t)
      PROVE  WakeupInvariant'
  <2>1. /\ UNCHANGED <<writers, write_wait, read_cond, write_cond>>
        /\ readers' = readers + 1 /\ readersT' = Succ(readersT)
        /\ writers = 0 /\ ~ReaderBlocked
    BY <1>0, <1>2 DEF ReaderAcquire, ReaderBlocked, conds
  <2>2. WriterBlocked'
    BY <1>0, <2>1 DEF WriterBlocked
  <2>3. ASSUME read_cond # {}, priority = "N_WAY", readersT' < n
        PROVE  Cardinality(AwakeReaders') >= n - readersT'
    <3>1. write_wait > 0 /\ readersT < n
      BY <1>0, <2>1, <2>3 DEF WakeupInvariant, ReaderBlocked
    <3>2. readersT' = readersT + 1
      BY <1>0, <2>1, <3>1 DEF Succ
    <3>3. Cardinality(AwakeReaders) >= n - readersT
      BY <2>1, <2>3, <3>1 DEF WakeupInvariant
    <3>4. AwakeReaders' = AwakeReaders \ {t}
      BY <1>0, <1>2 DEF ReaderAcquire, AwakeReaders, At, TypeOK, conds
    <3>5. Cardinality(AwakeReaders \ {t}) >= Cardinality(AwakeReaders) - 1
      <4>1. \/ Cardinality(AwakeReaders \ {t}) = Cardinality(AwakeReaders) - 1
            \/ Cardinality(AwakeReaders \ {t}) = Cardinality(AwakeReaders)
        BY <1>0, FS_RemoveElement
      <4> QED
        BY <1>0, <4>1
    <3>6. Cardinality(AwakeReaders') >= Cardinality(AwakeReaders) - 1
      BY <3>4, <3>5
    <3> QED
      BY <1>0, <3>2, <3>3, <3>6
  <2> QED
    BY <1>0, <2>1, <2>2, <2>3 DEF WakeupInvariant
<1>3. ASSUME NEW t \in Threads, ReaderUnlock(t)
      PROVE  WakeupInvariant'
  <2>1. /\ UNCHANGED <<writers, readersT, write_wait, reader_wait, read_cond>>
        /\ write_cond' \subseteq write_cond
    BY <1>3, SignalledSubset DEF ReaderUnlock
  <2>2. AwakeReaders' = AwakeReaders
    BY <1>0, <1>3 DEF ReaderUnlock, AwakeReaders, At, TypeOK
  <2>3. ASSUME write_cond' # {}, ~WriterBlocked'
        PROVE  AwakeWriters' # {}
    <3>1. readers' = 0 /\ write_wait > 0 /\ write_cond # {}
      BY <1>0, <2>1, <2>3 DEF WriterBlocked, TypeOK
    <3>2. write_cond' \in Signalled(write_cond, 1)
      BY <1>3, <3>1 DEF ReaderUnlock
    <3>3. write_cond \ write_cond' # {}
      BY <1>0, <3>1, <3>2, SignalledOne
    <3>4. At("wwait")' = At("wwait")
      BY <1>3 DEF ReaderUnlock, At, TypeOK
    <3> QED
      BY <1>0, <3>3, <3>4 DEF AwakeWriters, TypeOK
  <2> QED
    BY <1>0, <2>1, <2>2, <2>3 DEF WakeupInvariant
<1>4. ASSUME NEW t \in Threads, WriterWait(t)
      PROVE  WakeupInvariant'
  <2>1. /\ UNCHANGED <<readers, writers, readersT, reader_wait, read_cond>>
        /\ write_wait' >= write_wait /\ WriterBlocked
    BY <1>0, <1>4 DEF WriterWait
  <2>2. AwakeReaders' = AwakeReaders
    BY <1>0, <1>4 DEF WriterWait, AwakeReaders, AwakeWriters, At, TypeOK
  <2>3. WriterBlocked'
    BY <1>0, <2>1 DEF WriterBlocked
  <2> QED
    BY <1>0, <2>1, <2>2, <2>3 DEF WakeupInvariant
<1>5. ASSUME NEW t \in Threads, WriterAcquire(t)
      PROVE  WakeupInvariant'
  <2>1. writers' > 0 /\ readersT' = 0
    BY <1>0, <1>5 DEF WriterAcquire
  <2> QED
    BY <1>0, <2>1 DEF WakeupInvariant, WriterBlocked
<1>6. ASSUME NEW t \in Threads, WriterUnlock(t)
      PROVE  WakeupInvariant'
  <2>1. /\ UNCHANGED <<readers, readersT, write_wait, reader_wait>>
        /\ writers = 1 /\ writers' = 0 /\ readers = 0 /\ readersT = 0
        /\ read_cond' \subseteq read_cond /\ write_cond' \subseteq write_cond
    <3>1. writers = 1
      <4>1. At("writing") # {}
        BY <1>6 DEF WriterUnlock, At
      <4> QED
        BY <1>0, <4>1, AtFinite DEF CountsAgree
    <3>2. readers = 0 /\ readersT = 0
      BY <3>1 DEF LockInvariant, WakeupInvariant
    <3> QED
      BY <1>0, <1>6, <3>1, <3>2, SignalledSubset DEF WriterUnlock, conds
  <2>2. At("rwait")' = At("rwait") /\ At("wwait")' = At("wwait")
    BY <1>0, <1>6 DEF WriterUnlock, At, TypeOK
  <2>3. ASSUME read_cond' # {}
        PROVE  /\ write_wait > 0 /\ priority # "READERS"
               /\ priority = "N_WAY" => Cardinality(AwakeReaders') >= n
    <3>1. read_cond # {} /\ reader_wait > 0 /\ ~WakesAllReaders
      BY <1>0, <1>6, <2>1, <2>3 DEF WriterUnlock, WakesAllReaders, WakesNReaders, WakesOneWriter
    <3>2. write_wait > 0 /\ priority # "READERS"
      BY <1>0, <3>1 DEF WakesAllReaders, TypeOK
    <3>3. ASSUME priority = "N_WAY"
          PROVE  Cardinality(AwakeReaders') >= n
      <4>1. read_cond' \in Signalled(read_cond, n)
        BY <1>0, <1>6, <3>1, <3>2, <3>3 DEF WriterUnlock, WakesAllReaders, WakesNReaders, WakesOneWriter
      <4>2. Cardinality(read_cond \ read_cond') = n
        BY <1>0, <2>3, <4>1, SignalledWakes
      <4>3. read_cond \ read_cond' \subseteq AwakeReaders'
        BY <1>0, <2>2 DEF AwakeReaders, TypeOK
      <4>4. IsFiniteSet(AwakeReaders')
        <5>1. AwakeReaders' \subseteq Threads
          BY DEF AwakeReaders, At
        <5> QED
          BY <5>1, FS_Subset
      <4> QED
        BY <4>2, <4>3, <4>4, FS_Subset
    <3> QED
      BY <3>2, <3>3
  <2>4. ASSUME write_cond' # {}, ~WriterBlocked'
        PROVE  AwakeWriters' # {}
    <3>1. write_cond # {} /\ write_wait > 0
      BY <1>0, <2>1, <2>4
    <3>2. priority = "WRITERS" \/ reader_wait = 0
      BY <1>0, <2>1, <2>4 DEF WriterBlocked, TypeOK
    <3>3. ~WakesAllReaders /\ ~WakesNReaders /\ WakesOneWriter
      BY <1>0, <3>1, <3>2 DEF WakesAllReaders, WakesNReaders, WakesOneWriter
    <3>4. write_cond \ write_cond' # {}
      BY <1>0, <1>6, <3>1, <3>3, SignalledOne DEF WriterUnlock
    <3> QED
      BY <1>0, <2>2, <3>4 DEF AwakeWriters, TypeOK
  <2> QED
    BY <1>0, <2>1, <2>3, <2>4 DEF WakeupInvariant
<1>7. ASSUME NEW t \in Threads, SpuriousWakeup(t)
      PROVE  WakeupInvariant'
  <2>1. /\ UNCHANGED <<readers, writers, readersT, write_wait, reader_wait>>
        /\ read_cond' \subseteq read_cond /\ write_cond' \subseteq write_cond
        /\ \A l : At(l)' = At(l)
    BY <1>7 DEF SpuriousWakeup, At
  <2>2. AwakeReaders \subseteq AwakeReaders' /\ AwakeWriters \subseteq AwakeWriters'
    BY <2>1 DEF AwakeReaders, AwakeWriters
  <2>3. IsFiniteSet(AwakeReaders')
    <3>1. AwakeReaders' \subseteq Threads
      BY DEF AwakeReaders, At
    <3> QED
      BY <3>1, FS_Subset
  <2>4. Cardinality(AwakeReaders) <= Cardinality(AwakeReaders')
    BY <2>2, <2>3, FS_Subset
  <2>5. WriterBlocked' <=> WriterBlocked
    BY <1>0, <2>1 DEF WriterBlocked
  <2> QED
    BY <1>0, <2>1, <2>2, <2>4, <2>5 DEF WakeupInvariant
<1>8. ASSUME \/ \E t \in Threads, l \in {"rcall", "wcall"} : Call(t, l)
             \/ Delete
             \/ UNCHANGED vars
      PROVE  WakeupInvariant'
  <2>1. UNCHANGED <<readers, writers, readersT, write_wait, reader_wait, conds>>
    BY <1>8 DEF Call, Delete, vars
  <2>2. AwakeReaders' = AwakeReaders /\ AwakeWriters' = AwakeWriters
    BY <1>0, <1>8, <2>1
       DEF Call, Delete, vars, conds, AwakeReaders, AwakeWriters, At, TypeOK
  <2> QED
    BY <1>0, <2>1, <2>2 DEF WakeupInvariant, WriterBlocked, conds
<1> QED
  BY <1>1, <1>2, <1>3, <1>4, <1>5, <1>6, <1>7, <1>8 DEF Next, Step

\* Those reasons leave no state in which everybody waits.
LEMMA WakerFromInvariant ==
  ASSUME LockInvariant, WakeupInvariant, n > 0
  PROVE  SomebodyIsNext
<1> SUFFICES ASSUME At("rwait") \cup At("wwait") # {}, Holders = {}
             PROVE  \/ AwakeReaders # {} /\ ~ReaderBlocked
                    \/ AwakeWriters # {} /\ ~WriterBlocked
  BY DEF SomebodyIsNext
<1>1. /\ TypeOK /\ readers = 0 /\ writers = 0
      /\ reader_wait > 0 <=> At("rwait") # {}
      /\ write_wait > 0 <=> At("wwait") # {}
      /\ n \in Int /\ readersT \in Int
  <2>1. TypeOK /\ CountsAgree
    BY DEF LockInvariant
  <2>2. At("reading") = {} /\ At("writing") = {}
    BY DEF Holders
  <2>3. readers = 0 /\ writers = 0
    BY <2>1, <2>2, AtFinite DEF CountsAgree
  <2>4. /\ reader_wait > 0 <=> At("rwait") # {}
        /\ write_wait > 0 <=> At("wwait") # {}
    BY <2>1, AtFinite DEF CountsAgree
  <2> QED
    BY <2>1, <2>3, <2>4 DEF TypeOK, CInt
<1>2. CASE write_cond \cup At("wwait") # {} /\ ~WriterBlocked
  BY <1>1, <1>2 DEF WakeupInvariant, AwakeWriters
<1>3. CASE WriterBlocked
  <2>1. /\ At("rwait") # {}
        /\ priority = "READERS" \/ (priority = "N_WAY" /\ readersT < n)
    BY <1>1, <1>3 DEF WriterBlocked, TypeOK
  <2>2. ~ReaderBlocked
    BY <1>1, <2>1 DEF ReaderBlocked
  <2>3. AwakeReaders # {}
    <3>1. CASE read_cond = {}
      BY <2>1, <3>1 DEF AwakeReaders
    <3>2. CASE read_cond # {}
      <4>1. Cardinality(AwakeReaders) >= n - readersT /\ n - readersT > 0
        BY <1>1, <2>1, <3>2 DEF WakeupInvariant
      <4> QED
        BY <1>1, <4>1, AwakeReadersFinite, FS_EmptySet
    <3> QED
      BY <3>1, <3>2
  <2> QED
    BY <2>2, <2>3
<1>4. CASE ~WriterBlocked /\ write_cond \cup At("wwait") = {}
  <2>1. At("rwait") # {} /\ write_wait = 0
    BY <1>1, <1>4 DEF TypeOK
  <2>2. read_cond = {} /\ ~ReaderBlocked
    BY <1>1, <2>1 DEF WakeupInvariant, ReaderBlocked
  <2> QED
    BY <2>1, <2>2 DEF AwakeReaders
<1> QED
  BY <1>2, <1>3, <1>4

\* With a positive n, whenever a thread waits in reader_lock or writer_lock there
\* is a thread that will unlock, or a thread that is awake and can acquire: the
\* branches of writer_unlock signal enough, and the right side, for all priorities.
THEOREM NoLostWakeup ==
  ASSUME \A k \in Ns : k > 0
  PROVE  Spec => [](WakeupInvariant /\ SomebodyIsNext)
<1>1. Init => WakeupInvariant
  BY DEF Init, WakeupInvariant
<1>2. LockInvariant => n > 0
  BY DEF LockInvariant, TypeOK
<1>3. LockInvariant /\ LockInvariant' /\ WakeupInvariant /\ [Next]_vars
        => WakeupInvariant'
  BY <1>2, WakeupStep
<1>4. LockInvariant /\ WakeupInvariant => SomebodyIsNext
  BY <1>2, WakerFromInvariant
<1> QED
  BY <1>1, <1>3, <1>4, LockCorrect, PTL DEF Spec

\* In particular, for each reason to sleep, somebody is on the way once it is gone: after
\* a broadcast everybody, under N_WAY as many readers as may still pass.
THEOREM WakeupsSuffice ==
  ASSUME \A k \in Ns : k > 0
  PROVE  Spec => []WakeupInvariant
  BY NoLostWakeup, PTL

-----------------------------------------------------------------------------
(***************************************************************************)
(* READERS: why a reader that waits is not starved.                        *)
(***************************************************************************)

\* The reader has only to be scheduled.
ReaderIsNext(t) == t \in AwakeReaders /\ ~ReaderBlocked /\ mutex = NoThread

ReadersSleepForWriter == (priority = "READERS" /\ read_cond # {}) => writers > 0

\* A reader waits for the writer that has the lock and for nothing else, ...
WaitsForOneWriter ==
  priority = "READERS" => \A t \in At("rwait") : writers > 0 \/ ReaderIsNext(t)

\* ... no other writer comes before it, and nobody takes its turn from it.
KeepsItsTurn ==
  \A t \in Threads : (priority = "READERS" /\ pc[t] = "rwait") =>
    /\ writers' <= writers
    /\ ReaderIsNext(t) => ReaderIsNext(t)' \/ pc'[t] = "reading"

\* Readers fall asleep on account of a writer, and its unlock wakes them all.
LEMMA ReadersSleepStep ==
  ASSUME LockInvariant, LockInvariant', ReadersSleepForWriter, [Next]_vars
  PROVE  ReadersSleepForWriter'
<1> SUFFICES ASSUME priority' = "READERS", read_cond' # {}
             PROVE  writers' > 0
  BY DEF ReadersSleepForWriter
<1>0. /\ TypeOK /\ CountsAgree /\ priority = "READERS"
      /\ writers \in Nat /\ reader_wait \in Nat
      /\ read_cond # {} => reader_wait > 0
  <2>1. TypeOK /\ CountsAgree
    BY DEF LockInvariant
  <2>2. priority' = priority
    BY DEF Next, Step, Call, ReaderWait, ReaderAcquire, ReaderUnlock, WriterWait,
           WriterAcquire, WriterUnlock, SpuriousWakeup, Delete, vars, args
  <2> QED
    BY <2>1, <2>2, AtFinite DEF TypeOK, CountsAgree
<1>1. ASSUME NEW t \in Threads, ReaderWait(t)
      PROVE  writers' > 0
  BY <1>0, <1>1 DEF ReaderWait, ReaderBlocked
<1>2. ASSUME NEW t \in Threads, WriterUnlock(t)
      PROVE  FALSE
  <2>1. ~WakesNReaders
    BY <1>0 DEF WakesNReaders
  <2>2. read_cond' = {} \/ (read_cond' = read_cond /\ (WakesOneWriter \/ ~WakesAllReaders))
    BY <1>2, <2>1, Zenon DEF WriterUnlock, conds
  <2>3. read_cond # {} => WakesAllReaders /\ ~WakesOneWriter
    BY <1>0 DEF WakesAllReaders, WakesOneWriter
  <2> QED
    BY <2>2, <2>3
<1>3. ASSUME read_cond' \subseteq read_cond, writers' >= writers
      PROVE  writers' > 0
  <2>1. writers > 0 /\ writers' \in Nat
    BY <1>0, <1>3 DEF ReadersSleepForWriter, LockInvariant, TypeOK
  <2> QED
    BY <1>0, <1>3, <2>1
<1>4. ASSUME [Next]_vars, \A t \in Threads : ~ReaderWait(t) /\ ~WriterUnlock(t)
      PROVE  read_cond' \subseteq read_cond /\ writers' >= writers
  BY <1>0, <1>4
     DEF Next, Step, Call, ReaderAcquire, ReaderUnlock, WriterWait, WriterAcquire,
         SpuriousWakeup, Delete, vars, conds
<1> QED
  BY <1>1, <1>2, <1>3, <1>4

\* What keeps a writer from coming between.
LEMMA TurnStep ==
  ASSUME LockInvariant, LockInvariant', [Next]_vars
  PROVE  KeepsItsTurn
<1> SUFFICES ASSUME NEW t \in Threads, priority = "READERS", pc[t] = "rwait"
             PROVE  /\ writers' <= writers
                    /\ ReaderIsNext(t) => ReaderIsNext(t)' \/ pc'[t] = "reading"
  BY DEF KeepsItsTurn
<1>0. /\ TypeOK /\ TypeOK' /\ CountsAgree /\ CountsAgree'
      /\ reader_wait \in Nat /\ writers \in Nat /\ writers' \in Nat
      /\ reader_wait > 0
  <2>1. TypeOK /\ TypeOK' /\ CountsAgree /\ CountsAgree' /\ t \in At("rwait")
    BY DEF LockInvariant, At
  <2>2. reader_wait > 0
    BY <2>1, AtFinite DEF TypeOK, CountsAgree
  <2> QED
    BY <2>1, <2>2 DEF TypeOK
<1>1. \A v \in Threads : ~WriterAcquire(v)
  BY <1>0 DEF WriterAcquire, WriterBlocked
<1>2. writers' <= writers
  BY <1>0, <1>1
     DEF Next, Step, Call, ReaderWait, ReaderAcquire, ReaderUnlock, WriterWait, WriterUnlock,
         SpuriousWakeup, Delete, vars
<1>3. ASSUME ReaderIsNext(t), pc'[t] # "reading"
      PROVE  ReaderIsNext(t)'
  <2>1. writers = 0 /\ priority' = priority
    <3>1. priority' = priority
      BY DEF Next, Step, Call, ReaderWait, ReaderAcquire, ReaderUnlock, WriterWait,
             WriterAcquire, WriterUnlock, SpuriousWakeup, Delete, vars, args
    <3> QED
      BY <1>0, <1>3, <3>1 DEF ReaderIsNext, ReaderBlocked
  <2>2. writers' = 0
    BY <1>0, <1>2, <2>1
  <2>3. ~ReaderBlocked'
    BY <2>1, <2>2 DEF ReaderBlocked
  <2>4. \A v \in Threads : ~ReaderWait(v)
    BY <1>3 DEF ReaderIsNext, ReaderWait
  <2>5. \A v \in Threads : ~WriterUnlock(v)
    <3> SUFFICES ASSUME NEW v \in Threads, WriterUnlock(v)
                 PROVE  FALSE
      OBVIOUS
    <3>1. v \in At("writing")
      BY DEF WriterUnlock, At
    <3> QED
      BY <1>0, <2>1, <3>1, AtFinite DEF CountsAgree
  <2>6. pc'[t] = "rwait" /\ t \notin read_cond' /\ mutex' = mutex
    BY <1>0, <1>1, <1>3, <2>4, <2>5
       DEF ReaderIsNext, AwakeReaders, AwakeWriters, At, Next, Step, Call, ReaderAcquire,
           ReaderUnlock, WriterWait, SpuriousWakeup, Delete, vars, conds, TypeOK
  <2> QED
    BY <1>3, <2>3, <2>6 DEF ReaderIsNext, AwakeReaders, At
<1> QED
  BY <1>2, <1>3

\* With READERS, a reader that waits has to wait for one writer's unlock only: then it is
\* awake, its test is false, and stays false, until it reads; whatever n is.
THEOREM ReadersFirst == Spec => []WaitsForOneWriter /\ [][KeepsItsTurn]_vars
<1>1. Init => ReadersSleepForWriter
  BY DEF Init, ReadersSleepForWriter
<1>2. LockInvariant /\ LockInvariant' /\ ReadersSleepForWriter /\ [Next]_vars
        => ReadersSleepForWriter' /\ [KeepsItsTurn]_vars
  BY ReadersSleepStep, TurnStep
<1>3. LockInvariant /\ ReadersSleepForWriter => WaitsForOneWriter
  <2> SUFFICES ASSUME LockInvariant, ReadersSleepForWriter, priority = "READERS",
                      NEW t \in At("rwait"), ~(writers > 0)
               PROVE  ReaderIsNext(t)
    BY DEF WaitsForOneWriter
  <2>1. mutex = NoThread
    BY LostUnused DEF LostOnlyWhenUnused
  <2> QED
    BY <2>1 DEF ReaderIsNext, ReadersSleepForWriter, AwakeReaders, ReaderBlocked
<1> QED
  BY <1>1, <1>2, <1>3, LockCorrect, PTL DEF Spec
=============================================================================
