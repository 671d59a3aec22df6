------------------------------- MODULE RWLock -------------------------------
(***************************************************************************)
(* The reader/writer lock of asgn3/rwlock.c: a mutex, two condition        *)
(* variables, and counters of the holders and the waiters, from which      *)
(* three priorities (READERS, WRITERS, N_WAY) decide who waits and whom a  *)
(* release wakes.  The stretch of code a thread runs from taking the mutex *)
(* (or waking from pthread_cond_wait) to the next wait or return is one    *)
(* action.  Every path gives the mutex back except one: writer_unlock runs *)
(* off its end, past all of its unlocks, when none of its tests holds.     *)
(***************************************************************************)
EXTENDS Integers, FiniteSets

CONSTANTS
  Threads,      \* the callers of the lock
  NoThread,     \* the owner of a free mutex
  Priorities,   \* the PRIORITY arguments rwlock_new may be given
  Ns,           \* the n arguments, as the int they are stored in
  IntMax        \* INT_MAX; a C int is in -IntMax - 1 .. IntMax and wraps

ASSUME ThreadsAssumption == IsFiniteSet(Threads) /\ NoThread \notin Threads
ASSUME PrioritiesAssumption == Priorities \subseteq {"READERS", "WRITERS", "N_WAY"}
ASSUME IntMaxAssumption == IntMax \in Nat
ASSUME NsAssumption == Ns \subseteq -IntMax - 1 .. IntMax

VARIABLES
  rw,           \* "live", or "NULL" once rwlock_delete has freed it
  priority,     \* the struct's fields
  n,
  readers,
  writers,
  readersT,
  write_wait,
  reader_wait,
  mutex,        \* NoThread, or the thread that returned without unlocking it
  read_cond,    \* threads asleep on read_cond
  write_cond,   \* threads asleep on write_cond
  pc            \* where each thread is

args == <<priority, n>>
conds == <<read_cond, write_cond>>
vars == <<rw, args, readers, writers, readersT, write_wait, reader_wait, mutex,
          conds, pc>>

\* "rcall" and "wcall": called and not yet counted in reader_wait or write_wait;
\* "rwait" and "wwait": counted, and inside the while loop.
Locations == {"idle", "rcall", "rwait", "reading", "wcall", "wwait", "writing"}

At(l) == {t \in Threads : pc[t] = l}

CInt == -IntMax - 1 .. IntMax
Succ(i) == IF i = IntMax THEN -IntMax - 1 ELSE i + 1

\* Types: no counter goes below zero, readersT is an int, and the sleepers of each
\* condition variable are inside the loop that waits on it.
TypeOK ==
  /\ rw \in {"live", "NULL"}
  /\ priority \in Priorities
  /\ n \in Ns
  /\ readers \in Nat
  /\ writers \in Nat
  /\ readersT \in CInt
  /\ write_wait \in Nat
  /\ reader_wait \in Nat
  /\ mutex \in Threads \cup {NoThread}
  /\ read_cond \subseteq At("rwait")
  /\ write_cond \subseteq At("wwait")
  /\ pc \in [Threads -> Locations]

\* rwlock_new(priority, n)
Init ==
  /\ rw = "live"
  /\ priority \in Priorities
  /\ n \in Ns
  /\ readers = 0
  /\ writers = 0
  /\ readersT = 0
  /\ write_wait = 0
  /\ reader_wait = 0
  /\ mutex = NoThread
  /\ read_cond = {}
  /\ write_cond = {}
  /\ pc = [t \in Threads |-> "idle"]
-----------------------------------------------------------------------------
\* Mutant: no signal at all.
SignalForgotten(cond, k) == {cond}

\* k pthread_cond_signals: each wakes one sleeper of cond, if any is left.
Signalled(cond, k) ==
  {rest \in SUBSET cond :
     Cardinality(cond \ rest) = IF k <= 0 THEN 0
                                ELSE IF k <= Cardinality(cond) THEN k
                                ELSE Cardinality(cond)}

\* Mutants of the reader's test: the writer is forgotten, the waiting writers are,
\* and one reader too many passes.
ReaderBlockedWaiting ==
  \/ priority = "WRITERS" /\ write_wait > 0
  \/ priority = "N_WAY" /\ readersT >= n /\ write_wait > 0

ReaderBlockedWriting == writers > 0

ReaderBlockedLate ==
  \/ writers > 0
  \/ priority = "WRITERS" /\ write_wait > 0
  \/ priority = "N_WAY" /\ readersT > n /\ write_wait > 0

\* The condition of the while loop in reader_lock.
ReaderBlocked ==
  \/ writers > 0
  \/ priority = "WRITERS" /\ write_wait > 0
  \/ priority = "N_WAY" /\ readersT >= n /\ write_wait > 0

\* Mutants of the writer's test: the readers are forgotten, and the waiting ones are.
WriterBlockedWaiting ==
  \/ writers > 0
  \/ priority = "N_WAY" /\ reader_wait > 0 /\ readersT < n
  \/ priority = "READERS" /\ reader_wait > 0

WriterBlockedHeld == readers > 0 \/ writers > 0

\* The condition of the while loop in writer_lock.
WriterBlocked ==
  \/ readers > 0
  \/ writers > 0
  \/ priority = "N_WAY" /\ reader_wait > 0 /\ readersT < n
  \/ priority = "READERS" /\ reader_wait > 0

\* Mutants: the counter is incremented only inside the loop; it is never decremented.
NotCountedYet(wait, called) == wait - 1
StillCounted(wait, called) == wait

\* A waiter counter when its loop ends; the model counts a caller only if it has to wait.
WaitOver(wait, called) == IF called THEN wait ELSE wait - 1

AwakeReaders == At("rwait") \ read_cond
AwakeWriters == At("wwait") \ write_cond
-----------------------------------------------------------------------------
\* A thread calls reader_lock or writer_lock.
Call(t, l) ==
  /\ rw # "NULL"
  /\ pc[t] = "idle"
  /\ pc' = [pc EXCEPT ![t] = l]
  /\ UNCHANGED <<rw, args, readers, writers, readersT, write_wait, reader_wait,
                 mutex, conds>>

\* The while test of reader_lock succeeds.  A thread that has just called counts
\* itself first; the test does not read that counter.
ReaderWait(t) ==
  /\ mutex = NoThread
  /\ t \in At("rcall") \cup AwakeReaders
  /\ ReaderBlocked
  /\ reader_wait' = IF pc[t] = "rcall" THEN reader_wait + 1 ELSE reader_wait
  /\ read_cond' = read_cond \cup {t}
  /\ pc' = [pc EXCEPT ![t] = "rwait"]
  /\ UNCHANGED <<rw, args, readers, writers, readersT, write_wait, mutex, write_cond>>

\* The while test of reader_lock fails: the thread stops waiting and reads.
ReaderAcquire(t) ==
  /\ mutex = NoThread
  /\ t \in At("rcall") \cup AwakeReaders
  /\ ~ReaderBlocked
  /\ reader_wait' = WaitOver(reader_wait, pc[t] = "rcall")
  /\ readers' = readers + 1
  /\ readersT' = Succ(readersT)
  /\ pc' = [pc EXCEPT ![t] = "reading"]
  /\ UNCHANGED <<rw, args, writers, write_wait, mutex, conds>>

ReaderUnlock(t) ==
  /\ mutex = NoThread
  /\ pc[t] = "reading"
  /\ readers' = readers - 1
  /\ write_cond' \in Signalled(write_cond,
                               IF readers' = 0 /\ write_wait > 0 THEN 1 ELSE 0)
  /\ pc' = [pc EXCEPT ![t] = "idle"]
  /\ UNCHANGED <<rw, args, writers, readersT, write_wait, reader_wait, mutex, read_cond>>

WriterWait(t) ==
  /\ mutex = NoThread
  /\ t \in At("wcall") \cup AwakeWriters
  /\ WriterBlocked
  /\ write_wait' = IF pc[t] = "wcall" THEN write_wait + 1 ELSE write_wait
  /\ write_cond' = write_cond \cup {t}
  /\ pc' = [pc EXCEPT ![t] = "wwait"]
  /\ UNCHANGED <<rw, args, readers, writers, readersT, reader_wait, mutex, read_cond>>

WriterAcquire(t) ==
  /\ mutex = NoThread
  /\ t \in At("wcall") \cup AwakeWriters
  /\ ~WriterBlocked
  /\ readersT' = 0
  /\ write_wait' = WaitOver(write_wait, pc[t] = "wcall")
  /\ writers' = writers + 1
  /\ pc' = [pc EXCEPT ![t] = "writing"]
  /\ UNCHANGED <<rw, args, readers, reader_wait, mutex, conds>>

\* The tests of writer_unlock, by what they do: broadcast to the readers, ...
WakesAllReaders ==
  /\ reader_wait > 0
  /\ \/ priority = "READERS"
     \/ priority = "WRITERS" /\ write_wait = 0
     \/ priority = "N_WAY" /\ (reader_wait < n \/ write_wait = 0)

\* Mutant: the test leaves out the case of exactly n readers.
WakesMoreThanN == priority = "N_WAY" /\ write_wait > 0 /\ reader_wait > n

\* ... signal n of them, ...
WakesNReaders == priority = "N_WAY" /\ write_wait > 0 /\ reader_wait >= n

\* ... or signal one writer, if the test above it did not return already.
WakesOneWriter ==
  /\ write_wait > 0
  /\ ~WakesNReaders
  /\ \/ priority = "WRITERS"
     \/ reader_wait = 0

\* With no test true the function ends while the mutex is still locked.
WriterUnlock(t) ==
  /\ mutex = NoThread
  /\ pc[t] = "writing"
  /\ writers' = writers - 1
  /\ pc' = [pc EXCEPT ![t] = "idle"]
  /\ \/ /\ WakesAllReaders
        /\ read_cond' = {}
        /\ UNCHANGED <<mutex, write_cond>>
     \/ /\ WakesNReaders
        /\ read_cond' \in Signalled(read_cond, n)
        /\ UNCHANGED <<mutex, write_cond>>
     \/ /\ WakesOneWriter
        /\ write_cond' \in Signalled(write_cond, 1)
        /\ UNCHANGED <<mutex, read_cond>>
     \/ /\ ~(WakesAllReaders \/ WakesNReaders \/ WakesOneWriter)
        /\ mutex' = t
        /\ UNCHANGED conds
  /\ UNCHANGED <<rw, args, readers, readersT, write_wait, reader_wait>>

\* pthread_cond_wait may return with no signal.
SpuriousWakeup(t) ==
  /\ t \in read_cond \cup write_cond
  /\ read_cond' = read_cond \ {t}
  /\ write_cond' = write_cond \ {t}
  /\ UNCHANGED <<rw, args, readers, writers, readersT, write_wait, reader_wait,
                 mutex, pc>>

\* rwlock_delete: its owner calls it when no thread uses the lock.  The code does
\* not look at what pthread_mutex_destroy says of a mutex that is still locked.
Delete ==
  /\ rw # "NULL"
  /\ \A t \in Threads : pc[t] = "idle"
  /\ rw' = "NULL"
  /\ UNCHANGED <<args, readers, writers, readersT, write_wait, reader_wait, mutex,
                 conds, pc>>

\* What a thread inside lock or unlock does the next time it has the mutex.
Step(t) ==
  \/ ReaderWait(t) \/ ReaderAcquire(t) \/ ReaderUnlock(t)
  \/ WriterWait(t) \/ WriterAcquire(t) \/ WriterUnlock(t)

Next ==
  \/ \E t \in Threads :
       \/ \E l \in {"rcall", "wcall"} : Call(t, l)
       \/ Step(t)
       \/ SpuriousWakeup(t)
  \/ Delete

Spec == Init /\ [][Next]_vars

\* Calls are the clients' choice.  A thread that is awake is scheduled and gets the
\* mutex if it is free, and a client that holds the lock releases it.
FairSpec == Spec /\ \A t \in Threads : WF_vars(Step(t))
-----------------------------------------------------------------------------
(***************************************************************************)
(* Properties.                                                             *)
(***************************************************************************)

\* The counters, each changed in three or four places, say how many threads hold
\* the lock and how many wait for it; a missing decrement would shut it for good.
CountsAgree ==
  /\ readers = Cardinality(At("reading"))
  /\ writers = Cardinality(At("writing"))
  /\ reader_wait = Cardinality(At("rwait"))
  /\ write_wait = Cardinality(At("wwait"))

\* A writer has the lock alone.
Exclusion ==
  \A t \in At("writing") : At("writing") = {t} /\ At("reading") = {}

Holders == At("reading") \cup At("writing")

\* No lost wakeup: whenever somebody waits, a holder that will pass by an unlock, or
\* a waiter that is awake and able to acquire, is there.  A release that signals too
\* few, or the wrong side, leaves sleepers that only a newcomer could wake, or wakes
\* some who find their test still true.  With n <= 0 the writer_unlock of an N_WAY
\* lock does so.
SomebodyIsNext ==
  At("rwait") \cup At("wwait") # {} =>
    \/ Holders # {}
    \/ AwakeReaders # {} /\ ~ReaderBlocked
    \/ AwakeWriters # {} /\ ~WriterBlocked

\* The mutex is only ever lost by a release that leaves the lock empty, so that
\* no thread that holds the lock, or is counted as a waiter, is caught by it.
LostOnlyWhenUnused == mutex # NoThread => Holders \cup At("rwait") \cup At("wwait") = {}

\* Why the sleepers can rely on those who are awake, when n > 0; each part is about
\* one reason to sleep and says who is on the way once that reason is gone.
WakeupInvariant ==
  /\ read_cond # {} => writers > 0 \/ write_wait > 0
  /\ (read_cond # {} /\ priority = "READERS") => writers > 0
  /\ writers > 0 => readersT = 0
  /\ (read_cond # {} /\ priority = "N_WAY" /\ writers = 0 /\ readersT < n)
       => Cardinality(AwakeReaders) >= n - readersT
  /\ (write_cond # {} /\ ~WriterBlocked) => AwakeWriters # {}

\* The counters and condition variables implement the lock of rwlock.h.
UseAt(l) ==
  IF l \in {"rcall", "rwait"} THEN "wants read"
  ELSE IF l = "reading" THEN "read"
  ELSE IF l \in {"wcall", "wwait"} THEN "wants write"
  ELSE IF l = "writing" THEN "write"
  ELSE "none"
use == [t \in Threads |-> UseAt(pc[t])]
Contract == INSTANCE RWLockContract WITH allocated <- (rw = "live")
ContractSpec == Contract!Spec

\* READERS: a reader that waits gets the lock, whatever the writers do.
WaitingReaderReads ==
  \A t \in Threads :
    (priority = "READERS" /\ pc[t] = "rwait") ~> pc[t] = "reading"

\* N_WAY: while readers wait the writers cannot keep passing the lock around.
ReadersNotStarved == (priority = "N_WAY" /\ reader_wait > 0) ~> readers > 0

\* WRITERS and N_WAY: while writers wait the stream of readers lets one in.
WritersNotStarved ==
  (priority \in {"WRITERS", "N_WAY"} /\ write_wait > 0) ~> writers > 0

\* The side that a priority protects is not starved by the other.
NeitherSideStarves == ReadersNotStarved /\ WritersNotStarved

\* asgn3/README.md: waiting readers are kept track of "to make sure no starvation".
\* With READERS no reader may starve: each call of reader_lock returns.
ReaderCallReturns ==
  \A t \in Threads :
    (priority = "READERS" /\ pc[t] = "rcall") ~> pc[t] = "reading"
=============================================================================
