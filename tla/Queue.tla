------------------------------- MODULE Queue -------------------------------
(***************************************************************************)
(* The bounded queue of asgn3/queue.c: a ring buffer guarded by one mutex  *)
(* and two condition variables.  Every access to the struct is made under  *)
(* the mutex, so the stretch of code a thread runs from taking the mutex   *)
(* (or waking from pthread_cond_wait) to the next wait or unlock is one    *)
(* action.  A condition variable is the set of threads asleep on it; a     *)
(* signal removes any one of them, which then competes for the mutex with  *)
(* the threads that have just called.                                      *)
(***************************************************************************)
EXTENDS Integers, FiniteSets

CONSTANTS
  Threads,   \* the callers of the queue
  Elems,     \* the void pointers that may be pushed
  Size,      \* the argument of queue_new
  NoElem     \* an uninitialised slot or out-parameter

ASSUME SizeAssumption == Size \in Nat
ASSUME ThreadsAssumption == IsFiniteSet(Threads)
ASSUME NoElemAssumption == NoElem \notin Elems

VARIABLES
  q,         \* "live", or "NULL" once queue_delete has freed it
  head,      \* the slot the next push fills
  tail,      \* the slot the next pop empties
  count,     \* the number of elements in the buffer
  buffer,    \* the slots
  full,      \* threads asleep on q->full: pushers that found the queue full
  empty,     \* threads asleep on q->empty: poppers that found it empty
  pc,        \* "idle", or the operation a thread is inside
  elem,      \* the elem argument of the push a thread is inside
  got        \* what the last pop of a thread stored through its elem pointer

vars == <<q, head, tail, count, buffer, full, empty, pc, elem, got>>

Slots == 0 .. Size - 1

\* Types: the indices stay on slots, the counter within the size, and only threads
\* inside a push sleep on full, only threads inside a pop on empty.
TypeOK ==
  /\ q \in {"live", "NULL"}
  /\ head \in Slots \cup {0}
  /\ tail \in Slots \cup {0}
  /\ count \in 0 .. Size
  /\ buffer \in [Slots -> Elems \cup {NoElem}]
  /\ full \subseteq {t \in Threads : pc[t] = "push"}
  /\ empty \subseteq {t \in Threads : pc[t] = "pop"}
  /\ pc \in [Threads -> {"idle", "push", "pop"}]
  /\ elem \in [Threads -> Elems \cup {NoElem}]
  /\ \A t \in Threads : elem[t] \in Elems <=> pc[t] = "push"
  /\ got \in [Threads -> Elems \cup {NoElem}]

\* queue_new(Size): malloc leaves the slots uninitialised.
Init ==
  /\ q = "live"
  /\ head = 0
  /\ tail = 0
  /\ count = 0
  /\ buffer = [i \in Slots |-> NoElem]
  /\ full = {}
  /\ empty = {}
  /\ pc = [t \in Threads |-> "idle"]
  /\ elem = [t \in Threads |-> NoElem]
  /\ got = [t \in Threads |-> NoElem]
-----------------------------------------------------------------------------
\* Mutants: a signal only when the queue was empty, or full; an index that does not
\* wrap; one that stays.
SignalAtEdge(cond) ==
  IF count \in {0, Size} /\ cond # {} THEN {cond \ {t} : t \in cond} ELSE {cond}
AfterNoWrap(i) == i + 1
AfterStays(i) == i

\* pthread_cond_signal: one sleeper of cond, if there is one, becomes runnable.
Signalled(cond) == IF cond = {} THEN {cond} ELSE {cond \ {t} : t \in cond}

\* (i + 1) % q->size, the successor of a slot in the ring.
After(i) == (i + 1) % Size

AwakePushers == {t \in Threads : pc[t] = "push"} \ full
AwakePoppers == {t \in Threads : pc[t] = "pop"} \ empty
-----------------------------------------------------------------------------
\* A thread calls queue_push; with q == NULL the call returns false and changes
\* nothing.
CallPush(t, e) ==
  /\ q # "NULL"
  /\ pc[t] = "idle"
  /\ pc' = [pc EXCEPT ![t] = "push"]
  /\ elem' = [elem EXCEPT ![t] = e]
  /\ got' = [got EXCEPT ![t] = NoElem]
  /\ UNCHANGED <<q, head, tail, count, buffer, full, empty>>

\* The while test succeeds: sleep on q->full and release the mutex.
PushWait(t) ==
  /\ t \in AwakePushers
  /\ count = Size
  /\ full' = full \cup {t}
  /\ UNCHANGED <<q, head, tail, count, buffer, empty, pc, elem, got>>

\* The while test fails: store the element, signal one popper and return.
PushStore(t) ==
  /\ t \in AwakePushers
  /\ count # Size
  /\ buffer' = [buffer EXCEPT ![head] = elem[t]]
  /\ head' = After(head)
  /\ count' = count + 1
  /\ empty' \in Signalled(empty)
  /\ pc' = [pc EXCEPT ![t] = "idle"]
  /\ elem' = [elem EXCEPT ![t] = NoElem]
  /\ UNCHANGED <<q, tail, full, got>>

\* A thread calls queue_pop with the address of a fresh variable.
CallPop(t) ==
  /\ q # "NULL"
  /\ pc[t] = "idle"
  /\ pc' = [pc EXCEPT ![t] = "pop"]
  /\ got' = [got EXCEPT ![t] = NoElem]
  /\ UNCHANGED <<q, head, tail, count, buffer, full, empty, elem>>

\* The while test succeeds: sleep on q->empty and release the mutex.
PopWait(t) ==
  /\ t \in AwakePoppers
  /\ count = 0
  /\ empty' = empty \cup {t}
  /\ UNCHANGED <<q, head, tail, count, buffer, full, pc, elem, got>>

\* The while test fails: take the oldest element, signal one pusher and return.
PopTake(t) ==
  /\ t \in AwakePoppers
  /\ count # 0
  /\ got' = [got EXCEPT ![t] = buffer[tail]]
  /\ tail' = After(tail)
  /\ count' = count - 1
  /\ full' \in Signalled(full)
  /\ pc' = [pc EXCEPT ![t] = "idle"]
  /\ UNCHANGED <<q, head, buffer, empty, elem>>

\* pthread_cond_wait may return with no signal; the while loops are there for it.
SpuriousWakeup(t) ==
  /\ t \in full \cup empty
  /\ full' = full \ {t}
  /\ empty' = empty \ {t}
  /\ UNCHANGED <<q, head, tail, count, buffer, pc, elem, got>>

\* queue_delete: the owner calls it when no thread is inside an operation, which
\* is what the asserts on the destroy calls need.
Delete ==
  /\ q # "NULL"
  /\ \A t \in Threads : pc[t] = "idle"
  /\ q' = "NULL"
  /\ UNCHANGED <<head, tail, count, buffer, full, empty, pc, elem, got>>

\* The code a thread inside an operation runs the next time it has the mutex.
Step(t) == PushWait(t) \/ PushStore(t) \/ PopWait(t) \/ PopTake(t)

Next ==
  \/ \E t \in Threads, e \in Elems : CallPush(t, e)
  \/ \E t \in Threads : CallPop(t) \/ Step(t) \/ SpuriousWakeup(t)
  \/ Delete

Spec == Init /\ [][Next]_vars

\* Calls are the clients' choice, but a thread inside an operation and awake is
\* scheduled and gets the mutex, which is only ever held for a few instructions.
FairSpec == Spec /\ \A t \in Threads : WF_vars(Step(t))
-----------------------------------------------------------------------------
(***************************************************************************)
(* Properties.                                                             *)
(***************************************************************************)

\* The two indices and the counter, each updated by a different operation, agree:
\* the elements are in the count slots from tail, and the push index follows them.
RingConsistent ==
  Size > 0 =>
    /\ head = (tail + count) % Size
    /\ \A i \in 0 .. count - 1 : buffer[(tail + i) % Size] \in Elems

\* No pop is stranded: while a popper sleeps, every element in the buffer has an
\* awake popper of its own coming for it.  A push that forgot to signal, or
\* signalled only when the queue was empty, would leave an element and a sleeper.
NoPopStranded == empty # {} => count <= Cardinality(AwakePoppers)

\* Nor is a push: while a pusher sleeps, every free slot has an awake pusher.
NoPushStranded == full # {} => Size - count <= Cardinality(AwakePushers)

\* Nobody sleeps over work of theirs that no awake thread is coming for, however the
\* signals of pushes and pops and the threads that barge in interleave.
NobodyStranded == NoPopStranded /\ NoPushStranded

\* The contents of the ring as a sequence, oldest first.
Items == [i \in 1 .. count |-> buffer[(tail + i - 1) % Size]]

\* The ring buffer and its condition variables implement the FIFO of queue.h: no
\* element is lost, duplicated, overtaken or handed to two poppers.
Fifo == INSTANCE BoundedFifo WITH items <- Items
FifoSpec == Fifo!Spec

\* If an element waits at tail and a thread is inside queue_pop, some pop returns,
\* whoever else pushes, pops or barges in before the popper that was signalled.
PopProgress ==
  \A i \in Slots :
    (tail = i /\ count > 0 /\ \E t \in Threads : pc[t] = "pop") ~> tail # i

\* If a slot is free at head and a thread is inside queue_push, some push returns.
PushProgress ==
  \A i \in Slots :
    (head = i /\ count < Size /\ \E t \in Threads : pc[t] = "push") ~> head # i

\* Neither side of the queue stops while it has something to do.
Progress == PopProgress /\ PushProgress
=============================================================================
