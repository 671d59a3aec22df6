---------------------------- MODULE BoundedFifo ----------------------------
(***************************************************************************)
(* What queue.h promises: a FIFO of at most Size elements shared by        *)
(* threads, where a push into a full queue and a pop from an empty one     *)
(* block, and an element leaves once, in the order of the pushes.  There   *)
(* is no buffer, no index and no condition variable here: an operation     *)
(* takes effect in one step between its call and its return.               *)
(***************************************************************************)
EXTENDS Integers, Sequences

CONSTANTS
  Threads,   \* the callers of the queue
  Elems,     \* the void pointers that may be pushed
  Size,      \* the argument of queue_new
  NoElem     \* "no element": what an elem out-parameter holds before a pop

VARIABLES
  q,         \* "live" until queue_delete assigns NULL to the owner's pointer
  items,     \* the elements in the queue, oldest first
  pc,        \* the operation each thread has called and not returned from
  elem,      \* the argument of the push a thread is in
  got        \* what the last pop of a thread stored in *elem

vars == <<q, items, pc, elem, got>>

Init ==
  /\ q = "live"
  /\ items = << >>
  /\ pc = [t \in Threads |-> "idle"]
  /\ elem = [t \in Threads |-> NoElem]
  /\ got = [t \in Threads |-> NoElem]

CallPush(t, e) ==
  /\ q = "live"
  /\ pc[t] = "idle"
  /\ pc' = [pc EXCEPT ![t] = "push"]
  /\ elem' = [elem EXCEPT ![t] = e]
  /\ got' = [got EXCEPT ![t] = NoElem]
  /\ UNCHANGED <<q, items>>

CallPop(t) ==
  /\ q = "live"
  /\ pc[t] = "idle"
  /\ pc' = [pc EXCEPT ![t] = "pop"]
  /\ got' = [got EXCEPT ![t] = NoElem]
  /\ UNCHANGED <<q, items, elem>>

Push(t) ==
  /\ pc[t] = "push"
  /\ Len(items) < Size
  /\ items' = Append(items, elem[t])
  /\ pc' = [pc EXCEPT ![t] = "idle"]
  /\ elem' = [elem EXCEPT ![t] = NoElem]
  /\ UNCHANGED <<q, got>>

Pop(t) ==
  /\ pc[t] = "pop"
  /\ items # << >>
  /\ items' = Tail(items)
  /\ got' = [got EXCEPT ![t] = Head(items)]
  /\ pc' = [pc EXCEPT ![t] = "idle"]
  /\ UNCHANGED <<q, elem>>

Delete ==
  /\ q = "live"
  /\ \A t \in Threads : pc[t] = "idle"
  /\ q' = "NULL"
  /\ UNCHANGED <<items, pc, elem, got>>

Next ==
  \/ \E t \in Threads, e \in Elems : CallPush(t, e)
  \/ \E t \in Threads : CallPop(t) \/ Push(t) \/ Pop(t)
  \/ Delete

Spec == Init /\ [][Next]_vars
=============================================================================
