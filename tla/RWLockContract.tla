--------------------------- MODULE RWLockContract ---------------------------
(***************************************************************************)
(* What rwlock.h promises: reader_lock acquires the lock for reading and   *)
(* writer_lock for writing, readers share it, a writer has it alone.  The  *)
(* waiting, the priority and the mutex are the implementation's business:  *)
(* here a call is either pending or has been granted.                      *)
(***************************************************************************)

CONSTANT Threads   \* the callers of the lock

VARIABLES
  allocated,       \* FALSE once rwlock_delete has freed the lock
  use              \* what each thread has of the lock, or asks of it

vars == <<allocated, use>>

Users(u) == {t \in Threads : use[t] = u}

Init ==
  /\ allocated = TRUE
  /\ use = [t \in Threads |-> "none"]

\* A call to reader_lock or writer_lock that has not returned.
Ask(t, u) ==
  /\ allocated
  /\ use[t] = "none"
  /\ u \in {"wants read", "wants write"}
  /\ use' = [use EXCEPT ![t] = u]
  /\ UNCHANGED allocated

GrantRead(t) ==
  /\ use[t] = "wants read"
  /\ Users("write") = {}
  /\ use' = [use EXCEPT ![t] = "read"]
  /\ UNCHANGED allocated

GrantWrite(t) ==
  /\ use[t] = "wants write"
  /\ Users("write") = {}
  /\ Users("read") = {}
  /\ use' = [use EXCEPT ![t] = "write"]
  /\ UNCHANGED allocated

Release(t) ==
  /\ use[t] \in {"read", "write"}
  /\ use' = [use EXCEPT ![t] = "none"]
  /\ UNCHANGED allocated

Delete ==
  /\ allocated
  /\ \A t \in Threads : use[t] = "none"
  /\ allocated' = FALSE
  /\ UNCHANGED use

Next ==
  \/ \E t \in Threads :
       \/ \E u \in {"wants read", "wants write"} : Ask(t, u)
       \/ GrantRead(t) \/ GrantWrite(t) \/ Release(t)
  \/ Delete

Spec == Init /\ [][Next]_vars
=============================================================================
