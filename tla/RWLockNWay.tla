----------------------------- MODULE RWLockNWay -----------------------------
(***************************************************************************)
(* Who overtakes whom in asgn3/rwlock.c, over three history variables: the *)
(* lock has no field that counts those it lets pass a waiter.  N_WAY       *)
(* infers the number of readers from readersT, which counts all of them    *)
(* since the last writer, and that of the writers from readersT being 0.   *)
(***************************************************************************)
EXTENDS RWLock

VARIABLES
  passed,      \* readers let past a waiting writer since the last writer
  overtook,    \* writers let past a waiting reader since the last reader
  wrapped      \* whether readersT has ever passed INT_MAX

hvars == <<vars, passed, overtook, wrapped>>

HInit == Init /\ passed = 0 /\ overtook = 0 /\ wrapped = FALSE

\* READERS promises nothing to writers, nor WRITERS to readers: those are not counted.
Record ==
  /\ passed' = IF writers' > writers THEN 0
               ELSE IF priority # "READERS" /\ readers' > readers /\ write_wait > 0
               THEN passed + 1
               ELSE passed
  /\ overtook' = IF readers' > readers THEN 0
                 ELSE IF priority # "WRITERS" /\ writers' > writers /\ reader_wait > 0
                 THEN overtook + 1
                 ELSE overtook
  /\ wrapped' = (wrapped \/ readersT' < 0)

HSpec == HInit /\ [][Next /\ Record]_hvars

AtMostNPass == (priority = "N_WAY" /\ passed > 0) => passed <= n

\* Though threads of both kinds come, wait and come back at any time: between two
\* writers no reader passes a writer that waits with WRITERS, and at most n with
\* N_WAY, as long as readersT does not wrap; between two readers no writer passes a
\* reader that waits with READERS, and at most one with N_WAY.
BoundedOvertaking ==
  /\ ~wrapped => AtMostNPass
  /\ priority = "WRITERS" => passed = 0
  /\ priority = "READERS" => overtook = 0
  /\ (priority = "N_WAY" /\ n > 0) => overtook <= 1
=============================================================================
