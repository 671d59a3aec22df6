-------------------------- MODULE ReplacementQueue --------------------------
(***************************************************************************)
(* What the three replacement policies of asgn5 promise, as one queue of   *)
(* pages: the page at its head is the next victim.  FIFO never reorders    *)
(* it, LRU moves a page that is hit to the end, and CLOCK gives a page     *)
(* that was hit since it came to the head a second chance at the end.      *)
(***************************************************************************)
EXTENDS Naturals, SequencesExt

CONSTANTS
  Uris,     \* the pages
  NoUri     \* no request is pending

VARIABLES
  policy,   \* "FIFO", "LRU" or "CLOCK"
  maxsize,  \* how many pages the cache holds
  queue,    \* the resident pages, the next victim first
  ref,      \* the resident pages that were hit since their last chance
  pending,  \* the page requested and not yet answered, or NoUri
  answers,  \* "HIT" or "MISS" for every request so far
  closed    \* the last request has been answered

vars == <<policy, maxsize, queue, ref, pending, answers, closed>>

Init ==
  /\ policy \in {"FIFO", "LRU", "CLOCK"}
  /\ maxsize \in Nat \ {0}
  /\ queue = <<>>
  /\ ref = {}
  /\ pending = NoUri
  /\ answers = <<>>
  /\ closed = FALSE

Resident == {queue[i] : i \in 1 .. Len(queue)}

\* Policy and size are settled before the first request.
Configure ==
  /\ answers = <<>>
  /\ pending = NoUri
  /\ ~closed
  /\ policy' \in {"FIFO", "LRU", "CLOCK"}
  /\ maxsize' \in Nat \ {0}
  /\ UNCHANGED <<queue, ref, pending, answers, closed>>

Request(u) ==
  /\ pending = NoUri
  /\ ~closed
  /\ pending' = u
  /\ UNCHANGED <<policy, maxsize, queue, ref, answers, closed>>

Answered(answer) ==
  /\ pending' = NoUri
  /\ answers' = Append(answers, answer)
  /\ UNCHANGED <<policy, maxsize, closed>>

Hit ==
  /\ pending \in Resident
  /\ \/ policy = "FIFO" /\ UNCHANGED <<queue, ref>>
     \/ /\ policy = "LRU"
        /\ \E i \in DOMAIN queue :
             queue[i] = pending /\ queue' = Append(RemoveAt(queue, i), pending)
        /\ UNCHANGED ref
     \/ policy = "CLOCK" /\ ref' = ref \cup {pending} /\ UNCHANGED queue
  /\ Answered("HIT")

\* The page at the head was hit since its last chance: it goes to the end.
SecondChance ==
  /\ pending \notin Resident \cup {NoUri}
  /\ Len(queue) = maxsize
  /\ Head(queue) \in ref
  /\ queue' = Append(Tail(queue), Head(queue))
  /\ ref' = ref \ {Head(queue)}
  /\ UNCHANGED <<policy, maxsize, pending, answers, closed>>

Miss ==
  /\ pending \notin Resident \cup {NoUri}
  /\ \/ Len(queue) < maxsize /\ queue' = Append(queue, pending)
     \/ /\ Len(queue) = maxsize
        /\ Head(queue) \notin ref
        /\ queue' = Append(Tail(queue), pending)
  /\ Answered("MISS")
  /\ UNCHANGED ref

Close ==
  /\ pending = NoUri
  /\ closed' = TRUE
  /\ queue' = <<>>
  /\ ref' = {}
  /\ UNCHANGED <<policy, maxsize, pending, answers>>

Next == Configure \/ (\E u \in Uris : Request(u)) \/ Hit \/ SecondChance \/ Miss \/ Close

Spec == Init /\ [][Next]_vars
=============================================================================
