------------------------------- MODULE Cacher -------------------------------
(***************************************************************************)
(* The cache simulator of asgn5/cacher.c.  It parses its options, reads    *)
(* one page name a line, looks it up in a list of at most maxsize nodes,   *)
(* prints HIT or MISS, and at the end of the input prints how many misses  *)
(* were compulsory and how many were for lack of capacity.  An option and  *)
(* a line are steps; the sweep of the clock hand, the one loop whose end   *)
(* depends on the data, is a step for every position it passes.            *)
(***************************************************************************)
EXTENDS Integers, FiniteSets, SequencesExt

CONSTANTS
  Uris,        \* the strings fgets may return, newline removed
  Numbers,     \* the numbers that may follow -N
  NoUri,       \* no line is being processed
  MaxArgs,     \* how many options the command line may have
  MaxLines     \* how many lines the input may have

ASSUME NumbersAssumption == Numbers \subseteq Int
ASSUME NoUriAssumption == NoUri \notin Uris
ASSUME BoundsAssumption == MaxArgs \in Nat /\ MaxLines \in Nat

VARIABLES
  args,                    \* the options getopt has not returned yet
  operands,                \* how many words of the command line are no options
  argc,                    \* the words of the command line, the program's name included
  policy,                  \* cache.policy
  maxsize,                 \* capacity, then cache.maxsize
  cachelist,               \* the nodes of cache.cachelist, head first
  history,                 \* the nodes of cache.history
  clockpointer,            \* the index, from 0, of the node the hand points at
  num_compulsory_misses,
  num_capacity_misses,
  input,                   \* the lines read so far
  output,                  \* the HITs and MISSes printed so far
  status                   \* "options", "reading", "inserting", or the end: "done", "refused"

commandline == <<args, operands, argc>>
options == <<commandline, policy, maxsize>>
cache == <<cachelist, history, clockpointer,
           num_compulsory_misses, num_capacity_misses>>
vars == <<options, cache, input, output, status>>

Node == [uri : Uris, bit : {0, 1}]

\* What getopt(argc, argv, "N:FLC") may return: -N with its number, which is a
\* word of its own, a policy, or '?' for anything else.
Option == [opt : {"N"}, n : Numbers, words : {2}]
          \cup [opt : {"F", "L", "C", "?"}, n : {0}, words : {1}]

Words(os) == FoldSeq(LAMBDA o, k : o.words + k, 0, os)

Init ==
  /\ args \in UNION {[1 .. n -> Option] : n \in 0 .. MaxArgs}
  /\ operands \in {0, 1}
  /\ argc = 1 + Words(args) + operands
  /\ policy = "FIFO"
  /\ maxsize = 3
  /\ cachelist = <<>>
  /\ history = <<>>
  /\ clockpointer = 0
  /\ num_compulsory_misses = 0
  /\ num_capacity_misses = 0
  /\ input = <<>>
  /\ output = <<>>
  /\ status = "options"
-----------------------------------------------------------------------------
\* The list operations.  Mutants: the last node is not looked at; a new node starts
\* with its bit set.
containsButLast(u, l) == \E i \in 1 .. Len(l) - 1 : l[i].uri = u
pushlistReferenced(u, l) == Append(l, [uri |-> u, bit |-> 1])

contains(u, l) == \E i \in DOMAIN l : l[i].uri = u
pushlist(u, l) == Append(l, [uri |-> u, bit |-> 0])
poplist(l) == IF l = <<>> THEN l ELSE Tail(l)

\* Mutants of delete: the node stays; the head goes, whatever it holds.
deleteNothing(u, l) == l
deleteHead(u, l) == poplist(l)

\* The index of the first node that holds u, which find and delete look for.
find(u, l) ==
  CHOOSE i \in DOMAIN l : l[i].uri = u /\ \A j \in 1 .. i - 1 : l[j].uri # u
delete(u, l) == RemoveAt(l, find(u, l))

\* Mutant: the bit is not cleared.
StillReferenced(l, i) == l

\* The node under the hand, the sweep's clearing of a bit and its step.
Item == cachelist[clockpointer + 1]
Unreferenced(l, i) == [l EXCEPT ![i].bit = 0]
NextPointer == (clockpointer + 1) % maxsize

\* The list insert_fifo and insert_lru push the element to.
Full == Len(cachelist) = maxsize
MakeRoom(l) == IF Full THEN poplist(l) ELSE l

element == Last(input)
Inserting(ps) == status = "inserting" /\ policy \in ps

\* The end of an insert function: main prints what it returned and reads on.
Answer(a) ==
  /\ output' = Append(output, a)
  /\ status' = "reading"
  /\ UNCHANGED <<options, input>>

\* A miss is compulsory when the page was never seen, and otherwise a capacity
\* miss, counted only in a full cache.
CountMiss ==
  IF contains(element, history)
    THEN /\ num_capacity_misses' = num_capacity_misses + (IF Full THEN 1 ELSE 0)
         /\ UNCHANGED <<num_compulsory_misses, history>>
    ELSE /\ num_compulsory_misses' = num_compulsory_misses + 1
         /\ history' = pushlist(element, history)
         /\ UNCHANGED num_capacity_misses

\* A step of the list alone.
OnlyTheList == UNCHANGED <<history, clockpointer, num_compulsory_misses, num_capacity_misses>>
-----------------------------------------------------------------------------
\* optind = argc: getopt moves the operands behind the options and never takes
\* one, so the loop of main ends only when there is none.
AllParsed == args = <<>> /\ operands = 0

\* getopt returns an option: the last -N and the last policy win, and a number
\* that is not positive, like an option that is none, ends the program.
ParseOption ==
  /\ status = "options"
  /\ args # <<>>
  /\ LET o == Head(args) IN
       /\ args' = Tail(args)
       /\ maxsize' = IF o.opt = "N" /\ o.n > 0 THEN o.n ELSE maxsize
       /\ policy' = CASE o.opt = "F" -> "FIFO" [] o.opt = "L" -> "LRU"
                      [] o.opt = "C" -> "CLOCK" [] OTHER -> policy
       /\ status' = IF o.opt = "?" \/ (o.opt = "N" /\ o.n <= 0) THEN "refused" ELSE status
  /\ UNCHANGED <<operands, argc, cache, input, output>>

\* getopt has returned -1 for an operand, and will for ever.
TurnInPlace ==
  /\ status = "options"
  /\ args = <<>>
  /\ operands > 0
  /\ UNCHANGED vars

\* After the loop main wants exactly three words, and sets the cache up.
OptionsParsed ==
  /\ status = "options"
  /\ AllParsed
  /\ status' = IF argc = 4 THEN "reading" ELSE "refused"
  /\ UNCHANGED <<options, cache, input, output>>

\* fgets returns the next line.
ReadLine(u) ==
  /\ status = "reading"
  /\ Len(input) < MaxLines
  /\ input' = Append(input, u)
  /\ status' = "inserting"
  /\ UNCHANGED <<options, cache, output>>

\* insert_fifo finds the element: nothing moves.
FifoHit ==
  /\ Inserting({"FIFO"})
  /\ contains(element, cachelist)
  /\ UNCHANGED cache
  /\ Answer("HIT")

\* insert_lru finds the element: it becomes the last to be popped.
LruHit ==
  /\ Inserting({"LRU"})
  /\ contains(element, cachelist)
  /\ cachelist' = pushlist(element, delete(element, cachelist))
  /\ OnlyTheList
  /\ Answer("HIT")

\* insert_fifo and insert_lru miss: pop the head of a full list, push at its end.
ListMiss ==
  /\ Inserting({"FIFO", "LRU"})
  /\ ~contains(element, cachelist)
  /\ cachelist' = pushlist(element, MakeRoom(cachelist))
  /\ CountMiss
  /\ UNCHANGED clockpointer
  /\ Answer("MISS")

\* insert_clock finds the element: set its reference bit.
ClockHit ==
  /\ Inserting({"CLOCK"})
  /\ contains(element, cachelist)
  /\ cachelist' = [cachelist EXCEPT ![find(element, cachelist)].bit = 1]
  /\ OnlyTheList
  /\ Answer("HIT")

\* One turn of the while loop: a node that was referenced is passed over.
ClockSweep ==
  /\ Inserting({"CLOCK"})
  /\ ~contains(element, cachelist)
  /\ Full
  /\ Item.bit = 1
  /\ cachelist' = Unreferenced(cachelist, clockpointer + 1)
  /\ clockpointer' = NextPointer
  /\ UNCHANGED <<options, history, num_compulsory_misses, num_capacity_misses,
                 input, output, status>>

\* set_index: the element replaces the uri of the node, which keeps its bit.
ClockReplace ==
  /\ Inserting({"CLOCK"})
  /\ ~contains(element, cachelist)
  /\ Full
  /\ Item.bit # 1
  /\ cachelist' = [cachelist EXCEPT ![clockpointer + 1].uri = element]
  /\ clockpointer' = NextPointer
  /\ CountMiss
  /\ Answer("MISS")

\* A cache that is not full: the hand stays where it is.
ClockFill ==
  /\ Inserting({"CLOCK"})
  /\ ~contains(element, cachelist)
  /\ ~Full
  /\ cachelist' = pushlist(element, cachelist)
  /\ CountMiss
  /\ UNCHANGED clockpointer
  /\ Answer("MISS")

\* End of file: main prints the two counters and frees both lists.
EndOfFile ==
  /\ status = "reading"
  /\ status' = "done"
  /\ cachelist' = <<>>
  /\ history' = <<>>
  /\ UNCHANGED <<options, clockpointer, num_compulsory_misses,
                 num_capacity_misses, input, output>>

Options == ParseOption \/ TurnInPlace \/ OptionsParsed

Insert ==
  \/ FifoHit \/ LruHit \/ ListMiss
  \/ ClockHit \/ ClockSweep \/ ClockReplace \/ ClockFill

Next == Options \/ (\E u \in Uris : ReadLine(u)) \/ Insert \/ EndOfFile

Spec == Init /\ [][Next]_vars
-----------------------------------------------------------------------------
(***************************************************************************)
(* Properties.                                                             *)
(***************************************************************************)

\* Types: no list holds a page twice, the cache never outgrows maxsize and the
\* hand stays on a slot.
TypeOK ==
  /\ args \in Seq(Option)
  /\ operands \in {0, 1}
  /\ policy \in {"FIFO", "LRU", "CLOCK"}
  /\ maxsize \in {n \in Numbers : n > 0} \cup {3}
  /\ \A l \in {cachelist, history} :
       /\ Len(l) <= MaxLines
       /\ \A i \in DOMAIN l : l[i] \in Node
       /\ \A i, j \in DOMAIN l : l[i].uri = l[j].uri => i = j
  /\ Len(cachelist) <= maxsize
  /\ clockpointer \in 0 .. maxsize - 1
  /\ status \in {"options", "reading", "inserting", "done", "refused"}
  /\ \A i \in DOMAIN input : input[i] \in Uris
  /\ \A i \in DOMAIN output : output[i] \in {"HIT", "MISS"}
  /\ Len(input) = Len(output) + (IF status = "inserting" THEN 1 ELSE 0)

\* The indices of the lines answered so far, and the misses among those between
\* two lines.
Answered == DOMAIN output
MissesBetween(i, j) == Cardinality({k \in i + 1 .. j - 1 : output[k] = "MISS"})

\* The two counters main prints classify the MISS lines it printed: one
\* compulsory miss for each distinct page, every other miss for capacity.  In a cache
\* that is not full the insert functions have no counter for a miss on a page in the
\* history, and rely on nothing being evicted before the cache is full.
MissesCounted ==
  /\ num_compulsory_misses = Cardinality({input[i] : i \in Answered})
  /\ num_compulsory_misses + num_capacity_misses = MissesBetween(0, Len(output) + 1)

\* The lines before i that ask for the same page as line i.
Earlier(i) == {j \in 1 .. i - 1 : input[j] = input[i]}

\* LRU answers HIT exactly when fewer than maxsize other pages were requested
\* since the page was last: the stack distance that defines the policy.
LruStackDistance ==
  policy = "LRU" =>
    \A i \in Answered :
      output[i] = "HIT" <=>
        \E j \in Earlier(i) : Cardinality({input[k] : k \in j + 1 .. i - 1}) < maxsize

\* FIFO answers HIT exactly when fewer than maxsize pages were loaded since the
\* page was loaded, however often it was hit in between.
FifoResidency ==
  policy = "FIFO" =>
    \A i \in Answered :
      output[i] = "HIT" <=>
        \E j \in Earlier(i) : output[j] = "MISS" /\ MissesBetween(j, i) < maxsize

\* CLOCK keeps no page for ever: one that was not requested since it was loaded is
\* gone once maxsize others were loaded after it; one that was hit has its second
\* chance and is gone maxsize - 1 loads later than that.
ClockResidency ==
  policy = "CLOCK" =>
    \A i \in Answered : \A j \in Earlier(i) :
      (output[i] = "HIT" /\ \A k \in Earlier(i) : k <= j) =>
        MissesBetween(j, i) < maxsize + (IF output[j] = "HIT" THEN maxsize - 1 ELSE 0)

\* The answers are those of the policy, as the input alone defines them.
HitsOfPolicy == LruStackDistance /\ FifoResidency /\ ClockResidency

\* The pages in the order the policy would evict them: from the head of the list,
\* or round the clock from the hand, which rests at 0 until the cache is full.
EvictionOrder ==
  [i \in 1 .. Len(cachelist) |->
     cachelist[((clockpointer + i - 1) % Len(cachelist)) + 1].uri]

\* The positions of the pages that the hand would pass over.
Referenced == {i \in DOMAIN cachelist : cachelist[i].bit = 1}

Policy == INSTANCE ReplacementQueue WITH
  queue <- EvictionOrder,
  ref <- {cachelist[i].uri : i \in Referenced},
  pending <- IF status = "inserting" THEN element ELSE NoUri,
  answers <- output,
  closed <- status \in {"done", "refused"}

\* The list, the reference bits and the hand implement the queue of the policy:
\* CLOCK, which replaces pages in place, evicts what a FIFO queue with second
\* chances would evict.
PolicySpec == Policy!Spec

\* Every line is answered, even when all pages were referenced: each turn of the
\* sweep that does not end it leaves fewer pages to pass over.
SweepEnds ==
  [][status = "inserting" =>
       status' = "reading" \/ (Referenced' \subseteq Referenced /\ Referenced' # Referenced)]_vars
=============================================================================
