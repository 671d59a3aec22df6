---------------------------- MODULE CacherProofs ----------------------------
(***************************************************************************)
(* Theorems about the cache simulator of asgn5, for every capacity, every  *)
(* command line and every input: the answers of the three policies, the    *)
(* counters, the sweep of the clock hand, and that the lists implement the *)
(* queue of the policy.                                                    *)
(***************************************************************************)
EXTENDS Cacher, FiniteSetTheorems, SequenceTheorems, TLAPS

-----------------------------------------------------------------------------
(***************************************************************************)
(* The lists.                                                              *)
(***************************************************************************)

\* No two nodes hold the same page.
Distinct(l) == \A i, j \in DOMAIN l : l[i].uri = l[j].uri => i = j

\* A node in a list, replaced by another.
LEMMA NodeReplaced ==
  ASSUME NEW l \in Seq(Node), NEW f \in 1 .. Len(l), NEW x \in Node
  PROVE  /\ [l EXCEPT ![f] = x] \in Seq(Node)
         /\ Len([l EXCEPT ![f] = x]) = Len(l)
         /\ \A i \in 1 .. Len(l) : i # f => [l EXCEPT ![f] = x][i] = l[i]
         /\ [l EXCEPT ![f] = x][f] = x
  BY ExceptSeq

\* The bit of a node is set or cleared.
LEMMA BitChanged ==
  ASSUME NEW l \in Seq(Node), NEW f \in 1 .. Len(l), NEW b \in {0, 1}
  PROVE  LET m == [l EXCEPT ![f].bit = b]
         IN  /\ m \in Seq(Node)
             /\ Len(m) = Len(l)
             /\ \A i \in 1 .. Len(l) : i # f => m[i] = l[i]
             /\ m[f].uri = l[f].uri /\ m[f].bit = b
<1> DEFINE x == [l[f] EXCEPT !.bit = b]
<1>1. l[f] \in Node
  OBVIOUS
<1>2. \A y \in Node : [y EXCEPT !.bit = b] \in Node /\ [y EXCEPT !.bit = b].uri = y.uri
                      /\ [y EXCEPT !.bit = b].bit = b
  BY DEF Node
<1>3. x \in Node /\ x.uri = l[f].uri /\ x.bit = b
  BY <1>1, <1>2, Zenon
<1> DEFINE m == [l EXCEPT ![f].bit = b]
<1>4. m = [l EXCEPT ![f] = x]
  BY Zenon
<1> HIDE DEF x, m
<1>5. /\ m \in Seq(Node)
      /\ Len(m) = Len(l)
      /\ \A i \in 1 .. Len(l) : i # f => m[i] = l[i]
      /\ m[f] = x
  BY <1>3, <1>4, NodeReplaced
<1>6. /\ m \in Seq(Node)
      /\ Len(m) = Len(l)
      /\ \A i \in 1 .. Len(l) : i # f => m[i] = l[i]
      /\ m[f].uri = l[f].uri /\ m[f].bit = b
  BY <1>3, <1>5
<1> QED
  BY <1>6, Zenon DEF m

\* A node gets another page, and keeps its bit.
LEMMA UriChanged ==
  ASSUME NEW l \in Seq(Node), NEW f \in 1 .. Len(l), NEW u \in Uris
  PROVE  LET m == [l EXCEPT ![f].uri = u]
         IN  /\ m \in Seq(Node)
             /\ Len(m) = Len(l)
             /\ \A i \in 1 .. Len(l) : i # f => m[i] = l[i]
             /\ m[f].uri = u /\ m[f].bit = l[f].bit
<1> DEFINE x == [l[f] EXCEPT !.uri = u]
<1>1. l[f] \in Node
  OBVIOUS
<1>2. \A y \in Node : [y EXCEPT !.uri = u] \in Node /\ [y EXCEPT !.uri = u].bit = y.bit
                      /\ [y EXCEPT !.uri = u].uri = u
  BY DEF Node
<1>3. x \in Node /\ x.uri = u /\ x.bit = l[f].bit
  BY <1>1, <1>2, Zenon
<1> DEFINE m == [l EXCEPT ![f].uri = u]
<1>4. m = [l EXCEPT ![f] = x]
  BY Zenon
<1> HIDE DEF x, m
<1>5. /\ m \in Seq(Node)
      /\ Len(m) = Len(l)
      /\ \A i \in 1 .. Len(l) : i # f => m[i] = l[i]
      /\ m[f] = x
  BY <1>3, <1>4, NodeReplaced
<1>6. /\ m \in Seq(Node)
      /\ Len(m) = Len(l)
      /\ \A i \in 1 .. Len(l) : i # f => m[i] = l[i]
      /\ m[f].uri = u /\ m[f].bit = l[f].bit
  BY <1>3, <1>5
<1> QED
  BY <1>6, Zenon DEF m

\* A node pushed at the end.
LEMMA Pushed ==
  ASSUME NEW l \in Seq(Node), NEW u \in Uris
  PROVE  /\ pushlist(u, l) \in Seq(Node)
         /\ Len(pushlist(u, l)) = Len(l) + 1
         /\ \A i \in 1 .. Len(l) : pushlist(u, l)[i] = l[i]
         /\ pushlist(u, l)[Len(l) + 1] = [uri |-> u, bit |-> 0]
<1>1. [uri |-> u, bit |-> 0] \in Node
  BY DEF Node
<1> QED
  BY <1>1, AppendProperties DEF pushlist

\* Its page is the only one that is added.
LEMMA PushedHolds ==
  ASSUME NEW l \in Seq(Node), NEW u \in Uris
  PROVE  /\ \A v : contains(v, pushlist(u, l)) <=> contains(v, l) \/ v = u
         /\ (Distinct(l) /\ ~contains(u, l)) => Distinct(pushlist(u, l))
<1> DEFINE m == pushlist(u, l)
<1>1. m \in Seq(Node) /\ Len(m) = Len(l) + 1
      /\ (\A i \in 1 .. Len(l) : m[i] = l[i]) /\ m[Len(l) + 1] = [uri |-> u, bit |-> 0]
  BY Pushed
<1> HIDE DEF m
<1>2. m[Len(l) + 1].uri = u
  BY <1>1
<1>3. DOMAIN m = 1 .. Len(l) + 1 /\ DOMAIN l = 1 .. Len(l) /\ Len(l) \in Nat
  BY <1>1
<1>4. ASSUME NEW v PROVE contains(v, m) <=> contains(v, l) \/ v = u
  <2>1. ASSUME contains(v, m) PROVE contains(v, l) \/ v = u
    BY <1>1, <1>2, <1>3, <2>1 DEF contains
  <2>2. ASSUME contains(v, l) PROVE contains(v, m)
    BY <1>1, <1>3, <2>2 DEF contains
  <2>3. contains(u, m)
    BY <1>2, <1>3 DEF contains
  <2> QED
    BY <2>1, <2>2, <2>3
<1>5. ASSUME Distinct(l), ~contains(u, l) PROVE Distinct(m)
  BY <1>1, <1>2, <1>3, <1>5 DEF Distinct, contains
<1> QED
  BY <1>4, <1>5 DEF m

\* The head popped.
LEMMA Popped ==
  ASSUME NEW l \in Seq(Node), Len(l) > 0
  PROVE  /\ poplist(l) \in Seq(Node)
         /\ Len(poplist(l)) = Len(l) - 1
         /\ \A i \in 1 .. Len(l) - 1 : poplist(l)[i] = l[i + 1]
<1>1. l # <<>>
  OBVIOUS
<1> QED
  BY <1>1, HeadTailProperties DEF poplist

\* In a list that holds a page once, find finds its node.
LEMMA Found ==
  ASSUME NEW l \in Seq(Node), NEW u \in Uris, Distinct(l), contains(u, l)
  PROVE  find(u, l) \in 1 .. Len(l) /\ l[find(u, l)].uri = u
<1>1. PICK i \in DOMAIN l : l[i].uri = u
  BY DEF contains
<1>2. \A j \in 1 .. i - 1 : l[j].uri # u
  BY <1>1 DEF Distinct
<1>3. \E k \in DOMAIN l : l[k].uri = u /\ \A j \in 1 .. k - 1 : l[j].uri # u
  BY <1>1, <1>2
<1>4. find(u, l) \in DOMAIN l /\ l[find(u, l)].uri = u
  BY <1>3 DEF find
<1> QED
  BY <1>4

\* A node taken out of the middle.
LEMMA Removed ==
  ASSUME NEW S, NEW l \in Seq(S), NEW f \in 1 .. Len(l)
  PROVE  /\ RemoveAt(l, f) \in Seq(S)
         /\ Len(RemoveAt(l, f)) = Len(l) - 1
         /\ \A i \in 1 .. Len(l) - 1 : RemoveAt(l, f)[i] = IF i < f THEN l[i] ELSE l[i + 1]
<1> DEFINE front == SubSeq(l, 1, f - 1)
           back == SubSeq(l, f + 1, Len(l))
<1>1. /\ front \in Seq(S) /\ Len(front) = f - 1
      /\ \A i \in 1 .. f - 1 : front[i] = l[i]
  <2>1. \A i \in 1 .. f - 1 : l[i] \in S
    OBVIOUS
  <2>2. front \in Seq(S) /\ Len(front) = (IF 1 <= f - 1 THEN f - 1 - 1 + 1 ELSE 0)
        /\ \A i \in 1 .. f - 1 - 1 + 1 : front[i] = l[1 + i - 1]
    BY <2>1, SubSeqProperties
  <2>3. \A i \in 1 .. f - 1 : front[i] = l[1 + i - 1] /\ 1 + i - 1 = i
    BY <2>2
  <2> QED
    BY <2>2, <2>3
<1>2. /\ back \in Seq(S) /\ Len(back) = Len(l) - f
      /\ \A i \in 1 .. Len(l) - f : back[i] = l[f + i]
  <2>1. \A i \in f + 1 .. Len(l) : l[i] \in S
    OBVIOUS
  <2>2. back \in Seq(S)
        /\ Len(back) = (IF f + 1 <= Len(l) THEN Len(l) - (f + 1) + 1 ELSE 0)
        /\ \A i \in 1 .. Len(l) - (f + 1) + 1 : back[i] = l[f + 1 + i - 1]
    BY <2>1, SubSeqProperties
  <2>3. \A i \in 1 .. Len(l) - f : back[i] = l[f + 1 + i - 1] /\ f + 1 + i - 1 = f + i
    BY <2>2
  <2> QED
    BY <2>2, <2>3
<1> HIDE DEF front, back
<1>3. /\ front \o back \in Seq(S)
      /\ Len(front \o back) = Len(front) + Len(back)
      /\ \A i \in 1 .. Len(front) + Len(back) : (front \o back)[i] =
           IF i <= Len(front) THEN front[i] ELSE back[i - Len(front)]
  BY <1>1, <1>2, ConcatProperties
<1>4. ASSUME NEW i \in 1 .. Len(l) - 1
      PROVE  (front \o back)[i] = IF i < f THEN l[i] ELSE l[i + 1]
  <2>1. CASE i < f
    BY <1>1, <1>2, <1>3, <2>1
  <2>2. CASE ~(i < f)
    <3> i >= f
      BY <2>2
    <3>1. i - (f - 1) \in 1 .. Len(l) - f /\ f + (i - (f - 1)) = i + 1
      BY <2>2
    <3>2. (front \o back)[i] = back[i - (f - 1)]
      BY <1>1, <1>2, <1>3, <2>2
    <3> QED
      BY <1>2, <2>2, <3>1, <3>2
  <2> QED
    BY <2>1, <2>2, Zenon
<1>5. Len(front \o back) = Len(l) - 1
  BY <1>1, <1>2, <1>3
<1>6. RemoveAt(l, f) = front \o back
  BY DEF RemoveAt, front, back
<1> QED
  BY <1>3, <1>4, <1>5, <1>6, Zenon

\* delete and push: the page moves to the end, and the nodes behind it move up.
LEMMA Moved ==
  ASSUME NEW l \in Seq(Node), NEW u \in Uris, Distinct(l), contains(u, l)
  PROVE  LET f == find(u, l)
             m == pushlist(u, delete(u, l))
         IN  /\ m \in Seq(Node)
             /\ Len(m) = Len(l)
             /\ \A i \in 1 .. Len(l) - 1 : m[i] = IF i < f THEN l[i] ELSE l[i + 1]
             /\ m[Len(l)] = [uri |-> u, bit |-> 0]
<1>1. find(u, l) \in 1 .. Len(l)
  BY Found
<1>2. /\ delete(u, l) \in Seq(Node)
      /\ Len(delete(u, l)) = Len(l) - 1
      /\ \A i \in 1 .. Len(l) - 1 :
           delete(u, l)[i] = IF i < find(u, l) THEN l[i] ELSE l[i + 1]
  BY <1>1, Removed DEF delete
<1>3. /\ pushlist(u, delete(u, l)) \in Seq(Node)
      /\ Len(pushlist(u, delete(u, l))) = Len(delete(u, l)) + 1
      /\ \A i \in 1 .. Len(delete(u, l)) : pushlist(u, delete(u, l))[i] = delete(u, l)[i]
      /\ pushlist(u, delete(u, l))[Len(delete(u, l)) + 1] = [uri |-> u, bit |-> 0]
  BY <1>2, Pushed
<1>4. Len(delete(u, l)) + 1 = Len(l)
  BY <1>2
<1> QED
  BY <1>2, <1>3, <1>4

-----------------------------------------------------------------------------
(***************************************************************************)
(* Type correctness.  TypeOK becomes inductive with what it leaves out:    *)
(* the lists are never longer than the output, they are empty before the   *)
(* first line and after the last, the hand waits at 0 for a full clock,    *)
(* and only the clock sets a bit.                                          *)
(***************************************************************************)

\* How many lines were answered.
Lines == Len(output)

ListsInv ==
  /\ cachelist \in Seq(Node) /\ Distinct(cachelist)
  /\ history \in Seq(Node) /\ Distinct(history)
  /\ Len(cachelist) <= maxsize
  /\ Len(cachelist) <= Lines
  /\ Len(history) <= Lines
  /\ status = "done" => cachelist = <<>> /\ history = <<>>
  /\ (status # "done" /\ (policy # "CLOCK" \/ ~Full)) => clockpointer = 0
  /\ policy # "CLOCK" => \A i \in DOMAIN cachelist : cachelist[i].bit = 0

StreamsInv ==
  /\ input \in Seq(Uris)
  /\ output \in Seq({"HIT", "MISS"})
  /\ Len(input) = Lines + (IF status = "inserting" THEN 1 ELSE 0)
  /\ Len(input) <= MaxLines
  /\ status \in {"options", "refused"} => output = <<>>

ScalarsInv ==
  /\ args \in Seq(Option)
  /\ operands \in {0, 1}
  /\ policy \in {"FIFO", "LRU", "CLOCK"}
  /\ maxsize \in {n \in Numbers : n > 0} \cup {3}
  /\ maxsize \in Nat \ {0}
  /\ clockpointer \in 0 .. maxsize - 1
  /\ num_compulsory_misses \in Nat
  /\ num_capacity_misses \in Nat
  /\ status \in {"options", "reading", "inserting", "done", "refused"}

TypeInv == ListsInv /\ StreamsInv /\ ScalarsInv

\* What a step does to the list: a node is added; the head goes and a node is added;
\* the node f moves to the end; the node f gets another page; its bit another value.
Grows(u) ==
  /\ Len(cachelist') = Len(cachelist) + 1
  /\ \A i \in 1 .. Len(cachelist) : cachelist'[i] = cachelist[i]
  /\ cachelist'[Len(cachelist) + 1] = [uri |-> u, bit |-> 0]

Slides(u) ==
  /\ Len(cachelist') = Len(cachelist)
  /\ \A i \in 1 .. Len(cachelist) - 1 : cachelist'[i] = cachelist[i + 1]
  /\ cachelist'[Len(cachelist)] = [uri |-> u, bit |-> 0]

MovesUp(u, f) ==
  /\ f \in 1 .. Len(cachelist) /\ cachelist[f].uri = u
  /\ Len(cachelist') = Len(cachelist)
  /\ \A i \in 1 .. Len(cachelist) - 1 :
       cachelist'[i] = IF i < f THEN cachelist[i] ELSE cachelist[i + 1]
  /\ cachelist'[Len(cachelist)] = [uri |-> u, bit |-> 0]

Replaces(f, u) ==
  /\ f \in 1 .. Len(cachelist)
  /\ Len(cachelist') = Len(cachelist)
  /\ \A i \in 1 .. Len(cachelist) : i # f => cachelist'[i] = cachelist[i]
  /\ cachelist'[f].uri = u /\ cachelist'[f].bit = cachelist[f].bit

SetsBit(f, b) ==
  /\ f \in 1 .. Len(cachelist)
  /\ Len(cachelist') = Len(cachelist)
  /\ \A i \in 1 .. Len(cachelist) : i # f => cachelist'[i] = cachelist[i]
  /\ cachelist'[f].uri = cachelist[f].uri /\ cachelist'[f].bit = b

\* The line that is being answered is the one after the last answered.
LEMMA Element ==
  ASSUME TypeInv, status = "inserting"
  PROVE  /\ Lines \in Nat
         /\ Len(input) = Lines + 1
         /\ element = input[Lines + 1]
         /\ element \in Uris
  BY DEF TypeInv, StreamsInv, element, Last, Lines

\* An answer is added to the output.
LEMMA Answers ==
  ASSUME TypeInv, NEW a \in {"HIT", "MISS"}, Answer(a)
  PROVE  /\ output' \in Seq({"HIT", "MISS"})
         /\ Lines' = Lines + 1
         /\ \A i \in 1 .. Lines : output'[i] = output[i]
         /\ output'[Lines + 1] = a
  BY AppendProperties DEF TypeInv, StreamsInv, Answer, Lines

\* A miss adds its page to the history.
LEMMA Counts ==
  ASSUME TypeInv, status = "inserting", CountMiss
  PROVE  /\ history' \in Seq(Node) /\ Distinct(history')
         /\ Len(history') <= Len(history) + 1
         /\ \A u \in Uris : contains(u, history') <=> contains(u, history) \/ u = element
         /\ num_compulsory_misses' \in Nat
         /\ num_capacity_misses' \in Nat
<1>1. element \in Uris
  BY Element
<1>2. CASE contains(element, history)
  BY <1>1, <1>2 DEF CountMiss, TypeInv, ListsInv, ScalarsInv
<1>3. CASE ~contains(element, history)
  <2>1. history' = pushlist(element, history)
    BY <1>3 DEF CountMiss
  <2>2. history' \in Seq(Node) /\ Len(history') = Len(history) + 1
    BY <1>1, <2>1, Pushed DEF TypeInv, ListsInv
  <2>3. /\ \A v : contains(v, history') <=> contains(v, history) \/ v = element
        /\ Distinct(history')
    BY <1>1, <1>3, <2>1, PushedHolds DEF TypeInv, ListsInv
  <2> QED
    BY <1>3, <2>2, <2>3 DEF CountMiss, TypeInv, ScalarsInv, ListsInv
<1> QED
  BY <1>2, <1>3

\* The facts about the list that a step on an element starts from.
LEMMA ListFacts ==
  ASSUME TypeInv
  PROVE  /\ cachelist \in Seq(Node) /\ Len(cachelist) \in Nat
         /\ DOMAIN cachelist = 1 .. Len(cachelist)
         /\ \A i, j \in 1 .. Len(cachelist) : cachelist[i].uri = cachelist[j].uri => i = j
         /\ \A i \in 1 .. Len(cachelist) : cachelist[i].uri \in Uris /\ cachelist[i].bit \in {0, 1}
         /\ maxsize \in Nat \ {0} /\ Len(cachelist) <= maxsize
         /\ clockpointer \in 0 .. maxsize - 1
         /\ Lines \in Nat
         /\ \A u : contains(u, cachelist) <=> \E i \in 1 .. Len(cachelist) : cachelist[i].uri = u
<1>1. \A i \in 1 .. Len(cachelist) : cachelist[i] \in Node
  BY DEF TypeInv, ListsInv
<1>2. \A i \in 1 .. Len(cachelist) : cachelist[i].uri \in Uris /\ cachelist[i].bit \in {0, 1}
  BY <1>1 DEF Node
<1>3. cachelist \in Seq(Node) /\ Len(cachelist) \in Nat /\ DOMAIN cachelist = 1 .. Len(cachelist)
  BY DEF TypeInv, ListsInv
<1>4. \A i, j \in 1 .. Len(cachelist) : cachelist[i].uri = cachelist[j].uri => i = j
  BY <1>3 DEF TypeInv, ListsInv, Distinct
<1>5. \A u : contains(u, cachelist) <=> \E i \in 1 .. Len(cachelist) : cachelist[i].uri = u
  BY <1>3, Zenon DEF contains
<1>6. Lines \in Nat /\ Len(cachelist) <= maxsize
  BY DEF TypeInv, ListsInv, StreamsInv, Lines
<1> QED
  BY <1>2, <1>3, <1>4, <1>5, <1>6, Zenon DEF TypeInv, ScalarsInv

\* Every step on the list keeps its pages distinct.
LEMMA StaysDistinct ==
  ASSUME TypeInv, NEW u \in Uris, cachelist' \in Seq(Node),
         \/ Grows(u) /\ ~contains(u, cachelist)
         \/ Slides(u) /\ ~contains(u, cachelist) /\ Len(cachelist) > 0
         \/ \E f \in Int : MovesUp(u, f)
         \/ \E f \in Int : Replaces(f, u) /\ ~contains(u, cachelist)
         \/ \E f \in Int, b \in {0, 1} : SetsBit(f, b)
  PROVE  Distinct(cachelist')
<1>1. /\ Len(cachelist) \in Nat
      /\ \A i, j \in 1 .. Len(cachelist) : cachelist[i].uri = cachelist[j].uri => i = j
      /\ contains(u, cachelist) <=> \E i \in 1 .. Len(cachelist) : cachelist[i].uri = u
  BY ListFacts
<1>2. DOMAIN cachelist' = 1 .. Len(cachelist')
  OBVIOUS
<1>3. SUFFICES \A i, j \in 1 .. Len(cachelist') : cachelist'[i].uri = cachelist'[j].uri => i = j
  BY <1>2 DEF Distinct
<1>4. CASE Grows(u) /\ ~contains(u, cachelist)
  <2>1. cachelist'[Len(cachelist) + 1].uri = u
    BY <1>4 DEF Grows
  <2> QED
    BY <1>1, <1>4, <2>1 DEF Grows
<1>5. CASE Slides(u) /\ ~contains(u, cachelist) /\ Len(cachelist) > 0
  <2>1. cachelist'[Len(cachelist)].uri = u
    BY <1>5 DEF Slides
  <2> QED
    BY <1>1, <1>5, <2>1 DEF Slides
<1>6. ASSUME NEW f \in Int, MovesUp(u, f)
      PROVE  \A i, j \in 1 .. Len(cachelist') : cachelist'[i].uri = cachelist'[j].uri => i = j
  <2>1. cachelist'[Len(cachelist)].uri = u /\ f \in 1 .. Len(cachelist) /\ cachelist[f].uri = u
    BY <1>6 DEF MovesUp
  <2>2. \A i \in 1 .. Len(cachelist) - 1 : cachelist'[i].uri # u
    BY <1>1, <1>6, <2>1 DEF MovesUp
  <2>3. ASSUME NEW i \in 1 .. Len(cachelist) - 1, NEW j \in 1 .. Len(cachelist) - 1,
               cachelist'[i].uri = cachelist'[j].uri
        PROVE  i = j
    BY <1>1, <1>6, <2>3, SMTT(40) DEF MovesUp
  <2> QED
    BY <1>1, <1>6, <2>1, <2>2, <2>3, SMTT(40) DEF MovesUp
<1>7. ASSUME NEW f \in Int, Replaces(f, u), ~contains(u, cachelist)
      PROVE  \A i, j \in 1 .. Len(cachelist') : cachelist'[i].uri = cachelist'[j].uri => i = j
  BY <1>1, <1>7 DEF Replaces
<1>8. ASSUME NEW f \in Int, NEW b \in {0, 1}, SetsBit(f, b)
      PROVE  \A i, j \in 1 .. Len(cachelist') : cachelist'[i].uri = cachelist'[j].uri => i = j
  BY <1>1, <1>8 DEF SetsBit
<1> QED
  BY <1>4, <1>5, <1>6, <1>7, <1>8

\* A miss outside a full clock: the element is pushed at the end, and the head of a
\* full list popped.
LEMMA MissShape ==
  ASSUME TypeInv, status = "inserting", ~contains(element, cachelist),
         cachelist' = pushlist(element, MakeRoom(cachelist))
  PROVE  /\ cachelist' \in Seq(Node) /\ Distinct(cachelist')
         /\ Full => Slides(element)
         /\ ~Full => Grows(element)
<1>1. element \in Uris
  BY Element
<1>2. cachelist \in Seq(Node) /\ Len(cachelist) \in Nat /\ maxsize \in Nat \ {0}
  BY ListFacts
<1>3. CASE Full
  <2>1. Len(cachelist) > 0
    BY <1>2, <1>3 DEF Full
  <2>2. cachelist' = pushlist(element, poplist(cachelist))
    BY <1>3 DEF MakeRoom
  <2>3. /\ poplist(cachelist) \in Seq(Node)
        /\ Len(poplist(cachelist)) = Len(cachelist) - 1
        /\ \A i \in 1 .. Len(cachelist) - 1 : poplist(cachelist)[i] = cachelist[i + 1]
    BY <1>2, <2>1, Popped
  <2> DEFINE rest == poplist(cachelist)
  <2>4. /\ pushlist(element, rest) \in Seq(Node)
        /\ Len(pushlist(element, rest)) = Len(rest) + 1
        /\ \A i \in 1 .. Len(rest) : pushlist(element, rest)[i] = rest[i]
        /\ pushlist(element, rest)[Len(rest) + 1] = [uri |-> element, bit |-> 0]
    BY <1>1, <2>3, Pushed, Zenon
  <2>5. Len(cachelist) - 1 + 1 = Len(cachelist)
    BY <1>2
  <2> HIDE DEF rest
  <2>6. cachelist' \in Seq(Node) /\ Slides(element)
    BY <2>2, <2>3, <2>4, <2>5 DEF Slides, rest
  <2> QED
    BY <1>1, <1>3, <2>1, <2>6, StaysDistinct
<1>4. CASE ~Full
  <2>1. cachelist' = pushlist(element, cachelist)
    BY <1>4 DEF MakeRoom
  <2>2. cachelist' \in Seq(Node) /\ Grows(element)
    BY <1>1, <1>2, <2>1, Pushed DEF Grows
  <2> QED
    BY <1>1, <1>4, <2>2, StaysDistinct
<1> QED
  BY <1>3, <1>4

\* A hit of LRU: the node of the element moves to the end.
LEMMA LruHitShape ==
  ASSUME TypeInv, LruHit
  PROVE  /\ cachelist' \in Seq(Node) /\ Distinct(cachelist')
         /\ \E f \in 1 .. Len(cachelist) : MovesUp(element, f)
<1>1. status = "inserting" /\ contains(element, cachelist)
  BY DEF LruHit, Inserting
<1>2. element \in Uris
  BY <1>1, Element
<1>3. cachelist \in Seq(Node) /\ Distinct(cachelist)
  BY DEF TypeInv, ListsInv
<1>4. cachelist' = pushlist(element, delete(element, cachelist))
  BY DEF LruHit
<1>5. find(element, cachelist) \in 1 .. Len(cachelist)
      /\ cachelist[find(element, cachelist)].uri = element
  BY <1>1, <1>2, <1>3, Found
<1>6. cachelist' \in Seq(Node) /\ MovesUp(element, find(element, cachelist))
  BY <1>1, <1>2, <1>3, <1>4, <1>5, Moved DEF MovesUp
<1>7. find(element, cachelist) \in Int
  BY <1>3, <1>5
<1> QED
  BY <1>2, <1>5, <1>6, <1>7, StaysDistinct

\* A hit of CLOCK sets the bit of the node; a sweep clears the bit under the hand;
\* the node that is replaced keeps its bit.
LEMMA ClockHitShape ==
  ASSUME TypeInv, ClockHit
  PROVE  /\ cachelist' \in Seq(Node) /\ Distinct(cachelist')
         /\ \E f \in 1 .. Len(cachelist) : SetsBit(f, 1) /\ cachelist[f].uri = element
<1>1. status = "inserting" /\ contains(element, cachelist)
  BY DEF ClockHit, Inserting
<1>2. element \in Uris
  BY <1>1, Element
<1>3. cachelist \in Seq(Node) /\ Distinct(cachelist)
  BY DEF TypeInv, ListsInv
<1>4. PICK f \in 1 .. Len(cachelist) :
        cachelist[f].uri = element /\ cachelist' = [cachelist EXCEPT ![f].bit = 1]
  BY <1>1, <1>2, <1>3, Found DEF ClockHit
<1>5. cachelist' \in Seq(Node) /\ SetsBit(f, 1)
  BY <1>3, <1>4, BitChanged, ZenonT(60) DEF SetsBit
<1>6. f \in Int
  BY <1>3
<1> QED
  BY <1>2, <1>4, <1>5, <1>6, StaysDistinct

\* The hand turns round the clock, by one subtraction at most.
LEMMA HandTurns ==
  ASSUME TypeInv
  PROVE  /\ NextPointer \in 0 .. maxsize - 1
         /\ NextPointer = IF clockpointer + 1 = maxsize THEN 0 ELSE clockpointer + 1
<1>1. maxsize \in Nat \ {0} /\ clockpointer \in 0 .. maxsize - 1
  BY ListFacts
<1> QED
  BY <1>1 DEF NextPointer

\* A sweep clears the bit under the hand of the clock, which was set.
LEMMA ClockSweepShape ==
  ASSUME TypeInv, ClockSweep
  PROVE  /\ cachelist' \in Seq(Node) /\ Distinct(cachelist')
         /\ SetsBit(clockpointer + 1, 0)
         /\ cachelist[clockpointer + 1].bit = 1
<1> DEFINE f == clockpointer + 1
<1>1. f \in Int /\ f \in 1 .. Len(cachelist)
  BY ListFacts DEF ClockSweep, Full
<1>2. cachelist' = [cachelist EXCEPT ![f].bit = 0]
  BY DEF ClockSweep, Unreferenced
<1>3. element \in Uris
  BY Element DEF ClockSweep, Inserting
<1>4. cachelist \in Seq(Node)
  BY ListFacts
<1>5. cachelist[f].bit = 1
  BY DEF ClockSweep, Item
<1> HIDE DEF f
<1>6. cachelist' \in Seq(Node) /\ SetsBit(f, 0)
  BY <1>1, <1>2, <1>4, BitChanged, ZenonT(60) DEF SetsBit
<1>7. Distinct(cachelist')
  BY <1>1, <1>3, <1>6, StaysDistinct
<1> QED
  BY <1>5, <1>6, <1>7 DEF f

\* A replacement puts the new line under the hand, where the bit is clear.
LEMMA ClockReplaceShape ==
  ASSUME TypeInv, ClockReplace
  PROVE  /\ cachelist' \in Seq(Node) /\ Distinct(cachelist')
         /\ Replaces(clockpointer + 1, element)
         /\ cachelist[clockpointer + 1].bit = 0
<1> DEFINE f == clockpointer + 1
<1>1. f \in Int /\ f \in 1 .. Len(cachelist)
  BY ListFacts DEF ClockReplace, Full
<1>2. cachelist' = [cachelist EXCEPT ![f].uri = element]
  BY DEF ClockReplace
<1>3. element \in Uris
  BY Element DEF ClockReplace, Inserting
<1>4. cachelist \in Seq(Node)
  BY ListFacts
<1>5. cachelist[f].bit = 0
  BY <1>1, ListFacts DEF ClockReplace, Item
<1>6. ~contains(element, cachelist)
  BY DEF ClockReplace
<1> HIDE DEF f
<1>7. cachelist' \in Seq(Node) /\ Replaces(f, element)
  <2> DEFINE m(u) == [cachelist EXCEPT ![f].uri = u]
  <2>1. \A u \in Uris :
          /\ m(u) \in Seq(Node)
          /\ Len(m(u)) = Len(cachelist)
          /\ \A i \in 1 .. Len(cachelist) : i # f => m(u)[i] = cachelist[i]
          /\ m(u)[f].uri = u /\ m(u)[f].bit = cachelist[f].bit
    BY <1>1, <1>4, UriChanged, Zenon
  <2>2. cachelist' = m(element)
    BY <1>2
  <2> HIDE DEF m
  <2> QED
    BY <1>1, <1>3, <2>1, <2>2, Zenon DEF Replaces
<1>8. Distinct(cachelist')
  BY <1>1, <1>3, <1>6, <1>7, StaysDistinct
<1> QED
  BY <1>5, <1>7, <1>8 DEF f

\* An answered line keeps the types, if what is said of the lists and the hand does.
LEMMA AnsweredTypes ==
  ASSUME TypeInv, status = "inserting", NEW a \in {"HIT", "MISS"}, Answer(a),
         cachelist' \in Seq(Node), Distinct(cachelist'),
         Len(cachelist') <= maxsize, Len(cachelist') <= Len(cachelist) + 1,
         Len(cachelist') >= Len(cachelist),
         clockpointer' \in 0 .. maxsize - 1,
         clockpointer' = clockpointer \/ (policy = "CLOCK" /\ Full),
         policy # "CLOCK" => \A i \in 1 .. Len(cachelist') : cachelist'[i].bit = 0,
         \/ CountMiss
         \/ UNCHANGED <<history, num_compulsory_misses, num_capacity_misses>>
  PROVE  TypeInv'
<1>1. /\ output' \in Seq({"HIT", "MISS"})
      /\ Lines' = Lines + 1
      /\ Lines \in Nat
      /\ Len(input) = Lines + 1
  BY Answers, Element
<1>2. UNCHANGED <<args, operands, argc, policy, maxsize, input>> /\ status' = "reading"
  BY DEF Answer, options, commandline
<1>3. StreamsInv'
  BY <1>1, <1>2 DEF StreamsInv, TypeInv
<1>4. /\ history' \in Seq(Node) /\ Distinct(history')
      /\ Len(history') <= Len(history) + 1
      /\ num_compulsory_misses' \in Nat
      /\ num_capacity_misses' \in Nat
  <2>1. CASE CountMiss
    BY <2>1, Counts
  <2>2. CASE UNCHANGED <<history, num_compulsory_misses, num_capacity_misses>>
    BY <2>2 DEF TypeInv, ListsInv, ScalarsInv
  <2> QED
    BY <2>1, <2>2
<1>5. ScalarsInv'
  BY <1>2, <1>4 DEF ScalarsInv, TypeInv
<1>6. Len(cachelist') \in Nat /\ DOMAIN cachelist' = 1 .. Len(cachelist')
  OBVIOUS
<1>7. (status # "done" /\ (policy # "CLOCK" \/ ~Full))' => clockpointer' = 0
  BY <1>2, <1>6, ListFacts DEF Full, TypeInv, ListsInv
<1>8. Len(cachelist') <= Lines' /\ Len(history') <= Lines'
  BY <1>1, <1>4, <1>6, SMTT(40) DEF TypeInv, ListsInv
<1>9. ListsInv'
  BY <1>2, <1>4, <1>6, <1>7, <1>8 DEF ListsInv
<1> QED
  BY <1>3, <1>5, <1>9 DEF TypeInv

\* Every step keeps the types.
LEMMA TypeStep == TypeInv /\ [Next]_vars => TypeInv'
<1> SUFFICES ASSUME TypeInv, [Next]_vars PROVE TypeInv'
  OBVIOUS
<1>1. ASSUME ParseOption PROVE TypeInv'
  <2>1. Head(args) \in Option /\ args' \in Seq(Option)
    <3>1. args \in Seq(Option) /\ args # <<>> /\ args' = Tail(args)
      BY <1>1 DEF ParseOption, TypeInv, ScalarsInv
    <3> QED
      BY <3>1, HeadTailProperties
  <2>2. Head(args).n \in Int
    <3>1. \A o \in [opt : {"N"}, n : Numbers, words : {2}] : o.n \in Int
      BY NumbersAssumption
    <3>2. \A o \in [opt : {"F", "L", "C", "?"}, n : {0}, words : {1}] : o.n \in Int
      OBVIOUS
    <3> QED
      BY <2>1, <3>1, <3>2, Zenon DEF Option
  <2>3. Head(args).opt = "N" => Head(args).n \in Numbers
    BY <2>1 DEF Option
  <2>4. maxsize' \in {n \in Numbers : n > 0} \cup {3} /\ maxsize' \in Nat \ {0}
    BY <1>1, <2>2, <2>3 DEF ParseOption, TypeInv, ScalarsInv
  <2>5. policy' \in {"FIFO", "LRU", "CLOCK"}
    BY <1>1 DEF ParseOption, TypeInv, ScalarsInv
  <2>6. UNCHANGED <<operands, argc, cachelist, history, clockpointer, num_compulsory_misses,
                    num_capacity_misses, input, output>>
    BY <1>1 DEF ParseOption, cache
  <2>7. status = "options" /\ status' \in {"options", "refused"}
    BY <1>1 DEF ParseOption
  <2>8. cachelist = <<>> /\ Lines = 0 /\ output = <<>> /\ Len(cachelist) = 0 /\ clockpointer = 0
    BY <2>7, ListFacts DEF TypeInv, ListsInv, StreamsInv, Lines, Full
  <2>9. ListsInv'
    BY <2>4, <2>6, <2>7, <2>8 DEF TypeInv, ListsInv, Lines, Full
  <2>10. StreamsInv'
    <3>1. output' = output /\ input' = input /\ Lines' = Lines /\ Len(input) = Lines
      BY <2>6, <2>7 DEF TypeInv, StreamsInv, Lines
    <3> QED
      BY <2>7, <2>8, <3>1 DEF TypeInv, StreamsInv
  <2>11. ScalarsInv'
    <3>1. clockpointer' \in 0 .. maxsize' - 1
      <4>1. clockpointer' = 0
        BY <2>6, <2>8
      <4>2. maxsize' \in Nat \ {0}
        BY <2>4
      <4>3. \A m \in Nat \ {0} : 0 \in 0 .. m - 1
        OBVIOUS
      <4> QED
        BY <4>1, <4>2, <4>3, Zenon
    <3>2. args' \in Seq(Option)
      BY <2>1
    <3> QED
      BY <3>1, <3>2, <2>4, <2>5, <2>6, <2>7, Zenon DEF TypeInv, ScalarsInv
  <2> QED
    BY <2>9, <2>10, <2>11 DEF TypeInv
<1>2. ASSUME OptionsParsed PROVE TypeInv'
  BY <1>2 DEF OptionsParsed, options, commandline, cache, TypeInv, ListsInv, StreamsInv, ScalarsInv,
              Lines, Full
<1>3. ASSUME NEW u \in Uris, ReadLine(u) PROVE TypeInv'
  <2>1. UNCHANGED <<args, operands, argc, policy, maxsize, cachelist, history, clockpointer,
                    num_compulsory_misses, num_capacity_misses, output>>
    BY <1>3 DEF ReadLine, options, commandline, cache
  <2>2. input' \in Seq(Uris) /\ Len(input') = Len(input) + 1
    BY <1>3, AppendProperties DEF ReadLine, TypeInv, StreamsInv
  <2>3. status = "reading" /\ status' = "inserting" /\ Len(input) < MaxLines /\ MaxLines \in Nat
    BY <1>3, BoundsAssumption DEF ReadLine
  <2>4. StreamsInv'
    BY <2>1, <2>2, <2>3 DEF TypeInv, StreamsInv, Lines
  <2>5. ListsInv' /\ ScalarsInv'
    BY <2>1, <2>3 DEF TypeInv, ListsInv, ScalarsInv, Lines, Full
  <2> QED
    BY <2>4, <2>5 DEF TypeInv
<1>4. ASSUME FifoHit PROVE TypeInv'
  BY <1>4, ListFacts, AnsweredTypes DEF FifoHit, Inserting, cache, TypeInv, ListsInv
<1>5. ASSUME LruHit PROVE TypeInv'
  <2>1. PICK f \in 1 .. Len(cachelist) : MovesUp(element, f)
    BY <1>5, LruHitShape
  <2>2. policy = "LRU" /\ status = "inserting" /\ Answer("HIT")
        /\ UNCHANGED <<history, clockpointer, num_compulsory_misses, num_capacity_misses>>
    BY <1>5 DEF LruHit, Inserting, OnlyTheList
  <2>3. \A i \in 1 .. Len(cachelist) : cachelist[i].bit = 0
    BY <2>2, ListFacts DEF TypeInv, ListsInv
  <2>4. cachelist'[Len(cachelist)].bit = 0
    BY <2>1 DEF MovesUp
  <2>5. \A i \in 1 .. Len(cachelist') : cachelist'[i].bit = 0
    BY <2>1, <2>3, <2>4, ListFacts, SMTT(40) DEF MovesUp
  <2> QED
    BY <1>5, <2>1, <2>2, <2>5, LruHitShape, ListFacts, AnsweredTypes DEF MovesUp
<1>6. ASSUME ListMiss PROVE TypeInv'
  <2>1. /\ policy # "CLOCK" /\ status = "inserting" /\ ~contains(element, cachelist)
        /\ Answer("MISS") /\ clockpointer' = clockpointer /\ CountMiss
        /\ cachelist' = pushlist(element, MakeRoom(cachelist))
    BY <1>6 DEF ListMiss, Inserting
  <2>2. \A i \in 1 .. Len(cachelist) : cachelist[i].bit = 0
    BY <2>1, ListFacts DEF TypeInv, ListsInv
  <2>3. cachelist' \in Seq(Node) /\ Distinct(cachelist') /\ (Full => Slides(element))
        /\ (~Full => Grows(element))
    BY <2>1, MissShape
  <2>4. CASE Full
    <3>1. cachelist'[Len(cachelist)].bit = 0
      BY <2>3, <2>4 DEF Slides
    <3>2. \A i \in 1 .. Len(cachelist') : cachelist'[i].bit = 0
      BY <2>2, <2>3, <2>4, <3>1, ListFacts DEF Slides
    <3> QED
      BY <2>1, <2>3, <2>4, <3>2, ListFacts, AnsweredTypes DEF Slides
  <2>5. CASE ~Full
    <3>1. cachelist'[Len(cachelist) + 1].bit = 0
      BY <2>3, <2>5 DEF Grows
    <3>2. \A i \in 1 .. Len(cachelist') : cachelist'[i].bit = 0
      BY <2>2, <2>3, <2>5, <3>1, ListFacts DEF Grows
    <3>3. Len(cachelist') <= maxsize
      BY <2>3, <2>5, ListFacts DEF Grows, Full
    <3> QED
      BY <2>1, <2>3, <2>5, <3>2, <3>3, ListFacts, AnsweredTypes DEF Grows
  <2> QED
    BY <2>4, <2>5
<1>7. ASSUME ClockHit PROVE TypeInv'
  <2>1. PICK f \in 1 .. Len(cachelist) : SetsBit(f, 1)
    BY <1>7, ClockHitShape
  <2>2. policy = "CLOCK" /\ status = "inserting" /\ Answer("HIT")
        /\ UNCHANGED <<history, clockpointer, num_compulsory_misses, num_capacity_misses>>
    BY <1>7 DEF ClockHit, Inserting, OnlyTheList
  <2> QED
    BY <1>7, <2>1, <2>2, ClockHitShape, ListFacts, AnsweredTypes DEF SetsBit
<1>8. ASSUME ClockSweep PROVE TypeInv'
  <2>1. /\ cachelist' \in Seq(Node) /\ Distinct(cachelist') /\ Len(cachelist') = Len(cachelist)
    BY <1>8, ClockSweepShape DEF SetsBit
  <2>2. /\ policy = "CLOCK" /\ status = "inserting" /\ Full
        /\ UNCHANGED <<args, operands, argc, policy, maxsize, history, num_compulsory_misses,
                       num_capacity_misses, input, output, status>>
        /\ clockpointer' \in 0 .. maxsize - 1
    BY <1>8, HandTurns DEF ClockSweep, Inserting, options, commandline
  <2>3. ListsInv'
    BY <2>1, <2>2 DEF TypeInv, ListsInv, Full, Lines
  <2>4. StreamsInv' /\ ScalarsInv'
    BY <2>2 DEF TypeInv, StreamsInv, ScalarsInv, Lines
  <2> QED
    BY <2>3, <2>4 DEF TypeInv
<1>9. ASSUME ClockReplace PROVE TypeInv'
  <2>1. /\ cachelist' \in Seq(Node) /\ Distinct(cachelist') /\ Len(cachelist') = Len(cachelist)
    BY <1>9, ClockReplaceShape DEF Replaces
  <2>2. policy = "CLOCK" /\ status = "inserting" /\ Full /\ Answer("MISS") /\ CountMiss
        /\ clockpointer' \in 0 .. maxsize - 1
    BY <1>9, HandTurns DEF ClockReplace, Inserting
  <2> QED
    BY <2>1, <2>2, ListFacts, AnsweredTypes
<1>10. ASSUME ClockFill PROVE TypeInv'
  <2>1. policy = "CLOCK" /\ status = "inserting" /\ ~Full /\ Answer("MISS") /\ CountMiss
        /\ clockpointer' = clockpointer /\ ~contains(element, cachelist)
        /\ cachelist' = pushlist(element, MakeRoom(cachelist))
    BY <1>10 DEF ClockFill, Inserting, MakeRoom
  <2>2. cachelist' \in Seq(Node) /\ Distinct(cachelist') /\ Grows(element)
    BY <2>1, MissShape
  <2>3. Len(cachelist') <= maxsize
    BY <2>1, <2>2, ListFacts DEF Grows, Full
  <2> QED
    BY <2>1, <2>2, <2>3, ListFacts, AnsweredTypes DEF Grows
<1>11. ASSUME EndOfFile PROVE TypeInv'
  <2>1. UNCHANGED <<args, operands, argc, policy, maxsize, clockpointer,
                    num_compulsory_misses, num_capacity_misses, input, output>>
        /\ status = "reading" /\ status' = "done" /\ cachelist' = <<>> /\ history' = <<>>
    BY <1>11 DEF EndOfFile, options, commandline
  <2>2. StreamsInv' /\ ScalarsInv'
    BY <2>1 DEF TypeInv, StreamsInv, ScalarsInv, Lines
  <2>3. <<>> \in Seq(Node) /\ Distinct(<<>>) /\ Len(<<>>) = 0
    BY DEF Distinct
  <2>4. ListsInv'
    BY <2>1, <2>3, ListFacts DEF ListsInv, Lines
  <2> QED
    BY <2>2, <2>4 DEF TypeInv
<1>12. ASSUME UNCHANGED vars PROVE TypeInv'
  BY <1>12 DEF vars, options, commandline, cache, TypeInv, ListsInv, StreamsInv, ScalarsInv,
               Lines, Full
<1> QED
  BY <1>1, <1>2, <1>3, <1>4, <1>5, <1>6, <1>7, <1>8, <1>9, <1>10, <1>11, <1>12
  DEF Next, Options, TurnInPlace, Insert

\* main starts with the defaults of its variables and an empty list.
LEMMA TypeInit == Init => TypeInv
<1> SUFFICES ASSUME Init PROVE TypeInv
  OBVIOUS
<1>1. args \in Seq(Option)
  BY BoundsAssumption DEF Init
<1>2. Distinct(<<>>) /\ <<>> \in Seq(Node) /\ <<>> \in Seq(Uris) /\ <<>> \in Seq({"HIT", "MISS"})
  BY DEF Distinct
<1> QED
  BY <1>1, <1>2, BoundsAssumption DEF Init, TypeInv, ListsInv, StreamsInv, ScalarsInv, Lines, Full

\* The list never outgrows -N, holds no line twice, and keeps the hand inside it.
LEMMA TypeInvariant == Spec => []TypeInv
  BY TypeInit, TypeStep, PTL DEF Spec

\* No list of the cache simulator holds a page twice, the cache never outgrows its
\* capacity, and the hand of the clock stays on a slot, for every capacity and input.
THEOREM TypesCorrect == Spec => []TypeOK
<1>1. TypeInv => TypeOK
  <2> SUFFICES ASSUME TypeInv PROVE TypeOK
    OBVIOUS
  <2>1. Len(cachelist) <= MaxLines /\ Len(history) <= MaxLines
    BY BoundsAssumption DEF TypeInv, ListsInv, StreamsInv, Lines
  <2>2. ASSUME NEW l \in {cachelist, history}
        PROVE  /\ Len(l) <= MaxLines
               /\ \A i \in DOMAIN l : l[i] \in Node
               /\ \A i, j \in DOMAIN l : l[i].uri = l[j].uri => i = j
    BY <2>1 DEF TypeInv, ListsInv, Distinct
  <2>3. (\A i \in DOMAIN input : input[i] \in Uris)
        /\ (\A i \in DOMAIN output : output[i] \in {"HIT", "MISS"})
    BY DEF TypeInv, StreamsInv
  <2> QED
    BY <2>2, <2>3 DEF TypeOK, TypeInv, ListsInv, StreamsInv, ScalarsInv, Lines
<1> QED
  BY <1>1, TypeInvariant, PTL

-----------------------------------------------------------------------------
(***************************************************************************)
(* What the answered lines say about the lists, policy by policy.          *)
(***************************************************************************)

\* The misses among the answers o between two lines.
MissesOf(o, i, j) == Cardinality({k \in i + 1 .. j - 1 : o[k] = "MISS"})

\* The misses since line j.
Since(j) == MissesOf(output, j, Lines + 1)

\* The pages of the lines i to j of the input s.
PagesOf(s, i, j) == {s[k] : k \in i .. j}

\* The page is asked for by a line from i to the last answered.
AskedFrom(i, u) == \E k \in i .. Lines : input[k] = u

\* The history holds the pages that were asked for, the list only such pages, and all
\* of them until it is full: no page is evicted before.
SeenInv ==
  /\ \A u \in Uris : contains(u, history) <=> AskedFrom(1, u)
  /\ \A p \in 1 .. Len(cachelist) : AskedFrom(1, cachelist[p].uri)
  /\ ~Full => \A k \in 1 .. Lines : contains(input[k], cachelist)

\* The counters, which outlive the lists.
CountersInv ==
  /\ IsFiniteSet(PagesOf(input, 1, Lines))
  /\ num_compulsory_misses = Cardinality(PagesOf(input, 1, Lines))
  /\ num_compulsory_misses + num_capacity_misses = MissesOf(output, 0, Lines + 1)

\* Line j of the n lines s asks for the page at p of the list l, and the lines after it
\* for exactly the pages behind p.
BehindSince(s, n, l, p, j) ==
  /\ s[j] = l[p].uri
  /\ \A q \in p + 1 .. Len(l) : \E k \in j + 1 .. n : s[k] = l[q].uri
  /\ \A k \in j + 1 .. n : \E q \in p + 1 .. Len(l) : l[q].uri = s[k]

\* LRU: since some request of the page at p, exactly the pages behind p were asked for;
\* a page that was asked for and is not in the list left it full, and every page of the
\* list was asked for since.
LruInv ==
  /\ \A p \in 1 .. Len(cachelist) : \E j \in 1 .. Lines :
       BehindSince(input, Lines, cachelist, p, j)
  /\ \A j \in 1 .. Lines : ~contains(input[j], cachelist) =>
       Full /\ \A p \in 1 .. Len(cachelist) : AskedFrom(j + 1, cachelist[p].uri)

\* FIFO: as many misses came after the page at p was loaded as there are pages behind
\* it, and a page since whose load fewer than maxsize misses came is still there.
FifoInv ==
  /\ \A p \in 1 .. Len(cachelist) : \E j \in 1 .. Lines :
       output[j] = "MISS" /\ input[j] = cachelist[p].uri /\ Since(j) = Len(cachelist) - p
  /\ \A j \in 1 .. Lines : (output[j] = "MISS" /\ Since(j) < maxsize) =>
       Since(j) < Len(cachelist) /\ cachelist[Len(cachelist) - Since(j)].uri = input[j]

\* How many nodes the hand meets before the one at p.
Ahead(p) ==
  IF p > clockpointer THEN p - 1 - clockpointer ELSE p - 1 - clockpointer + maxsize

\* What a second chance adds: a page that was hit and whose bit was cleared since has
\* seen the hand pass once more.
Chance(j, p) == IF output[j] = "HIT" /\ cachelist[p].bit = 0 THEN maxsize - 1 ELSE 0

\* CLOCK: line j was the last to ask for the page at p, and every miss since brought the
\* hand nearer.
Watched(p, j) ==
  /\ input[j] = cachelist[p].uri
  /\ \A k \in j + 1 .. Lines : input[k] # cachelist[p].uri
  /\ Ahead(p) + Since(j) <= Len(cachelist) - 1 + Chance(j, p)
  /\ output[j] = "MISS" => cachelist[p].bit = 0

ClockInv == \A p \in 1 .. Len(cachelist) : \E j \in 1 .. Lines : Watched(p, j)

\* While the lists live, those of the policy in use hold, with what they say of the
\* lines that are answered.
HistoryInv ==
  /\ CountersInv
  /\ status # "done" =>
       /\ SeenInv
       /\ policy = "LRU" => LruInv
       /\ policy = "FIFO" => FifoInv
       /\ policy = "CLOCK" => ClockInv

\* Misses are counted by naturals, and an answer that is a miss counts as one.
LEMMA MissesGrow ==
  ASSUME NEW o, NEW n \in Nat, NEW i \in 0 .. n, NEW p,
         \A k \in 1 .. n : p[k] = o[k]
  PROVE  /\ MissesOf(o, i, n + 1) \in Nat
         /\ \A j \in 0 .. n + 1 : MissesOf(p, i, j) = MissesOf(o, i, j)
         /\ MissesOf(p, i, n + 2) = MissesOf(o, i, n + 1) + (IF p[n + 1] = "MISS" THEN 1 ELSE 0)
<1> DEFINE M(s, j) == {k \in i + 1 .. j - 1 : s[k] = "MISS"}
<1>1. \A j \in 0 .. n + 1 : M(p, j) = M(o, j)
  OBVIOUS
<1>2. IsFiniteSet(M(o, n + 1)) /\ M(o, n + 1) \subseteq i + 1 .. n
  <2>1. M(o, n + 1) \subseteq i + 1 .. n
    OBVIOUS
  <2>2. IsFiniteSet(i + 1 .. n)
    BY FS_Interval
  <2> QED
    BY <2>1, <2>2, FS_Subset
<1>3. M(p, n + 2) = IF p[n + 1] = "MISS" THEN M(o, n + 1) \cup {n + 1} ELSE M(o, n + 1)
  <2>1. \A k : k \in i + 1 .. n + 2 - 1 <=> k \in i + 1 .. n + 1 - 1 \/ k = n + 1
    OBVIOUS
  <2>2. \A k \in i + 1 .. n + 1 - 1 : p[k] = o[k]
    OBVIOUS
  <2> QED
    BY <2>1, <2>2
<1>4. n + 1 \notin M(o, n + 1)
  BY <1>2
<1>5. Cardinality(M(o, n + 1)) \in Nat
      /\ Cardinality(M(o, n + 1) \cup {n + 1}) = Cardinality(M(o, n + 1)) + 1
  BY <1>2, <1>4, FS_CardinalityType, FS_AddElement
<1>6. \A s, j : MissesOf(s, i, j) = Cardinality(M(s, j))
  BY DEF MissesOf
<1> HIDE DEF M
<1> QED
  BY <1>1, <1>3, <1>5, <1>6

\* The misses among a span of the answers are a number.
LEMMA MissesCountable ==
  ASSUME NEW o, NEW n \in Nat, NEW i \in 0 .. n
  PROVE  MissesOf(o, i, n + 1) \in Nat
<1> DEFINE M == {k \in i + 1 .. n + 1 - 1 : o[k] = "MISS"}
<1>1. IsFiniteSet(i + 1 .. n + 1 - 1)
  BY FS_Interval
<1>2. Cardinality(M) \in Nat
  BY <1>1, FS_Subset, FS_CardinalityType
<1> QED
  BY <1>2 DEF MissesOf

\* No miss comes after the last line.
LEMMA NoMissSinceLast ==
  ASSUME NEW o, NEW n \in Nat
  PROVE  MissesOf(o, n + 1, n + 2) = 0
<1>1. {k \in n + 1 + 1 .. n + 2 - 1 : o[k] = "MISS"} = {}
  OBVIOUS
<1> QED
  BY <1>1, FS_EmptySet DEF MissesOf

\* The pages of some lines are finitely many, and a line adds its page.
LEMMA PagesGrow ==
  ASSUME NEW s, NEW n \in Nat, NEW i \in 1 .. n + 1
  PROVE  PagesOf(s, i, n + 1) = PagesOf(s, i, n) \cup {s[n + 1]}
  BY DEF PagesOf

\* The pages asked for in a span of the input are finitely many.
LEMMA PagesFinite ==
  ASSUME NEW s, NEW i \in Nat, NEW j \in Nat
  PROVE  IsFiniteSet(PagesOf(s, i, j))
<1> DEFINE f == [k \in i .. j |-> s[k]]
<1>1. f \in Surjection(i .. j, PagesOf(s, i, j))
  BY DEF PagesOf, Surjection
<1>2. IsFiniteSet(i .. j)
  BY FS_Interval
<1> QED
  BY <1>1, <1>2, FS_Surjection

\* Before the first line nothing is said.
LEMMA InitHistory == Init => HistoryInv
<1> SUFFICES ASSUME Init PROVE HistoryInv
  OBVIOUS
<1>1. input = <<>> /\ output = <<>> /\ cachelist = <<>> /\ history = <<>> /\ status = "options"
      /\ num_compulsory_misses = 0 /\ num_capacity_misses = 0
  BY DEF Init
<1>2. Lines = 0 /\ Len(cachelist) = 0
  BY <1>1 DEF Lines
<1>3. \A u : ~contains(u, history)
  BY <1>1 DEF contains
<1>4. SeenInv /\ LruInv /\ FifoInv /\ ClockInv
  BY <1>2, <1>3 DEF SeenInv, LruInv, FifoInv, ClockInv, AskedFrom
<1>5. PagesOf(input, 1, Lines) = {}
  BY <1>2 DEF PagesOf
<1>6. MissesOf(output, 0, Lines + 1) = 0
  <2>1. {k \in 0 + 1 .. 0 + 1 - 1 : output[k] = "MISS"} = {}
    OBVIOUS
  <2> QED
    BY <1>2, <2>1, FS_EmptySet DEF MissesOf
<1>7. CountersInv
  BY <1>1, <1>5, <1>6, FS_EmptySet DEF CountersInv
<1> QED
  BY <1>4, <1>7 DEF HistoryInv

-----------------------------------------------------------------------------
(***************************************************************************)
(* What a step is for the history: nothing is answered, a line hits, or a  *)
(* line misses.                                                            *)
(***************************************************************************)

Quiet ==
  /\ UNCHANGED <<cachelist, history, clockpointer, num_compulsory_misses,
                 num_capacity_misses, output>>
  /\ \A k \in 1 .. Lines : input'[k] = input[k]
  /\ status # "done" \/ status' = "done"
  /\ UNCHANGED <<policy, maxsize>> \/ (Lines = 0 /\ Len(cachelist) = 0)

Hits ==
  /\ status = "inserting" /\ Answer("HIT") /\ contains(element, cachelist)
  /\ UNCHANGED <<history, num_compulsory_misses, num_capacity_misses>>
  /\ Len(cachelist') = Len(cachelist)
  /\ \A p \in 1 .. Len(cachelist) : \E q \in 1 .. Len(cachelist) : cachelist'[p].uri = cachelist[q].uri
  /\ \A q \in 1 .. Len(cachelist) : \E p \in 1 .. Len(cachelist) : cachelist'[p].uri = cachelist[q].uri

Misses ==
  /\ status = "inserting" /\ Answer("MISS") /\ ~contains(element, cachelist) /\ CountMiss
  /\ ~Full => Grows(element)
  /\ Full => /\ Len(cachelist') = Len(cachelist)
             /\ \A p \in 1 .. Len(cachelist) :
                  \/ cachelist'[p].uri = element
                  \/ \E q \in 1 .. Len(cachelist) : cachelist'[p].uri = cachelist[q].uri

\* Outside insertion nothing is answered.
LEMMA QuietSteps ==
  ASSUME TypeInv,
         ParseOption \/ TurnInPlace \/ OptionsParsed \/ (\E u \in Uris : ReadLine(u)) \/ UNCHANGED vars
  PROVE  Quiet
<1>1. CASE ParseOption
  <2>1. UNCHANGED <<cachelist, history, clockpointer, num_compulsory_misses,
                    num_capacity_misses, output, input>> /\ status = "options"
    BY <1>1 DEF ParseOption, cache
  <2>2. Lines = 0 /\ Len(cachelist) = 0
    BY <2>1, ListFacts DEF TypeInv, ListsInv, StreamsInv, Lines
  <2> QED
    BY <2>1, <2>2 DEF Quiet
<1>2. CASE OptionsParsed
  BY <1>2 DEF OptionsParsed, Quiet, options, cache
<1>3. ASSUME NEW u \in Uris, ReadLine(u) PROVE Quiet
  <2>1. status = "reading" /\ input' = Append(input, u)
        /\ UNCHANGED <<policy, maxsize, cachelist, history, clockpointer, num_compulsory_misses,
                       num_capacity_misses, output>>
    BY <1>3 DEF ReadLine, options, cache
  <2>2. \A k \in 1 .. Lines : input'[k] = input[k]
    BY <2>1, AppendProperties DEF TypeInv, StreamsInv, Lines
  <2> QED
    BY <2>1, <2>2 DEF Quiet
<1>4. CASE UNCHANGED vars
  BY <1>4 DEF vars, options, cache, Quiet
<1> QED
  BY <1>1, <1>2, <1>3, <1>4 DEF TurnInPlace

\* A hit answers HIT, counts nothing and keeps the pages of the list.
LEMMA HitSteps ==
  ASSUME TypeInv, FifoHit \/ LruHit \/ ClockHit
  PROVE  Hits
<1>0. /\ Len(cachelist) \in Nat
      /\ \A u : contains(u, cachelist) <=> \E i \in 1 .. Len(cachelist) : cachelist[i].uri = u
  BY ListFacts
<1> USE <1>0
<1>1. CASE FifoHit
  BY <1>1 DEF FifoHit, Inserting, cache, Hits
<1>2. CASE LruHit
  <2>1. PICK f \in 1 .. Len(cachelist) : MovesUp(element, f)
    BY <1>2, LruHitShape
  <2>2. cachelist'[Len(cachelist)].uri = element /\ cachelist[f].uri = element
        /\ Len(cachelist') = Len(cachelist) /\ Len(cachelist) \in 1 .. Len(cachelist)
    BY <2>1 DEF MovesUp
  <2>3. ASSUME NEW p \in 1 .. Len(cachelist)
        PROVE  \E q \in 1 .. Len(cachelist) : cachelist'[p].uri = cachelist[q].uri
    <3>1. CASE p = Len(cachelist)
      BY <2>2, <3>1
    <3>2. CASE p # Len(cachelist)
      <4>1. p \in 1 .. Len(cachelist) - 1 /\ p + 1 \in 1 .. Len(cachelist)
        BY <3>2
      <4>2. cachelist'[p] = cachelist[p] \/ cachelist'[p] = cachelist[p + 1]
        BY <2>1, <4>1, Zenon DEF MovesUp
      <4> QED
        BY <4>1, <4>2
    <3> QED
      BY <3>1, <3>2
  <2>4. ASSUME NEW q \in 1 .. Len(cachelist)
        PROVE  \E p \in 1 .. Len(cachelist) : cachelist'[p].uri = cachelist[q].uri
    <3>1. CASE q < f
      <4>1. q \in 1 .. Len(cachelist) - 1 /\ cachelist'[q] = cachelist[q]
        BY <2>1, <3>1 DEF MovesUp
      <4> QED
        BY <4>1
    <3>2. CASE q = f
      BY <2>2, <3>2
    <3>3. CASE q > f
      <4>1. q - 1 \in 1 .. Len(cachelist) - 1 /\ ~(q - 1 < f) /\ q - 1 + 1 = q
        BY <3>3
      <4>2. cachelist'[q - 1] = cachelist[q] /\ q - 1 \in 1 .. Len(cachelist)
        BY <2>1, <4>1 DEF MovesUp
      <4> QED
        BY <4>2
    <3> QED
      BY <3>1, <3>2, <3>3
  <2> QED
    BY <1>2, <2>2, <2>3, <2>4 DEF LruHit, Inserting, OnlyTheList, Hits
<1>3. CASE ClockHit
  <2>1. PICK f \in 1 .. Len(cachelist) : SetsBit(f, 1)
    BY <1>3, ClockHitShape
  <2>2. \A p \in 1 .. Len(cachelist) : cachelist'[p].uri = cachelist[p].uri
    BY <2>1 DEF SetsBit
  <2> QED
    BY <1>3, <2>1, <2>2 DEF ClockHit, Inserting, OnlyTheList, Hits, SetsBit
<1> QED
  BY <1>1, <1>2, <1>3

\* A miss answers MISS, and puts the line into the list in place of at most one other.
LEMMA MissSteps ==
  ASSUME TypeInv, ListMiss \/ ClockReplace \/ ClockFill
  PROVE  Misses
<1>0. /\ Len(cachelist) \in Nat
      /\ \A u : contains(u, cachelist) <=> \E i \in 1 .. Len(cachelist) : cachelist[i].uri = u
  BY ListFacts
<1> USE <1>0
<1>1. CASE ListMiss \/ ClockFill
  <2>1. status = "inserting" /\ Answer("MISS") /\ ~contains(element, cachelist) /\ CountMiss
        /\ cachelist' = pushlist(element, MakeRoom(cachelist))
    BY <1>1 DEF ListMiss, ClockFill, Inserting, MakeRoom
  <2>2. (Full => Slides(element)) /\ (~Full => Grows(element))
    BY <2>1, MissShape
  <2>3. ASSUME Full, NEW p \in 1 .. Len(cachelist)
        PROVE  \/ cachelist'[p].uri = element
               \/ \E q \in 1 .. Len(cachelist) : cachelist'[p].uri = cachelist[q].uri
    <3>1. CASE p = Len(cachelist)
      BY <2>2, <2>3, <3>1 DEF Slides
    <3>2. CASE p # Len(cachelist)
      <4>1. p \in 1 .. Len(cachelist) - 1 /\ p + 1 \in 1 .. Len(cachelist)
        BY <3>2
      <4>2. cachelist'[p] = cachelist[p + 1]
        BY <2>2, <2>3, <4>1, Zenon DEF Slides
      <4> QED
        BY <4>1, <4>2
    <3> QED
      BY <3>1, <3>2
  <2> QED
    BY <2>1, <2>2, <2>3 DEF Misses, Slides
<1>2. CASE ClockReplace
  <2>1. Replaces(clockpointer + 1, element)
    BY <1>2, ClockReplaceShape
  <2>2. ASSUME NEW p \in 1 .. Len(cachelist)
        PROVE  \/ cachelist'[p].uri = element
               \/ \E q \in 1 .. Len(cachelist) : cachelist'[p].uri = cachelist[q].uri
    BY <2>1 DEF Replaces
  <2>3. status = "inserting" /\ Full /\ Answer("MISS") /\ ~contains(element, cachelist) /\ CountMiss
    BY <1>2 DEF ClockReplace, Inserting
  <2> QED
    BY <2>1, <2>2, <2>3 DEF Misses, Replaces
<1> QED
  BY <1>1, <1>2

\* A step that answers nothing keeps what is said of the lines.
LEMMA QuietHistory ==
  ASSUME TypeInv, HistoryInv, Quiet
  PROVE  HistoryInv'
<1>1. Lines' = Lines /\ Lines \in Nat /\ cachelist' = cachelist /\ history' = history
      /\ output' = output /\ clockpointer' = clockpointer
      /\ num_compulsory_misses' = num_compulsory_misses
      /\ num_capacity_misses' = num_capacity_misses
      /\ \A k \in 1 .. Lines : input'[k] = input[k]
  BY ListFacts DEF Quiet, Lines
<1>2. \A j \in 1 .. Lines : Since(j)' = Since(j)
  BY <1>1 DEF Since
<1>3. PagesOf(input, 1, Lines)' = PagesOf(input, 1, Lines)
  BY <1>1 DEF PagesOf
<1>4. CountersInv'
  BY <1>1, <1>3 DEF HistoryInv, CountersInv
<1>5. \A u, i : i \in Nat \ {0} => (AskedFrom(i, u)' <=> AskedFrom(i, u))
  BY <1>1 DEF AskedFrom
<1>6. CASE Lines = 0 /\ Len(cachelist) = 0
  <2>1. Lines' = 0 /\ Len(cachelist') = 0
    BY <1>1, <1>6
  <2>2. (LruInv /\ FifoInv /\ ClockInv)'
    BY <2>1 DEF LruInv, FifoInv, ClockInv
  <2>3. status # "done" => SeenInv'
    BY <1>1, <1>5, <2>1 DEF SeenInv, HistoryInv
  <2> QED
    BY <1>4, <2>2, <2>3 DEF HistoryInv, Quiet
<1>7. CASE UNCHANGED <<policy, maxsize>>
  <2>1. Full' <=> Full
    BY <1>1, <1>7 DEF Full
  <2>2. SeenInv => SeenInv'
    BY <1>1, <1>5, <2>1 DEF SeenInv
  <2>3. LruInv => LruInv'
    <3>1. \A j \in 1 .. Lines : \A u : AskedFrom(j + 1, u)' <=> AskedFrom(j + 1, u)
      BY <1>5
    <3>2. \A j \in 1 .. Lines : \A k \in j + 1 .. Lines : input'[k] = input[k]
      BY <1>1
    <3>3. \A u : contains(u, cachelist') <=> contains(u, cachelist)
      BY <1>1
    <3> HIDE DEF AskedFrom, contains
    <3>4. ASSUME LruInv
          PROVE  \A p \in 1 .. Len(cachelist') : \E j \in 1 .. Lines' :
                   BehindSince(input', Lines', cachelist', p, j)
      <4>1. \A p \in 1 .. Len(cachelist) : \A j \in 1 .. Lines :
              BehindSince(input, Lines, cachelist, p, j)
                => BehindSince(input', Lines, cachelist, p, j)
        BY <1>1, <3>2 DEF BehindSince
      <4> QED
        BY <1>1, <3>4, <4>1 DEF LruInv
    <3>5. ASSUME LruInv
          PROVE  \A j \in 1 .. Lines' : ~contains(input'[j], cachelist') =>
                   Full' /\ \A p \in 1 .. Len(cachelist') : AskedFrom(j + 1, cachelist[p].uri)'
      BY <1>1, <2>1, <3>1, <3>3, <3>5 DEF LruInv
    <3> QED
      BY <3>4, <3>5 DEF LruInv
  <2>4. FifoInv => FifoInv'
    BY <1>1, <1>2, <1>7 DEF FifoInv
  <2>5. ClockInv => ClockInv'
    <3>1. \A p \in 1 .. Len(cachelist) : \A j \in 1 .. Lines : Watched(p, j) => Watched(p, j)'
      BY <1>1, <1>2, <1>7 DEF Watched, Ahead, Chance
    <3> QED
      BY <1>1, <3>1 DEF ClockInv
  <2> QED
    BY <1>4, <1>7, <2>2, <2>3, <2>4, <2>5 DEF HistoryInv, Quiet
<1> QED
  BY <1>6, <1>7 DEF Quiet

\* What an answer changes in the notions the invariants are made of.
LEMMA AfterAnswer ==
  ASSUME TypeInv, status = "inserting", NEW a \in {"HIT", "MISS"}, Answer(a)
  PROVE  /\ Lines \in Nat /\ Lines' = Lines + 1
         /\ UNCHANGED <<policy, maxsize, input>> /\ status' # "done" /\ status # "done"
         /\ element = input[Lines + 1] /\ element \in Uris
         /\ \A i \in 1 .. Lines : output'[i] = output[i]
         /\ output'[Lines + 1] = a
         /\ \A j \in 1 .. Lines : Since(j) \in Nat
         /\ \A j \in 1 .. Lines : Since(j)' = Since(j) + (IF a = "MISS" THEN 1 ELSE 0)
         /\ \A j : j = Lines + 1 => Since(j)' = 0
         /\ \A i \in 1 .. Lines + 1 : \A u : AskedFrom(i, u)' <=> AskedFrom(i, u) \/ u = element
<1>1. Lines \in Nat /\ Lines' = Lines + 1 /\ element = input[Lines + 1] /\ element \in Uris
      /\ (\A i \in 1 .. Lines : output'[i] = output[i]) /\ output'[Lines + 1] = a
  BY Answers, Element
<1>2. UNCHANGED <<policy, maxsize, input>> /\ status' # "done"
  BY DEF Answer, options
<1>3. Lines' + 1 = Lines + 2
  BY <1>1
<1>4. ASSUME NEW j \in 1 .. Lines
      PROVE  Since(j) \in Nat /\ Since(j)' = Since(j) + (IF a = "MISS" THEN 1 ELSE 0)
  BY <1>1, <1>3, MissesGrow DEF Since
<1>5. ASSUME NEW j, j = Lines + 1 PROVE Since(j)' = 0
  <2>1. MissesOf(output', Lines + 1, Lines + 2) = 0
    BY <1>1, NoMissSinceLast
  <2> QED
    BY <1>1, <1>3, <1>5, <2>1 DEF Since
<1>6. ASSUME NEW i \in 1 .. Lines + 1, NEW u
      PROVE  AskedFrom(i, u)' <=> AskedFrom(i, u) \/ u = element
  BY <1>1, <1>2 DEF AskedFrom
<1> QED
  BY <1>1, <1>2, <1>4, <1>5, <1>6

\* An answer keeps what the history and the counters say of the lines.
LEMMA AnsweredHistory ==
  ASSUME TypeInv, TypeInv', CountersInv, SeenInv, Hits \/ Misses
  PROVE  CountersInv' /\ SeenInv'
<1>1. /\ Len(cachelist) \in Nat /\ maxsize \in Nat \ {0} /\ Len(cachelist) <= maxsize
      /\ \A i \in 1 .. Len(cachelist) : cachelist[i].uri \in Uris
      /\ \A u : contains(u, cachelist) <=> \E i \in 1 .. Len(cachelist) : cachelist[i].uri = u
  BY ListFacts
<1>2. status = "inserting"
  BY DEF Hits, Misses
<1>3. PICK a \in {"HIT", "MISS"} : Answer(a) /\ (a = "HIT" => Hits) /\ (a = "MISS" => Misses)
  BY DEF Hits, Misses
<1>4. /\ Lines \in Nat /\ Lines' = Lines + 1
      /\ UNCHANGED <<maxsize, input>>
      /\ element = input[Lines + 1] /\ element \in Uris
      /\ \A i \in 1 .. Lines : output'[i] = output[i]
      /\ output'[Lines + 1] = a
      /\ \A u : AskedFrom(1, u)' <=> AskedFrom(1, u) \/ u = element
  BY <1>2, <1>3, AfterAnswer
<1>5. PagesOf(input', 1, Lines') = PagesOf(input, 1, Lines) \cup {element}
  <2>1. PagesOf(input, 1, Lines + 1) = PagesOf(input, 1, Lines) \cup {input[Lines + 1]}
    <3>1. 1 \in 1 .. Lines + 1 /\ Lines \in Nat
      BY <1>4
    <3> QED
      BY <3>1, PagesGrow
  <2> QED
    BY <1>4, <2>1
<1>6. element \in PagesOf(input, 1, Lines) <=> AskedFrom(1, element)
  BY DEF PagesOf, AskedFrom
<1>7. MissesOf(output', 0, Lines' + 1) =
        MissesOf(output, 0, Lines + 1) + (IF a = "MISS" THEN 1 ELSE 0)
  BY <1>4, MissesGrow
<1>8. IsFiniteSet(PagesOf(input, 1, Lines))
      /\ num_compulsory_misses = Cardinality(PagesOf(input, 1, Lines))
      /\ num_compulsory_misses + num_capacity_misses = MissesOf(output, 0, Lines + 1)
  BY DEF CountersInv
<1>9. num_compulsory_misses \in Nat /\ num_capacity_misses \in Nat
  BY DEF TypeInv, ScalarsInv
<1>10. contains(element, cachelist) => AskedFrom(1, element)
  BY <1>1 DEF SeenInv
<1>11. DOMAIN cachelist' = 1 .. Len(cachelist') /\ Len(cachelist') \in Nat
  <2>1. cachelist' \in Seq(Node)
    BY DEF TypeInv, ListsInv
  <2> QED
    BY <2>1
<1>12. CountersInv'
  <2>1. CASE a = "HIT"
    <3>1. PagesOf(input', 1, Lines') = PagesOf(input, 1, Lines)
      BY <1>3, <1>5, <1>6, <1>10, <2>1 DEF Hits
    <3> QED
      BY <1>3, <1>7, <1>8, <1>9, <2>1, <3>1 DEF Hits, CountersInv
  <2>2. CASE a = "MISS"
    <3>1. CASE contains(element, history)
      <4>1. Full
        BY <1>3, <1>4, <2>2, <3>1 DEF Misses, SeenInv, AskedFrom
      <4>2. num_compulsory_misses' = num_compulsory_misses
            /\ num_capacity_misses' = num_capacity_misses + 1
        BY <1>3, <2>2, <3>1, <4>1 DEF Misses, CountMiss
      <4>3. PagesOf(input', 1, Lines') = PagesOf(input, 1, Lines)
        BY <1>4, <1>5, <1>6, <3>1 DEF SeenInv
      <4> QED
        BY <1>7, <1>8, <1>9, <2>2, <4>2, <4>3 DEF CountersInv
    <3>2. CASE ~contains(element, history)
      <4>1. num_compulsory_misses' = num_compulsory_misses + 1
            /\ num_capacity_misses' = num_capacity_misses
        BY <1>3, <2>2, <3>2 DEF Misses, CountMiss
      <4>2. element \notin PagesOf(input, 1, Lines)
        BY <1>4, <1>6, <3>2 DEF SeenInv
      <4>3. IsFiniteSet(PagesOf(input', 1, Lines'))
            /\ Cardinality(PagesOf(input', 1, Lines')) = Cardinality(PagesOf(input, 1, Lines)) + 1
        BY <1>5, <1>8, <4>2, FS_AddElement
      <4> QED
        BY <1>7, <1>8, <1>9, <2>2, <4>1, <4>3 DEF CountersInv
    <3> QED
      BY <3>1, <3>2
  <2> QED
    BY <1>3, <2>1, <2>2
<1>13. \A u \in Uris : contains(u, history') <=> contains(u, history) \/ u = element
  <2>1. CASE a = "HIT"
    BY <1>3, <1>4, <1>10, <2>1 DEF Hits, SeenInv
  <2>2. CASE a = "MISS"
    BY <1>2, <1>3, <2>2, Counts DEF Misses
  <2> QED
    BY <2>1, <2>2
<1>14. \A u \in Uris : contains(u, history') <=> AskedFrom(1, u)'
  BY <1>4, <1>13 DEF SeenInv
<1>15. ASSUME NEW p \in 1 .. Len(cachelist'), NEW u, u = cachelist'[p].uri
       PROVE  AskedFrom(1, u)'
  <2>1. u = element \/ \E q \in 1 .. Len(cachelist) : u = cachelist[q].uri
    <3>1. CASE a = "HIT"
      BY <1>3, <1>15, <3>1 DEF Hits
    <3>2. CASE a = "MISS" /\ Full
      BY <1>3, <1>15, <3>2 DEF Misses
    <3>3. CASE a = "MISS" /\ ~Full
      <4>1. Grows(element)
        BY <1>3, <3>3 DEF Misses
      <4>2. CASE p = Len(cachelist) + 1
        BY <1>15, <4>1, <4>2 DEF Grows
      <4>3. CASE p # Len(cachelist) + 1
        <5>1. p \in 1 .. Len(cachelist)
          BY <1>1, <4>1, <4>3 DEF Grows
        <5> QED
          BY <1>15, <4>1, <5>1 DEF Grows
      <4> QED
        BY <4>2, <4>3
    <3> QED
      BY <3>1, <3>2, <3>3
  <2> QED
    BY <1>4, <2>1 DEF SeenInv
<1>16. ASSUME ~Full', NEW k \in 1 .. Lines + 1 PROVE contains(input[k], cachelist')
  <2>1. ~Full
    BY <1>3, <1>4, <1>16 DEF Hits, Misses, Full
  <2>2. contains(input[k], cachelist) \/ input[k] = element
    <3>1. CASE k = Lines + 1
      BY <1>4, <3>1
    <3>2. CASE k # Lines + 1
      <4>1. k \in 1 .. Lines
        BY <1>4, <3>2
      <4> QED
        BY <2>1, <4>1 DEF SeenInv
    <3> QED
      BY <3>1, <3>2
  <2>3. CASE a = "HIT"
    <3>1. contains(input[k], cachelist)
      BY <1>3, <2>2, <2>3 DEF Hits
    <3>2. PICK q \in 1 .. Len(cachelist) : cachelist[q].uri = input[k]
      BY <1>1, <3>1
    <3> QED
      BY <1>3, <1>11, <2>3, <3>2, ZenonT(60) DEF Hits, contains
  <2>4. CASE a = "MISS"
    <3>1. Grows(element)
      BY <1>3, <2>1, <2>4 DEF Misses
    <3>2. CASE input[k] = element
      <4>1. cachelist'[Len(cachelist) + 1].uri = element /\ Len(cachelist) + 1 \in 1 .. Len(cachelist')
        BY <1>1, <3>1 DEF Grows
      <4> QED
        BY <1>11, <3>2, <4>1 DEF contains
    <3>3. CASE contains(input[k], cachelist)
      <4>1. PICK q \in 1 .. Len(cachelist) : cachelist[q].uri = input[k]
        BY <1>1, <3>3
      <4>2. cachelist'[q].uri = input[k] /\ q \in 1 .. Len(cachelist')
        BY <1>1, <3>1, <4>1 DEF Grows
      <4> QED
        BY <1>11, <4>2 DEF contains
    <3> QED
      BY <2>2, <3>2, <3>3
  <2> QED
    BY <1>3, <2>3, <2>4
<1>17. ~Full' => \A k \in 1 .. Lines' : contains(input'[k], cachelist')
  BY <1>4, <1>16
<1> QED
  BY <1>12, <1>14, <1>15, <1>17 DEF SeenInv

-----------------------------------------------------------------------------
(***************************************************************************)
(* LRU.                                                                    *)
(***************************************************************************)

\* A page that is asked for goes to the end, and the nodes behind the node f, which
\* gave way to it, move up: a hit, with f the node of the page, or a miss of a full
\* list, with f its head.
LEMMA LruMoves ==
  ASSUME NEW s, NEW n \in Nat, NEW l, NEW m, Len(l) \in Nat, Len(m) = Len(l),
         NEW f \in 1 .. Len(l),
         \A i \in 1 .. Len(l) - 1 : m[i].uri = IF i < f THEN l[i].uri ELSE l[i + 1].uri,
         m[Len(l)].uri = s[n + 1],
         f = 1 \/ l[f].uri = s[n + 1],
         \A p \in 1 .. Len(l) : \E j \in 1 .. n : BehindSince(s, n, l, p, j),
         NEW p \in 1 .. Len(m)
  PROVE  \E j \in 1 .. n + 1 : BehindSince(s, n + 1, m, p, j)
<1>1. CASE p = Len(l)
  <2>1. BehindSince(s, n + 1, m, p, n + 1)
    BY <1>1 DEF BehindSince
  <2>2. n + 1 \in 1 .. n + 1
    OBVIOUS
  <2> QED
    BY <2>1, <2>2, Zenon
<1>2. CASE p # Len(l)
  <2> DEFINE old(i) == IF i < f THEN i ELSE i + 1
  <2>1. \A i \in 1 .. Len(l) - 1 : old(i) \in 1 .. Len(l) /\ m[i].uri = l[old(i)].uri
    OBVIOUS
  <2>2. \A i \in p + 1 .. Len(l) - 1 : old(i) \in old(p) + 1 .. Len(l)
    OBVIOUS
  <2>3. \A i \in old(p) + 1 .. Len(l) : i # f => \E k \in p + 1 .. Len(l) - 1 : old(k) = i
    <3> SUFFICES ASSUME NEW i \in old(p) + 1 .. Len(l), i # f
                 PROVE  \E k \in p + 1 .. Len(l) - 1 : old(k) = i
      OBVIOUS
    <3>1. CASE i < f
      <4>1. i \in p + 1 .. Len(l) - 1 /\ old(i) = i
        BY <3>1
      <4> QED
        BY <4>1
    <3>2. CASE i > f
      <4>1. i - 1 \in p + 1 .. Len(l) - 1 /\ old(i - 1) = i
        BY <3>2
      <4> QED
        BY <4>1
    <3> QED
      BY <3>1, <3>2
  <2>4. p \in 1 .. Len(l) - 1
    BY <1>2
  <2>5. old(p) < f => f # 1
    BY <2>4
  <2>6. PICK j \in 1 .. n : BehindSince(s, n, l, old(p), j)
    BY <2>1, <2>4
  <2> HIDE DEF old
  <2>7. s[j] = m[p].uri
    BY <2>1, <2>4, <2>6 DEF BehindSince
  <2>8. ASSUME NEW q \in p + 1 .. Len(m)
        PROVE  \E k \in j + 1 .. n + 1 : s[k] = m[q].uri
    <3>1. CASE q = Len(l)
      BY <3>1
    <3>2. CASE q # Len(l)
      <4>1. q \in p + 1 .. Len(l) - 1 /\ q \in 1 .. Len(l) - 1
        BY <3>2
      <4>2. PICK k \in j + 1 .. n : s[k] = l[old(q)].uri
        BY <2>2, <2>6, <4>1 DEF BehindSince
      <4> QED
        BY <2>1, <4>1, <4>2
    <3> QED
      BY <3>1, <3>2
  <2>9. ASSUME NEW k \in j + 1 .. n + 1
        PROVE  \E q \in p + 1 .. Len(m) : m[q].uri = s[k]
    <3>1. Len(l) \in p + 1 .. Len(m)
      BY <1>2
    <3>2. CASE k = n + 1
      BY <3>1, <3>2
    <3>3. CASE k # n + 1
      <4>1. k \in j + 1 .. n
        BY <3>3
      <4>2. PICK i \in old(p) + 1 .. Len(l) : l[i].uri = s[k]
        BY <2>6, <4>1 DEF BehindSince
      <4>3. CASE i = f
        BY <2>1, <2>4, <2>5, <3>1, <4>2, <4>3, SMTT(40)
      <4>4. CASE i # f
        <5>1. PICK q \in p + 1 .. Len(l) - 1 : old(q) = i
          BY <2>3, <4>4
        <5>2. q \in 1 .. Len(l) - 1 /\ q \in p + 1 .. Len(m)
          OBVIOUS
        <5> QED
          BY <2>1, <4>2, <5>1, <5>2
      <4> QED
        BY <4>3, <4>4
    <3> QED
      BY <3>2, <3>3
  <2>10. BehindSince(s, n + 1, m, p, j)
    BY <2>7, <2>8, <2>9 DEF BehindSince
  <2> QED
    BY <2>10
<1> QED
  BY <1>1, <1>2

\* A page that is asked for comes to the end of a list that was not full.
LEMMA LruGrows ==
  ASSUME NEW s, NEW n \in Nat, NEW l, NEW m, Len(l) \in Nat, Len(m) = Len(l) + 1,
         \A i \in 1 .. Len(l) : m[i].uri = l[i].uri,
         m[Len(l) + 1].uri = s[n + 1],
         \A p \in 1 .. Len(l) : \E j \in 1 .. n : BehindSince(s, n, l, p, j),
         NEW p \in 1 .. Len(m)
  PROVE  \E j \in 1 .. n + 1 : BehindSince(s, n + 1, m, p, j)
<1>1. CASE p = Len(l) + 1
  <2>1. BehindSince(s, n + 1, m, p, n + 1)
    BY <1>1 DEF BehindSince
  <2>2. n + 1 \in 1 .. n + 1
    OBVIOUS
  <2> QED
    BY <2>1, <2>2, Zenon
<1>2. CASE p # Len(l) + 1
  <2>1. p \in 1 .. Len(l)
    BY <1>2
  <2>2. PICK j \in 1 .. n : BehindSince(s, n, l, p, j)
    BY <2>1
  <2>3. ASSUME NEW q \in p + 1 .. Len(m)
        PROVE  \E k \in j + 1 .. n + 1 : s[k] = m[q].uri
    <3>1. CASE q = Len(l) + 1
      BY <3>1
    <3>2. CASE q # Len(l) + 1
      <4>1. q \in p + 1 .. Len(l) /\ q \in 1 .. Len(l)
        <5>1. q \in Int /\ p \in Int /\ p >= 1 /\ q >= p + 1 /\ q <= Len(l) + 1
          OBVIOUS
        <5>2. \A x \in Int, y \in Nat : x <= y + 1 /\ x # y + 1 => x <= y
          OBVIOUS
        <5>3. q <= Len(l)
          BY <3>2, <5>1, <5>2, Zenon
        <5> QED
          BY <5>1, <5>3
      <4>2. PICK k \in j + 1 .. n : s[k] = l[q].uri
        BY <2>2, <4>1 DEF BehindSince
      <4> QED
        BY <4>1, <4>2
    <3> QED
      BY <3>1, <3>2
  <2>4. ASSUME NEW k \in j + 1 .. n + 1
        PROVE  \E q \in p + 1 .. Len(m) : m[q].uri = s[k]
    <3>1. CASE k = n + 1
      BY <2>1, <3>1
    <3>2. CASE k # n + 1
      <4>1. k \in j + 1 .. n
        BY <3>2
      <4>2. PICK i \in p + 1 .. Len(l) : l[i].uri = s[k]
        BY <2>2, <4>1 DEF BehindSince
      <4>3. i \in 1 .. Len(l) /\ i \in p + 1 .. Len(m)
        OBVIOUS
      <4> QED
        BY <4>2, <4>3
    <3> QED
      BY <3>1, <3>2
  <2>5. BehindSince(s, n + 1, m, p, j)
    BY <2>1, <2>2, <2>3, <2>4 DEF BehindSince
  <2> QED
    BY <2>5
<1> QED
  BY <1>1, <1>2

\* Every answer of LRU keeps its invariant.
LEMMA LruStep ==
  ASSUME TypeInv, TypeInv', SeenInv, LruInv, LruHit \/ (policy = "LRU" /\ ListMiss)
  PROVE  LruInv'
<1>1. /\ Len(cachelist) \in Nat /\ maxsize \in Nat \ {0} /\ Len(cachelist) <= maxsize
      /\ \A i \in 1 .. Len(cachelist) : cachelist[i].uri \in Uris
      /\ \A i, j \in 1 .. Len(cachelist) : cachelist[i].uri = cachelist[j].uri => i = j
      /\ \A u : contains(u, cachelist) <=> \E i \in 1 .. Len(cachelist) : cachelist[i].uri = u
  BY ListFacts
<1>2. (LruHit => Hits) /\ (ListMiss => Misses)
  BY HitSteps, MissSteps
<1>3. PICK a \in {"HIT", "MISS"} : Answer(a) /\ (LruHit => a = "HIT") /\ (ListMiss => a = "MISS")
  BY <1>2 DEF Hits, Misses, LruHit, ListMiss, Inserting
<1>4. status = "inserting"
  BY <1>2 DEF Hits, Misses
<1>5. /\ Lines \in Nat /\ Lines' = Lines + 1
      /\ UNCHANGED <<maxsize, input>>
      /\ element = input[Lines + 1] /\ element \in Uris
      /\ \A i \in 1 .. Lines + 1 : \A u : AskedFrom(i, u)' <=> AskedFrom(i, u) \/ u = element
  BY <1>3, <1>4, AfterAnswer
<1>6. DOMAIN cachelist' = 1 .. Len(cachelist') /\ Len(cachelist') \in Nat
  <2>1. cachelist' \in Seq(Node)
    BY DEF TypeInv, ListsInv
  <2> QED
    BY <2>1
<1>7. \A p \in 1 .. Len(cachelist) : \E j \in 1 .. Lines : BehindSince(input, Lines, cachelist, p, j)
  BY DEF LruInv
<1>8. \A u : contains(u, cachelist') <=> \E i \in 1 .. Len(cachelist') : cachelist'[i].uri = u
  BY <1>6, Zenon DEF contains
<1>9. /\ \A p \in 1 .. Len(cachelist') : \E j \in 1 .. Lines + 1 :
           BehindSince(input, Lines + 1, cachelist', p, j)
      /\ \A j \in 1 .. Lines : ~contains(input[j], cachelist') =>
           Full' /\ \A p \in 1 .. Len(cachelist') : \A u : u = cachelist'[p].uri => AskedFrom(j + 1, u)'
      /\ contains(element, cachelist')
  <2>1. CASE LruHit
    <3>1. PICK f \in 1 .. Len(cachelist) : MovesUp(element, f)
      BY <2>1, LruHitShape
    <3>2. /\ Len(cachelist') = Len(cachelist) /\ cachelist[f].uri = input[Lines + 1]
          /\ cachelist'[Len(cachelist)].uri = input[Lines + 1]
          /\ \A i \in 1 .. Len(cachelist) - 1 :
               cachelist'[i].uri = IF i < f THEN cachelist[i].uri ELSE cachelist[i + 1].uri
      BY <1>5, <3>1 DEF MovesUp
    <3>3. \A p \in 1 .. Len(cachelist') : \E j \in 1 .. Lines + 1 :
            BehindSince(input, Lines + 1, cachelist', p, j)
      BY <1>1, <1>5, <1>7, <3>2, LruMoves
    <3>4. Hits
      BY <1>2, <2>1
    <3>5. ASSUME NEW u, contains(u, cachelist) PROVE contains(u, cachelist')
      <4>1. PICK q \in 1 .. Len(cachelist) : cachelist[q].uri = u
        BY <1>1, <3>5
      <4>2. PICK p \in 1 .. Len(cachelist) : cachelist'[p].uri = cachelist[q].uri
        BY <3>4 DEF Hits
      <4> QED
        BY <1>8, <3>2, <4>1, <4>2
    <3>6. ASSUME NEW j \in 1 .. Lines, ~contains(input[j], cachelist')
          PROVE  Full' /\ \A p \in 1 .. Len(cachelist') :
                            \A u : u = cachelist'[p].uri => AskedFrom(j + 1, u)'
      <4>1. Full /\ \A p \in 1 .. Len(cachelist) : AskedFrom(j + 1, cachelist[p].uri)
        BY <3>5, <3>6 DEF LruInv
      <4>2. Full'
        BY <1>5, <3>2, <4>1 DEF Full
      <4>3. \A p \in 1 .. Len(cachelist) : \E q \in 1 .. Len(cachelist) :
              cachelist'[p].uri = cachelist[q].uri
        BY <3>4 DEF Hits
      <4>4. j + 1 \in 1 .. Lines + 1
        BY <1>5
      <4> QED
        BY <1>5, <3>2, <4>1, <4>2, <4>3, <4>4
    <3>7. contains(element, cachelist)
      BY <3>4 DEF Hits
    <3> QED
      BY <3>3, <3>5, <3>6, <3>7
  <2>2. CASE policy = "LRU" /\ ListMiss /\ Full
    <3>1. status = "inserting" /\ ~contains(element, cachelist)
          /\ cachelist' = pushlist(element, MakeRoom(cachelist))
      BY <2>2 DEF ListMiss, Inserting
    <3>2. Slides(element)
      BY <2>2, <3>1, MissShape
    <3>3. /\ Len(cachelist') = Len(cachelist) /\ 1 \in 1 .. Len(cachelist)
          /\ Len(cachelist) \in 1 .. Len(cachelist)
          /\ cachelist'[Len(cachelist)].uri = input[Lines + 1]
          /\ \A i \in 1 .. Len(cachelist) - 1 : cachelist'[i].uri = cachelist[i + 1].uri
      BY <1>1, <1>5, <2>2, <3>2 DEF Slides, Full
    <3>4. \A i \in 1 .. Len(cachelist) - 1 :
            cachelist'[i].uri = IF i < 1 THEN cachelist[i].uri ELSE cachelist[i + 1].uri
      BY <3>3
    <3>5. \A p \in 1 .. Len(cachelist') : \E j \in 1 .. Lines + 1 :
            BehindSince(input, Lines + 1, cachelist', p, j)
      BY <1>1, <1>5, <1>7, <3>3, <3>4, LruMoves
    <3>6. Full'
      BY <1>5, <2>2, <3>3 DEF Full
    <3>7. contains(element, cachelist')
      BY <1>5, <1>8, <3>3
    <3>8. ASSUME NEW j \in 1 .. Lines, ~contains(input[j], cachelist'),
                 NEW q \in 2 .. Len(cachelist)
          PROVE  AskedFrom(j + 1, cachelist[q].uri)
      <4>1. CASE ~contains(input[j], cachelist)
        BY <4>1 DEF LruInv
      <4>2. CASE contains(input[j], cachelist)
        <5>1. PICK i \in 1 .. Len(cachelist) : cachelist[i].uri = input[j]
          BY <1>1, <4>2
        <5>2. i = 1
          <6>1. ASSUME i # 1 PROVE FALSE
            <7>1. i - 1 \in 1 .. Len(cachelist) - 1 /\ i - 1 \in 1 .. Len(cachelist') /\ i - 1 + 1 = i
              BY <1>1, <3>3, <6>1
            <7>2. cachelist'[i - 1].uri = input[j]
              BY <3>3, <5>1, <7>1
            <7> QED
              BY <1>8, <3>8, <7>1, <7>2
          <6> QED
            BY <6>1
        <5>3. PICK k \in 1 .. Lines : BehindSince(input, Lines, cachelist, 1, k)
          BY <1>7, <3>3
        <5>4. ~(k < j)
          <6>1. ASSUME k < j PROVE FALSE
            <7>1. j \in k + 1 .. Lines
              BY <1>5, <6>1
            <7>2. PICK r \in 1 + 1 .. Len(cachelist) : cachelist[r].uri = input[j]
              BY <5>3, <7>1 DEF BehindSince
            <7> QED
              BY <1>1, <3>3, <5>1, <5>2, <7>2
          <6> QED
            BY <6>1
        <5>5. PICK r \in k + 1 .. Lines : input[r] = cachelist[q].uri
          BY <5>3 DEF BehindSince
        <5>6. r \in j + 1 .. Lines
          BY <1>5, <5>4
        <5> QED
          BY <5>5, <5>6 DEF AskedFrom
      <4> QED
        BY <4>1, <4>2
    <3>9. ASSUME NEW j \in 1 .. Lines, ~contains(input[j], cachelist'),
                 NEW p \in 1 .. Len(cachelist'), NEW u, u = cachelist'[p].uri
          PROVE  AskedFrom(j + 1, u)'
      <4>1. j + 1 \in 1 .. Lines + 1
        BY <1>5
      <4>2. CASE p = Len(cachelist)
        BY <1>5, <3>3, <3>9, <4>1, <4>2
      <4>3. CASE p # Len(cachelist)
        <5>1. p \in 1 .. Len(cachelist) - 1 /\ p + 1 \in 2 .. Len(cachelist)
          BY <1>1, <3>3, <4>3
        <5> QED
          BY <1>5, <3>3, <3>8, <3>9, <4>1, <5>1
      <4> QED
        BY <4>2, <4>3
    <3> QED
      BY <3>5, <3>6, <3>7, <3>9
  <2>3. CASE policy = "LRU" /\ ListMiss /\ ~Full
    <3>1. Grows(element)
      BY <1>2, <2>3 DEF Misses
    <3>2. /\ Len(cachelist') = Len(cachelist) + 1
          /\ cachelist'[Len(cachelist) + 1].uri = input[Lines + 1]
          /\ \A i \in 1 .. Len(cachelist) : cachelist'[i].uri = cachelist[i].uri
      BY <1>1, <1>5, <3>1 DEF Grows
    <3>3. \A p \in 1 .. Len(cachelist') : \E j \in 1 .. Lines + 1 :
            BehindSince(input, Lines + 1, cachelist', p, j)
      BY <1>1, <1>5, <1>7, <3>2, LruGrows
    <3>4. \A j \in 1 .. Lines : contains(input[j], cachelist)
      BY <2>3 DEF SeenInv
    <3>5. \A u : contains(u, cachelist) => contains(u, cachelist')
      BY <1>1, <1>8, <3>2
    <3>6. contains(element, cachelist')
      BY <1>1, <1>5, <1>8, <3>2
    <3> QED
      BY <3>3, <3>4, <3>5, <3>6
  <2> QED
    BY <2>1, <2>2, <2>3
<1>10. \A j \in 1 .. Lines' : ~contains(input'[j], cachelist') =>
         Full' /\ \A p \in 1 .. Len(cachelist') : \A u : u = cachelist'[p].uri => AskedFrom(j + 1, u)'
  <2> SUFFICES ASSUME NEW j \in 1 .. Lines + 1, ~contains(input[j], cachelist')
               PROVE  Full' /\ \A p \in 1 .. Len(cachelist') :
                                 \A u : u = cachelist'[p].uri => AskedFrom(j + 1, u)'
    BY <1>5
  <2>1. j \in 1 .. Lines
    BY <1>5, <1>9
  <2> QED
    BY <1>9, <2>1
<1> HIDE DEF contains
<1> QED
  BY <1>5, <1>9, <1>10 DEF LruInv

\* The pages of some positions of a list are no more than these positions, and exactly
\* as many when they are distinct.
LEMMA PagesOfPositions ==
  ASSUME NEW l, NEW p \in Nat, NEW q \in Nat, p <= q,
         NEW S, IsFiniteSet(S),
         \A k \in p + 1 .. q : l[k].uri \in S
  PROVE  /\ (\A u \in S : \E k \in p + 1 .. q : l[k].uri = u) => Cardinality(S) <= q - p
         /\ (\A i, j \in p + 1 .. q : l[i].uri = l[j].uri => i = j) => q - p <= Cardinality(S)
<1> DEFINE f == [k \in p + 1 .. q |-> l[k].uri]
<1>1. IsFiniteSet(p + 1 .. q) /\ Cardinality(p + 1 .. q) = q - p
  <2>1. p + 1 \in Int /\ q \in Int
    OBVIOUS
  <2>2. IsFiniteSet(p + 1 .. q)
        /\ Cardinality(p + 1 .. q) = IF p + 1 > q THEN 0 ELSE q - (p + 1) + 1
    BY <2>1, FS_Interval, Zenon
  <2>3. (IF p + 1 > q THEN 0 ELSE q - (p + 1) + 1) = q - p
    OBVIOUS
  <2> QED
    BY <2>2, <2>3
<1>2. ASSUME \A u \in S : \E k \in p + 1 .. q : l[k].uri = u
      PROVE  Cardinality(S) <= q - p
  <2>1. f \in Surjection(p + 1 .. q, S)
    BY <1>2 DEF Surjection
  <2> HIDE DEF f
  <2> QED
    BY <1>1, <2>1, FS_Surjection
<1>3. ASSUME \A i, j \in p + 1 .. q : l[i].uri = l[j].uri => i = j
      PROVE  q - p <= Cardinality(S)
  <2>1. f \in Injection(p + 1 .. q, S)
    BY <1>3 DEF Injection, IsInjective
  <2> HIDE DEF f
  <2> QED
    BY <1>1, <2>1, FS_Injection
<1> QED
  BY <1>2, <1>3

\* Under LRU a page is in the list exactly when fewer than maxsize pages were asked for
\* since some request of it.
LEMMA LruLine ==
  ASSUME TypeInv, LruInv, NEW u
  PROVE  contains(u, cachelist) <=>
           \E j \in 1 .. Lines :
             input[j] = u /\ Cardinality(PagesOf(input, j + 1, Lines)) < maxsize
<1>1. /\ Len(cachelist) \in Nat /\ maxsize \in Nat \ {0} /\ Len(cachelist) <= maxsize
      /\ \A i, j \in 1 .. Len(cachelist) : cachelist[i].uri = cachelist[j].uri => i = j
      /\ \A v : contains(v, cachelist) <=> \E i \in 1 .. Len(cachelist) : cachelist[i].uri = v
      /\ Lines \in Nat
  BY ListFacts
<1>2. \A j \in 1 .. Lines : IsFiniteSet(PagesOf(input, j + 1, Lines))
                            /\ Cardinality(PagesOf(input, j + 1, Lines)) \in Nat
  BY <1>1, PagesFinite, FS_CardinalityType
<1>3. ASSUME contains(u, cachelist)
      PROVE  \E j \in 1 .. Lines :
               input[j] = u /\ Cardinality(PagesOf(input, j + 1, Lines)) < maxsize
  <2>1. PICK p \in 1 .. Len(cachelist) : cachelist[p].uri = u
    BY <1>1, <1>3
  <2>2. PICK j \in 1 .. Lines : BehindSince(input, Lines, cachelist, p, j)
    BY DEF LruInv
  <2>3. \A k \in p + 1 .. Len(cachelist) : cachelist[k].uri \in PagesOf(input, j + 1, Lines)
    BY <2>2 DEF BehindSince, PagesOf
  <2>4. \A v \in PagesOf(input, j + 1, Lines) :
          \E k \in p + 1 .. Len(cachelist) : cachelist[k].uri = v
    BY <2>2 DEF BehindSince, PagesOf
  <2>5. p \in Nat /\ p <= Len(cachelist)
    BY <1>1
  <2>6. Cardinality(PagesOf(input, j + 1, Lines)) <= Len(cachelist) - p
    BY <1>1, <1>2, <2>3, <2>4, <2>5, PagesOfPositions
  <2>7. Cardinality(PagesOf(input, j + 1, Lines)) < maxsize
    BY <1>1, <1>2, <2>6
  <2>8. input[j] = u
    BY <2>1, <2>2 DEF BehindSince
  <2> QED
    BY <2>7, <2>8
<1>4. ASSUME ~contains(u, cachelist), NEW j \in 1 .. Lines, input[j] = u
      PROVE  ~(Cardinality(PagesOf(input, j + 1, Lines)) < maxsize)
  <2>1. Full /\ \A p \in 1 .. Len(cachelist) : AskedFrom(j + 1, cachelist[p].uri)
    BY <1>4 DEF LruInv
  <2>2. \A k \in 0 + 1 .. Len(cachelist) : cachelist[k].uri \in PagesOf(input, j + 1, Lines)
    BY <2>1 DEF AskedFrom, PagesOf
  <2>3. \A i, k \in 0 + 1 .. Len(cachelist) : cachelist[i].uri = cachelist[k].uri => i = k
    BY <1>1
  <2>4. 0 \in Nat /\ 0 <= Len(cachelist)
    BY <1>1
  <2>5. Len(cachelist) - 0 <= Cardinality(PagesOf(input, j + 1, Lines))
    BY <1>1, <1>2, <2>2, <2>3, <2>4, PagesOfPositions
  <2> QED
    BY <1>1, <1>2, <2>1, <2>5 DEF Full
<1> QED
  BY <1>3, <1>4

-----------------------------------------------------------------------------
(***************************************************************************)
(* FIFO.                                                                   *)
(***************************************************************************)

\* A hit of FIFO moves nothing.
LEMMA FifoHitStep ==
  ASSUME TypeInv, FifoInv, FifoHit
  PROVE  FifoInv'
<1>1. Answer("HIT") /\ status = "inserting" /\ cachelist' = cachelist
  BY DEF FifoHit, Inserting, cache
<1>2. /\ Lines \in Nat /\ Lines' = Lines + 1
      /\ UNCHANGED <<maxsize, input>>
      /\ \A i \in 1 .. Lines : output'[i] = output[i]
      /\ output'[Lines + 1] = "HIT"
      /\ \A j \in 1 .. Lines : Since(j) \in Nat
      /\ \A j \in 1 .. Lines : Since(j)' = Since(j)
  <2>1. \A j \in 1 .. Lines : Since(j) \in Nat /\ Since(j)' = Since(j) + 0
    BY <1>1, AfterAnswer
  <2> QED
    BY <1>1, <2>1, AfterAnswer
<1>3. ASSUME NEW p \in 1 .. Len(cachelist)
      PROVE  \E j \in 1 .. Lines' :
               output'[j] = "MISS" /\ input'[j] = cachelist[p].uri /\ Since(j)' = Len(cachelist) - p
  <2>1. PICK j \in 1 .. Lines :
          output[j] = "MISS" /\ input[j] = cachelist[p].uri /\ Since(j) = Len(cachelist) - p
    BY DEF FifoInv
  <2> QED
    BY <1>2, <2>1
<1>4. ASSUME NEW j \in 1 .. Lines', output'[j] = "MISS", Since(j)' < maxsize
      PROVE  Since(j)' < Len(cachelist) /\ \A v : v = Since(j)' => cachelist[Len(cachelist) - v].uri = input[j]
  <2>1. j \in 1 .. Lines
    BY <1>2, <1>4
  <2>2. output[j] = "MISS" /\ Since(j) < maxsize
    BY <1>2, <1>4, <2>1
  <2> QED
    BY <1>2, <2>1, <2>2 DEF FifoInv
<1> QED
  BY <1>1, <1>2, <1>3, <1>4 DEF FifoInv

\* A miss of FIFO is the last load, and every other one moves one place to the head.
LEMMA FifoMissStep ==
  ASSUME TypeInv, FifoInv, ListMiss
  PROVE  FifoInv'
<1>1. Answer("MISS") /\ status = "inserting" /\ ~contains(element, cachelist)
      /\ cachelist' = pushlist(element, MakeRoom(cachelist))
  BY DEF ListMiss, Inserting
<1>2. /\ Lines \in Nat /\ Lines' = Lines + 1
      /\ UNCHANGED <<maxsize, input>>
      /\ element = input[Lines + 1]
      /\ \A i \in 1 .. Lines : output'[i] = output[i]
      /\ output'[Lines + 1] = "MISS"
      /\ \A j \in 1 .. Lines : Since(j) \in Nat
      /\ \A j \in 1 .. Lines : Since(j)' = Since(j) + 1
      /\ \A j : j = Lines + 1 => Since(j)' = 0
  BY <1>1, AfterAnswer
<1>3. Len(cachelist) \in Nat /\ maxsize \in Nat \ {0} /\ Len(cachelist) <= maxsize
  BY ListFacts
<1> DEFINE L == Len(cachelist)
           c(p) == cachelist[p].uri
           d(p) == cachelist'[p].uri
           Shift(k) ==
             /\ Len(cachelist') = L + 1 - k
             /\ k = 1 <=> Full
             /\ L + 1 - k >= 1
             /\ d(L + 1 - k) = input[Lines + 1]
             /\ \A p \in 1 .. L - k : d(p) = c(p + k)
<1>4. PICK k \in {0, 1} : Shift(k)
  <2>1. CASE Full
    <3>1. Slides(element)
      BY <1>1, <2>1, MissShape
    <3>2. Len(cachelist') = L /\ d(L) = input[Lines + 1] /\ \A p \in 1 .. L - 1 : d(p) = c(p + 1)
      BY <1>2, <3>1 DEF Slides
    <3>3. L + 1 - 1 = L /\ L >= 1
      BY <1>3, <2>1 DEF Full
    <3> HIDE DEF L, c, d
    <3>4. Shift(1)
      BY <2>1, <3>2, <3>3
    <3> QED
      BY <3>4
  <2>2. CASE ~Full
    <3>1. Grows(element)
      BY <1>1, <2>2, MissShape
    <3>2. Len(cachelist') = L + 1 /\ d(L + 1) = input[Lines + 1] /\ \A p \in 1 .. L : d(p) = c(p)
      BY <1>2, <3>1 DEF Grows
    <3>3. L + 1 - 0 = L + 1 /\ L - 0 = L /\ L + 1 >= 1 /\ \A p \in 1 .. L : p + 0 = p
      BY <1>3
    <3> HIDE DEF L, c, d
    <3>4. Shift(0)
      BY <2>2, <3>2, <3>3
    <3> QED
      BY <3>4
  <2> QED
    BY <2>1, <2>2
<1>5. /\ \A p \in 1 .. L : \E j \in 1 .. Lines : output[j] = "MISS" /\ input[j] = c(p) /\ Since(j) = L - p
      /\ \A j \in 1 .. Lines : (output[j] = "MISS" /\ Since(j) < maxsize) =>
           Since(j) < L /\ c(L - Since(j)) = input[j]
  BY DEF FifoInv
<1>6. k = 1 <=> L = maxsize
  BY <1>4 DEF Full
<1>7. L \in Nat /\ L <= maxsize
  BY <1>3
<1> HIDE DEF L, c, d
<1>8. ASSUME NEW p \in 1 .. L + 1 - k
      PROVE  \E j \in 1 .. Lines + 1 :
               output'[j] = "MISS" /\ input[j] = d(p) /\ Since(j)' = L + 1 - k - p
  <2>1. CASE p = L + 1 - k
    <3>1. output'[Lines + 1] = "MISS" /\ input[Lines + 1] = d(p)
      BY <1>2, <1>4, <2>1
    <3>2. ASSUME NEW j, j = Lines + 1 PROVE Since(j)' = L + 1 - k - p
      BY <1>2, <1>7, <2>1, <3>2
    <3>3. Lines + 1 \in 1 .. Lines + 1
      BY <1>2
    <3> QED
      BY <3>1, <3>2, <3>3
  <2>2. CASE p # L + 1 - k
    <3>1. p \in 1 .. L - k /\ p + k \in 1 .. L
      BY <1>7, <2>2
    <3>2. PICK j \in 1 .. Lines : output[j] = "MISS" /\ input[j] = c(p + k) /\ Since(j) = L - (p + k)
      BY <1>5, <3>1
    <3>3. Since(j)' = L + 1 - k - p
      BY <1>2, <1>7, <3>1, <3>2
    <3>4. output'[j] = "MISS" /\ input[j] = d(p) /\ j \in 1 .. Lines + 1
      BY <1>2, <1>4, <3>1, <3>2
    <3> QED
      BY <3>3, <3>4
  <2> QED
    BY <2>1, <2>2
<1>9. ASSUME NEW j \in 1 .. Lines + 1, NEW s, s = Since(j)', output'[j] = "MISS", s < maxsize
      PROVE  s \in Nat /\ s < L + 1 - k /\ d(L + 1 - k - s) = input[j]
  <2>1. CASE j = Lines + 1
    <3>1. s = 0
      BY <1>2, <1>9, <2>1
    <3> QED
      BY <1>4, <1>7, <2>1, <3>1
  <2>2. CASE j # Lines + 1
    <3>1. j \in 1 .. Lines
      BY <1>2, <2>2
    <3> DEFINE r == Since(j)
    <3>2. r \in Nat /\ s = r + 1 /\ r < maxsize /\ output[j] = "MISS"
      <4>1. r \in Nat /\ s = r + 1 /\ output[j] = "MISS"
        BY <1>2, <1>9, <3>1
      <4> HIDE DEF r
      <4> QED
        BY <1>3, <1>9, <4>1
    <3>3. r < L /\ c(L - r) = input[j]
      BY <1>5, <3>1, <3>2
    <3> HIDE DEF r
    <3>4. s < L + 1 - k
      BY <1>3, <1>6, <1>7, <1>9, <3>2, <3>3
    <3>5. L + 1 - k - s \in 1 .. L - k /\ L + 1 - k - s + k = L - r
      BY <1>7, <3>2, <3>4
    <3>6. d(L + 1 - k - s) = c(L - r)
      BY <1>4, <3>5
    <3> QED
      BY <3>2, <3>3, <3>4, <3>6
  <2> QED
    BY <2>1, <2>2
<1>10. Len(cachelist') = L + 1 - k
  BY <1>4
<1>11. ASSUME NEW p \in 1 .. Len(cachelist')
       PROVE  \E j \in 1 .. Lines' :
                output'[j] = "MISS" /\ input'[j] = cachelist'[p].uri /\ Since(j)' = Len(cachelist') - p
  <2>1. PICK j \in 1 .. Lines + 1 :
          output'[j] = "MISS" /\ input[j] = d(p) /\ Since(j)' = L + 1 - k - p
    BY <1>8, <1>10
  <2>2. input[j] = cachelist'[p].uri
    BY <2>1 DEF d
  <2> QED
    BY <1>2, <1>7, <1>10, <2>1, <2>2
<1>12. ASSUME NEW j \in 1 .. Lines', NEW s, s = Since(j)', output'[j] = "MISS", s < maxsize'
       PROVE  s < Len(cachelist') /\ cachelist'[Len(cachelist') - s].uri = input'[j]
  <2>1. s \in Nat /\ s < L + 1 - k /\ d(L + 1 - k - s) = input[j]
    BY <1>2, <1>9, <1>12
  <2>2. cachelist'[L + 1 - k - s].uri = input[j]
    BY <2>1 DEF d
  <2> QED
    BY <1>2, <1>7, <1>10, <2>1, <2>2
<1> QED
  BY <1>11, <1>12 DEF FifoInv

\* Under FIFO a page is in the list exactly when fewer than maxsize misses came since
\* it was loaded.
LEMMA FifoLine ==
  ASSUME TypeInv, FifoInv, NEW u
  PROVE  contains(u, cachelist) <=>
           \E j \in 1 .. Lines : input[j] = u /\ output[j] = "MISS" /\ Since(j) < maxsize
<1>1. /\ Len(cachelist) \in Nat /\ maxsize \in Nat \ {0} /\ Len(cachelist) <= maxsize
      /\ \A v : contains(v, cachelist) <=> \E i \in 1 .. Len(cachelist) : cachelist[i].uri = v
      /\ Lines \in Nat
  BY ListFacts
<1>2. ASSUME contains(u, cachelist)
      PROVE  \E j \in 1 .. Lines : input[j] = u /\ output[j] = "MISS" /\ Since(j) < maxsize
  <2>1. PICK p \in 1 .. Len(cachelist) : cachelist[p].uri = u
    BY <1>1, <1>2
  <2>2. PICK j \in 1 .. Lines :
          output[j] = "MISS" /\ input[j] = cachelist[p].uri /\ Since(j) = Len(cachelist) - p
    BY DEF FifoInv
  <2>3. Len(cachelist) - p < maxsize
    BY <1>1
  <2> QED
    BY <2>1, <2>2, <2>3
<1>3. ASSUME NEW j \in 1 .. Lines, input[j] = u, output[j] = "MISS", Since(j) < maxsize
      PROVE  contains(u, cachelist)
  <2>1. Since(j) < Len(cachelist) /\ cachelist[Len(cachelist) - Since(j)].uri = u
    BY <1>3 DEF FifoInv
  <2>2. Since(j) \in Nat
    BY <1>1, MissesCountable DEF Since
  <2>3. Len(cachelist) - Since(j) \in 1 .. Len(cachelist)
    BY <1>1, <2>1, <2>2
  <2> QED
    BY <1>1, <2>1, <2>3
<1> QED
  BY <1>2, <1>3

-----------------------------------------------------------------------------
(***************************************************************************)
(* CLOCK.                                                                  *)
(***************************************************************************)

\* The hand meets every node within a round, and a turn brings it one nearer to each,
\* but the one it leaves.
LEMMA HandNears ==
  ASSUME TypeInv, status # "done", policy = "CLOCK", NEW p \in 1 .. Len(cachelist)
  PROVE  /\ Ahead(p) \in 0 .. Len(cachelist) - 1
         /\ Ahead(clockpointer + 1) = 0
         /\ (Full /\ UNCHANGED maxsize /\ clockpointer' = NextPointer) =>
              Ahead(p)' = IF p = clockpointer + 1 THEN maxsize - 1 ELSE Ahead(p) - 1
<1>1. /\ Len(cachelist) \in Nat /\ maxsize \in Nat \ {0} /\ Len(cachelist) <= maxsize
      /\ clockpointer \in 0 .. maxsize - 1
  BY ListFacts
<1>2. ~Full => clockpointer = 0
  BY DEF TypeInv, ListsInv
<1>3. Ahead(p) \in 0 .. Len(cachelist) - 1
  BY <1>1, <1>2 DEF Ahead, Full
<1>4. Ahead(clockpointer + 1) = 0
  BY <1>1 DEF Ahead
<1>5. ASSUME Full, UNCHANGED maxsize, clockpointer' = NextPointer
      PROVE  Ahead(p)' = IF p = clockpointer + 1 THEN maxsize - 1 ELSE Ahead(p) - 1
  <2>1. clockpointer' = IF clockpointer + 1 = maxsize THEN 0 ELSE clockpointer + 1
    BY <1>5, HandTurns
  <2>2. Len(cachelist) = maxsize
    BY <1>5 DEF Full
  <2> QED
    BY <1>1, <1>5, <2>1, <2>2 DEF Ahead
<1> QED
  BY <1>3, <1>4, <1>5

\* A sweep clears the bit of a node that was hit, and begins its second round.
LEMMA ClockSweepStep ==
  ASSUME TypeInv, ClockInv, ClockSweep
  PROVE  ClockInv'
<1>1. /\ SetsBit(clockpointer + 1, 0) /\ cachelist[clockpointer + 1].bit = 1
  BY ClockSweepShape
<1>2. /\ policy = "CLOCK" /\ status = "inserting" /\ Full
      /\ UNCHANGED <<maxsize, input, output>> /\ clockpointer' = NextPointer
  BY DEF ClockSweep, Inserting, options
<1>3. /\ Len(cachelist) \in Nat /\ maxsize \in Nat \ {0} /\ Len(cachelist) = maxsize
      /\ clockpointer \in 0 .. maxsize - 1 /\ Lines \in Nat
  BY <1>2, ListFacts DEF Full
<1>4. Lines' = Lines /\ \A j : Since(j)' = Since(j)
  BY <1>2 DEF Lines, Since
<1>5. \A j \in 1 .. Lines : Since(j) \in Nat
  BY <1>3, MissesCountable DEF Since
<1>6. /\ Len(cachelist') = Len(cachelist)
      /\ \A p \in 1 .. Len(cachelist) : cachelist'[p].uri = cachelist[p].uri
      /\ \A p \in 1 .. Len(cachelist) : p # clockpointer + 1 => cachelist'[p].bit = cachelist[p].bit
      /\ cachelist'[clockpointer + 1].bit = 0
  BY <1>1 DEF SetsBit
<1>7. ASSUME NEW p \in 1 .. Len(cachelist)
      PROVE  \E j \in 1 .. Lines : Watched(p, j)'
  <2>1. PICK j \in 1 .. Lines : Watched(p, j)
    BY DEF ClockInv
  <2>2. /\ Ahead(p) \in 0 .. maxsize - 1
        /\ Ahead(p)' = IF p = clockpointer + 1 THEN maxsize - 1 ELSE Ahead(p) - 1
        /\ p = clockpointer + 1 => Ahead(p) = 0
    BY <1>2, <1>3, HandNears
  <2>3. /\ input'[j] = cachelist'[p].uri
        /\ \A k \in j + 1 .. Lines' : input'[k] # cachelist'[p].uri
    BY <1>2, <1>4, <1>6, <2>1 DEF Watched
  <2>4. Ahead(p) + Since(j) <= maxsize - 1 + Chance(j, p)
        /\ (output[j] = "MISS" => cachelist[p].bit = 0)
    BY <1>3, <2>1 DEF Watched
  <2>5. CASE p = clockpointer + 1
    <3>1. Since(j) <= maxsize - 1
      BY <1>1, <1>3, <1>5, <2>2, <2>4, <2>5 DEF Chance
    <3>2. output[j] \in {"HIT", "MISS"}
      BY DEF TypeInv, StreamsInv, Lines
    <3>3. Chance(j, p)' = maxsize - 1
      BY <1>1, <1>2, <1>6, <2>4, <2>5, <3>2 DEF Chance
    <3>4. Ahead(p)' + Since(j)' <= Len(cachelist') - 1 + Chance(j, p)'
      BY <1>3, <1>4, <1>5, <1>6, <2>2, <2>5, <3>1, <3>3
    <3>5. Watched(p, j)'
      BY <1>6, <2>3, <2>5, <3>4 DEF Watched
    <3> QED
      BY <3>5
  <2>6. CASE p # clockpointer + 1
    <3>1. Chance(j, p)' = Chance(j, p) /\ Chance(j, p) \in Nat
      BY <1>2, <1>3, <1>6, <2>6 DEF Chance
    <3>2. Ahead(p)' + Since(j)' <= Len(cachelist') - 1 + Chance(j, p)'
      BY <1>3, <1>4, <1>5, <1>6, <2>2, <2>4, <2>6, <3>1
    <3>3. output'[j] = "MISS" => cachelist'[p].bit = 0
      BY <1>2, <1>6, <2>4, <2>6
    <3>4. Watched(p, j)'
      BY <2>3, <3>2, <3>3 DEF Watched
    <3> QED
      BY <3>4
  <2> QED
    BY <2>5, <2>6
<1> QED
  BY <1>4, <1>6, <1>7 DEF ClockInv

\* A page that a line asks for, or that takes another's place, is watched from that line.
LEMMA WatchedAnew ==
  ASSUME TypeInv, status = "inserting", NEW a \in {"HIT", "MISS"}, Answer(a),
         NEW p \in 1 .. Len(cachelist'), cachelist'[p].uri = element,
         Ahead(p)' \in Nat, Ahead(p)' <= Len(cachelist') - 1, Len(cachelist') \in Nat,
         a = "MISS" => cachelist'[p].bit = 0
  PROVE  \E j \in 1 .. Lines' : Watched(p, j)'
<1>1. /\ Lines \in Nat /\ Lines' = Lines + 1 /\ UNCHANGED <<maxsize, input>>
      /\ element = input[Lines + 1]
      /\ output'[Lines + 1] = a
      /\ \A j : j = Lines + 1 => Since(j)' = 0
  BY AfterAnswer
<1>2. maxsize \in Nat \ {0}
  BY ListFacts
<1>3. PICK j \in 1 .. Lines' : j = Lines + 1
  BY <1>1
<1>4. Chance(j, p)' \in Nat
  BY <1>1, <1>2 DEF Chance
<1>5. Ahead(p)' + Since(j)' <= Len(cachelist') - 1 + Chance(j, p)'
  BY <1>1, <1>3, <1>4
<1>6. \A k \in j + 1 .. Lines' : input'[k] # cachelist'[p].uri
  BY <1>1, <1>3
<1>7. Watched(p, j)'
  BY <1>1, <1>3, <1>5, <1>6 DEF Watched
<1> QED
  BY <1>7

\* The distance of the hand and the misses s since a line keep their bound when a miss
\* brings the hand nearer, from a to b, or makes the list longer, from l to m.
LEMMA BoundAfterMiss ==
  ASSUME NEW a \in Nat, NEW b \in Nat, NEW s \in Nat, NEW l \in Nat, NEW m \in Nat,
         NEW c \in Nat, a + s <= l - 1 + c, b + 1 + l <= a + m
  PROVE  b + (s + 1) <= m - 1 + c
OBVIOUS

\* They keep it when a hit moves neither.
LEMMA BoundAfterHit ==
  ASSUME NEW a \in Nat, NEW b \in Nat, NEW s \in Nat, NEW l \in Nat, NEW m \in Nat,
         NEW c \in Nat, a + s <= l - 1 + c, b + l <= a + m
  PROVE  b + s <= m - 1 + c
OBVIOUS

\* A page that the line does not ask for is watched from the line it was watched from,
\* if a miss brings the hand nearer or makes the list longer.
LEMMA WatchedStill ==
  ASSUME TypeInv, status = "inserting", NEW a \in {"HIT", "MISS"}, Answer(a),
         NEW p \in 1 .. Len(cachelist), cachelist'[p] = cachelist[p],
         cachelist[p].uri # element,
         Ahead(p) \in Nat, Ahead(p)' \in Nat, Len(cachelist') \in Nat,
         Ahead(p)' + (IF a = "MISS" THEN 1 ELSE 0) + Len(cachelist) <= Ahead(p) + Len(cachelist'),
         \E j \in 1 .. Lines : Watched(p, j)
  PROVE  \E j \in 1 .. Lines' : Watched(p, j)'
<1>1. /\ Lines \in Nat /\ Lines' = Lines + 1 /\ UNCHANGED <<maxsize, input>>
      /\ element = input[Lines + 1]
      /\ \A i \in 1 .. Lines : output'[i] = output[i]
      /\ \A j \in 1 .. Lines : Since(j) \in Nat
      /\ \A j \in 1 .. Lines : Since(j)' = Since(j) + (IF a = "MISS" THEN 1 ELSE 0)
  BY AfterAnswer
<1>2. maxsize \in Nat \ {0} /\ Len(cachelist) \in Nat
  BY ListFacts
<1>3. PICK j \in 1 .. Lines : Watched(p, j)
  OBVIOUS
<1>4. j \in 1 .. Lines' /\ output'[j] = output[j]
  BY <1>1
<1>5. Chance(j, p)' = Chance(j, p) /\ Chance(j, p) \in Nat
  BY <1>1, <1>2, <1>4 DEF Chance
<1>6. Ahead(p) + Since(j) <= Len(cachelist) - 1 + Chance(j, p)
  BY <1>3 DEF Watched
<1>7. Ahead(p)' + Since(j)' <= Len(cachelist') - 1 + Chance(j, p)'
  <2>1. CASE a = "MISS"
    <3>1. Since(j) \in Nat /\ Since(j)' = Since(j) + 1
      BY <1>1, <2>1
    <3>2. Ahead(p)' + 1 + Len(cachelist) <= Ahead(p) + Len(cachelist')
      BY <2>1
    <3>3. Ahead(p)' + (Since(j) + 1) <= Len(cachelist') - 1 + Chance(j, p)
      BY <1>2, <1>5, <1>6, <3>1, <3>2, BoundAfterMiss, Zenon
    <3> QED
      BY <1>5, <3>1, <3>3, Zenon
  <2>2. CASE a = "HIT"
    <3>1. Since(j) \in Nat /\ Since(j)' = Since(j)
      BY <1>1, <2>2
    <3>2. Ahead(p)' + Len(cachelist) <= Ahead(p) + Len(cachelist')
      BY <2>2
    <3>3. Ahead(p)' + Since(j) <= Len(cachelist') - 1 + Chance(j, p)
      BY <1>2, <1>5, <1>6, <3>1, <3>2, BoundAfterHit, Zenon
    <3> QED
      BY <1>5, <3>1, <3>3, Zenon
  <2> QED
    BY <2>1, <2>2
<1>8. \A k \in j + 1 .. Lines' : input'[k] # cachelist'[p].uri
  <2> SUFFICES ASSUME NEW k \in j + 1 .. Lines + 1 PROVE input[k] # cachelist[p].uri
    BY <1>1
  <2>1. CASE k = Lines + 1
    BY <1>1, <2>1
  <2>2. CASE k # Lines + 1
    <3>1. k \in j + 1 .. Lines
      BY <1>1, <2>2
    <3> QED
      BY <1>3, <3>1 DEF Watched
  <2> QED
    BY <2>1, <2>2
<1>9. input'[j] = cachelist'[p].uri /\ (output'[j] = "MISS" => cachelist'[p].bit = 0)
  BY <1>1, <1>3, <1>4 DEF Watched
<1>10. Watched(p, j)'
  BY <1>7, <1>8, <1>9 DEF Watched
<1> QED
  BY <1>4, <1>10

\* A hit of CLOCK: its page is watched anew, the others as before.
LEMMA ClockHitStep ==
  ASSUME TypeInv, ClockInv, ClockHit
  PROVE  ClockInv'
<1>1. PICK f \in 1 .. Len(cachelist) : SetsBit(f, 1) /\ cachelist[f].uri = element
  BY ClockHitShape
<1>2. /\ policy = "CLOCK" /\ status = "inserting" /\ Answer("HIT")
      /\ UNCHANGED <<maxsize, clockpointer>>
  BY DEF ClockHit, Inserting, OnlyTheList, Answer, options
<1>3. Len(cachelist) \in Nat
      /\ \A i, j \in 1 .. Len(cachelist) : cachelist[i].uri = cachelist[j].uri => i = j
  BY ListFacts
<1>4. Len(cachelist') = Len(cachelist) /\ cachelist'[f].uri = element
      /\ \A p \in 1 .. Len(cachelist) : p # f => cachelist'[p] = cachelist[p]
  BY <1>1 DEF SetsBit
<1>5. ASSUME NEW p \in 1 .. Len(cachelist) PROVE \E j \in 1 .. Lines' : Watched(p, j)'
  <2>1. Ahead(p) \in 0 .. Len(cachelist) - 1
    BY <1>2, HandNears
  <2>2. Ahead(p)' = Ahead(p)
    BY <1>2 DEF Ahead
  <2>3. CASE p = f
    <3>1. p \in 1 .. Len(cachelist') /\ cachelist'[p].uri = element
      BY <1>4, <2>3
    <3>2. Ahead(p)' \in Nat /\ Ahead(p)' <= Len(cachelist') - 1 /\ Len(cachelist') \in Nat
      BY <1>3, <1>4, <2>1, <2>2
    <3> QED
      BY <1>2, <3>1, <3>2, WatchedAnew
  <2>4. CASE p # f
    <3>1. cachelist'[p] = cachelist[p] /\ cachelist[p].uri # element
      BY <1>1, <1>3, <1>4, <2>4
    <3>2. /\ Ahead(p) \in Nat /\ Ahead(p)' \in Nat /\ Len(cachelist') \in Nat
          /\ Ahead(p)' + 0 + Len(cachelist) <= Ahead(p) + Len(cachelist')
      BY <1>3, <1>4, <2>1, <2>2
    <3>3. \E j \in 1 .. Lines : Watched(p, j)
      BY DEF ClockInv
    <3> QED
      BY <1>2, <3>1, <3>2, <3>3, WatchedStill
  <2> QED
    BY <2>3, <2>4
<1> QED
  BY <1>4, <1>5 DEF ClockInv

\* A miss of a full clock: the new page is watched, and the hand is nearer to the others.
LEMMA ClockReplaceStep ==
  ASSUME TypeInv, ClockInv, ClockReplace
  PROVE  ClockInv'
<1>1. Replaces(clockpointer + 1, element) /\ cachelist[clockpointer + 1].bit = 0
  BY ClockReplaceShape
<1>2. /\ policy = "CLOCK" /\ status = "inserting" /\ Answer("MISS") /\ Full
      /\ UNCHANGED maxsize /\ clockpointer' = NextPointer /\ ~contains(element, cachelist)
  BY DEF ClockReplace, Inserting, Answer, options
<1>3. Len(cachelist) \in Nat /\ maxsize \in Nat \ {0} /\ Len(cachelist) = maxsize
      /\ \A u : contains(u, cachelist) <=> \E i \in 1 .. Len(cachelist) : cachelist[i].uri = u
  BY <1>2, ListFacts DEF Full
<1>4. /\ Len(cachelist') = Len(cachelist)
      /\ \A p \in 1 .. Len(cachelist) : p # clockpointer + 1 => cachelist'[p] = cachelist[p]
      /\ cachelist'[clockpointer + 1].uri = element /\ cachelist'[clockpointer + 1].bit = 0
  BY <1>1 DEF Replaces
<1>5. ASSUME NEW p \in 1 .. Len(cachelist) PROVE \E j \in 1 .. Lines' : Watched(p, j)'
  <2>1. /\ Ahead(p) \in 0 .. maxsize - 1
        /\ Ahead(p)' = IF p = clockpointer + 1 THEN maxsize - 1 ELSE Ahead(p) - 1
    BY <1>2, <1>3, HandNears
  <2>2. CASE p = clockpointer + 1
    <3>1. p \in 1 .. Len(cachelist') /\ cachelist'[p].uri = element /\ cachelist'[p].bit = 0
      BY <1>4, <2>2
    <3>2. Ahead(p)' \in Nat /\ Ahead(p)' <= Len(cachelist') - 1 /\ Len(cachelist') \in Nat
      BY <1>3, <1>4, <2>1, <2>2
    <3> QED
      BY <1>2, <3>1, <3>2, WatchedAnew
  <2>3. CASE p # clockpointer + 1
    <3>1. cachelist'[p] = cachelist[p] /\ cachelist[p].uri # element
      BY <1>2, <1>3, <1>4, <2>3
    <3>2. Ahead(p) # 0
      BY <1>3, <2>3, ListFacts DEF Ahead
    <3>3. /\ Ahead(p) \in Nat /\ Ahead(p)' \in Nat /\ Len(cachelist') \in Nat
          /\ Ahead(p)' + 1 + Len(cachelist) <= Ahead(p) + Len(cachelist')
      BY <1>3, <1>4, <2>1, <2>3, <3>2
    <3>4. \E j \in 1 .. Lines : Watched(p, j)
      BY DEF ClockInv
    <3> QED
      BY <1>2, <3>1, <3>3, <3>4, WatchedStill
  <2> QED
    BY <2>2, <2>3
<1> QED
  BY <1>4, <1>5 DEF ClockInv

\* A miss of a clock that is not full: the list is longer by the new page.
LEMMA ClockFillStep ==
  ASSUME TypeInv, ClockInv, ClockFill
  PROVE  ClockInv'
<1>1. /\ policy = "CLOCK" /\ status = "inserting" /\ Answer("MISS") /\ ~Full
      /\ UNCHANGED <<maxsize, clockpointer>> /\ ~contains(element, cachelist)
      /\ cachelist' = pushlist(element, MakeRoom(cachelist))
  BY DEF ClockFill, Inserting, Answer, options, MakeRoom
<1>2. Grows(element)
  BY <1>1, MissShape
<1>3. /\ Len(cachelist) \in Nat /\ clockpointer = 0
      /\ \A u : contains(u, cachelist) <=> \E i \in 1 .. Len(cachelist) : cachelist[i].uri = u
  BY <1>1, ListFacts DEF TypeInv, ListsInv
<1>4. /\ Len(cachelist') = Len(cachelist) + 1
      /\ \A p \in 1 .. Len(cachelist) : cachelist'[p] = cachelist[p]
      /\ cachelist'[Len(cachelist) + 1].uri = element /\ cachelist'[Len(cachelist) + 1].bit = 0
  BY <1>2 DEF Grows
<1>5. ASSUME NEW p \in 1 .. Len(cachelist) + 1 PROVE \E j \in 1 .. Lines' : Watched(p, j)'
  <2>1. Ahead(p) = p - 1 /\ Ahead(p)' = p - 1
    BY <1>1, <1>3 DEF Ahead
  <2>2. CASE p = Len(cachelist) + 1
    <3>1. p \in 1 .. Len(cachelist') /\ cachelist'[p].uri = element /\ cachelist'[p].bit = 0
      BY <1>4, <2>2
    <3>2. Ahead(p)' \in Nat /\ Ahead(p)' <= Len(cachelist') - 1 /\ Len(cachelist') \in Nat
      BY <1>3, <1>4, <2>1, <2>2
    <3> QED
      BY <1>1, <3>1, <3>2, WatchedAnew
  <2>3. CASE p # Len(cachelist) + 1
    <3>1. p \in 1 .. Len(cachelist)
      BY <1>3, <2>3
    <3>2. cachelist'[p] = cachelist[p] /\ cachelist[p].uri # element
      BY <1>1, <1>3, <1>4, <3>1
    <3>3. /\ Ahead(p) \in Nat /\ Ahead(p)' \in Nat /\ Len(cachelist') \in Nat
          /\ Ahead(p)' + 1 + Len(cachelist) <= Ahead(p) + Len(cachelist')
      BY <1>3, <1>4, <2>1
    <3>4. \E j \in 1 .. Lines : Watched(p, j)
      BY <3>1 DEF ClockInv
    <3> QED
      BY <1>1, <3>1, <3>2, <3>3, <3>4, WatchedStill
  <2> QED
    BY <2>2, <2>3
<1> QED
  BY <1>4, <1>5 DEF ClockInv

\* Under CLOCK a page in the list is near the hand, measured from its last request.
LEMMA ClockLine ==
  ASSUME TypeInv, ClockInv, status # "done", policy = "CLOCK",
         NEW u, contains(u, cachelist),
         NEW j \in 1 .. Lines, input[j] = u, \A k \in 1 .. Lines : input[k] = u => k <= j
  PROVE  Since(j) < maxsize + (IF output[j] = "HIT" THEN maxsize - 1 ELSE 0)
<1>1. /\ Len(cachelist) \in Nat /\ maxsize \in Nat \ {0} /\ Len(cachelist) <= maxsize
      /\ \A v : contains(v, cachelist) <=> \E i \in 1 .. Len(cachelist) : cachelist[i].uri = v
      /\ Lines \in Nat
  BY ListFacts
<1>2. PICK p \in 1 .. Len(cachelist) : cachelist[p].uri = u
  BY <1>1
<1>3. PICK i \in 1 .. Lines : Watched(p, i)
  BY DEF ClockInv
<1>4. i = j
  <2>1. i <= j
    BY <1>2, <1>3 DEF Watched
  <2>2. ~(i < j)
    <3> SUFFICES ASSUME i < j PROVE FALSE
      OBVIOUS
    <3>1. j \in i + 1 .. Lines
      BY <1>1
    <3> QED
      BY <1>2, <1>3, <3>1 DEF Watched
  <2> QED
    BY <1>1, <2>1, <2>2
<1>5. Ahead(p) + Since(j) <= Len(cachelist) - 1 + Chance(j, p)
  BY <1>3, <1>4 DEF Watched
<1>6. Ahead(p) \in 0 .. Len(cachelist) - 1
  BY HandNears
<1>7. Since(j) \in Nat
  BY <1>1, MissesCountable DEF Since
<1>8. Chance(j, p) \in Nat /\ Chance(j, p) <= (IF output[j] = "HIT" THEN maxsize - 1 ELSE 0)
  BY <1>1 DEF Chance
<1> QED
  BY <1>1, <1>5, <1>6, <1>7, <1>8

-----------------------------------------------------------------------------
(***************************************************************************)
(* The invariants of the history, and the counters.                        *)
(***************************************************************************)

\* What the counters and the list say of the answers survives every step.
LEMMA HistoryStep ==
  ASSUME TypeInv, TypeInv', HistoryInv, [Next]_vars
  PROVE  HistoryInv'
<1>1. CASE ParseOption \/ TurnInPlace \/ OptionsParsed \/ (\E u \in Uris : ReadLine(u))
           \/ UNCHANGED vars
  BY <1>1, QuietSteps, QuietHistory
<1>2. CASE ClockSweep
  <2>1. /\ policy = "CLOCK" /\ status = "inserting"
        /\ UNCHANGED <<policy, maxsize, history, num_compulsory_misses, num_capacity_misses,
                       input, output, status>>
    BY <1>2 DEF ClockSweep, Inserting, options
  <2>2. SetsBit(clockpointer + 1, 0)
    BY <1>2, ClockSweepShape
  <2>3. /\ Len(cachelist') = Len(cachelist) /\ Len(cachelist) \in Nat
        /\ \A p \in 1 .. Len(cachelist) : cachelist'[p].uri = cachelist[p].uri
    BY <2>2, ListFacts DEF SetsBit
  <2>4. DOMAIN cachelist = 1 .. Len(cachelist) /\ DOMAIN cachelist' = 1 .. Len(cachelist')
    BY DEF TypeInv, ListsInv
  <2>5. CountersInv' /\ SeenInv'
    <3>1. CountersInv'
      BY <2>1 DEF HistoryInv, CountersInv, Lines
    <3>2. SeenInv
      BY <2>1 DEF HistoryInv
    <3>3. \A u : contains(u, cachelist') <=> contains(u, cachelist)
      BY <2>3, <2>4 DEF contains
    <3>4. \A u : AskedFrom(1, u)' <=> AskedFrom(1, u)
      BY <2>1 DEF AskedFrom, Lines
    <3>5. (\A u \in Uris : contains(u, history) <=> AskedFrom(1, u))'
      BY <2>1, <3>2, <3>4 DEF SeenInv
    <3>6. (\A q \in 1 .. Len(cachelist) : AskedFrom(1, cachelist[q].uri))'
      <4>1. ASSUME NEW q \in 1 .. Len(cachelist), NEW u, u = cachelist'[q].uri
            PROVE  AskedFrom(1, u)'
        BY <2>3, <3>2, <3>4, <4>1 DEF SeenInv
      <4> QED
        BY <2>3, <4>1
    <3>7. (~Full => \A k \in 1 .. Lines : contains(input[k], cachelist))'
      BY <2>1, <2>3, <3>2, <3>3 DEF SeenInv, Full, Lines
    <3> QED
      BY <3>1, <3>5, <3>6, <3>7 DEF SeenInv
  <2>6. ClockInv'
    BY <1>2, <2>1, ClockSweepStep DEF HistoryInv
  <2> QED
    BY <2>1, <2>5, <2>6 DEF HistoryInv
<1>3. CASE FifoHit \/ LruHit \/ ListMiss \/ ClockHit \/ ClockReplace \/ ClockFill
  <2>1. Hits \/ Misses
    BY <1>3, HitSteps, MissSteps
  <2>2. status = "inserting" /\ status' = "reading" /\ UNCHANGED policy
    BY <2>1 DEF Hits, Misses, Answer, options
  <2>3. CountersInv' /\ SeenInv'
    BY <2>1, <2>2, AnsweredHistory DEF HistoryInv
  <2>4. /\ FifoHit => policy = "FIFO"
        /\ LruHit => policy = "LRU"
        /\ ListMiss => policy \in {"FIFO", "LRU"}
        /\ (ClockHit \/ ClockReplace \/ ClockFill) => policy = "CLOCK"
    BY DEF FifoHit, LruHit, ListMiss, ClockHit, ClockReplace, ClockFill, Inserting
  <2>5. ASSUME policy = "LRU" PROVE LruInv'
    BY <1>3, <2>2, <2>4, <2>5, LruStep DEF HistoryInv
  <2>6. ASSUME policy = "FIFO" PROVE FifoInv'
    BY <1>3, <2>2, <2>4, <2>6, FifoHitStep, FifoMissStep DEF HistoryInv
  <2>7. ASSUME policy = "CLOCK" PROVE ClockInv'
    BY <1>3, <2>2, <2>4, <2>7, ClockHitStep, ClockReplaceStep, ClockFillStep DEF HistoryInv
  <2> QED
    BY <2>2, <2>3, <2>5, <2>6, <2>7 DEF HistoryInv
<1>4. CASE EndOfFile
  <2>1. status' = "done" /\ UNCHANGED <<num_compulsory_misses, num_capacity_misses, input, output>>
    BY <1>4 DEF EndOfFile
  <2> QED
    BY <2>1 DEF HistoryInv, CountersInv, Lines
<1> QED
  BY <1>1, <1>2, <1>3, <1>4 DEF Next, Options, Insert

\* It holds in every reachable state.
LEMMA HistoryInvariant == Spec => [](TypeInv /\ HistoryInv)
<1>1. TypeInv /\ HistoryInv /\ [Next]_vars => (TypeInv /\ HistoryInv)'
  BY TypeStep, HistoryStep
<1> QED
  BY <1>1, TypeInit, InitHistory, PTL DEF Spec

\* The two counters main prints classify the MISS lines it printed: one compulsory miss
\* for each distinct page, and every other miss counted for capacity, for every policy,
\* capacity and input.
THEOREM CountersClassify == Spec => []MissesCounted
<1>1. TypeInv /\ HistoryInv => MissesCounted
  <2> SUFFICES ASSUME TypeInv, HistoryInv PROVE MissesCounted
    OBVIOUS
  <2>1. Answered = 1 .. Lines
    BY DEF Answered, Lines, TypeInv, StreamsInv
  <2>2. {input[i] : i \in Answered} = PagesOf(input, 1, Lines)
    BY <2>1 DEF PagesOf
  <2>3. MissesBetween(0, Len(output) + 1) = MissesOf(output, 0, Lines + 1)
    BY DEF MissesBetween, MissesOf, Lines
  <2> QED
    BY <2>2, <2>3 DEF HistoryInv, CountersInv, MissesCounted
<1> QED
  BY <1>1, HistoryInvariant, PTL

-----------------------------------------------------------------------------
(***************************************************************************)
(* The answers.                                                            *)
(***************************************************************************)

\* What HitsOfPolicy says of the answer o[i] to line i of s, with a capacity c.
LruAnswer(s, o, c, i) ==
  o[i] = "HIT" <=>
    \E j \in 1 .. i - 1 : s[j] = s[i] /\ Cardinality(PagesOf(s, j + 1, i - 1)) < c

FifoAnswer(s, o, c, i) ==
  o[i] = "HIT" <=>
    \E j \in 1 .. i - 1 : s[j] = s[i] /\ o[j] = "MISS" /\ MissesOf(o, j, i) < c

ClockAnswer(s, o, c, i) ==
  \A j \in 1 .. i - 1 :
    (s[j] = s[i] /\ o[i] = "HIT" /\ \A k \in 1 .. i - 1 : s[k] = s[i] => k <= j) =>
      MissesOf(o, j, i) < c + (IF o[j] = "HIT" THEN c - 1 ELSE 0)

AnswersInv ==
  \A i \in 1 .. Lines :
    /\ policy = "LRU" => LruAnswer(input, output, maxsize, i)
    /\ policy = "FIFO" => FifoAnswer(input, output, maxsize, i)
    /\ policy = "CLOCK" => ClockAnswer(input, output, maxsize, i)

\* They depend on nothing behind the line.
LEMMA AnswersFixed ==
  ASSUME NEW n \in Nat, NEW s, NEW t, NEW o, NEW p, NEW c, NEW i \in 1 .. n,
         \A k \in 1 .. n : t[k] = s[k] /\ p[k] = o[k]
  PROVE  /\ LruAnswer(s, o, c, i) => LruAnswer(t, p, c, i)
         /\ FifoAnswer(s, o, c, i) => FifoAnswer(t, p, c, i)
         /\ ClockAnswer(s, o, c, i) => ClockAnswer(t, p, c, i)
<1>1. \A j \in 1 .. i - 1 : PagesOf(t, j + 1, i - 1) = PagesOf(s, j + 1, i - 1)
  BY DEF PagesOf
<1>2. \A j \in 1 .. i - 1 : MissesOf(p, j, i) = MissesOf(o, j, i)
  <2>1. \A j \in 1 .. i - 1 :
          {k \in j + 1 .. i - 1 : p[k] = "MISS"} = {k \in j + 1 .. i - 1 : o[k] = "MISS"}
    OBVIOUS
  <2> QED
    BY <2>1 DEF MissesOf
<1>3. t[i] = s[i] /\ p[i] = o[i] /\ \A j \in 1 .. i - 1 : t[j] = s[j] /\ p[j] = o[j]
  OBVIOUS
<1>4. LruAnswer(s, o, c, i) => LruAnswer(t, p, c, i)
  BY <1>1, <1>3 DEF LruAnswer
<1>5. FifoAnswer(s, o, c, i) => FifoAnswer(t, p, c, i)
  BY <1>2, <1>3 DEF FifoAnswer
<1>6. ClockAnswer(s, o, c, i) => ClockAnswer(t, p, c, i)
  BY <1>2, <1>3 DEF ClockAnswer
<1> QED
  BY <1>4, <1>5, <1>6

\* Every line is answered as the policy says.
LEMMA AnswersStep ==
  ASSUME TypeInv, HistoryInv, AnswersInv, [Next]_vars
  PROVE  AnswersInv'
<1>0. Lines \in Nat
  BY ListFacts
<1>1. ASSUME Lines' = Lines,
             \A k \in 1 .. Lines : input'[k] = input[k] /\ output'[k] = output[k],
             UNCHANGED <<policy, maxsize>> \/ Lines = 0
      PROVE  AnswersInv'
  <2> SUFFICES ASSUME NEW i \in 1 .. Lines
               PROVE  /\ policy' = "LRU" => LruAnswer(input', output', maxsize', i)
                      /\ policy' = "FIFO" => FifoAnswer(input', output', maxsize', i)
                      /\ policy' = "CLOCK" => ClockAnswer(input', output', maxsize', i)
    BY <1>1 DEF AnswersInv
  <2>1. UNCHANGED <<policy, maxsize>>
    BY <1>0, <1>1
  <2>2. /\ LruAnswer(input, output, maxsize, i) => LruAnswer(input', output', maxsize, i)
        /\ FifoAnswer(input, output, maxsize, i) => FifoAnswer(input', output', maxsize, i)
        /\ ClockAnswer(input, output, maxsize, i) => ClockAnswer(input', output', maxsize, i)
    BY <1>0, <1>1, AnswersFixed
  <2> QED
    BY <2>1, <2>2 DEF AnswersInv
<1>2. CASE ParseOption \/ TurnInPlace \/ OptionsParsed \/ (\E u \in Uris : ReadLine(u))
           \/ UNCHANGED vars
  <2>1. Quiet
    BY <1>2, QuietSteps
  <2> QED
    BY <1>1, <2>1 DEF Quiet, Lines
<1>3. CASE ClockSweep \/ EndOfFile
  <2>1. UNCHANGED <<policy, maxsize, input, output>>
    BY <1>3 DEF ClockSweep, EndOfFile, options
  <2> QED
    BY <1>1, <2>1 DEF Lines
<1>4. CASE FifoHit \/ LruHit \/ ListMiss \/ ClockHit \/ ClockReplace \/ ClockFill
  <2>1. Hits \/ Misses
    BY <1>4, HitSteps, MissSteps
  <2>2. PICK a \in {"HIT", "MISS"} :
          Answer(a) /\ (a = "HIT" <=> contains(element, cachelist)) /\ status = "inserting"
    BY <2>1 DEF Hits, Misses
  <2>3. /\ Lines' = Lines + 1 /\ UNCHANGED <<policy, maxsize, input>>
        /\ element = input[Lines + 1]
        /\ \A k \in 1 .. Lines : output'[k] = output[k]
        /\ output'[Lines + 1] = a
    BY <2>2, AfterAnswer
  <2>4. ASSUME NEW i \in 1 .. Lines
        PROVE  /\ policy = "LRU" => LruAnswer(input, output', maxsize, i)
               /\ policy = "FIFO" => FifoAnswer(input, output', maxsize, i)
               /\ policy = "CLOCK" => ClockAnswer(input, output', maxsize, i)
    <3>1. /\ LruAnswer(input, output, maxsize, i) => LruAnswer(input, output', maxsize, i)
          /\ FifoAnswer(input, output, maxsize, i) => FifoAnswer(input, output', maxsize, i)
          /\ ClockAnswer(input, output, maxsize, i) => ClockAnswer(input, output', maxsize, i)
      BY <1>0, <2>3, AnswersFixed
    <3> QED
      BY <3>1 DEF AnswersInv
  <2> DEFINE n == Lines + 1
  <2>5. n - 1 = Lines /\ 1 .. n - 1 = 1 .. Lines
    BY <1>0
  <2>6. \A j \in 1 .. Lines : MissesOf(output', j, n) = Since(j)
    BY <1>0, <2>3, MissesGrow DEF Since
  <2>7. ASSUME policy = "LRU" PROVE LruAnswer(input, output', maxsize, n)
    <3>1. LruInv
      BY <2>2, <2>7 DEF HistoryInv
    <3> QED
      BY <2>2, <2>3, <2>5, <3>1, LruLine DEF LruAnswer
  <2>8. ASSUME policy = "FIFO" PROVE FifoAnswer(input, output', maxsize, n)
    <3>1. FifoInv
      BY <2>2, <2>8 DEF HistoryInv
    <3>2. contains(element, cachelist) <=>
            \E j \in 1 .. Lines : input[j] = element /\ output[j] = "MISS" /\ Since(j) < maxsize
      BY <3>1, FifoLine
    <3>3. \A j \in 1 .. Lines :
            /\ output'[j] = "MISS" <=> output[j] = "MISS"
            /\ MissesOf(output', j, n) < maxsize <=> Since(j) < maxsize
      BY <2>3, <2>6
    <3> HIDE DEF n
    <3> QED
      BY <2>2, <2>3, <2>5, <3>2, <3>3 DEF FifoAnswer, n
  <2>9. ASSUME policy = "CLOCK" PROVE ClockAnswer(input, output', maxsize, n)
    <3>1. ClockInv /\ status # "done"
      BY <2>2, <2>9 DEF HistoryInv
    <3>2. ASSUME NEW j \in 1 .. Lines, input[j] = element, a = "HIT",
                 \A k \in 1 .. Lines : input[k] = element => k <= j
          PROVE  MissesOf(output', j, n) <
                   maxsize + (IF output'[j] = "HIT" THEN maxsize - 1 ELSE 0)
      <4>1. Since(j) < maxsize + (IF output[j] = "HIT" THEN maxsize - 1 ELSE 0)
        BY <2>2, <2>9, <3>1, <3>2, ClockLine
      <4> QED
        BY <2>3, <2>6, <4>1
    <3> QED
      BY <2>2, <2>3, <2>5, <3>2 DEF ClockAnswer
  <2>10. ASSUME NEW i \in 1 .. Lines'
         PROVE  /\ policy' = "LRU" => LruAnswer(input', output', maxsize', i)
                /\ policy' = "FIFO" => FifoAnswer(input', output', maxsize', i)
                /\ policy' = "CLOCK" => ClockAnswer(input', output', maxsize', i)
    <3>1. i \in 1 .. Lines \/ i = n
      BY <1>0, <2>3
    <3> QED
      BY <2>3, <2>4, <2>7, <2>8, <2>9, <3>1
  <2> QED
    BY <2>10 DEF AnswersInv
<1> QED
  BY <1>2, <1>3, <1>4 DEF Next, Options, Insert

\* Each HIT and MISS is the one the policy defines by the input alone: LRU by the stack
\* distance of the page, FIFO by the loads since the page was loaded, and CLOCK within
\* the bound of its second chance, for every capacity and input.
THEOREM AnswersArePolicy == Spec => []HitsOfPolicy
<1>1. Init => AnswersInv
  <2> SUFFICES ASSUME Init PROVE AnswersInv
    OBVIOUS
  <2>1. Lines = 0
    BY DEF Init, Lines
  <2> QED
    BY <2>1 DEF AnswersInv
<1>2. TypeInv /\ HistoryInv /\ AnswersInv /\ [Next]_vars => (TypeInv /\ HistoryInv /\ AnswersInv)'
  BY TypeStep, HistoryStep, AnswersStep
<1>3. TypeInv /\ AnswersInv => HitsOfPolicy
  <2> SUFFICES ASSUME TypeInv, AnswersInv PROVE HitsOfPolicy
    OBVIOUS
  <2>1. Answered = 1 .. Lines
    BY DEF Answered, Lines, TypeInv, StreamsInv
  <2>2. \A i, j : MissesBetween(i, j) = MissesOf(output, i, j)
    BY DEF MissesBetween, MissesOf
  <2>4. LruStackDistance
    <3> SUFFICES ASSUME policy = "LRU", NEW i \in 1 .. Lines
                 PROVE  output[i] = "HIT" <=>
                          \E j \in Earlier(i) :
                            Cardinality({input[k] : k \in j + 1 .. i - 1}) < maxsize
      BY <2>1 DEF LruStackDistance
    <3>1. LruAnswer(input, output, maxsize, i)
      BY DEF AnswersInv
    <3>2. \A j : j \in Earlier(i) <=> j \in 1 .. i - 1 /\ input[j] = input[i]
      BY DEF Earlier
    <3> QED
      BY <3>1, <3>2 DEF LruAnswer, PagesOf
  <2>5. FifoResidency
    BY <2>1, <2>2 DEF AnswersInv, FifoAnswer, FifoResidency, Earlier
  <2>6. ClockResidency
    BY <2>1, <2>2 DEF AnswersInv, ClockAnswer, ClockResidency, Earlier
  <2> QED
    BY <2>4, <2>5, <2>6 DEF HitsOfPolicy
<1> QED
  BY <1>1, <1>2, <1>3, TypeInit, InitHistory, PTL DEF Spec

\* Every turn of the sweep that does not end it leaves fewer pages for the hand to pass
\* over, so that a line is answered even when all pages were referenced.
THEOREM SweepsShrink == Spec => SweepEnds
<1>1. ASSUME TypeInv, Next, status = "inserting"
      PROVE  status' = "reading" \/ (Referenced' \subseteq Referenced /\ Referenced' # Referenced)
  <2>1. CASE ClockSweep
    <3>1. SetsBit(clockpointer + 1, 0) /\ cachelist[clockpointer + 1].bit = 1
          /\ cachelist' \in Seq(Node)
      BY <1>1, <2>1, ClockSweepShape
    <3>2. /\ DOMAIN cachelist = 1 .. Len(cachelist) /\ DOMAIN cachelist' = 1 .. Len(cachelist')
          /\ Len(cachelist') = Len(cachelist)
      BY <1>1, <3>1, ListFacts DEF SetsBit
    <3>3. \A p \in 1 .. Len(cachelist) : cachelist'[p].bit = 1 => cachelist[p].bit = 1
      BY <3>1 DEF SetsBit
    <3>4. clockpointer + 1 \in Referenced /\ clockpointer + 1 \in 1 .. Len(cachelist)
      BY <3>1, <3>2 DEF SetsBit, Referenced
    <3>5. \A p : p = clockpointer + 1 => p \notin Referenced'
      BY <3>1 DEF SetsBit, Referenced
    <3>6. Referenced' \subseteq Referenced
      BY <3>2, <3>3 DEF Referenced
    <3> QED
      BY <3>4, <3>5, <3>6
  <2>2. CASE FifoHit \/ LruHit \/ ListMiss \/ ClockHit \/ ClockReplace \/ ClockFill
    BY <2>2 DEF FifoHit, LruHit, ListMiss, ClockHit, ClockReplace, ClockFill, Answer
  <2> QED
    BY <1>1, <2>1, <2>2
    DEF Next, Options, ParseOption, TurnInPlace, OptionsParsed, ReadLine, EndOfFile, Insert
<1>2. TypeInv /\ [Next]_vars =>
        [status = "inserting" =>
           status' = "reading" \/ (Referenced' \subseteq Referenced /\ Referenced' # Referenced)]_vars
  BY <1>1
<1> QED
  BY <1>2, TypeInvariant, PTL DEF Spec, SweepEnds

-----------------------------------------------------------------------------
(***************************************************************************)
(* The lists implement the queue of the policy.  The state of the queue,   *)
(* by the names of PolicySpec, and what the steps of the lists do to it.   *)
(***************************************************************************)

Refs == {cachelist[i].uri : i \in Referenced}
Pending == IF status = "inserting" THEN element ELSE NoUri
Closed == status \in {"done", "refused"}

\* The slot of the i-th page in the order of eviction.
Slot(i) ==
  IF clockpointer + i <= Len(cachelist) THEN clockpointer + i
                                        ELSE clockpointer + i - Len(cachelist)

OrderShape ==
  /\ EvictionOrder \in Seq(Uris)
  /\ Len(EvictionOrder) = Len(cachelist)
  /\ \A i \in 1 .. Len(cachelist) :
       Slot(i) \in 1 .. Len(cachelist) /\ EvictionOrder[i] = cachelist[Slot(i)].uri
  /\ \A p \in 1 .. Len(cachelist) : \E i \in 1 .. Len(cachelist) : Slot(i) = p

\* The hand of the clock points into a list that is not empty.
LEMMA HandPlace ==
  ASSUME TypeInv
  PROVE  Len(cachelist) > 0 => clockpointer < Len(cachelist)
<1>1. /\ Len(cachelist) \in Nat /\ maxsize \in Nat \ {0} /\ clockpointer \in 0 .. maxsize - 1
  BY ListFacts
<1>2. ~Full => (clockpointer = 0 \/ status = "done")
  BY DEF TypeInv, ListsInv
<1>3. status = "done" => Len(cachelist) = 0
  BY DEF TypeInv, ListsInv
<1> QED
  BY <1>1, <1>2, <1>3 DEF Full

\* The remainder that EvictionOrder takes is one subtraction.
LEMMA Rotation ==
  ASSUME NEW n \in Nat \ {0}, NEW c \in 0 .. n - 1, NEW i \in 1 .. n
  PROVE  ((c + i - 1) % n) + 1 = IF c + i <= n THEN c + i ELSE c + i - n
<1>1. CASE c + i <= n
  <2>1. c + i - 1 \in 0 .. n - 1
    BY <1>1
  <2>2. (c + i - 1) % n = c + i - 1
    BY <2>1
  <2> QED
    BY <1>1, <2>2
<1>2. CASE ~(c + i <= n)
  <2>1. c + i - 1 - n \in 0 .. n - 1 /\ c + i - 1 = n + (c + i - 1 - n)
    BY <1>2
  <2>2. \A x \in 0 .. n - 1 : (n + x) % n = x
    OBVIOUS
  <2>3. (c + i - 1) % n = c + i - 1 - n
    BY <2>1, <2>2
  <2> QED
    BY <1>2, <2>3
<1> QED
  BY <1>1, <1>2

\* The order of eviction is well formed whatever the policy.
LEMMA Ordered == TypeInv => OrderShape
<1> SUFFICES ASSUME TypeInv PROVE OrderShape
  OBVIOUS
<1>1. /\ Len(cachelist) \in Nat /\ clockpointer \in Nat
      /\ \A i \in 1 .. Len(cachelist) : cachelist[i].uri \in Uris
  BY ListFacts
<1>2. ASSUME NEW i \in 1 .. Len(cachelist)
      PROVE  /\ Slot(i) \in 1 .. Len(cachelist)
             /\ ((clockpointer + i - 1) % Len(cachelist)) + 1 = Slot(i)
  <2>1. Len(cachelist) \in Nat \ {0} /\ clockpointer \in 0 .. Len(cachelist) - 1
    BY <1>1, HandPlace
  <2>2. ((clockpointer + i - 1) % Len(cachelist)) + 1 = Slot(i)
    BY <2>1, Rotation, Zenon DEF Slot
  <2>3. Slot(i) \in 1 .. Len(cachelist)
    BY <2>1 DEF Slot
  <2> QED
    BY <2>2, <2>3
<1>3. EvictionOrder = [i \in 1 .. Len(cachelist) |-> cachelist[Slot(i)].uri]
  BY <1>2 DEF EvictionOrder
<1>4. \A i \in 1 .. Len(cachelist) : cachelist[Slot(i)].uri \in Uris
  BY <1>1, <1>2
<1>5. ASSUME NEW p \in 1 .. Len(cachelist)
      PROVE  \E i \in 1 .. Len(cachelist) : Slot(i) = p
  <2>1. clockpointer < Len(cachelist)
    BY <1>1, HandPlace
  <2>2. CASE p > clockpointer
    <3>1. p - clockpointer \in 1 .. Len(cachelist) /\ Slot(p - clockpointer) = p
      BY <1>1, <2>1, <2>2 DEF Slot
    <3> QED
      BY <3>1
  <2>3. CASE ~(p > clockpointer)
    <3>1. p - clockpointer + Len(cachelist) \in 1 .. Len(cachelist)
          /\ Slot(p - clockpointer + Len(cachelist)) = p
      BY <1>1, <2>1, <2>3 DEF Slot
    <3> QED
      BY <3>1
  <2> QED
    BY <2>2, <2>3
<1> QED
  BY <1>1, <1>2, <1>3, <1>4, <1>5 DEF OrderShape

\* The pages of the queue are those of the list, and the referenced ones those with a
\* bit, which only the clock sets.
RefsShape ==
  /\ \A u : u \in Policy!Resident <=> contains(u, cachelist)
  /\ \A u : u \in Refs <=> \E p \in 1 .. Len(cachelist) : cachelist[p].uri = u /\ cachelist[p].bit = 1
  /\ policy # "CLOCK" => Refs = {}

\* So are the pages whose second chance is pending.
LEMMA Referring == TypeInv => RefsShape
<1> SUFFICES ASSUME TypeInv PROVE RefsShape
  OBVIOUS
<1>1. /\ Len(cachelist) \in Nat /\ DOMAIN cachelist = 1 .. Len(cachelist)
      /\ \A u : contains(u, cachelist) <=> \E i \in 1 .. Len(cachelist) : cachelist[i].uri = u
  BY ListFacts
<1>2. OrderShape
  BY Ordered
<1>3. ASSUME NEW u PROVE u \in Policy!Resident <=> contains(u, cachelist)
  <2>1. u \in Policy!Resident <=> \E i \in 1 .. Len(cachelist) : EvictionOrder[i] = u
    BY <1>2, Zenon DEF OrderShape, Policy!Resident
  <2>2. (\E i \in 1 .. Len(cachelist) : EvictionOrder[i] = u)
          <=> \E p \in 1 .. Len(cachelist) : cachelist[p].uri = u
    BY <1>2, ZenonT(60) DEF OrderShape
  <2> QED
    BY <1>1, <2>1, <2>2
<1>4. ASSUME NEW u
      PROVE  u \in Refs <=> \E p \in 1 .. Len(cachelist) : cachelist[p].uri = u /\ cachelist[p].bit = 1
  BY <1>1 DEF Refs, Referenced
<1>5. policy # "CLOCK" => Refs = {}
  BY <1>1, <1>4 DEF TypeInv, ListsInv
<1> QED
  BY <1>3, <1>4, <1>5 DEF RefsShape

\* A step that leaves the pages and the hand leaves the queue.
LEMMA OrderStays ==
  ASSUME OrderShape, OrderShape', Len(cachelist) \in Nat,
         UNCHANGED clockpointer, Len(cachelist') = Len(cachelist),
         \A p \in 1 .. Len(cachelist) : cachelist'[p].uri = cachelist[p].uri
  PROVE  EvictionOrder' = EvictionOrder
<1>1. \A i : Slot(i)' = Slot(i)
  BY DEF Slot
<1>2. ASSUME NEW i \in 1 .. Len(cachelist) PROVE EvictionOrder'[i] = EvictionOrder[i]
  BY <1>1 DEF OrderShape
<1>3. EvictionOrder \in Seq(Uris) /\ EvictionOrder' \in Seq(Uris)
      /\ Len(EvictionOrder) = Len(cachelist) /\ Len(EvictionOrder') = Len(cachelist)
  BY DEF OrderShape
<1> QED
  BY <1>2, <1>3, SeqEqual

\* A page pushed to a list whose hand rests at 0 comes last in the queue.
LEMMA OrderAppends ==
  ASSUME OrderShape, OrderShape', Len(cachelist) \in Nat,
         clockpointer = 0, UNCHANGED clockpointer, NEW u \in Uris, Grows(u)
  PROVE  EvictionOrder' = Append(EvictionOrder, u)
<1>1. /\ EvictionOrder \in Seq(Uris) /\ EvictionOrder' \in Seq(Uris)
      /\ Len(EvictionOrder) = Len(cachelist) /\ Len(EvictionOrder') = Len(cachelist) + 1
  BY DEF OrderShape, Grows
<1>2. /\ Append(EvictionOrder, u) \in Seq(Uris)
      /\ Len(Append(EvictionOrder, u)) = Len(cachelist) + 1
      /\ \A i \in 1 .. Len(cachelist) : Append(EvictionOrder, u)[i] = EvictionOrder[i]
      /\ Append(EvictionOrder, u)[Len(cachelist) + 1] = u
  BY <1>1, AppendProperties
<1>3. \A i \in 1 .. Len(cachelist) : Slot(i) = i
  BY DEF Slot
<1>4. \A i \in 1 .. Len(cachelist) + 1 : Slot(i)' = i
  BY DEF Slot, Grows
<1>5. ASSUME NEW i \in 1 .. Len(cachelist) + 1
      PROVE  EvictionOrder'[i] = Append(EvictionOrder, u)[i]
  <2>1. EvictionOrder'[i] = cachelist'[i].uri
    BY <1>4 DEF OrderShape, Grows
  <2>2. CASE i = Len(cachelist) + 1
    BY <1>2, <2>1, <2>2 DEF Grows
  <2>3. CASE i # Len(cachelist) + 1
    <3>1. i \in 1 .. Len(cachelist)
      BY <2>3
    <3>2. EvictionOrder[i] = cachelist[i].uri
      BY <1>3, <3>1 DEF OrderShape
    <3> QED
      BY <1>2, <2>1, <3>1, <3>2 DEF Grows
  <2> QED
    BY <2>2, <2>3
<1> QED
  BY <1>1, <1>2, <1>5, SeqEqual

\* A page that replaces the one next to be evicted comes last in the queue: in a list
\* whose hand rests at 0, or under a hand that turns.
LEMMA OrderSlides ==
  ASSUME OrderShape, OrderShape', NEW n \in Nat \ {0}, Len(cachelist) = n, Len(cachelist') = n,
         NEW u \in Uris,
         \A i \in 1 .. n - 1 : cachelist'[Slot(i)'].uri = cachelist[Slot(i + 1)].uri,
         \A s : s = Slot(n)' => cachelist'[s].uri = u
  PROVE  EvictionOrder # <<>> /\ EvictionOrder' = Append(Tail(EvictionOrder), u)
<1>1. /\ EvictionOrder \in Seq(Uris) /\ EvictionOrder' \in Seq(Uris)
      /\ Len(EvictionOrder) = n /\ Len(EvictionOrder') = n
  BY DEF OrderShape
<1>2. EvictionOrder # <<>>
  BY <1>1
<1> DEFINE rest == Tail(EvictionOrder)
<1>3. /\ rest \in Seq(Uris) /\ Len(rest) = n - 1
      /\ \A i \in 1 .. n - 1 : rest[i] = EvictionOrder[i + 1]
  BY <1>1, <1>2, HeadTailProperties
<1> HIDE DEF rest
<1>4. /\ Append(rest, u) \in Seq(Uris) /\ Len(Append(rest, u)) = Len(rest) + 1
      /\ \A i \in 1 .. Len(rest) : Append(rest, u)[i] = rest[i]
      /\ Append(rest, u)[Len(rest) + 1] = u
  BY <1>3, AppendProperties
<1>5. Len(Append(rest, u)) = n /\ Append(rest, u)[n] = u
  <2>1. n - 1 + 1 = n
    OBVIOUS
  <2> QED
    BY <1>3, <1>4, <2>1
<1>6. ASSUME NEW i \in 1 .. n PROVE EvictionOrder'[i] = Append(rest, u)[i]
  <2>1. EvictionOrder'[i] = cachelist'[Slot(i)'].uri
    BY DEF OrderShape
  <2>2. CASE i = n
    BY <1>5, <2>1, <2>2
  <2>3. CASE i # n
    <3>1. i \in 1 .. n - 1 /\ i + 1 \in 1 .. n
      BY <2>3
    <3>2. EvictionOrder[i + 1] = cachelist[Slot(i + 1)].uri
      BY <3>1 DEF OrderShape
    <3> QED
      BY <1>3, <1>4, <2>1, <3>1, <3>2
  <2> QED
    BY <2>2, <2>3
<1>7. EvictionOrder' = Append(rest, u)
  BY <1>1, <1>4, <1>5, <1>6, SeqEqual
<1> QED
  BY <1>2, <1>7 DEF rest

\* The hand passes the head of the queue, whose node holds u now.
LEMMA OrderTurns ==
  ASSUME TypeInv, OrderShape, OrderShape', Full, UNCHANGED maxsize,
         clockpointer' = NextPointer, NEW u \in Uris,
         Len(cachelist') = Len(cachelist),
         \A p \in 1 .. Len(cachelist) : p # clockpointer + 1 => cachelist'[p].uri = cachelist[p].uri,
         cachelist'[clockpointer + 1].uri = u
  PROVE  EvictionOrder # <<>> /\ EvictionOrder' = Append(Tail(EvictionOrder), u)
<1> DEFINE n == Len(cachelist)
<1>1. n \in Nat \ {0} /\ clockpointer \in 0 .. n - 1 /\ maxsize = n
  BY ListFacts DEF Full
<1>2. clockpointer' = IF clockpointer + 1 = n THEN 0 ELSE clockpointer + 1
  BY <1>1, HandTurns
<1>3. ASSUME NEW i \in 1 .. n - 1
      PROVE  Slot(i)' = Slot(i + 1) /\ Slot(i + 1) \in 1 .. n /\ Slot(i + 1) # clockpointer + 1
  BY <1>1, <1>2 DEF Slot
<1>4. ASSUME NEW s, s = Slot(n)' PROVE cachelist'[s].uri = u
  <2>1. s = IF clockpointer' + n <= n THEN clockpointer' + n ELSE clockpointer' + n - n
    BY <1>4 DEF Slot
  <2>2. s = clockpointer + 1
    BY <1>1, <1>2, <2>1
  <2> QED
    BY <2>2
<1>5. \A i \in 1 .. n - 1 : cachelist'[Slot(i)'].uri = cachelist[Slot(i + 1)].uri
  BY <1>3
<1> QED
  BY <1>1, <1>4, <1>5, OrderSlides

\* A page that moves to the end of a list whose hand rests at 0 comes last in the queue.
LEMMA OrderMoves ==
  ASSUME OrderShape, OrderShape', Len(cachelist) \in Nat,
         clockpointer = 0, UNCHANGED clockpointer, NEW u \in Uris, NEW f \in Int, MovesUp(u, f)
  PROVE  /\ f \in 1 .. Len(EvictionOrder) /\ EvictionOrder[f] = u
         /\ EvictionOrder' = Append(RemoveAt(EvictionOrder, f), u)
<1> DEFINE n == Len(cachelist)
           rest == RemoveAt(EvictionOrder, f)
<1>1. /\ EvictionOrder \in Seq(Uris) /\ EvictionOrder' \in Seq(Uris)
      /\ Len(EvictionOrder) = n /\ Len(EvictionOrder') = n /\ f \in 1 .. n /\ n \in Nat
  BY DEF OrderShape, MovesUp
<1>2. \A i \in 1 .. n : Slot(i) = i /\ Slot(i)' = i
  BY DEF Slot, MovesUp
<1>3. \A i \in 1 .. n : EvictionOrder[i] = cachelist[i].uri /\ EvictionOrder'[i] = cachelist'[i].uri
  <2>1. \A i \in 1 .. n : EvictionOrder[i] = cachelist[i].uri
    BY <1>2 DEF OrderShape
  <2>2. \A i \in 1 .. n : EvictionOrder'[i] = cachelist'[i].uri
    BY <1>1, <1>2, SMTT(40) DEF OrderShape, MovesUp
  <2> QED
    BY <2>1, <2>2
<1>4. EvictionOrder[f] = u
  BY <1>1, <1>3 DEF MovesUp
<1>5. /\ rest \in Seq(Uris) /\ Len(rest) = n - 1
      /\ \A i \in 1 .. n - 1 : rest[i] = IF i < f THEN EvictionOrder[i] ELSE EvictionOrder[i + 1]
  BY <1>1, Removed
<1> HIDE DEF rest
<1>6. /\ Append(rest, u) \in Seq(Uris) /\ Len(Append(rest, u)) = Len(rest) + 1
      /\ \A i \in 1 .. Len(rest) : Append(rest, u)[i] = rest[i]
      /\ Append(rest, u)[Len(rest) + 1] = u
  BY <1>5, AppendProperties
<1>7. Len(Append(rest, u)) = n /\ Append(rest, u)[n] = u
  <2>1. n - 1 + 1 = n
    BY <1>1
  <2> QED
    BY <1>5, <1>6, <2>1
<1>8. ASSUME NEW i \in 1 .. n PROVE EvictionOrder'[i] = Append(rest, u)[i]
  <2>1. CASE i = n
    BY <1>3, <1>7, <2>1 DEF MovesUp
  <2>2. CASE i # n
    <3>1. i \in 1 .. n - 1 /\ i \in 1 .. n /\ i + 1 \in 1 .. n
      BY <1>1, <2>2
    <3>2. Append(rest, u)[i] = rest[i]
      BY <1>5, <1>6, <3>1
    <3>3. cachelist'[i] = IF i < f THEN cachelist[i] ELSE cachelist[i + 1]
      BY <3>1 DEF MovesUp
    <3>4. rest[i] = IF i < f THEN EvictionOrder[i] ELSE EvictionOrder[i + 1]
      BY <1>5, <3>1
    <3>5. CASE i < f
      BY <1>3, <3>1, <3>2, <3>3, <3>4, <3>5
    <3>6. CASE ~(i < f)
      BY <1>3, <3>1, <3>2, <3>3, <3>4, <3>6
    <3> QED
      BY <3>5, <3>6
  <2> QED
    BY <2>1, <2>2
<1>9. EvictionOrder' = Append(rest, u)
  BY <1>1, <1>6, <1>7, <1>8, SeqEqual
<1> QED
  BY <1>1, <1>4, <1>9 DEF rest

\* The program is open while it reads lines, and a request pends while one is inserted.
LEMMA Requesting ==
  ASSUME TypeInv, status = "inserting"
  PROVE  Pending = element /\ element \in Uris /\ element # NoUri /\ ~Closed
  BY Element, NoUriAssumption DEF Pending, Closed

\* An answer ends the pending request of the policy.
LEMMA Answering ==
  ASSUME TypeInv, status = "inserting", NEW a \in {"HIT", "MISS"}, Answer(a)
  PROVE  /\ Pending' = NoUri
         /\ output' = Append(output, a)
         /\ UNCHANGED <<policy, maxsize, Closed>>
  BY DEF Answer, Pending, Closed, options

\* A hit of each policy is a hit of the queue.
LEMMA HitRefines ==
  ASSUME TypeInv, TypeInv', OrderShape, OrderShape', RefsShape, RefsShape',
         FifoHit \/ LruHit \/ ClockHit
  PROVE  Policy!Hit
<1>1. Hits /\ status = "inserting" /\ Answer("HIT") /\ contains(element, cachelist)
  BY HitSteps DEF Hits
<1>2. Pending = element /\ element \in Uris
  BY <1>1, Requesting
<1>3. Pending' = NoUri /\ output' = Append(output, "HIT") /\ UNCHANGED <<policy, maxsize, Closed>>
  BY <1>1, Answering
<1>4. Pending \in Policy!Resident
  BY <1>1, <1>2 DEF RefsShape
<1>5. /\ Len(cachelist) \in Nat
      /\ \A i, j \in 1 .. Len(cachelist) : cachelist[i].uri = cachelist[j].uri => i = j
  BY ListFacts
<1>6. \/ policy = "FIFO" /\ EvictionOrder' = EvictionOrder /\ Refs' = Refs
      \/ /\ policy = "LRU"
         /\ \E i \in DOMAIN EvictionOrder :
              EvictionOrder[i] = Pending
              /\ EvictionOrder' = Append(RemoveAt(EvictionOrder, i), Pending)
         /\ Refs' = Refs
      \/ policy = "CLOCK" /\ Refs' = Refs \cup {Pending} /\ EvictionOrder' = EvictionOrder
  <2>1. CASE FifoHit
    <3>1. policy = "FIFO" /\ UNCHANGED <<cachelist, clockpointer>>
      BY <2>1 DEF FifoHit, Inserting, cache
    <3> QED
      BY <3>1 DEF EvictionOrder, Refs, Referenced
  <2>2. CASE LruHit
    <3>1. policy = "LRU" /\ policy' = "LRU" /\ UNCHANGED clockpointer
      BY <1>3, <2>2 DEF LruHit, Inserting, OnlyTheList
    <3>2. PICK f \in 1 .. Len(cachelist) : MovesUp(element, f)
      BY <2>2, LruHitShape
    <3>3. clockpointer = 0 /\ f \in Int
      BY <1>1, <1>5, <3>1 DEF TypeInv, ListsInv
    <3>4. /\ f \in 1 .. Len(EvictionOrder) /\ EvictionOrder[f] = element
          /\ EvictionOrder' = Append(RemoveAt(EvictionOrder, f), element)
      BY <1>2, <1>5, <3>1, <3>2, <3>3, OrderMoves
    <3>5. Refs = {} /\ Refs' = {}
      BY <3>1 DEF RefsShape
    <3>6. f \in DOMAIN EvictionOrder
      BY <3>4 DEF OrderShape
    <3> QED
      BY <1>2, <3>1, <3>4, <3>5, <3>6
  <2>3. CASE ClockHit
    <3>1. policy = "CLOCK" /\ UNCHANGED clockpointer
      BY <2>3 DEF ClockHit, Inserting, OnlyTheList
    <3>2. PICK f \in 1 .. Len(cachelist) : SetsBit(f, 1) /\ cachelist[f].uri = element
      BY <2>3, ClockHitShape
    <3>3. /\ Len(cachelist') = Len(cachelist)
          /\ \A p \in 1 .. Len(cachelist) : cachelist'[p].uri = cachelist[p].uri
          /\ \A p \in 1 .. Len(cachelist) : p # f => cachelist'[p].bit = cachelist[p].bit
          /\ cachelist'[f].bit = 1
      BY <3>2 DEF SetsBit
    <3>4. EvictionOrder' = EvictionOrder
      BY <1>5, <3>1, <3>3, OrderStays
    <3>5. Refs' = Refs \cup {element}
      BY <3>2, <3>3 DEF RefsShape
    <3> QED
      BY <1>2, <3>1, <3>4, <3>5
  <2> QED
    BY <2>1, <2>2, <2>3
<1>7. \A s, i : Policy!RemoveAt(s, i) = RemoveAt(s, i)
  BY DEF RemoveAt, Policy!RemoveAt
<1>8. Policy!Answered("HIT")
  BY <1>3, Zenon DEF Policy!Answered, Pending, Closed
<1> QED
  BY <1>4, <1>6, <1>7, <1>8, Zenon DEF Policy!Hit, Refs, Pending

\* The head of the queue is the page under the hand.
LEMMA HeadUnderHand ==
  ASSUME TypeInv, OrderShape, Full
  PROVE  Head(EvictionOrder) = cachelist[clockpointer + 1].uri
<1>1. Len(cachelist) \in Nat \ {0} /\ clockpointer \in 0 .. Len(cachelist) - 1
  BY ListFacts DEF Full
<1>2. Slot(1) = clockpointer + 1 /\ 1 \in 1 .. Len(cachelist)
  BY <1>1 DEF Slot
<1>3. EvictionOrder[1] = cachelist[clockpointer + 1].uri
  BY <1>2 DEF OrderShape
<1>4. Head(EvictionOrder) = EvictionOrder[1]
  BY <1>1 DEF OrderShape
<1> QED
  BY <1>3, <1>4

\* A miss of each policy is a miss of the queue.
LEMMA MissRefines ==
  ASSUME TypeInv, TypeInv', OrderShape, OrderShape', RefsShape, RefsShape',
         ListMiss \/ ClockReplace \/ ClockFill
  PROVE  Policy!Miss
<1>1. /\ status = "inserting" /\ Answer("MISS") /\ ~contains(element, cachelist)
      /\ ~Full => Grows(element)
  BY MissSteps DEF Misses
<1>2. Pending = element /\ element \in Uris /\ element # NoUri
  BY <1>1, Requesting
<1>3. Pending' = NoUri /\ output' = Append(output, "MISS") /\ UNCHANGED <<policy, maxsize, Closed>>
  BY <1>1, Answering
<1>4. Pending \notin Policy!Resident \cup {NoUri}
  BY <1>1, <1>2 DEF RefsShape
<1>5. /\ Len(cachelist) \in Nat /\ maxsize \in Nat \ {0} /\ Len(cachelist) <= maxsize
      /\ \A i, j \in 1 .. Len(cachelist) : cachelist[i].uri = cachelist[j].uri => i = j
      /\ clockpointer \in 0 .. maxsize - 1
  BY ListFacts
<1>6. Len(EvictionOrder) = Len(cachelist)
  BY DEF OrderShape
<1>7. ASSUME ~Full
      PROVE  Len(EvictionOrder) < maxsize /\ EvictionOrder' = Append(EvictionOrder, Pending)
             /\ Refs' = Refs
  <2>1. UNCHANGED clockpointer
    BY <1>7 DEF ListMiss, ClockReplace, ClockFill
  <2>2. clockpointer = 0
    BY <1>1, <1>7 DEF TypeInv, ListsInv
  <2>3. EvictionOrder' = Append(EvictionOrder, element)
    BY <1>1, <1>2, <1>5, <1>7, <2>1, <2>2, OrderAppends
  <2>4. /\ Len(cachelist') = Len(cachelist) + 1
        /\ \A i \in 1 .. Len(cachelist) : cachelist'[i] = cachelist[i]
        /\ cachelist'[Len(cachelist) + 1].bit = 0
    BY <1>1, <1>7 DEF Grows
  <2>5. \A u : u \in Refs' <=> u \in Refs
    BY <1>5, <2>4 DEF RefsShape
  <2>6. Refs' = Refs
    BY <2>5 DEF Refs
  <2> QED
    BY <1>2, <1>5, <1>6, <1>7, <2>3, <2>6 DEF Full
<1>8. ASSUME Full
      PROVE  /\ Len(EvictionOrder) = maxsize
             /\ Head(EvictionOrder) \notin Refs
             /\ EvictionOrder' = Append(Tail(EvictionOrder), Pending)
             /\ Refs' = Refs
  <2>1. CASE ListMiss
    <3>1. policy # "CLOCK" /\ policy' # "CLOCK" /\ UNCHANGED clockpointer /\ clockpointer = 0
          /\ cachelist' = pushlist(element, MakeRoom(cachelist))
      BY <1>1, <1>3, <2>1 DEF ListMiss, Inserting, TypeInv, ListsInv
    <3>2. Slides(element)
      BY <1>1, <1>8, <3>1, MissShape
    <3>3. Refs = {} /\ Refs' = {}
      BY <3>1 DEF RefsShape
    <3> DEFINE n == Len(cachelist)
    <3>4. n \in Nat \ {0} /\ Len(cachelist') = n
      BY <1>5, <1>8, <3>2 DEF Full, Slides
    <3>5. \A i \in 1 .. n : Slot(i) = i /\ Slot(i)' = i
      BY <3>1, <3>4 DEF Slot
    <3>6. ASSUME NEW i \in 1 .. n - 1
          PROVE  cachelist'[Slot(i)'].uri = cachelist[Slot(i + 1)].uri
      <4>1. Slot(i)' = i /\ Slot(i + 1) = i + 1
        BY <3>4, <3>5
      <4> QED
        BY <3>2, <4>1 DEF Slides
    <3>7. ASSUME NEW s, s = Slot(n)' PROVE cachelist'[s].uri = element
      <4>1. s = IF clockpointer' + n <= n THEN clockpointer' + n ELSE clockpointer' + n - n
        BY <3>4, <3>7 DEF Slot
      <4>2. s = n
        BY <3>1, <3>4, <4>1
      <4> QED
        BY <3>2, <4>2 DEF Slides
    <3>8. EvictionOrder' = Append(Tail(EvictionOrder), element)
      BY <1>2, <3>4, <3>6, <3>7, OrderSlides
    <3> QED
      BY <1>2, <1>6, <1>8, <3>3, <3>8 DEF Full
  <2>2. CASE ClockReplace
    <3>1. Replaces(clockpointer + 1, element) /\ cachelist[clockpointer + 1].bit = 0
      BY <2>2, ClockReplaceShape
    <3>2. UNCHANGED maxsize /\ clockpointer' = NextPointer
      BY <1>3, <2>2 DEF ClockReplace
    <3>3. /\ Len(cachelist') = Len(cachelist)
          /\ \A p \in 1 .. Len(cachelist) : p # clockpointer + 1 => cachelist'[p] = cachelist[p]
          /\ cachelist'[clockpointer + 1].uri = element /\ cachelist'[clockpointer + 1].bit = 0
          /\ clockpointer + 1 \in 1 .. Len(cachelist)
      BY <3>1 DEF Replaces
    <3>4. EvictionOrder' = Append(Tail(EvictionOrder), element)
      BY <1>2, <1>8, <3>2, <3>3, OrderTurns
    <3>5. Head(EvictionOrder) \notin Refs
      <4>1. Head(EvictionOrder) = cachelist[clockpointer + 1].uri
        BY <1>8, HeadUnderHand
      <4> QED
        BY <1>5, <3>1, <3>3, <4>1 DEF RefsShape
    <3>6. \A u : u \in Refs' <=> u \in Refs
      BY <3>1, <3>3 DEF RefsShape
    <3>7. Refs' = Refs
      BY <3>6 DEF Refs
    <3> QED
      BY <1>2, <1>6, <1>8, <3>4, <3>5, <3>7 DEF Full
  <2>3. CASE ClockFill
    BY <1>8, <2>3 DEF ClockFill
  <2> QED
    BY <2>1, <2>2, <2>3
<1>9. Policy!Answered("MISS")
  BY <1>3, Zenon DEF Policy!Answered, Pending, Closed
<1> QED
  BY <1>4, <1>7, <1>8, <1>9, Zenon DEF Policy!Miss, Refs, Pending

\* A turn of the sweep is a second chance.
LEMMA SweepRefines ==
  ASSUME TypeInv, TypeInv', OrderShape, OrderShape', RefsShape, RefsShape', ClockSweep
  PROVE  Policy!SecondChance
<1>1. /\ status = "inserting" /\ ~contains(element, cachelist) /\ Full
      /\ UNCHANGED <<policy, maxsize, status, input, output>> /\ clockpointer' = NextPointer
  BY DEF ClockSweep, Inserting, options
<1>2. Pending = element /\ element \in Uris /\ element # NoUri
  BY <1>1, Requesting
<1>3. Pending' = Pending /\ Closed' = Closed
  BY <1>1 DEF Pending, Closed, element
<1>4. Pending \notin Policy!Resident \cup {NoUri}
  BY <1>1, <1>2 DEF RefsShape
<1>5. SetsBit(clockpointer + 1, 0) /\ cachelist[clockpointer + 1].bit = 1
  BY ClockSweepShape
<1>6. /\ Len(cachelist) \in Nat
      /\ \A i, j \in 1 .. Len(cachelist) : cachelist[i].uri = cachelist[j].uri => i = j
      /\ \A i \in 1 .. Len(cachelist) : cachelist[i].uri \in Uris
  BY ListFacts
<1>7. /\ Len(cachelist') = Len(cachelist) /\ clockpointer + 1 \in 1 .. Len(cachelist)
      /\ \A p \in 1 .. Len(cachelist) : cachelist'[p].uri = cachelist[p].uri
      /\ \A p \in 1 .. Len(cachelist) : p # clockpointer + 1 => cachelist'[p] = cachelist[p]
      /\ cachelist'[clockpointer + 1].bit = 0
  BY <1>5 DEF SetsBit
<1> DEFINE h == cachelist[clockpointer + 1].uri
<1>8. Head(EvictionOrder) = h /\ h \in Uris
  BY <1>1, <1>6, <1>7, HeadUnderHand
<1>9. EvictionOrder' = Append(Tail(EvictionOrder), h)
  BY <1>1, <1>7, <1>8, OrderTurns
<1>10. h \in Refs
  BY <1>5, <1>7 DEF RefsShape
<1>11. \A u : u \in Refs' <=> u \in Refs \ {h}
  BY <1>6, <1>7 DEF RefsShape
<1> HIDE DEF h
<1>12. Refs' = Refs \ {h}
  BY <1>11 DEF Refs
<1>13. Len(EvictionOrder) = maxsize
  BY <1>1 DEF OrderShape, Full
<1> QED
  BY <1>1, <1>3, <1>4, <1>8, <1>9, <1>10, <1>12, <1>13, Zenon
  DEF Policy!SecondChance, Refs, Pending, Closed

\* Outside of an insert no request pends, and an empty list is an empty queue.
LEMMA EmptyQueue ==
  ASSUME TypeInv, OrderShape, RefsShape, cachelist = << >>
  PROVE  EvictionOrder = << >> /\ Refs = {}
<1>1. Len(cachelist) = 0
  OBVIOUS
<1>2. EvictionOrder = << >>
  BY <1>1 DEF OrderShape
<1>3. \A u : u \notin Refs
  BY <1>1 DEF RefsShape
<1> QED
  BY <1>2, <1>3

\* The options configure the queue or, when they are refused, close it.
LEMMA OptionRefines ==
  ASSUME TypeInv, TypeInv', OrderShape, OrderShape', RefsShape, RefsShape', ParseOption
  PROVE  Policy!Configure \/ Policy!Close
<1>1. /\ status = "options" /\ status' \in {"options", "refused"}
      /\ UNCHANGED <<cachelist, output>>
  BY DEF ParseOption, cache
<1>2. output = << >> /\ cachelist = << >>
  <2>1. output = << >>
    BY <1>1 DEF TypeInv, StreamsInv
  <2>2. Len(cachelist) = 0
    BY <2>1, ListFacts DEF TypeInv, ListsInv, Lines
  <2> QED
    BY <2>1, <2>2, ListFacts DEF TypeInv, ListsInv
<1>3. EvictionOrder = << >> /\ Refs = {} /\ EvictionOrder' = << >> /\ Refs' = {}
  <2>1. EvictionOrder = << >> /\ Refs = {}
    BY <1>2, EmptyQueue
  <2>2. cachelist' = << >> /\ Len(cachelist') = 0
    BY <1>1, <1>2
  <2>3. EvictionOrder' = << >>
    BY <2>2 DEF OrderShape
  <2>4. \A u : u \notin Refs'
    BY <2>2 DEF RefsShape
  <2> QED
    BY <2>1, <2>3, <2>4
<1>4. Pending = NoUri /\ Pending' = NoUri /\ ~Closed /\ (Closed' <=> status' = "refused")
  BY <1>1 DEF Pending, Closed
<1>5. policy' \in {"FIFO", "LRU", "CLOCK"} /\ maxsize' \in Nat \ {0}
  BY DEF TypeInv, ScalarsInv
<1>6. CASE status' = "refused"
  <2>1. Head(args).opt = "?" \/ (Head(args).opt = "N" /\ Head(args).n <= 0)
    BY <1>1, <1>6 DEF ParseOption
  <2>2. Head(args).n \in Int
    <3>1. Head(args) \in Option
      <4>1. args \in Seq(Option) /\ args # << >>
        BY DEF ParseOption, TypeInv, ScalarsInv
      <4> QED
        BY <4>1, HeadTailProperties
    <3>2. \A o \in [opt : {"N"}, n : Numbers, words : {2}] : o.n \in Int
      BY NumbersAssumption
    <3>3. \A o \in [opt : {"F", "L", "C", "?"}, n : {0}, words : {1}] : o.n \in Int
      OBVIOUS
    <3> QED
      BY <3>1, <3>2, <3>3, Zenon DEF Option
  <2>3. maxsize' = maxsize
    BY <2>1, <2>2 DEF ParseOption
  <2>4. policy' = policy
    BY <2>1 DEF ParseOption
  <2> QED
    BY <1>1, <1>3, <1>4, <1>6, <2>3, <2>4, Zenon DEF Policy!Close, Refs, Pending, Closed
<1>7. CASE status' = "options"
  <2>1. Closed' = Closed
    BY <1>1, <1>7 DEF Closed
  <2> QED
    BY <1>1, <1>2, <1>3, <1>4, <1>5, <2>1, Zenon DEF Policy!Configure, Refs, Pending, Closed
<1> QED
  BY <1>1, <1>6, <1>7

\* The end of the options, of the input, and a line that is read.
LEMMA LineRefines ==
  ASSUME TypeInv, TypeInv', NEW u \in Uris, ReadLine(u)
  PROVE  Policy!Request(u)
<1>1. /\ status = "reading" /\ status' = "inserting" /\ input' = Append(input, u)
      /\ UNCHANGED <<policy, maxsize, cachelist, clockpointer, output>>
  BY DEF ReadLine, options, cache
<1>2. element' = u
  <2>1. input \in Seq(Uris)
    BY DEF TypeInv, StreamsInv
  <2>2. input'[Len(input')] = u
    BY <1>1, <2>1, AppendProperties
  <2> QED
    BY <2>2 DEF element, Last
<1>3. Pending = NoUri /\ Pending' = u /\ ~Closed /\ Closed' = Closed
  BY <1>1, <1>2 DEF Pending, Closed
<1>4. EvictionOrder' = EvictionOrder /\ Refs' = Refs
  BY <1>1 DEF EvictionOrder, Refs, Referenced
<1> QED
  BY <1>1, <1>3, <1>4, Zenon DEF Policy!Request, Refs, Pending, Closed

\* The end of the input closes the cache.
LEMMA EndRefines ==
  ASSUME TypeInv, TypeInv', OrderShape', RefsShape', EndOfFile
  PROVE  Policy!Close
<1>1. /\ status = "reading" /\ status' = "done" /\ cachelist' = << >>
      /\ UNCHANGED <<policy, maxsize, output>>
  BY DEF EndOfFile, options
<1>2. Pending = NoUri /\ Pending' = NoUri /\ Closed'
  BY <1>1 DEF Pending, Closed
<1>3. EvictionOrder' = << >> /\ Refs' = {}
  <2>1. Len(cachelist') = 0
    BY <1>1
  <2>2. EvictionOrder' = << >>
    BY <2>1 DEF OrderShape
  <2>3. \A u : u \notin Refs'
    BY <2>1 DEF RefsShape
  <2> QED
    BY <2>2, <2>3
<1> QED
  BY <1>1, <1>2, <1>3, Zenon DEF Policy!Close, Refs, Pending, Closed

\* The command line leaves the cache as it is, or is refused and closes it.
LEMMA CommandLineRefines ==
  ASSUME TypeInv, TypeInv', OrderShape, OrderShape', RefsShape, RefsShape', OptionsParsed
  PROVE  UNCHANGED Policy!vars \/ Policy!Close
<1>1. /\ status = "options" /\ status' \in {"reading", "refused"}
      /\ UNCHANGED <<policy, maxsize, cachelist, clockpointer, output>>
  BY DEF OptionsParsed, options, cache
<1>2. EvictionOrder' = EvictionOrder /\ Refs' = Refs
  BY <1>1 DEF EvictionOrder, Refs, Referenced
<1>3. Pending = NoUri /\ Pending' = NoUri /\ ~Closed /\ (Closed' <=> status' = "refused")
  BY <1>1 DEF Pending, Closed
<1>4. CASE status' = "reading"
  <2>1. Closed' = Closed
    BY <1>1, <1>4 DEF Closed
  <2> QED
    BY <1>1, <1>2, <1>3, <2>1, Zenon DEF Policy!vars, Refs, Pending, Closed
<1>5. CASE status' = "refused"
  <2>1. Closed' = TRUE
    BY <1>5 DEF Closed
  <2>2. cachelist = << >>
    <3>1. output = << >>
      BY <1>1 DEF TypeInv, StreamsInv
    <3>2. Len(cachelist) = 0
      BY <3>1, ListFacts DEF TypeInv, ListsInv, Lines
    <3> QED
      BY <3>2, ListFacts DEF TypeInv, ListsInv
  <2>3. EvictionOrder' = << >> /\ Refs' = {}
    BY <1>2, <2>2, EmptyQueue
  <2> QED
    BY <1>1, <1>3, <2>1, <2>3, Zenon DEF Policy!Close, Refs, Pending, Closed
<1> QED
  BY <1>1, <1>4, <1>5

\* The cache simulator implements the queue of its policy, for every cache size, every
\* set of pages and every length of the input: the list that insert_fifo and insert_lru
\* pop and push, and the array insert_clock replaces in place under a turning hand, evict
\* exactly what one queue with second chances would.
THEOREM ImplementsPolicy == Spec => PolicySpec
<1>1. Init => Policy!Init
  <2> SUFFICES ASSUME Init PROVE Policy!Init
    OBVIOUS
  <2>1. cachelist = << >> /\ status = "options" /\ output = << >> /\ policy = "FIFO" /\ maxsize = 3
    BY DEF Init
  <2>2. TypeInv /\ OrderShape /\ RefsShape
    BY TypeInit, Ordered, Referring
  <2>3. EvictionOrder = << >> /\ Refs = {}
    BY <2>1, <2>2, EmptyQueue
  <2>4. Pending = NoUri /\ Closed = FALSE
    BY <2>1 DEF Pending, Closed
  <2>5. policy \in {"FIFO", "LRU", "CLOCK"} /\ maxsize \in Nat \ {0}
    BY <2>1
  <2> QED
    BY <2>1, <2>3, <2>4, <2>5, Zenon DEF Policy!Init, Refs, Pending, Closed
<1>2. TypeInv /\ TypeInv' /\ OrderShape /\ OrderShape' /\ RefsShape /\ RefsShape' /\ [Next]_vars
        => [Policy!Next]_Policy!vars
  <2> SUFFICES ASSUME TypeInv, TypeInv', OrderShape, OrderShape', RefsShape, RefsShape', [Next]_vars
               PROVE  [Policy!Next]_Policy!vars
    OBVIOUS
  <2>1. CASE ParseOption
    BY <2>1, OptionRefines, Zenon DEF Policy!Next
  <2>2. CASE OptionsParsed
    BY <2>2, CommandLineRefines, Zenon DEF Policy!Next
  <2>3. CASE \E u \in Uris : ReadLine(u)
    BY <2>3, LineRefines, Zenon DEF Policy!Next
  <2>4. CASE FifoHit \/ LruHit \/ ClockHit
    BY <2>4, HitRefines, Zenon DEF Policy!Next
  <2>5. CASE ListMiss \/ ClockReplace \/ ClockFill
    BY <2>5, MissRefines, Zenon DEF Policy!Next
  <2>6. CASE ClockSweep
    BY <2>6, SweepRefines, Zenon DEF Policy!Next
  <2>7. CASE EndOfFile
    BY <2>7, EndRefines, Zenon DEF Policy!Next
  <2>8. CASE TurnInPlace \/ UNCHANGED vars
    <3>1. UNCHANGED <<policy, maxsize, cachelist, clockpointer, status, input, output>>
      BY <2>8 DEF TurnInPlace, vars, options, cache
    <3>2. /\ EvictionOrder' = EvictionOrder /\ Refs' = Refs
          /\ Pending' = Pending /\ Closed' = Closed
      BY <3>1 DEF EvictionOrder, Refs, Referenced, Pending, Closed, element
    <3> QED
      BY <3>1, <3>2, Zenon DEF Policy!vars, Refs, Pending, Closed
  <2> QED
    BY <2>1, <2>2, <2>3, <2>4, <2>5, <2>6, <2>7, <2>8 DEF Next, Options, Insert
<1> QED
  BY <1>1, <1>2, TypeInvariant, Ordered, Referring, PTL DEF Spec, PolicySpec, Policy!Spec
=============================================================================
