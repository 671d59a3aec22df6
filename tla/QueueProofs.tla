---------------------------- MODULE QueueProofs ----------------------------
(***************************************************************************)
(* Theorems about the bounded queue of asgn3/queue.c, for every number of  *)
(* threads, every set of elements and every size.                          *)
(***************************************************************************)
EXTENDS Queue, FiniteSetTheorems, SequenceTheorems, TLAPS

USE SizeAssumption, ThreadsAssumption, NoElemAssumption

-----------------------------------------------------------------------------
(***************************************************************************)
(* Lemmas on the operators of the model.                                   *)
(***************************************************************************)

\* The successor of a slot needs no modulus: it is the next slot, or slot 0.
LEMMA AfterSlot ==
  ASSUME NEW i \in Slots
  PROVE  /\ Size > 0
         /\ After(i) \in Slots
         /\ After(i) = IF i + 1 = Size THEN 0 ELSE i + 1
  BY DEF After, Slots

\* A position at most one turn round the ring is wrapped by one subtraction.
LEMMA ModSize ==
  ASSUME Size > 0, NEW i \in 0 .. 2 * Size - 1
  PROVE  /\ i % Size \in Slots
         /\ i % Size = IF i < Size THEN i ELSE i - Size
  BY DEF Slots

\* A signal to a non-empty condition variable wakes exactly one sleeper.
LEMMA SignalledWakesOne ==
  ASSUME NEW cond, NEW rest \in Signalled(cond)
  PROVE  /\ rest \subseteq cond
         /\ cond # {} => \E t \in cond : rest = cond \ {t}
  BY DEF Signalled
-----------------------------------------------------------------------------
(***************************************************************************)
(* Type correctness.                                                       *)
(***************************************************************************)

\* No operation takes the struct of queue.c out of its type: in particular no
\* index leaves the buffer and the count stays between 0 and the size.
THEOREM TypeCorrect == Spec => []TypeOK
<1>1. Init => TypeOK
  BY DEF Init, TypeOK, Slots
<1>2. TypeOK /\ [Next]_vars => TypeOK'
  <2> SUFFICES ASSUME TypeOK, [Next]_vars
               PROVE  TypeOK'
    OBVIOUS
  <2>1. ASSUME NEW t \in Threads, NEW e \in Elems, CallPush(t, e)
        PROVE  TypeOK'
    BY <2>1 DEF TypeOK, CallPush
  <2>2. ASSUME NEW t \in Threads, CallPop(t)
        PROVE  TypeOK'
    BY <2>2 DEF TypeOK, CallPop
  <2>3. ASSUME NEW t \in Threads, PushWait(t)
        PROVE  TypeOK'
    BY <2>3 DEF TypeOK, PushWait, AwakePushers
  <2>4. ASSUME NEW t \in Threads, PushStore(t)
        PROVE  TypeOK'
    <3>1. t \notin full /\ pc[t] = "push" /\ elem[t] \in Elems
      BY <2>4 DEF TypeOK, PushStore, AwakePushers
    <3>2. head \in Slots /\ head' \in Slots /\ count' \in 0 .. Size
      BY <2>4, AfterSlot DEF TypeOK, PushStore, Slots
    <3>3. empty' \subseteq empty
      BY <2>4, SignalledWakesOne DEF PushStore
    <3> QED
      BY <2>4, <3>1, <3>2, <3>3 DEF TypeOK, PushStore
  <2>5. ASSUME NEW t \in Threads, PopWait(t)
        PROVE  TypeOK'
    BY <2>5 DEF TypeOK, PopWait, AwakePoppers
  <2>6. ASSUME NEW t \in Threads, PopTake(t)
        PROVE  TypeOK'
    <3>1. t \notin empty /\ pc[t] = "pop" /\ elem[t] \notin Elems
      BY <2>6 DEF TypeOK, PopTake, AwakePoppers
    <3>2. tail \in Slots /\ tail' \in Slots /\ count' \in 0 .. Size
      BY <2>6, AfterSlot DEF TypeOK, PopTake, Slots
    <3>3. full' \subseteq full
      BY <2>6, SignalledWakesOne DEF PopTake
    <3> QED
      BY <2>6, <3>1, <3>2, <3>3 DEF TypeOK, PopTake
  <2>7. ASSUME NEW t \in Threads, SpuriousWakeup(t)
        PROVE  TypeOK'
    BY <2>7 DEF TypeOK, SpuriousWakeup
  <2>8. CASE Delete
    BY <2>8 DEF TypeOK, Delete
  <2>9. CASE UNCHANGED vars
    BY <2>9 DEF TypeOK, vars
  <2> QED
    BY <2>1, <2>2, <2>3, <2>4, <2>5, <2>6, <2>7, <2>8, <2>9 DEF Next, Step
<1> QED
  BY <1>1, <1>2, PTL DEF Spec
-----------------------------------------------------------------------------
(***************************************************************************)
(* No wakeup is lost.  The two invariants are inductive relative to the    *)
(* type: a store adds one element and wakes one popper if any sleeps, a    *)
(* take removes one element and one awake popper, and a popper only goes   *)
(* to sleep when there is no element left.                                 *)
(***************************************************************************)

\* The threads awake inside an operation are finitely many.
LEMMA AwakeFinite ==
  /\ IsFiniteSet(AwakePoppers) /\ Cardinality(AwakePoppers) \in Nat
  /\ IsFiniteSet(AwakePushers) /\ Cardinality(AwakePushers) \in Nat
<1>1. AwakePoppers \subseteq Threads /\ AwakePushers \subseteq Threads
  BY DEF AwakePoppers, AwakePushers
<1> QED
  BY <1>1, FS_Subset, FS_CardinalityType

\* No step leaves a popper asleep over an element nobody awake is coming for.
LEMMA PopStrandedStep ==
  ASSUME TypeOK, TypeOK', NoPopStranded, [Next]_vars
  PROVE  NoPopStranded'
<1> SUFFICES ASSUME empty' # {}
             PROVE  count' <= Cardinality(AwakePoppers')
  BY DEF NoPopStranded
<1>0. count \in Nat /\ Cardinality(AwakePoppers) \in Nat
  BY AwakeFinite DEF TypeOK
<1>1. ASSUME NEW t \in Threads, CallPop(t)
      PROVE  count' <= Cardinality(AwakePoppers')
  <2>1. AwakePoppers' = AwakePoppers \cup {t} /\ t \notin AwakePoppers
    BY <1>1 DEF CallPop, AwakePoppers, TypeOK
  <2>2. count' = count /\ empty' = empty
    BY <1>1 DEF CallPop
  <2>3. Cardinality(AwakePoppers \cup {t}) = Cardinality(AwakePoppers) + 1
    BY <2>1, AwakeFinite, FS_AddElement
  <2> QED
    BY <1>0, <2>1, <2>2, <2>3 DEF NoPopStranded
<1>2. ASSUME NEW t \in Threads, PushStore(t)
      PROVE  count' <= Cardinality(AwakePoppers')
  <2>1. empty # {}
    BY <1>2, SignalledWakesOne DEF PushStore
  <2>2. PICK u \in empty : empty' = empty \ {u}
    BY <1>2, <2>1, SignalledWakesOne DEF PushStore
  <2>3. AwakePoppers' = AwakePoppers \cup {u} /\ u \notin AwakePoppers
    BY <1>2, <2>2 DEF PushStore, AwakePushers, AwakePoppers, TypeOK
  <2>4. count' = count + 1
    BY <1>2 DEF PushStore
  <2>5. Cardinality(AwakePoppers \cup {u}) = Cardinality(AwakePoppers) + 1
    BY <2>3, AwakeFinite, FS_AddElement
  <2> QED
    BY <1>0, <2>1, <2>3, <2>4, <2>5 DEF NoPopStranded
<1>3. ASSUME NEW t \in Threads, PopWait(t)
      PROVE  count' <= Cardinality(AwakePoppers')
  <2>1. Cardinality(AwakePoppers)' \in Nat
    <3>1. AwakePoppers' \subseteq Threads
      BY DEF AwakePoppers
    <3> QED
      BY <3>1, FS_Subset, FS_CardinalityType
  <2> QED
    BY <1>3, <2>1 DEF PopWait
<1>4. ASSUME NEW t \in Threads, PopTake(t)
      PROVE  count' <= Cardinality(AwakePoppers')
  <2>1. AwakePoppers' = AwakePoppers \ {t} /\ t \in AwakePoppers
    BY <1>4 DEF PopTake, AwakePoppers, TypeOK
  <2>2. count' = count - 1 /\ empty' = empty
    BY <1>4 DEF PopTake
  <2>3. Cardinality(AwakePoppers \ {t}) = Cardinality(AwakePoppers) - 1
    BY <2>1, AwakeFinite, FS_RemoveElement
  <2> QED
    BY <1>0, <2>1, <2>2, <2>3 DEF NoPopStranded
<1>5. ASSUME NEW t \in Threads, SpuriousWakeup(t)
      PROVE  count' <= Cardinality(AwakePoppers')
  <2>1. AwakePoppers' = AwakePoppers \/ AwakePoppers' = AwakePoppers \cup {t}
    BY <1>5 DEF SpuriousWakeup, AwakePoppers, TypeOK
  <2>2. \/ Cardinality(AwakePoppers') = Cardinality(AwakePoppers)
        \/ Cardinality(AwakePoppers') = Cardinality(AwakePoppers) + 1
    BY <2>1, AwakeFinite, FS_AddElement
  <2>3. count' = count /\ empty # {}
    BY <1>5 DEF SpuriousWakeup
  <2> QED
    BY <1>0, <2>1, <2>2, <2>3 DEF NoPopStranded
<1>6. ASSUME \/ \E t \in Threads, e \in Elems : CallPush(t, e)
             \/ \E t \in Threads : PushWait(t)
             \/ Delete
             \/ UNCHANGED vars
      PROVE  count' <= Cardinality(AwakePoppers')
  <2>1. AwakePoppers' = AwakePoppers /\ count' = count /\ empty' = empty
    BY <1>6 DEF CallPush, PushWait, Delete, vars, AwakePoppers, AwakePushers, TypeOK
  <2> QED
    BY <2>1 DEF NoPopStranded
<1> QED
  BY <1>1, <1>2, <1>3, <1>4, <1>5, <1>6 DEF Next, Step

\* No step leaves a pusher asleep over a free slot nobody awake is coming for.
LEMMA PushStrandedStep ==
  ASSUME TypeOK, TypeOK', NoPushStranded, [Next]_vars
  PROVE  NoPushStranded'
<1> SUFFICES ASSUME full' # {}
             PROVE  Size - count' <= Cardinality(AwakePushers')
  BY DEF NoPushStranded
<1>0. count \in Nat /\ Cardinality(AwakePushers) \in Nat
  BY AwakeFinite DEF TypeOK
<1>1. ASSUME NEW t \in Threads, NEW e \in Elems, CallPush(t, e)
      PROVE  Size - count' <= Cardinality(AwakePushers')
  <2>1. AwakePushers' = AwakePushers \cup {t} /\ t \notin AwakePushers
    BY <1>1 DEF CallPush, AwakePushers, TypeOK
  <2>2. count' = count /\ full' = full
    BY <1>1 DEF CallPush
  <2>3. Cardinality(AwakePushers \cup {t}) = Cardinality(AwakePushers) + 1
    BY <2>1, AwakeFinite, FS_AddElement
  <2> QED
    BY <1>0, <2>1, <2>2, <2>3 DEF NoPushStranded
<1>2. ASSUME NEW t \in Threads, PopTake(t)
      PROVE  Size - count' <= Cardinality(AwakePushers')
  <2>1. full # {}
    BY <1>2, SignalledWakesOne DEF PopTake
  <2>2. PICK u \in full : full' = full \ {u}
    BY <1>2, <2>1, SignalledWakesOne DEF PopTake
  <2>3. AwakePushers' = AwakePushers \cup {u} /\ u \notin AwakePushers
    BY <1>2, <2>2 DEF PopTake, AwakePoppers, AwakePushers, TypeOK
  <2>4. count' = count - 1
    BY <1>2 DEF PopTake
  <2>5. Cardinality(AwakePushers \cup {u}) = Cardinality(AwakePushers) + 1
    BY <2>3, AwakeFinite, FS_AddElement
  <2> QED
    BY <1>0, <2>1, <2>3, <2>4, <2>5 DEF NoPushStranded
<1>3. ASSUME NEW t \in Threads, PushWait(t)
      PROVE  Size - count' <= Cardinality(AwakePushers')
  <2>1. Cardinality(AwakePushers)' \in Nat
    <3>1. AwakePushers' \subseteq Threads
      BY DEF AwakePushers
    <3> QED
      BY <3>1, FS_Subset, FS_CardinalityType
  <2> QED
    BY <1>3, <2>1 DEF PushWait
<1>4. ASSUME NEW t \in Threads, PushStore(t)
      PROVE  Size - count' <= Cardinality(AwakePushers')
  <2>1. AwakePushers' = AwakePushers \ {t} /\ t \in AwakePushers
    BY <1>4 DEF PushStore, AwakePushers, TypeOK
  <2>2. count' = count + 1 /\ full' = full
    BY <1>4 DEF PushStore
  <2>3. Cardinality(AwakePushers \ {t}) = Cardinality(AwakePushers) - 1
    BY <2>1, AwakeFinite, FS_RemoveElement
  <2> QED
    BY <1>0, <2>1, <2>2, <2>3 DEF NoPushStranded
<1>5. ASSUME NEW t \in Threads, SpuriousWakeup(t)
      PROVE  Size - count' <= Cardinality(AwakePushers')
  <2>1. AwakePushers' = AwakePushers \/ AwakePushers' = AwakePushers \cup {t}
    BY <1>5 DEF SpuriousWakeup, AwakePushers, TypeOK
  <2>2. \/ Cardinality(AwakePushers') = Cardinality(AwakePushers)
        \/ Cardinality(AwakePushers') = Cardinality(AwakePushers) + 1
    BY <2>1, AwakeFinite, FS_AddElement
  <2>3. count' = count /\ full # {}
    BY <1>5 DEF SpuriousWakeup
  <2> QED
    BY <1>0, <2>1, <2>2, <2>3 DEF NoPushStranded
<1>6. ASSUME \/ \E t \in Threads : CallPop(t)
             \/ \E t \in Threads : PopWait(t)
             \/ Delete
             \/ UNCHANGED vars
      PROVE  Size - count' <= Cardinality(AwakePushers')
  <2>1. AwakePushers' = AwakePushers /\ count' = count /\ full' = full
    BY <1>6 DEF CallPop, PopWait, Delete, vars, AwakePushers, AwakePoppers, TypeOK
  <2> QED
    BY <2>1 DEF NoPushStranded
<1> QED
  BY <1>1, <1>2, <1>3, <1>4, <1>5, <1>6 DEF Next, Step

\* While a popper sleeps no element of the buffer lacks an awake popper, and while
\* a pusher sleeps no free slot lacks an awake pusher: a signal per operation is
\* enough, although a caller that barges in may take what the signal was for.
THEOREM NothingStranded == Spec => []NobodyStranded
<1>1. Init => NobodyStranded
  BY DEF Init, NobodyStranded, NoPopStranded, NoPushStranded
<1>2. TypeOK /\ TypeOK' /\ NobodyStranded /\ [Next]_vars => NobodyStranded'
  BY PopStrandedStep, PushStrandedStep DEF NobodyStranded
<1> QED
  BY <1>1, <1>2, TypeCorrect, PTL DEF Spec

\* Everyone waiting on everyone: in a queue with a slot, if a popper sleeps and a
\* pusher sleeps, a thread inside an operation is awake.
NoMutualSleep ==
  (Size > 0 /\ empty # {} /\ full # {}) => AwakePushers \cup AwakePoppers # {}

\* The pushers and the poppers never all sleep: with nobody awake there would be
\* no element and no free slot, which is a queue of size 0.
THEOREM MutualSleepImpossible == Spec => []NoMutualSleep
<1>1. TypeOK /\ NobodyStranded => NoMutualSleep
  <2> SUFFICES ASSUME TypeOK, NobodyStranded,
                      Size > 0, empty # {}, full # {},
                      AwakePushers = {}, AwakePoppers = {}
               PROVE  FALSE
    BY DEF NoMutualSleep
  <2>1. Cardinality(AwakePushers) = 0 /\ Cardinality(AwakePoppers) = 0
    BY FS_EmptySet
  <2> QED
    BY <2>1 DEF TypeOK, NobodyStranded, NoPopStranded, NoPushStranded
<1> QED
  BY <1>1, TypeCorrect, NothingStranded, PTL
-----------------------------------------------------------------------------
(***************************************************************************)
(* The ring: the two indices and the counter delimit the elements.         *)
(***************************************************************************)

\* The slot i places after the oldest element.
Pos(i) == (tail + i) % Size

\* A slot and a number of places on is a slot, wrapped by one subtraction at most.
LEMMA PosSlot ==
  ASSUME Size > 0, NEW k \in 0 .. Size - 1, NEW i \in 0 .. Size
  PROVE  /\ (k + i) % Size \in Slots
         /\ (k + i) % Size = IF k + i < Size THEN k + i ELSE k + i - Size
<1>1. k + i \in 0 .. 2 * Size - 1
  OBVIOUS
<1> QED
  BY <1>1, ModSize

\* Every step keeps head, tail and count in agreement.
LEMMA RingStep ==
  ASSUME TypeOK, TypeOK', RingConsistent, [Next]_vars
  PROVE  RingConsistent'
<1> SUFFICES ASSUME Size > 0
             PROVE  /\ head' = Pos(count)'
                    /\ \A i \in 0 .. count' - 1 : buffer'[Pos(i)'] \in Elems
  BY DEF RingConsistent, Pos
<1>0. /\ head = Pos(count)
      /\ \A i \in 0 .. count - 1 : buffer[Pos(i)] \in Elems
      /\ tail \in 0 .. Size - 1 /\ tail' \in 0 .. Size - 1
      /\ count \in 0 .. Size /\ count' \in 0 .. Size
  BY DEF RingConsistent, TypeOK, Pos, Slots
<1>a. \A i \in 0 .. Size :
        /\ Pos(i) \in Slots
        /\ Pos(i) = IF tail + i < Size THEN tail + i ELSE tail + i - Size
  BY <1>0, PosSlot DEF Pos
<1>b. \A i \in 0 .. Size :
        Pos(i)' = IF tail' + i < Size THEN tail' + i ELSE tail' + i - Size
  BY <1>0, PosSlot DEF Pos
<1>1. ASSUME NEW t \in Threads, PushStore(t)
      PROVE  /\ head' = Pos(count)'
             /\ \A i \in 0 .. count' - 1 : buffer'[Pos(i)'] \in Elems
  <2>1. /\ tail' = tail /\ count' = count + 1 /\ count < Size
        /\ elem[t] \in Elems
        /\ buffer' = [buffer EXCEPT ![head] = elem[t]]
    BY <1>1, <1>0 DEF PushStore, AwakePushers, TypeOK
  <2>2. head \in Slots /\ head' = IF head + 1 = Size THEN 0 ELSE head + 1
    BY <1>1, <1>0, <1>a, AfterSlot DEF PushStore
  <2>3. head' = Pos(count)'
    BY <1>0, <1>a, <1>b, <2>1, <2>2
  <2>4. ASSUME NEW i \in 0 .. count' - 1
        PROVE  buffer'[Pos(i)'] \in Elems
    <3>1. Pos(i)' = Pos(i) /\ Pos(i) \in Slots
      BY <1>0, <1>a, <1>b, <2>1
    <3>2. CASE i = count
      BY <3>1, <3>2, <1>0, <2>1, <2>2 DEF TypeOK
    <3>3. CASE i < count
      <4>1. Pos(i) # head
        BY <1>0, <1>a, <2>1, <3>3
      <4> QED
        BY <4>1, <3>1, <3>3, <1>0, <2>1, <2>2 DEF TypeOK
    <3> QED
      BY <3>2, <3>3, <2>1, <1>0
  <2> QED
    BY <2>3, <2>4
<1>2. ASSUME NEW t \in Threads, PopTake(t)
      PROVE  /\ head' = Pos(count)'
             /\ \A i \in 0 .. count' - 1 : buffer'[Pos(i)'] \in Elems
  <2>1. head' = head /\ count' = count - 1 /\ count > 0 /\ buffer' = buffer
    BY <1>2, <1>0 DEF PopTake
  <2>2. tail' = IF tail + 1 = Size THEN 0 ELSE tail + 1
    BY <1>2, <1>0, AfterSlot DEF PopTake, Slots
  <2>3. \A i \in 0 .. count - 1 : Pos(i)' = Pos(i + 1)
    BY <1>0, <1>a, <1>b, <2>2
  <2> QED
    BY <1>0, <2>1, <2>3
<1>3. ASSUME UNCHANGED <<head, tail, count, buffer>>
      PROVE  /\ head' = Pos(count)'
             /\ \A i \in 0 .. count' - 1 : buffer'[Pos(i)'] \in Elems
  BY <1>3, <1>0 DEF Pos
<1> QED
  BY <1>1, <1>2, <1>3
     DEF Next, Step, CallPush, CallPop, PushWait, PopWait, SpuriousWakeup, Delete, vars

\* The push index is always count slots after the pop index, and the slots between
\* them are the ones that hold an element: no pop reads a slot no push filled.
THEOREM RingCorrect == Spec => []RingConsistent
<1>1. Init => RingConsistent
  BY ModSize DEF Init, RingConsistent
<1>2. TypeOK /\ TypeOK' /\ RingConsistent /\ [Next]_vars => RingConsistent'
  BY RingStep
<1> QED
  BY <1>1, <1>2, TypeCorrect, PTL DEF Spec
-----------------------------------------------------------------------------
(***************************************************************************)
(* The ring implements the FIFO of BoundedFifo.tla.  A store appends to    *)
(* the sequence of elements and a take removes its head; every other step  *)
(* is a call, the deletion, or a stutter of the abstract queue.            *)
(***************************************************************************)

\* The sequence of the elements, slot by slot.
ItemsInRing ==
  /\ Items \in Seq(Elems)
  /\ Len(Items) = count
  /\ \A i \in 1 .. count : Items[i] = buffer[Pos(i - 1)]

\* The contents of the ring are a sequence of count elements.
LEMMA ItemsSeq == TypeOK /\ RingConsistent => ItemsInRing
<1> SUFFICES ASSUME TypeOK, RingConsistent
             PROVE  ItemsInRing
  OBVIOUS
<1>1. count \in Nat /\ (count > 0 => Size > 0)
  BY DEF TypeOK
<1>2. \A i \in 1 .. count : buffer[Pos(i - 1)] \in Elems
  BY <1>1 DEF RingConsistent, Pos
<1>3. \A i \in 1 .. count : tail + i - 1 = tail + (i - 1)
  BY DEF TypeOK, Slots
<1>4. Items = [i \in 1 .. count |-> buffer[Pos(i - 1)]]
  BY <1>3 DEF Items, Pos
<1> QED
  BY <1>1, <1>2, <1>4 DEF ItemsInRing

\* A push appends its element to the contents of the ring.
LEMMA StoreAppends ==
  ASSUME TypeOK, TypeOK', RingConsistent, RingConsistent',
         NEW t \in Threads, PushStore(t)
  PROVE  Items' = Append(Items, elem[t])
<1>1. /\ tail' = tail /\ count' = count + 1
      /\ count \in 0 .. Size - 1 /\ Size > 0
      /\ elem[t] \in Elems
      /\ buffer' = [buffer EXCEPT ![head] = elem[t]]
      /\ tail \in 0 .. Size - 1
  BY DEF PushStore, AwakePushers, TypeOK, Slots
<1>2. /\ Items \in Seq(Elems) /\ Len(Items) = count
      /\ \A i \in 1 .. count : Items[i] = buffer[Pos(i - 1)]
  BY ItemsSeq DEF ItemsInRing
<1>3. /\ Items' \in Seq(Elems) /\ Len(Items') = count'
      /\ \A i \in 1 .. count' : Items'[i] = buffer'[Pos(i - 1)']
  <2>1. ItemsInRing'
    BY ItemsSeq, PTL
  <2> QED
    BY <2>1 DEF ItemsInRing
<1>4. /\ Append(Items, elem[t]) \in Seq(Elems)
      /\ Len(Append(Items, elem[t])) = count + 1
      /\ \A i \in 1 .. count : Append(Items, elem[t])[i] = Items[i]
      /\ Append(Items, elem[t])[count + 1] = elem[t]
  BY <1>1, <1>2, AppendProperties
<1>5. head = Pos(count) /\ head \in Slots /\ buffer \in [Slots -> Elems \cup {NoElem}]
  BY <1>1 DEF RingConsistent, TypeOK, Pos, Slots
<1>6. \A i \in 0 .. count :
        /\ Pos(i)' = Pos(i) /\ Pos(i) \in Slots
        /\ Pos(i) = IF tail + i < Size THEN tail + i ELSE tail + i - Size
  BY <1>1, PosSlot DEF Pos
<1>7. ASSUME NEW i \in 1 .. count + 1
      PROVE  Items'[i] = Append(Items, elem[t])[i]
  <2>1. Items'[i] = buffer'[Pos(i - 1)]
    <3>1. i \in 1 .. count' /\ i - 1 \in 0 .. count
      BY <1>1
    <3>2. Items'[i] = buffer'[Pos(i - 1)']
      BY <1>3, <3>1
    <3>3. Pos(i - 1)' = Pos(i - 1)
      BY <1>6, <3>1
    <3> QED
      BY <3>2, <3>3
  <2>2. CASE i = count + 1
    BY <2>1, <2>2, <1>1, <1>4, <1>5
  <2>3. CASE i \in 1 .. count
    <3>1. Pos(i - 1) # head /\ Pos(i - 1) \in Slots
      BY <2>3, <1>1, <1>5, <1>6
    <3> QED
      BY <2>1, <2>3, <3>1, <1>1, <1>2, <1>4, <1>5
  <2>4. i = count + 1 \/ i \in 1 .. count
    BY <1>1
  <2> QED
    BY <2>2, <2>3, <2>4
<1> QED
  BY <1>1, <1>3, <1>4, <1>7, SeqEqual

\* A pop removes the first of the contents of the ring.
LEMMA TakeRemovesHead ==
  ASSUME TypeOK, TypeOK', RingConsistent, RingConsistent',
         NEW t \in Threads, PopTake(t)
  PROVE  Items # << >> /\ buffer[tail] = Head(Items) /\ Items' = Tail(Items)
<1>1. /\ count' = count - 1 /\ buffer' = buffer
      /\ count \in 1 .. Size /\ Size > 0
      /\ tail \in 0 .. Size - 1 /\ tail' \in 0 .. Size - 1
  BY DEF PopTake, AwakePoppers, TypeOK, Slots
<1>2. tail' = IF tail + 1 = Size THEN 0 ELSE tail + 1
  BY <1>1, AfterSlot DEF PopTake, Slots
<1>3. /\ Items \in Seq(Elems) /\ Len(Items) = count
      /\ \A i \in 1 .. count : Items[i] = buffer[Pos(i - 1)]
  BY ItemsSeq DEF ItemsInRing
<1>4. /\ Items' \in Seq(Elems) /\ Len(Items') = count'
      /\ \A i \in 1 .. count' : Items'[i] = buffer'[Pos(i - 1)']
  <2>1. ItemsInRing'
    BY ItemsSeq, PTL
  <2> QED
    BY <2>1 DEF ItemsInRing
<1>5. Items # << >>
  BY <1>1, <1>3
<1>6. /\ Tail(Items) \in Seq(Elems) /\ Len(Tail(Items)) = count - 1
      /\ \A i \in 1 .. count - 1 : Tail(Items)[i] = Items[i + 1]
  BY <1>3, <1>5, HeadTailProperties
<1>7. Head(Items) = Items[1] /\ Pos(0) = tail
  <2>1. Head(Items) = Items[1]
    BY <1>3, <1>5
  <2>2. tail + 0 = tail /\ tail % Size = tail
    BY <1>1, ModSize
  <2> QED
    BY <1>1, <2>1, <2>2 DEF Pos
<1>8. \A i \in 1 .. count - 1 : Pos(i - 1)' = Pos(i)
  <2>1. \A i \in 0 .. Size :
          /\ Pos(i) = IF tail + i < Size THEN tail + i ELSE tail + i - Size
          /\ Pos(i)' = IF tail' + i < Size THEN tail' + i ELSE tail' + i - Size
    BY <1>1, PosSlot DEF Pos
  <2> QED
    BY <1>1, <1>2, <2>1
<1>9. ASSUME NEW i \in 1 .. count - 1
      PROVE  Items'[i] = Tail(Items)[i]
  <2>1. Items'[i] = buffer[Pos(i)]
    BY <1>1, <1>4, <1>8
  <2>2. Tail(Items)[i] = Items[i + 1] /\ i + 1 \in 1 .. count /\ (i + 1) - 1 = i
    BY <1>1, <1>6
  <2> QED
    BY <1>3, <2>1, <2>2
<1>10. buffer[tail] = Head(Items)
  BY <1>1, <1>3, <1>7
<1> QED
  BY <1>1, <1>4, <1>5, <1>6, <1>9, <1>10, SeqEqual

\* The buffer, the indices and the condition variables implement the FIFO that
\* queue.h promises.
THEOREM ImplementsFifo == Spec => FifoSpec
<1>1. Init => Fifo!Init
  <2>1. Init => Items = << >>
    BY DEF Init, Items
  <2> QED
    BY <2>1 DEF Init, Fifo!Init
<1>2. TypeOK /\ TypeOK' /\ RingConsistent /\ RingConsistent' /\ [Next]_vars
        => [Fifo!Next]_Fifo!vars
  <2> SUFFICES ASSUME TypeOK, TypeOK', RingConsistent, RingConsistent', [Next]_vars
               PROVE  [Fifo!Next]_Fifo!vars
    OBVIOUS
  <2>1. ASSUME NEW t \in Threads, NEW e \in Elems, CallPush(t, e)
        PROVE  Fifo!CallPush(t, e)
    BY <2>1 DEF CallPush, Fifo!CallPush, Items, TypeOK
  <2>2. ASSUME NEW t \in Threads, CallPop(t)
        PROVE  Fifo!CallPop(t)
    BY <2>2 DEF CallPop, Fifo!CallPop, Items, TypeOK
  <2>3. ASSUME NEW t \in Threads, PushStore(t)
        PROVE  Fifo!Push(t)
    <3>1. Items' = Append(Items, elem[t])
      BY <2>3, StoreAppends
    <3>2. Len(Items) < Size
      BY <2>3, ItemsSeq DEF PushStore, ItemsInRing, TypeOK
    <3> QED
      BY <2>3, <3>1, <3>2 DEF PushStore, AwakePushers, Fifo!Push
  <2>4. ASSUME NEW t \in Threads, PopTake(t)
        PROVE  Fifo!Pop(t)
    BY <2>4, TakeRemovesHead DEF PopTake, AwakePoppers, Fifo!Pop
  <2>5. ASSUME Delete
        PROVE  Fifo!Delete
    BY <2>5 DEF Delete, Fifo!Delete, Items, TypeOK
  <2>6. ASSUME \/ \E t \in Threads : \/ PushWait(t) \/ PopWait(t)
                                     \/ SpuriousWakeup(t)
               \/ UNCHANGED vars
        PROVE  UNCHANGED Fifo!vars
    BY <2>6 DEF PushWait, PopWait, SpuriousWakeup, vars, Fifo!vars, Items
  <2> QED
    BY <2>1, <2>2, <2>3, <2>4, <2>5, <2>6 DEF Next, Step, Fifo!Next
<1> QED
  BY <1>1, <1>2, TypeCorrect, RingCorrect, PTL DEF Spec, FifoSpec, Fifo!Spec
=============================================================================
