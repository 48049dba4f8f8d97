--------------------------- MODULE ContainerProofs ---------------------------
(***************************************************************************)
(* The ring implements the bounded queue, for every size and all rows; the *)
(* chains of list.c are sequences, and so are the lists and the sequences  *)
(* of columns that are made of them, for any number of nodes and calls.    *)
(***************************************************************************)
EXTENDS RingQueue, GenericList, SequenceItems, FiniteSetTheorems, WellFoundedInduction,
        SequenceTheorems, TLAPS

\* The distance from head to tail, and the places between them.
LEMMA PlaceFacts ==
  ASSUME head \in Places, tail \in Places
  PROVE  /\ Length \in Nat /\ Length < SIZE_OF_QUEUE
         /\ \A i \in 0..Length : At(i) \in Places
         /\ At(0) = head /\ At(Length) = tail
         /\ \A i \in 0..(Length - 1) : At(i) # tail
         /\ Length = 0 <=> head = tail
         /\ Length = SIZE_OF_QUEUE - 1 <=> isQueueFull
BY RingAssumption DEF Places, Length, At, isQueueFull, Qnext

\* appendQueue moves the tail by one place.
LEMMA TailMoves ==
  ASSUME head \in Places, tail \in Places, ~isQueueFull,
         head' = head, tail' = Qnext(tail)
  PROVE  /\ tail' \in Places /\ Length' = Length + 1
         /\ \A i \in 0..Length : At(i)' = At(i)
BY RingAssumption DEF Places, Length, At, isQueueFull, Qnext

\* getQueue moves the head by one place.
LEMMA HeadMoves ==
  ASSUME head \in Places, tail \in Places, ~isQueueEmpty,
         tail' = tail, head' = Qnext(head)
  PROVE  /\ head' \in Places /\ Length' = Length - 1 /\ Length > 0
         /\ \A i \in 0..(Length - 2) : At(i)' = At(i + 1)
BY RingAssumption DEF Places, Length, At, isQueueEmpty, Qnext

-----------------------------------------------------------------------------
\* RingTrue is inductive as it stands.
LEMMA InitRing == RingInit => RingTrue
BY RingAssumption DEF RingInit, RingTrue, RingTypeOK, CountTrue, Places, Length

LEMMA AppendStep ==
  ASSUME RingTrue, NEW d \in Data, ~isQueueFull, appendQueue(d)
  PROVE  /\ RingTrue' /\ Length' = Length + 1 /\ got' = got
         /\ \A i \in 0..(Length - 1) : tableBuffer'[At(i)'] = tableBuffer[At(i)]
         /\ \A n \in Nat : n = Length => tableBuffer'[At(n)'] = d
<1>1. /\ tableBuffer' = [tableBuffer EXCEPT ![tail] = d]
      /\ tail' = Qnext(tail) /\ count' = count + 1 /\ head' = head /\ got' = got
  BY DEF appendQueue, ringVars
<1>2. /\ head \in Places /\ tail \in Places /\ tableBuffer \in [Places -> Data \cup {NONE}]
      /\ got \in Data \cup {NONE} /\ count = Length
      /\ \A i \in 0..(Length - 1) : tableBuffer[At(i)] \in Data
  BY DEF RingTrue, RingTypeOK, CountTrue
<1>3. /\ Length \in Nat /\ At(Length) = tail
      /\ \A i \in 0..(Length - 1) : At(i) # tail /\ At(i) \in Places
  BY <1>2, PlaceFacts
<1>4. /\ tail' \in Places /\ Length' = Length + 1
      /\ \A i \in 0..Length : At(i)' = At(i)
  BY <1>1, <1>2, TailMoves
<1>5. \A n \in Nat : n = Length => tableBuffer'[At(n)'] = d
  <2>1. \A n \in Nat : n = Length => At(n)' = tail
    BY <1>3, <1>4
  <2> QED
    BY <2>1, <1>1, <1>2
<1>6. \A i \in 0..(Length - 1) : tableBuffer'[At(i)'] = tableBuffer[At(i)]
  BY <1>1, <1>2, <1>3, <1>4
<1>7. \A i \in 0..(Length' - 1) : tableBuffer'[At(i)'] \in Data
  <2>1. \A i \in 0..(Length' - 1) : i \in Nat /\ (i = Length \/ i \in 0..(Length - 1))
    BY <1>3, <1>4
  <2> QED
    BY <2>1, <1>2, <1>5, <1>6
<1>8. tableBuffer' \in [Places -> Data \cup {NONE}]
  BY <1>1, <1>2
<1>9. RingTypeOK'
  BY <1>1, <1>2, <1>4, <1>7, <1>8 DEF RingTypeOK
<1>10. CountTrue'
  BY <1>1, <1>2, <1>4 DEF CountTrue
<1> QED
  BY <1>1, <1>4, <1>5, <1>6, <1>9, <1>10 DEF RingTrue

LEMMA GetStep ==
  ASSUME RingTrue, ~isQueueEmpty, getQueue
  PROVE  /\ RingTrue' /\ Length' = Length - 1 /\ Length \in Nat \ {0}
         /\ got' = tableBuffer[At(0)]
         /\ \A i \in 0..(Length' - 1) : tableBuffer'[At(i)'] = tableBuffer[At(i + 1)]
<1>1. /\ got' = tableBuffer[head] /\ head' = Qnext(head) /\ count' = count - 1
      /\ tail' = tail /\ tableBuffer' = tableBuffer
  BY DEF getQueue
<1>2. /\ head \in Places /\ tail \in Places /\ tableBuffer \in [Places -> Data \cup {NONE}]
      /\ count = Length
      /\ \A i \in 0..(Length - 1) : tableBuffer[At(i)] \in Data
  BY DEF RingTrue, RingTypeOK, CountTrue
<1>3. Length \in Nat /\ At(0) = head
  BY <1>2, PlaceFacts
<1>4. /\ head' \in Places /\ Length' = Length - 1 /\ Length > 0
      /\ \A i \in 0..(Length - 2) : At(i)' = At(i + 1)
  BY <1>1, <1>2, HeadMoves
<1>5. \A i \in 0..(Length' - 1) : i \in 0..(Length - 2) /\ i + 1 \in 0..(Length - 1)
  BY <1>3, <1>4
<1>6. \A i \in 0..(Length' - 1) : tableBuffer'[At(i)'] = tableBuffer[At(i + 1)]
  BY <1>1, <1>4, <1>5
<1>7. \A i \in 0..(Length' - 1) : tableBuffer'[At(i)'] \in Data
  BY <1>2, <1>5, <1>6
<1>8. got' \in Data
  BY <1>1, <1>2, <1>3, <1>4
<1>9. RingTypeOK' /\ CountTrue'
  BY <1>1, <1>2, <1>4, <1>7, <1>8 DEF RingTypeOK, CountTrue
<1> QED
  BY <1>1, <1>3, <1>4, <1>6, <1>9 DEF RingTrue

LEMMA StepRing == RingTrue /\ [RingNext]_ringVars => RingTrue'
<1> SUFFICES ASSUME RingTrue, [RingNext]_ringVars PROVE RingTrue'
  OBVIOUS
<1>1. CASE UNCHANGED ringVars
  BY <1>1 DEF RingTrue, RingTypeOK, CountTrue, Length, At, ringVars
<1>2. ASSUME NEW d \in Data, appendQueue(d) PROVE RingTrue'
  <2>1. CASE isQueueFull
    BY <1>1, <1>2, <2>1 DEF appendQueue
  <2> QED
    BY <1>2, <2>1, AppendStep
<1>3. CASE getQueue
  <2>1. CASE isQueueEmpty
    BY <1>3, <2>1 DEF getQueue, RingTrue, RingTypeOK, CountTrue, Length, At
  <2> QED
    BY <1>3, <2>1, GetStep
<1> QED
  BY <1>1, <1>2, <1>3 DEF RingNext

\* In every reachable state, for every size of the ring, the places from head to
\* tail hold rows and count says how many: latexTable takes no row too many.
THEOREM RingIsTrue == RingSpec => []RingTrue
BY InitRing, StepRing, PTL DEF RingSpec

\* Indices stay in the ring, and getQueue returns only rows that were appended
\* (RingTypeOK).
THEOREM RingTypes == RingSpec => []RingTypeOK
<1>1. RingTrue => RingTypeOK
  BY DEF RingTrue
<1> QED
  BY <1>1, InitRing, StepRing, PTL DEF RingSpec

\* count, by which latexTable takes rows out, is the number of rows in the ring
\* (CountTrue).
THEOREM CountIsTrue == RingSpec => []CountTrue
<1>1. RingTrue => CountTrue
  BY DEF RingTrue
<1> QED
  BY <1>1, InitRing, StepRing, PTL DEF RingSpec

-----------------------------------------------------------------------------
LEMMA HeadFirst == \A s \in Seq(Data) : s # <<>> => Head(s) = s[1]
OBVIOUS

ContentIsSeq ==
  /\ Length \in Nat /\ Content \in Seq(Data) /\ Len(Content) = Length
  /\ \A i \in 1..Length : Content[i] = tableBuffer[At(i - 1)]

LEMMA ContentFacts == RingTypeOK => ContentIsSeq
<1> SUFFICES ASSUME RingTypeOK PROVE ContentIsSeq
  OBVIOUS
<1>1. Length \in Nat
  BY PlaceFacts DEF RingTypeOK
<1>2. \A i \in 1..Length : tableBuffer[At(i - 1)] \in Data
  <2>1. \A i \in 1..Length : i - 1 \in 0..(Length - 1)
    BY <1>1
  <2> QED
    BY <2>1 DEF RingTypeOK
<1>3. Content \in [1..Length -> Data]
  BY <1>2 DEF Content
<1>4. Content \in Seq(Data)
  BY <1>1, <1>3, SeqDef
<1>5. 1..Length = 1..Len(Content) /\ Len(Content) \in Nat
  BY <1>3, <1>4, LenProperties
<1>6. \A m, n \in Nat : 1..m = 1..n => m = n
  OBVIOUS
<1> QED
  BY <1>1, <1>4, <1>5, <1>6 DEF Content, ContentIsSeq

\* The ring is a first-in-first-out queue that refuses a row when
\* SIZE_OF_QUEUE - 1 rows wait (IsFifo): no row is lost, doubled or reordered
\* by the wrap-around of the indices.
THEOREM RingIsFifo == RingSpec => IsFifo
<1>1. RingInit => Fifo!Init
  <2> SUFFICES ASSUME RingInit PROVE Fifo!Init
    OBVIOUS
  <2>1. RingTypeOK /\ Length = 0
    BY InitRing DEF RingTrue, RingInit, Length
  <2>2. Content = <<>>
    <3>1. Content \in Seq(Data) /\ Len(Content) = 0
      BY <2>1, ContentFacts DEF ContentIsSeq
    <3> QED
      BY <3>1, EmptySeq
  <2> QED
    BY <2>2 DEF RingInit, Fifo!Init
<1>2. ASSUME RingTrue, RingTrue', [RingNext]_ringVars PROVE [Fifo!Next]_<<Content, got>>
  <2>0. /\ Length \in Nat /\ Content \in Seq(Data) /\ Len(Content) = Length
        /\ \A i \in 1..Length : Content[i] = tableBuffer[At(i - 1)]
    BY <1>2, ContentFacts DEF RingTrue, ContentIsSeq
  <2>1. /\ Length' \in Nat /\ Content' \in Seq(Data) /\ Len(Content') = Length'
        /\ \A i \in 1..Length' : Content'[i] = tableBuffer'[At(i - 1)']
    <3>1. RingTypeOK'
      BY <1>2 DEF RingTrue
    <3>2. ContentIsSeq'
      BY <3>1, ContentFacts, PTL
    <3> QED
      BY <3>2 DEF ContentIsSeq
  <2>2. Length = SIZE_OF_QUEUE - 1 <=> isQueueFull
    BY <1>2, PlaceFacts DEF RingTrue, RingTypeOK
  <2>3. CASE UNCHANGED ringVars
    BY <2>3 DEF ringVars, Content, Length, At
  <2>4. ASSUME NEW d \in Data, appendQueue(d) PROVE [Fifo!Next]_<<Content, got>>
    <3>1. CASE isQueueFull
      <4>1. UNCHANGED ringVars
        BY <2>4, <3>1 DEF appendQueue
      <4> QED
        BY <2>3, <4>1
    <3>2. CASE ~isQueueFull
      <4>1. /\ Length' = Length + 1 /\ got' = got
            /\ \A i \in 0..(Length - 1) : tableBuffer'[At(i)'] = tableBuffer[At(i)]
            /\ \A n \in Nat : n = Length => tableBuffer'[At(n)'] = d
        BY <1>2, <2>4, <3>2, AppendStep
      <4>2. /\ Append(Content, d) \in Seq(Data)
            /\ Len(Append(Content, d)) = Length + 1
            /\ \A i \in 1..Length : Append(Content, d)[i] = Content[i]
            /\ Append(Content, d)[Length + 1] = d
        BY <2>0, AppendProperties
      <4>3. \A i \in 1..Length : Content'[i] = Content[i]
        <5>1. \A i \in 1..Length : i - 1 \in 0..(Length - 1) /\ i \in 1..(Length + 1)
          BY <2>0
        <5> QED
          BY <2>0, <2>1, <4>1, <5>1
      <4>4. Content'[Length + 1] = d
        <5>1. \A n \in Nat : n = Length => n + 1 \in 1..Length' /\ (n + 1) - 1 = n
          BY <2>0, <4>1
        <5> QED
          BY <2>0, <2>1, <4>1, <5>1
      <4>5. Content' = Append(Content, d)
        <5>1. \A i \in 1..(Length + 1) : i = Length + 1 \/ i \in 1..Length
          BY <2>0
        <5>2. \A i \in 1..Len(Content') : Content'[i] = Append(Content, d)[i]
          BY <2>0, <2>1, <4>1, <4>2, <4>3, <4>4, <5>1
        <5> QED
          BY <2>1, <4>1, <4>2, <5>2, SeqEqual
      <4>6. Fifo!Put(d)
        BY <2>0, <2>2, <3>2, <4>1, <4>5 DEF Fifo!Put, Fifo!Accepted
      <4> QED
        BY <4>6 DEF Fifo!Next
    <3> QED
      BY <3>1, <3>2
  <2>5. CASE getQueue
    <3>1. CASE isQueueEmpty
      <4>1. Length = 0
        BY <1>2, <3>1, PlaceFacts DEF RingTrue, RingTypeOK, isQueueEmpty
      <4>2. Content = <<>>
        BY <2>0, <4>1, EmptySeq
      <4>3. got' = NONE /\ Content' = Content
        BY <2>5, <3>1 DEF getQueue, Content, Length, At
      <4>4. Fifo!Take
        BY <4>2, <4>3 DEF Fifo!Take
      <4> QED
        BY <4>4 DEF Fifo!Next
    <3>2. CASE ~isQueueEmpty
      <4>1. /\ Length' = Length - 1 /\ Length \in Nat \ {0}
            /\ got' = tableBuffer[At(0)]
            /\ \A i \in 0..(Length' - 1) : tableBuffer'[At(i)'] = tableBuffer[At(i + 1)]
        BY <1>2, <2>5, <3>2, GetStep
      <4>2. Content # <<>>
        BY <2>0, <4>1, EmptySeq
      <4>3. /\ Tail(Content) \in Seq(Data) /\ Len(Tail(Content)) = Length - 1
            /\ \A i \in 1..(Length - 1) : Tail(Content)[i] = Content[i + 1]
        BY <2>0, <4>2, HeadTailProperties
      <4>4. \A i \in 1..(Length - 1) : Content'[i] = Content[i + 1]
        <5>1. SUFFICES ASSUME NEW i \in 1..(Length - 1)
                       PROVE  Content'[i] = Content[i + 1]
          OBVIOUS
        <5>2. PICK j \in Int : j = i - 1
          OBVIOUS
        <5>3. /\ i \in 1..Length' /\ j \in 0..(Length' - 1)
              /\ j + 1 = i /\ (i + 1) - 1 = i /\ i + 1 \in 1..Length
          BY <4>1, <5>2
        <5>4. Content'[i] = tableBuffer'[At(j)']
          BY <2>1, <5>2, <5>3
        <5>5. tableBuffer'[At(j)'] = tableBuffer[At(i)]
          BY <4>1, <5>3
        <5>6. Content[i + 1] = tableBuffer[At(i)]
          BY <2>0, <5>3
        <5> QED
          BY <5>4, <5>5, <5>6
      <4>5. Content' = Tail(Content)
        <5>1. \A i \in 1..Len(Content') : Content'[i] = Tail(Content)[i]
          BY <2>1, <4>1, <4>3, <4>4
        <5> QED
          BY <2>1, <4>1, <4>3, <5>1, SeqEqual
      <4>6. got' = Head(Content)
        <5>1. 1 \in 1..Length /\ 1 - 1 = 0
          BY <4>1
        <5>2. Content[1] = tableBuffer[At(0)]
          BY <2>0, <5>1
        <5> QED
          BY <2>0, <4>1, <4>2, <5>2, HeadFirst
      <4>7. Fifo!Take
        BY <4>2, <4>5, <4>6 DEF Fifo!Take
      <4> QED
        BY <4>7 DEF Fifo!Next
    <3> QED
      BY <3>1, <3>2
  <2> QED
    BY <1>2, <2>3, <2>4, <2>5 DEF RingNext
<1> QED
  BY <1>1, <1>2, InitRing, StepRing, PTL DEF RingSpec, IsFifo, Fifo!Spec

-----------------------------------------------------------------------------
(***************************************************************************)
(* Induction over the numbers, for sets.                                   *)
(***************************************************************************)
LEMMA LeastNat ==
  ASSUME NEW S \in SUBSET Nat, S # {}
  PROVE  \E m \in S : \A x \in S : m <= x
<1>1. PICK U : U = {0..n : n \in S}
  OBVIOUS
<1>2. ASSUME NEW t \in U PROVE t \in FiniteSubsetsOf(Nat)
  <2>1. PICK n \in S : t = 0..n
    BY <1>1
  <2>2. IsFiniteSet(0..n) /\ 0..n \in SUBSET Nat
    BY FS_Interval
  <2> QED
    BY <2>1, <2>2 DEF FiniteSubsetsOf
<1>3. PICK t \in U : \A y \in U : <<y, t>> \notin StrictSubsetOrdering(Nat)
  <2>1. U \subseteq FiniteSubsetsOf(Nat) /\ U # {}
    BY <1>1, <1>2
  <2> QED
    BY <2>1, FS_StrictSubsetOrderingWellFounded, WFMin, Zenon
<1>4. PICK m \in S : t = 0..m
  BY <1>1
<1>5. ASSUME NEW x \in S, x < m PROVE FALSE
  <2>1. 0..x \in U
    BY <1>1
  <2>2. 0..x \subseteq 0..m /\ 0..x \in SUBSET Nat /\ 0..m \in SUBSET Nat
    BY <1>5
  <2>3. m \in 0..m /\ m \notin 0..x
    BY <1>5
  <2>4. <<0..x, 0..m>> \in StrictSubsetOrdering(Nat)
    BY <2>2, <2>3 DEF StrictSubsetOrdering
  <2> QED
    BY <1>3, <1>4, <2>1, <2>4
<1>6. \A x \in S : m <= x
  <2>1. \A x \in S : x \in Nat /\ m \in Nat
    OBVIOUS
  <2> QED
    BY <1>5, <2>1
<1> QED
  BY <1>6

LEMMA Grows ==
  ASSUME NEW S, 0 \in S, \A n \in Nat : n \in S => n + 1 \in S
  PROVE  Nat \subseteq S
<1>1. SUFFICES ASSUME Nat \ S # {} PROVE FALSE
  OBVIOUS
<1>2. PICK m \in Nat \ S : \A x \in Nat \ S : m <= x
  <2>1. Nat \ S \in SUBSET Nat
    OBVIOUS
  <2> QED
    BY <1>1, <2>1, LeastNat
<1>3. m # 0 /\ m - 1 \in Nat /\ ~(m <= m - 1)
  OBVIOUS
<1>4. m - 1 \in S
  BY <1>2, <1>3
<1> QED
  BY <1>3, <1>4

-----------------------------------------------------------------------------
(***************************************************************************)
(* Chains.                                                                 *)
(***************************************************************************)
\* What is met after the address a.
After(h, a) == IF a \in DOMAIN h THEN h[a].next ELSE NULL

\* The way from n, as long as the heap.
IsWay(h, n, f) ==
  f = [i \in 1..(Cardinality(DOMAIN h) + 1) |-> IF i = 1 THEN n ELSE After(h, f[i - 1])]

LEMMA WayExists ==
  ASSUME NEW h, IsFiniteSet(DOMAIN h), NEW n
  PROVE  \E f : IsWay(h, n, f)
<1>1. PICK l \in Nat : l = Cardinality(DOMAIN h) + 1
  BY FS_CardinalityType
<1>2. PICK S : S = {k \in Nat : \E f : \A i \in 1..l : i <= k =>
                      f[i] = IF i = 1 THEN n ELSE After(h, f[i - 1])}
  OBVIOUS
<1>3. 0 \in S
  <2>1. \A i \in 1..l : ~(i <= 0)
    OBVIOUS
  <2> QED
    BY <1>2, <2>1
<1>4. ASSUME NEW k \in Nat, k \in S PROVE k + 1 \in S
  <2>1. PICK f : \A i \in 1..l : i <= k => f[i] = IF i = 1 THEN n ELSE After(h, f[i - 1])
    BY <1>2, <1>4
  <2>2. PICK g : g = [i \in 1..l |-> IF i = 1 THEN n ELSE After(h, f[i - 1])]
    OBVIOUS
  <2>3. \A i \in 1..l : i <= k => g[i] = f[i]
    BY <2>1, <2>2, Zenon
  <2>4. \A i \in 1..l : i # 1 /\ i <= k + 1 => i - 1 \in 1..l /\ i - 1 <= k
    OBVIOUS
  <2>5. ASSUME NEW i \in 1..l, i <= k + 1
        PROVE  g[i] = IF i = 1 THEN n ELSE After(h, g[i - 1])
    <3>1. g[i] = IF i = 1 THEN n ELSE After(h, f[i - 1])
      BY <2>2, Zenon
    <3>2. i # 1 => g[i - 1] = f[i - 1]
      BY <2>3, <2>4, <2>5
    <3> QED
      BY <3>1, <3>2, Zenon
  <2>6. k + 1 \in Nat
    OBVIOUS
  <2>7. \E e : \A i \in 1..l : i <= k + 1 => e[i] = IF i = 1 THEN n ELSE After(h, e[i - 1])
    BY <2>5, Zenon
  <2> QED
    BY <1>2, <2>6, <2>7
<1>5. l \in S
  <2>1. \A k \in Nat : k \in S => k + 1 \in S
    BY <1>4
  <2>2. Nat \subseteq S
    BY <1>3, <2>1, Grows
  <2> QED
    BY <2>2
<1>6. PICK f : \A i \in 1..l : i <= l => f[i] = IF i = 1 THEN n ELSE After(h, f[i - 1])
  BY <1>2, <1>5
<1>7. PICK g : g = [i \in 1..l |-> f[i]]
  OBVIOUS
<1>8. \A i \in 1..l : (i # 1 => i - 1 \in 1..l) /\ i <= l
  OBVIOUS
<1>9. g = [i \in 1..l |-> IF i = 1 THEN n ELSE After(h, g[i - 1])]
  <2>1. \A i \in 1..l : f[i] = IF i = 1 THEN n ELSE After(h, g[i - 1])
    BY <1>6, <1>7, <1>8, Zenon
  <2> QED
    BY <1>7, <2>1, Zenon
<1> QED
  BY <1>1, <1>9 DEF IsWay

\* A chain is what is met on the way, without the null pointers at its end.
LEMMA ChainIsWay ==
  ASSUME NEW h, IsFiniteSet(DOMAIN h), NEW n
  PROVE  \E f : /\ IsWay(h, n, f)
                /\ Chain(h, n) = [i \in 1..Cardinality({j \in DOMAIN f : f[j] # NULL}) |-> f[i]]
<1>1. PICK e : IsWay(h, n, e)
  BY WayExists
<1>2. PICK f : f = CHOOSE way : way = [i \in 1..(Cardinality(DOMAIN h) + 1) |->
                      IF i = 1 THEN n
                      ELSE IF way[i - 1] \in DOMAIN h THEN h[way[i - 1]].next ELSE NULL]
  OBVIOUS
<1>3. e = [i \in 1..(Cardinality(DOMAIN h) + 1) |->
             IF i = 1 THEN n ELSE IF e[i - 1] \in DOMAIN h THEN h[e[i - 1]].next ELSE NULL]
  BY <1>1, Zenon DEF IsWay, After
<1>4. f = [i \in 1..(Cardinality(DOMAIN h) + 1) |->
             IF i = 1 THEN n ELSE IF f[i - 1] \in DOMAIN h THEN h[f[i - 1]].next ELSE NULL]
  BY <1>2, <1>3, Zenon
<1>5. IsWay(h, n, f)
  BY <1>4, Zenon DEF IsWay, After
<1>6. Chain(h, n) = [i \in 1..Cardinality({j \in DOMAIN f : f[j] # NULL}) |-> f[i]]
  <2> DEFINE W == CHOOSE way : way = [i \in 1..(Cardinality(DOMAIN h) + 1) |->
                      IF i = 1 THEN n
                      ELSE IF way[i - 1] \in DOMAIN h THEN h[way[i - 1]].next ELSE NULL]
  <2>1. Chain(h, n) = [i \in 1..Cardinality({j \in DOMAIN W : W[j] # NULL}) |-> W[i]]
    BY DEF Chain
  <2>2. f = W
    BY <1>2, Zenon
  <2> HIDE DEF W
  <2> QED
    BY <2>1, <2>2, Zenon
<1> QED
  BY <1>5, <1>6

LEMMA ChainFacts ==
  ASSUME NEW h, IsFiniteSet(DOMAIN h), NULL \notin DOMAIN h, NEW n
  PROVE  \E f, k, l :
           /\ l \in Nat /\ l = Cardinality(DOMAIN h) + 1 /\ k \in 0..l
           /\ Chain(h, n) = [i \in 1..k |-> f[i]] /\ f[1] = n
           /\ \A i \in 1..l : i # 1 => f[i] = After(h, f[i - 1])
           /\ \A i \in 1..l : f[i] # NULL <=> i <= k
<1>1. PICK f : /\ IsWay(h, n, f)
               /\ Chain(h, n) = [i \in 1..Cardinality({j \in DOMAIN f : f[j] # NULL}) |-> f[i]]
  BY ChainIsWay
<1>2. PICK l \in Nat : l = Cardinality(DOMAIN h) + 1 /\ l >= 1
  BY FS_CardinalityType
<1>3. /\ DOMAIN f = 1..l /\ f[1] = n
      /\ \A i \in 1..l : i # 1 => f[i] = After(h, f[i - 1])
  <2>1. f = [i \in 1..l |-> IF i = 1 THEN n ELSE After(h, f[i - 1])]
    BY <1>1, <1>2, Zenon DEF IsWay
  <2>2. 1 \in 1..l
    BY <1>2
  <2> QED
    BY <2>1, <2>2, Zenon
<1>4. \A i \in 1..l : i # 1 /\ f[i] # NULL => f[i - 1] # NULL
  BY <1>3 DEF After
<1>5. PICK S : S = {i \in Nat : i = l \/ (i + 1 \in 1..l /\ f[i + 1] = NULL)}
  OBVIOUS
<1>6. PICK k \in S : \A x \in S : k <= x
  BY <1>2, <1>5, LeastNat
<1>7. k \in 0..l
  BY <1>2, <1>5, <1>6
<1>8. ASSUME NEW i \in 1..l, i <= k PROVE f[i] # NULL
  <2>1. i - 1 \in Nat /\ (i - 1) + 1 = i /\ ~(k <= i - 1) /\ i - 1 # l
    BY <1>7, <1>8
  <2>2. i - 1 \notin S
    BY <1>6, <2>1
  <2> QED
    BY <1>5, <2>1, <2>2
<1>9. ASSUME NEW i \in 1..l, ~(i <= k) PROVE f[i] = NULL
  <2>1. PICK T : T = {d \in Nat : k + 1 + d \in 1..l => f[k + 1 + d] = NULL}
    OBVIOUS
  <2>2. 0 \in T
    <3>1. k + 1 \in 1..l /\ k # l
      BY <1>7, <1>9
    <3>2. f[k + 1] = NULL
      BY <1>5, <1>6, <3>1
    <3>3. k + 1 + 0 = k + 1
      BY <1>7
    <3> QED
      BY <2>1, <3>2, <3>3
  <2>3. ASSUME NEW d \in Nat, d \in T PROVE d + 1 \in T
    <3> SUFFICES ASSUME k + 1 + (d + 1) \in 1..l PROVE f[k + 1 + (d + 1)] = NULL
      BY <2>1
    <3>1. PICK j \in 1..l : j = k + 1 + (d + 1) /\ j # 1 /\ j - 1 = k + 1 + d /\ k + 1 + d \in 1..l
      BY <1>7
    <3>2. f[j - 1] = NULL
      BY <2>1, <2>3, <3>1
    <3> QED
      BY <1>4, <3>1, <3>2
  <2>4. i - k - 1 \in Nat /\ k + 1 + (i - k - 1) = i
    BY <1>7, <1>9
  <2>5. i - k - 1 \in T
    <3>1. \A d \in Nat : d \in T => d + 1 \in T
      BY <2>3
    <3>2. Nat \subseteq T
      BY <2>2, <3>1, Grows
    <3> QED
      BY <2>4, <3>2
  <2> QED
    BY <2>1, <2>4, <2>5
<1>10. Cardinality({j \in DOMAIN f : f[j] # NULL}) = k
  <2>1. {j \in DOMAIN f : f[j] # NULL} = 1..k
    <3>1. \A j : j \in 1..k <=> j \in 1..l /\ j <= k
      BY <1>2, <1>7
    <3> QED
      BY <1>3, <1>8, <1>9, <3>1
  <2>2. Cardinality(1..k) = k
    <3>1. 1 \in Int /\ k \in Int /\ k \in Nat
      BY <1>7
    <3>2. Cardinality(1..k) = IF 1 > k THEN 0 ELSE k - 1 + 1
      BY <3>1, FS_Interval
    <3> QED
      BY <3>1, <3>2
  <2> QED
    BY <2>1, <2>2
<1> QED
  BY <1>1, <1>2, <1>3, <1>7, <1>8, <1>9, <1>10

\* The nodes of c, each once, are met from n to the end.
IsWalk(h, c, n) ==
  /\ c \in Seq(DOMAIN h)
  /\ \A i, j \in 1..Len(c) : c[i] = c[j] => i = j
  /\ c = <<>> <=> n = NULL
  /\ c # <<>> => c[1] = n
  /\ \A i \in 1..Len(c) : h[c[i]].next = IF i = Len(c) THEN NULL ELSE c[i + 1]

LEMMA InjectiveIsShort ==
  ASSUME NEW D, IsFiniteSet(D), NEW k \in Nat, NEW c \in [1..k -> D],
         \A i, j \in 1..k : c[i] = c[j] => i = j
  PROVE  k <= Cardinality(D)
<1>1. c \in Injection(1..k, D)
  BY DEF Injection, IsInjective
<1>2. Cardinality(1..k) <= Cardinality(D)
  BY <1>1, FS_Injection
<1>3. Cardinality(1..k) = IF 1 > k THEN 0 ELSE k - 1 + 1
  BY FS_Interval
<1> QED
  BY <1>2, <1>3

LEMMA WalkIsChain ==
  ASSUME NEW h, IsFiniteSet(DOMAIN h), NULL \notin DOMAIN h, NEW n, NEW c, IsWalk(h, c, n)
  PROVE  Chain(h, n) = c
<1>1. PICK f, k, l :
        /\ l \in Nat /\ l = Cardinality(DOMAIN h) + 1 /\ k \in 0..l
        /\ Chain(h, n) = [i \in 1..k |-> f[i]] /\ f[1] = n
        /\ \A i \in 1..l : i # 1 => f[i] = After(h, f[i - 1])
        /\ \A i \in 1..l : f[i] # NULL <=> i <= k
  BY ChainFacts
<1>2. /\ c \in [1..Len(c) -> DOMAIN h] /\ Len(c) \in Nat
      /\ c = [i \in 1..Len(c) |-> c[i]]
  <2>1. c \in Seq(DOMAIN h)
    BY DEF IsWalk
  <2> QED
    BY <2>1
<1>3. PICK m \in Nat : m = Len(c)
  BY <1>2
<1>4. m < l
  <2>1. \A i, j \in 1..m : c[i] = c[j] => i = j
    BY <1>3 DEF IsWalk
  <2>2. m <= Cardinality(DOMAIN h) /\ Cardinality(DOMAIN h) \in Nat
    BY <1>2, <1>3, <2>1, InjectiveIsShort, FS_CardinalityType
  <2> QED
    BY <1>1, <2>2
<1>5. \A i \in 1..m : h[c[i]].next = IF i = m THEN NULL ELSE c[i + 1]
  BY <1>3 DEF IsWalk
<1>6. PICK S : S = {i \in Nat : i \in 1..m => f[i] = c[i]}
  OBVIOUS
<1>7. \A i \in Nat : i \in S => i + 1 \in S
  <2> SUFFICES ASSUME NEW i \in Nat, i \in S, i + 1 \in 1..m PROVE f[i + 1] = c[i + 1]
    BY <1>6
  <2>1. CASE i = 0
    <3>1. c # <<>>
      BY <1>3, <2>1, EmptySeq
    <3> QED
      BY <1>1, <2>1, <3>1 DEF IsWalk
  <2>2. CASE i # 0
    <3>1. i \in 1..m /\ i # m /\ i + 1 \in 1..l /\ i + 1 # 1 /\ (i + 1) - 1 = i
      BY <1>1, <1>4, <2>2
    <3>2. f[i] = c[i] /\ c[i] \in DOMAIN h
      BY <1>2, <1>3, <1>6, <3>1
    <3>3. f[i + 1] = After(h, f[(i + 1) - 1])
      BY <1>1, <3>1
    <3>4. f[i + 1] = After(h, f[i])
      BY <3>1, <3>3
    <3> QED
      BY <1>5, <3>1, <3>2, <3>4 DEF After
  <2> QED
    BY <2>1, <2>2
<1>8. ASSUME NEW i \in 1..m PROVE f[i] = c[i]
  <2>1. 0 \in S
    BY <1>6
  <2>2. Nat \subseteq S
    BY <1>7, <2>1, Grows
  <2> QED
    BY <1>6, <2>2
<1>9. f[m + 1] = NULL
  <2>1. CASE m = 0
    <3>1. n = NULL
      BY <1>2, <1>3, <2>1, EmptySeq DEF IsWalk
    <3> QED
      BY <1>1, <2>1, <3>1
  <2>2. CASE m # 0
    <3>1. m \in 1..m /\ m + 1 \in 1..l /\ m + 1 # 1 /\ (m + 1) - 1 = m
      BY <1>1, <1>4, <2>2
    <3>2. f[m] = c[m] /\ c[m] \in DOMAIN h /\ h[c[m]].next = NULL
      BY <1>2, <1>3, <1>5, <1>8, <3>1
    <3>3. f[m + 1] = After(h, f[(m + 1) - 1])
      BY <1>1, <3>1
    <3>4. f[m + 1] = After(h, f[m])
      BY <3>1, <3>3
    <3> QED
      BY <3>2, <3>4 DEF After
  <2> QED
    BY <2>1, <2>2
<1>10. k = m
  <2>1. ~(m + 1 <= k)
    <3>1. m + 1 \in 1..l
      BY <1>1, <1>4
    <3> QED
      BY <1>1, <1>9, <3>1
  <2>2. m <= k
    <3>1. CASE m = 0
      BY <1>1, <3>1
    <3>2. CASE m # 0
      <4>1. m \in 1..m /\ m \in 1..l
        BY <1>1, <1>4, <3>2
      <4>2. f[m] # NULL
        BY <1>2, <1>3, <1>8, <4>1
      <4> QED
        BY <1>1, <4>1, <4>2
    <3> QED
      BY <3>1, <3>2
  <2> QED
    BY <1>1, <2>1, <2>2
<1>11. [i \in 1..m |-> f[i]] = [i \in 1..m |-> c[i]]
  BY <1>8
<1> QED
  BY <1>1, <1>2, <1>3, <1>10, <1>11

\* Nodes that point back are met once.
LEMMA ChainIsWalk ==
  ASSUME NEW h, IsFiniteSet(DOMAIN h), NULL \notin DOMAIN h, NEW n, NEW p,
         ToSet(Chain(h, n)) \subseteq DOMAIN h, p \notin ToSet(Chain(h, n)),
         \A i \in DOMAIN Chain(h, n) :
           h[Chain(h, n)[i]].prev = IF i = 1 THEN p ELSE Chain(h, n)[i - 1]
  PROVE  IsWalk(h, Chain(h, n), n)
<1>1. PICK f, k, l :
        /\ l \in Nat /\ l = Cardinality(DOMAIN h) + 1 /\ k \in 0..l
        /\ Chain(h, n) = [i \in 1..k |-> f[i]] /\ f[1] = n
        /\ \A i \in 1..l : i # 1 => f[i] = After(h, f[i - 1])
        /\ \A i \in 1..l : f[i] # NULL <=> i <= k
  BY ChainFacts
<1>2. PICK c : c = Chain(h, n)
  OBVIOUS
<1>3. /\ DOMAIN c = 1..k /\ k \in Nat /\ \A i \in 1..k : c[i] = f[i] /\ i \in 1..l
      /\ c = [i \in 1..k |-> c[i]]
  BY <1>1, <1>2
<1>4. \A i \in 1..k : c[i] \in DOMAIN h /\ c[i] # p
  BY <1>2, <1>3 DEF ToSet
<1>5. \A i \in 1..k : h[c[i]].prev = IF i = 1 THEN p ELSE c[i - 1]
  BY <1>2, <1>3
<1>6. c \in [1..k -> DOMAIN h] /\ c \in Seq(DOMAIN h) /\ Len(c) = k
  BY <1>3, <1>4, IsASeq
<1>7. ASSUME NEW i \in 1..k, NEW j \in 1..k, c[i] = c[j], i < j PROVE FALSE
  <2>1. PICK S : S = {a \in Nat : a \in 1..k /\ \E b \in 1..k : a < b /\ c[a] = c[b]}
    OBVIOUS
  <2>2. i \in S
    BY <1>7, <2>1
  <2>3. PICK a \in S : \A x \in S : a <= x
    BY <2>1, <2>2, LeastNat
  <2>4. PICK b \in 1..k : a < b /\ c[a] = c[b] /\ a \in 1..k
    BY <2>1, <2>3
  <2>5. b # 1 /\ b - 1 \in 1..k /\ h[c[a]].prev = c[b - 1]
    BY <1>3, <1>5, <2>4, SMTT(30)
  <2>6. a # 1
    BY <1>4, <1>5, <2>4, <2>5
  <2>7. /\ a - 1 \in 1..k /\ a - 1 < b - 1 /\ a - 1 \in Nat /\ ~(a <= a - 1)
        /\ c[a - 1] = c[b - 1]
    BY <1>3, <1>5, <2>4, <2>5, <2>6
  <2>8. a - 1 \in S
    BY <2>1, <2>5, <2>7
  <2> QED
    BY <2>3, <2>7, <2>8
<1>8. \A i, j \in 1..k : c[i] = c[j] => i = j
  <2>1. \A i, j \in 1..k : i < j \/ j < i \/ i = j
    BY <1>3
  <2> QED
    BY <1>7, <2>1
<1>9. k < l
  <2>1. k <= Cardinality(DOMAIN h) /\ Cardinality(DOMAIN h) \in Nat
    BY <1>3, <1>6, <1>8, InjectiveIsShort, FS_CardinalityType
  <2> QED
    BY <1>1, <2>1
<1>10. ASSUME NEW i \in 1..k PROVE h[c[i]].next = IF i = k THEN NULL ELSE c[i + 1]
  <2>1. i + 1 \in 1..l /\ i + 1 # 1 /\ (i + 1) - 1 = i
    BY <1>1, <1>9
  <2>2. f[i + 1] = After(h, f[(i + 1) - 1])
    BY <1>1, <2>1
  <2>3. f[i + 1] = h[c[i]].next
    BY <1>3, <1>4, <2>1, <2>2 DEF After
  <2>4. f[i + 1] # NULL <=> i + 1 <= k
    BY <1>1, <2>1
  <2>5. i # k => i + 1 \in 1..k
    BY <1>3
  <2>6. i = k => ~(i + 1 <= k)
    BY <1>3
  <2> QED
    BY <1>3, <2>3, <2>4, <2>5, <2>6
<1>11. (c = <<>> <=> n = NULL) /\ (c # <<>> => c[1] = n)
  <2>1. c = <<>> <=> k = 0
    BY <1>6, EmptySeq
  <2>2. 1 \in 1..l
    BY <1>1, <1>9
  <2>3. n # NULL <=> 1 <= k
    BY <1>1, <2>2
  <2>4. k # 0 => 1 \in 1..k /\ 1 <= k
    BY <1>3
  <2>5. k = 0 => ~(1 <= k)
    OBVIOUS
  <2> QED
    BY <1>1, <1>3, <2>1, <2>3, <2>4, <2>5
<1> QED
  BY <1>2, <1>6, <1>8, <1>10, <1>11 DEF IsWalk

-----------------------------------------------------------------------------
(***************************************************************************)
(* Rows of nodes that can be walked both ways.                             *)
(***************************************************************************)
\* A record with the two pointers.
IsNode(r) == r = [f \in DOMAIN r |-> r[f]] /\ {"next", "prev"} \subseteq DOMAIN r

\* The node r between two others.
Between(r, a, b) == [r EXCEPT !.next = a, !.prev = b]

LEMMA BetweenIs ==
  ASSUME NEW r, IsNode(r), NEW a, NEW b
  PROVE  /\ Between(r, a, b).next = a /\ Between(r, a, b).prev = b
         /\ DOMAIN Between(r, a, b) = DOMAIN r /\ IsNode(Between(r, a, b))
BY DEF IsNode, Between

LEMMA BetweenKeeps ==
  ASSUME NEW r, IsNode(r), NEW a, NEW b, NEW f \in DOMAIN r \ {"next", "prev"}
  PROVE  Between(r, a, b)[f] = r[f]
BY DEF IsNode, Between

\* Only one pointer is set.
LEMMA OnePointer ==
  ASSUME NEW r, IsNode(r), NEW a
  PROVE  /\ [r EXCEPT !.next = a] = Between(r, a, r.prev)
         /\ [r EXCEPT !.prev = a] = Between(r, r.next, a)
         /\ r = Between(r, r.next, r.prev)
BY DEF IsNode, Between

LEMMA BetweenTwice ==
  ASSUME NEW r, IsNode(r), NEW a, NEW b, NEW c, NEW d
  PROVE  Between(Between(r, a, b), c, d) = Between(r, c, d)
BY DEF IsNode, Between

IsHeap(h) ==
  /\ IsFiniteSet(DOMAIN h) /\ NULL \notin DOMAIN h
  /\ h = [x \in DOMAIN h |-> h[x]]
  /\ \A x \in DOMAIN h : IsNode(h[x])

IsRow(h, c) ==
  /\ c \in Seq(DOMAIN h)
  /\ \A i, j \in 1..Len(c) : c[i] = c[j] => i = j
  /\ \A i \in 1..Len(c) : h[c[i]].next = IF i = Len(c) THEN NULL ELSE c[i + 1]
  /\ \A i \in 2..Len(c) : h[c[i]].prev = c[i - 1]

\* Where a row begins.
Start(c) == IF c = <<>> THEN NULL ELSE c[1]

LEMMA RowFacts ==
  ASSUME NEW h, NEW c, IsRow(h, c)
  PROVE  /\ Len(c) \in Nat /\ DOMAIN c = 1..Len(c) /\ c = [i \in 1..Len(c) |-> c[i]]
         /\ \A i \in 1..Len(c) : c[i] \in DOMAIN h
         /\ ToSet(c) = {c[i] : i \in 1..Len(c)} /\ ToSet(c) \subseteq DOMAIN h
         /\ c = <<>> <=> Len(c) = 0
         /\ \A i, j \in 1..Len(c) : c[i] = c[j] => i = j
         /\ \A i \in 1..Len(c) : h[c[i]].next = IF i = Len(c) THEN NULL ELSE c[i + 1]
         /\ \A i \in 2..Len(c) : h[c[i]].prev = c[i - 1]
<1>1. /\ c \in Seq(DOMAIN h)
      /\ \A i, j \in 1..Len(c) : c[i] = c[j] => i = j
      /\ \A i \in 1..Len(c) : h[c[i]].next = IF i = Len(c) THEN NULL ELSE c[i + 1]
      /\ \A i \in 2..Len(c) : h[c[i]].prev = c[i - 1]
  BY DEF IsRow
<1>2. /\ Len(c) \in Nat /\ DOMAIN c = 1..Len(c) /\ c = [i \in 1..Len(c) |-> c[i]]
      /\ \A i \in 1..Len(c) : c[i] \in DOMAIN h
  BY <1>1
<1>3. c = <<>> <=> Len(c) = 0
  BY <1>1, EmptySeq
<1>4. ToSet(c) = {c[i] : i \in 1..Len(c)}
  BY <1>2 DEF ToSet
<1> QED
  BY <1>1, <1>2, <1>3, <1>4

LEMMA RowIsChain ==
  ASSUME NEW h, IsHeap(h), NEW c, IsRow(h, c)
  PROVE  Chain(h, Start(c)) = c
<1>1. Start(c) = NULL <=> c = <<>>
  <2>1. c # <<>> => 1 \in 1..Len(c)
    BY RowFacts
  <2>2. c # <<>> => c[1] \in DOMAIN h
    BY <2>1, RowFacts
  <2> QED
    BY <2>2 DEF Start, IsHeap
<1>2. IsWalk(h, c, Start(c))
  BY <1>1 DEF IsWalk, IsRow, Start
<1> QED
  BY <1>2, WalkIsChain DEF IsHeap

\* What a chain shows that points back.
LEMMA ChainIsRow ==
  ASSUME NEW h, IsHeap(h), NEW n, NEW p,
         ToSet(Chain(h, n)) \subseteq DOMAIN h, p \notin ToSet(Chain(h, n)),
         \A i \in DOMAIN Chain(h, n) :
           h[Chain(h, n)[i]].prev = IF i = 1 THEN p ELSE Chain(h, n)[i - 1]
  PROVE  IsRow(h, Chain(h, n)) /\ n = Start(Chain(h, n))
<1>1. PICK c : c = Chain(h, n)
  OBVIOUS
<1>2. IsWalk(h, c, n)
  BY <1>1, ChainIsWalk DEF IsHeap
<1>3. DOMAIN c = 1..Len(c)
  BY <1>2 DEF IsWalk
<1>4. \A i \in 2..Len(c) : i \in 1..Len(c) /\ i # 1
  OBVIOUS
<1>5. \A i \in 2..Len(c) : h[c[i]].prev = c[i - 1]
  BY <1>1, <1>3, <1>4
<1> QED
  BY <1>1, <1>2, <1>5 DEF IsWalk, IsRow, Start

LEMMA RowStays ==
  ASSUME NEW h, NEW g, NEW c, IsRow(h, c),
         \A x \in ToSet(c) : /\ x \in DOMAIN g
                             /\ g[x].next = h[x].next /\ g[x].prev = h[x].prev
  PROVE  IsRow(g, c)
<1>1. \A i \in 1..Len(c) : c[i] \in ToSet(c)
  BY RowFacts
<1>2. c \in Seq(DOMAIN g)
  <2>1. c \in [1..Len(c) -> DOMAIN g] /\ Len(c) \in Nat
    BY <1>1, RowFacts
  <2> QED
    BY <2>1
<1>3. \A i \in 2..Len(c) : i \in 1..Len(c)
  OBVIOUS
<1> QED
  BY <1>1, <1>2, <1>3, RowFacts DEF IsRow

\* Two rows that begin at different nodes have no node in common.
LEMMA RowsApart ==
  ASSUME NEW h, NEW c, NEW d, IsRow(h, c), IsRow(h, d), c # <<>>, d # <<>>,
         c[1] # d[1], h[c[1]].prev \notin ToSet(d), h[d[1]].prev \notin ToSet(c)
  PROVE  ToSet(c) \cap ToSet(d) = {}
<1>1. SUFFICES ASSUME NEW a \in 1..Len(c), NEW b \in 1..Len(d), c[a] = d[b] PROVE FALSE
  BY RowFacts
<1>2. PICK S : S = {i \in Nat : i \in 1..Len(c) /\ \E j \in 1..Len(d) : c[i] = d[j]}
  OBVIOUS
<1>3. PICK i \in S : \A x \in S : i <= x
  <2>1. a \in S /\ S \in SUBSET Nat
    BY <1>1, <1>2, RowFacts
  <2> QED
    BY <2>1, LeastNat
<1>4. PICK j \in 1..Len(d) : i \in 1..Len(c) /\ i \in Nat /\ c[i] = d[j]
  BY <1>2, <1>3
<1>5. \A k \in 1..Len(c) : k # 1 => k - 1 \in 1..Len(c) /\ h[c[k]].prev = c[k - 1]
  <2>1. \A k \in 1..Len(c) : k # 1 => k - 1 \in 1..Len(c) /\ k \in 2..Len(c)
    BY RowFacts
  <2> QED
    BY <2>1, RowFacts
<1>6. \A k \in 1..Len(d) : k # 1 => k - 1 \in 1..Len(d) /\ h[d[k]].prev = d[k - 1]
  <2>1. \A k \in 1..Len(d) : k # 1 => k - 1 \in 1..Len(d) /\ k \in 2..Len(d)
    BY RowFacts
  <2> QED
    BY <2>1, RowFacts
<1>7. i # 1 /\ j # 1
  <2>1. ToSet(c) = {c[k] : k \in 1..Len(c)} /\ ToSet(d) = {d[k] : k \in 1..Len(d)}
    BY RowFacts
  <2>2. ~(i = 1 /\ j # 1)
    BY <1>4, <1>6, <2>1
  <2>3. ~(i # 1 /\ j = 1)
    BY <1>4, <1>5, <2>1
  <2> QED
    BY <1>4, <2>2, <2>3
<1>8. c[i - 1] = d[j - 1] /\ i - 1 \in 1..Len(c) /\ j - 1 \in 1..Len(d)
  BY <1>4, <1>5, <1>6, <1>7
<1>9. i - 1 \in S
  BY <1>2, <1>4, <1>8
<1> QED
  BY <1>3, <1>4, <1>9

\* The heap with the pointers of some nodes set.
LEMMA HeapIs ==
  ASSUME NEW h, IsHeap(h), NEW g, DOMAIN g = DOMAIN h, g = [x \in DOMAIN g |-> g[x]],
         \A x \in DOMAIN h : \E a, b : g[x] = Between(h[x], a, b)
  PROVE  IsHeap(g)
<1>1. ASSUME NEW x \in DOMAIN g PROVE IsNode(g[x])
  <2>1. IsNode(h[x]) /\ x \in DOMAIN h
    BY DEF IsHeap
  <2>2. PICK a, b : g[x] = Between(h[x], a, b)
    BY <2>1
  <2>3. IsNode(Between(h[x], a, b))
    BY <2>1, BetweenIs
  <2> QED
    BY <2>2, <2>3
<1> QED
  BY <1>1 DEF IsHeap

\* The heap when b comes after a.
Joined(h, a, b) ==
  [x \in DOMAIN h |-> Between(h[x], IF x = a THEN b ELSE h[x].next,
                                    IF x = b THEN a ELSE h[x].prev)]

LEMMA JoinedAt ==
  ASSUME NEW h, IsHeap(h), NEW a, NEW b, NEW x \in DOMAIN h
  PROVE  /\ Joined(h, a, b)[x] = Between(h[x], IF x = a THEN b ELSE h[x].next,
                                               IF x = b THEN a ELSE h[x].prev)
         /\ Joined(h, a, b)[x].next = IF x = a THEN b ELSE h[x].next
         /\ Joined(h, a, b)[x].prev = IF x = b THEN a ELSE h[x].prev
         /\ x # a /\ x # b => Joined(h, a, b)[x] = h[x]
<1>1. IsNode(h[x])
  BY DEF IsHeap
<1>2. PICK p, q : p = (IF x = a THEN b ELSE h[x].next) /\ q = IF x = b THEN a ELSE h[x].prev
  OBVIOUS
<1>3. Joined(h, a, b)[x] = Between(h[x], p, q)
  BY <1>2 DEF Joined
<1>4. Between(h[x], p, q).next = p /\ Between(h[x], p, q).prev = q
  BY <1>1, BetweenIs
<1>5. h[x] = Between(h[x], h[x].next, h[x].prev)
  BY <1>1, OnePointer
<1> QED
  BY <1>2, <1>3, <1>4, <1>5

LEMMA JoinedHeap ==
  ASSUME NEW h, IsHeap(h), NEW a, NEW b
  PROVE  IsHeap(Joined(h, a, b)) /\ DOMAIN Joined(h, a, b) = DOMAIN h
<1>1. PICK g : g = Joined(h, a, b)
  OBVIOUS
<1>2. DOMAIN g = DOMAIN h /\ g = [x \in DOMAIN g |-> g[x]]
  BY <1>1 DEF Joined
<1>3. \A x \in DOMAIN h : \E p, q : g[x] = Between(h[x], p, q)
  BY <1>1 DEF Joined
<1> QED
  BY <1>1, <1>2, <1>3, HeapIs

LEMMA JoinedIs ==
  ASSUME NEW h, IsHeap(h), NEW a \in DOMAIN h, NEW b \in DOMAIN h, a # b
  PROVE  [h EXCEPT ![a].next = b, ![b].prev = a] = Joined(h, a, b)
<1>1. \A x \in DOMAIN h : IsNode(h[x])
  BY DEF IsHeap
<1>2. PICK g : g = [h EXCEPT ![a].next = b, ![b].prev = a]
  OBVIOUS
<1>3. PICK e : e = [h EXCEPT ![a].next = b]
  OBVIOUS
<1>4. g = [e EXCEPT ![b].prev = a]
  BY <1>2, <1>3, Zenon
<1>5. e = [x \in DOMAIN h |-> IF x = a THEN [h[a] EXCEPT !.next = b] ELSE h[x]]
  BY <1>3
<1>6. g = [x \in DOMAIN h |-> IF x = b THEN [h[b] EXCEPT !.prev = a]
                             ELSE IF x = a THEN [h[a] EXCEPT !.next = b] ELSE h[x]]
  BY <1>4, <1>5
<1>7. ASSUME NEW x \in DOMAIN h
      PROVE  g[x] = Between(h[x], IF x = a THEN b ELSE h[x].next, IF x = b THEN a ELSE h[x].prev)
  <2>1. IsNode(h[x])
    BY <1>1
  <2>2. /\ [h[x] EXCEPT !.next = b] = Between(h[x], b, h[x].prev)
        /\ [h[x] EXCEPT !.prev = a] = Between(h[x], h[x].next, a)
        /\ h[x] = Between(h[x], h[x].next, h[x].prev)
    BY <2>1, OnePointer
  <2>3. g[x] = IF x = b THEN [h[x] EXCEPT !.prev = a]
               ELSE IF x = a THEN [h[x] EXCEPT !.next = b] ELSE h[x]
    BY <1>6
  <2> QED
    BY <2>2, <2>3
<1> QED
  BY <1>2, <1>6, <1>7 DEF Joined

LEMMA RowsJoin ==
  ASSUME NEW h, IsHeap(h), NEW c, NEW d, IsRow(h, c), IsRow(h, d), c # <<>>, d # <<>>,
         ToSet(c) \cap ToSet(d) = {}
  PROVE  /\ Last(c) \in ToSet(c) /\ d[1] \in ToSet(d) /\ Last(c) # d[1]
         /\ listNodeAppend(h, c[1], d[1]) = Joined(h, Last(c), d[1])
         /\ IsRow(Joined(h, Last(c), d[1]), c \o d)
<1>c. PICK m \in Nat : /\ m = Len(c) /\ m # 0
                       /\ \A i \in 1..m : c[i] \in DOMAIN h
                       /\ ToSet(c) = {c[i] : i \in 1..m}
                       /\ \A i, j \in 1..m : c[i] = c[j] => i = j
                       /\ \A i \in 1..m : h[c[i]].next = IF i = m THEN NULL ELSE c[i + 1]
                       /\ \A i \in 2..m : h[c[i]].prev = c[i - 1]
  BY RowFacts
<1>d. PICK n \in Nat : /\ n = Len(d) /\ n # 0
                       /\ \A i \in 1..n : d[i] \in DOMAIN h
                       /\ ToSet(d) = {d[i] : i \in 1..n}
                       /\ \A i, j \in 1..n : d[i] = d[j] => i = j
                       /\ \A i \in 1..n : h[d[i]].next = IF i = n THEN NULL ELSE d[i + 1]
                       /\ \A i \in 2..n : h[d[i]].prev = d[i - 1]
  BY RowFacts, SMTT(30)
<1>1. m \in Nat /\ n \in Nat /\ m = Len(c) /\ n = Len(d) /\ m # 0 /\ n # 0
  BY <1>c, <1>d
<1>2. m \in 1..m /\ 1 \in 1..n /\ Last(c) = c[m]
  BY <1>1 DEF Last
<1>3. PICK a, b : a = c[m] /\ b = d[1]
  OBVIOUS
<1>4. /\ a \in DOMAIN h /\ b \in DOMAIN h /\ a # b /\ a \in ToSet(c) /\ b \in ToSet(d)
      /\ h[a].next = NULL
  <2>1. a \in DOMAIN h /\ h[a].next = NULL /\ a \in ToSet(c)
    BY <1>c, <1>2, <1>3
  <2>2. b \in DOMAIN h /\ b \in ToSet(d)
    BY <1>d, <1>2, <1>3
  <2> QED
    BY <2>1, <2>2
<1>5. listNodeTail(h, c[1]) = a
  <2>1. Chain(h, c[1]) = c
    BY RowIsChain DEF Start
  <2> QED
    BY <1>2, <1>3, <2>1 DEF listNodeTail
<1>6. listNodeAppend(h, c[1], b) = Joined(h, a, b)
  BY <1>4, <1>5, JoinedIs DEF listNodeAppend, listNodeInsert
<1>7. PICK g : g = Joined(h, a, b)
  OBVIOUS
<1>8. /\ DOMAIN g = DOMAIN h
      /\ \A x \in DOMAIN h : /\ g[x].next = IF x = a THEN b ELSE h[x].next
                             /\ g[x].prev = IF x = b THEN a ELSE h[x].prev
  <2>1. /\ DOMAIN Joined(h, a, b) = DOMAIN h
        /\ \A x \in DOMAIN h :
             /\ Joined(h, a, b)[x].next = IF x = a THEN b ELSE h[x].next
             /\ Joined(h, a, b)[x].prev = IF x = b THEN a ELSE h[x].prev
    BY JoinedAt, JoinedHeap
  <2> QED
    BY <1>7, <2>1
<1>9. PICK s : s = c \o d
  OBVIOUS
<1>10. /\ s \in Seq(DOMAIN h) /\ Len(s) = m + n
       /\ \A i \in 1..m : s[i] = c[i]
       /\ \A i \in (m + 1)..(m + n) : s[i] = d[i - m] /\ i - m \in 1..n
  <2>1. c \in Seq(DOMAIN h) /\ d \in Seq(DOMAIN h)
    BY DEF IsRow
  <2> QED
    BY <1>c, <1>d, <1>1, <1>9, <2>1
<1>11. \A i \in 1..(m + n) : i \in 1..m \/ i \in (m + 1)..(m + n)
  BY <1>c, <1>d, <1>1
<1>12. \A i \in 1..m, j \in 1..n : c[i] # d[j]
  <2>1. \A i \in 1..m : c[i] \in ToSet(c)
    BY <1>c
  <2>2. \A j \in 1..n : d[j] \in ToSet(d)
    BY <1>d
  <2> QED
    BY <2>1, <2>2
<1>13. ASSUME NEW i \in 1..(m + n), NEW j \in 1..(m + n), s[i] = s[j] PROVE i = j
  <2>1. CASE i \in 1..m /\ j \in 1..m
    BY <1>c, <1>d, <1>1, <1>10, <1>13, <2>1
  <2>2. CASE i \in (m + 1)..(m + n) /\ j \in (m + 1)..(m + n)
    <3>1. i - m = j - m
      <4>1. s[i] = d[i - m] /\ s[j] = d[j - m] /\ i - m \in 1..n /\ j - m \in 1..n
        BY <1>10, <2>2
      <4> QED
        BY <1>d, <1>13, <4>1
    <3> QED
      BY <1>c, <1>d, <1>1, <3>1
  <2>3. CASE i \in 1..m /\ j \in (m + 1)..(m + n)
    BY <1>10, <1>12, <1>13, <2>3
  <2>4. CASE i \in (m + 1)..(m + n) /\ j \in 1..m
    BY <1>10, <1>12, <1>13, <2>4
  <2> QED
    BY <1>11, <2>1, <2>2, <2>3, <2>4
<1>14. ASSUME NEW i \in 1..(m + n)
       PROVE  g[s[i]].next = IF i = m + n THEN NULL ELSE s[i + 1]
  <2>1. CASE i \in 1..m /\ i # m
    <3>1. i + 1 \in 1..m /\ i # m + n
      BY <1>c, <1>d, <1>1, <2>1
    <3>2. c[i] # a /\ c[i] \in DOMAIN h /\ h[c[i]].next = c[i + 1]
      BY <1>c, <1>d, <1>1, <1>2, <1>3, <2>1
    <3> QED
      BY <1>8, <1>10, <2>1, <3>1, <3>2
  <2>2. CASE i = m
    <3>1. m \in 1..m /\ m + 1 \in (m + 1)..(m + n) /\ (m + 1) - m = 1 /\ m # m + n
      BY <1>c, <1>d, <1>1
    <3> QED
      BY <1>3, <1>4, <1>8, <1>10, <2>2, <3>1
  <2>3. CASE i \in (m + 1)..(m + n)
    <3>1. PICK j \in 1..n : j = i - m /\ s[i] = d[j]
      BY <1>10, <2>3
    <3>2. d[j] \in DOMAIN h /\ d[j] # a /\ h[d[j]].next = IF j = n THEN NULL ELSE d[j + 1]
      BY <1>c, <1>d, <1>1, <1>2, <1>3, <1>12, <3>1
    <3>3. j = n <=> i = m + n
      BY <1>1, <2>3, <3>1
    <3>4. i # m + n => i + 1 \in (m + 1)..(m + n) /\ (i + 1) - m = j + 1
      BY <1>1, <2>3, <3>1
    <3> QED
      BY <1>8, <1>10, <3>1, <3>2, <3>3, <3>4
  <2> QED
    BY <1>11, <2>1, <2>2, <2>3
<1>15. ASSUME NEW i \in 2..(m + n) PROVE g[s[i]].prev = s[i - 1]
  <2>1. CASE i \in 1..m
    <3>1. i \in 2..m /\ i - 1 \in 1..m
      BY <1>c, <1>d, <1>1, <2>1
    <3>2. c[i] # b /\ c[i] \in DOMAIN h /\ h[c[i]].prev = c[i - 1]
      BY <1>c, <1>d, <1>1, <1>2, <1>3, <1>12, <2>1, <3>1
    <3> QED
      BY <1>8, <1>10, <2>1, <3>1, <3>2
  <2>2. CASE i = m + 1
    <3>1. m + 1 \in (m + 1)..(m + n) /\ (m + 1) - m = 1 /\ (m + 1) - 1 = m /\ m \in 1..m
      BY <1>c, <1>d, <1>1
    <3>2. s[m + 1] = b
      BY <1>3, <1>10, <3>1
    <3>3. s[(m + 1) - 1] = a
      BY <1>3, <1>10, <3>1
    <3>4. g[b].prev = a
      BY <1>4, <1>8
    <3> QED
      BY <2>2, <3>2, <3>3, <3>4
  <2>3. CASE i \in (m + 2)..(m + n)
    <3>1. i \in (m + 1)..(m + n) /\ i - 1 \in (m + 1)..(m + n) /\ (i - 1) - m = (i - m) - 1
      BY <1>c, <1>d, <1>1, <2>3
    <3>2. PICK j \in 2..n : j = i - m /\ s[i] = d[j] /\ s[i - 1] = d[j - 1] /\ j \in 1..n /\ j # 1
      <4>1. i - m \in 2..n /\ i - m \in 1..n /\ i - m # 1
        BY <1>1, <2>3
      <4>2. s[i] = d[i - m] /\ s[i - 1] = d[(i - 1) - m]
        BY <1>10, <3>1
      <4> QED
        BY <3>1, <4>1, <4>2
    <3>3. d[j] \in DOMAIN h /\ d[j] # b /\ h[d[j]].prev = d[j - 1]
      BY <1>c, <1>d, <1>1, <1>2, <1>3, <3>2
    <3> QED
      BY <1>8, <3>2, <3>3
  <2>4. i \in 1..m \/ i = m + 1 \/ i \in (m + 2)..(m + n)
    BY <1>c, <1>d, <1>1
  <2> QED
    BY <2>1, <2>2, <2>3, <2>4
<1>16. IsRow(g, s)
  BY <1>8, <1>10, <1>13, <1>14, <1>15 DEF IsRow
<1> QED
  BY <1>2, <1>3, <1>4, <1>6, <1>7, <1>9, <1>16

\* A node is added, or some go.
LEMMA WithIs ==
  ASSUME NEW h, IsHeap(h), NEW n, n # NULL, NEW rec, IsNode(rec)
  PROVE  /\ IsHeap(With(h, n, rec)) /\ DOMAIN With(h, n, rec) = DOMAIN h \cup {n}
         /\ With(h, n, rec)[n] = rec
         /\ \A x \in DOMAIN h : x # n => With(h, n, rec)[x] = h[x]
<1>1. /\ IsFiniteSet(DOMAIN h) /\ NULL \notin DOMAIN h
      /\ \A x \in DOMAIN h : IsNode(h[x])
  BY DEF IsHeap
<1>2. PICK g : g = With(h, n, rec)
  OBVIOUS
<1>3. /\ DOMAIN g = DOMAIN h \cup {n} /\ g = [x \in DOMAIN g |-> g[x]]
      /\ g[n] = rec /\ \A x \in DOMAIN h : x # n => g[x] = h[x]
  BY <1>2 DEF With
<1>4. IsFiniteSet(DOMAIN g)
  BY <1>1, <1>3, FS_AddElement
<1>5. IsHeap(g)
  BY <1>1, <1>3, <1>4 DEF IsHeap
<1> QED
  BY <1>2, <1>3, <1>5

LEMMA FreeIs ==
  ASSUME NEW h, IsHeap(h), NEW S
  PROVE  /\ IsHeap(Free(h, S)) /\ DOMAIN Free(h, S) = DOMAIN h \ S
         /\ \A x \in DOMAIN h \ S : Free(h, S)[x] = h[x]
<1>1. /\ IsFiniteSet(DOMAIN h) /\ NULL \notin DOMAIN h
      /\ \A x \in DOMAIN h : IsNode(h[x])
  BY DEF IsHeap
<1>2. PICK g : g = Free(h, S)
  OBVIOUS
<1>3. /\ DOMAIN g = DOMAIN h \ S /\ g = [x \in DOMAIN g |-> g[x]]
      /\ \A x \in DOMAIN h \ S : g[x] = h[x]
  BY <1>2 DEF Free, Restrict
<1>4. IsFiniteSet(DOMAIN g)
  BY <1>1, <1>3, FS_Subset
<1>5. IsHeap(g)
  BY <1>1, <1>3, <1>4 DEF IsHeap
<1> QED
  BY <1>2, <1>3, <1>5

\* The heap when n is taken out of its chain and is released.
Cut(h, n) ==
  [x \in DOMAIN h \ {n} |->
     Between(h[x], IF x = h[n].prev THEN h[n].next ELSE h[x].next,
                   IF x = h[n].next THEN h[n].prev ELSE h[x].prev)]

LEMMA CutAt ==
  ASSUME NEW h, IsHeap(h), NEW n, NEW x \in DOMAIN h \ {n}
  PROVE  /\ Cut(h, n)[x] = Between(h[x], IF x = h[n].prev THEN h[n].next ELSE h[x].next,
                                         IF x = h[n].next THEN h[n].prev ELSE h[x].prev)
         /\ Cut(h, n)[x].next = IF x = h[n].prev THEN h[n].next ELSE h[x].next
         /\ Cut(h, n)[x].prev = IF x = h[n].next THEN h[n].prev ELSE h[x].prev
         /\ x # h[n].prev /\ x # h[n].next => Cut(h, n)[x] = h[x]
<1>1. IsNode(h[x])
  BY DEF IsHeap
<1>2. Cut(h, n)[x] = Between(h[x], IF x = h[n].prev THEN h[n].next ELSE h[x].next,
                                   IF x = h[n].next THEN h[n].prev ELSE h[x].prev)
  BY DEF Cut
<1>3. /\ Cut(h, n)[x].next = IF x = h[n].prev THEN h[n].next ELSE h[x].next
      /\ Cut(h, n)[x].prev = IF x = h[n].next THEN h[n].prev ELSE h[x].prev
  BY <1>1, <1>2, BetweenIs
<1>4. h[x] = Between(h[x], h[x].next, h[x].prev)
  BY <1>1, OnePointer
<1> QED
  BY <1>2, <1>3, <1>4

LEMMA CutHeap ==
  ASSUME NEW h, IsHeap(h), NEW n
  PROVE  IsHeap(Cut(h, n)) /\ DOMAIN Cut(h, n) = DOMAIN h \ {n}
<1>1. /\ IsFiniteSet(DOMAIN h) /\ NULL \notin DOMAIN h
      /\ \A x \in DOMAIN h : IsNode(h[x])
  BY DEF IsHeap
<1>2. DOMAIN Cut(h, n) = DOMAIN h \ {n}
  BY DEF Cut
<1>3. Cut(h, n) = [x \in DOMAIN Cut(h, n) |-> Cut(h, n)[x]]
  BY DEF Cut
<1>4. ASSUME NEW x \in DOMAIN Cut(h, n) PROVE IsNode(Cut(h, n)[x])
  <2>1. x \in DOMAIN h \ {n} /\ IsNode(h[x])
    BY <1>1, <1>2
  <2> QED
    BY <2>1, CutAt, BetweenIs
<1>5. IsFiniteSet(DOMAIN Cut(h, n))
  BY <1>1, <1>2, FS_Subset
<1> QED
  BY <1>1, <1>2, <1>3, <1>4, <1>5 DEF IsHeap

LEMMA CutIs ==
  ASSUME NEW h, IsHeap(h), NEW n \in DOMAIN h
  PROVE  Free(listNodeDelete(h, n), {n}) = Cut(h, n)
<1>1. /\ NULL \notin DOMAIN h /\ h = [x \in DOMAIN h |-> h[x]]
      /\ \A x \in DOMAIN h : IsNode(h[x])
  BY DEF IsHeap
<1>2. PICK a : a = h[n].prev
  OBVIOUS
<1>3. PICK b : b = h[n].next
  OBVIOUS
<1>4. PICK left : left = IF a = NULL THEN h ELSE [h EXCEPT ![a].next = b]
  OBVIOUS
<1>5. /\ DOMAIN left = DOMAIN h /\ left = [x \in DOMAIN left |-> left[x]]
      /\ \A x \in DOMAIN h : left[x] = IF x = a THEN [h[x] EXCEPT !.next = b] ELSE h[x]
  BY <1>1, <1>4
<1>6. PICK right : right = IF b = NULL THEN left ELSE [left EXCEPT ![b].prev = a]
  OBVIOUS
<1>7. /\ DOMAIN right = DOMAIN h /\ right = [x \in DOMAIN right |-> right[x]]
      /\ \A x \in DOMAIN h : right[x] = IF x = b THEN [left[x] EXCEPT !.prev = a] ELSE left[x]
  BY <1>1, <1>5, <1>6
<1>8. PICK g : g = [right EXCEPT ![n].next = NULL, ![n].prev = NULL]
  OBVIOUS
<1>9. DOMAIN g = DOMAIN h /\ \A x \in DOMAIN h \ {n} : g[x] = right[x]
  BY <1>7, <1>8
<1>10. listNodeDelete(h, n) = g
  BY <1>2, <1>3, <1>4, <1>6, <1>8, Zenon DEF listNodeDelete
<1>11. ASSUME NEW x \in DOMAIN h \ {n}
       PROVE  g[x] = Between(h[x], IF x = a THEN b ELSE h[x].next,
                                   IF x = b THEN a ELSE h[x].prev)
  <2>1. IsNode(h[x])
    BY <1>1
  <2>2. /\ [h[x] EXCEPT !.next = b] = Between(h[x], b, h[x].prev)
        /\ h[x] = Between(h[x], h[x].next, h[x].prev)
    BY <2>1, OnePointer
  <2>3. left[x] = Between(h[x], IF x = a THEN b ELSE h[x].next, h[x].prev)
    BY <1>5, <2>2
  <2>4. PICK m : m = IF x = a THEN b ELSE h[x].next
    OBVIOUS
  <2>5. left[x] = Between(h[x], m, h[x].prev)
    BY <2>3, <2>4
  <2>6. IsNode(left[x]) /\ left[x].next = m
    BY <2>1, <2>5, BetweenIs
  <2>7. [left[x] EXCEPT !.prev = a] = Between(left[x], m, a)
    BY <2>6, OnePointer
  <2>8. Between(left[x], m, a) = Between(h[x], m, a)
    BY <2>1, <2>5, BetweenTwice
  <2>9. right[x] = Between(h[x], m, IF x = b THEN a ELSE h[x].prev)
    BY <1>7, <2>5, <2>7, <2>8
  <2> QED
    BY <1>9, <2>4, <2>9
<1>12. Free(g, {n}) = [x \in DOMAIN h \ {n} |-> g[x]]
  BY <1>9 DEF Free, Restrict
<1>13. Cut(h, n) = [x \in DOMAIN h \ {n} |->
                      Between(h[x], IF x = a THEN b ELSE h[x].next,
                                    IF x = b THEN a ELSE h[x].prev)]
  BY <1>2, <1>3 DEF Cut
<1> QED
  BY <1>10, <1>11, <1>12, <1>13

LEMMA RemoveAtIs ==
  ASSUME NEW X, NEW list \in Seq(X), NEW s \in 1..Len(list)
  PROVE  /\ RemoveAt(list, s) \in Seq(X) /\ Len(RemoveAt(list, s)) = Len(list) - 1
         /\ \A p \in 1..(Len(list) - 1) :
              RemoveAt(list, s)[p] = IF p < s THEN list[p] ELSE list[p + 1]
<1>1. PICK n \in Nat : n = Len(list)
  OBVIOUS
<1>2. PICK A : A = SubSeq(list, 1, s - 1)
  OBVIOUS
<1>3. PICK B : B = SubSeq(list, s + 1, n)
  OBVIOUS
<1>4. PICK a \in Nat : a = s - 1 /\ a <= n
  BY <1>1
<1>5. PICK b \in Nat : b = n - s
  <2>1. n - s \in Nat
    BY <1>1
  <2> QED
    BY <2>1
<1>6. A \in Seq(X) /\ Len(A) = a /\ \A p \in 1..a : A[p] = list[p]
  <2>1. 1 \in Int /\ a \in Int /\ A = SubSeq(list, 1, a)
    BY <1>2, <1>4
  <2>2. \A i \in 1..a : list[i] \in X
    BY <1>1, <1>4
  <2>3. /\ A \in Seq(X) /\ Len(A) = IF 1 <= a THEN (a - 1) + 1 ELSE 0
        /\ \A i \in 1..((a - 1) + 1) : A[i] = list[(1 + i) - 1]
    BY <2>1, <2>2, SubSeqProperties
  <2>4. (a - 1) + 1 = a /\ \A p \in 1..a : (1 + p) - 1 = p
    OBVIOUS
  <2> QED
    BY <2>3, <2>4
<1>7. B \in Seq(X) /\ Len(B) = b /\ \A p \in 1..b : B[p] = list[s + p]
  <2>1. PICK e \in Int : e = s + 1 /\ B = SubSeq(list, e, n)
    BY <1>3
  <2>2. \A i \in e..n : list[i] \in X
    BY <1>1, <2>1
  <2>3. /\ B \in Seq(X) /\ Len(B) = IF e <= n THEN (n - e) + 1 ELSE 0
        /\ \A i \in 1..((n - e) + 1) : B[i] = list[(e + i) - 1]
    BY <2>1, <2>2, SubSeqProperties
  <2>4. (n - e) + 1 = b /\ \A p \in 1..b : (e + p) - 1 = s + p
    BY <1>5, <2>1
  <2>5. ~(e <= n) => b = 0
    BY <1>1, <1>5, <2>1
  <2> QED
    BY <2>3, <2>4, <2>5
<1>8. PICK C : C = A \o B
  OBVIOUS
<1>9. /\ C \in Seq(X) /\ Len(C) = a + b
      /\ \A p \in 1..(a + b) : C[p] = IF p <= a THEN A[p] ELSE B[p - a]
  <2>1. C \in Seq(X) /\ Len(C) = Len(A) + Len(B)
    BY <1>6, <1>7, <1>8, ConcatProperties
  <2>2. \A p \in 1..(Len(A) + Len(B)) : C[p] = IF p <= Len(A) THEN A[p] ELSE B[p - Len(A)]
    BY <1>6, <1>7, <1>8, ConcatProperties, Zenon
  <2> QED
    BY <1>6, <1>7, <2>1, <2>2
<1>10. a + b = n - 1
  BY <1>4, <1>5
<1>11. ASSUME NEW p \in 1..(n - 1) PROVE C[p] = IF p < s THEN list[p] ELSE list[p + 1]
  <2>1. CASE p < s
    <3>1. p <= a /\ p \in 1..a /\ p \in 1..(a + b)
      BY <1>4, <1>10, <2>1
    <3> QED
      BY <1>6, <1>9, <2>1, <3>1
  <2>2. CASE ~(p < s)
    <3>1. ~(p <= a) /\ p - a \in 1..b /\ p \in 1..(a + b)
      BY <1>4, <1>5, <2>2
    <3>2. PICK q \in 1..b : q = p - a /\ s + q = p + 1
      BY <1>4, <3>1
    <3>3. C[p] = B[q] /\ B[q] = list[s + q]
      BY <1>7, <1>9, <3>1, <3>2
    <3> QED
      BY <2>2, <3>2, <3>3
  <2> QED
    BY <2>1, <2>2
<1>12. C = RemoveAt(list, s)
  BY <1>1, <1>2, <1>3, <1>8 DEF RemoveAt
<1> QED
  BY <1>1, <1>9, <1>10, <1>11, <1>12

LEMMA RowCut ==
  ASSUME NEW h, IsHeap(h), NEW c, IsRow(h, c), NEW j \in 1..Len(c), h[c[1]].prev = NULL
  PROVE  /\ c[j] \in DOMAIN h /\ IsRow(Cut(h, c[j]), RemoveAt(c, j))
         /\ ToSet(RemoveAt(c, j)) = ToSet(c) \ {c[j]}
         /\ Len(c) > 1 => Cut(h, c[j])[RemoveAt(c, j)[1]].prev = NULL
         /\ h[c[j]].prev \in ToSet(c) \cup {NULL} /\ h[c[j]].next \in ToSet(c) \cup {NULL}
<1>1. PICK m \in Nat : /\ m = Len(c) /\ DOMAIN c = 1..m /\ c = [i \in 1..m |-> c[i]]
                       /\ \A i \in 1..m : c[i] \in DOMAIN h
                       /\ ToSet(c) = {c[i] : i \in 1..m}
                       /\ \A i, k \in 1..m : c[i] = c[k] => i = k
                       /\ \A i \in 1..m : h[c[i]].next = IF i = m THEN NULL ELSE c[i + 1]
                       /\ \A i \in 2..m : h[c[i]].prev = c[i - 1]
  BY RowFacts
<1>2. j \in 1..m /\ m >= 1 /\ c \in Seq(DOMAIN h) /\ NULL \notin DOMAIN h
  BY <1>1 DEF IsRow, IsHeap
<1>3. PICK n : n = c[j]
  OBVIOUS
<1>4. n \in DOMAIN h
  BY <1>1, <1>2, <1>3
<1>5. h[n].next = IF j = m THEN NULL ELSE c[j + 1]
  BY <1>1, <1>2, <1>3
<1>6. h[n].prev = IF j = 1 THEN NULL ELSE c[j - 1]
  <2>1. CASE j = 1
    BY <1>3, <2>1
  <2>2. CASE j # 1
    <3>1. j \in 2..m
      BY <1>2, <2>2
    <3> QED
      BY <1>1, <1>3, <2>2, <3>1
  <2> QED
    BY <2>1, <2>2
<1>7. h[n].prev \in ToSet(c) \cup {NULL} /\ h[n].next \in ToSet(c) \cup {NULL}
  <2>1. j # 1 => j - 1 \in 1..m
    BY <1>2
  <2>2. j # m => j + 1 \in 1..m
    BY <1>2
  <2> QED
    BY <1>1, <1>5, <1>6, <2>1, <2>2
<1>8. PICK g : g = Cut(h, n)
  OBVIOUS
<1>9. /\ DOMAIN g = DOMAIN h \ {n}
      /\ \A x \in DOMAIN h \ {n} : /\ g[x].next = IF x = h[n].prev THEN h[n].next ELSE h[x].next
                                   /\ g[x].prev = IF x = h[n].next THEN h[n].prev ELSE h[x].prev
  <2>1. DOMAIN Cut(h, n) = DOMAIN h \ {n}
    BY CutHeap
  <2>2. ASSUME NEW x \in DOMAIN h \ {n}
        PROVE  /\ Cut(h, n)[x].next = IF x = h[n].prev THEN h[n].next ELSE h[x].next
               /\ Cut(h, n)[x].prev = IF x = h[n].next THEN h[n].prev ELSE h[x].prev
    BY CutAt
  <2> QED
    BY <1>8, <2>1, <2>2
<1>10. \A i \in 1..m : c[i] = h[n].prev <=> i + 1 = j
  <2>1. ASSUME NEW i \in 1..m, c[i] = h[n].prev PROVE i + 1 = j
    <3>1. j # 1
      BY <1>1, <1>2, <1>6, <2>1
    <3>2. j - 1 \in 1..m /\ c[i] = c[j - 1]
      BY <1>2, <1>6, <2>1, <3>1
    <3>3. i = j - 1
      BY <1>1, <2>1, <3>2
    <3> QED
      BY <3>3
  <2>2. ASSUME NEW i \in 1..m, i + 1 = j PROVE c[i] = h[n].prev
    <3>1. j # 1 /\ j - 1 = i
      BY <2>2
    <3> QED
      BY <1>6, <3>1
  <2> QED
    BY <2>1, <2>2
<1>11. \A i \in 1..m : c[i] = h[n].next <=> i = j + 1
  <2>1. ASSUME NEW i \in 1..m, c[i] = h[n].next PROVE i = j + 1
    <3>1. j # m
      BY <1>1, <1>2, <1>5, <2>1
    <3>2. j + 1 \in 1..m /\ c[i] = c[j + 1]
      BY <1>2, <1>5, <2>1, <3>1
    <3> QED
      BY <1>1, <2>1, <3>2
  <2>2. ASSUME NEW i \in 1..m, i = j + 1 PROVE c[i] = h[n].next
    <3>1. j # m
      BY <1>2, <2>2
    <3> QED
      BY <1>5, <2>2, <3>1
  <2> QED
    BY <2>1, <2>2
<1>12. \A i \in 1..m : c[i] = n <=> i = j
  BY <1>1, <1>2, <1>3
<1>13. PICK d : d = RemoveAt(c, j)
  OBVIOUS
<1>14. PICK k \in Nat : k = m - 1
  BY <1>2
<1>15. /\ d \in Seq(DOMAIN h) /\ Len(d) = k
       /\ \A p \in 1..k : d[p] = IF p < j THEN c[p] ELSE c[p + 1]
  <2>1. /\ d \in Seq(DOMAIN h) /\ Len(d) = Len(c) - 1
        /\ \A p \in 1..(Len(c) - 1) : d[p] = IF p < j THEN c[p] ELSE c[p + 1]
    BY <1>2, <1>13, RemoveAtIs, Zenon
  <2> QED
    BY <1>1, <1>14, <2>1
<1>16. PICK f : f = [p \in 1..k |-> IF p < j THEN p ELSE p + 1]
  OBVIOUS
<1>17. \A p \in 1..k : /\ f[p] \in 1..m /\ f[p] # j /\ d[p] = c[f[p]]
                       /\ f[p] = IF p < j THEN p ELSE p + 1
  BY <1>2, <1>14, <1>15, <1>16
<1>18. \A p \in 1..k : d[p] \in DOMAIN h \ {n} /\ d[p] \in ToSet(c)
  <2>1. ASSUME NEW p \in 1..k PROVE d[p] \in DOMAIN h \ {n} /\ d[p] \in ToSet(c)
    <3>1. PICK i \in 1..m : i = f[p] /\ i # j /\ d[p] = c[i]
      BY <1>17
    <3> QED
      BY <1>1, <1>12, <3>1
  <2> QED
    BY <2>1
<1>19. d \in Seq(DOMAIN g)
  <2>1. d \in [1..k -> DOMAIN g]
    BY <1>9, <1>15, <1>18
  <2> QED
    BY <2>1
<1>20. \A p, q \in 1..k : d[p] = d[q] => p = q
  <2>1. ASSUME NEW p \in 1..k, NEW q \in 1..k, d[p] = d[q] PROVE p = q
    <3>1. PICK i \in 1..m : i = f[p] /\ d[p] = c[i]
      BY <1>17
    <3>2. PICK l \in 1..m : l = f[q] /\ d[q] = c[l]
      BY <1>17
    <3>3. i = l
      BY <1>1, <2>1, <3>1, <3>2
    <3>4. i = (IF p < j THEN p ELSE p + 1) /\ l = (IF q < j THEN q ELSE q + 1)
      BY <1>17, <3>1, <3>2
    <3>5. j \in Int /\ p \in Int /\ q \in Int
      BY <1>2
    <3>6. (IF p < j THEN p ELSE p + 1) = (IF q < j THEN q ELSE q + 1)
      BY <3>3, <3>4
    <3>7. p = q
      BY <3>5, <3>6
    <3> QED
      BY <3>7
  <2> QED
    BY <2>1
<1>21. ASSUME NEW p \in 1..k PROVE g[d[p]].next = IF p = k THEN NULL ELSE d[p + 1]
  <2>1. PICK i \in 1..m : i = f[p] /\ d[p] = c[i] /\ c[i] \in DOMAIN h \ {n}
    BY <1>17, <1>18
  <2>2. g[c[i]].next = IF i + 1 = j THEN h[n].next ELSE h[c[i]].next
    BY <1>9, <1>10, <2>1
  <2>3. h[c[i]].next = IF i = m THEN NULL ELSE c[i + 1]
    BY <1>1
  <2>4. i = IF p < j THEN p ELSE p + 1
    BY <1>17, <2>1
  <2>5. p # k => p + 1 \in 1..k
    BY <1>14
  <2>6. p # k => d[p + 1] = IF p + 1 < j THEN c[p + 1] ELSE c[(p + 1) + 1]
    BY <1>15, <2>5
  <2>7. CASE p + 1 = j
    <3>1. i = p /\ i + 1 = j /\ j = m <=> p = k
      BY <1>2, <1>14, <2>4, <2>7
    <3>2. i = p /\ j = p + 1 /\ ~(p + 1 < j)
      BY <2>4, <2>7
    <3> QED
      BY <1>2, <1>5, <1>14, <2>1, <2>2, <2>6, <2>7, <3>2
  <2>8. CASE p + 1 < j
    <3>1. i = p /\ i + 1 # j /\ i # m /\ p # k
      BY <1>2, <1>14, <2>4, <2>8
    <3> QED
      BY <2>1, <2>2, <2>3, <2>6, <2>8, <3>1
  <2>9. CASE p >= j
    <3>1. i = p + 1 /\ i + 1 # j /\ (i = m <=> p = k) /\ ~(p + 1 < j)
      BY <1>2, <1>14, <2>4, <2>9
    <3> QED
      BY <2>1, <2>2, <2>3, <2>6, <3>1
  <2> QED
    BY <1>2, <2>7, <2>8, <2>9
<1>22. ASSUME NEW p \in 2..k PROVE g[d[p]].prev = d[p - 1]
  <2>1. p \in 1..k /\ p - 1 \in 1..k
    BY <1>14
  <2>2. PICK i \in 1..m : i = f[p] /\ d[p] = c[i] /\ c[i] \in DOMAIN h \ {n}
    BY <1>17, <1>18, <2>1
  <2>3. g[c[i]].prev = IF i = j + 1 THEN h[n].prev ELSE h[c[i]].prev
    BY <1>9, <1>11, <2>2
  <2>4. i = IF p < j THEN p ELSE p + 1
    BY <1>17, <2>1, <2>2
  <2>5. i \in 2..m
    BY <2>4
  <2>6. h[c[i]].prev = c[i - 1]
    BY <1>1, <2>5
  <2>7. d[p - 1] = IF p - 1 < j THEN c[p - 1] ELSE c[(p - 1) + 1]
    BY <1>15, <2>1
  <2>8. CASE p = j
    <3>1. i = j + 1 /\ p - 1 < j /\ j # 1 /\ j - 1 = p - 1
      BY <2>4, <2>8
    <3> QED
      BY <1>6, <2>2, <2>3, <2>7, <3>1
  <2>9. CASE p < j
    <3>1. i = p /\ i # j + 1 /\ p - 1 < j
      BY <1>2, <2>4, <2>9
    <3> QED
      BY <2>2, <2>3, <2>6, <2>7, <3>1
  <2>10. CASE p > j
    <3>1. i = p + 1 /\ i # j + 1 /\ ~(p - 1 < j) /\ i - 1 = (p - 1) + 1
      BY <1>2, <2>4, <2>10
    <3> QED
      BY <2>2, <2>3, <2>6, <2>7, <3>1
  <2> QED
    BY <1>2, <2>8, <2>9, <2>10
<1>23. IsRow(g, d)
  BY <1>15, <1>19, <1>20, <1>21, <1>22 DEF IsRow
<1>24. ToSet(d) = ToSet(c) \ {n}
  <2>1. ToSet(d) = {d[p] : p \in 1..k}
    BY <1>15, <1>23, RowFacts
  <2>2. ASSUME NEW x \in ToSet(c) \ {n} PROVE x \in ToSet(d)
    <3>1. PICK i \in 1..m : x = c[i] /\ i # j
      BY <1>1, <1>12, <2>2
    <3>2. PICK p \in 1..k : p = IF i < j THEN i ELSE i - 1
      BY <1>2, <1>14, <3>1
    <3>3. i = IF p < j THEN p ELSE p + 1
      BY <1>2, <3>1, <3>2
    <3> QED
      BY <1>15, <2>1, <3>1, <3>3
  <2> QED
    BY <1>18, <2>1, <2>2
<1>25. ASSUME m > 1 PROVE g[d[1]].prev = NULL
  <2>1. 1 \in 1..k
    BY <1>14, <1>25
  <2>2. PICK i \in 1..m : i = f[1] /\ d[1] = c[i] /\ c[i] \in DOMAIN h \ {n}
    BY <1>17, <1>18, <2>1
  <2>3. g[c[i]].prev = IF i = j + 1 THEN h[n].prev ELSE h[c[i]].prev
    BY <1>9, <1>11, <2>2
  <2>4. i = IF 1 < j THEN 1 ELSE 2
    BY <1>17, <2>1, <2>2
  <2>5. IF j = 1 THEN i = j + 1 ELSE i = 1 /\ i # j + 1
    BY <1>2, <2>4
  <2> QED
    BY <1>6, <2>2, <2>3, <2>5
<1> QED
  BY <1>1, <1>3, <1>4, <1>7, <1>8, <1>13, <1>23, <1>24, <1>25

-----------------------------------------------------------------------------
(***************************************************************************)
(* What the nodes of a row hold.                                           *)
(***************************************************************************)
Fields(h, c, f) == [i \in DOMAIN c |-> h[c[i]][f]]

LEMMA SameSeq ==
  ASSUME NEW X, NEW s \in Seq(X), NEW t, t = [i \in 1..Len(s) |-> t[i]],
         \A i \in 1..Len(s) : t[i] = s[i]
  PROVE  t = s
OBVIOUS

LEMMA FieldsAre ==
  ASSUME NEW h, NEW D, NEW c \in Seq(D), NEW f, NEW X, \A x \in ToSet(c) : h[x][f] \in X
  PROVE  /\ Fields(h, c, f) \in Seq(X) /\ Len(Fields(h, c, f)) = Len(c)
         /\ \A i \in 1..Len(c) : Fields(h, c, f)[i] = h[c[i]][f]
         /\ Fields(h, c, f) = [i \in 1..Len(c) |-> h[c[i]][f]]
<1>1. PICK n \in Nat : n = Len(c) /\ DOMAIN c = 1..n
  OBVIOUS
<1>2. PICK s : s = Fields(h, c, f)
  OBVIOUS
<1>3. s = [i \in 1..n |-> h[c[i]][f]]
  BY <1>1, <1>2 DEF Fields
<1>4. \A i \in 1..n : c[i] \in ToSet(c)
  BY <1>1 DEF ToSet
<1>5. s \in [1..n -> X]
  BY <1>3, <1>4
<1>6. s \in Seq(X) /\ Len(s) = n
  BY <1>5
<1> QED
  BY <1>1, <1>2, <1>3, <1>6

LEMMA FieldsSeq ==
  ASSUME NEW h, NEW D, NEW c \in Seq(D), NEW f
  PROVE  /\ Fields(h, c, f) \in Seq({h[x][f] : x \in D}) /\ Len(Fields(h, c, f)) = Len(c)
<1>1. PICK X : X = {h[x][f] : x \in D}
  OBVIOUS
<1>2. ToSet(c) \subseteq D
  BY DEF ToSet
<1>3. \A x \in ToSet(c) : h[x][f] \in X
  BY <1>1, <1>2
<1>4. PICK n \in Nat : n = Len(c) /\ DOMAIN c = 1..n
  OBVIOUS
<1>5. PICK s : s = Fields(h, c, f)
  OBVIOUS
<1>6. s = [i \in 1..n |-> h[c[i]][f]]
  BY <1>4, <1>5 DEF Fields
<1>7. \A i \in 1..n : c[i] \in ToSet(c)
  BY <1>4 DEF ToSet
<1>8. s \in [1..n -> X]
  BY <1>3, <1>6, <1>7
<1>9. s \in Seq(X) /\ Len(s) = n
  BY <1>8
<1> QED
  BY <1>1, <1>4, <1>5, <1>9

LEMMA FieldsJoin ==
  ASSUME NEW h, NEW f, NEW D, NEW c \in Seq(D), NEW d \in Seq(D)
  PROVE  Fields(h, c \o d, f) = Fields(h, c, f) \o Fields(h, d, f)
<1>1. PICK X : X = {h[x][f] : x \in D}
  OBVIOUS
<1>2. /\ ToSet(c) \subseteq D /\ ToSet(d) \subseteq D
  BY DEF ToSet
<1>3. PICK m \in Nat : m = Len(c)
  OBVIOUS
<1>4. PICK n \in Nat : n = Len(d)
  OBVIOUS
<1>5. PICK s : s = Fields(h, c, f)
  OBVIOUS
<1>6. PICK t : t = Fields(h, d, f)
  OBVIOUS
<1>7. s \in Seq(X) /\ Len(s) = m /\ \A i \in 1..m : s[i] = h[c[i]][f]
  <2>1. /\ Fields(h, c, f) \in Seq({h[x][f] : x \in D}) /\ Len(Fields(h, c, f)) = Len(c)
    BY FieldsSeq, ZenonT(30)
  <2>2. \A i \in 1..Len(c) : Fields(h, c, f)[i] = h[c[i]][f]
    BY DEF Fields
  <2> QED
    BY <1>1, <1>3, <1>5, <2>1, <2>2
<1>8. t \in Seq(X) /\ Len(t) = n /\ \A i \in 1..n : t[i] = h[d[i]][f]
  <2>1. /\ Fields(h, d, f) \in Seq({h[x][f] : x \in D}) /\ Len(Fields(h, d, f)) = Len(d)
    BY FieldsSeq, ZenonT(30)
  <2>2. \A i \in 1..Len(d) : Fields(h, d, f)[i] = h[d[i]][f]
    BY DEF Fields
  <2> QED
    BY <1>1, <1>4, <1>6, <2>1, <2>2
<1>9. PICK e : e = c \o d
  OBVIOUS
<1>10. /\ e \in Seq(D) /\ Len(e) = m + n
       /\ \A i \in 1..(m + n) : e[i] = IF i <= m THEN c[i] ELSE d[i - m]
  <2>1. /\ e \in Seq(D) /\ Len(e) = Len(c) + Len(d)
        /\ \A i \in 1..(Len(c) + Len(d)) : e[i] = IF i <= Len(c) THEN c[i] ELSE d[i - Len(c)]
    BY <1>9, ConcatProperties, Zenon
  <2> QED
    BY <1>3, <1>4, <2>1
<1>11. PICK u : u = s \o t
  OBVIOUS
<1>12. /\ u \in Seq(X) /\ Len(u) = m + n
       /\ \A i \in 1..(m + n) : u[i] = IF i <= m THEN s[i] ELSE t[i - m]
  <2>1. /\ u \in Seq(X) /\ Len(u) = Len(s) + Len(t)
        /\ \A i \in 1..(Len(s) + Len(t)) : u[i] = IF i <= Len(s) THEN s[i] ELSE t[i - Len(s)]
    BY <1>7, <1>8, <1>11, ConcatProperties, Zenon
  <2> QED
    BY <1>7, <1>8, <2>1
<1>13. PICK v : v = Fields(h, e, f)
  OBVIOUS
<1>14. v = [i \in 1..(m + n) |-> h[e[i]][f]]
  <2>1. DOMAIN e = 1..(m + n)
    BY <1>10
  <2> QED
    BY <1>13, <2>1 DEF Fields
<1>15. ASSUME NEW i \in 1..(m + n) PROVE v[i] = u[i]
  <2>1. CASE i <= m
    <3>1. i \in 1..m
      BY <2>1
    <3> QED
      BY <1>7, <1>10, <1>12, <1>14, <2>1, <3>1
  <2>2. CASE ~(i <= m)
    <3>1. i - m \in 1..n
      BY <2>2
    <3>2. PICK j : j = i - m
      OBVIOUS
    <3> QED
      BY <1>8, <1>10, <1>12, <1>14, <2>2, <3>1, <3>2
  <2> QED
    BY <2>1, <2>2
<1>16. v = u
  <2>1. u = [i \in 1..(m + n) |-> u[i]]
    BY <1>12
  <2> QED
    BY <1>14, <1>15, <2>1
<1> QED
  BY <1>5, <1>6, <1>9, <1>11, <1>13, <1>16

LEMMA FieldsStay ==
  ASSUME NEW h, NEW g, NEW D, NEW c \in Seq(D), NEW f, \A x \in ToSet(c) : g[x][f] = h[x][f]
  PROVE  Fields(g, c, f) = Fields(h, c, f)
<1>1. \A i \in DOMAIN c : c[i] \in ToSet(c)
  BY DEF ToSet
<1> QED
  BY <1>1 DEF Fields

LEMMA FieldsOfOne ==
  ASSUME NEW h, NEW x, NEW f
  PROVE  Fields(h, <<x>>, f) = <<h[x][f]>>
<1>1. DOMAIN <<x>> = 1..1 /\ <<x>>[1] = x
  OBVIOUS
<1>2. Fields(h, <<x>>, f) = [i \in 1..1 |-> h[<<x>>[i]][f]]
  BY <1>1 DEF Fields
<1>3. <<h[x][f]>> = [i \in 1..1 |-> h[x][f]]
  OBVIOUS
<1> QED
  BY <1>1, <1>2, <1>3

LEMMA FieldsCut ==
  ASSUME NEW h, NEW f, NEW D, NEW c \in Seq(D), NEW j \in 1..Len(c)
  PROVE  Fields(h, RemoveAt(c, j), f) = RemoveAt(Fields(h, c, f), j)
<1>1. PICK X : X = {h[x][f] : x \in D}
  OBVIOUS
<1>2. ToSet(c) \subseteq D
  BY DEF ToSet
<1>3. PICK m \in Nat : m = Len(c)
  OBVIOUS
<1>4. PICK s : s = Fields(h, c, f)
  OBVIOUS
<1>5. s \in Seq(X) /\ Len(s) = m /\ \A i \in 1..m : s[i] = h[c[i]][f]
  <2>1. /\ Fields(h, c, f) \in Seq({h[x][f] : x \in D}) /\ Len(Fields(h, c, f)) = Len(c)
    BY FieldsSeq
  <2>2. \A i \in 1..Len(c) : Fields(h, c, f)[i] = h[c[i]][f]
    BY DEF Fields
  <2> QED
    BY <1>1, <1>3, <1>4, <2>1, <2>2
<1>6. PICK d : d = RemoveAt(c, j)
  OBVIOUS
<1>7. PICK k \in Nat : k = m - 1 /\ j \in 1..m
  BY <1>3
<1>8. d \in Seq(D) /\ Len(d) = k /\ \A p \in 1..k : d[p] = IF p < j THEN c[p] ELSE c[p + 1]
  <2>1. /\ d \in Seq(D) /\ Len(d) = Len(c) - 1
        /\ \A p \in 1..(Len(c) - 1) : d[p] = IF p < j THEN c[p] ELSE c[p + 1]
    BY <1>6, RemoveAtIs, Zenon
  <2> QED
    BY <1>3, <1>7, <2>1
<1>9. PICK t : t = RemoveAt(s, j)
  OBVIOUS
<1>10. t \in Seq(X) /\ Len(t) = k /\ \A p \in 1..k : t[p] = IF p < j THEN s[p] ELSE s[p + 1]
  <2>1. j \in 1..Len(s)
    BY <1>5, <1>7
  <2>2. /\ t \in Seq(X) /\ Len(t) = Len(s) - 1
        /\ \A p \in 1..(Len(s) - 1) : t[p] = IF p < j THEN s[p] ELSE s[p + 1]
    BY <1>5, <1>9, <2>1, RemoveAtIs, Zenon
  <2> QED
    BY <1>5, <1>7, <2>2
<1>11. PICK v : v = Fields(h, d, f)
  OBVIOUS
<1>12. v = [i \in 1..k |-> h[d[i]][f]]
  <2>1. DOMAIN d = 1..k
    BY <1>8
  <2> QED
    BY <1>11, <2>1 DEF Fields
<1>13. ASSUME NEW p \in 1..k PROVE v[p] = t[p]
  <2>1. p \in 1..m /\ p + 1 \in 1..m
    BY <1>7
  <2>2. s[p] = h[c[p]][f] /\ s[p + 1] = h[c[p + 1]][f]
    BY <1>5, <2>1
  <2> QED
    BY <1>8, <1>10, <1>12, <2>2
<1>14. v = t
  <2>1. t = [i \in 1..k |-> t[i]]
    BY <1>10
  <2> QED
    BY <1>12, <1>13, <2>1
<1> QED
  BY <1>4, <1>6, <1>9, <1>11, <1>14

-----------------------------------------------------------------------------
(***************************************************************************)
(* The heap of the generic list, of which the first n nodes were used.     *)
(***************************************************************************)
EntryNodes == [element : Elements, next : Addresses, prev : Addresses]

TypedHeap(h, n) ==
  /\ n \in 0..MaxNodes /\ DOMAIN h \subseteq 1..n /\ h = [x \in DOMAIN h |-> h[x]]
  /\ \A x \in DOMAIN h : h[x] \in EntryNodes

\* Where no list that is intact begins, and none will.
Gone(h, a) == a \notin DOMAIN h \/ h[a].next = WILD
KeepsGone(h, g, n) == \A a \in 1..n : Gone(h, a) => Gone(g, a)

LEMMA Numbers == MaxNodes \in Nat /\ NULL \notin Nat /\ WILD \notin Nat /\ WILD # NULL
BY NodeAssumption, ListAssumption DEF MaxNodes

LEMMA EntryNodeIs ==
  ASSUME NEW r \in EntryNodes
  PROVE  /\ IsNode(r) /\ r.element \in Elements /\ r.next \in Addresses /\ r.prev \in Addresses
         /\ \A a, b \in Addresses :
              Between(r, a, b) \in EntryNodes /\ Between(r, a, b).element = r.element
<1>1. /\ DOMAIN r = {"element", "next", "prev"} /\ r = [f \in DOMAIN r |-> r[f]]
      /\ r.element \in Elements /\ r.next \in Addresses /\ r.prev \in Addresses
  BY DEF EntryNodes
<1>2. IsNode(r)
  BY <1>1 DEF IsNode
<1>3. ASSUME NEW a \in Addresses, NEW b \in Addresses
      PROVE  Between(r, a, b) \in EntryNodes /\ Between(r, a, b).element = r.element
  BY <1>1 DEF EntryNodes, Between
<1> QED
  BY <1>1, <1>2, <1>3

LEMMA NewEntry ==
  ASSUME NEW e \in Elements
  PROVE  /\ Entry(e) \in EntryNodes /\ IsNode(Entry(e)) /\ Entry(e).element = e
         /\ Entry(e).next = NULL /\ Entry(e).prev = NULL
BY DEF Entry, EntryNodes, Addresses, IsNode

LEMMA TypedIs ==
  ASSUME NEW h, NEW n, TypedHeap(h, n)
  PROVE  /\ IsHeap(h) /\ NULL \notin DOMAIN h /\ WILD \notin DOMAIN h
         /\ DOMAIN h \subseteq Addresses /\ n \in Nat
         /\ \A x \in DOMAIN h : /\ h[x] \in EntryNodes /\ IsNode(h[x])
                                /\ h[x].next \in Addresses /\ h[x].prev \in Addresses
<1>1. /\ n \in 0..MaxNodes /\ DOMAIN h \subseteq 1..n /\ h = [x \in DOMAIN h |-> h[x]]
      /\ \A x \in DOMAIN h : h[x] \in EntryNodes
  BY DEF TypedHeap
<1>2. n \in Nat /\ DOMAIN h \subseteq Nat /\ DOMAIN h \subseteq 1..MaxNodes
  BY <1>1, Numbers
<1>3. NULL \notin DOMAIN h /\ WILD \notin DOMAIN h /\ DOMAIN h \subseteq Addresses
  BY <1>2, Numbers DEF Addresses
<1>4. IsFiniteSet(DOMAIN h)
  BY <1>1, <1>2, FS_Interval, FS_Subset
<1>5. \A x \in DOMAIN h : IsNode(h[x]) /\ h[x].next \in Addresses /\ h[x].prev \in Addresses
  BY <1>1, EntryNodeIs
<1> QED
  BY <1>1, <1>2, <1>3, <1>4, <1>5 DEF IsHeap

LEMMA TypedIf ==
  ASSUME NEW g, NEW n \in 0..MaxNodes, IsHeap(g), DOMAIN g \subseteq 1..n,
         \A x \in DOMAIN g : g[x] \in EntryNodes
  PROVE  TypedHeap(g, n)
BY DEF IsHeap, TypedHeap

LEMMA TypedWith ==
  ASSUME NEW h, NEW n, TypedHeap(h, n), n + 1 <= MaxNodes, NEW e \in Elements, NEW g,
         g = With(h, n + 1, Entry(e))
  PROVE  /\ TypedHeap(g, n + 1) /\ KeepsGone(h, g, n)
         /\ n + 1 \notin DOMAIN h /\ DOMAIN g = DOMAIN h \cup {n + 1}
         /\ g[n + 1] = Entry(e) /\ \A x \in DOMAIN h : g[x] = h[x]
<1>1. IsHeap(h) /\ n \in Nat /\ DOMAIN h \subseteq 1..n /\ \A x \in DOMAIN h : h[x] \in EntryNodes
  BY TypedIs DEF TypedHeap
<1>2. n + 1 \notin DOMAIN h /\ n + 1 # NULL /\ n + 1 \in 0..MaxNodes /\ n + 1 \notin 1..n
  BY <1>1, Numbers
<1>3. IsNode(Entry(e)) /\ Entry(e) \in EntryNodes
  BY NewEntry
<1>4. /\ IsHeap(g) /\ DOMAIN g = DOMAIN h \cup {n + 1} /\ g[n + 1] = Entry(e)
      /\ \A x \in DOMAIN h : x # n + 1 => g[x] = h[x]
  <2>1. PICK f : f = n + 1
    OBVIOUS
  <2>2. f # NULL /\ IsHeap(h)
    BY <1>1, <1>2, <2>1
  <2>3. PICK r : r = Entry(e)
    OBVIOUS
  <2>4. IsNode(r)
    BY <1>3, <2>3
  <2>5. IsHeap(With(h, f, r)) /\ DOMAIN With(h, f, r) = DOMAIN h \cup {f}
    BY <2>2, <2>4, WithIs
  <2>6. With(h, f, r)[f] = r
    BY DEF With
  <2>7. \A x \in DOMAIN h : x # f => With(h, f, r)[x] = h[x]
    BY DEF With
  <2> QED
    BY <2>1, <2>3, <2>5, <2>6, <2>7
<1>5. \A x \in DOMAIN h : g[x] = h[x]
  BY <1>2, <1>4
<1>6. \A x \in DOMAIN g : g[x] \in EntryNodes
  BY <1>1, <1>3, <1>4, <1>5
<1>7. DOMAIN g \subseteq 1..(n + 1)
  BY <1>1, <1>4
<1>8. TypedHeap(g, n + 1)
  BY <1>2, <1>4, <1>6, <1>7, TypedIf
<1>9. \A a \in 1..n : a # n + 1
  BY <1>2
<1>10. KeepsGone(h, g, n)
  BY <1>4, <1>5, <1>9 DEF KeepsGone, Gone
<1> QED
  BY <1>2, <1>4, <1>5, <1>8, <1>10

LEMMA TypedFree ==
  ASSUME NEW h, NEW n, TypedHeap(h, n), NEW S, NEW g, g = Free(h, S)
  PROVE  /\ TypedHeap(g, n) /\ KeepsGone(h, g, n) /\ DOMAIN g = DOMAIN h \ S
         /\ \A x \in DOMAIN h \ S : g[x] = h[x]
<1>1. /\ IsHeap(h) /\ n \in 0..MaxNodes /\ DOMAIN h \subseteq 1..n
      /\ \A x \in DOMAIN h : h[x] \in EntryNodes
  BY TypedIs DEF TypedHeap
<1>2. IsHeap(g) /\ DOMAIN g = DOMAIN h \ S /\ \A x \in DOMAIN h \ S : g[x] = h[x]
  BY <1>1, FreeIs
<1>3. \A x \in DOMAIN g : g[x] \in EntryNodes
  BY <1>1, <1>2
<1>4. TypedHeap(g, n)
  BY <1>1, <1>2, <1>3, TypedIf
<1>5. KeepsGone(h, g, n)
  BY <1>2 DEF KeepsGone, Gone
<1> QED
  BY <1>2, <1>4, <1>5

LEMMA TypedJoined ==
  ASSUME NEW h, NEW n, TypedHeap(h, n), NEW a \in DOMAIN h, NEW b \in DOMAIN h,
         h[a].next # WILD
  PROVE  /\ TypedHeap(Joined(h, a, b), n) /\ KeepsGone(h, Joined(h, a, b), n)
         /\ \A x \in DOMAIN h : Joined(h, a, b)[x].element = h[x].element
<1>1. /\ IsHeap(h) /\ n \in 0..MaxNodes /\ DOMAIN h \subseteq 1..n
      /\ a \in Addresses /\ b \in Addresses /\ WILD \notin DOMAIN h
  BY TypedIs DEF TypedHeap
<1>2. PICK g : g = Joined(h, a, b)
  OBVIOUS
<1>3. IsHeap(g) /\ DOMAIN g = DOMAIN h
  BY <1>1, <1>2, JoinedHeap
<1>4. ASSUME NEW x \in DOMAIN h
      PROVE  g[x] \in EntryNodes /\ g[x].element = h[x].element
  <2>1. h[x] \in EntryNodes /\ h[x].next \in Addresses /\ h[x].prev \in Addresses
    BY TypedIs
  <2>2. PICK p \in Addresses : p = IF x = a THEN b ELSE h[x].next
    BY <1>1, <2>1
  <2>3. PICK q \in Addresses : q = IF x = b THEN a ELSE h[x].prev
    BY <1>1, <2>1
  <2>4. Joined(h, a, b)[x] = Between(h[x], IF x = a THEN b ELSE h[x].next,
                                           IF x = b THEN a ELSE h[x].prev)
    BY <1>1, JoinedAt
  <2>5. g[x] = Between(h[x], p, q)
    BY <1>2, <2>2, <2>3, <2>4
  <2> QED
    BY <2>1, <2>5, EntryNodeIs
<1>5. TypedHeap(g, n)
  BY <1>1, <1>3, <1>4, TypedIf
<1>6. ASSUME NEW x \in 1..n, Gone(h, x) PROVE Gone(g, x)
  <2>1. CASE x \notin DOMAIN h
    BY <1>3, <2>1 DEF Gone
  <2>2. CASE x \in DOMAIN h
    <3>1. h[x].next = WILD /\ x # a
      BY <1>6, <2>2 DEF Gone
    <3>2. Joined(h, a, b)[x].next = IF x = a THEN b ELSE h[x].next
      BY <1>1, <2>2, JoinedAt
    <3> QED
      BY <1>2, <3>1, <3>2 DEF Gone
  <2> QED
    BY <2>1, <2>2
<1>7. KeepsGone(h, g, n)
  BY <1>6 DEF KeepsGone
<1> QED
  BY <1>2, <1>4, <1>5, <1>7

LEMMA TypedCut ==
  ASSUME NEW h, NEW n, TypedHeap(h, n), NEW y \in DOMAIN h,
         h[y].prev \in DOMAIN h => h[h[y].prev].next # WILD
  PROVE  /\ TypedHeap(Cut(h, y), n) /\ KeepsGone(h, Cut(h, y), n)
         /\ \A x \in DOMAIN h \ {y} : Cut(h, y)[x].element = h[x].element
<1>1. /\ IsHeap(h) /\ n \in 0..MaxNodes /\ DOMAIN h \subseteq 1..n
      /\ h[y].next \in Addresses /\ h[y].prev \in Addresses
  BY TypedIs DEF TypedHeap
<1>2. PICK g : g = Cut(h, y)
  OBVIOUS
<1>3. IsHeap(g) /\ DOMAIN g = DOMAIN h \ {y}
  BY <1>1, <1>2, CutHeap
<1>4. ASSUME NEW x \in DOMAIN h \ {y}
      PROVE  g[x] \in EntryNodes /\ g[x].element = h[x].element
  <2>1. h[x] \in EntryNodes /\ h[x].next \in Addresses /\ h[x].prev \in Addresses
    BY TypedIs
  <2>2. PICK p \in Addresses : p = IF x = h[y].prev THEN h[y].next ELSE h[x].next
    BY <1>1, <2>1
  <2>3. PICK q \in Addresses : q = IF x = h[y].next THEN h[y].prev ELSE h[x].prev
    BY <1>1, <2>1
  <2>4. Cut(h, y)[x] = Between(h[x], IF x = h[y].prev THEN h[y].next ELSE h[x].next,
                                     IF x = h[y].next THEN h[y].prev ELSE h[x].prev)
    BY <1>1, CutAt
  <2>5. g[x] = Between(h[x], p, q)
    BY <1>2, <2>2, <2>3, <2>4
  <2> QED
    BY <2>1, <2>5, EntryNodeIs
<1>5. TypedHeap(g, n)
  <2>1. DOMAIN g \subseteq 1..n /\ \A x \in DOMAIN g : g[x] \in EntryNodes
    BY <1>1, <1>3, <1>4
  <2> QED
    BY <1>1, <1>3, <2>1, TypedIf
<1>6. ASSUME NEW x \in 1..n, Gone(h, x) PROVE Gone(g, x)
  <2>1. CASE x \notin DOMAIN h \/ x = y
    BY <1>3, <2>1 DEF Gone
  <2>2. CASE x \in DOMAIN h /\ x # y
    <3>1. h[x].next = WILD /\ x # h[y].prev
      BY <1>6, <2>2 DEF Gone
    <3>2. Cut(h, y)[x].next = IF x = h[y].prev THEN h[y].next ELSE h[x].next
      BY <1>1, <2>2, CutAt
    <3> QED
      BY <1>2, <3>1, <3>2 DEF Gone
  <2> QED
    BY <2>1, <2>2
<1>7. KeepsGone(h, g, n)
  BY <1>6 DEF KeepsGone
<1> QED
  BY <1>2, <1>4, <1>5, <1>7

-----------------------------------------------------------------------------
(***************************************************************************)
(* Lists that are intact, and their rows.                                  *)
(***************************************************************************)
\* The list that begins at a and has size k is intact.
Sound(h, a, k) ==
  LET chain == Chain(h, a) IN
    /\ ToSet(chain) \subseteq DOMAIN h /\ Len(chain) = k
    /\ \A i \in DOMAIN chain : h[chain[i]].prev = IF i = 1 THEN NULL ELSE chain[i - 1]

\* A row that a list can have.
IsListRow(h, c) == IsRow(h, c) /\ (c # <<>> => h[c[1]].prev = NULL)

Values(h, c) == Fields(h, c, "element")

LEMMA SoundIs ==
  ASSUME NEW h, IsHeap(h), NEW a, NEW k, Sound(h, a, k)
  PROVE  \E c : c = Chain(h, a) /\ IsListRow(h, c) /\ a = Start(c) /\ k = Len(c)
<1>1. PICK c : c = Chain(h, a)
  OBVIOUS
<1>2. /\ ToSet(c) \subseteq DOMAIN h /\ Len(c) = k
      /\ \A i \in DOMAIN c : h[c[i]].prev = IF i = 1 THEN NULL ELSE c[i - 1]
  BY <1>1, Zenon DEF Sound
<1>3. NULL \notin ToSet(c)
  BY <1>2 DEF IsHeap
<1>4. IsRow(h, c) /\ a = Start(c)
  BY <1>1, <1>2, <1>3, ChainIsRow
<1>5. ASSUME c # <<>> PROVE h[c[1]].prev = NULL
  <2>1. 1 \in DOMAIN c
    BY <1>4, <1>5, RowFacts
  <2> QED
    BY <1>2, <2>1
<1> QED
  BY <1>1, <1>2, <1>4, <1>5 DEF IsListRow

LEMMA SoundIf ==
  ASSUME NEW h, IsHeap(h), NEW c, IsListRow(h, c)
  PROVE  Sound(h, Start(c), Len(c)) /\ Chain(h, Start(c)) = c
<1>1. IsRow(h, c) /\ (c # <<>> => h[c[1]].prev = NULL)
  BY DEF IsListRow
<1>2. Chain(h, Start(c)) = c
  BY <1>1, RowIsChain
<1>3. ToSet(c) \subseteq DOMAIN h /\ DOMAIN c = 1..Len(c) /\ Len(c) \in Nat
  BY <1>1, RowFacts
<1>4. ASSUME NEW i \in DOMAIN c PROVE h[c[i]].prev = IF i = 1 THEN NULL ELSE c[i - 1]
  <2>1. CASE i = 1
    <3>1. c # <<>>
      BY <1>1, <1>3, <1>4, RowFacts
    <3> QED
      BY <1>1, <2>1, <3>1
  <2>2. CASE i # 1
    <3>1. i \in 2..Len(c)
      BY <1>3, <2>2
    <3> QED
      BY <1>1, <2>2, <3>1, RowFacts
  <2> QED
    BY <2>1, <2>2
<1> QED
  BY <1>2, <1>3, <1>4, Zenon DEF Sound

\* No node of a row is gone.
LEMMA RowNotGone ==
  ASSUME NEW h, NEW n, TypedHeap(h, n), NEW c, IsRow(h, c), NEW x \in ToSet(c)
  PROVE  x \in DOMAIN h /\ h[x].next # WILD /\ ~Gone(h, x)
<1>1. PICK i \in 1..Len(c) : x = c[i]
  BY RowFacts
<1>2. x \in DOMAIN h /\ h[x].next = IF i = Len(c) THEN NULL ELSE c[i + 1]
  BY <1>1, RowFacts
<1>3. Len(c) \in Nat /\ \A j \in 1..Len(c) : c[j] # WILD
  <2>1. WILD \notin DOMAIN h
    BY TypedIs
  <2> QED
    BY <2>1, RowFacts
<1>4. i # Len(c) => i + 1 \in 1..Len(c)
  BY <1>3
<1>5. h[x].next # WILD
  BY <1>2, <1>3, <1>4, Numbers
<1> QED
  BY <1>2, <1>5 DEF Gone

LEMMA SoundNotGone ==
  ASSUME NEW h, NEW n, TypedHeap(h, n), NEW c, IsRow(h, c), c # <<>>
  PROVE  c[1] \in ToSet(c) /\ c[1] \in DOMAIN h /\ h[c[1]].next # WILD /\ ~Gone(h, c[1])
<1>1. c[1] \in ToSet(c)
  BY RowFacts
<1> QED
  BY <1>1, RowNotGone

\* The rows of two lists that do not begin at the same node.
LEMMA ListRowsApart ==
  ASSUME NEW h, NEW n, TypedHeap(h, n), NEW c, NEW d, IsListRow(h, c), IsListRow(h, d),
         c # <<>> /\ d # <<>> => c[1] # d[1]
  PROVE  ToSet(c) \cap ToSet(d) = {}
<1>1. CASE c # <<>> /\ d # <<>>
  <2>1. NULL \notin ToSet(c)
    BY RowFacts, TypedIs DEF IsListRow
  <2>2. NULL \notin ToSet(d)
    BY RowFacts, TypedIs DEF IsListRow
  <2> QED
    BY <1>1, <2>1, <2>2, RowsApart DEF IsListRow
<1>2. CASE c = <<>> \/ d = <<>>
  <2>1. ToSet(<<>>) = {}
    BY DEF ToSet
  <2> QED
    BY <1>2, <2>1
<1> QED
  BY <1>1, <1>2

LEMMA ValuesAre ==
  ASSUME NEW h, NEW n, TypedHeap(h, n), NEW c, IsRow(h, c)
  PROVE  /\ c \in Seq(DOMAIN h) /\ Values(h, c) \in Seq(Elements) /\ Len(Values(h, c)) = Len(c)
         /\ \A i \in 1..Len(c) : Values(h, c)[i] = h[c[i]].element
         /\ Values(h, c) = [i \in DOMAIN c |-> h[c[i]].element]
<1>1. c \in Seq(DOMAIN h) /\ ToSet(c) \subseteq DOMAIN h /\ DOMAIN c = 1..Len(c)
  BY RowFacts DEF IsRow
<1>2. \A x \in ToSet(c) : h[x]["element"] \in Elements
  BY <1>1, TypedIs, EntryNodeIs
<1>3. Values(h, c) \in Seq(Elements) /\ Len(Values(h, c)) = Len(c)
  BY <1>1, <1>2, FieldsAre DEF Values
<1>4. Values(h, c) = [i \in DOMAIN c |-> h[c[i]].element]
  BY DEF Values, Fields
<1> QED
  BY <1>1, <1>3, <1>4

LEMMA ValuesJoin ==
  ASSUME NEW h, NEW D, NEW c \in Seq(D), NEW d \in Seq(D)
  PROVE  Values(h, c \o d) = Values(h, c) \o Values(h, d)
BY FieldsJoin, Z3 DEF Values

LEMMA ValuesCut ==
  ASSUME NEW h, NEW D, NEW c \in Seq(D), NEW j \in 1..Len(c)
  PROVE  Values(h, RemoveAt(c, j)) = RemoveAt(Values(h, c), j)
BY FieldsCut, Z3 DEF Values

LEMMA ValuesStay ==
  ASSUME NEW h, NEW g, NEW D, NEW c \in Seq(D), \A x \in ToSet(c) : g[x].element = h[x].element
  PROVE  Values(g, c) = Values(h, c)
BY FieldsStay DEF Values

LEMMA ValuesOfOne ==
  ASSUME NEW h, NEW x
  PROVE  Values(h, <<x>>) = <<h[x].element>>
<1>1. Fields(h, <<x>>, "element") = <<h[x]["element"]>>
  BY FieldsOfOne
<1> QED
  BY <1>1 DEF Values

\* The list d is put behind the list c.
LEMMA ListsJoin ==
  ASSUME NEW h, NEW n, TypedHeap(h, n), NEW c, NEW d, IsListRow(h, c), IsRow(h, d),
         c # <<>>, d # <<>>, ToSet(c) \cap ToSet(d) = {}
  PROVE  /\ TypedHeap(listNodeAppend(h, c[1], d[1]), n)
         /\ KeepsGone(h, listNodeAppend(h, c[1], d[1]), n)
         /\ IsListRow(listNodeAppend(h, c[1], d[1]), c \o d)
         /\ c \o d # <<>> /\ (c \o d)[1] = c[1] /\ Len(c \o d) = Len(c) + Len(d)
         /\ Values(listNodeAppend(h, c[1], d[1]), c \o d) = Values(h, c) \o Values(h, d)
<1>. PICK g : g = listNodeAppend(h, c[1], d[1])
  OBVIOUS
<1>1. IsRow(h, c) /\ h[c[1]].prev = NULL /\ IsHeap(h)
  BY TypedIs DEF IsListRow
<1>2. PICK a : a = Last(c)
  OBVIOUS
<1>3. PICK b : b = d[1]
  OBVIOUS
<1>4. a \in ToSet(c) /\ b \in ToSet(d) /\ g = Joined(h, a, b) /\ IsRow(g, c \o d)
  BY <1>1, <1>2, <1>3, RowsJoin
<1>5. a \in DOMAIN h /\ h[a].next # WILD
  BY <1>1, <1>4, RowNotGone
<1>6. b \in DOMAIN h
  BY <1>4, RowNotGone
<1>7. /\ TypedHeap(g, n) /\ KeepsGone(h, g, n)
      /\ \A x \in DOMAIN h : g[x].element = h[x].element
  BY <1>4, <1>5, <1>6, TypedJoined
<1>8. c \in Seq(DOMAIN h) /\ d \in Seq(DOMAIN h)
  BY <1>1 DEF IsRow
<1>9. c \o d # <<>> /\ (c \o d)[1] = c[1] /\ Len(c \o d) = Len(c) + Len(d)
  BY <1>8
<1>10. c[1] \in ToSet(c) /\ c[1] \in DOMAIN h
  BY <1>1, SoundNotGone
<1>11. c[1] # b
  BY <1>4, <1>10
<1>12. g[c[1]].prev = NULL
  <2>1. Joined(h, a, b)[c[1]].prev = IF c[1] = b THEN a ELSE h[c[1]].prev
    BY <1>1, <1>10, JoinedAt
  <2> QED
    BY <1>1, <1>4, <1>11, <2>1
<1>13. IsListRow(g, c \o d)
  BY <1>4, <1>9, <1>12 DEF IsListRow
<1>14. ToSet(c) \subseteq DOMAIN h
  BY <1>1, RowFacts
<1>15. ToSet(d) \subseteq DOMAIN h
  BY RowFacts
<1>16. Values(g, c) = Values(h, c)
  <2>1. \A x \in ToSet(c) : g[x]["element"] = h[x]["element"]
    BY <1>7, <1>14
  <2> QED
    BY <1>8, <2>1, FieldsStay DEF Values
<1>17. Values(g, d) = Values(h, d)
  <2>1. \A x \in ToSet(d) : g[x]["element"] = h[x]["element"]
    BY <1>7, <1>15
  <2> QED
    BY <1>8, <2>1, FieldsStay DEF Values
<1>18. Values(g, c \o d) = Values(g, c) \o Values(g, d)
  BY <1>8, ValuesJoin, Zenon
<1> QED
  BY <1>7, <1>9, <1>13, <1>16, <1>17, <1>18

LEMMA OneRow ==
  ASSUME NEW h, NEW x \in DOMAIN h, h[x].next = NULL
  PROVE  IsRow(h, <<x>>) /\ ToSet(<<x>>) = {x} /\ <<x>> # <<>> /\ <<x>>[1] = x
<1>1. <<x>> \in Seq(DOMAIN h) /\ Len(<<x>>) = 1 /\ <<x>>[1] = x /\ DOMAIN <<x>> = 1..1
  OBVIOUS
<1>2. ToSet(<<x>>) = {x}
  BY <1>1 DEF ToSet
<1> QED
  BY <1>1, <1>2 DEF IsRow

\* A new entry behind a list, and in front of it.
LEMMA EntryJoins ==
  ASSUME NEW h, NEW n, TypedHeap(h, n), n + 1 <= MaxNodes, NEW e \in Elements,
         NEW c, IsListRow(h, c), NEW f, f = n + 1, NEW w, w = With(h, f, Entry(e))
  PROVE  /\ TypedHeap(w, n + 1) /\ KeepsGone(h, w, n) /\ IsListRow(w, c) /\ IsListRow(w, <<f>>)
         /\ ToSet(c) \cap ToSet(<<f>>) = {} /\ <<f>>[1] = f /\ <<f>> # <<>> /\ f \notin DOMAIN h
         /\ Values(w, c) = Values(h, c) /\ Values(w, <<f>>) = <<e>>
<1>1. /\ TypedHeap(w, n + 1) /\ KeepsGone(h, w, n)
      /\ f \notin DOMAIN h /\ DOMAIN w = DOMAIN h \cup {f}
      /\ w[f] = Entry(e) /\ \A x \in DOMAIN h : w[x] = h[x]
  <2>1. w = With(h, n + 1, Entry(e))
    OBVIOUS
  <2>2. /\ TypedHeap(w, n + 1) /\ KeepsGone(h, w, n)
        /\ n + 1 \notin DOMAIN h /\ DOMAIN w = DOMAIN h \cup {n + 1}
    BY <2>1, TypedWith
  <2>3. w[n + 1] = Entry(e) /\ \A x \in DOMAIN h : w[x] = h[x]
    BY <2>1, <2>2 DEF With
  <2> QED
    BY <2>2, <2>3
<1>2. IsRow(h, c) /\ (c # <<>> => h[c[1]].prev = NULL)
  BY DEF IsListRow
<1>3. ToSet(c) \subseteq DOMAIN h /\ c \in Seq(DOMAIN h)
  BY <1>2, RowFacts DEF IsRow
<1>4. IsRow(w, c)
  BY <1>1, <1>2, <1>3, RowStays
<1>5. c # <<>> => w[c[1]].prev = NULL
  <2>1. c # <<>> => c[1] \in DOMAIN h
    BY <1>2, SoundNotGone
  <2> QED
    BY <1>1, <1>2, <2>1
<1>6. w[f].next = NULL /\ w[f].prev = NULL /\ w[f].element = e
  BY <1>1, NewEntry
<1>7. IsRow(w, <<f>>) /\ ToSet(<<f>>) = {f} /\ <<f>> # <<>> /\ <<f>>[1] = f
  BY <1>1, <1>6, OneRow
<1>8. IsListRow(w, <<f>>)
  BY <1>6, <1>7 DEF IsListRow
<1>9. ToSet(c) \cap ToSet(<<f>>) = {}
  BY <1>1, <1>3, <1>7
<1>10. Values(w, c) = Values(h, c)
  BY <1>1, <1>3, ValuesStay
<1>11. Values(w, <<f>>) = <<e>>
  <2>1. Values(w, <<f>>) = <<w[f].element>>
    BY ValuesOfOne
  <2> QED
    BY <1>6, <2>1
<1> QED
  BY <1>1, <1>4, <1>5, <1>7, <1>8, <1>9, <1>10, <1>11 DEF IsListRow

LEMMA AppendIs ==
  ASSUME NEW h, NEW n, TypedHeap(h, n), n + 1 <= MaxNodes, NEW e \in Elements,
         NEW c, IsListRow(h, c), NEW f, f = n + 1, NEW w, w = With(h, f, Entry(e)),
         NEW g, g = IF c = <<>> THEN w ELSE listNodeAppend(w, c[1], f)
  PROVE  \E d : /\ TypedHeap(g, n + 1) /\ KeepsGone(h, g, n) /\ IsListRow(g, d)
                /\ Start(d) = (IF c = <<>> THEN f ELSE c[1]) /\ Len(d) = Len(c) + 1
                /\ Values(g, d) = Append(Values(h, c), e)
<1>1. /\ TypedHeap(w, n + 1) /\ KeepsGone(h, w, n) /\ IsListRow(w, c) /\ IsListRow(w, <<f>>)
      /\ ToSet(c) \cap ToSet(<<f>>) = {} /\ <<f>>[1] = f /\ <<f>> # <<>>
      /\ Values(w, c) = Values(h, c) /\ Values(w, <<f>>) = <<e>>
  BY EntryJoins
<1>2. Values(h, c) \in Seq(Elements) /\ IsRow(h, c) /\ Len(c) \in Nat
  BY ValuesAre, RowFacts DEF IsListRow
<1>3. CASE c = <<>>
  <2>1. Start(<<f>>) = f /\ Len(<<f>>) = Len(c) + 1 /\ g = w
    BY <1>3 DEF Start
  <2>2. Values(h, c) = <<>>
    BY <1>3 DEF Values, Fields
  <2>3. Append(Values(h, c), e) = <<e>>
    BY <2>2
  <2>4. TypedHeap(g, n + 1) /\ KeepsGone(h, g, n) /\ IsListRow(g, <<f>>)
    BY <1>1, <2>1
  <2>5. Values(g, <<f>>) = Append(Values(h, c), e)
    BY <1>1, <2>1, <2>3
  <2>6. Start(<<f>>) = IF c = <<>> THEN f ELSE c[1]
    BY <1>3, <2>1
  <2> QED
    BY <2>1, <2>4, <2>5, <2>6
<1>4. CASE c # <<>>
  <2>1. g = listNodeAppend(w, c[1], <<f>>[1])
    BY <1>1, <1>4
  <2>2. IsRow(w, <<f>>)
    BY <1>1 DEF IsListRow
  <2>3. PICK k : k = <<f>>
    OBVIOUS
  <2>a. PICK m : m = n + 1
    OBVIOUS
  <2>b. /\ TypedHeap(w, m) /\ IsListRow(w, c) /\ IsRow(w, k) /\ k # <<>>
        /\ ToSet(c) \cap ToSet(k) = {} /\ g = listNodeAppend(w, c[1], k[1])
    BY <1>1, <2>1, <2>2, <2>3, <2>a
  <2>i. /\ TypedHeap(w, m) /\ IsListRow(w, c) /\ IsRow(w, k) /\ c # <<>> /\ k # <<>>
        /\ ToSet(c) \cap ToSet(k) = {}
    BY <1>4, <2>b
  <2>c. /\ TypedHeap(listNodeAppend(w, c[1], k[1]), m)
        /\ KeepsGone(w, listNodeAppend(w, c[1], k[1]), m)
    BY <2>i, ListsJoin
  <2>e. /\ IsListRow(g, c \o k) /\ c \o k # <<>>
        /\ (c \o k)[1] = c[1] /\ Len(c \o k) = Len(c) + Len(k)
    BY <1>4, <2>b, ListsJoin
  <2>f. Values(listNodeAppend(w, c[1], k[1]), c \o k) = Values(w, c) \o Values(w, k)
    BY <2>i, ListsJoin, Z3T(30)
  <2>d. PICK d : d = c \o k
    OBVIOUS
  <2>4. /\ TypedHeap(g, n + 1) /\ KeepsGone(w, g, n + 1) /\ IsListRow(g, d)
        /\ d # <<>> /\ d[1] = c[1] /\ Len(d) = Len(c) + Len(<<f>>)
        /\ Values(g, d) = Values(w, c) \o Values(w, <<f>>)
    BY <2>3, <2>a, <2>b, <2>c, <2>d, <2>e, <2>f
  <2>5. KeepsGone(h, g, n)
    <3>1. n \in Nat
      BY TypedIs
    <3>2. \A a \in 1..n : a \in 1..(n + 1)
      BY <3>1
    <3> QED
      BY <1>1, <2>4, <3>2 DEF KeepsGone
  <2>6. Values(g, d) = Append(Values(h, c), e)
    <3>1. Values(g, d) = Values(h, c) \o <<e>>
      BY <1>1, <2>4
    <3> QED
      BY <1>2, <3>1
  <2>7. Start(d) = (IF c = <<>> THEN f ELSE c[1]) /\ Len(d) = Len(c) + 1
    BY <1>4, <2>4 DEF Start
  <2> QED
    BY <2>4, <2>5, <2>6, <2>7
<1> QED
  BY <1>3, <1>4

LEMMA PushIs ==
  ASSUME NEW h, NEW n, TypedHeap(h, n), n + 1 <= MaxNodes, NEW e \in Elements,
         NEW c, IsListRow(h, c), NEW f, f = n + 1, NEW w, w = With(h, f, Entry(e)),
         NEW g, g = IF c = <<>> THEN w ELSE listNodeAppend(w, f, c[1])
  PROVE  \E d : /\ TypedHeap(g, n + 1) /\ KeepsGone(h, g, n) /\ IsListRow(g, d)
                /\ Start(d) = f /\ Len(d) = Len(c) + 1
                /\ Values(g, d) = <<e>> \o Values(h, c)
<1>1. /\ TypedHeap(w, n + 1) /\ KeepsGone(h, w, n) /\ IsListRow(w, c) /\ IsListRow(w, <<f>>)
      /\ ToSet(c) \cap ToSet(<<f>>) = {} /\ <<f>>[1] = f /\ <<f>> # <<>>
      /\ Values(w, c) = Values(h, c) /\ Values(w, <<f>>) = <<e>>
  BY EntryJoins
<1>2. Values(h, c) \in Seq(Elements) /\ IsRow(h, c) /\ Len(c) \in Nat
  BY ValuesAre, RowFacts DEF IsListRow
<1>3. CASE c = <<>>
  <2>1. Start(<<f>>) = f /\ Len(<<f>>) = Len(c) + 1 /\ g = w
    BY <1>3 DEF Start
  <2>2. Values(h, c) = <<>>
    BY <1>3 DEF Values, Fields
  <2>3. <<e>> \o Values(h, c) = <<e>>
    BY <2>2
  <2>4. TypedHeap(g, n + 1) /\ KeepsGone(h, g, n) /\ IsListRow(g, <<f>>)
    BY <1>1, <2>1
  <2>5. Values(g, <<f>>) = <<e>> \o Values(h, c)
    BY <1>1, <2>1, <2>3
  <2> QED
    BY <2>1, <2>4, <2>5
<1>4. CASE c # <<>>
  <2>1. g = listNodeAppend(w, <<f>>[1], c[1])
    BY <1>1, <1>4
  <2>2. IsRow(w, c) /\ ToSet(<<f>>) \cap ToSet(c) = {}
    BY <1>1 DEF IsListRow
  <2>3. PICK k : k = <<f>>
    OBVIOUS
  <2>a. PICK m : m = n + 1
    OBVIOUS
  <2>b. /\ TypedHeap(w, m) /\ IsListRow(w, k) /\ IsRow(w, c) /\ k # <<>>
        /\ ToSet(k) \cap ToSet(c) = {} /\ g = listNodeAppend(w, k[1], c[1])
    BY <1>1, <2>1, <2>2, <2>3, <2>a
  <2>i. /\ TypedHeap(w, m) /\ IsListRow(w, k) /\ IsRow(w, c) /\ k # <<>> /\ c # <<>>
        /\ ToSet(k) \cap ToSet(c) = {}
    BY <1>4, <2>b
  <2>c. /\ TypedHeap(listNodeAppend(w, k[1], c[1]), m)
        /\ KeepsGone(w, listNodeAppend(w, k[1], c[1]), m)
    BY <2>i, ListsJoin
  <2>e. /\ IsListRow(g, k \o c) /\ k \o c # <<>>
        /\ (k \o c)[1] = k[1] /\ Len(k \o c) = Len(k) + Len(c)
    BY <1>4, <2>b, ListsJoin
  <2>f. Values(listNodeAppend(w, k[1], c[1]), k \o c) = Values(w, k) \o Values(w, c)
    BY <2>i, ListsJoin, Z3T(30)
  <2>d. PICK d : d = k \o c
    OBVIOUS
  <2>4. /\ TypedHeap(g, n + 1) /\ KeepsGone(w, g, n + 1) /\ IsListRow(g, d)
        /\ d # <<>> /\ d[1] = <<f>>[1] /\ Len(d) = Len(<<f>>) + Len(c)
        /\ Values(g, d) = Values(w, <<f>>) \o Values(w, c)
    BY <2>3, <2>a, <2>b, <2>c, <2>d, <2>e, <2>f
  <2>5. KeepsGone(h, g, n)
    <3>1. n \in Nat
      BY TypedIs
    <3>2. \A a \in 1..n : a \in 1..(n + 1)
      BY <3>1
    <3> QED
      BY <1>1, <2>4, <3>2 DEF KeepsGone
  <2>6. Values(g, d) = <<e>> \o Values(h, c)
    BY <1>1, <2>4
  <2>7. Start(d) = f /\ Len(d) = Len(c) + 1
    BY <1>1, <1>2, <2>4 DEF Start
  <2> QED
    BY <2>4, <2>5, <2>6, <2>7
<1> QED
  BY <1>3, <1>4

\* An entry is taken out of a list.
LEMMA ListCut ==
  ASSUME NEW h, NEW n, TypedHeap(h, n), NEW c, IsListRow(h, c), NEW j \in 1..Len(c)
  PROVE  /\ Free(listNodeDelete(h, c[j]), {c[j]}) = Cut(h, c[j])
         /\ TypedHeap(Cut(h, c[j]), n) /\ KeepsGone(h, Cut(h, c[j]), n)
         /\ IsListRow(Cut(h, c[j]), RemoveAt(c, j))
         /\ Len(RemoveAt(c, j)) = Len(c) - 1 /\ (1 < j => RemoveAt(c, j)[1] = c[1])
         /\ Values(Cut(h, c[j]), RemoveAt(c, j)) = RemoveAt(Values(h, c), j)
<1>1. PICK y : y = c[j]
  OBVIOUS
<1>2. PICK d : d = RemoveAt(c, j)
  OBVIOUS
<1>3. PICK g : g = Cut(h, y)
  OBVIOUS
<1>4. IsHeap(h) /\ IsRow(h, c) /\ (c # <<>> => h[c[1]].prev = NULL)
  BY TypedIs DEF IsListRow
<1>5. Len(c) \in Nat /\ Len(c) >= 1 /\ c # <<>> /\ y \in ToSet(c)
  BY <1>1, <1>4, RowFacts
<1>6. /\ y \in DOMAIN h /\ IsRow(g, d) /\ ToSet(d) = ToSet(c) \ {y}
      /\ (Len(c) > 1 => g[d[1]].prev = NULL)
      /\ h[y].prev \in ToSet(c) \cup {NULL}
  BY <1>1, <1>2, <1>3, <1>4, <1>5, RowCut
<1>7. Free(listNodeDelete(h, y), {y}) = g
  BY <1>3, <1>4, <1>6, CutIs
<1>8. h[y].prev \in DOMAIN h => h[h[y].prev].next # WILD
  <2>1. h[y].prev \in DOMAIN h => h[y].prev \in ToSet(c)
    BY <1>6, TypedIs
  <2> QED
    BY <1>4, <2>1, RowNotGone
<1>9. /\ TypedHeap(g, n) /\ KeepsGone(h, g, n)
      /\ \A x \in DOMAIN h \ {y} : g[x].element = h[x].element
  BY <1>3, <1>6, <1>8, TypedCut
<1>10. c \in Seq(DOMAIN h)
  BY <1>4 DEF IsRow
<1>11. /\ d \in Seq(DOMAIN h) /\ Len(d) = Len(c) - 1
       /\ \A p \in 1..(Len(c) - 1) : d[p] = IF p < j THEN c[p] ELSE c[p + 1]
  BY <1>2, <1>10, RemoveAtIs, Zenon
<1>12. 1 < j => d[1] = c[1]
  BY <1>5, <1>11
<1>13. IsListRow(g, d)
  <2>1. d # <<>> => Len(c) > 1
    <3>1. d # <<>> => Len(d) # 0
      BY <1>11, EmptySeq
    <3> QED
      BY <1>5, <1>11, <3>1
  <2> QED
    BY <1>6, <2>1 DEF IsListRow
<1>14. Values(g, d) = Values(h, d)
  <2>1. ToSet(d) \subseteq DOMAIN h \ {y}
    BY <1>4, <1>6, RowFacts
  <2>2. \A x \in ToSet(d) : g[x].element = h[x].element
    BY <1>9, <2>1
  <2> QED
    BY <1>11, <2>2, ValuesStay
<1>15. Values(h, d) = RemoveAt(Values(h, c), j)
  BY <1>2, <1>10, ValuesCut
<1> QED
  BY <1>1, <1>2, <1>3, <1>7, <1>9, <1>11, <1>12, <1>13, <1>14, <1>15

LEMMA FrontIsCut ==
  ASSUME NEW X, NEW s \in Seq(X), s # <<>>
  PROVE  RemoveAt(s, Len(s)) = Front(s)
<1>1. PICK n \in Nat : n = Len(s) /\ n >= 1
  BY EmptySeq
<1>2. PICK t : t = SubSeq(s, 1, n - 1)
  OBVIOUS
<1>3. t \in Seq(X)
  BY <1>1, <1>2
<1>4. SubSeq(s, n + 1, n) = <<>>
  BY <1>1
<1>5. t \o <<>> = t
  BY <1>3
<1> QED
  BY <1>1, <1>2, <1>4, <1>5 DEF RemoveAt, Front

\* The entry at the front goes, and the one behind it is written to.
LEMMA PopIs ==
  ASSUME NEW h, NEW n, TypedHeap(h, n), NEW c, IsListRow(h, c), c # <<>>,
         NEW g, g = Free(DeletedAsNode(h, c[1]), {c[1]})
  PROVE  /\ c[1] \in DOMAIN h /\ TypedHeap(g, n) /\ KeepsGone(h, g, n)
         /\ h[c[1]].next \in DOMAIN h \cup {NULL}
         /\ h[c[1]].next # NULL => Gone(g, h[c[1]].next)
<1>1. IsRow(h, c)
  BY DEF IsListRow
<1>2. PICK y : y = c[1]
  OBVIOUS
<1>3. y \in DOMAIN h
  BY <1>1, <1>2, SoundNotGone
<1>4. PICK b : b = h[y].next
  OBVIOUS
<1>5. b \in DOMAIN h \cup {NULL}
  <2>1. PICK k \in Nat : /\ k = Len(c) /\ k # 0
                         /\ \A i \in 1..k : c[i] \in DOMAIN h
                         /\ \A i \in 1..k : h[c[i]].next = IF i = k THEN NULL ELSE c[i + 1]
    BY <1>1, RowFacts
  <2>2. 1 \in 1..k /\ (1 # k => 1 + 1 \in 1..k)
    BY <2>1
  <2>3. b = IF 1 = k THEN NULL ELSE c[1 + 1]
    BY <1>2, <1>4, <2>1, <2>2
  <2> QED
    BY <2>1, <2>2, <2>3
<1>6. PICK m : m = DeletedAsNode(h, y)
  OBVIOUS
<1>7. m = IF b = NULL THEN h ELSE [h EXCEPT ![b].next = WILD]
  BY <1>4, <1>6 DEF DeletedAsNode
<1>8. /\ DOMAIN h \subseteq 1..n /\ h = [x \in DOMAIN h |-> h[x]] /\ NULL \notin DOMAIN h
      /\ \A x \in DOMAIN h : h[x] \in EntryNodes
  BY TypedIs DEF TypedHeap
<1>9. /\ DOMAIN m = DOMAIN h /\ m = [x \in DOMAIN m |-> m[x]]
      /\ \A x \in DOMAIN h : m[x] = IF x = b THEN [h[x] EXCEPT !.next = WILD] ELSE h[x]
  BY <1>7, <1>8
<1>10. \A x \in DOMAIN h : m[x] \in EntryNodes /\ (x # b => m[x] = h[x])
  BY <1>8, <1>9 DEF EntryNodes, Addresses
<1>11. b \in DOMAIN h => m[b].next = WILD
  BY <1>8, <1>9 DEF EntryNodes
<1>12. TypedHeap(m, n)
  BY <1>9, <1>10, <1>8 DEF TypedHeap
<1>13. KeepsGone(h, m, n)
  BY <1>9, <1>10, <1>11 DEF KeepsGone, Gone
<1>14. g = Free(m, {y})
  BY <1>2, <1>6
<1>15. /\ TypedHeap(g, n) /\ KeepsGone(m, g, n)
       /\ DOMAIN g = DOMAIN m \ {y} /\ \A x \in DOMAIN m \ {y} : g[x] = m[x]
  <2>1. TypedHeap(Free(m, {y}), n) /\ KeepsGone(m, Free(m, {y}), n)
    BY <1>12, TypedFree
  <2>2. /\ DOMAIN Free(m, {y}) = DOMAIN m \ {y}
        /\ \A x \in DOMAIN m \ {y} : Free(m, {y})[x] = m[x]
    BY DEF Free, Restrict
  <2> QED
    BY <1>14, <2>1, <2>2
<1>16. KeepsGone(h, g, n)
  BY <1>13, <1>15 DEF KeepsGone
<1>17. b # NULL => Gone(g, b)
  BY <1>5, <1>9, <1>11, <1>15 DEF Gone
<1> QED
  BY <1>2, <1>3, <1>4, <1>5, <1>15, <1>16, <1>17

\* New nodes in a row, that hold the values of s.
NewRow(n, k, s) ==
  [x \in (n + 1)..(n + k) |->
     [element |-> s[x - n], next |-> IF x = n + k THEN NULL ELSE x + 1,
      prev |-> IF x = n + 1 THEN NULL ELSE x - 1]]

LEMMA NewRowIs ==
  ASSUME NEW n \in Nat, NEW k \in Nat, n + k <= MaxNodes, NEW s \in Seq(Elements), Len(s) = k,
         NEW w, w = NewRow(n, k, s)
  PROVE  /\ DOMAIN w = (n + 1)..(n + k) /\ TypedHeap(w, n + k)
         /\ \A x \in (n + 1)..(n + k) :
              /\ w[x].element = s[x - n]
              /\ w[x].next = (IF x = n + k THEN NULL ELSE x + 1)
              /\ w[x].prev = (IF x = n + 1 THEN NULL ELSE x - 1)
<1>1. MaxNodes \in Nat
  BY Numbers
<1>2. PICK m \in Nat : m = n + k
  OBVIOUS
<1>3. DOMAIN w = (n + 1)..m /\ w = [x \in DOMAIN w |-> w[x]]
  BY <1>2 DEF NewRow
<1>4. ASSUME NEW x \in (n + 1)..m
      PROVE  /\ w[x] \in EntryNodes
             /\ w[x].element = s[x - n]
             /\ w[x].next = (IF x = m THEN NULL ELSE x + 1)
             /\ w[x].prev = (IF x = n + 1 THEN NULL ELSE x - 1)
  <2>1. w[x] = [element |-> s[x - n], next |-> IF x = m THEN NULL ELSE x + 1,
                prev |-> IF x = n + 1 THEN NULL ELSE x - 1]
    BY <1>2 DEF NewRow
  <2>2. PICK e : e = s[x - n]
    OBVIOUS
  <2>3. PICK a : a = IF x = m THEN NULL ELSE x + 1
    OBVIOUS
  <2>4. PICK b : b = IF x = n + 1 THEN NULL ELSE x - 1
    OBVIOUS
  <2>5. e \in Elements
    <3>1. x - n \in 1..Len(s)
      BY <1>2
    <3> QED
      BY <2>2, <3>1
  <2>6. a \in Addresses
    BY <1>1, <1>2, <2>3 DEF Addresses
  <2>7. b \in Addresses
    BY <1>1, <1>2, <2>4 DEF Addresses
  <2>8. w[x] = [element |-> e, next |-> a, prev |-> b]
    BY <2>1, <2>2, <2>3, <2>4
  <2>9. w[x] \in EntryNodes /\ w[x].element = e /\ w[x].next = a /\ w[x].prev = b
    BY <2>5, <2>6, <2>7, <2>8 DEF EntryNodes
  <2> QED
    BY <2>2, <2>3, <2>4, <2>9
<1>5. m \in 0..MaxNodes /\ DOMAIN w \subseteq 1..m
  BY <1>1, <1>2, <1>3
<1>6. TypedHeap(w, m)
  BY <1>3, <1>4, <1>5 DEF TypedHeap
<1> QED
  BY <1>2, <1>3, <1>4, <1>6

\* They are in the heap besides the nodes that were.
InRow(g, n, k, s) ==
  \A x \in (n + 1)..(n + k) :
    /\ x \in DOMAIN g /\ g[x].element = s[x - n]
    /\ g[x].next = (IF x = n + k THEN NULL ELSE x + 1)
    /\ g[x].prev = (IF x = n + 1 THEN NULL ELSE x - 1)
Keeps(h, g) == \A x \in DOMAIN h : x \in DOMAIN g /\ g[x] = h[x]

LEMMA BothIs ==
  ASSUME NEW h, NEW n, TypedHeap(h, n), NEW k \in Nat, n + k <= MaxNodes,
         NEW s \in Seq(Elements), Len(s) = k
  PROVE  /\ TypedHeap(Both(h, NewRow(n, k, s)), n + k)
         /\ KeepsGone(h, Both(h, NewRow(n, k, s)), n)
         /\ Keeps(h, Both(h, NewRow(n, k, s))) /\ InRow(Both(h, NewRow(n, k, s)), n, k, s)
<1>. PICK g : g = Both(h, NewRow(n, k, s))
  OBVIOUS
<1>1. /\ n \in Nat /\ DOMAIN h \subseteq 1..n /\ h = [x \in DOMAIN h |-> h[x]]
      /\ \A x \in DOMAIN h : h[x] \in EntryNodes
  BY TypedIs DEF TypedHeap
<1>2. PICK w : w = NewRow(n, k, s)
  OBVIOUS
<1>3. /\ DOMAIN w = (n + 1)..(n + k) /\ TypedHeap(w, n + k)
      /\ \A x \in (n + 1)..(n + k) :
           /\ w[x].element = s[x - n]
           /\ w[x].next = (IF x = n + k THEN NULL ELSE x + 1)
           /\ w[x].prev = (IF x = n + 1 THEN NULL ELSE x - 1)
  BY <1>1, <1>2, NewRowIs
<1>4. n + k \in 0..MaxNodes /\ \A x \in DOMAIN w : w[x] \in EntryNodes
  BY <1>3 DEF TypedHeap
<1>5. /\ DOMAIN g = DOMAIN h \cup DOMAIN w /\ g = [x \in DOMAIN g |-> g[x]]
      /\ \A x \in DOMAIN w : g[x] = w[x]
      /\ \A x \in DOMAIN h : x \notin DOMAIN w => g[x] = h[x]
  BY <1>2 DEF Both
<1>6. \A x \in 1..n : x \notin DOMAIN w
  BY <1>1, <1>3
<1>7. \A x \in DOMAIN h : g[x] = h[x]
  BY <1>1, <1>5, <1>6
<1>8. DOMAIN g \subseteq 1..(n + k)
  BY <1>1, <1>3, <1>5
<1>9. TypedHeap(g, n + k)
  BY <1>1, <1>4, <1>5, <1>7, <1>8 DEF TypedHeap
<1>10. KeepsGone(h, g, n)
  BY <1>5, <1>6, <1>7 DEF KeepsGone, Gone
<1>11. Keeps(h, g) /\ InRow(g, n, k, s)
  BY <1>3, <1>5, <1>7 DEF Keeps, InRow
<1> QED
  BY <1>9, <1>10, <1>11

\* Nodes in a row that follow each other in memory.
Numbered(n, k) == [i \in 1..k |-> n + i]

LEMMA NumberedIs ==
  ASSUME NEW n \in Nat, NEW k \in Nat
  PROVE  /\ Numbered(n, k) \in Seq((n + 1)..(n + k)) /\ Len(Numbered(n, k)) = k
         /\ ToSet(Numbered(n, k)) = (n + 1)..(n + k)
         /\ \A i \in 1..k : Numbered(n, k)[i] = n + i
         /\ Numbered(n, k) = <<>> <=> k = 0
<1>. PICK c : c = Numbered(n, k)
  OBVIOUS
<1>1. c \in [1..k -> (n + 1)..(n + k)] /\ DOMAIN c = 1..k /\ \A i \in 1..k : c[i] = n + i
  BY DEF Numbered
<1>2. c \in Seq((n + 1)..(n + k)) /\ Len(c) = k
  BY <1>1
<1>3. \A x \in (n + 1)..(n + k) : x - n \in 1..k /\ n + (x - n) = x
  OBVIOUS
<1>4. ToSet(c) = (n + 1)..(n + k)
  BY <1>1, <1>3 DEF ToSet
<1> QED
  BY <1>1, <1>2, <1>4, EmptySeq

LEMMA NumberedRow ==
  ASSUME NEW h, NEW n \in Nat, NEW k \in Nat, (n + 1)..(n + k) \subseteq DOMAIN h,
         \A x \in (n + 1)..(n + k) :
           /\ h[x].next = (IF x = n + k THEN NULL ELSE x + 1)
           /\ x # n + 1 => h[x].prev = x - 1
  PROVE  IsRow(h, Numbered(n, k))
<1>1. PICK c : c = Numbered(n, k)
  OBVIOUS
<1>2. /\ c \in Seq((n + 1)..(n + k)) /\ Len(c) = k /\ \A i \in 1..k : c[i] = n + i
  <2>1. /\ Numbered(n, k) \in Seq((n + 1)..(n + k)) /\ Len(Numbered(n, k)) = k
        /\ \A i \in 1..k : Numbered(n, k)[i] = n + i
    BY NumberedIs
  <2> QED
    BY <1>1, <2>1
<1>3. c \in Seq(DOMAIN h)
  <2>1. c \in [1..k -> DOMAIN h]
    BY <1>2
  <2> QED
    BY <2>1
<1>4. \A i, j \in 1..k : c[i] = c[j] => i = j
  BY <1>2
<1>5. ASSUME NEW i \in 1..k PROVE h[c[i]].next = IF i = k THEN NULL ELSE c[i + 1]
  <2>1. PICK x \in (n + 1)..(n + k) : x = n + i
    OBVIOUS
  <2>2. c[i] = x /\ (x = n + k <=> i = k)
    BY <1>2, <2>1
  <2>3. i # k => i + 1 \in 1..k
    OBVIOUS
  <2>4. i # k => c[i + 1] = x + 1
    BY <1>2, <2>1, <2>3
  <2> QED
    BY <2>2, <2>4
<1>6. ASSUME NEW i \in 2..k PROVE h[c[i]].prev = c[i - 1]
  <2>1. PICK x \in (n + 1)..(n + k) : x = n + i /\ x # n + 1
    OBVIOUS
  <2>2. i \in 1..k /\ i - 1 \in 1..k
    OBVIOUS
  <2>3. c[i] = x /\ c[i - 1] = x - 1
    BY <1>2, <2>1, <2>2
  <2> QED
    BY <2>1, <2>3
<1>7. IsRow(h, c)
  BY <1>2, <1>3, <1>4, <1>5, <1>6 DEF IsRow
<1> QED
  BY <1>1, <1>7

LEMMA CopyIs ==
  ASSUME NEW g, NEW n \in Nat, NEW k \in Nat, TypedHeap(g, n + k),
         NEW s \in Seq(Elements), Len(s) = k, InRow(g, n, k, s)
  PROVE  \E d : /\ IsListRow(g, d) /\ Start(d) = (IF k = 0 THEN NULL ELSE n + 1) /\ Len(d) = k
                /\ Values(g, d) = s
<1>1. /\ (n + 1)..(n + k) \subseteq DOMAIN g
      /\ \A x \in (n + 1)..(n + k) :
           /\ g[x].element = s[x - n]
           /\ g[x].next = (IF x = n + k THEN NULL ELSE x + 1)
           /\ g[x].prev = (IF x = n + 1 THEN NULL ELSE x - 1)
  BY DEF InRow
<1>2. PICK d : d = Numbered(n, k)
  OBVIOUS
<1>3. IsRow(g, d)
  BY <1>1, <1>2, NumberedRow
<1>4. /\ d \in Seq((n + 1)..(n + k)) /\ Len(d) = k
      /\ \A i \in 1..k : d[i] = n + i
      /\ d = <<>> <=> k = 0
  <2>1. /\ Numbered(n, k) \in Seq((n + 1)..(n + k)) /\ Len(Numbered(n, k)) = k
        /\ \A i \in 1..k : Numbered(n, k)[i] = n + i
        /\ Numbered(n, k) = <<>> <=> k = 0
    BY NumberedIs
  <2> QED
    BY <1>2, <2>1
<1>5. k # 0 => d[1] = n + 1 /\ n + 1 \in (n + 1)..(n + k)
  BY <1>4
<1>6. IsListRow(g, d)
  BY <1>1, <1>3, <1>4, <1>5 DEF IsListRow
<1>7. Start(d) = IF k = 0 THEN NULL ELSE n + 1
  BY <1>4, <1>5 DEF Start
<1>8. Values(g, d) = s
  <2>1. /\ Values(g, d) \in Seq(Elements) /\ Len(Values(g, d)) = k
        /\ \A i \in 1..k : Values(g, d)[i] = g[d[i]].element
    BY <1>3, <1>4, ValuesAre
  <2>2. ASSUME NEW i \in 1..k PROVE g[d[i]].element = s[i]
    <3>1. d[i] = n + i /\ n + i \in (n + 1)..(n + k) /\ (n + i) - n = i
      BY <1>4
    <3> QED
      BY <1>1, <3>1
  <2>3. \A i \in 1..k : Values(g, d)[i] = s[i]
    BY <2>1, <2>2
  <2>4. Values(g, d) = [i \in 1..k |-> Values(g, d)[i]]
    BY <2>1
  <2> QED
    BY <2>3, <2>4, SameSeq
<1> QED
  BY <1>4, <1>6, <1>7, <1>8

LEMMA ListRowStays ==
  ASSUME NEW h, NEW g, NEW c, IsListRow(h, c),
         \A x \in ToSet(c) : x \in DOMAIN g /\ g[x] = h[x]
  PROVE  IsListRow(g, c) /\ Values(g, c) = Values(h, c)
<1>1. IsRow(h, c) /\ (c # <<>> => h[c[1]].prev = NULL)
  BY DEF IsListRow
<1>2. IsRow(g, c)
  BY <1>1, RowStays
<1>3. c # <<>> => c[1] \in ToSet(c)
  BY <1>1, RowFacts
<1>4. c \in Seq(DOMAIN h)
  BY <1>1 DEF IsRow
<1>5. Values(g, c) = Values(h, c)
  BY <1>4, ValuesStay
<1> QED
  BY <1>1, <1>2, <1>3, <1>5 DEF IsListRow

-----------------------------------------------------------------------------
(***************************************************************************)
(* The inductive invariant of the generic list.  A call on one list may    *)
(* leave another that begins where the first did: such a list is not       *)
(* intact, and its first node is gone for good.                            *)
(***************************************************************************)
SharedAt(h, E) ==
  \A l, r \in Lists : l # r /\ E[l] = E[r] /\ E[l] # NULL => Gone(h, E[l])

\* What listPop returns.
IsSpoilt(x) == \E e \in Elements : x = Overwritten[e]

ListTypes ==
  /\ TypedHeap(heap, allocated) /\ entry \in [Lists -> {NULL} \cup 1..allocated]
  /\ size \in [Lists -> Nat] /\ iter \in [l : Lists, entry : Addresses]
  /\ answer \in Elements \cup {NULL} \cup BOOLEAN \/ IsSpoilt(answer)
  /\ crashed \in BOOLEAN

ListInv == ListTypes /\ SharedAt(heap, entry)

LEMMA ListInvTypes == ListInv => TypeOK
<1> SUFFICES ASSUME ListInv PROVE TypeOK
  OBVIOUS
<1>1. /\ allocated \in 0..MaxNodes /\ DOMAIN heap \subseteq 1..allocated
      /\ \A n \in DOMAIN heap : heap[n] \in EntryNodes
  BY DEF ListInv, ListTypes, TypedHeap
<1>2. {NULL} \cup 1..allocated \subseteq Addresses
  BY <1>1, Numbers DEF Addresses
<1>3. entry \in [Lists -> Addresses]
  BY <1>2 DEF ListInv, ListTypes
<1>4. answer \in Elements \cup {Overwritten[e] : e \in Elements} \cup {NULL} \cup BOOLEAN
  <2>1. answer \in Elements \cup {NULL} \cup BOOLEAN \/ IsSpoilt(answer)
    BY DEF ListInv, ListTypes
  <2> QED
    BY <2>1 DEF IsSpoilt
<1>5. /\ iter \in [l : Lists, entry : Addresses] /\ size \in [Lists -> Nat]
      /\ allocated \in 0..MaxNodes /\ crashed \in BOOLEAN
  BY <1>1 DEF ListInv, ListTypes
<1> QED
  BY <1>1, <1>3, <1>4, <1>5 DEF TypeOK, EntryNodes

\* What is known of a list that is intact.
LEMMA IntactIs ==
  ASSUME ListInv, NEW l \in Lists, Intact(l)
  PROVE  \E c : /\ c = ChainOf(l) /\ IsListRow(heap, c) /\ IsRow(heap, c)
                /\ entry[l] = Start(c) /\ size[l] = Len(c) /\ Len(c) \in Nat
                /\ (entry[l] = NULL <=> c = <<>>) /\ (c # <<>> => entry[l] = c[1])
                /\ (c = <<>> <=> Len(c) = 0)
                /\ ElementsOf(l) = Values(heap, c)
<1>1. TypedHeap(heap, allocated) /\ IsHeap(heap)
  BY TypedIs DEF ListInv, ListTypes
<1>2. Sound(heap, entry[l], size[l])
  BY Zenon DEF Intact, ChainOf, Sound
<1>3. PICK c : c = Chain(heap, entry[l]) /\ IsListRow(heap, c) /\ entry[l] = Start(c) /\ size[l] = Len(c)
  BY <1>1, <1>2, SoundIs
<1>4. c = ChainOf(l)
  BY <1>3 DEF ChainOf
<1>5. ElementsOf(l) = Values(heap, c)
  BY <1>3 DEF ElementsOf, ChainOf, Values, Fields
<1>6. IsRow(heap, c)
  BY <1>3 DEF IsListRow
<1>7. c # <<>> => c[1] \in DOMAIN heap /\ c[1] # NULL
  BY <1>1, <1>6, SoundNotGone DEF IsHeap
<1>8. Len(c) \in Nat /\ (c = <<>> <=> Len(c) = 0)
  BY <1>6, RowFacts
<1> QED
  BY <1>3, <1>4, <1>5, <1>6, <1>7, <1>8 DEF Start

\* The rows of intact lists are apart.
LEMMA IntactApart ==
  ASSUME ListInv, NEW l \in Lists, NEW r \in Lists, l # r, Intact(l), Intact(r)
  PROVE  ToSet(ChainOf(l)) \cap ToSet(ChainOf(r)) = {}
<1>1. TypedHeap(heap, allocated) /\ SharedAt(heap, entry)
  BY DEF ListInv, ListTypes
<1>2. PICK c : /\ c = ChainOf(l) /\ IsListRow(heap, c) /\ IsRow(heap, c)
               /\ entry[l] = Start(c)
  BY IntactIs
<1>3. PICK d : /\ d = ChainOf(r) /\ IsListRow(heap, d) /\ IsRow(heap, d)
               /\ entry[r] = Start(d)
  BY IntactIs
<1>4. ASSUME c # <<>>, d # <<>> PROVE c[1] # d[1]
  <2>1. ~Gone(heap, c[1]) /\ c[1] # NULL
    BY <1>1, <1>2, <1>4, SoundNotGone, TypedIs
  <2>2. entry[l] = c[1] /\ entry[r] = d[1]
    BY <1>2, <1>3, <1>4 DEF Start
  <2> QED
    BY <1>1, <2>1, <2>2 DEF SharedAt
<1> QED
  BY <1>1, <1>2, <1>3, <1>4, ListRowsApart

LEMMA ListInvApart == ListInv => Apart
BY IntactApart DEF Apart

\* What a list is after a call, given its row.
LEMMA BecomesIf ==
  ASSUME NEW l \in Lists, NEW n, TypedHeap(heap', n), NEW d, IsListRow(heap', d),
         entry'[l] = Start(d), size'[l] = Len(d)
  PROVE  Becomes(l, Values(heap', d))
<1>1. IsHeap(heap')
  BY TypedIs
<1>2. Sound(heap', entry'[l], size'[l]) /\ Chain(heap', entry'[l]) = d
  BY <1>1, SoundIf
<1>3. Intact(l)'
  BY <1>2 DEF Intact, ChainOf, Sound
<1>4. ElementsOf(l)' = Values(heap', d)
  BY <1>2 DEF ElementsOf, ChainOf, Values, Fields
<1> QED
  BY <1>3, <1>4 DEF Becomes

\* Only the entry of l changes.
LEMMA SharedStep ==
  ASSUME NEW h, NEW g, NEW n \in Nat, NEW m \in Nat, n <= m, KeepsGone(h, g, n),
         NEW E \in [Lists -> {NULL} \cup 1..n], SharedAt(h, E),
         NEW l \in Lists, NEW x,
         \/ x = NULL \/ x = E[l]
         \/ x \in 1..m /\ (x \in 1..n => Gone(g, x))
  PROVE  /\ [E EXCEPT ![l] = x] \in [Lists -> {NULL} \cup 1..m]
         /\ SharedAt(g, [E EXCEPT ![l] = x])
<1>. PICK F : F = [E EXCEPT ![l] = x]
  OBVIOUS
<1>1. \A k \in Lists : F[k] = IF k = l THEN x ELSE E[k]
  OBVIOUS
<1>2. \A a \in 1..n : a \in 1..m
  OBVIOUS
<1>3. F \in [Lists -> {NULL} \cup 1..m]
  <2>1. x \in {NULL} \cup 1..m
    BY <1>2
  <2>2. E \in [Lists -> {NULL} \cup 1..m]
    BY <1>2
  <2> QED
    BY <2>1, <2>2
<1>4. ASSUME NEW p \in Lists, NEW q \in Lists, p # q, F[p] = F[q], F[p] # NULL
      PROVE  Gone(g, F[p])
  <2>1. CASE x = E[l]
    <3>1. E[p] = E[q] /\ E[p] # NULL /\ F[p] = E[p]
      BY <1>1, <1>4, <2>1
    <3>2. Gone(h, E[p]) /\ E[p] \in 1..n
      BY <1>4, <3>1 DEF SharedAt
    <3> QED
      BY <3>1, <3>2 DEF KeepsGone
  <2>2. CASE p # l /\ q # l
    <3>1. E[p] = E[q] /\ E[p] # NULL /\ F[p] = E[p]
      BY <1>1, <1>4, <2>2
    <3>2. Gone(h, E[p]) /\ E[p] \in 1..n
      BY <1>4, <3>1 DEF SharedAt
    <3> QED
      BY <3>1, <3>2 DEF KeepsGone
  <2>3. CASE x # E[l] /\ (p = l \/ q = l)
    <3>1. F[p] = x /\ x # NULL /\ x \in {NULL} \cup 1..n
      BY <1>1, <1>4, <2>3
    <3> QED
      BY <2>3, <3>1
  <2> QED
    BY <2>1, <2>2, <2>3
<1> QED
  BY <1>3, <1>4 DEF SharedAt

-----------------------------------------------------------------------------
(***************************************************************************)
(* Each call keeps the invariant, and its promise.                         *)
(***************************************************************************)
LEMMA AppendCall ==
  ASSUME ListInv, NEW l \in Lists, Intact(l), Memory(1), NEW e \in Elements, listAppend(l, e)
  PROVE  ListInv' /\ Becomes(l, Append(ElementsOf(l), e))
<1>1. PICK n \in Nat : n = allocated /\ n + 1 <= MaxNodes /\ Fresh(1) = n + 1
  BY TypedIs DEF ListInv, ListTypes, Memory, Fresh
<1>2. /\ TypedHeap(heap, n) /\ entry \in [Lists -> {NULL} \cup 1..n]
      /\ size \in [Lists -> Nat] /\ SharedAt(heap, entry)
  BY <1>1 DEF ListInv, ListTypes
<1>3. PICK c : /\ IsListRow(heap, c) /\ entry[l] = Start(c) /\ size[l] = Len(c)
               /\ (entry[l] = NULL <=> c = <<>>) /\ (c # <<>> => entry[l] = c[1])
               /\ ElementsOf(l) = Values(heap, c)
  BY IntactIs
<1>4. PICK h : h = heap
  OBVIOUS
<1>5. PICK g : g = heap'
  OBVIOUS
<1>6. PICK f : f = n + 1
  OBVIOUS
<1>7. PICK w : w = With(h, f, Entry(e))
  OBVIOUS
<1>8. g = IF c = <<>> THEN w ELSE listNodeAppend(w, c[1], f)
  BY <1>1, <1>3, <1>4, <1>5, <1>6, <1>7 DEF listAppend
<1>9. PICK d : /\ TypedHeap(g, n + 1) /\ KeepsGone(h, g, n) /\ IsListRow(g, d)
               /\ Start(d) = (IF c = <<>> THEN f ELSE c[1]) /\ Len(d) = Len(c) + 1
               /\ Values(g, d) = Append(Values(h, c), e)
  BY <1>1, <1>2, <1>3, <1>4, <1>6, <1>7, <1>8, AppendIs
<1>10. PICK x : x = IF entry[l] = NULL THEN n + 1 ELSE entry[l]
  OBVIOUS
<1>11. entry' = [entry EXCEPT ![l] = x] /\ x = Start(d)
  BY <1>1, <1>3, <1>6, <1>9, <1>10 DEF listAppend
<1>12. allocated' = n + 1 /\ size' = [size EXCEPT ![l] = @ + 1] /\ answer' = NULL
       /\ iter' = iter /\ crashed' = crashed
  BY <1>1 DEF listAppend
<1>13. x = entry[l] \/ (x \in 1..(n + 1) /\ (x \in 1..n => Gone(g, x)))
  BY <1>10
<1>14. entry' \in [Lists -> {NULL} \cup 1..(n + 1)] /\ SharedAt(g, entry')
  <2>1. PICK E \in [Lists -> {NULL} \cup 1..n] : E = entry /\ SharedAt(h, E)
    BY <1>2, <1>4
  <2>2. PICK m \in Nat : m = n + 1 /\ n <= m
    OBVIOUS
  <2>3. x = NULL \/ x = E[l] \/ (x \in 1..m /\ (x \in 1..n => Gone(g, x)))
    BY <1>13, <2>1, <2>2
  <2>4. /\ [E EXCEPT ![l] = x] \in [Lists -> {NULL} \cup 1..m]
        /\ SharedAt(g, [E EXCEPT ![l] = x])
    BY <1>9, <2>1, <2>2, <2>3, SharedStep
  <2> QED
    BY <1>11, <2>1, <2>2, <2>4
<1>15. size' \in [Lists -> Nat] /\ size'[l] = Len(d) /\ entry'[l] = Start(d)
  BY <1>2, <1>3, <1>9, <1>11, <1>12
<1>16. ListInv'
  BY <1>5, <1>9, <1>12, <1>14, <1>15 DEF ListInv, ListTypes
<1>17. Becomes(l, Values(g, d))
  BY <1>5, <1>9, <1>15, BecomesIf
<1> QED
  BY <1>3, <1>4, <1>9, <1>16, <1>17

LEMMA PushCall ==
  ASSUME ListInv, NEW l \in Lists, Intact(l), Memory(1), NEW e \in Elements, listPush(l, e)
  PROVE  ListInv' /\ Becomes(l, <<e>> \o ElementsOf(l))
<1>1. PICK n \in Nat : n = allocated /\ n + 1 <= MaxNodes /\ Fresh(1) = n + 1
  BY TypedIs DEF ListInv, ListTypes, Memory, Fresh
<1>2. /\ TypedHeap(heap, n) /\ entry \in [Lists -> {NULL} \cup 1..n]
      /\ size \in [Lists -> Nat] /\ SharedAt(heap, entry)
  BY <1>1 DEF ListInv, ListTypes
<1>3. PICK c : /\ IsListRow(heap, c) /\ entry[l] = Start(c) /\ size[l] = Len(c)
               /\ (entry[l] = NULL <=> c = <<>>) /\ (c # <<>> => entry[l] = c[1])
               /\ ElementsOf(l) = Values(heap, c)
  BY IntactIs
<1>4. PICK h : h = heap
  OBVIOUS
<1>5. PICK g : g = heap'
  OBVIOUS
<1>6. PICK f : f = n + 1
  OBVIOUS
<1>7. PICK w : w = With(h, f, Entry(e))
  OBVIOUS
<1>8. g = IF c = <<>> THEN w ELSE listNodeAppend(w, f, c[1])
  BY <1>1, <1>3, <1>4, <1>5, <1>6, <1>7 DEF listPush
<1>9. PICK d : /\ TypedHeap(g, n + 1) /\ KeepsGone(h, g, n) /\ IsListRow(g, d)
               /\ Start(d) = f /\ Len(d) = Len(c) + 1
               /\ Values(g, d) = <<e>> \o Values(h, c)
  <2>1. TypedHeap(h, n) /\ IsListRow(h, c) /\ n + 1 <= MaxNodes
    BY <1>1, <1>2, <1>3, <1>4
  <2> QED
    BY <1>6, <1>7, <1>8, <2>1, PushIs, SMTT(30)
<1>11. entry' = [entry EXCEPT ![l] = f] /\ f = Start(d)
  BY <1>1, <1>6, <1>9 DEF listPush
<1>12. allocated' = n + 1 /\ size' = [size EXCEPT ![l] = @ + 1] /\ answer' = NULL
       /\ iter' = iter /\ crashed' = crashed
  BY <1>1 DEF listPush
<1>13. f \in 1..(n + 1) /\ (f \in 1..n => Gone(g, f))
  BY <1>6
<1>14. entry' \in [Lists -> {NULL} \cup 1..(n + 1)] /\ SharedAt(g, entry')
  <2>1. PICK E \in [Lists -> {NULL} \cup 1..n] : E = entry /\ SharedAt(h, E)
    BY <1>2, <1>4
  <2>2. PICK m \in Nat : m = n + 1 /\ n <= m
    OBVIOUS
  <2>3. f = NULL \/ f = E[l] \/ (f \in 1..m /\ (f \in 1..n => Gone(g, f)))
    BY <1>13, <2>1, <2>2
  <2>4. /\ [E EXCEPT ![l] = f] \in [Lists -> {NULL} \cup 1..m]
        /\ SharedAt(g, [E EXCEPT ![l] = f])
    BY <1>9, <2>1, <2>2, <2>3, SharedStep
  <2> QED
    BY <1>11, <2>1, <2>2, <2>4
<1>15. size' \in [Lists -> Nat] /\ size'[l] = Len(d) /\ entry'[l] = Start(d)
  BY <1>2, <1>3, <1>9, <1>11, <1>12
<1>16. ListInv'
  BY <1>5, <1>9, <1>12, <1>14, <1>15 DEF ListInv, ListTypes
<1>17. Becomes(l, Values(g, d))
  BY <1>5, <1>9, <1>15, BecomesIf
<1> QED
  BY <1>3, <1>4, <1>9, <1>16, <1>17

\* The values of a list with entries are a sequence with elements.
LEMMA SomeValues ==
  ASSUME NEW h, NEW n, TypedHeap(h, n), NEW c, IsListRow(h, c), c # <<>>
  PROVE  /\ Values(h, c) \in Seq(Elements) /\ Values(h, c) # <<>> /\ Len(Values(h, c)) = Len(c)
         /\ h[c[1]].element = Head(Values(h, c)) /\ h[Last(c)].element = Last(Values(h, c))
         /\ h[c[1]].element \in Elements /\ h[Last(c)].element \in Elements
<1>1. IsRow(h, c)
  BY DEF IsListRow
<1>2. /\ Values(h, c) \in Seq(Elements) /\ Len(Values(h, c)) = Len(c)
      /\ \A i \in 1..Len(c) : Values(h, c)[i] = h[c[i]].element
  BY <1>1, ValuesAre
<1>3. PICK k \in Nat : k = Len(c) /\ k >= 1
  BY <1>1, RowFacts
<1>4. PICK s : s = Values(h, c)
  OBVIOUS
<1>5. s \in Seq(Elements) /\ Len(s) = k /\ \A i \in 1..k : s[i] = h[c[i]].element
  BY <1>2, <1>3, <1>4
<1>6. 1 \in 1..k /\ k \in 1..k
  BY <1>3
<1>7. s # <<>>
  BY <1>3, <1>5
<1>8. Head(s) = s[1] /\ Last(s) = s[k]
  BY <1>5, <1>7 DEF Last
<1>9. Last(c) = c[k]
  BY <1>3 DEF Last
<1>10. s[1] \in Elements /\ s[k] \in Elements
  BY <1>5, <1>6
<1> QED
  BY <1>3, <1>4, <1>5, <1>6, <1>7, <1>8, <1>9, <1>10

LEMMA TailCall ==
  ASSUME ListInv, NEW l \in Lists, Intact(l), listRetriveTail(l)
  PROVE  /\ ListInv'
         /\ answer' = IF ElementsOf(l) = <<>> THEN NULL ELSE Last(ElementsOf(l))
         /\ Len(ElementsOf(l)) > 2 => Becomes(l, Front(ElementsOf(l)))
<1>1. PICK n \in Nat : n = allocated
  BY TypedIs DEF ListInv, ListTypes
<1>2. /\ TypedHeap(heap, n) /\ entry \in [Lists -> {NULL} \cup 1..n]
      /\ size \in [Lists -> Nat] /\ SharedAt(heap, entry)
  BY <1>1 DEF ListInv, ListTypes
<1>3. PICK c : /\ c = ChainOf(l) /\ IsListRow(heap, c) /\ IsRow(heap, c)
               /\ entry[l] = Start(c) /\ size[l] = Len(c)
               /\ (entry[l] = NULL <=> c = <<>>) /\ (c # <<>> => entry[l] = c[1])
               /\ ElementsOf(l) = Values(heap, c) /\ Len(c) \in Nat /\ (c = <<>> <=> Len(c) = 0)
  BY IntactIs
<1>4. CASE c = <<>>
  <2>1. ElementsOf(l) = <<>>
    BY <1>3, <1>4 DEF Values, Fields
  <2>2. Len(ElementsOf(l)) = 0
    BY <2>1
  <2>3. answer' = NULL /\ UNCHANGED <<heap, entry, size, allocated, iter, crashed>>
    BY <1>3, <1>4 DEF listRetriveTail
  <2>4. ListInv'
    BY <2>3 DEF ListInv, ListTypes
  <2> QED
    BY <2>1, <2>2, <2>3, <2>4
<1>5. CASE c # <<>>
  <2>1. PICK h : h = heap
    OBVIOUS
  <2>2. PICK k \in Nat : k = Len(c) /\ k >= 1 /\ k \in 1..Len(c)
    BY <1>3, <1>5
  <2>3. PICK y : y = c[k]
    OBVIOUS
  <2>4. listNodeTail(heap, entry[l]) = y /\ y = Last(c)
    BY <1>3, <2>2, <2>3 DEF listNodeTail, Last, ChainOf
  <2>5. PICK s : s = Values(h, c)
    OBVIOUS
  <2>6. /\ s \in Seq(Elements) /\ s # <<>> /\ Len(s) = k
        /\ h[y].element = Last(s) /\ h[y].element \in Elements
    BY <1>2, <1>3, <1>5, <2>1, <2>2, <2>4, <2>5, SomeValues
  <2>7. PICK g : g = heap'
    OBVIOUS
  <2>8. PICK d : d = RemoveAt(c, k)
    OBVIOUS
  <2>9. TypedHeap(h, n) /\ IsListRow(h, c)
    BY <1>2, <1>3, <2>1
  <2>10. /\ Free(listNodeDelete(h, y), {y}) = Cut(h, y)
         /\ TypedHeap(Cut(h, y), n) /\ KeepsGone(h, Cut(h, y), n)
         /\ IsListRow(Cut(h, y), d)
         /\ Len(d) = Len(c) - 1 /\ (1 < k => d[1] = c[1])
         /\ Values(Cut(h, y), d) = RemoveAt(s, k)
    BY <2>2, <2>3, <2>5, <2>8, <2>9, ListCut, ZenonT(30)
  <2>11. entry[l] # NULL
    BY <1>3, <1>5
  <2>12. /\ answer' = heap[listNodeTail(heap, entry[l])].element
         /\ heap' = Free(listNodeDelete(heap, listNodeTail(heap, entry[l])),
                         {listNodeTail(heap, entry[l])})
         /\ size' = [size EXCEPT ![l] = @ - 1]
         /\ entry' = [entry EXCEPT ![l] = IF size'[l] = 1 THEN NULL ELSE @]
         /\ allocated' = allocated /\ iter' = iter /\ crashed' = crashed
    BY <2>11 DEF listRetriveTail
  <2>13. answer' = Last(s) /\ g = Cut(h, y)
    BY <2>1, <2>4, <2>6, <2>7, <2>10, <2>12
  <2>14. size' \in [Lists -> Nat] /\ size'[l] = k - 1
    BY <1>2, <1>3, <2>2, <2>12
  <2>15. PICK x : x = IF size'[l] = 1 THEN NULL ELSE entry[l]
    OBVIOUS
  <2>16. entry' = [entry EXCEPT ![l] = x] /\ (x = NULL \/ x = entry[l])
    BY <2>12, <2>15
  <2>17. entry' \in [Lists -> {NULL} \cup 1..n] /\ SharedAt(g, entry')
    <3>1. PICK E \in [Lists -> {NULL} \cup 1..n] : E = entry /\ SharedAt(h, E)
      BY <1>2, <2>1
    <3>2. n <= n /\ KeepsGone(h, g, n) /\ (x = NULL \/ x = E[l])
      BY <2>10, <2>13, <2>16, <3>1
    <3>3. /\ [E EXCEPT ![l] = x] \in [Lists -> {NULL} \cup 1..n]
          /\ SharedAt(g, [E EXCEPT ![l] = x])
      BY <3>1, <3>2, SharedStep
    <3> QED
      BY <2>16, <3>1, <3>3
  <2>18. answer' \in Elements
    BY <2>6, <2>13
  <2>19. ListInv'
    <3>1. TypedHeap(heap', allocated') /\ allocated' = n
      BY <1>1, <2>7, <2>10, <2>12, <2>13
    <3> QED
      BY <2>7, <2>12, <2>14, <2>17, <2>18, <3>1 DEF ListInv, ListTypes
  <2>20. ASSUME k > 2 PROVE Becomes(l, Front(s))
    <3>1. x = entry[l] /\ Start(d) = c[1]
      <4>1. d # <<>> /\ 1 < k
        BY <2>2, <2>10, <2>20
      <4> QED
        BY <2>10, <2>14, <2>15, <2>20, <4>1 DEF Start
    <3>2. entry'[l] = Start(d) /\ size'[l] = Len(d)
      BY <1>2, <1>3, <1>5, <2>2, <2>10, <2>14, <2>16, <3>1
    <3>3. TypedHeap(heap', n) /\ IsListRow(heap', d)
      BY <2>7, <2>10, <2>13
    <3>4. Becomes(l, Values(heap', d))
      BY <3>2, <3>3, BecomesIf
    <3>5. Values(heap', d) = Front(s)
      BY <2>6, <2>7, <2>10, <2>13, FrontIsCut
    <3> QED
      BY <3>4, <3>5
  <2> QED
    BY <1>3, <2>1, <2>5, <2>6, <2>13, <2>19, <2>20
<1> QED
  BY <1>4, <1>5

LEMMA PopCall ==
  ASSUME ListInv, NEW l \in Lists, Intact(l), listPop(l)
  PROVE  /\ ListInv'
         /\ answer' = IF ElementsOf(l) = <<>> THEN NULL ELSE Overwritten[Head(ElementsOf(l))]
         /\ Len(ElementsOf(l)) = 1 => Becomes(l, <<>>)
<1>1. PICK n \in Nat : n = allocated
  BY TypedIs DEF ListInv, ListTypes
<1>2. /\ TypedHeap(heap, n) /\ entry \in [Lists -> {NULL} \cup 1..n]
      /\ size \in [Lists -> Nat] /\ SharedAt(heap, entry)
  BY <1>1 DEF ListInv, ListTypes
<1>3. PICK c : /\ IsListRow(heap, c) /\ IsRow(heap, c)
               /\ entry[l] = Start(c) /\ size[l] = Len(c)
               /\ (entry[l] = NULL <=> c = <<>>) /\ (c # <<>> => entry[l] = c[1])
               /\ ElementsOf(l) = Values(heap, c) /\ Len(c) \in Nat /\ (c = <<>> <=> Len(c) = 0)
  BY IntactIs
<1>4. CASE c = <<>>
  <2>1. ElementsOf(l) = <<>>
    BY <1>3, <1>4 DEF Values, Fields
  <2>2. Len(ElementsOf(l)) = 0
    BY <2>1
  <2>3. answer' = NULL /\ UNCHANGED <<heap, entry, size, allocated, iter, crashed>>
    BY <1>3, <1>4 DEF listPop
  <2>4. ListInv'
    BY <2>3 DEF ListInv, ListTypes
  <2> QED
    BY <2>1, <2>2, <2>3, <2>4
<1>5. CASE c # <<>>
  <2>1. PICK h : h = heap
    OBVIOUS
  <2>2. PICK k \in Nat : k = Len(c) /\ k >= 1 /\ size[l] = k
    BY <1>3, <1>5
  <2>3. PICK y : y = c[1]
    OBVIOUS
  <2>4. entry[l] = y /\ size[l] # 0
    BY <1>3, <1>5, <2>2, <2>3
  <2>5. PICK s : s = Values(h, c)
    OBVIOUS
  <2>6. /\ s \in Seq(Elements) /\ s # <<>> /\ Len(s) = k
        /\ h[y].element = Head(s) /\ h[y].element \in Elements
    BY <1>2, <1>3, <1>5, <2>1, <2>2, <2>3, <2>5, SomeValues
  <2>7. PICK g : g = heap'
    OBVIOUS
  <2>8. /\ answer' = Overwritten[heap[entry[l]].element]
        /\ size' = [size EXCEPT ![l] = @ - 1]
        /\ entry' = [entry EXCEPT ![l] = IF size'[l] = 0 THEN NULL ELSE heap[@].next]
        /\ heap' = Free(DeletedAsNode(heap, entry[l]), {entry[l]})
        /\ allocated' = allocated /\ iter' = iter /\ crashed' = crashed
    BY <2>4 DEF listPop
  <2>9. TypedHeap(h, n) /\ IsListRow(h, c) /\ g = Free(DeletedAsNode(h, c[1]), {c[1]})
    BY <1>2, <1>3, <2>1, <2>3, <2>4, <2>7, <2>8
  <2>10. /\ TypedHeap(g, n) /\ KeepsGone(h, g, n)
         /\ h[y].next \in DOMAIN h \cup {NULL}
         /\ h[y].next # NULL => Gone(g, h[y].next)
    BY <1>5, <2>3, <2>9, PopIs
  <2>11. DOMAIN h \subseteq 1..n
    BY <2>9 DEF TypedHeap
  <2>12. PICK x : x = IF size'[l] = 0 THEN NULL ELSE h[y].next
    OBVIOUS
  <2>13. /\ entry' = [entry EXCEPT ![l] = x]
         /\ (x = NULL \/ (x \in 1..n /\ (x \in 1..n => Gone(g, x))))
    BY <2>1, <2>4, <2>8, <2>10, <2>11, <2>12
  <2>14. size' \in [Lists -> Nat] /\ size'[l] = k - 1
    BY <1>2, <2>2, <2>8
  <2>15. entry' \in [Lists -> {NULL} \cup 1..n] /\ SharedAt(g, entry')
    <3>1. PICK E \in [Lists -> {NULL} \cup 1..n] : E = entry /\ SharedAt(h, E)
      BY <1>2, <2>1
    <3>2. n <= n /\ KeepsGone(h, g, n)
      BY <2>10
    <3>3. /\ [E EXCEPT ![l] = x] \in [Lists -> {NULL} \cup 1..n]
          /\ SharedAt(g, [E EXCEPT ![l] = x])
      BY <2>13, <3>1, <3>2, SharedStep
    <3> QED
      BY <2>13, <3>1, <3>3
  <2>16. answer' = Overwritten[Head(s)] /\ IsSpoilt(answer')
    BY <2>1, <2>4, <2>6, <2>8 DEF IsSpoilt
  <2>17. ListInv'
    <3>1. TypedHeap(heap', allocated') /\ allocated' = n
      BY <1>1, <2>7, <2>8, <2>10
    <3> QED
      BY <2>7, <2>8, <2>14, <2>15, <2>16, <3>1 DEF ListInv, ListTypes
  <2>18. ASSUME k = 1 PROVE Becomes(l, <<>>)
    <3>1. entry'[l] = Start(<<>>) /\ size'[l] = Len(<<>>)
      BY <1>2, <2>12, <2>13, <2>14, <2>18 DEF Start
    <3>2. IsListRow(heap', <<>>) /\ Values(heap', <<>>) = <<>>
      BY DEF IsListRow, IsRow, Values, Fields
    <3>3. TypedHeap(heap', n)
      BY <2>7, <2>10
    <3>4. Becomes(l, Values(heap', <<>>))
      BY <3>1, <3>2, <3>3, BecomesIf
    <3> QED
      BY <3>2, <3>4
  <2> QED
    BY <1>3, <2>1, <2>5, <2>6, <2>16, <2>17, <2>18
<1> QED
  BY <1>4, <1>5

LEMMA ReleaseCall ==
  ASSUME ListInv, NEW l \in Lists, Intact(l), listRelease(l)
  PROVE  ListInv'
<1>1. PICK n \in Nat : n = allocated
  BY TypedIs DEF ListInv, ListTypes
<1>2. PICK h : h = heap
  OBVIOUS
<1>3. PICK S : S = ToSet(ChainOf(l))
  OBVIOUS
<1>4. TypedHeap(h, n) /\ SharedAt(h, entry) /\ entry \in [Lists -> {NULL} \cup 1..n]
  BY <1>1, <1>2 DEF ListInv, ListTypes
<1>5. TypedHeap(Free(h, S), n) /\ KeepsGone(h, Free(h, S), n)
  BY <1>4, TypedFree
<1>6. /\ heap' = Free(h, S) /\ answer' = NULL /\ UNCHANGED <<allocated, entry, size, iter, crashed>>
  BY <1>2, <1>3 DEF listRelease
<1>7. SharedAt(heap', entry)
  BY <1>4, <1>5, <1>6 DEF SharedAt, KeepsGone
<1> QED
  BY <1>1, <1>5, <1>6, <1>7 DEF ListInv, ListTypes

\* The copies of the entries of l, in a heap of the same size.
LEMMA CopiesOf ==
  ASSUME ListInv, NEW l \in Lists, Intact(l), Memory(size[l]),
         NEW h, TypedHeap(h, allocated), NEW g, g = Both(h, Copies(l)),
         NEW n, n = allocated, NEW k, k = size[l]
  PROVE  /\ n \in Nat /\ k \in Nat /\ Fresh(size[l]) = n + k /\ Fresh(1) = n + 1
         /\ TypedHeap(g, n + k) /\ KeepsGone(h, g, n)
         /\ Keeps(h, g)
         /\ \E d : /\ IsListRow(g, d) /\ Start(d) = (IF k = 0 THEN NULL ELSE n + 1)
                   /\ Len(d) = k /\ Values(g, d) = ElementsOf(l)
<1>1. n \in Nat /\ k \in Nat /\ n + k <= MaxNodes /\ Fresh(size[l]) = n + k /\ Fresh(1) = n + 1
  BY TypedIs DEF ListInv, ListTypes, Memory, Fresh
<1>2. PICK c : /\ IsListRow(heap, c) /\ IsRow(heap, c) /\ size[l] = Len(c)
               /\ ElementsOf(l) = Values(heap, c)
  BY IntactIs
<1>3. PICK s : s = ElementsOf(l)
  OBVIOUS
<1>4. s \in Seq(Elements) /\ Len(s) = k
  <2>1. TypedHeap(heap, allocated)
    BY DEF ListInv, ListTypes
  <2> QED
    BY <1>2, <1>3, <2>1, ValuesAre
<1>5. Copies(l) = NewRow(n, k, s)
  BY <1>1, <1>3 DEF Copies, NewRow
<1>6. PICK p : p = Both(h, NewRow(n, k, s))
  OBVIOUS
<1>7. p = g
  BY <1>5, <1>6
<1>8. TypedHeap(h, n)
  OBVIOUS
<1>9. TypedHeap(p, n + k) /\ KeepsGone(h, p, n) /\ Keeps(h, p) /\ InRow(p, n, k, s)
  <2>1. /\ TypedHeap(Both(h, NewRow(n, k, s)), n + k)
        /\ KeepsGone(h, Both(h, NewRow(n, k, s)), n)
        /\ Keeps(h, Both(h, NewRow(n, k, s))) /\ InRow(Both(h, NewRow(n, k, s)), n, k, s)
    BY <1>1, <1>4, <1>8, BothIs
  <2> QED
    BY <1>6, <2>1
<1>10. \E d : /\ IsListRow(p, d) /\ Start(d) = (IF k = 0 THEN NULL ELSE n + 1)
              /\ Len(d) = k /\ Values(p, d) = s
  BY <1>1, <1>4, <1>9, CopyIs
<1> QED
  BY <1>1, <1>3, <1>7, <1>9, <1>10

LEMMA CopyCall ==
  ASSUME ListInv, NEW l \in Lists, Intact(l), NEW r \in Lists \ {l}, listCopy(l, r)
  PROVE  ListInv' /\ Becomes(l, ElementsOf(l)) /\ Becomes(r, ElementsOf(l))
<1>1. /\ Memory(size[l]) /\ allocated' = Fresh(size[l])
      /\ heap' = Both(heap, Copies(l))
      /\ entry' = [entry EXCEPT ![r] = IF entry[l] = NULL THEN NULL ELSE Fresh(1)]
      /\ size' = [size EXCEPT ![r] = size[l]]
      /\ iter' = IF iter.l = r THEN [iter EXCEPT !.entry = WILD] ELSE iter
      /\ answer' = NULL /\ crashed' = crashed
  BY DEF listCopy
<1>2. PICK n : n = allocated
  OBVIOUS
<1>3. PICK k : k = size[l]
  OBVIOUS
<1>4. PICK h : h = heap
  OBVIOUS
<1>5. PICK g : g = heap'
  OBVIOUS
<1>6. /\ TypedHeap(h, n) /\ entry \in [Lists -> {NULL} \cup 1..n]
      /\ size \in [Lists -> Nat] /\ SharedAt(h, entry)
      /\ iter \in [l : Lists, entry : Addresses] /\ crashed \in BOOLEAN
  BY <1>2, <1>4 DEF ListInv, ListTypes
<1>7. /\ n \in Nat /\ k \in Nat /\ Fresh(size[l]) = n + k /\ Fresh(1) = n + 1
      /\ TypedHeap(g, n + k) /\ KeepsGone(h, g, n)
      /\ Keeps(h, g)
      /\ \E d : /\ IsListRow(g, d) /\ Start(d) = (IF k = 0 THEN NULL ELSE n + 1)
                /\ Len(d) = k /\ Values(g, d) = ElementsOf(l)
  BY <1>1, <1>2, <1>3, <1>4, <1>5, <1>6, CopiesOf
<1>8. PICK d : /\ IsListRow(g, d) /\ Start(d) = (IF k = 0 THEN NULL ELSE n + 1)
               /\ Len(d) = k /\ Values(g, d) = ElementsOf(l)
  BY <1>7
<1>9. PICK c : /\ IsListRow(h, c) /\ IsRow(h, c) /\ entry[l] = Start(c) /\ k = Len(c)
               /\ (entry[l] = NULL <=> c = <<>>) /\ (c = <<>> <=> Len(c) = 0)
               /\ ElementsOf(l) = Values(h, c)
  BY <1>3, <1>4, IntactIs
<1>10. PICK m \in Nat : m = n + k /\ n <= m
  BY <1>7
<1>11. PICK x : x = IF k = 0 THEN NULL ELSE n + 1
  OBVIOUS
<1>12. entry' = [entry EXCEPT ![r] = x] /\ r \in Lists
  BY <1>1, <1>7, <1>9, <1>11
<1>13. x = NULL \/ (x \in 1..m /\ (x \in 1..n => Gone(g, x)))
  BY <1>7, <1>10, <1>11
<1>14. entry' \in [Lists -> {NULL} \cup 1..m] /\ SharedAt(g, entry')
  <2>1. PICK E \in [Lists -> {NULL} \cup 1..n] : E = entry /\ SharedAt(h, E)
    BY <1>6
  <2>2. /\ [E EXCEPT ![r] = x] \in [Lists -> {NULL} \cup 1..m]
        /\ SharedAt(g, [E EXCEPT ![r] = x])
    BY <1>7, <1>10, <1>12, <1>13, <2>1, SharedStep
  <2> QED
    BY <1>12, <2>1, <2>2
<1>15. size' \in [Lists -> Nat] /\ size'[r] = k /\ size'[l] = k
  BY <1>1, <1>3, <1>6, <1>7
<1>16. entry'[r] = Start(d) /\ entry'[l] = Start(c)
  BY <1>6, <1>8, <1>9, <1>11, <1>12
<1>17. iter' \in [l : Lists, entry : Addresses]
  BY <1>1, <1>6 DEF Addresses
<1>18. ListInv'
  <2>1. TypedHeap(heap', allocated') /\ allocated' = m
    BY <1>1, <1>5, <1>7, <1>10
  <2> QED
    BY <1>1, <1>5, <1>6, <1>14, <1>15, <1>17, <2>1 DEF ListInv, ListTypes
<1>19. TypedHeap(heap', m)
  BY <1>5, <1>7, <1>10
<1>20. Becomes(r, Values(heap', d))
  BY <1>5, <1>8, <1>12, <1>15, <1>16, <1>19, BecomesIf
<1>21. IsListRow(g, c) /\ Values(g, c) = Values(h, c)
  <2>1. ToSet(c) \subseteq DOMAIN h
    BY <1>9, RowFacts
  <2> QED
    BY <1>7, <1>9, <2>1, ListRowStays DEF Keeps
<1>22. Becomes(l, Values(heap', c))
  BY <1>5, <1>9, <1>15, <1>16, <1>19, <1>21, BecomesIf
<1> QED
  BY <1>5, <1>8, <1>9, <1>18, <1>20, <1>21, <1>22
LEMMA KeepsGoneTwice ==
  ASSUME NEW h, NEW g, NEW p, NEW n, KeepsGone(h, g, n), KeepsGone(g, p, n)
  PROVE  KeepsGone(h, p, n)
BY DEF KeepsGone

LEMMA AssignCall ==
  ASSUME ListInv, NEW l \in Lists, Intact(l), NEW r \in Lists \ {l}, Intact(r),
         listAssignment(l, r)
  PROVE  /\ ListInv'
         /\ ElementsOf(l) = <<>> => Becomes(l, ElementsOf(r)) /\ Becomes(r, ElementsOf(r))
<1>1. /\ Memory(size[r]) /\ allocated' = Fresh(size[r]) /\ entry[r] # NULL
      /\ heap' = Both(Free(heap, ToSet(ChainOf(l))), Copies(r))
      /\ entry' = [entry EXCEPT ![l] = IF entry[l] = NULL THEN Fresh(1) ELSE entry[l]]
      /\ size' = [size EXCEPT ![l] = size[r]]
      /\ iter' = iter /\ answer' = NULL /\ crashed' = crashed
  BY DEF listAssignment
<1>2. PICK n : n = allocated
  OBVIOUS
<1>3. PICK k : k = size[r]
  OBVIOUS
<1>4. PICK h : h = Free(heap, ToSet(ChainOf(l)))
  OBVIOUS
<1>5. PICK g : g = heap'
  OBVIOUS
<1>6. /\ TypedHeap(heap, n) /\ entry \in [Lists -> {NULL} \cup 1..n]
      /\ size \in [Lists -> Nat] /\ SharedAt(heap, entry)
      /\ iter \in [l : Lists, entry : Addresses] /\ crashed \in BOOLEAN
  BY <1>2 DEF ListInv, ListTypes
<1>7. PICK p : p = heap
  OBVIOUS
<1>8. PICK S : S = ToSet(ChainOf(l))
  OBVIOUS
<1>9. /\ TypedHeap(h, n) /\ KeepsGone(p, h, n) /\ DOMAIN h = DOMAIN p \ S
      /\ \A x \in DOMAIN p \ S : h[x] = p[x]
  <2>1. h = Free(p, S) /\ TypedHeap(p, n)
    BY <1>4, <1>6, <1>7, <1>8
  <2> QED
    BY <2>1, TypedFree, SMTT(30)
<1>10. /\ n \in Nat /\ k \in Nat /\ Fresh(size[r]) = n + k /\ Fresh(1) = n + 1
       /\ TypedHeap(g, n + k) /\ KeepsGone(h, g, n)
       /\ Keeps(h, g)
       /\ \E d : /\ IsListRow(g, d) /\ Start(d) = (IF k = 0 THEN NULL ELSE n + 1)
                 /\ Len(d) = k /\ Values(g, d) = ElementsOf(r)
  <2>1. g = Both(h, Copies(r)) /\ TypedHeap(h, allocated)
    BY <1>1, <1>2, <1>4, <1>5, <1>9
  <2> QED
    BY <1>1, <1>2, <1>3, <2>1, CopiesOf
<1>11. PICK d : /\ IsListRow(g, d) /\ Start(d) = (IF k = 0 THEN NULL ELSE n + 1)
                /\ Len(d) = k /\ Values(g, d) = ElementsOf(r)
  BY <1>10
<1>12. PICK c : /\ c = ChainOf(r) /\ IsListRow(p, c) /\ IsRow(p, c) /\ entry[r] = Start(c) /\ k = Len(c)
                /\ (entry[r] = NULL <=> c = <<>>) /\ (c = <<>> <=> Len(c) = 0)
                /\ ElementsOf(r) = Values(p, c)
  BY <1>3, <1>7, IntactIs
<1>13. PICK m \in Nat : m = n + k /\ n <= m /\ n + 1 \in 1..m /\ k # 0
  BY <1>1, <1>10, <1>12
<1>14. KeepsGone(p, g, n)
  BY <1>9, <1>10, KeepsGoneTwice
<1>15. PICK x : x = IF entry[l] = NULL THEN n + 1 ELSE entry[l]
  OBVIOUS
<1>16. entry' = [entry EXCEPT ![l] = x]
  BY <1>1, <1>10, <1>15
<1>17. x = entry[l] \/ (x \in 1..m /\ (x \in 1..n => Gone(g, x)))
  BY <1>10, <1>13, <1>15
<1>18. entry' \in [Lists -> {NULL} \cup 1..m] /\ SharedAt(g, entry')
  <2>1. PICK E \in [Lists -> {NULL} \cup 1..n] : E = entry /\ SharedAt(p, E)
    BY <1>6, <1>7
  <2>2. /\ [E EXCEPT ![l] = x] \in [Lists -> {NULL} \cup 1..m]
        /\ SharedAt(g, [E EXCEPT ![l] = x])
    BY <1>10, <1>13, <1>14, <1>17, <2>1, SharedStep
  <2> QED
    BY <1>16, <2>1, <2>2
<1>19. size' \in [Lists -> Nat] /\ size'[r] = k /\ size'[l] = k
  BY <1>1, <1>3, <1>6, <1>10
<1>20. TypedHeap(heap', m) /\ allocated' = m
  BY <1>1, <1>5, <1>10, <1>13
<1>21. ListInv'
  BY <1>1, <1>5, <1>6, <1>18, <1>19, <1>20 DEF ListInv, ListTypes
<1>22. ASSUME ElementsOf(l) = <<>>
       PROVE  Becomes(l, ElementsOf(r)) /\ Becomes(r, ElementsOf(r))
  <2>1. S = {} /\ entry[l] = NULL
    <3>1. PICK b : /\ b = ChainOf(l) /\ IsRow(heap, b) /\ ElementsOf(l) = Values(heap, b)
                   /\ (entry[l] = NULL <=> b = <<>>) /\ (b = <<>> <=> Len(b) = 0)
      BY IntactIs
    <3>2. Len(Values(heap, b)) = Len(b)
      BY <1>6, <3>1, ValuesAre
    <3>3. b = <<>>
      BY <1>22, <3>1, <3>2
    <3>4. ToSet(<<>>) = {}
      BY DEF ToSet
    <3> QED
      BY <1>8, <3>1, <3>3, <3>4
  <2>2. entry'[l] = Start(d) /\ size'[l] = Len(d)
    BY <1>6, <1>11, <1>13, <1>15, <1>16, <1>19, <2>1
  <2>3. Becomes(l, Values(heap', d))
    BY <1>5, <1>11, <1>20, <2>2, BecomesIf
  <2>4. entry'[r] = Start(c) /\ size'[r] = Len(c)
    BY <1>6, <1>12, <1>16, <1>19
  <2>5. \A a \in ToSet(c) : a \in DOMAIN g /\ g[a] = p[a]
    <3>1. ToSet(c) \subseteq DOMAIN p
      BY <1>12, RowFacts
    <3> QED
      BY <1>9, <1>10, <2>1, <3>1 DEF Keeps
  <2>6. IsListRow(g, c) /\ Values(g, c) = Values(p, c)
    BY <1>12, <2>5, ListRowStays
  <2>7. Becomes(r, Values(heap', c))
    BY <1>5, <1>20, <2>4, <2>6, BecomesIf
  <2> QED
    BY <1>5, <1>11, <1>12, <2>3, <2>6, <2>7
<1> QED
  BY <1>21, <1>22

LEMMA EqualCall ==
  ASSUME ListInv, NEW l \in Lists, Intact(l), NEW r \in Lists \ {l}, Intact(r),
         listIsEqual(l, r)
  PROVE  ListInv' /\ answer' = (ElementsOf(l) = ElementsOf(r))
<1>1. TypedHeap(heap, allocated)
  BY DEF ListInv, ListTypes
<1>2. \A q \in {l, r} : Len(ElementsOf(q)) = size[q]
  <2>1. ASSUME NEW q \in Lists, Intact(q) PROVE Len(ElementsOf(q)) = size[q]
    <3>1. PICK c : IsRow(heap, c) /\ size[q] = Len(c) /\ ElementsOf(q) = Values(heap, c)
      BY <2>1, IntactIs
    <3> QED
      BY <1>1, <3>1, ValuesAre
  <2> QED
    BY <2>1
<1>3. ElementsOf(l) = ElementsOf(r) => size[l] = size[r]
  BY <1>2
<1>4. /\ answer' = (size[l] = size[r] /\ ElementsOf(l) = ElementsOf(r))
      /\ UNCHANGED <<heap, allocated, entry, size, iter, crashed>>
  BY DEF listIsEqual
<1>5. answer' \in BOOLEAN
  BY <1>4
<1> QED
  BY <1>3, <1>4, <1>5 DEF ListInv, ListTypes

LEMMA ConcatCall ==
  ASSUME ListInv, NEW l \in Lists, Intact(l), NEW r \in Lists \ {l}, Intact(r),
         listConcate(l, r)
  PROVE  ListInv' /\ Becomes(l, ElementsOf(l) \o ElementsOf(r))
<1>1. /\ entry[l] # NULL /\ entry[r] # NULL
      /\ heap' = listNodeAppend(heap, entry[l], entry[r])
      /\ size' = [size EXCEPT ![l] = @ + size[r]]
      /\ answer' = NULL /\ UNCHANGED <<allocated, entry, iter, crashed>>
  BY DEF listConcate
<1>2. PICK n \in Nat : n = allocated
  BY TypedIs DEF ListInv, ListTypes
<1>3. PICK h : h = heap
  OBVIOUS
<1>4. PICK g : g = heap'
  OBVIOUS
<1>5. /\ TypedHeap(h, n) /\ entry \in [Lists -> {NULL} \cup 1..n]
      /\ size \in [Lists -> Nat] /\ SharedAt(h, entry)
  BY <1>2, <1>3 DEF ListInv, ListTypes
<1>6. PICK c : /\ c = ChainOf(l) /\ IsListRow(h, c) /\ entry[l] = Start(c) /\ size[l] = Len(c)
               /\ c # <<>> /\ entry[l] = c[1] /\ ElementsOf(l) = Values(h, c)
  BY <1>1, <1>3, IntactIs
<1>7. PICK d : /\ d = ChainOf(r) /\ IsRow(h, d) /\ size[r] = Len(d)
               /\ d # <<>> /\ entry[r] = d[1] /\ ElementsOf(r) = Values(h, d)
  BY <1>1, <1>3, IntactIs
<1>8. ToSet(c) \cap ToSet(d) = {}
  BY <1>6, <1>7, IntactApart
<1>9. g = listNodeAppend(h, c[1], d[1])
  BY <1>1, <1>3, <1>4, <1>6, <1>7
<1>10. PICK b : b = c \o d
  OBVIOUS
<1>11. /\ TypedHeap(g, n) /\ KeepsGone(h, g, n) /\ IsListRow(g, b)
       /\ b # <<>> /\ b[1] = c[1] /\ Len(b) = Len(c) + Len(d)
       /\ Values(g, b) = Values(h, c) \o Values(h, d)
  <2>1. /\ TypedHeap(listNodeAppend(h, c[1], d[1]), n)
        /\ KeepsGone(h, listNodeAppend(h, c[1], d[1]), n)
        /\ IsListRow(listNodeAppend(h, c[1], d[1]), c \o d)
        /\ c \o d # <<>> /\ (c \o d)[1] = c[1] /\ Len(c \o d) = Len(c) + Len(d)
        /\ Values(listNodeAppend(h, c[1], d[1]), c \o d) = Values(h, c) \o Values(h, d)
    <3>i. /\ TypedHeap(h, n) /\ IsListRow(h, c) /\ IsRow(h, d) /\ c # <<>> /\ d # <<>>
          /\ ToSet(c) \cap ToSet(d) = {}
      BY <1>5, <1>6, <1>7, <1>8
    <3>1. /\ TypedHeap(listNodeAppend(h, c[1], d[1]), n)
          /\ KeepsGone(h, listNodeAppend(h, c[1], d[1]), n)
          /\ IsListRow(listNodeAppend(h, c[1], d[1]), c \o d)
      BY <3>i, ListsJoin
    <3>2. c \o d # <<>> /\ (c \o d)[1] = c[1] /\ Len(c \o d) = Len(c) + Len(d)
      BY <3>i, ListsJoin
    <3>3. Values(listNodeAppend(h, c[1], d[1]), c \o d) = Values(h, c) \o Values(h, d)
      BY <3>i, ListsJoin, Z3
    <3> QED
      BY <3>1, <3>2, <3>3
  <2> QED
    BY <1>9, <1>10, <2>1
<1>12. SharedAt(g, entry)
  BY <1>5, <1>11 DEF SharedAt, KeepsGone
<1>13. size' \in [Lists -> Nat] /\ size'[l] = Len(b)
  BY <1>1, <1>5, <1>6, <1>7, <1>11
<1>14. TypedHeap(heap', allocated') /\ TypedHeap(heap', n)
  BY <1>1, <1>2, <1>4, <1>11
<1>15. ListInv'
  BY <1>1, <1>4, <1>12, <1>13, <1>14 DEF ListInv, ListTypes
<1>16. entry'[l] = Start(b)
  BY <1>1, <1>6, <1>11 DEF Start
<1>17. Becomes(l, Values(heap', b))
  BY <1>4, <1>11, <1>13, <1>14, <1>16, BecomesIf
<1> QED
  BY <1>4, <1>6, <1>7, <1>11, <1>15, <1>17

\* Calls that leave the lists as they are: the iterator is moved, or the program ends.
LEMMA StillCall ==
  ASSUME ListInv, UNCHANGED <<heap, allocated, entry, size>>,
         iter' \in [l : Lists, entry : Addresses],
         answer' \in Elements \cup {NULL} \cup BOOLEAN, crashed' \in BOOLEAN
  PROVE  ListInv'
BY DEF ListInv, ListTypes

LEMMA GetIterCall ==
  ASSUME ListInv, NEW l \in Lists, listGetIter(l)
  PROVE  ListInv'
<1>1. entry[l] \in Addresses
  BY ListInvTypes DEF TypeOK
<1> QED
  BY <1>1, StillCall DEF listGetIter, ListInv, ListTypes

LEMMA EmptyCall ==
  ASSUME ListInv, NEW l, NEW r, EmptyListUsed(l, r)
  PROVE  ListInv'
BY StillCall DEF EmptyListUsed, ListInv, ListTypes

\* Where the iterator stands in a list that is intact.
LEMMA StandsIs ==
  ASSUME ListInv, Intact(iter.l), Stands
  PROVE  \E c : \E i \in 0..Len(c) :
           /\ c = ChainOf(iter.l) /\ IsRow(heap, c) /\ IsListRow(heap, c) /\ Len(c) \in Nat
           /\ ElementsOf(iter.l) = Values(heap, c)
           /\ iter.entry = IF i = 0 THEN NULL ELSE c[i]
<1>1. iter.l \in Lists
  BY DEF ListInv, ListTypes
<1>2. PICK c : /\ c = ChainOf(iter.l) /\ IsRow(heap, c) /\ IsListRow(heap, c) /\ Len(c) \in Nat
               /\ ElementsOf(iter.l) = Values(heap, c)
  BY <1>1, IntactIs
<1>3. \E i \in 0..Len(c) : iter.entry = IF i = 0 THEN NULL ELSE c[i]
  <2>1. CASE iter.entry = NULL
    <3>1. 0 \in 0..Len(c)
      BY <1>2
    <3> QED
      BY <2>1, <3>1
  <2>2. CASE iter.entry \in ToSet(c)
    <3>1. PICK i \in 1..Len(c) : iter.entry = c[i]
      BY <1>2, <2>2, RowFacts
    <3>2. i \in 0..Len(c) /\ i # 0
      BY <1>2
    <3> QED
      BY <3>1, <3>2
  <2> QED
    BY <1>2, <2>1, <2>2 DEF Stands
<1> QED
  BY <1>2, <1>3

PlaceIn(c, a) == IF a = NULL THEN 0 ELSE CHOOSE i \in DOMAIN c : c[i] = a

LEMMA PlaceInIs ==
  ASSUME NEW h, IsHeap(h), NULL \notin DOMAIN h, NEW c, IsRow(h, c), NEW i \in 0..Len(c)
  PROVE  PlaceIn(c, IF i = 0 THEN NULL ELSE c[i]) = i
<1>1. CASE i = 0
  BY <1>1 DEF PlaceIn
<1>2. CASE i # 0
  <2>1. Len(c) \in Nat /\ DOMAIN c = 1..Len(c)
    BY RowFacts
  <2>2. i \in DOMAIN c
    BY <1>2, <2>1
  <2>3. c[i] # NULL
    BY <2>1, <2>2, RowFacts
  <2>4. \A j \in DOMAIN c : c[j] = c[i] => j = i
    BY <2>1, <2>2, RowFacts
  <2>5. PICK a : a = c[i]
    OBVIOUS
  <2>6. PICK p : p = CHOOSE j \in DOMAIN c : c[j] = a
    OBVIOUS
  <2>7. p \in DOMAIN c /\ c[p] = a
    BY <2>2, <2>5, <2>6
  <2>8. p = i
    BY <2>4, <2>5, <2>7
  <2> QED
    BY <1>2, <2>3, <2>5, <2>6, <2>8 DEF PlaceIn
<1> QED
  BY <1>1, <1>2

\* The answer of a step of the iterator, and what the steps find.
LEMMA WalkFacts ==
  ASSUME ListInv, Intact(iter.l), Stands
  PROVE  \E c : \E i \in 0..Len(c) :
           /\ c = ChainOf(iter.l) /\ Len(c) \in Nat /\ Place = i
           /\ Len(ElementsOf(iter.l)) = Len(c)
           /\ ElementAt(iter.entry) = IF i = 0 THEN NULL ELSE ElementsOf(iter.l)[i]
           /\ ElementAt(iter.entry) \in Elements \cup {NULL}
           /\ listNodeNext(heap, iter.entry) \in Addresses
           /\ listNodePrev(heap, iter.entry) \in Addresses
           /\ PlaceIn(c, listNodeNext(heap, iter.entry)) = IF i \in {0, Len(c)} THEN 0 ELSE i + 1
           /\ PlaceIn(c, listNodePrev(heap, iter.entry)) = IF i = 0 THEN 0 ELSE i - 1
<1>1. TypedHeap(heap, allocated) /\ IsHeap(heap) /\ NULL \notin DOMAIN heap
  BY TypedIs DEF ListInv, ListTypes
<1>2. PICK c : \E i \in 0..Len(c) :
        /\ c = ChainOf(iter.l) /\ IsRow(heap, c) /\ IsListRow(heap, c) /\ Len(c) \in Nat
        /\ ElementsOf(iter.l) = Values(heap, c)
        /\ iter.entry = IF i = 0 THEN NULL ELSE c[i]
  BY StandsIs
<1>3. PICK i \in 0..Len(c) :
        /\ c = ChainOf(iter.l) /\ IsRow(heap, c) /\ IsListRow(heap, c) /\ Len(c) \in Nat
        /\ ElementsOf(iter.l) = Values(heap, c)
        /\ iter.entry = IF i = 0 THEN NULL ELSE c[i]
  BY <1>2
<1>4. Place = PlaceIn(c, iter.entry)
  BY <1>3 DEF Place, PlaceIn
<1>5. Place = i
  <2>1. PlaceIn(c, IF i = 0 THEN NULL ELSE c[i]) = i
    BY <1>1, <1>3, PlaceInIs
  <2> QED
    BY <1>3, <1>4, <2>1
<1>6. Len(ElementsOf(iter.l)) = Len(c)
  BY <1>1, <1>3, ValuesAre
<1>7. NULL \in Addresses /\ PlaceIn(c, NULL) = 0
  BY DEF Addresses, PlaceIn
<1>8. CASE i = 0
  <2>1. iter.entry = NULL
    BY <1>3, <1>8
  <2>2. ElementAt(iter.entry) = NULL
    BY <2>1 DEF ElementAt
  <2>3. listNodeNext(heap, iter.entry) = NULL
    BY <2>1 DEF listNodeNext
  <2>4. listNodePrev(heap, iter.entry) = NULL
    BY <2>1 DEF listNodePrev
  <2> QED
    BY <1>3, <1>5, <1>6, <1>7, <1>8, <2>2, <2>3, <2>4
<1>9. CASE i # 0
  <2>1. i \in 1..Len(c) /\ iter.entry = c[i]
    BY <1>3, <1>9
  <2>2. c[i] \in DOMAIN heap /\ heap[c[i]].next = IF i = Len(c) THEN NULL ELSE c[i + 1]
    BY <1>3, <2>1, RowFacts
  <2>3. heap[c[i]].prev = IF i = 1 THEN NULL ELSE c[i - 1]
    <3>1. CASE i = 1
      <4>1. c # <<>>
        BY <2>1, <3>1
      <4> QED
        BY <1>3, <3>1, <4>1 DEF IsListRow
    <3>2. CASE i # 1
      <4>1. i \in 2..Len(c)
        BY <1>3, <2>1, <3>2
      <4> QED
        BY <1>3, <3>2, <4>1, RowFacts
    <3> QED
      BY <3>1, <3>2
  <2>4. iter.entry # NULL
    BY <1>1, <2>1, <2>2
  <2>5. heap[c[i]].element \in Elements /\ heap[c[i]].next \in Addresses /\ heap[c[i]].prev \in Addresses
    <3>1. heap[c[i]] \in EntryNodes
      BY <1>1, <2>2, TypedIs
    <3> QED
      BY <3>1, EntryNodeIs
  <2>6. ElementAt(iter.entry) = heap[c[i]].element
    BY <2>1, <2>4 DEF ElementAt
  <2>7. ElementsOf(iter.l)[i] = heap[c[i]].element
    <3>1. \A j \in 1..Len(c) : Values(heap, c)[j] = heap[c[j]].element
      BY <1>1, <1>3, ValuesAre
    <3> QED
      BY <1>3, <2>1, <3>1
  <2>8. listNodeNext(heap, iter.entry) = heap[c[i]].next
    BY <2>1, <2>4 DEF listNodeNext
  <2>9. listNodePrev(heap, iter.entry) = heap[c[i]].prev
    BY <2>1, <2>4 DEF listNodePrev
  <2>10. PlaceIn(c, heap[c[i]].next) = IF i = Len(c) THEN 0 ELSE i + 1
    <3>1. CASE i = Len(c)
      BY <1>7, <2>2, <3>1
    <3>2. CASE i # Len(c)
      <4>1. PICK j \in 0..Len(c) : j = i + 1 /\ j # 0
        BY <1>3, <2>1, <3>2
      <4>2. PlaceIn(c, IF j = 0 THEN NULL ELSE c[j]) = j
        BY <1>1, <1>3, PlaceInIs
      <4>3. heap[c[i]].next = c[j]
        BY <2>2, <3>2, <4>1
      <4> QED
        BY <3>2, <4>1, <4>2, <4>3
    <3> QED
      BY <3>1, <3>2
  <2>11. PlaceIn(c, heap[c[i]].prev) = i - 1
    <3>1. CASE i = 1
      BY <1>7, <2>3, <3>1
    <3>2. CASE i # 1
      <4>1. PICK j \in 0..Len(c) : j = i - 1 /\ j # 0
        BY <1>3, <2>1, <3>2
      <4>2. PlaceIn(c, IF j = 0 THEN NULL ELSE c[j]) = j
        BY <1>1, <1>3, PlaceInIs
      <4>3. heap[c[i]].prev = c[j]
        BY <2>3, <3>2, <4>1
      <4> QED
        BY <4>1, <4>2, <4>3
    <3> QED
      BY <3>1, <3>2
  <2> QED
    BY <1>3, <1>5, <1>6, <1>9, <2>5, <2>6, <2>7, <2>8, <2>9, <2>10, <2>11
<1> QED
  BY <1>8, <1>9

\* Where the iterator stands after a step of it alone.
LEMMA PlaceAfter ==
  ASSUME iter \in [l : Lists, entry : Addresses], UNCHANGED <<heap, entry>>,
         NEW a \in Addresses, iter' = [iter EXCEPT !.entry = a]
  PROVE  /\ iter' \in [l : Lists, entry : Addresses]
         /\ Place' = PlaceIn(ChainOf(iter.l), a)
<1>1. iter' \in [l : Lists, entry : Addresses] /\ iter'.l = iter.l /\ iter'.entry = a
  OBVIOUS
<1>2. ChainOf(iter.l)' = ChainOf(iter.l)
  BY <1>1 DEF ChainOf
<1>3. Place' = PlaceIn(ChainOf(iter.l)', iter'.entry)
  BY DEF Place, PlaceIn
<1> QED
  BY <1>1, <1>2, <1>3

LEMMA WalkCall ==
  ASSUME ListInv, Intact(iter.l), Stands, listNext \/ listPrev
  PROVE  ListInv' /\ Walks(ElementsOf(iter.l))
<1>1. PICK c : \E i \in 0..Len(c) :
           /\ c = ChainOf(iter.l) /\ Len(c) \in Nat /\ Place = i
           /\ Len(ElementsOf(iter.l)) = Len(c)
           /\ ElementAt(iter.entry) = IF i = 0 THEN NULL ELSE ElementsOf(iter.l)[i]
           /\ ElementAt(iter.entry) \in Elements \cup {NULL}
           /\ listNodeNext(heap, iter.entry) \in Addresses
           /\ listNodePrev(heap, iter.entry) \in Addresses
           /\ PlaceIn(c, listNodeNext(heap, iter.entry)) = IF i \in {0, Len(c)} THEN 0 ELSE i + 1
           /\ PlaceIn(c, listNodePrev(heap, iter.entry)) = IF i = 0 THEN 0 ELSE i - 1
  BY WalkFacts
<1>2. PICK i \in 0..Len(c) :
           /\ c = ChainOf(iter.l) /\ Len(c) \in Nat /\ Place = i
           /\ Len(ElementsOf(iter.l)) = Len(c)
           /\ ElementAt(iter.entry) = IF i = 0 THEN NULL ELSE ElementsOf(iter.l)[i]
           /\ ElementAt(iter.entry) \in Elements \cup {NULL}
           /\ listNodeNext(heap, iter.entry) \in Addresses
           /\ listNodePrev(heap, iter.entry) \in Addresses
           /\ PlaceIn(c, listNodeNext(heap, iter.entry)) = IF i \in {0, Len(c)} THEN 0 ELSE i + 1
           /\ PlaceIn(c, listNodePrev(heap, iter.entry)) = IF i = 0 THEN 0 ELSE i - 1
  BY <1>1
<1>3. iter \in [l : Lists, entry : Addresses] /\ crashed \in BOOLEAN
  BY DEF ListInv, ListTypes
<1>4. PICK s : s = ElementsOf(iter.l)
  OBVIOUS
<1>5. answer' = ElementAt(iter.entry) /\ UNCHANGED <<heap, allocated, entry, size, crashed>>
  BY DEF listNext, listPrev
<1>6. answer' = IF Place = 0 THEN NULL ELSE s[Place]
  BY <1>2, <1>4, <1>5
<1>7. PICK a \in Addresses : a = listNodeNext(heap, iter.entry)
  BY <1>2
<1>8. PICK b \in Addresses : b = listNodePrev(heap, iter.entry)
  BY <1>2
<1>9. ASSUME listNext
      PROVE  /\ iter' \in [l : Lists, entry : Addresses]
             /\ Place' = IF Place \in {0, Len(s)} THEN 0 ELSE Place + 1
  <2>1. iter' = [iter EXCEPT !.entry = a]
    BY <1>7, <1>9 DEF listNext
  <2>2. iter' \in [l : Lists, entry : Addresses] /\ Place' = PlaceIn(c, a)
    BY <1>2, <1>3, <1>5, <2>1, PlaceAfter
  <2> QED
    BY <1>2, <1>4, <1>7, <2>2
<1>10. ASSUME listPrev
       PROVE  /\ iter' \in [l : Lists, entry : Addresses]
              /\ Place' = IF Place = 0 THEN 0 ELSE Place - 1
  <2>1. iter' = [iter EXCEPT !.entry = b]
    BY <1>8, <1>10 DEF listPrev
  <2>2. iter' \in [l : Lists, entry : Addresses] /\ Place' = PlaceIn(c, b)
    BY <1>2, <1>3, <1>5, <2>1, PlaceAfter
  <2> QED
    BY <1>2, <1>8, <2>2
<1>11. ListInv'
  <2>1. iter' \in [l : Lists, entry : Addresses]
    BY <1>9, <1>10
  <2>2. answer' \in Elements \cup {NULL} \cup BOOLEAN
    BY <1>2, <1>5
  <2> QED
    BY <1>3, <1>5, <2>1, <2>2, StillCall
<1>12. Walks(s)
  BY <1>6, <1>9, <1>10 DEF Walks
<1> QED
  BY <1>4, <1>11, <1>12

LEMMA NeighbourCall ==
  ASSUME ListInv, Intact(iter.l), listPredecessor \/ listSuccessor
  PROVE  ListInv'
<1>1. iter \in [l : Lists, entry : Addresses] /\ crashed \in BOOLEAN /\ TypedHeap(heap, allocated)
  BY DEF ListInv, ListTypes
<1>2. Uninitialised \subseteq Addresses
  <2>1. ToSet(ChainOf(iter.l)) \subseteq DOMAIN heap
    BY Zenon DEF Intact
  <2>2. DOMAIN heap \subseteq Addresses
    BY <1>1, TypedIs
  <2> QED
    BY <2>1, <2>2 DEF Uninitialised, Addresses
<1>3. \E n \in Uninitialised : iter' = [iter EXCEPT !.entry = n]
  BY DEF listPredecessor, listSuccessor
<1>4. iter' \in [l : Lists, entry : Addresses]
  BY <1>1, <1>2, <1>3
<1>5. answer' = NULL /\ UNCHANGED <<heap, allocated, entry, size, crashed>>
  BY DEF listPredecessor, listSuccessor
<1> QED
  BY <1>1, <1>4, <1>5, StillCall

LEMMA SinkCall ==
  ASSUME ListInv, Intact(iter.l), Stands, NEW r \in Lists, Intact(r), listSink(r)
  PROVE  ListInv'
<1>1. PICK n \in Nat : n = allocated
  BY TypedIs DEF ListInv, ListTypes
<1>2. /\ heap' = IF iter.entry = NULL \/ entry[r] = NULL THEN heap
                 ELSE [heap EXCEPT ![iter.entry].element = heap[entry[r]].element]
      /\ answer' = NULL /\ UNCHANGED <<allocated, entry, size, iter, crashed>>
  BY DEF listSink
<1>3. PICK h : h = heap
  OBVIOUS
<1>4. TypedHeap(h, n) /\ SharedAt(h, entry)
  BY <1>1, <1>3 DEF ListInv, ListTypes
<1>5. TypedHeap(heap', n) /\ KeepsGone(h, heap', n)
  <2>1. CASE iter.entry = NULL \/ entry[r] = NULL
    BY <1>2, <1>3, <1>4, <2>1 DEF KeepsGone
  <2>2. CASE iter.entry # NULL /\ entry[r] # NULL
    <3>1. PICK x \in DOMAIN h : x = iter.entry
      <4>1. ToSet(ChainOf(iter.l)) \subseteq DOMAIN heap
        BY Zenon DEF Intact
      <4> QED
        BY <1>3, <2>2, <4>1 DEF Stands
    <3>2. PICK y \in DOMAIN h : y = entry[r]
      <4>1. PICK d : IsListRow(heap, d) /\ d # <<>> /\ entry[r] = d[1]
        BY <2>2, IntactIs
      <4>2. d[1] \in DOMAIN h
        BY <1>3, <1>4, <4>1, SoundNotGone DEF IsListRow
      <4> QED
        BY <4>1, <4>2
    <3>3. PICK e : e = h[y].element
      OBVIOUS
    <3>4. heap' = [h EXCEPT ![x].element = e]
      BY <1>2, <1>3, <2>2, <3>1, <3>2, <3>3
    <3>5. e \in Elements /\ IsHeap(h)
      BY <1>4, <3>3, TypedIs, EntryNodeIs
    <3>6. PICK v : v = [h[x] EXCEPT !.element = e]
      OBVIOUS
    <3>7. v \in EntryNodes /\ v.next = h[x].next
      <4>1. h[x] \in EntryNodes
        BY <1>4, TypedIs
      <4> QED
        BY <3>5, <3>6, <4>1 DEF EntryNodes
    <3>8. heap' = [h EXCEPT ![x] = v]
      BY <3>4, <3>6
    <3>9. /\ DOMAIN heap' = DOMAIN h /\ heap' = [z \in DOMAIN heap' |-> heap'[z]]
          /\ \A z \in DOMAIN h : heap'[z] = IF z = x THEN v ELSE h[z]
      BY <3>5, <3>8 DEF IsHeap
    <3>10. TypedHeap(heap', n)
      BY <1>4, <3>7, <3>9 DEF TypedHeap
    <3>11. KeepsGone(h, heap', n)
      BY <3>7, <3>9 DEF KeepsGone, Gone
    <3> QED
      BY <3>10, <3>11
  <2> QED
    BY <2>1, <2>2
<1>6. SharedAt(heap', entry)
  <2>1. entry \in [Lists -> {NULL} \cup 1..n]
    BY <1>1 DEF ListInv, ListTypes
  <2> QED
    BY <1>4, <1>5, <2>1 DEF SharedAt, KeepsGone
<1> QED
  BY <1>1, <1>2, <1>5, <1>6 DEF ListInv, ListTypes
-----------------------------------------------------------------------------
(***************************************************************************)
(* The theorems of the generic list.                                       *)
(***************************************************************************)
LEMMA ListStart == Init => ListInv
<1> SUFFICES ASSUME Init PROVE ListInv
  OBVIOUS
<1>1. TypedHeap(heap, allocated)
  BY Numbers DEF Init, TypedHeap
<1>2. entry \in [Lists -> {NULL} \cup 1..allocated] /\ SharedAt(heap, entry)
  BY DEF Init, SharedAt
<1>3. iter \in [l : Lists, entry : Addresses]
  BY DEF Init, Addresses
<1> QED
  BY <1>1, <1>2, <1>3 DEF Init, ListInv, ListTypes

LEMMA GivenIs ==
  ASSUME ListInv, Memory(1)
  PROVE  Given[Fresh(1)] \in Elements
<1>1. allocated \in Nat /\ allocated + 1 <= MaxNodes
  BY TypedIs DEF ListInv, ListTypes, Memory
<1>2. Fresh(1) \in 1..Len(Given)
  BY <1>1, Numbers DEF Fresh, MaxNodes
<1> QED
  BY <1>2, ListAssumption

LEMMA ListStep == ListInv /\ [Next]_vars => ListInv'
<1> SUFFICES ASSUME ListInv, [Next]_vars PROVE ListInv'
  OBVIOUS
<1>1. CASE UNCHANGED vars
  BY <1>1 DEF vars, ListInv, ListTypes
<1>2. CASE Next
  <2>1. PICK l \in Lists : Intact(l) /\ (CallOf(l) \/ \E r \in Lists \ {l} : CallOfBoth(l, r))
    BY <1>2 DEF Next
  <2>2. CASE CallOf(l)
    <3>1. CASE Memory(1) /\ listAppend(l, Given[Fresh(1)])
      BY <2>1, <3>1, GivenIs, AppendCall
    <3>2. CASE Memory(1) /\ listPush(l, Given[Fresh(1)])
      BY <2>1, <3>2, GivenIs, PushCall
    <3>3. CASE listRetriveTail(l)
      BY <2>1, <3>3, TailCall
    <3>4. CASE listPop(l)
      BY <2>1, <3>4, PopCall
    <3>5. CASE listRelease(l)
      BY <2>1, <3>5, ReleaseCall
    <3>6. CASE listGetIter(l)
      BY <3>6, GetIterCall
    <3>7. CASE iter.l = l /\ Stands /\ (listNext \/ listPrev)
      BY <2>1, <3>7, WalkCall
    <3>8. CASE iter.l = l /\ Stands /\ (listPredecessor \/ listSuccessor)
      BY <2>1, <3>8, NeighbourCall
    <3> QED
      BY <2>2, <3>1, <3>2, <3>3, <3>4, <3>5, <3>6, <3>7, <3>8 DEF CallOf
  <2>3. CASE \E r \in Lists \ {l} : CallOfBoth(l, r)
    <3>0. PICK r \in Lists \ {l} : CallOfBoth(l, r)
      BY <2>3
    <3>1. CASE listCopy(l, r)
      BY <2>1, <3>1, CopyCall
    <3>2. CASE Intact(r) /\ listAssignment(l, r)
      BY <2>1, <3>2, AssignCall
    <3>3. CASE Intact(r) /\ listIsEqual(l, r)
      BY <2>1, <3>3, EqualCall
    <3>4. CASE Intact(r) /\ listConcate(l, r)
      BY <2>1, <3>4, ConcatCall
    <3>5. CASE EmptyListUsed(l, r)
      BY <3>5, EmptyCall
    <3>6. CASE iter.l = l /\ Stands /\ Intact(r) /\ listSink(r)
      BY <2>1, <3>6, SinkCall
    <3> QED
      BY <3>0, <3>1, <3>2, <3>3, <3>4, <3>5, <3>6 DEF CallOfBoth
  <2> QED
    BY <2>1, <2>2, <2>3
<1> QED
  BY <1>1, <1>2

\* The inductive invariant of the generic list: the types, and that the first
\* node of a list that begins where another does is gone for good.
THEOREM ListIsSound == Spec => []ListInv
<1>1. Spec => Init /\ [][Next]_vars
  BY DEF Spec
<1> QED
  BY <1>1, ListStart, ListStep, PTL

\* list.c keeps its entries, sizes and iterator in their ranges.
THEOREM ListTypesHold == Spec => []TypeOK
BY ListIsSound, ListInvTypes, PTL

\* Two lists that are intact share no entry, whatever calls of list.c came before.
THEOREM ListsApart == Spec => []Apart
BY ListIsSound, ListInvApart, PTL

\* What one call on a list that is intact promises.
LEMMA ListPromise ==
  ASSUME ListInv, NEW l \in Lists, Intact(l)
  PROVE  /\ Adds(l, ElementsOf(l)) /\ Takes(l, ElementsOf(l))
         /\ \A r \in Lists \ {l} : Combines(l, r, ElementsOf(l), ElementsOf(r))
         /\ iter.l = l /\ Stands => Walks(ElementsOf(l))
<1>1. Adds(l, ElementsOf(l))
  BY GivenIs, AppendCall, PushCall DEF Adds
<1>2. Takes(l, ElementsOf(l))
  BY TailCall, PopCall DEF Takes
<1>3. ASSUME NEW r \in Lists \ {l} PROVE Combines(l, r, ElementsOf(l), ElementsOf(r))
  BY <1>3, CopyCall, AssignCall, EqualCall, ConcatCall DEF Combines
<1>4. ASSUME iter.l = l, Stands PROVE Walks(ElementsOf(l))
  <2>1. CASE listNext \/ listPrev
    BY <1>4, <2>1, WalkCall
  <2>2. CASE ~(listNext \/ listPrev)
    BY <2>2 DEF Walks
  <2> QED
    BY <2>1, <2>2
<1> QED
  BY <1>1, <1>2, <1>3, <1>4

\* Every call of list.c on a list that is intact keeps its promise: what is
\* added, taken, copied, compared and concatenated, and where an iterator goes.
THEOREM ListPromises == Spec => CallsKeepPromises
<1>1. ListInv => \A l \in Lists : Intact(l) =>
        LET s == ElementsOf(l) IN
          /\ Adds(l, s) /\ Takes(l, s)
          /\ \A r \in Lists \ {l} : Combines(l, r, s, ElementsOf(r))
          /\ iter.l = l /\ Stands => Walks(s)
  BY ListPromise, Zenon
<1> QED
  BY <1>1, ListIsSound, PTL DEF CallsKeepPromises
-----------------------------------------------------------------------------
(***************************************************************************)
(* The rows of sequences: a head, and the items behind it.                 *)
(***************************************************************************)
Headed(s, c) == <<s>> \o c

ColumnsIn(h, c) == Fields(h, c, "column")

LEMMA ColumnsJoin ==
  ASSUME NEW h, NEW D, NEW c \in Seq(D), NEW d \in Seq(D)
  PROVE  ColumnsIn(h, c \o d) = ColumnsIn(h, c) \o ColumnsIn(h, d)
BY FieldsJoin, Z3 DEF ColumnsIn

LEMMA ColumnsCut ==
  ASSUME NEW h, NEW D, NEW c \in Seq(D), NEW j \in 1..Len(c)
  PROVE  ColumnsIn(h, RemoveAt(c, j)) = RemoveAt(ColumnsIn(h, c), j)
BY FieldsCut, Z3 DEF ColumnsIn

LEMMA ColumnsStay ==
  ASSUME NEW h, NEW g, NEW D, NEW c \in Seq(D), \A x \in ToSet(c) : g[x].column = h[x].column
  PROVE  ColumnsIn(g, c) = ColumnsIn(h, c)
BY FieldsStay DEF ColumnsIn

LEMMA ColumnsOfOne ==
  ASSUME NEW h, NEW x
  PROVE  ColumnsIn(h, <<x>>) = <<h[x].column>>
<1>1. Fields(h, <<x>>, "column") = <<h[x]["column"]>>
  BY FieldsOfOne
<1> QED
  BY <1>1 DEF ColumnsIn

LEMMA HeadedIs ==
  ASSUME NEW D, NEW s \in D, NEW c \in Seq(D)
  PROVE  /\ Headed(s, c) \in Seq(D) /\ Headed(s, c) # <<>>
         /\ Len(Headed(s, c)) = Len(c) + 1
         /\ Headed(s, c)[1] = s /\ \A i \in 1..Len(c) : Headed(s, c)[i + 1] = c[i]
         /\ ToSet(Headed(s, c)) = {s} \cup ToSet(c)
<1>1. PICK k \in Nat : k = Len(c)
  OBVIOUS
<1>2. PICK b : b = Headed(s, c)
  OBVIOUS
<1>3. <<s>> \in Seq(D) /\ Len(<<s>>) = 1 /\ <<s>>[1] = s
  OBVIOUS
<1>4. PICK a : a = <<s>>
  OBVIOUS
<1>5. /\ b \in Seq(D) /\ Len(b) = 1 + k
      /\ \A i \in 1..(1 + k) : b[i] = IF i <= 1 THEN a[i] ELSE c[i - 1]
  <2>1. a \in Seq(D) /\ Len(a) = 1 /\ b = a \o c
    BY <1>2, <1>3, <1>4 DEF Headed
  <2>2. b \in Seq(D) /\ Len(b) = Len(a) + Len(c)
    BY <2>1, ConcatProperties
  <2>3. \A i \in 1..(Len(a) + Len(c)) : b[i] = IF i <= Len(a) THEN a[i] ELSE c[i - Len(a)]
    BY <2>1, ConcatProperties, Zenon
  <2> QED
    BY <1>1, <2>1, <2>2, <2>3
<1>6. b[1] = s /\ b # <<>>
  BY <1>1, <1>3, <1>4, <1>5
<1>7. \A i \in 1..k : b[i + 1] = c[i]
  <2>1. \A i \in 1..k : i + 1 \in 1..(1 + k) /\ ~(i + 1 <= 1) /\ (i + 1) - 1 = i
    BY <1>1
  <2> QED
    BY <1>5, <2>1
<1>8. ToSet(b) = {s} \cup ToSet(c)
  <2>1. \A i \in 1..(1 + k) : i = 1 \/ (i - 1 \in 1..k /\ (i - 1) + 1 = i)
    BY <1>1
  <2>2. \A i \in 1..k : i + 1 \in 1..(1 + k)
    BY <1>1
  <2>3. ToSet(b) = {b[i] : i \in 1..(1 + k)}
    <3>1. DOMAIN b = 1..(1 + k)
      BY <1>5
    <3> QED
      BY <3>1 DEF ToSet
  <2>4. ToSet(c) = {c[i] : i \in 1..k}
    BY <1>1 DEF ToSet
  <2>5. 1 \in 1..(1 + k)
    BY <1>1
  <2>6. ToSet(b) \subseteq {s} \cup ToSet(c)
    <3>1. ASSUME NEW i \in 1..(1 + k) PROVE b[i] \in {s} \cup ToSet(c)
      <4>1. CASE i = 1
        BY <1>6, <4>1
      <4>2. CASE i # 1
        <5>1. PICK j \in 1..k : j + 1 = i
          BY <2>1, <4>2
        <5> QED
          BY <1>7, <2>4, <5>1
      <4> QED
        BY <4>1, <4>2
    <3> QED
      BY <2>3, <3>1
  <2>7. {s} \cup ToSet(c) \subseteq ToSet(b)
    <3>1. s \in ToSet(b)
      BY <1>6, <2>3, <2>5
    <3>2. ASSUME NEW i \in 1..k PROVE c[i] \in ToSet(b)
      BY <1>7, <2>2, <2>3
    <3> QED
      BY <2>4, <3>1, <3>2
  <2> QED
    BY <2>6, <2>7
<1>9. Len(b) = Len(c) + 1
  BY <1>1, <1>5
<1> QED
  BY <1>1, <1>2, <1>5, <1>6, <1>7, <1>8, <1>9

\* A row behind a head is a row.
LEMMA TailRow ==
  ASSUME NEW h, NEW s \in DOMAIN h, NEW c \in Seq(DOMAIN h), IsRow(h, Headed(s, c))
  PROVE  /\ IsRow(h, c) /\ h[s].next = Start(c) /\ s \notin ToSet(c)
         /\ c # <<>> => h[c[1]].prev = s
<1>1. PICK k \in Nat : k = Len(c)
  OBVIOUS
<1>2. PICK b : b = Headed(s, c)
  OBVIOUS
<1>3. Len(b) = k + 1 /\ b[1] = s /\ \A i \in 1..k : b[i + 1] = c[i]
  <2>1. /\ Len(Headed(s, c)) = Len(c) + 1 /\ Headed(s, c)[1] = s
        /\ \A i \in 1..Len(c) : Headed(s, c)[i + 1] = c[i]
    BY HeadedIs
  <2> QED
    BY <1>1, <1>2, <2>1
<1>4. /\ \A i, j \in 1..(k + 1) : b[i] = b[j] => i = j
      /\ \A i \in 1..(k + 1) : h[b[i]].next = IF i = k + 1 THEN NULL ELSE b[i + 1]
      /\ \A i \in 2..(k + 1) : h[b[i]].prev = b[i - 1]
  <2>1. IsRow(h, b)
    BY <1>2
  <2>2. /\ \A i, j \in 1..Len(b) : b[i] = b[j] => i = j
        /\ \A i \in 1..Len(b) : h[b[i]].next = IF i = Len(b) THEN NULL ELSE b[i + 1]
        /\ \A i \in 2..Len(b) : h[b[i]].prev = b[i - 1]
    BY <2>1, RowFacts
  <2> QED
    BY <1>3, <2>2
<1>5. \A i \in 1..k : i + 1 \in 2..(k + 1) /\ i + 1 \in 1..(k + 1) /\ (i + 1) - 1 = i
  OBVIOUS
<1>6. 1 \in 1..(k + 1)
  OBVIOUS
<1>7. \A i, j \in 1..k : c[i] = c[j] => i = j
  <2>1. ASSUME NEW i \in 1..k, NEW j \in 1..k, c[i] = c[j] PROVE i = j
    <3>1. b[i + 1] = b[j + 1]
      BY <1>3, <2>1
    <3>2. i + 1 = j + 1
      BY <1>4, <1>5, <3>1
    <3> QED
      BY <3>2
  <2> QED
    BY <2>1
<1>8. ASSUME NEW i \in 1..k PROVE h[c[i]].next = IF i = k THEN NULL ELSE c[i + 1]
  <2>1. h[b[i + 1]].next = IF i + 1 = k + 1 THEN NULL ELSE b[(i + 1) + 1]
    BY <1>4, <1>5
  <2>2. i # k => i + 1 \in 1..k
    OBVIOUS
  <2>3. i # k => b[(i + 1) + 1] = c[i + 1]
    BY <1>3, <2>2
  <2> QED
    BY <1>3, <2>1, <2>3
<1>9. ASSUME NEW i \in 2..k PROVE h[c[i]].prev = c[i - 1]
  <2>1. i \in 1..k /\ i - 1 \in 1..k /\ (i - 1) + 1 = i
    OBVIOUS
  <2>2. h[b[i + 1]].prev = b[i]
    BY <1>4, <1>5, <2>1
  <2>3. b[i + 1] = c[i] /\ b[i] = c[i - 1]
    BY <1>3, <2>1
  <2> QED
    BY <2>2, <2>3
<1>10. IsRow(h, c)
  BY <1>1, <1>7, <1>8, <1>9 DEF IsRow
<1>11. h[s].next = Start(c)
  <2>1. h[s].next = IF 1 = k + 1 THEN NULL ELSE b[1 + 1]
    BY <1>3, <1>4, <1>6
  <2>2. CASE k = 0
    <3>1. c = <<>>
      BY <1>1, <2>2, EmptySeq
    <3> QED
      BY <2>1, <2>2, <3>1 DEF Start
  <2>3. CASE k # 0
    <3>1. c # <<>> /\ 1 \in 1..k /\ 1 # k + 1
      BY <1>1, <2>3
    <3>2. b[1 + 1] = c[1]
      BY <1>3, <3>1
    <3> QED
      BY <2>1, <3>1, <3>2 DEF Start
  <2> QED
    BY <2>2, <2>3
<1>12. s \notin ToSet(c)
  <2>1. ASSUME NEW i \in 1..k PROVE c[i] # s
    <3>1. i + 1 # 1
      OBVIOUS
    <3> QED
      BY <1>3, <1>4, <1>5, <1>6, <3>1
  <2> QED
    BY <1>1, <2>1 DEF ToSet
<1>13. ASSUME c # <<>> PROVE h[c[1]].prev = s
  <2>1. 1 \in 1..k
    BY <1>1, <1>13
  <2>2. h[b[1 + 1]].prev = b[1]
    BY <1>4, <1>5, <2>1
  <2> QED
    BY <1>3, <2>1, <2>2
<1> QED
  BY <1>10, <1>11, <1>12, <1>13

LEMMA HeadedRow ==
  ASSUME NEW h, NEW s \in DOMAIN h, NEW c, IsRow(h, c), h[s].next = Start(c),
         s \notin ToSet(c), c # <<>> => h[c[1]].prev = s
  PROVE  IsRow(h, Headed(s, c))
<1>1. c \in Seq(DOMAIN h)
  BY DEF IsRow
<1>2. PICK k \in Nat : /\ k = Len(c)
                       /\ \A i, j \in 1..k : c[i] = c[j] => i = j
                       /\ \A i \in 1..k : h[c[i]].next = IF i = k THEN NULL ELSE c[i + 1]
                       /\ \A i \in 2..k : h[c[i]].prev = c[i - 1]
                       /\ ToSet(c) = {c[i] : i \in 1..k} /\ (c = <<>> <=> k = 0)
  BY RowFacts
<1>3. PICK b : b = Headed(s, c)
  OBVIOUS
<1>4. /\ b \in Seq(DOMAIN h) /\ Len(b) = k + 1 /\ b[1] = s
      /\ \A i \in 1..k : b[i + 1] = c[i]
  <2>1. /\ Headed(s, c) \in Seq(DOMAIN h)
        /\ Len(Headed(s, c)) = Len(c) + 1 /\ Headed(s, c)[1] = s
        /\ \A i \in 1..Len(c) : Headed(s, c)[i + 1] = c[i]
    BY <1>1, HeadedIs
  <2> QED
    BY <1>2, <1>3, <2>1
<1>5. \A i \in 1..(k + 1) : i = 1 \/ \E j \in 1..k : i = j + 1
  <2>1. ASSUME NEW i \in 1..(k + 1), i # 1 PROVE \E j \in 1..k : i = j + 1
    <3>1. i - 1 \in 1..k /\ i = (i - 1) + 1
      BY <2>1
    <3> QED
      BY <3>1
  <2> QED
    BY <2>1
<1>6. ASSUME NEW i \in 1..(k + 1), NEW j \in 1..(k + 1), b[i] = b[j] PROVE i = j
  <2>1. CASE i = 1 /\ j # 1
    <3>1. PICK q \in 1..k : j = q + 1
      BY <1>5, <2>1
    <3> QED
      BY <1>2, <1>4, <1>6, <2>1, <3>1
  <2>2. CASE i # 1 /\ j = 1
    <3>1. PICK p \in 1..k : i = p + 1
      BY <1>5, <2>2
    <3> QED
      BY <1>2, <1>4, <1>6, <2>2, <3>1
  <2>3. CASE i # 1 /\ j # 1
    <3>1. PICK p \in 1..k : i = p + 1
      BY <1>5, <2>3
    <3>2. PICK q \in 1..k : j = q + 1
      BY <1>5, <2>3
    <3>3. c[p] = c[q]
      BY <1>4, <1>6, <3>1, <3>2
    <3> QED
      BY <1>2, <3>1, <3>2, <3>3
  <2> QED
    BY <2>1, <2>2, <2>3
<1>7. ASSUME NEW i \in 1..(k + 1) PROVE h[b[i]].next = IF i = k + 1 THEN NULL ELSE b[i + 1]
  <2>1. CASE i = 1
    <3>1. CASE k = 0
      BY <1>2, <1>4, <2>1, <3>1 DEF Start
    <3>2. CASE k # 0
      <4>1. 1 \in 1..k /\ 1 # k + 1 /\ c # <<>>
        BY <1>2, <3>2
      <4>2. b[1 + 1] = c[1]
        BY <1>4, <4>1
      <4> QED
        BY <1>4, <2>1, <4>1, <4>2 DEF Start
    <3> QED
      BY <3>1, <3>2
  <2>2. CASE i # 1
    <3>1. PICK p \in 1..k : i = p + 1
      BY <1>5, <2>2
    <3>2. h[c[p]].next = IF p = k THEN NULL ELSE c[p + 1]
      BY <1>2
    <3>3. b[i] = c[p] /\ (p = k <=> i = k + 1)
      BY <1>4, <3>1
    <3>4. p # k => p + 1 \in 1..k
      OBVIOUS
    <3>5. p # k => b[i + 1] = c[p + 1]
      BY <1>4, <3>1, <3>4
    <3> QED
      BY <3>2, <3>3, <3>5
  <2> QED
    BY <2>1, <2>2
<1>8. ASSUME NEW i \in 2..(k + 1) PROVE h[b[i]].prev = b[i - 1]
  <2>1. i \in 1..(k + 1) /\ i # 1
    OBVIOUS
  <2>2. PICK p \in 1..k : i = p + 1 /\ i - 1 = p
    BY <1>5, <2>1
  <2>3. b[i] = c[p]
    BY <1>4, <2>2
  <2>4. CASE p = 1
    BY <1>2, <1>4, <2>2, <2>3, <2>4
  <2>5. CASE p # 1
    <3>1. p \in 2..k /\ p - 1 \in 1..k /\ (p - 1) + 1 = p
      BY <2>5
    <3>2. b[p] = c[p - 1]
      BY <1>4, <3>1
    <3> QED
      BY <1>2, <2>2, <2>3, <3>1, <3>2
  <2> QED
    BY <2>4, <2>5
<1> QED
  BY <1>3, <1>4, <1>6, <1>7, <1>8 DEF IsRow
-----------------------------------------------------------------------------
(***************************************************************************)
(* The heap of the sequences, of which the first n items were used, the    *)
(* rows in it and the item that waits for its sequence.                    *)
(***************************************************************************)
Tagged(h) ==
  \A x \in DOMAIN h : /\ "column" \in DOMAIN h[x] /\ h[x].column \in Columns \cup {NULL}
                      /\ h[x].column = NULL <=> x \in Sequences

ItemHeap(h, n) == IsHeap(h) /\ DOMAIN h \subseteq (1..n) \cup Sequences /\ Tagged(h)

ItemRow(h, n, s, c) ==
  /\ s \in Sequences /\ s \in DOMAIN h /\ h[s].prev = NULL
  /\ c \in Seq(1..n) /\ IsRow(h, Headed(s, c))

Rows(h, n) == \A s \in Sequences : s \in DOMAIN h => \E c : ItemRow(h, n, s, c)

Waits(h, n, q) ==
  q # NULL => /\ q \in 1..n /\ q \in DOMAIN h /\ YYVAL \notin DOMAIN h
              /\ h[q].next = NULL /\ h[q].prev = YYVAL

\* What does not change outside S.
Untouched(h, g, S) == \A x \in DOMAIN h : x \notin S => x \in DOMAIN g /\ g[x] = h[x]

LEMMA ItemNumbers ==
  /\ MaxNodes \in Nat /\ NULL \notin Nat /\ NULL \notin Sequences /\ NULL \notin Columns
  /\ \A s \in Sequences : s \notin Nat
  /\ YYVAL \in Sequences /\ Seqs \subseteq Sequences /\ YYVAL \notin Seqs
BY NodeAssumption, ItemAssumption DEF MaxNodes, Sequences

LEMMA ItemRowIs ==
  ASSUME NEW h, NEW n \in Nat, ItemHeap(h, n), NEW s, NEW c, ItemRow(h, n, s, c)
  PROVE  /\ c \in Seq(DOMAIN h) /\ Len(c) \in Nat /\ IsRow(h, c) /\ s \notin ToSet(c)
         /\ h[s].next = Start(c) /\ (Start(c) = NULL <=> c = <<>>) /\ (c # <<>> => h[c[1]].prev = s)
         /\ Chain(h, h[s].next) = c /\ Chain(h, s) = Headed(s, c)
         /\ ToSet(c) \subseteq 1..n /\ ToSet(c) \subseteq DOMAIN h
         /\ ToSet(Headed(s, c)) = {s} \cup ToSet(c)
         /\ ToSet(Headed(s, c)) \subseteq DOMAIN h
<1>1. /\ s \in Sequences /\ s \in DOMAIN h /\ c \in Seq(1..n) /\ IsRow(h, Headed(s, c))
      /\ IsHeap(h) /\ NULL \notin DOMAIN h
  BY DEF ItemRow, ItemHeap, IsHeap
<1>2. PICK D : D = (1..n) \cup {s}
  OBVIOUS
<1>3. s \in D /\ c \in Seq(D)
  <2>1. 1..n \subseteq D
    BY <1>2
  <2> QED
    BY <1>1, <1>2, <2>1
<1>4. PICK b : b = Headed(s, c)
  OBVIOUS
<1>5. PICK k \in Nat : k = Len(c) /\ DOMAIN c = 1..k /\ \A i \in 1..k : c[i] \in 1..n
  BY <1>1
<1>6. /\ Len(b) = k + 1 /\ b # <<>> /\ b[1] = s
      /\ \A i \in 1..k : b[i + 1] = c[i]
      /\ ToSet(b) = {s} \cup ToSet(c)
  <2>1. /\ Headed(s, c) # <<>>
        /\ Len(Headed(s, c)) = Len(c) + 1
        /\ Headed(s, c)[1] = s /\ \A i \in 1..Len(c) : Headed(s, c)[i + 1] = c[i]
        /\ ToSet(Headed(s, c)) = {s} \cup ToSet(c)
    <3>1. /\ Headed(s, c) # <<>> /\ Len(Headed(s, c)) = Len(c) + 1
          /\ Headed(s, c)[1] = s /\ \A i \in 1..Len(c) : Headed(s, c)[i + 1] = c[i]
      BY <1>3, HeadedIs
    <3>2. ToSet(Headed(s, c)) = {s} \cup ToSet(c)
      BY <1>3, HeadedIs
    <3> QED
      BY <3>1, <3>2
  <2> QED
    BY <1>4, <1>5, <2>1
<1>7. ToSet(b) \subseteq DOMAIN h /\ \A i \in 1..Len(b) : b[i] \in DOMAIN h
  <2>1. IsRow(h, b)
    BY <1>1, <1>4
  <2> QED
    BY <2>1, RowFacts
<1>8. c \in Seq(DOMAIN h)
  <2>1. \A i \in 1..k : i + 1 \in 1..(k + 1)
    OBVIOUS
  <2>2. \A i \in 1..k : c[i] \in DOMAIN h
    BY <1>6, <1>7, <2>1
  <2>3. c = [i \in 1..k |-> c[i]]
    BY <1>1, <1>5
  <2>4. c \in [1..k -> DOMAIN h]
    BY <2>2, <2>3
  <2> QED
    BY <2>4
<1>9. /\ IsRow(h, c) /\ h[s].next = Start(c) /\ s \notin ToSet(c)
      /\ c # <<>> => h[c[1]].prev = s
  BY <1>1, <1>8, TailRow
<1>10. Start(c) = NULL <=> c = <<>>
  <2>1. c # <<>> => 1 \in 1..k
    BY <1>1, <1>5, EmptySeq
  <2>2. c # <<>> => c[1] \in DOMAIN h
    BY <1>8, <2>1, <1>5
  <2> QED
    BY <1>1, <2>2 DEF Start
<1>11. Chain(h, Start(c)) = c
  BY <1>1, <1>9, RowIsChain
<1>12. Chain(h, s) = b
  <2>1. IsRow(h, b) /\ Start(b) = s
    BY <1>1, <1>4, <1>6 DEF Start
  <2>2. Chain(h, Start(b)) = b
    BY <1>1, <2>1, RowIsChain
  <2> QED
    BY <2>1, <2>2
<1>13. ToSet(c) \subseteq 1..n /\ ToSet(c) \subseteq DOMAIN h
  BY <1>5, <1>6, <1>7 DEF ToSet
<1> QED
  BY <1>4, <1>5, <1>6, <1>7, <1>8, <1>9, <1>10, <1>11, <1>12, <1>13

LEMMA ItemRowIf ==
  ASSUME NEW g, NEW n \in Nat, NEW s \in Sequences, s \in DOMAIN g, g[s].prev = NULL,
         NEW c \in Seq(1..n), IsRow(g, c), g[s].next = Start(c),
         c # <<>> => g[c[1]].prev = s
  PROVE  ItemRow(g, n, s, c)
<1>1. s \notin ToSet(c)
  <2>1. \A i \in DOMAIN c : c[i] \in Nat
    OBVIOUS
  <2>2. s \notin Nat
    BY ItemNumbers
  <2> QED
    BY <2>1, <2>2 DEF ToSet
<1>2. IsRow(g, Headed(s, c))
  BY <1>1, HeadedRow
<1> QED
  BY <1>2 DEF ItemRow

\* The rows of two sequences have no node in common.
LEMMA ItemRowsApart ==
  ASSUME NEW h, NEW n \in Nat, ItemHeap(h, n), NEW s, NEW c, ItemRow(h, n, s, c),
         NEW t, NEW d, ItemRow(h, n, t, d), s # t
  PROVE  ToSet(Headed(s, c)) \cap ToSet(Headed(t, d)) = {}
<1>1. PICK a : a = Headed(s, c)
  OBVIOUS
<1>2. PICK b : b = Headed(t, d)
  OBVIOUS
<1>3. IsRow(h, a) /\ IsRow(h, b) /\ h[s].prev = NULL /\ h[t].prev = NULL /\ NULL \notin DOMAIN h
  BY <1>1, <1>2 DEF ItemRow, ItemHeap, IsHeap
<1>4. a # <<>> /\ a[1] = s /\ ToSet(a) \subseteq DOMAIN h
  <2>1. c \in Seq(DOMAIN h) /\ s \in DOMAIN h
    BY ItemRowIs DEF ItemRow
  <2>2. Headed(s, c) # <<>> /\ Headed(s, c)[1] = s
    BY <2>1, HeadedIs
  <2> QED
    BY <1>1, <1>3, <2>2, RowFacts
<1>5. b # <<>> /\ b[1] = t /\ ToSet(b) \subseteq DOMAIN h
  <2>1. d \in Seq(DOMAIN h) /\ t \in DOMAIN h
    BY ItemRowIs DEF ItemRow
  <2>2. Headed(t, d) # <<>> /\ Headed(t, d)[1] = t
    BY <2>1, HeadedIs
  <2> QED
    BY <1>2, <1>3, <2>2, RowFacts
<1>6. ToSet(a) \cap ToSet(b) = {}
  <2>1. a[1] # b[1] /\ h[a[1]].prev \notin ToSet(b) /\ h[b[1]].prev \notin ToSet(a)
    BY <1>3, <1>4, <1>5
  <2> QED
    BY <1>3, <1>4, <1>5, <2>1, RowsApart
<1> QED
  BY <1>1, <1>2, <1>6

\* The item that waits is in no row.
LEMMA NotWaiting ==
  ASSUME NEW h, NEW n \in Nat, ItemHeap(h, n), NEW s, NEW c, ItemRow(h, n, s, c),
         NEW q, q # NULL, Waits(h, n, q)
  PROVE  q \notin ToSet(Headed(s, c)) /\ s # YYVAL
<1>1. q \in 1..n /\ YYVAL \notin DOMAIN h /\ h[q].prev = YYVAL
  BY DEF Waits
<1>2. s \in DOMAIN h /\ h[s].prev = NULL /\ NULL # YYVAL /\ s # YYVAL
  BY <1>1, ItemNumbers DEF ItemRow
<1>3. IsRow(h, c) /\ (c # <<>> => h[c[1]].prev = s) /\ ToSet(Headed(s, c)) = {s} \cup ToSet(c)
  BY ItemRowIs
<1>4. q \notin ToSet(c)
  <2>1. SUFFICES ASSUME NEW i \in 1..Len(c), q = c[i] PROVE FALSE
    BY <1>3, RowFacts
  <2>2. CASE i = 1
    <3>1. c # <<>>
      <4>1. Len(c) # 0
        BY <2>1, <2>2
      <4> QED
        BY <1>3, <4>1, RowFacts
    <3> QED
      BY <1>1, <1>2, <1>3, <2>1, <2>2, <3>1
  <2>3. CASE i # 1
    <3>1. i \in 2..Len(c) /\ i - 1 \in 1..Len(c)
      BY <1>3, <2>1, <2>3, RowFacts
    <3>2. h[q].prev = c[i - 1] /\ c[i - 1] \in DOMAIN h
      BY <1>3, <2>1, <3>1, RowFacts
    <3> QED
      BY <1>1, <3>2
  <2> QED
    BY <2>2, <2>3
<1> QED
  BY <1>1, <1>2, <1>3, <1>4

\* A row of which no node is touched.
LEMMA OthersStay ==
  ASSUME NEW h, NEW n \in Nat, ItemHeap(h, n), NEW t, NEW d, ItemRow(h, n, t, d),
         NEW g, NEW m \in Nat, n <= m, NEW S, Untouched(h, g, S),
         ToSet(Headed(t, d)) \cap S = {}
  PROVE  ItemRow(g, m, t, d) /\ ColumnsIn(g, d) = ColumnsIn(h, d)
<1>1. /\ t \in Sequences /\ t \in DOMAIN h /\ h[t].prev = NULL
      /\ d \in Seq(1..n) /\ IsRow(h, Headed(t, d))
  BY DEF ItemRow
<1>2. ToSet(Headed(t, d)) \subseteq DOMAIN h /\ ToSet(Headed(t, d)) = {t} \cup ToSet(d) /\ d \in Seq(DOMAIN h)
  BY ItemRowIs
<1>3. \A x \in ToSet(Headed(t, d)) : x \in DOMAIN g /\ g[x] = h[x]
  BY <1>2 DEF Untouched
<1>4. IsRow(g, Headed(t, d))
  BY <1>1, <1>3, RowStays
<1>5. d \in Seq(1..m)
  <2>1. 1..n \subseteq 1..m
    OBVIOUS
  <2> QED
    BY <1>1, <2>1
<1>6. \A x \in ToSet(d) : g[x].column = h[x].column
  BY <1>2, <1>3
<1>7. ColumnsIn(g, d) = ColumnsIn(h, d)
  BY <1>2, <1>6, ColumnsStay
<1> QED
  BY <1>1, <1>2, <1>3, <1>4, <1>5, <1>7 DEF ItemRow

\* At most the row of s changes.
LEMMA RowsStep ==
  ASSUME NEW h, NEW n \in Nat, ItemHeap(h, n), Rows(h, n),
         NEW g, NEW m \in Nat, n <= m, NEW S, Untouched(h, g, S), NEW s,
         \A t \in Sequences : t \in DOMAIN g /\ t # s => t \in DOMAIN h,
         \A t, d : t # s /\ ItemRow(h, n, t, d) => ToSet(Headed(t, d)) \cap S = {},
         s \in DOMAIN g => \E c : ItemRow(g, m, s, c)
  PROVE  Rows(g, m)
<1>1. SUFFICES ASSUME NEW t \in Sequences, t \in DOMAIN g PROVE \E c : ItemRow(g, m, t, c)
  BY DEF Rows
<1>2. CASE t = s
  BY <1>1, <1>2
<1>3. CASE t # s
  <2>1. PICK d : ItemRow(h, n, t, d)
    BY <1>1, <1>3 DEF Rows
  <2>2. ToSet(Headed(t, d)) \cap S = {}
    BY <1>3, <2>1
  <2>3. ItemRow(g, m, t, d)
    BY <2>1, <2>2, OthersStay
  <2> QED
    BY <2>3
<1> QED
  BY <1>2, <1>3

\* What the heap, the rows and the item that waits are together.
HeapInv(h, n, q) == n \in 0..MaxNodes /\ ItemHeap(h, n) /\ Rows(h, n) /\ Waits(h, n, q)

LEMMA HeapInvIs ==
  ASSUME NEW h, NEW n, NEW q, HeapInv(h, n, q)
  PROVE  /\ n \in Nat /\ n <= MaxNodes /\ ItemHeap(h, n) /\ Rows(h, n) /\ Waits(h, n, q)
         /\ IsHeap(h) /\ DOMAIN h \subseteq (1..n) \cup Sequences
BY ItemNumbers DEF HeapInv, ItemHeap

\* Only nodes of the row of s are touched.
LEMMA OneRowChanges ==
  ASSUME NEW h, NEW n, NEW q, HeapInv(h, n, q), NEW s, NEW c, ItemRow(h, n, s, c),
         NEW g, NEW m \in 0..MaxNodes, n <= m, ItemHeap(g, m),
         Untouched(h, g, ToSet(Headed(s, c))),
         \A t \in Sequences : t \in DOMAIN g => t \in DOMAIN h,
         s \in DOMAIN g => \E d : ItemRow(g, m, s, d)
  PROVE  HeapInv(g, m, q)
<1>1. /\ n \in Nat /\ ItemHeap(h, n) /\ Rows(h, n) /\ Waits(h, n, q) /\ m \in Nat
  BY HeapInvIs, ItemNumbers
<1>2. PICK S : S = ToSet(Headed(s, c))
  OBVIOUS
<1>3. ASSUME NEW t, NEW d, t # s, ItemRow(h, n, t, d) PROVE ToSet(Headed(t, d)) \cap S = {}
  <2>1. ToSet(Headed(s, c)) \cap ToSet(Headed(t, d)) = {}
    BY <1>1, <1>3, ItemRowsApart
  <2> QED
    BY <1>2, <2>1
<1>4. Rows(g, m)
  BY <1>1, <1>2, <1>3, RowsStep
<1>5. Waits(g, m, q)
  <2>1. SUFFICES ASSUME q # NULL PROVE Waits(g, m, q)
    BY DEF Waits
  <2>2. q \notin S
    BY <1>1, <1>2, <2>1, NotWaiting
  <2>3. /\ q \in 1..n /\ q \in DOMAIN h /\ YYVAL \notin DOMAIN h
        /\ h[q].next = NULL /\ h[q].prev = YYVAL
    BY <1>1, <2>1 DEF Waits
  <2>4. q \in DOMAIN g /\ g[q] = h[q]
    BY <1>2, <2>2, <2>3 DEF Untouched
  <2>5. YYVAL \notin DOMAIN g
    BY <2>3, ItemNumbers
  <2>6. q \in 1..m
    BY <1>1, <2>3
  <2> QED
    BY <2>3, <2>4, <2>5, <2>6 DEF Waits
<1> QED
  BY <1>4, <1>5 DEF HeapInv

\* A row begins at s, where none was.
LEMMA OneRowMore ==
  ASSUME NEW h, NEW n, NEW q, HeapInv(h, n, q), NEW s, s \notin DOMAIN h,
         NEW g, NEW m \in 0..MaxNodes, n <= m, ItemHeap(g, m), Untouched(h, g, {}),
         \A t \in Sequences : t \in DOMAIN g => t \in DOMAIN h \/ t = s,
         NEW d, ItemRow(g, m, s, d)
  PROVE  Rows(g, m) /\ (s # YYVAL => HeapInv(g, m, q))
<1>1. /\ n \in Nat /\ ItemHeap(h, n) /\ Rows(h, n) /\ Waits(h, n, q) /\ m \in Nat
  BY HeapInvIs, ItemNumbers
<1>2. PICK S : S = {}
  OBVIOUS
<1>3. Untouched(h, g, S)
  BY <1>2
<1>4. \A t, b : t # s /\ ItemRow(h, n, t, b) => ToSet(Headed(t, b)) \cap S = {}
  BY <1>2
<1>5. Rows(g, m)
  BY <1>1, <1>3, <1>4, RowsStep
<1>6. ASSUME s # YYVAL, q # NULL PROVE Waits(g, m, q)
  <2>1. /\ q \in 1..n /\ q \in DOMAIN h /\ YYVAL \notin DOMAIN h
        /\ h[q].next = NULL /\ h[q].prev = YYVAL
    BY <1>1, <1>6 DEF Waits
  <2>2. q \in DOMAIN g /\ g[q] = h[q]
    BY <2>1 DEF Untouched
  <2>3. YYVAL \notin DOMAIN g
    BY <1>6, <2>1, ItemNumbers
  <2>4. q \in 1..m
    BY <1>1, <2>1
  <2> QED
    BY <2>1, <2>2, <2>3, <2>4 DEF Waits
<1>7. s # YYVAL => Waits(g, m, q)
  BY <1>6 DEF Waits
<1> QED
  BY <1>5, <1>7 DEF HeapInv

-----------------------------------------------------------------------------
(***************************************************************************)
(* How the operations on nodes change such a heap.                         *)
(***************************************************************************)
Tag(r, x) ==
  /\ IsNode(r) /\ "column" \in DOMAIN r /\ r.column \in Columns \cup {NULL}
  /\ r.column = NULL <=> x \in Sequences

LEMMA ItemHeapIs ==
  ASSUME NEW h, NEW n \in Nat, ItemHeap(h, n)
  PROVE  /\ IsHeap(h) /\ NULL \notin DOMAIN h /\ DOMAIN h \subseteq (1..n) \cup Sequences
         /\ \A x \in DOMAIN h : Tag(h[x], x)
BY DEF ItemHeap, IsHeap, Tagged, Tag

LEMMA ItemHeapIf ==
  ASSUME NEW g, NEW n \in Nat, IsHeap(g), DOMAIN g \subseteq (1..n) \cup Sequences,
         \A x \in DOMAIN g : Tag(g[x], x)
  PROVE  ItemHeap(g, n)
BY DEF ItemHeap, IsHeap, Tagged, Tag

LEMMA ItemTag ==
  ASSUME NEW c \in Columns \cup {NULL}, NEW x, c = NULL <=> x \in Sequences
  PROVE  /\ Tag(Item(c), x) /\ Item(c).next = NULL /\ Item(c).prev = NULL /\ Item(c).column = c
         /\ \A p : /\ Tag([Item(c) EXCEPT !.prev = p], x)
                   /\ [Item(c) EXCEPT !.prev = p].next = NULL
                   /\ [Item(c) EXCEPT !.prev = p].prev = p
                   /\ [Item(c) EXCEPT !.prev = p].column = c
BY DEF Item, Tag, IsNode

LEMMA BetweenTag ==
  ASSUME NEW r, NEW x, Tag(r, x), NEW a, NEW b
  PROVE  Tag(Between(r, a, b), x) /\ Between(r, a, b).column = r.column
<1>1. IsNode(r) /\ "column" \in DOMAIN r \ {"next", "prev"}
  BY DEF Tag
<1>2. Between(r, a, b)["column"] = r["column"]
  BY <1>1, BetweenKeeps
<1>3. DOMAIN Between(r, a, b) = DOMAIN r /\ IsNode(Between(r, a, b))
  BY <1>1, BetweenIs
<1> QED
  BY <1>2, <1>3 DEF Tag

LEMMA WithItem ==
  ASSUME NEW h, NEW n \in Nat, ItemHeap(h, n), NEW m \in Nat, n <= m,
         NEW x \in (1..m) \cup Sequences, x \notin DOMAIN h, NEW r, Tag(r, x)
  PROVE  /\ ItemHeap(With(h, x, r), m) /\ Untouched(h, With(h, x, r), {})
         /\ DOMAIN With(h, x, r) = DOMAIN h \cup {x} /\ With(h, x, r)[x] = r
<1>1. /\ IsHeap(h) /\ DOMAIN h \subseteq (1..n) \cup Sequences /\ x # NULL /\ IsNode(r)
      /\ \A y \in DOMAIN h : Tag(h[y], y)
  BY ItemHeapIs, ItemNumbers DEF Tag
<1>2. PICK w : w = With(h, x, r)
  OBVIOUS
<1>3. /\ IsHeap(w) /\ DOMAIN w = DOMAIN h \cup {x} /\ w[x] = r
      /\ \A y \in DOMAIN h : y # x => w[y] = h[y]
  <2>1. IsHeap(With(h, x, r)) /\ DOMAIN With(h, x, r) = DOMAIN h \cup {x}
    BY <1>1, WithIs
  <2>2. w[x] = r /\ \A y \in DOMAIN h : y # x => w[y] = h[y]
    BY <1>2 DEF With
  <2> QED
    BY <1>2, <2>1, <2>2
<1>4. \A y \in DOMAIN h : w[y] = h[y]
  BY <1>3
<1>5. \A y \in DOMAIN w : Tag(w[y], y)
  BY <1>1, <1>3, <1>4
<1>6. DOMAIN w \subseteq (1..m) \cup Sequences
  BY <1>1, <1>3
<1>7. ItemHeap(w, m)
  BY <1>3, <1>5, <1>6, ItemHeapIf
<1> QED
  BY <1>2, <1>3, <1>4, <1>7 DEF Untouched

LEMMA FreeItem ==
  ASSUME NEW h, NEW n \in Nat, ItemHeap(h, n), NEW S
  PROVE  /\ ItemHeap(Free(h, S), n) /\ Untouched(h, Free(h, S), S)
         /\ DOMAIN Free(h, S) = DOMAIN h \ S
<1>1. /\ IsHeap(h) /\ DOMAIN h \subseteq (1..n) \cup Sequences
      /\ \A y \in DOMAIN h : Tag(h[y], y)
  BY ItemHeapIs
<1>2. PICK g : g = Free(h, S)
  OBVIOUS
<1>3. IsHeap(g) /\ DOMAIN g = DOMAIN h \ S /\ \A x \in DOMAIN h \ S : g[x] = h[x]
  BY <1>1, <1>2, FreeIs
<1>4. \A x \in DOMAIN g : Tag(g[x], x)
  BY <1>1, <1>3
<1>5. DOMAIN g \subseteq (1..n) \cup Sequences
  BY <1>1, <1>3
<1>6. ItemHeap(g, n)
  BY <1>3, <1>4, <1>5, ItemHeapIf
<1> QED
  BY <1>2, <1>3, <1>6 DEF Untouched

LEMMA JoinedItems ==
  ASSUME NEW h, NEW n \in Nat, ItemHeap(h, n), NEW a \in DOMAIN h, NEW b \in DOMAIN h
  PROVE  /\ ItemHeap(Joined(h, a, b), n) /\ Untouched(h, Joined(h, a, b), {a, b})
         /\ DOMAIN Joined(h, a, b) = DOMAIN h
         /\ \A x \in DOMAIN h : Joined(h, a, b)[x].column = h[x].column
<1>1. /\ IsHeap(h) /\ DOMAIN h \subseteq (1..n) \cup Sequences
      /\ \A y \in DOMAIN h : Tag(h[y], y)
  BY ItemHeapIs
<1>2. PICK g : g = Joined(h, a, b)
  OBVIOUS
<1>3. IsHeap(g) /\ DOMAIN g = DOMAIN h
  BY <1>1, <1>2, JoinedHeap
<1>4. ASSUME NEW x \in DOMAIN h
      PROVE  Tag(g[x], x) /\ g[x].column = h[x].column /\ (x \notin {a, b} => g[x] = h[x])
  <2>1. PICK p : p = IF x = a THEN b ELSE h[x].next
    OBVIOUS
  <2>2. PICK q : q = IF x = b THEN a ELSE h[x].prev
    OBVIOUS
  <2>3. /\ Joined(h, a, b)[x] = Between(h[x], IF x = a THEN b ELSE h[x].next,
                                              IF x = b THEN a ELSE h[x].prev)
        /\ x # a /\ x # b => Joined(h, a, b)[x] = h[x]
    BY <1>1, JoinedAt
  <2>4. g[x] = Between(h[x], p, q)
    BY <1>2, <2>1, <2>2, <2>3
  <2>5. Tag(g[x], x) /\ g[x].column = h[x].column
    BY <1>1, <2>4, BetweenTag
  <2> QED
    BY <1>2, <2>3, <2>5
<1>5. ItemHeap(g, n)
  BY <1>1, <1>3, <1>4, ItemHeapIf
<1> QED
  BY <1>2, <1>3, <1>4, <1>5 DEF Untouched

LEMMA CutItem ==
  ASSUME NEW h, NEW n \in Nat, ItemHeap(h, n), NEW y \in DOMAIN h
  PROVE  /\ ItemHeap(Cut(h, y), n) /\ Untouched(h, Cut(h, y), {y, h[y].next, h[y].prev})
         /\ DOMAIN Cut(h, y) = DOMAIN h \ {y}
         /\ \A x \in DOMAIN h \ {y} : Cut(h, y)[x].column = h[x].column
<1>1. /\ IsHeap(h) /\ DOMAIN h \subseteq (1..n) \cup Sequences
      /\ \A x \in DOMAIN h : Tag(h[x], x)
  BY ItemHeapIs
<1>2. PICK g : g = Cut(h, y)
  OBVIOUS
<1>3. IsHeap(g) /\ DOMAIN g = DOMAIN h \ {y}
  BY <1>1, <1>2, CutHeap
<1>4. ASSUME NEW x \in DOMAIN h \ {y}
      PROVE  /\ Tag(g[x], x) /\ g[x].column = h[x].column
             /\ x # h[y].prev /\ x # h[y].next => g[x] = h[x]
  <2>1. PICK p : p = IF x = h[y].prev THEN h[y].next ELSE h[x].next
    OBVIOUS
  <2>2. PICK q : q = IF x = h[y].next THEN h[y].prev ELSE h[x].prev
    OBVIOUS
  <2>3. /\ Cut(h, y)[x] = Between(h[x], IF x = h[y].prev THEN h[y].next ELSE h[x].next,
                                        IF x = h[y].next THEN h[y].prev ELSE h[x].prev)
        /\ x # h[y].prev /\ x # h[y].next => Cut(h, y)[x] = h[x]
    BY <1>1, CutAt
  <2>4. g[x] = Between(h[x], p, q)
    BY <1>2, <2>1, <2>2, <2>3
  <2>5. Tag(g[x], x) /\ g[x].column = h[x].column
    BY <1>1, <2>4, BetweenTag
  <2> QED
    BY <1>2, <2>3, <2>5
<1>5. ItemHeap(g, n)
  <2>1. DOMAIN g \subseteq (1..n) \cup Sequences /\ \A x \in DOMAIN g : Tag(g[x], x)
    BY <1>1, <1>3, <1>4
  <2> QED
    BY <1>3, <2>1, ItemHeapIf
<1> QED
  BY <1>2, <1>3, <1>4, <1>5 DEF Untouched

\* The columns of a row.
LEMMA ColumnsIs ==
  ASSUME NEW h, NEW n \in Nat, ItemHeap(h, n), NEW s, NEW c, ItemRow(h, n, s, c)
  PROVE  /\ ColumnsIn(h, c) \in Seq(Columns) /\ Len(ColumnsIn(h, c)) = Len(c)
         /\ \A i \in 1..Len(c) : /\ ColumnsIn(h, c)[i] = h[c[i]].column
                                 /\ h[c[i]].column \in Columns /\ h[c[i]].column # NULL
         /\ h[s].column = NULL
<1>1. c \in Seq(DOMAIN h) /\ ToSet(c) \subseteq 1..n /\ ToSet(c) \subseteq DOMAIN h
  BY ItemRowIs
<1>2. \A x \in 1..n : x \notin Sequences
  BY ItemNumbers
<1>3. \A x \in ToSet(c) : h[x]["column"] \in Columns /\ h[x].column # NULL
  BY <1>1, <1>2, ItemHeapIs DEF Tag
<1>4. \A x \in ToSet(c) : h[x]["column"] \in Columns
  BY <1>3
<1>6. /\ ColumnsIn(h, c) \in Seq(Columns) /\ Len(ColumnsIn(h, c)) = Len(c)
      /\ \A i \in 1..Len(c) : ColumnsIn(h, c)[i] = h[c[i]].column
  <2>1. ColumnsIn(h, c) \in Seq(Columns) /\ Len(ColumnsIn(h, c)) = Len(c)
    BY <1>1, <1>4, FieldsAre DEF ColumnsIn
  <2>2. \A i \in DOMAIN c : ColumnsIn(h, c)[i] = h[c[i]].column
    BY DEF ColumnsIn, Fields
  <2>3. DOMAIN c = 1..Len(c)
    BY <1>1
  <2> QED
    BY <2>1, <2>2, <2>3
<1>7. \A i \in 1..Len(c) : c[i] \in ToSet(c)
  BY <1>1 DEF ToSet
<1>8. h[s].column = NULL
  BY ItemHeapIs DEF ItemRow, Tag
<1> QED
  BY <1>3, <1>6, <1>7, <1>8

\* No column changes; no sequence is made.
SameColumns(h, g) == \A x \in DOMAIN h : g[x].column = h[x].column
SameSequences(h, g) == \A t \in Sequences : t \in DOMAIN g => t \in DOMAIN h

\* A node that is in no row is put behind the row of s.
LEMMA JoinItem ==
  ASSUME NEW h, NEW n \in Nat, ItemHeap(h, n), NEW s, NEW c, ItemRow(h, n, s, c),
         NEW f \in 1..n, f \in DOMAIN h, f \notin ToSet(Headed(s, c)), h[f].next = NULL,
         NEW g, g = listNodeAppend(h, s, f)
  PROVE  /\ ItemHeap(g, n) /\ SameSequences(h, g)
         /\ Untouched(h, g, ToSet(Headed(s, c)) \cup {f})
         /\ ItemRow(g, n, s, Append(c, f))
         /\ SameColumns(h, g)
<1>1. /\ IsHeap(h) /\ s \in Sequences /\ s \in DOMAIN h /\ h[s].prev = NULL
      /\ c \in Seq(1..n) /\ IsRow(h, Headed(s, c)) /\ c \in Seq(DOMAIN h)
  BY ItemHeapIs, ItemRowIs DEF ItemRow
<1>2. PICK b : b = Headed(s, c)
  OBVIOUS
<1>3. PICK d : d = <<f>>
  OBVIOUS
<1>4. b # <<>> /\ b[1] = s /\ IsRow(h, b) /\ Len(b) = Len(c) + 1
  <2>1. Headed(s, c) # <<>> /\ Headed(s, c)[1] = s /\ Len(Headed(s, c)) = Len(c) + 1
    BY <1>1, HeadedIs
  <2> QED
    BY <1>1, <1>2, <2>1
<1>5. IsRow(h, d) /\ ToSet(d) = {f} /\ d # <<>> /\ d[1] = f
  BY <1>3, OneRow
<1>6. /\ Last(b) \in ToSet(b) /\ Last(b) # d[1]
      /\ listNodeAppend(h, b[1], d[1]) = Joined(h, Last(b), d[1])
      /\ IsRow(Joined(h, Last(b), d[1]), b \o d)
  <2>1. ToSet(b) \cap ToSet(d) = {}
    BY <1>2, <1>5
  <2> QED
    BY <1>1, <1>4, <1>5, <2>1, RowsJoin
<1>7. PICK a : a = Last(b)
  OBVIOUS
<1>8. /\ g = Joined(h, a, f) /\ a \in ToSet(b) /\ a # f /\ IsRow(g, b \o d) /\ a \in DOMAIN h
  <2>1. ToSet(b) \subseteq DOMAIN h
    BY <1>4, RowFacts
  <2> QED
    BY <1>4, <1>5, <1>6, <1>7, <2>1
<1>9. /\ ItemHeap(g, n) /\ Untouched(h, g, {a, f}) /\ DOMAIN g = DOMAIN h
      /\ \A x \in DOMAIN h : g[x].column = h[x].column
  BY <1>8, JoinedItems
<1>10. Append(c, f) = c \o d /\ Append(c, f) \in Seq(1..n)
  <2>1. f \in 1..n /\ c \in Seq(1..n)
    BY <1>1
  <2> QED
    BY <1>3, <2>1, AppendIsConcat, AppendProperties
<1>11. b \o d = Headed(s, Append(c, f))
  <2>1. PICK D : D = DOMAIN h
    OBVIOUS
  <2>2. <<s>> \in Seq(D) /\ c \in Seq(D) /\ d \in Seq(D)
    BY <1>1, <1>3, <2>1
  <2>3. (<<s>> \o c) \o d = <<s>> \o (c \o d)
    BY <2>2, ConcatAssociative
  <2> QED
    BY <1>2, <1>10, <2>3 DEF Headed
<1>12. g[s].prev = NULL
  <2>1. s # f
    BY <1>1, ItemNumbers
  <2>2. Joined(h, a, f)[s].prev = IF s = f THEN a ELSE h[s].prev
    BY <1>1, JoinedAt
  <2> QED
    BY <1>1, <1>8, <2>1, <2>2
<1>13. ItemRow(g, n, s, Append(c, f))
  BY <1>1, <1>8, <1>9, <1>10, <1>11, <1>12 DEF ItemRow
<1>14. Untouched(h, g, ToSet(Headed(s, c)) \cup {f})
  BY <1>2, <1>8, <1>9 DEF Untouched
<1> QED
  BY <1>9, <1>13, <1>14 DEF SameColumns, SameSequences

\* Its column is put behind those of s.
LEMMA JoinColumns ==
  ASSUME NEW h, NEW n \in Nat, ItemHeap(h, n), NEW s, NEW c, ItemRow(h, n, s, c),
         NEW f \in 1..n, f \in DOMAIN h, NEW v, v = h[f].column,
         NEW g, SameColumns(h, g)
  PROVE  ColumnsIn(g, Append(c, f)) = Append(ColumnsIn(h, c), v)
<1>1. c \in Seq(DOMAIN h) /\ <<f>> \in Seq(DOMAIN h)
  BY ItemRowIs
<1>2. ColumnsIn(g, c \o <<f>>) = ColumnsIn(g, c) \o ColumnsIn(g, <<f>>)
  BY <1>1, ColumnsJoin, Zenon
<1>3. ColumnsIn(g, c) = ColumnsIn(h, c)
  <2>1. ToSet(c) \subseteq DOMAIN h
    BY <1>1 DEF ToSet
  <2>2. \A x \in ToSet(c) : g[x].column = h[x].column
    BY <2>1 DEF SameColumns
  <2> QED
    BY <1>1, <2>2, ColumnsStay
<1>4. ColumnsIn(g, <<f>>) = <<g[f].column>>
  BY ColumnsOfOne
<1>5. PICK t \in Seq(Columns) : t = ColumnsIn(h, c)
  BY ColumnsIs
<1>6. ColumnsIn(g, c \o <<f>>) = t \o <<v>>
  BY <1>2, <1>3, <1>4, <1>5 DEF SameColumns
<1>7. t \o <<v>> = Append(t, v) /\ c \o <<f>> = Append(c, f)
  BY <1>1, <1>5, AppendIsConcat
<1> QED
  BY <1>5, <1>6, <1>7

LEMMA LeastIs ==
  ASSUME NEW S \in SUBSET Nat, S # {}
  PROVE  Min(S) \in S /\ \A y \in S : Min(S) <= y
<1>1. PICK x \in S : \A y \in S : x <= y
  BY LeastNat
<1> QED
  BY <1>1 DEF Min

LEMMA RemoveFirstIs ==
  ASSUME NEW X, NEW t \in Seq(X), NEW e
  PROVE  LET J == {j \in 1..Len(t) : t[j] = e}
         IN  /\ e \in ToSet(t) <=> J # {}
             /\ RemoveFirst(t, e) = IF J = {} THEN t ELSE RemoveAt(t, Min(J))
<1>1. PICK J : J = {j \in 1..Len(t) : t[j] = e}
  OBVIOUS
<1>2. DOMAIN t = 1..Len(t)
  OBVIOUS
<1>3. e \in ToSet(t) <=> J # {}
  BY <1>1, <1>2 DEF ToSet
<1>4. SelectInSeq(t, LAMBDA v : v = e) = IF J # {} THEN Min(J) ELSE 0
  BY <1>1 DEF SelectInSeq
<1>5. J # {} <=> \E i \in 1..Len(t) : t[i] = e
  BY <1>1
<1>6. RemoveFirst(t, e) = IF J = {} THEN t ELSE RemoveAt(t, Min(J))
  BY <1>4, <1>5 DEF RemoveFirst
<1> QED
  BY <1>1, <1>3, <1>6

\* The search for a column passes over the head of the row.
LEMMA SearchIs ==
  ASSUME NEW h, NEW n \in Nat, ItemHeap(h, n), NEW s, NEW c, ItemRow(h, n, s, c),
         NEW e \in Columns, NEW r, r = listNodeSearch(h, s, [x \in DOMAIN h |-> h[x].column = e])
  PROVE  \/ /\ r = NULL /\ e \notin ToSet(ColumnsIn(h, c))
            /\ RemoveFirst(ColumnsIn(h, c), e) = ColumnsIn(h, c)
         \/ /\ e \in ToSet(ColumnsIn(h, c)) /\ r # NULL
            /\ \E j \in 1..Len(c) : /\ r = c[j]
                                    /\ RemoveFirst(ColumnsIn(h, c), e) = RemoveAt(ColumnsIn(h, c), j)
<1>1. PICK b : b = Headed(s, c)
  OBVIOUS
<1>2. PICK k \in Nat : k = Len(c)
  BY ItemRowIs
<1>3. PICK t \in Seq(Columns) : t = ColumnsIn(h, c) /\ Len(t) = k
  BY <1>2, ColumnsIs
<1>4. /\ Chain(h, s) = b /\ s \in DOMAIN h /\ c \in Seq(DOMAIN h) /\ h[s].column = NULL
      /\ NULL \notin DOMAIN h /\ \A i \in 1..k : t[i] = h[c[i]].column
  BY <1>1, <1>2, <1>3, ItemRowIs, ColumnsIs, ItemHeapIs DEF ItemRow
<1>5. /\ DOMAIN b = 1..(k + 1) /\ b[1] = s /\ \A i \in 1..k : b[i + 1] = c[i]
  <2>1. Headed(s, c) \in Seq(DOMAIN h) /\ Len(Headed(s, c)) = Len(c) + 1 /\ Headed(s, c)[1] = s
    BY <1>4, HeadedIs
  <2>2. \A i \in 1..Len(c) : Headed(s, c)[i + 1] = c[i]
    BY <1>4, HeadedIs
  <2>3. b \in Seq(DOMAIN h) /\ Len(b) = k + 1 /\ b[1] = s
    BY <1>1, <1>2, <2>1
  <2>4. DOMAIN b = 1..(k + 1)
    BY <2>3
  <2> QED
    BY <1>1, <1>2, <2>2, <2>3, <2>4
<1>6. \A i \in 1..k : c[i] \in DOMAIN h
  BY <1>2, <1>4
<1>7. PICK F : F = {i \in 1..(k + 1) : h[b[i]].column = e}
  OBVIOUS
<1>8. r = IF F = {} THEN NULL ELSE b[Min(F)]
  <2>1. PICK cmp : cmp = [x \in DOMAIN h |-> h[x].column = e]
    OBVIOUS
  <2>2. \A i \in 1..(k + 1) : b[i] \in DOMAIN h
    <3>1. \A i \in 1..(k + 1) : i = 1 \/ (i - 1 \in 1..k /\ (i - 1) + 1 = i)
      OBVIOUS
    <3> QED
      BY <1>4, <1>5, <1>6, <3>1
  <2>3. {i \in DOMAIN b : cmp[b[i]]} = F
    BY <1>5, <1>7, <2>1, <2>2
  <2> QED
    BY <1>4, <2>1, <2>3 DEF listNodeSearch
<1>9. PICK J : J = {j \in 1..k : t[j] = e}
  OBVIOUS
<1>10. F = {j + 1 : j \in J}
  <2>1. ASSUME NEW i \in F PROVE i \in {j + 1 : j \in J}
    <3>1. i # 1
      BY <1>4, <1>5, <1>7, <2>1, ItemNumbers
    <3>2. i - 1 \in 1..k /\ (i - 1) + 1 = i
      BY <1>7, <2>1, <3>1
    <3>3. b[i] = c[i - 1]
      BY <1>5, <3>2
    <3>4. i - 1 \in J
      BY <1>4, <1>7, <1>9, <2>1, <3>2, <3>3
    <3> QED
      BY <3>2, <3>4
  <2>2. ASSUME NEW j \in J PROVE j + 1 \in F
    <3>1. j \in 1..k /\ j + 1 \in 1..(k + 1)
      BY <1>9
    <3> QED
      BY <1>4, <1>5, <1>7, <1>9, <2>2, <3>1
  <2> QED
    BY <2>1, <2>2
<1>11. /\ e \in ToSet(t) <=> J # {}
       /\ RemoveFirst(t, e) = IF J = {} THEN t ELSE RemoveAt(t, Min(J))
  <2>1. LET I == {j \in 1..Len(t) : t[j] = e}
        IN  /\ e \in ToSet(t) <=> I # {}
            /\ RemoveFirst(t, e) = IF I = {} THEN t ELSE RemoveAt(t, Min(I))
    BY RemoveFirstIs
  <2>2. {j \in 1..Len(t) : t[j] = e} = J
    BY <1>3, <1>9
  <2> QED
    BY <2>1, <2>2
<1>12. CASE J = {}
  BY <1>3, <1>8, <1>10, <1>11, <1>12
<1>13. CASE J # {}
  <2>1. PICK m : m = Min(J)
    OBVIOUS
  <2>2. m \in J /\ m \in 1..k /\ \A y \in J : m <= y
    <3>1. J \in SUBSET Nat
      BY <1>9
    <3>2. m \in J /\ \A y \in J : m <= y
      BY <1>13, <2>1, <3>1, LeastIs
    <3> QED
      BY <1>9, <3>2
  <2>3. PICK p : p = Min(F)
    OBVIOUS
  <2>4. p \in F /\ \A y \in F : p <= y
    <3>1. F \in SUBSET Nat /\ F # {}
      BY <1>7, <1>10, <1>13, SMTT(30)
    <3> QED
      BY <2>3, <3>1, LeastIs
  <2>5. p = m + 1
    <3>1. PICK j \in J : p = j + 1
      BY <1>10, <2>4
    <3>2. j \in 1..k /\ m <= j
      BY <1>9, <2>2
    <3>3. m + 1 \in F
      BY <1>10, <2>2
    <3>4. p <= m + 1
      BY <2>4, <3>3
    <3> QED
      BY <2>2, <3>1, <3>2, <3>4
  <2>6. r = c[m]
    BY <1>5, <1>8, <1>10, <1>13, <2>2, <2>3, <2>5
  <2>7. r # NULL /\ m \in 1..Len(c)
    BY <1>2, <1>4, <1>6, <2>2, <2>6
  <2> QED
    BY <1>3, <1>11, <1>13, <2>1, <2>6, <2>7
<1> QED
  BY <1>12, <1>13

LEMMA HeadedCut ==
  ASSUME NEW D, NEW s \in D, NEW c \in Seq(D), NEW j \in 1..Len(c)
  PROVE  RemoveAt(Headed(s, c), j + 1) = Headed(s, RemoveAt(c, j))
<1>1. PICK k \in Nat : k = Len(c) /\ j \in 1..k /\ k - 1 \in Nat
  OBVIOUS
<1>2. PICK b \in Seq(D) : /\ b = Headed(s, c) /\ Len(b) = k + 1 /\ b[1] = s
                          /\ \A i \in 1..k : b[i + 1] = c[i]
  BY <1>1, HeadedIs
<1>3. PICK d \in Seq(D) : /\ d = RemoveAt(c, j) /\ Len(d) = k - 1
                          /\ \A p \in 1..(k - 1) : d[p] = IF p < j THEN c[p] ELSE c[p + 1]
  BY <1>1, RemoveAtIs
<1>4. PICK a \in Seq(D) : /\ a = Headed(s, d) /\ Len(a) = k /\ a[1] = s
                          /\ \A i \in 1..(k - 1) : a[i + 1] = d[i]
  <2>1. /\ Headed(s, d) \in Seq(D) /\ Len(Headed(s, d)) = Len(d) + 1 /\ Headed(s, d)[1] = s
        /\ \A i \in 1..Len(d) : Headed(s, d)[i + 1] = d[i]
    <3>1. s \in D /\ d \in Seq(D)
      OBVIOUS
    <3>2. Headed(s, d) \in Seq(D) /\ Len(Headed(s, d)) = Len(d) + 1 /\ Headed(s, d)[1] = s
      BY <3>1, HeadedIs
    <3>3. \A i \in 1..Len(d) : Headed(s, d)[i + 1] = d[i]
      BY <3>1, HeadedIs
    <3> QED
      BY <3>2, <3>3
  <2> QED
    BY <1>1, <1>3, <2>1
<1>5. PICK q \in 1..Len(b) : q = j + 1
  BY <1>1, <1>2
<1>6. PICK e \in Seq(D) : /\ e = RemoveAt(b, q) /\ Len(e) = k
                          /\ \A p \in 1..k : e[p] = IF p < q THEN b[p] ELSE b[p + 1]
  <2>1. /\ RemoveAt(b, q) \in Seq(D) /\ Len(RemoveAt(b, q)) = Len(b) - 1
        /\ \A p \in 1..(Len(b) - 1) : RemoveAt(b, q)[p] = IF p < q THEN b[p] ELSE b[p + 1]
    BY <1>2, RemoveAtIs
  <2> QED
    BY <1>1, <1>2, <2>1
<1>7. ASSUME NEW p \in 1..k PROVE e[p] = a[p]
  <2>1. CASE p = 1
    <3>1. 1 < q
      BY <1>1, <1>5
    <3> QED
      BY <1>1, <1>2, <1>4, <1>6, <2>1, <3>1
  <2>2. CASE p # 1
    <3>1. PICK i \in 1..(k - 1) : p = i + 1 /\ i \in 1..k
      <4>1. p - 1 \in 1..(k - 1) /\ p = (p - 1) + 1 /\ p - 1 \in 1..k
        BY <1>1, <2>2
      <4> QED
        BY <4>1
    <3>2. a[p] = IF i < j THEN c[i] ELSE c[i + 1]
      BY <1>3, <1>4, <3>1
    <3>3. b[p] = c[i]
      BY <1>2, <3>1
    <3>4. i + 1 \in 1..k
      BY <1>1, <3>1
    <3>5. b[p + 1] = c[i + 1]
      BY <1>2, <3>1, <3>4
    <3>6. p < q <=> i < j
      BY <1>5, <3>1
    <3> QED
      BY <1>6, <3>2, <3>3, <3>5, <3>6
  <2> QED
    BY <2>1, <2>2
<1>8. e = a
  <2>1. e = [p \in 1..k |-> e[p]] /\ a = [p \in 1..k |-> a[p]]
    BY <1>4, <1>6
  <2> QED
    BY <1>7, <2>1
<1> QED
  BY <1>2, <1>3, <1>4, <1>5, <1>6, <1>8

\* The row of s in a heap has these columns.
RowOf(h, n, s, t) == \E c : ItemRow(h, n, s, c) /\ ColumnsIn(h, c) = t

\* An item is taken out of the row of s.
LEMMA CutItemRow ==
  ASSUME NEW h, NEW n \in Nat, ItemHeap(h, n), NEW s, NEW c, ItemRow(h, n, s, c),
         NEW j \in 1..Len(c), NEW g, g = Free(listNodeDelete(h, c[j]), {c[j]})
  PROVE  /\ ItemHeap(g, n) /\ SameSequences(h, g)
         /\ Untouched(h, g, ToSet(Headed(s, c)))
         /\ RowOf(g, n, s, RemoveAt(ColumnsIn(h, c), j))
<1>1. /\ IsHeap(h) /\ NULL \notin DOMAIN h /\ s \in Sequences /\ s \in DOMAIN h /\ h[s].prev = NULL
      /\ c \in Seq(1..n) /\ IsRow(h, Headed(s, c)) /\ c \in Seq(DOMAIN h) /\ IsRow(h, c)
  BY ItemHeapIs, ItemRowIs DEF ItemRow
<1>2. PICK b : b = Headed(s, c)
  OBVIOUS
<1>3. PICK k \in Nat : k = Len(c) /\ j \in 1..k
  BY <1>1
<1>4. PICK q \in 1..(k + 1) : q = j + 1
  BY <1>3
<1>5. /\ IsRow(h, b) /\ Len(b) = k + 1 /\ b[1] = s /\ b[q] = c[j]
  <2>1. Len(Headed(s, c)) = Len(c) + 1 /\ Headed(s, c)[1] = s
    BY <1>1, HeadedIs
  <2>2. \A i \in 1..Len(c) : Headed(s, c)[i + 1] = c[i]
    BY <1>1, HeadedIs
  <2> QED
    BY <1>1, <1>2, <1>3, <1>4, <2>1, <2>2
<1>6. PICK y : y = c[j]
  OBVIOUS
<1>7. /\ y \in DOMAIN h /\ IsRow(Cut(h, y), RemoveAt(b, q))
      /\ Cut(h, y)[RemoveAt(b, q)[1]].prev = NULL
      /\ h[y].prev \in ToSet(b) \cup {NULL} /\ h[y].next \in ToSet(b) \cup {NULL}
  <2>1. q \in 1..Len(b) /\ h[b[1]].prev = NULL /\ Len(b) > 1
    BY <1>1, <1>3, <1>4, <1>5
  <2>2. IsHeap(h) /\ IsRow(h, b)
    BY <1>1, <1>5
  <2>3. b[q] \in DOMAIN h /\ IsRow(Cut(h, b[q]), RemoveAt(b, q))
    BY <2>1, <2>2, RowCut, Z3
  <2>4. Len(b) > 1 => Cut(h, b[q])[RemoveAt(b, q)[1]].prev = NULL
    BY <2>1, <2>2, RowCut, Z3
  <2>5. h[b[q]].prev \in ToSet(b) \cup {NULL} /\ h[b[q]].next \in ToSet(b) \cup {NULL}
    BY <2>1, <2>2, RowCut, Z3
  <2> QED
    BY <1>5, <1>6, <2>1, <2>3, <2>4, <2>5
<1>8. g = Cut(h, y)
  BY <1>1, <1>6, <1>7, CutIs
<1>9. /\ ItemHeap(g, n) /\ Untouched(h, g, {y, h[y].next, h[y].prev})
      /\ DOMAIN g = DOMAIN h \ {y}
      /\ \A x \in DOMAIN h \ {y} : g[x].column = h[x].column
  <2>1. y \in DOMAIN h
    BY <1>7
  <2>2. ItemHeap(Cut(h, y), n) /\ Untouched(h, Cut(h, y), {y, h[y].next, h[y].prev})
    BY <2>1, CutItem
  <2>3. /\ DOMAIN Cut(h, y) = DOMAIN h \ {y}
        /\ \A x \in DOMAIN h \ {y} : Cut(h, y)[x].column = h[x].column
    BY <2>1, CutItem
  <2> QED
    BY <1>8, <2>2, <2>3
<1>10. Untouched(h, g, ToSet(b))
  <2>1. y \in ToSet(b)
    <3>1. DOMAIN b = 1..(k + 1)
      BY <1>5, RowFacts
    <3> QED
      BY <1>5, <1>6, <3>1 DEF ToSet
  <2> QED
    BY <1>1, <1>7, <1>9, <2>1 DEF Untouched
<1>11. PICK d : d = RemoveAt(c, j)
  OBVIOUS
<1>12. d \in Seq(1..n)
  BY <1>1, <1>11, RemoveAtIs
<1>13. RemoveAt(b, q) = Headed(s, d)
  BY <1>1, <1>2, <1>4, <1>11, HeadedCut
<1>14. s # y /\ s \in DOMAIN g /\ g[s].prev = NULL
  <2>1. y \in 1..n
    BY <1>1, <1>3, <1>6
  <2>2. s # y
    BY <1>1, <2>1, ItemNumbers
  <2>3. Headed(s, d)[1] = s
    <3>1. PICK D : D = (1..n) \cup {s}
      OBVIOUS
    <3>2. 1..n \subseteq D
      BY <3>1
    <3>3. s \in D /\ d \in Seq(D)
      BY <1>12, <3>1, <3>2
    <3> QED
      BY <3>3, HeadedIs
  <2> QED
    BY <1>1, <1>7, <1>8, <1>9, <1>13, <2>2, <2>3
<1>15. ItemRow(g, n, s, d)
  BY <1>1, <1>7, <1>8, <1>12, <1>13, <1>14 DEF ItemRow
<1>16. ColumnsIn(g, d) = RemoveAt(ColumnsIn(h, c), j)
  <2>1. ColumnsIn(h, d) = RemoveAt(ColumnsIn(h, c), j)
    BY <1>1, <1>11, ColumnsCut
  <2>2. d \in Seq(DOMAIN g) /\ ToSet(d) \subseteq DOMAIN g
    BY <1>9, <1>15, ItemRowIs
  <2>3. \A x \in ToSet(d) : g[x].column = h[x].column
    BY <1>9, <2>2
  <2>4. ColumnsIn(g, d) = ColumnsIn(h, d)
    BY <2>2, <2>3, ColumnsStay
  <2> QED
    BY <2>1, <2>4
<1>17. RowOf(g, n, s, RemoveAt(ColumnsIn(h, c), j))
  BY <1>15, <1>16 DEF RowOf
<1>18. SameSequences(h, g)
  BY <1>9 DEF SameSequences
<1> QED
  BY <1>2, <1>9, <1>10, <1>17, <1>18

\* Copies of the columns t, behind a head that had no items.
CopiesBehind(n, k, t, s) ==
  [i \in (n + 1)..(n + k) |->
     [column |-> t[i - n], next |-> IF i = n + k THEN NULL ELSE i + 1,
      prev |-> IF i = n + 1 THEN s ELSE i - 1]]
HeapWithCopies(h, n, k, t, s) ==
  [a \in DOMAIN h \cup DOMAIN CopiesBehind(n, k, t, s) |->
     IF a \in DOMAIN CopiesBehind(n, k, t, s) THEN CopiesBehind(n, k, t, s)[a]
     ELSE IF a = s THEN [h[s] EXCEPT !.next = n + 1] ELSE h[a]]

LEMMA CopiedRow ==
  ASSUME NEW h, NEW n \in Nat, ItemHeap(h, n), NEW s, ItemRow(h, n, s, <<>>),
         NEW k \in Nat, k # 0, NEW t \in Seq(Columns), Len(t) = k,
         NEW g, g = HeapWithCopies(h, n, k, t, s)
  PROVE  /\ ItemHeap(g, n + k) /\ Untouched(h, g, {s}) /\ SameSequences(h, g)
         /\ RowOf(g, n + k, s, t)
<1>1. PICK w : w = CopiesBehind(n, k, t, s)
  OBVIOUS
<1>2. PICK m \in Nat : m = n + k /\ n <= m
  OBVIOUS
<1>3. DOMAIN w = (n + 1)..m
  BY <1>1, <1>2 DEF CopiesBehind
<1>4. /\ IsHeap(h) /\ DOMAIN h \subseteq (1..n) \cup Sequences
      /\ s \in Sequences /\ s \in DOMAIN h /\ h[s].prev = NULL
      /\ \A x \in DOMAIN h : Tag(h[x], x)
  BY ItemHeapIs DEF ItemRow
<1>5. \A x \in (n + 1)..m : x \notin DOMAIN h /\ x \notin Sequences /\ x # NULL /\ x \in 1..m
  <2>1. \A x \in (n + 1)..m : x \in Nat /\ x \notin 1..n /\ x \in 1..m
    BY <1>2
  <2> QED
    BY <1>4, <2>1, ItemNumbers
<1>6. /\ DOMAIN g = DOMAIN h \cup ((n + 1)..m) /\ g = [x \in DOMAIN g |-> g[x]]
      /\ \A x \in (n + 1)..m : g[x] = w[x]
      /\ \A x \in DOMAIN h : x # s => g[x] = h[x]
      /\ g[s] = [h[s] EXCEPT !.next = n + 1]
  BY <1>1, <1>3, <1>4, <1>5 DEF HeapWithCopies
<1>7. ASSUME NEW x \in (n + 1)..m
      PROVE  /\ Tag(g[x], x) /\ g[x].column = t[x - n]
             /\ g[x].next = (IF x = m THEN NULL ELSE x + 1)
             /\ g[x].prev = (IF x = n + 1 THEN s ELSE x - 1)
  <2>1. PICK e : e = t[x - n]
    OBVIOUS
  <2>2. PICK a : a = IF x = m THEN NULL ELSE x + 1
    OBVIOUS
  <2>3. PICK b : b = IF x = n + 1 THEN s ELSE x - 1
    OBVIOUS
  <2>4. e \in Columns /\ e # NULL
    <3>1. x - n \in 1..Len(t)
      BY <1>2
    <3>2. t[x - n] \in Columns
      BY <3>1
    <3> QED
      BY <2>1, <3>2, ItemNumbers
  <2>5. g[x] = [column |-> e, next |-> a, prev |-> b]
    BY <1>1, <1>2, <1>6, <2>1, <2>2, <2>3 DEF CopiesBehind
  <2>6. Tag(g[x], x)
    BY <1>5, <2>4, <2>5 DEF Tag, IsNode
  <2> QED
    BY <2>1, <2>2, <2>3, <2>5, <2>6
<1>8. Tag(g[s], s) /\ g[s].next = n + 1 /\ g[s].prev = NULL
  <2>1. Tag(h[s], s) /\ IsNode(h[s])
    BY <1>4 DEF Tag
  <2>2. g[s] = Between(h[s], n + 1, h[s].prev)
    BY <1>6, <2>1, OnePointer
  <2>3. Tag(g[s], s)
    BY <2>1, <2>2, BetweenTag
  <2> QED
    BY <1>4, <2>1, <2>2, <2>3, BetweenIs
<1>9. \A x \in DOMAIN g : Tag(g[x], x)
  BY <1>4, <1>6, <1>7, <1>8
<1>10. IsHeap(g)
  <2>0. n + 1 \in Int /\ m \in Int
    BY <1>2
  <2>1. IsFiniteSet((n + 1)..m)
    BY <2>0, FS_Interval, Zenon
  <2>4. IsFiniteSet(DOMAIN h)
    BY <1>4 DEF IsHeap
  <2>5. IsFiniteSet(DOMAIN h \cup ((n + 1)..m))
    BY <2>1, <2>4, FS_Union, Zenon
  <2>2. IsFiniteSet(DOMAIN g)
    BY <1>6, <2>5
  <2>3. NULL \notin DOMAIN g
    BY <1>4, <1>5, <1>6 DEF IsHeap
  <2> QED
    BY <1>6, <1>9, <2>2, <2>3 DEF IsHeap, Tag
<1>11. DOMAIN g \subseteq (1..m) \cup Sequences
  <2>1. \A x \in 1..n : x \in 1..m
    BY <1>2
  <2> QED
    BY <1>4, <1>5, <1>6, <2>1
<1>12. ItemHeap(g, m)
  BY <1>9, <1>10, <1>11, ItemHeapIf
<1>13. PICK d : d = Numbered(n, k)
  OBVIOUS
<1>14. /\ d \in Seq((n + 1)..m) /\ Len(d) = k /\ ToSet(d) = (n + 1)..m
       /\ \A i \in 1..k : d[i] = n + i
  <2>1. /\ Numbered(n, k) \in Seq((n + 1)..(n + k)) /\ Len(Numbered(n, k)) = k
        /\ ToSet(Numbered(n, k)) = (n + 1)..(n + k)
    BY NumberedIs
  <2>2. \A i \in 1..k : Numbered(n, k)[i] = n + i
    BY NumberedIs
  <2> QED
    BY <1>2, <1>13, <2>1, <2>2
<1>15. d \in Seq(1..m)
  <2>1. (n + 1)..m \subseteq 1..m
    BY <1>5
  <2> QED
    BY <1>14, <2>1
<1>16. IsRow(g, d)
  <2>1. (n + 1)..(n + k) \subseteq DOMAIN g
    BY <1>2, <1>6
  <2>2. \A x \in (n + 1)..(n + k) : /\ g[x].next = (IF x = n + k THEN NULL ELSE x + 1)
                                    /\ x # n + 1 => g[x].prev = x - 1
    BY <1>2, <1>7
  <2> QED
    BY <1>13, <2>1, <2>2, NumberedRow
<1>17. d # <<>> /\ d[1] = n + 1 /\ n + 1 \in (n + 1)..m
  BY <1>2, <1>14
<1>18. g[s].next = Start(d) /\ g[d[1]].prev = s
  BY <1>7, <1>8, <1>17 DEF Start
<1>19. ItemRow(g, m, s, d)
  BY <1>4, <1>6, <1>8, <1>15, <1>16, <1>18, ItemRowIf
<1>20. ColumnsIn(g, d) = t
  <2>1. PICK v \in Seq(Columns) : v = ColumnsIn(g, d) /\ Len(v) = k
    BY <1>12, <1>14, <1>19, ColumnsIs
  <2>2. \A i \in 1..Len(d) : ColumnsIn(g, d)[i] = g[d[i]].column
    BY <1>12, <1>19, ColumnsIs
  <2>3. ASSUME NEW i \in 1..k PROVE v[i] = t[i]
    <3>1. d[i] = n + i /\ n + i \in (n + 1)..m /\ (n + i) - n = i
      BY <1>2, <1>14
    <3> QED
      BY <1>7, <1>14, <2>1, <2>2, <3>1
  <2>4. v = [i \in 1..k |-> v[i]] /\ t = [i \in 1..k |-> t[i]]
    BY <2>1
  <2>5. v = t
    BY <2>3, <2>4
  <2> QED
    BY <2>1, <2>5
<1>21. Untouched(h, g, {s})
  BY <1>6 DEF Untouched
<1>22. SameSequences(h, g)
  BY <1>5, <1>6 DEF SameSequences
<1>23. RowOf(g, m, s, t)
  BY <1>19, <1>20 DEF RowOf
<1> QED
  BY <1>2, <1>12, <1>21, <1>22, <1>23
-----------------------------------------------------------------------------
(***************************************************************************)
(* The calls on sequences, and the productions.                            *)
(***************************************************************************)
ItemValues(i, l, u) ==
  i \in [Sequences -> Sequences \cup {NULL}] /\ l \in [Sequences -> Nat \cup {-1}] /\ u \in BOOLEAN

ItemInv == HeapInv(heap, allocated, seqItem) /\ ItemValues(identifier, length, undefined)

\* What is known of a sequence that is alive.
LEMMA AliveIs ==
  ASSUME ItemInv, NEW s \in Sequences, Alive(s)
  PROVE  \E c : /\ ItemRow(heap, allocated, s, c) /\ First(s) = Start(c)
                /\ (First(s) = NULL <=> c = <<>>)
                /\ ItemsOf(s) = c /\ ColumnsOf(s) = ColumnsIn(heap, c)
<1>1. allocated \in Nat /\ ItemHeap(heap, allocated) /\ Rows(heap, allocated)
  BY HeapInvIs DEF ItemInv
<1>2. PICK c : ItemRow(heap, allocated, s, c)
  BY <1>1 DEF Rows, Alive
<1>3. First(s) = Start(c) /\ (First(s) = NULL <=> c = <<>>)
  BY <1>1, <1>2, ItemRowIs DEF First
<1>4. ItemsOf(s) = c
  BY <1>1, <1>2, ItemRowIs DEF ItemsOf, First
<1>5. ColumnsOf(s) = ColumnsIn(heap, c)
  BY <1>4 DEF ColumnsOf, ColumnsIn, Fields
<1> QED
  BY <1>2, <1>3, <1>4, <1>5

\* What the columns of a sequence are after a call, given its row.
LEMMA ColumnsBecome ==
  ASSUME NEW s, NEW n \in Nat, ItemHeap(heap', n), NEW c, ItemRow(heap', n, s, c)
  PROVE  ColumnsOf(s)' = ColumnsIn(heap', c)
<1>1. ItemsOf(s)' = c
  BY ItemRowIs DEF ItemsOf, First
<1> QED
  BY <1>1 DEF ColumnsOf, ColumnsIn, Fields

\* The row of a head without items.
LEMMA EmptyRow ==
  ASSUME NEW h, NEW n \in Nat, ItemHeap(h, n), NEW s \in Sequences, s \notin DOMAIN h,
         NEW w, w = With(h, s, Item(NULL))
  PROVE  /\ ItemHeap(w, n) /\ Untouched(h, w, {}) /\ DOMAIN w = DOMAIN h \cup {s}
         /\ ItemRow(w, n, s, <<>>)
<1>1. /\ Tag(Item(NULL), s) /\ Item(NULL).next = NULL /\ Item(NULL).prev = NULL
  BY ItemTag
<1>2. /\ ItemHeap(With(h, s, Item(NULL)), n) /\ Untouched(h, With(h, s, Item(NULL)), {})
      /\ DOMAIN With(h, s, Item(NULL)) = DOMAIN h \cup {s}
      /\ With(h, s, Item(NULL))[s] = Item(NULL)
  <2>1. n <= n /\ s \in (1..n) \cup Sequences
    OBVIOUS
  <2> QED
    BY <1>1, <2>1, WithItem
<1>3. w[s].next = NULL /\ w[s].prev = NULL /\ s \in DOMAIN w
  BY <1>1, <1>2
<1>4. ItemRow(w, n, s, <<>>)
  <2>1. IsRow(w, <<>>) /\ Start(<<>>) = NULL /\ <<>> \in Seq(1..n)
    BY DEF IsRow, Start
  <2> QED
    BY <1>3, <2>1, ItemRowIf
<1> QED
  BY <1>2, <1>4

\* An item for e is allocated and put behind the row of s.
LEMMA AddItem ==
  ASSUME NEW h, NEW n, NEW q, HeapInv(h, n, q), n + 1 <= MaxNodes,
         NEW s, NEW c, ItemRow(h, n, s, c), NEW e \in Columns,
         NEW g, g = listNodeAppend(With(h, n + 1, Item(e)), s, n + 1)
  PROVE  /\ HeapInv(g, n + 1, q) /\ ItemHeap(g, n + 1)
         /\ RowOf(g, n + 1, s, Append(ColumnsIn(h, c), e))
<1>1. n \in Nat /\ ItemHeap(h, n) /\ DOMAIN h \subseteq (1..n) \cup Sequences
  BY HeapInvIs
<1>2. PICK m \in Nat : m = n + 1 /\ n <= m /\ m \in 0..MaxNodes /\ m \in 1..m
  BY <1>1, ItemNumbers
<1>3. m \notin DOMAIN h /\ m \notin Sequences /\ m # NULL /\ e # NULL
  <2>1. m \notin 1..n
    BY <1>1, <1>2
  <2> QED
    BY <1>1, <2>1, ItemNumbers
<1>4. Tag(Item(e), m) /\ Item(e).next = NULL /\ Item(e).column = e
  BY <1>3, ItemTag
<1>5. PICK w : w = With(h, m, Item(e))
  OBVIOUS
<1>6. /\ ItemHeap(w, m) /\ Untouched(h, w, {}) /\ DOMAIN w = DOMAIN h \cup {m}
      /\ w[m] = Item(e)
  <2>1. /\ ItemHeap(With(h, m, Item(e)), m) /\ Untouched(h, With(h, m, Item(e)), {})
        /\ DOMAIN With(h, m, Item(e)) = DOMAIN h \cup {m}
        /\ With(h, m, Item(e))[m] = Item(e)
    BY <1>1, <1>2, <1>3, <1>4, WithItem
  <2> QED
    BY <1>5, <2>1
<1>7. ItemRow(w, m, s, c) /\ ColumnsIn(w, c) = ColumnsIn(h, c)
  <2>1. PICK S : S = {}
    OBVIOUS
  <2>2. Untouched(h, w, S) /\ ToSet(Headed(s, c)) \cap S = {}
    BY <1>6, <2>1
  <2> QED
    BY <1>1, <1>2, <2>2, OthersStay
<1>8. PICK T : T = ToSet(Headed(s, c))
  OBVIOUS
<1>9. m \notin T /\ T \subseteq DOMAIN h
  BY <1>1, <1>3, <1>8, ItemRowIs
<1>10. /\ ItemHeap(g, m) /\ SameSequences(w, g) /\ Untouched(w, g, T \cup {m})
       /\ ItemRow(g, m, s, Append(c, m))
       /\ ColumnsIn(g, Append(c, m)) = Append(ColumnsIn(h, c), e)
  <2>1. /\ m \in 1..m /\ m \in DOMAIN w /\ m \notin ToSet(Headed(s, c)) /\ w[m].next = NULL
        /\ g = listNodeAppend(w, s, m)
    BY <1>2, <1>4, <1>5, <1>6, <1>8, <1>9
  <2>2. ItemHeap(g, m) /\ SameSequences(w, g) /\ Untouched(w, g, ToSet(Headed(s, c)) \cup {m})
    BY <1>6, <1>7, <2>1, JoinItem
  <2>3. ItemRow(g, m, s, Append(c, m))
    BY <1>6, <1>7, <2>1, JoinItem
  <2>4. ColumnsIn(g, Append(c, m)) = Append(ColumnsIn(w, c), e)
    <3>1. e = w[m].column
      BY <1>4, <1>6
    <3>2. SameColumns(w, g)
      BY <1>6, <1>7, <2>1, JoinItem
    <3> QED
      BY <1>6, <1>7, <2>1, <3>1, <3>2, JoinColumns
  <2> QED
    BY <1>4, <1>6, <1>7, <1>8, <2>2, <2>3, <2>4
<1>11. Untouched(h, g, T)
  BY <1>3, <1>6, <1>10 DEF Untouched
<1>12. \A t \in Sequences : t \in DOMAIN g => t \in DOMAIN h
  BY <1>3, <1>6, <1>10 DEF SameSequences
<1>13. HeapInv(g, m, q)
  BY <1>2, <1>8, <1>10, <1>11, <1>12, OneRowChanges
<1>14. RowOf(g, m, s, Append(ColumnsIn(h, c), e))
  BY <1>10 DEF RowOf
<1> QED
  BY <1>2, <1>10, <1>13, <1>14

\* The sequence s is released, with the item behind it.
LEMMA ReleaseRow ==
  ASSUME NEW h, NEW n, NEW q, HeapInv(h, n, q), NEW s, NEW c, ItemRow(h, n, s, c),
         NEW S, s \in S, S \subseteq {s, h[s].next}
  PROVE  HeapInv(Free(h, S), n, q)
<1>1. /\ n \in Nat /\ n \in 0..MaxNodes /\ ItemHeap(h, n) /\ NULL \notin DOMAIN h
  BY HeapInvIs, ItemHeapIs DEF HeapInv
<1>2. PICK g : g = Free(h, S)
  OBVIOUS
<1>3. ItemHeap(g, n) /\ Untouched(h, g, S) /\ DOMAIN g = DOMAIN h \ S
  BY <1>1, <1>2, FreeItem
<1>4. PICK T : T = ToSet(Headed(s, c))
  OBVIOUS
<1>5. S \subseteq T \cup {NULL}
  <2>1. h[s].next = Start(c) /\ T = {s} \cup ToSet(c) /\ IsRow(h, c)
    BY <1>1, <1>4, ItemRowIs
  <2>2. Start(c) \in ToSet(c) \cup {NULL}
    <3>1. c # <<>> => 1 \in 1..Len(c)
      BY <2>1, RowFacts
    <3>2. c # <<>> => c[1] \in ToSet(c)
      BY <2>1, <3>1, RowFacts DEF ToSet
    <3> QED
      BY <3>2 DEF Start
  <2> QED
    BY <2>1, <2>2
<1>6. Untouched(h, g, T)
  BY <1>1, <1>3, <1>5 DEF Untouched
<1>7. s \notin DOMAIN g /\ \A t \in Sequences : t \in DOMAIN g => t \in DOMAIN h
  BY <1>3
<1>8. HeapInv(g, n, q)
  BY <1>1, <1>3, <1>4, <1>6, <1>7, OneRowChanges
<1> QED
  BY <1>2, <1>8

\* Nothing is left in memory but the count.
LEMMA HeapGrows ==
  ASSUME NEW h, NEW n, NEW q, HeapInv(h, n, q), NEW m \in 0..MaxNodes, n <= m
  PROVE  HeapInv(h, m, q)
<1>1. n \in Nat /\ m \in Nat /\ ItemHeap(h, n) /\ Rows(h, n) /\ Waits(h, n, q)
  BY HeapInvIs, ItemNumbers
<1>2. 1..n \subseteq 1..m
  BY <1>1
<1>3. ItemHeap(h, m)
  BY <1>1, <1>2 DEF ItemHeap
<1>4. Waits(h, m, q)
  BY <1>1, <1>2 DEF Waits
<1>5. ASSUME NEW t, NEW d, ItemRow(h, n, t, d) PROVE ItemRow(h, m, t, d)
  <2>1. d \in Seq(1..n)
    BY <1>5 DEF ItemRow
  <2>2. d \in Seq(1..m)
    <3>1. Len(d) \in Nat /\ d \in [1..Len(d) -> 1..n]
      BY <1>1, <2>1
    <3>2. d \in [1..Len(d) -> 1..m]
      BY <1>1, <1>2, <3>1
    <3> QED
      BY <3>1, <3>2
  <2> QED
    BY <1>5, <2>2 DEF ItemRow
<1>6. Rows(h, m)
  BY <1>1, <1>5 DEF Rows
<1> QED
  BY <1>3, <1>4, <1>6 DEF HeapInv

\* The sequence t is made, with copies of k columns.
LEMMA NewCopy ==
  ASSUME NEW h, NEW n, NEW q, HeapInv(h, n, q), NEW t \in Sequences, t \notin DOMAIN h,
         NEW k \in Nat, k # 0, n + k <= MaxNodes, NEW old \in Seq(Columns), Len(old) = k,
         NEW g, g = HeapWithCopies(With(h, t, Item(NULL)), n, k, old, t)
  PROVE  /\ ItemHeap(g, n + k) /\ Untouched(h, g, {})
         /\ RowOf(g, n + k, t, old)
         /\ t # YYVAL => HeapInv(g, n + k, q)
<1>1. n \in Nat /\ ItemHeap(h, n) /\ DOMAIN h \subseteq (1..n) \cup Sequences
  BY HeapInvIs
<1>2. PICK w : w = With(h, t, Item(NULL))
  OBVIOUS
<1>3. /\ ItemHeap(w, n) /\ Untouched(h, w, {}) /\ DOMAIN w = DOMAIN h \cup {t}
      /\ ItemRow(w, n, t, <<>>)
  BY <1>1, <1>2, EmptyRow
<1>4. /\ ItemHeap(g, n + k) /\ Untouched(w, g, {t}) /\ SameSequences(w, g)
      /\ RowOf(g, n + k, t, old)
  <2>1. g = HeapWithCopies(w, n, k, old, t)
    BY <1>2
  <2>2. ItemHeap(g, n + k) /\ Untouched(w, g, {t}) /\ SameSequences(w, g)
    BY <1>1, <1>3, <2>1, CopiedRow
  <2>3. RowOf(g, n + k, t, old)
    BY <1>1, <1>3, <2>1, CopiedRow
  <2> QED
    BY <2>2, <2>3
<1>5. Untouched(h, g, {})
  BY <1>3, <1>4 DEF Untouched
<1>6. ASSUME NEW x \in Sequences, x \in DOMAIN g PROVE x \in DOMAIN h \/ x = t
  BY <1>3, <1>4, <1>6 DEF SameSequences
<1>7. PICK m : m = n + k
  OBVIOUS
<1>8. m \in 0..MaxNodes /\ n <= m
  BY <1>1, <1>7, ItemNumbers
<1>9. ASSUME t # YYVAL PROVE HeapInv(g, m, q)
  <2>1. PICK d : ItemRow(g, m, t, d)
    BY <1>4, <1>7 DEF RowOf
  <2>2. ItemHeap(g, m)
    BY <1>4, <1>7
  <2> QED
    BY <1>5, <1>6, <1>8, <1>9, <2>1, <2>2, OneRowMore
<1> QED
  BY <1>4, <1>5, <1>7, <1>9

\* The sequence l, which has no items, is given copies of k columns.
LEMMA CopyBehind ==
  ASSUME NEW h, NEW n, NEW q, HeapInv(h, n, q), NEW l, ItemRow(h, n, l, <<>>),
         NEW k \in Nat, k # 0, n + k <= MaxNodes, NEW old \in Seq(Columns), Len(old) = k,
         NEW g, g = HeapWithCopies(h, n, k, old, l)
  PROVE  /\ HeapInv(g, n + k, q) /\ ItemHeap(g, n + k) /\ Untouched(h, g, {l})
         /\ RowOf(g, n + k, l, old)
<1>1. n \in Nat /\ ItemHeap(h, n)
  BY HeapInvIs
<1>2. /\ ItemHeap(g, n + k) /\ Untouched(h, g, {l}) /\ SameSequences(h, g)
      /\ RowOf(g, n + k, l, old)
  <2>1. ItemHeap(g, n + k) /\ Untouched(h, g, {l}) /\ SameSequences(h, g)
    BY <1>1, CopiedRow
  <2>2. RowOf(g, n + k, l, old)
    BY <1>1, CopiedRow
  <2> QED
    BY <2>1, <2>2
<1>3. PICK T : T = ToSet(Headed(l, <<>>))
  OBVIOUS
<1>4. l \in T
  BY <1>1, <1>3, ItemRowIs
<1>5. Untouched(h, g, T)
  BY <1>2, <1>4 DEF Untouched
<1>6. \A x \in Sequences : x \in DOMAIN g => x \in DOMAIN h
  BY <1>2 DEF SameSequences
<1>7. PICK m : m = n + k
  OBVIOUS
<1>8. m \in 0..MaxNodes /\ n <= m
  BY <1>1, <1>7, ItemNumbers
<1>9. HeapInv(g, m, q)
  <2>1. ItemHeap(g, m) /\ \E d : ItemRow(g, m, l, d)
    BY <1>2, <1>7 DEF RowOf
  <2> QED
    BY <1>3, <1>5, <1>6, <1>8, <2>1, OneRowChanges
<1> QED
  BY <1>2, <1>7, <1>9

\* A row is the same while its links are.
LEMMA LinksStay ==
  ASSUME NEW h, NEW n \in Nat, ItemHeap(h, n), NEW s, NEW c, ItemRow(h, n, s, c),
         NEW g, DOMAIN g = DOMAIN h,
         \A x \in DOMAIN g : g[x].next = h[x].next /\ g[x].prev = h[x].prev
  PROVE  ItemRow(g, n, s, c)
<1>1. /\ s \in Sequences /\ s \in DOMAIN h /\ h[s].prev = NULL
      /\ c \in Seq(1..n) /\ IsRow(h, Headed(s, c))
  BY DEF ItemRow
<1>2. PICK b : b = Headed(s, c)
  OBVIOUS
<1>3. IsRow(h, b) /\ ToSet(b) \subseteq DOMAIN h
  BY <1>1, <1>2, RowFacts
<1>4. \A x \in ToSet(b) : /\ x \in DOMAIN g
                          /\ g[x].next = h[x].next /\ g[x].prev = h[x].prev
  BY <1>3
<1>5. IsRow(g, b)
  BY <1>3, <1>4, RowStays
<1> QED
  BY <1>1, <1>2, <1>5 DEF ItemRow

\* The first item of a row takes over a column.
LEMMA ColumnTaken ==
  ASSUME NEW h, NEW n, NEW q, HeapInv(h, n, q), NEW l, NEW c, ItemRow(h, n, l, c),
         c # <<>>, NEW r, NEW d, ItemRow(h, n, r, d), d # <<>>,
         NEW g, g = [h EXCEPT ![h[l].next].column = h[h[r].next].column]
  PROVE  HeapInv(g, n, q)
<1>1. /\ n \in Nat /\ n \in 0..MaxNodes /\ n <= n /\ ItemHeap(h, n) /\ IsHeap(h)
      /\ DOMAIN h \subseteq (1..n) \cup Sequences /\ \A x \in DOMAIN h : Tag(h[x], x)
  BY HeapInvIs, ItemHeapIs DEF HeapInv
<1>2. PICK a : a = h[l].next
  OBVIOUS
<1>3. PICK e : e = h[h[r].next].column
  OBVIOUS
<1>4. a = c[1] /\ a \in ToSet(c) /\ a \in DOMAIN h /\ a \in 1..n
  <2>1. IsRow(h, c) /\ h[l].next = Start(c) /\ ToSet(c) \subseteq 1..n /\ ToSet(c) \subseteq DOMAIN h
    BY <1>1, ItemRowIs
  <2>2. 1 \in 1..Len(c) /\ a = c[1]
    BY <1>2, <2>1, RowFacts DEF Start
  <2>3. a \in ToSet(c)
    BY <2>1, <2>2, RowFacts DEF ToSet
  <2> QED
    BY <2>1, <2>2, <2>3
<1>5. e \in Columns /\ e # NULL
  <2>1. IsRow(h, d) /\ h[r].next = Start(d)
    BY <1>1, ItemRowIs
  <2>2. 1 \in 1..Len(d) /\ h[r].next = d[1]
    BY <2>1, RowFacts DEF Start
  <2>3. h[d[1]].column \in Columns /\ h[d[1]].column # NULL
    BY <1>1, <2>2, ColumnsIs
  <2> QED
    BY <1>3, <2>2, <2>3
<1>6. h = [x \in DOMAIN h |-> h[x]]
  BY <1>1 DEF IsHeap
<1>7. /\ DOMAIN g = DOMAIN h /\ g = [x \in DOMAIN g |-> g[x]]
      /\ g[a] = [h[a] EXCEPT !.column = e]
      /\ \A x \in DOMAIN h : x # a => g[x] = h[x]
  BY <1>2, <1>3, <1>4, <1>6
<1>8. Tag(g[a], a) /\ g[a].next = h[a].next /\ g[a].prev = h[a].prev
  <2>1. Tag(h[a], a) /\ a \notin Sequences
    BY <1>1, <1>4, ItemNumbers
  <2>2. /\ DOMAIN g[a] = DOMAIN h[a] /\ g[a] = [f \in DOMAIN g[a] |-> g[a][f]]
        /\ g[a].next = h[a].next /\ g[a].prev = h[a].prev /\ g[a].column = e
    BY <1>7, <2>1 DEF Tag, IsNode
  <2> QED
    BY <1>5, <2>1, <2>2 DEF Tag, IsNode
<1>9. \A x \in DOMAIN g : Tag(g[x], x) /\ g[x].next = h[x].next /\ g[x].prev = h[x].prev
  BY <1>1, <1>7, <1>8
<1>10. IsHeap(g)
  BY <1>1, <1>7, <1>9 DEF IsHeap, Tag
<1>11. ItemHeap(g, n)
  BY <1>1, <1>7, <1>9, <1>10, ItemHeapIf
<1>12. PICK T : T = ToSet(Headed(l, c))
  OBVIOUS
<1>13. a \in T /\ T \subseteq DOMAIN h
  BY <1>1, <1>4, <1>12, ItemRowIs
<1>14. Untouched(h, g, T)
  BY <1>7, <1>13 DEF Untouched
<1>15. ItemRow(g, n, l, c)
  BY <1>1, <1>7, <1>9, LinksStay
<1> QED
  BY <1>1, <1>7, <1>11, <1>12, <1>14, <1>15, OneRowChanges

LEMMA ItemInvIs ==
  ASSUME ItemInv
  PROVE  /\ HeapInv(heap, allocated, seqItem) /\ allocated \in Nat /\ allocated \in 0..MaxNodes
         /\ ItemHeap(heap, allocated) /\ Rows(heap, allocated)
         /\ Waits(heap, allocated, seqItem) /\ IsHeap(heap)
         /\ DOMAIN heap \subseteq (1..allocated) \cup Sequences
         /\ identifier \in [Sequences -> Sequences \cup {NULL}]
         /\ length \in [Sequences -> Nat \cup {-1}] /\ undefined \in BOOLEAN
         /\ ItemValues(identifier, length, undefined)
BY HeapInvIs DEF ItemInv, HeapInv, ItemValues

LEMMA ItemInvIf ==
  ASSUME HeapInv(heap', allocated', seqItem'), ItemValues(identifier', length', undefined')
  PROVE  ItemInv'
BY DEF ItemInv

LEMMA ConstStep ==
  ASSUME ItemInv, NEW s \in Seqs, seqConst(s)
  PROVE  ItemInv'
<1>1. /\ s \notin DOMAIN heap /\ heap' = With(heap, s, Item(NULL))
      /\ identifier' = [identifier EXCEPT ![s] = NULL] /\ length' = [length EXCEPT ![s] = 0]
      /\ allocated' = allocated /\ seqItem' = seqItem /\ undefined' = undefined
  BY DEF seqConst, Alive
<1>2. s \in Sequences /\ s # YYVAL
  BY ItemNumbers
<1>3. PICK g : g = With(heap, s, Item(NULL))
  OBVIOUS
<1>4. /\ ItemHeap(g, allocated) /\ Untouched(heap, g, {}) /\ DOMAIN g = DOMAIN heap \cup {s}
      /\ ItemRow(g, allocated, s, <<>>)
  BY <1>1, <1>2, <1>3, ItemInvIs, EmptyRow
<1>5. HeapInv(g, allocated, seqItem)
  <2>1. allocated \in 0..MaxNodes /\ allocated <= allocated /\ HeapInv(heap, allocated, seqItem)
    BY ItemInvIs
  <2>2. \A t \in Sequences : t \in DOMAIN g => t \in DOMAIN heap \/ t = s
    BY <1>4
  <2> QED
    BY <1>1, <1>2, <1>4, <2>1, <2>2, OneRowMore
<1>6. ItemValues(identifier', length', undefined')
  BY <1>1, <1>2, ItemInvIs DEF ItemValues
<1> QED
  BY <1>1, <1>3, <1>5, <1>6, ItemInvIf

LEMMA NameStep ==
  ASSUME ItemInv, NEW s \in Sequences, SetIdentifier(s)
  PROVE  ItemInv'
<1>1. /\ heap' = heap /\ allocated' = allocated /\ seqItem' = seqItem /\ length' = length
      /\ identifier' = [identifier EXCEPT ![s] = s] /\ undefined' = undefined
  BY DEF SetIdentifier
<1>2. ItemValues(identifier', length', undefined')
  BY <1>1, ItemInvIs DEF ItemValues
<1> QED
  BY <1>1, <1>2, ItemInvIs, ItemInvIf

LEMMA DestructorStep ==
  ASSUME ItemInv, NEW s \in Sequences, Alive(s), seqDestructor(s)
  PROVE  ItemInv'
<1>1. /\ heap' = Free(heap, {s, heap[s].next}) /\ allocated' = allocated
      /\ seqItem' = seqItem /\ identifier' = [identifier EXCEPT ![s] = NULL]
      /\ length' = length /\ undefined' = undefined
  BY DEF seqDestructor, First
<1>2. PICK c : ItemRow(heap, allocated, s, c)
  BY AliveIs
<1>3. HeapInv(Free(heap, {s, heap[s].next}), allocated, seqItem)
  <2>1. PICK S : S = {s, heap[s].next}
    OBVIOUS
  <2>2. s \in S /\ S \subseteq {s, heap[s].next}
    BY <2>1
  <2>3. HeapInv(Free(heap, S), allocated, seqItem)
    BY <1>2, <2>2, ItemInvIs, ReleaseRow
  <2> QED
    BY <2>1, <2>3
<1>4. ItemValues(identifier', length', undefined')
  BY <1>1, ItemInvIs DEF ItemValues
<1> QED
  BY <1>1, <1>3, <1>4, ItemInvIs, ItemInvIf

LEMMA AddItemStep ==
  ASSUME ItemInv, NEW s \in Sequences, Alive(s), NEW e \in Columns, Memory(1), seqAddItem(s, e)
  PROVE  ItemInv' /\ ColumnsOf(s)' = Append(ColumnsOf(s), e)
<1>1. /\ heap' = listNodeAppend(With(heap, allocated + 1, Item(e)), s, allocated + 1)
      /\ allocated' = allocated + 1 /\ length' = [length EXCEPT ![s] = @ + 1]
      /\ identifier' = identifier /\ seqItem' = seqItem /\ undefined' = undefined
      /\ allocated + 1 <= MaxNodes
  BY DEF seqAddItem, Fresh, Memory
<1>2. PICK c : ItemRow(heap, allocated, s, c) /\ ColumnsOf(s) = ColumnsIn(heap, c)
  BY AliveIs
<1>3. PICK g : g = heap'
  OBVIOUS
<1>4. /\ HeapInv(g, allocated + 1, seqItem) /\ ItemHeap(g, allocated + 1)
      /\ RowOf(g, allocated + 1, s, Append(ColumnsIn(heap, c), e))
  <2>1. /\ HeapInv(heap, allocated, seqItem)
        /\ g = listNodeAppend(With(heap, allocated + 1, Item(e)), s, allocated + 1)
    BY <1>1, <1>3, ItemInvIs
  <2> QED
    BY <1>1, <1>2, <2>1, AddItem
<1>5. ColumnsOf(s)' = Append(ColumnsOf(s), e)
  <2>1. PICK d : /\ ItemRow(heap', allocated + 1, s, d)
                 /\ ColumnsIn(heap', d) = Append(ColumnsIn(heap, c), e)
    BY <1>3, <1>4 DEF RowOf
  <2>2. allocated + 1 \in Nat /\ ItemHeap(heap', allocated + 1)
    BY <1>3, <1>4, ItemInvIs
  <2>3. ColumnsOf(s)' = ColumnsIn(heap', d)
    BY <2>1, <2>2, ColumnsBecome
  <2> QED
    BY <1>2, <2>1, <2>3
<1>6. ItemValues(identifier', length', undefined')
  <2>1. \A x \in Nat \cup {-1} : x + 1 \in Nat \cup {-1}
    OBVIOUS
  <2>2. length' \in [Sequences -> Nat \cup {-1}]
    BY <1>1, <2>1, ItemInvIs
  <2> QED
    BY <1>1, <2>2, ItemInvIs DEF ItemValues
<1> QED
  BY <1>1, <1>3, <1>4, <1>5, <1>6, ItemInvIf

\* Where an item is found.
LEMMA FoundItem ==
  ASSUME ItemInv, NEW s \in Sequences, Alive(s), NEW e \in Columns
  PROVE  \E c : /\ ItemRow(heap, allocated, s, c) /\ ColumnsOf(s) = ColumnsIn(heap, c)
                /\ \/ /\ seqItemSearch(s, e) = NULL /\ e \notin ToSet(ColumnsOf(s))
                      /\ RemoveFirst(ColumnsOf(s), e) = ColumnsOf(s)
                   \/ /\ e \in ToSet(ColumnsOf(s)) /\ seqItemSearch(s, e) # NULL
                      /\ \E j \in 1..Len(c) :
                           /\ seqItemSearch(s, e) = c[j]
                           /\ RemoveFirst(ColumnsOf(s), e) = RemoveAt(ColumnsOf(s), j)
<1>1. PICK c : ItemRow(heap, allocated, s, c) /\ ColumnsOf(s) = ColumnsIn(heap, c)
  BY AliveIs
<1>2. PICK r : r = listNodeSearch(heap, s, [x \in DOMAIN heap |-> heap[x].column = e])
  OBVIOUS
<1>3. seqItemSearch(s, e) = r
  BY <1>2 DEF seqItemSearch
<1>4. PICK t : t = ColumnsIn(heap, c)
  OBVIOUS
<1>5. \/ r = NULL /\ e \notin ToSet(t) /\ RemoveFirst(t, e) = t
      \/ /\ e \in ToSet(t) /\ r # NULL
         /\ \E j \in 1..Len(c) : r = c[j] /\ RemoveFirst(t, e) = RemoveAt(t, j)
  <2>1. allocated \in Nat /\ ItemHeap(heap, allocated)
    BY ItemInvIs
  <2> QED
    BY <1>1, <1>2, <1>4, <2>1, SearchIs
<1> QED
  BY <1>1, <1>3, <1>4, <1>5

LEMMA DelItemStep ==
  ASSUME ItemInv, NEW s \in Sequences, Alive(s), NEW e \in Columns, seqDelItem(s, e)
  PROVE  /\ ItemInv' /\ ColumnsOf(s)' = RemoveFirst(ColumnsOf(s), e)
         /\ answer' = (e \in ToSet(ColumnsOf(s)))
<1>1. /\ answer' = (seqItemSearch(s, e) # NULL)
      /\ heap' = IF seqItemSearch(s, e) = NULL THEN heap
                 ELSE Free(listNodeDelete(heap, seqItemSearch(s, e)), {seqItemSearch(s, e)})
      /\ allocated' = allocated /\ identifier' = identifier /\ length' = length
      /\ seqItem' = seqItem /\ undefined' = undefined
  BY DEF seqDelItem
<1>2. PICK c : /\ ItemRow(heap, allocated, s, c) /\ ColumnsOf(s) = ColumnsIn(heap, c)
               /\ \/ /\ seqItemSearch(s, e) = NULL /\ e \notin ToSet(ColumnsOf(s))
                     /\ RemoveFirst(ColumnsOf(s), e) = ColumnsOf(s)
                  \/ /\ e \in ToSet(ColumnsOf(s)) /\ seqItemSearch(s, e) # NULL
                     /\ \E j \in 1..Len(c) :
                          /\ seqItemSearch(s, e) = c[j]
                          /\ RemoveFirst(ColumnsOf(s), e) = RemoveAt(ColumnsOf(s), j)
  BY FoundItem
<1>3. CASE seqItemSearch(s, e) = NULL
  <2>1. heap' = heap
    BY <1>1, <1>3
  <2>2. ItemInv'
    BY <1>1, <2>1, ItemInvIs, ItemInvIf
  <2>3. ColumnsOf(s)' = ColumnsOf(s)
    BY <2>1 DEF ColumnsOf, ItemsOf, First
  <2> QED
    BY <1>1, <1>2, <1>3, <2>2, <2>3
<1>4. CASE seqItemSearch(s, e) # NULL
  <2>1. PICK j \in 1..Len(c) : /\ seqItemSearch(s, e) = c[j]
                               /\ RemoveFirst(ColumnsOf(s), e) = RemoveAt(ColumnsOf(s), j)
    BY <1>2, <1>4
  <2>2. PICK g : g = heap'
    OBVIOUS
  <2>3. g = Free(listNodeDelete(heap, c[j]), {c[j]})
    BY <1>1, <1>4, <2>1, <2>2
  <2>4. allocated \in Nat /\ allocated <= allocated /\ allocated \in 0..MaxNodes
        /\ ItemHeap(heap, allocated) /\ HeapInv(heap, allocated, seqItem)
    BY ItemInvIs
  <2>6. /\ ItemHeap(g, allocated) /\ SameSequences(heap, g)
        /\ Untouched(heap, g, ToSet(Headed(s, c)))
    BY <1>2, <2>3, <2>4, CutItemRow
  <2>7. RowOf(g, allocated, s, RemoveAt(ColumnsIn(heap, c), j))
    BY <1>2, <2>3, <2>4, CutItemRow
  <2>8. PICK d : ItemRow(g, allocated, s, d) /\ ColumnsIn(g, d) = RemoveAt(ColumnsIn(heap, c), j)
    BY <2>7 DEF RowOf
  <2>9. HeapInv(g, allocated, seqItem)
    BY <1>2, <2>4, <2>6, <2>8, OneRowChanges DEF SameSequences
  <2>10. ItemInv'
    BY <1>1, <2>2, <2>9, ItemInvIs, ItemInvIf
  <2>11. ColumnsOf(s)' = ColumnsIn(heap', d)
    BY <2>2, <2>4, <2>6, <2>8, ColumnsBecome
  <2> QED
    BY <1>1, <1>2, <1>4, <2>1, <2>2, <2>8, <2>10, <2>11
<1> QED
  BY <1>3, <1>4

LEMMA SearchStep ==
  ASSUME ItemInv, NEW s \in Sequences, NEW e \in Columns, seqSearch(s, e)
  PROVE  ItemInv' /\ (Alive(s) => answer' = (e \in ToSet(ColumnsOf(s))))
<1>1. /\ answer' = (seqItemSearch(s, e) # NULL)
      /\ heap' = heap /\ allocated' = allocated /\ identifier' = identifier
      /\ length' = length /\ seqItem' = seqItem /\ undefined' = undefined
  BY DEF seqSearch
<1>2. ItemInv'
  BY <1>1, ItemInvIs, ItemInvIf
<1>3. ASSUME Alive(s) PROVE (seqItemSearch(s, e) # NULL) <=> e \in ToSet(ColumnsOf(s))
  BY <1>3, FoundItem
<1> QED
  BY <1>1, <1>2, <1>3

\* The items of s are as many as its columns.
LEMMA OwnColumns ==
  ASSUME ItemInv, NEW s \in Sequences, Alive(s)
  PROVE  /\ ColumnsOf(s) \in Seq(Columns) /\ Len(ItemsOf(s)) \in Nat
         /\ Len(ColumnsOf(s)) = Len(ItemsOf(s))
         /\ First(s) = NULL <=> Len(ItemsOf(s)) = 0
         /\ First(s) = NULL <=> ColumnsOf(s) = <<>>
<1>1. PICK c : /\ ItemRow(heap, allocated, s, c)
               /\ (First(s) = NULL <=> c = <<>>)
               /\ ItemsOf(s) = c /\ ColumnsOf(s) = ColumnsIn(heap, c)
  BY AliveIs
<1>2. PICK t : t = ColumnsIn(heap, c)
  OBVIOUS
<1>3. t \in Seq(Columns) /\ Len(t) = Len(c)
  BY <1>1, <1>2, ItemInvIs, ColumnsIs
<1>4. IsRow(heap, c)
  BY <1>1, ItemInvIs, ItemRowIs
<1>5. Len(c) \in Nat /\ (c = <<>> <=> Len(c) = 0)
  BY <1>4, RowFacts
<1>6. t = <<>> <=> Len(t) = 0
  BY <1>3, EmptySeq
<1> QED
  BY <1>1, <1>2, <1>3, <1>5, <1>6

\* Copied is the heap of which the lemmas speak.
LEMMA CopiedIs ==
  ASSUME NEW h, NEW s, NEW t, NEW k, k = Len(ItemsOf(s)), NEW old, old = ColumnsOf(s)
  PROVE  Copied(h, s, t) = HeapWithCopies(h, allocated, k, old, t)
BY DEF Copied, HeapWithCopies, CopiesBehind, Fresh

LEMMA NamedCopyStep ==
  ASSUME ItemInv, NEW s \in Sequences, Alive(s), NEW t \in Sequences, seqCopy(s, t),
         identifier[s] # NULL
  PROVE  /\ t \in Seqs => ItemInv'
         /\ ColumnsOf(t)' = ColumnsOf(s) /\ ColumnsOf(s)' = ColumnsOf(s)
<1>1. PICK k : k = Len(ItemsOf(s))
  OBVIOUS
<1>2. PICK old : old = ColumnsOf(s)
  OBVIOUS
<1>3. /\ t \notin DOMAIN heap /\ First(s) # NULL /\ allocated + k <= MaxNodes
      /\ allocated' = allocated + k /\ heap' = Copied(With(heap, t, Item(NULL)), s, t)
      /\ length' = [length EXCEPT ![t] = length[s]]
      /\ identifier' = [identifier EXCEPT ![t] = identifier[s]]
      /\ seqItem' = seqItem /\ undefined' = undefined
  BY <1>1 DEF seqCopy, Alive, Memory, Fresh
<1>4. k \in Nat /\ k # 0 /\ old \in Seq(Columns) /\ Len(old) = k
  BY <1>1, <1>2, <1>3, OwnColumns
<1>5. PICK g : g = heap'
  OBVIOUS
<1>6. g = HeapWithCopies(With(heap, t, Item(NULL)), allocated, k, old, t)
  BY <1>1, <1>2, <1>3, <1>5, CopiedIs
<1>7. PICK m : m = allocated + k
  OBVIOUS
<1>8. m \in Nat /\ allocated \in Nat /\ allocated <= m
  BY <1>4, <1>7, ItemInvIs
<1>9. /\ ItemHeap(g, m) /\ Untouched(heap, g, {}) /\ RowOf(g, m, t, old)
      /\ t # YYVAL => HeapInv(g, m, seqItem)
  <2>1. HeapInv(heap, allocated, seqItem)
    BY ItemInvIs
  <2>2. ItemHeap(g, allocated + k) /\ Untouched(heap, g, {})
    BY <1>3, <1>4, <1>6, <2>1, NewCopy
  <2>3. RowOf(g, allocated + k, t, old)
    BY <1>3, <1>4, <1>6, <2>1, NewCopy
  <2>4. t # YYVAL => HeapInv(g, allocated + k, seqItem)
    BY <1>3, <1>4, <1>6, <2>1, NewCopy
  <2> QED
    BY <1>7, <2>2, <2>3, <2>4
<1>10. ColumnsOf(t)' = old
  <2>1. PICK d : ItemRow(g, m, t, d) /\ ColumnsIn(g, d) = old
    BY <1>9 DEF RowOf
  <2>2. ColumnsOf(t)' = ColumnsIn(heap', d)
    BY <1>5, <1>8, <1>9, <2>1, ColumnsBecome
  <2> QED
    BY <1>5, <2>1, <2>2
<1>11. ColumnsOf(s)' = old
  <2>1. PICK c : ItemRow(heap, allocated, s, c) /\ ColumnsOf(s) = ColumnsIn(heap, c)
    BY AliveIs
  <2>2. PICK S : S = {}
    OBVIOUS
  <2>3. Untouched(heap, g, S) /\ ToSet(Headed(s, c)) \cap S = {}
    BY <1>9, <2>2
  <2>4. ItemHeap(heap, allocated)
    BY ItemInvIs
  <2>5. ItemRow(g, m, s, c) /\ ColumnsIn(g, c) = ColumnsIn(heap, c)
    BY <1>8, <2>1, <2>3, <2>4, OthersStay
  <2>6. ColumnsOf(s)' = ColumnsIn(heap', c)
    BY <1>5, <1>8, <1>9, <2>5, ColumnsBecome
  <2> QED
    BY <1>2, <1>5, <2>1, <2>5, <2>6
<1>12. ItemValues(identifier', length', undefined')
  BY <1>3, ItemInvIs DEF ItemValues
<1>13. ASSUME t \in Seqs PROVE ItemInv'
  <2>1. t # YYVAL
    BY <1>13, ItemNumbers
  <2> QED
    BY <1>3, <1>5, <1>7, <1>9, <1>12, <2>1, ItemInvIf
<1> QED
  BY <1>2, <1>10, <1>11, <1>13

LEMMA CopyStep ==
  ASSUME ItemInv, NEW s \in Sequences, Alive(s), NEW t \in Sequences, seqCopy(s, t)
  PROVE  /\ t \in Seqs => ItemInv'
         /\ undefined' \/ (ColumnsOf(t)' = ColumnsOf(s) /\ ColumnsOf(s)' = ColumnsOf(s))
<1>1. CASE identifier[s] # NULL
  BY <1>1, NamedCopyStep
<1>2. CASE identifier[s] = NULL
  <2>1. /\ undefined' = TRUE /\ heap' = heap /\ allocated' = allocated /\ seqItem' = seqItem
        /\ length' = length /\ identifier' = identifier
    BY <1>2 DEF seqCopy
  <2>2. ItemValues(identifier', length', undefined')
    BY <2>1, ItemInvIs DEF ItemValues
  <2> QED
    BY <2>1, <2>2, ItemInvIs, ItemInvIf
<1> QED
  BY <1>1, <1>2

LEMMA AssignmentStep ==
  ASSUME ItemInv, NEW l \in Sequences, Alive(l), NEW r \in Sequences, Alive(r),
         seqAssignment(l, r)
  PROVE  ItemInv' /\ (undefined' \/ ColumnsOf(l)' = ColumnsOf(r))
<1>1. identifier' = [identifier EXCEPT ![l] = identifier[r]] /\ seqItem' = seqItem
  BY DEF seqAssignment
<1>2. identifier' \in [Sequences -> Sequences \cup {NULL}]
  BY <1>1, ItemInvIs
<1>3. CASE undefined' = TRUE /\ heap' = heap /\ allocated' = allocated /\ length' = length
  <2>1. ItemValues(identifier', length', undefined')
    BY <1>2, <1>3, ItemInvIs DEF ItemValues
  <2> QED
    BY <1>1, <1>3, <2>1, ItemInvIs, ItemInvIf
<1>4. CASE /\ First(l) = NULL /\ First(r) = NULL
           /\ heap' = heap /\ allocated' = allocated /\ length' = length
           /\ undefined' = undefined
  <2>1. ItemValues(identifier', length', undefined')
    BY <1>2, <1>4, ItemInvIs DEF ItemValues
  <2>2. ColumnsOf(l) = <<>> /\ ColumnsOf(r) = <<>>
    BY <1>4, OwnColumns
  <2>3. ColumnsOf(l)' = ColumnsOf(l)
    BY <1>4 DEF ColumnsOf, ItemsOf, First
  <2> QED
    BY <1>1, <1>4, <2>1, <2>2, <2>3, ItemInvIs, ItemInvIf
<1>5. CASE /\ First(l) = NULL /\ First(r) # NULL
           /\ Memory(Len(ItemsOf(r))) /\ allocated' = Fresh(Len(ItemsOf(r)))
           /\ heap' = Copied(heap, r, l)
           /\ length' = [length EXCEPT ![l] = length[r]]
           /\ undefined' = undefined
  <2>1. PICK k : k = Len(ItemsOf(r))
    OBVIOUS
  <2>2. PICK old : old = ColumnsOf(r)
    OBVIOUS
  <2>3. allocated + k <= MaxNodes /\ allocated' = allocated + k
    BY <1>5, <2>1 DEF Memory, Fresh
  <2>4. k \in Nat /\ k # 0 /\ old \in Seq(Columns) /\ Len(old) = k
    BY <1>5, <2>1, <2>2, OwnColumns
  <2>5. PICK g : g = heap'
    OBVIOUS
  <2>6. g = HeapWithCopies(heap, allocated, k, old, l)
    BY <1>5, <2>1, <2>2, <2>5, CopiedIs
  <2>7. PICK m : m = allocated + k
    OBVIOUS
  <2>8. m \in Nat
    BY <2>4, <2>7, ItemInvIs
  <2>9. ItemRow(heap, allocated, l, <<>>)
    BY <1>5, AliveIs
  <2>10. HeapInv(g, m, seqItem) /\ ItemHeap(g, m) /\ RowOf(g, m, l, old)
    <3>1. HeapInv(heap, allocated, seqItem)
      BY ItemInvIs
    <3>2. HeapInv(g, allocated + k, seqItem) /\ ItemHeap(g, allocated + k)
      BY <2>3, <2>4, <2>6, <2>9, <3>1, CopyBehind
    <3>3. RowOf(g, allocated + k, l, old)
      BY <2>3, <2>4, <2>6, <2>9, <3>1, CopyBehind
    <3> QED
      BY <2>7, <3>2, <3>3
  <2>11. ColumnsOf(l)' = old
    <3>1. PICK d : ItemRow(g, m, l, d) /\ ColumnsIn(g, d) = old
      BY <2>10 DEF RowOf
    <3>2. ColumnsOf(l)' = ColumnsIn(heap', d)
      BY <2>5, <2>8, <2>10, <3>1, ColumnsBecome
    <3> QED
      BY <2>5, <3>1, <3>2
  <2>12. ItemValues(identifier', length', undefined')
    BY <1>2, <1>5, ItemInvIs DEF ItemValues
  <2> QED
    BY <1>1, <2>2, <2>3, <2>5, <2>7, <2>10, <2>11, <2>12, ItemInvIf
<1> QED
  BY <1>3, <1>4, <1>5 DEF seqAssignment

\* What it takes that two rows of columns are equal, while they are counted.
LEMMA EqualColumns ==
  ASSUME NEW a \in Seq(Columns), NEW b \in Seq(Columns), Len(a) = Len(b)
  PROVE  (\A i \in 1..Len(a) : i <= Len(a) /\ i <= Len(b) /\ a[i] = b[i]) <=> a = b
<1>1. a = [i \in 1..Len(a) |-> a[i]] /\ b = [i \in 1..Len(b) |-> b[i]] /\ Len(a) \in Nat
  OBVIOUS
<1>2. (\A i \in 1..Len(a) : i <= Len(a) /\ i <= Len(b) /\ a[i] = b[i]) => a = b
  BY <1>1
<1> QED
  BY <1>1, <1>2

LEMMA EqualStep ==
  ASSUME ItemInv, NEW s \in Sequences, Alive(s), NEW t \in Sequences, Alive(t), seqIsEqual(s, t)
  PROVE  /\ ItemInv'
         /\ Counted(s) /\ Counted(t) =>
              answer' = (SameName(s, t) /\ ColumnsOf(s) = ColumnsOf(t))
         /\ s = t => answer' = (SameName(s, s) /\ length[s] <= Len(ColumnsOf(s)))
<1>1. PICK a : a = ColumnsOf(s)
  OBVIOUS
<1>2. PICK b : b = ColumnsOf(t)
  OBVIOUS
<1>3. /\ a \in Seq(Columns) /\ Len(ItemsOf(s)) = Len(a) /\ Len(a) \in Nat
      /\ b \in Seq(Columns) /\ Len(ItemsOf(t)) = Len(b) /\ Len(b) \in Nat
  BY <1>1, <1>2, OwnColumns
<1>4. PICK All : All = \A i \in 1..length[s] : i <= Len(a) /\ i <= Len(b) /\ a[i] = b[i]
  OBVIOUS
<1>5. answer' = (SameName(s, t) /\ length[s] = length[t] /\ All)
  BY <1>1, <1>2, <1>3, <1>4 DEF seqIsEqual
<1>6. ItemInv'
  <2>1. /\ heap' = heap /\ allocated' = allocated /\ identifier' = identifier
        /\ length' = length /\ seqItem' = seqItem /\ undefined' = undefined
    BY DEF seqIsEqual
  <2> QED
    BY <2>1, ItemInvIs, ItemInvIf
<1>7. ASSUME Counted(s), Counted(t)
      PROVE  (length[s] = length[t] /\ All) <=> a = b
  <2>1. length[s] = Len(a) /\ length[t] = Len(b)
    BY <1>3, <1>7 DEF Counted
  <2>2. CASE Len(a) = Len(b)
    <3>1. All <=> a = b
      BY <1>3, <1>4, <2>1, <2>2, EqualColumns
    <3> QED
      BY <2>1, <2>2, <3>1
  <2>3. CASE Len(a) # Len(b)
    BY <2>1, <2>3
  <2> QED
    BY <2>2, <2>3
<1>8. ASSUME s = t PROVE All <=> length[s] <= Len(a)
  <2>1. a = b /\ length[s] \in Nat \cup {-1}
    BY <1>1, <1>2, <1>8, ItemInvIs
  <2>2. ASSUME All PROVE length[s] <= Len(a)
    <3>1. CASE length[s] \in 1..length[s]
      BY <1>4, <2>2, <3>1
    <3>2. CASE length[s] \notin 1..length[s]
      BY <1>3, <2>1, <3>2
    <3> QED
      BY <3>1, <3>2
  <2>3. ASSUME length[s] <= Len(a) PROVE All
    <3>1. \A i \in 1..length[s] : i <= Len(a)
      BY <1>3, <2>1, <2>3
    <3> QED
      BY <1>4, <2>1, <3>1
  <2> QED
    BY <2>2, <2>3
<1>9. Counted(s) /\ Counted(t) => answer' = (SameName(s, t) /\ a = b)
  BY <1>5, <1>7
<1>10. s = t => answer' = (SameName(s, s) /\ length[s] <= Len(a))
  BY <1>5, <1>8
<1> QED
  BY <1>1, <1>2, <1>6, <1>9, <1>10

LEMMA CopiesLostStep ==
  ASSUME ItemInv, NEW s \in Sequences, Alive(s), CopyAndDestruct(s)
  PROVE  ItemInv'
<1>1. PICK k : k = Len(ItemsOf(s))
  OBVIOUS
<1>2. PICK m : m = allocated + k
  OBVIOUS
<1>3. /\ m <= MaxNodes /\ allocated' = m /\ undefined' = (k > 2)
      /\ heap' = heap /\ identifier' = identifier /\ length' = length /\ seqItem' = seqItem
  BY <1>1, <1>2 DEF CopyAndDestruct, Memory, Fresh
<1>4. k \in Nat
  BY <1>1, OwnColumns
<1>5. m \in 0..MaxNodes /\ allocated <= m
  BY <1>2, <1>3, <1>4, ItemInvIs
<1>6. HeapInv(heap, m, seqItem)
  BY <1>5, ItemInvIs, HeapGrows
<1>7. undefined' \in BOOLEAN
  BY <1>3
<1>8. ItemValues(identifier', length', undefined')
  BY <1>3, <1>7, ItemInvIs DEF ItemValues
<1> QED
  BY <1>3, <1>6, <1>8, ItemInvIf

LEMMA ItemAssignmentStep ==
  ASSUME ItemInv, NEW l \in Sequences, Alive(l), NEW r \in Sequences, Alive(r),
         seqItemAssignment(l, r)
  PROVE  ItemInv'
<1>1. /\ First(l) # NULL /\ First(r) # NULL
      /\ heap' = [heap EXCEPT ![heap[l].next].column = heap[heap[r].next].column]
      /\ allocated' = allocated /\ identifier' = identifier /\ length' = length
      /\ seqItem' = seqItem /\ undefined' = undefined
  BY DEF seqItemAssignment, First
<1>2. PICK c : ItemRow(heap, allocated, l, c) /\ c # <<>>
  BY <1>1, AliveIs
<1>3. PICK d : ItemRow(heap, allocated, r, d) /\ d # <<>>
  BY <1>1, AliveIs
<1>4. PICK g : g = [heap EXCEPT ![heap[l].next].column = heap[heap[r].next].column]
  OBVIOUS
<1>5. HeapInv(g, allocated, seqItem)
  BY <1>2, <1>3, <1>4, ItemInvIs, ColumnTaken
<1> QED
  BY <1>1, <1>4, <1>5, ItemInvIs, ItemInvIf

\* The columns of the nodes that are yet to be allocated.
LEMMA ItemGivenIs ==
  ASSUME ItemInv, Memory(1)
  PROVE  Given[Fresh(1)] \in Columns
<1>1. allocated \in Nat /\ allocated + 1 <= MaxNodes
  BY ItemInvIs DEF Memory
<1>2. Fresh(1) \in 1..Len(Given)
  BY <1>1, ItemNumbers DEF Fresh, MaxNodes
<1> QED
  BY <1>2, ItemAssumption

LEMMA ItemProduction ==
  ASSUME ItemInv, Memory(1), NEW e \in Columns, SEQ_ITEM(e)
  PROVE  ItemInv'
<1>1. PICK m \in Nat : m = allocated + 1
  BY ItemInvIs
<1>2. /\ allocated' = m /\ seqItem' = m /\ m <= MaxNodes /\ m \in 0..MaxNodes
      /\ heap' = With(Free(heap, {YYVAL}), m, [Item(e) EXCEPT !.prev = YYVAL])
      /\ identifier' = identifier /\ length' = length /\ undefined' = undefined
  BY <1>1, ItemNumbers DEF SEQ_ITEM, Memory, Fresh
<1>3. PICK f : f = Free(heap, {YYVAL})
  OBVIOUS
<1>4. PICK x : x = [Item(e) EXCEPT !.prev = YYVAL]
  OBVIOUS
<1>5. PICK g : g = With(f, m, x)
  OBVIOUS
<1>6. /\ allocated \in Nat /\ allocated <= m /\ ItemHeap(heap, allocated)
      /\ Rows(heap, allocated) /\ DOMAIN heap \subseteq (1..allocated) \cup Sequences
  BY <1>1, ItemInvIs
<1>7. /\ ItemHeap(f, allocated) /\ Untouched(heap, f, {YYVAL})
      /\ DOMAIN f = DOMAIN heap \ {YYVAL}
  BY <1>3, <1>6, FreeItem
<1>8. m \in (1..m) \cup Sequences /\ m \in 1..m /\ m \notin Sequences /\ m \notin DOMAIN heap
  <2>1. m \in 1..m /\ m \notin 1..allocated
    BY <1>1, <1>6
  <2> QED
    BY <1>6, <2>1, ItemNumbers
<1>9. Tag(x, m) /\ x.next = NULL /\ x.prev = YYVAL
  <2>1. e \in Columns \cup {NULL} /\ (e = NULL <=> m \in Sequences)
    BY <1>8, ItemNumbers
  <2> QED
    BY <1>4, <2>1, ItemTag
<1>10. /\ ItemHeap(g, m) /\ Untouched(f, g, {}) /\ DOMAIN g = DOMAIN f \cup {m} /\ g[m] = x
  <2>1. m \notin DOMAIN f
    BY <1>7, <1>8
  <2>2. /\ ItemHeap(With(f, m, x), m) /\ Untouched(f, With(f, m, x), {})
        /\ DOMAIN With(f, m, x) = DOMAIN f \cup {m} /\ With(f, m, x)[m] = x
    BY <1>6, <1>7, <1>8, <1>9, <2>1, WithItem
  <2> QED
    BY <1>5, <2>2
<1>11. PICK S : S = {YYVAL}
  OBVIOUS
<1>12. Untouched(heap, g, S)
  BY <1>7, <1>10, <1>11 DEF Untouched
<1>13. YYVAL \notin DOMAIN g
  BY <1>7, <1>8, <1>10, ItemNumbers
<1>14. ASSUME NEW t, NEW d, t # YYVAL, ItemRow(heap, allocated, t, d)
       PROVE  ToSet(Headed(t, d)) \cap S = {}
  <2>1. ToSet(Headed(t, d)) = {t} \cup ToSet(d) /\ ToSet(d) \subseteq 1..allocated
    BY <1>6, <1>14, ItemRowIs
  <2>2. YYVAL \notin 1..allocated
    BY <1>6, ItemNumbers
  <2> QED
    BY <1>11, <1>14, <2>1, <2>2
<1>15. Rows(g, m)
  <2>1. \A t \in Sequences : t \in DOMAIN g /\ t # YYVAL => t \in DOMAIN heap
    BY <1>7, <1>8, <1>10
  <2> QED
    BY <1>6, <1>10, <1>12, <1>13, <1>14, <2>1, RowsStep
<1>16. Waits(g, m, m)
  BY <1>8, <1>9, <1>10, <1>13 DEF Waits
<1>17. HeapInv(g, m, m)
  BY <1>2, <1>10, <1>15, <1>16 DEF HeapInv
<1> QED
  BY <1>2, <1>3, <1>4, <1>5, <1>17, ItemInvIs, ItemInvIf

LEMMA SequenceProduction ==
  ASSUME ItemInv, SEQUENCE
  PROVE  ItemInv'
<1>1. /\ seqItem # NULL /\ seqItem' = NULL
      /\ heap' = listNodeAppend(With(heap, YYVAL, Item(NULL)), YYVAL, seqItem)
      /\ length' = [length EXCEPT ![YYVAL] = -1]
      /\ allocated' = allocated /\ identifier' = identifier /\ undefined' = undefined
  BY DEF SEQUENCE
<1>2. PICK q : q = seqItem
  OBVIOUS
<1>3. PICK w : w = With(heap, YYVAL, Item(NULL))
  OBVIOUS
<1>4. PICK g : g = listNodeAppend(w, YYVAL, q)
  OBVIOUS
<1>5. PICK n \in Nat : n = allocated /\ n \in 0..MaxNodes /\ n <= n
  BY ItemInvIs
<1>6. /\ ItemHeap(heap, n) /\ Rows(heap, n) /\ Waits(heap, n, q)
  BY <1>2, <1>5, ItemInvIs
<1>7. /\ q # NULL /\ q \in 1..n /\ q \in DOMAIN heap /\ YYVAL \notin DOMAIN heap
      /\ heap[q].next = NULL /\ q # YYVAL
  BY <1>1, <1>2, <1>6, ItemNumbers DEF Waits
<1>8. /\ ItemHeap(w, n) /\ Untouched(heap, w, {}) /\ DOMAIN w = DOMAIN heap \cup {YYVAL}
      /\ ItemRow(w, n, YYVAL, <<>>)
  <2>1. YYVAL \in Sequences
    BY ItemNumbers
  <2> QED
    BY <1>3, <1>6, <1>7, <2>1, EmptyRow
<1>9. PICK T : T = ToSet(Headed(YYVAL, <<>>))
  OBVIOUS
<1>10. T = {YYVAL}
  <2>1. YYVAL \in {YYVAL} /\ <<>> \in Seq({YYVAL})
    OBVIOUS
  <2>2. ToSet(Headed(YYVAL, <<>>)) = {YYVAL} \cup ToSet(<<>>)
    BY <1>8, ItemRowIs
  <2>3. ToSet(<<>>) = {}
    BY DEF ToSet
  <2> QED
    BY <1>9, <2>2, <2>3
<1>11. /\ ItemHeap(g, n) /\ SameSequences(w, g) /\ Untouched(w, g, T \cup {q})
       /\ ItemRow(g, n, YYVAL, Append(<<>>, q))
  <2>1. /\ q \in DOMAIN w /\ q \notin ToSet(Headed(YYVAL, <<>>)) /\ w[q].next = NULL
        /\ q \in 1..n
    BY <1>7, <1>8, <1>9, <1>10 DEF Untouched
  <2>2. ItemHeap(g, n) /\ SameSequences(w, g)
    BY <1>4, <1>8, <2>1, JoinItem
  <2>4. Untouched(w, g, ToSet(Headed(YYVAL, <<>>)) \cup {q})
    BY <1>4, <1>8, <2>1, JoinItem
  <2>3. ItemRow(g, n, YYVAL, Append(<<>>, q))
    BY <1>4, <1>8, <2>1, JoinItem
  <2> QED
    BY <1>9, <2>2, <2>3, <2>4
<1>12. PICK S : S = {q}
  OBVIOUS
<1>13. Untouched(heap, g, S)
  BY <1>7, <1>8, <1>10, <1>11, <1>12 DEF Untouched
<1>14. ASSUME NEW t, NEW d, t # YYVAL, ItemRow(heap, n, t, d)
       PROVE  ToSet(Headed(t, d)) \cap S = {}
  <2>1. q \notin ToSet(Headed(t, d))
    BY <1>6, <1>7, <1>14, NotWaiting
  <2> QED
    BY <1>12, <2>1
<1>15. Rows(g, n)
  <2>1. \A t \in Sequences : t \in DOMAIN g /\ t # YYVAL => t \in DOMAIN heap
    BY <1>8, <1>11 DEF SameSequences
  <2>2. YYVAL \in DOMAIN g => \E d : ItemRow(g, n, YYVAL, d)
    BY <1>11
  <2> QED
    BY <1>5, <1>6, <1>13, <1>14, <2>1, <2>2, RowsStep
<1>16. HeapInv(g, n, NULL)
  BY <1>5, <1>11, <1>15 DEF HeapInv, Waits
<1>17. ItemValues(identifier', length', undefined')
  BY <1>1, ItemInvIs, ItemNumbers DEF ItemValues
<1> QED
  BY <1>1, <1>2, <1>3, <1>4, <1>5, <1>16, <1>17, ItemInvIf

LEMMA ReduceStep ==
  ASSUME ItemInv, Reduce
  PROVE  ItemInv'
<1>1. /\ YYVAL \in DOMAIN heap /\ heap' = Free(heap, {YYVAL}) /\ allocated' = allocated
      /\ seqItem' = seqItem /\ identifier' = identifier /\ length' = length
      /\ undefined' = undefined
  BY DEF Reduce, Alive
<1>2. PICK c : ItemRow(heap, allocated, YYVAL, c)
  BY <1>1, ItemNumbers, AliveIs DEF Alive
<1>3. PICK S : S = {YYVAL}
  OBVIOUS
<1>4. YYVAL \in S /\ S \subseteq {YYVAL, heap[YYVAL].next}
  BY <1>3
<1>5. HeapInv(Free(heap, S), allocated, seqItem)
  BY <1>2, <1>4, ItemInvIs, ReleaseRow
<1> QED
  BY <1>1, <1>3, <1>5, ItemInvIs, ItemInvIf
-----------------------------------------------------------------------------
(***************************************************************************)
(* The theorems of the sequences.                                          *)
(***************************************************************************)
LEMMA ItemStart == ItemInit => ItemInv
<1> SUFFICES ASSUME ItemInit PROVE ItemInv
  OBVIOUS
<1>1. /\ heap = <<>> /\ allocated = 0 /\ seqItem = NULL
      /\ identifier = [[s \in Sequences |-> NULL] EXCEPT ![YYVAL] = YYVAL]
      /\ length = [s \in Sequences |-> 0]
      /\ undefined = FALSE
  BY DEF ItemInit
<1>2. DOMAIN heap = {} /\ heap = [x \in DOMAIN heap |-> heap[x]]
  BY <1>1
<1>3. ItemHeap(heap, allocated)
  <2>1. IsFiniteSet(DOMAIN heap)
    BY <1>2, FS_EmptySet
  <2> QED
    BY <1>2, <2>1 DEF ItemHeap, IsHeap, Tagged
<1>4. Rows(heap, allocated) /\ Waits(heap, allocated, seqItem) /\ allocated \in 0..MaxNodes
  BY <1>1, <1>2, ItemNumbers DEF Rows, Waits
<1>5. ItemValues(identifier, length, undefined)
  BY <1>1, ItemNumbers DEF ItemValues
<1> QED
  BY <1>3, <1>4, <1>5 DEF ItemInv, HeapInv

LEMMA CallStep ==
  ASSUME ItemInv, NEW s \in Seqs, Alive(s), SequenceCall(s)
  PROVE  ItemInv'
<1>1. s \in Sequences
  BY ItemNumbers
<1>2. CASE seqDestructor(s)
  BY <1>1, <1>2, DestructorStep
<1>3. CASE CopyAndDestruct(s)
  BY <1>1, <1>3, CopiesLostStep
<1>4. CASE Memory(1) /\ seqAddItem(s, Given[Fresh(1)])
  BY <1>1, <1>4, ItemGivenIs, AddItemStep
<1>5. ASSUME NEW e \in Columns, seqDelItem(s, e) PROVE ItemInv'
  BY <1>1, <1>5, DelItemStep
<1>6. ASSUME NEW e \in Columns, seqSearch(s, e) PROVE ItemInv'
  BY <1>1, <1>6, SearchStep
<1>7. CASE SetIdentifier(s)
  BY <1>1, <1>7, NameStep
<1> QED
  BY <1>2, <1>3, <1>4, <1>5, <1>6, <1>7 DEF SequenceCall

LEMMA CallOfTwoStep ==
  ASSUME ItemInv, NEW s \in Seqs, NEW t \in Sequences, Alive(t), SequencesCall(s, t)
  PROVE  ItemInv'
<1>1. s \in Sequences
  BY ItemNumbers
<1>2. CASE seqCopy(t, s)
  BY <1>1, <1>2, CopyStep
<1>3. CASE Alive(s) /\ seqAssignment(s, t)
  BY <1>1, <1>3, AssignmentStep
<1>4. CASE Alive(s) /\ seqIsEqual(s, t)
  BY <1>1, <1>4, EqualStep
<1>5. CASE Alive(s) /\ seqItemAssignment(s, t)
  BY <1>1, <1>5, ItemAssignmentStep
<1> QED
  BY <1>2, <1>3, <1>4, <1>5 DEF SequencesCall

LEMMA ItemStep == ItemInv /\ [ItemNext]_itemVars => ItemInv'
<1> SUFFICES ASSUME ItemInv, [ItemNext]_itemVars PROVE ItemInv'
  OBVIOUS
<1>1. CASE UNCHANGED itemVars
  <2>1. /\ heap' = heap /\ allocated' = allocated /\ seqItem' = seqItem
        /\ identifier' = identifier /\ length' = length /\ undefined' = undefined
    BY <1>1 DEF itemVars
  <2> QED
    BY <2>1, ItemInvIs, ItemInvIf
<1>2. ASSUME NEW s \in Seqs, seqConst(s) PROVE ItemInv'
  BY <1>2, ConstStep
<1>3. ASSUME NEW s \in Seqs, Alive(s), SequenceCall(s) PROVE ItemInv'
  BY <1>3, CallStep
<1>4. ASSUME NEW s \in Seqs, NEW t \in Sequences, Alive(t), SequencesCall(s, t) PROVE ItemInv'
  BY <1>4, CallOfTwoStep
<1>5. CASE Memory(1) /\ SEQ_ITEM(Given[Fresh(1)])
  BY <1>5, ItemGivenIs, ItemProduction
<1>6. CASE SEQUENCE
  BY <1>6, SequenceProduction
<1>7. CASE Reduce
  BY <1>7, ReduceStep
<1> QED
  BY <1>1, <1>2, <1>3, <1>4, <1>5, <1>6, <1>7 DEF ItemNext

\* The inductive invariant of the sequences: behind the head of each that is alive
\* there is a row of items of its own, and the item that waits for its sequence is in none.
THEOREM ItemsAreSound == ItemSpec => []ItemInv
<1>1. ItemSpec => ItemInit /\ [][ItemNext]_itemVars
  BY DEF ItemSpec
<1> QED
  BY <1>1, ItemStart, ItemStep, PTL

LEMMA ItemInvTypes == ItemInv => ItemTypeOK
<1> SUFFICES ASSUME ItemInv PROVE ItemTypeOK
  OBVIOUS
<1>1. ASSUME NEW n \in DOMAIN heap
      PROVE  /\ heap[n].column \in Columns \cup {NULL}
             /\ heap[n].column = NULL <=> n \in Sequences
  BY ItemInvIs DEF ItemHeap, Tagged
<1>2. /\ YYVAL \in DOMAIN heap => seqItem = NULL
      /\ seqItem \in (1..allocated) \cup {NULL}
  BY ItemInvIs DEF Waits
<1>3. /\ DOMAIN heap \subseteq (1..allocated) \cup Sequences /\ allocated \in 0..MaxNodes
      /\ identifier \in [Sequences -> Sequences \cup {NULL}]
      /\ length \in [Sequences -> Nat \cup {-1}] /\ undefined \in BOOLEAN
  BY ItemInvIs
<1> QED
  BY <1>1, <1>2, <1>3 DEF ItemTypeOK

LEMMA ItemInvOwn == ItemInv => ChainsAreOwn
<1> SUFFICES ASSUME ItemInv PROVE ChainsAreOwn
  OBVIOUS
<1>1. allocated \in Nat /\ ItemHeap(heap, allocated)
  BY ItemInvIs
<1>2. ASSUME NEW s \in Sequences, Alive(s)
      PROVE  LET items == ItemsOf(s) IN
               /\ ToSet(items) \subseteq 1..allocated /\ ToSet(items) \subseteq DOMAIN heap
               /\ \A i \in DOMAIN items :
                    heap[items[i]].prev = IF i = 1 THEN s ELSE items[i - 1]
  <2>1. PICK c : ItemRow(heap, allocated, s, c) /\ ItemsOf(s) = c
    BY <1>2, AliveIs
  <2>2. /\ IsRow(heap, c) /\ (c # <<>> => heap[c[1]].prev = s)
        /\ ToSet(c) \subseteq 1..allocated /\ ToSet(c) \subseteq DOMAIN heap
    BY <1>1, <2>1, ItemRowIs
  <2>3. ASSUME NEW i \in DOMAIN c
        PROVE  heap[c[i]].prev = IF i = 1 THEN s ELSE c[i - 1]
    <3>1. i \in 1..Len(c) /\ Len(c) \in Nat
      BY <2>2, RowFacts
    <3>2. c # <<>>
      BY <2>2, <3>1, RowFacts
    <3>3. i # 1 => i \in 2..Len(c)
      BY <3>1
    <3> QED
      BY <2>2, <3>2, <3>3, RowFacts
  <2> QED
    BY <2>1, <2>2, <2>3
<1>3. ASSUME NEW s \in Sequences, NEW t \in Sequences, s # t, Alive(s), Alive(t)
      PROVE  ToSet(ItemsOf(s)) \cap ToSet(ItemsOf(t)) = {}
  <2>1. PICK c : ItemRow(heap, allocated, s, c) /\ ItemsOf(s) = c
    BY <1>3, AliveIs
  <2>2. PICK d : ItemRow(heap, allocated, t, d) /\ ItemsOf(t) = d
    BY <1>3, AliveIs
  <2>3. ToSet(Headed(s, c)) \cap ToSet(Headed(t, d)) = {}
    BY <1>1, <1>3, <2>1, <2>2, ItemRowsApart
  <2>4. ToSet(c) \subseteq ToSet(Headed(s, c)) /\ ToSet(d) \subseteq ToSet(Headed(t, d))
    BY <1>1, <2>1, <2>2, ItemRowIs
  <2> QED
    BY <2>1, <2>2, <2>3, <2>4
<1> QED
  BY <1>2, <1>3 DEF ChainsAreOwn

\* yy_syn.def.c and the productions keep their values in their ranges, and an
\* item waits only while the value of the production is not a sequence.
THEOREM ItemTypesHold == ItemSpec => []ItemTypeOK
BY ItemsAreSound, ItemInvTypes, PTL

\* The items behind a sequence are allocated, its own and linked both ways,
\* whatever was added, deleted, copied, released or reduced before.
THEOREM SequencesOwnChains == ItemSpec => []ChainsAreOwn
BY ItemsAreSound, ItemInvOwn, PTL

\* What one call on a sequence that is alive promises.
LEMMA ItemPromise ==
  ASSUME ItemInv, NEW s \in Sequences, Alive(s)
  PROVE  LET old == ColumnsOf(s) IN
         /\ Memory(1) /\ seqAddItem(s, Given[Fresh(1)]) =>
              ColumnsOf(s)' = Append(old, Given[Fresh(1)])
         /\ \A c \in Columns :
              /\ seqDelItem(s, c) =>
                   ColumnsOf(s)' = RemoveFirst(old, c) /\ answer' = (c \in ToSet(old))
              /\ seqSearch(s, c) => answer' = (c \in ToSet(old))
         /\ \A t \in Sequences :
              /\ seqCopy(s, t) => undefined' \/ (ColumnsOf(t)' = old /\ ColumnsOf(s)' = old)
              /\ Alive(t) /\ seqAssignment(s, t) =>
                   undefined' \/ ColumnsOf(s)' = ColumnsOf(t)
              /\ Alive(t) /\ seqIsEqual(s, t) =>
                   /\ Counted(s) /\ Counted(t) =>
                        answer' = (SameName(s, t) /\ old = ColumnsOf(t))
                   /\ s = t => answer' = (SameName(s, s) /\ length[s] <= Len(old))
<1>1. ASSUME Memory(1), seqAddItem(s, Given[Fresh(1)])
      PROVE  ColumnsOf(s)' = Append(ColumnsOf(s), Given[Fresh(1)])
  BY <1>1, ItemGivenIs, AddItemStep
<1>2. ASSUME NEW c \in Columns, seqDelItem(s, c)
      PROVE  /\ ColumnsOf(s)' = RemoveFirst(ColumnsOf(s), c)
             /\ answer' = (c \in ToSet(ColumnsOf(s)))
  BY <1>2, DelItemStep
<1>3. ASSUME NEW c \in Columns, seqSearch(s, c)
      PROVE  answer' = (c \in ToSet(ColumnsOf(s)))
  BY <1>3, SearchStep
<1>4. ASSUME NEW t \in Sequences, seqCopy(s, t)
      PROVE  undefined' \/ (ColumnsOf(t)' = ColumnsOf(s) /\ ColumnsOf(s)' = ColumnsOf(s))
  BY <1>4, CopyStep
<1>5. ASSUME NEW t \in Sequences, Alive(t), seqAssignment(s, t)
      PROVE  undefined' \/ ColumnsOf(s)' = ColumnsOf(t)
  BY <1>5, AssignmentStep
<1>6. ASSUME NEW t \in Sequences, Alive(t), seqIsEqual(s, t)
      PROVE  /\ Counted(s) /\ Counted(t) =>
                  answer' = (SameName(s, t) /\ ColumnsOf(s) = ColumnsOf(t))
             /\ s = t => answer' = (SameName(s, s) /\ length[s] <= Len(ColumnsOf(s)))
  BY <1>6, EqualStep
<1> QED
  BY <1>1, <1>2, <1>3, <1>4, <1>5, <1>6, Zenon

\* Every call of yy_syn.def.c on a sequence that is alive keeps its promise: what
\* is added, deleted, found, copied, assigned and compared.
THEOREM ItemPromises == ItemSpec => ItemsKeepPromises
<1>1. ItemInv => \A s \in Sequences : Alive(s) =>
       LET old == ColumnsOf(s) IN
       /\ Memory(1) /\ seqAddItem(s, Given[Fresh(1)]) =>
            ColumnsOf(s)' = Append(old, Given[Fresh(1)])
       /\ \A c \in Columns :
            /\ seqDelItem(s, c) =>
                 ColumnsOf(s)' = RemoveFirst(old, c) /\ answer' = (c \in ToSet(old))
            /\ seqSearch(s, c) => answer' = (c \in ToSet(old))
       /\ \A t \in Sequences :
            /\ seqCopy(s, t) => undefined' \/ (ColumnsOf(t)' = old /\ ColumnsOf(s)' = old)
            /\ Alive(t) /\ seqAssignment(s, t) =>
                 undefined' \/ ColumnsOf(s)' = ColumnsOf(t)
            /\ Alive(t) /\ seqIsEqual(s, t) =>
                 /\ Counted(s) /\ Counted(t) =>
                      answer' = (SameName(s, t) /\ old = ColumnsOf(t))
                 /\ s = t => answer' = (SameName(s, s) /\ length[s] <= Len(old))
  BY ItemPromise, Zenon
<1> QED
  BY <1>1, ItemsAreSound, PTL DEF ItemsKeepPromises
=============================================================================
