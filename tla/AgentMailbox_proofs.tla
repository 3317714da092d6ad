------------------------ MODULE AgentMailbox_proofs ------------------------
(***************************************************************************)
(* Inboxes and waits: every state is well typed, no wait sleeps over its   *)
(* answer, a closed inbox stays empty and messages keep their order.       *)
(***************************************************************************)
EXTENDS AgentMailbox, FiniteSetTheorems, SequenceTheorems, TLAPS

-----------------------------------------------------------------------------
(* Positions in a finite set of numbers.                                    *)

LEMMA UpTo ==
  ASSUME NEW n \in Nat
  PROVE  IsFiniteSet(1..n) /\ Cardinality(1..n) = n
  BY FS_Interval

Rank(D, k) == Cardinality({j \in D : j <= k})

\* Ranks tell the elements apart and are at most the size of the set.
LEMMA RankOrder ==
  ASSUME NEW D \in SUBSET Int, IsFiniteSet(D)
  PROVE  /\ Cardinality(D) \in Nat
         /\ \A k \in D : Rank(D, k) \in 1..Cardinality(D)
         /\ \A k, l \in D : k < l => Rank(D, k) < Rank(D, l)
<1>1. Cardinality(D) \in Nat
  BY FS_CardinalityType
<1>2. ASSUME NEW k \in D
      PROVE  /\ IsFiniteSet({j \in D : j <= k}) /\ Rank(D, k) \in Nat
             /\ Rank(D, k) <= Cardinality(D) /\ Rank(D, k) # 0
  <2>1. /\ IsFiniteSet({j \in D : j <= k})
        /\ Cardinality({j \in D : j <= k}) <= Cardinality(D)
    BY FS_Subset
  <2>2. Cardinality({j \in D : j <= k}) \in Nat
    BY <2>1, FS_CardinalityType
  <2>3. k \in {j \in D : j <= k}
    OBVIOUS
  <2>4. Cardinality({j \in D : j <= k}) # 0
    BY <2>1, <2>3, FS_EmptySet
  <2> QED BY <2>1, <2>2, <2>4 DEF Rank
<1>3. ASSUME NEW k \in D, NEW l \in D, k < l
      PROVE  Rank(D, k) < Rank(D, l)
  <2> DEFINE K == {j \in D : j <= k}
             L == {j \in D : j <= l}
  <2>0. k \in Int /\ l \in Int /\ \A j \in D : j \in Int
    OBVIOUS
  <2>1. K \subseteq L /\ l \in L /\ l \notin K
    <3>1. \A j \in K : j \in D /\ j <= k
      OBVIOUS
    <3>2. \A j \in K : j <= l
      BY <1>3, <2>0, <3>1
    <3>3. ~(l <= k) /\ l <= l
      BY <1>3, <2>0
    <3>4. K \subseteq L
      BY <3>1, <3>2
    <3>5. l \in L
      BY <3>3
    <3>6. l \notin K
      BY <3>3
    <3> QED BY <3>4, <3>5, <3>6
  <2>2. IsFiniteSet(L) /\ IsFiniteSet(K) /\ Cardinality(L) \in Nat /\ Cardinality(K) \in Nat
    BY <1>2 DEF Rank
  <2>3. Cardinality(K) <= Cardinality(L) /\ (Cardinality(L) = Cardinality(K) => L = K)
    BY <2>1, <2>2, FS_Subset
  <2>4. Cardinality(K) < Cardinality(L)
    <3> HIDE DEF K, L
    <3> QED BY <2>1, <2>2, <2>3
  <2> QED BY <2>4 DEF Rank
<1>4. \A k \in D : Rank(D, k) \in 1..Cardinality(D)
  <2> TAKE k \in D
  <2>1. /\ Rank(D, k) \in Nat /\ Rank(D, k) <= Cardinality(D) /\ Rank(D, k) # 0
    BY <1>2
  <2> QED BY <1>1, <2>1
<1>5. \A k, l \in D : k < l => Rank(D, k) < Rank(D, l)
  BY <1>3
<1> QED BY <1>1, <1>4, <1>5

\* Every rank up to the size of the set is taken.
LEMMA RankExists ==
  ASSUME NEW D \in SUBSET Int, IsFiniteSet(D), NEW i \in 1..Cardinality(D)
  PROVE  \E k \in D : Rank(D, k) = i
<1> DEFINE N == Cardinality(D)
           f == [k \in D |-> Rank(D, k)]
<1>1. N \in Nat /\ f \in [D -> 1..N]
  BY RankOrder
<1>2. f \in Injection(D, 1..N)
  <2>1. \A k, l \in D : k # l => k < l \/ l < k
    OBVIOUS
  <2>2. \A k, l \in D : f[k] = f[l] => k = l
    BY <1>1, <2>1, RankOrder
  <2> QED BY <1>1, <2>2 DEF Injection, IsInjective
<1>3. IsFiniteSet(1..N) /\ Cardinality(1..N) = N
  BY <1>1, UpTo
<1>4. f \in Surjection(D, 1..N)
  BY <1>2, <1>3, FS_Injection
<1>5. \E k \in D : f[k] = i
  BY <1>4 DEF Surjection
<1> QED BY <1>5

\* A finite set of numbers that is not empty has a least element.
LEMMA MinIn ==
  ASSUME NEW D \in SUBSET Int, IsFiniteSet(D), D # {}
  PROVE  Min(D) \in D
<1>1. Cardinality(D) \in Nat /\ Cardinality(D) # 0
  BY FS_CardinalityType, FS_EmptySet
<1>2. PICK k \in D : Rank(D, k) = 1
  BY <1>1, RankExists
<1>3. IsFiniteSet({j \in D : j <= k}) /\ k \in {j \in D : j <= k}
  BY FS_Subset
<1>4. \E x : {j \in D : j <= k} = {x}
  BY <1>2, <1>3, FS_Singleton DEF Rank
<1>5. {j \in D : j <= k} = {k}
  BY <1>3, <1>4
<1>6. \A y \in D : k <= y
  BY <1>5
<1> QED BY <1>6 DEF Min

-----------------------------------------------------------------------------
(* What may become of one inbox in a step.                                  *)

NoDup(b) == \A i, j \in DOMAIN b : b[i].id = b[j].id => i = j
Ids(b) == {b[i].id : i \in DOMAIN b}

\* What is left comes from the inbox ...
Part(b, b2) == \A i \in DOMAIN b2 : \E j \in DOMAIN b : b2[i] = b[j]

\* ... and no sender's message is taken before an earlier one.
Ordered(b, b2) ==
  \A i, j \in DOMAIN b :
    /\ i < j /\ b[i].sender = b[j].sender
    /\ Contains(b2, b[i])
    => Contains(b2, b[j])

Box(b) == b \in Seq(Message) /\ NoDup(b)

LEMMA BoxDomain ==
  ASSUME NEW b \in Seq(Message)
  PROVE  /\ Len(b) \in Nat /\ DOMAIN b = 1..Len(b)
         /\ \A i \in DOMAIN b : b[i] \in Message
  BY LenProperties, ElementOfSeq

LEMMA EmptyBox ==
  ASSUME NEW b
  PROVE  Box(<<>>) /\ Part(b, <<>>) /\ Ordered(b, <<>>)
  BY DEF Box, NoDup, Part, Ordered, Contains

LEMMA SameBox ==
  ASSUME NEW b
  PROVE  Part(b, b) /\ Ordered(b, b)
<1>1. Part(b, b)
  BY DEF Part
<1>2. \A j \in DOMAIN b : Contains(b, b[j])
  BY DEF Contains
<1> QED BY <1>1, <1>2 DEF Ordered

\* takeInboxInput takes from the front.
LEMMA OldestTaken ==
  ASSUME NEW b, Box(b)
  PROVE  Box(WithoutOldest(b)) /\ Part(b, WithoutOldest(b)) /\ Ordered(b, WithoutOldest(b))
<1> DEFINE M == MaxWaitMessages
           c == WithoutOldest(b)
<1>1. M \in Nat
  BY MailboxAssumption
<1>2. b \in Seq(Message) /\ Len(b) \in Nat /\ DOMAIN b = 1..Len(b) /\ NoDup(b)
  BY BoxDomain DEF Box
<1>3. \A i \in (M + 1)..Len(b) : b[i] \in Message
  BY <1>1, <1>2, BoxDomain
<1>4. /\ c \in Seq(Message)
      /\ Len(c) = IF M + 1 <= Len(b) THEN Len(b) - (M + 1) + 1 ELSE 0
      /\ \A i \in 1..(Len(b) - (M + 1) + 1) : c[i] = b[(M + 1) + i - 1]
  BY <1>1, <1>2, <1>3, SubSeqProperties DEF WithoutOldest
<1> HIDE DEF M, c
<1>22. Len(b) \in Nat
  BY <1>2
<1>43. Len(c) \in Nat
  BY <1>4, LenProperties
<1>44. Len(c) = IF M + 1 <= Len(b) THEN Len(b) - (M + 1) + 1 ELSE 0
  BY <1>4
<1>5. DOMAIN c = 1..Len(c)
  BY <1>4, BoxDomain
<1>55. \A i \in 1..Len(c) : i \in Nat /\ i + M \in 1..Len(b) /\ c[i] = b[i + M]
  <2> TAKE i \in 1..Len(c)
  <2>1. M + 1 <= Len(b) /\ Len(c) = Len(b) - (M + 1) + 1
    BY <1>1, <1>22, <1>43, <1>44
  <2>2. i \in 1..(Len(b) - (M + 1) + 1) /\ i \in Nat /\ i + M \in 1..Len(b)
    BY <1>1, <1>2, <2>1
  <2>3. (M + 1) + i - 1 = i + M
    BY <1>1, <2>2
  <2>4. c[i] = b[(M + 1) + i - 1]
    BY <1>4, <2>2
  <2> QED BY <2>2, <2>3, <2>4
<1>6. \A i \in DOMAIN c : i + M \in DOMAIN b /\ c[i] = b[i + M] /\ i \in Nat
  BY <1>2, <1>5, <1>55
<1>7. \A j \in DOMAIN b : j > M => j - M \in DOMAIN c /\ c[j - M] = b[j]
  <2> SUFFICES ASSUME NEW j \in 1..Len(b), j > M
               PROVE  j - M \in 1..Len(c) /\ c[j - M] = b[j]
    BY <1>2, <1>5
  <2>1. M + 1 <= Len(b) /\ Len(c) = Len(b) - (M + 1) + 1
    BY <1>1, <1>22, <1>43, <1>44
  <2>2. j - M \in 1..Len(c) /\ (j - M) + M = j
    BY <1>1, <1>2, <2>1
  <2> QED BY <2>2, <1>55
<1>8. NoDup(c)
  <2> SUFFICES ASSUME NEW i \in DOMAIN c, NEW j \in DOMAIN c, c[i].id = c[j].id
               PROVE  i = j
    BY DEF NoDup
  <2>1. i + M = j + M
    BY <1>2, <1>6 DEF NoDup
  <2> QED BY <1>1, <1>6, <2>1
<1>9. Part(b, c)
  BY <1>6 DEF Part
<1>10. Ordered(b, c)
  <2> SUFFICES ASSUME NEW i \in DOMAIN b, NEW j \in DOMAIN b, i < j, Contains(c, b[i])
               PROVE  Contains(c, b[j])
    BY DEF Ordered
  <2>1. PICK k \in DOMAIN c : c[k] = b[i]
    BY DEF Contains
  <2>2. b[k + M].id = b[i].id /\ k + M \in DOMAIN b
    BY <1>6, <2>1
  <2>3. k + M = i
    BY <1>2, <2>2 DEF NoDup
  <2>4. j > M
    BY <1>1, <1>2, <1>6, <2>3
  <2> QED BY <1>7, <2>4 DEF Contains
<1> QED BY <1>4, <1>8, <1>9, <1>10 DEF Box, c

Kept(b, targets) == DOMAIN b \ Matched(b, targets)

LEMMA KeptSize ==
  ASSUME NEW b \in Seq(Message), NEW targets
  PROVE  /\ Kept(b, targets) \in SUBSET Int /\ IsFiniteSet(Kept(b, targets))
         /\ Cardinality(Kept(b, targets)) \in Nat
         /\ Cardinality(Kept(b, targets)) = Len(b) - Cardinality(Matched(b, targets))
<1> DEFINE D == DOMAIN b
           T == Matched(b, targets)
<1>1. Len(b) \in Nat /\ D = 1..Len(b)
  BY BoxDomain
<1>2. IsFiniteSet(D) /\ Cardinality(D) = Len(b)
  BY <1>1, UpTo
<1>3. T \subseteq D
  BY DEF Matched, Matching
<1>4. IsFiniteSet(D \ T) /\ Cardinality(D \ T) = Cardinality(D) - Cardinality(D \cap T)
  BY <1>2, FS_Difference
<1>5. D \cap T = T
  BY <1>3
<1>6. Cardinality(D \ T) \in Nat
  BY <1>4, FS_CardinalityType
<1>7. D \ T \subseteq Int
  BY <1>1
<1>8. Cardinality(D \ T) = Len(b) - Cardinality(T)
  BY <1>2, <1>4, <1>5
<1>9. D \ T = Kept(b, targets)
  BY DEF Kept
<1> HIDE DEF D, T
<1> QED BY <1>4, <1>6, <1>7, <1>8, <1>9 DEF T

\* The messages left behind by drainMessages, by their ranks.
LEMMA DrainedIs ==
  ASSUME NEW b \in Seq(Message), NEW targets
  PROVE  LET D == Kept(b, targets)
             c == Drained(b, targets)
         IN  /\ c \in Seq(Message)
             /\ \A i \in DOMAIN c : \E k \in D : Rank(D, k) = i /\ c[i] = b[k]
             /\ \A k \in D : Rank(D, k) \in DOMAIN c /\ c[Rank(D, k)] = b[k]
<1> DEFINE D == Kept(b, targets)
           c == Drained(b, targets)
           N == Cardinality(D)
<1>1. D \in SUBSET Int /\ IsFiniteSet(D) /\ N \in Nat
  BY KeptSize
<1>2. c = [i \in 1..N |-> b[CHOOSE k \in D : Rank(D, k) = i]]
  BY KeptSize DEF Drained, Kept, Rank
<1> HIDE DEF c, N
<1>3. \A i \in 1..N : \E k \in D : Rank(D, k) = i
  BY <1>1, RankExists DEF N
<1>4. \A i \in 1..N : \E k \in D : Rank(D, k) = i /\ c[i] = b[k]
  BY <1>2, <1>3
<1>5. DOMAIN c = 1..N
  BY <1>2
<1>6. \A k \in D : Rank(D, k) \in 1..N
  BY <1>1, RankOrder DEF N
<1>7. \A k, l \in D : Rank(D, k) = Rank(D, l) => k = l
  <2> SUFFICES ASSUME NEW k \in D, NEW l \in D, Rank(D, k) = Rank(D, l) PROVE k = l
    OBVIOUS
  <2>1. k \in Int /\ l \in Int /\ Rank(D, k) \in Int /\ Rank(D, l) \in Int
    BY <1>1, <1>6
  <2>2. ~(k < l) /\ ~(l < k)
    BY <1>1, <2>1, RankOrder
  <2> QED BY <2>1, <2>2
<1>8. \A k \in D : c[Rank(D, k)] = b[k]
  BY <1>4, <1>6, <1>7
<1>9. D \subseteq DOMAIN b /\ \A k \in D : b[k] \in Message
  BY BoxDomain DEF Kept
<1>10. c \in [1..N -> Message]
  <2>1. \A i \in 1..N : c[i] \in Message
    BY <1>4, <1>9
  <2>2. c = [i \in 1..N |-> c[i]]
    BY <1>2
  <2> QED BY <2>1, <2>2
<1>11. c \in Seq(Message)
  BY <1>1, <1>10, SeqDef
<1>12. \A i \in DOMAIN c : \E k \in D : Rank(D, k) = i /\ c[i] = b[k]
  BY <1>4, <1>5
<1>13. \A k \in D : Rank(D, k) \in DOMAIN c /\ c[Rank(D, k)] = b[k]
  BY <1>5, <1>6, <1>8
<1> QED BY <1>11, <1>12, <1>13 DEF c

\* drainMessages takes the oldest messages of the targets.
LEMMA DrainTaken ==
  ASSUME NEW b, Box(b), NEW targets
  PROVE  /\ Box(Drained(b, targets)) /\ Part(b, Drained(b, targets))
         /\ Ordered(b, Drained(b, targets))
<1> DEFINE D == Kept(b, targets)
           c == Drained(b, targets)
<1>1. b \in Seq(Message) /\ NoDup(b) /\ DOMAIN b = 1..Len(b) /\ Len(b) \in Nat
  BY BoxDomain DEF Box
<1>2. D \subseteq DOMAIN b
  BY DEF Kept
<1>3. /\ c \in Seq(Message)
      /\ \A i \in DOMAIN c : \E k \in D : Rank(D, k) = i /\ c[i] = b[k]
      /\ \A k \in D : Rank(D, k) \in DOMAIN c /\ c[Rank(D, k)] = b[k]
  BY <1>1, DrainedIs
<1> HIDE DEF c, D
<1>4. NoDup(c)
  <2> SUFFICES ASSUME NEW i \in DOMAIN c, NEW j \in DOMAIN c, c[i].id = c[j].id
               PROVE  i = j
    BY DEF NoDup
  <2>1. PICK k \in D : Rank(D, k) = i /\ c[i] = b[k]
    BY <1>3
  <2>2. PICK l \in D : Rank(D, l) = j /\ c[j] = b[l]
    BY <1>3
  <2>3. k = l
    BY <1>1, <1>2, <2>1, <2>2 DEF NoDup
  <2> QED BY <2>1, <2>2, <2>3
<1>5. Part(b, c)
  BY <1>2, <1>3 DEF Part
<1>6. Ordered(b, c)
  <2> SUFFICES ASSUME NEW i \in DOMAIN b, NEW j \in DOMAIN b, i < j,
                      b[i].sender = b[j].sender, Contains(c, b[i])
               PROVE  Contains(c, b[j])
    BY DEF Ordered
  <2>1. PICK n \in DOMAIN c : c[n] = b[i]
    BY DEF Contains
  <2>2. PICK m \in D : c[n] = b[m]
    BY <1>3
  <2>3. i \in D
    BY <1>1, <1>2, <2>1, <2>2 DEF NoDup
  <2>4. j \in D
    <3> DEFINE X == Matching(b, targets)
               XI == {k \in X : k < i}
               XJ == {k \in X : k < j}
    <3> SUFFICES ASSUME j \in X, Cardinality(XJ) < MaxWaitMessages
                 PROVE  i \in X /\ Cardinality(XI) < MaxWaitMessages
      BY <2>3 DEF D, Kept, Matched
    <3>1. i \in X
      BY DEF Matching
    <3>2. i \in Nat /\ j \in Nat /\ \A k \in X : k \in Nat
      BY <1>1 DEF Matching
    <3>3. XI \subseteq XJ
      BY <3>2
    <3>4. IsFiniteSet(DOMAIN b) /\ XJ \subseteq DOMAIN b
      BY <1>1, UpTo DEF Matching
    <3>5. IsFiniteSet(XJ)
      BY <3>4, FS_Subset
    <3>6. /\ IsFiniteSet(XI) /\ Cardinality(XI) <= Cardinality(XJ)
          /\ Cardinality(XI) \in Nat /\ Cardinality(XJ) \in Nat
      BY <3>3, <3>5, FS_Subset, FS_CardinalityType
    <3>7. MaxWaitMessages \in Nat
      BY MailboxAssumption
    <3>8. Cardinality(XI) < MaxWaitMessages
      <4> HIDE DEF XI, XJ
      <4> QED BY <3>6, <3>7
    <3> QED BY <3>1, <3>8
  <2>5. Rank(D, j) \in DOMAIN c /\ c[Rank(D, j)] = b[j]
    BY <1>3, <2>4
  <2> QED BY <2>5 DEF Contains
<1> QED BY <1>3, <1>4, <1>5, <1>6 DEF Box, c

\* A message posted to an inbox that is not full has an id of its own.
LEMMA NewId ==
  ASSUME NEW b, Box(b), Len(b) < MaxInboxMessages
  PROVE  Min((1..MaxInboxMessages) \ Ids(b)) \in (1..MaxInboxMessages) \ Ids(b)
<1> DEFINE M == MaxInboxMessages
           R == (1..M) \ Ids(b)
           f == [i \in DOMAIN b |-> b[i].id]
<1>1. M \in Nat
  BY MailboxAssumption
<1>2. Len(b) \in Nat /\ DOMAIN b = 1..Len(b) /\ Len(b) < M
  BY BoxDomain DEF Box
<1>21. Len(b) \in Nat
  BY <1>2
<1>22. IsFiniteSet(1..Len(b)) /\ Cardinality(1..Len(b)) = Len(b)
  BY <1>21, UpTo
<1>3. IsFiniteSet(DOMAIN b) /\ Cardinality(DOMAIN b) = Len(b)
  BY <1>2, <1>22
<1>4. f \in Surjection(DOMAIN b, Ids(b))
  BY DEF Surjection, Ids
<1>5. IsFiniteSet(Ids(b)) /\ Cardinality(Ids(b)) <= Len(b)
  BY <1>3, <1>4, FS_Surjection
<1>6. IsFiniteSet(1..M) /\ Cardinality(1..M) = M
  BY <1>1, UpTo
<1>7. IsFiniteSet(R)
  BY <1>6, FS_Difference
<1>8. R # {}
  <2> SUFFICES ASSUME R = {} PROVE FALSE
    OBVIOUS
  <2>1. 1..M \subseteq Ids(b)
    OBVIOUS
  <2>2. M <= Cardinality(Ids(b)) /\ Cardinality(Ids(b)) \in Nat
    BY <1>5, <1>6, <2>1, FS_Subset, FS_CardinalityType
  <2> QED BY <1>1, <1>2, <1>5, <2>2
<1>9. R \in SUBSET Int
  BY <1>1
<1> QED BY <1>7, <1>8, <1>9, MinIn

New(b, sender) == [id |-> Min((1..MaxInboxMessages) \ Ids(b)), sender |-> sender]

LEMMA Posted ==
  ASSUME NEW b, Box(b), Len(b) < MaxInboxMessages, NEW sender \in Nodes
  PROVE  /\ Box(Append(b, New(b, sender)))
         /\ Ordered(b, Append(b, New(b, sender)))
<1> DEFINE m == New(b, sender)
           c == Append(b, m)
<1>1. m.id \in 1..MaxInboxMessages /\ m.id \notin Ids(b) /\ m \in Message
  BY NewId DEF New, Message
<1> HIDE DEF m
<1>2. b \in Seq(Message) /\ Len(b) \in Nat /\ DOMAIN b = 1..Len(b) /\ NoDup(b)
  BY BoxDomain DEF Box
<1>3. /\ c \in Seq(Message) /\ Len(c) = Len(b) + 1
      /\ \A i \in 1..Len(b) : c[i] = b[i]
      /\ c[Len(b) + 1] = m
  BY <1>1, <1>2, AppendProperties
<1> HIDE DEF c
<1>4. DOMAIN c = 1..(Len(b) + 1)
  BY <1>3, BoxDomain
<1>5. \A i \in DOMAIN c : \/ i \in DOMAIN b /\ c[i] = b[i]
                          \/ i = Len(b) + 1 /\ c[i] = m
  BY <1>2, <1>3, <1>4
<1>6. \A i \in DOMAIN b : i \in DOMAIN c /\ c[i] = b[i] /\ b[i].id # m.id
  <2>1. \A i \in DOMAIN b : i \in DOMAIN c
    BY <1>2, <1>4
  <2>2. \A i \in DOMAIN b : b[i].id # m.id
    BY <1>1 DEF Ids
  <2> QED BY <1>2, <1>3, <2>1, <2>2
<1>7. NoDup(c)
  BY <1>2, <1>5, <1>6 DEF NoDup
<1>8. \A i \in DOMAIN b : Contains(c, b[i])
  <2> TAKE i \in DOMAIN b
  <2> QED BY <1>6 DEF Contains
<1> QED BY <1>3, <1>7, <1>8 DEF Box, Ordered, c, m

-----------------------------------------------------------------------------
(* All inboxes.                                                             *)

Boxes == [Nodes -> {b \in Seq(Message) : NoDup(b)}]

\* What a section does to the inboxes: nothing reaches an agent being closed.
Carried(ns, boxes, boxes2) ==
  /\ boxes2 \in Boxes
  /\ \A n \in Nodes :
       /\ Ordered(boxes[n], boxes2[n])
       /\ ns[n].closing /\ boxes[n] = <<>> => boxes2[n] = <<>>

LEMMA InBoxes ==
  ASSUME NEW boxes \in Boxes, NEW n \in Nodes
  PROVE  Box(boxes[n])
  BY DEF Boxes, Box

LEMMA PartOfEmpty ==
  ASSUME NEW b2, Box(b2), Part(<<>>, b2)
  PROVE  b2 = <<>>
<1>1. b2 \in Seq(Message) /\ Len(b2) \in Nat /\ DOMAIN b2 = 1..Len(b2)
  BY BoxDomain DEF Box
<1>2. DOMAIN b2 = {}
  BY DEF Part
<1>3. Len(b2) = 0
  BY <1>1, <1>2
<1> QED BY <1>1, <1>3, EmptySeq

\* One inbox changes.
LEMMA OneBox ==
  ASSUME NEW ns, NEW boxes \in Boxes, NEW n \in Nodes, NEW b,
         Box(b), Ordered(boxes[n], b),
         ns[n].closing /\ boxes[n] = <<>> => b = <<>>
  PROVE  Carried(ns, boxes, [boxes EXCEPT ![n] = b])
<1> DEFINE boxes2 == [boxes EXCEPT ![n] = b]
<1>1. boxes2 \in Boxes
  BY DEF Boxes, Box
<1>2. boxes2[n] = b /\ \A k \in Nodes : k # n => boxes2[k] = boxes[k]
  BY DEF Boxes
<1> HIDE DEF boxes2
<1>3. \A k \in Nodes : Ordered(boxes[k], boxes2[k])
  BY <1>2, SameBox
<1> QED BY <1>1, <1>2, <1>3 DEF Carried, boxes2

LEMMA NoBox ==
  ASSUME NEW ns, NEW boxes \in Boxes
  PROVE  Carried(ns, boxes, boxes)
  BY SameBox DEF Carried

LEMMA PartBox ==
  ASSUME NEW ns, NEW boxes \in Boxes, NEW n \in Nodes, NEW b,
         Box(b), Ordered(boxes[n], b), Part(boxes[n], b)
  PROVE  Carried(ns, boxes, [boxes EXCEPT ![n] = b])
<1>1. boxes[n] = <<>> => b = <<>>
  BY PartOfEmpty
<1> QED BY <1>1, OneBox

LEMMA PostCarried ==
  ASSUME NEW ns, NEW boxes \in Boxes, NEW n \in Nodes, NEW sender \in Nodes,
         Len(boxes[n]) < MaxInboxMessages, ~ns[n].closing
  PROVE  Carried(ns, boxes, Post(boxes, n, sender))
<1> DEFINE b == Append(boxes[n], New(boxes[n], sender))
<1>1. Box(boxes[n])
  BY InBoxes
<1>2. Box(b) /\ Ordered(boxes[n], b)
  BY <1>1, Posted
<1>3. Post(boxes, n, sender) = [boxes EXCEPT ![n] = b]
  BY DEF Post, New, Ids
<1> HIDE DEF b
<1>4. Carried(ns, boxes, [boxes EXCEPT ![n] = b])
  BY <1>2, OneBox
<1> QED BY <1>3, <1>4

LEMMA ParentIn ==
  ASSUME NEW a \in Agents
  PROVE  Parent[a] \in Nodes /\ Parent[a] # a /\ a \in Nodes /\ a \in Subtree(a)
  BY MailboxAssumption, TreeAssumption DEF Nodes, Subtree

LEMMA ReportCarried ==
  ASSUME NEW ns, NEW boxes \in Boxes, NEW a \in Agents
  PROVE  /\ Carried(ns, boxes, Report(ns, boxes, a))
         /\ \A n \in Nodes : n # Parent[a] => Report(ns, boxes, a)[n] = boxes[n]
<1> DEFINE p == Parent[a]
<1>1. p \in Nodes /\ a \in Nodes
  BY ParentIn
<1>2. Box(boxes[p]) /\ Len(boxes[p]) \in Nat /\ MaxInboxMessages \in Nat
  BY <1>1, InBoxes, BoxDomain, MailboxAssumption DEF Box
<1>3. CASE \/ ns[p].status = "closed" \/ ns[p].closing
           \/ Len(boxes[p]) >= MaxInboxMessages
  <2>1. Report(ns, boxes, a) = boxes
    BY <1>3 DEF Report
  <2> QED BY <2>1, NoBox
<1>4. CASE ~(\/ ns[p].status = "closed" \/ ns[p].closing
             \/ Len(boxes[p]) >= MaxInboxMessages)
  <2>1. Report(ns, boxes, a) = Post(boxes, p, a)
    BY <1>4 DEF Report
  <2>2. Len(boxes[p]) < MaxInboxMessages /\ ~ns[p].closing
    BY <1>2, <1>4
  <2>3. Carried(ns, boxes, Post(boxes, p, a))
    BY <1>1, <2>2, PostCarried
  <2>4. \A n \in Nodes : n # p => Post(boxes, p, a)[n] = boxes[n]
    BY DEF Post, Boxes
  <2> QED BY <2>1, <2>3, <2>4
<1> QED BY <1>3, <1>4

LEMMA RunCarried ==
  ASSUME NEW ns, NEW boxes \in Boxes, NEW a \in Nodes, NEW r
  PROVE  /\ Carried(ns, boxes, StartRun(boxes, a, r))
         /\ \A n \in Nodes : n # a => StartRun(boxes, a, r)[n] = boxes[n]
<1>1. Box(boxes[a])
  BY InBoxes
<1>2. CASE r.exec = "running"
  <2> DEFINE b == WithoutOldest(boxes[a])
  <2>1. StartRun(boxes, a, r) = [boxes EXCEPT ![a] = b]
    BY <1>2 DEF StartRun
  <2>2. Box(b) /\ Part(boxes[a], b) /\ Ordered(boxes[a], b)
    BY <1>1, OldestTaken
  <2> HIDE DEF b
  <2>3. Carried(ns, boxes, [boxes EXCEPT ![a] = b])
    BY <2>2, PartBox
  <2>4. \A n \in Nodes : n # a => [boxes EXCEPT ![a] = b][n] = boxes[n]
    BY DEF Boxes
  <2> QED BY <2>1, <2>3, <2>4
<1>3. CASE r.exec # "running"
  <2>1. StartRun(boxes, a, r) = boxes
    BY <1>3 DEF StartRun
  <2> QED BY <2>1, NoBox
<1> QED BY <1>2, <1>3

\* A result is reported, then the next run takes its inbox along.
LEMMA ReportThenRun ==
  ASSUME NEW ns, NEW boxes \in Boxes, NEW a \in Agents, NEW r
  PROVE  Carried(ns, boxes, StartRun(Report(ns, boxes, a), a, r))
<1> DEFINE mid == Report(ns, boxes, a)
           end == StartRun(mid, a, r)
<1>1. a \in Nodes /\ Parent[a] # a
  BY ParentIn
<1>2. Carried(ns, boxes, mid) /\ \A n \in Nodes : n # Parent[a] => mid[n] = boxes[n]
  BY ReportCarried
<1>3. mid \in Boxes
  BY <1>2 DEF Carried
<1> HIDE DEF mid
<1>4. Carried(ns, mid, end) /\ \A n \in Nodes : n # a => end[n] = mid[n]
  BY <1>1, <1>3, RunCarried
<1> HIDE DEF end
<1>5. \A n \in Nodes : end[n] = mid[n] \/ mid[n] = boxes[n]
  BY <1>1, <1>2, <1>4
<1>6. ASSUME NEW n \in Nodes
      PROVE  /\ Ordered(boxes[n], end[n])
             /\ ns[n].closing /\ boxes[n] = <<>> => end[n] = <<>>
  <2>1. CASE end[n] = mid[n]
    BY <1>2, <2>1 DEF Carried
  <2>2. CASE mid[n] = boxes[n]
    BY <1>4, <2>2 DEF Carried
  <2> QED BY <1>5, <2>1, <2>2
<1> QED BY <1>4, <1>6 DEF Carried, end, mid

-----------------------------------------------------------------------------
(* Agents and waits.                                                        *)

FrozenRecord(r) == r.cleanup => r.closing
LikeRecord(r, s) == s \in NodeRecord /\ s.closing = r.closing /\ s.cleanup = r.cleanup

LEMMA BeginTyped ==
  ASSUME NEW r \in NodeRecord, r.queue > 0
  PROVE  LikeRecord(r, Begin(r))
<1>1. r.queue - 1 \in Nat
  BY DEF NodeRecord
<1>2. Begin(r) \in NodeRecord
  BY <1>1 DEF Begin, NodeRecord, Status, Execution, Final
<1>3. Begin(r).closing = r.closing /\ Begin(r).cleanup = r.cleanup
  BY DEF Begin, NodeRecord
<1> QED BY <1>2, <1>3 DEF LikeRecord

LEMMA SettlingTyped ==
  ASSUME NEW r \in NodeRecord
  PROVE  LikeRecord(r, Settling(r))
  BY DEF LikeRecord, Settling, NodeRecord, Status, Execution, Final

LEMMA FreezeTyped ==
  ASSUME NEW r \in NodeRecord
  PROVE  /\ Freeze(r) \in NodeRecord /\ Freeze(r).closing /\ Freeze(r).cleanup = r.cleanup
         /\ [Freeze(r) EXCEPT !.due = TRUE] \in NodeRecord
         /\ [Freeze(r) EXCEPT !.due = TRUE].closing
         /\ [Freeze(r) EXCEPT !.due = TRUE].cleanup = r.cleanup
  BY DEF Freeze, NodeRecord

LEMMA CloseTyped ==
  ASSUME NEW r \in NodeRecord, FrozenRecord(r), NEW status \in Final
  PROVE  /\ CloseRecord(r, status) \in NodeRecord
         /\ FrozenRecord(CloseRecord(r, status))
         /\ CloseRecord(r, status).cleanup
<1>1. CASE r.cleanup
  <2>1. CloseRecord(r, status) = [r EXCEPT !.status = status, !.due = FALSE]
    BY <1>1 DEF CloseRecord
  <2> QED BY <1>1, <2>1 DEF NodeRecord, Status, FrozenRecord
<1>2. CASE ~r.cleanup
  <2> DEFINE s == [r EXCEPT !.closing = TRUE, !.queue = 0, !.status = status,
                            !.cleanup = TRUE, !.due = FALSE,
                            !.aborted = @ \/ r.exec \in {"creating", "running"}]
  <2>1. CloseRecord(r, status) = s
    BY <1>2 DEF CloseRecord, Freeze, NodeRecord
  <2>2. s \in NodeRecord /\ s.closing /\ s.cleanup
    BY DEF NodeRecord, Status
  <2> HIDE DEF s
  <2> QED BY <2>1, <2>2 DEF FrozenRecord
<1> QED BY <1>1, <1>2

Awake(ws) == \A w \in Waits : ws[w].phase # "asleep"
WaitTable == [Waits -> WaitRecord]

LEMMA NotifiedTyped ==
  ASSUME NEW ws \in WaitTable
  PROVE  Notified(ws) \in WaitTable /\ Awake(Notified(ws))
<1> DEFINE to(w) == [ws[w] EXCEPT !.phase = IF @ = "asleep" THEN "woken" ELSE @]
<1>1. ASSUME NEW w \in Waits
      PROVE  to(w) \in WaitRecord /\ to(w).phase # "asleep"
  BY DEF WaitTable, WaitRecord
<1>2. Notified(ws) = [w \in Waits |-> to(w)]
  BY DEF Notified
<1> HIDE DEF to
<1> QED BY <1>1, <1>2 DEF WaitTable, Awake

LEMMA AbortedTyped ==
  ASSUME NEW ws \in WaitTable, NEW S
  PROVE  Aborted(ws, S) \in WaitTable /\ (Awake(ws) => Awake(Aborted(ws, S)))
<1> DEFINE to(w) == IF ws[w].caller \in S /\ ws[w].phase # "over"
                    THEN [ws[w] EXCEPT !.aborted = TRUE,
                                       !.phase = IF @ = "asleep" THEN "over" ELSE @]
                    ELSE ws[w]
<1>1. ASSUME NEW w \in Waits
      PROVE  to(w) \in WaitRecord /\ (ws[w].phase # "asleep" => to(w).phase # "asleep")
  BY DEF WaitTable, WaitRecord
<1>2. Aborted(ws, S) = [w \in Waits |-> to(w)]
  BY DEF Aborted
<1> HIDE DEF to
<1> QED BY <1>1, <1>2 DEF WaitTable, Awake

-----------------------------------------------------------------------------
(* The invariant, and what every step does.                                 *)

CleanupIsClosing == \A n \in Nodes : FrozenRecord(nodes[n])
EmptyWhenClosed == \A a \in Agents : nodes[a].cleanup => inbox[a] = <<>>

MailboxInvariant ==
  /\ nodes \in [Nodes -> NodeRecord] /\ inbox \in Boxes
  /\ waits \in WaitTable /\ disposed \in BOOLEAN
  /\ CleanupIsClosing /\ EmptyWhenClosed /\ NoMissedUpdate

InOrder == \A n \in Nodes : Ordered(inbox[n], inbox'[n])

\* A section that wakes every wait.
LEMMA LoudStep ==
  ASSUME MailboxInvariant, nodes' \in [Nodes -> NodeRecord], inbox' \in Boxes,
         waits' \in WaitTable, Awake(waits'), disposed' \in BOOLEAN,
         CleanupIsClosing', EmptyWhenClosed', InOrder
  PROVE  MailboxInvariant' /\ InOrder
  BY DEF MailboxInvariant, NoMissedUpdate, Awake

LEMMA LoudTurn ==
  ASSUME MailboxInvariant, nodes' \in [Nodes -> NodeRecord],
         \A n \in Nodes : LikeRecord(nodes[n], nodes'[n]),
         Carried(nodes, inbox, inbox'),
         waits' \in WaitTable, Awake(waits'), disposed' \in BOOLEAN
  PROVE  MailboxInvariant' /\ InOrder
<1>1. CleanupIsClosing'
  BY DEF MailboxInvariant, CleanupIsClosing, FrozenRecord, LikeRecord
<1>2. EmptyWhenClosed'
  BY DEF MailboxInvariant, CleanupIsClosing, FrozenRecord, LikeRecord, EmptyWhenClosed,
         Carried, Nodes
<1>3. InOrder /\ inbox' \in Boxes
  BY DEF Carried, InOrder
<1> QED BY <1>1, <1>2, <1>3, LoudStep

\* One agent changes.
LEMMA OneNode ==
  ASSUME MailboxInvariant, NEW a \in Nodes, NEW r, LikeRecord(nodes[a], r),
         nodes' = [nodes EXCEPT ![a] = r]
  PROVE  /\ nodes' \in [Nodes -> NodeRecord]
         /\ \A n \in Nodes : LikeRecord(nodes[n], nodes'[n])
<1>1. r \in NodeRecord /\ nodes \in [Nodes -> NodeRecord]
  BY DEF LikeRecord, MailboxInvariant
<1>2. nodes' \in [Nodes -> NodeRecord]
  BY <1>1
<1>3. nodes'[a] = r /\ \A n \in Nodes : n # a => nodes'[n] = nodes[n]
  BY <1>1
<1>4. \A n \in Nodes : LikeRecord(nodes[n], nodes[n])
  BY <1>1 DEF LikeRecord
<1> QED BY <1>2, <1>3, <1>4

LEMMA SameNodes ==
  ASSUME MailboxInvariant
  PROVE  /\ nodes \in [Nodes -> NodeRecord]
         /\ \A n \in Nodes : LikeRecord(nodes[n], nodes[n])
  BY DEF LikeRecord, MailboxInvariant

\* What a step that wakes the waits does to them.
LEMMA Woken ==
  ASSUME MailboxInvariant
  PROVE  /\ Notified(waits) \in WaitTable /\ Awake(Notified(waits))
         /\ \A S : /\ Aborted(waits, S) \in WaitTable
                   /\ Aborted(Notified(waits), S) \in WaitTable
                   /\ Awake(Aborted(Notified(waits), S))
                   /\ Notified(Aborted(waits, S)) \in WaitTable
                   /\ Awake(Notified(Aborted(waits, S)))
  BY NotifiedTyped, AbortedTyped DEF MailboxInvariant

\* A section after which some wait may still sleep: it only takes messages.
LEMMA QuietStep ==
  ASSUME MailboxInvariant, nodes' = nodes, disposed' = disposed,
         NEW n \in Nodes, NEW b, Box(b), Part(inbox[n], b), Ordered(inbox[n], b),
         inbox' = [inbox EXCEPT ![n] = b],
         waits' \in WaitTable,
         \A w \in Waits : waits'[w].phase = "asleep"
                            => ~Answered(waits'[w].caller, waits'[w].targets)
  PROVE  MailboxInvariant' /\ InOrder
<1>1. nodes \in [Nodes -> NodeRecord] /\ inbox \in Boxes /\ disposed \in BOOLEAN
  BY DEF MailboxInvariant
<1>2. inbox' \in Boxes
  BY <1>1 DEF Boxes, Box
<1>3. \A k \in Nodes : inbox'[k] = IF k = n THEN b ELSE inbox[k]
  BY <1>1 DEF Boxes
<1>4. InOrder
  BY <1>3, SameBox DEF InOrder
<1>5. CleanupIsClosing'
  BY DEF MailboxInvariant, CleanupIsClosing
<1>6. inbox[n] = <<>> => b = <<>>
  BY PartOfEmpty
<1>7. EmptyWhenClosed'
  BY <1>3, <1>6 DEF MailboxInvariant, EmptyWhenClosed, Nodes
<1>8. \A k, targets : Matching(inbox[k], targets) = {} /\ Part(inbox[k], inbox'[k])
                        => Matching(inbox'[k], targets) = {}
  BY DEF Matching, Part
<1>9. \A k \in Nodes : Part(inbox[k], inbox'[k])
  BY <1>3, SameBox
<1>10. ASSUME NEW w \in Waits, waits'[w].phase = "asleep"
       PROVE  /\ Matching(inbox'[waits'[w].caller], waits'[w].targets) = {}
              /\ \A t \in waits'[w].targets : nodes'[t].status \notin Final
  <2> DEFINE c == waits'[w].caller
             targets == waits'[w].targets
  <2>1. c \in Nodes
    BY DEF WaitTable, WaitRecord
  <2>2. Matching(inbox[c], targets) = {} /\ \A t \in targets : nodes[t].status \notin Final
    BY <1>10 DEF Answered
  <2> HIDE DEF c, targets
  <2>3. Matching(inbox'[c], targets) = {}
    BY <1>8, <1>9, <2>1, <2>2
  <2> QED BY <2>2, <2>3 DEF c, targets
<1>11. NoMissedUpdate'
  BY <1>10 DEF NoMissedUpdate, Answered
<1> QED BY <1>1, <1>2, <1>4, <1>5, <1>7, <1>11 DEF MailboxInvariant

LEMMA NotClosing ==
  ASSUME NEW t \in Nodes, ~InClosingSubtree(t)
  PROVE  ~nodes[t].closing
  BY DEF InClosingSubtree

-----------------------------------------------------------------------------
(* Messages and turns.                                                      *)

LEMMA SendStep ==
  ASSUME MailboxInvariant, NEW c \in Nodes, NEW t \in Nodes, SendMessage(c, t)
  PROVE  MailboxInvariant' /\ InOrder
<1>1. /\ nodes' = nodes /\ disposed' = disposed
      /\ inbox' = Post(inbox, t, c) /\ waits' = Notified(waits)
      /\ ~InClosingSubtree(t) /\ Len(inbox[t]) < MaxInboxMessages
  BY DEF SendMessage
<1>2. ~nodes[t].closing
  BY <1>1, NotClosing
<1>3. inbox \in Boxes /\ disposed \in BOOLEAN
  BY DEF MailboxInvariant
<1>4. Carried(nodes, inbox, inbox')
  BY <1>1, <1>2, <1>3, PostCarried
<1>5. waits' \in WaitTable /\ Awake(waits')
  BY <1>1, Woken
<1>6. /\ nodes' \in [Nodes -> NodeRecord]
      /\ \A n \in Nodes : LikeRecord(nodes[n], nodes'[n])
  BY <1>1, SameNodes
<1> QED BY <1>1, <1>3, <1>4, <1>5, <1>6, LoudTurn

LEMMA TakeStep ==
  ASSUME MailboxInvariant, NEW a \in Nodes, TakePendingInput(a)
  PROVE  MailboxInvariant' /\ InOrder
<1> DEFINE b == WithoutOldest(inbox[a])
<1>1. /\ nodes' = nodes /\ disposed' = disposed /\ waits' = waits
      /\ inbox' = [inbox EXCEPT ![a] = b]
  BY DEF TakePendingInput
<1>2. inbox \in Boxes /\ waits \in WaitTable
  BY DEF MailboxInvariant
<1>3. Box(b) /\ Part(inbox[a], b) /\ Ordered(inbox[a], b)
  BY <1>2, InBoxes, OldestTaken
<1> HIDE DEF b
<1>4. \A w \in Waits : waits'[w].phase = "asleep"
                         => ~Answered(waits'[w].caller, waits'[w].targets)
  BY <1>1 DEF MailboxInvariant, NoMissedUpdate
<1> QED BY <1>1, <1>2, <1>3, <1>4, QuietStep

\* A section that changes one agent outside a closing.
LEMMA TurnEnds ==
  ASSUME MailboxInvariant, NEW a \in Nodes, NEW r, LikeRecord(nodes[a], r),
         nodes' = [nodes EXCEPT ![a] = r], Carried(nodes, inbox, inbox'),
         waits' \in WaitTable, Awake(waits'), disposed' = disposed
  PROVE  MailboxInvariant' /\ InOrder
<1>1. /\ nodes' \in [Nodes -> NodeRecord]
      /\ \A n \in Nodes : LikeRecord(nodes[n], nodes'[n])
  BY OneNode
<1>2. disposed' \in BOOLEAN
  BY DEF MailboxInvariant
<1> QED BY <1>1, <1>2, LoudTurn

LEMMA FollowupStep ==
  ASSUME MailboxInvariant, NEW t \in Agents, FollowupTask(t)
  PROVE  MailboxInvariant' /\ InOrder
<1> DEFINE r == nodes[t]
           queued == [r EXCEPT !.queue = @ + 1,
                               !.status = IF @ = "running" THEN @ ELSE "pending"]
           next == IF r.exec = "none" THEN Begin(queued) ELSE queued
<1>1. /\ nodes' = [nodes EXCEPT ![t] = next] /\ disposed' = disposed
      /\ inbox' = IF r.exec = "none" THEN StartRun(inbox, t, next) ELSE inbox
      /\ waits' = Notified(waits)
  BY DEF FollowupTask
<1>2. t \in Nodes /\ r \in NodeRecord /\ inbox \in Boxes
  BY DEF MailboxInvariant, Nodes
<1>3. queued \in NodeRecord /\ queued.queue > 0 /\ LikeRecord(r, queued)
  <2>1. r.queue \in Nat /\ r.queue + 1 \in Nat /\ r.queue + 1 > 0
    BY <1>2 DEF NodeRecord
  <2>2. (IF r.status = "running" THEN r.status ELSE "pending") \in Status
    BY <1>2 DEF NodeRecord, Status
  <2>3. queued \in NodeRecord /\ queued.queue = r.queue + 1
    BY <1>2, <2>1, <2>2 DEF NodeRecord
  <2>4. queued.closing = r.closing /\ queued.cleanup = r.cleanup
    BY <1>2 DEF NodeRecord
  <2> QED BY <2>1, <2>3, <2>4 DEF LikeRecord
<1> HIDE DEF queued
<1>4. LikeRecord(queued, Begin(queued))
  BY <1>3, BeginTyped
<1>5. LikeRecord(r, next)
  BY <1>3, <1>4 DEF LikeRecord
<1> HIDE DEF next
<1>6. Carried(nodes, inbox, inbox')
  BY <1>1, <1>2, RunCarried, NoBox
<1>7. waits' \in WaitTable /\ Awake(waits')
  BY <1>1, Woken
<1> QED BY <1>1, <1>2, <1>5, <1>6, <1>7, TurnEnds

LEMMA InterruptStep ==
  ASSUME MailboxInvariant, NEW t \in Agents, InterruptAgent(t)
  PROVE  MailboxInvariant' /\ InOrder
<1> DEFINE r == nodes[t]
           live == r.exec \in {"creating", "running"} /\ ~r.aborted
           next == [r EXCEPT !.queue = 0, !.status = "interrupted",
                             !.aborted = @ \/ live]
<1>1. /\ nodes' = [nodes EXCEPT ![t] = next] /\ disposed' = disposed /\ inbox' = inbox
      /\ waits' = Notified(IF live THEN Aborted(waits, {t}) ELSE waits)
  BY DEF InterruptAgent
<1>2. t \in Nodes /\ r \in NodeRecord /\ inbox \in Boxes
  BY DEF MailboxInvariant, Nodes
<1>3. LikeRecord(r, next)
  BY <1>2 DEF NodeRecord, Status, Final, LikeRecord
<1> HIDE DEF next, live
<1>4. Carried(nodes, inbox, inbox')
  BY <1>1, <1>2, NoBox
<1>5. waits' \in WaitTable /\ Awake(waits')
  BY <1>1, Woken
<1> QED BY <1>1, <1>2, <1>3, <1>4, <1>5, TurnEnds

\* The end of a turn.
LEMMA EndStep ==
  ASSUME MailboxInvariant, NEW a \in Agents, NEW r, LikeRecord(nodes[a], r),
         NEW outcome, EndTurn(a, r, outcome)
  PROVE  \E next : /\ LikeRecord(nodes[a], next)
                   /\ nodes' = [nodes EXCEPT ![a] = next]
                   /\ Carried(nodes, inbox, inbox')
<1> DEFINE status == IF r.aborted \/ outcome = "abort" THEN "interrupted"
                     ELSE IF outcome = "ok" THEN "completed" ELSE "failed"
           ended == [r EXCEPT !.status = status]
           next == IF CanRun(ended) THEN Begin(ended) ELSE Settling(ended)
           boxes == IF status = "interrupted" THEN inbox ELSE Report(nodes, inbox, a)
<1>1. nodes' = [nodes EXCEPT ![a] = next] /\ inbox' = StartRun(boxes, a, next)
  BY DEF EndTurn
<1>2. a \in Nodes /\ r \in NodeRecord /\ inbox \in Boxes
  BY DEF MailboxInvariant, Nodes, LikeRecord
<1>3. status \in Status
  BY DEF Status, Final
<1>4. ended \in NodeRecord /\ LikeRecord(r, ended)
  <2> HIDE DEF status
  <2> QED BY <1>2, <1>3 DEF NodeRecord, LikeRecord
<1> HIDE DEF ended
<1>5. LikeRecord(ended, next)
  BY <1>4, BeginTyped, SettlingTyped DEF CanRun
<1>6. LikeRecord(nodes[a], next)
  BY <1>4, <1>5 DEF LikeRecord
<1> HIDE DEF next, status
<1>7. Carried(nodes, inbox, inbox')
  <2>1. CASE status = "interrupted"
    <3>1. inbox' = StartRun(inbox, a, next)
      BY <1>1, <2>1
    <3> QED BY <1>2, <3>1, RunCarried
  <2>2. CASE status # "interrupted"
    <3>1. inbox' = StartRun(Report(nodes, inbox, a), a, next)
      BY <1>1, <2>2
    <3> QED BY <1>2, <3>1, ReportThenRun
  <2> QED BY <2>1, <2>2
<1> QED BY <1>1, <1>6, <1>7

LEMMA CreateStep ==
  ASSUME MailboxInvariant, NEW a \in Agents, NEW outcome, CreateReturns(a, outcome)
  PROVE  MailboxInvariant' /\ InOrder
<1> DEFINE r == [nodes[a] EXCEPT !.open = outcome = "ok",
                                 !.broken = @ \/ outcome = "leak"]
           running == [r EXCEPT !.status = "running", !.exec = "running"]
<1>1. /\ \/ nodes' = [nodes EXCEPT ![a] = Settling(r)] /\ inbox' = inbox
         \/ nodes' = [nodes EXCEPT ![a] = running] /\ inbox' = StartRun(inbox, a, running)
         \/ EndTurn(a, r, outcome)
      /\ waits' = Notified(waits) /\ disposed' = disposed
  BY DEF CreateReturns
<1>2. a \in Nodes /\ nodes[a] \in NodeRecord /\ inbox \in Boxes
  BY DEF MailboxInvariant, Nodes
<1>3. LikeRecord(nodes[a], r)
  BY <1>2 DEF NodeRecord, LikeRecord
<1>4. LikeRecord(nodes[a], running)
  BY <1>2 DEF NodeRecord, LikeRecord, Status, Execution
<1> HIDE DEF r, running
<1>5. r \in NodeRecord /\ LikeRecord(nodes[a], Settling(r))
  BY <1>3, SettlingTyped DEF LikeRecord
<1>6. \E next : /\ LikeRecord(nodes[a], next)
                /\ nodes' = [nodes EXCEPT ![a] = next]
                /\ Carried(nodes, inbox, inbox')
  <2>1. CASE nodes' = [nodes EXCEPT ![a] = Settling(r)] /\ inbox' = inbox
    BY <1>2, <1>5, <2>1, NoBox
  <2>2. CASE nodes' = [nodes EXCEPT ![a] = running] /\ inbox' = StartRun(inbox, a, running)
    BY <1>2, <1>4, <2>2, RunCarried
  <2>3. CASE EndTurn(a, r, outcome)
    BY <1>3, <2>3, EndStep
  <2> QED BY <1>1, <2>1, <2>2, <2>3
<1>7. waits' \in WaitTable /\ Awake(waits')
  BY <1>1, Woken
<1> QED BY <1>1, <1>2, <1>6, <1>7, TurnEnds

LEMMA RunStep ==
  ASSUME MailboxInvariant, NEW a \in Agents, NEW outcome, RunReturns(a, outcome)
  PROVE  MailboxInvariant' /\ InOrder
<1>1. /\ \/ nodes' = [nodes EXCEPT ![a] = Settling(@)] /\ inbox' = inbox
         \/ EndTurn(a, nodes[a], outcome)
      /\ waits' = Notified(waits) /\ disposed' = disposed
  BY DEF RunReturns
<1>2. a \in Nodes /\ nodes[a] \in NodeRecord /\ inbox \in Boxes
      /\ nodes \in [Nodes -> NodeRecord]
  BY DEF MailboxInvariant, Nodes
<1>3. LikeRecord(nodes[a], nodes[a]) /\ LikeRecord(nodes[a], Settling(nodes[a]))
  BY <1>2, SettlingTyped DEF LikeRecord
<1>4. \E next : /\ LikeRecord(nodes[a], next)
                /\ nodes' = [nodes EXCEPT ![a] = next]
                /\ Carried(nodes, inbox, inbox')
  <2>1. CASE nodes' = [nodes EXCEPT ![a] = Settling(@)] /\ inbox' = inbox
    <3>1. nodes' = [nodes EXCEPT ![a] = Settling(nodes[a])]
      BY <1>2, <2>1
    <3>2. Carried(nodes, inbox, inbox')
      BY <1>2, <2>1, NoBox
    <3> QED BY <1>3, <3>1, <3>2
  <2>2. CASE EndTurn(a, nodes[a], outcome)
    BY <1>3, <2>2, EndStep
  <2> QED BY <1>1, <2>1, <2>2
<1>5. waits' \in WaitTable /\ Awake(waits')
  BY <1>1, Woken
<1> QED BY <1>1, <1>2, <1>4, <1>5, TurnEnds

LEMMA SettleStep ==
  ASSUME MailboxInvariant, NEW a \in Agents, Settle(a)
  PROVE  MailboxInvariant' /\ InOrder
<1> DEFINE idle == [nodes[a] EXCEPT !.exec = "none"]
           again == [idle EXCEPT !.status = "pending"]
           next == IF CanRun(idle) THEN Begin(again) ELSE idle
<1>1. /\ nodes' = [nodes EXCEPT ![a] = next] /\ inbox' = StartRun(inbox, a, next)
      /\ waits' = Notified(waits) /\ disposed' = disposed
  BY DEF Settle
<1>2. a \in Nodes /\ nodes[a] \in NodeRecord /\ inbox \in Boxes
  BY DEF MailboxInvariant, Nodes
<1>3. /\ LikeRecord(nodes[a], idle) /\ LikeRecord(nodes[a], again)
      /\ again.queue = idle.queue
  BY <1>2 DEF NodeRecord, LikeRecord, Status, Execution
<1> HIDE DEF idle, again
<1>4. CanRun(idle) => LikeRecord(again, Begin(again))
  BY <1>3, BeginTyped DEF CanRun, LikeRecord
<1>5. LikeRecord(nodes[a], next)
  BY <1>3, <1>4 DEF LikeRecord
<1> HIDE DEF next
<1>6. Carried(nodes, inbox, inbox')
  BY <1>1, <1>2, RunCarried
<1>7. waits' \in WaitTable /\ Awake(waits')
  BY <1>1, Woken
<1> QED BY <1>1, <1>2, <1>5, <1>6, <1>7, TurnEnds

LEMMA SuspendStep ==
  ASSUME MailboxInvariant, NEW a \in Agents, SuspendFails(a)
  PROVE  MailboxInvariant' /\ InOrder
<1> DEFINE r == nodes[a]
           next == [r EXCEPT !.exec = "none", !.broken = TRUE, !.queue = 0,
                             !.status = IF r.queue > 0 /\ ~r.closing THEN "failed" ELSE @]
<1>1. /\ nodes' = [nodes EXCEPT ![a] = next] /\ inbox' = Report(nodes, inbox, a)
      /\ waits' = Notified(waits) /\ disposed' = disposed
  BY DEF SuspendFails
<1>2. a \in Nodes /\ r \in NodeRecord /\ inbox \in Boxes
  BY DEF MailboxInvariant, Nodes
<1>3. LikeRecord(r, next)
  BY <1>2 DEF NodeRecord, LikeRecord, Status, Execution, Final
<1> HIDE DEF next
<1>4. Carried(nodes, inbox, inbox')
  BY <1>1, <1>2, ReportCarried
<1>5. waits' \in WaitTable /\ Awake(waits')
  BY <1>1, Woken
<1> QED BY <1>1, <1>2, <1>3, <1>4, <1>5, TurnEnds

-----------------------------------------------------------------------------
(* Closing.                                                                 *)

LEMMA EmptiedIs ==
  ASSUME MailboxInvariant, NEW S \in SUBSET Agents
  PROVE  /\ Emptied(S) \in Boxes
         /\ \A n \in Nodes : Ordered(inbox[n], Emptied(S)[n])
         /\ \A n \in Nodes \ S : Emptied(S)[n] = inbox[n]
         /\ \A a \in Agents : a \in S \/ nodes[a].cleanup => Emptied(S)[a] = <<>>
<1>1. \A n \in Nodes : Emptied(S)[n] = IF n \in Fresh(S) THEN <<>> ELSE inbox[n]
  BY DEF Emptied
<1>2. \A n \in Nodes : Box(inbox[n])
  BY InBoxes DEF MailboxInvariant
<1>3. \A n \in Nodes : Box(Emptied(S)[n]) /\ Ordered(inbox[n], Emptied(S)[n])
  BY <1>1, <1>2, EmptyBox, SameBox
<1>4. Emptied(S) \in Boxes
  BY <1>3 DEF Boxes, Box, Emptied
<1>5. \A n \in Nodes \ S : Emptied(S)[n] = inbox[n]
  BY <1>1 DEF Fresh
<1>6. \A a \in Agents : a \in S \/ nodes[a].cleanup => Emptied(S)[a] = <<>>
  BY <1>1 DEF Fresh, Nodes, MailboxInvariant, EmptyWhenClosed
<1> QED BY <1>3, <1>4, <1>5, <1>6

\* The agents of S are closed.
LEMMA ClosingStep ==
  ASSUME MailboxInvariant, NEW S \in SUBSET Agents,
         nodes' \in [Nodes -> NodeRecord],
         \A n \in Nodes : FrozenRecord(nodes'[n]),
         \A n \in Nodes \ S : nodes'[n].cleanup = nodes[n].cleanup,
         inbox' = Emptied(S),
         waits' \in WaitTable, Awake(waits'), disposed' \in BOOLEAN
  PROVE  MailboxInvariant' /\ InOrder
<1>1. CleanupIsClosing'
  BY DEF CleanupIsClosing
<1>2. EmptyWhenClosed'
  BY EmptiedIs DEF EmptyWhenClosed, Nodes
<1>3. inbox' \in Boxes /\ InOrder
  BY EmptiedIs DEF InOrder
<1> QED BY <1>1, <1>2, <1>3, LoudStep

LEMMA NodeFacts ==
  ASSUME MailboxInvariant
  PROVE  \A n \in Nodes : nodes[n] \in NodeRecord /\ FrozenRecord(nodes[n])
  BY DEF MailboxInvariant, CleanupIsClosing

LEMMA CloseAgentStep ==
  ASSUME MailboxInvariant, NEW t \in Agents, CloseAgent(t)
  PROVE  MailboxInvariant' /\ InOrder
<1> DEFINE S == Subtree(t)
<1>1. PICK d \in S :
        /\ nodes' = [n \in Nodes |->
             CASE n = d -> CloseRecord(Freeze(nodes[n]), "closed")
               [] n \in S \ {d} -> [Freeze(nodes[n]) EXCEPT !.due = TRUE]
               [] OTHER -> nodes[n]]
        /\ inbox' = Emptied({d})
        /\ waits' = Aborted(Notified(waits), Fresh({d}))
        /\ disposed' = disposed
  BY DEF CloseAgent
<1>2. S \subseteq Agents
  BY DEF Subtree
<1> HIDE DEF S
<1>3. ASSUME NEW n \in Nodes
      PROVE  /\ nodes'[n] \in NodeRecord /\ FrozenRecord(nodes'[n])
             /\ n # d => nodes'[n].cleanup = nodes[n].cleanup
  <2>1. nodes[n] \in NodeRecord /\ FrozenRecord(nodes[n])
    BY NodeFacts
  <2>2. CASE n = d
    <3>1. Freeze(nodes[n]) \in NodeRecord /\ FrozenRecord(Freeze(nodes[n]))
      BY <2>1, FreezeTyped DEF FrozenRecord
    <3>2. "closed" \in Final
      BY DEF Final
    <3>3. nodes'[n] = CloseRecord(Freeze(nodes[n]), "closed")
      BY <1>1, <2>2
    <3> QED BY <2>2, <3>1, <3>2, <3>3, CloseTyped
  <2>3. CASE n \in S \ {d}
    <3>1. nodes'[n] = [Freeze(nodes[n]) EXCEPT !.due = TRUE]
      BY <1>1, <2>3
    <3> QED BY <2>1, <3>1, FreezeTyped DEF FrozenRecord
  <2>4. CASE n \notin S
    <3>1. nodes'[n] = nodes[n]
      BY <1>1, <2>4
    <3> QED BY <2>1, <3>1
  <2> QED BY <2>2, <2>3, <2>4
<1>4. nodes' \in [Nodes -> NodeRecord]
  <2>1. nodes' = [n \in Nodes |-> nodes'[n]]
    BY <1>1
  <2> QED BY <1>3, <2>1
<1>5. waits' \in WaitTable /\ Awake(waits') /\ disposed' \in BOOLEAN
  BY <1>1, Woken DEF MailboxInvariant
<1>6. {d} \in SUBSET Agents
  BY <1>2
<1> QED BY <1>1, <1>3, <1>4, <1>5, <1>6, ClosingStep

LEMMA CloseNextStep ==
  ASSUME MailboxInvariant, NEW a \in Agents, CloseNext(a)
  PROVE  MailboxInvariant' /\ InOrder
<1>1. /\ nodes' = [nodes EXCEPT ![a] = CloseRecord(@, "closed")]
      /\ inbox' = Emptied({a}) /\ disposed' = disposed
      /\ waits' = Notified(Aborted(waits, Fresh({a})))
  BY DEF CloseNext
<1>2. a \in Nodes /\ nodes \in [Nodes -> NodeRecord] /\ "closed" \in Final
  BY DEF Nodes, MailboxInvariant, Final
<1>3. \A n \in Nodes : nodes'[n] = IF n = a THEN CloseRecord(nodes[n], "closed") ELSE nodes[n]
  BY <1>1, <1>2
<1>4. \A n \in Nodes : nodes'[n] \in NodeRecord /\ FrozenRecord(nodes'[n])
  BY <1>2, <1>3, NodeFacts, CloseTyped
<1>5. \A n \in Nodes \ {a} : nodes'[n].cleanup = nodes[n].cleanup
  BY <1>3
<1>6. nodes' \in [Nodes -> NodeRecord]
  <2>1. nodes' = [n \in Nodes |-> nodes'[n]]
    BY <1>1, <1>2
  <2> QED BY <1>4, <2>1
<1>7. waits' \in WaitTable /\ Awake(waits') /\ disposed' \in BOOLEAN
  BY <1>1, Woken DEF MailboxInvariant
<1> QED BY <1>1, <1>4, <1>5, <1>6, <1>7, ClosingStep

LEMMA DisposeStep ==
  ASSUME MailboxInvariant, Dispose
  PROVE  MailboxInvariant' /\ InOrder
<1>1. /\ nodes' = [n \in Nodes |-> IF n \in Agents THEN CloseRecord(nodes[n], "closed") ELSE nodes[n]]
      /\ inbox' = Emptied(Agents) /\ disposed' = TRUE
      /\ waits' = Aborted(Notified(waits), Fresh(Agents))
  BY DEF Dispose
<1>2. "closed" \in Final
  BY DEF Final
<1>3. \A n \in Nodes : nodes'[n] \in NodeRecord /\ FrozenRecord(nodes'[n])
  BY <1>1, <1>2, NodeFacts, CloseTyped
<1>4. \A n \in Nodes \ Agents : nodes'[n].cleanup = nodes[n].cleanup
  BY <1>1
<1>5. nodes' \in [Nodes -> NodeRecord]
  BY <1>1, <1>3
<1>6. waits' \in WaitTable /\ Awake(waits') /\ disposed' \in BOOLEAN
  BY <1>1, Woken
<1> QED BY <1>1, <1>3, <1>4, <1>5, <1>6, ClosingStep

\* A watchdog closes a subtree and tells the parent, who is outside of it.
LEMMA TimeoutStep ==
  ASSUME MailboxInvariant, NEW a \in Agents, Timeout(a)
  PROVE  MailboxInvariant' /\ InOrder
<1> DEFINE S == Subtree(a)
           mid == Emptied(S)
<1>1. /\ nodes' = [n \in Nodes |->
           CASE n = a -> CloseRecord(nodes[n], "failed")
             [] n \in S \ {a} -> CloseRecord(nodes[n], "closed")
             [] OTHER -> nodes[n]]
      /\ inbox' = Report(nodes, mid, a)
      /\ waits' = Aborted(Notified(waits), Fresh(S))
      /\ disposed' = disposed
  BY DEF Timeout
<1>2. S \in SUBSET Agents /\ a \in S /\ Parent[a] \in Nodes \ S
  BY ParentIn, TreeAssumption DEF Subtree
<1> HIDE DEF S
<1>3. ASSUME NEW n \in Nodes
      PROVE  /\ nodes'[n] \in NodeRecord /\ FrozenRecord(nodes'[n])
             /\ n \notin S => nodes'[n].cleanup = nodes[n].cleanup
  <2>1. nodes[n] \in NodeRecord /\ FrozenRecord(nodes[n])
    BY NodeFacts
  <2>2. "closed" \in Final /\ "failed" \in Final
    BY DEF Final
  <2>3. CASE n = a
    <3>1. nodes'[n] = CloseRecord(nodes[n], "failed")
      BY <1>1, <2>3
    <3> QED BY <1>2, <2>1, <2>2, <2>3, <3>1, CloseTyped
  <2>4. CASE n \in S \ {a}
    <3>1. nodes'[n] = CloseRecord(nodes[n], "closed")
      BY <1>1, <2>4
    <3> QED BY <2>1, <2>2, <2>4, <3>1, CloseTyped
  <2>5. CASE n \notin S
    <3>1. nodes'[n] = nodes[n]
      BY <1>1, <1>2, <2>5
    <3> QED BY <2>1, <3>1
  <2> QED BY <2>3, <2>4, <2>5
<1>4. nodes' \in [Nodes -> NodeRecord]
  <2>1. nodes' = [n \in Nodes |-> nodes'[n]]
    BY <1>1
  <2> QED BY <1>3, <2>1
<1>5. /\ mid \in Boxes
      /\ \A n \in Nodes : Ordered(inbox[n], mid[n])
      /\ \A n \in Nodes \ S : mid[n] = inbox[n]
      /\ \A b \in Agents : b \in S \/ nodes[b].cleanup => mid[b] = <<>>
  BY <1>2, EmptiedIs
<1> HIDE DEF mid
<1>6. /\ Carried(nodes, mid, inbox')
      /\ \A n \in Nodes : n # Parent[a] => inbox'[n] = mid[n]
  BY <1>1, <1>5, ReportCarried
<1>7. InOrder
  <2>1. \A n \in Nodes : inbox'[n] = mid[n] \/ mid[n] = inbox[n]
    BY <1>2, <1>5, <1>6
  <2> QED BY <1>5, <1>6, <2>1 DEF InOrder, Carried
<1>8. EmptyWhenClosed'
  <2> SUFFICES ASSUME NEW b \in Agents, nodes'[b].cleanup PROVE inbox'[b] = <<>>
    BY DEF EmptyWhenClosed
  <2>1. b \in Nodes
    BY DEF Nodes
  <2>2. CASE b \in S
    BY <1>2, <1>5, <1>6, <2>1, <2>2
  <2>3. CASE b \notin S
    <3>1. nodes[b].cleanup /\ nodes[b].closing
      BY <1>3, <2>1, <2>3, NodeFacts DEF FrozenRecord
    <3>2. mid[b] = <<>>
      BY <1>5, <3>1
    <3> QED BY <1>6, <2>1, <3>1, <3>2 DEF Carried
  <2> QED BY <2>2, <2>3
<1>9. CleanupIsClosing'
  BY <1>3 DEF CleanupIsClosing
<1>10. waits' \in WaitTable /\ Awake(waits') /\ disposed' \in BOOLEAN
  BY <1>1, Woken DEF MailboxInvariant
<1>11. inbox' \in Boxes
  BY <1>6 DEF Carried
<1> QED BY <1>4, <1>7, <1>8, <1>9, <1>10, <1>11, LoudStep

LEMMA CleanupFailsStep ==
  ASSUME MailboxInvariant, NEW a \in Agents, CleanupFails(a)
  PROVE  MailboxInvariant' /\ InOrder
<1> DEFINE next == [nodes[a] EXCEPT !.broken = TRUE]
<1>1. a \in Nodes /\ nodes[a] \in NodeRecord /\ inbox \in Boxes
      /\ nodes \in [Nodes -> NodeRecord]
  BY DEF MailboxInvariant, Nodes
<1>2. /\ nodes' = [nodes EXCEPT ![a] = next]
      /\ inbox' = Report(nodes, inbox, a) /\ waits' = Notified(waits) /\ disposed' = disposed
  BY <1>1 DEF CleanupFails
<1>3. LikeRecord(nodes[a], next)
  BY <1>1 DEF NodeRecord, LikeRecord
<1> HIDE DEF next
<1>4. Carried(nodes, inbox, inbox')
  BY <1>1, <1>2, ReportCarried
<1>5. waits' \in WaitTable /\ Awake(waits')
  BY <1>2, Woken
<1> QED BY <1>1, <1>2, <1>3, <1>4, <1>5, TurnEnds

LEMMA DisposeEndsStep ==
  ASSUME MailboxInvariant, DisposeEnds
  PROVE  MailboxInvariant' /\ InOrder
<1> DEFINE next == [nodes[Root] EXCEPT !.status = "closed"]
<1>1. Root \in Nodes /\ nodes[Root] \in NodeRecord /\ inbox \in Boxes
      /\ nodes \in [Nodes -> NodeRecord]
  BY DEF MailboxInvariant, Nodes
<1>2. /\ nodes' = [nodes EXCEPT ![Root] = next]
      /\ inbox' = inbox /\ waits' = Notified(waits) /\ disposed' = disposed
  BY <1>1 DEF DisposeEnds
<1>3. LikeRecord(nodes[Root], next)
  BY <1>1 DEF NodeRecord, LikeRecord, Status, Final
<1> HIDE DEF next
<1>4. Carried(nodes, inbox, inbox')
  BY <1>1, <1>2, NoBox
<1>5. waits' \in WaitTable /\ Awake(waits')
  BY <1>2, Woken
<1> QED BY <1>1, <1>2, <1>3, <1>4, <1>5, TurnEnds

-----------------------------------------------------------------------------
(* waitForUpdate.                                                           *)

\* One wait changes, and sleeps only when there is nothing to return.
LEMMA OneWait ==
  ASSUME MailboxInvariant, NEW w \in Waits, NEW r \in WaitRecord,
         r.phase = "asleep" => ~Answered(r.caller, r.targets),
         waits' = [waits EXCEPT ![w] = r]
  PROVE  /\ waits' \in WaitTable
         /\ \A x \in Waits : waits'[x].phase = "asleep"
                               => ~Answered(waits'[x].caller, waits'[x].targets)
<1>1. waits \in WaitTable /\ NoMissedUpdate
  BY DEF MailboxInvariant
<1>2. waits' \in WaitTable
  BY <1>1 DEF WaitTable
<1>3. \A x \in Waits : waits'[x] = IF x = w THEN r ELSE waits[x]
  BY <1>1 DEF WaitTable
<1> QED BY <1>1, <1>2, <1>3 DEF NoMissedUpdate

LEMMA OverTyped ==
  /\ Over \in WaitRecord /\ Over.phase = "over"
  /\ \A c \in Nodes, targets \in SUBSET Nodes :
       LET r == [Over EXCEPT !.phase = "asleep", !.caller = c, !.targets = targets]
       IN  r \in WaitRecord /\ r.caller = c /\ r.targets = targets
  BY DEF Over, WaitRecord, Nodes

LEMMA WaitStep ==
  ASSUME MailboxInvariant, NEW w \in Waits, NEW c \in Nodes, NEW targets \in SUBSET Nodes,
         WaitForUpdate(w, c, targets)
  PROVE  MailboxInvariant' /\ InOrder
<1> DEFINE b == Drained(inbox[c], targets)
           asleep == [Over EXCEPT !.phase = "asleep", !.caller = c, !.targets = targets]
           r == IF Answered(c, targets) \/ nodes[c].aborted THEN Over ELSE asleep
<1>1. /\ inbox' = [inbox EXCEPT ![c] = b] /\ waits' = [waits EXCEPT ![w] = r]
      /\ nodes' = nodes /\ disposed' = disposed
  BY DEF WaitForUpdate, Drain
<1>2. Box(inbox[c])
  BY InBoxes DEF MailboxInvariant
<1>3. Box(b) /\ Part(inbox[c], b) /\ Ordered(inbox[c], b)
  BY <1>2, DrainTaken
<1> HIDE DEF b
<1>4. asleep \in WaitRecord /\ asleep.caller = c /\ asleep.targets = targets
  BY OverTyped
<1> HIDE DEF asleep
<1>5. r \in WaitRecord /\ (r.phase = "asleep" => ~Answered(r.caller, r.targets))
  BY <1>4, OverTyped
<1> HIDE DEF r
<1>6. /\ waits' \in WaitTable
      /\ \A x \in Waits : waits'[x].phase = "asleep"
                            => ~Answered(waits'[x].caller, waits'[x].targets)
  BY <1>1, <1>5, OneWait
<1> QED BY <1>1, <1>3, <1>6, QuietStep

LEMMA ResumeStep ==
  ASSUME MailboxInvariant, NEW w \in Waits, Resume(w)
  PROVE  MailboxInvariant' /\ InOrder
<1> DEFINE old == waits[w]
           b == Drained(inbox[old.caller], old.targets)
           r == IF Answered(old.caller, old.targets) \/ old.expired
                THEN Over ELSE [old EXCEPT !.phase = "asleep"]
<1>1. /\ inbox' = [inbox EXCEPT ![old.caller] = b] /\ waits' = [waits EXCEPT ![w] = r]
      /\ nodes' = nodes /\ disposed' = disposed
  BY DEF Resume, Drain
<1>2. old \in WaitRecord /\ old.caller \in Nodes /\ inbox \in Boxes
  BY DEF MailboxInvariant, WaitTable, WaitRecord
<1>3. Box(b) /\ Part(inbox[old.caller], b) /\ Ordered(inbox[old.caller], b)
  BY <1>2, InBoxes, DrainTaken
<1> HIDE DEF b
<1>4. r \in WaitRecord /\ (r.phase = "asleep" => ~Answered(r.caller, r.targets))
  <2>1. CASE Answered(old.caller, old.targets) \/ old.expired
    BY <2>1, OverTyped
  <2>2. CASE ~(Answered(old.caller, old.targets) \/ old.expired)
    <3>1. r = [old EXCEPT !.phase = "asleep"]
      BY <2>2
    <3>2. r \in WaitRecord /\ r.caller = old.caller /\ r.targets = old.targets
      BY <1>2, <3>1 DEF WaitRecord
    <3> QED BY <2>2, <3>2
  <2> QED BY <2>1, <2>2
<1> HIDE DEF r
<1>5. /\ waits' \in WaitTable
      /\ \A x \in Waits : waits'[x].phase = "asleep"
                            => ~Answered(waits'[x].caller, waits'[x].targets)
  BY <1>1, <1>4, OneWait
<1> QED BY <1>1, <1>2, <1>3, <1>5, QuietStep

\* The inboxes stay.
LEMMA TimerStep ==
  ASSUME MailboxInvariant, NEW w \in Waits, Deadline(w) \/ CancelWait(w)
  PROVE  MailboxInvariant' /\ InOrder
<1>1. nodes' = nodes /\ inbox' = inbox /\ disposed' = disposed
  BY DEF Deadline, CancelWait
<1>2. \E r \in WaitRecord : r.phase # "asleep" /\ waits' = [waits EXCEPT ![w] = r]
  <2>1. CASE Deadline(w)
    <3> DEFINE r == [waits[w] EXCEPT !.expired = TRUE, !.phase = "woken"]
    <3>1. waits \in [Waits -> WaitRecord]
      BY DEF MailboxInvariant, WaitTable
    <3>2. r \in WaitRecord /\ r.phase = "woken"
      BY <3>1 DEF WaitRecord
    <3>3. waits' = [waits EXCEPT ![w] = r]
      BY <2>1, <3>1 DEF Deadline
    <3> HIDE DEF r
    <3> QED BY <3>2, <3>3
  <2>2. CASE CancelWait(w)
    BY <2>2, OverTyped DEF CancelWait
  <2> QED BY <2>1, <2>2
<1>3. /\ waits' \in WaitTable
      /\ \A x \in Waits : waits'[x].phase = "asleep"
                            => ~Answered(waits'[x].caller, waits'[x].targets)
  BY <1>2, OneWait
<1>4. inbox \in Boxes /\ Root \in Nodes
  BY DEF MailboxInvariant, Nodes
<1> DEFINE b == inbox[Root]
<1>5. inbox' = [inbox EXCEPT ![Root] = b]
  BY <1>1, <1>4 DEF Boxes
<1>6. Box(b) /\ Part(inbox[Root], b) /\ Ordered(inbox[Root], b)
  BY <1>4, InBoxes, SameBox
<1> HIDE DEF b
<1> QED BY <1>1, <1>3, <1>4, <1>5, <1>6, QuietStep

-----------------------------------------------------------------------------
(* The specification.                                                       *)

LEMMA InitHolds ==
  ASSUME Init
  PROVE  MailboxInvariant
<1>1. Spawned \in NodeRecord /\ ~Spawned.cleanup
  BY DEF Spawned, NodeRecord, Status, Execution
<1> DEFINE root == [Spawned EXCEPT !.status = "running", !.exec = "running", !.open = TRUE]
<1>2. root \in NodeRecord /\ ~root.cleanup
  BY DEF Spawned, NodeRecord, Status, Execution
<1>3. nodes = [n \in Nodes |-> IF n = Root THEN root ELSE Spawned]
  BY DEF Init
<1> HIDE DEF root
<1>4. nodes \in [Nodes -> NodeRecord] /\ CleanupIsClosing
  BY <1>1, <1>2, <1>3 DEF CleanupIsClosing, FrozenRecord
<1>5. inbox \in Boxes /\ EmptyWhenClosed
  BY EmptyBox DEF Init, Boxes, Box, EmptyWhenClosed, Nodes
<1>6. waits \in WaitTable /\ NoMissedUpdate
  BY OverTyped DEF Init, WaitTable, NoMissedUpdate
<1>7. disposed \in BOOLEAN
  BY DEF Init
<1> QED BY <1>4, <1>5, <1>6, <1>7 DEF MailboxInvariant

LEMMA StepHolds ==
  ASSUME MailboxInvariant, [Next]_vars
  PROVE  MailboxInvariant' /\ InOrder
<1>1. CASE Messages
  <2>1. PICK call \in SendCalls : SendMessage(call[1], call[2])
    BY <1>1 DEF Messages
  <2>2. call[1] \in Nodes /\ call[2] \in Nodes
    BY MailboxAssumption
  <2> QED BY <2>1, <2>2, SendStep
<1>2. CASE Turns
  <2>1. PICK a \in Agents :
          \/ TakePendingInput(a)
          \/ FollowupTask(a)
          \/ InterruptAgent(a)
          \/ \E outcome \in {"ok", "error", "leak", "abort"} : CreateReturns(a, outcome)
          \/ \E outcome \in {"ok", "error", "abort"} : RunReturns(a, outcome)
          \/ Settle(a)
          \/ SuspendFails(a)
    BY <1>2 DEF Turns
  <2>2. a \in Nodes
    BY DEF Nodes
  <2> QED BY <2>1, <2>2, TakeStep, FollowupStep, InterruptStep, CreateStep, RunStep,
             SettleStep, SuspendStep
<1>3. CASE Closings
  BY <1>3, CloseAgentStep, CloseNextStep, TimeoutStep, CleanupFailsStep, DisposeStep,
     DisposeEndsStep DEF Closings
<1>4. CASE Waiting
  <2>1. PICK w \in Waits :
          \/ \E call \in WaitCalls[w] : WaitForUpdate(w, call[1], call[2])
          \/ Resume(w)
          \/ Deadline(w)
          \/ CancelWait(w)
    BY <1>4 DEF Waiting
  <2>2. CASE \E call \in WaitCalls[w] : WaitForUpdate(w, call[1], call[2])
    <3>1. PICK call \in WaitCalls[w] : WaitForUpdate(w, call[1], call[2])
      BY <2>2
    <3>2. call[1] \in Nodes /\ call[2] \in SUBSET Nodes
      BY MailboxAssumption
    <3> QED BY <3>1, <3>2, WaitStep
  <2> QED BY <2>1, <2>2, ResumeStep, TimerStep
<1>5. CASE UNCHANGED vars
  <2>1. MailboxInvariant'
    BY <1>5 DEF vars, MailboxInvariant, CleanupIsClosing, EmptyWhenClosed, NoMissedUpdate,
                Answered
  <2>2. InOrder
    BY <1>5, SameBox DEF vars, InOrder
  <2> QED BY <2>1, <2>2
<1> QED BY <1>1, <1>2, <1>3, <1>4, <1>5 DEF Next

LEMMA Types ==
  ASSUME MailboxInvariant
  PROVE  TypeOK
<1>1. inbox \in [Nodes -> Seq(Message)]
  BY DEF MailboxInvariant, Boxes
<1> QED BY <1>1 DEF MailboxInvariant, TypeOK, WaitTable

\* Every state of the inboxes and waits is well typed.
THEOREM TypeCorrect == Spec => []TypeOK
<1>1. Init => MailboxInvariant
  BY InitHolds
<1>2. MailboxInvariant /\ [Next]_vars => MailboxInvariant'
  BY StepHolds
<1>3. MailboxInvariant => TypeOK
  BY Types
<1> QED BY <1>1, <1>2, <1>3, PTL DEF Spec

\* No wait sleeps over something it should return.
THEOREM NothingMissed == Spec => []NoMissedUpdate
<1>1. Init => MailboxInvariant
  BY InitHolds
<1>2. MailboxInvariant /\ [Next]_vars => MailboxInvariant'
  BY StepHolds
<1>3. MailboxInvariant => NoMissedUpdate
  BY DEF MailboxInvariant
<1> QED BY <1>1, <1>2, <1>3, PTL DEF Spec

\* Nothing is delivered to an agent that closeRecord has emptied.
THEOREM ClosedStaysEmpty == Spec => []ClosedInboxEmpty
<1>1. Init => MailboxInvariant
  BY InitHolds
<1>2. MailboxInvariant /\ [Next]_vars => MailboxInvariant'
  BY StepHolds
<1>3. MailboxInvariant => ClosedInboxEmpty
  BY Types DEF MailboxInvariant, EmptyWhenClosed, ClosedInboxEmpty
<1> QED BY <1>1, <1>2, <1>3, PTL DEF Spec

\* No message overtakes an earlier one of its sender.
THEOREM OrderKept == Spec => NoOvertaking
<1>1. Init => MailboxInvariant
  BY InitHolds
<1>2. MailboxInvariant /\ [Next]_vars => MailboxInvariant'
  BY StepHolds
<1>3. MailboxInvariant /\ [Next]_vars
        => [\A n \in Nodes : \A i, j \in DOMAIN inbox[n] :
              /\ i < j /\ inbox[n][i].sender = inbox[n][j].sender
              /\ Contains(inbox'[n], inbox[n][i])
              => Contains(inbox'[n], inbox[n][j])]_vars
  BY StepHolds DEF InOrder, Ordered
<1> QED BY <1>1, <1>2, <1>3, PTL DEF Spec, NoOvertaking

-----------------------------------------------------------------------------
(* That a wait ends.                                                        *)

\* A wait that sleeps has its deadline before it.
DeadlineAhead == \A w \in Waits : waits[w].phase = "asleep" => ~waits[w].expired

Alarmed(ws) == \A w \in Waits : ws[w].phase = "asleep" => ~ws[w].expired

\* A wait that goes on is the one it was, and past its deadline it stays awake
\* until it is over: it is resumed once more and returns.
GoesOn(r, r2) ==
  r.phase # "over" =>
    \/ r2.phase = "over"
    \/ /\ r2.caller = r.caller /\ r2.targets = r.targets
       /\ r.expired => r2.expired /\ r2.phase = "woken"

WaitsRunDown == [][\A w \in Waits : GoesOn(waits[w], waits'[w])]_vars

\* The same of the table of waits, before and after.
Ahead(ws, ws2) ==
  /\ Alarmed(ws2)
  /\ \A w \in Waits : GoesOn(ws[w], ws2[w]) /\ (ws[w].phase = "over" => ws2[w].phase = "over")

LEMMA NotifiedAhead ==
  ASSUME NEW ws \in WaitTable, Alarmed(ws)
  PROVE  Ahead(ws, Notified(ws))
<1> DEFINE to(w) == [ws[w] EXCEPT !.phase = IF @ = "asleep" THEN "woken" ELSE @]
<1>1. ASSUME NEW w \in Waits
      PROVE  /\ GoesOn(ws[w], to(w)) /\ to(w).phase # "asleep"
             /\ ws[w].phase = "over" => to(w).phase = "over"
  <2>1. ws[w] \in WaitRecord /\ (ws[w].phase = "asleep" => ~ws[w].expired)
    BY DEF WaitTable, Alarmed
  <2>2. /\ to(w).caller = ws[w].caller /\ to(w).targets = ws[w].targets /\ to(w).expired = ws[w].expired
        /\ to(w).phase = IF ws[w].phase = "asleep" THEN "woken" ELSE ws[w].phase
    BY <2>1 DEF WaitRecord
  <2>3. ws[w].phase \in {"asleep", "woken", "over"}
    BY <2>1 DEF WaitRecord
  <2> QED BY <2>1, <2>2, <2>3 DEF GoesOn
<1>2. Notified(ws) = [w \in Waits |-> to(w)]
  BY DEF Notified
<1> HIDE DEF to
<1> QED BY <1>1, <1>2 DEF Ahead, Alarmed

LEMMA AbortedAhead ==
  ASSUME NEW ws \in WaitTable, NEW S, Alarmed(ws)
  PROVE  Ahead(ws, Aborted(ws, S))
<1> DEFINE to(w) == IF ws[w].caller \in S /\ ws[w].phase # "over"
                    THEN [ws[w] EXCEPT !.aborted = TRUE,
                                       !.phase = IF @ = "asleep" THEN "over" ELSE @]
                    ELSE ws[w]
<1>1. ASSUME NEW w \in Waits
      PROVE  /\ GoesOn(ws[w], to(w)) /\ (to(w).phase = "asleep" => ~to(w).expired)
             /\ ws[w].phase = "over" => to(w).phase = "over"
  <2>1. ws[w] \in WaitRecord /\ (ws[w].phase = "asleep" => ~ws[w].expired)
    BY DEF WaitTable, Alarmed
  <2>2. /\ to(w).caller = ws[w].caller /\ to(w).targets = ws[w].targets /\ to(w).expired = ws[w].expired
        /\ to(w).phase = ws[w].phase \/ (ws[w].phase = "asleep" /\ to(w).phase = "over")
    BY <2>1 DEF WaitRecord
  <2>3. ws[w].phase \in {"asleep", "woken", "over"}
    BY <2>1 DEF WaitRecord
  <2> HIDE DEF to
  <2> QED BY <2>1, <2>2, <2>3 DEF GoesOn
<1>2. Aborted(ws, S) = [w \in Waits |-> to(w)]
  BY DEF Aborted
<1> HIDE DEF to
<1> QED BY <1>1, <1>2 DEF Ahead, Alarmed

LEMMA AheadTwice ==
  ASSUME NEW ws, NEW ws1, NEW ws2, Ahead(ws, ws1), Ahead(ws1, ws2)
  PROVE  Ahead(ws, ws2)
<1>1. ASSUME NEW w \in Waits PROVE GoesOn(ws[w], ws2[w])
  <2>1. GoesOn(ws[w], ws1[w]) /\ GoesOn(ws1[w], ws2[w])
    BY DEF Ahead
  <2>2. ws1[w].phase = "over" => ws2[w].phase = "over"
    BY DEF Ahead
  <2> QED BY <2>1, <2>2 DEF GoesOn
<1> QED BY <1>1 DEF Ahead

\* A section that wakes every wait, after or before it has aborted some.
LEMMA LoudAhead ==
  ASSUME waits \in WaitTable, DeadlineAhead, NEW S,
         \/ waits' = Notified(waits)
         \/ waits' = Notified(Aborted(waits, S))
         \/ waits' = Aborted(Notified(waits), S)
  PROVE  Ahead(waits, waits')
<1>1. Ahead(waits, Notified(waits)) /\ Ahead(waits, Aborted(waits, S))
  BY NotifiedAhead, AbortedAhead DEF DeadlineAhead, Alarmed
<1>2. Notified(waits) \in WaitTable /\ Aborted(waits, S) \in WaitTable
  BY NotifiedTyped, AbortedTyped
<1>3. Ahead(Notified(waits), Aborted(Notified(waits), S))
  BY <1>1, <1>2, AbortedAhead DEF Ahead
<1>4. Ahead(Aborted(waits, S), Notified(Aborted(waits, S)))
  BY <1>1, <1>2, NotifiedAhead DEF Ahead
<1> QED BY <1>1, <1>3, <1>4, AheadTwice

LEMMA TurnsAhead ==
  ASSUME waits \in WaitTable, DeadlineAhead, Messages \/ Turns
  PROVE  Ahead(waits, waits') \/ waits' = waits
<1>1. CASE Messages
  <2>1. waits' = Notified(waits)
    BY <1>1 DEF Messages, SendMessage
  <2> QED BY <2>1, LoudAhead
<1>2. CASE Turns
  <2>1. PICK a \in Agents :
          \/ TakePendingInput(a)
          \/ FollowupTask(a)
          \/ InterruptAgent(a)
          \/ \E outcome \in {"ok", "error", "leak", "abort"} : CreateReturns(a, outcome)
          \/ \E outcome \in {"ok", "error", "abort"} : RunReturns(a, outcome)
          \/ Settle(a)
          \/ SuspendFails(a)
    BY <1>2 DEF Turns
  <2>2. \/ waits' = waits
        \/ waits' = Notified(waits)
        \/ waits' = Notified(Aborted(waits, {a}))
    BY <2>1 DEF TakePendingInput, FollowupTask, InterruptAgent, CreateReturns, RunReturns,
                Settle, SuspendFails
  <2> QED BY <2>2, LoudAhead
<1> QED BY <1>1, <1>2

LEMMA ClosingsAhead ==
  ASSUME waits \in WaitTable, DeadlineAhead, Closings
  PROVE  Ahead(waits, waits')
<1>1. ASSUME NEW a \in Agents, CloseAgent(a) PROVE Ahead(waits, waits')
  <2>1. PICK d \in Subtree(a) : waits' = Aborted(Notified(waits), Fresh({d}))
    BY <1>1 DEF CloseAgent
  <2> QED BY <2>1, LoudAhead
<1>2. ASSUME NEW a \in Agents, CloseNext(a) PROVE Ahead(waits, waits')
  <2>1. waits' = Notified(Aborted(waits, Fresh({a})))
    BY <1>2 DEF CloseNext
  <2> QED BY <2>1, LoudAhead
<1>3. ASSUME NEW a \in Agents, Timeout(a) PROVE Ahead(waits, waits')
  <2>1. waits' = Aborted(Notified(waits), Fresh(Subtree(a)))
    BY <1>3 DEF Timeout
  <2> QED BY <2>1, LoudAhead
<1>4. ASSUME NEW a \in Agents, CleanupFails(a) PROVE Ahead(waits, waits')
  <2>1. waits' = Notified(waits)
    BY <1>4 DEF CleanupFails
  <2> QED BY <2>1, LoudAhead
<1>5. CASE Dispose
  <2>1. waits' = Aborted(Notified(waits), Fresh(Agents))
    BY <1>5 DEF Dispose
  <2> QED BY <2>1, LoudAhead
<1>6. CASE DisposeEnds
  <2>1. waits' = Notified(waits)
    BY <1>6 DEF DisposeEnds
  <2> QED BY <2>1, LoudAhead
<1> QED BY <1>1, <1>2, <1>3, <1>4, <1>5, <1>6 DEF Closings

\* One wait changes.
LEMMA WaitAhead ==
  ASSUME waits \in WaitTable, DeadlineAhead, NEW w \in Waits, NEW r \in WaitRecord,
         waits' = [waits EXCEPT ![w] = r], r.phase = "asleep" => ~r.expired, GoesOn(waits[w], r)
  PROVE  DeadlineAhead' /\ \A x \in Waits : GoesOn(waits[x], waits'[x])
<1>1. \A x \in Waits : waits'[x] = IF x = w THEN r ELSE waits[x]
  BY DEF WaitTable
<1>2. \A x \in Waits : GoesOn(waits[x], waits[x])
  <2>1. \A x \in Waits : waits[x].phase \in {"asleep", "woken", "over"} /\ (waits[x].phase = "asleep" => ~waits[x].expired)
    BY DEF WaitTable, WaitRecord, DeadlineAhead
  <2> QED BY <2>1 DEF GoesOn
<1>3. DeadlineAhead'
  BY <1>1 DEF DeadlineAhead
<1> QED BY <1>1, <1>2, <1>3

LEMMA WaitingAhead ==
  ASSUME waits \in WaitTable, DeadlineAhead, Waiting
  PROVE  DeadlineAhead' /\ \A x \in Waits : GoesOn(waits[x], waits'[x])
<1>1. PICK w \in Waits :
        \/ \E call \in WaitCalls[w] : WaitForUpdate(w, call[1], call[2])
        \/ Resume(w)
        \/ Deadline(w)
        \/ CancelWait(w)
  BY DEF Waiting
<1>2. waits[w] \in WaitRecord /\ (waits[w].phase = "asleep" => ~waits[w].expired)
  BY DEF WaitTable, DeadlineAhead
<1>3. CASE \E call \in WaitCalls[w] : WaitForUpdate(w, call[1], call[2])
  <2>1. PICK call \in WaitCalls[w] : WaitForUpdate(w, call[1], call[2])
    BY <1>3
  <2> DEFINE asleep == [Over EXCEPT !.phase = "asleep", !.caller = call[1], !.targets = call[2]]
  <2>2. call[1] \in Nodes /\ call[2] \in SUBSET Nodes
    BY MailboxAssumption
  <2>3. asleep \in WaitRecord /\ ~asleep.expired
    BY <2>2 DEF Over, WaitRecord, Nodes
  <2>4. Over \in WaitRecord /\ Over.phase = "over"
    BY OverTyped
  <2>5. \E r \in {Over, asleep} : waits' = [waits EXCEPT ![w] = r]
    BY <2>1 DEF WaitForUpdate
  <2>6. waits[w].phase = "over"
    BY <2>1 DEF WaitForUpdate, Pending
  <2> HIDE DEF asleep
  <2>7. PICK r \in {Over, asleep} : waits' = [waits EXCEPT ![w] = r]
    BY <2>5
  <2>8. r \in WaitRecord /\ (r.phase = "asleep" => ~r.expired) /\ GoesOn(waits[w], r)
    BY <2>3, <2>4, <2>6, <2>7 DEF GoesOn
  <2> QED BY <2>7, <2>8, WaitAhead
<1>4. CASE Resume(w)
  <2> DEFINE again == [waits[w] EXCEPT !.phase = "asleep"]
  <2>1. waits[w].phase = "woken" /\ Over \in WaitRecord /\ Over.phase = "over"
    BY <1>4, OverTyped DEF Resume
  <2>2. again \in WaitRecord /\ again.caller = waits[w].caller /\ again.targets = waits[w].targets
        /\ again.expired = waits[w].expired
    BY <1>2 DEF WaitRecord
  <2>3. waits' = [waits EXCEPT ![w] = Over] \/ (~waits[w].expired /\ waits' = [waits EXCEPT ![w] = again])
    BY <1>4 DEF Resume
  <2> HIDE DEF again
  <2>4. GoesOn(waits[w], Over)
    BY <2>1 DEF GoesOn
  <2>5. CASE waits' = [waits EXCEPT ![w] = Over]
    BY <2>1, <2>4, <2>5, WaitAhead
  <2>6. CASE ~waits[w].expired /\ waits' = [waits EXCEPT ![w] = again]
    <3>1. GoesOn(waits[w], again) /\ ~again.expired
      BY <1>2, <2>2, <2>6 DEF GoesOn, WaitRecord
    <3> QED BY <2>2, <2>6, <3>1, WaitAhead
  <2> QED BY <2>3, <2>5, <2>6
<1>5. CASE Deadline(w)
  <2> DEFINE r == [waits[w] EXCEPT !.expired = TRUE, !.phase = "woken"]
  <2>1. r \in WaitRecord /\ r.phase = "woken" /\ r.expired /\ r.caller = waits[w].caller /\ r.targets = waits[w].targets
    BY <1>2 DEF WaitRecord
  <2>2. waits' = [waits EXCEPT ![w] = r]
    BY <1>5 DEF Deadline
  <2> HIDE DEF r
  <2>3. GoesOn(waits[w], r)
    BY <2>1 DEF GoesOn
  <2> QED BY <2>1, <2>2, <2>3, WaitAhead
<1>6. CASE CancelWait(w)
  <2>1. waits' = [waits EXCEPT ![w] = Over] /\ Over \in WaitRecord /\ GoesOn(waits[w], Over)
        /\ Over.phase # "asleep"
    BY <1>6, OverTyped DEF CancelWait, GoesOn
  <2> QED BY <2>1, WaitAhead
<1> QED BY <1>1, <1>3, <1>4, <1>5, <1>6

LEMMA StepAhead ==
  ASSUME MailboxInvariant, DeadlineAhead, [Next]_vars
  PROVE  DeadlineAhead' /\ \A w \in Waits : GoesOn(waits[w], waits'[w])
<1>1. waits \in WaitTable
  BY DEF MailboxInvariant
<1>2. CASE waits' = waits
  <2>1. \A w \in Waits : waits[w].phase \in {"asleep", "woken", "over"} /\ (waits[w].phase = "asleep" => ~waits[w].expired)
    BY <1>1 DEF WaitTable, WaitRecord, DeadlineAhead
  <2>2. \A w \in Waits : GoesOn(waits[w], waits'[w])
    BY <1>2, <2>1 DEF GoesOn
  <2> QED BY <1>2, <2>2 DEF DeadlineAhead
<1>3. CASE Ahead(waits, waits')
  BY <1>3 DEF Ahead, DeadlineAhead, Alarmed
<1>4. CASE Messages \/ Turns
  BY <1>1, <1>2, <1>3, <1>4, TurnsAhead
<1>5. CASE Closings
  BY <1>1, <1>3, <1>5, ClosingsAhead
<1>6. CASE Waiting
  BY <1>1, <1>6, WaitingAhead
<1>7. CASE UNCHANGED vars
  BY <1>2, <1>7 DEF vars
<1> QED BY <1>4, <1>5, <1>6, <1>7 DEF Next

\* No wait of waitForUpdate has its deadline behind it and sleeps.
THEOREM WaitNeverStuck == Spec => []DeadlineAhead
<1>1. Init => MailboxInvariant /\ DeadlineAhead
  <2>1. Init => DeadlineAhead
    BY OverTyped DEF Init, DeadlineAhead
  <2> QED BY <2>1, InitHolds
<1>2. MailboxInvariant /\ DeadlineAhead /\ [Next]_vars => MailboxInvariant' /\ DeadlineAhead'
  BY StepHolds, StepAhead
<1> QED BY <1>1, <1>2, PTL DEF Spec

\* However often a wait is woken for nothing, or goes back to sleep on a signal that
\* has aborted, it only comes nearer to its end.
THEOREM WaitRunsOut == Spec => WaitsRunDown
<1>1. Init => MailboxInvariant
  BY InitHolds
<1>2. MailboxInvariant /\ [Next]_vars => MailboxInvariant'
  BY StepHolds
<1>3. MailboxInvariant /\ DeadlineAhead /\ [Next]_vars => [\A w \in Waits : GoesOn(waits[w], waits'[w])]_vars
  BY StepAhead
<1> QED BY <1>1, <1>2, <1>3, WaitNeverStuck, PTL DEF Spec, WaitsRunDown

=============================================================================
