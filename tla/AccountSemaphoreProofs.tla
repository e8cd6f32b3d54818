----------------------- MODULE AccountSemaphoreProofs -----------------------
(***************************************************************************)
(* What holds of the account semaphore for any number of callers, gates,   *)
(* limits and accounts, and any bound of the queues.  The inductive        *)
(* invariant is IInv: the gates, the queues and the holders agree          *)
(* (Consistent), and no waiter could go that a drain would have served     *)
(* (NoLostWakeup).                                                         *)
(*                                                                         *)
(* Nearly every callback ends in drainQueues, whose result is defined by a *)
(* recursive function.  So the module first derives induction over sets of *)
(* naturals and of sequences, then what Only does to a queue, then what    *)
(* each turn of the drain keeps (DrainedFrom), and only then the actions.  *)
(***************************************************************************)
EXTENDS AccountSemaphore, FiniteSetTheorems, SequenceTheorems, TLAPS

-----------------------------------------------------------------------------
(* Induction.  The library's induction theorems take a predicate as a parameter; *)
(* a set of naturals in its place is within the provers' reach.                 *)

\* A set of naturals with 0 and every successor is Nat: otherwise n + 1 would map
\* the members up to a missing number one-to-one into fewer.
LEMMA NatSetInduction ==
  ASSUME NEW S \in SUBSET Nat, 0 \in S, \A n \in S : n + 1 \in S
  PROVE  S = Nat
<1> SUFFICES ASSUME NEW t \in Nat, t \notin S PROVE FALSE
  OBVIOUS
<1> DEFINE D == S \cap (0..t)
           f == [d \in D |-> d + 1]
<1>1. IsFiniteSet(D)
  <2>1. IsFiniteSet(0..t)
    BY FS_Interval
  <2> QED BY <2>1, FS_Subset
<1>2. 0 \in D
  OBVIOUS
<1>3. f \in [D -> D \ {0}]
  OBVIOUS
<1>4. \A x, y \in D : x # y => f[x] # f[y]
  OBVIOUS
<1> HIDE DEF f, D
<1>5. /\ IsFiniteSet(D \ {0})
      /\ Cardinality(D \ {0}) = Cardinality(D) - 1
  BY <1>1, <1>2, FS_RemoveElement
<1>6. Cardinality(D) \in Nat
  BY <1>1, FS_CardinalityType
<1>7. Cardinality(D \ {0}) < Cardinality(D)
  BY <1>5, <1>6
<1>8. \E x, y \in D : x # y /\ f[x] = f[y]
  BY <1>1, <1>3, <1>5, <1>7, FS_PigeonHole
<1> QED BY <1>4, <1>8

\* A set of naturals that is not empty has a least member.
LEMMA LeastNat ==
  ASSUME NEW T \in SUBSET Nat, T # {}
  PROVE  \E m \in T : \A n \in T : m <= n
<1> SUFFICES ASSUME \A m \in T : \E n \in T : n < m PROVE FALSE
  OBVIOUS
<1> DEFINE S == {n \in Nat : \A m \in T : n < m}
<1>1. 0 \in S
  OBVIOUS
<1>2. \A n \in S : n + 1 \in S
  <2> SUFFICES ASSUME NEW n \in S, NEW m \in T PROVE n + 1 < m
    OBVIOUS
  <2> QED OBVIOUS
<1> HIDE DEF S
<1>3. S = Nat
  BY <1>1, <1>2, NatSetInduction DEF S
<1>4. PICK t \in T : t \in S
  BY <1>3
<1> QED BY <1>4 DEF S

\* A set of sequences over R with the empty one and all one-element extensions
\* holds every sequence over R.
LEMMA SeqSetInduction ==
  ASSUME NEW R, NEW P, <<>> \in P, \A q \in P \cap Seq(R) : \A e \in R : Append(q, e) \in P
  PROVE  \A q \in Seq(R) : q \in P
<1> DEFINE N == {n \in Nat : \A q \in Seq(R) : Len(q) = n => q \in P}
<1>1. 0 \in N
  OBVIOUS
<1>2. ASSUME NEW n \in N PROVE n + 1 \in N
  <2> SUFFICES ASSUME NEW q \in Seq(R), Len(q) = n + 1 PROVE q \in P
    OBVIOUS
  <2> DEFINE p == SubSeq(q, 1, n)
  <2>1. p \in Seq(R) /\ Len(p) = n
    OBVIOUS
  <2>2. q[n + 1] \in R
    OBVIOUS
  <2>3. q = Append(p, q[n + 1])
    OBVIOUS
  <2>4. p \in P
    BY <2>1
  <2> HIDE DEF p
  <2> QED BY <2>1, <2>2, <2>3, <2>4
<1> HIDE DEF N
<1>3. N = Nat
  BY <1>1, <1>2, NatSetInduction DEF N
<1> QED BY <1>3 DEF N

-----------------------------------------------------------------------------
(* Only: the part of a queue in a set. *)

Part(f, q, A) ==
  f = [n \in 0..Len(q) |->
         IF n = 0 THEN <<>>
         ELSE IF q[n] \in A THEN Append(f[n - 1], q[n]) ELSE f[n - 1]]

LEMMA PartUnique ==
  ASSUME NEW R, NEW q \in Seq(R), NEW A, NEW f, NEW g, Part(f, q, A), Part(g, q, A)
  PROVE  f = g
<1> DEFINE N == {n \in Nat : n <= Len(q) => f[n] = g[n]}
<1>1. 0 \in N
  BY DEF Part
<1>2. ASSUME NEW n \in N PROVE n + 1 \in N
  <2> SUFFICES ASSUME n + 1 <= Len(q) PROVE f[n + 1] = g[n + 1]
    OBVIOUS
  <2>1. n + 1 \in 0..Len(q) /\ n + 1 # 0 /\ (n + 1) - 1 = n /\ f[n] = g[n]
    OBVIOUS
  <2>2. f[n + 1] = IF q[n + 1] \in A THEN Append(f[n], q[n + 1]) ELSE f[n]
    BY <2>1 DEF Part
  <2>3. g[n + 1] = IF q[n + 1] \in A THEN Append(g[n], q[n + 1]) ELSE g[n]
    BY <2>1 DEF Part
  <2> QED BY <2>1, <2>2, <2>3
<1> HIDE DEF N
<1>3. N = Nat
  BY <1>1, <1>2, NatSetInduction DEF N
<1>4. \A n \in 0..Len(q) : f[n] = g[n]
  BY <1>3 DEF N
<1> QED BY <1>4 DEF Part

LEMMA OnlyIsPart ==
  ASSUME NEW R, NEW q \in Seq(R), NEW A, NEW f, Part(f, q, A)
  PROVE  Only(q, A) = f[Len(q)]
<1> DEFINE c == CHOOSE g : Part(g, q, A)
<1>1. Part(c, q, A)
  OBVIOUS
<1>2. c = f
  <2> HIDE DEF c
  <2> QED BY <1>1, PartUnique
<1>3. Only(q, A) = c[Len(q)]
  BY DEF Only, Part
<1> QED BY <1>2, <1>3

LEMMA PartExtends ==
  ASSUME NEW R, NEW q \in Seq(R), NEW e \in R, NEW A, NEW f, Part(f, q, A)
  PROVE  \E g : /\ Part(g, Append(q, e), A)
                /\ g[Len(q) + 1] = IF e \in A THEN Append(f[Len(q)], e) ELSE f[Len(q)]
<1> DEFINE p == Append(q, e)
           g == [n \in 0..Len(q) + 1 |->
                   IF n <= Len(q) THEN f[n]
                   ELSE IF e \in A THEN Append(f[Len(q)], e) ELSE f[Len(q)]]
<1>1. Len(p) = Len(q) + 1 /\ p[Len(q) + 1] = e /\ \A n \in 1..Len(q) : p[n] = q[n]
  OBVIOUS
<1>2. ASSUME NEW n \in 0..Len(p)
      PROVE  g[n] = IF n = 0 THEN <<>>
                    ELSE IF p[n] \in A THEN Append(g[n - 1], p[n]) ELSE g[n - 1]
  <2>1. CASE n = 0
    BY <2>1 DEF Part
  <2>2. CASE n \in 1..Len(q)
    <3>1. f[n] = IF q[n] \in A THEN Append(f[n - 1], q[n]) ELSE f[n - 1]
      <4>1. n \in 0..Len(q) /\ n # 0
        BY <2>2
      <4> QED BY <4>1 DEF Part
    <3>2. g[n] = f[n] /\ g[n - 1] = f[n - 1] /\ p[n] = q[n]
      BY <2>2, <1>1
    <3> QED BY <2>2, <3>1, <3>2
  <2>3. CASE n = Len(q) + 1
    <3>1. g[n - 1] = f[Len(q)] /\ p[n] = e
      BY <2>3, <1>1
    <3> QED BY <2>3, <3>1
  <2> QED BY <1>1, <2>1, <2>2, <2>3
<1>3. Part(g, p, A)
  <2>1. g = [n \in 0..Len(p) |-> g[n]]
    BY <1>1
  <2> HIDE DEF g, p
  <2> QED BY <1>2, <2>1 DEF Part
<1>4. g[Len(q) + 1] = IF e \in A THEN Append(f[Len(q)], e) ELSE f[Len(q)]
  OBVIOUS
<1> HIDE DEF g
<1> QED BY <1>3, <1>4

LEMMA PartExists ==
  ASSUME NEW R, NEW A
  PROVE  \A q \in Seq(R) : \E f : Part(f, q, A)
<1> DEFINE P == {q \in Seq(R) : \E f : Part(f, q, A)}
<1>1. <<>> \in P
  <2>1. Part([n \in 0..0 |-> <<>>], <<>>, A)
    BY DEF Part
  <2> QED BY <2>1
<1>2. ASSUME NEW q \in P \cap Seq(R), NEW e \in R PROVE Append(q, e) \in P
  <2>1. PICK f : Part(f, q, A)
    OBVIOUS
  <2> QED BY <2>1, PartExtends
<1> HIDE DEF P
<1>3. \A q \in Seq(R) : q \in P
  BY <1>1, <1>2, SeqSetInduction
<1> QED BY <1>3 DEF P

\* The two equations by which everything else about Only is proved.
LEMMA OnlyEmpty ==
  ASSUME NEW A
  PROVE  Only(<<>>, A) = <<>>
<1>1. Part([n \in 0..0 |-> <<>>], <<>>, A)
  BY DEF Part
<1>2. <<>> \in Seq(A)
  OBVIOUS
<1> QED BY <1>1, <1>2, OnlyIsPart

LEMMA OnlyAppend ==
  ASSUME NEW R, NEW q \in Seq(R), NEW e \in R, NEW A
  PROVE  Only(Append(q, e), A) = IF e \in A THEN Append(Only(q, A), e) ELSE Only(q, A)
<1>1. PICK f : Part(f, q, A)
  BY PartExists
<1>2. PICK g : /\ Part(g, Append(q, e), A)
               /\ g[Len(q) + 1] = IF e \in A THEN Append(f[Len(q)], e) ELSE f[Len(q)]
  BY <1>1, PartExtends
<1>3. Only(q, A) = f[Len(q)]
  BY <1>1, OnlyIsPart
<1>4. Append(q, e) \in Seq(R) /\ Len(Append(q, e)) = Len(q) + 1
  OBVIOUS
<1>5. Only(Append(q, e), A) = g[Len(q) + 1]
  BY <1>2, <1>4, OnlyIsPart
<1> QED BY <1>2, <1>3, <1>5

LEMMA AppendFacts ==
  ASSUME NEW R, NEW q \in Seq(R), NEW e \in R
  PROVE  /\ Append(q, e) \in Seq(R)
         /\ Len(Append(q, e)) = Len(q) + 1
         /\ ToSet(Append(q, e)) = ToSet(q) \cup {e}
         /\ IsInjective(Append(q, e)) <=> IsInjective(q) /\ e \notin ToSet(q)
<1> DEFINE p == Append(q, e)
<1>1. /\ p \in Seq(R) /\ Len(p) = Len(q) + 1 /\ p[Len(q) + 1] = e
      /\ \A n \in 1..Len(q) : p[n] = q[n]
      /\ DOMAIN p = 1..Len(q) + 1 /\ DOMAIN q = 1..Len(q) /\ Len(q) \in Nat
  OBVIOUS
<1> HIDE DEF p
<1>2. ToSet(p) = ToSet(q) \cup {e}
  <2>1. ASSUME NEW x \in ToSet(p) PROVE x \in ToSet(q) \cup {e}
    <3>1. PICK n \in 1..Len(q) + 1 : x = p[n]
      BY <1>1 DEF ToSet
    <3>2. CASE n = Len(q) + 1
      BY <1>1, <3>1, <3>2
    <3>3. CASE n \in 1..Len(q)
      BY <1>1, <3>1, <3>3 DEF ToSet
    <3> QED BY <3>2, <3>3
  <2>2. ToSet(q) \subseteq ToSet(p)
    <3> SUFFICES ASSUME NEW n \in 1..Len(q) PROVE q[n] \in ToSet(p)
      BY <1>1 DEF ToSet
    <3>1. n \in 1..Len(q) + 1 /\ p[n] = q[n]
      BY <1>1
    <3> QED BY <1>1, <3>1 DEF ToSet
  <2>3. e \in ToSet(p)
    BY <1>1 DEF ToSet
  <2> QED BY <2>1, <2>2, <2>3
<1>3. ASSUME IsInjective(p) PROVE IsInjective(q) /\ e \notin ToSet(q)
  <2>1. IsInjective(q)
    BY <1>1, <1>3 DEF IsInjective
  <2>2. ASSUME NEW n \in 1..Len(q), q[n] = e PROVE FALSE
    <3>1. n \in DOMAIN p /\ Len(q) + 1 \in DOMAIN p /\ p[n] = p[Len(q) + 1]
      BY <1>1, <2>2
    <3>2. n = Len(q) + 1
      BY <1>3, <3>1 DEF IsInjective
    <3> QED BY <1>1, <3>2
  <2> QED BY <1>1, <2>1, <2>2 DEF ToSet
<1>4. ASSUME IsInjective(q), e \notin ToSet(q) PROVE IsInjective(p)
  <2> SUFFICES ASSUME NEW i \in 1..Len(q) + 1, NEW j \in 1..Len(q) + 1, p[i] = p[j]
               PROVE  i = j
    BY <1>1 DEF IsInjective
  <2>1. CASE i \in 1..Len(q) /\ j \in 1..Len(q)
    BY <1>1, <1>4, <2>1 DEF IsInjective
  <2>2. CASE i = Len(q) + 1 /\ j = Len(q) + 1
    BY <2>2
  <2>3. CASE i = Len(q) + 1 /\ j \in 1..Len(q)
    BY <1>1, <1>4, <2>3 DEF ToSet
  <2>4. CASE i \in 1..Len(q) /\ j = Len(q) + 1
    BY <1>1, <1>4, <2>4 DEF ToSet
  <2> QED BY <1>1, <2>1, <2>2, <2>3, <2>4
<1> QED BY <1>1, <1>2, <1>3, <1>4 DEF p

\* Only(q, A) holds the members of q in A, and is as long as q just when that is all.
LEMMA OnlyMembers ==
  ASSUME NEW R, NEW A
  PROVE  \A q \in Seq(R) :
           /\ Only(q, A) \in Seq(R)
           /\ ToSet(Only(q, A)) = ToSet(q) \cap A
           /\ Len(Only(q, A)) <= Len(q)
           /\ ToSet(q) \subseteq A => Only(q, A) = q
           /\ Len(Only(q, A)) = Len(q) => ToSet(q) \subseteq A
           /\ IsInjective(q) => IsInjective(Only(q, A))
<1> DEFINE Holds(q) ==
             /\ Only(q, A) \in Seq(R)
             /\ ToSet(Only(q, A)) = ToSet(q) \cap A
             /\ Len(Only(q, A)) <= Len(q)
             /\ ToSet(q) \subseteq A => Only(q, A) = q
             /\ Len(Only(q, A)) = Len(q) => ToSet(q) \subseteq A
             /\ IsInjective(q) => IsInjective(Only(q, A))
           P == {q \in Seq(R) : Holds(q)}
<1>1. <<>> \in P
  <2>1. <<>> \in Seq(R) /\ ToSet(<<>>) = {} /\ Len(<<>>) = 0
    BY DEF ToSet
  <2>2. Only(<<>>, A) = <<>>
    BY OnlyEmpty
  <2>3. Len(<<>>) <= Len(<<>>)
    OBVIOUS
  <2>4. Holds(<<>>)
    BY <2>1, <2>2, <2>3, Zenon
  <2> QED BY <2>1, <2>4
<1>2. ASSUME NEW q \in P \cap Seq(R), NEW e \in R PROVE Append(q, e) \in P
  <2> DEFINE o == Only(q, A)
             p == Append(q, e)
  <2>1. Holds(q)
    OBVIOUS
  <2>2. /\ p \in Seq(R) /\ Len(p) = Len(q) + 1 /\ ToSet(p) = ToSet(q) \cup {e}
        /\ IsInjective(p) <=> IsInjective(q) /\ e \notin ToSet(q)
    BY AppendFacts
  <2>3. Only(p, A) = IF e \in A THEN Append(o, e) ELSE o
    BY OnlyAppend
  <2>4. o \in Seq(R)
    BY <2>1
  <2>5. /\ Append(o, e) \in Seq(R) /\ Len(Append(o, e)) = Len(o) + 1
        /\ ToSet(Append(o, e)) = ToSet(o) \cup {e}
        /\ IsInjective(Append(o, e)) <=> IsInjective(o) /\ e \notin ToSet(o)
    BY <2>4, AppendFacts
  <2>6. Len(o) \in Nat /\ Len(q) \in Nat
    BY <2>4
  <2>7. ToSet(p) \subseteq A => Only(p, A) = p
    BY <2>1, <2>2, <2>3
  <2> HIDE DEF p
  <2>8. CASE e \in A
    <3>1. Only(p, A) = Append(o, e)
      BY <2>3, <2>8
    <3> HIDE DEF o
    <3>2. Holds(p)
      BY <2>1, <2>2, <2>5, <2>6, <2>7, <2>8, <3>1 DEF o
    <3> QED BY <2>2, <3>2 DEF p
  <2>9. CASE e \notin A
    <3>1. Only(p, A) = o
      BY <2>3, <2>9
    <3> HIDE DEF o
    <3>2. Holds(p)
      BY <2>1, <2>2, <2>6, <2>7, <2>9, <3>1 DEF o
    <3> QED BY <2>2, <3>2 DEF p
  <2> QED BY <2>8, <2>9
<1> HIDE DEF P
<1>3. \A q \in Seq(R) : q \in P
  BY <1>1, <1>2, SeqSetInduction
<1> QED BY <1>3 DEF P

\* Taking a part of a part takes what is in both sets.
LEMMA OnlyTwice ==
  ASSUME NEW R, NEW A, NEW B
  PROVE  \A q \in Seq(R) : Only(Only(q, A), B) = Only(q, A \cap B)
<1> DEFINE P == {q \in Seq(R) : Only(Only(q, A), B) = Only(q, A \cap B)}
<1>1. <<>> \in P
  BY OnlyEmpty
<1>2. ASSUME NEW q \in P \cap Seq(R), NEW e \in R PROVE Append(q, e) \in P
  <2>1. Only(q, A) \in Seq(R) /\ Append(q, e) \in Seq(R)
    BY OnlyMembers
  <2>2. Only(Append(q, e), A) = IF e \in A THEN Append(Only(q, A), e) ELSE Only(q, A)
    BY OnlyAppend
  <2>3. Only(Append(q, e), A \cap B)
          = IF e \in A \cap B THEN Append(Only(q, A \cap B), e) ELSE Only(q, A \cap B)
    BY OnlyAppend
  <2>4. Only(Append(Only(q, A), e), B)
          = IF e \in B THEN Append(Only(Only(q, A), B), e) ELSE Only(Only(q, A), B)
    BY <2>1, OnlyAppend
  <2>5. Only(Only(q, A), B) = Only(q, A \cap B)
    OBVIOUS
  <2> DEFINE o == Only(q, A)
             p == Append(q, e)
  <2> SUFFICES Only(Only(p, A), B) = Only(p, A \cap B)
    BY <2>1
  <2> HIDE DEF o, p
  <2>6. CASE e \in A
    <3>1. Only(Only(p, A), B) = Only(Append(o, e), B)
      BY <2>2, <2>6 DEF o, p
    <3>2. CASE e \in B
      BY <2>3, <2>4, <2>5, <2>6, <3>1, <3>2 DEF o, p
    <3>3. CASE e \notin B
      BY <2>3, <2>4, <2>5, <2>6, <3>1, <3>3 DEF o, p
    <3> QED BY <3>2, <3>3
  <2>7. CASE e \notin A
    BY <2>2, <2>3, <2>5, <2>7 DEF o, p
  <2> QED BY <2>6, <2>7
<1> HIDE DEF P
<1>3. \A q \in Seq(R) : q \in P
  BY <1>1, <1>2, SeqSetInduction
<1> QED BY <1>3 DEF P

\* x stands before y in q.
Before(q, x, y) == \E i, j \in DOMAIN q : i < j /\ q[i] = x /\ q[j] = y

LEMMA BeforeAppend ==
  ASSUME NEW R, NEW q \in Seq(R), NEW e \in R, NEW x, NEW y
  PROVE  Before(Append(q, e), x, y) <=> Before(q, x, y) \/ (x \in ToSet(q) /\ y = e)
<1> DEFINE p == Append(q, e)
<1>1. /\ p[Len(q) + 1] = e /\ \A n \in 1..Len(q) : p[n] = q[n]
      /\ DOMAIN p = 1..Len(q) + 1 /\ DOMAIN q = 1..Len(q) /\ Len(q) \in Nat
  OBVIOUS
<1> HIDE DEF p
<1>2. ASSUME Before(p, x, y) PROVE Before(q, x, y) \/ (x \in ToSet(q) /\ y = e)
  <2>1. PICK i, j \in 1..Len(q) + 1 : i < j /\ p[i] = x /\ p[j] = y
    BY <1>1, <1>2 DEF Before
  <2>2. i \in 1..Len(q) /\ q[i] = x
    BY <1>1, <2>1
  <2>3. CASE j = Len(q) + 1
    BY <1>1, <2>1, <2>2, <2>3 DEF ToSet
  <2>4. CASE j \in 1..Len(q)
    BY <1>1, <2>1, <2>2, <2>4 DEF Before
  <2> QED BY <1>1, <2>3, <2>4
<1>3. ASSUME Before(q, x, y) PROVE Before(p, x, y)
  <2>1. PICK i, j \in 1..Len(q) : i < j /\ q[i] = x /\ q[j] = y
    BY <1>1, <1>3 DEF Before
  <2>2. /\ i \in DOMAIN p /\ j \in DOMAIN p /\ p[i] = x /\ p[j] = y
    BY <1>1, <2>1
  <2> QED BY <2>1, <2>2 DEF Before
<1>4. ASSUME x \in ToSet(q), y = e PROVE Before(p, x, y)
  <2>1. PICK i \in 1..Len(q) : q[i] = x
    BY <1>1, <1>4 DEF ToSet
  <2>2. /\ i \in DOMAIN p /\ Len(q) + 1 \in DOMAIN p /\ i < Len(q) + 1
        /\ p[i] = x /\ p[Len(q) + 1] = y
    BY <1>1, <1>4, <2>1
  <2> QED BY <2>2 DEF Before
<1> QED BY <1>2, <1>3, <1>4 DEF p

\* Taking a part keeps the order.
LEMMA OnlyBefore ==
  ASSUME NEW R, NEW A, NEW x \in A, NEW y \in A
  PROVE  \A q \in Seq(R) : Before(q, x, y) => Before(Only(q, A), x, y)
<1> DEFINE P == {q \in Seq(R) : Before(q, x, y) => Before(Only(q, A), x, y)}
<1>1. <<>> \in P
  BY DEF Before
<1>2. ASSUME NEW q \in P \cap Seq(R), NEW e \in R PROVE Append(q, e) \in P
  <2>1. Only(q, A) \in Seq(R) /\ Append(q, e) \in Seq(R) /\ ToSet(Only(q, A)) = ToSet(q) \cap A
    BY OnlyMembers
  <2>2. Only(Append(q, e), A) = IF e \in A THEN Append(Only(q, A), e) ELSE Only(q, A)
    BY OnlyAppend
  <2>3. Before(Append(q, e), x, y) <=> Before(q, x, y) \/ (x \in ToSet(q) /\ y = e)
    BY BeforeAppend
  <2>4. Before(Append(Only(q, A), e), x, y)
          <=> Before(Only(q, A), x, y) \/ (x \in ToSet(Only(q, A)) /\ y = e)
    BY <2>1, BeforeAppend
  <2>5. Before(q, x, y) => Before(Only(q, A), x, y)
    OBVIOUS
  <2>6. CASE e \in A
    BY <2>1, <2>2, <2>3, <2>4, <2>5, <2>6
  <2>7. CASE e \notin A
    BY <2>1, <2>2, <2>3, <2>5, <2>7
  <2> QED BY <2>6, <2>7
<1> HIDE DEF P
<1>3. \A q \in Seq(R) : q \in P
  BY <1>1, <1>2, SeqSetInduction
<1> QED BY <1>3 DEF P

\* Nobody stands before the head of a queue without repetitions.
LEMMA HeadIsFirst ==
  ASSUME NEW R, NEW q \in Seq(R), IsInjective(q), NEW x
  PROVE  ~Before(q, x, Head(q))
<1> SUFFICES ASSUME NEW i \in DOMAIN q, NEW j \in DOMAIN q, i < j, q[j] = Head(q) PROVE FALSE
  BY DEF Before
<1>1. Head(q) = q[1] /\ 1 \in DOMAIN q
  OBVIOUS
<1>2. j = 1
  BY <1>1 DEF IsInjective
<1> QED BY <1>2

-----------------------------------------------------------------------------
(* States of the semaphore, and what holds of one between two turns of a drain. *)

States == [gates : [Keys -> Gate \cup {NoGate}], waiting : Seq(Requests),
           holders : SUBSET Requests]

\* QueuesAgree, of a state s.
Agree(s) ==
  \A k \in Keys :
    IF s.gates[k] # NoGate
    THEN s.gates[k].queue = Only(s.waiting, HoldersOf(k, Requests))
    ELSE \A r \in ToSet(s.waiting) : k \notin Needs(r)

RunningAt(s, k) == IF s.gates[k] # NoGate THEN s.gates[k].running ELSE 0

\* SlotsAreCounted, of a state s in which the keys F are forgotten.
Counts(s, F) ==
  \A k \in Keys :
    /\ RunningAt(s, k) <= Cardinality(HoldersOf(k, s.holders))
    /\ k \notin F => RunningAt(s, k) = Cardinality(HoldersOf(k, s.holders))

Consistent(s, F) ==
  /\ s \in States
  /\ IsFiniteSet(s.holders)
  /\ IsInjective(s.waiting)
  /\ ToSet(s.waiting) \cap s.holders = {}
  /\ Agree(s)
  /\ Counts(s, F)

Stuck(s) == \A r \in ToSet(s.waiting) : ~CanAcquire(s, r)

\* What a change of timers and queues leaves of the gates.
SameSlots(gs, hs) ==
  \A k \in Keys :
    /\ hs[k] = NoGate <=> gs[k] = NoGate
    /\ gs[k] # NoGate => /\ hs[k].running = gs[k].running
                         /\ hs[k].max = gs[k].max
                         /\ hs[k].blocked = gs[k].blocked

LEMMA NeedsType ==
  ASSUME NEW r \in Requests
  PROVE  /\ Needs(r) \in SUBSET Keys
         /\ \A k \in Needs(r) : Wants[r][k] \in Nat \ {0}
BY WantsType DEF Needs

LEMMA GateFields ==
  ASSUME NEW g \in Gate
  PROVE  /\ g.running \in Nat /\ g.max \in Nat \ {0} /\ g.queue \in Seq(Requests)
         /\ g.blocked \in BOOLEAN /\ g.timer \in BOOLEAN /\ g # NoGate
BY NoGateIsNone DEF Gate

LEMMA GateChanges ==
  ASSUME NEW g \in Gate
  PROVE  /\ \A n \in Nat : [g EXCEPT !.running = n] \in Gate
         /\ \A q \in Seq(Requests) : [g EXCEPT !.queue = q] \in Gate
         /\ \A b \in BOOLEAN : [g EXCEPT !.timer = b] \in Gate
         /\ \A b \in BOOLEAN : [g EXCEPT !.blocked = b] \in Gate
         /\ \A n \in Nat \ {0} : \A b \in BOOLEAN : [g EXCEPT !.max = n, !.timer = b] \in Gate
BY DEF Gate

LEMMA ScheduledFacts ==
  ASSUME NEW g \in Gate
  PROVE  /\ Scheduled(g) \in Gate
         /\ Scheduled(g).running = g.running
         /\ Scheduled(g).max = g.max
         /\ Scheduled(g).queue = g.queue
         /\ Scheduled(g).blocked = g.blocked
BY DEF Scheduled, Gate

\* removeRequest touches nothing but queues and timers, and takes the requests out
\* of all queues alike.
LEMMA RemovedFacts ==
  ASSUME NEW s \in States, Agree(s), NEW rs \in SUBSET Requests
  PROVE  /\ Removed(s, rs) \in States
         /\ Removed(s, rs).waiting = Only(s.waiting, Requests \ rs)
         /\ Removed(s, rs).holders = s.holders
         /\ SameSlots(s.gates, Removed(s, rs).gates)
         /\ Agree(Removed(s, rs))
<1> DEFINE Skips(k) == s.gates[k] = NoGate \/ \A r \in rs : k \notin Needs(r)
           cut(k) == [s.gates[k] EXCEPT !.queue = Only(@, Requests \ rs)]
           gs == [k \in Keys |-> IF Skips(k) THEN s.gates[k] ELSE Scheduled(cut(k))]
           t == Removed(s, rs)
<1>1. /\ s.gates \in [Keys -> Gate \cup {NoGate}] /\ s.waiting \in Seq(Requests)
      /\ s.holders \in SUBSET Requests
  BY DEF States
<1>2. /\ t.waiting = Only(s.waiting, Requests \ rs) /\ t.holders = s.holders /\ t.gates = gs
      /\ t = [gates |-> gs, waiting |-> Only(s.waiting, Requests \ rs), holders |-> s.holders]
  <2>1. t = [s EXCEPT !.waiting = Only(@, Requests \ rs), !.gates = gs]
    BY Zenon DEF Removed, Without
  <2> HIDE DEF gs, t
  <2> QED BY <2>1 DEF States
<1> HIDE DEF t
<1>3. t.waiting \in Seq(Requests) /\ ToSet(t.waiting) = ToSet(s.waiting) \ rs
  <2>1. ToSet(s.waiting) \subseteq Requests
    BY <1>1 DEF ToSet
  <2> QED BY <1>1, <1>2, <2>1, OnlyMembers
<1>4. ASSUME NEW k \in Keys, ~Skips(k)
      PROVE  /\ gs[k] \in Gate /\ gs[k].running = s.gates[k].running
             /\ gs[k].max = s.gates[k].max /\ gs[k].blocked = s.gates[k].blocked
             /\ gs[k].queue = Only(s.gates[k].queue, Requests \ rs)
  <2> DEFINE g == s.gates[k]
             o == Only(g.queue, Requests \ rs)
  <2>1. g \in Gate
    BY <1>1, <1>4
  <2>2. o \in Seq(Requests)
    BY <2>1, GateFields, OnlyMembers
  <2>3. cut(k) = [g EXCEPT !.queue = o]
    OBVIOUS
  <2> HIDE DEF o
  <2>4. [g EXCEPT !.queue = o] \in Gate
    BY <2>1, <2>2, GateChanges
  <2>5. /\ [g EXCEPT !.queue = o].running = g.running /\ [g EXCEPT !.queue = o].max = g.max
        /\ [g EXCEPT !.queue = o].blocked = g.blocked /\ [g EXCEPT !.queue = o].queue = o
    BY <2>1 DEF Gate
  <2>6. gs[k] = Scheduled([g EXCEPT !.queue = o])
    BY <1>4, <2>3
  <2> HIDE DEF gs, g
  <2>7. /\ gs[k] \in Gate /\ gs[k].running = g.running /\ gs[k].max = g.max
        /\ gs[k].blocked = g.blocked /\ gs[k].queue = o
    BY <2>4, <2>5, <2>6, ScheduledFacts
  <2> QED BY <2>7 DEF o, g
<1>5. ASSUME NEW k \in Keys, Skips(k) PROVE gs[k] = s.gates[k]
  BY <1>5
<1>6. gs \in [Keys -> Gate \cup {NoGate}]
  <2>1. gs = [k \in Keys |-> gs[k]]
    OBVIOUS
  <2>2. ASSUME NEW k \in Keys PROVE gs[k] \in Gate \cup {NoGate}
    <3> HIDE DEF gs
    <3> QED BY <1>1, <1>4, <1>5
  <2> HIDE DEF gs
  <2> QED BY <2>1, <2>2
<1>7. SameSlots(s.gates, gs)
  <2> HIDE DEF gs
  <2> SUFFICES ASSUME NEW k \in Keys
               PROVE  /\ gs[k] = NoGate <=> s.gates[k] = NoGate
                      /\ s.gates[k] # NoGate => /\ gs[k].running = s.gates[k].running
                                                /\ gs[k].max = s.gates[k].max
                                                /\ gs[k].blocked = s.gates[k].blocked
    BY DEF SameSlots
  <2>1. CASE Skips(k)
    BY <1>5, <2>1
  <2>2. CASE ~Skips(k)
    BY <1>4, <2>2, NoGateIsNone
  <2> QED BY <2>1, <2>2
<1> HIDE DEF gs
<1>8. Agree(t)
  <2> SUFFICES ASSUME NEW k \in Keys
               PROVE  IF gs[k] # NoGate
                      THEN gs[k].queue = Only(t.waiting, HoldersOf(k, Requests))
                      ELSE \A r \in ToSet(t.waiting) : k \notin Needs(r)
    BY <1>2 DEF Agree
  <2> DEFINE nb == HoldersOf(k, Requests)
  <2>1. CASE s.gates[k] = NoGate
    <3>1. gs[k] = NoGate
      BY <2>1, <1>5
    <3>2. \A r \in ToSet(s.waiting) : k \notin Needs(r)
      BY <2>1 DEF Agree
    <3> QED BY <1>3, <3>1, <3>2
  <2>2. CASE s.gates[k] # NoGate
    <3>1. s.gates[k].queue = Only(s.waiting, nb)
      BY <2>2 DEF Agree
    <3>2. Only(t.waiting, nb) = Only(s.waiting, (Requests \ rs) \cap nb)
      BY <1>1, <1>2, OnlyTwice
    <3>3. gs[k] # NoGate
      BY <2>2, <1>7 DEF SameSlots
    <3>4. CASE Skips(k)
      <4>1. (Requests \ rs) \cap nb = nb
        BY <2>2, <3>4 DEF HoldersOf
      <4> QED BY <1>5, <3>1, <3>2, <3>3, <3>4, <4>1
    <3>5. CASE ~Skips(k)
      <4>1. gs[k].queue = Only(Only(s.waiting, nb), Requests \ rs)
        BY <1>4, <3>1, <3>5
      <4>2. Only(Only(s.waiting, nb), Requests \ rs) = Only(s.waiting, nb \cap (Requests \ rs))
        BY <1>1, OnlyTwice
      <4>3. nb \cap (Requests \ rs) = (Requests \ rs) \cap nb
        OBVIOUS
      <4> QED BY <3>2, <3>3, <4>1, <4>2, <4>3
    <3> QED BY <3>4, <3>5
  <2> QED BY <2>1, <2>2
<1>9. t \in States
  BY <1>1, <1>2, <1>3, <1>6 DEF States
<1> QED BY <1>2, <1>7, <1>8, <1>9 DEF t

LEMMA RemovedIsConsistent ==
  ASSUME NEW s, NEW F, Consistent(s, F), NEW rs \in SUBSET Requests
  PROVE  Consistent(Removed(s, rs), F)
<1> DEFINE t == Removed(s, rs)
<1>1. /\ t \in States /\ t.waiting = Only(s.waiting, Requests \ rs) /\ t.holders = s.holders
      /\ SameSlots(s.gates, t.gates) /\ Agree(t)
  BY RemovedFacts DEF Consistent
<1> HIDE DEF t
<1>2. s.waiting \in Seq(Requests)
  BY DEF Consistent, States
<1>3. IsInjective(t.waiting) /\ ToSet(t.waiting) \subseteq ToSet(s.waiting)
  BY <1>1, <1>2, OnlyMembers DEF Consistent
<1>4. \A k \in Keys : RunningAt(t, k) = RunningAt(s, k)
  BY <1>1 DEF SameSlots, RunningAt
<1>5. Counts(t, F)
  BY <1>1, <1>4 DEF Counts, Consistent
<1>6. Consistent(t, F)
  BY <1>1, <1>3, <1>5 DEF Consistent
<1> QED BY <1>6 DEF t

-----------------------------------------------------------------------------
(* A turn of the drain. *)

LEMMA HoldersMore ==
  ASSUME NEW hs, IsFiniteSet(hs), NEW r, r \notin hs, NEW k
  PROVE  /\ IsFiniteSet(hs \cup {r})
         /\ Cardinality(HoldersOf(k, hs)) \in Nat
         /\ Cardinality(HoldersOf(k, hs \cup {r}))
              = Cardinality(HoldersOf(k, hs)) + (IF k \in Needs(r) THEN 1 ELSE 0)
<1>1. IsFiniteSet(HoldersOf(k, hs)) /\ r \notin HoldersOf(k, hs)
  BY FS_Subset DEF HoldersOf
<1>2. IsFiniteSet(hs \cup {r})
  BY FS_AddElement
<1>3. Cardinality(HoldersOf(k, hs)) \in Nat
  BY <1>1, FS_CardinalityType
<1>4. CASE k \in Needs(r)
  <2>1. HoldersOf(k, hs \cup {r}) = HoldersOf(k, hs) \cup {r}
    BY <1>4 DEF HoldersOf
  <2>2. Cardinality(HoldersOf(k, hs) \cup {r}) = Cardinality(HoldersOf(k, hs)) + 1
    BY <1>1, FS_AddElement
  <2> QED BY <1>2, <1>3, <1>4, <2>1, <2>2
<1>5. CASE k \notin Needs(r)
  <2>1. HoldersOf(k, hs \cup {r}) = HoldersOf(k, hs)
    BY <1>5 DEF HoldersOf
  <2> QED BY <1>2, <1>3, <1>5, <2>1
<1> QED BY <1>4, <1>5

LEMMA HoldersLess ==
  ASSUME NEW hs, IsFiniteSet(hs), NEW r \in hs, NEW k
  PROVE  /\ IsFiniteSet(hs \ {r})
         /\ Cardinality(HoldersOf(k, hs \ {r})) \in Nat
         /\ Cardinality(HoldersOf(k, hs))
              = Cardinality(HoldersOf(k, hs \ {r})) + (IF k \in Needs(r) THEN 1 ELSE 0)
<1>1. IsFiniteSet(hs \ {r}) /\ r \notin hs \ {r} /\ hs = (hs \ {r}) \cup {r}
  BY FS_Subset
<1> QED BY <1>1, HoldersMore

\* Counted adds one at the gates r needs, which are all there.
LEMMA CountedFacts ==
  ASSUME NEW gs \in [Keys -> Gate \cup {NoGate}], NEW r \in Requests,
         \A k \in Needs(r) : gs[k] # NoGate
  PROVE  /\ Counted(gs, r, 1) \in [Keys -> Gate \cup {NoGate}]
         /\ \A k \in Keys :
              /\ k \notin Needs(r) => Counted(gs, r, 1)[k] = gs[k]
              /\ k \in Needs(r) => /\ Counted(gs, r, 1)[k] \in Gate
                                   /\ Counted(gs, r, 1)[k].running = gs[k].running + 1
                                   /\ Counted(gs, r, 1)[k].max = gs[k].max
                                   /\ Counted(gs, r, 1)[k].blocked = gs[k].blocked
                                   /\ Counted(gs, r, 1)[k].queue = gs[k].queue
<1> DEFINE cs == Counted(gs, r, 1)
<1>1. cs = [k \in Keys |-> IF k \in Needs(r) THEN [gs[k] EXCEPT !.running = @ + 1] ELSE gs[k]]
  BY DEF Counted
<1>2. ASSUME NEW k \in Keys, k \in Needs(r)
      PROVE  /\ cs[k] \in Gate /\ cs[k].running = gs[k].running + 1 /\ cs[k].max = gs[k].max
             /\ cs[k].blocked = gs[k].blocked /\ cs[k].queue = gs[k].queue
  <2>1. gs[k] \in Gate
    BY <1>2
  <2>2. cs[k] = [gs[k] EXCEPT !.running = @ + 1]
    BY <1>1, <1>2
  <2> HIDE DEF cs
  <2> QED BY <2>1, <2>2 DEF Gate
<1>3. ASSUME NEW k \in Keys, k \notin Needs(r) PROVE cs[k] = gs[k]
  BY <1>1, <1>3
<1> HIDE DEF cs
<1>4. cs \in [Keys -> Gate \cup {NoGate}]
  BY <1>1, <1>2, <1>3
<1> QED BY <1>2, <1>3, <1>4 DEF cs

\* A request outside of queues and holders is counted at its gates and holds them.
LEMMA CountedIsConsistent ==
  ASSUME NEW p, NEW F, Consistent(p, F), NEW r \in Requests,
         r \notin p.holders, r \notin ToSet(p.waiting), \A k \in Needs(r) : p.gates[k] # NoGate
  PROVE  LET t == [p EXCEPT !.gates = Counted(@, r, 1), !.holders = @ \cup {r}] IN
         /\ Consistent(t, F)
         /\ t.gates = Counted(p.gates, r, 1)
         /\ t.waiting = p.waiting
         /\ t.holders = p.holders \cup {r}
<1> DEFINE cs == Counted(p.gates, r, 1)
           t == [p EXCEPT !.gates = Counted(@, r, 1), !.holders = @ \cup {r}]
<1>1. /\ p \in States /\ p.gates \in [Keys -> Gate \cup {NoGate}]
      /\ p.waiting \in Seq(Requests) /\ p.holders \subseteq Requests /\ IsFiniteSet(p.holders)
  BY DEF Consistent, States
<1>2. /\ cs \in [Keys -> Gate \cup {NoGate}]
      /\ \A k \in Keys :
           /\ k \notin Needs(r) => cs[k] = p.gates[k]
           /\ k \in Needs(r) => /\ cs[k] \in Gate
                                /\ cs[k].running = p.gates[k].running + 1
                                /\ cs[k].max = p.gates[k].max
                                /\ cs[k].blocked = p.gates[k].blocked
                                /\ cs[k].queue = p.gates[k].queue
  BY <1>1, CountedFacts
<1>3. t.gates = cs /\ t.waiting = p.waiting /\ t.holders = p.holders \cup {r} /\ t \in States
  <2> HIDE DEF cs
  <2>1. t = [p EXCEPT !.gates = cs, !.holders = p.holders \cup {r}]
    BY <1>1 DEF cs, States
  <2> HIDE DEF t
  <2> QED BY <1>1, <1>2, <2>1 DEF States
<1> HIDE DEF cs, t
<1>4. ASSUME NEW k \in Keys
      PROVE  /\ t.gates[k] = NoGate <=> p.gates[k] = NoGate
             /\ p.gates[k] # NoGate => t.gates[k].queue = p.gates[k].queue
             /\ RunningAt(t, k) = RunningAt(p, k) + (IF k \in Needs(r) THEN 1 ELSE 0)
             /\ RunningAt(p, k) \in Nat
  <2>1. RunningAt(p, k) \in Nat
    BY <1>1, GateFields DEF RunningAt
  <2>2. CASE k \in Needs(r)
    <3>1. /\ p.gates[k] # NoGate /\ t.gates[k] # NoGate
          /\ t.gates[k].queue = p.gates[k].queue
          /\ t.gates[k].running = p.gates[k].running + 1
      BY <1>2, <1>3, <2>2, NoGateIsNone
    <3> QED BY <2>1, <2>2, <3>1 DEF RunningAt
  <2>3. CASE k \notin Needs(r)
    <3>1. t.gates[k] = p.gates[k]
      BY <1>2, <1>3, <2>3
    <3> QED BY <2>1, <2>3, <3>1 DEF RunningAt
  <2> QED BY <2>2, <2>3
<1>5. Agree(t)
  <2> SUFFICES ASSUME NEW k \in Keys
               PROVE  IF t.gates[k] # NoGate
                      THEN t.gates[k].queue = Only(t.waiting, HoldersOf(k, Requests))
                      ELSE \A x \in ToSet(t.waiting) : k \notin Needs(x)
    BY DEF Agree
  <2>1. IF p.gates[k] # NoGate
        THEN p.gates[k].queue = Only(p.waiting, HoldersOf(k, Requests))
        ELSE \A x \in ToSet(p.waiting) : k \notin Needs(x)
    BY DEF Consistent, Agree
  <2> QED BY <1>3, <1>4, <2>1
<1>6. Counts(t, F)
  <2> SUFFICES ASSUME NEW k \in Keys
               PROVE  /\ RunningAt(t, k) <= Cardinality(HoldersOf(k, t.holders))
                      /\ k \notin F => RunningAt(t, k) = Cardinality(HoldersOf(k, t.holders))
    BY DEF Counts
  <2> DEFINE c == Cardinality(HoldersOf(k, p.holders))
             d == Cardinality(HoldersOf(k, t.holders))
  <2>1. c \in Nat /\ d = c + (IF k \in Needs(r) THEN 1 ELSE 0)
    <3>1. /\ Cardinality(HoldersOf(k, p.holders)) \in Nat
          /\ Cardinality(HoldersOf(k, p.holders \cup {r}))
               = Cardinality(HoldersOf(k, p.holders)) + (IF k \in Needs(r) THEN 1 ELSE 0)
      BY <1>1, HoldersMore
    <3> QED BY <1>3, <3>1
  <2>2. RunningAt(p, k) <= c /\ (k \notin F => RunningAt(p, k) = c)
    BY DEF Consistent, Counts
  <2> HIDE DEF c, d
  <2> QED BY <1>4, <2>1, <2>2 DEF c, d
<1>7. Consistent(t, F)
  <2>1. IsFiniteSet(t.holders)
    BY <1>1, <1>3, FS_AddElement
  <2>2. IsInjective(t.waiting) /\ ToSet(t.waiting) \cap t.holders = {}
    BY <1>3 DEF Consistent
  <2> QED BY <1>3, <1>5, <1>6, <2>1, <2>2 DEF Consistent
<1> QED BY <1>3, <1>7 DEF t, cs

\* The admission of the waiter r: it leaves the queues and is counted at its gates.
LEMMA AdmittedFacts ==
  ASSUME NEW s, NEW F, Consistent(s, F), NEW r \in ToSet(s.waiting), CanAcquire(s, r)
  PROVE  LET t == Admitted(s, r) IN
         /\ Consistent(t, F)
         /\ t.waiting = Only(s.waiting, Requests \ {r})
         /\ t.holders = s.holders \cup {r}
         /\ \A k \in Keys :
              /\ t.gates[k] = NoGate <=> s.gates[k] = NoGate
              /\ s.gates[k] # NoGate => /\ t.gates[k].max = s.gates[k].max
                                        /\ t.gates[k].blocked = s.gates[k].blocked
              /\ s.gates[k] # NoGate /\ k \notin Needs(r) => t.gates[k].running = s.gates[k].running
              /\ k \in Needs(r) => /\ s.gates[k] # NoGate
                                   /\ t.gates[k].running = s.gates[k].running + 1
<1> DEFINE p == Removed(s, {r})
           t == Admitted(s, r)
<1>1. r \in Requests /\ s \in States /\ s.waiting \in Seq(Requests)
  BY DEF Consistent, States, ToSet
<1>2. /\ p \in States /\ p.waiting = Only(s.waiting, Requests \ {r}) /\ p.holders = s.holders
      /\ SameSlots(s.gates, p.gates)
  BY <1>1, RemovedFacts DEF Consistent
<1>3. Consistent(p, F)
  BY <1>1, RemovedIsConsistent
<1>4. t = [p EXCEPT !.gates = Counted(@, r, 1), !.holders = @ \cup {r}]
  BY DEF Admitted
<1> HIDE DEF p, t
<1>5. \A k \in Needs(r) : k \in Keys /\ s.gates[k] # NoGate /\ p.gates[k] # NoGate
  BY <1>1, <1>2, NeedsType DEF CanAcquire, SameSlots
<1>6. r \notin p.holders /\ r \notin ToSet(p.waiting)
  BY <1>1, <1>2, OnlyMembers DEF Consistent
<1>7. /\ Consistent(t, F) /\ t.gates = Counted(p.gates, r, 1) /\ t.waiting = p.waiting
      /\ t.holders = p.holders \cup {r}
  BY <1>1, <1>3, <1>4, <1>5, <1>6, CountedIsConsistent
<1>8. \A k \in Keys :
        /\ k \notin Needs(r) => t.gates[k] = p.gates[k]
        /\ k \in Needs(r) => /\ t.gates[k] \in Gate
                             /\ t.gates[k].running = p.gates[k].running + 1
                             /\ t.gates[k].max = p.gates[k].max
                             /\ t.gates[k].blocked = p.gates[k].blocked
  BY <1>1, <1>2, <1>5, <1>7, CountedFacts DEF States
<1>9. ASSUME NEW k \in Keys
      PROVE  /\ t.gates[k] = NoGate <=> s.gates[k] = NoGate
             /\ s.gates[k] # NoGate => /\ t.gates[k].max = s.gates[k].max
                                       /\ t.gates[k].blocked = s.gates[k].blocked
             /\ s.gates[k] # NoGate /\ k \notin Needs(r)
                  => t.gates[k].running = s.gates[k].running
             /\ k \in Needs(r) => /\ s.gates[k] # NoGate
                                  /\ t.gates[k].running = s.gates[k].running + 1
  <2>1. /\ p.gates[k] = NoGate <=> s.gates[k] = NoGate
        /\ s.gates[k] # NoGate => /\ p.gates[k].running = s.gates[k].running
                                  /\ p.gates[k].max = s.gates[k].max
                                  /\ p.gates[k].blocked = s.gates[k].blocked
    BY <1>2 DEF SameSlots
  <2>2. CASE k \in Needs(r)
    BY <1>5, <1>8, <2>1, <2>2, NoGateIsNone
  <2>3. CASE k \notin Needs(r)
    BY <1>8, <2>1, <2>3
  <2> QED BY <2>2, <2>3
<1> QED BY <1>2, <1>7, <1>9 DEF t

LEMMA TurnFacts ==
  ASSUME NEW s, NEW F, Consistent(s, F)
  PROVE  \/ Stuck(s) /\ DrainedOnce(s) = s
         \/ \E r \in ToSet(s.waiting) : CanAcquire(s, r) /\ DrainedOnce(s) = Admitted(s, r)
<1> DEFINE able == {i \in DOMAIN s.waiting : CanAcquire(s, s.waiting[i])}
<1>1. DrainedOnce(s) = IF able = {} THEN s ELSE Admitted(s, s.waiting[Min(able)])
  BY DEF DrainedOnce
<1>2. s.waiting \in Seq(Requests)
  BY DEF Consistent, States
<1>3. CASE able = {}
  BY <1>1, <1>3 DEF Stuck, ToSet
<1>4. CASE able # {}
  <2>1. able \in SUBSET Nat
    BY <1>2
  <2>2. \A i \in able : s.waiting[i] \in ToSet(s.waiting) /\ CanAcquire(s, s.waiting[i])
    BY DEF ToSet
  <2> HIDE DEF able
  <2>3. \E m \in able : \A n \in able : m <= n
    BY <1>4, <2>1, LeastNat
  <2>4. Min(able) \in able
    BY <2>3 DEF Min
  <2> QED BY <1>1, <1>4, <2>2, <2>4
<1> QED BY <1>3, <1>4

-----------------------------------------------------------------------------
(* The whole drain. *)

\* f holds the states after 0, 1, ... n turns from s.
Turns(f, s, n) ==
  f = [i \in 0..n |-> IF i = 0 THEN s ELSE DrainedOnce(f[i - 1])]

LEMMA TurnsExist ==
  ASSUME NEW s
  PROVE  \A n \in Nat : \E f : Turns(f, s, n)
<1> DEFINE N == {n \in Nat : \E f : Turns(f, s, n)}
<1>1. 0 \in N
  <2>1. Turns([i \in 0..0 |-> s], s, 0)
    BY DEF Turns
  <2> QED BY <2>1
<1>2. ASSUME NEW n \in N PROVE n + 1 \in N
  <2>1. n \in Nat /\ n + 1 \in Nat
    OBVIOUS
  <2>2. PICK f : Turns(f, s, n)
    OBVIOUS
  <2> DEFINE g == [i \in 0..(n + 1) |-> IF i <= n THEN f[i] ELSE DrainedOnce(f[n])]
  <2>3. ASSUME NEW i \in 0..(n + 1)
        PROVE  g[i] = IF i = 0 THEN s ELSE DrainedOnce(g[i - 1])
    <3>1. CASE i = 0
      BY <2>1, <2>2, <3>1 DEF Turns
    <3>2. CASE i \in 1..n
      <4>1. i \in 0..n /\ i # 0 /\ i - 1 \in 0..n /\ i - 1 <= n /\ i <= n /\ i - 1 \in 0..(n + 1)
        BY <2>1, <3>2
      <4>2. f[i] = DrainedOnce(f[i - 1])
        BY <2>2, <4>1 DEF Turns
      <4> QED BY <4>1, <4>2
    <3>3. CASE i = n + 1
      <4>1. i # 0 /\ i - 1 = n /\ ~(i <= n) /\ n \in 0..(n + 1) /\ n <= n
        BY <2>1, <3>3
      <4> QED BY <4>1
    <3> QED BY <2>1, <3>1, <3>2, <3>3
  <2>4. g = [i \in 0..(n + 1) |-> g[i]]
    OBVIOUS
  <2> HIDE DEF g
  <2>5. Turns(g, s, n + 1)
    BY <2>3, <2>4 DEF Turns
  <2> QED BY <2>1, <2>5
<1> HIDE DEF N
<1>3. N = Nat
  BY <1>1, <1>2, NatSetInduction DEF N
<1> QED BY <1>3 DEF N

LEMMA DrainedIsLastTurn ==
  ASSUME NEW s, Len(s.waiting) \in Nat
  PROVE  \E f : Turns(f, s, Len(s.waiting)) /\ Drained(s) = f[Len(s.waiting)]
<1> DEFINE c == CHOOSE f : Turns(f, s, Len(s.waiting))
<1>1. Turns(c, s, Len(s.waiting))
  BY TurnsExist
<1>2. Drained(s) = c[Len(s.waiting)]
  BY DEF Drained, Turns
<1> HIDE DEF c
<1> QED BY <1>1, <1>2

\* What holds of the state t reached from s by turns of the drain, F being the
\* forgotten keys: nobody is lost, those admitted since s have room in every gate
\* they need, and nobody who stood before one of them at a gate still waits.
DrainedFrom(s, F, t) ==
  /\ Consistent(t, F)
  /\ t.waiting = Only(s.waiting, ToSet(t.waiting))
  /\ s.holders \subseteq t.holders
  /\ t.holders \ s.holders = ToSet(s.waiting) \ ToSet(t.waiting)
  /\ \A k \in Keys :
       /\ t.gates[k] = NoGate <=> s.gates[k] = NoGate
       /\ s.gates[k] # NoGate => /\ t.gates[k].max = s.gates[k].max
                                 /\ t.gates[k].blocked = s.gates[k].blocked
  /\ \A r \in t.holders \ s.holders : \A k \in Needs(r) :
       /\ t.gates[k] # NoGate
       /\ ~t.gates[k].blocked
       /\ 1 <= t.gates[k].running
       /\ t.gates[k].running <= t.gates[k].max
  /\ \A r \in t.holders \ s.holders : \A x \in ToSet(t.waiting) :
       Before(s.waiting, x, r) => Needs(x) \cap Needs(r) = {}

LEMMA AdmittedContinues ==
  ASSUME NEW s, NEW F, NEW t, Consistent(s, F), DrainedFrom(s, F, t),
         NEW r \in ToSet(t.waiting), CanAcquire(t, r)
  PROVE  /\ DrainedFrom(s, F, Admitted(t, r))
         /\ Len(Admitted(t, r).waiting) < Len(t.waiting)
<1> DEFINE u == Admitted(t, r)
<1>1. Consistent(t, F)
  BY DEF DrainedFrom
<1>2. /\ Consistent(u, F)
      /\ u.waiting = Only(t.waiting, Requests \ {r})
      /\ u.holders = t.holders \cup {r}
      /\ \A k \in Keys :
           /\ u.gates[k] = NoGate <=> t.gates[k] = NoGate
           /\ t.gates[k] # NoGate => /\ u.gates[k].max = t.gates[k].max
                                     /\ u.gates[k].blocked = t.gates[k].blocked
           /\ t.gates[k] # NoGate /\ k \notin Needs(r) => u.gates[k].running = t.gates[k].running
           /\ k \in Needs(r) => /\ t.gates[k] # NoGate
                                /\ u.gates[k].running = t.gates[k].running + 1
  BY <1>1, AdmittedFacts
<1> HIDE DEF u
<1>3. /\ s.waiting \in Seq(Requests) /\ t.waiting \in Seq(Requests)
      /\ s.holders \subseteq Requests /\ t.holders \subseteq Requests
      /\ ToSet(s.waiting) \cap s.holders = {}
      /\ ToSet(t.waiting) \cap t.holders = {}
      /\ t \in States
  BY <1>1 DEF Consistent, States
<1>4. r \in Requests /\ Needs(r) \subseteq Keys /\ ToSet(t.waiting) \subseteq Requests
  BY <1>3, NeedsType DEF ToSet
<1>5. ToSet(u.waiting) = ToSet(t.waiting) \ {r}
  BY <1>2, <1>3, <1>4, OnlyMembers
<1>6. t.waiting = Only(s.waiting, ToSet(t.waiting))
  BY DEF DrainedFrom
<1>7. u.waiting = Only(s.waiting, ToSet(u.waiting))
  <2>1. u.waiting = Only(s.waiting, ToSet(t.waiting) \cap (Requests \ {r}))
    BY <1>2, <1>3, <1>6, OnlyTwice
  <2>2. ToSet(t.waiting) \cap (Requests \ {r}) = ToSet(u.waiting)
    BY <1>4, <1>5
  <2> QED BY <2>1, <2>2
<1>8. ToSet(t.waiting) \subseteq ToSet(s.waiting)
  BY <1>3, <1>6, OnlyMembers
<1>9. s.holders \subseteq u.holders /\ u.holders \ s.holders = ToSet(s.waiting) \ ToSet(u.waiting)
  BY <1>2, <1>3, <1>5, <1>8 DEF DrainedFrom
<1>10. ASSUME NEW k \in Keys
       PROVE  /\ u.gates[k] = NoGate <=> s.gates[k] = NoGate
              /\ s.gates[k] # NoGate => /\ u.gates[k].max = s.gates[k].max
                                        /\ u.gates[k].blocked = s.gates[k].blocked
  BY <1>2 DEF DrainedFrom
<1>11. ASSUME NEW k \in Keys, t.gates[k] # NoGate
       PROVE  /\ t.gates[k].running \in Nat /\ t.gates[k].max \in Nat
              /\ t.gates[k].blocked \in BOOLEAN
  BY <1>3, <1>11, GateFields DEF States
<1>12. ASSUME NEW k \in Needs(r)
       PROVE  /\ t.gates[k] # NoGate /\ ~t.gates[k].blocked
              /\ t.gates[k].running < t.gates[k].max /\ t.gates[k].queue # <<>>
              /\ Head(t.gates[k].queue) = r
  BY DEF CanAcquire
<1>13. ASSUME NEW x \in u.holders \ s.holders, NEW k \in Needs(x)
       PROVE  /\ u.gates[k] # NoGate /\ ~u.gates[k].blocked
              /\ 1 <= u.gates[k].running /\ u.gates[k].running <= u.gates[k].max
  <2>1. x \in Requests /\ k \in Keys
    BY <1>2, <1>3, <1>4, NeedsType
  <2>2. CASE k \in Needs(r)
    <3>1. /\ t.gates[k].running \in Nat /\ t.gates[k].max \in Nat
          /\ t.gates[k] # NoGate /\ ~t.gates[k].blocked /\ t.gates[k].running < t.gates[k].max
      BY <1>11, <1>12, <2>1, <2>2
    <3>2. /\ u.gates[k] # NoGate /\ u.gates[k].max = t.gates[k].max
          /\ u.gates[k].blocked = t.gates[k].blocked
          /\ u.gates[k].running = t.gates[k].running + 1
      BY <1>2, <2>1, <2>2
    <3> QED BY <3>1, <3>2
  <2>3. CASE k \notin Needs(r)
    <3>1. x \in t.holders \ s.holders
      BY <1>2, <1>13, <2>3
    <3>2. /\ t.gates[k] # NoGate /\ ~t.gates[k].blocked
          /\ 1 <= t.gates[k].running /\ t.gates[k].running <= t.gates[k].max
      BY <3>1 DEF DrainedFrom
    <3>3. /\ u.gates[k] # NoGate /\ u.gates[k].max = t.gates[k].max
          /\ u.gates[k].blocked = t.gates[k].blocked
          /\ u.gates[k].running = t.gates[k].running
      BY <1>2, <2>1, <2>3, <3>2
    <3> QED BY <3>2, <3>3
  <2> QED BY <2>2, <2>3
<1>14. ASSUME NEW x \in u.holders \ s.holders, NEW y \in ToSet(u.waiting),
              Before(s.waiting, y, x)
       PROVE  Needs(y) \cap Needs(x) = {}
  <2>1. y \in ToSet(t.waiting) /\ y # r /\ y \in Requests
    BY <1>4, <1>5
  <2>2. CASE x = r
    <3> SUFFICES ASSUME NEW k \in Needs(y), k \in Needs(r) PROVE FALSE
      BY <2>2
    <3> DEFINE nb == HoldersOf(k, Requests)
               q == t.gates[k].queue
    <3>1. k \in Keys /\ y \in nb /\ r \in nb
      BY <1>4, <2>1 DEF HoldersOf
    <3>2. q = Only(t.waiting, nb)
      BY <1>1, <1>12, <3>1 DEF Consistent, Agree
    <3> HIDE DEF nb, q
    <3>3. Before(t.waiting, y, r)
      BY <1>3, <1>6, <1>14, <2>1, <2>2, OnlyBefore
    <3>4. Before(q, y, r)
      BY <1>3, <3>1, <3>2, <3>3, OnlyBefore
    <3>5. q \in Seq(Requests) /\ IsInjective(q)
      BY <1>1, <1>3, <3>2, OnlyMembers DEF Consistent
    <3>6. Head(q) = r
      BY <1>12 DEF q
    <3> QED BY <3>4, <3>5, <3>6, HeadIsFirst
  <2>3. CASE x # r
    <3>1. x \in t.holders \ s.holders
      BY <1>2, <2>3
    <3> QED BY <1>14, <2>1, <3>1 DEF DrainedFrom
  <2> QED BY <2>2, <2>3
<1>15. DrainedFrom(s, F, u)
  BY <1>2, <1>7, <1>9, <1>10, <1>13, <1>14 DEF DrainedFrom
<1>16. Len(u.waiting) < Len(t.waiting)
  <2>1. /\ Len(u.waiting) <= Len(t.waiting)
        /\ Len(u.waiting) = Len(t.waiting) => ToSet(t.waiting) \subseteq Requests \ {r}
        /\ u.waiting \in Seq(Requests)
    BY <1>2, <1>3, OnlyMembers
  <2> QED BY <1>3, <2>1
<1> QED BY <1>15, <1>16 DEF u

\* The drain ends in a state in which nobody can go.
LEMMA DrainFacts ==
  ASSUME NEW s, NEW F, Consistent(s, F)
  PROVE  DrainedFrom(s, F, Drained(s)) /\ Stuck(Drained(s))
<1> DEFINE L == Len(s.waiting)
<1>1. s.waiting \in Seq(Requests) /\ L \in Nat
  BY DEF Consistent, States
<1>2. PICK f : Turns(f, s, L) /\ Drained(s) = f[L]
  BY <1>1, DrainedIsLastTurn
<1> DEFINE Good(n) == /\ DrainedFrom(s, F, f[n])
                      /\ Stuck(f[n]) \/ Len(f[n].waiting) <= L - n
           N == {n \in Nat : n <= L => Good(n)}
<1> HIDE DEF L
<1>3. Good(0)
  <2>1. f[0] = s
    BY <1>1, <1>2 DEF Turns
  <2>2. s.waiting = Only(s.waiting, ToSet(s.waiting))
    BY <1>1, OnlyMembers
  <2>3. DrainedFrom(s, F, s)
    BY <2>2 DEF DrainedFrom
  <2> QED BY <1>1, <2>1, <2>3 DEF L
<1>4. ASSUME NEW n \in N PROVE n + 1 \in N
  <2> SUFFICES ASSUME n + 1 <= L PROVE Good(n + 1)
    OBVIOUS
  <2>1. n \in Nat /\ n <= L /\ n + 1 \in 0..L /\ n + 1 # 0 /\ (n + 1) - 1 = n
    BY <1>1
  <2>2. Good(n)
    BY <2>1
  <2>3. f[n + 1] = DrainedOnce(f[n])
    BY <1>2, <2>1 DEF Turns
  <2> DEFINE t == f[n]
  <2>4. Consistent(t, F) /\ Len(t.waiting) \in Nat
    BY <2>2 DEF DrainedFrom, Consistent, States
  <2>5. CASE Stuck(t) /\ DrainedOnce(t) = t
    BY <2>2, <2>3, <2>5
  <2>6. CASE \E r \in ToSet(t.waiting) : CanAcquire(t, r) /\ DrainedOnce(t) = Admitted(t, r)
    <3>1. PICK r \in ToSet(t.waiting) : CanAcquire(t, r) /\ DrainedOnce(t) = Admitted(t, r)
      BY <2>6
    <3>2. DrainedFrom(s, F, f[n + 1]) /\ Len(f[n + 1].waiting) < Len(t.waiting)
      BY <2>2, <2>3, <3>1, AdmittedContinues
    <3>3. Len(f[n + 1].waiting) \in Nat
      BY <3>2 DEF DrainedFrom, Consistent, States
    <3>4. ~Stuck(t)
      BY <3>1 DEF Stuck
    <3>5. Len(t.waiting) <= L - n
      BY <2>2, <3>4
    <3>6. Len(f[n + 1].waiting) <= L - (n + 1)
      BY <1>1, <2>1, <2>4, <3>2, <3>3, <3>5
    <3> QED BY <3>2, <3>6
  <2> QED BY <2>4, <2>5, <2>6, TurnFacts
<1>5. 0 \in N
  BY <1>3
<1> HIDE DEF N, Good
<1>6. N = Nat
  BY <1>4, <1>5, NatSetInduction DEF N
<1>7. Good(L)
  BY <1>1, <1>6 DEF N
<1>8. Stuck(f[L])
  <2>1. f[L].waiting \in Seq(Requests)
    BY <1>7 DEF Good, DrainedFrom, Consistent, States
  <2>2. SUFFICES ASSUME Len(f[L].waiting) <= L - L PROVE Stuck(f[L])
    BY <1>7 DEF Good
  <2>3. f[L].waiting = <<>>
    BY <1>1, <2>1, <2>2
  <2> QED BY <2>3 DEF Stuck, ToSet
<1> QED BY <1>2, <1>7, <1>8 DEF Good

-----------------------------------------------------------------------------
(* Changes between drains. *)

\* Gates are opened and closed only while they are idle, and keep their queue and
\* their count; limits, blocks and timers may change.
Kept(s, t) ==
  /\ t \in States
  /\ t.waiting = s.waiting
  /\ t.holders = s.holders
  /\ \A k \in Keys :
       \/ t.gates[k] = NoGate /\ (s.gates[k] = NoGate \/ Idle(s.gates[k]))
       \/ t.gates[k] # NoGate /\ s.gates[k] = NoGate /\ Idle(t.gates[k])
       \/ /\ t.gates[k] # NoGate /\ s.gates[k] # NoGate
          /\ t.gates[k].queue = s.gates[k].queue
          /\ t.gates[k].running = s.gates[k].running

\* Idle gates may be closed, and only timers change on the others.
Tidied(s, t) ==
  /\ t \in States
  /\ t.waiting = s.waiting
  /\ t.holders = s.holders
  /\ \A k \in Keys :
       \/ t.gates[k] = NoGate /\ (s.gates[k] = NoGate \/ Idle(s.gates[k]))
       \/ /\ t.gates[k] # NoGate /\ s.gates[k] # NoGate
          /\ t.gates[k].queue = s.gates[k].queue
          /\ t.gates[k].running = s.gates[k].running
          /\ t.gates[k].max = s.gates[k].max
          /\ t.gates[k].blocked = s.gates[k].blocked

LEMMA KeptIsConsistent ==
  ASSUME NEW s, NEW t, NEW F, Consistent(s, F), Kept(s, t)
  PROVE  Consistent(t, F)
<1>1. s.waiting \in Seq(Requests) /\ t \in States /\ t.waiting = s.waiting /\ t.holders = s.holders
  BY DEF Consistent, States, Kept
<1>2. \A k \in Keys : RunningAt(t, k) = RunningAt(s, k)
  BY DEF Kept, Idle, RunningAt
<1>3. Agree(t)
  <2> SUFFICES ASSUME NEW k \in Keys
               PROVE  IF t.gates[k] # NoGate
                      THEN t.gates[k].queue = Only(s.waiting, HoldersOf(k, Requests))
                      ELSE \A r \in ToSet(s.waiting) : k \notin Needs(r)
    BY <1>1 DEF Agree
  <2> DEFINE o == Only(s.waiting, HoldersOf(k, Requests))
  <2>1. IF s.gates[k] # NoGate
        THEN s.gates[k].queue = o
        ELSE \A r \in ToSet(s.waiting) : k \notin Needs(r)
    BY DEF Consistent, Agree
  <2>2. /\ o \in Seq(Requests) /\ ToSet(s.waiting) \subseteq Requests
        /\ ToSet(o) = ToSet(s.waiting) \cap HoldersOf(k, Requests)
    <3>1. ToSet(s.waiting) \subseteq Requests
      BY <1>1 DEF ToSet
    <3> QED BY <1>1, <3>1, OnlyMembers
  <2>3. o = <<>> <=> \A r \in ToSet(s.waiting) : k \notin Needs(r)
    <3> HIDE DEF o
    <3>1. o = <<>> <=> ToSet(o) = {}
      BY <2>2 DEF ToSet
    <3> QED BY <2>2, <3>1 DEF HoldersOf
  <2> HIDE DEF o
  <2>4. \/ t.gates[k] = NoGate /\ (s.gates[k] = NoGate \/ s.gates[k].queue = <<>>)
        \/ t.gates[k] # NoGate /\ s.gates[k] = NoGate /\ t.gates[k].queue = <<>>
        \/ /\ t.gates[k] # NoGate /\ s.gates[k] # NoGate
           /\ t.gates[k].queue = s.gates[k].queue
    BY DEF Kept, Idle
  <2> QED BY <2>1, <2>3, <2>4 DEF o
<1> QED BY <1>1, <1>2, <1>3 DEF Consistent, Counts

LEMMA TidiedIsConsistent ==
  ASSUME NEW s, NEW t, NEW F, Consistent(s, F), Tidied(s, t)
  PROVE  /\ Consistent(t, F)
         /\ \A r \in ToSet(t.waiting) : CanAcquire(t, r) => CanAcquire(s, r)
<1>1. Kept(s, t)
  BY DEF Kept, Tidied
<1>2. Consistent(t, F)
  BY <1>1, KeptIsConsistent
<1>3. ASSUME NEW r \in ToSet(t.waiting), CanAcquire(t, r) PROVE CanAcquire(s, r)
  <2>1. r \in Requests
    BY DEF Tidied, States, ToSet
  <2> SUFFICES ASSUME NEW k \in Needs(r)
               PROVE  /\ s.gates[k] # NoGate /\ ~s.gates[k].blocked
                      /\ s.gates[k].running < s.gates[k].max
                      /\ s.gates[k].queue # <<>> /\ Head(s.gates[k].queue) = r
    BY DEF CanAcquire
  <2>2. k \in Keys
    BY <2>1, NeedsType
  <2>3. /\ t.gates[k] # NoGate /\ ~t.gates[k].blocked
        /\ t.gates[k].running < t.gates[k].max
        /\ t.gates[k].queue # <<>> /\ Head(t.gates[k].queue) = r
    BY <1>3 DEF CanAcquire
  <2> QED BY <2>2, <2>3 DEF Tidied
<1> QED BY <1>2, <1>3

\* Which keys are forgotten may be forgotten about once nobody holds them.
LEMMA ForgottenUnheld ==
  ASSUME NEW s, NEW F, NEW G, Consistent(s, F),
         \A k \in F \ G : HoldersOf(k, s.holders) = {}
  PROVE  Consistent(s, G)
<1>1. ASSUME NEW k \in Keys, k \notin G
      PROVE  RunningAt(s, k) = Cardinality(HoldersOf(k, s.holders))
  <2>1. CASE k \notin F
    BY <2>1 DEF Consistent, Counts
  <2>2. CASE k \in F
    <3>1. Cardinality(HoldersOf(k, s.holders)) = 0
      BY <1>1, <2>2, FS_EmptySet
    <3>2. RunningAt(s, k) <= Cardinality(HoldersOf(k, s.holders))
      BY DEF Consistent, Counts
    <3>3. RunningAt(s, k) \in Nat
      BY GateFields DEF RunningAt, Consistent, States
    <3> QED BY <3>1, <3>2, <3>3
  <2> QED BY <2>1, <2>2
<1> QED BY <1>1 DEF Consistent, Counts

-----------------------------------------------------------------------------
(* The inductive invariant, and what a step promises to those it admits. *)

\* The strengthening: TypeOK, QueuesAgree and SlotsAreCounted follow from Consistent.
IInv ==
  /\ Consistent(Now, forgot)
  /\ strays \subseteq Keys
  /\ forgot \subseteq Keys
  /\ slack \subseteq Keys
  /\ NoLostWakeup

\* AdmitsWithRoom and NobodyOvertakes, of one step.
AdmittedHaveRoom ==
  \A r \in holders' \ holders : \A k \in Needs(r) :
    /\ Open(k)'
    /\ ~gates'[k].blocked
    /\ k \notin forgot' => Cardinality(HoldersOf(k, holders')) <= gates'[k].max

EarlierAreGone ==
  \A r \in holders' \ holders : \A i \in DOMAIN waiting :
    /\ waiting[i] # r
    /\ Needs(waiting[i]) \cap Needs(r) # {}
    /\ \A j \in 1..i : waiting[j] # r
    => \A j \in DOMAIN waiting' : waiting'[j] # waiting[i]

\* The queue q keeps the order of those that wait now.
InOrder(q) ==
  \A r \in ToSet(q) : \A i \in DOMAIN waiting :
    waiting[i] \in ToSet(q) /\ (\A j \in 1..i : waiting[j] # r) => Before(q, waiting[i], r)

LEMMA PartIsInOrder ==
  ASSUME waiting \in Seq(Requests), NEW A
  PROVE  InOrder(Only(waiting, A))
<1> DEFINE q == Only(waiting, A)
<1>1. ToSet(q) = ToSet(waiting) \cap A
  BY OnlyMembers
<1> HIDE DEF q
<1> SUFFICES ASSUME NEW r \in ToSet(q), NEW i \in DOMAIN waiting, waiting[i] \in ToSet(q),
                    \A j \in 1..i : waiting[j] # r
             PROVE  Before(q, waiting[i], r)
  BY DEF InOrder, q
<1>2. PICK j \in DOMAIN waiting : waiting[j] = r
  BY <1>1 DEF ToSet
<1>3. i < j
  BY <1>2
<1>4. Before(waiting, waiting[i], r)
  BY <1>2, <1>3 DEF Before
<1>5. waiting[i] \in A /\ r \in A
  BY <1>1
<1> QED BY <1>4, <1>5, OnlyBefore DEF q

LEMMA WaitingIsInOrder ==
  ASSUME waiting \in Seq(Requests)
  PROVE  InOrder(waiting)
<1>1. Only(waiting, ToSet(waiting)) = waiting
  BY OnlyMembers
<1>2. InOrder(Only(waiting, ToSet(waiting)))
  BY PartIsInOrder
<1> QED BY <1>1, <1>2

LEMMA AppendIsInOrder ==
  ASSUME waiting \in Seq(Requests), NEW r \in Requests
  PROVE  InOrder(Append(waiting, r))
<1> DEFINE q == Append(waiting, r)
<1> SUFFICES ASSUME NEW x \in ToSet(q), NEW i \in DOMAIN waiting,
                    \A j \in 1..i : waiting[j] # x
             PROVE  Before(q, waiting[i], x)
  BY DEF InOrder
<1>1. ToSet(q) = ToSet(waiting) \cup {r}
  BY AppendFacts
<1> HIDE DEF q
<1>2. waiting[i] \in ToSet(waiting)
  BY DEF ToSet
<1>3. CASE x = r
  BY <1>2, <1>3, BeforeAppend DEF q
<1>4. CASE x \in ToSet(waiting)
  <2>1. PICK j \in DOMAIN waiting : waiting[j] = x
    BY <1>4 DEF ToSet
  <2>2. i < j
    BY <2>1
  <2>3. Before(waiting, waiting[i], x)
    BY <2>1, <2>2 DEF Before
  <2> QED BY <2>3, BeforeAppend DEF q
<1> QED BY <1>1, <1>3, <1>4

LEMMA InvFacts ==
  ASSUME IInv
  PROVE  /\ gates \in [Keys -> Gate \cup {NoGate}] /\ waiting \in Seq(Requests)
         /\ holders \subseteq Requests /\ Now \in States
         /\ Now.gates = gates /\ Now.waiting = waiting /\ Now.holders = holders
         /\ ToSet(waiting) \subseteq Requests
         /\ ToSet(waiting) \cap holders = {}
         /\ IsInjective(waiting) /\ IsFiniteSet(holders)
         /\ QueuesAgree
<1>1. Now = [gates |-> gates, waiting |-> waiting, holders |-> holders]
  BY DEF Now
<1>2. Consistent(Now, forgot)
  BY DEF IInv
<1>3. /\ gates \in [Keys -> Gate \cup {NoGate}] /\ waiting \in Seq(Requests)
      /\ holders \subseteq Requests /\ Now \in States
  BY <1>1, <1>2 DEF Consistent, States
<1>4. QueuesAgree
  BY <1>1, <1>2 DEF QueuesAgree, Consistent, Agree, Open
<1>5. ToSet(waiting) \subseteq Requests
  BY <1>3 DEF ToSet
<1> QED BY <1>1, <1>2, <1>3, <1>4, <1>5 DEF Consistent

\* A step after which the state is "t", reached from a drain of the consistent state s.
LEMMA DrainStep ==
  ASSUME IInv, NEW reset \in SUBSET Keys, NEW s, Consistent(s, forgot \cup reset),
         s.holders \subseteq holders, InOrder(s.waiting),
         NEW t, Tidied(Drained(s), t), Becomes(t, reset), strays' \subseteq Keys
  PROVE  IInv' /\ AdmittedHaveRoom /\ EarlierAreGone
<1> DEFINE d == Drained(s)
           F == forgot \cup reset
<1>1. DrainedFrom(s, F, d) /\ Stuck(d)
  BY DrainFacts
<1>2. Tidied(d, t)
  OBVIOUS
<1>3. Consistent(d, F)
  BY <1>1 DEF DrainedFrom
<1>4. /\ gates' = t.gates /\ waiting' = t.waiting /\ holders' = t.holders
      /\ forgot' = Forgotten(reset, t.holders) /\ slack' = {}
  BY DEF Becomes
<1> HIDE DEF d
<1>5. /\ Consistent(t, F)
      /\ \A r \in ToSet(t.waiting) : CanAcquire(t, r) => CanAcquire(d, r)
  BY <1>2, <1>3, TidiedIsConsistent
<1>6. \A k \in F \ forgot' : HoldersOf(k, t.holders) = {}
  BY <1>4 DEF Forgotten
<1>7. Consistent(t, forgot')
  BY <1>5, <1>6, ForgottenUnheld
<1>8. t = [gates |-> gates', waiting |-> waiting', holders |-> holders']
  BY <1>2, <1>4 DEF Tidied, States
<1>9. Now' = t
  BY <1>8 DEF Now
<1>10. \A r \in ToSet(t.waiting) : ~CanAcquire(t, r)
  BY <1>1, <1>2, <1>5 DEF Stuck, Tidied
<1>11. IInv'
  <2>1. forgot' \subseteq Keys
    BY <1>4 DEF Forgotten, IInv
  <2>2. NoLostWakeup'
    BY <1>4, <1>9, <1>10 DEF NoLostWakeup
  <2> QED BY <1>4, <1>7, <1>9, <2>1, <2>2 DEF IInv
<1>12. holders' = d.holders /\ waiting' = d.waiting /\ d.holders \ holders \subseteq d.holders \ s.holders
  BY <1>2, <1>4 DEF Tidied
<1>13. AdmittedHaveRoom
  <2> SUFFICES ASSUME NEW r \in d.holders \ s.holders, NEW k \in Needs(r)
               PROVE  /\ gates'[k] # NoGate /\ ~gates'[k].blocked
                      /\ k \notin forgot'
                           => Cardinality(HoldersOf(k, d.holders)) <= gates'[k].max
    BY <1>12 DEF AdmittedHaveRoom, Open
  <2>1. r \in Requests /\ k \in Keys
    BY <1>3, NeedsType DEF Consistent, States
  <2>2. /\ d.gates[k] # NoGate /\ ~d.gates[k].blocked
        /\ 1 <= d.gates[k].running /\ d.gates[k].running <= d.gates[k].max
    BY <1>1 DEF DrainedFrom
  <2>3. /\ t.gates[k] # NoGate /\ t.gates[k].max = d.gates[k].max
        /\ t.gates[k].blocked = d.gates[k].blocked
    <3>1. ~Idle(d.gates[k])
      BY <2>2 DEF Idle
    <3> QED BY <1>2, <2>1, <2>2, <3>1 DEF Tidied
  <2>4. ASSUME k \notin forgot'
        PROVE  Cardinality(HoldersOf(k, d.holders)) = d.gates[k].running
    <3>1. r \in HoldersOf(k, t.holders)
      BY <1>4, <1>12 DEF HoldersOf
    <3>2. k \notin F
      BY <1>6, <2>4, <3>1
    <3> QED BY <1>3, <2>1, <2>2, <3>2 DEF Consistent, Counts, RunningAt
  <2> QED BY <1>4, <2>2, <2>3, <2>4
<1>14. EarlierAreGone
  <2> SUFFICES ASSUME NEW r \in d.holders \ s.holders, NEW i \in DOMAIN waiting,
                      Needs(waiting[i]) \cap Needs(r) # {}, \A j \in 1..i : waiting[j] # r,
                      NEW j \in DOMAIN d.waiting, d.waiting[j] = waiting[i]
               PROVE  FALSE
    BY <1>12 DEF EarlierAreGone
  <2>1. waiting[i] \in ToSet(d.waiting)
    BY DEF ToSet
  <2>2. ToSet(d.waiting) \subseteq ToSet(s.waiting) /\ r \in ToSet(s.waiting)
    <3>1. s.waiting \in Seq(Requests)
      BY DEF Consistent, States
    <3>2. /\ d.waiting = Only(s.waiting, ToSet(d.waiting))
          /\ d.holders \ s.holders = ToSet(s.waiting) \ ToSet(d.waiting)
      BY <1>1 DEF DrainedFrom
    <3>3. ToSet(Only(s.waiting, ToSet(d.waiting))) = ToSet(s.waiting) \cap ToSet(d.waiting)
      BY <3>1, OnlyMembers
    <3> QED BY <3>2, <3>3
  <2>3. Before(s.waiting, waiting[i], r)
    BY <2>1, <2>2 DEF InOrder
  <2> QED BY <1>1, <2>1, <2>3 DEF DrainedFrom
<1> QED BY <1>11, <1>13, <1>14

\* A step that admits nobody breaks none of its promises.
LEMMA NobodyAdmitted ==
  ASSUME holders' \subseteq holders
  PROVE  AdmittedHaveRoom /\ EarlierAreGone
BY DEF AdmittedHaveRoom, EarlierAreGone

\* A step without a drain that changes gates only, keeps the counts and the queues,
\* and notes in "slack" where it made room.
LEMMA QuietStep ==
  ASSUME IInv, gates' \in [Keys -> Gate \cup {NoGate}], UNCHANGED <<waiting, holders, forgot>>,
         Kept(Now, Now'), strays' \subseteq Keys, slack' \subseteq Keys,
         \A r \in ToSet(waiting) : CanAcquire(Now', r) => Needs(r) \cap slack' # {}
  PROVE  IInv' /\ AdmittedHaveRoom /\ EarlierAreGone
<1>1. Consistent(Now', forgot)
  BY KeptIsConsistent DEF IInv
<1>2. Consistent(Now', forgot')
  BY <1>1
<1>3. NoLostWakeup'
  BY DEF NoLostWakeup
<1>4. IInv'
  BY <1>2, <1>3 DEF IInv
<1> QED BY <1>4, NobodyAdmitted

\* Tidying up is such a step.
LEMMA TidyStep ==
  ASSUME IInv, UNCHANGED <<waiting, holders, forgot, slack>>,
         Tidied(Now, Now'), strays' \subseteq Keys
  PROVE  IInv' /\ AdmittedHaveRoom /\ EarlierAreGone
<1>1. Consistent(Now, forgot)
  BY DEF IInv
<1>2. /\ Consistent(Now', forgot)
      /\ \A r \in ToSet(Now'.waiting) : CanAcquire(Now', r) => CanAcquire(Now, r)
  BY <1>1, TidiedIsConsistent
<1>3. Now'.waiting = waiting
  BY DEF Now
<1>4. NoLostWakeup'
  BY <1>2, <1>3 DEF NoLostWakeup, IInv
<1>5. IInv'
  BY <1>2, <1>4 DEF IInv
<1> QED BY <1>5, NobodyAdmitted

-----------------------------------------------------------------------------
(* acquireMany *)

LEMMA EnsuredForFacts ==
  ASSUME IInv, NEW r \in Requests
  PROVE  LET gs == EnsuredFor(r) IN
         /\ gs \in [Keys -> Gate \cup {NoGate}]
         /\ \A k \in Keys :
              /\ k \notin Touched(r) => gs[k] = gates[k]
              /\ k \in Touched(r) =>
                   /\ gs[k] \in Gate
                   /\ gs[k].max = Wants[r][k]
                   /\ Open(k) => /\ gs[k].running = gates[k].running
                                 /\ gs[k].queue = gates[k].queue
                                 /\ gs[k].blocked = gates[k].blocked
                   /\ ~Open(k) => Idle(gs[k])
         /\ Kept(Now, [gates |-> gs, waiting |-> waiting, holders |-> holders])
<1> DEFINE gs == EnsuredFor(r)
<1>1. gates \in [Keys -> Gate \cup {NoGate}] /\ Touched(r) \subseteq Needs(r)
  BY InvFacts DEF Touched
<1>2. gs = [k \in Keys |-> IF k \in Touched(r) THEN Ensured(k, Wants[r][k]) ELSE gates[k]]
  BY DEF EnsuredFor
<1> HIDE DEF gs
<1>3. ASSUME NEW k \in Keys, k \in Touched(r)
      PROVE  /\ gs[k] \in Gate
             /\ gs[k].max = Wants[r][k]
             /\ Open(k) => /\ gs[k].running = gates[k].running
                           /\ gs[k].queue = gates[k].queue
                           /\ gs[k].blocked = gates[k].blocked
             /\ ~Open(k) => Idle(gs[k])
  <2> DEFINE w == Wants[r][k]
  <2>1. w \in Nat \ {0}
    BY <1>1, <1>3, NeedsType
  <2>2. gs[k] = Ensured(k, w)
    BY <1>2, <1>3
  <2> HIDE DEF w
  <2>3. CASE Open(k)
    <3>1. gates[k] \in Gate /\ gs[k] = [gates[k] EXCEPT !.max = w, !.timer = FALSE]
      BY <1>1, <2>2, <2>3 DEF Ensured, Open
    <3> QED BY <2>1, <2>3, <3>1 DEF Gate, w
  <2>4. CASE ~Open(k)
    <3>1. gs[k] = NewGate(w)
      BY <2>2, <2>4 DEF Ensured
    <3>2. NewGate(w) \in Gate /\ NewGate(w).max = w /\ Idle(NewGate(w))
      BY <2>1 DEF NewGate, Gate, Idle
    <3> QED BY <2>4, <3>1, <3>2 DEF w
  <2> QED BY <2>3, <2>4
<1>4. ASSUME NEW k \in Keys, k \notin Touched(r) PROVE gs[k] = gates[k]
  BY <1>2, <1>4
<1>5. gs \in [Keys -> Gate \cup {NoGate}]
  BY <1>1, <1>2, <1>3, <1>4
<1> DEFINE t == [gates |-> gs, waiting |-> waiting, holders |-> holders]
<1>6. t \in States
  BY <1>5, InvFacts DEF States
<1>7. ASSUME NEW k \in Keys
      PROVE  \/ gs[k] = NoGate /\ (gates[k] = NoGate \/ Idle(gates[k]))
             \/ gs[k] # NoGate /\ gates[k] = NoGate /\ Idle(gs[k])
             \/ /\ gs[k] # NoGate /\ gates[k] # NoGate
                /\ gs[k].queue = gates[k].queue
                /\ gs[k].running = gates[k].running
  BY <1>3, <1>4, NoGateIsNone DEF Open
<1>8. Kept(Now, t)
  <2>1. Now.gates = gates /\ Now.waiting = waiting /\ Now.holders = holders
    BY InvFacts
  <2>2. t.gates = gs /\ t.waiting = waiting /\ t.holders = holders
    OBVIOUS
  <2> HIDE DEF t
  <2> QED BY <1>6, <1>7, <2>1, <2>2 DEF Kept
<1> QED BY <1>3, <1>4, <1>5, <1>8 DEF gs

\* A waiter needs open gates only, and is in the queue of each.
LEMMA WaiterIsQueued ==
  ASSUME IInv, NEW x \in ToSet(waiting), NEW k \in Needs(x)
  PROVE  /\ k \in Keys /\ x \in Requests
         /\ gates[k] \in Gate
         /\ Open(k)
         /\ gates[k].queue # <<>>
<1>1. x \in Requests /\ k \in Keys /\ waiting \in Seq(Requests)
  BY InvFacts, NeedsType
<1>2. /\ Open(k)
      /\ gates[k].queue = Only(waiting, HoldersOf(k, Requests))
  BY <1>1, InvFacts DEF QueuesAgree
<1>3. gates[k] \in Gate
  BY <1>1, <1>2, InvFacts DEF Open
<1>4. x \in ToSet(Only(waiting, HoldersOf(k, Requests)))
  BY <1>1, OnlyMembers DEF HoldersOf
<1> QED BY <1>1, <1>2, <1>3, <1>4 DEF ToSet

\* Nobody can go who could not, if gates' differs from gates only where it is closed
\* to the waiter or where "slack" notes it.
LEMMA StillWaiting ==
  ASSUME IInv, slack \subseteq slack', NEW x \in ToSet(waiting), CanAcquire(Now', x),
         \A k \in Needs(x) \ slack' :
           /\ gates'[k].running >= gates[k].running
           /\ gates'[k].max <= gates[k].max
           /\ gates'[k].queue = gates[k].queue
           /\ gates'[k].blocked = gates[k].blocked
           /\ gates'[k] \in Gate
  PROVE  Needs(x) \cap slack' # {}
<1> SUFFICES ASSUME Needs(x) \cap slack' = {} PROVE FALSE
  OBVIOUS
<1>1. CanAcquire(Now, x)
  <2> SUFFICES ASSUME NEW k \in Needs(x)
               PROVE  /\ gates[k] # NoGate /\ ~gates[k].blocked
                      /\ gates[k].running < gates[k].max
                      /\ gates[k].queue # <<>> /\ Head(gates[k].queue) = x
    BY InvFacts DEF CanAcquire
  <2>1. gates[k] \in Gate
    BY WaiterIsQueued
  <2>2. /\ gates'[k] # NoGate /\ ~gates'[k].blocked
        /\ gates'[k].running < gates'[k].max
        /\ gates'[k].queue # <<>> /\ Head(gates'[k].queue) = x
    BY DEF CanAcquire, Now
  <2>3. /\ gates[k].running \in Nat /\ gates[k].max \in Nat
        /\ gates'[k].running \in Nat /\ gates'[k].max \in Nat
    BY <2>1, GateFields
  <2> QED BY <2>1, <2>2, <2>3, GateFields
<1>2. Needs(x) \cap slack # {}
  BY <1>1 DEF IInv, NoLostWakeup
<1> QED BY <1>2

LEMMA AcquireRefusedKeeps ==
  ASSUME IInv, NEW r \in Requests, AcquireRefused(r)
  PROVE  IInv' /\ AdmittedHaveRoom /\ EarlierAreGone
<1>1. /\ gates' = EnsuredFor(r)
      /\ slack' = slack \cup {k \in Touched(r) : Open(k) /\ gates[k].max < Wants[r][k]}
      /\ UNCHANGED <<waiting, holders, strays, forgot>>
  BY DEF AcquireRefused
<1>2. /\ gates' \in [Keys -> Gate \cup {NoGate}]
      /\ \A k \in Keys :
           /\ k \notin Touched(r) => gates'[k] = gates[k]
           /\ k \in Touched(r) =>
                /\ gates'[k] \in Gate
                /\ gates'[k].max = Wants[r][k]
                /\ Open(k) => /\ gates'[k].running = gates[k].running
                              /\ gates'[k].queue = gates[k].queue
                              /\ gates'[k].blocked = gates[k].blocked
  BY <1>1, EnsuredForFacts
<1>3. Kept(Now, Now')
  BY <1>1, EnsuredForFacts DEF Now
<1>4. Touched(r) \subseteq Needs(r) /\ Needs(r) \subseteq Keys
  BY NeedsType DEF Touched
<1>5. ASSUME NEW x \in ToSet(waiting), CanAcquire(Now', x)
      PROVE  Needs(x) \cap slack' # {}
  <2>1. ASSUME NEW k \in Needs(x) \ slack'
        PROVE  /\ gates'[k].running >= gates[k].running
               /\ gates'[k].max <= gates[k].max
               /\ gates'[k].queue = gates[k].queue
               /\ gates'[k].blocked = gates[k].blocked
               /\ gates'[k] \in Gate
    <3>1. k \in Keys /\ gates[k] \in Gate /\ Open(k)
      BY WaiterIsQueued
    <3>2. gates[k].running \in Nat /\ gates[k].max \in Nat
      BY <3>1, GateFields
    <3>3. CASE k \in Touched(r)
      <4>1. ~(gates[k].max < Wants[r][k]) /\ Wants[r][k] \in Nat
        BY <1>1, <1>4, <3>1, <3>3, NeedsType
      <4> QED BY <1>2, <3>1, <3>2, <3>3, <4>1
    <3>4. CASE k \notin Touched(r)
      BY <1>2, <3>1, <3>2, <3>4
    <3> QED BY <3>3, <3>4
  <2>2. slack \subseteq slack'
    BY <1>1
  <2> QED BY <1>5, <2>1, <2>2, StillWaiting
<1>6. strays' \subseteq Keys /\ slack' \subseteq Keys
  BY <1>1, <1>4 DEF IInv
<1> QED BY <1>1, <1>2, <1>3, <1>5, <1>6, QuietStep

\* Without a full queue acquireMany touches every gate the caller needs.
LEMMA AllTouched ==
  ASSUME NEW r \in Requests, FullKeys(r) = {}
  PROVE  Touched(r) = Needs(r)
BY DEF Touched

LEMMA AcquireNowKeeps ==
  ASSUME IInv, NEW r \in Requests, AcquireNow(r)
  PROVE  IInv' /\ AdmittedHaveRoom /\ EarlierAreGone
<1> DEFINE gs == EnsuredFor(r)
           p == [gates |-> gs, waiting |-> waiting, holders |-> holders]
<1>1. /\ r \notin holders /\ r \notin ToSet(waiting) /\ FullKeys(r) = {} /\ Fits(gs, r)
      /\ gates' = Counted(gs, r, 1) /\ holders' = holders \cup {r}
      /\ UNCHANGED <<waiting, strays, forgot, slack>>
  BY DEF AcquireNow, Free
<1>2. Touched(r) = Needs(r) /\ Needs(r) \subseteq Keys
  BY <1>1, AllTouched, NeedsType
<1>3. /\ gs \in [Keys -> Gate \cup {NoGate}]
      /\ \A k \in Keys :
           /\ k \notin Needs(r) => gs[k] = gates[k]
           /\ k \in Needs(r) =>
                /\ gs[k] \in Gate
                /\ Open(k) => gs[k].queue = gates[k].queue
      /\ Kept(Now, p)
  BY <1>2, EnsuredForFacts
<1> HIDE DEF gs
<1>4. p.gates = gs /\ p.waiting = waiting /\ p.holders = holders
  OBVIOUS
<1>5. Consistent(p, forgot)
  BY <1>3, KeptIsConsistent DEF IInv
<1>6. \A k \in Needs(r) : gs[k] # NoGate
  BY <1>2, <1>3, NoGateIsNone
<1> DEFINE t == [p EXCEPT !.gates = Counted(@, r, 1), !.holders = @ \cup {r}]
<1>7. /\ Consistent(t, forgot) /\ t.gates = gates' /\ t.waiting = waiting' /\ t.holders = holders'
  <2> HIDE DEF p
  <2> QED BY <1>1, <1>4, <1>5, <1>6, CountedIsConsistent
<1>8. Now' = t
  <2>1. t \in States
    BY <1>7 DEF Consistent
  <2> HIDE DEF t, p
  <2> QED BY <1>7, <2>1 DEF Now, States
<1> HIDE DEF t, p
<1>9. \A k \in Keys :
        /\ k \notin Needs(r) => gates'[k] = gs[k]
        /\ k \in Needs(r) => /\ gates'[k] \in Gate
                             /\ gates'[k].running = gs[k].running + 1
                             /\ gates'[k].max = gs[k].max
                             /\ gates'[k].blocked = gs[k].blocked
                             /\ gates'[k].queue = gs[k].queue
  BY <1>1, <1>3, <1>6, CountedFacts
<1>10. ASSUME NEW k \in Needs(r)
       PROVE  /\ gs[k].queue = <<>> /\ gs[k].running < gs[k].max /\ ~gs[k].blocked
  BY <1>1 DEF Fits
<1>11. ASSUME NEW x \in ToSet(waiting) PROVE Needs(x) \cap Needs(r) = {}
  <2> SUFFICES ASSUME NEW k \in Needs(x), k \in Needs(r) PROVE FALSE
    OBVIOUS
  <2>1. k \in Keys /\ Open(k) /\ gates[k].queue # <<>>
    BY WaiterIsQueued
  <2> QED BY <1>3, <1>10, <2>1
<1>12. ASSUME NEW x \in ToSet(waiting), CanAcquire(Now', x)
       PROVE  Needs(x) \cap slack' # {}
  <2>1. ASSUME NEW k \in Needs(x)
        PROVE  gates'[k] = gates[k] /\ gates[k] \in Gate
    BY <1>3, <1>9, <1>11, WaiterIsQueued
  <2>2. \A k \in Needs(x) : gates[k].running \in Nat /\ gates[k].max \in Nat
    BY <2>1, GateFields
  <2>3. \A k \in Needs(x) \ slack' :
           /\ gates'[k].running >= gates[k].running
           /\ gates'[k].max <= gates[k].max
           /\ gates'[k].queue = gates[k].queue
           /\ gates'[k].blocked = gates[k].blocked
           /\ gates'[k] \in Gate
    BY <2>1, <2>2
  <2> QED BY <1>1, <1>12, <2>3, StillWaiting
<1>13. IInv'
  <2>1. NoLostWakeup'
    BY <1>1, <1>12 DEF NoLostWakeup
  <2> QED BY <1>1, <1>7, <1>8, <2>1 DEF IInv
<1>14. AdmittedHaveRoom
  <2> SUFFICES ASSUME NEW k \in Needs(r)
               PROVE  /\ gates'[k] # NoGate /\ ~gates'[k].blocked
                      /\ k \notin forgot
                           => Cardinality(HoldersOf(k, holders')) <= gates'[k].max
    BY <1>1 DEF AdmittedHaveRoom, Open
  <2>1. k \in Keys /\ gates'[k] \in Gate /\ gs[k] \in Gate
    BY <1>2, <1>3, <1>9
  <2>2. gates'[k] # NoGate /\ gs[k].running \in Nat /\ gs[k].max \in Nat
    BY <2>1, GateFields
  <2>3. k \notin forgot => Cardinality(HoldersOf(k, holders')) = gates'[k].running
    BY <1>7, <2>1, <2>2 DEF Consistent, Counts, RunningAt
  <2> QED BY <1>9, <1>10, <2>1, <2>2, <2>3
<1>15. EarlierAreGone
  <2>1. \A i \in DOMAIN waiting : waiting[i] \in ToSet(waiting)
    BY DEF ToSet
  <2> QED BY <1>1, <1>11, <2>1 DEF EarlierAreGone
<1> QED BY <1>13, <1>14, <1>15

LEMMA TidiedRefl ==
  ASSUME NEW s \in States
  PROVE  Tidied(s, s)
BY DEF Tidied

\* The state that a callback hands to drainQueues, field by field.
LEMMA NowFields ==
  /\ Now.gates = gates
  /\ Now.waiting = waiting
  /\ Now.holders = holders
BY DEF Now

LEMMA NowWithGates ==
  ASSUME NEW gs
  PROVE  [Now EXCEPT !.gates = gs] = [gates |-> gs, waiting |-> waiting, holders |-> holders]
BY DEF Now

LEMMA NowWithQueue ==
  ASSUME NEW w, NEW gs
  PROVE  [Now EXCEPT !.waiting = w, !.gates = gs] =
         [gates |-> gs, waiting |-> w, holders |-> holders]
<1> DEFINE m == [gates |-> gates, waiting |-> w, holders |-> holders]
<1>1. [Now EXCEPT !.waiting = w] = m
  BY DEF Now
<1>2. [m EXCEPT !.gates = gs] = [gates |-> gs, waiting |-> w, holders |-> holders]
  OBVIOUS
<1> HIDE DEF m
<1> QED BY <1>1, <1>2

LEMMA NowWithHolders ==
  ASSUME NEW hs, NEW gs
  PROVE  [Now EXCEPT !.gates = gs, !.holders = hs] =
         [gates |-> gs, waiting |-> waiting, holders |-> hs]
<1> DEFINE m == [gates |-> gs, waiting |-> waiting, holders |-> holders]
<1>1. [Now EXCEPT !.gates = gs] = m
  BY NowWithGates
<1>2. [m EXCEPT !.holders = hs] = [gates |-> gs, waiting |-> waiting, holders |-> hs]
  OBVIOUS
<1> HIDE DEF m
<1> QED BY <1>1, <1>2

LEMMA NowQueued ==
  ASSUME NEW r, NEW gs
  PROVE  [Now EXCEPT !.waiting = Append(@, r), !.gates = gs] =
         [gates |-> gs, waiting |-> Append(waiting, r), holders |-> holders]
BY NowFields, NowWithQueue

LEMMA NowReleased ==
  ASSUME NEW r, NEW gs
  PROVE  [Now EXCEPT !.gates = gs, !.holders = @ \ {r}] =
         [gates |-> gs, waiting |-> waiting, holders |-> holders \ {r}]
<1>1. [Now EXCEPT !.gates = gs, !.holders = @ \ {r}] =
      [Now EXCEPT !.gates = gs, !.holders = holders \ {r}]
  BY NowFields
<1> QED BY <1>1, NowWithHolders

LEMMA NowUnblocked ==
  ASSUME NEW k
  PROVE  [Now EXCEPT !.gates[k].blocked = FALSE] =
         [gates   |-> [gates EXCEPT ![k] = [gates[k] EXCEPT !.blocked = FALSE]],
          waiting |-> waiting,
          holders |-> holders]
<1>1. [Now EXCEPT !.gates[k].blocked = FALSE] =
      [Now EXCEPT !.gates = [gates EXCEPT ![k] = [gates[k] EXCEPT !.blocked = FALSE]]]
  BY NowFields
<1> QED BY <1>1, NowWithGates

LEMMA AcquireLaterKeeps ==
  ASSUME IInv, NEW r \in Requests, AcquireLater(r)
  PROVE  IInv' /\ AdmittedHaveRoom /\ EarlierAreGone
<1> DEFINE gs == EnsuredFor(r)
           p == [gates |-> gs, waiting |-> waiting, holders |-> holders]
           qs == [k \in Keys |-> IF k \in Needs(r)
                                 THEN [gs[k] EXCEPT !.queue = Append(@, r)] ELSE gates[k]]
           s == [gates |-> qs, waiting |-> Append(waiting, r), holders |-> holders]
<1>1. r \notin holders /\ r \notin ToSet(waiting) /\ FullKeys(r) = {} /\ strays' = strays
  BY DEF AcquireLater, Free
<1>2. Becomes(Drained(s), {})
  <2>1. Becomes(Drained([Now EXCEPT !.waiting = Append(@, r), !.gates = qs]), {})
    BY Zenon DEF AcquireLater
  <2> HIDE DEF qs
  <2>2. [Now EXCEPT !.waiting = Append(@, r), !.gates = qs] = s
    BY NowQueued
  <2> HIDE DEF s
  <2> QED BY <2>1, <2>2
<1>3. Touched(r) = Needs(r) /\ Needs(r) \subseteq Keys
  BY <1>1, AllTouched, NeedsType
<1>4. /\ gs \in [Keys -> Gate \cup {NoGate}]
      /\ \A k \in Keys :
           /\ k \notin Needs(r) => gs[k] = gates[k]
           /\ k \in Needs(r) => gs[k] \in Gate
      /\ Kept(Now, p)
  BY <1>3, EnsuredForFacts
<1>5. waiting \in Seq(Requests) /\ holders \subseteq Requests
  BY InvFacts
<1> HIDE DEF gs
<1>6. Consistent(p, forgot)
  BY <1>4, KeptIsConsistent DEF IInv
<1>7. ASSUME NEW k \in Needs(r)
      PROVE  /\ qs[k] \in Gate
             /\ qs[k].running = gs[k].running
             /\ qs[k].queue = Append(gs[k].queue, r)
  <2>1. gs[k] \in Gate /\ qs[k] = [gs[k] EXCEPT !.queue = Append(@, r)]
    BY <1>3, <1>4
  <2> HIDE DEF qs
  <2>2. gs[k].queue \in Seq(Requests)
    BY <2>1, GateFields
  <2>3. Append(gs[k].queue, r) \in Seq(Requests)
    BY <2>2
  <2> QED BY <2>1, <2>3 DEF Gate
<1>8. ASSUME NEW k \in Keys, k \notin Needs(r) PROVE qs[k] = gs[k]
  BY <1>4, <1>8
<1>9. qs \in [Keys -> Gate \cup {NoGate}]
  <2>1. qs = [k \in Keys |-> qs[k]]
    OBVIOUS
  <2>2. \A k \in Keys : qs[k] \in Gate \cup {NoGate}
    BY <1>4, <1>7, <1>8
  <2> HIDE DEF qs
  <2> QED BY <2>1, <2>2
<1> HIDE DEF qs
<1>10. /\ Append(waiting, r) \in Seq(Requests) /\ IsInjective(Append(waiting, r))
       /\ ToSet(Append(waiting, r)) = ToSet(waiting) \cup {r}
  BY <1>1, <1>5, InvFacts, AppendFacts
<1>11. /\ s.gates = qs /\ s.waiting = Append(waiting, r) /\ s.holders = holders /\ s \in States
  BY <1>5, <1>9, <1>10 DEF States
<1>12. p.gates = gs /\ p.waiting = waiting /\ p.holders = holders
  OBVIOUS
<1> HIDE DEF s, p
<1>13. Agree(s)
  <2> SUFFICES ASSUME NEW k \in Keys
               PROVE  IF qs[k] # NoGate
                      THEN qs[k].queue = Only(Append(waiting, r), HoldersOf(k, Requests))
                      ELSE \A x \in ToSet(waiting) \cup {r} : k \notin Needs(x)
    BY <1>10, <1>11 DEF Agree
  <2> DEFINE nb == HoldersOf(k, Requests)
             o == Only(waiting, nb)
  <2>1. IF gs[k] # NoGate
        THEN gs[k].queue = o ELSE \A x \in ToSet(waiting) : k \notin Needs(x)
    BY <1>6, <1>12 DEF Consistent, Agree
  <2>2. Only(Append(waiting, r), nb) = IF r \in nb THEN Append(o, r) ELSE o
    BY <1>5, OnlyAppend
  <2>3. r \in nb <=> k \in Needs(r)
    BY DEF HoldersOf
  <2> HIDE DEF nb, o
  <2>4. CASE k \in Needs(r)
    <3>1. gs[k] # NoGate /\ qs[k] # NoGate
      BY <1>4, <1>7, <2>4, NoGateIsNone
    <3> QED BY <1>7, <2>1, <2>2, <2>3, <2>4, <3>1 DEF nb
  <2>5. CASE k \notin Needs(r)
    BY <1>8, <2>1, <2>2, <2>3, <2>5 DEF nb
  <2> QED BY <2>4, <2>5
<1>14. Counts(s, forgot)
  <2>1. \A k \in Keys : RunningAt(s, k) = RunningAt(p, k)
    BY <1>4, <1>7, <1>8, <1>11, <1>12, NoGateIsNone DEF RunningAt
  <2> QED BY <1>6, <1>11, <1>12, <2>1 DEF Consistent, Counts
<1>15. Consistent(s, forgot)
  <2>1. ToSet(s.waiting) \cap s.holders = {}
    BY <1>1, <1>10, <1>11, InvFacts
  <2> QED BY <1>10, <1>11, <1>13, <1>14, <2>1, InvFacts DEF Consistent
<1>16. Tidied(Drained(s), Drained(s))
  <2>1. Drained(s) \in States
    BY <1>15, DrainFacts DEF DrainedFrom, Consistent
  <2> QED BY <2>1, TidiedRefl
<1>17. InOrder(s.waiting) /\ s.holders \subseteq holders
  BY <1>5, <1>11, AppendIsInOrder
<1>18. forgot \cup {} = forgot /\ strays' \subseteq Keys
  BY <1>1 DEF IInv
<1>19. Consistent(s, forgot \cup {})
  BY <1>15, <1>18
<1> QED BY <1>2, <1>16, <1>17, <1>18, <1>19, DrainStep

LEMMA GiveUpKeeps ==
  ASSUME IInv, NEW r \in Requests, GiveUp(r)
  PROVE  IInv' /\ AdmittedHaveRoom /\ EarlierAreGone
<1> DEFINE s == Removed(Now, {r})
<1>1. Becomes(Drained(s), {}) /\ strays' = strays
  BY DEF GiveUp
<1>2. Consistent(s, forgot)
  BY RemovedIsConsistent DEF IInv
<1>3. s.waiting = Only(waiting, Requests \ {r}) /\ s.holders = holders
  BY InvFacts, RemovedFacts DEF IInv, Consistent
<1> HIDE DEF s
<1>4. Tidied(Drained(s), Drained(s))
  <2>1. Drained(s) \in States
    BY <1>2, DrainFacts DEF DrainedFrom, Consistent
  <2> QED BY <2>1, TidiedRefl
<1>5. InOrder(s.waiting) /\ s.holders \subseteq holders
  BY <1>3, InvFacts, PartIsInOrder
<1>6. forgot \cup {} = forgot /\ strays' \subseteq Keys
  BY <1>1 DEF IInv
<1>7. Consistent(s, forgot \cup {})
  BY <1>2, <1>6
<1> QED BY <1>1, <1>4, <1>5, <1>6, <1>7, DrainStep

-----------------------------------------------------------------------------
(* The release function. *)

\* A release gives each gate its slot back, if the gate has one.
LEMMA ReleasedFacts ==
  ASSUME IInv, NEW r \in holders
  PROVE  LET s == [gates |-> ReleasedGates(r), waiting |-> waiting, holders |-> holders \ {r}]
         IN  Consistent(s, forgot)
<1> DEFINE gs == ReleasedGates(r)
           s == [gates |-> gs, waiting |-> waiting, holders |-> holders \ {r}]
<1>1. gates \in [Keys -> Gate \cup {NoGate}] /\ r \in Requests
  BY InvFacts
<1>2. gs = [k \in Keys |-> IF k \in Needs(r) /\ Open(k) /\ gates[k].running > 0
                           THEN [gates[k] EXCEPT !.running = @ - 1] ELSE gates[k]]
  BY DEF ReleasedGates
<1> HIDE DEF gs
<1>3. ASSUME NEW k \in Keys
      PROVE  /\ gs[k] \in Gate \cup {NoGate}
             /\ gs[k] = NoGate <=> gates[k] = NoGate
             /\ gates[k] # NoGate =>
                  /\ gs[k].queue = gates[k].queue
                  /\ gs[k].running = IF k \in Needs(r) /\ gates[k].running > 0
                                     THEN gates[k].running - 1 ELSE gates[k].running
  <2>1. CASE k \in Needs(r) /\ Open(k) /\ gates[k].running > 0
    <3>1. gates[k] \in Gate /\ gs[k] = [gates[k] EXCEPT !.running = @ - 1]
      BY <1>1, <1>2, <2>1 DEF Open
    <3>2. gates[k].running - 1 \in Nat
      BY <2>1, <3>1, GateFields
    <3>3. /\ gs[k] \in Gate /\ gs[k].queue = gates[k].queue
          /\ gs[k].running = gates[k].running - 1
      BY <3>1, <3>2 DEF Gate
    <3> QED BY <2>1, <3>1, <3>3, NoGateIsNone
  <2>2. CASE ~(k \in Needs(r) /\ Open(k) /\ gates[k].running > 0)
    BY <1>1, <1>2, <2>2 DEF Open
  <2> QED BY <2>1, <2>2
<1>4. gs \in [Keys -> Gate \cup {NoGate}]
  BY <1>2, <1>3
<1>5. s.gates = gs /\ s.waiting = waiting /\ s.holders = holders \ {r} /\ s \in States
  BY <1>4, InvFacts DEF States
<1> HIDE DEF s
<1>6. Agree(s)
  BY <1>3, <1>5, InvFacts DEF Agree, QueuesAgree, Open
<1>7. Counts(s, forgot)
  <2> SUFFICES ASSUME NEW k \in Keys
               PROVE  /\ RunningAt(s, k) <= Cardinality(HoldersOf(k, s.holders))
                      /\ k \notin forgot
                           => RunningAt(s, k) = Cardinality(HoldersOf(k, s.holders))
    BY DEF Counts
  <2> DEFINE c == Cardinality(HoldersOf(k, holders))
             d == Cardinality(HoldersOf(k, holders \ {r}))
             n == RunningAt(Now, k)
             m == RunningAt(s, k)
  <2>1. d \in Nat /\ c = d + (IF k \in Needs(r) THEN 1 ELSE 0)
    BY InvFacts, HoldersLess
  <2>2. n <= c /\ (k \notin forgot => n = c)
    BY InvFacts DEF IInv, Consistent, Counts
  <2>3. n \in Nat /\ m = IF k \in Needs(r) /\ n > 0 THEN n - 1 ELSE n
    <3>1. Now.gates[k] = gates[k]
      BY InvFacts
    <3>2. CASE gates[k] = NoGate
      BY <1>3, <1>5, <3>1, <3>2 DEF RunningAt
    <3>3. CASE gates[k] # NoGate
      <4>1. gates[k].running \in Nat
        BY <1>1, <3>3, GateFields
      <4> QED BY <1>3, <1>5, <3>1, <3>3, <4>1 DEF RunningAt
    <3> QED BY <3>2, <3>3
  <2>4. s.holders = holders \ {r}
    BY <1>5
  <2> HIDE DEF c, d, n, m
  <2>5. m <= d /\ (k \notin forgot => m = d)
    BY <2>1, <2>2, <2>3
  <2> QED BY <2>4, <2>5 DEF d, m
<1>8. Consistent(s, forgot)
  <2>1. IsFiniteSet(holders \ {r})
    BY InvFacts, FS_Subset
  <2>2. ToSet(s.waiting) \cap s.holders = {} /\ IsInjective(s.waiting)
    BY <1>5, InvFacts
  <2> QED BY <1>5, <1>6, <1>7, <2>1, <2>2 DEF Consistent
<1> QED BY <1>8 DEF s, gs

LEMMA ReleaseKeeps ==
  ASSUME IInv, NEW r \in Requests, Release(r)
  PROVE  IInv' /\ AdmittedHaveRoom /\ EarlierAreGone
<1> DEFINE s == [gates |-> ReleasedGates(r), waiting |-> waiting, holders |-> holders \ {r}]
           d == Drained(s)
           gs == [k \in Keys |-> IF k \in Needs(r) /\ d.gates[k] # NoGate
                                 THEN Scheduled(d.gates[k]) ELSE d.gates[k]]
           t == [d EXCEPT !.gates = gs]
<1>1. r \in holders /\ strays' = strays /\ Becomes(t, {})
  <2> DEFINE n == [Now EXCEPT !.gates = ReleasedGates(r), !.holders = @ \ {r}]
  <2>1. n = s
    BY NowReleased
  <2>2. /\ r \in holders /\ strays' = strays
        /\ Becomes([Drained(n) EXCEPT !.gates = [k \in Keys |->
                       IF k \in Needs(r) /\ Drained(n).gates[k] # NoGate
                       THEN Scheduled(Drained(n).gates[k]) ELSE Drained(n).gates[k]]], {})
    BY Zenon DEF Release
  <2> HIDE DEF n, s
  <2> QED BY <2>1, <2>2
<1>2. Consistent(s, forgot)
  BY <1>1, ReleasedFacts
<1>3. s.waiting = waiting /\ s.holders = holders \ {r}
  OBVIOUS
<1> HIDE DEF s
<1>4. d \in States
  BY <1>2, DrainFacts DEF DrainedFrom, Consistent
<1> HIDE DEF d
<1>5. d.gates \in [Keys -> Gate \cup {NoGate}]
  BY <1>4 DEF States
<1>6. ASSUME NEW k \in Keys
      PROVE  \/ gs[k] = NoGate /\ d.gates[k] = NoGate
             \/ /\ gs[k] \in Gate /\ d.gates[k] # NoGate
                /\ gs[k].queue = d.gates[k].queue
                /\ gs[k].running = d.gates[k].running
                /\ gs[k].max = d.gates[k].max
                /\ gs[k].blocked = d.gates[k].blocked
  <2>1. CASE k \in Needs(r) /\ d.gates[k] # NoGate
    <3>1. d.gates[k] \in Gate /\ gs[k] = Scheduled(d.gates[k])
      BY <1>5, <2>1
    <3> HIDE DEF gs
    <3> QED BY <2>1, <3>1, ScheduledFacts
  <2>2. CASE ~(k \in Needs(r) /\ d.gates[k] # NoGate)
    <3>1. gs[k] = d.gates[k]
      BY <2>2
    <3> HIDE DEF gs
    <3> QED BY <1>5, <3>1
  <2> QED BY <2>1, <2>2
<1>7. gs \in [Keys -> Gate \cup {NoGate}]
  <2>1. gs = [k \in Keys |-> gs[k]]
    OBVIOUS
  <2> HIDE DEF gs
  <2> QED BY <1>6, <2>1
<1> HIDE DEF gs
<1>8. t.gates = gs /\ t.waiting = d.waiting /\ t.holders = d.holders /\ t \in States
  BY <1>4, <1>7 DEF States
<1> HIDE DEF t
<1>9. Tidied(d, t)
  BY <1>6, <1>8, NoGateIsNone DEF Tidied
<1>10. InOrder(s.waiting) /\ s.holders \subseteq holders
  BY <1>3, InvFacts, WaitingIsInOrder
<1>11. forgot \cup {} = forgot /\ strays' \subseteq Keys
  BY <1>1 DEF IInv
<1>12. Consistent(s, forgot \cup {})
  BY <1>2, <1>11
<1> QED BY <1>1, <1>9, <1>10, <1>11, <1>12, DrainStep DEF d

-----------------------------------------------------------------------------
(* The gates' own operations. *)

\* Only the gate k of Now changes, to g.
LEMMA OneGateKept ==
  ASSUME IInv, NEW k \in Keys, NEW g \in Gate \cup {NoGate},
         \/ g = NoGate /\ (gates[k] = NoGate \/ Idle(gates[k]))
         \/ g # NoGate /\ gates[k] = NoGate /\ Idle(g)
         \/ /\ g # NoGate /\ gates[k] # NoGate
            /\ g.queue = gates[k].queue
            /\ g.running = gates[k].running
  PROVE  LET gs == [gates EXCEPT ![k] = g] IN
         /\ gs \in [Keys -> Gate \cup {NoGate}]
         /\ gs[k] = g
         /\ \A j \in Keys \ {k} : gs[j] = gates[j]
         /\ Kept(Now, [gates |-> gs, waiting |-> waiting, holders |-> holders])
<1> DEFINE gs == [gates EXCEPT ![k] = g]
           t == [gates |-> gs, waiting |-> waiting, holders |-> holders]
<1>1. gates \in [Keys -> Gate \cup {NoGate}]
  BY InvFacts
<1>2. /\ gs \in [Keys -> Gate \cup {NoGate}] /\ gs[k] = g
      /\ \A j \in Keys \ {k} : gs[j] = gates[j]
  BY <1>1
<1> HIDE DEF gs
<1>3. t.gates = gs /\ t.waiting = waiting /\ t.holders = holders /\ t \in States
  BY <1>2, InvFacts DEF States
<1> HIDE DEF t
<1>4. Now.gates = gates /\ Now.waiting = waiting /\ Now.holders = holders
  BY InvFacts
<1>5. ASSUME NEW j \in Keys
      PROVE  \/ gs[j] = NoGate /\ (gates[j] = NoGate \/ Idle(gates[j]))
             \/ gs[j] # NoGate /\ gates[j] = NoGate /\ Idle(gs[j])
             \/ /\ gs[j] # NoGate /\ gates[j] # NoGate
                /\ gs[j].queue = gates[j].queue
                /\ gs[j].running = gates[j].running
  <2>1. CASE j = k
    BY <1>2, <2>1
  <2>2. CASE j # k
    BY <1>2, <2>2
  <2> QED BY <2>1, <2>2
<1>6. Kept(Now, t)
  BY <1>3, <1>4, <1>5 DEF Kept
<1> QED BY <1>2, <1>6 DEF t, gs

\* Where only the gate k has changed, a waiter that does not need k cannot go now if
\* it could not before.
LEMMA WaitsForOthers ==
  ASSUME IInv, NEW k, \A j \in Keys \ {k} : gates'[j] = gates[j],
         slack \ {k} \subseteq slack', NEW x \in ToSet(waiting), k \notin Needs(x),
         CanAcquire(Now', x)
  PROVE  Needs(x) \cap slack' # {}
<1>1. CanAcquire(Now, x)
  <2>1. \A j \in Needs(x) : gates'[j] = gates[j]
    BY WaiterIsQueued
  <2> QED BY <2>1 DEF CanAcquire, Now
<1>2. Needs(x) \cap slack # {}
  BY <1>1 DEF IInv, NoLostWakeup
<1> QED BY <1>2

LEMMA MarkBlockedKeeps ==
  ASSUME IInv, NEW k \in Accounts, MarkBlocked(k)
  PROVE  IInv' /\ AdmittedHaveRoom /\ EarlierAreGone
<1> DEFINE limit == IF Open(k) THEN gates[k].max ELSE 1
           g == [Ensured(k, limit) EXCEPT !.blocked = TRUE]
<1>1. /\ gates' = [gates EXCEPT ![k] = g] /\ slack' = slack \ {k}
      /\ UNCHANGED <<waiting, holders, strays, forgot>>
  BY DEF MarkBlocked
<1>2. k \in Keys /\ gates \in [Keys -> Gate \cup {NoGate}]
  BY KeysAreNumbers, InvFacts
<1>3. /\ g \in Gate /\ g.blocked
      /\ \/ gates[k] = NoGate /\ Idle(g)
         \/ /\ gates[k] # NoGate /\ g.queue = gates[k].queue /\ g.running = gates[k].running
  <2>1. CASE Open(k)
    <3>1. gates[k] \in Gate /\ gates[k].max \in Nat \ {0}
      BY <1>2, <2>1, GateFields DEF Open
    <3>2. g = [[gates[k] EXCEPT !.max = gates[k].max, !.timer = FALSE] EXCEPT !.blocked = TRUE]
      BY <2>1 DEF Ensured
    <3> HIDE DEF g
    <3> QED BY <2>1, <3>1, <3>2 DEF Gate, Open
  <2>2. CASE ~Open(k)
    <3>1. g = [NewGate(1) EXCEPT !.blocked = TRUE]
      BY <2>2 DEF Ensured
    <3> HIDE DEF g
    <3>2. g = [running |-> 0, max |-> 1, queue |-> <<>>, blocked |-> TRUE, timer |-> FALSE]
      BY <3>1 DEF NewGate
    <3>3. g \in Gate /\ g.blocked /\ g.running = 0 /\ g.queue = <<>>
      BY <3>2 DEF Gate
    <3> QED BY <2>2, <3>3 DEF Idle, Open
  <2> QED BY <2>1, <2>2
<1> HIDE DEF g
<1>4. /\ gates' \in [Keys -> Gate \cup {NoGate}] /\ gates'[k] = g
      /\ \A j \in Keys \ {k} : gates'[j] = gates[j]
      /\ Kept(Now, [gates |-> gates', waiting |-> waiting, holders |-> holders])
  BY <1>1, <1>2, <1>3, OneGateKept, NoGateIsNone
<1>5. Kept(Now, Now')
  BY <1>1, <1>4 DEF Now
<1>6. ASSUME NEW x \in ToSet(waiting), CanAcquire(Now', x)
      PROVE  Needs(x) \cap slack' # {}
  <2>1. k \notin Needs(x)
    BY <1>3, <1>4, <1>6 DEF CanAcquire, Now
  <2> QED BY <1>1, <1>4, <1>6, <2>1, WaitsForOthers
<1>7. strays' \subseteq Keys /\ slack' \subseteq Keys
  BY <1>1 DEF IInv
<1> QED BY <1>1, <1>4, <1>5, <1>6, <1>7, QuietStep

LEMMA BlockEndsKeeps ==
  ASSUME IInv, NEW k \in Accounts, BlockEnds(k)
  PROVE  IInv' /\ AdmittedHaveRoom /\ EarlierAreGone
<1> DEFINE g == [gates[k] EXCEPT !.blocked = FALSE]
<1>1. /\ Open(k) /\ gates' = [gates EXCEPT ![k] = g] /\ slack' = slack \cup {k}
      /\ UNCHANGED <<waiting, holders, strays, forgot>>
  BY DEF BlockEnds
<1>2. k \in Keys /\ gates \in [Keys -> Gate \cup {NoGate}]
  BY KeysAreNumbers, InvFacts
<1>3. /\ g \in Gate /\ gates[k] # NoGate
      /\ g.queue = gates[k].queue /\ g.running = gates[k].running
  <2>1. gates[k] \in Gate
    BY <1>1, <1>2 DEF Open
  <2> QED BY <2>1, NoGateIsNone DEF Gate
<1> HIDE DEF g
<1>4. /\ gates' \in [Keys -> Gate \cup {NoGate}]
      /\ \A j \in Keys \ {k} : gates'[j] = gates[j]
      /\ Kept(Now, [gates |-> gates', waiting |-> waiting, holders |-> holders])
  BY <1>1, <1>2, <1>3, OneGateKept, NoGateIsNone
<1>5. Kept(Now, Now')
  BY <1>1, <1>4 DEF Now
<1>6. ASSUME NEW x \in ToSet(waiting), CanAcquire(Now', x)
      PROVE  Needs(x) \cap slack' # {}
  <2>1. CASE k \in Needs(x)
    BY <1>1, <2>1
  <2>2. CASE k \notin Needs(x)
    BY <1>1, <1>4, <1>6, <2>2, WaitsForOthers
  <2> QED BY <2>1, <2>2
<1>7. strays' \subseteq Keys /\ slack' \subseteq Keys
  BY <1>1, <1>2 DEF IInv
<1> QED BY <1>1, <1>4, <1>5, <1>6, <1>7, QuietStep

\* cleanupGateIfIdle
LEMMA CleanedUpFacts ==
  ASSUME NEW s \in States, NEW k \in Keys
  PROVE  Tidied(s, [s EXCEPT !.gates = CleanedUp(@, k)])
<1> DEFINE gs == CleanedUp(s.gates, k)
           t == [s EXCEPT !.gates = CleanedUp(@, k)]
<1>1. s.gates \in [Keys -> Gate \cup {NoGate}]
  BY DEF States
<1>2. /\ gs \in [Keys -> Gate \cup {NoGate}]
      /\ \A j \in Keys : gs[j] = s.gates[j] \/ (gs[j] = NoGate /\ Idle(s.gates[j]))
  BY <1>1 DEF CleanedUp
<1>3. t.gates = gs /\ t.waiting = s.waiting /\ t.holders = s.holders /\ t \in States
  <2>1. t = [s EXCEPT !.gates = gs]
    BY DEF States
  <2> HIDE DEF t, gs
  <2> QED BY <1>2, <2>1 DEF States
<1> HIDE DEF t, gs
<1>4. Tidied(s, t)
  BY <1>2, <1>3 DEF Tidied
<1> QED BY <1>4 DEF t

LEMMA UnblockKeeps ==
  ASSUME IInv, NEW k \in Accounts, Unblock(k)
  PROVE  IInv' /\ AdmittedHaveRoom /\ EarlierAreGone
<1> DEFINE g == [gates[k] EXCEPT !.blocked = FALSE]
           s == [gates |-> [gates EXCEPT ![k] = g], waiting |-> waiting, holders |-> holders]
           t == [Drained(s) EXCEPT !.gates = CleanedUp(@, k)]
<1>1. Open(k) /\ strays' = strays /\ Becomes(t, {})
  <2> DEFINE n == [Now EXCEPT !.gates[k].blocked = FALSE]
  <2>1. n = s
    BY NowUnblocked
  <2>2. /\ Open(k) /\ strays' = strays
        /\ Becomes([Drained(n) EXCEPT !.gates = CleanedUp(@, k)], {})
    BY Zenon DEF Unblock
  <2> HIDE DEF n, s
  <2> QED BY <2>1, <2>2
<1>2. k \in Keys /\ gates \in [Keys -> Gate \cup {NoGate}]
  BY KeysAreNumbers, InvFacts
<1>3. /\ g \in Gate /\ gates[k] # NoGate
      /\ g.queue = gates[k].queue /\ g.running = gates[k].running
  <2>1. gates[k] \in Gate
    BY <1>1, <1>2 DEF Open
  <2> QED BY <2>1, NoGateIsNone DEF Gate
<1> HIDE DEF g
<1>4. Kept(Now, s)
  BY <1>2, <1>3, OneGateKept, NoGateIsNone
<1>5. s.waiting = waiting /\ s.holders = holders
  OBVIOUS
<1> HIDE DEF s
<1>6. Consistent(s, forgot)
  BY <1>4, KeptIsConsistent DEF IInv
<1>7. Tidied(Drained(s), t)
  <2>1. Drained(s) \in States
    BY <1>6, DrainFacts DEF DrainedFrom, Consistent
  <2> QED BY <1>2, <2>1, CleanedUpFacts
<1>8. InOrder(s.waiting) /\ s.holders \subseteq holders
  BY <1>5, InvFacts, WaitingIsInOrder
<1>9. forgot \cup {} = forgot /\ strays' \subseteq Keys
  BY <1>1 DEF IInv
<1>10. Consistent(s, forgot \cup {})
  BY <1>6, <1>9
<1> HIDE DEF t
<1> QED BY <1>1, <1>7, <1>8, <1>9, <1>10, DrainStep

LEMMA CleanupFiresKeeps ==
  ASSUME IInv, NEW k \in Keys, CleanupFires(k)
  PROVE  IInv' /\ AdmittedHaveRoom /\ EarlierAreGone
<1> DEFINE gs == [gates EXCEPT ![k].timer = FALSE]
<1>1. /\ Open(k) /\ gates' = CleanedUp(gs, k)
      /\ UNCHANGED <<waiting, holders, strays, forgot, slack>>
  BY DEF CleanupFires
<1>2. gates \in [Keys -> Gate \cup {NoGate}] /\ gates[k] \in Gate
  BY <1>1, InvFacts DEF Open
<1>3. /\ gs \in [Keys -> Gate \cup {NoGate}]
      /\ \A j \in Keys \ {k} : gs[j] = gates[j]
      /\ gs[k] \in Gate /\ gs[k].running = gates[k].running /\ gs[k].max = gates[k].max
      /\ gs[k].queue = gates[k].queue /\ gs[k].blocked = gates[k].blocked
  <2>1. [gates[k] EXCEPT !.timer = FALSE] \in Gate
    BY <1>2, GateChanges
  <2>2. gs = [gates EXCEPT ![k] = [gates[k] EXCEPT !.timer = FALSE]]
    OBVIOUS
  <2>3. gs[k] = [gates[k] EXCEPT !.timer = FALSE]
    BY <1>2
  <2>4. gs \in [Keys -> Gate \cup {NoGate}] /\ \A j \in Keys \ {k} : gs[j] = gates[j]
    BY <1>2, <2>1, <2>2
  <2> HIDE DEF gs
  <2> QED BY <1>2, <2>1, <2>3, <2>4 DEF Gate
<1> HIDE DEF gs
<1>4. /\ gates' \in [Keys -> Gate \cup {NoGate}]
      /\ \A j \in Keys : gates'[j] = gs[j] \/ (gates'[j] = NoGate /\ Idle(gs[j]))
  BY <1>1, <1>3 DEF CleanedUp
<1>5. Now' \in States
  BY <1>1, <1>4, InvFacts DEF Now, States
<1>6. ASSUME NEW j \in Keys
      PROVE  \/ gates'[j] = NoGate /\ (gates[j] = NoGate \/ Idle(gates[j]))
             \/ /\ gates'[j] # NoGate /\ gates[j] # NoGate
                /\ gates'[j].queue = gates[j].queue
                /\ gates'[j].running = gates[j].running
                /\ gates'[j].max = gates[j].max
                /\ gates'[j].blocked = gates[j].blocked
  <2>1. CASE j = k
    BY <1>2, <1>3, <1>4, <2>1, NoGateIsNone DEF Idle
  <2>2. CASE j # k
    BY <1>3, <1>4, <2>2
  <2> QED BY <2>1, <2>2
<1>7. Tidied(Now, Now')
  BY <1>1, <1>5, <1>6 DEF Tidied, Now
<1> QED BY <1>1, <1>7, TidyStep DEF IInv

LEMMA StrayFiresKeeps ==
  ASSUME IInv, NEW k \in Keys, StrayFires(k)
  PROVE  IInv' /\ AdmittedHaveRoom /\ EarlierAreGone
<1>1. /\ gates' = CleanedUp(gates, k) /\ strays' = strays \ {k}
      /\ UNCHANGED <<waiting, holders, forgot, slack>>
  BY DEF StrayFires
<1>2. Tidied(Now, [Now EXCEPT !.gates = CleanedUp(@, k)])
  BY InvFacts, CleanedUpFacts
<1>3. [Now EXCEPT !.gates = CleanedUp(@, k)] = Now'
  BY <1>1 DEF Now
<1>4. Tidied(Now, Now')
  BY <1>2, <1>3
<1> QED BY <1>1, <1>4, TidyStep DEF IInv

LEMMA ResetKeeps ==
  ASSUME IInv, NEW k \in Keys, Reset(k)
  PROVE  IInv' /\ AdmittedHaveRoom /\ EarlierAreGone
<1> DEFINE rs == ToSet(gates[k].queue)
           p == Removed(Now, rs)
           s == [p EXCEPT !.gates[k] = NoGate]
<1>1. /\ Open(k) /\ Becomes(Drained(s), {k})
      /\ strays' = strays \/ strays' = strays \cup {k}
  BY DEF Reset
<1>2. /\ waiting \in Seq(Requests) /\ gates[k] \in Gate
      /\ gates[k].queue = Only(waiting, HoldersOf(k, Requests))
  BY <1>1, InvFacts DEF Open, QueuesAgree
<1>3. rs = ToSet(waiting) \cap HoldersOf(k, Requests) /\ rs \subseteq Requests
  BY <1>2, OnlyMembers DEF HoldersOf
<1> HIDE DEF rs
<1>4. Consistent(p, forgot)
  BY <1>3, RemovedIsConsistent DEF IInv
<1>5. p.waiting = Only(waiting, Requests \ rs) /\ p.holders = holders
  BY <1>3, InvFacts, RemovedFacts DEF IInv, Consistent
<1>6. ToSet(p.waiting) = ToSet(waiting) \cap (Requests \ rs)
  BY <1>2, <1>5, OnlyMembers
<1> HIDE DEF p
<1>7. p \in States /\ p.gates \in [Keys -> Gate \cup {NoGate}]
  BY <1>4 DEF Consistent, States
<1>8. /\ s \in States /\ s.waiting = p.waiting /\ s.holders = p.holders
      /\ s.gates[k] = NoGate /\ \A j \in Keys \ {k} : s.gates[j] = p.gates[j]
  <2> DEFINE gs == [p.gates EXCEPT ![k] = NoGate]
  <2>1. /\ gs \in [Keys -> Gate \cup {NoGate}] /\ gs[k] = NoGate
        /\ \A j \in Keys \ {k} : gs[j] = p.gates[j]
    BY <1>7
  <2>2. s = [p EXCEPT !.gates = gs]
    BY <1>7
  <2> HIDE DEF gs, s
  <2> QED BY <1>7, <2>1, <2>2 DEF States
<1> HIDE DEF s
<1>9. \A x \in ToSet(s.waiting) : k \notin Needs(x)
  BY <1>3, <1>6, <1>8 DEF HoldersOf
<1>10. Agree(s)
  <2> SUFFICES ASSUME NEW j \in Keys
               PROVE  IF s.gates[j] # NoGate
                      THEN s.gates[j].queue = Only(s.waiting, HoldersOf(j, Requests))
                      ELSE \A r \in ToSet(s.waiting) : j \notin Needs(r)
    BY DEF Agree
  <2>1. CASE j = k
    BY <1>8, <1>9, <2>1
  <2>2. CASE j # k
    BY <1>4, <1>8, <2>2 DEF Consistent, Agree
  <2> QED BY <2>1, <2>2
<1>11. Counts(s, forgot \cup {k})
  <2> SUFFICES ASSUME NEW j \in Keys
               PROVE  /\ RunningAt(s, j) <= Cardinality(HoldersOf(j, s.holders))
                      /\ j \notin forgot \cup {k}
                           => RunningAt(s, j) = Cardinality(HoldersOf(j, s.holders))
    BY DEF Counts
  <2>1. CASE j = k
    <3>1. IsFiniteSet(HoldersOf(j, s.holders))
      BY <1>5, <1>8, InvFacts, FS_Subset DEF HoldersOf
    <3>2. Cardinality(HoldersOf(j, s.holders)) \in Nat
      BY <3>1, FS_CardinalityType
    <3> QED BY <1>8, <2>1, <3>2 DEF RunningAt
  <2>2. CASE j # k
    BY <1>4, <1>8, <2>2 DEF Consistent, Counts, RunningAt
  <2> QED BY <2>1, <2>2
<1>12. Consistent(s, forgot \cup {k})
  BY <1>4, <1>8, <1>10, <1>11 DEF Consistent
<1>13. Tidied(Drained(s), Drained(s))
  <2>1. Drained(s) \in States
    BY <1>12, DrainFacts DEF DrainedFrom, Consistent
  <2> QED BY <2>1, TidiedRefl
<1>14. InOrder(s.waiting) /\ s.holders \subseteq holders
  BY <1>2, <1>5, <1>8, PartIsInOrder
<1>15. {k} \in SUBSET Keys /\ strays' \subseteq Keys
  BY <1>1 DEF IInv
<1> QED BY <1>1, <1>12, <1>13, <1>14, <1>15, DrainStep

LEMMA ResetAllKeeps ==
  ASSUME IInv, ResetAll
  PROVE  IInv' /\ AdmittedHaveRoom /\ EarlierAreGone
<1>1. /\ gates' = [k \in Keys |-> NoGate] /\ waiting' = <<>>
      /\ forgot' = {k \in forgot \cup Keys : HoldersOf(k, holders) # {}}
      /\ slack' = {} /\ holders' = holders /\ strays' = strays
  BY DEF ResetAll, Forgotten
<1>2. /\ Now'.gates = gates' /\ Now'.waiting = <<>> /\ Now'.holders = holders
      /\ Now' \in States
  BY <1>1, InvFacts DEF Now, States
<1>3. ToSet(<<>>) = {} /\ IsInjective(<<>>)
  BY DEF ToSet, IsInjective
<1>4. Agree(Now')
  BY <1>1, <1>2, <1>3 DEF Agree
<1>5. Counts(Now', forgot')
  <2> SUFFICES ASSUME NEW k \in Keys
               PROVE  /\ 0 <= Cardinality(HoldersOf(k, holders))
                      /\ k \notin forgot' => 0 = Cardinality(HoldersOf(k, holders))
    BY <1>1, <1>2 DEF Counts, RunningAt
  <2>1. IsFiniteSet(HoldersOf(k, holders))
    BY InvFacts, FS_Subset DEF HoldersOf
  <2>2. Cardinality(HoldersOf(k, holders)) \in Nat
    BY <2>1, FS_CardinalityType
  <2>3. k \notin forgot' => HoldersOf(k, holders) = {}
    BY <1>1
  <2> QED BY <2>2, <2>3, FS_EmptySet
<1>6. Consistent(Now', forgot')
  BY <1>2, <1>3, <1>4, <1>5, InvFacts DEF Consistent
<1>7. NoLostWakeup'
  BY <1>1, <1>3 DEF NoLostWakeup
<1>8. IInv'
  BY <1>1, <1>6, <1>7 DEF IInv
<1> QED BY <1>1, <1>8, NobodyAdmitted

-----------------------------------------------------------------------------
(* The theorems. *)

LEMMA InitIInv == Init => IInv
<1> SUFFICES ASSUME Init PROVE IInv
  OBVIOUS
<1>1. /\ gates = [k \in Keys |-> NoGate] /\ waiting = <<>> /\ holders = {}
      /\ strays = {} /\ forgot = {} /\ slack = {}
  BY DEF Init
<1>2. Now.gates = gates /\ Now.waiting = <<>> /\ Now.holders = {} /\ Now \in States
  BY <1>1 DEF Now, States
<1>3. ToSet(<<>>) = {} /\ IsInjective(<<>>) /\ IsFiniteSet({})
  BY FS_EmptySet DEF ToSet, IsInjective
<1>4. Agree(Now)
  BY <1>1, <1>2, <1>3 DEF Agree
<1>5. Counts(Now, forgot)
  <2>1. \A k \in Keys : HoldersOf(k, Now.holders) = {} /\ RunningAt(Now, k) = 0
    BY <1>1, <1>2 DEF HoldersOf, RunningAt
  <2> QED BY <2>1, FS_EmptySet DEF Counts
<1>6. Consistent(Now, forgot)
  BY <1>2, <1>3, <1>4, <1>5 DEF Consistent
<1> QED BY <1>1, <1>3, <1>6 DEF IInv, NoLostWakeup

LEMMA NextIInv ==
  ASSUME IInv, [Next]_vars
  PROVE  IInv' /\ AdmittedHaveRoom /\ EarlierAreGone
<1>1. ASSUME NEW r \in Requests, AcquireRefused(r)
      PROVE  IInv' /\ AdmittedHaveRoom /\ EarlierAreGone
  BY <1>1, AcquireRefusedKeeps
<1>2. ASSUME NEW r \in Requests, AcquireNow(r)
      PROVE  IInv' /\ AdmittedHaveRoom /\ EarlierAreGone
  BY <1>2, AcquireNowKeeps
<1>3. ASSUME NEW r \in Requests, AcquireLater(r)
      PROVE  IInv' /\ AdmittedHaveRoom /\ EarlierAreGone
  BY <1>3, AcquireLaterKeeps
<1>4. ASSUME NEW r \in Requests, GiveUp(r)
      PROVE  IInv' /\ AdmittedHaveRoom /\ EarlierAreGone
  BY <1>4, GiveUpKeeps
<1>5. ASSUME NEW r \in Requests, Release(r)
      PROVE  IInv' /\ AdmittedHaveRoom /\ EarlierAreGone
  BY <1>5, ReleaseKeeps
<1>6. ASSUME NEW k \in Accounts, MarkBlocked(k)
      PROVE  IInv' /\ AdmittedHaveRoom /\ EarlierAreGone
  BY <1>6, MarkBlockedKeeps
<1>7. ASSUME NEW k \in Accounts, BlockEnds(k)
      PROVE  IInv' /\ AdmittedHaveRoom /\ EarlierAreGone
  BY <1>7, BlockEndsKeeps
<1>8. ASSUME NEW k \in Accounts, Unblock(k)
      PROVE  IInv' /\ AdmittedHaveRoom /\ EarlierAreGone
  BY <1>8, UnblockKeeps
<1>9. ASSUME NEW k \in Keys, CleanupFires(k)
      PROVE  IInv' /\ AdmittedHaveRoom /\ EarlierAreGone
  BY <1>9, CleanupFiresKeeps
<1>10. ASSUME NEW k \in Keys, StrayFires(k)
       PROVE  IInv' /\ AdmittedHaveRoom /\ EarlierAreGone
  BY <1>10, StrayFiresKeeps
<1>11. ASSUME NEW k \in Keys, Reset(k)
       PROVE  IInv' /\ AdmittedHaveRoom /\ EarlierAreGone
  BY <1>11, ResetKeeps
<1>12. ASSUME ResetAll
       PROVE  IInv' /\ AdmittedHaveRoom /\ EarlierAreGone
  BY <1>12, ResetAllKeeps
<1>13. ASSUME UNCHANGED vars
       PROVE  IInv' /\ AdmittedHaveRoom /\ EarlierAreGone
  <2>1. UNCHANGED <<gates, waiting, holders, strays, forgot, slack>>
    BY <1>13 DEF vars
  <2>2. IInv'
    BY <2>1 DEF IInv, Now, NoLostWakeup
  <2> QED BY <2>1, <2>2, NobodyAdmitted
<1> QED
  BY <1>1, <1>2, <1>3, <1>4, <1>5, <1>6, <1>7, <1>8, <1>9, <1>10, <1>11, <1>12, <1>13
  DEF Next

\* The head of a queue came before whoever it keeps waiting.
LEMMA AheadIsEarlier ==
  ASSUME IInv, NEW i \in DOMAIN waiting, NEW k \in Needs(waiting[i]),
         Head(gates[k].queue) # waiting[i]
  PROVE  \E j \in DOMAIN waiting : j < i /\ k \in Needs(waiting[j])
<1> DEFINE r == waiting[i]
           nb == HoldersOf(k, Requests)
           q == Only(waiting, nb)
           h == Head(q)
<1>1. waiting \in Seq(Requests) /\ IsInjective(waiting) /\ r \in ToSet(waiting)
  BY InvFacts DEF ToSet
<1>2. r \in Requests /\ k \in Keys /\ Open(k) /\ gates[k].queue # <<>>
  BY <1>1, WaiterIsQueued
<1>3. gates[k].queue = q
  BY <1>2, InvFacts DEF QueuesAgree
<1>4. q \in Seq(Requests) /\ IsInjective(q) /\ ToSet(q) = ToSet(waiting) \cap nb
  BY <1>1, OnlyMembers
<1> HIDE DEF q
<1>5. h \in ToSet(q)
  <2>1. h = q[1] /\ 1 \in DOMAIN q
    BY <1>2, <1>3, <1>4
  <2> QED BY <2>1 DEF ToSet
<1>6. PICK j \in DOMAIN waiting : waiting[j] = h
  BY <1>4, <1>5 DEF ToSet
<1>7. k \in Needs(h) /\ h \in nb /\ r \in nb
  BY <1>2, <1>4, <1>5 DEF HoldersOf
<1>8. j # i
  BY <1>3, <1>6
<1>9. ~(i < j)
  <2> SUFFICES ASSUME i < j PROVE FALSE
    OBVIOUS
  <2>1. Before(waiting, r, h)
    BY <1>6 DEF Before
  <2> HIDE DEF h, nb, r
  <2>2. Before(q, r, h)
    BY <1>1, <1>7, <2>1, OnlyBefore DEF q
  <2> QED BY <1>4, <2>2, HeadIsFirst DEF h
<1> QED BY <1>1, <1>6, <1>7, <1>8, <1>9

\* The invariant holds of every behaviour.
LEMMA SpecIInv == Spec => []IInv
BY InitIInv, NextIInv, PTL DEF Spec

\* The gates keep their shape, and the queues and the holders are callers of acquireMany.
THEOREM TypeCorrect == Spec => []TypeOK
<1>1. IInv => TypeOK
  BY InvFacts DEF IInv, TypeOK
<1> QED BY <1>1, SpecIInv, PTL

\* Whatever times out, is aborted, reset or drained, the queue of every gate is the
\* part of the one global queue that needs the gate.
THEOREM QueuesStayInStep == Spec => []QueuesAgree
<1>1. IInv => QueuesAgree
  BY InvFacts
<1> QED BY <1>1, SpecIInv, PTL

\* A gate counts its holders, and where reset() left holders without a slot, no more.
THEOREM SlotsStayCounted == Spec => []SlotsAreCounted
<1>1. IInv => SlotsAreCounted
  BY InvFacts DEF IInv, Consistent, Counts, RunningAt, SlotsAreCounted, Open
<1> QED BY <1>1, SpecIInv, PTL

\* The loop of drainQueues leaves nobody behind that could go.
THEOREM NoWakeupIsLost == Spec => []NoLostWakeup
<1>1. IInv => NoLostWakeup
  BY DEF IInv
<1> QED BY <1>1, SpecIInv, PTL

\* Waiting for several gates at once never ends in a circle: whoever does not fit has a
\* gate that is blocked, held or full (then a holder fills it, as no count is too high),
\* or whose queue is headed by an earlier caller.
THEOREM WaitingHasACause == Spec => []NobodyWaitsInCircles
<1>1. ASSUME IInv, NEW i \in DOMAIN waiting
      PROVE  \E k \in Needs(waiting[i]) :
               \/ k \in slack
               \/ Open(k) /\ gates[k].blocked
               \/ HoldersOf(k, holders) # {}
               \/ \E j \in 1..i - 1 : k \in Needs(waiting[j])
  <2> DEFINE r == waiting[i]
  <2>1. r \in ToSet(waiting) /\ waiting \in Seq(Requests) /\ IsInjective(waiting)
    BY <1>1, InvFacts DEF ToSet
  <2> HIDE DEF r
  <2>2. CASE CanAcquire(Now, r)
    BY <1>1, <2>1, <2>2 DEF IInv, NoLostWakeup, r
  <2>3. CASE ~CanAcquire(Now, r)
    <3>1. \A k \in Needs(r) : gates[k] \in Gate /\ Open(k) /\ gates[k].queue # <<>>
      BY <1>1, <2>1, WaiterIsQueued
    <3>2. PICK k \in Needs(r) : \/ gates[k].blocked
                               \/ ~(gates[k].running < gates[k].max)
                               \/ Head(gates[k].queue) # r
      BY <2>3, <3>1 DEF CanAcquire, Now, Open
    <3>3. CASE gates[k].blocked
      BY <3>1, <3>3 DEF r
    <3>4. CASE ~(gates[k].running < gates[k].max)
      <4>1. k \in Keys
        BY <1>1, <2>1, WaiterIsQueued
      <4>2. /\ gates[k].running \in Nat /\ gates[k].max \in Nat \ {0}
            /\ gates[k].running <= Cardinality(HoldersOf(k, holders))
        BY <1>1, <3>1, <3>4, <4>1, GateFields, NowFields
        DEF IInv, Consistent, Counts, RunningAt, Open
      <4>3. HoldersOf(k, holders) # {}
        <5> SUFFICES ASSUME HoldersOf(k, holders) = {} PROVE FALSE
          OBVIOUS
        <5>1. Cardinality(HoldersOf(k, holders)) = 0
          BY FS_EmptySet
        <5> QED BY <3>4, <4>2, <5>1
      <4> QED BY <4>3 DEF r
    <3>5. CASE Head(gates[k].queue) # r
      <4>1. PICK j \in DOMAIN waiting : j < i /\ k \in Needs(waiting[j])
        BY <1>1, <2>1, <3>5, AheadIsEarlier DEF r
      <4> QED BY <1>1, <2>1, <4>1 DEF r
    <3> QED BY <3>2, <3>3, <3>4, <3>5
  <2> QED BY <2>2, <2>3
<1>2. IInv => NobodyWaitsInCircles
  BY <1>1, Zenon DEF NobodyWaitsInCircles
<1> QED BY <1>2, SpecIInv, PTL

\* Every step, a drain that admits several callers included, admits a caller only with
\* room in each of its gates.
THEOREM AdmissionHasRoom == Spec => AdmitsWithRoom
<1>1. ASSUME IInv, [Next]_vars
      PROVE  [\A r \in holders' \ holders : \A k \in Needs(r) :
                /\ Open(k)'
                /\ ~gates'[k].blocked
                /\ k \notin forgot'
                     => Cardinality(HoldersOf(k, holders')) <= gates'[k].max]_vars
  BY <1>1, NextIInv DEF AdmittedHaveRoom
<1> QED BY <1>1, SpecIInv, PTL DEF Spec, AdmitsWithRoom

\* Admission is first come, first served among the callers that share a gate.
THEOREM QueueOrderIsKept == Spec => NobodyOvertakes
<1>1. ASSUME IInv, [Next]_vars
      PROVE  [\A r \in holders' \ holders : \A i \in DOMAIN waiting :
                /\ waiting[i] # r
                /\ Needs(waiting[i]) \cap Needs(r) # {}
                /\ \A j \in 1..i : waiting[j] # r
                => \A j \in DOMAIN waiting' : waiting'[j] # waiting[i]]_vars
  BY <1>1, NextIInv DEF EarlierAreGone
<1> QED BY <1>1, SpecIInv, PTL DEF Spec, NobodyOvertakes
=============================================================================
