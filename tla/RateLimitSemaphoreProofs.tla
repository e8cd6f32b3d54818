---------------------- MODULE RateLimitSemaphoreProofs ----------------------
(***************************************************************************)
(* What holds of the rate-limit gate for any number of callers, limits and *)
(* pending timers.  The inductive invariant is IInv: the properties the    *)
(* runs check, and that a gate on cooldown has a timer pending, on which   *)
(* NoStrandedWaiter and the bound of the orphans depend.                   *)
(***************************************************************************)
EXTENDS RateLimitSemaphore, FiniteSetTheorems, SequenceTheorems, TLAPS

\* Gate g agrees with the waiters ws, the holders hs and the n orphans.
Sound(g, ws, hs, n) ==
  /\ g \in Gate
  /\ IsInjective(g.queue)
  /\ g.limited => g.timers > 0
  /\ n + g.timers <= MaxTimers
  /\ ws = ToSet(g.queue)
  /\ Cardinality(hs) = g.running

Callings(ws, hs) ==
  /\ ws \subseteq Callers
  /\ hs \subseteq Callers \ ws
  /\ IsFiniteSet(hs)

IInv ==
  /\ Callings(waiters, holders)
  /\ told \subseteq holders
  /\ cooling \in BOOLEAN
  /\ orphans \in Nat
  /\ gate = NoGate => waiters = {} /\ holders = {} /\ orphans <= MaxTimers
  /\ gate # NoGate => Sound(gate, waiters, holders, orphans)
  /\ NoStrandedWaiter

-----------------------------------------------------------------------------
(* Queues. *)

\* A gate has its fields in their ranges.
LEMMA GateFields ==
  ASSUME NEW g \in Gate
  PROVE  /\ g.running \in Nat
         /\ g.max \in Nat \ {0}
         /\ g.queue \in Seq(Callers)
         /\ g.limited \in BOOLEAN
         /\ g.timers \in Nat
BY DEF Gate

\* The callers in a queue are as many as it is long.
LEMMA QueueCardinality ==
  ASSUME NEW q \in Seq(Callers), IsInjective(q)
  PROVE  /\ ToSet(q) \subseteq Callers
         /\ IsFiniteSet(ToSet(q))
         /\ Cardinality(ToSet(q)) = Len(q)
<1>1. q \in [1..Len(q) -> Callers] /\ Len(q) \in Nat /\ DOMAIN q = 1..Len(q)
  BY LenProperties
<1>2. q \in Bijection(1..Len(q), ToSet(q))
  BY <1>1 DEF Bijection, Injection, Surjection, ToSet, IsInjective
<1>3. ExistsBijection(1..Len(q), ToSet(q))
  BY <1>2 DEF ExistsBijection
<1>4. IsFiniteSet(ToSet(q)) /\ Cardinality(ToSet(q)) = Len(q)
  BY <1>1, <1>3, FS_NatBijection, FS_CountingElements
<1> QED
  BY <1>1, <1>4 DEF ToSet

\* Admitting the first n of a queue splits its callers.
LEMMA QueueSplit ==
  ASSUME NEW q \in Seq(Callers), IsInjective(q), NEW n \in 0..Len(q)
  PROVE  LET front == SubSeq(q, 1, n)
             back  == SubSeq(q, n + 1, Len(q))
         IN  /\ front \in Seq(Callers) /\ IsInjective(front) /\ Len(front) = n
             /\ back \in Seq(Callers) /\ IsInjective(back) /\ Len(back) = Len(q) - n
             /\ ToSet(back) = ToSet(q) \ ToSet(front)
             /\ ToSet(front) \subseteq ToSet(q)
<1> DEFINE front == SubSeq(q, 1, n)
           back  == SubSeq(q, n + 1, Len(q))
<1>1. Len(q) \in Nat /\ DOMAIN q = 1..Len(q) /\ \A i \in 1..Len(q) : q[i] \in Callers
  BY LenProperties, ElementOfSeq
<1>0. n \in Nat /\ Len(q) \in Nat /\ n <= Len(q)
  BY <1>1
<1>2. /\ front \in Seq(Callers) /\ Len(front) = n
      /\ \A i \in 1..n : front[i] = q[i]
  <2>1. \A i \in 1..n : q[i] \in Callers
    BY <1>1
  <2>2. /\ SubSeq(q, 1, n) \in Seq(Callers)
        /\ Len(SubSeq(q, 1, n)) = IF 1 <= n THEN n - 1 + 1 ELSE 0
        /\ \A i \in 1 .. n - 1 + 1 : SubSeq(q, 1, n)[i] = q[1 + i - 1]
    BY <2>1, SubSeqProperties, <1>1
  <2> QED
    BY <2>2, <1>1
<1>3. /\ back \in Seq(Callers) /\ Len(back) = Len(q) - n
      /\ \A i \in 1..(Len(q) - n) : back[i] = q[n + i]
  <2>1. \A i \in (n + 1)..Len(q) : q[i] \in Callers
    BY <1>1
  <2>2. n + 1 \in Int /\ Len(q) \in Int
    BY <1>1
  <2>3. /\ SubSeq(q, n + 1, Len(q)) \in Seq(Callers)
        /\ Len(SubSeq(q, n + 1, Len(q))) = IF n + 1 <= Len(q) THEN Len(q) - (n + 1) + 1 ELSE 0
        /\ \A i \in 1 .. Len(q) - (n + 1) + 1 : SubSeq(q, n + 1, Len(q))[i] = q[(n + 1) + i - 1]
    BY <2>1, <2>2, SubSeqProperties
  <2>4. Len(q) - (n + 1) + 1 = Len(q) - n /\ \A i \in 1..(Len(q) - n) : (n + 1) + i - 1 = n + i
    BY <1>1
  <2>5. (IF n + 1 <= Len(q) THEN Len(q) - (n + 1) + 1 ELSE 0) = Len(q) - n
    <3>1. CASE n + 1 <= Len(q)
      BY <3>1, <2>4
    <3>2. CASE ~(n + 1 <= Len(q))
      <4>1. n = Len(q)
        BY <3>2, <1>0
      <4> QED
        BY <3>2, <4>1, <1>0
    <3> QED
      BY <3>1, <3>2
  <2> QED
    BY <2>3, <2>4, <2>5
<1> HIDE DEF front, back
<1>4. DOMAIN front = 1..n /\ DOMAIN back = 1..(Len(q) - n)
  BY <1>2, <1>3, LenProperties
<1>5. IsInjective(front) /\ IsInjective(back)
  <2>1. \A i, j \in 1..n : front[i] = front[j] => i = j
    <3>1. \A i \in 1..n : i \in 1..Len(q)
      BY <1>1
    <3> QED
      BY <3>1, <1>1, <1>2 DEF IsInjective
  <2>2. \A i, j \in 1..(Len(q) - n) : back[i] = back[j] => i = j
    <3>1. \A i \in 1..(Len(q) - n) : n + i \in 1..Len(q)
      BY <1>1
    <3>2. \A i, j \in 1..(Len(q) - n) : n + i = n + j => i = j
      BY <1>1
    <3> QED
      BY <3>1, <3>2, <1>1, <1>3 DEF IsInjective
  <2> QED
    BY <2>1, <2>2, <1>4 DEF IsInjective
<1>6. ToSet(front) \subseteq ToSet(q)
  BY <1>1, <1>2, <1>4 DEF ToSet
<1>7. ToSet(back) = ToSet(q) \ ToSet(front)
  <2>0. /\ ToSet(q) = {q[i] : i \in 1..Len(q)}
        /\ ToSet(front) = {front[i] : i \in 1..n}
        /\ ToSet(back) = {back[i] : i \in 1..(Len(q) - n)}
    BY <1>1, <1>4 DEF ToSet
  <2>1. ASSUME NEW x \in ToSet(back)
        PROVE  x \in ToSet(q) \ ToSet(front)
    <3>1. PICK i \in 1..(Len(q) - n) : x = q[n + i]
      BY <2>0, <2>1, <1>3
    <3>2. n + i \in 1..Len(q)
      BY <1>1
    <3>3. \A j \in 1..n : front[j] # x
      <4> TAKE j \in 1..n
      <4>1. j \in 1..Len(q) /\ j # n + i
        BY <1>1
      <4> QED
        BY <3>1, <3>2, <4>1, <1>1, <1>2 DEF IsInjective
    <3> QED
      BY <3>1, <3>2, <3>3, <2>0
  <2>2. ASSUME NEW x \in ToSet(q) \ ToSet(front)
        PROVE  x \in ToSet(back)
    <3>1. PICK i \in 1..Len(q) : x = q[i]
      BY <2>0, <2>2
    <3>2. i > n
      BY <2>0, <2>2, <3>1, <1>1, <1>2
    <3>3. i - n \in 1..(Len(q) - n) /\ back[i - n] = q[i]
      BY <3>2, <1>1, <1>3
    <3> QED
      BY <3>1, <3>3, <2>0
  <2> QED
    BY <2>1, <2>2
<1> QED
  BY <1>2, <1>3, <1>5, <1>6, <1>7 DEF front, back

\* A newcomer goes behind the others.
LEMMA QueueAppend ==
  ASSUME NEW q \in Seq(Callers), IsInjective(q), NEW r \in Callers, r \notin ToSet(q)
  PROVE  /\ Append(q, r) \in Seq(Callers)
         /\ IsInjective(Append(q, r))
         /\ ToSet(Append(q, r)) = ToSet(q) \cup {r}
<1> DEFINE s == Append(q, r)
<1>1. Len(q) \in Nat /\ DOMAIN q = 1..Len(q)
  BY LenProperties
<1>2. /\ s \in Seq(Callers) /\ Len(s) = Len(q) + 1
      /\ \A i \in 1..Len(q) : s[i] = q[i]
      /\ s[Len(q) + 1] = r
  BY AppendProperties
<1> HIDE DEF s
<1>3. DOMAIN s = 1..(Len(q) + 1)
  BY <1>2, LenProperties
<1>4. 1..(Len(q) + 1) = 1..Len(q) \cup {Len(q) + 1}
  BY <1>1
<1>5. \A i \in 1..Len(q) : q[i] # r
  BY <1>1 DEF ToSet
<1>6. IsInjective(s)
  BY <1>1, <1>2, <1>3, <1>4, <1>5 DEF IsInjective
<1>7. ToSet(s) = ToSet(q) \cup {r}
  <2>1. ToSet(s) = {s[i] : i \in 1..Len(q)} \cup {s[Len(q) + 1]}
    BY <1>3, <1>4 DEF ToSet
  <2> QED
    BY <2>1, <1>1, <1>2 DEF ToSet
<1> QED
  BY <1>2, <1>6, <1>7 DEF s

\* Taking one item out keeps the others in their order.
LEMMA QueueWithout ==
  ASSUME NEW q \in Seq(Callers), IsInjective(q), NEW r
  PROVE  /\ Without(q, r) \in Seq(Callers)
         /\ IsInjective(Without(q, r))
         /\ ToSet(Without(q, r)) = ToSet(q) \ {r}
<1>1. Len(q) \in Nat /\ DOMAIN q = 1..Len(q) /\ \A i \in 1..Len(q) : q[i] \in Callers
  BY LenProperties, ElementOfSeq
<1>2. CASE ~\E i \in DOMAIN q : q[i] = r
  BY <1>2 DEF Without, ToSet
<1>3. CASE \E i \in DOMAIN q : q[i] = r
  <2> DEFINE k == CHOOSE i \in DOMAIN q : q[i] = r
             front == SubSeq(q, 1, k - 1)
             back == SubSeq(q, k + 1, Len(q))
  <2>1. k \in 1..Len(q) /\ q[k] = r
    BY <1>1, <1>3
  <2>2. Without(q, r) = front \o back
    BY <1>3 DEF Without, RemoveAt
  <2> HIDE DEF k
  <2>3. k - 1 \in 0..Len(q) /\ k \in 0..Len(q) /\ k \in Nat
    BY <1>1, <2>1
  <2>4. front \in Seq(Callers) /\ Len(front) = k - 1 /\ \A i \in 1..(k - 1) : front[i] = q[i]
    <3>1. \A i \in 1..(k - 1) : q[i] \in Callers
      BY <1>1, <2>1
    <3>2. /\ front \in Seq(Callers)
          /\ \A i \in 1..((k - 1) - 1 + 1) : front[i] = q[1 + i - 1]
      BY <3>1, <2>3, SubSeqProperties
    <3>3. Len(front) = k - 1
      BY <2>3, QueueSplit
    <3> QED
      BY <3>2, <3>3, <2>3
  <2>5. back \in Seq(Callers) /\ Len(back) = Len(q) - k
        /\ \A i \in 1..(Len(q) - k) : back[i] = q[k + i]
    <3>1. \A i \in (k + 1)..Len(q) : q[i] \in Callers
      BY <1>1, <2>1
    <3>2. k + 1 \in Int /\ Len(q) \in Int
      BY <1>1, <2>3
    <3>3. /\ back \in Seq(Callers)
          /\ \A i \in 1..(Len(q) - (k + 1) + 1) : back[i] = q[(k + 1) + i - 1]
      BY <3>1, <3>2, SubSeqProperties
    <3>4. Len(back) = Len(q) - k
      BY <2>3, QueueSplit
    <3>5. Len(q) - (k + 1) + 1 = Len(q) - k /\ \A i \in 1..(Len(q) - k) : (k + 1) + i - 1 = k + i
      BY <1>1, <2>3
    <3> QED
      BY <3>3, <3>4, <3>5
  <2> DEFINE s == front \o back
  <2>6. /\ s \in Seq(Callers) /\ Len(s) = Len(q) - 1
        /\ \A i \in 1..(Len(q) - 1) : s[i] = IF i < k THEN q[i] ELSE q[i + 1]
    <3>1. /\ s \in Seq(Callers) /\ Len(s) = Len(front) + Len(back)
          /\ \A i \in 1 .. Len(front) + Len(back) :
               s[i] = IF i <= Len(front) THEN front[i] ELSE back[i - Len(front)]
      BY <2>4, <2>5, ConcatProperties
    <3> HIDE DEF s, front, back
    <3>2. Len(front) + Len(back) = Len(q) - 1
      BY <1>1, <2>3, <2>4, <2>5
    <3>3. ASSUME NEW i \in 1..(Len(q) - 1)
          PROVE  s[i] = IF i < k THEN q[i] ELSE q[i + 1]
      <4>1. CASE i < k
        <5>1. i \in 1..(k - 1) /\ i <= Len(front)
          BY <4>1, <2>3, <2>4
        <5> QED
          BY <4>1, <5>1, <3>1, <3>2, <2>4
      <4>2. CASE ~(i < k)
        <5>1. ~(i <= Len(front)) /\ i - Len(front) \in 1..(Len(q) - k) /\ k + (i - Len(front)) = i + 1
          BY <4>2, <1>1, <2>3, <2>4
        <5> QED
          BY <4>2, <5>1, <3>1, <3>2, <2>5
      <4> QED
        BY <4>1, <4>2
    <3> QED
      BY <3>1, <3>2, <3>3
  <2> HIDE DEF s, front, back
  <2>7. DOMAIN s = 1..(Len(q) - 1)
    BY <2>6, LenProperties
  <2> DEFINE f(i) == IF i < k THEN i ELSE i + 1
  <2>8. /\ \A i \in 1..(Len(q) - 1) : f(i) \in 1..Len(q) /\ f(i) # k /\ s[i] = q[f(i)]
        /\ \A i, j \in 1..(Len(q) - 1) : f(i) = f(j) => i = j
    BY <1>1, <2>1, <2>3, <2>6
  <2>9. \A j \in 1..Len(q) : j # k => \E i \in 1..(Len(q) - 1) : f(i) = j
    <3> SUFFICES ASSUME NEW j \in 1..Len(q), j # k
                 PROVE  \E i \in 1..(Len(q) - 1) : f(i) = j
      OBVIOUS
    <3>1. CASE j < k
      BY <3>1, <1>1, <2>1
    <3>2. CASE ~(j < k)
      <4>1. j - 1 \in 1..(Len(q) - 1) /\ ~(j - 1 < k)
        BY <3>2, <1>1, <2>1
      <4>2. f(j - 1) = j
        BY <4>1, <1>1
      <4> QED
        BY <4>1, <4>2
    <3> QED
      BY <3>1, <3>2
  <2> HIDE DEF f
  <2>10. IsInjective(s)
    BY <1>1, <2>7, <2>8 DEF IsInjective
  <2>11. ToSet(s) = ToSet(q) \ {r}
    <3>1. ASSUME NEW i \in 1..(Len(q) - 1)
          PROVE  s[i] \in ToSet(q) \ {r}
      BY <1>1, <2>1, <2>8 DEF ToSet, IsInjective
    <3>2. ASSUME NEW j \in 1..Len(q), q[j] # r
          PROVE  q[j] \in ToSet(s)
      <4>1. j # k
        BY <3>2, <2>1
      <4>2. PICK i \in 1..(Len(q) - 1) : f(i) = j
        BY <4>1, <2>9
      <4>3. s[i] = q[j]
        BY <4>2, <2>8
      <4> QED
        BY <4>3, <2>7 DEF ToSet
    <3> QED
      BY <3>1, <3>2, <1>1, <2>7 DEF ToSet
  <2> QED
    BY <2>2, <2>6, <2>10, <2>11 DEF s
<1> QED
  BY <1>2, <1>3

-----------------------------------------------------------------------------
(* The operators of the gate. *)

\* The smaller of two numbers.
LEMMA MinOfTwo ==
  ASSUME NEW i \in Nat, NEW j \in Nat
  PROVE  Min({i, j}) = IF i <= j THEN i ELSE j
<1>1. \A x \in {i, j} : (\A y \in {i, j} : x <= y) => x = IF i <= j THEN i ELSE j
  OBVIOUS
<1>2. \E x \in {i, j} : \A y \in {i, j} : x <= y
  OBVIOUS
<1> QED
  BY <1>1, <1>2 DEF Min

\* drainQueue admits what fits, and leaves callers only if nothing fits.
LEMMA RoomFacts ==
  ASSUME NEW g \in Gate, cooling \in BOOLEAN
  PROVE  /\ Room(g) \in 0..Len(g.queue)
         /\ Room(g) > 0 => ~IsRateLimited(g) /\ g.running < g.max /\ g.running + Room(g) <= g.max
         /\ Room(g) < Len(g.queue) => IsRateLimited(g) \/ g.running + Room(g) >= g.max
<1>1. g.running \in Nat /\ g.max \in Nat /\ Len(g.queue) \in Nat
  BY GateFields, LenProperties
<1>2. CASE IsRateLimited(g) \/ g.running >= g.max
  <2>1. Room(g) = 0
    BY <1>2 DEF Room
  <2> QED
    BY <1>1, <1>2, <2>1
<1>3. CASE ~(IsRateLimited(g) \/ g.running >= g.max)
  <2>1. g.max - g.running \in Nat /\ g.running < g.max
    BY <1>1, <1>3
  <2>2. Room(g) = IF g.max - g.running <= Len(g.queue) THEN g.max - g.running ELSE Len(g.queue)
    BY <1>1, <1>3, <2>1, MinOfTwo DEF Room
  <2> QED
    BY <1>1, <1>3, <2>1, <2>2
<1> QED
  BY <1>2, <1>3

\* Dropping an idle gate loses nobody, and leaves at most one timer behind.
LEMMA KeepsFacts ==
  ASSUME NEW g, NEW ws, NEW hs, NEW n \in Nat,
         Sound(g, ws, hs, n), IsFiniteSet(hs), Keeps(g, n)
  PROVE  /\ orphans' \in Nat
         /\ gate' = NoGate => ws = {} /\ hs = {} /\ orphans' <= MaxTimers
         /\ gate' # NoGate => gate' = g /\ Sound(gate', ws, hs, orphans')
<1>1. /\ g \in Gate /\ g # NoGate /\ g.timers \in Nat
      /\ g.limited => g.timers > 0
      /\ n + g.timers <= MaxTimers
      /\ ws = ToSet(g.queue)
      /\ Cardinality(hs) = g.running
  BY NoGateIsNone, GateFields DEF Sound
<1>2. CASE Idle(g)
  <2>1. ws = {}
    BY <1>1, <1>2 DEF Idle, ToSet
  <2>2. hs = {}
    BY <1>1, <1>2, FS_EmptySet DEF Idle
  <2>3. gate' = NoGate /\ orphans' = IF g.limited THEN n + 1 ELSE n
    BY <1>2 DEF Keeps
  <2>4. orphans' \in Nat /\ orphans' <= MaxTimers
    BY <2>3, <1>1, BoundsType
  <2> QED
    BY <2>1, <2>2, <2>3, <2>4
<1>3. CASE ~Idle(g)
  <2>1. gate' = g /\ orphans' = n
    BY <1>3 DEF Keeps
  <2> QED
    BY <2>1, <1>1
<1> QED
  BY <1>2, <1>3

\* drainQueue keeps the gate sound, strands nobody, and admits only with room.
LEMMA DrainsFacts ==
  ASSUME NEW g, NEW hs, NEW m \in Nat, cooling \in BOOLEAN,
         Sound(g, waiters, hs, m), Callings(waiters, hs), Drains(g, hs, m)
  PROVE  /\ Callings(waiters', holders') /\ hs \subseteq holders'
         /\ orphans' \in Nat
         /\ gate' = NoGate => waiters' = {} /\ holders' = {} /\ orphans' <= MaxTimers
         /\ gate' # NoGate => Sound(gate', waiters', holders', orphans')
         /\ waiters' # {} => holders' # {} \/ (gate'.limited /\ gate'.timers > 0)
         /\ holders' # hs => /\ Cardinality(holders') <= gate'.max
                            /\ ~gate'.limited
<1> DEFINE n == Room(g)
           seen == IF g.queue # <<>> /\ g.running < g.max THEN Looked(g) ELSE g
           front == SubSeq(g.queue, 1, n)
           back == SubSeq(g.queue, n + 1, Len(g.queue))
           admitted == ToSet(front)
           h == [seen EXCEPT !.running = @ + n, !.queue = SubSeq(@, n + 1, Len(@))]
<1>1. /\ g \in Gate /\ IsInjective(g.queue)
      /\ g.limited => g.timers > 0
      /\ m + g.timers <= MaxTimers
      /\ waiters = ToSet(g.queue)
      /\ Cardinality(hs) = g.running
  BY DEF Sound
<1>2. /\ g.running \in Nat /\ g.max \in Nat \ {0} /\ g.queue \in Seq(Callers)
      /\ g.limited \in BOOLEAN /\ g.timers \in Nat /\ Len(g.queue) \in Nat
  BY <1>1, GateFields, LenProperties
<1>3. Keeps(h, m) /\ holders' = hs \cup admitted /\ waiters' = waiters \ admitted
  BY DEF Drains
<1>4. /\ n \in 0..Len(g.queue)
      /\ n > 0 => ~IsRateLimited(g) /\ g.running < g.max /\ g.running + n <= g.max
      /\ n < Len(g.queue) => IsRateLimited(g) \/ g.running + n >= g.max
  BY <1>1, RoomFacts
<1>5. \E l \in BOOLEAN :
        /\ seen = [running |-> g.running, max |-> g.max, queue |-> g.queue, limited |-> l,
                   timers |-> g.timers]
        /\ l => g.limited
        /\ n > 0 => ~l
        /\ IsRateLimited(g) => l
  <2>1. CASE g.queue # <<>> /\ g.running < g.max
    <3>1. seen = [running |-> g.running, max |-> g.max, queue |-> g.queue,
                  limited |-> IsRateLimited(g), timers |-> g.timers]
      BY <2>1, <1>1 DEF Looked, Gate
    <3>2. IsRateLimited(g) \in BOOLEAN
      BY <1>2 DEF IsRateLimited
    <3> QED
      BY <3>1, <3>2, <1>4 DEF IsRateLimited
  <2>2. CASE ~(g.queue # <<>> /\ g.running < g.max)
    <3>1. seen = [running |-> g.running, max |-> g.max, queue |-> g.queue,
                  limited |-> g.limited, timers |-> g.timers]
      BY <2>2, <1>1 DEF Gate
    <3>2. n = 0
      BY <2>2, <1>2, <1>4, LenProperties
    <3> QED
      BY <3>1, <3>2, <1>2 DEF IsRateLimited
  <2> QED
    BY <2>1, <2>2
<1>6. PICK l \in BOOLEAN :
        /\ h = [running |-> g.running + n, max |-> g.max, queue |-> back, limited |-> l,
                timers |-> g.timers]
        /\ l => g.limited
        /\ n > 0 => ~l
        /\ IsRateLimited(g) => l
  <2>1. PICK l \in BOOLEAN :
          /\ seen = [running |-> g.running, max |-> g.max, queue |-> g.queue, limited |-> l,
                     timers |-> g.timers]
          /\ l => g.limited
          /\ n > 0 => ~l
          /\ IsRateLimited(g) => l
    BY <1>5
  <2> HIDE DEF seen, n
  <2>2. h = [running |-> g.running + n, max |-> g.max, queue |-> back, limited |-> l,
             timers |-> g.timers]
    <3> DEFINE first == [running |-> g.running + n, max |-> g.max, queue |-> g.queue, limited |-> l,
                         timers |-> g.timers]
    <3>1. [seen EXCEPT !.running = @ + n] = first
      BY <2>1
    <3>2. h = [first EXCEPT !.queue = SubSeq(@, n + 1, Len(@))]
      BY <3>1
    <3> HIDE DEF h
    <3> QED
      BY <3>2
  <2> HIDE DEF h, back
  <2> QED
    BY <2>1, <2>2
<1>7. /\ front \in Seq(Callers) /\ IsInjective(front) /\ Len(front) = n
      /\ back \in Seq(Callers) /\ IsInjective(back) /\ Len(back) = Len(g.queue) - n
      /\ ToSet(back) = ToSet(g.queue) \ ToSet(front)
      /\ ToSet(front) \subseteq ToSet(g.queue)
  BY <1>1, <1>2, <1>4, QueueSplit
<1>8. /\ admitted \subseteq waiters /\ IsFiniteSet(admitted) /\ Cardinality(admitted) = n
      /\ waiters' = ToSet(back)
  BY <1>1, <1>3, <1>7, QueueCardinality
<1> HIDE DEF n, seen, front, back, admitted, h
<1>9. Callings(waiters', holders') /\ Cardinality(holders') = g.running + n
  <2>1. hs \cap admitted = {}
    BY <1>8 DEF Callings
  <2>2. IsFiniteSet(hs) /\ IsFiniteSet(admitted)
    BY <1>8 DEF Callings
  <2>3. /\ IsFiniteSet(hs \cup admitted)
        /\ Cardinality(hs \cup admitted)
             = Cardinality(hs) + Cardinality(admitted) - Cardinality(hs \cap admitted)
    BY <2>2, FS_Union
  <2>4. IsFiniteSet(holders') /\ Cardinality(holders') = g.running + n
    <3>1. Cardinality(hs \cap admitted) = 0
      BY <2>1, FS_EmptySet
    <3>2. Cardinality(hs \cup admitted) = g.running + n
      BY <1>1, <1>2, <1>4, <1>8, <2>3, <3>1
    <3> QED
      BY <1>3, <2>3, <3>2
  <2> QED
    BY <2>4, <1>1, <1>3, <1>8 DEF Callings
<1>10. h \in Gate
  BY <1>2, <1>4, <1>6, <1>7 DEF Gate
<1>11. Sound(h, waiters', holders', m)
  BY <1>1, <1>6, <1>7, <1>8, <1>9, <1>10 DEF Sound
<1>12. /\ orphans' \in Nat
       /\ gate' = NoGate => waiters' = {} /\ holders' = {} /\ orphans' <= MaxTimers
       /\ gate' # NoGate => gate' = h /\ Sound(gate', waiters', holders', orphans')
  BY <1>3, <1>9, <1>11, KeepsFacts DEF Callings
<1>13. ASSUME waiters' # {}
       PROVE  holders' # {} \/ (gate'.limited /\ gate'.timers > 0)
  <2>1. gate' = h
    BY <1>12, <1>13
  <2>2. n < Len(g.queue)
    <3>1. back # <<>>
      BY <1>13, <1>8 DEF ToSet
    <3> QED
      BY <3>1, <1>2, <1>4, <1>7, EmptySeq
  <2>3. CASE IsRateLimited(g)
    BY <2>1, <2>3, <1>1, <1>6
  <2>4. CASE g.running + n >= g.max
    <3>1. Cardinality(holders') # 0
      BY <2>4, <1>2, <1>4, <1>9
    <3> QED
      BY <3>1, FS_EmptySet
  <2> QED
    BY <2>2, <2>3, <2>4, <1>4
<1>14. ASSUME holders' # hs
       PROVE  Cardinality(holders') <= gate'.max /\ ~gate'.limited
  <2>1. n > 0
    <3>1. admitted # {}
      BY <1>14, <1>3
    <3> QED
      BY <3>1, <1>4, <1>8, <1>2, FS_EmptySet
  <2>2. gate' = h
    <3>1. Cardinality(holders') # 0
      BY <1>9, <1>2, <1>4, <2>1
    <3>2. holders' # {}
      BY <3>1, FS_EmptySet
    <3> QED
      BY <3>2, <1>12
  <2> QED
    BY <2>1, <2>2, <1>4, <1>6, <1>9
<1> QED
  BY <1>3, <1>9, <1>12, <1>13, <1>14

\* getGate makes no waiter, holder or timer disappear.
LEMMA GateForFacts ==
  ASSUME IInv, NEW limit \in Nat \ {0}
  PROVE  /\ Sound(GateFor(limit), waiters, holders, orphans)
         /\ GateFor(limit).max = limit
         /\ waiters # {} => holders # {} \/ (GateFor(limit).limited /\ GateFor(limit).timers > 0)
<1>1. CASE gate = NoGate
  <2> DEFINE g == [running |-> 0, max |-> limit, queue |-> <<>>, limited |-> FALSE, timers |-> 0]
  <2>1. GateFor(limit) = g
    BY <1>1 DEF GateFor
  <2>2. waiters = {} /\ holders = {} /\ orphans <= MaxTimers /\ orphans \in Nat
    BY <1>1 DEF IInv
  <2>3. g \in Gate
    BY DEF Gate
  <2>4. ToSet(<<>>) = {} /\ IsInjective(<<>>)
    BY DEF ToSet, IsInjective
  <2>5. Cardinality(holders) = 0
    BY <2>2, FS_EmptySet
  <2> QED
    BY <2>1, <2>2, <2>3, <2>4, <2>5, BoundsType DEF Sound
<1>2. CASE gate # NoGate
  <2>1. Sound(gate, waiters, holders, orphans)
    BY <1>2 DEF IInv
  <2>2. gate \in Gate
    BY <2>1 DEF Sound
  <2>3. GateFor(limit) = [running |-> gate.running, max |-> limit, queue |-> gate.queue,
                          limited |-> gate.limited, timers |-> gate.timers]
    BY <1>2, <2>2 DEF GateFor, Gate
  <2>4. GateFor(limit) \in Gate
    BY <2>2, <2>3, GateFields DEF Gate
  <2> QED
    BY <2>1, <2>3, <2>4 DEF Sound, IInv, NoStrandedWaiter
<1> QED
  BY <1>1, <1>2

\* With room, a newcomer finds the cooldown over.
LEMMA LookedFacts ==
  ASSUME NEW g, NEW ws, NEW hs, NEW n \in Nat, Sound(g, ws, hs, n), cooling \in BOOLEAN
  PROVE  /\ Sound(Looked(g), ws, hs, n)
         /\ Looked(g).limited = IsRateLimited(g)
         /\ Looked(g).running = g.running /\ Looked(g).max = g.max
         /\ Looked(g).queue = g.queue /\ Looked(g).timers = g.timers
<1>1. g \in Gate
  BY DEF Sound
<1>2. Looked(g) = [running |-> g.running, max |-> g.max, queue |-> g.queue,
                   limited |-> IsRateLimited(g), timers |-> g.timers]
  BY <1>1 DEF Looked, Gate
<1>3. IsRateLimited(g) \in BOOLEAN /\ (IsRateLimited(g) => g.limited)
  BY <1>1, GateFields DEF IsRateLimited
<1>4. Looked(g) \in Gate
  BY <1>1, <1>2, <1>3, GateFields DEF Gate
<1> QED
  BY <1>2, <1>3, <1>4 DEF Sound

-----------------------------------------------------------------------------
(* The actions.  What a step must show of the rest of IInv. *)

\* The invariant, when the gate is kept.
LEMMA KeptGate ==
  ASSUME Callings(waiters', holders'), told' \subseteq holders', cooling' \in BOOLEAN,
         orphans' \in Nat, Sound(gate', waiters', holders', orphans'),
         waiters' # {} => holders' # {} \/ (gate'.limited /\ gate'.timers > 0)
  PROVE  IInv'
<1>1. gate' # NoGate
  BY NoGateIsNone DEF Sound
<1> QED
  BY <1>1 DEF IInv, NoStrandedWaiter, Callings, Sound

\* The invariant, after drainQueue or a drop.
LEMMA KeptOrDropped ==
  ASSUME Callings(waiters', holders'), told' \subseteq holders', cooling' \in BOOLEAN,
         orphans' \in Nat,
         gate' = NoGate => waiters' = {} /\ holders' = {} /\ orphans' <= MaxTimers,
         gate' # NoGate => Sound(gate', waiters', holders', orphans'),
         waiters' # {} => holders' # {} \/ (gate'.limited /\ gate'.timers > 0)
  PROVE  IInv'
BY DEF IInv, NoStrandedWaiter, Callings, Sound

LEMMA AcquireNowKeeps ==
  ASSUME IInv, NEW r \in Callers, NEW limit \in Limits, AcquireNow(r, limit)
  PROVE  IInv' /\ Cardinality(holders') <= gate'.max /\ ~gate'.limited
<1> DEFINE g == Looked(GateFor(limit))
<1>1. limit \in Nat \ {0} /\ cooling \in BOOLEAN /\ orphans \in Nat
  BY LimitsType DEF IInv
<1>2. Sound(GateFor(limit), waiters, holders, orphans) /\ GateFor(limit).max = limit
  BY <1>1, GateForFacts
<1>3. /\ Sound(g, waiters, holders, orphans)
      /\ ~g.limited /\ g.running < g.max
  BY <1>1, <1>2, LookedFacts DEF AcquireNow, Fits
<1> HIDE DEF g
<1>4. g \in Gate /\ g.running \in Nat /\ g.max \in Nat
  BY <1>3, GateFields DEF Sound
<1>5. gate' = [running |-> g.running + 1, max |-> g.max, queue |-> g.queue, limited |-> g.limited,
               timers |-> g.timers]
  BY <1>4 DEF AcquireNow, Gate, g
<1>6. /\ holders' = holders \cup {r} /\ r \notin waiters /\ r \notin holders
      /\ UNCHANGED <<waiters, told, cooling, orphans>>
  BY DEF AcquireNow, Free
<1>7. IsFiniteSet(holders') /\ Cardinality(holders') = g.running + 1
  BY <1>3, <1>6, FS_AddElement DEF IInv, Callings, Sound
<1>8. Callings(waiters', holders') /\ told' \subseteq holders'
  BY <1>6, <1>7 DEF IInv, Callings
<1>9. gate' \in Gate
  BY <1>4, <1>5, GateFields DEF Gate
<1>10. Sound(gate', waiters', holders', orphans')
  BY <1>3, <1>5, <1>6, <1>7, <1>9 DEF Sound
<1>11. IInv'
  BY <1>1, <1>6, <1>8, <1>10, KeptGate
<1> QED
  BY <1>3, <1>4, <1>5, <1>7, <1>11

LEMMA AcquireRefusedKeeps ==
  ASSUME IInv, NEW r \in Callers, NEW limit \in Limits, AcquireRefused(r, limit)
  PROVE  IInv'
<1> DEFINE g == GateFor(limit)
<1>1. limit \in Nat \ {0} /\ orphans \in Nat /\ IsFiniteSet(holders)
  BY LimitsType DEF IInv, Callings
<1>2. /\ Sound(g, waiters, holders, orphans)
      /\ waiters # {} => holders # {} \/ (g.limited /\ g.timers > 0)
  BY <1>1, GateForFacts
<1>3. Keeps(g, orphans) /\ UNCHANGED <<waiters, holders, told, cooling>>
  BY DEF AcquireRefused
<1> HIDE DEF g
<1>4. /\ orphans' \in Nat
      /\ gate' = NoGate => waiters = {} /\ holders = {} /\ orphans' <= MaxTimers
      /\ gate' # NoGate => gate' = g /\ Sound(gate', waiters, holders, orphans')
  BY <1>1, <1>2, <1>3, KeepsFacts
<1>5. Callings(waiters', holders') /\ told' \subseteq holders' /\ cooling' \in BOOLEAN
  BY <1>3 DEF IInv, Callings
<1>6. waiters' # {} => holders' # {} \/ (gate'.limited /\ gate'.timers > 0)
  BY <1>2, <1>3, <1>4
<1> QED
  BY <1>3, <1>4, <1>5, <1>6, KeptOrDropped

LEMMA AcquireLaterKeeps ==
  ASSUME IInv, NEW r \in Callers, NEW limit \in Limits, AcquireLater(r, limit)
  PROVE  IInv'
<1> DEFINE g == GateFor(limit)
<1>1. limit \in Nat \ {0} /\ cooling \in BOOLEAN /\ orphans \in Nat
  BY LimitsType DEF IInv
<1>2. Sound(g, waiters, holders, orphans) /\ g.max = limit
  BY <1>1, GateForFacts
<1>3. /\ ~Fits(g) /\ gate' = [g EXCEPT !.queue = Append(@, r)]
      /\ waiters' = waiters \cup {r} /\ r \notin waiters /\ r \notin holders
      /\ UNCHANGED <<holders, told, cooling, orphans>>
  BY DEF AcquireLater, Free
<1> HIDE DEF g
<1>4. /\ g \in Gate /\ g.running \in Nat /\ g.max \in Nat \ {0} /\ g.queue \in Seq(Callers)
      /\ IsInjective(g.queue) /\ waiters = ToSet(g.queue)
  BY <1>2, GateFields DEF Sound
<1>5. /\ Append(g.queue, r) \in Seq(Callers) /\ IsInjective(Append(g.queue, r))
      /\ ToSet(Append(g.queue, r)) = waiters'
  BY <1>3, <1>4, QueueAppend
<1>6. gate' = [running |-> g.running, max |-> g.max, queue |-> Append(g.queue, r),
               limited |-> g.limited, timers |-> g.timers]
  BY <1>3, <1>4 DEF Gate
<1>7. gate' \in Gate
  BY <1>4, <1>5, <1>6, GateFields DEF Gate
<1>8. Sound(gate', waiters', holders', orphans')
  BY <1>2, <1>3, <1>5, <1>6, <1>7 DEF Sound
<1>9. holders' # {} \/ (gate'.limited /\ gate'.timers > 0)
  <2>1. CASE g.running >= g.max
    <3>1. Cardinality(holders) # 0
      BY <2>1, <1>2, <1>4 DEF Sound
    <3> QED
      BY <3>1, <1>3, FS_EmptySet
  <2>2. CASE g.running < g.max
    BY <2>2, <1>2, <1>3, <1>6 DEF Fits, IsRateLimited, Sound
  <2> QED
    BY <2>1, <2>2, <1>4
<1>10. Callings(waiters', holders') /\ told' \subseteq holders'
  BY <1>3 DEF IInv, Callings
<1> QED
  BY <1>1, <1>3, <1>8, <1>9, <1>10, KeptGate

LEMMA TimeoutKeeps ==
  ASSUME IInv, NEW r \in Callers, Timeout(r)
  PROVE  IInv'
<1>1. /\ r \in waiters /\ waiters' = waiters \ {r}
      /\ UNCHANGED <<holders, told, cooling, orphans>>
  BY DEF Timeout
<1>2. gate # NoGate /\ Sound(gate, waiters, holders, orphans)
  BY <1>1 DEF IInv
<1>3. /\ gate \in Gate /\ gate.queue \in Seq(Callers) /\ IsInjective(gate.queue)
      /\ waiters = ToSet(gate.queue)
  BY <1>2, GateFields DEF Sound
<1>4. gate' = [running |-> gate.running, max |-> gate.max, queue |-> Without(gate.queue, r),
               limited |-> gate.limited, timers |-> gate.timers]
  BY <1>2, <1>3 DEF Timeout, Gate
<1>5. /\ Without(gate.queue, r) \in Seq(Callers) /\ IsInjective(Without(gate.queue, r))
      /\ ToSet(Without(gate.queue, r)) = waiters'
  BY <1>1, <1>3, QueueWithout
<1>6. gate' \in Gate
  BY <1>3, <1>4, <1>5, GateFields DEF Gate
<1>7. Sound(gate', waiters', holders', orphans')
  BY <1>1, <1>2, <1>4, <1>5, <1>6 DEF Sound
<1>8. Callings(waiters', holders') /\ told' \subseteq holders' /\ cooling' \in BOOLEAN
      /\ orphans' \in Nat
  BY <1>1 DEF IInv, Callings
<1>9. holders' # {} \/ (gate'.limited /\ gate'.timers > 0)
  BY <1>1, <1>4 DEF IInv, NoStrandedWaiter
<1> QED
  BY <1>7, <1>8, <1>9, KeptGate

LEMMA ReleaseKeeps ==
  ASSUME IInv, NEW r \in Callers, Release(r)
  PROVE  /\ IInv'
         /\ holders' \ holders # {} => Cardinality(holders') <= gate'.max /\ ~gate'.limited
<1>1. /\ r \in holders /\ told' = told \ {r} /\ cooling' = cooling
  BY DEF Release
<1>2. gate # NoGate /\ Sound(gate, waiters, holders, orphans)
  BY <1>1 DEF IInv
<1>3. IsFiniteSet(holders) /\ cooling \in BOOLEAN /\ orphans \in Nat /\ told \subseteq holders
  BY DEF IInv, Callings
<1>4. /\ IsFiniteSet(holders \ {r}) /\ Cardinality(holders \ {r}) = Cardinality(holders) - 1
      /\ Cardinality(holders \ {r}) \in Nat
  BY <1>1, <1>3, FS_RemoveElement, FS_CardinalityType
<1>5. gate \in Gate /\ gate.running \in Nat /\ gate.running - 1 \in Nat
  BY <1>2, <1>4, GateFields DEF Sound
<1> DEFINE g == [gate EXCEPT !.running = @ - 1]
<1>6. g = [running |-> gate.running - 1, max |-> gate.max, queue |-> gate.queue,
           limited |-> gate.limited, timers |-> gate.timers]
  BY <1>5 DEF Gate
<1>7. Drains(g, holders \ {r}, orphans)
  <2>1. gate.running > 0
    BY <1>5
  <2> QED
    BY <2>1, <1>2 DEF Release
<1> HIDE DEF g
<1>8. g \in Gate
  BY <1>5, <1>6, GateFields DEF Gate
<1>9. Sound(g, waiters, holders \ {r}, orphans)
  BY <1>2, <1>4, <1>6, <1>8 DEF Sound
<1>10. Callings(waiters, holders \ {r})
  BY <1>4 DEF IInv, Callings
<1>11. /\ Callings(waiters', holders') /\ holders \ {r} \subseteq holders'
       /\ orphans' \in Nat
       /\ gate' = NoGate => waiters' = {} /\ holders' = {} /\ orphans' <= MaxTimers
       /\ gate' # NoGate => Sound(gate', waiters', holders', orphans')
       /\ waiters' # {} => holders' # {} \/ (gate'.limited /\ gate'.timers > 0)
       /\ holders' # holders \ {r} => Cardinality(holders') <= gate'.max /\ ~gate'.limited
  BY <1>3, <1>7, <1>9, <1>10, DrainsFacts
<1>12. told' \subseteq holders' /\ cooling' \in BOOLEAN
  BY <1>1, <1>3, <1>11
<1>13. IInv'
  BY <1>11, <1>12, KeptOrDropped
<1>14. holders' \ holders # {} => holders' # holders \ {r}
  OBVIOUS
<1> QED
  BY <1>11, <1>13, <1>14

LEMMA MarkRateLimitedKeeps ==
  ASSUME IInv, NEW r \in Callers, MarkRateLimited(r)
  PROVE  IInv'
<1> DEFINE g == GateFor(DefaultMax)
<1>1. /\ r \in holders /\ g.timers + orphans < MaxTimers
      /\ gate' = [g EXCEPT !.limited = TRUE, !.timers = @ + 1]
      /\ told' = told \cup {r} /\ cooling' = TRUE
      /\ UNCHANGED <<waiters, holders, orphans>>
  BY DEF MarkRateLimited
<1>2. Sound(g, waiters, holders, orphans)
  BY LimitsType, GateForFacts
<1> HIDE DEF g
<1>3. g \in Gate /\ g.timers \in Nat /\ orphans \in Nat
  BY <1>2, GateFields DEF Sound, IInv
<1>4. gate' = [running |-> g.running, max |-> g.max, queue |-> g.queue, limited |-> TRUE,
               timers |-> g.timers + 1]
  <2> DEFINE first == [running |-> g.running, max |-> g.max, queue |-> g.queue, limited |-> TRUE,
                       timers |-> g.timers]
  <2>0. g = [running |-> g.running, max |-> g.max, queue |-> g.queue, limited |-> g.limited,
             timers |-> g.timers]
    BY <1>3 DEF Gate
  <2>1. [g EXCEPT !.limited = TRUE]
          = [running |-> g.running, max |-> g.max, queue |-> g.queue, limited |-> TRUE,
             timers |-> g.timers]
    <3> DEFINE yes == TRUE
    <3>1. yes = TRUE
      OBVIOUS
    <3> HIDE DEF yes
    <3>2. [g EXCEPT !.limited = yes]
            = [running |-> g.running, max |-> g.max, queue |-> g.queue, limited |-> yes,
               timers |-> g.timers]
      BY <2>0
    <3> QED
      BY <3>1, <3>2
  <2>2. gate' = [first EXCEPT !.timers = @ + 1]
    BY <1>1, <2>1
  <2> QED
    BY <2>2
<1>5. gate' \in Gate
  BY <1>3, <1>4, GateFields DEF Gate
<1>6. Sound(gate', waiters', holders', orphans')
  <2>1. orphans' + gate'.timers <= MaxTimers /\ gate'.timers > 0
    BY <1>1, <1>3, <1>4, BoundsType
  <2> QED
    BY <1>1, <1>2, <1>4, <1>5, <2>1 DEF Sound
<1>7. Callings(waiters', holders') /\ told' \subseteq holders'
  BY <1>1 DEF IInv, Callings
<1>8. waiters' # {} => holders' # {} \/ (gate'.limited /\ gate'.timers > 0)
  BY <1>1
<1> QED
  BY <1>1, <1>3, <1>6, <1>7, <1>8, KeptGate

LEMMA CooldownEndsKeeps ==
  ASSUME IInv, CooldownEnds
  PROVE  IInv'
BY DEF IInv, CooldownEnds, Callings, Sound, NoStrandedWaiter

LEMMA TimerFiresKeeps ==
  ASSUME IInv, TimerFires
  PROVE  /\ IInv'
         /\ holders' \ holders # {} => Cardinality(holders') <= gate'.max /\ ~gate'.limited
<1> DEFINE g == [gate EXCEPT !.timers = @ - 1]
<1>1. /\ gate # NoGate /\ gate.timers > 0
      /\ ~IsRateLimited(gate) \/ gate.timers > 1
      /\ told' = told /\ cooling' = cooling
  BY DEF TimerFires
<1>2. Sound(gate, waiters, holders, orphans)
  BY <1>1 DEF IInv
<1>3. /\ Callings(waiters, holders) /\ cooling \in BOOLEAN /\ orphans \in Nat
      /\ told \subseteq holders
  BY DEF IInv
<1>4. gate \in Gate /\ gate.timers \in Nat /\ gate.timers - 1 \in Nat
  BY <1>1, <1>2, GateFields DEF Sound
<1>5. g = [running |-> gate.running, max |-> gate.max, queue |-> gate.queue,
           limited |-> gate.limited, timers |-> gate.timers - 1]
  BY <1>4 DEF Gate
<1>6. IF g.limited /\ ~cooling
      THEN Drains(Looked(g), holders, orphans)
      ELSE gate' = g /\ UNCHANGED <<waiters, holders, orphans>>
  BY DEF TimerFires
<1> HIDE DEF g
<1>7. g \in Gate
  BY <1>4, <1>5, GateFields DEF Gate
<1>8. orphans + g.timers <= MaxTimers
  BY <1>2, <1>3, <1>4, <1>5, BoundsType DEF Sound
<1>9. CASE g.limited /\ ~cooling
  <2>1. Looked(g) = [running |-> g.running, max |-> g.max, queue |-> g.queue,
                     limited |-> FALSE, timers |-> g.timers]
    <3>1. IsRateLimited(g) = FALSE
      BY <1>7, <1>9, GateFields DEF IsRateLimited
    <3>2. g = [running |-> g.running, max |-> g.max, queue |-> g.queue, limited |-> g.limited,
               timers |-> g.timers]
      BY <1>7 DEF Gate
    <3>3. Looked(g) = [g EXCEPT !.limited = FALSE]
      BY <3>1 DEF Looked
    <3> QED
      BY <3>2, <3>3
  <2>2. Looked(g) \in Gate
    BY <1>7, <2>1, GateFields DEF Gate
  <2>3. Sound(Looked(g), waiters, holders, orphans)
    BY <1>2, <1>5, <1>8, <2>1, <2>2 DEF Sound
  <2>4. Drains(Looked(g), holders, orphans)
    BY <1>6, <1>9
  <2>5. /\ Callings(waiters', holders') /\ holders \subseteq holders'
        /\ orphans' \in Nat
        /\ gate' = NoGate => waiters' = {} /\ holders' = {} /\ orphans' <= MaxTimers
        /\ gate' # NoGate => Sound(gate', waiters', holders', orphans')
        /\ waiters' # {} => holders' # {} \/ (gate'.limited /\ gate'.timers > 0)
        /\ holders' # holders => Cardinality(holders') <= gate'.max /\ ~gate'.limited
    BY <1>3, <2>3, <2>4, DrainsFacts
  <2>6. IInv'
    BY <1>1, <1>3, <2>5, KeptOrDropped
  <2> QED
    BY <2>5, <2>6
<1>10. CASE ~(g.limited /\ ~cooling)
  <2>1. gate' = g /\ UNCHANGED <<waiters, holders, orphans>>
    BY <1>6, <1>10
  <2>2. g.limited => g.timers > 0
    BY <1>1, <1>4, <1>5, <1>10 DEF IsRateLimited
  <2>3. Sound(gate', waiters', holders', orphans')
    BY <1>2, <1>5, <1>7, <1>8, <2>1, <2>2 DEF Sound
  <2>4. waiters' # {} => holders' # {} \/ (gate'.limited /\ gate'.timers > 0)
    BY <1>5, <2>1, <2>2 DEF IInv, NoStrandedWaiter
  <2>5. Callings(waiters', holders') /\ told' \subseteq holders' /\ cooling' \in BOOLEAN
        /\ orphans' \in Nat
    BY <1>1, <1>3, <2>1
  <2> QED
    BY <2>1, <2>3, <2>4, <2>5, KeptGate
<1> QED
  BY <1>9, <1>10

LEMMA OrphanFiresKeeps ==
  ASSUME IInv, OrphanFires
  PROVE  /\ IInv'
         /\ holders' \ holders # {} => Cardinality(holders') <= gate'.max /\ ~gate'.limited
<1>1. /\ orphans > 0 /\ told' = told /\ cooling' = cooling
      /\ IF gate = NoGate
         THEN orphans' = orphans - 1 /\ UNCHANGED <<gate, waiters, holders>>
         ELSE Drains(gate, holders, orphans - 1)
  BY DEF OrphanFires
<1>2. /\ Callings(waiters, holders) /\ cooling \in BOOLEAN /\ orphans \in Nat
      /\ told \subseteq holders /\ orphans - 1 \in Nat
  BY <1>1 DEF IInv
<1>3. CASE gate = NoGate
  <2>1. orphans' = orphans - 1 /\ UNCHANGED <<gate, waiters, holders>>
    BY <1>1, <1>3
  <2>2. waiters = {} /\ holders = {} /\ orphans <= MaxTimers
    BY <1>3 DEF IInv
  <2>3. orphans' \in Nat /\ orphans' <= MaxTimers
    BY <1>2, <2>1, <2>2, BoundsType
  <2>4. /\ Callings(waiters', holders') /\ told' \subseteq holders' /\ cooling' \in BOOLEAN
        /\ gate' = NoGate /\ waiters' = {} /\ holders' = {}
    BY <1>1, <1>2, <1>3, <2>1, <2>2
  <2>5. IInv'
    BY <2>3, <2>4, KeptOrDropped
  <2> QED
    BY <2>1, <2>5
<1>4. CASE gate # NoGate
  <2>1. Drains(gate, holders, orphans - 1)
    BY <1>1, <1>4
  <2>2. Sound(gate, waiters, holders, orphans)
    BY <1>4 DEF IInv
  <2>3. orphans - 1 + gate.timers <= MaxTimers
    BY <1>2, <2>2, BoundsType, GateFields DEF Sound
  <2>4. Sound(gate, waiters, holders, orphans - 1)
    BY <2>2, <2>3 DEF Sound
  <2>5. /\ Callings(waiters', holders') /\ holders \subseteq holders'
        /\ orphans' \in Nat
        /\ gate' = NoGate => waiters' = {} /\ holders' = {} /\ orphans' <= MaxTimers
        /\ gate' # NoGate => Sound(gate', waiters', holders', orphans')
        /\ waiters' # {} => holders' # {} \/ (gate'.limited /\ gate'.timers > 0)
        /\ holders' # holders => Cardinality(holders') <= gate'.max /\ ~gate'.limited
    BY <1>2, <2>1, <2>4, DrainsFacts
  <2>6. IInv'
    BY <1>1, <1>2, <2>5, KeptOrDropped
  <2> QED
    BY <2>5, <2>6
<1> QED
  BY <1>3, <1>4

-----------------------------------------------------------------------------
(* The theorems. *)

LEMMA InitIInv == Init => IInv
<1> SUFFICES ASSUME Init
             PROVE  IInv
  OBVIOUS
<1>1. IsFiniteSet({})
  BY FS_EmptySet
<1>2. Callings(waiters, holders)
  BY <1>1 DEF Init, Callings
<1>3. /\ gate = NoGate /\ waiters = {} /\ holders = {} /\ told = {} /\ cooling = FALSE
      /\ orphans = 0
  BY DEF Init
<1>4. orphans \in Nat /\ orphans <= MaxTimers
  BY <1>3, BoundsType
<1> QED
  BY <1>2, <1>3, <1>4 DEF IInv, NoStrandedWaiter

\* Every step keeps the invariant, and admits only below the limit and out of the
\* cooldown.
LEMMA NextIInv ==
  ASSUME IInv, [Next]_vars
  PROVE  /\ IInv'
         /\ holders' \ holders # {} =>
              Cardinality(holders') <= gate'.max /\ ~(gate'.limited /\ cooling)
<1>1. ASSUME NEW r \in Callers, NEW limit \in Limits, AcquireNow(r, limit)
      PROVE  IInv' /\ Cardinality(holders') <= gate'.max /\ ~gate'.limited
  BY <1>1, AcquireNowKeeps
<1>2. ASSUME NEW r \in Callers, NEW limit \in Limits, AcquireRefused(r, limit)
      PROVE  IInv' /\ holders' = holders
  BY <1>2, AcquireRefusedKeeps DEF AcquireRefused
<1>3. ASSUME NEW r \in Callers, NEW limit \in Limits, AcquireLater(r, limit)
      PROVE  IInv' /\ holders' = holders
  BY <1>3, AcquireLaterKeeps DEF AcquireLater
<1>4. ASSUME NEW r \in Callers, Timeout(r)
      PROVE  IInv' /\ holders' = holders
  BY <1>4, TimeoutKeeps DEF Timeout
<1>5. ASSUME NEW r \in Callers, Release(r)
      PROVE  /\ IInv'
             /\ holders' \ holders # {} => Cardinality(holders') <= gate'.max /\ ~gate'.limited
  BY <1>5, ReleaseKeeps
<1>6. ASSUME NEW r \in Callers, MarkRateLimited(r)
      PROVE  IInv' /\ holders' = holders
  BY <1>6, MarkRateLimitedKeeps DEF MarkRateLimited
<1>7. ASSUME CooldownEnds
      PROVE  IInv' /\ holders' = holders
  BY <1>7, CooldownEndsKeeps DEF CooldownEnds
<1>8. ASSUME TimerFires
      PROVE  /\ IInv'
             /\ holders' \ holders # {} => Cardinality(holders') <= gate'.max /\ ~gate'.limited
  BY <1>8, TimerFiresKeeps
<1>9. ASSUME OrphanFires
      PROVE  /\ IInv'
             /\ holders' \ holders # {} => Cardinality(holders') <= gate'.max /\ ~gate'.limited
  BY <1>9, OrphanFiresKeeps
<1>10. ASSUME UNCHANGED vars
       PROVE  IInv' /\ holders' = holders
  BY <1>10 DEF vars, IInv, Callings, Sound, NoStrandedWaiter
<1> QED
  BY <1>1, <1>2, <1>3, <1>4, <1>5, <1>6, <1>7, <1>8, <1>9, <1>10 DEF Next

\* The invariant holds of every behaviour.
LEMMA SpecIInv == Spec => []IInv
BY InitIInv, NextIInv, PTL DEF Spec

\* The gate, its queue, the slots and the pending timers stay in their ranges; no
\* caller waits and holds a slot at once.
THEOREM TypeCorrect == Spec => []TypeOK
<1>1. ASSUME IInv
      PROVE  TypeOK
  <2>1. gate \in Gate \cup {NoGate}
    BY <1>1 DEF IInv, Sound
  <2>2. orphans \in 0..MaxTimers
    <3>1. CASE gate = NoGate
      BY <3>1, <1>1, BoundsType DEF IInv
    <3>2. CASE gate # NoGate
      <4>1. gate.timers \in Nat /\ orphans \in Nat /\ orphans + gate.timers <= MaxTimers
        BY <3>2, <1>1, GateFields DEF IInv, Sound
      <4> QED
        BY <4>1, BoundsType
    <3> QED
      BY <3>1, <3>2
  <2> QED
    BY <1>1, <2>1, <2>2 DEF IInv, Callings, TypeOK
<1> QED
  BY <1>1, SpecIInv, PTL

\* The gate in the map counts the slots that are out, however often it was dropped.
THEOREM SlotsStayCounted == Spec => []SlotsAreCounted
<1>1. ASSUME IInv
      PROVE  SlotsAreCounted
  <2>1. CASE gate = NoGate
    BY <2>1, <1>1, FS_EmptySet DEF IInv, SlotsAreCounted
  <2>2. CASE gate # NoGate
    BY <2>2, <1>1 DEF IInv, Sound, SlotsAreCounted
  <2> QED
    BY <2>1, <2>2
<1> QED
  BY <1>1, SpecIInv, PTL

\* Every pending promise is in the queue of the gate in the map, once.
THEOREM WaitersKeepTheirGate == Spec => []WaitersStayQueued
<1>1. ASSUME IInv
      PROVE  WaitersStayQueued
  <2>1. CASE gate = NoGate
    BY <2>1, <1>1 DEF IInv, WaitersStayQueued
  <2>2. CASE gate # NoGate
    BY <2>2, <1>1, GateFields, QueueCardinality DEF IInv, Sound, WaitersStayQueued
  <2> QED
    BY <2>1, <2>2
<1> QED
  BY <1>1, SpecIInv, PTL

\* While somebody waits, a release or a cooldown timer is outstanding.
THEOREM NobodyIsStranded == Spec => []NoStrandedWaiter
<1>1. IInv => NoStrandedWaiter
  BY DEF IInv
<1> QED
  BY <1>1, SpecIInv, PTL

\* No step admits a caller above the limit of the moment or into the cooldown of the
\* gate, whatever limits the callers pass and whichever gate a late timer drains.
THEOREM AdmissionHasRoom == Spec => AdmitsWithRoom
<1>1. ASSUME IInv, [Next]_vars
      PROVE  [holders' \ holders # {} =>
                /\ Cardinality(holders') <= gate'.max
                /\ ~(gate'.limited /\ cooling)]_vars
  BY <1>1, NextIInv
<1> QED
  BY <1>1, SpecIInv, PTL DEF Spec, AdmitsWithRoom
=============================================================================
