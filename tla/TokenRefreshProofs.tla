------------------------- MODULE TokenRefreshProofs -------------------------
(***************************************************************************)
(* What holds of the token refresh for any number of connections, callers, *)
(* logins, rotations and attempts.  The inductive invariant is IInv: the   *)
(* lane holds the connections with a refresh under way, each once, and     *)
(* only its head is on the network; a refresh and its callers agree; no    *)
(* token is of a login still to come; and a family that was refused has no *)
(* live token left.                                                        *)
(***************************************************************************)
EXTENDS TokenRefresh, SequenceTheorems, TLAPS

Busy == {"net", "settle"}

\* The lane l and the refreshes fl.
Turns(l, fl) ==
  /\ \A i, j \in 1..Len(l) : l[i] = l[j] => i = j
  /\ \A k \in Connections : fl[k] # NULL <=> \E i \in 1..Len(l) : l[i] = k
  /\ \A k \in Connections : fl[k] # NULL /\ fl[k].at \in Busy => Head(l) = k

\* The refreshes fl and the callers cl.
Shared(fl, cl) ==
  \A k \in Connections : fl[k] # NULL =>
    /\ Of[fl[k].by] = k
    /\ cl[fl[k].by] = NULL \/ cl[fl[k].by].at \in {"loaded", "waiting"}
    /\ \A c \in fl[k].waits : Of[c] = k /\ cl[c] # NULL /\ cl[c].at = "waiting"

\* Token t is of a login that took place.
Issued(t, n) == t.login <= n[t.of]

Known(lv, rw, fl, cl, n) ==
  /\ \A t \in lv : Issued(t, n)
  /\ \A k \in Connections : rw[k].rt # NULL => Issued(rw[k].rt, n)
  /\ \A k \in Connections : fl[k] # NULL =>
       /\ Issued(fl[k].sent, n)
       /\ fl[k].got \in Token => Issued(fl[k].got, n)
  /\ \A c \in Callers : cl[c] # NULL => Issued(cl[c].tok, n)

\* No token of t's family is live.
Revoked(t, lv) == \A u \in lv : FamilyOf(u) # FamilyOf(t)

Buried(lv, fl, cl) ==
  /\ \A k \in Connections : fl[k] # NULL /\ fl[k].got = Dead => Revoked(fl[k].sent, lv)
  /\ \A c \in Callers : cl[c] # NULL /\ cl[c].at = "dead" => Revoked(cl[c].tok, lv)

IInv ==
  /\ TypeOK
  /\ Turns(lane, flight)
  /\ Shared(flight, call)
  /\ Known(live, row, flight, call, logins)
  /\ Buried(live, flight, call)

-----------------------------------------------------------------------------
(* Tokens and records. *)

\* NULL and Dead are no tokens.
LEMMA NoToken ==
  NULL # Dead /\ NULL \notin Token /\ Dead \notin Token /\ NULL \notin Flight /\ NULL \notin Call
BY NullIsNone

\* The successor of a token is a token of the same family.
LEMMA SuccessorProperties ==
  ASSUME NEW t \in Token
  PROVE  /\ t.of \in Connections /\ t.login \in Nat \ {0}
         /\ FamilyOf(t) \in Family
         /\ Successor(t) \in Token
         /\ FamilyOf(Successor(t)) = FamilyOf(t)
         /\ \A n : Issued(t, n) => Issued(Successor(t), n)
<1> DEFINE u == Successor(t)
<1>1. t.of \in Connections /\ t.login \in Nat \ {0} /\ t.gen \in Nat \ {0}
  BY DEF Token
<1>2. t.gen + 1 \in Nat \ {0}
  BY <1>1
<1>3. u \in Token /\ u.of = t.of /\ u.login = t.login
  BY <1>1, <1>2 DEF Token, Successor
<1> QED
  BY <1>1, <1>3 DEF FamilyOf, Family, Issued

\* The first token of a login.
LEMMA FirstTokenProperties ==
  ASSUME NEW k \in Connections, NEW n \in Nat \ {0}
  PROVE  /\ FirstToken(k, n) \in Token
         /\ FirstToken(k, n).of = k
         /\ FirstToken(k, n).login = n
BY DEF FirstToken, Token

\* A flight has its fields in their ranges.
LEMMA FlightFields ==
  ASSUME NEW f \in Flight
  PROVE  /\ f.by \in Callers /\ f.kind \in Kinds /\ f.at \in {"lane", "net", "settle"}
         /\ f.want \in Token /\ f.sent \in Token /\ f.got \in Token \cup {NULL, Dead}
         /\ f.waits \in SUBSET Callers
BY DEF Flight

\* A call has its fields in their ranges.
LEMMA CallFields ==
  ASSUME NEW q \in Call
  PROVE  /\ q.kind \in Kinds /\ q.at \in {"loaded", "waiting", "writing", "dead"}
         /\ q.tok \in Token /\ q.want \in Token /\ q.ran \in BOOLEAN /\ q.tries \in 1..Attempts
BY DEF Call

\* What a caller becomes with a token.
LEMMA AfterTokenProperties ==
  ASSUME NEW c \in Callers, call[c] \in Call, NEW u \in Token, NEW b \in BOOLEAN
  PROVE  /\ AfterToken(c, u, b) \in Call \cup {NULL}
         /\ AfterToken(c, u, b) # NULL => AfterToken(c, u, b).at = "writing" /\ AfterToken(c, u, b).tok = u
<1> DEFINE q == [call[c] EXCEPT !.at = "writing", !.tok = u]
<1>1. q \in Call /\ q.at = "writing" /\ q.tok = u
  BY DEF Call
<1>2. AfterToken(c, u, b) \in {NULL, q}
  BY DEF AfterToken
<1> HIDE DEF q
<1> QED
  BY <1>1, <1>2

\* What a caller becomes without one.
LEMMA AfterNullProperties ==
  ASSUME NEW c \in Callers, call[c] \in Call
  PROVE  /\ AfterNull(c) \in Call \cup {NULL}
         /\ AfterNull(c) # NULL => AfterNull(c).at = "loaded" /\ AfterNull(c).tok = call[c].tok
<1> DEFINE q == [call[c] EXCEPT !.at = "loaded", !.tries = @ + 1]
<1>1. CASE call[c].kind = "reactive" /\ call[c].tries < Attempts
  <2>1. call[c].tries + 1 \in 1..Attempts
    BY <1>1, CallFields, BoundsType
  <2>2. q \in Call /\ q.at = "loaded" /\ q.tok = call[c].tok
    BY <2>1 DEF Call
  <2>3. AfterNull(c) = q
    BY <1>1 DEF AfterNull
  <2> HIDE DEF q
  <2> QED
    BY <2>2, <2>3
<1>2. CASE ~(call[c].kind = "reactive" /\ call[c].tries < Attempts)
  BY <1>2 DEF AfterNull
<1> QED
  BY <1>1, <1>2

\* What a caller becomes when its token was refused.
LEMMA AfterDeadProperties ==
  ASSUME NEW c \in Callers, call[c] \in Call, NEW t \in Token
  PROVE  /\ AfterDead(c, t) \in Call \cup {NULL}
         /\ AfterDead(c, t) # NULL => AfterDead(c, t).at = "dead" /\ AfterDead(c, t).tok = t
<1> DEFINE q == [call[c] EXCEPT !.at = "dead", !.tok = t]
<1>1. q \in Call /\ q.at = "dead" /\ q.tok = t
  BY DEF Call
<1>2. AfterDead(c, t) \in {NULL, q}
  BY DEF AfterDead
<1> HIDE DEF q
<1> QED
  BY <1>1, <1>2

\* What storing a token does to the rows and to the history.
LEMMA StoreProperties ==
  ASSUME TypeOK, NEW k \in Connections, NEW u \in Token, NEW activity \in SUBSET BOOLEAN,
         Store(k, u, activity)
  PROVE  /\ row' \in [Connections -> Row]
         /\ row'[k].rt = u
         /\ \A j \in Connections : j # k => row'[j] = row[j]
         /\ spoilt' \subseteq Family
<1>1. PICK a \in activity :
        row' = [row EXCEPT ![k] = [rt |-> u, fresh |-> IF @.rt = u THEN @.fresh ELSE TRUE, active |-> a]]
  BY DEF Store
<1>2. row[k] \in Row /\ row[k].fresh \in BOOLEAN
  BY DEF TypeOK, Row
<1> DEFINE b == IF row[k].rt = u THEN row[k].fresh ELSE TRUE
           r == [rt |-> u, fresh |-> b, active |-> a]
<1>3. b \in BOOLEAN
  BY <1>2
<1>4. row' = [row EXCEPT ![k] = r]
  BY <1>1
<1> HIDE DEF b
<1>5. r \in Row /\ r.rt = u
  BY <1>3 DEF Row
<1> HIDE DEF r
<1>6. FamilyOf(u) \in Family /\ spoilt \subseteq Family
  BY SuccessorProperties DEF TypeOK
<1>7. spoilt' \subseteq Family
  BY <1>6 DEF Store
<1>8. row \in [Connections -> Row]
  BY DEF TypeOK
<1> QED
  BY <1>4, <1>5, <1>7, <1>8
-----------------------------------------------------------------------------
(* The parts of the invariant under a small change. *)

\* A refresh may be at any step as long as only the head of the lane is busy.
LEMMA TurnsKept ==
  ASSUME NEW l, NEW fl, NEW fl2, Turns(l, fl),
         \A k \in Connections : fl2[k] = NULL <=> fl[k] = NULL,
         \A k \in Connections : fl2[k] # NULL /\ fl2[k].at \in Busy
           => fl[k].at \in Busy \/ Head(l) = k
  PROVE  Turns(l, fl2)
BY DEF Turns

\* A refresh joins the end of the lane.
LEMMA TurnsAppended ==
  ASSUME NEW l \in Seq(Connections), NEW fl, NEW fl2, Turns(l, fl), NEW k \in Connections,
         fl[k] = NULL, fl2[k] # NULL, fl2[k].at \notin Busy,
         \A j \in Connections : j # k => fl2[j] = fl[j]
  PROVE  /\ Append(l, k) \in Seq(Connections)
         /\ Turns(Append(l, k), fl2)
<1> DEFINE m == Append(l, k)
<1>1. /\ m \in Seq(Connections) /\ Len(m) = Len(l) + 1 /\ Len(l) \in Nat
      /\ \A i \in 1..Len(l) : m[i] = l[i]
      /\ m[Len(l) + 1] = k
  BY AppendProperties, LenProperties
<1> HIDE DEF m
<1>2. \A i \in 1..Len(m) : i \in 1..Len(l) \/ i = Len(l) + 1
  BY <1>1
<1>3. \A i \in 1..Len(l) : i \in 1..Len(m) /\ l[i] # k
  BY <1>1 DEF Turns
<1>4. Len(l) + 1 \in 1..Len(m)
  BY <1>1
<1>5. \A i, j \in 1..Len(m) : m[i] = m[j] => i = j
  BY <1>1, <1>2, <1>3 DEF Turns
<1>6. ASSUME NEW j \in Connections
      PROVE  fl2[j] # NULL <=> \E i \in 1..Len(m) : m[i] = j
  <2>1. CASE j = k
    BY <2>1, <1>1, <1>4
  <2>2. CASE j # k
    <3>1. (\E i \in 1..Len(m) : m[i] = j) <=> \E i \in 1..Len(l) : l[i] = j
      BY <2>2, <1>1, <1>2, <1>3
    <3> QED
      BY <2>2, <3>1 DEF Turns
  <2> QED
    BY <2>1, <2>2
<1>7. ASSUME NEW j \in Connections, fl2[j] # NULL, fl2[j].at \in Busy
      PROVE  Head(m) = j
  <2>1. j # k /\ fl2[j] = fl[j]
    BY <1>7
  <2>2. PICK i \in 1..Len(l) : l[i] = j
    BY <1>7, <2>1 DEF Turns
  <2>3. 1 \in 1..Len(l) /\ l # <<>> /\ m # <<>>
    BY <2>2, <1>1
  <2>4. Head(l) = l[1] /\ Head(m) = m[1]
    BY <2>3, <1>1, HeadTailProperties
  <2> QED
    BY <2>1, <2>3, <2>4, <1>1, <1>7 DEF Turns
<1> QED
  BY <1>1, <1>5, <1>6, <1>7 DEF Turns, m

\* The refresh at the head of the lane leaves it.
LEMMA TurnsLeft ==
  ASSUME NEW l \in Seq(Connections), NEW fl, NEW fl2, Turns(l, fl), NEW k \in Connections,
         fl[k] # NULL, fl[k].at \in Busy, fl2[k] = NULL,
         \A j \in Connections : j # k => fl2[j] = fl[j]
  PROVE  /\ Tail(l) \in Seq(Connections)
         /\ Turns(Tail(l), fl2)
<1> DEFINE m == Tail(l)
<1>1. PICK n \in 1..Len(l) : l[n] = k
  BY DEF Turns
<1>2. Len(l) \in Nat /\ l # <<>> /\ 1 \in 1..Len(l)
  BY <1>1, LenProperties
<1>3. Head(l) = k /\ Head(l) = l[1]
  BY <1>2, HeadTailProperties DEF Turns
<1>4. m \in Seq(Connections) /\ Len(m) = Len(l) - 1 /\ \A i \in 1..Len(m) : m[i] = l[i + 1]
  BY <1>2, HeadTailProperties
<1> HIDE DEF m
<1>5. \A i \in 1..Len(m) : i + 1 \in 1..Len(l) /\ i + 1 # 1
  BY <1>2, <1>4
<1>6. \A i \in 1..Len(m) : m[i] # k
  BY <1>2, <1>3, <1>4, <1>5 DEF Turns
<1>7. \A i, j \in 1..Len(m) : m[i] = m[j] => i = j
  <2>1. \A i, j \in 1..Len(m) : i + 1 = j + 1 => i = j
    OBVIOUS
  <2> QED
    BY <2>1, <1>4, <1>5 DEF Turns
<1>8. ASSUME NEW j \in Connections
      PROVE  fl2[j] # NULL <=> \E i \in 1..Len(m) : m[i] = j
  <2>1. CASE j = k
    BY <2>1, <1>6
  <2>2. CASE j # k
    <3>1. ASSUME NEW i \in 1..Len(l), l[i] = j
          PROVE  \E h \in 1..Len(m) : m[h] = j
      <4>1. i - 1 \in 1..Len(m) /\ (i - 1) + 1 = i
        BY <2>2, <3>1, <1>2, <1>3, <1>4
      <4> QED
        BY <3>1, <4>1, <1>4
    <3>2. (\E i \in 1..Len(m) : m[i] = j) => \E i \in 1..Len(l) : l[i] = j
      BY <1>4, <1>5
    <3> QED
      BY <2>2, <3>1, <3>2 DEF Turns
  <2> QED
    BY <2>1, <2>2
<1>9. \A j \in Connections : ~(fl2[j] # NULL /\ fl2[j].at \in Busy)
  BY <1>3 DEF Turns
<1> QED
  BY <1>4, <1>7, <1>8, <1>9 DEF Turns, m

\* No refresh knows a caller that waits for none, unless it led one it gave up.
LEMMA Strangers ==
  ASSUME NEW fl, NEW cl, Shared(fl, cl), NEW c \in Callers
  PROVE  /\ cl[c] = NULL \/ cl[c].at # "waiting"
              => \A k \in Connections : fl[k] # NULL => c \notin fl[k].waits
         /\ cl[c] # NULL /\ cl[c].at \notin {"loaded", "waiting"}
              => \A k \in Connections : fl[k] # NULL => fl[k].by # c
         /\ \A k \in Connections : fl[k] # NULL /\ k # Of[c] => fl[k].by # c /\ c \notin fl[k].waits
BY DEF Shared

\* One caller changes: to nothing, or to one with a token of a login that took place.
LEMMA CallKnown ==
  ASSUME NEW cl, NEW cl2, NEW c \in Callers, NEW lv, NEW rw, NEW fl, NEW n,
         Known(lv, rw, fl, cl, n), Buried(lv, fl, cl),
         \A d \in Callers : d # c => cl2[d] = cl[d],
         cl2[c] # NULL => Issued(cl2[c].tok, n) /\ (cl2[c].at = "dead" => Revoked(cl2[c].tok, lv))
  PROVE  Known(lv, rw, fl, cl2, n) /\ Buried(lv, fl, cl2)
BY DEF Known, Buried

\* One row changes.
LEMMA RowKnown ==
  ASSUME NEW cl, NEW lv, NEW rw, NEW rw2, NEW fl, NEW n, NEW k \in Connections,
         Known(lv, rw, fl, cl, n),
         \A j \in Connections : j # k => rw2[j] = rw[j],
         rw2[k].rt # NULL => Issued(rw2[k].rt, n)
  PROVE  Known(lv, rw2, fl, cl, n)
BY DEF Known

\* One refresh changes.
LEMMA FlightKnown ==
  ASSUME NEW cl, NEW lv, NEW rw, NEW fl, NEW fl2, NEW n, NEW k \in Connections,
         Known(lv, rw, fl, cl, n), Buried(lv, fl, cl),
         \A j \in Connections : j # k => fl2[j] = fl[j],
         fl2[k] # NULL => /\ Issued(fl2[k].sent, n)
                          /\ fl2[k].got \in Token => Issued(fl2[k].got, n)
                          /\ fl2[k].got = Dead => Revoked(fl2[k].sent, lv)
  PROVE  Known(lv, rw, fl2, cl, n) /\ Buried(lv, fl2, cl)
BY DEF Known, Buried

\* The live tokens change, but no dead family comes back.
LEMMA LiveKnown ==
  ASSUME NEW cl, NEW lv, NEW lv2, NEW rw, NEW fl, NEW n,
         Known(lv, rw, fl, cl, n), Buried(lv, fl, cl),
         \A t \in lv2 : \E u \in lv : FamilyOf(t) = FamilyOf(u) /\ (Issued(u, n) => Issued(t, n))
  PROVE  Known(lv2, rw, fl, cl, n) /\ Buried(lv2, fl, cl)
<1>1. ASSUME NEW t, Revoked(t, lv)
      PROVE  Revoked(t, lv2)
  BY <1>1 DEF Revoked
<1> QED
  BY <1>1 DEF Known, Buried
-----------------------------------------------------------------------------
(* Every step keeps the invariant. *)

LEMMA InitInvariant == Init => IInv
<1> SUFFICES ASSUME Init PROVE IInv
  OBVIOUS
<1> USE DEF Init
<1>1. 1 \in Nat \ {0}
  OBVIOUS
<1>2. \A k \in Connections : FirstToken(k, 1) \in Token /\ FirstToken(k, 1).of = k /\ FirstToken(k, 1).login = 1
  BY <1>1, FirstTokenProperties
<1>3. TypeOK
  BY <1>1, <1>2 DEF TypeOK, Row
<1>4. Turns(lane, flight) /\ Shared(flight, call)
  BY DEF Turns, Shared
<1>5. Known(live, row, flight, call, logins) /\ Buried(live, flight, call)
  BY <1>2 DEF Known, Buried, Issued
<1> QED
  BY <1>3, <1>4, <1>5 DEF IInv

LEMMA LoadKeeps ==
  ASSUME IInv, NEW c \in Callers, Load(c)
  PROVE  IInv'
<1> USE DEF IInv
<1>1. PICK kind \in Roles[c] :
        call' = [call EXCEPT ![c] = [kind |-> kind, at |-> "loaded", tok |-> row[Of[c]].rt,
                                     want |-> row[Of[c]].rt, ran |-> FALSE, tries |-> 1]]
  BY DEF Load
<1>2. /\ UNCHANGED <<row, logins, live, memo, lane, flight, spoilt>>
      /\ call[c] = NULL
      /\ \A k \in Connections : flight[k] # NULL => flight[k].by # c
      /\ row[Of[c]].rt # NULL
  BY DEF Load
<1> DEFINE q == [kind |-> kind, at |-> "loaded", tok |-> row[Of[c]].rt,
                 want |-> row[Of[c]].rt, ran |-> FALSE, tries |-> 1]
<1>3. Of[c] \in Connections /\ kind \in Kinds /\ 1 \in 1..Attempts
  BY CallersType, BoundsType
<1>4. row[Of[c]].rt \in Token
  BY <1>2, <1>3 DEF TypeOK, Row
<1>5. q \in Call /\ q.tok = row[Of[c]].rt /\ q.at = "loaded"
  BY <1>3, <1>4 DEF Call
<1> HIDE DEF q
<1>6. call' \in [Callers -> Call \cup {NULL}] /\ call'[c] = q /\ \A d \in Callers : d # c => call'[d] = call[d]
  BY <1>1, <1>5 DEF TypeOK, q
<1>7. TypeOK'
  BY <1>2, <1>6 DEF TypeOK
<1>8. Turns(lane', flight')
  BY <1>2
<1>9. Shared(flight', call')
  <2>1. \A k \in Connections : flight[k] # NULL => flight[k].by # c /\ c \notin flight[k].waits
    BY <1>2, Strangers
  <2>2. \A k \in Connections : flight[k] # NULL => flight[k].by \in Callers /\ flight[k].waits \subseteq Callers
    BY FlightFields DEF TypeOK
  <2>3. Shared(flight, call')
    BY <2>1, <2>2, <1>6 DEF Shared
  <2> QED
    BY <2>3, <1>2
<1>10. Known(live', row', flight', call', logins') /\ Buried(live', flight', call')
  <2>1. Issued(q.tok, logins)
    BY <1>2, <1>3, <1>5 DEF Known
  <2> QED
    BY <2>1, <1>2, <1>5, <1>6, CallKnown
<1> QED
  BY <1>7, <1>8, <1>9, <1>10

\* What it takes for a step of a caller that touches no refresh.
LEMMA CallerKeeps ==
  ASSUME IInv, NEW c \in Callers, call[c] # NULL,
         \/ call[c].at \in {"writing", "dead"}
         \/ call[c].at = "loaded" /\ flight[Of[c]] = NULL,
         NEW q \in Call \cup {NULL}, call' = [call EXCEPT ![c] = q],
         q # NULL => Issued(q.tok, logins) /\ (q.at = "dead" => Revoked(q.tok, live)),
         row' \in [Connections -> Row],
         \A j \in Connections : j # Of[c] => row'[j] = row[j],
         row'[Of[c]].rt # NULL => Issued(row'[Of[c]].rt, logins),
         spoilt' \subseteq Family,
         UNCHANGED <<logins, live, memo, lane, flight>>
  PROVE  IInv'
<1> USE DEF IInv
<1>1. call' \in [Callers -> Call \cup {NULL}] /\ call'[c] = q /\ \A d \in Callers : d # c => call'[d] = call[d]
  BY DEF TypeOK
<1>2. TypeOK'
  BY <1>1 DEF TypeOK
<1>3. Turns(lane', flight')
  OBVIOUS
<1>4. Shared(flight', call')
  <2>1. \A k \in Connections : flight[k] # NULL => flight[k].by # c /\ c \notin flight[k].waits
    BY Strangers
  <2>2. \A k \in Connections : flight[k] # NULL => flight[k].by \in Callers /\ flight[k].waits \subseteq Callers
    BY FlightFields DEF TypeOK
  <2>3. Shared(flight, call')
    BY <2>1, <2>2, <1>1 DEF Shared
  <2> QED
    BY <2>3
<1>5. Known(live, row, flight, call', logins) /\ Buried(live, flight, call')
  BY <1>1, CallKnown
<1>6. Known(live, row', flight, call', logins)
  <2>1. Of[c] \in Connections
    BY CallersType
  <2> QED
    BY <2>1, <1>5, RowKnown
<1> QED
  BY <1>2, <1>3, <1>4, <1>5, <1>6

LEMMA RedirectedKeeps ==
  ASSUME IInv, NEW c \in Callers, Redirected(c)
  PROVE  IInv'
<1> DEFINE k == Of[c]
           u == Successor(call[c].tok)
           p == Persists(Of[c], call[c].kind, call[c].want)
           b == call[c].ran \/ p
           q == AfterToken(c, u, b)
<1>1. /\ call[c] # NULL /\ call[c].at = "loaded" /\ flight[Of[c]] = NULL
      /\ IF p THEN Store(k, u, {row[k].active}) ELSE UNCHANGED <<row, spoilt>>
      /\ call' = [call EXCEPT ![c] = q]
      /\ UNCHANGED <<logins, live, memo, lane, flight>>
  BY DEF Redirected, Asking
<1>2. TypeOK /\ call[c] \in Call /\ k \in Connections /\ row[k].active \in BOOLEAN
  BY <1>1, CallersType DEF IInv, TypeOK, Row
<1>3. u \in Token /\ Issued(u, logins)
  <2>1. call[c].tok \in Token /\ Issued(call[c].tok, logins)
    BY <1>1, <1>2, CallFields DEF IInv, Known
  <2> QED
    BY <2>1, SuccessorProperties
<1>4. b \in BOOLEAN
  <2>1. call[c].ran \in BOOLEAN
    BY <1>2, CallFields
  <2>2. p \in BOOLEAN
    BY DEF Persists
  <2> HIDE DEF p
  <2> QED
    BY <2>1, <2>2
<1> HIDE DEF b, u, p
<1>5. q \in Call \cup {NULL} /\ (q # NULL => q.at = "writing" /\ q.tok = u)
  BY <1>2, <1>3, <1>4, AfterTokenProperties
<1> HIDE DEF q
<1>6. q # NULL => Issued(q.tok, logins) /\ (q.at = "dead" => Revoked(q.tok, live))
  BY <1>3, <1>5
<1>7. /\ row' \in [Connections -> Row]
      /\ \A j \in Connections : j # k => row'[j] = row[j]
      /\ row'[k].rt # NULL => Issued(row'[k].rt, logins)
      /\ spoilt' \subseteq Family
  <2>1. CASE p
    <3>1. Store(k, u, {row[k].active}) /\ {row[k].active} \in SUBSET BOOLEAN
      BY <2>1, <1>1, <1>2
    <3> HIDE DEF k
    <3> QED
      BY <3>1, <1>2, <1>3, StoreProperties
  <2>2. CASE ~p
    BY <2>2, <1>1, <1>2 DEF IInv, TypeOK, Known
  <2> QED
    BY <2>1, <2>2
<1> QED
  BY <1>1, <1>5, <1>6, <1>7, CallerKeeps

LEMMA UseStoredKeeps ==
  ASSUME IInv, NEW c \in Callers, UseStored(c)
  PROVE  IInv'
<1> DEFINE k == Of[c]
           u == row[Of[c]].rt
           p == Persists(Of[c], call[c].kind, call[c].want)
           b == call[c].ran \/ p
           q == AfterToken(c, u, b)
<1>1. /\ call[c] # NULL /\ call[c].at = "loaded" /\ flight[Of[c]] = NULL
      /\ u # NULL
      /\ call' = [call EXCEPT ![c] = q]
      /\ UNCHANGED <<row, logins, live, memo, lane, flight, spoilt>>
  BY DEF UseStored, Asking
<1>2. call[c] \in Call /\ k \in Connections /\ row \in [Connections -> Row] /\ spoilt \subseteq Family
  BY <1>1, CallersType DEF IInv, TypeOK
<1>3. u \in Token /\ Issued(u, logins)
  BY <1>1, <1>2 DEF IInv, Known, Row
<1>4. b \in BOOLEAN
  <2>1. call[c].ran \in BOOLEAN
    BY <1>2, CallFields
  <2>2. p \in BOOLEAN
    BY DEF Persists
  <2> HIDE DEF p
  <2> QED
    BY <2>1, <2>2
<1> HIDE DEF b, p
<1>5. q \in Call \cup {NULL} /\ (q # NULL => q.at = "writing" /\ q.tok = u)
  BY <1>2, <1>3, <1>4, AfterTokenProperties
<1> HIDE DEF q
<1>6. q # NULL => Issued(q.tok, logins) /\ (q.at = "dead" => Revoked(q.tok, live))
  BY <1>3, <1>5
<1> QED
  BY <1>1, <1>2, <1>3, <1>5, <1>6, CallerKeeps

LEMMA WriteKeeps ==
  ASSUME IInv, NEW c \in Callers, Write(c)
  PROVE  IInv'
<1> DEFINE k == Of[c]
           u == call[c].tok
           act == IF call[c].kind = "test" THEN {row[k].active, TRUE} ELSE {row[k].active}
<1>1. /\ call[c] # NULL /\ call[c].at = "writing"
      /\ Store(k, u, act)
      /\ call' = [call EXCEPT ![c] = NULL]
      /\ UNCHANGED <<logins, live, memo, lane, flight>>
  BY DEF Write
<1>2. TypeOK /\ call[c] \in Call /\ k \in Connections /\ row[k].active \in BOOLEAN
  BY <1>1, CallersType DEF IInv, TypeOK, Row
<1>3. act \in SUBSET BOOLEAN
  BY <1>2
<1>4. u \in Token /\ Issued(u, logins)
  BY <1>1, <1>2, CallFields DEF IInv, Known
<1> HIDE DEF act, u, k
<1>5. /\ row' \in [Connections -> Row] /\ row'[k].rt = u
      /\ \A j \in Connections : j # k => row'[j] = row[j]
      /\ spoilt' \subseteq Family
  BY <1>1, <1>2, <1>3, <1>4, StoreProperties
<1> QED
  BY <1>1, <1>2, <1>4, <1>5, CallerKeeps DEF k

LEMMA DeactivateKeeps ==
  ASSUME IInv, NEW c \in Callers, Deactivate(c)
  PROVE  IInv'
<1> DEFINE k == Of[c]
<1>1. /\ call[c] # NULL /\ call[c].at = "dead"
      /\ call' = [call EXCEPT ![c] = NULL]
      /\ UNCHANGED <<logins, live, memo, lane, flight, spoilt>>
  BY DEF Deactivate
<1>2. k \in Connections /\ row \in [Connections -> Row] /\ spoilt \subseteq Family
  BY CallersType DEF IInv, TypeOK
<1>3. row[k].rt # NULL => Issued(row[k].rt, logins)
  BY <1>2 DEF IInv, Known
<1> HIDE DEF k
<1>4. /\ row' \in [Connections -> Row]
      /\ \A j \in Connections : j # k => row'[j] = row[j]
      /\ row'[k].rt # NULL => Issued(row'[k].rt, logins)
  <2>1. CASE UNCHANGED row
    BY <2>1, <1>2, <1>3
  <2>2. CASE row' = [row EXCEPT ![k].active = FALSE]
    <3>1. row[k] \in Row
      BY <1>2
    <3> DEFINE r == [row[k] EXCEPT !.active = FALSE]
    <3>2. r \in Row /\ r.rt = row[k].rt
      BY <3>1 DEF Row
    <3>3. row' = [row EXCEPT ![k] = r]
      BY <2>2
    <3> HIDE DEF r
    <3> QED
      BY <3>2, <3>3, <1>2, <1>3
  <2>3. CASE \E a \in {row[k].active, FALSE} :
               row' = [row EXCEPT ![k] = [rt |-> NULL, fresh |-> @.fresh, active |-> a]]
    <3>1. PICK a \in {row[k].active, FALSE} :
            row' = [row EXCEPT ![k] = [rt |-> NULL, fresh |-> @.fresh, active |-> a]]
      BY <2>3
    <3>2. row[k].fresh \in BOOLEAN /\ a \in BOOLEAN
      BY <1>2 DEF Row
    <3> DEFINE r == [rt |-> NULL, fresh |-> row[k].fresh, active |-> a]
    <3>3. r \in Row /\ r.rt = NULL
      BY <3>2 DEF Row
    <3>4. row' = [row EXCEPT ![k] = r]
      BY <3>1
    <3> HIDE DEF r
    <3> QED
      BY <3>3, <3>4, <1>2
  <2> QED
    BY <2>1, <2>2, <2>3 DEF Deactivate, k
<1> QED
  BY <1>1, <1>2, <1>4, CallerKeeps DEF k
LEMMA JoinKeeps ==
  ASSUME IInv, NEW c \in Callers, Join(c)
  PROVE  IInv'
<1> USE DEF IInv
<1> DEFINE k == Of[c]
           w == flight[Of[c]].waits \cup {c}
           q == [call[c] EXCEPT !.at = "waiting"]
<1>1. /\ call[c] # NULL /\ call[c].at = "loaded" /\ flight[k] # NULL
      /\ flight' = [flight EXCEPT ![k].waits = w]
      /\ call' = [call EXCEPT ![c] = q]
      /\ UNCHANGED <<row, logins, live, memo, lane, spoilt>>
  BY DEF Join, Asking
<1>2. k \in Connections /\ call[c] \in Call /\ flight[k] \in Flight
      /\ flight \in [Connections -> Flight \cup {NULL}]
  BY <1>1, CallersType DEF TypeOK
<1>3. w \in SUBSET Callers
  BY <1>2, FlightFields
<1>4. q \in Call /\ q.at = "waiting" /\ q.tok = call[c].tok /\ q # NULL
  BY <1>2, NoToken DEF Call
<1>5. flight[k].waits \subseteq w /\ w \subseteq flight[k].waits \cup {c}
  OBVIOUS
<1> HIDE DEF q, w
<1>6. call' \in [Callers -> Call \cup {NULL}] /\ call'[c] = q /\ \A d \in Callers : d # c => call'[d] = call[d]
  BY <1>1, <1>4 DEF TypeOK
<1> HIDE DEF k
<1>7. /\ flight' \in [Connections -> Flight \cup {NULL}]
      /\ \A j \in Connections : j # k => flight'[j] = flight[j]
      /\ flight'[k] # NULL /\ flight'[k].at = flight[k].at
      /\ flight'[k].by = flight[k].by /\ flight'[k].sent = flight[k].sent /\ flight'[k].got = flight[k].got
      /\ flight'[k].waits = w
  BY <1>1, <1>2, <1>3, NoToken DEF Flight
<1>8. TypeOK'
  BY <1>1, <1>6, <1>7 DEF TypeOK
<1>9. Turns(lane', flight')
  BY <1>1, <1>7 DEF Turns
<1>10. Shared(flight', call')
  <2> SUFFICES ASSUME NEW j \in Connections, flight'[j] # NULL
               PROVE  /\ Of[flight'[j].by] = j
                      /\ call'[flight'[j].by] = NULL \/ call'[flight'[j].by].at \in {"loaded", "waiting"}
                      /\ \A d \in flight'[j].waits : Of[d] = j /\ call'[d] # NULL /\ call'[d].at = "waiting"
    BY DEF Shared
  <2>1. flight[j] # NULL /\ flight'[j].by = flight[j].by /\ flight[j].by \in Callers
        /\ flight[j].waits \subseteq Callers
    BY <1>1, <1>2, <1>7, FlightFields
  <2>2. Of[flight[j].by] = j
        /\ (call[flight[j].by] = NULL \/ call[flight[j].by].at \in {"loaded", "waiting"})
        /\ \A d \in flight[j].waits : Of[d] = j /\ call[d] # NULL /\ call[d].at = "waiting"
    BY <2>1 DEF Shared
  <2>3. call'[flight[j].by] = NULL \/ call'[flight[j].by].at \in {"loaded", "waiting"}
    BY <2>1, <2>2, <1>4, <1>6
  <2>4. ASSUME NEW d \in flight'[j].waits
        PROVE  Of[d] = j /\ call'[d] # NULL /\ call'[d].at = "waiting"
    <3>1. CASE d = c
      <4>1. j = k
        BY <3>1, <1>1, <1>7, <2>2
      <4> QED
        BY <3>1, <4>1, <1>4, <1>6 DEF k
    <3>2. CASE d # c
      <4>1. d \in flight[j].waits
        BY <3>2, <2>4, <1>5, <1>7
      <4> QED
        BY <3>2, <4>1, <2>1, <2>2, <1>6
    <3> QED
      BY <3>1, <3>2
  <2> QED
    BY <2>1, <2>2, <2>3, <2>4
<1>11. Known(live, row, flight, call', logins) /\ Buried(live, flight, call')
  <2>1. Issued(q.tok, logins)
    BY <1>1, <1>4 DEF Known
  <2> QED
    BY <2>1, <1>4, <1>6, CallKnown
<1>12. Known(live, row, flight', call', logins) /\ Buried(live, flight', call')
  BY <1>1, <1>2, <1>7, <1>11 DEF Known, Buried
<1> QED
  BY <1>1, <1>8, <1>9, <1>10, <1>12

LEMMA GiveUpKeeps ==
  ASSUME IInv, NEW c \in Callers, GiveUp(c)
  PROVE  IInv'
<1> USE DEF IInv
<1> DEFINE k == Of[c]
           w == flight[Of[c]].waits \ {c}
           q == AfterNull(c)
<1>1. /\ call[c] # NULL /\ call[c].at = "waiting" /\ flight[k] # NULL
      /\ flight' = [flight EXCEPT ![k].waits = w]
      /\ call' = [call EXCEPT ![c] = q]
      /\ UNCHANGED <<row, logins, live, memo, lane, spoilt>>
  BY DEF GiveUp
<1>2. k \in Connections /\ call[c] \in Call /\ flight[k] \in Flight
      /\ flight \in [Connections -> Flight \cup {NULL}]
  BY <1>1, CallersType DEF TypeOK
<1>3. w \in SUBSET Callers
  BY <1>2, FlightFields
<1>4. q \in Call \cup {NULL} /\ (q # NULL => q.at = "loaded" /\ q.tok = call[c].tok)
  BY <1>2, AfterNullProperties
<1>5. w \subseteq flight[k].waits /\ c \notin w
  OBVIOUS
<1> HIDE DEF q, w
<1>6. call' \in [Callers -> Call \cup {NULL}] /\ call'[c] = q /\ \A d \in Callers : d # c => call'[d] = call[d]
  BY <1>1, <1>4 DEF TypeOK
<1> HIDE DEF k
<1>7. /\ flight' \in [Connections -> Flight \cup {NULL}]
      /\ \A j \in Connections : j # k => flight'[j] = flight[j]
      /\ flight'[k] # NULL /\ flight'[k].at = flight[k].at
      /\ flight'[k].by = flight[k].by /\ flight'[k].sent = flight[k].sent /\ flight'[k].got = flight[k].got
      /\ flight'[k].waits = w
  BY <1>1, <1>2, <1>3, NoToken DEF Flight
<1>8. TypeOK'
  BY <1>1, <1>6, <1>7 DEF TypeOK
<1>9. Turns(lane', flight')
  BY <1>1, <1>7 DEF Turns
<1>10. Shared(flight', call')
  <2> SUFFICES ASSUME NEW j \in Connections, flight'[j] # NULL
               PROVE  /\ Of[flight'[j].by] = j
                      /\ call'[flight'[j].by] = NULL \/ call'[flight'[j].by].at \in {"loaded", "waiting"}
                      /\ \A d \in flight'[j].waits : Of[d] = j /\ call'[d] # NULL /\ call'[d].at = "waiting"
    BY DEF Shared
  <2>1. flight[j] # NULL /\ flight'[j].by = flight[j].by /\ flight[j].by \in Callers
        /\ flight[j].waits \subseteq Callers /\ flight'[j].waits \subseteq flight[j].waits
    BY <1>1, <1>2, <1>5, <1>7, FlightFields
  <2>2. Of[flight[j].by] = j
        /\ (call[flight[j].by] = NULL \/ call[flight[j].by].at \in {"loaded", "waiting"})
        /\ \A d \in flight[j].waits : Of[d] = j /\ call[d] # NULL /\ call[d].at = "waiting"
    BY <2>1 DEF Shared
  <2>3. call'[flight[j].by] = NULL \/ call'[flight[j].by].at \in {"loaded", "waiting"}
    BY <2>1, <2>2, <1>4, <1>6
  <2>4. ASSUME NEW d \in flight'[j].waits
        PROVE  Of[d] = j /\ call'[d] # NULL /\ call'[d].at = "waiting"
    <3>1. d # c
      <4>1. CASE j = k
        BY <4>1, <1>5, <1>7
      <4>2. CASE j # k
        BY <4>2, <2>1, <2>2 DEF k
      <4> QED
        BY <4>1, <4>2
    <3> QED
      BY <3>1, <2>1, <2>2, <1>6
  <2> QED
    BY <2>1, <2>2, <2>3, <2>4
<1>11. Known(live, row, flight, call', logins) /\ Buried(live, flight, call')
  <2>1. q # NULL => Issued(q.tok, logins)
    BY <1>1, <1>4 DEF Known
  <2> QED
    BY <2>1, <1>4, <1>6, CallKnown
<1>12. Known(live, row, flight', call', logins) /\ Buried(live, flight', call')
  BY <1>1, <1>2, <1>7, <1>11 DEF Known, Buried
<1> QED
  BY <1>1, <1>8, <1>9, <1>10, <1>12

LEMMA LeadKeeps ==
  ASSUME IInv, NEW c \in Callers, Lead(c)
  PROVE  IInv'
<1> USE DEF IInv
<1> DEFINE k == Of[c]
           t == Presented(c)
           f == [by |-> c, kind |-> call[c].kind, at |-> "lane",
                 want |-> call[c].want, sent |-> t, got |-> NULL, waits |-> {c}]
           q == [call[c] EXCEPT !.at = "waiting", !.tok = t]
<1>1. /\ call[c] # NULL /\ call[c].at = "loaded" /\ flight[k] = NULL
      /\ flight' = [flight EXCEPT ![k] = f]
      /\ lane' = Append(lane, k)
      /\ UNCHANGED <<row, logins, live, memo>>
  BY DEF Lead, Asking
<1>2. k \in Connections /\ call[c] \in Call
  BY <1>1, CallersType DEF TypeOK
<1>3. t \in Token /\ Issued(t, logins)
  <2>1. row[k].rt \in Token \cup {NULL} /\ (row[k].rt # NULL => Issued(row[k].rt, logins))
    BY <1>2 DEF TypeOK, Row, Known
  <2>2. call[c].tok \in Token /\ Issued(call[c].tok, logins)
    BY <1>1, <1>2, CallFields DEF Known
  <2> QED
    BY <2>1, <2>2 DEF Presented
<1>4. /\ call' = [call EXCEPT ![c].at = "waiting", ![c].tok = t]
      /\ spoilt' = IF Remembered(t) \/ row[k].rt = NULL THEN spoilt \cup {FamilyOf(t)} ELSE spoilt
  BY DEF Lead
<1> HIDE DEF t
<1>5. f \in Flight /\ f # NULL /\ f.at = "lane" /\ f.by = c /\ f.sent = t /\ f.got = NULL /\ f.waits = {c}
  <2>1. call[c].kind \in Kinds /\ call[c].want \in Token
    BY <1>2, CallFields
  <2> QED
    BY <2>1, <1>3, NoToken DEF Flight
<1>6. /\ call' \in [Callers -> Call \cup {NULL}]
      /\ \A d \in Callers : d # c => call'[d] = call[d]
      /\ call'[c] # NULL /\ call'[c].at = "waiting" /\ call'[c].tok = t
  BY <1>2, <1>3, <1>4, NoToken DEF TypeOK, Call
<1> HIDE DEF f
<1>7. /\ flight' \in [Connections -> Flight \cup {NULL}]
      /\ flight'[k] = f
      /\ \A j \in Connections : j # k => flight'[j] = flight[j]
  BY <1>1, <1>2, <1>5 DEF TypeOK
<1> HIDE DEF k
<1>8. lane' \in Seq(Connections) /\ Turns(lane', flight')
  <2>1. flight'[k].at \notin Busy /\ flight'[k] # NULL
    BY <1>5, <1>7 DEF Busy
  <2> QED
    BY <2>1, <1>1, <1>2, <1>7, TurnsAppended DEF TypeOK
<1>9. TypeOK'
  <2>1. spoilt' \subseteq Family
    BY <1>3, <1>4, SuccessorProperties DEF TypeOK
  <2> QED
    BY <2>1, <1>1, <1>6, <1>7, <1>8 DEF TypeOK
<1>10. Shared(flight', call')
  <2> SUFFICES ASSUME NEW j \in Connections, flight'[j] # NULL
               PROVE  /\ Of[flight'[j].by] = j
                      /\ call'[flight'[j].by] = NULL \/ call'[flight'[j].by].at \in {"loaded", "waiting"}
                      /\ \A d \in flight'[j].waits : Of[d] = j /\ call'[d] # NULL /\ call'[d].at = "waiting"
    BY DEF Shared
  <2>1. CASE j = k
    BY <2>1, <1>5, <1>6, <1>7 DEF k
  <2>2. CASE j # k
    <3>1. flight[j] # NULL /\ flight'[j] = flight[j] /\ flight[j].by \in Callers
          /\ flight[j].waits \subseteq Callers /\ flight[j].by # c /\ c \notin flight[j].waits
      BY <2>2, <1>7, FlightFields DEF Shared, k, TypeOK
    <3> QED
      BY <3>1, <1>6 DEF Shared
  <2> QED
    BY <2>1, <2>2
<1>11. Known(live, row, flight, call', logins) /\ Buried(live, flight, call')
  BY <1>3, <1>6, CallKnown
<1>12. Known(live, row, flight', call', logins) /\ Buried(live, flight', call')
  <2>1. f.got \notin Token /\ f.got # Dead
    BY <1>5, NoToken
  <2> QED
    BY <2>1, <1>2, <1>3, <1>5, <1>7, <1>11, FlightKnown
<1> QED
  BY <1>1, <1>8, <1>9, <1>10, <1>12
\* What it takes for a step of a refresh up to its answer.
LEMMA RefreshKeeps ==
  ASSUME IInv, NEW k \in Connections, flight[k] # NULL,
         NEW s \in {"lane", "net", "settle"}, s \in Busy => Head(lane) = k,
         NEW u \in Token \cup {NULL, Dead},
         flight' \in [Connections -> Flight \cup {NULL}],
         \A j \in Connections : j # k => flight'[j] = flight[j],
         flight'[k] # NULL, flight'[k].at = s, flight'[k].got = u,
         flight'[k].by = flight[k].by, flight'[k].sent = flight[k].sent, flight'[k].waits = flight[k].waits,
         live' \subseteq Token,
         Known(live', row, flight, call, logins), Buried(live', flight, call),
         u \in Token => Issued(u, logins),
         u = Dead => Revoked(flight[k].sent, live'),
         spoilt' \subseteq Family,
         UNCHANGED <<row, logins, memo, lane, call>>
  PROVE  IInv'
<1> USE DEF IInv
<1>1. TypeOK'
  BY DEF TypeOK
<1>2. Turns(lane, flight')
  BY DEF Turns
<1>3. Shared(flight', call)
  BY DEF Shared
<1>4. Known(live', row, flight', call, logins) /\ Buried(live', flight', call)
  <2>1. Issued(flight'[k].sent, logins)
    BY DEF Known
  <2>2. flight'[k].got = Dead => Revoked(flight'[k].sent, live')
    OBVIOUS
  <2> QED
    BY <2>1, <2>2, FlightKnown
<1> QED
  BY <1>1, <1>2, <1>3, <1>4

LEMMA SendKeeps ==
  ASSUME IInv, NEW k \in Connections, Send(k)
  PROVE  IInv'
<1>1. /\ flight[k] # NULL /\ Head(lane) = k
      /\ flight' = [flight EXCEPT ![k].at = "net"]
      /\ UNCHANGED <<row, logins, live, memo, lane, call, spoilt>>
  BY DEF Send, In
<1>2. flight[k] \in Flight /\ flight \in [Connections -> Flight \cup {NULL}]
  BY <1>1 DEF IInv, TypeOK
<1>3. /\ flight' \in [Connections -> Flight \cup {NULL}]
      /\ \A j \in Connections : j # k => flight'[j] = flight[j]
      /\ flight'[k] # NULL /\ flight'[k].at = "net"
      /\ flight'[k].by = flight[k].by /\ flight'[k].sent = flight[k].sent /\ flight'[k].got = flight[k].got
      /\ flight'[k].waits = flight[k].waits
  BY <1>1, <1>2, NoToken DEF Flight
<1>4. /\ flight[k].got \in Token \cup {NULL, Dead}
      /\ flight[k].got \in Token => Issued(flight[k].got, logins)
      /\ flight[k].got = Dead => Revoked(flight[k].sent, live)
  BY <1>1, <1>2, FlightFields DEF IInv, Known, Buried
<1>5. live \subseteq Token /\ spoilt \subseteq Family
      /\ Known(live, row, flight, call, logins) /\ Buried(live, flight, call)
  BY DEF IInv, TypeOK
<1> QED
  BY <1>1, <1>3, <1>4, <1>5, RefreshKeeps

\* The head of the lane has its answer.
LEMMA AnsweredKeeps ==
  ASSUME IInv, NEW k \in Connections, In(k, "net"),
         NEW u \in Token \cup {NULL, Dead}, Answered(k, u),
         live' \subseteq Token,
         Known(live', row, flight, call, logins), Buried(live', flight, call),
         u \in Token => Issued(u, logins),
         u = Dead => Revoked(flight[k].sent, live'),
         spoilt' \subseteq Family,
         UNCHANGED <<row, logins, memo, lane, call>>
  PROVE  IInv'
<1>1. /\ flight[k] # NULL
      /\ flight' = [flight EXCEPT ![k].at = "settle", ![k].got = u]
  BY DEF In, Answered
<1>2. flight[k] \in Flight /\ flight \in [Connections -> Flight \cup {NULL}]
  BY <1>1 DEF IInv, TypeOK
<1>3. /\ flight' \in [Connections -> Flight \cup {NULL}]
      /\ \A j \in Connections : j # k => flight'[j] = flight[j]
      /\ flight'[k] # NULL /\ flight'[k].at = "settle" /\ flight'[k].got = u
      /\ flight'[k].by = flight[k].by /\ flight'[k].sent = flight[k].sent
      /\ flight'[k].waits = flight[k].waits
  BY <1>1, <1>2, NoToken DEF Flight
<1>4. Head(lane) = k
  BY DEF IInv, In, Turns, Busy
<1> QED
  BY <1>1, <1>3, <1>4, RefreshKeeps

\* A rotation leaves no token of a login to come and revives no family.
LEMMA RotateKeeps ==
  ASSUME IInv, NEW t \in Token, Rotate(t)
  PROVE  /\ live' \subseteq Token
         /\ Known(live', row, flight, call, logins)
         /\ Buried(live', flight, call)
         /\ Issued(Successor(t), logins)
<1>1. t \in live /\ live' = (live \ {t}) \cup {Successor(t)} /\ Issued(t, logins)
  BY DEF Rotate, IInv, Known
<1>2. /\ Successor(t) \in Token /\ FamilyOf(Successor(t)) = FamilyOf(t)
      /\ \A n : Issued(t, n) => Issued(Successor(t), n)
  BY SuccessorProperties
<1>3. Known(live', row, flight, call, logins) /\ Buried(live', flight, call)
  <2>1. \A v \in live' : \E u \in live : FamilyOf(v) = FamilyOf(u) /\ (Issued(u, logins) => Issued(v, logins))
    BY <1>1, <1>2
  <2> QED
    BY <2>1, LiveKnown DEF IInv
<1> QED
  BY <1>1, <1>2, <1>3 DEF IInv, TypeOK

LEMMA GrantedKeeps ==
  ASSUME IInv, NEW k \in Connections, Granted(k)
  PROVE  IInv'
<1> DEFINE t == flight[k].sent
           u == Successor(t)
<1>1. /\ In(k, "net") /\ Rotate(t) /\ Answered(k, u)
      /\ UNCHANGED <<row, logins, memo, lane, call, spoilt>>
  BY DEF Granted
<1>2. t \in Token
  BY <1>1, FlightFields DEF In, IInv, TypeOK
<1>3. u \in Token /\ u # Dead
  BY <1>2, SuccessorProperties, NoToken
<1>4. spoilt \subseteq Family
  BY DEF IInv, TypeOK
<1>5. live' \subseteq Token /\ Known(live', row, flight, call, logins) /\ Buried(live', flight, call)
      /\ Issued(u, logins)
  BY <1>1, <1>2, RotateKeeps
<1> HIDE DEF u
<1> QED
  BY <1>1, <1>3, <1>4, <1>5, AnsweredKeeps

LEMMA AnswerLostKeeps ==
  ASSUME IInv, NEW k \in Connections, AnswerLost(k)
  PROVE  IInv'
<1> DEFINE t == flight[k].sent
<1>1. /\ In(k, "net") /\ Rotate(t) /\ Answered(k, NULL)
      /\ spoilt' = spoilt \cup {FamilyOf(t)}
      /\ UNCHANGED <<row, logins, memo, lane, call>>
  BY DEF AnswerLost
<1>2. t \in Token
  BY <1>1, FlightFields DEF In, IInv, TypeOK
<1>3. spoilt' \subseteq Family
  BY <1>1, <1>2, SuccessorProperties DEF IInv, TypeOK
<1>4. live' \subseteq Token /\ Known(live', row, flight, call, logins) /\ Buried(live', flight, call)
  BY <1>1, <1>2, RotateKeeps
<1> QED
  BY <1>1, <1>3, <1>4, NoToken, AnsweredKeeps

LEMMA FailedKeeps ==
  ASSUME IInv, NEW k \in Connections, Failed(k)
  PROVE  IInv'
<1>1. /\ In(k, "net") /\ Answered(k, NULL)
      /\ UNCHANGED <<row, logins, live, memo, lane, call, spoilt>>
  BY DEF Failed
<1>2. live' \subseteq Token /\ spoilt' \subseteq Family
      /\ Known(live', row, flight, call, logins) /\ Buried(live', flight, call)
  BY <1>1 DEF IInv, TypeOK
<1> QED
  BY <1>1, <1>2, NoToken, AnsweredKeeps

LEMMA RefusedKeeps ==
  ASSUME IInv, NEW k \in Connections, Refused(k)
  PROVE  IInv'
<1> DEFINE t == flight[k].sent
<1>1. /\ In(k, "net") /\ Answered(k, Dead)
      /\ live' = {u \in live : FamilyOf(u) # FamilyOf(t)}
      /\ UNCHANGED <<row, logins, memo, lane, call, spoilt>>
  BY DEF Refused
<1>2. live' \subseteq live /\ Revoked(t, live')
  BY <1>1 DEF Revoked
<1>3. live' \subseteq Token /\ spoilt' \subseteq Family
  BY <1>1, <1>2 DEF IInv, TypeOK
<1>4. Known(live', row, flight, call, logins) /\ Buried(live', flight, call)
  BY <1>2, LiveKnown DEF IInv
<1> QED
  BY <1>1, <1>2, <1>3, <1>4, NoToken, AnsweredKeeps
LEMMA FinishKeeps ==
  ASSUME IInv, NEW k \in Connections, Finish(k)
  PROVE  IInv'
<1> USE DEF IInv
<1> DEFINE f == flight[k]
           u == f.got
           p == u \in Token /\ Persists(k, f.kind, f.want)
           ran(c) == call[c].ran \/ (p /\ c = f.by)
           after(c) == IF u = NULL THEN AfterNull(c)
                       ELSE IF u = Dead THEN AfterDead(c, f.sent)
                       ELSE AfterToken(c, u, ran(c))
           later(c) == [call[c] EXCEPT !.ran = TRUE, !.tok = u]
           new(c) == IF c \in f.waits THEN after(c)
                     ELSE IF c = f.by /\ p /\ call[c] # NULL /\ f.kind = "reactive" THEN later(c)
                     ELSE call[c]
<1>1. /\ f # NULL /\ f.at = "settle"
      /\ memo' = IF u \in Token THEN memo \cup {f.sent} ELSE memo
      /\ lane' = Tail(lane)
      /\ flight' = [flight EXCEPT ![k] = NULL]
      /\ UNCHANGED <<logins, live>>
  BY DEF Finish, In
<1>2. IF p THEN Store(k, u, {row[k].active})
      ELSE /\ UNCHANGED row
           /\ spoilt' = IF u \in Token /\ f.kind = "reactive" /\ \A c \in f.waits : after(c) = NULL
                        THEN spoilt \cup {FamilyOf(u)} ELSE spoilt
  BY DEF Finish
<1>3. call' = [c \in Callers |-> new(c)]
  BY DEF Finish
<1>4. f \in Flight /\ f.by \in Callers /\ f.sent \in Token /\ u \in Token \cup {NULL, Dead}
      /\ f.waits \subseteq Callers
  BY <1>1, FlightFields DEF TypeOK
<1>5. /\ u \in Token => Issued(u, logins) /\ FamilyOf(u) \in Family
      /\ u = Dead => Revoked(f.sent, live)
      /\ Issued(f.sent, logins)
  BY <1>1, SuccessorProperties DEF Known, Buried
<1>6. ASSUME NEW c \in Callers
      PROVE  /\ new(c) \in Call \cup {NULL}
             /\ new(c) # NULL => Issued(new(c).tok, logins)
             /\ new(c) # NULL /\ new(c).at = "dead" => Revoked(new(c).tok, live)
             /\ c \notin f.waits => /\ new(c) = NULL <=> call[c] = NULL
                                    /\ new(c) # NULL => new(c).at = call[c].at
             /\ Of[c] # k => new(c) = call[c]
  <2>1. CASE c \in f.waits
    <3>1. call[c] \in Call /\ Of[c] = k /\ Issued(call[c].tok, logins)
      BY <2>1, <1>1 DEF Shared, TypeOK, Known
    <3>2. new(c) = after(c)
      BY <2>1
    <3>3. /\ after(c) \in Call \cup {NULL}
          /\ after(c) # NULL => Issued(after(c).tok, logins)
          /\ after(c) # NULL /\ after(c).at = "dead" => Revoked(after(c).tok, live)
      <4>1. CASE u = NULL
        <5>1. after(c) = AfterNull(c)
          BY <4>1
        <5> QED
          BY <5>1, <3>1, AfterNullProperties
      <4>2. CASE u = Dead
        <5>1. after(c) = AfterDead(c, f.sent)
          BY <4>2, NoToken
        <5> HIDE DEF f
        <5> QED
          BY <5>1, <4>2, <3>1, <1>4, <1>5, AfterDeadProperties
      <4>3. CASE u \in Token
        <5>1. after(c) = AfterToken(c, u, ran(c))
          BY <4>3, NoToken
        <5>2. ran(c) \in BOOLEAN
          <6>1. call[c].ran \in BOOLEAN
            BY <3>1, CallFields
          <6>2. (p /\ c = f.by) \in BOOLEAN
            OBVIOUS
          <6> HIDE DEF p
          <6> QED
            BY <6>1, <6>2
        <5> HIDE DEF ran, u
        <5> QED
          BY <5>1, <5>2, <4>3, <3>1, <1>5, AfterTokenProperties
      <4> QED
        BY <4>1, <4>2, <4>3, <1>4
    <3> HIDE DEF new, after
    <3> QED
      BY <2>1, <3>1, <3>2, <3>3
  <2>2. CASE c \notin f.waits /\ c = f.by /\ p /\ call[c] # NULL /\ f.kind = "reactive"
    <3>1. call[c] \in Call /\ Of[c] = k /\ call[c].at \in {"loaded", "waiting"}
      BY <2>2, <1>1 DEF Shared, TypeOK
    <3>2. new(c) = later(c)
      BY <2>2
    <3>3. u \in Token
      BY <2>2
    <3>4. later(c) \in Call /\ later(c).tok = u /\ later(c).at = call[c].at
      <4> HIDE DEF u
      <4> QED
        BY <3>1, <3>3 DEF Call
    <3>5. later(c) # NULL
      BY <3>4, NoToken
    <3> HIDE DEF new, later, u
    <3> QED
      BY <2>2, <3>1, <3>2, <3>3, <3>4, <3>5, <1>5
  <2>3. CASE c \notin f.waits /\ ~(c = f.by /\ p /\ call[c] # NULL /\ f.kind = "reactive")
    <3>1. new(c) = call[c]
      BY <2>3
    <3> HIDE DEF new
    <3> QED
      BY <2>3, <3>1 DEF TypeOK, Known, Buried
  <2> QED
    BY <2>1, <2>2, <2>3
<1>7. /\ row' \in [Connections -> Row]
      /\ spoilt' \subseteq Family
      /\ \A j \in Connections : row'[j].rt # NULL => Issued(row'[j].rt, logins)
  <2>1. CASE p
    <3>1. Store(k, u, {row[k].active}) /\ u \in Token /\ {row[k].active} \in SUBSET BOOLEAN
      BY <2>1, <1>2 DEF TypeOK, Row
    <3> HIDE DEF u
    <3>2. /\ row' \in [Connections -> Row] /\ row'[k].rt = u
          /\ \A j \in Connections : j # k => row'[j] = row[j]
          /\ spoilt' \subseteq Family
      BY <3>1, StoreProperties
    <3> QED
      BY <3>1, <3>2, <1>5 DEF Known
  <2>2. CASE ~p
    <3>1. UNCHANGED row /\ spoilt' \in {spoilt, spoilt \cup {FamilyOf(u)}}
          /\ (spoilt' # spoilt => u \in Token)
      BY <2>2, <1>2
    <3> HIDE DEF u, p
    <3> QED
      BY <3>1, <1>5 DEF TypeOK, Known
  <2> QED
    BY <2>1, <2>2
<1> HIDE DEF new, after, ran, later, p
<1>8. /\ call' \in [Callers -> Call \cup {NULL}]
      /\ \A c \in Callers : call'[c] = new(c)
  BY <1>3, <1>6
<1>9. /\ flight' \in [Connections -> Flight \cup {NULL}] /\ flight'[k] = NULL
      /\ \A j \in Connections : j # k => flight'[j] = flight[j]
  BY <1>1 DEF TypeOK
<1>10. lane' \in Seq(Connections) /\ Turns(lane', flight')
  <2>1. flight[k].at \in Busy
    BY <1>1 DEF Busy
  <2>2. lane \in Seq(Connections) /\ Turns(lane, flight) /\ flight[k] # NULL
    BY <1>1 DEF TypeOK
  <2>3. Tail(lane) \in Seq(Connections) /\ Turns(Tail(lane), flight')
    <3> HIDE DEF IInv, f, u
    <3> QED
      BY <2>1, <2>2, <1>9, TurnsLeft
  <2> QED
    BY <2>3, <1>1
<1>11. TypeOK'
  BY <1>1, <1>4, <1>7, <1>8, <1>9, <1>10 DEF TypeOK
<1>12. Shared(flight', call')
  <2> SUFFICES ASSUME NEW j \in Connections, flight'[j] # NULL
               PROVE  /\ Of[flight'[j].by] = j
                      /\ call'[flight'[j].by] = NULL \/ call'[flight'[j].by].at \in {"loaded", "waiting"}
                      /\ \A d \in flight'[j].waits : Of[d] = j /\ call'[d] # NULL /\ call'[d].at = "waiting"
    BY DEF Shared
  <2>1. j # k /\ flight'[j] = flight[j] /\ flight[j].by \in Callers /\ flight[j].waits \subseteq Callers
    BY <1>9, FlightFields DEF TypeOK
  <2>2. Of[flight[j].by] = j
        /\ (call[flight[j].by] = NULL \/ call[flight[j].by].at \in {"loaded", "waiting"})
        /\ \A d \in flight[j].waits : Of[d] = j /\ call[d] # NULL /\ call[d].at = "waiting"
    BY <2>1, <1>9 DEF Shared
  <2>3. \A d \in Callers : Of[d] = j => call'[d] = call[d]
    BY <2>1, <1>6, <1>8
  <2> QED
    BY <2>1, <2>2, <2>3
<1>13. Known(live, row', flight', call', logins) /\ Buried(live, flight', call')
  BY <1>6, <1>7, <1>8, <1>9 DEF Known, Buried
<1> QED
  BY <1>1, <1>10, <1>11, <1>12, <1>13

LEMMA ExpireKeeps ==
  ASSUME IInv, NEW k \in Connections, Expire(k)
  PROVE  IInv'
<1> USE DEF IInv
<1>1. /\ row' = [row EXCEPT ![k].fresh = FALSE]
      /\ UNCHANGED <<logins, live, memo, lane, flight, call, spoilt>>
  BY DEF Expire
<1>2. row[k] \in Row
  BY DEF TypeOK
<1> DEFINE r == [row[k] EXCEPT !.fresh = FALSE]
<1>3. r \in Row /\ r.rt = row[k].rt
  BY <1>2 DEF Row
<1>4. row' = [row EXCEPT ![k] = r]
  BY <1>1
<1> HIDE DEF r
<1>5. row' \in [Connections -> Row] /\ row'[k].rt = row[k].rt
      /\ \A j \in Connections : j # k => row'[j] = row[j]
  BY <1>3, <1>4 DEF TypeOK
<1>6. Known(live, row', flight, call, logins)
  BY <1>5 DEF Known
<1> QED
  BY <1>1, <1>5, <1>6 DEF TypeOK

LEMMA ForgetKeeps ==
  ASSUME IInv, NEW t \in memo, Forget(t)
  PROVE  IInv'
<1>1. /\ memo' = memo \ {t}
      /\ UNCHANGED <<row, logins, live, lane, flight, call, spoilt>>
  BY DEF Forget
<1> QED
  BY <1>1 DEF IInv, TypeOK

LEMMA LoginKeeps ==
  ASSUME IInv, NEW k \in Connections, Login(k)
  PROVE  IInv'
<1> USE DEF IInv
<1> DEFINE n == logins[k] + 1
           t == FirstToken(k, n)
           r == [rt |-> t, fresh |-> TRUE, active |-> TRUE]
<1>1. /\ logins' = [logins EXCEPT ![k] = @ + 1]
      /\ live' = live \cup {t}
      /\ row' = [row EXCEPT ![k] = r]
      /\ UNCHANGED <<memo, lane, flight, call, spoilt>>
  BY DEF Login
<1>2. logins[k] \in Nat \ {0} /\ n \in Nat \ {0}
  BY DEF TypeOK
<1>3. /\ logins' \in [Connections -> Nat \ {0}] /\ logins'[k] = n
      /\ \A j \in Connections : logins[j] <= logins'[j]
      /\ \A j \in Connections : logins[j] \in Nat /\ logins'[j] \in Nat
  BY <1>1, <1>2 DEF TypeOK
<1>4. logins[k] < n
  BY <1>2
<1>5. t \in Token /\ t.of = k /\ t.login = n
  BY <1>2, FirstTokenProperties
<1> HIDE DEF n, t
<1>6. r \in Row /\ r.rt = t
  BY <1>5 DEF Row
<1> HIDE DEF r
<1>7. TypeOK'
  BY <1>1, <1>3, <1>5, <1>6 DEF TypeOK
<1>8. ASSUME NEW v \in Token, Issued(v, logins)
      PROVE  Issued(v, logins') /\ FamilyOf(t) # FamilyOf(v)
  <2>1. v.of \in Connections /\ v.login \in Nat
    BY SuccessorProperties
  <2>2. Issued(v, logins')
    BY <2>1, <1>3, <1>8 DEF Issued
  <2>3. v.of = k => v.login # n
    <3>1. v.login <= logins[v.of]
      BY <1>8 DEF Issued
    <3> QED
      BY <3>1, <2>1, <1>2, <1>4
  <2> QED
    BY <2>2, <2>3, <1>5 DEF FamilyOf
<1>9. Issued(t, logins')
  BY <1>3, <1>5 DEF Issued
<1>10. Known(live', row', flight, call, logins')
  <2>1. \A v \in live' : Issued(v, logins')
    BY <1>1, <1>8, <1>9 DEF TypeOK, Known
  <2>2. ASSUME NEW j \in Connections, row'[j].rt # NULL
        PROVE  Issued(row'[j].rt, logins')
    <3>1. CASE j = k
      BY <3>1, <1>1, <1>6, <1>9 DEF TypeOK
    <3>2. CASE j # k
      <4>1. row'[j] = row[j] /\ row[j].rt \in Token /\ Issued(row[j].rt, logins)
        BY <3>2, <2>2, <1>1 DEF TypeOK, Row, Known
      <4> QED
        BY <4>1, <1>8
    <3> QED
      BY <3>1, <3>2
  <2>3. ASSUME NEW j \in Connections, flight[j] # NULL
        PROVE  /\ Issued(flight[j].sent, logins')
               /\ flight[j].got \in Token => Issued(flight[j].got, logins')
    <3>1. flight[j].sent \in Token
      BY <2>3, FlightFields DEF TypeOK
    <3> QED
      BY <3>1, <2>3, <1>8 DEF Known
  <2>4. ASSUME NEW c \in Callers, call[c] # NULL
        PROVE  Issued(call[c].tok, logins')
    <3>1. call[c].tok \in Token
      BY <2>4, CallFields DEF TypeOK
    <3> QED
      BY <3>1, <2>4, <1>8 DEF Known
  <2> QED
    BY <2>1, <2>2, <2>3, <2>4 DEF Known
<1>11. Buried(live', flight, call)
  <2>1. ASSUME NEW v \in Token, Issued(v, logins), Revoked(v, live)
        PROVE  Revoked(v, live')
    BY <2>1, <1>1, <1>8 DEF Revoked
  <2>2. \A j \in Connections : flight[j] # NULL => flight[j].sent \in Token
    BY FlightFields DEF TypeOK
  <2>3. \A c \in Callers : call[c] # NULL => call[c].tok \in Token
    BY CallFields DEF TypeOK
  <2> QED
    BY <2>1, <2>2, <2>3 DEF Buried, Known
<1> QED
  BY <1>1, <1>7, <1>10, <1>11

LEMMA RestartKeeps ==
  ASSUME IInv, Restart
  PROVE  IInv'
<1> USE DEF IInv
<1> DEFINE F == {FamilyOf(flight[k].got) : k \in {j \in Connections : flight[j] # NULL /\ flight[j].got \in Token}}
           G == {FamilyOf(call[c].tok) : c \in {d \in Callers : call[d] # NULL /\ call[d].at = "writing"
                                                               /\ call[d].tok # row[Of[d]].rt}}
<1>1. /\ spoilt' = spoilt \cup F \cup G
      /\ memo' = {} /\ lane' = <<>>
      /\ flight' = [k \in Connections |-> NULL]
      /\ call' = [c \in Callers |-> NULL]
      /\ UNCHANGED <<row, logins, live>>
  BY DEF Restart
<1>2. F \subseteq Family
  BY SuccessorProperties
<1>3. G \subseteq Family
  <2>1. \A c \in Callers : call[c] # NULL => FamilyOf(call[c].tok) \in Family
    BY CallFields, SuccessorProperties DEF TypeOK
  <2> QED
    BY <2>1
<1> HIDE DEF F, G
<1>4. TypeOK'
  BY <1>1, <1>2, <1>3 DEF TypeOK
<1>5. Turns(lane', flight') /\ Shared(flight', call')
  BY <1>1 DEF Turns, Shared
<1>6. Known(live', row', flight', call', logins') /\ Buried(live', flight', call')
  BY <1>1 DEF Known, Buried
<1> QED
  BY <1>4, <1>5, <1>6

LEMMA StepKeeps == IInv /\ [Next]_vars => IInv'
<1> SUFFICES ASSUME IInv, [Next]_vars PROVE IInv'
  OBVIOUS
<1>1. ASSUME NEW c \in Callers, Load(c) \/ CallerStep(c) \/ GiveUp(c)
      PROVE  IInv'
  BY <1>1, LoadKeeps, JoinKeeps, RedirectedKeeps, UseStoredKeeps, LeadKeeps, WriteKeeps,
     DeactivateKeeps, GiveUpKeeps DEF CallerStep
<1>2. ASSUME NEW k \in Connections, RefreshStep(k) \/ Expire(k) \/ Login(k)
      PROVE  IInv'
  BY <1>2, SendKeeps, GrantedKeeps, AnswerLostKeeps, FailedKeeps, RefusedKeeps, FinishKeeps,
     ExpireKeeps, LoginKeeps DEF RefreshStep
<1>3. CASE UNCHANGED vars
  BY <1>3 DEF vars, IInv, TypeOK
<1> QED
  BY <1>1, <1>2, <1>3, ForgetKeeps, RestartKeeps DEF Next

LEMMA Invariance == Spec => []IInv
<1> QED
  BY InitInvariant, StepKeeps, PTL DEF Spec
-----------------------------------------------------------------------------
(* Nobody waits in vain. *)

\* Who waits is told; the converse is part of Shared.
Told(fl, cl) ==
  \A c \in Callers : cl[c] # NULL /\ cl[c].at = "waiting" =>
    fl[Of[c]] # NULL /\ c \in fl[Of[c]].waits

\* A caller goes on that does not wait afterwards.
LEMMA CallerTold ==
  ASSUME IInv, Told(flight, call), NEW c \in Callers, NEW q \in Call \cup {NULL},
         q # NULL => q.at # "waiting",
         call' = [call EXCEPT ![c] = q], UNCHANGED flight
  PROVE  Told(flight', call')
<1>1. call'[c] = q /\ \A d \in Callers : d # c => call'[d] = call[d]
  BY DEF IInv, TypeOK
<1> QED
  BY <1>1 DEF Told

\* A refresh goes on with the same waiters.
LEMMA RefreshTold ==
  ASSUME IInv, Told(flight, call), NEW k \in Connections, flight[k] # NULL, NEW f \in Flight,
         f.waits = flight[k].waits, flight' = [flight EXCEPT ![k] = f], UNCHANGED call
  PROVE  Told(flight', call')
<1>1. flight'[k] = f /\ f # NULL /\ \A j \in Connections : j # k => flight'[j] = flight[j]
  BY NoToken DEF IInv, TypeOK
<1>2. \A c \in Callers : Of[c] \in Connections
  BY CallersType
<1> QED
  BY <1>1, <1>2 DEF Told

LEMMA AskingTold ==
  ASSUME IInv, Told(flight, call), NEW c \in Callers,
         Load(c) \/ Redirected(c) \/ UseStored(c) \/ Write(c) \/ Deactivate(c)
  PROVE  Told(flight', call')
<1>1. Of[c] \in Connections /\ (call[c] # NULL => call[c] \in Call)
  BY CallersType DEF IInv, TypeOK
<1>2. CASE Load(c)
  <2>1. PICK kind \in Roles[c] :
          call' = [call EXCEPT ![c] = [kind |-> kind, at |-> "loaded", tok |-> row[Of[c]].rt,
                                       want |-> row[Of[c]].rt, ran |-> FALSE, tries |-> 1]]
    BY <1>2 DEF Load
  <2> DEFINE q == [kind |-> kind, at |-> "loaded", tok |-> row[Of[c]].rt,
                   want |-> row[Of[c]].rt, ran |-> FALSE, tries |-> 1]
  <2>2. kind \in Kinds /\ row[Of[c]].rt \in Token /\ 1 \in 1..Attempts
    <3>1. kind \in Kinds
      BY <1>2, CallersType
    <3>2. row[Of[c]].rt \in Token
      BY <1>1, <1>2 DEF Load, IInv, TypeOK, Row
    <3>3. 1 \in 1..Attempts
      BY BoundsType
    <3> QED
      BY <3>1, <3>2, <3>3
  <2>3. q \in Call /\ q.at = "loaded"
    BY <2>2 DEF Call
  <2>4. call' = [call EXCEPT ![c] = q] /\ UNCHANGED flight
    BY <1>2, <2>1 DEF Load
  <2> HIDE DEF q
  <2> QED
    BY <2>3, <2>4, CallerTold
<1>3. CASE Redirected(c) \/ UseStored(c)
  <2> DEFINE p == call[c].ran \/ Persists(Of[c], call[c].kind, call[c].want)
  <2>1. PICK u : /\ u \in {Successor(call[c].tok), row[Of[c]].rt} /\ u # NULL
                 /\ call' = [call EXCEPT ![c] = AfterToken(c, u, p)]
                 /\ call[c] # NULL /\ UNCHANGED flight
    <3>1. CASE Redirected(c)
      <4>1. Successor(call[c].tok) # NULL
        BY <1>1, <3>1, CallFields, SuccessorProperties, NoToken DEF Redirected, Asking
      <4> QED
        BY <3>1, <4>1 DEF Redirected, Asking
    <3>2. CASE UseStored(c)
      BY <3>2 DEF UseStored, Asking
    <3> QED
      BY <1>3, <3>1, <3>2
  <2>2. u \in Token /\ p \in BOOLEAN
    <3>1. call[c].tok \in Token /\ call[c].ran \in BOOLEAN /\ row[Of[c]].rt \in Token \cup {NULL}
      BY <1>1, <2>1, CallFields DEF IInv, TypeOK, Row
    <3>2. Persists(Of[c], call[c].kind, call[c].want) \in BOOLEAN
      BY DEF Persists
    <3> QED
      BY <2>1, <3>1, <3>2, SuccessorProperties
  <2> HIDE DEF p
  <2> QED
    BY <1>1, <2>1, <2>2, AfterTokenProperties, CallerTold
<1>4. CASE Write(c) \/ Deactivate(c)
  BY <1>4, CallerTold DEF Write, Deactivate
<1> QED
  BY <1>2, <1>3, <1>4

LEMMA WaitingTold ==
  ASSUME IInv, Told(flight, call), NEW c \in Callers, Join(c) \/ Lead(c) \/ GiveUp(c)
  PROVE  Told(flight', call')
<1> DEFINE k == Of[c]
<1>1. /\ k \in Connections /\ \A d \in Callers : Of[d] \in Connections
      /\ call[c] # NULL /\ call[c] \in Call
      /\ call \in [Callers -> Call \cup {NULL}] /\ flight \in [Connections -> Flight \cup {NULL}]
  BY CallersType DEF IInv, TypeOK, Join, Lead, GiveUp, Asking
<1>2. CASE Join(c) \/ GiveUp(c)
  <2>1. PICK w : /\ flight[k] # NULL /\ flight' = [flight EXCEPT ![k].waits = w]
                 /\ flight[k].waits \ {c} \subseteq w /\ w \subseteq flight[k].waits \cup {c}
                 /\ \/ w = flight[k].waits \cup {c}
                       /\ call' = [call EXCEPT ![c].at = "waiting"]
                    \/ call' = [call EXCEPT ![c] = AfterNull(c)]
    <3>1. CASE Join(c)
      <4>1. /\ flight[k] # NULL
            /\ flight' = [flight EXCEPT ![k].waits = flight[k].waits \cup {c}]
            /\ call' = [call EXCEPT ![c].at = "waiting"]
        BY <3>1 DEF Join
      <4> QED
        BY <4>1
    <3>2. CASE GiveUp(c)
      <4>1. /\ flight[k] # NULL
            /\ flight' = [flight EXCEPT ![k].waits = flight[k].waits \ {c}]
            /\ call' = [call EXCEPT ![c] = AfterNull(c)]
        BY <3>2 DEF GiveUp
      <4> QED
        BY <4>1
    <3> QED
      BY <1>2, <3>1, <3>2
  <2>2. /\ flight'[k] # NULL /\ flight'[k].waits = w
        /\ \A j \in Connections : j # k => flight'[j] = flight[j]
    <3>1. flight[k] \in Flight
      BY <1>1, <2>1
    <3> DEFINE f == [flight[k] EXCEPT !.waits = w]
    <3>2. f.waits = w /\ f \in Flight
      BY <2>1, <3>1, FlightFields DEF Flight
    <3>3. flight'[k] = f
      BY <1>1, <2>1
    <3> HIDE DEF f
    <3> QED
      BY <1>1, <2>1, <3>2, <3>3, NoToken
  <2>3. /\ \A d \in Callers : d # c => call'[d] = call[d]
        /\ call'[c] # NULL /\ call'[c].at = "waiting" => c \in w
    <3>1. CASE w = flight[k].waits \cup {c} /\ call' = [call EXCEPT ![c].at = "waiting"]
      BY <1>1, <3>1
    <3>2. CASE call' = [call EXCEPT ![c] = AfterNull(c)]
      BY <1>1, <3>2, AfterNullProperties
    <3> QED
      BY <2>1, <3>1, <3>2
  <2> QED
    BY <1>1, <2>1, <2>2, <2>3 DEF Told
<1>3. CASE Lead(c)
  <2> DEFINE f == [by |-> c, kind |-> call[c].kind, at |-> "lane", want |-> call[c].want,
                   sent |-> Presented(c), got |-> NULL, waits |-> {c}]
  <2>1. flight[k] = NULL /\ flight' = [flight EXCEPT ![k] = f]
    BY <1>3 DEF Lead
  <2>2. \A d \in Callers : d # c => call'[d] = call[d]
    <3>1. call' = [call EXCEPT ![c].at = "waiting", ![c].tok = Presented(c)]
      BY <1>3 DEF Lead
    <3> QED
      BY <1>1, <3>1
  <2>3. f \in Flight /\ f.waits = {c}
    <3>1. Presented(c) \in Token
      BY <1>1, CallFields DEF Presented, IInv, TypeOK, Row
    <3>2. call[c].kind \in Kinds /\ call[c].want \in Token
      BY <1>1, CallFields
    <3> QED
      BY <3>1, <3>2 DEF Flight
  <2> HIDE DEF f
  <2>4. flight'[k] = f /\ \A j \in Connections : j # k => flight'[j] = flight[j]
    BY <1>1, <2>1
  <2> QED
    BY <1>1, <2>1, <2>2, <2>3, <2>4, NoToken DEF Told
<1> QED
  BY <1>2, <1>3

LEMMA FinishTold ==
  ASSUME IInv, Told(flight, call), NEW k \in Connections, Finish(k)
  PROVE  Told(flight', call')
<1> DEFINE f == flight[k]
           u == f.got
           p == u \in Token /\ Persists(k, f.kind, f.want)
           ran(c) == call[c].ran \/ (p /\ c = f.by)
           after(c) == IF u = NULL THEN AfterNull(c)
                       ELSE IF u = Dead THEN AfterDead(c, f.sent)
                       ELSE AfterToken(c, u, ran(c))
           later(c) == [call[c] EXCEPT !.ran = TRUE, !.tok = u]
           new(c) == IF c \in f.waits THEN after(c)
                     ELSE IF c = f.by /\ p /\ call[c] # NULL /\ f.kind = "reactive" THEN later(c)
                     ELSE call[c]
<1>1. f # NULL /\ flight' = [flight EXCEPT ![k] = NULL] /\ call' = [c \in Callers |-> new(c)]
  BY DEF Finish, In
<1>2. f \in Flight /\ f.sent \in Token /\ u \in Token \cup {NULL, Dead}
  BY <1>1, FlightFields DEF IInv, TypeOK
<1>3. ASSUME NEW c \in Callers, c \in f.waits
      PROVE  new(c) = NULL \/ new(c).at # "waiting"
  <2>1. call[c] \in Call
    BY <1>1, <1>3 DEF IInv, Shared, TypeOK
  <2>2. CASE u = NULL
    <3>1. new(c) = AfterNull(c)
      BY <1>3, <2>2
    <3> HIDE DEF new
    <3> QED
      BY <2>1, <3>1, AfterNullProperties
  <2>3. CASE u = Dead
    <3>1. new(c) = AfterDead(c, f.sent)
      BY <1>3, <2>3, NoToken
    <3> HIDE DEF new, f
    <3> QED
      BY <1>2, <2>1, <3>1, AfterDeadProperties
  <2>4. CASE u \in Token
    <3>1. new(c) = AfterToken(c, u, ran(c))
      BY <1>3, <2>4, NoToken
    <3>2. ran(c) \in BOOLEAN
      <4>1. call[c].ran \in BOOLEAN
        BY <2>1, CallFields
      <4>2. (p /\ c = f.by) \in BOOLEAN
        OBVIOUS
      <4> HIDE DEF p
      <4> QED
        BY <4>1, <4>2
    <3> HIDE DEF new, ran, u
    <3> QED
      BY <2>1, <2>4, <3>1, <3>2, AfterTokenProperties
  <2> QED
    BY <1>2, <2>2, <2>3, <2>4
<1>4. ASSUME NEW c \in Callers, c \notin f.waits, new(c) # NULL, new(c).at = "waiting"
      PROVE  call[c] # NULL /\ call[c].at = "waiting"
  <2>1. CASE new(c) = call[c]
    <3> HIDE DEF new
    <3> QED
      BY <1>4, <2>1
  <2>2. CASE call[c] # NULL /\ new(c) = later(c)
    <3>1. call[c] \in Call
      BY <2>2 DEF IInv, TypeOK
    <3>2. later(c).at = call[c].at
      <4> HIDE DEF u
      <4> QED
        BY <3>1 DEF Call
    <3> HIDE DEF new, later
    <3> QED
      BY <1>4, <2>2, <3>2
  <2> QED
    BY <1>4, <2>1, <2>2
<1>5. \A c \in Callers : call'[c] = new(c) /\ Of[c] \in Connections
  BY <1>1, CallersType
<1>6. \A j \in Connections : j # k => flight'[j] = flight[j]
  BY <1>1 DEF IInv, TypeOK
<1> HIDE DEF new, f
<1> QED
  BY <1>3, <1>4, <1>5, <1>6 DEF Told, f

LEMMA RefreshStepTold ==
  ASSUME IInv, Told(flight, call), NEW k \in Connections, RefreshStep(k)
  PROVE  Told(flight', call')
<1>1. flight[k] # NULL /\ flight[k] \in Flight
  BY DEF RefreshStep, Send, Granted, AnswerLost, Failed, Refused, Finish, In, IInv, TypeOK
<1>2. CASE Send(k)
  <2> DEFINE f == [flight[k] EXCEPT !.at = "net"]
  <2>1. flight' = [flight EXCEPT ![k] = f] /\ UNCHANGED call
    BY <1>2 DEF Send
  <2>2. f \in Flight /\ f.waits = flight[k].waits
    BY <1>1 DEF Flight
  <2> HIDE DEF f
  <2> QED
    BY <1>1, <2>1, <2>2, RefreshTold
<1>3. CASE Granted(k) \/ AnswerLost(k) \/ Failed(k) \/ Refused(k)
  <2>1. PICK u \in {Successor(flight[k].sent), NULL, Dead} :
          flight' = [flight EXCEPT ![k].at = "settle", ![k].got = u]
    BY <1>3 DEF Granted, AnswerLost, Failed, Refused, Answered
  <2>2. u \in Token \cup {NULL, Dead} /\ UNCHANGED call
    BY <1>1, <1>3, FlightFields, SuccessorProperties DEF Granted, AnswerLost, Failed, Refused
  <2> DEFINE f == [flight[k] EXCEPT !.at = "settle", !.got = u]
  <2>3. flight' = [flight EXCEPT ![k] = f]
    BY <2>1 DEF IInv, TypeOK
  <2>4. f \in Flight /\ f.waits = flight[k].waits
    BY <1>1, <2>2 DEF Flight
  <2> HIDE DEF f
  <2> QED
    BY <1>1, <2>2, <2>3, <2>4, RefreshTold
<1>4. CASE Finish(k)
  BY <1>4, FinishTold
<1> QED
  BY <1>2, <1>3, <1>4 DEF RefreshStep

LEMMA StepTold == IInv /\ Told(flight, call) /\ [Next]_vars => Told(flight', call')
<1> SUFFICES ASSUME IInv, Told(flight, call), [Next]_vars PROVE Told(flight', call')
  OBVIOUS
<1>1. ASSUME NEW c \in Callers, Load(c) \/ CallerStep(c) \/ GiveUp(c)
      PROVE  Told(flight', call')
  BY <1>1, AskingTold, WaitingTold DEF CallerStep
<1>2. CASE \E k \in Connections : Expire(k) \/ Login(k)
  BY <1>2 DEF Expire, Login, Told
<1>3. CASE (\E t \in memo : Forget(t)) \/ UNCHANGED vars
  BY <1>3 DEF Forget, vars, Told
<1>4. CASE Restart
  BY <1>4 DEF Restart, Told
<1> QED
  BY <1>1, <1>2, <1>3, <1>4, RefreshStepTold DEF Next

-----------------------------------------------------------------------------
(* The properties. *)

\* A refused caller's end comes with its own step, or leaves the rows alone.
LEMMA OnlyItsOwnEnd ==
  ASSUME IInv, Next, NEW c \in Callers, call[c] # NULL, call[c].at = "dead",
         call'[c] = NULL, row'[Of[c]] # row[Of[c]]
  PROVE  Deactivate(c)
<1> USE DEF IInv
<1>0. call \in [Callers -> Call \cup {NULL}]
  BY DEF TypeOK
<1>1. ASSUME NEW d \in Callers, Load(d) \/ CallerStep(d) \/ GiveUp(d)
      PROVE  Deactivate(c)
  <2>1. CASE Load(d) \/ Join(d) \/ UseStored(d) \/ Lead(d) \/ GiveUp(d)
    <3>1. UNCHANGED row
      BY <2>1 DEF Load, Join, UseStored, Lead, GiveUp
    <3> QED
      BY <3>1
  <2>2. CASE Redirected(d)
    <3>1. call[d].at = "loaded" /\ \E q : call' = [call EXCEPT ![d] = q]
      BY <2>2 DEF Redirected, Asking
    <3>2. d # c
      BY <3>1
    <3> QED
      BY <3>1, <3>2, <1>0
  <2>3. CASE Write(d)
    <3>1. call[d].at = "writing" /\ call' = [call EXCEPT ![d] = NULL]
      BY <2>3 DEF Write
    <3>2. d # c
      BY <3>1
    <3> QED
      BY <3>1, <3>2, <1>0
  <2>4. CASE Deactivate(d)
    <3>1. call' = [call EXCEPT ![d] = NULL]
      BY <2>4 DEF Deactivate
    <3>2. CASE d # c
      BY <3>1, <3>2, <1>0
    <3> QED
      BY <2>4, <3>2
  <2> QED
    BY <1>1, <2>1, <2>2, <2>3, <2>4 DEF CallerStep
<1>2. ASSUME NEW k \in Connections, RefreshStep(k) \/ Expire(k) \/ Login(k)
      PROVE  Deactivate(c)
  <2>1. CASE Send(k) \/ Granted(k) \/ AnswerLost(k) \/ Failed(k) \/ Refused(k) \/ Expire(k) \/ Login(k)
    <3>1. UNCHANGED call
      BY <2>1 DEF Send, Granted, AnswerLost, Failed, Refused, Expire, Login
    <3> QED
      BY <3>1
  <2>2. CASE Finish(k)
    <3>1. flight[k] # NULL
      BY <2>2 DEF Finish, In
    <3>2. c \notin flight[k].waits /\ c # flight[k].by
      BY <3>1 DEF Shared
    <3>3. call'[c] = call[c]
      BY <2>2, <3>2 DEF Finish
    <3> QED
      BY <3>3
  <2> QED
    BY <1>2, <2>1, <2>2 DEF RefreshStep
<1>3. ASSUME NEW t \in memo, Forget(t)
      PROVE  Deactivate(c)
  BY <1>3 DEF Forget
<1>4. CASE Restart
  BY <1>4 DEF Restart
<1> QED
  BY <1>1, <1>2, <1>3, <1>4 DEF Next

\* The lane, the refreshes, the callers and the rows have their types in every state.
THEOREM TypeCorrect == Spec => []TypeOK
<1>1. IInv => TypeOK
  BY DEF IInv
<1> QED
  BY <1>1, Invariance, PTL

\* Two accounts of a rotation group never present their tokens at the same time,
\* however many accounts and callers there are (refreshSerializer.ts:70-101).
THEOREM TurnsAreTaken == Spec => []SiblingsTakeTurns
<1>1. IInv => SiblingsTakeTurns
  BY DEF IInv, SiblingsTakeTurns, In, Turns, Busy
<1> QED
  BY <1>1, Invariance, PTL

\* Whoever waits is told by a refresh under way, and the lane holds no refresh that is
\* gone, however callers join, give up and restart (tokenRefresh.ts:523-575,
\* refreshSerializer.ts:76-101).
THEOREM WaitersAreTold == Spec => []NobodyWaitsInVain
<1> DEFINE J == IInv /\ Told(flight, call)
<1>1. Init => J
  BY InitInvariant DEF Init, Told
<1>2. J /\ [Next]_vars => J'
  BY StepKeeps, StepTold
<1>3. J => NobodyWaitsInVain
  BY DEF NobodyWaitsInVain, IInv, Turns, Told
<1> HIDE DEF J
<1> QED
  BY <1>1, <1>2, <1>3, PTL DEF Spec

\* A refusal takes the token or the activity of a connection only if the token in
\* the row is dead, or if it is the one the caller had loaded and the refusal was
\* for a token of another login (chatCore.ts:4087-4110, tokenHealthCheck.ts:1068-1132).
THEOREM LiveConnectionsKept == Spec => LiveConnectionsStayActive
<1> DEFINE Justified(c) == LET t == row[Of[c]].rt IN
                      call[c] # NULL /\ call[c].at = "dead" /\ call'[c] = NULL /\ row'[Of[c]] # row[Of[c]] =>
                        \/ t \notin live
                        \/ t = call[c].want /\ FamilyOf(t) # FamilyOf(call[c].tok)
           A == \A c \in Callers : Justified(c)
<1>1. ASSUME IInv, Next, NEW c \in Callers
      PROVE  Justified(c)
  <2> SUFFICES ASSUME call[c] # NULL, call[c].at = "dead", call'[c] = NULL, row'[Of[c]] # row[Of[c]],
                      row[Of[c]].rt \in live
               PROVE  row[Of[c]].rt = call[c].want /\ FamilyOf(row[Of[c]].rt) # FamilyOf(call[c].tok)
    OBVIOUS
  <2>1. Deactivate(c)
    BY <1>1, OnlyItsOwnEnd
  <2>2. ~RotatedSince(c)
    BY <2>1 DEF Deactivate
  <2>3. row[Of[c]].rt # NULL
    BY <1>1, NoToken DEF IInv, TypeOK
  <2>4. row[Of[c]].rt = call[c].want
    BY <2>2, <2>3 DEF RotatedSince
  <2>5. Revoked(call[c].tok, live)
    BY <1>1 DEF IInv, Buried
  <2> QED
    BY <2>4, <2>5 DEF Revoked
<1>2. IInv /\ [Next]_vars => [A]_vars
  BY <1>1
<1>3. Spec => [][A]_vars
  BY <1>2, Invariance, PTL DEF Spec
<1> QED
  BY <1>3 DEF LiveConnectionsStayActive
=============================================================================
