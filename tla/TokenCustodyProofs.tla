------------------------- MODULE TokenCustodyProofs -------------------------
(***************************************************************************)
(* Where the live token of a connection is, for any number of connections, *)
(* callers, logins and rotations.  The inductive invariant is Custody,     *)
(* next to IInv: unless its family was spoilt, the row's token is live, or *)
(* it was exchanged and the live one is in the hands of a caller about to  *)
(* write it or of the refresh under way; and what a refresh is about to    *)
(* present is live.                                                        *)
(***************************************************************************)
EXTENDS TokenRefreshProofs

\* Every token is where its account is.
Owned(rw, fl, cl) ==
  /\ \A k \in Connections : rw[k].rt # NULL => rw[k].rt.of = k
  /\ \A k \in Connections : fl[k] # NULL => fl[k].sent.of = k
  /\ \A c \in Callers : cl[c] # NULL => cl[c].tok.of = Of[c]

\* A family has one live token at most.
Single(lv) == \A t, u \in lv : FamilyOf(t) = FamilyOf(u) => t = u

\* Caller c of connection k is about to write a live token of the family of t.
Brings(c, k, t, lv, cl) ==
  /\ Of[c] = k /\ cl[c] # NULL /\ cl[c].at = "writing"
  /\ cl[c].tok \in lv /\ FamilyOf(cl[c].tok) = FamilyOf(t)

\* The live token of t's family is the row's, a caller's or the answer of f.
Traced(k, t, lv, mm, f, cl) ==
  \/ t \in lv
  \/ t \in mm /\ \E c \in Callers : Brings(c, k, t, lv, cl)
  \/ f # NULL /\ f.sent = t /\ f.got \in Token

\* What refresh f presents next to the row's token t, and what it got.
Honest(t, lv, f, cl, sp) ==
  f # NULL =>
    /\ f.got \in Token => f.at = "settle" /\ f.got \in lv /\ FamilyOf(f.got) = FamilyOf(f.sent)
    /\ f.at # "settle" /\ FamilyOf(f.sent) \notin sp =>
         f.sent \in lv /\ (t \in {NULL, f.sent} \/ FamilyOf(t) # FamilyOf(f.sent))
    /\ f.kind = "request" => f.by \in f.waits /\ cl[f.by].kind = "request"

\* Connection k with the row's token t and refresh f.
Sound(k, t, lv, mm, f, cl, sp) ==
  /\ t # NULL /\ FamilyOf(t) \notin sp => Traced(k, t, lv, mm, f, cl)
  /\ Honest(t, lv, f, cl, sp)

Custody ==
  /\ Owned(row, flight, call)
  /\ Single(live)
  /\ \A k \in Connections : Sound(k, row[k].rt, live, memo, flight[k], call, spoilt)

-----------------------------------------------------------------------------
(* Families and connections a step leaves alone. *)

\* Tokens of one family are of one account.
LEMMA FamilyOwner ==
  ASSUME NEW t, NEW u, FamilyOf(t) = FamilyOf(u)
  PROVE  t.of = u.of /\ t.login = u.login
BY DEF FamilyOf

\* A connection whose live tokens, row, refresh and writers stay is as sound as before.
LEMMA SoundKept ==
  ASSUME IInv, Custody, NEW k \in Connections,
         row'[k].rt = row[k].rt,
         \A t \in live : t.of = k => t \in live',
         row[k].rt \in memo => row[k].rt \in memo',
         \A c \in Callers : Of[c] = k /\ call[c] # NULL /\ call[c].at = "writing" => call'[c] = call[c],
         flight'[k] = NULL <=> flight[k] = NULL,
         flight[k] # NULL =>
           /\ flight'[k].at = flight[k].at /\ flight'[k].sent = flight[k].sent
           /\ flight'[k].got = flight[k].got /\ flight'[k].kind = flight[k].kind
           /\ flight'[k].by = flight[k].by
           /\ flight[k].kind = "request" /\ flight[k].by \in flight[k].waits
                => flight'[k].by \in flight'[k].waits /\ call'[flight[k].by].kind = call[flight[k].by].kind,
         spoilt \subseteq spoilt'
  PROVE  Sound(k, row'[k].rt, live', memo', flight'[k], call', spoilt')
<1> DEFINE t == row[k].rt
           f == flight[k]
<1>1. Sound(k, t, live, memo, f, call, spoilt)
  BY DEF Custody
<1>2. t # NULL => t.of = k
  BY DEF Custody, Owned
<1>3. f # NULL => f.sent.of = k
  BY DEF Custody, Owned
<1>4. ASSUME t # NULL, FamilyOf(t) \notin spoilt'
      PROVE  Traced(k, t, live', memo', flight'[k], call')
  <2>1. Traced(k, t, live, memo, f, call)
    BY <1>1, <1>4 DEF Sound
  <2>2. CASE t \in live
    BY <2>2, <1>2, <1>4 DEF Traced
  <2>3. CASE t \in memo /\ \E c \in Callers : Brings(c, k, t, live, call)
    <3>1. PICK c \in Callers : Brings(c, k, t, live, call)
      BY <2>3
    <3>2. call[c].tok.of = k /\ call'[c] = call[c]
      BY <3>1, <1>2, <1>4, FamilyOwner DEF Brings
    <3>3. Brings(c, k, t, live', call')
      BY <3>1, <3>2 DEF Brings
    <3> QED
      BY <2>3, <3>3 DEF Traced
  <2>4. CASE f # NULL /\ f.sent = t /\ f.got \in Token
    BY <2>4 DEF Traced
  <2> QED
    BY <2>1, <2>2, <2>3, <2>4 DEF Traced
<1>5. Honest(t, live', flight'[k], call', spoilt')
  <2> SUFFICES ASSUME flight'[k] # NULL
               PROVE  Honest(t, live', flight'[k], call', spoilt')
    BY DEF Honest
  <2>1. f # NULL /\ Honest(t, live, f, call, spoilt)
    BY <1>1 DEF Sound
  <2>2. f.got \in Token => f.got.of = k
    BY <2>1, <1>3, FamilyOwner DEF Honest
  <2> QED
    BY <2>1, <2>2, <1>3 DEF Honest
<1> QED
  BY <1>4, <1>5 DEF Sound

LEMMA InitCustody == Init => Custody
<1> SUFFICES ASSUME Init PROVE Custody
  OBVIOUS
<1>1. 1 \in Nat \ {0}
  OBVIOUS
<1>2. \A k \in Connections : /\ FirstToken(k, 1) \in Token /\ FirstToken(k, 1).of = k
                             /\ row[k].rt = FirstToken(k, 1) /\ FirstToken(k, 1) \in live
                             /\ flight[k] = NULL
  BY <1>1, FirstTokenProperties DEF Init
<1>3. Owned(row, flight, call)
  BY <1>2 DEF Owned, Init
<1>4. Single(live)
  BY <1>2, FamilyOwner DEF Single, Init
<1>5. \A k \in Connections : Sound(k, row[k].rt, live, memo, flight[k], call, spoilt)
  BY <1>2 DEF Sound, Traced, Honest
<1> QED
  BY <1>3, <1>4, <1>5 DEF Custody
-----------------------------------------------------------------------------
(* Steps that store and consume nothing. *)

LEMMA LoadCustody ==
  ASSUME IInv, Custody, NEW c \in Callers, Load(c)
  PROVE  Custody'
<1>1. PICK kind \in Roles[c] :
        call' = [call EXCEPT ![c] = [kind |-> kind, at |-> "loaded", tok |-> row[Of[c]].rt,
                                     want |-> row[Of[c]].rt, ran |-> FALSE, tries |-> 1]]
  BY DEF Load
<1>2. /\ UNCHANGED <<row, logins, live, memo, lane, flight, spoilt>>
      /\ call[c] = NULL
      /\ \A k \in Connections : flight[k] # NULL => flight[k].by # c
      /\ row[Of[c]].rt # NULL
  BY DEF Load
<1>3. call'[c].tok = row[Of[c]].rt /\ \A d \in Callers : d # c => call'[d] = call[d]
  BY <1>1 DEF IInv, TypeOK
<1>4. Of[c] \in Connections
  BY CallersType
<1>5. Owned(row', flight', call')
  BY <1>2, <1>3, <1>4 DEF Custody, Owned
<1>6. ASSUME NEW k \in Connections
      PROVE  Sound(k, row'[k].rt, live', memo', flight'[k], call', spoilt')
  <2>1. flight[k] # NULL => flight[k].by \in Callers /\ flight[k].by # c
    BY <1>2, FlightFields DEF IInv, TypeOK
  <2> QED
    BY <2>1, <1>2, <1>3, SoundKept
<1> QED
  BY <1>2, <1>5, <1>6 DEF Custody

LEMMA JoinCustody ==
  ASSUME IInv, Custody, NEW c \in Callers, Join(c)
  PROVE  Custody'
<1> DEFINE k == Of[c]
           w == flight[Of[c]].waits \cup {c}
           q == [call[c] EXCEPT !.at = "waiting"]
<1>1. /\ call[c] # NULL /\ call[c].at = "loaded" /\ flight[k] # NULL
      /\ flight' = [flight EXCEPT ![k].waits = w]
      /\ call' = [call EXCEPT ![c] = q]
      /\ UNCHANGED <<row, logins, live, memo, lane, spoilt>>
  BY DEF Join, Asking
<1>2. k \in Connections /\ call[c] \in Call /\ flight[k] \in Flight
      /\ flight \in [Connections -> Flight \cup {NULL}]
  BY <1>1, CallersType DEF IInv, TypeOK
<1>3. q.tok = call[c].tok /\ q.kind = call[c].kind
  BY <1>2 DEF Call
<1>4. flight[k].waits \subseteq w
  OBVIOUS
<1> HIDE DEF q, w
<1>5. call'[c] = q /\ \A d \in Callers : d # c => call'[d] = call[d]
  BY <1>1 DEF IInv, TypeOK
<1>6. /\ \A j \in Connections : j # k => flight'[j] = flight[j]
      /\ flight'[k] # NULL /\ flight'[k].at = flight[k].at /\ flight'[k].kind = flight[k].kind
      /\ flight'[k].by = flight[k].by /\ flight'[k].sent = flight[k].sent /\ flight'[k].got = flight[k].got
      /\ flight'[k].waits = w
  <2>1. w \in SUBSET Callers
    BY <1>2, FlightFields DEF w
  <2> QED
    BY <2>1, <1>1, <1>2, NoToken DEF Flight
<1>7. Owned(row', flight', call')
  BY <1>1, <1>3, <1>5, <1>6 DEF Custody, Owned
<1>8. ASSUME NEW j \in Connections
      PROVE  Sound(j, row'[j].rt, live', memo', flight'[j], call', spoilt')
  <2>1. flight[j] # NULL => flight[j].by \in Callers /\ call'[flight[j].by].kind = call[flight[j].by].kind
    BY <1>3, <1>5, FlightFields DEF IInv, TypeOK
  <2>2. CASE j = k
    BY <2>1, <2>2, <1>1, <1>4, <1>5, <1>6, SoundKept
  <2>3. CASE j # k
    BY <2>1, <2>3, <1>1, <1>5, <1>6, SoundKept
  <2> QED
    BY <2>2, <2>3
<1> QED
  BY <1>1, <1>7, <1>8 DEF Custody

LEMMA GiveUpCustody ==
  ASSUME IInv, Custody, NEW c \in Callers, GiveUp(c)
  PROVE  Custody'
<1> DEFINE k == Of[c]
           w == flight[Of[c]].waits \ {c}
           q == AfterNull(c)
<1>1. /\ call[c] # NULL /\ call[c].at = "waiting" /\ call[c].kind = "reactive" /\ flight[k] # NULL
      /\ flight' = [flight EXCEPT ![k].waits = w]
      /\ call' = [call EXCEPT ![c] = q]
      /\ UNCHANGED <<row, logins, live, memo, lane, spoilt>>
  BY DEF GiveUp
<1>2. k \in Connections /\ call[c] \in Call /\ flight[k] \in Flight
      /\ flight \in [Connections -> Flight \cup {NULL}]
  BY <1>1, CallersType DEF IInv, TypeOK
<1>3. q # NULL => q.tok = call[c].tok
  BY <1>2, AfterNullProperties
<1>4. \A d \in flight[k].waits : d # c => d \in w
  OBVIOUS
<1> HIDE DEF q, w
<1>5. call'[c] = q /\ \A d \in Callers : d # c => call'[d] = call[d]
  BY <1>1 DEF IInv, TypeOK
<1>6. /\ \A j \in Connections : j # k => flight'[j] = flight[j]
      /\ flight'[k] # NULL /\ flight'[k].at = flight[k].at /\ flight'[k].kind = flight[k].kind
      /\ flight'[k].by = flight[k].by /\ flight'[k].sent = flight[k].sent /\ flight'[k].got = flight[k].got
      /\ flight'[k].waits = w
  <2>1. w \in SUBSET Callers
    BY <1>2, FlightFields DEF w
  <2> QED
    BY <2>1, <1>1, <1>2, NoToken DEF Flight
<1>7. Owned(row', flight', call')
  BY <1>1, <1>3, <1>5, <1>6 DEF Custody, Owned
<1>8. ASSUME NEW j \in Connections
      PROVE  Sound(j, row'[j].rt, live', memo', flight'[j], call', spoilt')
  <2>1. flight[j] # NULL /\ flight[j].kind = "request" =>
          flight[j].by \in Callers /\ flight[j].by # c /\ call'[flight[j].by] = call[flight[j].by]
    <3>1. flight[j] # NULL /\ flight[j].kind = "request" =>
            flight[j].by \in Callers /\ call[flight[j].by].kind = "request"
      BY FlightFields DEF IInv, TypeOK, Custody, Sound, Honest
    <3> QED
      BY <3>1, <1>1, <1>5
  <2>2. CASE j = k
    BY <2>1, <2>2, <1>1, <1>4, <1>5, <1>6, SoundKept
  <2>3. CASE j # k
    BY <2>1, <2>3, <1>1, <1>5, <1>6, SoundKept
  <2> QED
    BY <2>2, <2>3
<1> QED
  BY <1>1, <1>7, <1>8 DEF Custody

LEMMA UseStoredCustody ==
  ASSUME IInv, Custody, NEW c \in Callers, UseStored(c)
  PROVE  Custody'
<1> DEFINE k == Of[c]
           u == row[Of[c]].rt
           p == Persists(Of[c], call[c].kind, call[c].want)
           b == call[c].ran \/ p
           q == AfterToken(c, u, b)
<1>1. /\ call[c] # NULL /\ call[c].at = "loaded" /\ flight[Of[c]] = NULL
      /\ u # NULL
      /\ call' = [call EXCEPT ![c] = q]
      /\ UNCHANGED <<row, logins, live, memo, lane, flight, spoilt>>
  BY DEF UseStored, Asking
<1>2. call[c] \in Call /\ k \in Connections /\ u \in Token
  BY <1>1, CallersType DEF IInv, TypeOK, Row
<1>3. b \in BOOLEAN
  <2>1. call[c].ran \in BOOLEAN
    BY <1>2, CallFields
  <2>2. p \in BOOLEAN
    BY DEF Persists
  <2> HIDE DEF p
  <2> QED
    BY <2>1, <2>2
<1> HIDE DEF b, p
<1>4. q # NULL => q.tok = u
  BY <1>2, <1>3, AfterTokenProperties
<1> HIDE DEF q
<1>5. call'[c] = q /\ \A d \in Callers : d # c => call'[d] = call[d]
  BY <1>1 DEF IInv, TypeOK
<1>6. Owned(row', flight', call')
  BY <1>1, <1>2, <1>4, <1>5 DEF Custody, Owned
<1>7. ASSUME NEW j \in Connections
      PROVE  Sound(j, row'[j].rt, live', memo', flight'[j], call', spoilt')
  <2>1. flight[j] # NULL => flight[j].by \in Callers /\ flight[j].by # c
    BY <1>1, FlightFields DEF IInv, TypeOK, Shared
  <2> QED
    BY <2>1, <1>1, <1>5, SoundKept
<1> QED
  BY <1>1, <1>6, <1>7 DEF Custody

LEMMA SendCustody ==
  ASSUME IInv, Custody, NEW k \in Connections, Send(k)
  PROVE  Custody'
<1>1. /\ flight[k] # NULL /\ flight[k].at = "lane"
      /\ flight' = [flight EXCEPT ![k].at = "net"]
      /\ UNCHANGED <<row, logins, live, memo, lane, call, spoilt>>
  BY DEF Send, In
<1>2. flight[k] \in Flight /\ flight \in [Connections -> Flight \cup {NULL}]
  BY <1>1 DEF IInv, TypeOK
<1>3. /\ \A j \in Connections : j # k => flight'[j] = flight[j]
      /\ flight'[k] # NULL /\ flight'[k].at = "net" /\ flight'[k].kind = flight[k].kind
      /\ flight'[k].by = flight[k].by /\ flight'[k].sent = flight[k].sent /\ flight'[k].got = flight[k].got
      /\ flight'[k].waits = flight[k].waits
  BY <1>1, <1>2, NoToken DEF Flight
<1>4. Owned(row', flight', call')
  BY <1>1, <1>3 DEF Custody, Owned
<1>5. ASSUME NEW j \in Connections
      PROVE  Sound(j, row'[j].rt, live', memo', flight'[j], call', spoilt')
  <2>1. Sound(j, row[j].rt, live, memo, flight[j], call, spoilt)
    BY DEF Custody
  <2>2. CASE j = k
    BY <2>1, <2>2, <1>1, <1>3 DEF Sound, Traced, Honest
  <2>3. CASE j # k
    BY <2>1, <2>3, <1>1, <1>3
  <2> QED
    BY <2>2, <2>3
<1> QED
  BY <1>1, <1>4, <1>5 DEF Custody

LEMMA ExpireCustody ==
  ASSUME IInv, Custody, NEW k \in Connections, Expire(k)
  PROVE  Custody'
<1>1. /\ row' = [row EXCEPT ![k].fresh = FALSE]
      /\ UNCHANGED <<logins, live, memo, lane, flight, call, spoilt>>
  BY DEF Expire
<1>2. \A j \in Connections : row'[j].rt = row[j].rt
  BY <1>1 DEF IInv, TypeOK, Row
<1>3. Owned(row', flight', call')
  BY <1>1, <1>2 DEF Custody, Owned
<1>4. \A j \in Connections : Sound(j, row'[j].rt, live', memo', flight'[j], call', spoilt')
  BY <1>1, <1>2 DEF Custody
<1> QED
  BY <1>1, <1>3, <1>4 DEF Custody

\* Forgetting an exchanged token is safe once nobody writes for the account.
LEMMA ForgetCustody ==
  ASSUME IInv, Custody, NEW t \in memo, Forget(t)
  PROVE  Custody'
<1>1. /\ memo' = memo \ {t} /\ ~Writing(t.of)
      /\ UNCHANGED <<row, logins, live, lane, flight, call, spoilt>>
  BY DEF Forget
<1>2. ASSUME NEW k \in Connections
      PROVE  Sound(k, row[k].rt, live, memo', flight[k], call, spoilt)
  <2>1. Sound(k, row[k].rt, live, memo, flight[k], call, spoilt)
    BY DEF Custody
  <2>2. CASE row[k].rt # t
    BY <2>1, <2>2, <1>1 DEF Sound, Traced
  <2>3. CASE row[k].rt = t
    <3>1. t # NULL => t.of = k
      BY <2>3 DEF Custody, Owned
    <3>2. t # NULL => \A c \in Callers : ~Brings(c, k, t, live, call)
      BY <3>1, <1>1 DEF Writing, Brings
    <3> QED
      BY <2>1, <2>3, <3>2 DEF Sound, Traced
  <2> QED
    BY <2>2, <2>3
<1>3. Owned(row', flight', call')
  BY <1>1 DEF Custody
<1> QED
  BY <1>1, <1>2, <1>3 DEF Custody
-----------------------------------------------------------------------------
(* Steps that store, rotate or revoke. *)

\* A caller stores its token and ends its call, or goes on to write it once more.
LEMMA StoreCustody ==
  ASSUME IInv, Custody, NEW c \in Callers, NEW u \in Token, u.of = Of[c],
         NEW activity \in SUBSET BOOLEAN, Store(Of[c], u, activity),
         call[c] # NULL, call[c].at = "writing" => call[c].tok = u,
         \A k \in Connections : flight[k] # NULL => flight[k].by # c,
         \A d \in Callers : d # c => call'[d] = call[d],
         call'[c] # NULL => call'[c].tok = u,
         UNCHANGED <<logins, live, memo, lane, flight>>
  PROVE  Custody'
<1> DEFINE k == Of[c]
           t == row[Of[c]].rt
<1>1. k \in Connections
  BY CallersType
<1>2. /\ row' \in [Connections -> Row]
      /\ row'[k].rt = u
      /\ \A j \in Connections : j # k => row'[j] = row[j]
  BY <1>1, StoreProperties DEF IInv
<1>3. spoilt' = IF u \in live \/ u = t THEN spoilt ELSE spoilt \cup {FamilyOf(u)}
  BY DEF Store
<1>4. Owned(row', flight', call')
  BY <1>1, <1>2 DEF Custody, Owned
<1>5. ASSUME NEW j \in Connections
      PROVE  flight[j] # NULL => flight[j].by \in Callers /\ call'[flight[j].by] = call[flight[j].by]
  BY FlightFields DEF IInv, TypeOK
<1>6. ASSUME NEW j \in Connections, j # k
      PROVE  Sound(j, row'[j].rt, live', memo', flight'[j], call', spoilt')
  <2>1. spoilt \subseteq spoilt' /\ row'[j].rt = row[j].rt
    BY <1>2, <1>3, <1>6
  <2>2. \A d \in Callers : Of[d] = j => call'[d] = call[d]
    BY <1>6
  <2> QED
    BY <2>1, <2>2, <1>5, SoundKept
<1>7. Sound(k, u, live, memo, flight[k], call', spoilt')
  <2>1. Sound(k, t, live, memo, flight[k], call, spoilt) /\ Single(live)
    BY <1>1 DEF Custody
  <2>2. ASSUME FamilyOf(u) \notin spoilt'
        PROVE  Traced(k, u, live, memo, flight[k], call')
    <3>1. CASE u \in live
      BY <3>1 DEF Traced
    <3>2. CASE u \notin live
      <4>1. u = t /\ t # NULL /\ Traced(k, t, live, memo, flight[k], call)
        BY <3>2, <2>1, <2>2, <1>3, NoToken DEF Sound
      <4>2. ASSUME t \in memo, NEW d \in Callers, Brings(d, k, t, live, call)
            PROVE  Brings(d, k, u, live, call')
        <5>1. call[d].at = "writing" /\ call[d].tok \in live
          BY <4>2 DEF Brings
        <5>2. d # c
          BY <5>1, <3>2
        <5> QED
          BY <5>2, <4>1, <4>2 DEF Brings
      <4> QED
        BY <3>2, <4>1, <4>2 DEF Traced
    <3> QED
      BY <3>1, <3>2
  <2>3. Honest(u, live, flight[k], call', spoilt')
    <3> SUFFICES ASSUME flight[k] # NULL
                 PROVE  Honest(u, live, flight[k], call', spoilt')
      BY DEF Honest
    <3>1. Honest(t, live, flight[k], call, spoilt) /\ call'[flight[k].by] = call[flight[k].by]
      BY <2>1, <1>1, <1>5 DEF Sound
    <3>2. ASSUME flight[k].at # "settle", FamilyOf(flight[k].sent) \notin spoilt'
          PROVE  flight[k].sent \in live /\ (u = flight[k].sent \/ FamilyOf(u) # FamilyOf(flight[k].sent))
      <4>1. /\ flight[k].sent \in live
            /\ t \in {NULL, flight[k].sent} \/ FamilyOf(t) # FamilyOf(flight[k].sent)
        BY <3>1, <3>2, <1>3 DEF Honest
      <4>2. CASE u \in live
        BY <4>1, <4>2, <2>1 DEF Single
      <4>3. CASE u = t
        BY <4>1, <4>3, NoToken
      <4>4. CASE u \notin live /\ u # t
        BY <4>1, <4>4, <3>2, <1>3
      <4> QED
        BY <4>2, <4>3, <4>4
    <3> QED
      BY <3>1, <3>2 DEF Honest
  <2> QED
    BY <2>2, <2>3 DEF Sound
<1>8. \A j \in Connections : Sound(j, row'[j].rt, live', memo', flight'[j], call', spoilt')
  BY <1>2, <1>6, <1>7
<1> QED
  BY <1>4, <1>8 DEF Custody

LEMMA RedirectedCustody ==
  ASSUME IInv, Custody, NEW c \in Callers, Redirected(c)
  PROVE  Custody'
<1> DEFINE k == Of[c]
           u == Successor(call[c].tok)
           p == Persists(Of[c], call[c].kind, call[c].want)
           b == call[c].ran \/ p
           q == AfterToken(c, u, b)
<1>1. /\ call[c] # NULL /\ call[c].at = "loaded" /\ flight[Of[c]] = NULL
      /\ IF p THEN Store(k, u, {row[k].active}) ELSE UNCHANGED <<row, spoilt>>
      /\ call' = [call EXCEPT ![c] = q]
      /\ UNCHANGED <<logins, live, memo, lane, flight>>
  BY DEF Redirected, Asking
<1>2. call[c] \in Call /\ k \in Connections /\ row[k].active \in BOOLEAN
  BY <1>1, CallersType DEF IInv, TypeOK, Row
<1>3. u \in Token /\ u.of = k
  <2>1. call[c].tok \in Token /\ call[c].tok.of = k
    BY <1>1, <1>2, CallFields DEF Custody, Owned
  <2> QED
    BY <2>1, SuccessorProperties, FamilyOwner
<1>4. b \in BOOLEAN
  <2>1. call[c].ran \in BOOLEAN
    BY <1>2, CallFields
  <2>2. p \in BOOLEAN
    BY DEF Persists
  <2> HIDE DEF p
  <2> QED
    BY <2>1, <2>2
<1> HIDE DEF b, u, p
<1>5. q # NULL => q.tok = u
  BY <1>2, <1>3, <1>4, AfterTokenProperties
<1> HIDE DEF q
<1>6. call'[c] = q /\ \A d \in Callers : d # c => call'[d] = call[d]
  BY <1>1 DEF IInv, TypeOK
<1>7. \A j \in Connections : flight[j] # NULL => flight[j].by \in Callers /\ flight[j].by # c
  BY <1>1, FlightFields DEF IInv, TypeOK, Shared
<1>8. CASE p
  <2>1. Store(k, u, {row[k].active}) /\ {row[k].active} \in SUBSET BOOLEAN
    BY <1>8, <1>1, <1>2
  <2> QED
    BY <2>1, <1>1, <1>3, <1>5, <1>6, <1>7, StoreCustody
<1>9. CASE ~p
  <2>1. UNCHANGED <<row, spoilt>>
    BY <1>9, <1>1
  <2>2. Owned(row', flight', call')
    BY <2>1, <1>1, <1>3, <1>5, <1>6 DEF Custody, Owned
  <2>3. ASSUME NEW j \in Connections
        PROVE  Sound(j, row'[j].rt, live', memo', flight'[j], call', spoilt')
    BY <2>1, <1>1, <1>6, <1>7, SoundKept
  <2> QED
    BY <2>2, <2>3, <1>1 DEF Custody
<1> QED
  BY <1>8, <1>9

LEMMA WriteCustody ==
  ASSUME IInv, Custody, NEW c \in Callers, Write(c)
  PROVE  Custody'
<1> DEFINE k == Of[c]
           u == call[c].tok
           act == IF call[c].kind = "test" THEN {row[k].active, TRUE} ELSE {row[k].active}
<1>1. /\ call[c] # NULL /\ call[c].at = "writing"
      /\ Store(k, u, act)
      /\ call' = [call EXCEPT ![c] = NULL]
      /\ UNCHANGED <<logins, live, memo, lane, flight>>
  BY DEF Write
<1>2. call[c] \in Call /\ k \in Connections /\ row[k].active \in BOOLEAN
  BY <1>1, CallersType DEF IInv, TypeOK, Row
<1>3. act \in SUBSET BOOLEAN
  BY <1>2
<1>4. u \in Token /\ u.of = k
  BY <1>1, <1>2, CallFields DEF Custody, Owned
<1>5. call'[c] = NULL /\ \A d \in Callers : d # c => call'[d] = call[d]
  BY <1>1 DEF IInv, TypeOK
<1>6. \A j \in Connections : flight[j] # NULL => flight[j].by # c
  BY <1>1, Strangers DEF IInv
<1> HIDE DEF act
<1> QED
  BY <1>1, <1>3, <1>4, <1>5, <1>6, StoreCustody

LEMMA DeactivateCustody ==
  ASSUME IInv, Custody, NEW c \in Callers, Deactivate(c)
  PROVE  Custody'
<1> DEFINE k == Of[c]
<1>1. /\ call[c] # NULL /\ call[c].at = "dead"
      /\ call' = [call EXCEPT ![c] = NULL]
      /\ UNCHANGED <<logins, live, memo, lane, flight, spoilt>>
  BY DEF Deactivate
<1>2. k \in Connections /\ row \in [Connections -> Row] /\ row[k] \in Row
  BY CallersType DEF IInv, TypeOK
<1>3. call'[c] = NULL /\ \A d \in Callers : d # c => call'[d] = call[d]
  BY <1>1 DEF IInv, TypeOK
<1>4. \A j \in Connections : flight[j] # NULL => flight[j].by \in Callers /\ flight[j].by # c
  BY <1>1, Strangers, FlightFields DEF IInv, TypeOK
<1>5. /\ \A j \in Connections : j # k => row'[j] = row[j]
      /\ row'[k].rt \in {row[k].rt, NULL}
  BY <1>2 DEF Deactivate, Row
<1>6. Owned(row', flight', call')
  BY <1>1, <1>3, <1>5 DEF Custody, Owned
<1>7. ASSUME NEW j \in Connections
      PROVE  Sound(j, row'[j].rt, live', memo', flight'[j], call', spoilt')
  <2>1. CASE row'[j].rt = row[j].rt
    BY <2>1, <1>1, <1>3, <1>4, SoundKept
  <2>2. CASE row'[j].rt # row[j].rt
    <3>1. row'[j].rt = NULL
      BY <2>2, <1>5
    <3>2. Honest(row[j].rt, live, flight[j], call, spoilt)
      BY DEF Custody, Sound
    <3>3. Honest(NULL, live, flight[j], call', spoilt)
      BY <3>2, <1>3, <1>4 DEF Honest
    <3> QED
      BY <3>1, <3>3, <1>1 DEF Sound
  <2> QED
    BY <2>1, <2>2
<1> QED
  BY <1>1, <1>6, <1>7 DEF Custody

LEMMA LeadCustody ==
  ASSUME IInv, Custody, NEW c \in Callers, Lead(c)
  PROVE  Custody'
<1> DEFINE k == Of[c]
           t == Presented(c)
           r == row[Of[c]].rt
           f == [by |-> c, kind |-> call[c].kind, at |-> "lane",
                 want |-> call[c].want, sent |-> t, got |-> NULL, waits |-> {c}]
<1>1. /\ call[c] # NULL /\ call[c].at = "loaded" /\ flight[k] = NULL
      /\ flight' = [flight EXCEPT ![k] = f]
      /\ call' = [call EXCEPT ![c].at = "waiting", ![c].tok = t]
      /\ spoilt' = IF Remembered(t) \/ r = NULL THEN spoilt \cup {FamilyOf(t)} ELSE spoilt
      /\ UNCHANGED <<row, logins, live, memo>>
  BY DEF Lead, Asking
<1>2. k \in Connections /\ call[c] \in Call
  BY <1>1, CallersType DEF IInv, TypeOK
<1>3. r # NULL => t = r
  BY DEF Presented
<1>4. t.of = k /\ t \in Token
  <2>1. call[c].tok.of = k /\ call[c].tok \in Token
    BY <1>1, <1>2, CallFields DEF Custody, Owned
  <2>2. r # NULL => r.of = k /\ r \in Token
    BY <1>2 DEF Custody, Owned, IInv, TypeOK, Row
  <2> QED
    BY <2>1, <2>2 DEF Presented
<1> HIDE DEF t
<1>5. f.at = "lane" /\ f.by = c /\ f.sent = t /\ f.got = NULL /\ f.waits = {c} /\ f.kind = call[c].kind
  OBVIOUS
<1>6. /\ \A d \in Callers : d # c => call'[d] = call[d]
      /\ call'[c] # NULL /\ call'[c].at = "waiting" /\ call'[c].tok = t /\ call'[c].kind = call[c].kind
  <2>1. call'[c] \in Call
    BY <1>1, <1>2, <1>4 DEF IInv, TypeOK, Call
  <2> QED
    BY <2>1, <1>1, <1>2, NoToken DEF IInv, TypeOK, Call
<1> HIDE DEF f
<1>7. /\ flight'[k] = f
      /\ \A j \in Connections : j # k => flight'[j] = flight[j]
  BY <1>1, <1>2 DEF IInv, TypeOK
<1>8. Owned(row', flight', call')
  <2>1. ASSUME NEW j \in Connections, flight'[j] # NULL
        PROVE  flight'[j].sent.of = j
    BY <2>1, <1>4, <1>5, <1>7 DEF Custody, Owned
  <2>2. ASSUME NEW d \in Callers, call'[d] # NULL
        PROVE  call'[d].tok.of = Of[d]
    BY <2>2, <1>4, <1>6 DEF Custody, Owned
  <2> HIDE DEF k
  <2> QED
    BY <2>1, <2>2, <1>1 DEF Custody, Owned
<1>9. ASSUME NEW j \in Connections
      PROVE  Sound(j, row'[j].rt, live', memo', flight'[j], call', spoilt')
  <2>1. spoilt \subseteq spoilt'
    BY <1>1
  <2>2. CASE j # k
    <3>1. flight'[j] = flight[j]
      BY <2>2, <1>7
    <3>2. flight[j] # NULL => flight[j].by \in Callers /\ flight[j].by # c
      BY <2>2, FlightFields DEF IInv, TypeOK, Shared
    <3> QED
      BY <2>1, <3>1, <3>2, <1>1, <1>6, SoundKept
  <2>3. CASE j = k
    <3>1. Sound(k, r, live, memo, flight[k], call, spoilt)
      BY <1>2 DEF Custody
    <3>2. ASSUME r # NULL, FamilyOf(r) \notin spoilt'
          PROVE  r \in live
      <4>1. r \notin memo
        BY <3>2, <1>1, <1>3 DEF Remembered
      <4> QED
        BY <4>1, <3>1, <3>2, <2>1, <1>1 DEF Sound, Traced
    <3>3. FamilyOf(t) \notin spoilt' => t \in live /\ r = t
      BY <3>2, <1>1, <1>3
    <3>4. Honest(r, live, f, call', spoilt')
      BY <3>3, <1>5, <1>6, NoToken DEF Honest
    <3> QED
      BY <2>3, <3>2, <3>4, <1>1, <1>7 DEF Sound, Traced
  <2> QED
    BY <2>2, <2>3
<1> QED
  BY <1>1, <1>8, <1>9 DEF Custody
\* The head of the lane has its answer: what it takes of the live tokens.
LEMMA AnsweredCustody ==
  ASSUME IInv, Custody, NEW k \in Connections, In(k, "net"),
         NEW u \in Token \cup {NULL, Dead}, Answered(k, u),
         Single(live'),
         \A v \in live : FamilyOf(v) # FamilyOf(flight[k].sent) => v \in live',
         row[k].rt # NULL /\ FamilyOf(row[k].rt) \notin spoilt'
           /\ FamilyOf(row[k].rt) = FamilyOf(flight[k].sent)
           => row[k].rt \in live' \/ (u \in Token /\ row[k].rt = flight[k].sent),
         u \in Token => u \in live' /\ FamilyOf(u) = FamilyOf(flight[k].sent),
         spoilt \subseteq spoilt',
         UNCHANGED <<row, logins, memo, lane, call>>
  PROVE  Custody'
<1> DEFINE t == flight[k].sent
           r == row[k].rt
<1>1. /\ flight[k] # NULL /\ flight[k].at = "net"
      /\ flight' = [flight EXCEPT ![k].at = "settle", ![k].got = u]
  BY DEF In, Answered
<1>2. flight[k] \in Flight /\ flight \in [Connections -> Flight \cup {NULL}]
  BY <1>1 DEF IInv, TypeOK
<1>3. /\ \A j \in Connections : j # k => flight'[j] = flight[j]
      /\ flight'[k] # NULL /\ flight'[k].at = "settle" /\ flight'[k].got = u
      /\ flight'[k].by = flight[k].by /\ flight'[k].sent = t
      /\ flight'[k].kind = flight[k].kind /\ flight'[k].waits = flight[k].waits
  BY <1>1, <1>2, NoToken DEF Flight
<1>4. t.of = k
  BY <1>1 DEF Custody, Owned
<1>5. Owned(row', flight', call')
  BY <1>3, <1>4 DEF Custody, Owned
<1>6. Sound(k, r, live, memo, flight[k], call, spoilt)
  BY DEF Custody
<1>7. flight[k].got \notin Token
  BY <1>1, <1>6 DEF Sound, Honest
<1>8. ASSUME r # NULL, FamilyOf(r) \notin spoilt'
      PROVE  Traced(k, r, live', memo, flight'[k], call)
  <2>1. CASE FamilyOf(r) = FamilyOf(t)
    BY <2>1, <1>3, <1>8 DEF Traced
  <2>2. CASE FamilyOf(r) # FamilyOf(t)
    <3>1. r \in live \/ (r \in memo /\ \E c \in Callers : Brings(c, k, r, live, call))
      BY <1>6, <1>7, <1>8 DEF Sound, Traced
    <3>2. \A c \in Callers : Brings(c, k, r, live, call) => Brings(c, k, r, live', call)
      BY <2>2 DEF Brings
    <3> QED
      BY <2>2, <3>1, <3>2 DEF Traced
  <2> QED
    BY <2>1, <2>2
<1>9. Honest(r, live', flight'[k], call, spoilt')
  BY <1>1, <1>3, <1>6 DEF Sound, Honest
<1>10. ASSUME NEW j \in Connections
       PROVE  Sound(j, row'[j].rt, live', memo', flight'[j], call', spoilt')
  <2>1. CASE j = k
    BY <2>1, <1>8, <1>9 DEF Sound
  <2>2. CASE j # k
    <3>1. \A v \in live : v.of = j => v \in live'
      BY <2>2, <1>4, FamilyOwner
    <3> QED
      BY <2>2, <3>1, <1>3, SoundKept
  <2> QED
    BY <2>1, <2>2
<1> QED
  BY <1>5, <1>10 DEF Custody

\* A rotation leaves one live token in the family.
LEMMA RotateCustody ==
  ASSUME IInv, Custody, NEW t \in Token, Rotate(t)
  PROVE  /\ Single(live')
         /\ \A v \in live : FamilyOf(v) # FamilyOf(t) => v \in live'
         /\ Successor(t) \in live'
         /\ FamilyOf(Successor(t)) = FamilyOf(t)
         /\ Successor(t) \in Token
<1>1. t \in live /\ live' = (live \ {t}) \cup {Successor(t)}
  BY DEF Rotate
<1>2. Successor(t) \in Token /\ FamilyOf(Successor(t)) = FamilyOf(t)
  BY SuccessorProperties
<1>3. \A v \in live \ {t} : FamilyOf(v) # FamilyOf(t)
  BY <1>1 DEF Custody, Single
<1>4. \A v, w \in live : FamilyOf(v) = FamilyOf(w) => v = w
  BY DEF Custody, Single
<1>5. Single(live')
  BY <1>1, <1>2, <1>3, <1>4 DEF Single
<1> QED
  BY <1>1, <1>2, <1>5

\* What a refresh presents, and where its family's row is.
LEMMA PresentedIsLive ==
  ASSUME Custody, NEW k \in Connections, In(k, "net"), FamilyOf(flight[k].sent) \notin spoilt
  PROVE  /\ flight[k].sent \in live
         /\ row[k].rt # NULL /\ FamilyOf(row[k].rt) = FamilyOf(flight[k].sent)
              => row[k].rt = flight[k].sent
BY DEF In, Custody, Sound, Honest

LEMMA GrantedCustody ==
  ASSUME IInv, Custody, NEW k \in Connections, Granted(k)
  PROVE  Custody'
<1> DEFINE t == flight[k].sent
           u == Successor(t)
<1>1. /\ In(k, "net") /\ Rotate(t) /\ Answered(k, u)
      /\ UNCHANGED <<row, logins, memo, lane, call, spoilt>>
  BY DEF Granted
<1>2. t \in Token
  BY <1>1, FlightFields DEF In, IInv, TypeOK
<1>3. /\ Single(live')
      /\ \A v \in live : FamilyOf(v) # FamilyOf(t) => v \in live'
      /\ u \in live' /\ FamilyOf(u) = FamilyOf(t) /\ u \in Token
  BY <1>1, <1>2, RotateCustody
<1>4. row[k].rt # NULL /\ FamilyOf(row[k].rt) \notin spoilt' /\ FamilyOf(row[k].rt) = FamilyOf(t)
        => row[k].rt = t
  BY <1>1, PresentedIsLive
<1> HIDE DEF u
<1> QED
  BY <1>1, <1>3, <1>4, AnsweredCustody

LEMMA AnswerLostCustody ==
  ASSUME IInv, Custody, NEW k \in Connections, AnswerLost(k)
  PROVE  Custody'
<1> DEFINE t == flight[k].sent
<1>1. /\ In(k, "net") /\ Rotate(t) /\ Answered(k, NULL)
      /\ spoilt' = spoilt \cup {FamilyOf(t)}
      /\ UNCHANGED <<row, logins, memo, lane, call>>
  BY DEF AnswerLost
<1>2. t \in Token
  BY <1>1, FlightFields DEF In, IInv, TypeOK
<1>3. Single(live') /\ \A v \in live : FamilyOf(v) # FamilyOf(t) => v \in live'
  BY <1>1, <1>2, RotateCustody
<1> QED
  BY <1>1, <1>3, NoToken, AnsweredCustody

LEMMA FailedCustody ==
  ASSUME IInv, Custody, NEW k \in Connections, Failed(k)
  PROVE  Custody'
<1>1. /\ In(k, "net") /\ Answered(k, NULL)
      /\ UNCHANGED <<row, logins, live, memo, lane, call, spoilt>>
  BY DEF Failed
<1>2. row[k].rt # NULL /\ FamilyOf(row[k].rt) \notin spoilt' /\ FamilyOf(row[k].rt) = FamilyOf(flight[k].sent)
        => row[k].rt \in live'
  BY <1>1, PresentedIsLive
<1>3. Single(live')
  BY <1>1 DEF Custody
<1> QED
  BY <1>1, <1>2, <1>3, NoToken, AnsweredCustody

LEMMA RefusedCustody ==
  ASSUME IInv, Custody, NEW k \in Connections, Refused(k)
  PROVE  Custody'
<1> DEFINE t == flight[k].sent
<1>1. /\ In(k, "net") /\ t \notin live /\ Answered(k, Dead)
      /\ live' = {u \in live : FamilyOf(u) # FamilyOf(t)}
      /\ UNCHANGED <<row, logins, memo, lane, call, spoilt>>
  BY DEF Refused
<1>2. FamilyOf(t) \in spoilt
  BY <1>1, PresentedIsLive
<1>3. Single(live') /\ \A v \in live : FamilyOf(v) # FamilyOf(t) => v \in live'
  BY <1>1 DEF Custody, Single
<1> QED
  BY <1>1, <1>2, <1>3, NoToken, AnsweredCustody

LEMMA LoginCustody ==
  ASSUME IInv, Custody, NEW k \in Connections, Login(k)
  PROVE  Custody'
<1> DEFINE n == logins[k] + 1
           t == FirstToken(k, n)
           r == [rt |-> t, fresh |-> TRUE, active |-> TRUE]
<1>1. /\ live' = live \cup {t}
      /\ row' = [row EXCEPT ![k] = r]
      /\ UNCHANGED <<memo, lane, flight, call, spoilt>>
  BY DEF Login
<1>2. logins[k] \in Nat \ {0} /\ n \in Nat \ {0} /\ ~(n <= logins[k])
  BY DEF IInv, TypeOK
<1>3. t \in Token /\ t.of = k /\ t.login = n /\ t # NULL
  BY <1>2, FirstTokenProperties, NoToken
<1> HIDE DEF n, t
<1>4. r.rt = t
  OBVIOUS
<1> HIDE DEF r
<1>5. row'[k].rt = t /\ \A j \in Connections : j # k => row'[j] = row[j]
  BY <1>1, <1>4 DEF IInv, TypeOK
<1>6. \A v : Issued(v, logins) => FamilyOf(v) # FamilyOf(t)
  BY <1>2, <1>3, FamilyOwner DEF Issued
<1>7. Single(live')
  <2>1. \A v \in live : FamilyOf(v) # FamilyOf(t)
    BY <1>6 DEF IInv, Known
  <2> QED
    BY <2>1, <1>1 DEF Custody, Single
<1>8. Owned(row', flight', call')
  BY <1>1, <1>3, <1>5 DEF Custody, Owned
<1>9. ASSUME NEW j \in Connections
      PROVE  Sound(j, row'[j].rt, live', memo', flight'[j], call', spoilt')
  <2>1. CASE j = k
    <3>1. Traced(k, t, live', memo', flight'[k], call')
      BY <1>1 DEF Traced
    <3>2. Honest(row[k].rt, live, flight[k], call, spoilt)
      BY DEF Custody, Sound
    <3>3. flight[k] # NULL => FamilyOf(t) # FamilyOf(flight[k].sent)
      BY <1>6 DEF IInv, Known
    <3>4. Honest(t, live', flight'[k], call', spoilt')
      BY <3>2, <3>3, <1>1 DEF Honest
    <3> QED
      BY <2>1, <3>1, <3>4, <1>5 DEF Sound
  <2>2. CASE j # k
    BY <2>2, <1>1, <1>5, SoundKept
  <2> QED
    BY <2>1, <2>2
<1> QED
  BY <1>7, <1>8, <1>9 DEF Custody

\* A restart loses what only memory held, which the history records.
LEMMA RestartCustody ==
  ASSUME IInv, Custody, Restart
  PROVE  Custody'
<1> DEFINE F == {FamilyOf(flight[k].got) : k \in {j \in Connections : flight[j] # NULL /\ flight[j].got \in Token}}
           G == {FamilyOf(call[c].tok) : c \in {d \in Callers : call[d] # NULL /\ call[d].at = "writing"
                                                               /\ call[d].tok # row[Of[d]].rt}}
<1>1. /\ spoilt' = spoilt \cup F \cup G
      /\ flight' = [k \in Connections |-> NULL]
      /\ call' = [c \in Callers |-> NULL]
      /\ UNCHANGED <<row, logins, live>>
  BY DEF Restart
<1>2. \A j \in Connections : flight[j] # NULL /\ flight[j].got \in Token => FamilyOf(flight[j].got) \in F
  OBVIOUS
<1>3. \A d \in Callers : call[d] # NULL /\ call[d].at = "writing" /\ call[d].tok # row[Of[d]].rt
        => FamilyOf(call[d].tok) \in G
  OBVIOUS
<1> HIDE DEF F, G
<1>4. Owned(row', flight', call')
  BY <1>1 DEF Custody, Owned
<1>5. ASSUME NEW k \in Connections
      PROVE  Sound(k, row'[k].rt, live', memo', flight'[k], call', spoilt')
  <2> DEFINE t == row[k].rt
  <2>1. Sound(k, t, live, memo, flight[k], call, spoilt)
    BY DEF Custody
  <2>2. Honest(t, live', flight'[k], call', spoilt')
    BY <1>1 DEF Honest
  <2>3. ASSUME t # NULL, FamilyOf(t) \notin spoilt', t \notin live
        PROVE  FALSE
    <3>1. Traced(k, t, live, memo, flight[k], call)
      BY <2>1, <2>3, <1>1 DEF Sound
    <3>2. CASE \E c \in Callers : Brings(c, k, t, live, call)
      BY <3>2, <2>3, <1>1, <1>3 DEF Brings
    <3>3. CASE flight[k] # NULL /\ flight[k].sent = t /\ flight[k].got \in Token
      BY <3>3, <2>1, <2>3, <1>1, <1>2 DEF Sound, Honest
    <3> QED
      BY <3>1, <3>2, <3>3, <2>3 DEF Traced
  <2> QED
    BY <2>2, <2>3, <1>1 DEF Sound, Traced
<1> QED
  BY <1>1, <1>4, <1>5 DEF Custody
\* The callers of a finished refresh: none leaves its account, the writers stay, and
\* a successor nobody stored has somebody to write it unless the history says so.
LEMMA FinishedCallers ==
  ASSUME IInv, Custody, NEW k \in Connections, Finish(k)
  PROVE  /\ \A c \in Callers : call'[c] # NULL => call'[c].tok.of = Of[c]
         /\ \A c \in Callers : Of[c] # k => call'[c] = call[c]
         /\ \A c \in Callers : call[c] # NULL /\ call[c].at = "writing" => call'[c] = call[c]
         /\ flight[k].got \in Token =>
              \/ row'[k].rt = flight[k].got
              \/ /\ UNCHANGED row
                 /\ \/ FamilyOf(flight[k].got) \in spoilt'
                    \/ \E c \in Callers : Brings(c, k, flight[k].got, live, call')
<1> DEFINE f == flight[k]
           u == f.got
           p == u \in Token /\ Persists(k, f.kind, f.want)
           ran(c) == call[c].ran \/ (p /\ c = f.by)
           after(c) == IF u = NULL THEN AfterNull(c)
                       ELSE IF u = Dead THEN AfterDead(c, f.sent)
                       ELSE AfterToken(c, u, ran(c))
           later(c) == [call[c] EXCEPT !.ran = TRUE, !.tok = u]
           new(c) == IF c \in f.waits THEN after(c)
                     ELSE IF c = f.by /\ p /\ call[c] # NULL /\ f.kind = "reactive" THEN later(c)
                     ELSE call[c]
<1>1. f # NULL /\ f.at = "settle"
  BY DEF Finish, In
<1>2. IF p THEN Store(k, u, {row[k].active})
      ELSE /\ UNCHANGED row
           /\ spoilt' = IF u \in Token /\ f.kind = "reactive" /\ \A c \in f.waits : after(c) = NULL
                        THEN spoilt \cup {FamilyOf(u)} ELSE spoilt
  BY DEF Finish
<1>3. call' = [c \in Callers |-> new(c)]
  BY DEF Finish
<1>4. f \in Flight /\ f.by \in Callers /\ f.sent \in Token /\ u \in Token \cup {NULL, Dead}
      /\ f.waits \subseteq Callers /\ f.kind \in Kinds
  BY <1>1, FlightFields DEF IInv, TypeOK
<1>5. Honest(row[k].rt, live, f, call, spoilt) /\ f.sent.of = k
  BY <1>1 DEF Custody, Sound, Owned
<1>6. u \in Token => u.of = k /\ u \in live
  BY <1>1, <1>5, FamilyOwner DEF Honest
<1>7. ASSUME NEW c \in f.waits
      PROVE  /\ call[c] \in Call /\ Of[c] = k /\ call[c].at = "waiting"
             /\ after(c) # NULL => after(c).tok.of = k
             /\ after(c) # NULL /\ u \in Token => after(c).at = "writing" /\ after(c).tok = u
  <2>1. call[c] \in Call /\ Of[c] = k /\ call[c].at = "waiting" /\ call[c].tok.of = k
    BY <1>1, <1>4 DEF IInv, Shared, TypeOK, Custody, Owned
  <2>2. c \in Callers
    BY <1>4
  <2>3. CASE u = NULL
    <3>1. after(c) = AfterNull(c) /\ u \notin Token
      BY <2>3, NoToken
    <3> HIDE DEF after
    <3> QED
      BY <3>1, <2>1, <2>2, AfterNullProperties
  <2>4. CASE u = Dead
    <3>1. after(c) = AfterDead(c, f.sent) /\ u \notin Token
      BY <2>4, NoToken
    <3> HIDE DEF f, after
    <3> QED
      BY <3>1, <2>1, <2>2, <1>4, <1>5, AfterDeadProperties
  <2>5. CASE u \in Token
    <3>1. after(c) = AfterToken(c, u, ran(c))
      BY <2>5, NoToken
    <3>2. ran(c) \in BOOLEAN
      <4>1. call[c].ran \in BOOLEAN
        BY <2>1, CallFields
      <4>2. (p /\ c = f.by) \in BOOLEAN
        OBVIOUS
      <4> HIDE DEF p
      <4> QED
        BY <4>1, <4>2
    <3> HIDE DEF ran, u, after
    <3> QED
      BY <3>1, <3>2, <2>1, <2>2, <2>5, <1>6, AfterTokenProperties
  <2> QED
    BY <2>1, <2>3, <2>4, <2>5, <1>4
<1>8. call[f.by] # NULL => /\ call[f.by] \in Call /\ Of[f.by] = k
                           /\ call[f.by].at \in {"loaded", "waiting"}
  BY <1>1, <1>4 DEF IInv, Shared, TypeOK
<1>9. Of[f.by] = k
  BY <1>1 DEF IInv, Shared
<1>10. ASSUME NEW c \in Callers
       PROVE  /\ new(c) # NULL => new(c).tok.of = Of[c]
              /\ Of[c] # k => new(c) = call[c]
              /\ call[c] # NULL /\ call[c].at = "writing" => new(c) = call[c]
  <2>1. CASE c \in f.waits
    <3>1. new(c) = after(c)
      BY <2>1
    <3> HIDE DEF new, after
    <3> QED
      BY <2>1, <3>1, <1>7
  <2>2. CASE c \notin f.waits /\ c = f.by /\ p /\ call[c] # NULL /\ f.kind = "reactive"
    <3>1. new(c) = later(c) /\ u \in Token
      BY <2>2
    <3>2. later(c).tok = u
      <4> HIDE DEF u
      <4> QED
        BY <2>2, <1>8 DEF Call
    <3> HIDE DEF new, later, u, p
    <3> QED
      BY <2>2, <3>1, <3>2, <1>6, <1>8
  <2>3. CASE c \notin f.waits /\ ~(c = f.by /\ p /\ call[c] # NULL /\ f.kind = "reactive")
    <3>1. new(c) = call[c]
      BY <2>3
    <3> HIDE DEF new
    <3> QED
      BY <3>1 DEF Custody, Owned
  <2> QED
    BY <2>1, <2>2, <2>3
<1>11. ASSUME u \in Token
       PROVE  \/ row'[k].rt = u
              \/ UNCHANGED row /\ (FamilyOf(u) \in spoilt' \/ \E c \in Callers : Brings(c, k, u, live, call'))
  <2>1. CASE p
    <3>1. Store(k, u, {row[k].active}) /\ {row[k].active} \in SUBSET BOOLEAN
      BY <2>1, <1>2 DEF IInv, TypeOK, Row
    <3> HIDE DEF u
    <3> QED
      BY <3>1, <1>11, StoreProperties DEF IInv
  <2>2. CASE ~p
    <3>1. UNCHANGED row
      BY <2>2, <1>2
    <3>2. ASSUME NEW c \in f.waits, after(c) # NULL
          PROVE  Brings(c, k, u, live, call')
      <4>1. c \in Callers /\ call'[c] = after(c)
        BY <3>2, <1>3, <1>4
      <4>2. after(c).at = "writing" /\ after(c).tok = u /\ Of[c] = k
        BY <3>2, <1>7, <1>11
      <4> HIDE DEF after
      <4> QED
        BY <4>1, <4>2, <3>2, <1>6, <1>11 DEF Brings
    <3>3. CASE f.kind = "request"
      <4>1. f.by \in f.waits /\ call[f.by].kind = "request"
        BY <3>3, <1>1, <1>5 DEF Honest
      <4>2. after(f.by) = AfterToken(f.by, u, ran(f.by))
        BY <1>11, NoToken
      <4>3. AfterToken(f.by, u, ran(f.by)) # NULL
        <5> DEFINE q == [call[f.by] EXCEPT !.at = "writing", !.tok = u]
        <5>1. AfterToken(f.by, u, ran(f.by)) = q
          BY <4>1 DEF AfterToken
        <5>2. call[f.by] \in Call
          BY <4>1, <1>7
        <5>3. q \in Call
          <6> HIDE DEF u
          <6> QED
            BY <5>2, <1>11 DEF Call
        <5> QED
          BY <5>1, <5>3, NoToken
      <4> HIDE DEF after
      <4> QED
        BY <4>1, <4>2, <4>3, <3>1, <3>2, <1>4
    <3>4. CASE f.kind # "request"
      <4>1. f.kind = "reactive"
        BY <3>4, <2>2, <1>11 DEF Persists
      <4>2. CASE \A c \in f.waits : after(c) = NULL
        BY <4>1, <4>2, <3>1, <2>2, <1>2, <1>11
      <4>3. CASE \E c \in f.waits : after(c) # NULL
        <5> HIDE DEF after
        <5> QED
          BY <4>3, <3>1, <3>2, <1>4
      <4> QED
        BY <4>2, <4>3
    <3> QED
      BY <3>3, <3>4
  <2> QED
    BY <2>1, <2>2
<1> HIDE DEF new, after, later, ran, p
<1>12. \A c \in Callers : call'[c] = new(c)
  BY <1>3
<1> QED
  BY <1>10, <1>11, <1>12

LEMMA FinishCustody ==
  ASSUME IInv, Custody, NEW k \in Connections, Finish(k)
  PROVE  Custody'
<1> DEFINE f == flight[k]
           u == f.got
           r == row[k].rt
<1>1. /\ f # NULL /\ f.at = "settle"
      /\ memo' = IF u \in Token THEN memo \cup {f.sent} ELSE memo
      /\ flight' = [flight EXCEPT ![k] = NULL]
      /\ UNCHANGED <<logins, live>>
  BY DEF Finish, In
<1>2. /\ \A c \in Callers : call'[c] # NULL => call'[c].tok.of = Of[c]
      /\ \A c \in Callers : Of[c] # k => call'[c] = call[c]
      /\ \A c \in Callers : call[c] # NULL /\ call[c].at = "writing" => call'[c] = call[c]
      /\ u \in Token => \/ row'[k].rt = u
                        \/ /\ UNCHANGED row
                           /\ \/ FamilyOf(u) \in spoilt'
                              \/ \E c \in Callers : Brings(c, k, u, live, call')
  BY FinishedCallers
<1>3. /\ \A j \in Connections : j # k => row'[j] = row[j]
      /\ u \notin Token => UNCHANGED row
      /\ spoilt \subseteq spoilt'
  <2>1. \/ u \in Token /\ Store(k, u, {row[k].active})
        \/ UNCHANGED row /\ spoilt \subseteq spoilt'
    BY DEF Finish
  <2>2. row \in [Connections -> Row]
    BY DEF IInv, TypeOK
  <2>3. ASSUME Store(k, u, {row[k].active})
        PROVE  (\A j \in Connections : j # k => row'[j] = row[j]) /\ spoilt \subseteq spoilt'
    BY <2>2, <2>3 DEF Store
  <2> HIDE DEF u
  <2> QED
    BY <2>1, <2>3
<1>4. /\ flight'[k] = NULL
      /\ \A j \in Connections : j # k => flight'[j] = flight[j]
  BY <1>1 DEF IInv, TypeOK
<1>5. Sound(k, r, live, memo, f, call, spoilt) /\ f.sent.of = k
  BY <1>1 DEF Custody, Owned
<1>6. u \in Token => u.of = k /\ u \in live /\ FamilyOf(u) = FamilyOf(f.sent)
  BY <1>1, <1>5, FamilyOwner DEF Sound, Honest
<1>7. Owned(row', flight', call')
  <2>1. ASSUME NEW j \in Connections, row'[j].rt # NULL
        PROVE  row'[j].rt.of = j
    BY <2>1, <1>2, <1>3, <1>6 DEF Custody, Owned
  <2>2. ASSUME NEW j \in Connections, flight'[j] # NULL
        PROVE  flight'[j].sent.of = j
    BY <2>2, <1>4 DEF Custody, Owned
  <2> QED
    BY <2>1, <2>2, <1>2 DEF Owned
<1>8. ASSUME NEW j \in Connections, j # k
      PROVE  Sound(j, row'[j].rt, live', memo', flight'[j], call', spoilt')
  <2>1. flight[j] # NULL => flight[j].by \in Callers /\ Of[flight[j].by] = j
    BY FlightFields DEF IInv, TypeOK, Shared
  <2>2. row[j].rt \in memo => row[j].rt \in memo'
    BY <1>1
  <2>3. row'[j].rt = row[j].rt /\ flight'[j] = flight[j]
    BY <1>3, <1>4, <1>8
  <2>4. flight[j] # NULL => call'[flight[j].by] = call[flight[j].by]
    BY <2>1, <1>2, <1>8
  <2> QED
    BY <2>2, <2>3, <2>4, <1>1, <1>2, <1>3, SoundKept
<1>9. Sound(k, row'[k].rt, live, memo', NULL, call', spoilt')
  <2>1. ASSUME row'[k].rt # NULL, FamilyOf(row'[k].rt) \notin spoilt', row'[k].rt \notin live
        PROVE  row'[k].rt \in memo' /\ \E c \in Callers : Brings(c, k, row'[k].rt, live, call')
    <3>1. UNCHANGED row
      BY <2>1, <1>2, <1>3, <1>6
    <3>2. row'[k].rt = r
      BY <3>1
    <3>3. Traced(k, r, live, memo, f, call)
      BY <2>1, <3>2, <1>3, <1>5 DEF Sound
    <3>4. CASE r \in memo /\ \E c \in Callers : Brings(c, k, r, live, call)
      <4>1. PICK c \in Callers : Brings(c, k, r, live, call)
        BY <3>4
      <4>2. Brings(c, k, r, live, call')
        BY <4>1, <1>2 DEF Brings
      <4> QED
        BY <4>2, <3>2, <3>4, <1>1
    <3>5. CASE f.sent = r /\ u \in Token
      <4>1. FamilyOf(u) = FamilyOf(r) /\ row'[k].rt # u
        BY <3>2, <3>5, <2>1, <1>6
      <4>2. PICK c \in Callers : Brings(c, k, u, live, call')
        BY <4>1, <3>2, <3>5, <2>1, <1>2
      <4>3. Brings(c, k, r, live, call')
        BY <4>1, <4>2 DEF Brings
      <4> QED
        BY <4>3, <3>2, <3>5, <1>1
    <3> QED
      BY <3>2, <3>3, <3>4, <3>5, <2>1 DEF Traced
  <2> QED
    BY <2>1 DEF Sound, Traced, Honest
<1>10. \A j \in Connections : Sound(j, row'[j].rt, live', memo', flight'[j], call', spoilt')
  BY <1>1, <1>4, <1>8, <1>9
<1> QED
  BY <1>1, <1>7, <1>10 DEF Custody

LEMMA StepCustody == IInv /\ Custody /\ [Next]_vars => Custody'
<1> SUFFICES ASSUME IInv, Custody, [Next]_vars PROVE Custody'
  OBVIOUS
<1>1. ASSUME NEW c \in Callers, Load(c) \/ CallerStep(c) \/ GiveUp(c)
      PROVE  Custody'
  BY <1>1, LoadCustody, JoinCustody, RedirectedCustody, UseStoredCustody, LeadCustody, WriteCustody,
     DeactivateCustody, GiveUpCustody DEF CallerStep
<1>2. ASSUME NEW k \in Connections, RefreshStep(k) \/ Expire(k) \/ Login(k)
      PROVE  Custody'
  BY <1>2, SendCustody, GrantedCustody, AnswerLostCustody, FailedCustody, RefusedCustody, FinishCustody,
     ExpireCustody, LoginCustody DEF RefreshStep
<1>3. CASE UNCHANGED vars
  BY <1>3 DEF vars, Custody
<1> QED
  BY <1>1, <1>2, <1>3, ForgetCustody, RestartCustody DEF Next

LEMMA CustodyInvariance == Spec => []Custody
<1> QED
  BY InitCustody, StepCustody, Invariance, PTL DEF Spec

-----------------------------------------------------------------------------
(* The properties. *)

\* Unless its family was spoilt, a token is never presented after it was exchanged,
\* however many callers hold stale credentials (tokenRefresh.ts:626-727).
THEOREM NeverPresentedTwice == Spec => []NoTokenPresentedTwice
<1>1. Custody => NoTokenPresentedTwice
  BY PresentedIsLive DEF NoTokenPresentedTwice
<1> QED
  BY <1>1, CustodyInvariance, PTL

\* Unless its family was spoilt, the live token of the family a connection's row is in
\* is in the row, in the refresh under way or with a caller about to write it, in every
\* order of refreshes, late writes and time-outs (tokenRefresh.ts:523-727).
THEOREM LiveTokenKept == Spec => []LiveTokenIsKept
<1>1. ASSUME Custody, NEW k \in Connections, NEW t \in live,
             row[k].rt # NULL, FamilyOf(t) = FamilyOf(row[k].rt), FamilyOf(t) \notin spoilt
      PROVE  t \in InHand(k)
  <2>1. Sound(k, row[k].rt, live, memo, flight[k], call, spoilt)
    BY <1>1 DEF Custody
  <2>2. \A u \in live : FamilyOf(u) = FamilyOf(t) => u = t
    BY <1>1 DEF Custody, Single
  <2>3. Traced(k, row[k].rt, live, memo, flight[k], call)
    BY <2>1, <1>1 DEF Sound
  <2>4. CASE row[k].rt \in live
    BY <2>2, <2>4, <1>1 DEF InHand
  <2>5. CASE \E c \in Callers : Brings(c, k, row[k].rt, live, call)
    <3>1. PICK c \in Callers : Brings(c, k, row[k].rt, live, call)
      BY <2>5
    <3>2. call[c].tok = t /\ Of[c] = k /\ call[c] # NULL /\ call[c].at = "writing"
      BY <3>1, <2>2, <1>1 DEF Brings
    <3> QED
      BY <3>2 DEF InHand
  <2>6. CASE flight[k] # NULL /\ flight[k].sent = row[k].rt /\ flight[k].got \in Token
    <3>1. flight[k].got = t
      BY <2>1, <2>2, <2>6, <1>1 DEF Sound, Honest
    <3> QED
      BY <2>6, <3>1 DEF InHand
  <2> QED
    BY <2>3, <2>4, <2>5, <2>6 DEF Traced
<1>2. Custody => LiveTokenIsKept
  BY <1>1 DEF LiveTokenIsKept
<1> QED
  BY <1>2, CustodyInvariance, PTL
=============================================================================
