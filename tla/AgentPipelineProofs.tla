------------------------- MODULE AgentPipelineProofs -------------------------
(***************************************************************************)
(* What holds of the batch agent and the dashboard for any number of runs, *)
(* prospects, files and drafts.                                            *)
(*                                                                         *)
(* The report of a run is about rows which other runs and users rewrite    *)
(* meanwhile.  What makes it complete is that the drafts a run saved cannot*)
(* leave their rows unnoticed: every draft is saved once, so a row never   *)
(* gets back the reference it had when the run took it.  Hence the two     *)
(* halves of IInv: what each run knows and has counted (Sound), and that a *)
(* draft in the hand of a run is in no row, no snapshot and no other hand  *)
(* (InHand).  What is said of settled drafts needs more (OnRecord, below): *)
(* their rows are not pending, and no two rows share an address.           *)
(***************************************************************************)
EXTENDS AgentPipeline, FiniteSetTheorems, TLAPS

\* The operators below are about run q, runs ru, table t and mail m.

Taken(q) == {i \in Ids : q.seen[i] # NULL}

Done(q) == Taken(q) \ (q.left \cup {q.cur})

\* The rows a run took are still there, with the address they had; they were pending.
Known(q, t, m) == \A i \in Taken(q) :
  /\ t[i] # Unused
  /\ t[i].email = q.seen[i].email
  /\ q.seen[i].statut = "EN ATTENTE"
  /\ q.seen[i].brouillon # NULL => m[q.seen[i].brouillon] # NULL

Placed(q) ==
  /\ q.left \subseteq Taken(q)
  /\ q.at \in {"draft", "save"} => q.cur \in Taken(q) \ q.left
  /\ q.at \notin {"draft", "save"} => q.cur = NULL
  /\ q.at \in {"count", "import", "select"} =>
       Taken(q) = {} /\ q.success = 0 /\ q.errors = 0 /\ q.refused = 0

\* Some rows of the run, as many as it counted successes, refer to another draft.
Drafted(q, t, D) ==
  /\ D \subseteq Done(q)
  /\ Cardinality(D) = q.success
  /\ \A i \in D : t[i].brouillon # q.seen[i].brouillon

Counted(q, t) ==
  /\ q.success + q.errors + q.refused = Cardinality(Done(q))
  /\ \E D \in SUBSET Ids : Drafted(q, t, D)

Sound(q, t, m) == Known(q, t, m) /\ Placed(q) /\ Counted(q, t)

\* Draft d is in no row, in no snapshot, and in no other hand than the one of r.
Unsaved(d, r, ru, t) ==
  /\ \A i \in Ids : t[i] # Unused => t[i].brouillon # d
  /\ \A s \in Runs : ru[s] # NULL =>
       /\ \A i \in Taken(ru[s]) : ru[s].seen[i].brouillon # d
       /\ s # r /\ ru[s].at = "save" => ru[s].draft # d

InHand(ru, t, m) == \A r \in Runs : ru[r] # NULL /\ ru[r].at = "save" =>
  /\ ru[r].draft \in DraftIds
  /\ m[ru[r].draft] = ru[r].seen[ru[r].cur].email
  /\ Unsaved(ru[r].draft, r, ru, t)

RowsKnown(t, m) == \A i \in Ids : t[i] # Unused /\ t[i].brouillon # NULL =>
  m[t[i].brouillon] # NULL

RunsSound(ru, t, m) == \A r \in Runs : ru[r] # NULL => Sound(ru[r], t, m)

IInv ==
  /\ TypeOK
  /\ RunsSound(run, table, mail)
  /\ InHand(run, table, mail)
  /\ RowsKnown(table, mail)

-----------------------------------------------------------------------------
(* Rows, runs and sets. *)

LEMMA RowFields ==
  ASSUME NEW row \in Row
  PROVE  /\ row.email \in Emails
         /\ row.statut \in VALID_STATUSES
         /\ row.brouillon \in DraftIds \cup {NULL}
BY DEF Row

LEMMA RunFields ==
  ASSUME NEW q \in Run
  PROVE  /\ q.at \in {"count", "import", "select", "next", "draft", "save"}
         /\ q.seen \in [Ids -> Row \cup {NULL}]
         /\ q.left \in SUBSET Ids
         /\ q.cur \in Ids \cup {NULL}
         /\ q.draft \in DraftIds \cup {NULL}
         /\ q.success \in Nat /\ q.errors \in Nat /\ q.refused \in Nat
         /\ q.known \in SUBSET DraftIds
BY DEF Run

LEMMA NewRowFields ==
  ASSUME NEW e \in Emails
  PROVE  /\ NewRow(e) \in Row
         /\ NewRow(e).email = e
         /\ NewRow(e).statut = "EN ATTENTE"
         /\ NewRow(e).brouillon = NULL
BY DEF NewRow, Row, VALID_STATUSES

\* The prospects a run is done with are finitely many.
LEMMA DoneFacts ==
  ASSUME NEW q \in Run
  PROVE  /\ Taken(q) \subseteq Ids /\ Done(q) \subseteq Taken(q)
         /\ IsFiniteSet(Done(q))
         /\ Cardinality(Done(q)) \in Nat
<1>1. Taken(q) \subseteq Ids /\ Done(q) \subseteq Taken(q)
  BY DEF Taken, Done
<1>2. IsFiniteSet(Done(q))
  BY <1>1, IdsFinite, FS_Subset
<1> QED
  BY <1>1, <1>2, FS_CardinalityType

\* Which rows a transaction adds: each on an unused key, with an address of its own.
LEMMA InsertFacts ==
  ASSUME TypeOK, NEW S \in SUBSET Emails, Insert(S)
  PROVE  /\ table' \in [Ids -> Row \cup {Unused}]
         /\ \A i \in Ids : table[i] # Unused => table'[i] = table[i]
         /\ \A i \in Ids : table'[i] # table[i] =>
              \E e \in S :
                /\ table[i] = Unused /\ table'[i] = NewRow(e)
                /\ \A k \in Ids \ {i} : table'[k] # Unused => table'[k].email # e
<1> DEFINE missing == S \ {table[i].email : i \in Prospects}
           new == CHOOSE n \in Keyed(missing) : TRUE
<1>1. new \in Keyed(missing)
  BY DEF Insert
<1>2. table' = [i \in Ids |-> IF new[i] = NULL THEN table[i] ELSE NewRow(new[i])]
  BY DEF Insert
<1> HIDE DEF new
<1>3. /\ new \in [Ids -> missing \cup {NULL}]
      /\ \A i \in Ids : new[i] # NULL => table[i] = Unused
      /\ \A e \in missing : Cardinality({i \in Ids : new[i] = e}) = 1
  BY <1>1 DEF Keyed
<1>4. ASSUME NEW i \in Ids, NEW k \in Ids, new[i] # NULL, new[i] = new[k]
      PROVE  i = k
  <2> DEFINE same == {j \in Ids : new[j] = new[i]}
  <2>1. Cardinality(same) = 1
    BY <1>3, <1>4
  <2>2. IsFiniteSet(same)
    BY IdsFinite, FS_Subset
  <2>3. PICK x : same = {x}
    BY <2>1, <2>2, FS_Singleton
  <2>4. i \in same /\ k \in same
    BY <1>4
  <2> QED
    BY <2>3, <2>4
<1>5. \A i \in Ids : new[i] # NULL => new[i] \in missing /\ new[i] \in Emails /\ new[i] \in S
  BY <1>3
<1>6. table' \in [Ids -> Row \cup {Unused}]
  BY <1>2, <1>5, NewRowFields DEF TypeOK
<1>7. \A i \in Ids : table[i] # Unused => table'[i] = table[i]
  BY <1>2, <1>3
<1>8. ASSUME NEW i \in Ids, table'[i] # table[i]
      PROVE  \E e \in S :
                /\ table[i] = Unused /\ table'[i] = NewRow(e)
                /\ \A k \in Ids \ {i} : table'[k] # Unused => table'[k].email # e
  <2>1. new[i] # NULL /\ table[i] = Unused /\ table'[i] = NewRow(new[i])
    BY <1>2, <1>3, <1>8
  <2>2. new[i] \in missing /\ new[i] \in S
    BY <2>1, <1>5
  <2>3. ASSUME NEW k \in Ids \ {i}, table'[k] # Unused
        PROVE  table'[k].email # new[i]
    <3>1. CASE new[k] = NULL
      <4>1. table'[k] = table[k] /\ k \in Prospects
        BY <3>1, <2>3, <1>2 DEF Prospects
      <4> QED
        BY <4>1, <2>2
    <3>2. CASE new[k] # NULL
      <4>1. table'[k].email = new[k]
        BY <3>2, <1>2, <1>5, NewRowFields
      <4> QED
        BY <4>1, <3>2, <2>1, <2>3, <1>4
    <3> QED
      BY <3>1, <3>2
  <2> QED
    BY <2>1, <2>2, <2>3
<1> QED
  BY <1>6, <1>7, <1>8

-----------------------------------------------------------------------------
(* What one run knows, while the others work. *)

\* Rows keep their addresses, and whatever happens to a row of run q gives it no
\* reference it had.
Grows(q, t, u, m, n) ==
  /\ \A i \in Ids : t[i] # Unused =>
       /\ u[i] # Unused
       /\ u[i].email = t[i].email
       /\ u[i].brouillon = t[i].brouillon
            \/ (i \in Taken(q) => u[i].brouillon # q.seen[i].brouillon)
  /\ \A d \in DraftIds : m[d] # NULL => n[d] = m[d]

\* A run that does nothing stays sound.
LEMMA StaysSound ==
  ASSUME NEW q \in Run, NEW t, NEW u, NEW m, NEW n, Sound(q, t, m), Grows(q, t, u, m, n)
  PROVE  Sound(q, u, n)
<1>1. Taken(q) \subseteq Ids /\ Done(q) \subseteq Taken(q)
  BY DoneFacts
<1>2. \A i \in Taken(q) : q.seen[i] \in Row /\ q.seen[i].brouillon \in DraftIds \cup {NULL}
  BY RunFields, RowFields DEF Taken
<1>3. Known(q, u, n)
  BY <1>1, <1>2 DEF Sound, Known, Grows
<1>4. PICK D \in SUBSET Ids : Drafted(q, t, D)
  BY DEF Sound, Counted
<1>5. Drafted(q, u, D)
  BY <1>1, <1>4 DEF Drafted, Grows, Sound, Known
<1>6. Counted(q, u)
  BY <1>5 DEF Sound, Counted
<1> QED
  BY <1>3, <1>6 DEF Sound

\* Run p is run q a step later, with the same prospects done.
LEMMA MovesOn ==
  ASSUME NEW q \in Run, NEW p \in Run, NEW t, NEW m, Sound(q, t, m),
         p.seen = q.seen, Done(p) = Done(q), Placed(p),
         p.success = q.success, p.errors = q.errors, p.refused = q.refused
  PROVE  Sound(p, t, m)
<1>1. Taken(p) = Taken(q)
  BY DEF Taken
<1>2. Known(p, t, m)
  BY <1>1 DEF Sound, Known
<1>3. Counted(p, t)
  BY DEF Sound, Counted, Drafted
<1> QED
  BY <1>2, <1>3 DEF Sound

\* Run p is run q when one prospect more is done, without success.
LEMMA GivesOneUp ==
  ASSUME NEW q \in Run, NEW p \in Run, NEW t, NEW m, Sound(q, t, m),
         p.seen = q.seen, NEW i \in Taken(q), i \notin Done(q), Done(p) = Done(q) \cup {i},
         Placed(p), p.success = q.success, p.errors + p.refused = q.errors + q.refused + 1
  PROVE  Sound(p, t, m)
<1>1. Taken(p) = Taken(q)
  BY DEF Taken
<1>2. Known(p, t, m)
  BY <1>1 DEF Sound, Known
<1>3. Cardinality(Done(p)) = Cardinality(Done(q)) + 1 /\ Cardinality(Done(q)) \in Nat
  BY DoneFacts, FS_AddElement
<1>4. p.success + p.errors + p.refused = Cardinality(Done(p))
  BY <1>3, RunFields DEF Sound, Counted
<1>5. PICK D \in SUBSET Ids : Drafted(q, t, D)
  BY DEF Sound, Counted
<1>6. Drafted(p, t, D)
  BY <1>5 DEF Drafted
<1> QED
  BY <1>2, <1>4, <1>6 DEF Sound, Counted

\* Run p is run q when it saved a draft: the row of i refers to a new one in table u.
LEMMA SavesOne ==
  ASSUME NEW q \in Run, NEW p \in Run, NEW t, NEW u, NEW m, NEW n,
         Sound(q, t, m), Grows(q, t, u, m, n),
         p.seen = q.seen, NEW i \in Taken(q), i \notin Done(q), Done(p) = Done(q) \cup {i},
         Placed(p), p.success = q.success + 1, p.errors = q.errors, p.refused = q.refused,
         u[i].brouillon # q.seen[i].brouillon
  PROVE  Sound(p, u, n)
<1>1. Taken(p) = Taken(q) /\ Sound(q, u, n)
  BY StaysSound DEF Taken
<1>2. Known(p, u, n)
  BY <1>1 DEF Sound, Known
<1>3. Cardinality(Done(p)) = Cardinality(Done(q)) + 1 /\ Cardinality(Done(q)) \in Nat
  BY DoneFacts, FS_AddElement
<1>4. p.success + p.errors + p.refused = Cardinality(Done(p))
  BY <1>1, <1>3, RunFields DEF Sound, Counted
<1>5. PICK D \in SUBSET Ids : Drafted(q, u, D)
  BY <1>1 DEF Sound, Counted
<1> DEFINE E == D \cup {i}
<1>6. IsFiniteSet(D) /\ i \notin D
  BY <1>5, DoneFacts, IdsFinite, FS_Subset DEF Drafted
<1>7. Cardinality(E) = Cardinality(D) + 1
  BY <1>6, FS_AddElement
<1>8. Drafted(p, u, E)
  BY <1>5, <1>7 DEF Drafted
<1>9. E \in SUBSET Ids
  BY DoneFacts
<1> QED
  BY <1>2, <1>4, <1>8, <1>9 DEF Sound, Counted
-----------------------------------------------------------------------------
(* One step.  What a step must show of itself, unless it makes a draft. *)

\* The snapshot of run p is the one of q, or a look at the table.
Snapshot(p, q, t) == \A i \in Taken(p) :
  \/ q # NULL /\ q.seen[i] = p.seen[i]
  \/ t[i] # Unused /\ t[i] = p.seen[i]

\* The references of table u are those of t, or drafts that left a hand.
References(t, u, ru, rv) == \A i \in Ids : u[i] # Unused =>
  \/ u[i].brouillon = NULL
  \/ t[i] # Unused /\ u[i].brouillon = t[i].brouillon
  \/ \E w \in Runs : /\ ru[w] # NULL /\ ru[w].at = "save" /\ u[i].brouillon = ru[w].draft
                     /\ rv[w] # NULL => rv[w].at # "save"

LEMMA StepKeeps ==
  ASSUME IInv, TypeOK',
         \A d \in DraftIds : mail[d] # NULL => mail'[d] = mail[d],
         \A s \in Runs : run[s] # NULL => Grows(run[s], table, table', mail, mail'),
         References(table, table', run, run'),
         \A s \in Runs : run'[s] # NULL =>
           \/ run'[s] = run[s]
           \/ /\ Sound(run'[s], table', mail')
              /\ run'[s].at # "save"
              /\ Snapshot(run'[s], run[s], table)
  PROVE  IInv'
<1>1. \A s \in Runs : run[s] # NULL => run[s] \in Run /\ Sound(run[s], table, mail)
  BY DEF IInv, TypeOK, RunsSound
<1>2. RunsSound(run', table', mail')
  <2> SUFFICES ASSUME NEW s \in Runs, run'[s] # NULL
               PROVE  Sound(run'[s], table', mail')
    BY DEF RunsSound
  <2>1. CASE run'[s] = run[s]
    <3>1. run[s] \in Run /\ Sound(run[s], table, mail) /\ Grows(run[s], table, table', mail, mail')
      BY <2>1, <1>1
    <3> QED
      BY <2>1, <3>1, StaysSound
  <2>2. CASE run'[s] # run[s]
    BY <2>2
  <2> QED
    BY <2>1, <2>2
<1>3. InHand(run', table', mail')
  <2> SUFFICES ASSUME NEW r \in Runs, run'[r] # NULL, run'[r].at = "save"
               PROVE  /\ run'[r].draft \in DraftIds
                      /\ mail'[run'[r].draft] = run'[r].seen[run'[r].cur].email
                      /\ Unsaved(run'[r].draft, r, run', table')
    BY DEF InHand
  <2>1. run'[r] = run[r] /\ run[r] # NULL /\ run[r].at = "save"
    OBVIOUS
  <2> DEFINE d == run[r].draft
  <2>2. /\ d \in DraftIds /\ mail[d] = run[r].seen[run[r].cur].email
        /\ Unsaved(d, r, run, table)
    BY <2>1 DEF IInv, InHand
  <2>3. mail[d] # NULL
    <3>1. run[r].cur \in Taken(run[r])
      BY <2>1, <1>1 DEF Sound, Placed
    <3>2. run[r].seen[run[r].cur] \in Row
      BY <3>1, <2>1, <1>1, RunFields DEF Taken
    <3> QED
      BY <3>2, <2>2, RowFields, NullIsNoValue
  <2>4. mail'[d] = mail[d]
    BY <2>2, <2>3
  <2>5. \A i \in Ids : table'[i] # Unused => table'[i].brouillon # d
    <3> SUFFICES ASSUME NEW i \in Ids, table'[i] # Unused
                 PROVE  table'[i].brouillon # d
      OBVIOUS
    <3>1. CASE table'[i].brouillon = NULL
      BY <3>1, <2>2, NullIsNoValue
    <3>2. CASE table[i] # Unused /\ table'[i].brouillon = table[i].brouillon
      BY <3>2, <2>2 DEF Unsaved
    <3>3. ASSUME NEW w \in Runs, run[w] # NULL, run[w].at = "save",
                 table'[i].brouillon = run[w].draft, run'[w] # NULL => run'[w].at # "save"
          PROVE  table'[i].brouillon # d
      <4>1. w # r
        BY <3>3, <2>1
      <4> QED
        BY <3>3, <4>1, <2>2 DEF Unsaved
    <3> QED
      BY <3>1, <3>2, <3>3 DEF References
  <2>6. ASSUME NEW s \in Runs, run'[s] # NULL
        PROVE  /\ \A i \in Taken(run'[s]) : run'[s].seen[i].brouillon # d
               /\ s # r /\ run'[s].at = "save" => run'[s].draft # d
    <3>1. CASE run'[s] = run[s]
      BY <3>1, <2>2, <2>6 DEF Unsaved
    <3>2. CASE run'[s] # run[s]
      <4>1. run'[s].at # "save" /\ Snapshot(run'[s], run[s], table)
        BY <3>2, <2>6
      <4>2. ASSUME NEW i \in Taken(run'[s])
            PROVE  run'[s].seen[i].brouillon # d
        <5>1. i \in Ids /\ run'[s].seen[i] # NULL
          BY DEF Taken
        <5>2. CASE run[s] # NULL /\ run[s].seen[i] = run'[s].seen[i]
          BY <5>1, <5>2, <2>2 DEF Unsaved, Taken
        <5>3. CASE table[i] # Unused /\ table[i] = run'[s].seen[i]
          BY <5>1, <5>3, <2>2 DEF Unsaved
        <5> QED
          BY <4>1, <5>2, <5>3 DEF Snapshot
      <4> QED
        BY <4>1, <4>2
    <3> QED
      BY <3>1, <3>2
  <2>7. Unsaved(d, r, run', table')
    BY <2>5, <2>6 DEF Unsaved
  <2> QED
    BY <2>1, <2>2, <2>4, <2>7
<1>4. RowsKnown(table', mail')
  <2> SUFFICES ASSUME NEW i \in Ids, table'[i] # Unused, table'[i].brouillon # NULL
               PROVE  mail'[table'[i].brouillon] # NULL
    BY DEF RowsKnown
  <2>1. CASE table[i] # Unused /\ table'[i].brouillon = table[i].brouillon
    <3>1. table[i] \in Row /\ mail[table[i].brouillon] # NULL
      BY <2>1 DEF IInv, TypeOK, RowsKnown
    <3> QED
      BY <2>1, <3>1, RowFields
  <2>2. ASSUME NEW w \in Runs, run[w] # NULL, run[w].at = "save",
               table'[i].brouillon = run[w].draft
        PROVE  mail'[table'[i].brouillon] # NULL
    <3>1. run[w].draft \in DraftIds /\ mail[run[w].draft] = run[w].seen[run[w].cur].email
      BY <2>2 DEF IInv, InHand
    <3>2. run[w].cur \in Taken(run[w])
      BY <2>2, <1>1 DEF Sound, Placed
    <3>3. run[w].seen[run[w].cur] \in Row
      BY <3>2, <2>2, <1>1, RunFields DEF Taken
    <3> QED
      BY <3>1, <3>3, <2>2, RowFields, NullIsNoValue
  <2> QED
    BY <2>1, <2>2 DEF References
<1> QED
  BY <1>2, <1>3, <1>4 DEF IInv

\* A step of run r that leaves the table alone.
LEMMA RunStepKeeps ==
  ASSUME IInv, NEW r \in Runs, table' = table,
         mail' \in [DraftIds -> Emails \cup {NULL}],
         \A d \in DraftIds : mail[d] # NULL => mail'[d] = mail[d],
         run' \in [Runs -> Run \cup {NULL}], excused' \in SUBSET DraftIds,
         \A s \in Runs \ {r} : run'[s] = run[s],
         run'[r] # NULL => /\ Sound(run'[r], table, mail)
                           /\ run'[r].at # "save"
                           /\ Snapshot(run'[r], run[r], table)
  PROVE  IInv'
<1>1. TypeOK'
  BY DEF IInv, TypeOK
<1>2. \A s \in Runs : run[s] # NULL => Grows(run[s], table, table', mail, mail')
  BY DEF Grows
<1>3. References(table, table', run, run')
  BY DEF References
<1>4. run'[r] # NULL => Sound(run'[r], table', mail')
  <2> SUFFICES ASSUME run'[r] # NULL
               PROVE  Sound(run'[r], table', mail')
    OBVIOUS
  <2> DEFINE p == run'[r]
  <2>1. p \in Run /\ Sound(p, table, mail)
    OBVIOUS
  <2>2. Grows(p, table, table', mail, mail')
    BY DEF Grows
  <2> HIDE DEF p
  <2>3. Sound(p, table', mail')
    BY <2>1, <2>2, StaysSound
  <2> QED
    BY <2>3 DEF p
<1> QED
  BY <1>1, <1>2, <1>3, <1>4, StepKeeps
-----------------------------------------------------------------------------
(* The actions. *)

\* The run in hand of an action.
LEMMA RunInHand ==
  ASSUME IInv, NEW r \in Runs, run[r] # NULL
  PROVE  /\ run[r] \in Run /\ Sound(run[r], table, mail)
         /\ Placed(run[r]) /\ Taken(run[r]) \subseteq Ids
BY DoneFacts DEF IInv, TypeOK, RunsSound, Sound

LEMMA LaunchKeeps ==
  ASSUME IInv, NEW r \in Runs, Launch(r)
  PROVE  IInv'
<1> DEFINE p == [at |-> "count", seen |-> [i \in Ids |-> NULL], left |-> {}, cur |-> NULL,
                 draft |-> NULL, success |-> 0, errors |-> 0, refused |-> 0, known |-> {}]
<1>1. /\ UNCHANGED <<table, mail, excused>> /\ p \in Run /\ run' = [run EXCEPT ![r] = p]
      /\ run \in [Runs -> Run \cup {NULL}] /\ mail \in [DraftIds -> Emails \cup {NULL}]
      /\ excused \in SUBSET DraftIds
  BY DEF Launch, IInv, TypeOK, Run
<1>2. Taken(p) = {} /\ Done(p) = {}
  BY DEF Taken, Done
<1>3. p.at = "count" /\ p.left = {} /\ p.cur = NULL
      /\ p.success = 0 /\ p.errors = 0 /\ p.refused = 0
  OBVIOUS
<1> HIDE DEF p
<1>4. Known(p, table, mail) /\ Placed(p) /\ Snapshot(p, run[r], table)
  BY <1>2, <1>3 DEF Known, Placed, Snapshot
<1>5. Drafted(p, table, {}) /\ Cardinality(Done(p)) = 0
  BY <1>2, <1>3, FS_EmptySet DEF Drafted
<1>6. Sound(p, table, mail)
  BY <1>3, <1>4, <1>5 DEF Sound, Counted
<1>7. run'[r] = p /\ run' \in [Runs -> Run \cup {NULL}] /\ \A s \in Runs \ {r} : run'[s] = run[s]
  BY <1>1
<1> QED
  BY <1>1, <1>3, <1>4, <1>6, <1>7, RunStepKeeps

\* A run that only goes on to another step before the first prospect.
LEMMA AtChanges ==
  ASSUME IInv, NEW r \in Runs, run[r] # NULL, run[r].at \in {"count", "import"},
         NEW a \in {"import", "select"}, run' = [run EXCEPT ![r].at = a]
  PROVE  /\ run' \in [Runs -> Run \cup {NULL}] /\ \A s \in Runs \ {r} : run'[s] = run[s]
         /\ run'[r] \in Run /\ run'[r].at = a /\ run'[r].seen = run[r].seen
         /\ Sound(run'[r], table, mail)
<1>1. /\ run[r] \in Run /\ Sound(run[r], table, mail) /\ Placed(run[r])
  BY RunInHand
<1>2. /\ run' \in [Runs -> Run \cup {NULL}] /\ \A s \in Runs \ {r} : run'[s] = run[s]
      /\ run'[r] = [at |-> a, seen |-> run[r].seen, left |-> run[r].left, cur |-> run[r].cur,
                    draft |-> run[r].draft, success |-> run[r].success,
                    errors |-> run[r].errors, refused |-> run[r].refused,
                    known |-> run[r].known]
      /\ run'[r] \in Run
  BY <1>1 DEF IInv, TypeOK, Run
<1> DEFINE p == run'[r]
<1>3. /\ p \in Run /\ p.at = a /\ p.seen = run[r].seen /\ p.left = run[r].left
      /\ p.cur = run[r].cur
      /\ p.success = run[r].success /\ p.errors = run[r].errors /\ p.refused = run[r].refused
  BY <1>2
<1> HIDE DEF p
<1>4. Done(p) = Done(run[r]) /\ Placed(p)
  BY <1>1, <1>3 DEF Done, Taken, Placed
<1>5. Sound(p, table, mail)
  BY <1>1, <1>3, <1>4, MovesOn
<1> QED
  BY <1>2, <1>3, <1>5 DEF p

LEMMA CountKeeps ==
  ASSUME IInv, NEW r \in Runs, Count(r)
  PROVE  IInv'
<1>1. PICK a \in {"import", "select"} : run' = [run EXCEPT ![r].at = a]
  BY DEF Count
<1>2. run[r] # NULL /\ run[r].at = "count" /\ UNCHANGED <<table, mail, excused>>
      /\ mail \in [DraftIds -> Emails \cup {NULL}]
      /\ excused \in SUBSET DraftIds
  BY DEF Count, At, IInv, TypeOK
<1>3. /\ run' \in [Runs -> Run \cup {NULL}] /\ \A s \in Runs \ {r} : run'[s] = run[s]
      /\ run'[r].at = a /\ run'[r].seen = run[r].seen
      /\ Sound(run'[r], table, mail)
  BY <1>1, <1>2, AtChanges
<1>4. Snapshot(run'[r], run[r], table)
  BY <1>2, <1>3 DEF Snapshot
<1> QED
  BY <1>2, <1>3, <1>4, RunStepKeeps

\* What an import does to the runs at work.
LEMMA InsertGrows ==
  ASSUME IInv, NEW S \in SUBSET Emails, Insert(S), mail' = mail
  PROVE  /\ table' \in [Ids -> Row \cup {Unused}]
         /\ \A q : Grows(q, table, table', mail, mail')
         /\ References(table, table', run, run')
<1>1. /\ table' \in [Ids -> Row \cup {Unused}]
      /\ \A i \in Ids : table[i] # Unused => table'[i] = table[i]
      /\ \A i \in Ids : table'[i] # table[i] => \E e \in S : table'[i] = NewRow(e)
  BY InsertFacts DEF IInv
<1>2. \A q : Grows(q, table, table', mail, mail')
  BY <1>1 DEF Grows
<1>3. \A i \in Ids : \/ table'[i] = table[i]
                     \/ table'[i].brouillon = NULL
  <2> SUFFICES ASSUME NEW i \in Ids, table'[i] # table[i]
               PROVE  table'[i].brouillon = NULL
    OBVIOUS
  <2>1. PICK e \in S : table'[i] = NewRow(e)
    BY <1>1
  <2>2. e \in Emails
    OBVIOUS
  <2>3. NewRow(e).brouillon = NULL
    BY <2>2, NewRowFields
  <2> QED
    BY <2>1, <2>3
<1>4. References(table, table', run, run')
  BY <1>3 DEF References
<1> QED
  BY <1>1, <1>2, <1>4

LEMMA InitialImportKeeps ==
  ASSUME IInv, NEW r \in Runs, InitialImport(r)
  PROVE  IInv'
<1>1. /\ run[r] # NULL /\ run[r].at = "import" /\ mail' = mail /\ Insert(CsvFile)
      /\ run' = [run EXCEPT ![r].at = "select"] /\ CsvFile \in SUBSET Emails
      /\ excused' = excused
      /\ mail \in [DraftIds -> Emails \cup {NULL}]
      /\ excused \in SUBSET DraftIds
  BY FilesOfEmails DEF InitialImport, At, IInv, TypeOK
<1>2. /\ run' \in [Runs -> Run \cup {NULL}] /\ \A s \in Runs \ {r} : run'[s] = run[s]
      /\ run'[r] \in Run /\ run'[r].at = "select" /\ run'[r].seen = run[r].seen
      /\ Sound(run'[r], table, mail)
  BY <1>1, AtChanges
<1>3. /\ table' \in [Ids -> Row \cup {Unused}]
      /\ \A q : Grows(q, table, table', mail, mail')
      /\ References(table, table', run, run')
  BY <1>1, InsertGrows
<1>4. Sound(run'[r], table', mail')
  <2> DEFINE p == run'[r]
  <2>1. p \in Run /\ Sound(p, table, mail) /\ Grows(p, table, table', mail, mail')
    BY <1>2, <1>3
  <2> HIDE DEF p
  <2>2. Sound(p, table', mail')
    BY <2>1, StaysSound
  <2> QED
    BY <2>2 DEF p
<1>5. Snapshot(run'[r], run[r], table)
  BY <1>1, <1>2 DEF Snapshot
<1>6. TypeOK'
  BY <1>1, <1>2, <1>3 DEF TypeOK
<1>7. \A s \in Runs : run'[s] # NULL =>
        \/ run'[s] = run[s]
        \/ /\ Sound(run'[s], table', mail')
           /\ run'[s].at # "save"
           /\ Snapshot(run'[s], run[s], table)
  BY <1>2, <1>4, <1>5
<1> QED
  BY <1>1, <1>3, <1>6, <1>7, StepKeeps

LEMMA SelectKeeps ==
  ASSUME IInv, NEW r \in Runs, Select(r)
  PROVE  IInv'
<1> DEFINE seen == [i \in Ids |-> IF Pending(i) THEN table[i] ELSE NULL]
           left == {i \in Ids : Pending(i)}
<1>1. /\ run[r] # NULL /\ run[r].at = "select" /\ UNCHANGED <<table, mail, excused>>
      /\ run' = [run EXCEPT ![r].at = "next", ![r].seen = seen, ![r].left = left,
                            ![r].known = Settled]
      /\ Settled \in SUBSET DraftIds /\ excused \in SUBSET DraftIds
      /\ mail \in [DraftIds -> Emails \cup {NULL}] /\ table \in [Ids -> Row \cup {Unused}]
  BY DEF Select, At, IInv, TypeOK, Settled
<1>2. /\ run[r] \in Run /\ Placed(run[r])
  BY <1>1, RunInHand
<1>3. seen \in [Ids -> Row \cup {NULL}] /\ left \in SUBSET Ids
  BY <1>1 DEF Pending
<1>4. left = {i \in Ids : seen[i] # NULL}
  BY <1>1, NullIsNoValue DEF Pending
<1>5. \A i \in left : seen[i] = table[i] /\ table[i] # Unused /\ table[i].statut = "EN ATTENTE"
  BY DEF Pending
<1> HIDE DEF seen, left
<1>6. /\ run' \in [Runs -> Run \cup {NULL}] /\ \A s \in Runs \ {r} : run'[s] = run[s]
      /\ run'[r] = [at |-> "next", seen |-> seen, left |-> left, cur |-> run[r].cur,
                    draft |-> run[r].draft, success |-> run[r].success,
                    errors |-> run[r].errors, refused |-> run[r].refused,
                    known |-> Settled]
  BY <1>1, <1>2, <1>3 DEF IInv, TypeOK, Run
<1> DEFINE p == run'[r]
<1>7. /\ p.at = "next" /\ p.seen = seen /\ p.left = left /\ p.cur = NULL
      /\ p.success = 0 /\ p.errors = 0 /\ p.refused = 0
  BY <1>1, <1>2, <1>6 DEF Placed
<1> HIDE DEF p
<1>8. Taken(p) = left /\ Done(p) = {}
  BY <1>4, <1>7 DEF Taken, Done
<1>9. Known(p, table, mail) /\ Placed(p) /\ Snapshot(p, run[r], table)
  BY <1>3, <1>5, <1>7, <1>8 DEF Known, Placed, Snapshot, IInv, RowsKnown
<1>10. Drafted(p, table, {}) /\ Cardinality(Done(p)) = 0
  BY <1>7, <1>8, FS_EmptySet DEF Drafted
<1>11. Sound(p, table, mail)
  BY <1>7, <1>9, <1>10 DEF Sound, Counted
<1> QED
  BY <1>1, <1>6, <1>7, <1>9, <1>11, RunStepKeeps DEF p

LEMMA PitchWrittenKeeps ==
  ASSUME IInv, NEW r \in Runs, PitchWritten(r)
  PROVE  IInv'
<1>1. /\ run[r] # NULL /\ run[r].at = "next" /\ UNCHANGED <<table, mail, excused>>
      /\ mail \in [DraftIds -> Emails \cup {NULL}]
      /\ excused \in SUBSET DraftIds
  BY DEF PitchWritten, At, IInv, TypeOK
<1>2. PICK i \in run[r].left :
        run' = [run EXCEPT ![r].at = "draft", ![r].cur = i, ![r].left = @ \ {i}]
  BY DEF PitchWritten
<1>3. /\ run[r] \in Run /\ Sound(run[r], table, mail) /\ Placed(run[r])
      /\ Taken(run[r]) \subseteq Ids
  BY <1>1, RunInHand
<1>4. /\ run[r].cur = NULL /\ i \in Taken(run[r]) /\ i \in Ids
  BY <1>1, <1>3 DEF Placed
<1>5. /\ run' \in [Runs -> Run \cup {NULL}] /\ \A s \in Runs \ {r} : run'[s] = run[s]
      /\ run'[r] \in Run
      /\ run'[r] = [at |-> "draft", seen |-> run[r].seen, left |-> run[r].left \ {i}, cur |-> i,
                    draft |-> run[r].draft, success |-> run[r].success,
                    errors |-> run[r].errors, refused |-> run[r].refused,
                    known |-> run[r].known]
  BY <1>2, <1>3, <1>4 DEF IInv, TypeOK, Run
<1> DEFINE p == run'[r]
<1>6. /\ p \in Run /\ p.at = "draft" /\ p.seen = run[r].seen /\ p.left = run[r].left \ {i}
      /\ p.cur = i
      /\ p.success = run[r].success /\ p.errors = run[r].errors /\ p.refused = run[r].refused
  BY <1>5
<1> HIDE DEF p
<1>7. Taken(p) = Taken(run[r]) /\ Done(p) = Done(run[r])
  BY <1>3, <1>4, <1>6, NullIsNoValue DEF Taken, Done
<1>8. Placed(p) /\ Snapshot(p, run[r], table)
  BY <1>1, <1>3, <1>4, <1>6, <1>7 DEF Placed, Snapshot
<1>9. Sound(p, table, mail)
  BY <1>3, <1>6, <1>7, <1>8, MovesOn
<1> QED
  BY <1>1, <1>5, <1>6, <1>8, <1>9, RunStepKeeps DEF p

LEMMA PitchFailedKeeps ==
  ASSUME IInv, NEW r \in Runs, PitchFailed(r)
  PROVE  IInv'
<1>1. /\ run[r] # NULL /\ run[r].at = "next" /\ UNCHANGED <<table, mail, excused>>
      /\ mail \in [DraftIds -> Emails \cup {NULL}]
      /\ excused \in SUBSET DraftIds
  BY DEF PitchFailed, At, IInv, TypeOK
<1>2. PICK i \in run[r].left : run' = [run EXCEPT ![r].left = @ \ {i}, ![r].errors = @ + 1]
  BY DEF PitchFailed
<1>3. /\ run[r] \in Run /\ Sound(run[r], table, mail) /\ Placed(run[r])
      /\ Taken(run[r]) \subseteq Ids /\ run[r].errors \in Nat /\ run[r].refused \in Nat
  BY <1>1, RunInHand, RunFields
<1>4. /\ run[r].cur = NULL /\ i \in Taken(run[r]) /\ i \in Ids
  BY <1>1, <1>3 DEF Placed
<1>5. /\ run' \in [Runs -> Run \cup {NULL}] /\ \A s \in Runs \ {r} : run'[s] = run[s]
      /\ run'[r] \in Run
      /\ run'[r] = [at |-> "next", seen |-> run[r].seen, left |-> run[r].left \ {i}, cur |-> NULL,
                    draft |-> run[r].draft, success |-> run[r].success,
                    errors |-> run[r].errors + 1, refused |-> run[r].refused,
                    known |-> run[r].known]
  BY <1>1, <1>2, <1>3, <1>4 DEF IInv, TypeOK, Run
<1> DEFINE p == run'[r]
<1>6. /\ p \in Run /\ p.at = "next" /\ p.seen = run[r].seen /\ p.left = run[r].left \ {i}
      /\ p.cur = NULL /\ p.success = run[r].success
      /\ p.errors + p.refused = run[r].errors + run[r].refused + 1
  BY <1>3, <1>5
<1> HIDE DEF p
<1>7. /\ Taken(p) = Taken(run[r]) /\ Done(p) = Done(run[r]) \cup {i} /\ i \notin Done(run[r])
  BY <1>3, <1>4, <1>6, NullIsNoValue DEF Taken, Done
<1>8. Placed(p) /\ Snapshot(p, run[r], table)
  BY <1>1, <1>3, <1>4, <1>6, <1>7 DEF Placed, Snapshot
<1>9. Sound(p, table, mail)
  BY <1>3, <1>4, <1>6, <1>7, <1>8, GivesOneUp
<1> QED
  BY <1>1, <1>5, <1>6, <1>8, <1>9, RunStepKeeps DEF p
\* The prospect in hand, while the draft is made and saved.
LEMMA ProspectInHand ==
  ASSUME IInv, NEW r \in Runs, run[r] # NULL, run[r].at \in {"draft", "save"}
  PROVE  LET i == run[r].cur
         IN  /\ i \in Taken(run[r]) /\ i \in Ids /\ i \notin run[r].left
             /\ i \notin Done(run[r])
             /\ run[r].seen[i] \in Row /\ Address(r) = run[r].seen[i].email
             /\ Address(r) \in Emails
             /\ table[i] \in Row /\ table[i] # Unused /\ table[i].email = Address(r)
<1>1. run[r] \in Run /\ Sound(run[r], table, mail) /\ Placed(run[r]) /\ Taken(run[r]) \subseteq Ids
  BY RunInHand
<1>2. run[r].cur \in Taken(run[r]) /\ run[r].cur \in Ids /\ run[r].cur \notin run[r].left
      /\ run[r].cur \notin Done(run[r])
  BY <1>1 DEF Placed, Done
<1>3. run[r].seen[run[r].cur] \in Row
  BY <1>1, <1>2, RunFields DEF Taken
<1>4. /\ table[run[r].cur] # Unused
      /\ table[run[r].cur].email = run[r].seen[run[r].cur].email
      /\ table[run[r].cur] \in Row \cup {Unused}
  BY <1>1, <1>2 DEF Sound, Known, IInv, TypeOK
<1> QED
  BY <1>2, <1>3, <1>4, RowFields DEF Address

\* A draft that is made is a new one.
LEMMA DraftIsNew ==
  ASSUME IInv, NEW e \in Emails, \E d \in DraftIds : mail[d] = NULL,
         mail' = [mail EXCEPT ![NewDraft] = e]
  PROVE  /\ NewDraft \in DraftIds /\ mail[NewDraft] = NULL /\ mail'[NewDraft] = e
         /\ mail' \in [DraftIds -> Emails \cup {NULL}]
         /\ \A d \in DraftIds : mail[d] # NULL => mail'[d] = mail[d]
<1>1. mail \in [DraftIds -> Emails \cup {NULL}]
  BY DEF IInv, TypeOK
<1>2. NewDraft \in DraftIds /\ mail[NewDraft] = NULL
  BY DEF NewDraft
<1> QED
  BY <1>1, <1>2

\* A prospect is given up after its pitch was written.
LEMMA RefusedKeeps ==
  ASSUME IInv, NEW r \in Runs, run[r] # NULL, run[r].at = "draft", table' = table,
         excused' \in SUBSET DraftIds,
         mail' \in [DraftIds -> Emails \cup {NULL}],
         \A d \in DraftIds : mail[d] # NULL => mail'[d] = mail[d],
         run' = [run EXCEPT ![r].at = "next", ![r].cur = NULL, ![r].refused = @ + 1]
  PROVE  IInv'
<1> DEFINE i == run[r].cur
<1>1. /\ run[r] \in Run /\ Sound(run[r], table, mail) /\ Placed(run[r])
      /\ run[r].errors \in Nat /\ run[r].refused \in Nat
  BY RunInHand, RunFields
<1>2. i \in Taken(run[r]) /\ i \in Ids /\ i \notin run[r].left /\ i \notin Done(run[r])
  BY ProspectInHand
<1>3. /\ run' \in [Runs -> Run \cup {NULL}] /\ \A s \in Runs \ {r} : run'[s] = run[s]
      /\ run'[r] \in Run
      /\ run'[r] = [at |-> "next", seen |-> run[r].seen, left |-> run[r].left, cur |-> NULL,
                    draft |-> run[r].draft, success |-> run[r].success,
                    errors |-> run[r].errors, refused |-> run[r].refused + 1,
                    known |-> run[r].known]
  BY <1>1 DEF IInv, TypeOK, Run
<1> DEFINE p == run'[r]
<1>4. /\ p \in Run /\ p.at = "next" /\ p.seen = run[r].seen /\ p.left = run[r].left
      /\ p.cur = NULL /\ p.success = run[r].success
      /\ p.errors + p.refused = run[r].errors + run[r].refused + 1
  BY <1>1, <1>3
<1> HIDE DEF p
<1>5. Taken(p) = Taken(run[r]) /\ Done(p) = Done(run[r]) \cup {i}
  BY <1>2, <1>4, NullIsNoValue DEF Taken, Done
<1>6. Placed(p) /\ Snapshot(p, run[r], table)
  BY <1>1, <1>4, <1>5 DEF Placed, Snapshot
<1> HIDE DEF i
<1>7. Sound(p, table, mail)
  BY <1>1, <1>2, <1>4, <1>5, <1>6, GivesOneUp
<1> QED
  BY <1>3, <1>4, <1>6, <1>7, RunStepKeeps DEF p

LEMMA DraftAnswerLostKeeps ==
  ASSUME IInv, NEW r \in Runs, DraftAnswerLost(r)
  PROVE  IInv'
<1>1. /\ run[r] # NULL /\ run[r].at = "draft" /\ table' = table
      /\ \E d \in DraftIds : mail[d] = NULL
      /\ mail' = [mail EXCEPT ![NewDraft] = Address(r)]
      /\ run' = [run EXCEPT ![r].at = "next", ![r].cur = NULL, ![r].refused = @ + 1]
      /\ excused' = excused \cup {NewDraft} /\ excused \in SUBSET DraftIds
  BY DEF DraftAnswerLost, At, IInv, TypeOK
<1>2. Address(r) \in Emails
  BY <1>1, ProspectInHand
<1>3. /\ mail' \in [DraftIds -> Emails \cup {NULL}] /\ NewDraft \in DraftIds
      /\ \A d \in DraftIds : mail[d] # NULL => mail'[d] = mail[d]
  BY <1>1, <1>2, DraftIsNew
<1> QED
  BY <1>1, <1>3, RefusedKeeps

LEMMA DraftRefusedKeeps ==
  ASSUME IInv, NEW r \in Runs, DraftRefused(r)
  PROVE  IInv'
<1>1. /\ run[r] # NULL /\ run[r].at = "draft" /\ UNCHANGED <<table, mail, excused>>
      /\ run' = [run EXCEPT ![r].at = "next", ![r].cur = NULL, ![r].refused = @ + 1]
      /\ mail \in [DraftIds -> Emails \cup {NULL}]
      /\ excused \in SUBSET DraftIds
  BY DEF DraftRefused, At, IInv, TypeOK
<1> QED
  BY <1>1, RefusedKeeps

\* The only step that takes a draft in hand.
LEMMA DraftMadeKeeps ==
  ASSUME IInv, NEW r \in Runs, DraftMade(r)
  PROVE  IInv'
<1> DEFINE d == NewDraft
<1>1. /\ run[r] # NULL /\ run[r].at = "draft" /\ table' = table
      /\ \E c \in DraftIds : mail[c] = NULL
      /\ mail' = [mail EXCEPT ![d] = Address(r)]
      /\ run' = [run EXCEPT ![r].at = "save", ![r].draft = d]
      /\ excused' = excused
  BY DEF DraftMade, At
<1>2. /\ Address(r) \in Emails /\ Address(r) = run[r].seen[run[r].cur].email
  BY <1>1, ProspectInHand
<1>3. /\ d \in DraftIds /\ mail[d] = NULL /\ mail'[d] = Address(r)
      /\ mail' \in [DraftIds -> Emails \cup {NULL}]
      /\ \A c \in DraftIds : mail[c] # NULL => mail'[c] = mail[c]
  BY <1>1, <1>2, DraftIsNew
<1> HIDE DEF d
<1>4. run[r] \in Run /\ Sound(run[r], table, mail) /\ Placed(run[r])
  BY <1>1, RunInHand
<1>5. /\ run' \in [Runs -> Run \cup {NULL}] /\ \A s \in Runs \ {r} : run'[s] = run[s]
      /\ run'[r] \in Run
      /\ run'[r] = [at |-> "save", seen |-> run[r].seen, left |-> run[r].left,
                    cur |-> run[r].cur, draft |-> d, success |-> run[r].success,
                    errors |-> run[r].errors, refused |-> run[r].refused,
                    known |-> run[r].known]
  BY <1>1, <1>3, <1>4 DEF IInv, TypeOK, Run
<1> DEFINE p == run'[r]
<1>6. /\ p \in Run /\ p.at = "save" /\ p.seen = run[r].seen /\ p.left = run[r].left
      /\ p.cur = run[r].cur /\ p.draft = d
      /\ p.success = run[r].success /\ p.errors = run[r].errors /\ p.refused = run[r].refused
  BY <1>5
<1> HIDE DEF p
<1>7. Taken(p) = Taken(run[r]) /\ Done(p) = Done(run[r])
  BY <1>6 DEF Taken, Done
<1>8. Placed(p)
  BY <1>1, <1>4, <1>6, <1>7 DEF Placed
<1>9. Sound(p, table, mail)
  BY <1>4, <1>6, <1>7, <1>8, MovesOn
<1>10. \A s \in Runs : run'[s] # NULL =>
         /\ run'[s] \in Run /\ run[s] # NULL /\ Sound(run'[s], table, mail)
         /\ run'[s].seen = run[s].seen /\ run'[s].cur = run[s].cur
  BY <1>1, <1>5, <1>6, <1>9 DEF p, IInv, RunsSound
<1>11. TypeOK'
  BY <1>1, <1>3, <1>5 DEF IInv, TypeOK
<1>12. RunsSound(run', table', mail')
  <2> SUFFICES ASSUME NEW s \in Runs, run'[s] # NULL
               PROVE  Sound(run'[s], table', mail')
    BY DEF RunsSound
  <2> DEFINE q == run'[s]
  <2>1. q \in Run /\ Sound(q, table, mail) /\ Grows(q, table, table', mail, mail')
    BY <1>1, <1>3, <1>10 DEF Grows
  <2> HIDE DEF q
  <2>2. Sound(q, table', mail')
    BY <2>1, StaysSound
  <2> QED
    BY <2>2 DEF q
\* The new draft is in no row and in no snapshot, for those were made before.
<1>13. \A i \in Ids : table[i] # Unused => table[i].brouillon # d
  BY <1>3, NullIsNoValue DEF IInv, RowsKnown
<1>14. \A s \in Runs : run'[s] # NULL =>
         \A i \in Taken(run'[s]) : run'[s].seen[i].brouillon # d
  BY <1>3, <1>10, NullIsNoValue DEF Sound, Known
<1>15. ASSUME NEW s \in Runs, s # r, run[s] # NULL, run[s].at = "save"
       PROVE  /\ run[s].draft # d /\ run[s].draft \in DraftIds
              /\ mail'[run[s].draft] = run[s].seen[run[s].cur].email
              /\ Unsaved(run[s].draft, s, run, table)
  <2>1. /\ run[s].draft \in DraftIds
        /\ mail[run[s].draft] = run[s].seen[run[s].cur].email
        /\ Unsaved(run[s].draft, s, run, table)
    BY <1>15 DEF IInv, InHand
  <2>2. mail[run[s].draft] # NULL
    BY <1>15, <2>1, ProspectInHand, NullIsNoValue
  <2> QED
    BY <1>3, <2>1, <2>2
<1>16. InHand(run', table', mail')
  <2> SUFFICES ASSUME NEW s \in Runs, run'[s] # NULL, run'[s].at = "save"
               PROVE  /\ run'[s].draft \in DraftIds
                      /\ mail'[run'[s].draft] = run'[s].seen[run'[s].cur].email
                      /\ Unsaved(run'[s].draft, s, run', table)
    BY <1>1 DEF InHand
  <2>1. CASE s = r
    <3>1. run'[s].draft = d /\ run'[s].seen = run[r].seen /\ run'[s].cur = run[r].cur
      BY <2>1, <1>6 DEF p
    <3>2. \A w \in Runs : run'[w] # NULL /\ w # s /\ run'[w].at = "save" => run'[w].draft # d
      BY <2>1, <1>5, <1>15
    <3>3. Unsaved(d, s, run', table)
      BY <1>13, <1>14, <3>2 DEF Unsaved
    <3> QED
      BY <1>2, <1>3, <3>1, <3>3
  <2>2. CASE s # r
    <3>1. run'[s] = run[s] /\ run[s] # NULL /\ run[s].at = "save"
      BY <2>2, <1>5
    <3>2. /\ run[s].draft # d /\ run[s].draft \in DraftIds
          /\ mail'[run[s].draft] = run[s].seen[run[s].cur].email
          /\ Unsaved(run[s].draft, s, run, table)
      BY <2>2, <3>1, <1>15
    <3>3. ASSUME NEW w \in Runs, run'[w] # NULL
          PROVE  /\ \A i \in Taken(run'[w]) : run'[w].seen[i].brouillon # run[s].draft
                 /\ w # s /\ run'[w].at = "save" => run'[w].draft # run[s].draft
      <4>1. CASE w = r
        <5>1. run'[w].seen = run[w].seen /\ Taken(run'[w]) = Taken(run[w]) /\ run[w] # NULL
              /\ run'[w].draft = d
          BY <4>1, <1>1, <1>6, <1>7 DEF p
        <5> QED
          BY <5>1, <3>2 DEF Unsaved
      <4>2. CASE w # r
        <5>1. run'[w] = run[w]
          BY <4>2, <1>5
        <5> QED
          BY <5>1, <3>2, <3>3 DEF Unsaved
      <4> QED
        BY <4>1, <4>2
    <3>4. Unsaved(run[s].draft, s, run', table)
      BY <3>2, <3>3 DEF Unsaved
    <3> QED
      BY <3>1, <3>2, <3>4
  <2> QED
    BY <2>1, <2>2
<1>17. RowsKnown(table', mail')
  BY <1>1, <1>3, RowFields DEF IInv, TypeOK, RowsKnown
<1> QED
  BY <1>11, <1>12, <1>16, <1>17 DEF IInv
\* The draft leaves the hand of the run for the row, whatever became of the row.
LEMMA SaveKeeps ==
  ASSUME IInv, NEW r \in Runs, Save(r)
  PROVE  IInv'
<1> DEFINE i == run[r].cur
           d == run[r].draft
<1>1. /\ run[r] # NULL /\ run[r].at = "save" /\ mail' = mail /\ excused' = excused
      /\ table' = [table EXCEPT ![i].statut = "BROUILLON_CREE", ![i].brouillon = d]
      /\ run' = [run EXCEPT ![r].at = "next", ![r].cur = NULL, ![r].draft = NULL,
                            ![r].success = @ + 1]
  BY DEF Save, At
<1>2. /\ run[r] \in Run /\ Sound(run[r], table, mail) /\ Placed(run[r])
      /\ Taken(run[r]) \subseteq Ids
      /\ run[r].success \in Nat /\ run[r].errors \in Nat /\ run[r].refused \in Nat
  BY <1>1, RunInHand, RunFields
<1>3. /\ i \in Taken(run[r]) /\ i \in Ids /\ i \notin run[r].left /\ i \notin Done(run[r])
      /\ table[i] \in Row /\ table[i] # Unused
  BY <1>1, ProspectInHand
<1>4. d \in DraftIds /\ Unsaved(d, r, run, table)
  BY <1>1 DEF IInv, InHand
<1> HIDE DEF i, d
<1>5. /\ table' \in [Ids -> Row \cup {Unused}]
      /\ table'[i] = [email |-> table[i].email, statut |-> "BROUILLON_CREE", brouillon |-> d]
      /\ table'[i] \in Row
      /\ \A k \in Ids \ {i} : table'[k] = table[k]
  <2>1. "BROUILLON_CREE" \in VALID_STATUSES
    BY DEF VALID_STATUSES
  <2>2. table \in [Ids -> Row \cup {Unused}]
    BY DEF IInv, TypeOK
  <2>3. /\ table'[i] = [email |-> table[i].email, statut |-> "BROUILLON_CREE", brouillon |-> d]
        /\ \A k \in Ids \ {i} : table'[k] = table[k]
        /\ table' = [k \in Ids |-> table'[k]]
    BY <1>1, <1>3, <2>2 DEF Row
  <2>4. table'[i] \in Row
    BY <1>3, <1>4, <2>1, <2>3, RowFields DEF Row
  <2> QED
    BY <2>2, <2>3, <2>4
<1>6. table'[i] \in Row /\ table'[i] # Unused
      /\ table'[i].email = table[i].email /\ table'[i].brouillon = d
  BY <1>5, UnusedIsNoRow
<1>7. \A s \in Runs : run[s] # NULL => Grows(run[s], table, table', mail, mail')
  <2> SUFFICES ASSUME NEW s \in Runs, run[s] # NULL
               PROVE  Grows(run[s], table, table', mail, mail')
    OBVIOUS
  <2>1. i \in Taken(run[s]) => table'[i].brouillon # run[s].seen[i].brouillon
    BY <1>4, <1>6 DEF Unsaved
  <2>2. ASSUME NEW k \in Ids, table[k] # Unused
        PROVE  /\ table'[k] # Unused
               /\ table'[k].email = table[k].email
               /\ table'[k].brouillon = table[k].brouillon
                    \/ (k \in Taken(run[s]) => table'[k].brouillon # run[s].seen[k].brouillon)
    BY <1>5, <1>6, <2>1, <2>2
  <2> QED
    BY <1>1, <2>2 DEF Grows
<1>8. /\ run' \in [Runs -> Run \cup {NULL}] /\ \A s \in Runs \ {r} : run'[s] = run[s]
      /\ run'[r] \in Run
      /\ run'[r] = [at |-> "next", seen |-> run[r].seen, left |-> run[r].left, cur |-> NULL,
                    draft |-> NULL, success |-> run[r].success + 1,
                    errors |-> run[r].errors, refused |-> run[r].refused,
                    known |-> run[r].known]
  BY <1>1, <1>2 DEF IInv, TypeOK, Run
<1> DEFINE p == run'[r]
<1>9. /\ p \in Run /\ p.at = "next" /\ p.seen = run[r].seen /\ p.left = run[r].left
      /\ p.cur = NULL /\ p.success = run[r].success + 1
      /\ p.errors = run[r].errors /\ p.refused = run[r].refused
  BY <1>8
<1> HIDE DEF p
<1>10. Taken(p) = Taken(run[r]) /\ Done(p) = Done(run[r]) \cup {i}
  BY <1>3, <1>9, NullIsNoValue DEF Taken, Done, i
<1>11. Placed(p) /\ Snapshot(p, run[r], table)
  BY <1>1, <1>2, <1>9, <1>10 DEF Placed, Snapshot
<1>12. table'[i].brouillon # run[r].seen[i].brouillon
  BY <1>1, <1>3, <1>4, <1>6 DEF Unsaved
<1>13. Sound(p, table', mail')
  <2> DEFINE q == run[r]
  <2>1. /\ q \in Run /\ Sound(q, table, mail) /\ Grows(q, table, table', mail, mail')
        /\ p \in Run /\ p.seen = q.seen /\ i \in Taken(q) /\ i \notin Done(q)
        /\ Done(p) = Done(q) \cup {i} /\ Placed(p)
        /\ p.success = q.success + 1 /\ p.errors = q.errors /\ p.refused = q.refused
        /\ table'[i].brouillon # q.seen[i].brouillon
    BY <1>1, <1>2, <1>3, <1>7, <1>9, <1>10, <1>11, <1>12
  <2> HIDE DEF q
  <2> QED
    BY <2>1, SavesOne
<1>14. References(table, table', run, run')
  <2>1. run'[r].at # "save"
    BY <1>9 DEF p
  <2>2. \A k \in Ids : table'[k] # Unused =>
          \/ table[k] # Unused /\ table'[k].brouillon = table[k].brouillon
          \/ k = i
    BY <1>5
  <2>3. table'[i].brouillon = run[r].draft
    BY <1>6 DEF d
  <2> QED
    BY <1>1, <2>1, <2>2, <2>3 DEF References
<1>15. TypeOK'
  BY <1>1, <1>5, <1>8 DEF IInv, TypeOK
<1>16. \A s \in Runs : run'[s] # NULL =>
         \/ run'[s] = run[s]
         \/ /\ Sound(run'[s], table', mail')
            /\ run'[s].at # "save"
            /\ Snapshot(run'[s], run[s], table)
  BY <1>8, <1>9, <1>11, <1>13 DEF p
<1> QED
  BY <1>1, <1>7, <1>14, <1>15, <1>16, StepKeeps

LEMMA EndingKeeps ==
  ASSUME IInv, NEW r \in Runs, End(r) \/ Stop(r)
  PROVE  IInv'
<1>1. run' = [run EXCEPT ![r] = NULL] /\ UNCHANGED <<table, mail>>
  BY DEF End, Stop
<1>0. excused' \in SUBSET DraftIds
  <2>1. excused \in SUBSET DraftIds /\ run \in [Runs -> Run \cup {NULL}]
    BY DEF IInv, TypeOK
  <2>2. At(r, "save") => run[r].draft \in DraftIds
    BY DEF At, IInv, InHand
  <2> QED
    BY <2>1, <2>2 DEF End, Stop
<1>2. /\ run' \in [Runs -> Run \cup {NULL}] /\ \A s \in Runs \ {r} : run'[s] = run[s]
      /\ run'[r] = NULL /\ mail \in [DraftIds -> Emails \cup {NULL}]
  BY <1>1 DEF IInv, TypeOK
<1> QED
  BY <1>0, <1>1, <1>2, RunStepKeeps

LEMMA ImportKeeps ==
  ASSUME IInv, NEW f \in Files, Import(f)
  PROVE  IInv'
<1>1. f \in SUBSET Emails /\ Insert(f) /\ UNCHANGED <<mail, run, excused>>
  BY FilesOfEmails DEF Import
<1>2. /\ table' \in [Ids -> Row \cup {Unused}]
      /\ \A q : Grows(q, table, table', mail, mail')
      /\ References(table, table', run, run')
  BY <1>1, InsertGrows
<1>3. TypeOK'
  BY <1>1, <1>2 DEF IInv, TypeOK
<1> QED
  BY <1>1, <1>2, <1>3, StepKeeps

LEMMA SetStatusFacts ==
  ASSUME IInv, NEW i \in Ids, NEW s \in Choices, SetStatus(i, s)
  PROVE  /\ table[i] \in Row /\ table[i] # Unused
         /\ table' \in [Ids -> Row \cup {Unused}]
         /\ table'[i] = [email |-> table[i].email, statut |-> s, brouillon |-> table[i].brouillon]
         /\ \A k \in Ids \ {i} : table'[k] = table[k]
<1>1. table \in [Ids -> Row \cup {Unused}] /\ table[i] \in Row /\ table[i] # Unused
      /\ s \in VALID_STATUSES
  BY ChoicesValid DEF IInv, TypeOK, SetStatus, Prospects
<1>2. table' = [table EXCEPT ![i].statut = s]
  BY DEF SetStatus
<1>3. /\ table'[i] = [email |-> table[i].email, statut |-> s, brouillon |-> table[i].brouillon]
      /\ \A k \in Ids \ {i} : table'[k] = table[k]
      /\ table' = [k \in Ids |-> table'[k]]
  BY <1>1, <1>2 DEF Row
<1>4. table'[i] \in Row
  BY <1>1, <1>3, RowFields DEF Row
<1> QED
  BY <1>1, <1>3, <1>4

LEMMA SetStatusKeeps ==
  ASSUME IInv, NEW i \in Ids, NEW s \in Choices, SetStatus(i, s)
  PROVE  IInv'
<1>1. /\ table[i] # Unused
      /\ table' \in [Ids -> Row \cup {Unused}]
      /\ table'[i] = [email |-> table[i].email, statut |-> s, brouillon |-> table[i].brouillon]
      /\ \A k \in Ids \ {i} : table'[k] = table[k]
  BY SetStatusFacts
<1>2. UNCHANGED <<mail, run>>
  BY DEF SetStatus
<1>0. excused' \in SUBSET DraftIds
  BY DEF SetStatus, IInv, TypeOK, Letters
<1>3. table'[i] # Unused
  BY <1>1, SetStatusFacts, UnusedIsNoRow, RowFields, ChoicesValid DEF Row
<1>4. \A q : Grows(q, table, table', mail, mail')
  BY <1>1, <1>2, <1>3 DEF Grows
<1>5. References(table, table', run, run')
  BY <1>1 DEF References
<1>6. TypeOK'
  BY <1>0, <1>1, <1>2 DEF IInv, TypeOK
<1> QED
  BY <1>2, <1>4, <1>5, <1>6, StepKeeps

-----------------------------------------------------------------------------
(* The theorems. *)

LEMMA InitIInv == Init => IInv
BY DEF Init, IInv, TypeOK, RunsSound, InHand, RowsKnown

LEMMA NextIInv == IInv /\ [Next]_vars => IInv'
<1> SUFFICES ASSUME IInv, [Next]_vars PROVE IInv'
  OBVIOUS
<1>1. ASSUME NEW r \in Runs, Launch(r) PROVE IInv'
  BY <1>1, LaunchKeeps
<1>2. ASSUME NEW r \in Runs, RunStep(r) PROVE IInv'
  BY <1>2, CountKeeps, InitialImportKeeps, SelectKeeps, PitchWrittenKeeps, PitchFailedKeeps,
     DraftMadeKeeps, DraftAnswerLostKeeps, DraftRefusedKeeps, SaveKeeps, EndingKeeps
     DEF RunStep
<1>3. ASSUME NEW r \in Runs, Stop(r) PROVE IInv'
  BY <1>3, EndingKeeps
<1>4. CASE Dashboard
  BY <1>4, ImportKeeps, SetStatusKeeps DEF Dashboard
<1>5. CASE UNCHANGED vars
  BY <1>5 DEF vars, IInv, TypeOK
<1> QED
  BY <1>1, <1>2, <1>3, <1>4, <1>5 DEF Next

\* The invariant holds of every behaviour.
LEMMA Invariant == Spec => []IInv
BY InitIInv, NextIInv, PTL DEF Spec

\* The table, the mailbox and the runs stay in their ranges.
THEOREM TypeCorrect == Spec => []TypeOK
<1>1. IInv => TypeOK
  BY DEF IInv
<1> QED
  BY <1>1, Invariant, PTL

\* However many runs, imports and users rewrite the rows meanwhile, every run accounts
\* for each prospect it took: drafted, failed or refused.
THEOREM ReportsAreComplete == Spec => []ReportIsComplete
<1>1. ASSUME IInv
      PROVE  ReportIsComplete
  <2> SUFFICES ASSUME NEW r \in Runs, run[r] # NULL
               PROVE  /\ run[r].success + run[r].errors + run[r].refused = Cardinality(Handled(r))
                      /\ Cardinality({i \in Handled(r) : table[i] = run[r].seen[i]})
                           <= run[r].errors + run[r].refused
    BY DEF ReportIsComplete
  <2> DEFINE q == run[r]
             same == {i \in Handled(r) : table[i] = q.seen[i]}
  <2>1. q \in Run /\ Sound(q, table, mail)
    BY <1>1, RunInHand
  <2>2. Handled(r) = Done(q)
    BY DEF Handled, Done, Taken
  <2>3. /\ q.success \in Nat /\ q.errors \in Nat /\ q.refused \in Nat
        /\ q.success + q.errors + q.refused = Cardinality(Done(q))
    BY <2>1, RunFields DEF Sound, Counted
  <2>4. PICK D \in SUBSET Ids : Drafted(q, table, D)
    BY <2>1 DEF Sound, Counted
  <2> HIDE DEF q
  <2>5. IsFiniteSet(Done(q)) /\ Cardinality(Done(q)) \in Nat
    BY <2>1, DoneFacts
  <2>6. D \subseteq Done(q) /\ same \subseteq Done(q) \ D /\ Cardinality(D) = q.success
    BY <2>2, <2>4 DEF Drafted
  <2>7. Cardinality(same) <= Cardinality(Done(q) \ D) /\ IsFiniteSet(same)
        /\ Cardinality(same) \in Nat
    <3>1. IsFiniteSet(Done(q) \ D)
      BY <2>5, FS_Subset
    <3>2. IsFiniteSet(same) /\ Cardinality(same) <= Cardinality(Done(q) \ D)
      BY <2>6, <3>1, FS_Subset
    <3> QED
      BY <3>2, FS_CardinalityType
  <2>8. Cardinality(Done(q) \ D) = Cardinality(Done(q)) - Cardinality(D)
    <3>1. /\ Cardinality(Done(q) \ D) = Cardinality(Done(q)) - Cardinality(Done(q) \cap D)
      BY <2>5, FS_Difference
    <3>2. Done(q) \cap D = D
      BY <2>6
    <3> QED
      BY <3>1, <3>2
  <2>9. Cardinality(same) <= q.errors + q.refused
    BY <2>3, <2>6, <2>7, <2>8
  <2> QED
    BY <2>2, <2>3, <2>9 DEF q
<1> QED
  BY <1>1, Invariant, PTL

-----------------------------------------------------------------------------
(* Settled drafts.  A run must not write again to a prospect whose draft was settled  *)
(* when it took its rows.  That rests on the rows: those of settled drafts are not    *)
(* pending, and no two rows share an address.                                         *)

AddressesDistinct(t) == \A i, k \in Ids :
  t[i] # Unused /\ t[k] # Unused /\ t[i].email = t[k].email => i = k

Recorded(d, t, m) == \E i \in Ids :
  /\ t[i] # Unused
  /\ t[i].email = m[d]
  /\ t[i].statut # "EN ATTENTE"
  /\ t[i].brouillon \in DraftIds /\ m[t[i].brouillon] = m[d]

\* The drafts run q found settled are for none of the prospects it took.
KnownAside(q, m) == \A d \in q.known :
  m[d] # NULL /\ \A i \in Taken(q) : m[d] # q.seen[i].email

OnRecord ==
  /\ AddressesDistinct(table)
  /\ \A d \in Settled : Recorded(d, table, mail)
  /\ \A r \in Runs : run[r] # NULL => KnownAside(run[r], mail)

\* A draft stays recorded while its row keeps its status and its reference, or gets a
\* reference to another draft for the same address.
LEMMA StaysRecorded ==
  ASSUME NEW d \in DraftIds, mail[d] # NULL, Recorded(d, table, mail),
         \A c \in DraftIds : mail[c] # NULL => mail'[c] = mail[c],
         \A i \in Ids : table[i] # Unused /\ table[i].email = mail[d] =>
           /\ table'[i] # Unused
           /\ table'[i].email = table[i].email
           /\ table[i].statut # "EN ATTENTE" => table'[i].statut # "EN ATTENTE"
           /\ \/ table'[i].brouillon = table[i].brouillon
              \/ table'[i].brouillon \in DraftIds /\ mail'[table'[i].brouillon] = mail[d]
  PROVE  Recorded(d, table', mail')
<1>1. PICK i \in Ids : /\ table[i] # Unused /\ table[i].email = mail[d]
                       /\ table[i].statut # "EN ATTENTE"
                       /\ table[i].brouillon \in DraftIds
                       /\ mail[table[i].brouillon] = mail[d]
  BY DEF Recorded
<1>2. /\ table'[i] # Unused /\ table'[i].email = mail'[d]
      /\ table'[i].statut # "EN ATTENTE"
      /\ table'[i].brouillon \in DraftIds /\ mail'[table'[i].brouillon] = mail'[d]
  BY <1>1
<1> QED
  BY <1>2 DEF Recorded

\* Drafts are settled by a save, and by nothing else.
LEMMA NoneSettles ==
  ASSUME NEW r \in Runs, \A s \in Runs \ {r} : run'[s] = run[s],
         excused \subseteq excused',
         At(r, "save") => run[r].draft \in excused',
         \A d \in DraftIds : mail'[d] # NULL => mail[d] # NULL \/ d \in excused' \cup InHands'
  PROVE  Settled' \subseteq Settled
<1> SUFFICES ASSUME NEW d \in Settled' PROVE d \in Settled
  OBVIOUS
<1>1. d \in DraftIds /\ mail'[d] # NULL /\ d \notin excused' /\ d \notin InHands'
  BY DEF Settled
<1>2. mail[d] # NULL /\ d \notin excused
  BY <1>1
<1>3. ASSUME NEW q \in Runs, At(q, "save")
      PROVE  run[q].draft # d
  <2>1. CASE q = r
    BY <2>1, <1>1, <1>3
  <2>2. CASE q # r
    <3>1. run'[q] = run[q] /\ At(q, "save")'
      BY <2>2, <1>3 DEF At
    <3>2. run'[q].draft \in InHands'
      BY <3>1 DEF InHands
    <3> QED
      BY <3>1, <3>2, <1>1
  <2> QED
    BY <2>1, <2>2
<1> QED
  BY <1>1, <1>2, <1>3 DEF Settled, InHands

\* A step of run r that leaves the table alone.
LEMMA RunStepRecords ==
  ASSUME IInv, IInv', OnRecord, NEW r \in Runs, table' = table,
         \A s \in Runs \ {r} : run'[s] = run[s],
         \A d \in DraftIds : mail[d] # NULL => mail'[d] = mail[d],
         Settled' \subseteq Settled,
         run'[r] # NULL => KnownAside(run'[r], mail)
  PROVE  OnRecord'
<1>1. \A d \in Settled' : Recorded(d, table', mail')
  <2> SUFFICES ASSUME NEW d \in Settled' PROVE Recorded(d, table', mail')
    OBVIOUS
  <2>1. d \in DraftIds /\ mail[d] # NULL /\ Recorded(d, table, mail)
    BY DEF OnRecord, Settled
  <2> QED
    BY <2>1, StaysRecorded
<1>2. ASSUME NEW s \in Runs, run'[s] # NULL
      PROVE  KnownAside(run'[s], mail')
  <2>1. KnownAside(run'[s], mail)
    BY <1>2 DEF OnRecord
  <2>2. run'[s].known \subseteq DraftIds
    BY <1>2, RunFields DEF IInv, TypeOK
  <2> QED
    BY <2>1, <2>2 DEF KnownAside
<1>3. AddressesDistinct(table')
  BY DEF OnRecord
<1> QED
  BY <1>1, <1>2, <1>3 DEF OnRecord

\* Run p is run q a step later, with the snapshot and what it knew of the drafts.
LEMMA StaysAside ==
  ASSUME NEW q, NEW p, NEW m, KnownAside(q, m), p.seen = q.seen, p.known = q.known
  PROVE  KnownAside(p, m)
BY DEF KnownAside, Taken

LEMMA LaunchRecords ==
  ASSUME IInv, IInv', OnRecord, NEW r \in Runs, Launch(r)
  PROVE  OnRecord'
<1>1. /\ run[r] = NULL /\ UNCHANGED <<table, mail, excused>>
      /\ \A s \in Runs \ {r} : run'[s] = run[s]
      /\ run'[r].known = {}
  BY DEF Launch, IInv, TypeOK
<1>2. Settled' \subseteq Settled
  BY <1>1, NoneSettles DEF At
<1>3. KnownAside(run'[r], mail)
  BY <1>1 DEF KnownAside
<1> QED
  BY <1>1, <1>2, <1>3, RunStepRecords

\* What the run takes is pending, so no settled draft is for it.
LEMMA SelectRecords ==
  ASSUME IInv, IInv', OnRecord, NEW r \in Runs, Select(r)
  PROVE  OnRecord'
<1> DEFINE seen == [i \in Ids |-> IF Pending(i) THEN table[i] ELSE NULL]
           left == {i \in Ids : Pending(i)}
<1>0. /\ run[r] # NULL /\ run[r].at = "select" /\ UNCHANGED <<table, mail, excused>>
      /\ run' = [run EXCEPT ![r].at = "next", ![r].seen = seen, ![r].left = left,
                            ![r].known = Settled]
      /\ run[r] \in Run /\ run \in [Runs -> Run \cup {NULL}]
  BY DEF Select, At, IInv, TypeOK
<1> HIDE DEF seen, left
<1>1. /\ run[r] # NULL /\ run[r].at = "select" /\ UNCHANGED <<table, mail, excused>>
      /\ \A s \in Runs \ {r} : run'[s] = run[s]
      /\ run'[r].seen = seen /\ run'[r].known = Settled
  BY <1>0 DEF Run
<1>2. Settled' \subseteq Settled
  BY <1>1, NoneSettles DEF At
<1>3. ASSUME NEW d \in Settled, NEW i \in Ids, Pending(i)
      PROVE  mail[d] # table[i].email
  <2>1. Recorded(d, table, mail) /\ AddressesDistinct(table)
    BY DEF OnRecord
  <2>2. PICK k \in Ids : /\ table[k] # Unused /\ table[k].email = mail[d]
                         /\ table[k].statut # "EN ATTENTE"
    BY <2>1 DEF Recorded
  <2> QED
    BY <1>3, <2>1, <2>2 DEF AddressesDistinct, Pending
<1>4. \A i \in Ids : seen[i] # NULL => Pending(i) /\ seen[i] = table[i]
  BY DEF seen
<1>5. KnownAside(run'[r], mail)
  <2> SUFFICES ASSUME NEW d \in Settled
               PROVE  mail[d] # NULL /\ \A i \in Taken(run'[r]) : mail[d] # seen[i].email
    BY <1>1 DEF KnownAside
  <2>1. \A i \in Taken(run'[r]) : i \in Ids /\ Pending(i) /\ seen[i] = table[i]
    BY <1>1, <1>4 DEF Taken
  <2> QED
    BY <1>3, <2>1 DEF Settled
<1> QED
  BY <1>1, <1>2, <1>5, RunStepRecords

\* The steps that only work on what the run took.
LEMMA WorkRecords ==
  ASSUME IInv, IInv', OnRecord, NEW r \in Runs,
         Count(r) \/ PitchWritten(r) \/ PitchFailed(r) \/ DraftRefused(r)
  PROVE  OnRecord'
<1>1. /\ run[r] # NULL /\ run[r].at # "save" /\ UNCHANGED <<table, mail, excused>>
  BY DEF Count, PitchWritten, PitchFailed, DraftRefused, At
<1>2. run[r] \in Run /\ run \in [Runs -> Run \cup {NULL}]
  BY <1>1 DEF IInv, TypeOK
<1>3. /\ \A s \in Runs \ {r} : run'[s] = run[s]
      /\ run'[r].seen = run[r].seen /\ run'[r].known = run[r].known
  <2>1. CASE Count(r)
    BY <2>1, <1>2 DEF Count, Run
  <2>2. CASE PitchWritten(r)
    <3>1. PICK i \in run[r].left :
            run' = [run EXCEPT ![r].at = "draft", ![r].cur = i, ![r].left = @ \ {i}]
      BY <2>2 DEF PitchWritten
    <3> QED
      BY <3>1, <1>2 DEF Run
  <2>3. CASE PitchFailed(r)
    BY <2>3, <1>2 DEF PitchFailed, Run
  <2>4. CASE DraftRefused(r)
    BY <2>4, <1>2 DEF DraftRefused, Run
  <2> QED
    BY <2>1, <2>2, <2>3, <2>4
<1>4. Settled' \subseteq Settled
  BY <1>1, <1>3, NoneSettles DEF At
<1>5. KnownAside(run'[r], mail)
  BY <1>1, <1>3, StaysAside DEF OnRecord
<1> QED
  BY <1>1, <1>3, <1>4, <1>5, RunStepRecords

\* A new draft is in the hand of its run, or lost.
LEMMA DraftRecords ==
  ASSUME IInv, IInv', OnRecord, NEW r \in Runs, DraftMade(r) \/ DraftAnswerLost(r)
  PROVE  OnRecord'
<1>1. /\ run[r] # NULL /\ run[r].at = "draft" /\ table' = table
      /\ \E d \in DraftIds : mail[d] = NULL
      /\ mail' = [mail EXCEPT ![NewDraft] = Address(r)]
      /\ excused \subseteq excused'
  BY DEF DraftMade, DraftAnswerLost, At
<1>2. Address(r) \in Emails
  BY <1>1, ProspectInHand
<1>3. /\ NewDraft \in DraftIds
      /\ \A d \in DraftIds : mail[d] # NULL => mail'[d] = mail[d]
      /\ \A d \in DraftIds : d # NewDraft => mail'[d] = mail[d]
  BY <1>1, <1>2, DraftIsNew DEF IInv, TypeOK
<1>4. run[r] \in Run /\ run \in [Runs -> Run \cup {NULL}]
  BY <1>1 DEF IInv, TypeOK
<1>5. /\ \A s \in Runs \ {r} : run'[s] = run[s]
      /\ run'[r].seen = run[r].seen /\ run'[r].known = run[r].known
      /\ NewDraft \in excused' \cup InHands'
  <2>1. CASE DraftMade(r)
    <3> DEFINE d == NewDraft
    <3>1. run' = [run EXCEPT ![r].at = "save", ![r].draft = d]
      BY <2>1 DEF DraftMade
    <3> HIDE DEF d
    <3>2. /\ \A s \in Runs \ {r} : run'[s] = run[s]
          /\ run'[r] = [at |-> "save", seen |-> run[r].seen, left |-> run[r].left,
                        cur |-> run[r].cur, draft |-> d, success |-> run[r].success,
                        errors |-> run[r].errors, refused |-> run[r].refused,
                        known |-> run[r].known]
      BY <3>1, <1>4 DEF Run
    <3>3. run'[r] # NULL /\ run'[r].at = "save" /\ run'[r].draft = d
      <4>1. run'[r].at = "save" /\ run'[r].draft = d
        BY <3>2
      <4>2. run'[r] \in Run
        <5>1. d \in DraftIds
          BY <1>3 DEF d
        <5>2. /\ run[r].seen \in [Ids -> Row \cup {NULL}] /\ run[r].left \in SUBSET Ids
              /\ run[r].cur \in Ids \cup {NULL} /\ run[r].known \in SUBSET DraftIds
              /\ run[r].success \in Nat /\ run[r].errors \in Nat /\ run[r].refused \in Nat
          BY <1>4, RunFields
        <5> QED
          BY <3>2, <5>1, <5>2 DEF Run
      <4> QED
        BY <4>1, <4>2, NullIsNoValue
    <3>4. d \in InHands'
      BY <3>3 DEF InHands, At
    <3> QED
      BY <3>2, <3>4 DEF d
  <2>2. CASE DraftAnswerLost(r)
    BY <2>2, <1>4 DEF DraftAnswerLost, Run
  <2> QED
    BY <1>1, <2>1, <2>2
<1>6. Settled' \subseteq Settled
  BY <1>1, <1>3, <1>5, NoneSettles DEF At
<1>7. KnownAside(run'[r], mail)
  BY <1>1, <1>5, StaysAside DEF OnRecord
<1> QED
  BY <1>1, <1>3, <1>5, <1>6, <1>7, RunStepRecords

\* A run that ends leaves nothing behind but the draft it had in hand.
LEMMA EndingRecords ==
  ASSUME IInv, IInv', OnRecord, NEW r \in Runs, End(r) \/ Stop(r)
  PROVE  OnRecord'
<1>1. /\ UNCHANGED <<table, mail>> /\ excused \subseteq excused'
      /\ run' = [run EXCEPT ![r] = NULL]
      /\ At(r, "save") => run[r].draft \in excused'
  BY DEF End, Stop, At
<1>2. run'[r] = NULL /\ \A s \in Runs \ {r} : run'[s] = run[s]
  BY <1>1 DEF IInv, TypeOK
<1>3. Settled' \subseteq Settled
  BY <1>1, <1>2, NoneSettles
<1> QED
  BY <1>1, <1>2, <1>3, RunStepRecords

\* An import adds rows with addresses of their own and leaves the others as they are.
LEMMA InsertRecords ==
  ASSUME IInv, OnRecord, NEW S \in SUBSET Emails, Insert(S), mail' = mail
  PROVE  /\ AddressesDistinct(table')
         /\ \A d \in Settled : Recorded(d, table', mail')
<1>1. /\ \A i \in Ids : table[i] # Unused => table'[i] = table[i]
      /\ \A i \in Ids : table'[i] # table[i] =>
           \E e \in S :
             /\ table[i] = Unused /\ table'[i] = NewRow(e)
             /\ \A k \in Ids \ {i} : table'[k] # Unused => table'[k].email # e
  BY InsertFacts DEF IInv
<1>2. ASSUME NEW i \in Ids, NEW k \in Ids, i # k, table'[i] # Unused, table'[k] # Unused,
             table'[i] # table[i]
      PROVE  table'[i].email # table'[k].email
  <2>1. PICK e \in S : /\ table'[i] = NewRow(e)
                       /\ \A j \in Ids \ {i} : table'[j] # Unused => table'[j].email # e
    BY <1>1, <1>2
  <2>2. table'[i].email = e
    BY <2>1, NewRowFields
  <2> QED
    BY <1>2, <2>1, <2>2
<1>3. AddressesDistinct(table')
  <2> SUFFICES ASSUME NEW i \in Ids, NEW k \in Ids, i # k, table'[i] # Unused,
                      table'[k] # Unused
               PROVE  table'[i].email # table'[k].email
    BY DEF AddressesDistinct
  <2>1. CASE table'[i] = table[i] /\ table'[k] = table[k]
    BY <2>1 DEF OnRecord, AddressesDistinct
  <2> QED
    BY <1>2, <2>1
<1>4. ASSUME NEW d \in Settled
      PROVE  Recorded(d, table', mail')
  <2>1. d \in DraftIds /\ mail[d] # NULL /\ Recorded(d, table, mail)
    BY DEF OnRecord, Settled
  <2> QED
    BY <1>1, <2>1, StaysRecorded
<1> QED
  BY <1>3, <1>4

LEMMA InitialImportRecords ==
  ASSUME IInv, IInv', OnRecord, NEW r \in Runs, InitialImport(r)
  PROVE  OnRecord'
<1>1. /\ run[r] # NULL /\ run[r].at = "import" /\ UNCHANGED <<mail, excused>>
      /\ Insert(CsvFile) /\ CsvFile \in SUBSET Emails
      /\ run[r] \in Run
      /\ \A s \in Runs \ {r} : run'[s] = run[s]
      /\ run'[r].seen = run[r].seen /\ run'[r].known = run[r].known
  BY FilesOfEmails DEF InitialImport, At, IInv, TypeOK, Run
<1>2. Settled' \subseteq Settled
  BY <1>1, NoneSettles DEF At
<1>3. /\ AddressesDistinct(table')
      /\ \A d \in Settled : Recorded(d, table', mail')
  BY <1>1, InsertRecords
<1>4. KnownAside(run'[r], mail)
  BY <1>1, StaysAside DEF OnRecord
<1>5. \A s \in Runs : run'[s] # NULL => KnownAside(run'[s], mail')
  BY <1>1, <1>4 DEF OnRecord
<1> QED
  BY <1>2, <1>3, <1>5 DEF OnRecord

LEMMA ImportRecords ==
  ASSUME IInv, OnRecord, NEW f \in Files, Import(f)
  PROVE  OnRecord'
<1>1. f \in SUBSET Emails /\ Insert(f) /\ UNCHANGED <<mail, run, excused>>
  BY FilesOfEmails DEF Import
<1>2. Settled' = Settled
  BY <1>1 DEF Settled, InHands, At
<1>3. /\ AddressesDistinct(table')
      /\ \A d \in Settled : Recorded(d, table', mail')
  BY <1>1, InsertRecords
<1> QED
  BY <1>1, <1>2, <1>3 DEF OnRecord

\* The draft that is saved gets on record with its row; the drafts made before for the
\* same address stay, as their row now refers to a draft for it again.
LEMMA SaveRecords ==
  ASSUME IInv, IInv', OnRecord, NEW r \in Runs, Save(r)
  PROVE  OnRecord'
<1> DEFINE i == run[r].cur
           d == run[r].draft
<1>1. /\ run[r] # NULL /\ run[r].at = "save" /\ UNCHANGED <<mail, excused>>
      /\ table' = [table EXCEPT ![i].statut = "BROUILLON_CREE", ![i].brouillon = d]
      /\ run' = [run EXCEPT ![r].at = "next", ![r].cur = NULL, ![r].draft = NULL,
                            ![r].success = @ + 1]
  BY DEF Save, At
<1>2. /\ i \in Ids /\ table[i] \in Row /\ table[i] # Unused
      /\ table[i].email = run[r].seen[i].email
  BY <1>1, ProspectInHand
<1>3. d \in DraftIds /\ mail[d] = table[i].email
  BY <1>1, <1>2 DEF IInv, InHand
<1> HIDE DEF i, d
<1>4. /\ table'[i] = [email |-> table[i].email, statut |-> "BROUILLON_CREE", brouillon |-> d]
      /\ \A k \in Ids \ {i} : table'[k] = table[k]
  BY <1>1, <1>2 DEF IInv, TypeOK, Row
<1>5. /\ table'[i] # Unused
      /\ table'[i].email = table[i].email /\ table'[i].brouillon = d
      /\ table'[i].statut # "EN ATTENTE"
  <2>1. "BROUILLON_CREE" \in VALID_STATUSES
    BY DEF VALID_STATUSES
  <2>2. table'[i] \in Row
    BY <1>2, <1>3, <1>4, <2>1, RowFields DEF Row
  <2> QED
    BY <1>4, <2>2, UnusedIsNoRow
<1>6. AddressesDistinct(table')
  <2>1. \A k \in Ids : table'[k] # Unused => table[k] # Unused /\ table'[k].email = table[k].email
    BY <1>2, <1>4
  <2> QED
    BY <2>1 DEF OnRecord, AddressesDistinct
<1>7. Recorded(d, table', mail')
  BY <1>1, <1>2, <1>3, <1>5 DEF Recorded
<1>8. ASSUME NEW c \in Settled
      PROVE  Recorded(c, table', mail')
  <2>1. c \in DraftIds /\ mail[c] # NULL /\ Recorded(c, table, mail)
    BY DEF OnRecord, Settled
  <2>2. ASSUME NEW k \in Ids, table[k] # Unused, table[k].email = mail[c]
        PROVE  /\ table'[k] # Unused
               /\ table'[k].email = table[k].email
               /\ table[k].statut # "EN ATTENTE" => table'[k].statut # "EN ATTENTE"
               /\ \/ table'[k].brouillon = table[k].brouillon
                  \/ table'[k].brouillon \in DraftIds /\ mail'[table'[k].brouillon] = mail[c]
    <3>1. CASE k = i
      BY <3>1, <2>2, <1>1, <1>3, <1>5
    <3>2. CASE k # i
      BY <3>2, <2>2, <1>4
    <3> QED
      BY <3>1, <3>2
  <2> QED
    BY <1>1, <2>1, <2>2, StaysRecorded
<1>9. /\ \A s \in Runs \ {r} : run'[s] = run[s]
      /\ run'[r].seen = run[r].seen /\ run'[r].known = run[r].known
  <2>1. run \in [Runs -> Run \cup {NULL}] /\ run[r] \in Run
    BY <1>1 DEF IInv, TypeOK
  <2> QED
    BY <1>1, <2>1 DEF Run
<1>10. ASSUME NEW c \in Settled', c # d
       PROVE  c \in Settled
  <2>1. c \in DraftIds /\ mail[c] # NULL /\ c \notin excused /\ c \notin InHands'
    BY <1>1 DEF Settled
  <2>2. ASSUME NEW q \in Runs, At(q, "save")
        PROVE  run[q].draft # c
    <3>1. CASE q = r
      BY <3>1, <1>10 DEF d
    <3>2. CASE q # r
      <4>1. run'[q] = run[q] /\ At(q, "save")'
        BY <3>2, <2>2, <1>9 DEF At
      <4>2. run'[q].draft \in InHands'
        BY <4>1 DEF InHands
      <4> QED
        BY <4>1, <4>2, <2>1
    <3> QED
      BY <3>1, <3>2
  <2> QED
    BY <2>1, <2>2 DEF Settled, InHands
<1>11. \A c \in Settled' : Recorded(c, table', mail')
  BY <1>7, <1>8, <1>10
<1>12. KnownAside(run'[r], mail)
  BY <1>1, <1>9, StaysAside DEF OnRecord
<1>13. \A s \in Runs : run'[s] # NULL => KnownAside(run'[s], mail')
  BY <1>1, <1>9, <1>12 DEF OnRecord
<1> QED
  BY <1>6, <1>11, <1>13 DEF OnRecord

\* A prospect that goes back to pending takes its settled drafts with it.
LEMMA SetStatusRecords ==
  ASSUME IInv, OnRecord, NEW i \in Ids, NEW s \in Choices, SetStatus(i, s)
  PROVE  OnRecord'
<1>1. /\ table[i] \in Row /\ table[i] # Unused
      /\ table'[i] = [email |-> table[i].email, statut |-> s, brouillon |-> table[i].brouillon]
      /\ \A k \in Ids \ {i} : table'[k] = table[k]
      /\ table' \in [Ids -> Row \cup {Unused}]
  BY SetStatusFacts
<1>2. /\ UNCHANGED <<mail, run>> /\ excused \subseteq excused'
      /\ s = "EN ATTENTE" => Letters(table[i].email) \ InHands \subseteq excused'
  BY DEF SetStatus
<1>3. /\ table'[i] # Unused
      /\ table'[i].email = table[i].email /\ table'[i].brouillon = table[i].brouillon
      /\ table'[i].statut = s
  <2>1. table'[i] \in Row
    BY <1>1, RowFields, ChoicesValid DEF Row
  <2> QED
    BY <1>1, <2>1, UnusedIsNoRow
<1>4. \A k \in Ids : table'[k] # Unused => table[k] # Unused /\ table'[k].email = table[k].email
  BY <1>1
<1>5. AddressesDistinct(table')
  BY <1>4 DEF OnRecord, AddressesDistinct
<1>6. ASSUME NEW d \in Settled'
      PROVE  Recorded(d, table', mail')
  <2>1. d \in DraftIds /\ mail[d] # NULL /\ d \notin excused' /\ d \notin InHands
    BY <1>2 DEF Settled, InHands, At
  <2>2. d \in Settled /\ Recorded(d, table, mail)
    BY <1>2, <2>1 DEF Settled, OnRecord
  <2>3. s = "EN ATTENTE" => table[i].email # mail[d]
    BY <1>2, <2>1 DEF Letters
  <2>4. ASSUME NEW k \in Ids, table[k] # Unused, table[k].email = mail[d]
        PROVE  /\ table'[k] # Unused
               /\ table'[k].email = table[k].email
               /\ table[k].statut # "EN ATTENTE" => table'[k].statut # "EN ATTENTE"
               /\ table'[k].brouillon = table[k].brouillon
    <3>1. CASE k = i
      BY <3>1, <2>3, <2>4, <1>3
    <3>2. CASE k # i
      BY <3>2, <2>4, <1>1
    <3> QED
      BY <3>1, <3>2
  <2> QED
    BY <1>2, <2>1, <2>2, <2>4, StaysRecorded
<1> QED
  BY <1>2, <1>5, <1>6 DEF OnRecord

LEMMA NextOnRecord ==
  ASSUME IInv, IInv', OnRecord, [Next]_vars
  PROVE  OnRecord'
<1>1. ASSUME NEW r \in Runs, Launch(r) PROVE OnRecord'
  BY <1>1, LaunchRecords
<1>2. ASSUME NEW r \in Runs, RunStep(r) PROVE OnRecord'
  BY <1>2, WorkRecords, InitialImportRecords, SelectRecords, DraftRecords, SaveRecords,
     EndingRecords DEF RunStep
<1>3. ASSUME NEW r \in Runs, Stop(r) PROVE OnRecord'
  BY <1>3, EndingRecords
<1>4. CASE Dashboard
  BY <1>4, ImportRecords, SetStatusRecords DEF Dashboard
<1>5. CASE UNCHANGED vars
  BY <1>5 DEF vars, OnRecord, Settled, InHands, At
<1> QED
  BY <1>1, <1>2, <1>3, <1>4, <1>5 DEF Next

LEMMA StaysOnRecord == Spec => [](IInv /\ OnRecord)
<1>1. Init => IInv /\ OnRecord
  BY InitIInv DEF Init, OnRecord, AddressesDistinct, Settled
<1>2. IInv /\ OnRecord /\ [Next]_vars => (IInv /\ OnRecord)'
  BY NextIInv, NextOnRecord
<1> QED
  BY <1>1, <1>2, PTL DEF Spec

\* Whatever other runs, imports and users do, and wherever runs stop, a draft that was
\* saved stays on record until a user sets its prospect back to pending: the prospect is
\* not pending, and its row refers to a draft made for it.
THEOREM SettledDraftsStayOnRecord == Spec => []DraftsAreOnRecord
<1>1. OnRecord => DraftsAreOnRecord
  BY DEF OnRecord, DraftsAreOnRecord, Recorded, Prospects, Letters
<1> QED
  BY <1>1, StaysOnRecord, PTL

\* No run makes a draft for a prospect that had a settled one when the run took its rows,
\* for any number of runs, prospects and drafts.
THEOREM SettledDraftsAreNotRepeated == Spec => NoDraftOverASettledOne
<1>1. ASSUME IInv, OnRecord, NEW r \in Runs, At(r, "draft")
      PROVE  Letters(Address(r)) \cap run[r].known = {}
  <2>1. run[r] # NULL /\ run[r].at = "draft"
    BY <1>1 DEF At
  <2>2. /\ run[r].cur \in Taken(run[r]) /\ Address(r) = run[r].seen[run[r].cur].email
    BY <1>1, <2>1, ProspectInHand
  <2>3. KnownAside(run[r], mail)
    BY <1>1, <2>1 DEF OnRecord
  <2> QED
    BY <2>2, <2>3 DEF KnownAside, Letters
<1>2. IInv /\ OnRecord =>
        [\A r \in Runs : At(r, "draft") /\ mail' # mail /\ run'[r] # run[r] =>
           Letters(Address(r)) \cap run[r].known = {}]_vars
  BY <1>1
<1> QED
  BY <1>2, StaysOnRecord, PTL DEF NoDraftOverASettledOne
-----------------------------------------------------------------------------
(* The refinement. *)

\* What the lifecycle sees of a row.
ShownRow(row) == [email |-> row.email, statut |-> row.statut, brouillon |-> row.brouillon,
                  pitch |-> NULL]

LEMMA ShownFacts ==
  ASSUME NEW row \in Row
  PROVE  ShownRow(row) # Unused /\ ShownRow(row) # NULL
<1>1. ShownRow(row) \in [email : Emails, statut : VALID_STATUSES,
                         brouillon : DraftIds \cup {NULL}, pitch : {NULL}]
  BY RowFields DEF ShownRow
<1> QED
  BY <1>1, ShownIsARow

\* Rows that appear in the table appear in the lifecycle.
LEMMA InsertAdds ==
  ASSUME IInv, NEW S \in SUBSET Emails, Insert(S), mail' = mail
  PROVE  Lifecycle!Add
<1>1. /\ table' \in [Ids -> Row \cup {Unused}] /\ table \in [Ids -> Row \cup {Unused}]
      /\ \A i \in Ids : table'[i] # table[i] =>
           \E e \in S :
             /\ table[i] = Unused /\ table'[i] = NewRow(e)
             /\ \A k \in Ids \ {i} : table'[k] # Unused => table'[k].email # e
  BY InsertFacts DEF IInv, TypeOK
<1>0. /\ \A i \in Ids : Shown[i] = IF table[i] = Unused THEN Unused ELSE ShownRow(table[i])
      /\ \A i \in Ids : Shown'[i] = IF table'[i] = Unused THEN Unused ELSE ShownRow(table'[i])
      /\ DOMAIN Shown' = Ids
  BY DEF Shown, ShownRow
<1>2. ASSUME NEW i \in Ids, Shown'[i] # Shown[i]
      PROVE  /\ Shown[i] = Unused
             /\ Shown'[i] \in {Lifecycle!Fresh(e) : e \in Emails}
             /\ \A k \in Ids \ {i} : Shown'[k] \notin {Unused, NULL} => Shown'[k].email # Shown'[i].email
  <2>1. table'[i] # table[i]
    BY <1>0, <1>2
  <2>2. PICK e \in S : /\ table[i] = Unused /\ table'[i] = NewRow(e)
                       /\ \A k \in Ids \ {i} : table'[k] # Unused => table'[k].email # e
    BY <1>1, <2>1
  <2>3. e \in Emails /\ NewRow(e) \in Row
    BY NewRowFields
  <2>4. Shown[i] = Unused
    BY <1>0, <2>2
  <2>5. NewRow(e) # Unused
    BY <2>3, UnusedIsNoRow
  <2>6. Shown'[i] = ShownRow(NewRow(e))
    BY <1>0, <2>2, <2>5
  <2>7. ShownRow(NewRow(e)) = Lifecycle!Fresh(e) /\ Lifecycle!Fresh(e).email = e
    BY DEF ShownRow, NewRow, Lifecycle!Fresh
  <2>8. \A k \in Ids : Shown'[k] # Unused => table'[k] # Unused /\ Shown'[k].email = table'[k].email
    BY <1>0 DEF ShownRow
  <2>9. Shown'[i] \in {Lifecycle!Fresh(f) : f \in Emails} /\ Shown'[i].email = e
    BY <2>3, <2>6, <2>7
  <2>10. \A k \in Ids \ {i} : Shown'[k] \notin {Unused, NULL} => Shown'[k].email # Shown'[i].email
    BY <2>2, <2>8, <2>9
  <2> QED
    BY <2>4, <2>9, <2>10
<1> QED
  BY <1>0, <1>2 DEF Lifecycle!Add, Offered, Letters

\* A step of the table that rewrites one row rewrites it in the lifecycle.
LEMMA RowChanges ==
  ASSUME IInv, NEW i \in Ids, table[i] # Unused, NEW new \in Row,
         table' \in [Ids -> Row \cup {Unused}], table'[i] = new,
         \A k \in Ids \ {i} : table'[k] = table[k], mail' = mail
  PROVE  /\ Shown' = [Shown EXCEPT ![i] = ShownRow(new)]
         /\ i \in Lifecycle!Prospects
<1>1. new # Unused /\ table[i] \in Row
  BY UnusedIsNoRow DEF IInv, TypeOK
<1>2. Shown' = [Shown EXCEPT ![i] = ShownRow(new)]
  BY <1>1 DEF Shown, ShownRow
<1>3. i \in Lifecycle!Prospects
  BY <1>1, ShownFacts DEF Lifecycle!Prospects, Shown, ShownRow
<1> QED
  BY <1>2, <1>3

\* A draft that is made is offered to its address.
LEMMA DraftIsOffered ==
  ASSUME IInv, NEW e \in Emails, \E d \in DraftIds : mail[d] = NULL,
         mail' = [mail EXCEPT ![NewDraft] = e], table' = table
  PROVE  Lifecycle!Offer
<1> DEFINE d == NewDraft
<1>1. d \in DraftIds /\ mail[d] = NULL /\ mail \in [DraftIds -> Emails \cup {NULL}]
  BY DraftIsNew DEF IInv, TypeOK
<1>2. mail' = [mail EXCEPT ![d] = e]
  OBVIOUS
<1> HIDE DEF d
<1>3. \A f \in Emails : d \notin Offered[f]
  BY <1>1, NullIsNoValue DEF Offered, Letters
<1>4. Offered' = [Offered EXCEPT ![e] = @ \cup {d}]
  <2>1. ASSUME NEW f \in Emails
        PROVE  Offered'[f]
                 = IF f = e THEN Offered[f] \cup {d} ELSE Offered[f]
    <3>1. \A c \in DraftIds : mail'[c] = f <=> (IF c = d THEN e = f ELSE mail[c] = f)
      BY <1>1, <1>2
    <3>2. mail[d] # f
      BY <1>1, NullIsNoValue
    <3> QED
      BY <3>1, <3>2, <1>1 DEF Offered, Letters
  <2> QED
    BY <2>1 DEF Offered
<1>5. \E c \in DraftIds :
        /\ \A f \in Emails : c \notin Offered[f]
        /\ Offered' = [Offered EXCEPT ![e] = @ \cup {c}]
  BY <1>1, <1>3, <1>4
<1> QED
  BY <1>5 DEF Lifecycle!Offer, Shown

\* Saving a draft records one that was made for the address of the row.
LEMMA SaveDrafts ==
  ASSUME IInv, NEW r \in Runs, Save(r)
  PROVE  Lifecycle!Next
<1> DEFINE i == run[r].cur
           d == run[r].draft
           new == [email |-> table[i].email, statut |-> "BROUILLON_CREE", brouillon |-> d]
<1>1. /\ run[r] # NULL /\ run[r].at = "save" /\ mail' = mail
      /\ table' = [table EXCEPT ![i].statut = "BROUILLON_CREE", ![i].brouillon = d]
  BY DEF Save, At
<1>2. /\ i \in Ids /\ table[i] \in Row /\ table[i] # Unused
      /\ table[i].email = run[r].seen[i].email /\ table[i].email \in Emails
  BY <1>1, ProspectInHand
<1>3. d \in DraftIds /\ mail[d] = run[r].seen[i].email
  BY <1>1 DEF IInv, InHand
<1>4. table \in [Ids -> Row \cup {Unused}]
  BY DEF IInv, TypeOK
<1> HIDE DEF i, d
<1>5. new \in Row
  BY <1>2, <1>3, RowFields DEF Row, VALID_STATUSES
<1>6. /\ table'[i] = new
      /\ \A k \in Ids \ {i} : table'[k] = table[k]
      /\ table' = [k \in Ids |-> table'[k]]
  BY <1>1, <1>2, <1>4 DEF Row
<1>7. table' \in [Ids -> Row \cup {Unused}]
  BY <1>4, <1>5, <1>6
<1> HIDE DEF new
<1>8. /\ Shown' = [Shown EXCEPT ![i] = ShownRow(new)]
      /\ i \in Lifecycle!Prospects
  BY <1>1, <1>2, <1>5, <1>6, <1>7, RowChanges
<1>9. ASSUME NEW row, ShownRow(new) = row
       PROVE  Lifecycle!Change(i, row)
  BY <1>1, <1>8, <1>9 DEF Lifecycle!Change, Offered, Letters
<1>10. d \in Offered[table[i].email]
  BY <1>2, <1>3 DEF Offered, Letters
<1>11. ShownRow(new) = [Shown[i] EXCEPT !.statut = "BROUILLON_CREE", !.brouillon = d,
                                               !.pitch = NULL]
  <2> DEFINE old == Shown[i]
             one == [email |-> table[i].email, statut |-> "BROUILLON_CREE",
                     brouillon |-> table[i].brouillon, pitch |-> NULL]
             two == [email |-> table[i].email, statut |-> "BROUILLON_CREE",
                     brouillon |-> d, pitch |-> NULL]
  <2>1. old = [email |-> table[i].email, statut |-> table[i].statut,
               brouillon |-> table[i].brouillon, pitch |-> NULL]
    BY <1>2 DEF Shown, ShownRow
  <2> HIDE DEF old
  <2>2. [old EXCEPT !.statut = "BROUILLON_CREE"] = one
    BY <2>1
  <2>3. [one EXCEPT !.brouillon = d] = two
    OBVIOUS
  <2>4. [two EXCEPT !.pitch = NULL] = two
    OBVIOUS
  <2>5. ShownRow(new) = two
    BY DEF new, ShownRow
  <2> HIDE DEF one, two
  <2>6. [old EXCEPT !.statut = "BROUILLON_CREE", !.brouillon = d, !.pitch = NULL] = two
    BY <2>2, <2>3, <2>4
  <2> QED
    BY <2>5, <2>6 DEF old
<1>12. Lifecycle!Drafted(i)
  <2>1. Shown[i].email = table[i].email
    BY <1>2 DEF Shown, ShownRow
  <2> QED
    BY <1>9, <1>10, <1>11, <2>1 DEF Lifecycle!Drafted
<1> QED
  BY <1>8, <1>12 DEF Lifecycle!Next

\* A status set on the dashboard leaves the reference of the row.
LEMMA SetStatusIsAChange ==
  ASSUME IInv, NEW i \in Ids, NEW s \in Choices, SetStatus(i, s)
  PROVE  Lifecycle!Next
<1> DEFINE new == [email |-> table[i].email, statut |-> s, brouillon |-> table[i].brouillon]
<1>1. /\ table[i] \in Row /\ table[i] # Unused
      /\ table' \in [Ids -> Row \cup {Unused}] /\ table'[i] = new
      /\ \A k \in Ids \ {i} : table'[k] = table[k]
      /\ mail' = mail /\ s \in VALID_STATUSES
  BY SetStatusFacts, ChoicesValid DEF SetStatus
<1>2. new \in Row
  BY <1>1, RowFields DEF Row
<1>3. ShownRow(new) = [Shown[i] EXCEPT !.statut = s, !.brouillon = table[i].brouillon]
  <2> DEFINE old == Shown[i]
             two == [email |-> table[i].email, statut |-> s,
                     brouillon |-> table[i].brouillon, pitch |-> NULL]
  <2>1. old = [email |-> table[i].email, statut |-> table[i].statut,
               brouillon |-> table[i].brouillon, pitch |-> NULL]
    BY <1>1 DEF Shown, ShownRow
  <2> HIDE DEF old
  <2>2. [old EXCEPT !.statut = s] = two
    BY <2>1
  <2>3. [two EXCEPT !.brouillon = table[i].brouillon] = two
    OBVIOUS
  <2>4. ShownRow(new) = two
    BY DEF ShownRow
  <2> HIDE DEF two
  <2>5. [old EXCEPT !.statut = s, !.brouillon = table[i].brouillon] = two
    BY <2>2, <2>3
  <2> QED
    BY <2>4, <2>5 DEF old
<1> HIDE DEF new
<1>4. /\ Shown' = [Shown EXCEPT ![i] = ShownRow(new)]
      /\ i \in Lifecycle!Prospects
  BY <1>1, <1>2, RowChanges
<1>5. ASSUME NEW row, ShownRow(new) = row
       PROVE  Lifecycle!Change(i, row)
  BY <1>1, <1>4, <1>5 DEF Lifecycle!Change, Offered, Letters
<1>6. table[i].brouillon \in Lifecycle!Own(i)
  BY <1>1 DEF Lifecycle!Own, Shown
<1>7. Lifecycle!SetStatus(i)
  BY <1>1, <1>3, <1>5, <1>6 DEF Lifecycle!SetStatus
<1> QED
  BY <1>4, <1>7 DEF Lifecycle!Next

LEMMA StepRefines ==
  ASSUME IInv, [Next]_vars
  PROVE  [Lifecycle!Next]_(Lifecycle!vars)
<1> DEFINE Refined == [Lifecycle!Next]_(Lifecycle!vars)
<1> SUFFICES Refined
  OBVIOUS
<1>1. CASE UNCHANGED <<table, mail>>
  BY <1>1 DEF Lifecycle!vars, Shown, Offered, Letters
<1>2. ASSUME NEW r \in Runs, InitialImport(r) PROVE Refined
  BY <1>2, FilesOfEmails, InsertAdds DEF InitialImport, Lifecycle!Next
<1>3. ASSUME NEW r \in Runs, DraftMade(r) \/ DraftAnswerLost(r) PROVE Refined
  <2>1. /\ run[r] # NULL /\ run[r].at = "draft" /\ table' = table
        /\ \E d \in DraftIds : mail[d] = NULL
        /\ mail' = [mail EXCEPT ![NewDraft] = Address(r)]
    BY <1>3 DEF DraftMade, DraftAnswerLost, At
  <2>2. Address(r) \in Emails
    BY <2>1, ProspectInHand
  <2> QED
    BY <2>1, <2>2, DraftIsOffered DEF Lifecycle!Next
<1>4. ASSUME NEW r \in Runs, Save(r) PROVE Refined
  BY <1>4, SaveDrafts
<1>5. ASSUME NEW f \in Files, Import(f) PROVE Refined
  BY <1>5, FilesOfEmails, InsertAdds DEF Import, Lifecycle!Next
<1>6. ASSUME NEW i \in Ids, NEW s \in Choices, SetStatus(i, s) PROVE Refined
  BY <1>6, SetStatusIsAChange
<1> HIDE DEF Refined
<1> QED
  BY <1>1, <1>2, <1>3, <1>4, <1>5, <1>6
  DEF Next, Dashboard, RunStep, Launch, Count, Select, PitchWritten, PitchFailed,
      DraftRefused, End, Stop, vars

\* What the agent and the dashboard do to their table, with any number of runs, lost
\* answers and crashes, is what the lifecycle allows in single steps.
THEOREM AgentImplementsLifecycle == Spec => KeepsLifecycle
<1>1. Init => Lifecycle!Init
  <2> SUFFICES ASSUME Init
               PROVE  Lifecycle!Init
    OBVIOUS
  <2>1. \A e \in Emails : Letters(e) = {}
    BY NullIsNoValue DEF Init, Letters
  <2> QED
    BY <2>1 DEF Init, Lifecycle!Init, Shown, Offered
<1> QED
  BY <1>1, Invariant, StepRefines, PTL DEF Spec, KeepsLifecycle, Lifecycle!Spec
=============================================================================
