------------------------- MODULE ProspectCrmProofs -------------------------
(***************************************************************************)
(* Proofs about ProspectCrm, for every value of its constants.             *)
(*                                                                         *)
(* DraftReachesItsProspect is not inductive: the UPDATE that stores a draft*)
(* happens long after the SELECT that read the address.  What makes it true*)
(* is that a request in flight holds a key that was handed out (so that it *)
(* cannot be handed out again), the address of its row as long as that row *)
(* exists, and only drafts made for that address.                          *)
(***************************************************************************)
EXTENDS ProspectCrm, TLAPS

\* What a request q in flight knows of the prospect that has its key.
Knows(q) ==
  /\ rows[q.id] # Unused
  /\ Exists(q.id) => rows[q.id].email = q.email
  /\ IsDraft(q.draft) => mail[q.draft] # NULL /\ mail[q.draft].to = q.email

RequestsKnowTheirProspect == \A h \in Handlers : req[h] # NULL => Knows(req[h])

\* No two rows have the same address, nor a row and a line being imported.
AddressesDistinct ==
  /\ \A i, k \in Ids : i # k /\ Exists(i) /\ Exists(k) => rows[i].email # rows[k].email
  /\ job # NULL => \A i \in Ids : job.batch[i] # NULL =>
       /\ rows[i] = Unused
       /\ \A k \in Ids : Exists(k) => rows[k].email # job.batch[i]
       /\ \A k \in Ids : k # i => job.batch[k] # job.batch[i]

IInv ==
  /\ TypeOK
  /\ DraftReachesItsProspect
  /\ RequestsKnowTheirProspect
  /\ AddressesDistinct

-----------------------------------------------------------------------------

LEMMA RowFields ==
  ASSUME TypeOK, NEW i \in Ids, Exists(i)
  PROVE  /\ rows[i] \in Row
         /\ rows[i].email \in Emails
         /\ rows[i].statut \in VALID_STATUSES
         /\ rows[i].brouillon \in DraftRefs
         /\ rows[i].pitch \in Pitches
BY DEF TypeOK, Exists, Row

LEMMA RequestFields ==
  ASSUME TypeOK, NEW h \in Handlers, req[h] # NULL
  PROVE  /\ req[h] \in Request
         /\ req[h].id \in Ids
         /\ req[h].email \in Emails
         /\ req[h].text \in Pitches
         /\ req[h].draft \in DraftRefs
         /\ req[h].op \in {"generate", "pitch", "reset"}
BY DEF TypeOK, Request

LEMMA UpdatedFields ==
  ASSUME NEW q \in Request, NEW r \in Row
  PROVE  /\ Updated(q, r) \in Row
         /\ Updated(q, r).email = r.email
         /\ Updated(q, r).brouillon \in {q.draft, NULL}
<1>1. CASE q.op = "generate"
  BY <1>1 DEF Updated, Request, Row, VALID_STATUSES
<1>2. CASE q.op = "pitch"
  BY <1>2 DEF Updated, Request, Row
<1>3. CASE q.op = "reset"
  BY <1>3 DEF Updated, Request, Row, VALID_STATUSES, DraftRefs, Pitches
<1>4. QED
  BY <1>1, <1>2, <1>3 DEF Request

LEMMA NewRowFields ==
  ASSUME NEW e \in Emails
  PROVE  /\ NewRow(e) \in Row
         /\ NewRow(e).email = e
         /\ NewRow(e).brouillon = NULL
BY DEF NewRow, Row, VALID_STATUSES, DraftRefs, Pitches

-----------------------------------------------------------------------------

LEMMA JobPos ==
  ASSUME NEW j \in Job
  PROVE  [j EXCEPT !.pos = @ + 1] \in Job /\ [j EXCEPT !.pos = @ + 1].batch = j.batch
BY DEF Job

LEMMA JobLocks ==
  ASSUME NEW j \in Job
  PROVE  [j EXCEPT !.locks = TRUE] \in Job /\ [j EXCEPT !.locks = TRUE].batch = j.batch
BY DEF Job

LEMMA JobBatch ==
  ASSUME NEW j \in Job, NEW i \in Ids, NEW e \in Emails
  PROVE  /\ [j EXCEPT !.batch[i] = e] \in Job
         /\ [j EXCEPT !.batch[i] = e].batch[i] = e
         /\ \A k \in Ids : k # i => [j EXCEPT !.batch[i] = e].batch[k] = j.batch[k]
BY DEF Job

LEMMA InitEstablishes == Init => IInv
<1> SUFFICES ASSUME Init PROVE IInv
  OBVIOUS
<1>1. TypeOK
  BY DEF Init, TypeOK
<1>2. DraftReachesItsProspect
  BY DEF Init, DraftReachesItsProspect, Exists
<1>3. RequestsKnowTheirProspect
  BY DEF Init, RequestsKnowTheirProspect
<1>4. AddressesDistinct
  BY DEF Init, AddressesDistinct, Exists
<1>5. QED
  BY <1>1, <1>2, <1>3, <1>4 DEF IInv

-----------------------------------------------------------------------------
(* Type correctness: one step per action. *)

LEMMA NextPreservesType == TypeOK /\ [Next]_vars => TypeOK'
<1> SUFFICES ASSUME TypeOK, [Next]_vars PROVE TypeOK'
  OBVIOUS
<1>1. ASSUME NEW f \in Files, ImportStart(f) PROVE TypeOK'
  BY <1>1, FilesType DEF TypeOK, ImportStart, Job
<1>2. CASE ImportLine
  <2>1. /\ job \in Job
        /\ job.pos \in 1..Len(job.file)
        /\ job.file[job.pos] \in Lines
    <3>1. job \in Job /\ job.pos <= Len(job.file)
      BY <1>2 DEF TypeOK, ImportLine
    <3>2. job.file \in Seq(Lines) /\ job.pos \in Nat \ {0}
      BY <3>1 DEF Job
    <3>3. Len(job.file) \in Nat
      BY <3>2
    <3>4. job.pos \in 1..Len(job.file)
      BY <3>1, <3>2, <3>3
    <3>5. job.file[job.pos] \in Lines
      BY <3>2, <3>4
    <3>6. QED
      BY <3>1, <3>4, <3>5
  <2>2. job' \in Job
    <3>1. ASSUME job' = [job EXCEPT !.pos = @ + 1] PROVE job' \in Job
      BY <2>1, <3>1 DEF Job
    <3>2. ASSUME job' = [job EXCEPT !.pos = @ + 1, !.locks = TRUE] PROVE job' \in Job
      BY <2>1, <3>2, JobPos, JobLocks
    <3>3. ASSUME NEW i \in Ids, job.file[job.pos] # BadLine,
                 job' = [job EXCEPT !.pos = @ + 1, !.locks = TRUE,
                                    !.batch[i] = job.file[job.pos]]
          PROVE  job' \in Job
      BY <2>1, <3>3, JobPos, JobLocks, JobBatch DEF Lines
    <3>4. QED
      BY <1>2, <3>1, <3>2, <3>3 DEF ImportLine
  <2>3. QED
    BY <1>2, <2>2 DEF TypeOK, ImportLine
<1>3. CASE ImportCommit
  <2>1. job \in Job
    BY <1>3 DEF TypeOK, ImportCommit
  <2>2. \A i \in Ids : job.batch[i] # NULL => NewRow(job.batch[i]) \in Row
    BY <2>1, NewRowFields DEF Job
  <2>3. QED
    BY <1>3, <2>2 DEF TypeOK, ImportCommit, Imported
<1>4. ASSUME NEW i \in Ids, NEW s \in ClientStatuses, NEW d \in DraftIds \cup {NULL},
             UpdateStatus(i, s, d)
      PROVE  TypeOK'
  <2>1. [rows[i] EXCEPT !.statut = s, !.brouillon = IF d # NULL THEN d ELSE @] \in Row
    BY <1>4, RowFields DEF UpdateStatus, Row, DraftRefs
  <2>2. rows' = [rows EXCEPT ![i] = [rows[i] EXCEPT !.statut = s,
                                         !.brouillon = IF d # NULL THEN d ELSE @]]
    BY <1>4 DEF UpdateStatus, TypeOK
  <2>3. QED
    BY <1>4, <2>1, <2>2 DEF TypeOK, UpdateStatus
<1>5. ASSUME NEW i \in Ids, DeleteProspect(i) PROVE TypeOK'
  BY <1>5 DEF TypeOK, DeleteProspect
<1>6. ASSUME NEW h \in Handlers, NEW i \in Ids,
             NEW op \in {"generate", "pitch", "reset"},
             NEW at \in {"llm", "drop", "draft", "save"},
             NEW t \in Pitches, NEW b, Exists(i) => b \in DraftRefs,
             Begin(h, op, at, i, t, b)
      PROVE  TypeOK'
  BY <1>6, RowFields DEF TypeOK, Begin, Request
<1>7. ASSUME NEW h \in Handlers, NEW i \in Ids, GenerateSelect(h, i) PROVE TypeOK'
  BY <1>6, <1>7 DEF GenerateSelect, Pitches, DraftRefs
<1>8. ASSUME NEW h \in Handlers, NEW i \in Ids, NEW t \in Texts, PitchSelect(h, i, t)
      PROVE  TypeOK'
  BY <1>6, <1>8, RowFields DEF PitchSelect, Pitches
<1>9. ASSUME NEW h \in Handlers, NEW i \in Ids, ResetSelect(h, i) PROVE TypeOK'
  BY <1>6, <1>9, RowFields DEF ResetSelect, Pitches
<1>10. ASSUME NEW h \in Handlers, CallLlm(h) PROVE TypeOK'
  BY <1>10, LlmAnswersType DEF TypeOK, CallLlm, At, Request
<1>11. ASSUME NEW h \in Handlers, ServiceDown(h) PROVE TypeOK'
  BY <1>11 DEF TypeOK, ServiceDown, At, Request
<1>12. ASSUME NEW h \in Handlers, DropDraft(h) PROVE TypeOK'
  BY <1>12 DEF TypeOK, DropDraft, At, Request
<1>13. ASSUME NEW h \in Handlers, At(h, "draft"), req[h].text # NULL
       PROVE  LetterOf(h) \in Letter
  BY <1>13, RequestFields DEF At, LetterOf, Letter, Pitches
<1>14. ASSUME NEW h \in Handlers, CreateDraft(h) PROVE TypeOK'
  BY <1>13, <1>14 DEF TypeOK, CreateDraft, At, Store, Request, DraftRefs
<1>15. ASSUME NEW h \in Handlers, CreateFails(h) PROVE TypeOK'
  <2>1. req' \in [Handlers -> Request \cup {NULL}]
    BY <1>15 DEF TypeOK, CreateFails, At, Request, DraftRefs
  <2>2. mail' \in [DraftIds -> Letter \cup {NULL}] /\ live' \subseteq DraftIds
    BY <1>13, <1>15 DEF TypeOK, CreateFails, Store
  <2>3. QED
    BY <1>15, <2>1, <2>2 DEF TypeOK, CreateFails
<1>16. ASSUME NEW h \in Handlers, Save(h) PROVE TypeOK'
  <2>1. ASSUME NEW i \in Ids, Exists(i) PROVE Updated(req[h], rows[i]) \in Row
    BY <1>16, <2>1, RowFields, RequestFields, UpdatedFields DEF Save, At
  <2>2. QED
    BY <1>16, <2>1 DEF TypeOK, Save
<1>17. ASSUME NEW h \in Handlers, SaveTimeout(h) PROVE TypeOK'
  BY <1>17 DEF TypeOK, SaveTimeout
<1>18. CASE Restart
  BY <1>18 DEF TypeOK, Restart
<1>19. ASSUME NEW d \in DraftIds, UserTakesDraft(d) PROVE TypeOK'
  BY <1>19 DEF TypeOK, UserTakesDraft
<1>20. CASE UNCHANGED vars
  BY <1>20 DEF TypeOK, vars
<1>21. QED
  BY <1>1, <1>2, <1>3, <1>4, <1>5, <1>7, <1>8, <1>9, <1>10, <1>11, <1>12, <1>14, <1>15,
     <1>16, <1>17, <1>18, <1>19, <1>20 DEF Next

\* Every state of the backend is well typed: no handler, import or restart leaves
\* a row, a draft or a request in flight of another shape.
THEOREM TypeCorrect == Spec => []TypeOK
<1>1. Init => TypeOK
  BY InitEstablishes DEF IInv
<1>2. QED
  BY <1>1, NextPreservesType, PTL DEF Spec

-----------------------------------------------------------------------------
(* The invariant. *)

\* Gmail never changes a letter, and a new draft takes an unused id.
LEMMA StoreKeepsLetters ==
  ASSUME TypeOK, NEW d \in DraftIds, NEW letter \in Letter, Store(d, letter)
  PROVE  /\ mail'[d] = letter
         /\ \A c \in DraftIds : mail[c] # NULL => mail'[c] = mail[c]
BY DEF TypeOK, Store

\* A step that changes no row and no import keeps what is known of addresses.
LEMMA RowsUnchanged ==
  ASSUME IInv, UNCHANGED <<rows, job>>,
         \A d \in DraftIds : mail[d] # NULL => mail'[d] = mail[d]
  PROVE  DraftReachesItsProspect' /\ AddressesDistinct'
<1>1. DraftReachesItsProspect'
  BY DEF IInv, DraftReachesItsProspect, Exists, IsDraft
<1>2. AddressesDistinct'
  BY DEF IInv, AddressesDistinct, Exists
<1>3. QED
  BY <1>1, <1>2

\* A step of one request: the others keep what they know.
LEMMA OneRequest ==
  ASSUME IInv, UNCHANGED rows, NEW h \in Handlers, NEW q \in Request \cup {NULL},
         req' = [req EXCEPT ![h] = q],
         \A d \in DraftIds : mail[d] # NULL => mail'[d] = mail[d],
         q # NULL => /\ rows[q.id] # Unused
                     /\ Exists(q.id) => rows[q.id].email = q.email
                     /\ IsDraft(q.draft) => mail'[q.draft] # NULL /\ mail'[q.draft].to = q.email
  PROVE  RequestsKnowTheirProspect'
<1>1. ASSUME NEW g \in Handlers, req'[g] # NULL PROVE Knows(req[g])'
  <2>1. CASE g = h
    <3>1. req'[g] = q
      BY <2>1 DEF IInv, TypeOK
    <3>2. QED
      BY <1>1, <3>1 DEF Knows, Exists, IsDraft
  <2>2. CASE g # h
    <3>1. req'[g] = req[g]
      BY <2>2 DEF IInv, TypeOK
    <3>2. Knows(req[g])
      BY <1>1, <3>1 DEF IInv, RequestsKnowTheirProspect
    <3>3. QED
      BY <3>1, <3>2 DEF Knows, Exists, IsDraft
  <2>3. QED
    BY <2>1, <2>2
<1>2. QED
  BY <1>1 DEF RequestsKnowTheirProspect, Knows, Exists, IsDraft

\* A step that writes rows but no request, draft or import, and leaves every key in
\* the state it has, or its row with the same address and a draft made for it.
LEMMA RowsRewritten ==
  ASSUME IInv, TypeOK', UNCHANGED <<mail, job>>,
         \A i \in Ids : \/ rows'[i] = rows[i]
                        \/ Exists(i) /\ rows'[i] = Gone
                        \/ /\ Exists(i)
                           /\ Exists(i)'
                           /\ rows'[i].email = rows[i].email
                           /\ IsDraft(rows'[i].brouillon) =>
                                /\ mail[rows'[i].brouillon] # NULL
                                /\ mail[rows'[i].brouillon].to = rows[i].email,
         \A h \in Handlers : req'[h] # NULL => req'[h] = req[h]
  PROVE  DraftReachesItsProspect' /\ RequestsKnowTheirProspect' /\ AddressesDistinct'
<1>1. DraftReachesItsProspect'
  BY DEF IInv, DraftReachesItsProspect, Exists, IsDraft
<1>2. RequestsKnowTheirProspect'
  <2>1. ASSUME NEW h \in Handlers, req'[h] # NULL PROVE Knows(req[h])'
    <3>1. req'[h] = req[h] /\ Knows(req[h]) /\ req[h].id \in Ids
      BY <2>1, RequestFields DEF IInv, RequestsKnowTheirProspect
    <3>2. rows'[req[h].id] # Unused
      BY <3>1, RowStatesDistinct DEF Knows, Exists
    <3>3. Exists(req[h].id)' => rows'[req[h].id].email = req[h].email
      BY <3>1 DEF Knows, Exists
    <3>4. QED
      BY <3>1, <3>2, <3>3 DEF Knows, Exists, IsDraft
  <2>2. QED
    BY <2>1 DEF RequestsKnowTheirProspect, Knows, Exists, IsDraft
<1>3. AddressesDistinct'
  <2>1. \A i \in Ids : Exists(i)' => Exists(i) /\ rows'[i].email = rows[i].email
    BY DEF Exists
  <2>2. \A i \in Ids : rows[i] = Unused => rows'[i] = Unused
    BY DEF Exists
  <2>3. QED
    BY <2>1, <2>2 DEF IInv, AddressesDistinct
<1>4. QED
  BY <1>1, <1>2, <1>3

LEMMA ImportStartStep ==
  ASSUME IInv, NEW f \in Files, ImportStart(f)
  PROVE  DraftReachesItsProspect' /\ RequestsKnowTheirProspect' /\ AddressesDistinct'
<1>1. DraftReachesItsProspect'
  BY DEF IInv, ImportStart, DraftReachesItsProspect, Exists
<1>2. RequestsKnowTheirProspect'
  BY DEF IInv, ImportStart, RequestsKnowTheirProspect, Knows, Exists
<1>3. AddressesDistinct'
  BY DEF IInv, ImportStart, AddressesDistinct, Exists
<1>4. QED
  BY <1>1, <1>2, <1>3

LEMMA ImportLineStep ==
  ASSUME IInv, ImportLine
  PROVE  DraftReachesItsProspect' /\ RequestsKnowTheirProspect' /\ AddressesDistinct'
<1>1. DraftReachesItsProspect'
  BY DEF IInv, ImportLine, DraftReachesItsProspect, Exists
<1>2. RequestsKnowTheirProspect'
  BY DEF IInv, ImportLine, RequestsKnowTheirProspect, Knows, Exists
<1>3. AddressesDistinct'
  <2>1. /\ job \in Job /\ job # NULL
        /\ UNCHANGED rows
        /\ job.file[job.pos] # BadLine => job.file[job.pos] \in Emails
    <3>1. job \in Job /\ job # NULL /\ UNCHANGED rows /\ job.pos <= Len(job.file)
      BY DEF IInv, TypeOK, ImportLine
    <3>2. job.file \in Seq(Lines) /\ job.pos \in Nat \ {0}
      BY <3>1 DEF Job
    <3>3. job.file[job.pos] \in Lines
      BY <3>1, <3>2
    <3>4. QED
      BY <3>1, <3>3 DEF Lines
  <2>2. ASSUME job'.batch = job.batch PROVE AddressesDistinct'
    BY <2>1, <2>2 DEF IInv, AddressesDistinct, Exists
  <2>3. CASE job' = [job EXCEPT !.pos = @ + 1]
    BY <2>1, <2>2, <2>3, JobPos
  <2>4. CASE job' = [job EXCEPT !.pos = @ + 1, !.locks = TRUE]
    BY <2>1, <2>2, <2>4, JobPos, JobLocks
  <2>5. ASSUME NEW i \in Ids, FreeKey(i), job.file[job.pos] \notin Taken,
               job.file[job.pos] # BadLine,
               job' = [job EXCEPT !.pos = @ + 1, !.locks = TRUE,
                                  !.batch[i] = job.file[job.pos]]
        PROVE  AddressesDistinct'
    <3>1. /\ \A k \in Ids : Exists(k) => rows[k].email # job.file[job.pos]
          /\ \A k \in Ids : job.batch[k] # job.file[job.pos]
      BY <2>5 DEF Taken
    <3>2. /\ job'.batch[i] = job.file[job.pos]
          /\ \A k \in Ids : k # i => job'.batch[k] = job.batch[k]
      <4> DEFINE p == [job EXCEPT !.pos = @ + 1]
                 l == [p EXCEPT !.locks = TRUE]
      <4>1. p \in Job /\ p.batch = job.batch
        BY <2>1, JobPos
      <4>2. job' = [l EXCEPT !.batch[i] = job.file[job.pos]]
        BY <2>5
      <4> HIDE DEF p
      <4>3. l \in Job /\ l.batch = p.batch
        BY <4>1, JobLocks
      <4>4. job.file[job.pos] \in Emails
        BY <2>1, <2>5
      <4> HIDE DEF l
      <4>5. QED
        BY <4>1, <4>2, <4>3, <4>4, JobBatch
    <3>3. ASSUME NEW k \in Ids, job'.batch[k] # NULL
          PROVE  /\ rows[k] = Unused
                 /\ \A m \in Ids : Exists(m) => rows[m].email # job'.batch[k]
                 /\ \A m \in Ids : m # k => job'.batch[m] # job'.batch[k]
      <4>1. CASE k = i
        BY <2>5, <3>1, <3>2, <4>1 DEF FreeKey
      <4>2. CASE k # i
        BY <2>1, <3>1, <3>2, <3>3, <4>2 DEF IInv, AddressesDistinct
      <4>3. QED
        BY <4>1, <4>2
    <3>4. QED
      BY <2>1, <3>3 DEF IInv, AddressesDistinct, Exists
  <2>6. QED
    BY <2>3, <2>4, <2>5 DEF ImportLine
<1>4. QED
  BY <1>1, <1>2, <1>3

LEMMA ImportCommitStep ==
  ASSUME IInv, ImportCommit
  PROVE  DraftReachesItsProspect' /\ RequestsKnowTheirProspect' /\ AddressesDistinct'
<1> DEFINE new(i) == job.batch[i] # NULL
<1>1. job \in Job /\ job # NULL
  BY DEF IInv, TypeOK, ImportCommit
<1>2. \A i \in Ids : IF new(i) THEN rows'[i] = NewRow(job.batch[i]) ELSE rows'[i] = rows[i]
  BY DEF ImportCommit, Imported
<1>3. \A i \in Ids : new(i) => /\ rows[i] = Unused
                               /\ rows'[i].email = job.batch[i]
                               /\ rows'[i].brouillon = NULL
  BY <1>1, <1>2, NewRowFields DEF IInv, AddressesDistinct, Job
<1>4. DraftReachesItsProspect'
  BY <1>2, <1>3, DraftRefsDistinct
  DEF IInv, ImportCommit, DraftReachesItsProspect, Exists, IsDraft
<1>5. RequestsKnowTheirProspect'
  <2>1. ASSUME NEW h \in Handlers, req[h] # NULL
        PROVE  Knows(req[h]) /\ rows'[req[h].id] = rows[req[h].id]
    BY <1>2, <1>3, <2>1, RequestFields DEF IInv, RequestsKnowTheirProspect, Knows
  <2>2. QED
    BY <2>1 DEF ImportCommit, RequestsKnowTheirProspect, Knows, Exists
<1>6. AddressesDistinct'
  <2>1. \A i, k \in Ids : i # k /\ Exists(i)' /\ Exists(k)' => rows'[i].email # rows'[k].email
    BY <1>1, <1>2, <1>3 DEF IInv, AddressesDistinct, Exists
  <2>2. QED
    BY <2>1 DEF ImportCommit, AddressesDistinct
<1>7. QED
  BY <1>4, <1>5, <1>6

\* A draft stored for the request q, with the address q holds.
LEMMA LetterFields ==
  ASSUME TypeOK, NEW h \in Handlers, req[h] # NULL, req[h].text # NULL
  PROVE  LetterOf(h) \in Letter /\ LetterOf(h).to = req[h].email
BY RequestFields DEF LetterOf, Letter, Pitches

LEMMA BeginStep ==
  ASSUME IInv, TypeOK', NEW h \in Handlers, NEW i \in Ids, NEW op, NEW at, NEW t, NEW b,
         Begin(h, op, at, i, t, b),
         Exists(i) /\ IsDraft(b) => b = rows[i].brouillon
  PROVE  DraftReachesItsProspect' /\ RequestsKnowTheirProspect' /\ AddressesDistinct'
<1> DEFINE q == [op |-> op, at |-> at, id |-> i, email |-> rows[i].email,
                 text |-> t, draft |-> b]
<1>1. req' = [req EXCEPT ![h] = q] /\ Exists(i) /\ UNCHANGED <<rows, mail, live, job>>
  BY DEF Begin
<1>2. q \in Request \cup {NULL}
  BY <1>1 DEF IInv, TypeOK
<1>3. IsDraft(b) => mail[b] # NULL /\ mail[b].to = rows[i].email
  BY <1>1 DEF IInv, DraftReachesItsProspect
<1>4. /\ rows[q.id] # Unused
      /\ Exists(q.id) => rows[q.id].email = q.email
      /\ IsDraft(q.draft) => mail'[q.draft] # NULL /\ mail'[q.draft].to = q.email
  BY <1>1, <1>3 DEF Exists, IsDraft
<1> HIDE DEF q
<1>5. RequestsKnowTheirProspect'
  BY <1>1, <1>2, <1>4, OneRequest
<1>6. QED
  BY <1>1, <1>5, RowsUnchanged

\* A step of a handler that keeps its id and address, and either its draft or takes
\* one that was made for that address.
LEMMA HandlerKeeps ==
  ASSUME IInv, TypeOK', NEW h \in Handlers, req[h] # NULL,
         UNCHANGED <<rows, job>>,
         \A d \in DraftIds : mail[d] # NULL => mail'[d] = mail[d],
         NEW q, req' = [req EXCEPT ![h] = q],
         q.id = req[h].id, q.email = req[h].email,
         IsDraft(q.draft) => \/ q.draft = req[h].draft
                             \/ mail'[q.draft] # NULL /\ mail'[q.draft].to = q.email
  PROVE  DraftReachesItsProspect' /\ RequestsKnowTheirProspect' /\ AddressesDistinct'
<1>1. q \in Request \cup {NULL}
  BY DEF IInv, TypeOK
<1>2. Knows(req[h])
  BY DEF IInv, RequestsKnowTheirProspect
<1>3. IsDraft(q.draft) => mail'[q.draft] # NULL /\ mail'[q.draft].to = q.email
  BY <1>2 DEF Knows, IsDraft
<1>4. RequestsKnowTheirProspect'
  BY <1>1, <1>2, <1>3, OneRequest DEF Knows
<1>5. QED
  BY <1>4, RowsUnchanged

LEMMA CreateDraftStep ==
  ASSUME IInv, TypeOK', NEW h \in Handlers, CreateDraft(h)
  PROVE  DraftReachesItsProspect' /\ RequestsKnowTheirProspect' /\ AddressesDistinct'
<1>1. PICK d \in DraftIds : /\ Store(d, LetterOf(h))
                            /\ req' = [req EXCEPT ![h].draft = d, ![h].at = "save"]
  BY DEF CreateDraft
<1>2. req[h] # NULL /\ req[h].text # NULL /\ UNCHANGED <<rows, job>>
  BY DEF CreateDraft, At
<1>3. LetterOf(h) \in Letter /\ LetterOf(h).to = req[h].email
  BY <1>2, LetterFields DEF IInv
<1>4. mail'[d] = LetterOf(h) /\ \A c \in DraftIds : mail[c] # NULL => mail'[c] = mail[c]
  BY <1>1, <1>3, StoreKeepsLetters DEF IInv
<1>5. mail'[d] # NULL /\ mail'[d].to = req[h].email
  BY <1>3, <1>4, NullIsNoValue
<1> DEFINE q == [req[h] EXCEPT !.draft = d, !.at = "save"]
<1>6. req' = [req EXCEPT ![h] = q]
  BY <1>1 DEF IInv, TypeOK
<1>7. q.id = req[h].id /\ q.email = req[h].email /\ q.draft = d
  BY <1>2, RequestFields DEF IInv, Request
<1> HIDE DEF q
<1>8. QED
  BY <1>2, <1>4, <1>5, <1>6, <1>7, HandlerKeeps

LEMMA CreateFailsStep ==
  ASSUME IInv, TypeOK', NEW h \in Handlers, CreateFails(h)
  PROVE  DraftReachesItsProspect' /\ RequestsKnowTheirProspect' /\ AddressesDistinct'
<1> DEFINE b == IF req[h].op = "generate" THEN ErrDraft ELSE req[h].draft
           q == [req[h] EXCEPT !.draft = b, !.at = "save"]
<1>1. req[h] # NULL /\ UNCHANGED <<rows, job>>
  BY DEF CreateFails, At
<1>2. \A c \in DraftIds : mail[c] # NULL => mail'[c] = mail[c]
  <2>1. CASE UNCHANGED mail
    BY <2>1
  <2>2. ASSUME NEW d \in DraftIds, req[h].text # NULL, Store(d, LetterOf(h))
        PROVE  \A c \in DraftIds : mail[c] # NULL => mail'[c] = mail[c]
    BY <1>1, <2>2, LetterFields, StoreKeepsLetters DEF IInv
  <2>3. QED
    BY <2>1, <2>2 DEF CreateFails
<1>3. req' = [req EXCEPT ![h] = q]
  BY DEF CreateFails, IInv, TypeOK
<1>4. q.id = req[h].id /\ q.email = req[h].email /\ q.draft = b
  BY <1>1, RequestFields DEF IInv, Request
<1>5. IsDraft(b) => b = req[h].draft
  BY DraftRefsDistinct DEF IsDraft
<1> HIDE DEF q, b
<1>6. QED
  BY <1>1, <1>2, <1>3, <1>4, <1>5, HandlerKeeps

LEMMA SaveStep ==
  ASSUME IInv, TypeOK', NEW h \in Handlers, Save(h)
  PROVE  DraftReachesItsProspect' /\ RequestsKnowTheirProspect' /\ AddressesDistinct'
<1>1. /\ req[h] # NULL /\ req[h] \in Request /\ req[h].id \in Ids /\ Knows(req[h])
      /\ UNCHANGED <<mail, job>>
  BY RequestFields DEF Save, At, IInv, RequestsKnowTheirProspect
<1>2. \A g \in Handlers : req'[g] # NULL => req'[g] = req[g]
  BY DEF Save, IInv, TypeOK
<1>3. ASSUME NEW i \in Ids, i = req[h].id, Exists(i)
      PROVE  /\ Exists(i)'
             /\ rows'[i].email = rows[i].email
             /\ IsDraft(rows'[i].brouillon) => /\ mail[rows'[i].brouillon] # NULL
                                               /\ mail[rows'[i].brouillon].to = rows[i].email
  <2>1. rows'[i] = Updated(req[h], rows[i])
    BY <1>3 DEF Save
  <2>2. /\ rows'[i] \in Row
        /\ rows'[i].email = rows[i].email
        /\ rows'[i].brouillon \in {req[h].draft, NULL}
    BY <1>1, <1>3, <2>1, RowFields, UpdatedFields DEF IInv
  <2>3. QED
    BY <1>1, <1>3, <2>2, DraftRefsDistinct, RowStatesDistinct DEF Knows, IsDraft, Exists
<1>4. \A i \in Ids : ~(i = req[h].id /\ Exists(i)) => rows'[i] = rows[i]
  BY DEF Save
<1>5. QED
  BY <1>1, <1>2, <1>3, <1>4, RowsRewritten

LEMMA UpdateStatusStep ==
  ASSUME IInv, TypeOK', NEW i \in Ids, NEW s \in ClientStatuses,
         NEW d \in DraftIds \cup {NULL}, UpdateStatus(i, s, d)
  PROVE  DraftReachesItsProspect' /\ RequestsKnowTheirProspect' /\ AddressesDistinct'
<1>1. rows[i] \in Row /\ Exists(i) /\ UNCHANGED <<mail, job, req>>
  BY RowFields DEF UpdateStatus, IInv
<1>2. rows'[i] = [rows[i] EXCEPT !.statut = s, !.brouillon = IF d # NULL THEN d ELSE @]
  BY DEF UpdateStatus, IInv, TypeOK
<1>3. \A k \in Ids : k # i => rows'[k] = rows[k]
  BY DEF UpdateStatus, IInv, TypeOK
<1>4. /\ rows'[i].email = rows[i].email
      /\ rows'[i].brouillon = IF d # NULL THEN d ELSE rows[i].brouillon
  BY <1>1, <1>2 DEF Row
<1>5. rows'[i] \in Row
  <2>1. [rows[i] EXCEPT !.statut = s, !.brouillon = IF d # NULL THEN d ELSE @] \in Row
    BY <1>1, RowFields DEF UpdateStatus, Row, DraftRefs, IInv
  <2>2. QED
    BY <1>2, <2>1
<1>6. IsDraft(rows'[i].brouillon) => /\ mail[rows'[i].brouillon] # NULL
                                     /\ mail[rows'[i].brouillon].to = rows[i].email
  BY <1>1, <1>4 DEF UpdateStatus, DraftsFor, IInv, DraftReachesItsProspect
<1>7. Exists(i)'
  BY <1>5, RowStatesDistinct DEF Exists
<1>8. QED
  BY <1>1, <1>3, <1>4, <1>6, <1>7, RowsRewritten

LEMMA NextPreservesInvariant == IInv /\ [Next]_vars => IInv'
<1> SUFFICES ASSUME IInv, [Next]_vars
             PROVE  IInv'
  OBVIOUS
<1> DEFINE Rest == DraftReachesItsProspect' /\ RequestsKnowTheirProspect' /\ AddressesDistinct'
<1>1. TypeOK'
  BY NextPreservesType DEF IInv
<1> SUFFICES Rest
  BY <1>1 DEF IInv
<1>2. ASSUME NEW f \in Files, ImportStart(f) PROVE Rest
  BY <1>2, ImportStartStep
<1>3. CASE ImportLine
  BY <1>3, ImportLineStep
<1>4. CASE ImportCommit
  BY <1>4, ImportCommitStep
<1>5. ASSUME NEW i \in Ids, NEW s \in ClientStatuses, NEW d \in DraftIds \cup {NULL},
             UpdateStatus(i, s, d)
      PROVE  Rest
  BY <1>1, <1>5, UpdateStatusStep
<1>6. ASSUME NEW i \in Ids, DeleteProspect(i) PROVE Rest
  <2>1. /\ UNCHANGED <<mail, job, req>> /\ Exists(i) /\ rows'[i] = Gone
        /\ \A k \in Ids : k # i => rows'[k] = rows[k]
    BY <1>6 DEF DeleteProspect, IInv, TypeOK
  <2>2. QED
    BY <1>1, <2>1, RowsRewritten
<1>7. ASSUME NEW h \in Handlers, NEW i \in Ids, GenerateSelect(h, i) PROVE Rest
  BY <1>1, <1>7, BeginStep, DraftRefsDistinct DEF GenerateSelect, IsDraft
<1>8. ASSUME NEW h \in Handlers, NEW i \in Ids, NEW t \in Texts, PitchSelect(h, i, t)
      PROVE  Rest
  BY <1>1, <1>8, BeginStep DEF PitchSelect
<1>9. ASSUME NEW h \in Handlers, NEW i \in Ids, ResetSelect(h, i) PROVE Rest
  BY <1>1, <1>9, BeginStep DEF ResetSelect
<1>10. ASSUME NEW h \in Handlers, CallLlm(h) PROVE Rest
  <2>1. PICK t \in LlmAnswers : req' = [req EXCEPT ![h].text = t, ![h].at = "draft"]
    BY <1>10 DEF CallLlm
  <2>2. req[h] # NULL /\ UNCHANGED <<rows, mail, job>>
    BY <1>10 DEF CallLlm, At
  <2> DEFINE q == [req[h] EXCEPT !.text = t, !.at = "draft"]
  <2>3. req' = [req EXCEPT ![h] = q]
    BY <2>1 DEF IInv, TypeOK
  <2>4. q.id = req[h].id /\ q.email = req[h].email /\ q.draft = req[h].draft
    BY <2>2, RequestFields DEF IInv, Request
  <2> HIDE DEF q
  <2>5. QED
    BY <1>1, <2>2, <2>3, <2>4, HandlerKeeps
<1>11. ASSUME NEW h \in Handlers, NEW p, At(h, "drop"), UNCHANGED <<rows, mail, job>>,
              req' = [req EXCEPT ![h].at = p]
       PROVE  Rest
  <2> DEFINE q == [req[h] EXCEPT !.at = p]
  <2>1. req[h] # NULL
    BY <1>11 DEF At
  <2>2. req' = [req EXCEPT ![h] = q]
    BY <1>11 DEF IInv, TypeOK
  <2>3. q.id = req[h].id /\ q.email = req[h].email /\ q.draft = req[h].draft
    BY <2>1, RequestFields DEF IInv, Request
  <2> HIDE DEF q
  <2>4. QED
    BY <1>1, <1>11, <2>1, <2>2, <2>3, HandlerKeeps
<1>12. ASSUME NEW h \in Handlers, ServiceDown(h) PROVE Rest
  BY <1>11, <1>12 DEF ServiceDown
<1>13. ASSUME NEW h \in Handlers, DropDraft(h) PROVE Rest
  BY <1>11, <1>13 DEF DropDraft
<1>14. ASSUME NEW h \in Handlers, CreateDraft(h) PROVE Rest
  BY <1>1, <1>14, CreateDraftStep
<1>15. ASSUME NEW h \in Handlers, CreateFails(h) PROVE Rest
  BY <1>1, <1>15, CreateFailsStep
<1>16. ASSUME NEW h \in Handlers, Save(h) PROVE Rest
  BY <1>1, <1>16, SaveStep
<1>17. ASSUME NEW h \in Handlers, SaveTimeout(h) PROVE Rest
  <2>1. \A g \in Handlers : req'[g] # NULL => req'[g] = req[g]
    BY <1>17 DEF SaveTimeout, IInv, TypeOK
  <2>2. QED
    BY <1>1, <1>17, <2>1, RowsRewritten DEF SaveTimeout
<1>18. CASE Restart
  BY <1>18 DEF Restart, IInv, DraftReachesItsProspect, RequestsKnowTheirProspect,
               AddressesDistinct, Exists, IsDraft
<1>19. ASSUME NEW d \in DraftIds, UserTakesDraft(d) PROVE Rest
  BY <1>1, <1>19, RowsRewritten DEF UserTakesDraft
<1>20. CASE UNCHANGED vars
  BY <1>1, <1>20, RowsRewritten DEF vars
<1>21. QED
  BY <1>1, <1>2, <1>3, <1>4, <1>5, <1>6, <1>7, <1>8, <1>9, <1>10, <1>12, <1>13, <1>14,
     <1>15, <1>16, <1>17, <1>18, <1>19, <1>20 DEF Next

LEMMA Invariant == Spec => []IInv
BY InitEstablishes, NextPreservesInvariant, PTL DEF Spec

\* Whatever requests, imports, failures of Gmail and restarts overlap, the draft a
\* prospect refers to is addressed to it.
THEOREM DraftsReachTheirProspects == Spec => []DraftReachesItsProspect
<1>1. IInv => DraftReachesItsProspect
  BY DEF IInv
<1>2. QED
  BY <1>1, Invariant, PTL

\* Two prospects never refer to the same draft: deleting or rewriting the draft of
\* one leaves the other's alone.
NoSharedDraft ==
  \A i, k \in Ids : i # k /\ Exists(i) /\ Exists(k) /\ IsDraft(rows[i].brouillon)
                     => rows[i].brouillon # rows[k].brouillon

\* No draft is shared (main.py:304, 363): two prospects with one draft would both have the
\* address it is for, and addresses are distinct.
THEOREM DraftsAreNotShared == Spec => []NoSharedDraft
<1>1. IInv => NoSharedDraft
  BY DEF IInv, NoSharedDraft, DraftReachesItsProspect, AddressesDistinct, Exists, IsDraft
<1>2. QED
  BY <1>1, Invariant, PTL
-----------------------------------------------------------------------------
(* Action properties. *)

\* A key of a deleted prospect is never written or handed out again, whatever
\* request that read it before the deletion ends afterwards.
THEOREM DeletedProspectsStayDeleted == Spec => DeletedStaysDeleted
<1>1. ASSUME IInv, [Next]_vars
      PROVE  [\A i \in Ids : rows[i] = Gone => rows'[i] = Gone]_vars
  <2> SUFFICES ASSUME NEW i \in Ids, rows[i] = Gone PROVE rows'[i] = Gone
    OBVIOUS
  <2>1. CASE ImportCommit
    <3>1. job.batch[i] = NULL
      BY <1>1, <2>1, RowStatesDistinct DEF ImportCommit, IInv, AddressesDistinct
    <3>2. QED
      BY <2>1, <3>1 DEF ImportCommit, Imported
  <2>2. ASSUME NEW k \in Ids, NEW s \in ClientStatuses, NEW d \in DraftIds \cup {NULL},
               UpdateStatus(k, s, d)
        PROVE  rows'[i] = Gone
    BY <1>1, <2>2 DEF UpdateStatus, Exists, IInv, TypeOK
  <2>3. ASSUME NEW k \in Ids, DeleteProspect(k) PROVE rows'[i] = Gone
    BY <1>1, <2>3 DEF DeleteProspect, IInv, TypeOK
  <2>4. ASSUME NEW h \in Handlers, Save(h) PROVE rows'[i] = Gone
    BY <2>4 DEF Save, Exists
  <2>5. CASE UNCHANGED rows
    BY <2>5
  <2>6. QED
    BY <1>1, <2>1, <2>2, <2>3, <2>4, <2>5
    DEF Next, ImportStart, ImportLine, GenerateSelect, PitchSelect, ResetSelect, Begin,
        CallLlm, ServiceDown, DropDraft, CreateDraft, CreateFails, SaveTimeout, Restart,
        UserTakesDraft, vars
<1>2. QED
  BY <1>1, Invariant, PTL DEF Spec, DeletedStaysDeleted

\* A handler never removes the draft of another prospect than the one it was asked
\* about.
THEOREM OnlyOwnDraftsAreRemoved == Spec => RemovesOnlyItsProspectsDrafts
<1> DEFINE Own(d) == \/ UserTakesDraft(d)
                     \/ \E h \in Handlers :
                          /\ At(h, "drop")
                          /\ req[h].draft = d
                          /\ Exists(req[h].id) => mail[d].to = rows[req[h].id].email
<1>1. ASSUME IInv, [Next]_vars
      PROVE  [\A d \in live \ live' : Own(d)]_vars
  <2> SUFFICES ASSUME NEW d \in live \ live' PROVE Own(d)
    OBVIOUS
  <2>1. d \in DraftIds
    BY <1>1 DEF IInv, TypeOK
  <2>2. ASSUME NEW h \in Handlers, DropDraft(h) PROVE Own(d)
    <3>1. At(h, "drop") /\ req[h] # NULL /\ req[h].draft = d
      BY <2>2 DEF DropDraft, At
    <3>2. Knows(req[h])
      BY <1>1, <3>1 DEF IInv, RequestsKnowTheirProspect
    <3>3. QED
      BY <2>1, <3>1, <3>2 DEF Knows, IsDraft
  <2>3. ASSUME NEW c \in DraftIds, UserTakesDraft(c) PROVE Own(d)
    BY <2>3 DEF UserTakesDraft
  <2>4. CASE live \subseteq live'
    BY <2>4
  <2>5. QED
    BY <1>1, <2>2, <2>3, <2>4
    DEF Next, ImportStart, ImportLine, ImportCommit, UpdateStatus, DeleteProspect,
        GenerateSelect, PitchSelect, ResetSelect, Begin, CallLlm, ServiceDown, CreateDraft,
        CreateFails, Store, Save, SaveTimeout, Restart, vars
<1>2. QED
  BY <1>1, Invariant, PTL DEF Spec, RemovesOnlyItsProspectsDrafts
-----------------------------------------------------------------------------
(* The import. *)

\* The address e is in the table or among the rows of the open transaction.
Placed(e) == \E i \in Ids : \/ Exists(i) /\ rows[i].email = e
                            \/ job.batch[i] = e

\* Once a well-formed line was tried, the import holds the write lock and the
\* address of the line is placed.
LinesArePlaced ==
  job # NULL => \A k \in 1..(job.pos - 1) :
                   job.file[k] # BadLine => job.locks /\ Placed(job.file[k])

LEMMA ImportLineFields ==
  ASSUME TypeOK, ImportLine
  PROVE  /\ job \in Job /\ job # NULL /\ UNCHANGED rows
         /\ job'.file = job.file /\ job'.pos = job.pos + 1 /\ job.pos \in Nat \ {0}
         /\ \A i \in Ids : job.batch[i] # NULL => job'.batch[i] = job.batch[i]
         /\ job.locks => job'.locks
         /\ job.file[job.pos] # BadLine =>
              /\ job'.locks
              /\ \/ job.file[job.pos] \in Taken
                 \/ \E i \in Ids : job'.batch[i] = job.file[job.pos]
<1>1. /\ job \in Job /\ job # NULL /\ UNCHANGED rows /\ job.pos <= Len(job.file)
      /\ job.pos \in Nat \ {0}
      /\ job.batch \in [Ids -> Emails \cup {NULL}]
  BY DEF TypeOK, ImportLine, Job
<1>2. job = [file |-> job.file, pos |-> job.pos, batch |-> job.batch, locks |-> job.locks]
  BY <1>1 DEF Job
<1>3. CASE /\ job.file[job.pos] = BadLine
           /\ job' = [job EXCEPT !.pos = @ + 1]
  <2>1. job' = [file |-> job.file, pos |-> job.pos + 1, batch |-> job.batch,
                locks |-> job.locks]
    BY <1>2, <1>3
  <2>2. QED
    BY <1>1, <1>3, <2>1
<1>4. CASE /\ job.file[job.pos] \in Taken
           /\ job' = [job EXCEPT !.pos = @ + 1, !.locks = TRUE]
  <2>1. job' = [file |-> job.file, pos |-> job.pos + 1, batch |-> job.batch, locks |-> TRUE]
    BY <1>2, <1>4
  <2>2. job'.file = job.file /\ job'.pos = job.pos + 1 /\ job'.batch = job.batch /\ job'.locks
    BY <2>1
  <2>3. QED
    BY <1>1, <1>4, <2>2
<1>5. ASSUME NEW i \in Ids, job.batch[i] = NULL,
             job' = [job EXCEPT !.pos = @ + 1, !.locks = TRUE,
                                !.batch[i] = job.file[job.pos]]
      PROVE  /\ job'.file = job.file /\ job'.pos = job.pos + 1 /\ job'.locks
             /\ job'.batch[i] = job.file[job.pos]
             /\ \A k \in Ids : k # i => job'.batch[k] = job.batch[k]
  <2> DEFINE b == [job.batch EXCEPT ![i] = job.file[job.pos]]
  <2>1. job' = [file |-> job.file, pos |-> job.pos + 1, batch |-> b, locks |-> TRUE]
    BY <1>2, <1>5
  <2>2. b[i] = job.file[job.pos] /\ \A k \in Ids : k # i => b[k] = job.batch[k]
    BY <1>1
  <2> HIDE DEF b
  <2>3. job'.file = job.file /\ job'.pos = job.pos + 1 /\ job'.batch = b /\ job'.locks
    BY <2>1
  <2>4. QED
    BY <2>2, <2>3
<1>6. QED
  BY <1>1, <1>3, <1>4, <1>5 DEF ImportLine

LEMMA LinesStayPlaced == IInv /\ LinesArePlaced /\ [Next]_vars => LinesArePlaced'
<1> SUFFICES ASSUME IInv, LinesArePlaced, [Next]_vars PROVE LinesArePlaced'
  OBVIOUS
<1>1. ASSUME NEW f \in Files, ImportStart(f) PROVE LinesArePlaced'
  BY <1>1 DEF ImportStart, LinesArePlaced
<1>2. CASE ImportLine
  <2> SUFFICES ASSUME NEW k \in 1..(job'.pos - 1), job'.file[k] # BadLine
               PROVE  job'.locks /\ Placed(job.file[k])'
    BY <1>2, ImportLineFields DEF LinesArePlaced, IInv, Placed, Exists
  <2>1. job.file[k] # BadLine /\ job'.file[k] = job.file[k] /\ job.pos \in Nat \ {0}
        /\ k \in 1..job.pos
    BY <1>2, ImportLineFields DEF IInv
  <2>2. job.file[k] # NULL
    <3>1. job \in Job /\ job.pos <= Len(job.file)
      BY <1>2 DEF IInv, TypeOK, ImportLine
    <3>2. job.file \in Seq(Lines)
      BY <3>1 DEF Job
    <3>3. job.file[k] \in Lines
      BY <2>1, <3>1, <3>2
    <3>4. QED
      BY <2>1, <3>3, NullIsNoValue DEF Lines
  <2>3. Placed(job.file[k]) => \E i \in Ids : \/ Exists(i)' /\ rows'[i].email = job.file[k]
                                              \/ job'.batch[i] = job.file[k]
    BY <1>2, <2>2, ImportLineFields DEF Placed, Exists, IInv
  <2>4. job'.locks /\ (Placed(job.file[k]) \/ \E i \in Ids : job'.batch[i] = job.file[k])
    <3>1. CASE k = job.pos
      BY <1>2, <2>1, <3>1, ImportLineFields DEF IInv, Taken, Placed
    <3>2. CASE k # job.pos
      BY <1>2, <2>1, <3>2, ImportLineFields DEF IInv, LinesArePlaced
    <3>3. QED
      BY <3>1, <3>2
  <2>5. QED
    BY <2>1, <2>3, <2>4 DEF Placed
<1>3. ASSUME job' = NULL PROVE LinesArePlaced'
  BY <1>3 DEF LinesArePlaced
<1>4. ASSUME ~Locked, UNCHANGED job PROVE LinesArePlaced'
  BY <1>4 DEF Locked, LinesArePlaced
<1>5. ASSUME UNCHANGED <<rows, job>> PROVE LinesArePlaced'
  BY <1>5 DEF LinesArePlaced, Placed, Exists
<1>6. QED
  BY <1>1, <1>2, <1>3, <1>4, <1>5
  DEF Next, ImportCommit, UpdateStatus, DeleteProspect, GenerateSelect, PitchSelect,
      ResetSelect, Begin, CallLlm, ServiceDown, DropDraft, CreateDraft, CreateFails, Save,
      SaveTimeout, Restart, UserTakesDraft, vars

\* Every well-formed line of a file has its prospect when the import answers: the
\* lock the import takes with its first INSERT keeps deletions out until the commit.
THEOREM ImportsAreComplete == Spec => ImportComplete
<1> DEFINE Complete == ImportCommit =>
             \A k \in 1..Len(job.file) : job.file[k] # BadLine =>
               \E i \in Ids : rows'[i] \notin {Unused, Gone} /\ rows'[i].email = job.file[k]
<1>1. Init => LinesArePlaced
  BY DEF Init, LinesArePlaced
<1>2. ASSUME IInv, LinesArePlaced PROVE Complete
  <2> SUFFICES ASSUME ImportCommit, NEW k \in 1..Len(job.file), job.file[k] # BadLine
               PROVE  \E i \in Ids : /\ rows'[i] \notin {Unused, Gone}
                                     /\ rows'[i].email = job.file[k]
    OBVIOUS
  <2>1. /\ job \in Job /\ job # NULL /\ job.pos > Len(job.file)
        /\ job.file \in Seq(Lines) /\ job.pos \in Nat
        /\ job.batch \in [Ids -> Emails \cup {NULL}]
    BY <1>2 DEF ImportCommit, IInv, TypeOK, Job
  <2>2. job.file[k] \in Emails
    BY <2>1 DEF Lines
  <2>3. PICK i \in Ids : \/ Exists(i) /\ rows[i].email = job.file[k]
                         \/ job.batch[i] = job.file[k]
    BY <1>2, <2>1 DEF LinesArePlaced, Placed
  <2>4. rows'[i] = IF job.batch[i] # NULL THEN NewRow(job.batch[i]) ELSE rows[i]
    BY DEF ImportCommit, Imported
  <2>5. CASE job.batch[i] # NULL
    <3>1. ~Exists(i)
      BY <1>2, <2>1, <2>5 DEF IInv, AddressesDistinct, Exists
    <3>2. job.batch[i] = job.file[k]
      BY <2>3, <3>1
    <3>3. NewRow(job.file[k]) \in Row /\ NewRow(job.file[k]).email = job.file[k]
      BY <2>2, NewRowFields
    <3>4. QED
      BY <2>4, <2>5, <3>2, <3>3, RowStatesDistinct
  <2>6. CASE job.batch[i] = NULL
    BY <2>2, <2>3, <2>4, <2>6, NullIsNoValue DEF Exists
  <2>7. QED
    BY <2>5, <2>6
<1>3. Spec => []LinesArePlaced
  BY <1>1, Invariant, LinesStayPlaced, PTL DEF Spec
<1>4. IInv /\ LinesArePlaced /\ [Next]_vars => [Complete]_vars
  BY <1>2
<1>5. QED
  BY <1>3, <1>4, Invariant, PTL DEF Spec, ImportComplete
=============================================================================
