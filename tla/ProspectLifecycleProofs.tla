---------------------- MODULE ProspectLifecycleProofs ----------------------
(***************************************************************************)
(* Proof that ProspectCrm implements ProspectLifecycle.                    *)
(*                                                                         *)
(* The handlers write a row only in their last step, so every step of the  *)
(* backend is one step of the table, one draft made, or a stutter.  Which  *)
(* step of the table a Save is depends on what the request holds by then:  *)
(* the invariant of ProspectCrmProofs says for whom its draft was made, and*)
(* RequestsAreShaped below that a generation never ends without a draft or *)
(* the error marker and that an edit never ends without its text.          *)
(***************************************************************************)
EXTENDS ProspectCrmProofs

Shaped(q) ==
  /\ q.op = "generate" => q.at # "drop" /\ (q.at = "save" => q.draft # NULL)
  /\ q.op = "pitch"    => q.at # "llm" /\ q.text \in Texts
  /\ q.op = "reset"    => q.at \in {"drop", "save"}

RequestsAreShaped == \A h \in Handlers : req[h] # NULL => Shaped(req[h])

\* The value of the lifecycle's variable "offered".
Offered == [e \in Emails |-> DraftsFor(e)]

-----------------------------------------------------------------------------

\* A step that replaces one request by a shaped one.
LEMMA OneShaped ==
  ASSUME TypeOK, RequestsAreShaped, NEW h \in Handlers, NEW q,
         req' = [req EXCEPT ![h] = q], q # NULL => Shaped(q)
  PROVE  RequestsAreShaped'
<1>1. \A g \in Handlers : req'[g] = IF g = h THEN q ELSE req[g]
  BY DEF TypeOK
<1>2. \A g \in Handlers : req'[g] # NULL => Shaped(req'[g])
  BY <1>1 DEF RequestsAreShaped
<1>3. QED
  BY <1>2 DEF RequestsAreShaped, Shaped

LEMMA NextKeepsShape == IInv /\ RequestsAreShaped /\ [Next]_vars => RequestsAreShaped'
<1> SUFFICES ASSUME IInv, RequestsAreShaped, [Next]_vars PROVE RequestsAreShaped'
  OBVIOUS
<1>1. TypeOK
  BY DEF IInv
<1>2. ASSUME NEW h \in Handlers, NEW i \in Ids, GenerateSelect(h, i)
      PROVE  RequestsAreShaped'
  <2> DEFINE q == [op |-> "generate", at |-> "llm", id |-> i, email |-> rows[i].email,
                   text |-> NULL, draft |-> NULL]
  <2>1. req' = [req EXCEPT ![h] = q]
    BY <1>2 DEF GenerateSelect, Begin
  <2>2. Shaped(q)
    BY DEF Shaped
  <2> HIDE DEF q
  <2>3. QED
    BY <1>1, <2>1, <2>2, OneShaped
<1>3. ASSUME NEW h \in Handlers, NEW i \in Ids, NEW t \in Texts, PitchSelect(h, i, t)
      PROVE  RequestsAreShaped'
  <2> DEFINE b == rows[i].brouillon
             q == [op |-> "pitch", at |-> IF IsDraft(b) THEN "drop" ELSE "save", id |-> i,
                   email |-> rows[i].email, text |-> t, draft |-> b]
  <2>1. req' = [req EXCEPT ![h] = q]
    BY <1>3 DEF PitchSelect, Begin
  <2>2. Shaped(q)
    BY DEF Shaped
  <2> HIDE DEF q
  <2>3. QED
    BY <1>1, <2>1, <2>2, OneShaped
<1>4. ASSUME NEW h \in Handlers, NEW i \in Ids, ResetSelect(h, i)
      PROVE  RequestsAreShaped'
  <2> DEFINE b == rows[i].brouillon
             q == [op |-> "reset", at |-> IF IsDraft(b) THEN "drop" ELSE "save", id |-> i,
                   email |-> rows[i].email, text |-> NULL, draft |-> b]
  <2>1. req' = [req EXCEPT ![h] = q]
    BY <1>4 DEF ResetSelect, Begin
  <2>2. Shaped(q)
    BY DEF Shaped
  <2> HIDE DEF q
  <2>3. QED
    BY <1>1, <2>1, <2>2, OneShaped
<1>5. ASSUME NEW h \in Handlers, CallLlm(h) PROVE RequestsAreShaped'
  <2>1. req[h] # NULL /\ req[h].at = "llm" /\ Shaped(req[h])
    BY <1>5 DEF CallLlm, At, RequestsAreShaped
  <2>2. PICK t \in LlmAnswers : req' = [req EXCEPT ![h].text = t, ![h].at = "draft"]
    BY <1>5 DEF CallLlm
  <2> DEFINE q == [req[h] EXCEPT !.text = t, !.at = "draft"]
  <2>3. req' = [req EXCEPT ![h] = q]
    BY <1>1, <2>2 DEF TypeOK
  <2>4. q.op = req[h].op /\ q.at = "draft"
    BY <1>1, <2>1, RequestFields DEF Request
  <2>5. req[h].op = "generate"
    BY <1>1, <2>1, RequestFields DEF Shaped
  <2>6. Shaped(q)
    BY <2>4, <2>5 DEF Shaped
  <2> HIDE DEF q
  <2>7. QED
    BY <1>1, <2>3, <2>6, OneShaped
<1>6. ASSUME NEW h \in Handlers, NEW p \in {"save", "draft"}, At(h, "drop"),
             p = "draft" => req[h].op = "pitch",
             req' = [req EXCEPT ![h].at = p]
      PROVE  RequestsAreShaped'
  <2>1. req[h] # NULL /\ req[h].at = "drop" /\ Shaped(req[h])
    BY <1>6 DEF At, RequestsAreShaped
  <2> DEFINE q == [req[h] EXCEPT !.at = p]
  <2>2. req' = [req EXCEPT ![h] = q]
    BY <1>1, <1>6 DEF TypeOK
  <2>3. q.op = req[h].op /\ q.at = p /\ q.text = req[h].text
    BY <1>1, <2>1, RequestFields DEF Request
  <2> HIDE DEF q
  <2>4. Shaped(q)
    BY <1>6, <2>1, <2>3 DEF Shaped
  <2>5. QED
    BY <1>1, <2>2, <2>4, OneShaped
<1>7. ASSUME NEW h \in Handlers, NEW b, At(h, "draft"),
             req[h].op = "generate" => b # NULL,
             req' = [req EXCEPT ![h].draft = b, ![h].at = "save"]
      PROVE  RequestsAreShaped'
  <2>1. req[h] # NULL /\ req[h].at = "draft" /\ Shaped(req[h])
    BY <1>7 DEF At, RequestsAreShaped
  <2> DEFINE q == [req[h] EXCEPT !.draft = b, !.at = "save"]
  <2>2. req' = [req EXCEPT ![h] = q]
    BY <1>1, <1>7 DEF TypeOK
  <2>3. q.op = req[h].op /\ q.at = "save" /\ q.text = req[h].text /\ q.draft = b
    BY <1>1, <2>1, RequestFields DEF Request
  <2> HIDE DEF q
  <2>4. Shaped(q)
    BY <1>7, <2>1, <2>3 DEF Shaped
  <2>5. QED
    BY <1>1, <2>2, <2>4, OneShaped
<1>8. ASSUME NEW h \in Handlers, DropDraft(h) PROVE RequestsAreShaped'
  BY <1>6, <1>8 DEF DropDraft
<1>9. ASSUME NEW h \in Handlers, ServiceDown(h) PROVE RequestsAreShaped'
  BY <1>6, <1>9 DEF ServiceDown
<1>10. ASSUME NEW h \in Handlers, CreateDraft(h) PROVE RequestsAreShaped'
  BY <1>7, <1>10, DraftRefsDistinct DEF CreateDraft
<1>11. ASSUME NEW h \in Handlers, CreateFails(h) PROVE RequestsAreShaped'
  <2>1. At(h, "draft")
    BY <1>11 DEF CreateFails
  <2>2. CASE req[h].op = "generate"
    <3>1. req' = [req EXCEPT ![h].draft = ErrDraft, ![h].at = "save"]
      BY <1>11, <2>2 DEF CreateFails
    <3>2. QED
      BY <1>7, <2>1, <3>1, DraftRefsDistinct
  <2>3. CASE req[h].op # "generate"
    <3>1. req' = [req EXCEPT ![h].draft = req[h].draft, ![h].at = "save"]
      BY <1>11, <2>3 DEF CreateFails
    <3>2. QED
      BY <1>7, <2>1, <2>3, <3>1
  <2>4. QED
    BY <2>2, <2>3
<1>12. ASSUME NEW h \in Handlers, req' = [req EXCEPT ![h] = NULL] PROVE RequestsAreShaped'
  BY <1>1, <1>12, OneShaped
<1>13. CASE req' = [h \in Handlers |-> NULL]
  BY <1>13 DEF RequestsAreShaped
<1>14. CASE UNCHANGED req
  BY <1>14 DEF RequestsAreShaped, Shaped
<1>15. QED
  BY <1>2, <1>3, <1>4, <1>5, <1>8, <1>9, <1>10, <1>11, <1>12, <1>13, <1>14
  DEF Next, ImportStart, ImportLine, ImportCommit, UpdateStatus, DeleteProspect, Save,
      SaveTimeout, Restart, UserTakesDraft, vars

-----------------------------------------------------------------------------
(* Each action is a step of the lifecycle. *)

LEMMA SameTable ==
  ASSUME UNCHANGED <<rows, mail>>
  PROVE  UNCHANGED Lifecycle!vars
BY DEF Lifecycle!vars, DraftsFor

LEMMA SameDrafts ==
  ASSUME UNCHANGED mail
  PROVE  Offered' = Offered
BY DEF Offered, DraftsFor

LEMMA StoreOffers ==
  ASSUME TypeOK, NEW d \in DraftIds, NEW letter \in Letter, Store(d, letter), UNCHANGED rows
  PROVE  Lifecycle!Offer
<1>1. letter.to \in Emails /\ letter # NULL
  BY NullIsNoValue DEF Letter
<1>2. \A f \in Emails : d \notin DraftsFor(f)
  BY DEF DraftsFor, Store
<1>3. ASSUME NEW f \in Emails
      PROVE  DraftsFor(f)' = IF f = letter.to THEN DraftsFor(f) \cup {d} ELSE DraftsFor(f)
  <2>1. \A c \in DraftIds : mail'[c] = IF c = d THEN letter ELSE mail[c]
    BY DEF TypeOK, Store
  <2>2. mail[d] = NULL
    BY DEF Store
  <2>3. QED
    BY <1>1, <2>1, <2>2 DEF DraftsFor
<1>4. Offered' = [Offered EXCEPT ![letter.to] = @ \cup {d}]
  BY <1>1, <1>3 DEF Offered
<1>5. QED
  BY <1>1, <1>2, <1>4 DEF Lifecycle!Offer, Offered

LEMMA CommitAdds ==
  ASSUME IInv, ImportCommit
  PROVE  Lifecycle!Add
<1>1. /\ job \in Job /\ job # NULL /\ rows' = Imported /\ UNCHANGED mail
      /\ job.batch \in [Ids -> Emails \cup {NULL}]
  BY DEF ImportCommit, IInv, TypeOK, Job
<1>2. \A i \in Ids : rows'[i] = IF job.batch[i] # NULL THEN NewRow(job.batch[i]) ELSE rows[i]
  BY <1>1 DEF Imported
<1>3. ASSUME NEW i \in Ids, rows'[i] # rows[i]
      PROVE  /\ job.batch[i] \in Emails
             /\ rows[i] = Unused
             /\ rows'[i] = NewRow(job.batch[i])
             /\ rows'[i].email = job.batch[i]
  BY <1>1, <1>2, <1>3, NewRowFields DEF IInv, AddressesDistinct
<1>4. ASSUME NEW i \in Ids, rows'[i] # rows[i]
      PROVE  rows'[i] \in {Lifecycle!Fresh(e) : e \in Emails}
  BY <1>3, <1>4 DEF Lifecycle!Fresh, NewRow
<1>5. ASSUME NEW i \in Ids, rows'[i] # rows[i],
             NEW k \in Ids \ {i}, rows'[k] \notin {Unused, Gone}
      PROVE  rows'[k].email # rows'[i].email
  <2>1. CASE job.batch[k] # NULL
    BY <1>1, <1>2, <1>3, <1>5, <2>1, NewRowFields, NullIsNoValue DEF IInv, AddressesDistinct
  <2>2. CASE job.batch[k] = NULL
    BY <1>1, <1>2, <1>3, <1>5, <2>2, NullIsNoValue DEF IInv, AddressesDistinct, Exists
  <2>3. QED
    BY <2>1, <2>2
<1>6. DOMAIN rows' = Ids
  BY <1>1 DEF Imported
<1>7. Offered' = Offered
  BY <1>1, SameDrafts
<1>8. QED
  BY <1>3, <1>4, <1>5, <1>6, <1>7 DEF Lifecycle!Add, Offered

\* A draft that was made for the address of an existing row may be stored there.
LEMMA KnownDraftsAreOwn ==
  ASSUME TypeOK, NEW q \in Request, Knows(q), Exists(q.id), IsDraft(q.draft)
  PROVE  q.draft \in Offered[rows[q.id].email]
BY RowFields DEF Knows, IsDraft, Offered, DraftsFor, Request

LEMMA SaveIsAChange ==
  ASSUME IInv, RequestsAreShaped, NEW h \in Handlers, Save(h)
  PROVE  [Lifecycle!Next]_(Lifecycle!vars)
<1> DEFINE q == req[h]
           i == req[h].id
<1>1. /\ q \in Request /\ q # NULL /\ q.at = "save" /\ i \in Ids
      /\ q.draft \in DraftRefs /\ q.text \in Pitches
      /\ q.op \in {"generate", "pitch", "reset"}
      /\ Knows(q) /\ Shaped(q) /\ UNCHANGED mail
  BY RequestFields DEF Save, At, IInv, RequestsKnowTheirProspect, RequestsAreShaped
<1>2. CASE ~Exists(i)
  <2>1. rows' = rows
    BY <1>2 DEF Save, IInv, TypeOK
  <2>2. QED
    BY <1>1, <2>1, SameTable
<1>3. CASE Exists(i)
  <2>1. rows' = [rows EXCEPT ![i] = Updated(q, rows[i])]
    BY <1>3 DEF Save, IInv, TypeOK
  <2>2. /\ rows[i] \in Row /\ rows[i].email \in Emails
        /\ Offered[rows[i].email] = DraftsFor(rows[i].email)
    BY <1>1, <1>3, RowFields DEF IInv, Offered
  <2>3. IsDraft(q.draft) => q.draft \in Offered[rows[i].email]
    BY <1>1, <1>3, KnownDraftsAreOwn DEF IInv
  <2>4. Offered' = Offered
    BY <1>1, SameDrafts
  <2>5. ASSUME NEW row, Updated(q, rows[i]) = row PROVE Lifecycle!Change(i, row)
    BY <2>1, <2>4, <2>5 DEF Lifecycle!Change, Offered
  <2>6. i \in Lifecycle!Prospects
    BY <1>1, <1>3 DEF Lifecycle!Prospects, Exists
  <2>7. CASE q.op = "generate"
    <3>1. q.draft \in Offered[rows[i].email] \cup {ErrDraft}
      BY <1>1, <2>3, <2>7 DEF Shaped, DraftRefs, IsDraft
    <3>2. Updated(q, rows[i]) = [rows[i] EXCEPT !.statut = "BROUILLON_CREE",
                                                !.brouillon = q.draft, !.pitch = q.text]
      BY <2>7 DEF Updated
    <3>3. Lifecycle!Change(i, [rows[i] EXCEPT !.statut = "BROUILLON_CREE",
                                              !.brouillon = q.draft, !.pitch = q.text])
      BY <2>5, <3>2
    <3>4. Lifecycle!Drafted(i)
      BY <1>1, <3>1, <3>3 DEF Lifecycle!Drafted, Pitches, Offered
    <3>5. QED
      BY <2>6, <3>4 DEF Lifecycle!Next
  <2>8. CASE q.op = "pitch"
    <3>1. q.draft \in Lifecycle!Own(i) \cup {NULL, ErrDraft}
      BY <1>1, <2>3 DEF DraftRefs, IsDraft, Lifecycle!Own, Offered
    <3>2. Updated(q, rows[i]) = [rows[i] EXCEPT !.statut = rows[i].statut,
                                                !.brouillon = q.draft, !.pitch = q.text]
      BY <2>8 DEF Updated
    <3>3. Updated(q, rows[i]) = [rows[i] EXCEPT !.brouillon = q.draft, !.pitch = q.text]
      BY <2>2, <3>2 DEF Row
    <3>4. Lifecycle!Change(i, [rows[i] EXCEPT !.brouillon = q.draft, !.pitch = q.text])
      BY <2>5, <3>3
    <3>5. Lifecycle!Rewritten(i)
      BY <1>1, <2>8, <3>1, <3>4 DEF Lifecycle!Rewritten, Shaped
    <3>6. QED
      BY <2>6, <3>5 DEF Lifecycle!Next
  <2>9. CASE q.op = "reset"
    <3>1. Updated(q, rows[i]) = [rows[i] EXCEPT !.statut = "EN ATTENTE", !.brouillon = NULL,
                                                !.pitch = NULL]
      BY <2>9 DEF Updated
    <3>2. Lifecycle!Reset(i)
      BY <2>5, <3>1 DEF Lifecycle!Reset
    <3>3. QED
      BY <2>6, <3>2 DEF Lifecycle!Next
  <2>10. QED
    BY <1>1, <2>7, <2>8, <2>9
<1>4. QED
  BY <1>2, <1>3

LEMMA UpdateStatusIsAChange ==
  ASSUME IInv, NEW i \in Ids, NEW s \in ClientStatuses, NEW d \in DraftIds \cup {NULL},
         UpdateStatus(i, s, d)
  PROVE  Lifecycle!Next
<1> DEFINE b == IF d # NULL THEN d ELSE rows[i].brouillon
<1>1. /\ rows[i] \in Row /\ rows[i].email \in Emails /\ s \in VALID_STATUSES
      /\ d \in DraftsFor(rows[i].email) \cup {NULL}
      /\ UNCHANGED mail /\ i \in Lifecycle!Prospects
  BY RowFields DEF UpdateStatus, IInv, Lifecycle!Prospects, Exists
<1>2. rows' = [rows EXCEPT ![i] = [rows[i] EXCEPT !.statut = s, !.brouillon = b]]
  BY DEF UpdateStatus, IInv, TypeOK
<1>3. b \in Lifecycle!Own(i)
  BY <1>1 DEF Lifecycle!Own
<1>4. Offered' = Offered
  BY <1>1, SameDrafts
<1>5. Lifecycle!SetStatus(i)
  BY <1>1, <1>2, <1>3, <1>4 DEF Lifecycle!SetStatus, Lifecycle!Change, Offered
<1>6. QED
  BY <1>1, <1>5 DEF Lifecycle!Next

LEMMA StepRefines ==
  ASSUME IInv, RequestsAreShaped, [Next]_vars
  PROVE  [Lifecycle!Next]_(Lifecycle!vars)
<1> DEFINE Refined == [Lifecycle!Next]_(Lifecycle!vars)
<1> SUFFICES Refined
  OBVIOUS
<1>1. CASE ImportCommit
  BY <1>1, CommitAdds DEF Lifecycle!Next
<1>2. ASSUME NEW i \in Ids, NEW s \in ClientStatuses, NEW d \in DraftIds \cup {NULL},
             UpdateStatus(i, s, d)
      PROVE  Refined
  BY <1>2, UpdateStatusIsAChange
<1>3. ASSUME NEW i \in Ids, DeleteProspect(i) PROVE Refined
  <2>1. Offered' = Offered
    BY <1>3, SameDrafts DEF DeleteProspect
  <2>2. Lifecycle!Remove(i) /\ i \in Lifecycle!Prospects
    BY <1>3, <2>1
    DEF DeleteProspect, Exists, Lifecycle!Remove, Lifecycle!Prospects, Offered
  <2>3. QED
    BY <2>2 DEF Lifecycle!Next
<1>4. ASSUME NEW h \in Handlers, NEW d \in DraftIds, req[h] # NULL, req[h].text # NULL,
             Store(d, LetterOf(h)), UNCHANGED rows
      PROVE  Refined
  BY <1>4, LetterFields, StoreOffers DEF IInv, Lifecycle!Next
<1>5. ASSUME NEW h \in Handlers, CreateDraft(h) PROVE Refined
  BY <1>4, <1>5 DEF CreateDraft, At
<1>6. ASSUME NEW h \in Handlers, CreateFails(h) PROVE Refined
  <2>1. CASE UNCHANGED <<mail, live>>
    BY <1>6, <2>1, SameTable DEF CreateFails
  <2>2. ASSUME NEW d \in DraftIds, req[h].text # NULL, Store(d, LetterOf(h)) PROVE Refined
    BY <1>4, <1>6, <2>2 DEF CreateFails, At
  <2>3. QED
    BY <1>6, <2>1, <2>2 DEF CreateFails
<1>7. ASSUME NEW h \in Handlers, Save(h) PROVE Refined
  BY <1>7, SaveIsAChange
<1>8. CASE UNCHANGED <<rows, mail>>
  BY <1>8, SameTable
<1> HIDE DEF Refined
<1>9. QED
  BY <1>1, <1>2, <1>3, <1>5, <1>6, <1>7, <1>8
  DEF Next, ImportStart, ImportLine, GenerateSelect, PitchSelect, ResetSelect, Begin,
      CallLlm, ServiceDown, DropDraft, SaveTimeout, Restart, UserTakesDraft, vars

\* What the backend does to its table, with any number of requests, imports, failures
\* and restarts under way, is what the lifecycle allows in single steps.
THEOREM BackendImplementsLifecycle == Spec => ImplementsLifecycle
<1>1. Init => Lifecycle!Init
  <2>1. Init => \A e \in Emails : DraftsFor(e) = {}
    BY DEF Init, DraftsFor
  <2>2. QED
    BY <2>1 DEF Init, Lifecycle!Init
<1>2. Init => RequestsAreShaped
  BY DEF Init, RequestsAreShaped
<1>3. Spec => []RequestsAreShaped
  BY <1>2, Invariant, NextKeepsShape, PTL DEF Spec
<1>4. QED
  BY <1>1, <1>3, Invariant, StepRefines, PTL DEF Spec, ImplementsLifecycle, Lifecycle!Spec
=============================================================================
