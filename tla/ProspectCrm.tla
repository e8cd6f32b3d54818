---------------------------- MODULE ProspectCrm ----------------------------
(***************************************************************************)
(* The FastAPI backend of SilaLink CRM (src/src/main.py) with the two      *)
(* stores it works on: the SQLite table "prospects" and the Gmail mailbox  *)
(* (src/src/gmail_service.py).                                             *)
(*                                                                         *)
(* The handlers are plain "def" functions: FastAPI runs each of them on a  *)
(* thread of its pool, so the handlers of two requests interleave.  A      *)
(* handler that calls OmniRoute or Gmail is a chain of steps (SELECT, LLM, *)
(* Gmail, UPDATE); one that only runs a single SQL statement is one step.  *)
(* The import runs on the event loop, hence one at a time, and holds       *)
(* SQLite's write lock from its first INSERT to its commit.                *)
(***************************************************************************)
EXTENDS Naturals, Sequences, FiniteSets

CONSTANTS
  Ids,             \* primary keys the table can hand out; bounds the rows ever inserted
  Emails,          \* addresses that occur in the imported files
  DraftIds,        \* identifiers Gmail can hand out; bounds the drafts ever made
  Handlers,        \* threads of the pool that serve a request
  Texts,           \* texts typed by the user or written by the LLM
  LlmAnswers,      \* what the call to OmniRoute can leave in pitch_content
  ClientStatuses,  \* values the clients send as new_status
  Files,           \* the CSV files that can be imported: sequences of lines
  BadLine,         \* a line with a missing field or an ill-formed address
  ErrDraft,        \* the "erreur-gmail-..." marker stored in place of a draft id
  NULL,            \* SQL's NULL, and "no request" or "no import"
  Unused,          \* the state of a key not handed out yet
  Gone             \* the state of a key whose row was deleted

VALID_STATUSES == {"EN ATTENTE", "BROUILLON_CREE", "ENVOYE", "REPONDU", "QUALIFIE"}

Pitches   == Texts \cup {NULL}
DraftRefs == DraftIds \cup {NULL, ErrDraft}
Lines     == Emails \cup {BadLine}

Row == [email : Emails, statut : VALID_STATUSES, brouillon : DraftRefs, pitch : Pitches]

Letter == [to : Emails, text : Texts]

\* A request being served: the operation, the next step of its handler, the
\* prospect it names, and what the handler keeps in local variables.
Request == [op    : {"generate", "pitch", "reset"},
            at    : {"llm", "drop", "draft", "save"},
            id    : Ids,
            email : Emails,
            text  : Pitches,
            draft : DraftRefs]

\* The import in progress: the file, the next line, the rows inserted but not
\* committed, and whether the transaction holds the write lock.
Job == [file  : Seq(Lines),
        pos   : Nat \ {0},
        batch : [Ids -> Emails \cup {NULL}],
        locks : BOOLEAN]

ASSUME DraftRefsDistinct == NULL \notin DraftIds /\ ErrDraft \notin DraftIds /\ NULL # ErrDraft
ASSUME RowStatesDistinct == Unused \notin Row /\ Gone \notin Row /\ Unused # Gone
ASSUME NullIsNoValue     == NULL \notin Emails /\ NULL \notin Texts /\ NULL \notin Request
                            /\ NULL \notin Job /\ NULL \notin Letter
ASSUME BadLineIsNoEmail  == BadLine \notin Emails
ASSUME LlmAnswersType    == LlmAnswers \subseteq Pitches
ASSUME FilesType         == Files \subseteq Seq(Lines)

VARIABLES
  rows,  \* the table: key -> row, Unused or Gone
  mail,  \* every draft ever made: id -> letter or NULL
  live,  \* the drafts that are in the mailbox now
  req,   \* thread -> request or NULL
  job    \* the import in progress or NULL

vars == <<rows, mail, live, req, job>>

TypeOK ==
  /\ rows \in [Ids -> Row \cup {Unused, Gone}]
  /\ mail \in [DraftIds -> Letter \cup {NULL}]
  /\ live \subseteq DraftIds
  /\ req \in [Handlers -> Request \cup {NULL}]
  /\ job \in Job \cup {NULL}

Init ==
  /\ rows = [i \in Ids |-> Unused]
  /\ mail = [d \in DraftIds |-> NULL]
  /\ live = {}
  /\ req = [h \in Handlers |-> NULL]
  /\ job = NULL

-----------------------------------------------------------------------------
(* Helpers. *)

Exists(i) == rows[i] \notin {Unused, Gone}

\* Mutant: INTEGER PRIMARY KEY without AUTOINCREMENT, a deleted key is free again.
FreeKeyReused(i) == ~Exists(i)

\* AUTOINCREMENT (main.py:67): a key that was handed out is never handed out again.
FreeKey(i) == rows[i] = Unused

\* brouillon holds an id of Gmail rather than NULL or the error marker.
IsDraft(b) == b \in DraftIds

\* A write of another connection waits for the import's transaction.
Locked == job # NULL /\ job.locks

NewRow(e) == [email |-> e, statut |-> "EN ATTENTE", brouillon |-> NULL, pitch |-> NULL]

\* The addresses the UNIQUE constraint sees inside the import's transaction.
Taken == {rows[i].email : i \in {k \in Ids : Exists(k)}}
         \cup {job.batch[i] : i \in Ids}

\* Mutant: the client's draft_id is not one the API returned for this prospect.
DraftsForAnyone(e) == {d \in DraftIds : mail[d] # NULL}

\* Ids of drafts made for an address: the only ones the API ever returned for it.
DraftsFor(e) == {d \in DraftIds : mail[d] # NULL /\ mail[d].to = e}

-----------------------------------------------------------------------------
(* POST /prospects/import *)

\* Bound: an import starts only while keys are left for every line of the file.
ImportStart(f) ==
  /\ job = NULL
  /\ Len(f) <= Cardinality({i \in Ids : FreeKey(i)})
  /\ job' = [file |-> f, pos |-> 1, batch |-> [i \in Ids |-> NULL], locks |-> FALSE]
  /\ UNCHANGED <<rows, mail, live, req>>

\* Mutant: a duplicate is found by a SELECT, which takes no write lock.
ImportLineUnlocked ==
  /\ job # NULL
  /\ job.pos <= Len(job.file)
  /\ LET line == job.file[job.pos] IN
     \/ /\ line = BadLine \/ line \in Taken
        /\ job' = [job EXCEPT !.pos = @ + 1]
     \/ /\ line # BadLine
        /\ line \notin Taken
        /\ \E i \in Ids :
             /\ FreeKey(i)
             /\ job.batch[i] = NULL
             /\ job' = [job EXCEPT !.pos = @ + 1, !.locks = TRUE, !.batch[i] = line]
  /\ UNCHANGED <<rows, mail, live, req>>

ImportLine ==
  /\ job # NULL
  /\ job.pos <= Len(job.file)
  /\ LET line == job.file[job.pos] IN
     \/ /\ line = BadLine
        /\ job' = [job EXCEPT !.pos = @ + 1]
     \/ /\ line # BadLine
        /\ line \in Taken
        /\ job' = [job EXCEPT !.pos = @ + 1, !.locks = TRUE]
     \/ /\ line # BadLine
        /\ line \notin Taken
        /\ \E i \in Ids :
             /\ FreeKey(i)
             /\ job.batch[i] = NULL
             /\ job' = [job EXCEPT !.pos = @ + 1, !.locks = TRUE, !.batch[i] = line]
  /\ UNCHANGED <<rows, mail, live, req>>

Imported == [i \in Ids |-> IF job.batch[i] # NULL THEN NewRow(job.batch[i]) ELSE rows[i]]

ImportCommit ==
  /\ job # NULL
  /\ job.pos > Len(job.file)
  /\ rows' = Imported
  /\ job' = NULL
  /\ UNCHANGED <<mail, live, req>>

-----------------------------------------------------------------------------
(* The handlers of one SQL statement: PATCH .../status and DELETE .../{id} *)

\* Mutant: new_status is not compared with VALID_STATUSES.
UpdateStatusUnchecked(i, s, d) ==
  /\ ~Locked
  /\ Exists(i)
  /\ d \in DraftsFor(rows[i].email) \cup {NULL}
  /\ rows' = [rows EXCEPT ![i].statut = s]
  /\ UNCHANGED <<mail, live, req, job>>

UpdateStatus(i, s, d) ==
  /\ ~Locked
  /\ Exists(i)
  /\ s \in VALID_STATUSES
  /\ d \in DraftsFor(rows[i].email) \cup {NULL}
  /\ rows' = [rows EXCEPT ![i].statut = s,
                          ![i].brouillon = IF d # NULL THEN d ELSE @]
  /\ UNCHANGED <<mail, live, req, job>>

DeleteProspect(i) ==
  /\ ~Locked
  /\ Exists(i)
  /\ rows' = [rows EXCEPT ![i] = Gone]
  /\ UNCHANGED <<mail, live, req, job>>

-----------------------------------------------------------------------------
(* The handlers that call out: POST .../generate, PUT .../pitch and        *)
(* DELETE .../draft.  Each begins with the SELECT of its row.              *)

Begin(h, op, at, i, text, draft) ==
  /\ req[h] = NULL
  /\ Exists(i)
  /\ req' = [req EXCEPT ![h] = [op |-> op, at |-> at, id |-> i, email |-> rows[i].email,
                                text |-> text, draft |-> draft]]
  /\ UNCHANGED <<rows, mail, live, job>>

GenerateSelect(h, i) == Begin(h, "generate", "llm", i, NULL, NULL)

PitchSelect(h, i, t) ==
  LET b == rows[i].brouillon
  IN  Begin(h, "pitch", IF IsDraft(b) THEN "drop" ELSE "save", i, t, b)

ResetSelect(h, i) ==
  LET b == rows[i].brouillon
  IN  Begin(h, "reset", IF IsDraft(b) THEN "drop" ELSE "save", i, NULL, b)

At(h, place) == req[h] # NULL /\ req[h].at = place

\* Mutant: requests.post without its time-out waits for an answer that never comes.
CallLlmForever(h) ==
  /\ At(h, "llm")
  /\ UNCHANGED vars

\* The answer of OmniRoute, the text of its HTTP error, or the off-line text.
CallLlm(h) ==
  /\ At(h, "llm")
  /\ \E t \in LlmAnswers : req' = [req EXCEPT ![h].text = t, ![h].at = "draft"]
  /\ UNCHANGED <<rows, mail, live, job>>

\* get_gmail_service raises before anything is deleted or created: PUT keeps
\* the old draft.
ServiceDown(h) ==
  /\ At(h, "drop")
  /\ req' = [req EXCEPT ![h].at = "save"]
  /\ UNCHANGED <<rows, mail, live, job>>

\* delete_gmail_draft: Gmail removes the draft or not; the exception is swallowed.
DropDraft(h) ==
  /\ At(h, "drop")
  /\ live' \in {live, live \ {req[h].draft}}
  /\ req' = [req EXCEPT ![h].at = IF req[h].op = "pitch" THEN "draft" ELSE "save"]
  /\ UNCHANGED <<rows, mail, job>>

\* Gmail stores a draft under an id it never used.
Store(d, letter) ==
  /\ mail[d] = NULL
  /\ mail' = [mail EXCEPT ![d] = letter]
  /\ live' = live \cup {d}

LetterOf(h) == [to |-> req[h].email, text |-> req[h].text]

CreateDraft(h) ==
  /\ At(h, "draft")
  /\ req[h].text # NULL
  /\ \E d \in DraftIds :
       /\ Store(d, LetterOf(h))
       /\ req' = [req EXCEPT ![h].draft = d, ![h].at = "save"]
  /\ UNCHANGED <<rows, job>>

\* Mutant: the exception leaves draft_id unset, generate stores no marker.
CreateFailsSilently(h) ==
  /\ At(h, "draft")
  /\ req' = [req EXCEPT ![h].at = "save"]
  /\ UNCHANGED <<rows, mail, live, job>>

\* An exception: Gmail is unreachable or refuses, the body is NULL, or the draft
\* was stored and only the answer was lost.
CreateFails(h) ==
  /\ At(h, "draft")
  /\ req' = [req EXCEPT ![h].draft = IF req[h].op = "generate" THEN ErrDraft ELSE @,
                        ![h].at = "save"]
  /\ \/ UNCHANGED <<mail, live>>
     \/ req[h].text # NULL /\ \E d \in DraftIds : Store(d, LetterOf(h))
  /\ UNCHANGED <<rows, job>>

\* The UPDATE that ends the handler writes these columns of the row r.
Updated(q, r) ==
  IF q.op = "reset"
  THEN [r EXCEPT !.statut = "EN ATTENTE", !.brouillon = NULL, !.pitch = NULL]
  ELSE [r EXCEPT !.statut = IF q.op = "generate" THEN "BROUILLON_CREE" ELSE @,
                 !.brouillon = q.draft, !.pitch = q.text]

\* Mutant: an upsert (INSERT OR REPLACE) instead of the UPDATE.
SaveUpsert(h) ==
  /\ At(h, "save")
  /\ ~Locked
  /\ LET r == NewRow(req[h].email) IN
     rows' = [rows EXCEPT ![req[h].id] = Updated(req[h], IF Exists(req[h].id) THEN @ ELSE r)]
  /\ req' = [req EXCEPT ![h] = NULL]
  /\ UNCHANGED <<mail, live, job>>

\* WHERE id = ?: a row deleted since the SELECT is not written, and the handler
\* answers 200 all the same.
Save(h) ==
  /\ At(h, "save")
  /\ ~Locked
  /\ rows' = [i \in Ids |-> IF i = req[h].id /\ Exists(i) THEN Updated(req[h], rows[i])
                                                          ELSE rows[i]]
  /\ req' = [req EXCEPT ![h] = NULL]
  /\ UNCHANGED <<mail, live, job>>

\* "database is locked" after sqlite3's five seconds: the request ends in a 500.
SaveTimeout(h) ==
  /\ At(h, "save")
  /\ Locked
  /\ req' = [req EXCEPT ![h] = NULL]
  /\ UNCHANGED <<rows, mail, live, job>>

-----------------------------------------------------------------------------
(* The environment. *)

\* The backend is stopped and started again: requests and the open transaction
\* are lost, both stores stay.
Restart ==
  /\ req' = [h \in Handlers |-> NULL]
  /\ job' = NULL
  /\ UNCHANGED <<rows, mail, live>>

\* The user sends or discards a draft in Gmail.
UserTakesDraft(d) ==
  /\ d \in live
  /\ live' = live \ {d}
  /\ UNCHANGED <<rows, mail, req, job>>

HandlerStep(h) ==
  CallLlm(h) \/ ServiceDown(h) \/ DropDraft(h) \/ CreateDraft(h) \/ CreateFails(h)
  \/ Save(h) \/ SaveTimeout(h)

ImportStep == ImportLine \/ ImportCommit

Next ==
  \/ \E f \in Files : ImportStart(f)
  \/ ImportLine
  \/ ImportCommit
  \/ \E i \in Ids, s \in ClientStatuses, d \in DraftIds \cup {NULL} : UpdateStatus(i, s, d)
  \/ \E i \in Ids : DeleteProspect(i)
  \/ \E h \in Handlers, i \in Ids : GenerateSelect(h, i)
  \/ \E h \in Handlers, i \in Ids, t \in Texts : PitchSelect(h, i, t)
  \/ \E h \in Handlers, i \in Ids : ResetSelect(h, i)
  \/ \E h \in Handlers : CallLlm(h)
  \/ \E h \in Handlers : ServiceDown(h)
  \/ \E h \in Handlers : DropDraft(h)
  \/ \E h \in Handlers : CreateDraft(h)
  \/ \E h \in Handlers : CreateFails(h)
  \/ \E h \in Handlers : Save(h)
  \/ \E h \in Handlers : SaveTimeout(h)
  \/ Restart
  \/ \E d \in DraftIds : UserTakesDraft(d)

Spec == Init /\ [][Next]_vars

\* Threads of the pool and the event loop go on; OmniRoute and Gmail answer or
\* raise within the time-outs of requests (60 s) and of googleapiclient.
Fairness == (\A h \in Handlers : WF_vars(HandlerStep(h))) /\ WF_vars(ImportStep)

FairSpec == Spec /\ Fairness

-----------------------------------------------------------------------------
(* Properties. *)

\* The Gmail draft a prospect refers to is addressed to that prospect, whatever
\* generations, edits, deletions and imports overlapped while it was made
\* (create_gmail_draft is given the address read at the SELECT, main.py:239, and
\* its id is stored by the UPDATE of main.py:304, up to a minute later).
DraftReachesItsProspect ==
  \A i \in Ids : Exists(i) /\ IsDraft(rows[i].brouillon) =>
    /\ mail[rows[i].brouillon] # NULL
    /\ mail[rows[i].brouillon].to = rows[i].email

\* A deleted prospect stays deleted, even when a request that read it before the
\* deletion writes its result afterwards (main.py:304-308, 363-367, 400-404).
DeletedStaysDeleted == [][\A i \in Ids : rows[i] = Gone => rows'[i] = Gone]_vars

\* A handler removes a draft from Gmail only if it was made for the prospect that
\* now has the key the request names (main.py:343-349, 390-395).
RemovesOnlyItsProspectsDrafts ==
  [][\A d \in live \ live' :
       \/ UserTakesDraft(d)
       \/ \E h \in Handlers : /\ At(h, "drop")
                              /\ req[h].draft = d
                              /\ Exists(req[h].id) => mail[d].to = rows[req[h].id].email]_vars

\* Every well-formed line of a file has its prospect in the table when the import
\* answers, the duplicates included: no deletion slips in between the line that
\* found the duplicate and the commit (main.py:173-182).
ImportComplete ==
  [][ImportCommit =>
       \A k \in 1..Len(job.file) : job.file[k] # BadLine =>
         \E i \in Ids : rows'[i] \notin {Unused, Gone} /\ rows'[i].email = job.file[k]]_vars

\* Every request and every import ends, whatever OmniRoute, Gmail and SQLite's
\* write lock do (time-outs and swallowed exceptions of main.py:266-300, 345-360).
EveryRequestEnds ==
  /\ \A h \in Handlers : (req[h] # NULL) ~> (req[h] = NULL)
  /\ (job # NULL) ~> (job = NULL)

\* The table, seen without threads and mailbox, follows the lifecycle.
Lifecycle == INSTANCE ProspectLifecycle WITH
  Statuses <- VALID_STATUSES, table <- rows, offered <- [e \in Emails |-> DraftsFor(e)]

\* Every step of the handlers is a step of the lifecycle or leaves it alone.
ImplementsLifecycle == Lifecycle!Spec

\* Claim of main.py:377 and 409: DELETE .../draft answers "Brouillon supprime de
\* Gmail et prospect reinitialise." when the draft is no longer in Gmail.
ResetRemovedTheDraft ==
  [][\A h \in Handlers : Save(h) /\ req[h].op = "reset" => req[h].draft \notin live]_vars

\* Claim of main.py:326 and 372: PUT .../pitch updates the draft with the text, so
\* the draft a prospect refers to, if still in Gmail, holds the stored pitch.
DraftHoldsThePitch ==
  \A i \in Ids : Exists(i) /\ rows[i].brouillon \in live
                  => mail[rows[i].brouillon].text = rows[i].pitch
=============================================================================
