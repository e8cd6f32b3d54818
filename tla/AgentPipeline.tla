---------------------------- MODULE AgentPipeline ----------------------------
(***************************************************************************)
(* The batch agent (src/src/agent.py) and the Streamlit dashboard          *)
(* (src/src/app.py with src/src/crm_api.py).  They share a database of     *)
(* their own, the file prospects_test.db of the working directory: it is   *)
(* not the one of the FastAPI backend, and nothing deletes a row from it.  *)
(*                                                                         *)
(* A run reads the pending prospects once, then works through them: the    *)
(* LLM writes the pitch, Gmail makes the draft, the status is saved.  Runs *)
(* overlap (the command line, one script thread per browser session), and  *)
(* users import prospects and set statuses meanwhile.                      *)
(*                                                                         *)
(* A file is the set of the addresses on its well-formed lines; the text   *)
(* of the letters and the time stamps are left out.                        *)
(***************************************************************************)
EXTENDS Naturals, FiniteSets

CONSTANTS
  Ids,       \* primary keys the table can hand out; bounds the rows ever inserted
  Emails,    \* addresses that occur in the files
  DraftIds,  \* identifiers Gmail can hand out; bounds the drafts ever made
  Runs,      \* threads that can execute process_prospects_pipeline
  CsvFile,   \* the addresses of prospects.csv
  Files,     \* the files that can be uploaded to the dashboard
  Choices,   \* the statuses users set on the dashboard
  NULL,      \* SQL's NULL, and "no run"
  Unused     \* the state of a key not handed out yet

VALID_STATUSES == {"EN ATTENTE", "BROUILLON_CREE", "ENVOYE", "REPONDU", "QUALIFIE"}

Row == [email : Emails, statut : VALID_STATUSES, brouillon : DraftIds \cup {NULL}]

\* A run: the next step, the rows it took when it began, the prospects it has yet
\* to begin, the one in hand with its draft, and the counters.  Two fields are history
\* the code does not keep: "refused" counts what the report leaves out, "known" are the
\* drafts that were settled (see Settled) when the run took its rows.
Run == [at      : {"count", "import", "select", "next", "draft", "save"},
        seen    : [Ids -> Row \cup {NULL}],
        left    : SUBSET Ids,
        cur     : Ids \cup {NULL},
        draft   : DraftIds \cup {NULL},
        success : Nat,
        errors  : Nat,
        refused : Nat,
        known   : SUBSET DraftIds]

ASSUME IdsFinite      == IsFiniteSet(Ids)
ASSUME NullIsNoValue  == /\ NULL \notin Ids /\ NULL \notin Emails /\ NULL \notin DraftIds
                         /\ NULL \notin Row /\ NULL \notin Run
ASSUME UnusedIsNoRow  == Unused \notin Row /\ Unused # NULL
ASSUME ShownIsARow    == \A row \in [email : Emails, statut : VALID_STATUSES,
                                      brouillon : DraftIds \cup {NULL}, pitch : {NULL}] :
                           row # Unused /\ row # NULL
ASSUME ChoicesValid   == Choices \subseteq VALID_STATUSES
ASSUME FilesOfEmails  == CsvFile \subseteq Emails /\ \A f \in Files : f \subseteq Emails

VARIABLES
  table,  \* key -> row or Unused
  mail,   \* every draft ever made: id -> the address it is for, or NULL
  run,    \* thread -> run or NULL
  excused \* history, for the properties only: the drafts no run could save, and those
          \* whose prospect a user has set back to pending since

vars == <<table, mail, run, excused>>

TypeOK ==
  /\ table \in [Ids -> Row \cup {Unused}]
  /\ mail \in [DraftIds -> Emails \cup {NULL}]
  /\ run \in [Runs -> Run \cup {NULL}]
  /\ excused \subseteq DraftIds

Init ==
  /\ table = [i \in Ids |-> Unused]
  /\ mail = [d \in DraftIds |-> NULL]
  /\ run = [r \in Runs |-> NULL]
  /\ excused = {}

-----------------------------------------------------------------------------
(* Helpers. *)

Prospects == {i \in Ids : table[i] # Unused}

\* Mutant: the schema's default status is not one of the list.
NewRowUnlisted(e) == [email |-> e, statut |-> "NOUVEAU", brouillon |-> NULL]

NewRow(e) == [email |-> e, statut |-> "EN ATTENTE", brouillon |-> NULL]

Pending(i) == table[i] # Unused /\ table[i].statut = "EN ATTENTE"

\* Keys and draft ids are as good as one another: each store hands out one of those
\* it has not used yet.
NewDraft == CHOOSE d \in DraftIds : mail[d] = NULL

Keyed(S) == {new \in [Ids -> S \cup {NULL}] :
               /\ \A i \in Ids : new[i] # NULL => table[i] = Unused
               /\ \A e \in S : Cardinality({i \in Ids : new[i] = e}) = 1}

\* Mutant: the table has no UNIQUE constraint on the address.
InsertUnchecked(S) ==
  /\ Keyed(S) # {}
  /\ LET new == CHOOSE n \in Keyed(S) : TRUE IN
     table' = [i \in Ids |-> IF new[i] = NULL THEN table[i] ELSE NewRow(new[i])]

\* One transaction adds a row for every address of a file that has none yet; the
\* UNIQUE constraint refuses the others.  Bound: unused keys are left for them.
Insert(S) ==
  LET missing == S \ {table[i].email : i \in Prospects} IN
  /\ Keyed(missing) # {}
  /\ LET new == CHOOSE n \in Keyed(missing) : TRUE IN
     table' = [i \in Ids |-> IF new[i] = NULL THEN table[i] ELSE NewRow(new[i])]

At(r, step) == run[r] # NULL /\ run[r].at = step

Letters(e) == {d \in DraftIds : mail[d] = e}

\* The drafts some run has made and has yet to save.
InHands == {run[r].draft : r \in {q \in Runs : At(q, "save")}}

\* The drafts that have reached their row and that nobody asked to do again.
Settled == {d \in DraftIds : mail[d] # NULL} \ (excused \cup InHands)

-----------------------------------------------------------------------------
(* process_prospects_pipeline: the initial import and the snapshot. *)

Launch(r) ==
  /\ run[r] = NULL
  /\ run' = [run EXCEPT ![r] = [at |-> "count", seen |-> [i \in Ids |-> NULL], left |-> {},
                                cur |-> NULL, draft |-> NULL,
                                success |-> 0, errors |-> 0, refused |-> 0, known |-> {}]]
  /\ UNCHANGED <<table, mail, excused>>

\* The file may be missing; two runs may both find the table empty.
Count(r) ==
  /\ At(r, "count")
  /\ \E s \in IF Prospects = {} THEN {"import", "select"} ELSE {"select"} :
       run' = [run EXCEPT ![r].at = s]
  /\ UNCHANGED <<table, mail, excused>>

InitialImport(r) ==
  /\ At(r, "import")
  /\ Insert(CsvFile)
  /\ run' = [run EXCEPT ![r].at = "select"]
  /\ UNCHANGED <<mail, excused>>

\* All pending prospects are fetched at once.
Select(r) ==
  /\ At(r, "select")
  /\ run' = [run EXCEPT ![r].at = "next",
                        ![r].seen = [i \in Ids |-> IF Pending(i) THEN table[i] ELSE NULL],
                        ![r].left = {i \in Ids : Pending(i)}, ![r].known = Settled]
  /\ UNCHANGED <<table, mail, excused>>

-----------------------------------------------------------------------------
(* process_prospects_pipeline: one prospect after the other. *)

\* The LLM writes the pitch of the next prospect, in one of its three attempts.
PitchWritten(r) ==
  /\ At(r, "next")
  /\ \E i \in run[r].left :
       run' = [run EXCEPT ![r].at = "draft", ![r].cur = i, ![r].left = @ \ {i}]
  /\ UNCHANGED <<table, mail, excused>>

\* The three attempts failed.
PitchFailed(r) ==
  /\ At(r, "next")
  /\ \E i \in run[r].left : run' = [run EXCEPT ![r].left = @ \ {i}, ![r].errors = @ + 1]
  /\ UNCHANGED <<table, mail, excused>>

Address(r) == run[r].seen[run[r].cur].email

DraftMade(r) ==
  /\ At(r, "draft")
  /\ \E d \in DraftIds : mail[d] = NULL
  /\ mail' = [mail EXCEPT ![NewDraft] = Address(r)]
  /\ run' = [run EXCEPT ![r].at = "save", ![r].draft = NewDraft]
  /\ UNCHANGED <<table, excused>>

\* Gmail made the draft, its answer never came: create_gmail_draft returns None.
DraftAnswerLost(r) ==
  /\ At(r, "draft")
  /\ \E d \in DraftIds : mail[d] = NULL
  /\ mail' = [mail EXCEPT ![NewDraft] = Address(r)]
  /\ run' = [run EXCEPT ![r].at = "next", ![r].cur = NULL, ![r].refused = @ + 1]
  /\ excused' = excused \cup {NewDraft}
  /\ UNCHANGED table

DraftRefused(r) ==
  /\ At(r, "draft")
  /\ run' = [run EXCEPT ![r].at = "next", ![r].cur = NULL, ![r].refused = @ + 1]
  /\ UNCHANGED <<table, mail, excused>>

\* Mutant: the draft is saved with the row of another prospect of the run.
SaveAside(r) ==
  /\ At(r, "save")
  /\ \E i \in {k \in Ids : run[r].seen[k] # NULL} :
       table' = [table EXCEPT ![i] = [@ EXCEPT !.statut = "BROUILLON_CREE",
                                               !.brouillon = run[r].draft]]
  /\ run' = [run EXCEPT ![r].at = "next", ![r].cur = NULL, ![r].draft = NULL,
                        ![r].success = @ + 1]
  /\ UNCHANGED <<mail, excused>>

\* Mutant: the UPDATE of the status leaves the draft id out.
SaveForgetsDraft(r) ==
  /\ At(r, "save")
  /\ table' = [table EXCEPT ![run[r].cur].statut = "BROUILLON_CREE"]
  /\ run' = [run EXCEPT ![r].at = "next", ![r].cur = NULL, ![r].draft = NULL,
                        ![r].success = @ + 1]
  /\ UNCHANGED <<mail, excused>>

\* Mutant: the draft id is stored and the status stays as it is.
SaveKeepsStatus(r) ==
  /\ At(r, "save")
  /\ table' = [table EXCEPT ![run[r].cur].brouillon = run[r].draft]
  /\ run' = [run EXCEPT ![r].at = "next", ![r].cur = NULL, ![r].draft = NULL,
                        ![r].success = @ + 1]
  /\ UNCHANGED <<mail, excused>>

\* update_prospect_status names the row by its key and looks at nothing else.
Save(r) ==
  /\ At(r, "save")
  /\ table' = [table EXCEPT ![run[r].cur].statut = "BROUILLON_CREE",
                            ![run[r].cur].brouillon = run[r].draft]
  /\ run' = [run EXCEPT ![r].at = "next", ![r].cur = NULL, ![r].draft = NULL,
                        ![r].success = @ + 1]
  /\ UNCHANGED <<mail, excused>>

\* Mutant: the run works on until the table holds no pending prospect.
EndWhenNonePending(r) ==
  /\ At(r, "next")
  /\ run[r].left = {}
  /\ \A i \in Ids : ~Pending(i)
  /\ run' = [run EXCEPT ![r] = NULL]
  /\ UNCHANGED <<table, mail, excused>>

End(r) ==
  /\ At(r, "next")
  /\ run[r].left = {}
  /\ run' = [run EXCEPT ![r] = NULL]
  /\ UNCHANGED <<table, mail, excused>>

\* A crash, the credentials of Gmail, or a database locked for longer than the
\* client waits: the run ends wherever it is, with the draft it had in hand.
Stop(r) ==
  /\ run[r] # NULL
  /\ run' = [run EXCEPT ![r] = NULL]
  /\ excused' = excused \cup (IF At(r, "save") THEN {run[r].draft} ELSE {})
  /\ UNCHANGED <<table, mail>>

-----------------------------------------------------------------------------
(* The dashboard. *)

Import(f) == Insert(f) /\ UNCHANGED <<mail, run, excused>>

\* The user picks any prospect and any status; the status is compared with the one
\* on the screen, which is older than the row.
SetStatus(i, s) ==
  /\ i \in Prospects
  /\ table' = [table EXCEPT ![i].statut = s]
  /\ excused' = excused \cup (IF s = "EN ATTENTE" THEN Letters(table[i].email) \ InHands ELSE {})
  /\ UNCHANGED <<mail, run>>

-----------------------------------------------------------------------------

RunStep(r) ==
  \/ Count(r) \/ InitialImport(r) \/ Select(r)
  \/ PitchWritten(r) \/ PitchFailed(r)
  \/ DraftMade(r) \/ DraftAnswerLost(r) \/ DraftRefused(r)
  \/ Save(r) \/ End(r)

Dashboard ==
  \/ \E f \in Files : Import(f)
  \/ \E i \in Ids, s \in Choices : SetStatus(i, s)

Next ==
  \/ \E r \in Runs : Launch(r) \/ RunStep(r) \/ Stop(r)
  \/ Dashboard

Spec == Init /\ [][Next]_vars

\* The scheduler runs every thread, the LLM's attempts time out after 30 seconds
\* each, Gmail's client after 60, and a write waits 5 seconds for the lock.  Assumed:
\* a token that is valid or can be refreshed, as the browser login (gmail_auth.py:23)
\* waits for the user without a time-out.
FairSpec == Spec /\ \A r \in Runs : WF_vars(RunStep(r))

-----------------------------------------------------------------------------
(* Properties. *)

\* The prospects a run took and is done with.
Handled(r) == {i \in Ids : run[r].seen[i] # NULL} \ (run[r].left \cup {run[r].cur})

\* Whatever users and other runs do meanwhile, a run accounts for every prospect it
\* took: it was drafted, failed or refused, and a row that still is as it was when
\* the run took it is one of the failed or refused ones (agent.py:192-231).
ReportIsComplete ==
  \A r \in Runs : run[r] # NULL =>
    /\ run[r].success + run[r].errors + run[r].refused = Cardinality(Handled(r))
    /\ Cardinality({i \in Handled(r) : table[i] = run[r].seen[i]})
         <= run[r].errors + run[r].refused

\* A draft is settled from the moment a run saved it, until a user sets its prospect back
\* to pending.  Settled drafts stay on record whatever the other runs, the imports and
\* the other clicks do: their prospect is not pending, and its row refers to a draft of
\* its own (agent.py:215, crm_api.py:73).
DraftsAreOnRecord ==
  \A d \in Settled : \E i \in Prospects :
    /\ table[i].email = mail[d]
    /\ table[i].statut # "EN ATTENTE"
    /\ table[i].brouillon \in Letters(mail[d])

\* A run makes no draft for a prospect that had a settled one when the run took its rows.
\* So a second draft has one of three causes: the first was in the hand of another run at
\* that moment or made later, it never reached its row, or a user had set the prospect
\* back to pending (agent.py:182-216).
NoDraftOverASettledOne ==
  [][\A r \in Runs : At(r, "draft") /\ mail' # mail /\ run'[r] # run[r] =>
       Letters(Address(r)) \cap run[r].known = {}]_vars

\* A run comes to its end although users add pending prospects and set prospects
\* back to pending while it works, and although the LLM and Gmail may fail
\* (agent.py:192-223).
EveryRunEnds == \A r \in Runs : run[r] # NULL ~> run[r] = NULL

\* What ProspectLifecycle sees: the rows, without a pitch, and the drafts by address.
Shown == [i \in Ids |-> IF table[i] = Unused THEN Unused
                       ELSE [email |-> table[i].email, statut |-> table[i].statut,
                             brouillon |-> table[i].brouillon, pitch |-> NULL]]

Offered == [e \in Emails |-> Letters(e)]

\* The agent and the dashboard keep what ProspectLifecycle promises: a key is used
\* once, no two prospects share an address, and a row only refers to a draft made
\* for its own address.
Lifecycle == INSTANCE ProspectLifecycle WITH
  table <- Shown, offered <- Offered, Statuses <- VALID_STATUSES,
  Texts <- {}, ErrDraft <- NULL, Gone <- NULL

KeepsLifecycle == Lifecycle!Spec
=============================================================================
