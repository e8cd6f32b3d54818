------------------------- MODULE ProspectLifecycle -------------------------
(***************************************************************************)
(* What the backend promises about a prospect, with no threads, no requests*)
(* in flight and no mailbox: a table whose rows change in single steps.    *)
(*                                                                         *)
(*   - a key is used once: a deleted prospect never comes back, and no late*)
(*     answer writes to another prospect than the one it was asked for;    *)
(*   - two prospects never share an address;                               *)
(*   - a prospect only ever refers to a draft made for its own address.    *)
(*                                                                         *)
(* ProspectCrm implements it: see Lifecycle there.                         *)
(***************************************************************************)
CONSTANTS Ids, Emails, DraftIds, Texts, Statuses, ErrDraft, NULL, Unused, Gone

VARIABLES
  table,    \* key -> row, Unused or Gone
  offered   \* address -> the drafts made for it

vars == <<table, offered>>

Fresh(e) == [email |-> e, statut |-> "EN ATTENTE", brouillon |-> NULL, pitch |-> NULL]

Init ==
  /\ table = [i \in Ids |-> Unused]
  /\ offered = [e \in Emails |-> {}]

Prospects == {i \in Ids : table[i] \notin {Unused, Gone}}

\* A draft is made for one address, once.
Offer ==
  /\ \E e \in Emails, d \in DraftIds :
       /\ \A f \in Emails : d \notin offered[f]
       /\ offered' = [offered EXCEPT ![e] = @ \cup {d}]
  /\ UNCHANGED table

\* Prospects appear together, each on an unused key with an address of its own.
Add ==
  /\ DOMAIN table' = Ids
  /\ \A i \in Ids : table'[i] # table[i] =>
       /\ table[i] = Unused
       /\ table'[i] \in {Fresh(e) : e \in Emails}
       /\ \A k \in Ids \ {i} : table'[k] \notin {Unused, Gone} => table'[k].email # table'[i].email
  /\ UNCHANGED offered

Change(i, row) ==
  /\ table' = [table EXCEPT ![i] = row]
  /\ UNCHANGED offered

\* A row may come to refer to these drafts, or keep the reference it has.
Own(i) == offered[table[i].email] \cup {table[i].brouillon}

SetStatus(i) == \E s \in Statuses, b \in Own(i) :
  Change(i, [table[i] EXCEPT !.statut = s, !.brouillon = b])

\* A generation always records a draft made for the address, or the marker.
Drafted(i) == \E b \in offered[table[i].email] \cup {ErrDraft}, t \in Texts \cup {NULL} :
  Change(i, [table[i] EXCEPT !.statut = "BROUILLON_CREE", !.brouillon = b, !.pitch = t])

Rewritten(i) == \E b \in Own(i) \cup {NULL, ErrDraft}, t \in Texts :
  Change(i, [table[i] EXCEPT !.brouillon = b, !.pitch = t])

Reset(i) == Change(i, [table[i] EXCEPT !.statut = "EN ATTENTE", !.brouillon = NULL,
                                       !.pitch = NULL])

Remove(i) ==
  /\ table' = [table EXCEPT ![i] = Gone]
  /\ UNCHANGED offered

Next ==
  \/ Offer
  \/ Add
  \/ \E i \in Prospects : SetStatus(i) \/ Drafted(i) \/ Rewritten(i) \/ Reset(i) \/ Remove(i)

Spec == Init /\ [][Next]_vars
=============================================================================
