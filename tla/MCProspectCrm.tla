--------------------------- MODULE MCProspectCrm ---------------------------
(* Values for the constants of ProspectCrm, for TLC. *)
EXTENDS ProspectCrm, TLC

CONSTANTS e1, e2

\* One new prospect; an address twice; an ill-formed line between two prospects.
MCFiles == {<<e1>>, <<e2, e2>>, <<e1, BadLine, e2>>}
MCFile  == {<<BadLine, e1>>}

\* "ARCHIVE" is not a valid status.
MCStatuses == {"ENVOYE", "ARCHIVE"}

Symmetric == Permutations(Ids) \cup Permutations(DraftIds) \cup Permutations(Handlers)
=============================================================================
