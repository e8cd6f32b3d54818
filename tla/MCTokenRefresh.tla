--------------------------- MODULE MCTokenRefresh ---------------------------
(* Values for the constants of TokenRefresh, for TLC. *)
EXTENDS TokenRefresh

CONSTANTS k1, k2, c1, c2, c3

\* Two callers share an account, a request and a caller of another kind or a second
\* request; the third works for its sibling.
MCOf    == [c \in Callers |-> IF c = c3 THEN k2 ELSE k1]
MCRoles == [c \in Callers |-> IF c = c1 THEN {"reactive", "sweep", "test"}
                               ELSE IF c = c2 THEN {"precheck", "request", "reactive"}
                               ELSE {"precheck"}]

\* k1: two tokens of the first login and one of the second; k2: a single token.
MCBound == [k \in Connections |-> IF k = k1 THEN 2 ELSE 1]
=============================================================================
