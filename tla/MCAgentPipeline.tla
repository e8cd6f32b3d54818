-------------------------- MODULE MCAgentPipeline --------------------------
(* Values for the constants of AgentPipeline, for TLC. *)
EXTENDS AgentPipeline

CONSTANTS e1, e2

\* The initial file and the uploaded one share an address.
MCCsvFile == {e1}
MCFiles   == {{e1, e2}}

\* Back to pending, or on to the next stage by hand.
MCChoices == {"EN ATTENTE", "ENVOYE"}
=============================================================================
