---------------------------- MODULE CircuitBreaker ----------------------------
(***************************************************************************)
(* The circuit breaker of one provider of OmniRoute                        *)
(* (src/OmniRoute/src/shared/utils/circuitBreaker.ts) with the calls that  *)
(* go through it and report their result to it: single-model chats         *)
(* (src/sse/handlers/chat.ts), combo targets                               *)
(* (open-sse/services/accountFallback.ts) and chats pinned to a            *)
(* connection, which do not ask the breaker but do report.                 *)
(*                                                                         *)
(* A call is two callbacks with the provider's answer between them, so     *)
(* results arrive late, in any order, in whatever state the breaker is     *)
(* then.  Each callback is one action.  The state is saved in SQLite and   *)
(* read again after a restart.                                             *)
(*                                                                         *)
(* Durations are left out: "cooled" says whether the cooldown since the    *)
(* last failure has passed, however the backoff computed it.  Thresholds   *)
(* per failure kind are configured nowhere and left out, as is the         *)
(* eviction of idle breakers from the registry.                            *)
(***************************************************************************)
EXTENDS Integers, FiniteSets

CONSTANTS
  Calls,                 \* concurrent requests to the provider
  FailureThreshold,      \* failures that open the breaker
  DegradationThreshold,  \* failures that degrade it
  HalfOpenRequests,      \* probes per recovery test
  MaxFailures            \* bound: failureCount saturates here

ASSUME ThresholdsType ==
  /\ FailureThreshold \in Nat /\ DegradationThreshold \in Nat /\ MaxFailures \in Nat
  /\ 0 < DegradationThreshold /\ DegradationThreshold < FailureThreshold
  /\ FailureThreshold <= MaxFailures
ASSUME HalfOpenRequestsType == HalfOpenRequests \in Nat \ {0}

States == {"CLOSED", "DEGRADED", "OPEN", "HALF_OPEN"}

\* "failed": lastFailureTime is not null; "allowed": halfOpenAllowed.
Breaker == [state : States, failures : 0..MaxFailures, failed : BOOLEAN,
            allowed : 0..HalfOpenRequests]

\* The row of domain_circuit_breakers.
Record == [state : States, failures : 0..MaxFailures, failed : BOOLEAN]

VARIABLES
  brk,     \* the breaker
  saved,   \* its row in the database
  cooled,  \* the cooldown since lastFailureTime has passed
  calls,   \* call -> how it goes through the breaker, "idle" when it is not under way
  thrown,  \* calls whose exception execute() has counted; their caller reports too
  probes,  \* history: calls under way that took a permit of HALF_OPEN
  spent,   \* history: permits taken since the breaker became HALF_OPEN
  tripped  \* history: opened, and since then neither cooled nor reset nor recovered

vars == <<brk, saved, cooled, calls, thrown, probes, spent, tripped>>

TypeOK ==
  /\ brk \in Breaker
  /\ saved \in Record
  /\ cooled \in BOOLEAN
  /\ calls \in [Calls -> {"idle", "chat", "combo", "forced"}]
  /\ thrown \subseteq Calls
  /\ probes \subseteq Calls
  /\ spent \in 0..HalfOpenRequests
  /\ tripped \in BOOLEAN

Fresh == [state |-> "CLOSED", failures |-> 0, failed |-> FALSE, allowed |-> 0]

\* What _persistToDb writes of breaker b.
Image(b) == [state |-> b.state, failures |-> b.failures, failed |-> b.failed]

Init ==
  /\ brk = Fresh
  /\ saved = Image(Fresh)
  /\ cooled = FALSE
  /\ calls = [r \in Calls |-> "idle"]
  /\ thrown = {}
  /\ probes = {}
  /\ spent = 0
  /\ tripped = FALSE

-----------------------------------------------------------------------------
(* The breaker's methods, as operators on its state. *)

Elapsed(b) == ~b.failed \/ cooled

\* Mutant: the permits of the recovery test before are not renewed.
RefreshedKeepingPermits(b) ==
  IF b.state = "OPEN" /\ Elapsed(b)
  THEN [state |-> "HALF_OPEN", failures |-> b.failures, failed |-> b.failed,
        allowed |-> b.allowed]
  ELSE b

\* _refreshOpenState: once the cooldown has passed, OPEN becomes HALF_OPEN.
Refreshed(b) ==
  IF b.state = "OPEN" /\ Elapsed(b)
  THEN [state |-> "HALF_OPEN", failures |-> b.failures, failed |-> b.failed,
        allowed |-> HalfOpenRequests]
  ELSE b

\* Mutant: only a half-open breaker without permits blocks.
CanExecuteUnlessSpent(b) == b.state # "HALF_OPEN" \/ b.allowed > 0

CanExecute(b) ==
  b.state \in {"CLOSED", "DEGRADED"} \/ (b.state = "HALF_OPEN" /\ b.allowed > 0)

\* _onSuccess: recovers an OPEN or HALF_OPEN breaker, else takes one failure back.
Succeeded(b) ==
  IF b.state \in {"OPEN", "HALF_OPEN"}
  THEN [state |-> "CLOSED", failures |-> 0, failed |-> b.failed /\ b.state = "HALF_OPEN",
        allowed |-> b.allowed]
  ELSE LET n == IF b.failures = 0 THEN 0 ELSE b.failures - 1 IN
       [state |-> IF n <= DegradationThreshold THEN "CLOSED" ELSE b.state,
        failures |-> n, failed |-> b.failed, allowed |-> b.allowed]

CountUp(n) == IF n < MaxFailures THEN n + 1 ELSE MaxFailures

\* Mutant: the breaker opens one failure late.
StateAfterLate(state, n) ==
  IF state \in {"OPEN", "HALF_OPEN"} \/ n > FailureThreshold THEN "OPEN"
  ELSE IF n >= DegradationThreshold THEN "DEGRADED" ELSE state

\* The state after the n-th failure.
StateAfter(state, n) ==
  IF state \in {"OPEN", "HALF_OPEN"} \/ n >= FailureThreshold THEN "OPEN"
  ELSE IF n >= DegradationThreshold THEN "DEGRADED" ELSE state

\* _onFailure
Failed(b) ==
  [state |-> StateAfter(b.state, CountUp(b.failures)), failures |-> CountUp(b.failures),
   failed |-> TRUE, allowed |-> b.allowed]

\* Mutant: a restart counts the permits from 0 to halfOpenRequests.
RestoredExtra(s) ==
  [state |-> s.state, failures |-> s.failures, failed |-> s.failed,
   allowed |-> IF s.state = "HALF_OPEN" THEN HalfOpenRequests + 1 ELSE 0]

\* _restoreFromDb on a new breaker.
Restored(s) ==
  [state |-> s.state, failures |-> s.failures, failed |-> s.failed,
   allowed |-> IF s.state = "HALF_OPEN" THEN HalfOpenRequests ELSE 0]

\* _persistToDb
Persists == saved' = Image(brk')

-----------------------------------------------------------------------------
(* The steps of breaker and calls. *)

\* The history of permits and openings over a step of the breaker.
Entered == brk'.state = "HALF_OPEN" /\ brk.state # "HALF_OPEN"

\* Mutant: the transition to HALF_OPEN is not saved.
PollForgetful ==
  /\ brk' = Refreshed(brk)
  /\ spent' = IF Entered THEN 0 ELSE spent
  /\ UNCHANGED <<saved, cooled, calls, thrown, probes, tripped>>

\* canExecute() and getStatus(), called by the gate of every chat, by the combos'
\* selection and by the health pages.
Poll ==
  /\ brk' = Refreshed(brk)
  /\ Persists
  /\ spent' = IF Entered THEN 0 ELSE spent
  /\ UNCHANGED <<cooled, calls, thrown, probes, tripped>>

\* execute() up to the call of fn: a permit is taken in HALF_OPEN.
Start(r, kind) ==
  /\ calls[r] = "idle"
  /\ CanExecute(Refreshed(brk))
  /\ LET b == Refreshed(brk) IN
     IF b.state = "HALF_OPEN"
     THEN /\ brk' = [state |-> b.state, failures |-> b.failures, failed |-> b.failed,
                     allowed |-> b.allowed - 1]
          /\ spent' = (IF Entered THEN 0 ELSE spent) + 1
          /\ probes' = probes \cup {r}
     ELSE brk' = b /\ UNCHANGED <<spent, probes>>
  /\ Persists
  /\ calls' = [calls EXCEPT ![r] = kind]
  /\ UNCHANGED <<cooled, thrown, tripped>>

\* A chat pinned to a connection passes by the breaker (hasForcedConnection).
StartForced(r) ==
  /\ calls[r] = "idle"
  /\ calls' = [calls EXCEPT ![r] = "forced"]
  /\ UNCHANGED <<brk, saved, cooled, thrown, probes, spent, tripped>>

\* The call is over for the breaker.
Ends(r) ==
  /\ calls' = [calls EXCEPT ![r] = "idle"]
  /\ thrown' = thrown \ {r}
  /\ probes' = probes \ {r}

\* Mutant: the method returns after _openCircuit, before the write.
CountsFailureUnsaved ==
  /\ brk' = Failed(brk)
  /\ saved' = IF brk'.state = "OPEN" THEN saved ELSE Image(brk')
  /\ cooled' = FALSE
  /\ tripped' = (brk'.state = "OPEN")
  /\ UNCHANGED spent

CountsFailure ==
  /\ brk' = Failed(brk)
  /\ Persists
  /\ cooled' = FALSE
  /\ tripped' = (brk'.state = "OPEN")
  /\ UNCHANGED spent

CountsSuccess ==
  /\ brk' = Succeeded(brk)
  /\ Persists
  /\ tripped' = FALSE
  /\ UNCHANGED <<cooled, spent>>

\* fn threw and isFailure agreed: execute() counts it.  The caller still reports.
Throws(r) ==
  /\ calls[r] \in {"chat", "combo"}
  /\ r \notin thrown
  /\ CountsFailure
  /\ thrown' = thrown \cup {r}
  /\ UNCHANGED <<calls, probes>>

\* chat.ts:1998 and 2445: the result is reported whatever the state is by now.
ChatSucceeds(r) ==
  /\ calls[r] \in {"chat", "forced"}
  /\ r \notin thrown
  /\ CountsSuccess
  /\ Ends(r)

ChatFails(r) ==
  /\ calls[r] \in {"chat", "forced"}
  /\ CountsFailure
  /\ Ends(r)

\* A result that says nothing about the provider: a 4xx, an aborted client, a local
\* error, a second failure of a connection within the deduplication window.
Ignored(r) ==
  /\ calls[r] # "idle"
  /\ Ends(r)
  /\ UNCHANGED <<brk, saved, cooled, spent, tripped>>

\* recordProviderSuccess: nothing while the breaker is OPEN.
ComboSucceeds(r) ==
  /\ calls[r] = "combo"
  /\ r \notin thrown
  /\ LET b == Refreshed(brk) IN
     IF b.state = "OPEN"
     THEN UNCHANGED <<brk, spent, tripped>>
     ELSE brk' = Succeeded(b) /\ tripped' = FALSE /\ UNCHANGED spent
  /\ Persists
  /\ Ends(r)
  /\ UNCHANGED cooled

\* recordProviderFailure: nothing unless the breaker would let a call through, so
\* nothing either for the probe that took the last permit.
ComboFails(r) ==
  /\ calls[r] = "combo"
  /\ LET b == Refreshed(brk) IN
     IF CanExecute(b)
     THEN /\ brk' = Failed(b)
          /\ cooled' = FALSE
          /\ tripped' = (brk'.state = "OPEN")
          /\ UNCHANGED spent
     ELSE /\ brk' = b
          /\ spent' = IF Entered THEN 0 ELSE spent
          /\ UNCHANGED <<cooled, tripped>>
  /\ Persists
  /\ Ends(r)

\* reset(): POST /api/resilience/reset
Reset ==
  /\ brk' = [state |-> "CLOSED", failures |-> 0, failed |-> FALSE, allowed |-> brk.allowed]
  /\ Persists
  /\ tripped' = FALSE
  /\ UNCHANGED <<cooled, calls, thrown, probes, spent>>

\* OmniRoute is stopped and started again: the calls are lost.
Restart ==
  /\ brk' = Restored(saved)
  /\ calls' = [r \in Calls |-> "idle"]
  /\ thrown' = {}
  /\ probes' = {}
  /\ spent' = 0
  /\ UNCHANGED <<saved, cooled, tripped>>

\* Time: the cooldown of the last failure passes.
CooldownPasses ==
  /\ brk.failed
  /\ ~cooled
  /\ cooled' = TRUE
  /\ tripped' = FALSE
  /\ UNCHANGED <<brk, saved, calls, thrown, probes, spent>>

Reports(r) ==
  ChatSucceeds(r) \/ ChatFails(r) \/ ComboSucceeds(r) \/ ComboFails(r) \/ Ignored(r)

Next ==
  \/ Poll
  \/ \E r \in Calls, kind \in {"chat", "combo"} : Start(r, kind)
  \/ \E r \in Calls : StartForced(r)
  \/ \E r \in Calls : Throws(r)
  \/ \E r \in Calls : ChatSucceeds(r)
  \/ \E r \in Calls : ChatFails(r)
  \/ \E r \in Calls : ComboSucceeds(r)
  \/ \E r \in Calls : ComboFails(r)
  \/ \E r \in Calls : Ignored(r)
  \/ Reset
  \/ Restart
  \/ CooldownPasses

Spec == Init /\ [][Next]_vars

\* Calls have time-outs and report, time passes, and every request for the provider
\* polls its breaker.
Fairness ==
  /\ \A r \in Calls : WF_vars(Reports(r))
  /\ WF_vars(CooldownPasses)
  /\ WF_vars(Poll)

FairSpec == Spec /\ Fairness

-----------------------------------------------------------------------------
(* Properties. *)

\* A restart forgets nothing but the permits: whatever late result, probe or poll
\* came last, the row in the database is the breaker (lines 311-329).
SavedIsCurrent == saved = Image(brk)

\* A breaker that lets everything through has fewer failures than open it, although
\* results of calls from earlier states keep counting up and down (lines 456-537).
ClosedBelowThreshold ==
  /\ brk.state \in {"CLOSED", "DEGRADED"} => brk.failures < FailureThreshold
  /\ brk.state = "CLOSED" => brk.failures <= DegradationThreshold

\* A recovery test lets no more calls through than halfOpenRequests, however polls,
\* starts and late results interleave with it (lines 357-367, 566-579).
ProbesAreLimited ==
  brk.state = "HALF_OPEN" => spent + brk.allowed = HalfOpenRequests

\* Once opened, the breaker lets no call through before its cooldown has passed since
\* the last failure, it was reset or a success came in; a restart does not help.
OpenBlocks ==
  [][\A r \in Calls, kind \in {"chat", "combo"} : Start(r, kind) => ~tripped]_vars

\* An open breaker comes to its recovery test, unless pinned chats go on reporting
\* failures: they do not ask the breaker and each restarts its cooldown (line 485).
OpenEnds ==
  brk.state = "OPEN" ~> \/ brk.state # "OPEN"
                        \/ \E r \in Calls : calls[r] = "forced"

\* Claim of circuitBreaker.ts:16 "HALF_OPEN - Probing: limited requests allowed to
\* test recovery": a half-open breaker still has a permit or a probe under way.
HalfOpenIsProbing ==
  brk.state = "HALF_OPEN" => brk.allowed > 0 \/ probes # {}
=============================================================================
