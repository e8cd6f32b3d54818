# TLA+ verification of SilaLink CRM and of OmniRoute's concurrency control

SilaLink CRM is a small local application (a FastAPI backend with SQLite and
Gmail, a React console, launchers) that ships with a large LLM proxy, OmniRoute
(TypeScript), through which every pitch is generated. This directory holds TLA+
models of the parts whose correctness depends on interleavings, late results,
failures and restarts, TLC configurations that check them on small instances, and
TLAPS proofs for every value of the constants.

    tlc -workers 2 -config ProspectCrm.cfg MCProspectCrm      # any run, see the table
    tlapm ProspectCrmProofs.tla                               # a proof module

## 1. Inventory

| Component | State it keeps | Operations | Hard behaviour |
|---|---|---|---|
| **CRM backend** `src/src/main.py`, `gmail_service.py` | table `prospects` in SQLite, drafts in Gmail, `token.json` | import, change of status, generate, edit of the pitch, reset of the draft, delete | handlers run on a thread pool; a row is read, OmniRoute and Gmail are called for up to a minute, then the row is written; Gmail fails or its answer is lost; restart |
| **Agent batch pipeline** `src/src/agent.py`, `gmail_auth.py` | a table of its own, `prospects_test.db`; a snapshot of the pending prospects | import at start, LLM with three attempts, draft, status | a run over a stale snapshot beside the dashboard or a second run; stop between draft and status |
| **Streamlit dashboard** `src/src/app.py`, `crm_api.py` | the agent's table; the copy on screen | import, change of status, start of a batch run | acts on a stale copy |
| **React console** `silalink-frontend/src/App.tsx` | list, selected prospect, one id being generated | calls of the backend | answers applied out of order |
| **Hub and launchers** `hub_launcher.pyw`, `launcher.py`, `LauncherSource.cs` | child processes, ports | start the three services one after the other, stop all | a port chosen is not reserved; a service that starts late |
| **Account semaphore** `OmniRoute/open-sse/services/accountSemaphore.ts` | gates per key (running, limit, FIFO queue, block), a global queue | acquireMany, release, time-out, abort, markBlocked, reset | callers wait for several gates at once; timers of dropped gates; releases after a reset |
| **Model rate-limit semaphore** `rateLimitSemaphore.ts` | a gate per model (running, limit, queue, cooldown) | acquire, release, time-out, markRateLimited | gates are dropped and made anew; late timers; limit changed by every caller |
| **Provider circuit breaker** `src/shared/utils/circuitBreaker.ts`, `accountFallback.ts`, `chat.ts` | state, failures, permits; a row in SQLite; a registry | execute, canExecute, success, failure, reset, restore | results arrive late and in any order; probes; restart in any state; eviction |
| Request deduplication `requestDedup.ts` | promises in flight per hash | deduplicate | time-out and eviction while the call runs |
| **Token refresh** `open-sse/services/tokenRefresh.ts`, `refreshSerializer.ts`, `tokenRefresh/*.ts`, with `chatCore.ts`, `tokenHealthCheck.ts`, the executors and the connection test | a refresh per connection, a lane per rotation group, the rotation map; the connection's row | refresh, share, redirect, store, deactivate | refresh tokens good for one use; callers with stale credentials; time-outs that leave a refresh running; late writes; restart |
| Admission controller `admission/` | lanes, queues, virtual cost | admit, release, adapt | priorities, starvation |
| Rate-limit manager `rateLimitManager.ts` | Bottleneck limiters | schedule, learn from headers | behaviour of an external library |
| Combo routing `combo.ts`, connection cooldowns `accountFallback.ts` | cooldowns per connection and model | choose and try targets | clients of the semaphores and the breaker |
| Session pool, quota and spend accounting, lifecycle | see PROJECT.json | | left out for now |
| Translators, executors, dashboard, CLI, desktop | | | data conversion and user interface |

How they interact: the console and the launchers' users call the backend over
HTTP; the backend posts to OmniRoute's `/v1/chat/completions` with a time-out of 60
seconds and calls Gmail. The agent and the dashboard share a database of their own,
`prospects_test.db` in the working directory, which the backend never opens (main.py
keeps its database in the user's data directory): they meet each other, not the
backend. Inside OmniRoute a chat passes the account semaphore (a global gate, and
one gate per account) and the breaker of its provider; a round-robin combo
passes the semaphore of the model; each reports what the provider answered
(a 429 blocks gates and starts cooldowns, other failures count in the breaker). Before
a request, after a 401 and in periodic sweeps a connection's tokens are refreshed.

What makes each correct, in short:

- backend: a prospect refers only to drafts made for it, deletions are final, an
  import is complete, every request ends, and what an answer claims is true;
- agent and dashboard: no second draft for a prospect unless the first was lost, asked for
  again or being made by an overlapping run, and a report that adds up;
- semaphores: slots are counted exactly, no admission above a limit or during a
  block, nobody overtakes in a FIFO queue, no waiter is forgotten;
- breaker: opens at its threshold, blocks during the cooldown, limits its probes,
  survives restarts, and recovers;
- token refresh: a token is presented once, the successor reaches the row, two accounts
  of one OAuth client never refresh at the same moment, a late refusal does not take a
  healthy connection down, and every caller gets an end;
- deduplication: one call in flight per key, everybody who joined gets its result.

Component by component, with the reason for what is left out, the same list is in
`PROJECT.json` under "components"; "hazards" lists each place where the code can
go wrong in a way a test would hardly reach, with the properties that watch it.

## 2. Modules

| Module | Models | Extends / instance of |
|---|---|---|
| `ProspectCrm` | the backend with its table and the mailbox | |
| `ProspectLifecycle` | what the backend promises: the table alone, changed in single steps | implemented by ProspectCrm (`Lifecycle`, a refinement mapping) |
| `ProspectCrmProofs` | proofs about ProspectCrm | ProspectCrm, TLAPS |
| `ProspectLifecycleProofs` | proof that ProspectCrm implements ProspectLifecycle | ProspectCrmProofs |
| `AgentPipeline` | the batch runs and the dashboard with their table and the mailbox | implements ProspectLifecycle as well (`Lifecycle`) |
| `AgentPipelineProofs` | proofs about AgentPipeline, that refinement included | AgentPipeline, TLAPS |
| `TokenRefresh` | the refreshes of one rotation group, their callers and the provider | |
| `TokenRefreshProofs` | types, turns of the lane, who waits is told, late refusals | TokenRefresh, TLAPS |
| `TokenCustodyProofs` | where the live token is, and that none is presented twice | TokenRefreshProofs |
| `AccountSemaphore` | accountSemaphore.ts | |
| `AccountSemaphoreProofs` | induction, what a drain does, proofs about AccountSemaphore | AccountSemaphore, TLAPS |
| `RateLimitSemaphore` | rateLimitSemaphore.ts, one model's gate | |
| `RateLimitSemaphoreProofs` | proofs about RateLimitSemaphore | RateLimitSemaphore, TLAPS |
| `CircuitBreaker` | one provider's breaker and the calls that report to it | |
| `CircuitBreakerProofs` | proofs about CircuitBreaker | CircuitBreaker, TLAPS |
| `MC...` | the instances for TLC | the module of the same name |

Every definition that stands for code is in PROJECT.json "map" with its file and
lines. Definitions whose comment begins with "Mutant:" are not used by the
specifications; each is a plausible mistake in the definition that follows it, and
replacing that definition by it makes TLC report the property PROJECT.json names.

### ProspectCrm

`rows` is the table (a key is Unused, Gone, or has a row), `mail` every draft ever made,
`live` the drafts now in the mailbox, `req` the request each thread serves, with what
its handler holds in local variables, `job` the import.

- FastAPI runs a plain `def` handler on a thread of its pool. A handler that calls
  out is a chain of steps: the SELECT (`GenerateSelect`, `PitchSelect`, `ResetSelect`),
  `CallLlm`, `DropDraft`/`ServiceDown`, `CreateDraft`/`CreateFails`, and the final
  UPDATE (`Save`). A handler of one SQL statement is one step. Early returns (404,
  400) change nothing and are no steps.
- `import_prospects` is `async` and never awaits after reading the upload, so there is
  one import at a time. It holds SQLite's write lock from its first INSERT, the
  rejected duplicates included; other writers wait, or fail after five seconds
  (`SaveTimeout`).
- OmniRoute's answer is a text, the text of its error, or the off-line text: all of them
  become the pitch; the content can also be NULL. Gmail may refuse, or do what it was
  asked and lose the answer (both in `DropDraft` and `CreateFails`). `Restart` loses
  the requests and the open transaction. `UserTakesDraft` is the user in Gmail.
- PATCH .../status writes any `draft_id` it is sent. The clients send none, or one the
  API returned for that prospect: `DraftsFor` is that assumption, and it is needed for
  `DraftReachesItsProspect`.
- The table starts empty: `init_test_db` creates it and leaves an existing one alone.
  Left out: columns that only carry data (company, role, dates), the wording of pitches
  and the reads (`GET`).

`ProspectLifecycle` has one step per thing that may happen to a row. Its variables are
the table and, per address, the drafts made for it (`DraftsFor` as the mapping);
threads, requests and the mailbox are gone. `ImplementsLifecycle` says that every
interleaving of the handlers is such a history.

### AgentPipeline

`table` is the agent's table, `mail` every draft ever made, `run` the run each thread
executes: the step it is at, the rows it took (`seen`), those it has yet to begin
(`left`), the prospect and draft in hand, and its counters.

- `process_prospects_pipeline` reads the pending prospects once (`Select`) and then
  goes through them: `PitchWritten` or `PitchFailed` (three attempts), `DraftMade`,
  `DraftAnswerLost` or `DraftRefused`, `Save`, `End`. `Count` and `InitialImport` are the
  import into an empty table; two runs can both find it empty.
- Runs overlap: one per browser session of the dashboard, and the command line. `Stop` is a
  crash, missing credentials or a locked database, at any step.
- The dashboard adds files (`Import`) and sets any prospect to any status (`SetStatus`): the
  status it compares with is the one on the screen, older than the row, so the
  comparison excludes nothing.
- `refused` is no counter of the code: `create_gmail_draft` returns None and neither
  `success` nor `errors` counts it. It only says what the report leaves out.
- Two more pieces of history serve the properties about second drafts; no guard reads
  them. `excused` holds the drafts whose answer never came or whose run stopped before the
  save, and the saved ones whose prospect a user set back to pending; it is changed by the
  steps that cause this and by no others, whatever `Save` does. A draft that was made, is in no
  run's hand and is not excused is `Settled`. `known` is what was settled when a run took
  its rows.
- The LLM fallback texts, the files' columns, the letters and the reads are left out. A
  file is the set of addresses on its well-formed lines.

`DraftsAreOnRecord`: the prospect of a settled draft is not pending and its row refers to
a draft made for its address. `NoDraftOverASettledOne`: no run makes a draft for a
prospect that had a settled one when the run took its rows. What remains are the second
drafts the code does make: for a draft that another run had in hand at that moment or made
later, for a lost one, and after a user set the prospect back. That a save may overwrite
a status a user has set meanwhile is the code's behaviour too, and no property denies it.

`KeepsLifecycle` is ProspectLifecycle again, with this table and no pitches: the two
programs that store prospects keep the same promise about rows and drafts.

### TokenRefresh

Everything is about one rotation group: the connections whose refreshes share a lane.
The provider is gitlab-duo, which goes through every path. `row` is a connection in the
database (its refresh token, whether the access token is fresh, whether it is active), `live`
the tokens the provider would accept, `memo` the rotation map, `lane` the serializer's
queue, `flight` the per-connection mutex with the refresh under way, `call` the callers.
A token is (account, login, generation); presenting a live one makes its successor live
(`Rotate`), presenting a consumed one revokes the family (`Refused`).

- A caller loads credentials (`Load`) and asks. It then shares a refresh under way
  (`Join`), is given the remembered successor (`Redirected`), uses the row's token
  (`UseStored`) or leads a refresh (`Lead`), in the order of `getAccessToken`.
- A refresh waits for the head of the lane (`Send`), is answered, not answered, or answered
  with the answer lost (`Granted`, `Failed`, `AnswerLost`, `Refused`), and ends in `Finish`:
  the map remembers, the leader's callback stores the successor, everybody who waits gets
  the result.
- `Persists` says whether the leader's callback stores: the executor passes none, and the
  reactive one compares and swaps. `AfterToken`, `AfterNull`, `AfterDead` say what a caller
  of each kind does then; `Write` is the write some do later, which compares nothing.
- `GiveUp` is the time-out of an attempt: the refresh goes on without its caller.
  `Deactivate` is what a refusal does to the row, after reading it again.
- The world: `Expire`, `Forget` (the minute of the rotation map), `Login`, `Restart`.

`spoilt` is history: the families whose live token was mislaid. A family enters it in exactly
these ways, each at its place in the code: the provider's answer was lost; the process
stopped with a successor that was not yet in the row; an older result was written over a
newer one by a write that compares nothing; the guard kept a result from the row and nobody
was left to write it; a refresh was led with a token the rotation map could have
redirected (the map is asked about the caller's token, not about the row's), or with the
caller's own because the row had none. `LiveTokenIsKept` and `NoTokenPresentedTwice` say that
there is no other way: whatever else happens, in any order, the live token is kept and no
token is presented twice.

### AccountSemaphore

`gates` maps a key to a gate or NoGate, `waiting` is `queuedRequests` in its order of
insertion, `holders` the callers that hold their slots; `stray` timers belong to dropped
gates; `forgot` and `slack` are history for the properties. JavaScript runs a callback
to its end, so each operation with its trailing `drainQueues` is one action; `Drained` is
the loop as a recursive function of its turns, `Only` the queue without what was spliced out
of it. A caller's required gates and limits are the constant
`Wants`. A block ends by the clock (`BlockEnds`), which runs no code. Bound:
`MaxQueue`, as in the code.

### RateLimitSemaphore

One gate (`gate`, or NoGate while the map has none), the callers that hold and wait,
`cooling` for "the clock has not reached rateLimitedUntil", and the cooldown timers,
those whose gate was replaced included (`OrphanFires`). The 50 milliseconds between the
end of a cooldown and its timer are a state: `CooldownEnds` and `TimerFires` are separate.
Bounds: `QueueDepth` is the code's parameter, `MaxTimers` bounds the cooldown timers
outstanding. `reset()` is only called by tests and left out.

### CircuitBreaker

`brk` is the object, `saved` its row, `cooled` whether the cooldown since the last failure
has passed; `calls` says how each call goes through the breaker: "chat" (through
`execute`, reports by chat.ts), "combo" (reports by recordProviderSuccess/Failure) or
"forced" (pinned to a connection: does not ask, but reports). `thrown` are the calls
whose exception `execute` counted and whose caller reports again. `probes`, `spent` and
`tripped` are history. Durations, the backoff and the cooldown per failure kind are one
nondeterministic `CooldownPasses`. Thresholds per kind are configured nowhere in the
repository and left out; the thresholds are constants. A failed write of the row is
swallowed by the code and not modelled. Bound: `failureCount` saturates at
`MaxFailures`, above both thresholds, beyond which the code makes no distinction.

## 3. Runs

| Run | Instance | What it shows |
|---|---|---|
| `crm_safety` | two keys, two addresses, two drafts, two threads, three files | drafts stay with their prospect, deletions are final, imports are complete, only the own draft is removed, the table follows the lifecycle |
| `crm_liveness` | one draft, two threads, fair | every request and import ends |
| `crm_reset_claim` | one thread | DELETE .../draft answers "supprimé de Gmail" with the draft still there (violation) |
| `crm_pitch_claim` | one thread | PUT .../pitch reports success with the old text in the draft (violation) |
| `agent_pipeline` | two runs, two keys, two addresses, two drafts, fair | reports add up, saved drafts stay on record, a settled draft is not repeated, the table follows the lifecycle, every run ends |
| `token_refresh` | two accounts of a group, three callers of all kinds, two attempts, fair | turns in the lane, nobody waits for a refresh that is gone, the live token is kept, none is presented twice, refusals spare live connections, every caller ends |
| `account_semaphore` | a global gate and two accounts, four callers, a raised limit, queues of two | exact slots, admission with room, FIFO, no forgotten waiter, no circle of waiters |
| `rate_semaphore` | four callers, limits 1 and 2, queue of two, three timers | exact slots, no lost waiter, admission within the limit of the moment |
| `rate_limit_claim` | callers all pass 1 | after a 429 two requests run at once (violation) |
| `rate_cooldown_claim` | callers all pass 1 | the last release cancels the cooldown (violation) |
| `circuit_breaker` | three calls, opens at 3, degrades at 2, two probes | opens, blocks, limits probes, survives restarts, comes to its test |
| `breaker_probing_claim` | one probe | HALF_OPEN with no permit and nobody probing (violation) |

Why these bounds are enough to be interesting. CRM: two threads and two keys give every
pair of overlapping requests on the same and on different prospects; two drafts let an
old and a new one exist together; the files have a duplicate, an ill-formed line and two
new prospects, so an import overlaps every handler; keys are never used again, so
the two keys bound the rows ever made, and `ImportStart` starts an import only while
its lines fit. Account semaphore: callers that share the global gate but not the account,
two that share both, and one that needs the global gate alone, so each can block the
others in each order. Rate semaphore: one caller running, two waiting and one refused; a
gate can be dropped and remade while three timers are outstanding. Breaker: the calls
suffice to open it and still have late results to come; two probes exercise the count of
permits. Agent: two runs over the same or over different snapshots, an initial file
and an uploaded one that share an address, users that set a prospect back to pending or
beyond; keys and drafts bound the rows and letters ever made. Tokens: two callers of all
kinds on one account and one on its sibling, so a refresh is led, shared, given up,
retried and overtaken; `Bound` is the sum of logins and rotations of an account (two on the
first, which allows a rotation or a new login during a refresh, and one on the sibling).
The invariants of `token_refresh` were also explored with a bound of three; the proofs
cover every bound.

Deadlock is checked in every run but two: in `agent_pipeline` and `token_refresh` the
bounds may leave nothing to do, and what must not block is stated as liveness.

The five violations are findings in PROJECT.json with the lines that say otherwise.

Symmetry is used in `crm_safety` only (keys, drafts, threads); its properties are
invariants and step properties, for which it is sound.

### Fairness

- CRM: each thread and the event loop go on, and OmniRoute and Gmail answer or raise
  within the time-outs of `requests` and googleapiclient. This assumes a token that
  can be refreshed: without one `get_gmail_service` waits for a browser with no
  time-out (hazard at gmail_service.py:30).
- Account semaphore: a holder gives its slots back (`GivesBack`; callers release in
  `finally`). No time-out, abort or end of a block is assumed: `WaitersAreServed` says that
  waiters do not depend on their time-outs, except while a gate is blocked or has
  room no code has noticed, and the property names these.
- Rate semaphore: holders release, timers fire. `WaitersAreServed` has a premise: 429s
  stop, and the callers agree on the limit, because each change lets a newcomer in
  ahead of the queue (line 146).
- Agent: each run's thread goes on (`RunStep`): the LLM's attempts time out after 30
  seconds, Gmail's client after 60, a write waits 5 seconds for the lock. This assumes a
  token that is valid or can be refreshed: the browser login (gmail_auth.py:23) waits with
  no time-out. Nothing is assumed of the users.
- Tokens: the event loop runs what is ready (`CallerStep`), and fetch ends at the latest
  with its default time-out of the headers (`RefreshStep`). No time-out of an attempt,
  expiry, login or forgetting is assumed.
- Breaker: calls report (they have time-outs), time passes, and the breaker is polled by
  the requests for its provider. `OpenEnds` excludes pinned chats that are under
  way, which may prolong the cooldown for ever.

## 4. Proofs

All are for any number of threads, keys, drafts, runs, connections, callers and calls, and
any limits and thresholds. Assumed are only the named assumptions on the constants, which
TLC evaluates in the runs. Each inductive invariant was checked by TLC before it was proved.

**ProspectCrmProofs**: `TypeCorrect`, `DraftsReachTheirProspects`, `DraftsAreNotShared`,
`DeletedProspectsStayDeleted`, `OnlyOwnDraftsAreRemoved`, `ImportsAreComplete`.
`DraftReachesItsProspect` is not inductive: the UPDATE comes long after the SELECT that
read the address. The invariant adds what a request in flight knows
(`RequestsKnowTheirProspect`: its key was handed out, so it cannot be handed out again;
if its row exists it still has the address read; its draft was made for that address) and
that addresses are distinct, the rows of an open import included (`AddressesDistinct`). One
lemma per action shows that it is preserved. That drafts are not shared follows from it:
two rows with one draft would have one address. `ImportsAreComplete` needs one fact more
(`LinesArePlaced`): once a well-formed line was tried the import holds the write lock, and
its address is in the table or in the open transaction; the lock keeps out whatever could
delete or change a row before the commit.

**ProspectLifecycleProofs**: `BackendImplementsLifecycle`, the refinement. Every action is
one step of the table, one draft made, or a stutter. Which step a `Save` is depends on what
the request holds by then, so the invariant is extended with `RequestsAreShaped`: a
generation never ends without a draft or the error marker, an edit never without its text.

**CircuitBreakerProofs**: `TypeCorrect`, `RestartsForgetNothing`,
`ClosedBreakersAreBelow`, `ProbesStayLimited`, `OpenBreakersBlock`. The invariant
is the checked properties with `TrippedIsOpen` (tripped means OPEN, with a failure, inside
its cooldown). The argument goes through facts of the breaker's methods (`RefreshedFacts`,
`SucceededFacts`, `FailedFacts`), one lemma per action, and a common lemma (`StepKeeps`)
for a step that leaves a sound breaker and saves it. Permits: a poll that enters HALF_OPEN
renews them and starts the count anew, a start moves one from the permits to the count,
and a late success or failure leaves HALF_OPEN.

**AgentPipelineProofs**: `TypeCorrect`, `ReportsAreComplete`, `SettledDraftsStayOnRecord`,
`SettledDraftsAreNotRepeated`, `AgentImplementsLifecycle`. The report compares rows with a snapshot while other runs and
users rewrite them. Two facts carry it: what each run knows and has counted (`Sound`: the
rows it took are still there with their addresses, and as many of them as it counted
successes refer to a draft other than the one they had), and that a draft in the hand of a
run is in no row, no snapshot and no other hand (`InHand`), so that a row never gets
back the reference it had. Cardinalities are over sets of prospects that other runs may
change in the same step, hence the explicit witness (`Drafted`). For the settled drafts the
invariant is extended with `OnRecord`: addresses are distinct, every settled draft is
recorded in a row that is not pending, and what a run knew as settled is for none of the
prospects it took. A draft becomes settled by `Save` alone (`NoneSettles`); a row that is
saved again refers to another draft for the same address, so the earlier ones stay
recorded (`StaysRecorded`); and what `Select` takes is pending, so by distinct addresses no
settled draft is for it (`SelectRecords`).

**RateLimitSemaphoreProofs**: `TypeCorrect`, `SlotsStayCounted`, `WaitersKeepTheirGate`,
`NobodyIsStranded`, `AdmissionHasRoom`. The invariant is the checked properties with two
facts: the queue has no caller twice and is exactly the waiters, and a gate on cooldown has
a timer pending. The drain admits a prefix of the queue, so `QueueSplit` (how a
duplicate-free queue and its callers split) stands for an induction.

**TokenRefreshProofs**: `TypeCorrect`, `TurnsAreTaken`, `WaitersAreTold`,
`LiveConnectionsKept`. The invariant
`IInv` says that the lane holds the connections with a refresh under way, each once, and
only its head is on the network (`Turns`); that a refresh and its callers agree (`Shared`);
that no token is of a login to come (`Known`), so that a new login starts a new family; and
that a refused family has no live token (`Buried`), from which the property about late
refusals follows. `WaitersAreTold` adds the converse of `Shared` (`Told`): whoever waits is
in the list of its connection's refresh. With `Turns` it is the part of `CallersEnd` that
needs no fairness: what a waiter waits for exists, and the head of the lane can go on.

**TokenCustodyProofs**: `NeverPresentedTwice`, `LiveTokenKept`. Neither property is
inductive, and both follow from `Custody`: a family has one live token at most (`Single`);
unless its family was spoilt the row's token is live, or is remembered by the rotation map
while a caller is about to write the live one, or was just exchanged by the refresh under
way (`Traced`); and a refresh that has not been answered holds a live token, which is the
row's or of another family than the row's (`Honest`). `Forget` needs the middle case: an
entry leaves the map only when nobody writes for the account any more. `Finish` needs that
the executor, whose refresh stores nothing, still waits for it and will write.

**AccountSemaphoreProofs**: `TypeCorrect`, `QueuesStayInStep`, `SlotsStayCounted`,
`NoWakeupIsLost`, `WaitingHasACause`, `AdmissionHasRoom`, `QueueOrderIsKept`: every safety
property of the run.
The argument has four layers.

1. *Induction.* Nearly every callback ends in `drainQueues`, and both `Drained` and `Only`
   are recursive functions, so facts about them need induction. The library's induction
   theorems take an operator as a parameter, which the provers cannot instantiate; a set in
   the operator's place they can. `NatSetInduction` (a set of naturals with 0 and every
   successor is Nat) is proved with the pigeonhole theorem: `n + 1` would otherwise map the
   members up to a missing number one-to-one into one fewer. `LeastNat` and
   `SeqSetInduction` follow, and a property of all numbers or sequences is proved as a set
   that contains them all.
2. *Queues.* What `Only` keeps: members, order, absence of duplicates, the head, and that
   `Only(Only(q, A), B)` is `Only(q, A \cap B)`. So a queue of a gate is determined by the
   global queue, and removing a request keeps all of them in step (`RemovedFacts`).
3. *Drains.* `DrainedFrom(s, F, t)` is what every turn keeps, from the state s the callback
   left to the state t reached: t is `Consistent`; what waits is what is left of the queue, in
   its order; whoever left it holds; each of them found its gates open, unblocked and with a
   count within the limit; and nobody left earlier than a waiter before it with which it
   shares a gate. Each turn that changes the state shortens the queue, so as many turns as
   there are waiters end with nobody that fits (`DrainFacts`).
4. *Steps.* `IInv` is `Consistent` (types, queues in step, slots counted, nobody both waits
   and holds, nobody waits twice, finitely many holders) with `NoLostWakeup`. There is a
   common lemma each for a callback that drains (`DrainStep`), one that does not
   (`QuietStep`) and a cleanup (`TidyStep`), and one lemma per action.

`NoLostWakeup` is inductive only with the queues in step: a step without a drain (a
block, its end, a refusal that raised limits) may make a waiter fit only by a key that it
adds to `slack`, and to see that, the gates that the waiter needs have to be those in whose
queues it is. The counts have to be exact only for gates that were not reset under a
holder, hence the `forgot` in `Counts`. `NobodyWaitsInCircles` follows from `IInv` without
being part of it: a full gate has a holder because no count is above the number of
holders, and the head of a queue came before those behind it because all queues keep the
order of the one global queue.

Only model-checked: liveness (`EveryRequestEnds`, both `WaitersAreServed`, `OpenEnds`,
`EveryRunEnds`, `CallersEnd`), which is out of the prover's reach as is everything with
ENABLED. The safety properties of the passing runs are all proved.

## 5. Not modelled, and what could come next

Done: the backend with its abstract specification and the refinement; the agent and the
dashboard with the same abstract specification; both semaphores; the breaker; the token
refresh of a rotation group. What is left, in the order of its worth:

1. The breakers' registry: eviction and the sweep beside calls that hold the object
   (circuitBreaker.ts:611-667), which would make `brk` one of several objects that write the
   same row (hazard at circuitBreaker.ts:630).
2. `requestDedup.ts`: one call in flight per hash, time-out and eviction of entries.
3. The rest of the token refresh: the cache for callers without a connection id, the manual
   refresh route, the breaker that pauses a provider after five failures, the writers of
   auth files, and the providers whose tokens do not rotate.
4. The admission controller, if its priorities and virtual cost can be kept small.

Hazards no property covers, with the reason in PROJECT.json: the late UPDATE of a generation
over a newer status (the code means it to win), the draft a second generation leaves behind,
the rewriting of `token.json` in place, the dashboard's click that goes to another
prospect, the console's answers out of order, and the evicted breaker. For several others the
properties allow the outcome the code does produce and show that nothing else leads to it or
follows from it; their notes say so.

Not planned: the rate-limit manager (the behaviour is Bottleneck's), combo routing and
cooldowns (clients of what is modelled; their choice is data), translators and executors
(conversion of data), the session pool, quota and spend accounting, the scraper, the hub and
launchers (processes and ports of the operating system), user interfaces and packaging.
