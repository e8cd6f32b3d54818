------------------------- MODULE RateLimitSemaphore -------------------------
(***************************************************************************)
(* The gate of one model in OmniRoute's round-robin combos                 *)
(* (src/OmniRoute/open-sse/services/rateLimitSemaphore.ts): callers take a *)
(* slot or queue for it, a caller whose provider answered 429 puts the     *)
(* model on cooldown (combo.ts:3865), then releases (combo.ts:3971).       *)
(* Gates of different models do not meet, so one is enough.                *)
(*                                                                         *)
(* A gate is an object in a map.  It is dropped when it is idle, and the   *)
(* timers of a dropped gate stay: they drain whatever gate the map holds.  *)
(* Node runs one callback at a time, so a callback is one action.          *)
(* resetAll() is for tests only and is left out.                           *)
(***************************************************************************)
EXTENDS Integers, Sequences, FiniteSets, SequencesExt

CONSTANTS
  Callers,     \* concurrent dispatches to the model
  Limits,      \* values the callers pass as maxConcurrency
  QueueDepth,  \* maxQueueSize
  DefaultMax,  \* getGate's default for maxConcurrency: 3
  MaxTimers,   \* bound: timers of cooldowns pending at once
  NoGate       \* the map has no gate

ASSUME LimitsType == Limits \subseteq Nat \ {0} /\ Limits # {} /\ DefaultMax \in Nat \ {0}
ASSUME BoundsType == QueueDepth \in Nat /\ MaxTimers \in Nat

\* "limited": rateLimitedUntil is not null; "timers": pending timers of line 193.
Gate == [running : Nat, max : Nat \ {0}, queue : Seq(Callers),
         limited : BOOLEAN, timers : Nat]

ASSUME NoGateIsNone == NoGate \notin Gate

VARIABLES
  gate,     \* the model's gate or NoGate
  waiters,  \* callers whose promise is pending
  holders,  \* callers that were given a slot and have not released it
  told,     \* the holders that called markRateLimited
  cooling,  \* the time is before the end of the cooldown marked last
  orphans   \* dropped gates with a cooldown timer that will still drain

vars == <<gate, waiters, holders, told, cooling, orphans>>

TypeOK ==
  /\ gate \in Gate \cup {NoGate}
  /\ waiters \subseteq Callers
  /\ holders \subseteq Callers \ waiters
  /\ told \subseteq holders
  /\ cooling \in BOOLEAN
  /\ orphans \in 0..MaxTimers

Init ==
  /\ gate = NoGate
  /\ waiters = {}
  /\ holders = {}
  /\ told = {}
  /\ cooling = FALSE
  /\ orphans = 0

-----------------------------------------------------------------------------

\* getGate: the gate, made if need be, with the limit the caller passes.
GateFor(limit) ==
  IF gate = NoGate
  THEN [running |-> 0, max |-> limit, queue |-> <<>>, limited |-> FALSE, timers |-> 0]
  ELSE [gate EXCEPT !.max = limit]

IsRateLimited(g) == g.limited /\ cooling

\* The look at the clock clears a cooldown that is over.
Looked(g) == [g EXCEPT !.limited = IsRateLimited(g)]

\* Mutant: a gate without running requests is dropped, queue or not.
IdleWhenNotRunning(g) == g.running = 0

\* Mutant: a gate with an empty queue is dropped under its running requests.
IdleWhenNotQueued(g) == g.queue = <<>>

Idle(g) == g.running = 0 /\ g.queue = <<>>

\* The gate becomes g, unless it is idle: then it leaves the map, and a cooldown
\* timer of it that has not fired joins the n orphans.
Keeps(g, n) ==
  /\ gate' = IF Idle(g) THEN NoGate ELSE g
  /\ orphans' = IF Idle(g) /\ g.limited THEN n + 1 ELSE n

\* Mutant: the free slots are not reduced by the running requests.
RoomAll(g) == IF IsRateLimited(g) THEN 0 ELSE Min({g.max, Len(g.queue)})

\* How many of the queue drainQueue admits.
Room(g) ==
  IF IsRateLimited(g) \/ g.running >= g.max THEN 0 ELSE Min({g.max - g.running, Len(g.queue)})

\* drainQueue on gate g, when hs are the holders and m the orphans: the head of the
\* queue is admitted.
Drains(g, hs, m) ==
  LET n == Room(g)
      seen == IF g.queue # <<>> /\ g.running < g.max THEN Looked(g) ELSE g
      admitted == ToSet(SubSeq(g.queue, 1, n))
  IN  /\ Keeps([seen EXCEPT !.running = @ + n, !.queue = SubSeq(@, n + 1, Len(@))], m)
      /\ holders' = hs \cup admitted
      /\ waiters' = waiters \ admitted

-----------------------------------------------------------------------------
(* acquire *)

Free(r) == r \notin waiters \cup holders

Fits(g) == g.running < g.max /\ ~IsRateLimited(g)

AcquireNow(r, limit) ==
  /\ Free(r)
  /\ Fits(GateFor(limit))
  /\ gate' = [Looked(GateFor(limit)) EXCEPT !.running = @ + 1]
  /\ holders' = holders \cup {r}
  /\ UNCHANGED <<waiters, told, cooling, orphans>>

\* SEMAPHORE_QUEUE_FULL; an idle gate is dropped (line 159).
AcquireRefused(r, limit) ==
  /\ Free(r)
  /\ ~Fits(GateFor(limit))
  /\ Len(GateFor(limit).queue) >= QueueDepth
  /\ Keeps(GateFor(limit), orphans)
  /\ UNCHANGED <<waiters, holders, told, cooling>>

AcquireLater(r, limit) ==
  /\ Free(r)
  /\ ~Fits(GateFor(limit))
  /\ Len(GateFor(limit).queue) < QueueDepth
  /\ gate' = [GateFor(limit) EXCEPT !.queue = Append(@, r)]
  /\ waiters' = waiters \cup {r}
  /\ UNCHANGED <<holders, told, cooling, orphans>>

\* The queue without the item of r, which is found by its timer; a caller has one.
Without(q, r) ==
  IF \E i \in DOMAIN q : q[i] = r THEN RemoveAt(q, CHOOSE i \in DOMAIN q : q[i] = r) ELSE q

\* The waiter's time-out: it leaves the queue; nobody is admitted.
Timeout(r) ==
  /\ r \in waiters
  /\ gate' = IF gate = NoGate THEN NoGate ELSE [gate EXCEPT !.queue = Without(@, r)]
  /\ waiters' = waiters \ {r}
  /\ UNCHANGED <<holders, told, cooling, orphans>>

\* Mutant: the release does not look at the queue.
ReleaseUndrained(r) ==
  /\ r \in holders
  /\ Keeps([gate EXCEPT !.running = @ - 1], orphans)
  /\ holders' = holders \ {r}
  /\ told' = told \ {r}
  /\ UNCHANGED <<waiters, cooling>>

\* The release function of a holder.
Release(r) ==
  /\ r \in holders
  /\ IF gate # NoGate /\ gate.running > 0
     THEN Drains([gate EXCEPT !.running = @ - 1], holders \ {r}, orphans)
     ELSE holders' = holders \ {r} /\ UNCHANGED <<gate, waiters, orphans>>
  /\ told' = told \ {r}
  /\ UNCHANGED cooling

-----------------------------------------------------------------------------
(* markRateLimited, and time. *)

\* Mutant: getGate is called with 0, meant as "no limit".
MarkWithoutLimit(r) ==
  /\ r \in holders \ told
  /\ GateFor(0).timers + orphans < MaxTimers
  /\ gate' = [GateFor(0) EXCEPT !.limited = TRUE, !.timers = @ + 1]
  /\ told' = told \cup {r}
  /\ cooling' = TRUE
  /\ UNCHANGED <<waiters, holders, orphans>>

\* A holder's provider answered 429 or another transient error: once per slot, the
\* retry loop of combo.ts ends with it.  getGate is called without a limit.
MarkRateLimited(r) ==
  /\ r \in holders \ told
  /\ GateFor(DefaultMax).timers + orphans < MaxTimers
  /\ gate' = [GateFor(DefaultMax) EXCEPT !.limited = TRUE, !.timers = @ + 1]
  /\ told' = told \cup {r}
  /\ cooling' = TRUE
  /\ UNCHANGED <<waiters, holders, orphans>>

\* The end of the cooldown passes; the timer comes 50 ms later.
CooldownEnds ==
  /\ cooling
  /\ cooling' = FALSE
  /\ UNCHANGED <<gate, waiters, holders, told, orphans>>

\* Mutant: the timer clears the cooldown and leaves the queue to the callers.
TimerFiresUndrained ==
  /\ gate # NoGate
  /\ gate.timers > 0
  /\ ~IsRateLimited(gate) \/ gate.timers > 1
  /\ gate' = [Looked(gate) EXCEPT !.timers = @ - 1]
  /\ UNCHANGED <<waiters, holders, told, cooling, orphans>>

\* A cooldown timer of the gate.  While the gate is limited, the timer of the last
\* mark is still to come, so only an earlier one can fire, without effect.
TimerFires ==
  /\ gate # NoGate
  /\ gate.timers > 0
  /\ ~IsRateLimited(gate) \/ gate.timers > 1
  /\ LET g == [gate EXCEPT !.timers = @ - 1]
     IN  IF g.limited /\ ~cooling
         THEN Drains(Looked(g), holders, orphans)
         ELSE gate' = g /\ UNCHANGED <<waiters, holders, orphans>>
  /\ UNCHANGED <<told, cooling>>

\* The cooldown timer of a dropped gate drains the gate the map holds now.
OrphanFires ==
  /\ orphans > 0
  /\ ~cooling \/ orphans > 1 \/ (gate # NoGate /\ gate.limited)
  /\ IF gate = NoGate
     THEN orphans' = orphans - 1 /\ UNCHANGED <<gate, waiters, holders>>
     ELSE Drains(gate, holders, orphans - 1)
  /\ UNCHANGED <<told, cooling>>

Next ==
  \/ \E r \in Callers, limit \in Limits : AcquireNow(r, limit)
  \/ \E r \in Callers, limit \in Limits : AcquireRefused(r, limit)
  \/ \E r \in Callers, limit \in Limits : AcquireLater(r, limit)
  \/ \E r \in Callers : Timeout(r)
  \/ \E r \in Callers : Release(r)
  \/ \E r \in Callers : MarkRateLimited(r)
  \/ CooldownEnds
  \/ TimerFires
  \/ OrphanFires

Spec == Init /\ [][Next]_vars

\* combo.ts releases in a finally block, and timers fire.
Fairness == (\A r \in Callers : WF_vars(Release(r))) /\ WF_vars(TimerFires)

FairSpec == Spec /\ Fairness

-----------------------------------------------------------------------------
(* Properties. *)

\* The gate in the map counts the slots that are out: dropping the gate and making
\* it anew never separates it from its holders (lines 99-101, 114-121, 159).
SlotsAreCounted ==
  Cardinality(holders) = IF gate = NoGate THEN 0 ELSE gate.running

\* A pending promise is in the queue of the gate in the map, and nothing else is: the
\* queue of a dropped gate would only end by time-outs (lines 118, 159, 167).
WaitersStayQueued ==
  /\ waiters = IF gate = NoGate THEN {} ELSE ToSet(gate.queue)
  /\ gate # NoGate => Len(gate.queue) = Cardinality(waiters)

\* A waiter is never left to its time-out: while somebody waits, a holder that will
\* release or a cooldown timer that will drain is outstanding.  The check of line 194
\* does nothing when a newcomer cleared the cooldown in the 50 ms before it; then
\* the newcomer's release has to admit the waiter.
NoStrandedWaiter ==
  waiters # {} => holders # {} \/ (gate.limited /\ gate.timers > 0)

\* A slot is given only below the limit of the moment and out of the gate's cooldown.
AdmitsWithRoom ==
  [][holders' \ holders # {} =>
       /\ Cardinality(holders') <= gate'.max
       /\ ~(gate'.limited /\ cooling)]_vars

\* Once the provider stops answering 429 and the callers agree on the limit, every
\* waiter is served or rejected without counting on its time-out.  (Each rise of the
\* limit and each end of a cooldown lets a newcomer go before the waiters, line 146.)
WaitersAreServed ==
  <>[]~cooling /\ <>[][gate # NoGate /\ gate' # NoGate => gate'.max = gate.max]_vars
    => \A r \in Callers : r \in waiters ~> r \notin waiters

\* Claim of rateLimitSemaphore.ts:4 and 133: never more requests run than the
\* maxConcurrency the callers pass.
AtMostMaxConcurrency == Cardinality(holders) <= Max(Limits)

\* Claim of rateLimitSemaphore.ts:182-183: "new acquisitions are blocked until the
\* cooldown expires".
CooldownBlocks == [][holders' \ holders # {} => ~cooling]_vars
=============================================================================
