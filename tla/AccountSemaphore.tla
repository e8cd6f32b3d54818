-------------------------- MODULE AccountSemaphore --------------------------
(***************************************************************************)
(* Hierarchical admission of OmniRoute                                     *)
(* (src/OmniRoute/open-sse/services/accountSemaphore.ts).  A chat request  *)
(* takes a slot of several gates at once (global, provider, account, see   *)
(* chatCore.ts:3124) or waits in the queue of all of them.                 *)
(*                                                                         *)
(* Node runs one callback at a time, so each exported function, timer and  *)
(* abort listener is one action, the drain at its end included.  Callers   *)
(* hold what they were given until they call the release function; a       *)
(* caller that is done or refused may come back.                           *)
(***************************************************************************)
EXTENDS Integers, Sequences, FiniteSets, SequencesExt

CONSTANTS
  Requests,  \* concurrent callers of acquireMany
  Keys,      \* gates, in the order in which acquireMany sorts their names
  Accounts,  \* the gates that a 429 can block
  Wants,     \* what a caller asks: its enabled keys, each with its limit
  MaxQueue,  \* maxQueueSize, 0 means unbounded
  NoGate     \* the gate of a key that has none

ASSUME KeysAreNumbers == Keys = 1..Cardinality(Keys) /\ Accounts \subseteq Keys
ASSUME WantsType ==
  /\ Requests \subseteq DOMAIN Wants
  /\ \A r \in Requests : /\ DOMAIN Wants[r] \in (SUBSET Keys) \ {{}}
                         /\ \A k \in DOMAIN Wants[r] : Wants[r][k] \in Nat \ {0}
ASSUME MaxQueueType == MaxQueue \in Nat

Needs(r) == DOMAIN Wants[r]

Gate == [running : Nat, max : Nat \ {0}, queue : Seq(Requests),
         blocked : BOOLEAN, timer : BOOLEAN]

ASSUME NoGateIsNone == NoGate \notin Gate

VARIABLES
  gates,    \* key -> gate: the map of line 57; "timer" is a pending cleanup
  waiting,  \* queuedRequests, in insertion order
  holders,  \* callers that have a release function not called yet
  strays,   \* keys with a cleanup timer of a gate that reset() dropped
  forgot,   \* history: keys whose gate was reset under a holder, until it is unheld
  slack     \* history: keys that got room without a drain since

vars == <<gates, waiting, holders, strays, forgot, slack>>

TypeOK ==
  /\ gates \in [Keys -> Gate \cup {NoGate}]
  /\ waiting \in Seq(Requests)
  /\ holders \subseteq Requests
  /\ strays \subseteq Keys
  /\ forgot \subseteq Keys
  /\ slack \subseteq Keys

Init ==
  /\ gates = [k \in Keys |-> NoGate]
  /\ waiting = <<>>
  /\ holders = {}
  /\ strays = {}
  /\ forgot = {}
  /\ slack = {}

HoldersOf(k, hs) == {r \in hs : k \in Needs(r)}

\* The keys of "reset" and those forgotten before that still have a holder.
Forgotten(reset, hs) == {k \in forgot \cup reset : HoldersOf(k, hs) # {}}

-----------------------------------------------------------------------------
(* Operators on a semaphore state s = [gates, waiting, holders]. *)

Now == [gates |-> gates, waiting |-> waiting, holders |-> holders]

Open(k) == gates[k] # NoGate

NewGate(limit) ==
  [running |-> 0, max |-> limit, queue |-> <<>>, blocked |-> FALSE, timer |-> FALSE]

\* Touched by a caller: the gate exists, has its limit and no cleanup timer.
Ensured(k, limit) ==
  IF Open(k) THEN [gates[k] EXCEPT !.max = limit, !.timer = FALSE] ELSE NewGate(limit)

Idle(g) == g.running = 0 /\ g.queue = <<>>

\* An idle gate gets a cleanup timer.
Scheduled(g) == IF Idle(g) THEN [g EXCEPT !.timer = TRUE] ELSE g

\* The part of q that is in rs; a recursive function, so that it can be proved about.
Only(q, rs) ==
  LET part[n \in 0..Len(q)] ==
        IF n = 0 THEN <<>>
        ELSE IF q[n] \in rs THEN Append(part[n - 1], q[n]) ELSE part[n - 1]
  IN  part[Len(q)]

Without(q, rs) == Only(q, Requests \ rs)

\* Mutant: a request leaves only the queue of its first gate.
RemovedFirstOnly(s, rs) ==
  [s EXCEPT
    !.waiting = Without(@, rs),
    !.gates = [k \in Keys |->
      IF s.gates[k] = NoGate \/ \A r \in rs : \E j \in Needs(r) : j < k
      THEN s.gates[k]
      ELSE Scheduled([s.gates[k] EXCEPT !.queue = Without(@, rs)])]]

\* removeRequest of each of rs: out of every queue.
Removed(s, rs) ==
  [s EXCEPT
    !.waiting = Without(@, rs),
    !.gates = [k \in Keys |->
      IF s.gates[k] = NoGate \/ \A r \in rs : k \notin Needs(r)
      THEN s.gates[k]
      ELSE Scheduled([s.gates[k] EXCEPT !.queue = Without(@, rs)])]]

\* Mutant: a waiter is admitted as soon as its gates have room.
CanAcquireAnywhere(s, r) ==
  \A k \in Needs(r) :
    LET g == s.gates[k] IN g # NoGate /\ ~g.blocked /\ g.running < g.max

CanAcquire(s, r) ==
  \A k \in Needs(r) :
    LET g == s.gates[k] IN
    /\ g # NoGate
    /\ ~g.blocked
    /\ g.running < g.max
    /\ g.queue # <<>>
    /\ Head(g.queue) = r

Counted(gs, r, n) ==
  [k \in Keys |-> IF k \in Needs(r) THEN [gs[k] EXCEPT !.running = @ + n] ELSE gs[k]]

\* A waiter leaves the queues and takes its slots.
Admitted(s, r) ==
  LET t == Removed(s, {r}) IN
  [t EXCEPT !.gates = Counted(@, r, 1), !.holders = @ \cup {r}]

\* One turn of the loop of drainQueues: the first waiter that fits is admitted.
DrainedOnce(s) ==
  LET able == {i \in DOMAIN s.waiting : CanAcquire(s, s.waiting[i])}
  IN  IF able = {} THEN s ELSE Admitted(s, s.waiting[Min(able)])

\* drainQueues: turns until nobody fits, of which there are at most Len(waiting).
Drained(s) ==
  LET turn[n \in 0..Len(s.waiting)] == IF n = 0 THEN s ELSE DrainedOnce(turn[n - 1])
  IN  turn[Len(s.waiting)]

\* The state after a callback that drains.
Becomes(state, reset) ==
  \E s \in {state} :
    /\ gates' = s.gates
    /\ waiting' = s.waiting
    /\ holders' = s.holders
    /\ forgot' = Forgotten(reset, s.holders)
    /\ slack' = {}

-----------------------------------------------------------------------------
(* acquireMany *)

Free(r) == r \notin holders /\ r \notin ToSet(waiting)

\* The keys of r whose queue is full; the loop of line 240 stops at the first.
FullKeys(r) ==
  {k \in Needs(r) : MaxQueue > 0 /\ Open(k) /\ Len(gates[k].queue) >= MaxQueue}

Touched(r) == {k \in Needs(r) : \A j \in FullKeys(r) : k <= j}

EnsuredFor(r) ==
  [k \in Keys |-> IF k \in Touched(r) THEN Ensured(k, Wants[r][k]) ELSE gates[k]]

\* Mutant: the limits are compared before the blocks.
FitsIgnoringBlocks(gs, r) ==
  \A k \in Needs(r) : gs[k].queue = <<>> /\ gs[k].running < gs[k].max

Fits(gs, r) ==
  \A k \in Needs(r) : gs[k].queue = <<>> /\ gs[k].running < gs[k].max /\ ~gs[k].blocked

\* SEMAPHORE_QUEUE_FULL.  The gates before the full one keep their new limit.
AcquireRefused(r) ==
  /\ Free(r)
  /\ FullKeys(r) # {}
  /\ gates' = EnsuredFor(r)
  /\ slack' = slack \cup {k \in Touched(r) : Open(k) /\ gates[k].max < Wants[r][k]}
  /\ UNCHANGED <<waiting, holders, strays, forgot>>

\* Room everywhere and nobody before: no queueing.
AcquireNow(r) ==
  /\ Free(r)
  /\ FullKeys(r) = {}
  /\ Fits(EnsuredFor(r), r)
  /\ gates' = Counted(EnsuredFor(r), r, 1)
  /\ holders' = holders \cup {r}
  /\ UNCHANGED <<waiting, strays, forgot, slack>>

\* Mutant: a waiter takes a slot of the gates that have room for it.
AcquireLaterReserving(r) ==
  /\ Free(r)
  /\ FullKeys(r) = {}
  /\ ~Fits(EnsuredFor(r), r)
  /\ Becomes(Drained([Now EXCEPT
       !.waiting = Append(@, r),
       !.gates = [k \in Keys |->
         IF k \in Needs(r)
         THEN [EnsuredFor(r)[k] EXCEPT !.queue = Append(@, r),
                                       !.running = IF @ < Wants[r][k] THEN @ + 1 ELSE @]
         ELSE gates[k]]]), {})
  /\ UNCHANGED strays

\* Wait in every queue.  The drain may admit those whose limit was just raised.
AcquireLater(r) ==
  /\ Free(r)
  /\ FullKeys(r) = {}
  /\ ~Fits(EnsuredFor(r), r)
  /\ Becomes(Drained([Now EXCEPT
       !.waiting = Append(@, r),
       !.gates = [k \in Keys |-> IF k \in Needs(r)
                                 THEN [EnsuredFor(r)[k] EXCEPT !.queue = Append(@, r)]
                                 ELSE gates[k]]]), {})
  /\ UNCHANGED strays

\* The wait timed out or the caller's signal was aborted.
GiveUp(r) ==
  /\ r \in ToSet(waiting)
  /\ Becomes(Drained(Removed(Now, {r})), {})
  /\ UNCHANGED strays

-----------------------------------------------------------------------------
(* The release function, and the gates' own operations. *)

\* Mutant: a gate that is down to no request is left out of the decrement.
ReleasedAboveOne(r) ==
  [k \in Keys |-> IF k \in Needs(r) /\ Open(k) /\ gates[k].running > 1
                  THEN [gates[k] EXCEPT !.running = @ - 1] ELSE gates[k]]

\* Mutant: the count is not checked before the decrement.
ReleasedUnchecked(r) ==
  [k \in Keys |-> IF k \in Needs(r) /\ Open(k)
                  THEN [gates[k] EXCEPT !.running = @ - 1] ELSE gates[k]]

\* A gate dropped by reset() meanwhile, or made since, may have no slot to return.
ReleasedGates(r) ==
  [k \in Keys |-> IF k \in Needs(r) /\ Open(k) /\ gates[k].running > 0
                  THEN [gates[k] EXCEPT !.running = @ - 1] ELSE gates[k]]

\* Mutant: the queues are drained before the slots are returned.
ReleaseDrainsFirst(r) ==
  /\ r \in holders
  /\ Becomes([Drained(Now) EXCEPT !.gates = ReleasedGates(r), !.holders = @ \ {r}], {})
  /\ UNCHANGED strays

Release(r) ==
  /\ r \in holders
  /\ LET s == Drained([Now EXCEPT !.gates = ReleasedGates(r), !.holders = @ \ {r}])
     IN  Becomes([s EXCEPT !.gates = [k \in Keys |->
                    IF k \in Needs(r) /\ s.gates[k] # NoGate
                    THEN Scheduled(s.gates[k]) ELSE s.gates[k]]], {})
  /\ UNCHANGED strays

\* The account answered 429 (chatCore.ts:4392); a new gate gets the limit 1.
MarkBlocked(k) ==
  /\ gates' = [gates EXCEPT ![k] =
       [Ensured(k, IF Open(k) THEN gates[k].max ELSE 1) EXCEPT !.blocked = TRUE]]
  /\ slack' = slack \ {k}
  /\ UNCHANGED <<waiting, holders, strays, forgot>>

\* blockedUntil passes.  Nothing runs at that moment.
BlockEnds(k) ==
  /\ Open(k)
  /\ gates[k].blocked
  /\ gates' = [gates EXCEPT ![k].blocked = FALSE]
  /\ slack' = slack \cup {k}
  /\ UNCHANGED <<waiting, holders, strays, forgot>>

\* cleanupGateIfIdle
CleanedUp(gs, k) ==
  IF gs[k] # NoGate /\ Idle(gs[k]) /\ ~gs[k].blocked THEN [gs EXCEPT ![k] = NoGate] ELSE gs

Unblock(k) ==
  /\ Open(k)
  /\ LET s == Drained([Now EXCEPT !.gates[k].blocked = FALSE])
     IN  Becomes([s EXCEPT !.gates = CleanedUp(@, k)], {})
  /\ UNCHANGED strays

\* The callback of a gate's cleanup timer.
CleanupFires(k) ==
  /\ Open(k)
  /\ gates[k].timer
  /\ gates' = CleanedUp([gates EXCEPT ![k].timer = FALSE], k)
  /\ UNCHANGED <<waiting, holders, strays, forgot, slack>>

\* The callback of the timer of a gate that reset() dropped acts on its key's new gate.
StrayFires(k) ==
  /\ k \in strays
  /\ gates' = CleanedUp(gates, k)
  /\ strays' = strays \ {k}
  /\ UNCHANGED <<waiting, holders, forgot, slack>>

\* reset(): the waiters of the gate are rejected, its holders are forgotten.
\* Removing the last waiter of an unheld gate starts a timer that outlives it.
Reset(k) ==
  /\ Open(k)
  /\ LET s == Removed(Now, ToSet(gates[k].queue))
     IN  Becomes(Drained([s EXCEPT !.gates[k] = NoGate]), {k})
  /\ strays' = IF gates[k].queue # <<>> /\ gates[k].running = 0
               THEN strays \cup {k} ELSE strays

\* resetAll() (admin route: POST action=reset-semaphores)
ResetAll ==
  /\ gates' = [k \in Keys |-> NoGate]
  /\ waiting' = <<>>
  /\ forgot' = Forgotten(Keys, holders)
  /\ slack' = {}
  /\ UNCHANGED <<holders, strays>>

Next ==
  \/ \E r \in Requests : AcquireRefused(r)
  \/ \E r \in Requests : AcquireNow(r)
  \/ \E r \in Requests : AcquireLater(r)
  \/ \E r \in Requests : GiveUp(r)
  \/ \E r \in Requests : Release(r)
  \/ \E k \in Accounts : MarkBlocked(k)
  \/ \E k \in Accounts : BlockEnds(k)
  \/ \E k \in Accounts : Unblock(k)
  \/ \E k \in Keys : CleanupFires(k)
  \/ \E k \in Keys : StrayFires(k)
  \/ \E k \in Keys : Reset(k)
  \/ ResetAll

Spec == Init /\ [][Next]_vars

\* Release(r) seen on "holders" alone: nothing else takes r out of it.
GivesBack(r) == r \in holders /\ \E hs \in SUBSET (Requests \ {r}) : holders' = hs

\* A caller that was admitted releases: chatCore.ts releases in its finally blocks
\* and its requests to the providers have time-outs.
FairSpec == Spec /\ \A r \in Requests : WF_holders(GivesBack(r))

-----------------------------------------------------------------------------
(* Properties. *)

\* The queue of a gate holds exactly the waiters that need it, in the order of the
\* global queue.  All queues then agree on who is first, so two waiters never each
\* head the queue the other one is behind in (lines 150-154, 296-297).
QueuesAgree ==
  \A k \in Keys :
    IF Open(k)
    THEN gates[k].queue = Only(waiting, HoldersOf(k, Requests))
    ELSE \A r \in ToSet(waiting) : k \notin Needs(r)

\* A gate counts the requests that hold it, through time-outs, aborts, resets and
\* late releases: no slot is ever lost, and none is given twice unless the gate was
\* reset under a holder (lines 176-179, 196, 259).
SlotsAreCounted ==
  \A k \in Keys :
    LET n == IF Open(k) THEN gates[k].running ELSE 0
        h == Cardinality(HoldersOf(k, holders))
    IN  n <= h /\ (k \notin forgot => n = h)

\* Whoever is admitted finds room in every gate it needs, and none of them blocked,
\* even when one drain admits several (lines 159-169, 253-258).
AdmitsWithRoom ==
  [][\A r \in holders' \ holders : \A k \in Needs(r) :
       /\ Open(k)'
       /\ ~gates'[k].blocked
       /\ k \notin forgot' => Cardinality(HoldersOf(k, holders')) <= gates'[k].max]_vars

\* "One FIFO reservation" (line 217): nobody is admitted before a waiter that came
\* earlier and needs one of its gates.
NobodyOvertakes ==
  [][\A r \in holders' \ holders : \A i \in DOMAIN waiting :
       /\ waiting[i] # r
       /\ Needs(waiting[i]) \cap Needs(r) # {}
       /\ \A j \in 1..i : waiting[j] # r
       => \A j \in DOMAIN waiting' : waiting'[j] # waiting[i]]_vars

\* No wake-up is lost: a waiter that could go has a gate that got room while no code
\* ran (a block that ran out) or from a caller that was itself refused.
NoLostWakeup ==
  \A r \in ToSet(waiting) : CanAcquire(Now, r) => Needs(r) \cap slack # {}

\* Callers that wait for several gates never wait for each other in a circle: each has
\* a gate with a holder, a block, room no drain has noticed, or a caller that came before
\* ("Waiting never increments any gate", lines 217-220).
NobodyWaitsInCircles ==
  \A i \in DOMAIN waiting : \E k \in Needs(waiting[i]) :
    \/ k \in slack
    \/ Open(k) /\ gates[k].blocked
    \/ HoldersOf(k, holders) # {}
    \/ \E j \in 1..i - 1 : k \in Needs(waiting[j])

\* Every waiter is served or rejected without counting on its time-out, as long as
\* no gate is blocked or has room that no drain has noticed.
WaitersAreServed ==
  \A r \in Requests :
    r \in ToSet(waiting) ~> \/ r \notin ToSet(waiting)
                            \/ \E k \in Keys : Open(k) /\ gates[k].blocked
                            \/ slack # {}
=============================================================================
