------------------------ MODULE CircuitBreakerProofs ------------------------
(***************************************************************************)
(* What holds of the circuit breaker for any number of calls and any       *)
(* thresholds.  The inductive invariant is IInv: the properties the runs   *)
(* check, and what the history "tripped" means.                            *)
(***************************************************************************)
EXTENDS CircuitBreaker, TLAPS

\* The breaker is tripped only while it is OPEN inside its cooldown.
TrippedIsOpen == tripped => brk.state = "OPEN" /\ brk.failed /\ ~cooled

IInv ==
  /\ TypeOK
  /\ SavedIsCurrent
  /\ ClosedBelowThreshold
  /\ ProbesAreLimited
  /\ TrippedIsOpen

-----------------------------------------------------------------------------
(* The breaker's operators. *)

\* A breaker that ClosedBelowThreshold accepts.
Sound(b) ==
  /\ b.state \in {"CLOSED", "DEGRADED"} => b.failures < FailureThreshold
  /\ b.state = "CLOSED" => b.failures <= DegradationThreshold

\* Every breaker has its fields in their ranges.
LEMMA BreakerFields ==
  ASSUME NEW b \in Breaker
  PROVE  /\ b.state \in States
         /\ b.failures \in 0..MaxFailures
         /\ b.failed \in BOOLEAN
         /\ b.allowed \in 0..HalfOpenRequests
BY DEF Breaker

\* The row written of a breaker is a row.
LEMMA ImageType ==
  ASSUME NEW b \in Breaker
  PROVE  Image(b) \in Record
BY BreakerFields DEF Image, Record

\* The counter stays within its bound.
LEMMA CountUpType ==
  ASSUME NEW n \in 0..MaxFailures
  PROVE  /\ CountUp(n) \in 0..MaxFailures
         /\ n < FailureThreshold => CountUp(n) = n + 1
BY ThresholdsType DEF CountUp

\* _refreshOpenState changes the state only from OPEN to HALF_OPEN.
LEMMA RefreshedFacts ==
  ASSUME NEW b \in Breaker, Sound(b)
  PROVE  /\ Refreshed(b) \in Breaker
         /\ Sound(Refreshed(b))
         /\ Refreshed(b) # b =>
              /\ b.state = "OPEN"
              /\ Elapsed(b)
              /\ Refreshed(b).state = "HALF_OPEN"
              /\ Refreshed(b).allowed = HalfOpenRequests
         /\ Refreshed(b).state = "OPEN" => ~Elapsed(b)
<1>1. CASE b.state = "OPEN" /\ Elapsed(b)
  BY <1>1, BreakerFields, HalfOpenRequestsType DEF Refreshed, Breaker, States, Sound
<1>2. CASE ~(b.state = "OPEN" /\ Elapsed(b))
  <2>1. Refreshed(b) = b
    BY <1>2 DEF Refreshed
  <2> QED
    BY <1>2, <2>1
<1> QED
  BY <1>1, <1>2

\* A success leaves CLOSED, or a DEGRADED breaker.
LEMMA SucceededFacts ==
  ASSUME NEW b \in Breaker, Sound(b)
  PROVE  /\ Succeeded(b) \in Breaker
         /\ Sound(Succeeded(b))
         /\ Succeeded(b).state \notin {"OPEN", "HALF_OPEN"}
<1> USE BreakerFields, ThresholdsType DEF Sound
<1>1. CASE b.state \in {"OPEN", "HALF_OPEN"}
  BY <1>1 DEF Succeeded, Breaker, States
<1>2. CASE b.state \notin {"OPEN", "HALF_OPEN"}
  <2> DEFINE n == IF b.failures = 0 THEN 0 ELSE b.failures - 1
  <2>1. n \in 0..MaxFailures /\ n < FailureThreshold
    BY <1>2 DEF States
  <2> DEFINE s == IF n <= DegradationThreshold THEN "CLOSED" ELSE b.state
  <2>2. s \in States /\ s \notin {"OPEN", "HALF_OPEN"}
    BY <1>2 DEF States
  <2>3. s = "CLOSED" => n <= DegradationThreshold
    BY <1>2, <2>1
  <2>4. Succeeded(b) = [state |-> s, failures |-> n, failed |-> b.failed,
                        allowed |-> b.allowed]
    BY <1>2 DEF Succeeded
  <2> HIDE DEF n, s
  <2> QED
    BY <2>1, <2>2, <2>3, <2>4 DEF Breaker
<1> QED
  BY <1>1, <1>2

\* A failure never leads to HALF_OPEN, and opens at the threshold.
LEMMA FailedFacts ==
  ASSUME NEW b \in Breaker, Sound(b)
  PROVE  /\ Failed(b) \in Breaker
         /\ Sound(Failed(b))
         /\ Failed(b).state # "HALF_OPEN"
         /\ Failed(b).failed
<1> DEFINE n == CountUp(b.failures)
           s == StateAfter(b.state, n)
<1>1. n \in 0..MaxFailures
  BY BreakerFields, CountUpType
<1>2. s \in States /\ s # "HALF_OPEN"
  BY BreakerFields DEF StateAfter, States
<1>3. s \in {"CLOSED", "DEGRADED"} => n < FailureThreshold
  BY <1>1, ThresholdsType DEF StateAfter
<1>4. s = "CLOSED" => n <= DegradationThreshold
  BY <1>1, ThresholdsType DEF StateAfter
<1>5. Failed(b) = [state |-> s, failures |-> n, failed |-> TRUE, allowed |-> b.allowed]
  BY DEF Failed
<1> HIDE DEF n, s
<1> QED
  BY <1>1, <1>2, <1>3, <1>4, <1>5, BreakerFields DEF Breaker, Sound

-----------------------------------------------------------------------------
(* Init and the steps. *)

\* The three facts a step has to establish of the breaker.
Good(b) == b \in Breaker /\ Sound(b)

LEMMA InvGood ==
  ASSUME IInv
  PROVE  Good(brk)
BY DEF IInv, TypeOK, ClosedBelowThreshold, Good, Sound

\* What every step keeps of calls and history, whatever it does to the breaker.
LEMMA EndsType ==
  ASSUME IInv, NEW r \in Calls, Ends(r)
  PROVE  /\ calls' \in [Calls -> {"idle", "chat", "combo", "forced"}]
         /\ thrown' \subseteq Calls
         /\ probes' \subseteq Calls
BY DEF IInv, TypeOK, Ends

\* A step that saves a good breaker and keeps the history right keeps IInv.
LEMMA StepKeeps ==
  ASSUME Good(brk'), saved' = Image(brk'), cooled' \in BOOLEAN,
         calls' \in [Calls -> {"idle", "chat", "combo", "forced"}],
         thrown' \subseteq Calls, probes' \subseteq Calls,
         spent' \in 0..HalfOpenRequests, tripped' \in BOOLEAN,
         ProbesAreLimited', TrippedIsOpen'
  PROVE  IInv'
BY ImageType DEF IInv, TypeOK, SavedIsCurrent, ClosedBelowThreshold, Good, Sound

LEMMA InitIInv == Init => IInv
<1> SUFFICES ASSUME Init PROVE IInv
  OBVIOUS
<1>1. Fresh \in Breaker /\ Fresh.state = "CLOSED" /\ Fresh.failures = 0
  BY ThresholdsType, HalfOpenRequestsType DEF Fresh, Breaker, States
<1>2. TypeOK
  <2>1. Image(Fresh) \in Record
    BY <1>1, ImageType
  <2>2. spent \in 0..HalfOpenRequests
    BY HalfOpenRequestsType DEF Init
  <2>3. calls \in [Calls -> {"idle", "chat", "combo", "forced"}]
    BY DEF Init
  <2> QED
    BY <1>1, <2>1, <2>2, <2>3 DEF Init, TypeOK
<1>3. brk = Fresh /\ SavedIsCurrent
  BY DEF Init, SavedIsCurrent
<1>4. ClosedBelowThreshold /\ ProbesAreLimited
  BY <1>1, <1>3, ThresholdsType DEF ClosedBelowThreshold, ProbesAreLimited
<1>5. TrippedIsOpen
  BY DEF Init, TrippedIsOpen
<1> QED
  BY <1>2, <1>3, <1>4, <1>5 DEF IInv

\* A poll, on its own or at the start of a callback.
LEMMA PollHistory ==
  ASSUME IInv, brk' = Refreshed(brk), spent' = IF Entered THEN 0 ELSE spent,
         UNCHANGED <<cooled, tripped>>
  PROVE  /\ Good(brk')
         /\ spent' \in 0..HalfOpenRequests
         /\ tripped' \in BOOLEAN /\ cooled' \in BOOLEAN
         /\ ProbesAreLimited'
         /\ TrippedIsOpen'
<1>1. Good(brk)
  BY InvGood
<1>2. Good(brk')
  BY <1>1, RefreshedFacts DEF Good
<1>3. CASE brk' = brk
  BY <1>2, <1>3 DEF Entered, IInv, TypeOK, ProbesAreLimited, TrippedIsOpen
<1>4. CASE brk' # brk
  <2>1. brk.state = "OPEN" /\ Elapsed(brk) /\ brk'.state = "HALF_OPEN"
        /\ brk'.allowed = HalfOpenRequests
    BY <1>1, <1>4, RefreshedFacts DEF Good
  <2>2. Entered /\ spent' = 0
    BY <2>1 DEF Entered
  <2>3. ~tripped
    BY <2>1 DEF IInv, TrippedIsOpen, Elapsed, TypeOK, Breaker
  <2> QED
    BY <1>2, <2>1, <2>2, <2>3, HalfOpenRequestsType
    DEF IInv, TypeOK, ProbesAreLimited, TrippedIsOpen
<1> QED
  BY <1>3, <1>4

\* A failure counted by a callback.
LEMMA FailureHistory ==
  ASSUME IInv, NEW b, Good(b), brk' = Failed(b), cooled' = FALSE,
         tripped' = (brk'.state = "OPEN"), spent' = spent
  PROVE  /\ Good(brk')
         /\ spent' \in 0..HalfOpenRequests
         /\ tripped' \in BOOLEAN /\ cooled' \in BOOLEAN
         /\ ProbesAreLimited'
         /\ TrippedIsOpen'
<1>1. /\ brk' \in Breaker /\ Sound(brk')
      /\ brk'.state # "HALF_OPEN"
      /\ brk'.failed
  BY FailedFacts DEF Good
<1> QED
  BY <1>1 DEF IInv, TypeOK, Good, ProbesAreLimited, TrippedIsOpen

\* A success counted by a callback.
LEMMA SuccessHistory ==
  ASSUME IInv, NEW b, Good(b), brk' = Succeeded(b), tripped' = FALSE,
         UNCHANGED <<cooled, spent>>
  PROVE  /\ Good(brk')
         /\ spent' \in 0..HalfOpenRequests
         /\ tripped' \in BOOLEAN /\ cooled' \in BOOLEAN
         /\ ProbesAreLimited'
         /\ TrippedIsOpen'
<1>1. brk' \in Breaker /\ Sound(brk') /\ brk'.state \notin {"OPEN", "HALF_OPEN"}
  BY SucceededFacts DEF Good
<1> QED
  BY <1>1 DEF IInv, TypeOK, Good, ProbesAreLimited, TrippedIsOpen

\* execute() up to the call of fn.
LEMMA StartKeeps ==
  ASSUME IInv, NEW r \in Calls, NEW kind \in {"chat", "combo"}, Start(r, kind)
  PROVE  IInv'
<1> DEFINE b == Refreshed(brk)
<1>1. Good(brk) /\ Good(b)
  BY InvGood, RefreshedFacts DEF Good
<1>2. CanExecute(b)
  BY DEF Start
<1>3. b.state # "OPEN"
  BY <1>2 DEF CanExecute
<1>4. ~tripped
  <2>1. CASE b = brk
    BY <1>3, <2>1 DEF IInv, TrippedIsOpen
  <2>2. CASE b # brk
    BY <1>1, <2>2, RefreshedFacts DEF Good, IInv, TrippedIsOpen, Elapsed, TypeOK, Breaker
  <2> QED
    BY <2>1, <2>2
<1>5. saved' = Image(brk') /\ cooled' \in BOOLEAN /\ thrown' \subseteq Calls
      /\ calls' \in [Calls -> {"idle", "chat", "combo", "forced"}]
      /\ ~tripped' /\ tripped' \in BOOLEAN
  BY <1>4 DEF Start, Persists, IInv, TypeOK
<1>6. CASE b.state = "HALF_OPEN"
  <2>1. brk' = [state |-> b.state, failures |-> b.failures, failed |-> b.failed,
                allowed |-> b.allowed - 1]
    BY <1>6 DEF Start
  <2>2. b.allowed \in 1..HalfOpenRequests
    BY <1>1, <1>2, <1>6, BreakerFields, HalfOpenRequestsType DEF CanExecute, Good
  <2>3. brk' \in Breaker
    BY <1>1, <2>1, <2>2, BreakerFields, HalfOpenRequestsType DEF Breaker, Good
  <2>4. brk'.state = "HALF_OPEN" /\ brk'.allowed = b.allowed - 1
    BY <1>6, <2>1
  <2>5. Good(brk')
    BY <2>3, <2>4 DEF Good, Sound
  <2>6. spent' = (IF Entered THEN 0 ELSE spent) + 1 /\ probes' = probes \cup {r}
    BY <1>6 DEF Start
  <2>7. (IF Entered THEN 0 ELSE spent) + b.allowed = HalfOpenRequests
    <3>1. CASE Entered
      <4>1. b # brk
        BY <1>6, <3>1 DEF Entered
      <4>2. b.allowed = HalfOpenRequests
        BY <1>1, <4>1, RefreshedFacts DEF Good
      <4> QED
        BY <3>1, <4>2, HalfOpenRequestsType
    <3>2. CASE ~Entered
      <4>1. brk.state = "HALF_OPEN"
        BY <2>4, <3>2 DEF Entered
      <4>2. b = brk
        BY <4>1 DEF Refreshed
      <4> QED
        BY <3>2, <4>1, <4>2 DEF IInv, ProbesAreLimited
    <3> QED
      BY <3>1, <3>2
  <2>8. spent \in Nat
    BY HalfOpenRequestsType DEF IInv, TypeOK
  <2> DEFINE m == IF Entered THEN 0 ELSE spent
  <2>9. m \in Nat
    BY <2>8
  <2>10. spent' = m + 1 /\ m + b.allowed = HalfOpenRequests
    BY <2>6, <2>7
  <2> HIDE DEF m, b
  <2>11. spent' \in 0..HalfOpenRequests /\ spent' + (b.allowed - 1) = HalfOpenRequests
    BY <2>2, <2>9, <2>10, HalfOpenRequestsType
  <2>12. ProbesAreLimited' /\ TrippedIsOpen' /\ probes' \subseteq Calls
    BY <1>5, <2>4, <2>6, <2>11 DEF ProbesAreLimited, TrippedIsOpen, IInv, TypeOK
  <2> QED
    BY <1>5, <2>5, <2>11, <2>12, StepKeeps
<1>7. CASE b.state # "HALF_OPEN"
  <2>1. brk' = b /\ UNCHANGED <<spent, probes>>
    BY <1>7 DEF Start
  <2>2. Good(brk') /\ ProbesAreLimited' /\ TrippedIsOpen'
    BY <1>1, <1>5, <1>7, <2>1 DEF ProbesAreLimited, TrippedIsOpen
  <2>3. spent' \in 0..HalfOpenRequests /\ probes' \subseteq Calls
    BY <2>1 DEF IInv, TypeOK
  <2> QED
    BY <1>5, <2>2, <2>3, StepKeeps
<1> QED
  BY <1>6, <1>7

\* Every step keeps the inductive invariant.
LEMMA StepIInv ==
  ASSUME IInv, [Next]_vars
  PROVE  IInv'
<1> DEFINE Typed == /\ calls' \in [Calls -> {"idle", "chat", "combo", "forced"}]
                    /\ thrown' \subseteq Calls
                    /\ probes' \subseteq Calls
<1>0. Good(brk)
  BY InvGood
<1>1. CASE Poll
  <2>1. Typed /\ saved' = Image(brk')
    BY <1>1 DEF Poll, Persists, IInv, TypeOK
  <2>2. brk' = Refreshed(brk) /\ spent' = (IF Entered THEN 0 ELSE spent)
        /\ UNCHANGED <<cooled, tripped>>
    BY <1>1 DEF Poll
  <2> QED
    BY <2>1, <2>2, PollHistory, StepKeeps
<1>2. ASSUME NEW r \in Calls, NEW kind \in {"chat", "combo"}, Start(r, kind) PROVE IInv'
  BY <1>2, StartKeeps
<1>3. ASSUME NEW r \in Calls, StartForced(r) PROVE IInv'
  <2>1. Typed /\ UNCHANGED <<brk, saved, cooled, spent, tripped>>
    BY <1>3 DEF StartForced, IInv, TypeOK
  <2> QED
    BY <2>1 DEF IInv, TypeOK, SavedIsCurrent, Image, ClosedBelowThreshold, ProbesAreLimited,
                TrippedIsOpen
<1>4. ASSUME NEW r \in Calls, Throws(r) PROVE IInv'
  <2>1. Typed /\ saved' = Image(brk')
    BY <1>4 DEF Throws, CountsFailure, Persists, IInv, TypeOK
  <2>2. brk' = Failed(brk) /\ cooled' = FALSE /\ tripped' = (brk'.state = "OPEN")
        /\ spent' = spent
    BY <1>4 DEF Throws, CountsFailure
  <2> QED
    BY <1>0, <2>1, <2>2, FailureHistory, StepKeeps
<1>5. ASSUME NEW r \in Calls, ChatSucceeds(r) PROVE IInv'
  <2>1. Typed /\ saved' = Image(brk')
    BY <1>5, EndsType DEF ChatSucceeds, CountsSuccess, Persists
  <2>2. brk' = Succeeded(brk) /\ tripped' = FALSE /\ UNCHANGED <<cooled, spent>>
    BY <1>5 DEF ChatSucceeds, CountsSuccess
  <2> QED
    BY <1>0, <2>1, <2>2, SuccessHistory, StepKeeps
<1>6. ASSUME NEW r \in Calls, ChatFails(r) PROVE IInv'
  <2>1. Typed /\ saved' = Image(brk')
    BY <1>6, EndsType DEF ChatFails, CountsFailure, Persists
  <2>2. brk' = Failed(brk) /\ cooled' = FALSE /\ tripped' = (brk'.state = "OPEN")
        /\ spent' = spent
    BY <1>6 DEF ChatFails, CountsFailure
  <2> QED
    BY <1>0, <2>1, <2>2, FailureHistory, StepKeeps
<1>7. ASSUME NEW r \in Calls, ComboSucceeds(r) PROVE IInv'
  <2> DEFINE b == Refreshed(brk)
  <2>1. Typed /\ saved' = Image(brk') /\ UNCHANGED cooled
    BY <1>7, EndsType DEF ComboSucceeds, Persists
  <2>2. Good(b)
    BY <1>0, RefreshedFacts DEF Good
  <2>3. CASE b.state = "OPEN"
    <3>1. UNCHANGED <<brk, spent, tripped>>
      BY <1>7, <2>3 DEF ComboSucceeds
    <3> QED
      BY <2>1, <3>1, ImageType DEF IInv, TypeOK, SavedIsCurrent, ClosedBelowThreshold,
                        ProbesAreLimited, TrippedIsOpen
  <2>4. CASE b.state # "OPEN"
    <3>1. brk' = Succeeded(b) /\ tripped' = FALSE /\ UNCHANGED spent
      BY <1>7, <2>4 DEF ComboSucceeds
    <3> QED
      BY <2>1, <2>2, <3>1, SuccessHistory, StepKeeps
  <2> QED
    BY <2>3, <2>4
<1>8. ASSUME NEW r \in Calls, ComboFails(r) PROVE IInv'
  <2> DEFINE b == Refreshed(brk)
  <2>1. Typed /\ saved' = Image(brk')
    BY <1>8, EndsType DEF ComboFails, Persists
  <2>2. Good(b)
    BY <1>0, RefreshedFacts DEF Good
  <2>3. CASE CanExecute(b)
    <3>1. brk' = Failed(b) /\ cooled' = FALSE /\ tripped' = (brk'.state = "OPEN")
          /\ spent' = spent
      BY <1>8, <2>3 DEF ComboFails
    <3> QED
      BY <2>1, <2>2, <3>1, FailureHistory, StepKeeps
  <2>4. CASE ~CanExecute(b)
    <3>1. brk' = Refreshed(brk) /\ spent' = (IF Entered THEN 0 ELSE spent)
          /\ UNCHANGED <<cooled, tripped>>
      BY <1>8, <2>4 DEF ComboFails
    <3> QED
      BY <2>1, <3>1, PollHistory, StepKeeps
  <2> QED
    BY <2>3, <2>4
<1>9. ASSUME NEW r \in Calls, Ignored(r) PROVE IInv'
  <2>1. Typed /\ UNCHANGED <<brk, saved, cooled, spent, tripped>>
    BY <1>9, EndsType DEF Ignored
  <2> QED
    BY <2>1 DEF IInv, TypeOK, SavedIsCurrent, Image, ClosedBelowThreshold, ProbesAreLimited,
                TrippedIsOpen
<1>10. CASE Reset
  <2>1. Typed /\ saved' = Image(brk') /\ tripped' = FALSE /\ UNCHANGED <<cooled, spent>>
    BY <1>10 DEF Reset, Persists, IInv, TypeOK
  <2>2. brk' = [state |-> "CLOSED", failures |-> 0, failed |-> FALSE,
                allowed |-> brk.allowed]
    BY <1>10 DEF Reset
  <2>3. Good(brk') /\ brk'.state = "CLOSED"
    BY <1>0, <2>2, BreakerFields, ThresholdsType DEF Good, Sound, Breaker, States
  <2>4. ProbesAreLimited' /\ TrippedIsOpen'
    BY <2>1, <2>3 DEF ProbesAreLimited, TrippedIsOpen
  <2>5. spent' \in 0..HalfOpenRequests /\ cooled' \in BOOLEAN
    BY <2>1 DEF IInv, TypeOK
  <2> QED
    BY <2>1, <2>3, <2>4, <2>5, StepKeeps
<1>11. CASE Restart
  <2>1. Typed /\ spent' = 0 /\ UNCHANGED <<saved, cooled, tripped>>
    BY <1>11 DEF Restart, IInv, TypeOK
  <2>2. saved = Image(brk)
    BY DEF IInv, SavedIsCurrent
  <2>3. brk' = [state |-> brk.state, failures |-> brk.failures, failed |-> brk.failed,
                allowed |-> IF brk.state = "HALF_OPEN" THEN HalfOpenRequests ELSE 0]
    BY <1>11, <2>2 DEF Restart, Restored, Image
  <2>4. Good(brk')
    BY <1>0, <2>3, BreakerFields, HalfOpenRequestsType DEF Good, Sound, Breaker
  <2>5. saved' = Image(brk')
    BY <2>1, <2>2, <2>3 DEF Image
  <2>6. ProbesAreLimited'
    BY <2>1, <2>3, HalfOpenRequestsType DEF ProbesAreLimited
  <2>7. TrippedIsOpen'
    BY <2>1, <2>3 DEF TrippedIsOpen, IInv
  <2>8. spent' \in 0..HalfOpenRequests /\ cooled' \in BOOLEAN /\ tripped' \in BOOLEAN
    BY <2>1, HalfOpenRequestsType DEF IInv, TypeOK
  <2> QED
    BY <2>1, <2>4, <2>5, <2>6, <2>7, <2>8, StepKeeps
<1>12. CASE CooldownPasses
  BY <1>12 DEF CooldownPasses, IInv, TypeOK, SavedIsCurrent, Image, ClosedBelowThreshold,
               ProbesAreLimited, TrippedIsOpen
<1>13. CASE UNCHANGED vars
  BY <1>13 DEF vars, IInv, TypeOK, SavedIsCurrent, Image, ClosedBelowThreshold,
               ProbesAreLimited, TrippedIsOpen
<1> QED
  BY <1>1, <1>2, <1>3, <1>4, <1>5, <1>6, <1>7, <1>8, <1>9, <1>10, <1>11, <1>12, <1>13
  DEF Next

-----------------------------------------------------------------------------
(* The theorems. *)

\* The inductive invariant holds in every reachable state.
THEOREM Invariance == Spec => []IInv
<1>1. IInv /\ [Next]_vars => IInv'
  BY StepIInv
<1> QED
  BY <1>1, InitIInv, PTL DEF Spec

\* Every reachable state is well typed.
THEOREM TypeCorrect == Spec => []TypeOK
<1>1. IInv => TypeOK
  BY DEF IInv
<1> QED
  BY <1>1, Invariance, PTL

\* The database row is the breaker, so a restart forgets only the permits.
THEOREM RestartsForgetNothing == Spec => []SavedIsCurrent
<1>1. IInv => SavedIsCurrent
  BY DEF IInv
<1> QED
  BY <1>1, Invariance, PTL

\* A breaker that lets everything through is below the threshold.
THEOREM ClosedBreakersAreBelow == Spec => []ClosedBelowThreshold
<1>1. IInv => ClosedBelowThreshold
  BY DEF IInv
<1> QED
  BY <1>1, Invariance, PTL

\* A recovery test admits at most halfOpenRequests calls.
THEOREM ProbesStayLimited == Spec => []ProbesAreLimited
<1>1. IInv => ProbesAreLimited
  BY DEF IInv
<1> QED
  BY <1>1, Invariance, PTL

\* An opened breaker lets no call through inside its cooldown.
THEOREM OpenBreakersBlock == Spec => OpenBlocks
<1>1. ASSUME IInv, NEW r \in Calls, NEW kind \in {"chat", "combo"}, Start(r, kind)
      PROVE  ~tripped
  <2>1. Good(brk) /\ CanExecute(Refreshed(brk))
    BY <1>1, InvGood DEF Start
  <2>2. Refreshed(brk).state # "OPEN"
    BY <2>1 DEF CanExecute
  <2>3. CASE Refreshed(brk) = brk
    BY <1>1, <2>2, <2>3 DEF IInv, TrippedIsOpen
  <2>4. CASE Refreshed(brk) # brk
    BY <1>1, <2>1, <2>4, RefreshedFacts DEF Good, IInv, TrippedIsOpen, Elapsed, TypeOK, Breaker
  <2> QED
    BY <2>3, <2>4
<1>2. IInv => [\A r \in Calls, kind \in {"chat", "combo"} : Start(r, kind) => ~tripped]_vars
  BY <1>1
<1> QED
  BY <1>2, Invariance, PTL DEF OpenBlocks
=============================================================================
