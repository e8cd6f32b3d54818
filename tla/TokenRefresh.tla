---------------------------- MODULE TokenRefresh ----------------------------
(***************************************************************************)
(* How OmniRoute refreshes the OAuth tokens of a provider whose refresh    *)
(* tokens are good for one use (src/OmniRoute/open-sse/services/           *)
(* tokenRefresh.ts, refreshSerializer.ts, tokenRefresh/rotationMap.ts and  *)
(* casGuard.ts, with the callers that store the result).  The provider     *)
(* modelled is gitlab-duo: it meets every path.                            *)
(*                                                                         *)
(* Presenting a refresh token consumes it and returns its successor; a     *)
(* token presented twice makes the provider revoke the whole family, and   *)
(* the user has to log in again.  Five kinds of callers want a token:      *)
(*   precheck   the check before a request (checkAndRefreshToken)          *)
(*   request    the executor's own check (gitlab.ts)                       *)
(*   reactive   a request the upstream answered with 401 (chatCore.ts)     *)
(*   sweep      the health check of the connections                        *)
(*   test       the connection test of the dashboard                       *)
(* Callers of one connection share one refresh (the mutex); refreshes of a *)
(* rotation group take turns (the lane); the rotation map remembers for a  *)
(* minute what a token was exchanged for; and the row is read again before *)
(* a token is presented.                                                   *)
(*                                                                         *)
(* The run of JavaScript between two awaits is one step; reading a row and *)
(* writing it back right after is one step as well.  Access tokens are     *)
(* left out but for "fresh": the row's one is not about to expire.  The    *)
(* breaker that pauses a provider after five failed refreshes is left out: *)
(* it only keeps reactive callers from asking.                             *)
(***************************************************************************)
EXTENDS Naturals, Sequences, FiniteSets

CONSTANTS
  Connections,  \* the accounts of one rotation group
  Callers,      \* callers at work at once
  Of, Roles,    \* the connection a caller works for, and the kinds it can be of
  Bound,        \* of each account: bounds its logins and rotations together
  Attempts,     \* maxRetries of refreshWithRetry
  NULL,         \* no token, no caller, no refresh
  Dead          \* the answer "unrecoverable_refresh_error"

Kinds == {"precheck", "request", "reactive", "sweep", "test"}

\* The tokens of a login form a family; gen counts its rotations.
Token == [of : Connections, login : Nat \ {0}, gen : Nat \ {0}]

Family == [of : Connections, login : Nat \ {0}]

FamilyOf(t) == [of |-> t.of, login |-> t.login]

Successor(t) == [t EXCEPT !.gen = @ + 1]

Row == [rt : Token \cup {NULL}, fresh : BOOLEAN, active : BOOLEAN]

\* The refresh under way on a connection: who leads it, the token that one loaded
\* at first, the token presented, the answer, and who waits for it.
Flight == [by    : Callers,
           kind  : Kinds,
           at    : {"lane", "net", "settle"},
           want  : Token,
           sent  : Token,
           got   : Token \cup {NULL, Dead},
           waits : SUBSET Callers]

\* A caller: the token in its credentials object, the token it loaded at first,
\* whether its persist callback has run, and which attempt it is in.
Call == [kind  : Kinds,
         at    : {"loaded", "waiting", "writing", "dead"},
         tok   : Token,
         want  : Token,
         ran   : BOOLEAN,
         tries : 1..Attempts]

ASSUME CallersType  == Of \in [Callers -> Connections] /\ Roles \in [Callers -> SUBSET Kinds]
ASSUME BoundsType   == Bound \in [Connections -> Nat] /\ Attempts \in Nat \ {0}
ASSUME NullIsNone   == /\ NULL # Dead /\ NULL \notin Token /\ Dead \notin Token
                       /\ NULL \notin Flight /\ NULL \notin Call

VARIABLES
  row,     \* the connections in the database
  logins,  \* the logins of each account so far
  live,    \* the tokens the provider would accept
  memo,    \* the rotation map: the tokens whose successor is remembered
  lane,    \* the connections whose refreshes take turns, in order
  flight,  \* the per-connection mutex: the refresh under way or NULL
  call,    \* the callers at work
  spoilt   \* history: the families whose live token was mislaid

vars == <<row, logins, live, memo, lane, flight, call, spoilt>>

TypeOK ==
  /\ row \in [Connections -> Row]
  /\ logins \in [Connections -> Nat \ {0}]
  /\ live \subseteq Token
  /\ memo \subseteq Token
  /\ lane \in Seq(Connections)
  /\ flight \in [Connections -> Flight \cup {NULL}]
  /\ call \in [Callers -> Call \cup {NULL}]
  /\ spoilt \subseteq Family

FirstToken(k, n) == [of |-> k, login |-> n, gen |-> 1]

Init ==
  /\ row = [k \in Connections |-> [rt |-> FirstToken(k, 1), fresh |-> TRUE, active |-> TRUE]]
  /\ logins = [k \in Connections |-> 1]
  /\ live = {FirstToken(k, 1) : k \in Connections}
  /\ memo = {}
  /\ lane = <<>>
  /\ flight = [k \in Connections |-> NULL]
  /\ call = [c \in Callers |-> NULL]
  /\ spoilt = {}

-----------------------------------------------------------------------------
(* What a caller does with the result of a refresh. *)

\* A caller whose own persist callback has not run writes the row itself: sweep
\* and reactive by a fallback, the executor and the test always, on their way out.
AfterToken(c, u, ran) ==
  IF call[c].kind = "precheck" \/ (ran /\ call[c].kind \in {"sweep", "reactive"}) THEN NULL
  ELSE [call[c] EXCEPT !.at = "writing", !.tok = u]

\* Mutant: the last attempt is retried as well.
AfterNullOnceMore(c) ==
  IF call[c].kind = "reactive" /\ call[c].tries <= Attempts
  THEN [call[c] EXCEPT !.at = "loaded", !.tries = @ + 1]
  ELSE NULL

\* Only the reactive path retries, and only what failed for no known reason.
AfterNull(c) ==
  IF call[c].kind = "reactive" /\ call[c].tries < Attempts
  THEN [call[c] EXCEPT !.at = "loaded", !.tries = @ + 1]
  ELSE NULL

\* The others leave the row as it is.  Here tok is the refused token.
AfterDead(c, sent) ==
  IF call[c].kind \in {"reactive", "sweep"} THEN [call[c] EXCEPT !.at = "dead", !.tok = sent] ELSE NULL

\* Mutant: the check before a request passes no callback either.
PersistsLater(k, kind, want) ==
  /\ kind \notin {"request", "precheck"}
  /\ kind = "reactive" => row[k].rt \in {NULL, want}

\* Whether the leader's persist callback runs in the mutex: the executor passes
\* none, and the reactive one is guarded by compare-and-swap.
Persists(k, kind, want) ==
  /\ kind # "request"
  /\ kind = "reactive" => row[k].rt \in {NULL, want}

\* The row takes a new token.  History: an older one replaces the live one.
Store(k, u, activity) ==
  /\ \E a \in activity : row' = [row EXCEPT ![k] = [rt |-> u, fresh |-> IF @.rt = u THEN @.fresh ELSE TRUE,
                                                  active |-> a]]
  /\ spoilt' = IF u \in live \/ u = row[k].rt THEN spoilt ELSE spoilt \cup {FamilyOf(u)}

-----------------------------------------------------------------------------
(* A caller asks for a token: getAccessToken. *)

\* The caller reads the row and decides to refresh.  A caller's slot is taken
\* again only when the refresh it led is over.
Load(c) ==
  LET r == row[Of[c]] IN
  /\ call[c] = NULL
  /\ \A k \in Connections : flight[k] # NULL => flight[k].by # c
  /\ r.rt # NULL
  /\ \E kind \in Roles[c] :
       /\ kind # "reactive" => ~r.fresh
       /\ kind \in {"precheck", "request", "reactive"} => r.active
       /\ call' = [call EXCEPT ![c] = [kind |-> kind, at |-> "loaded", tok |-> r.rt, want |-> r.rt,
                                       ran |-> FALSE, tries |-> 1]]
  /\ UNCHANGED <<row, logins, live, memo, lane, flight, spoilt>>

Asking(c) == call[c] # NULL /\ call[c].at = "loaded"

\* Mutant: the mutex holds a flag where the promise to share should be.
JoinForNothing(c) ==
  /\ Asking(c)
  /\ flight[Of[c]] # NULL
  /\ call' = [call EXCEPT ![c].at = "waiting"]
  /\ UNCHANGED <<row, logins, live, memo, lane, flight, spoilt>>

\* A refresh of the connection is under way: its result will be shared.
Join(c) ==
  LET k == Of[c] IN
  /\ Asking(c)
  /\ flight[k] # NULL
  /\ flight' = [flight EXCEPT ![k].waits = @ \cup {c}]
  /\ call' = [call EXCEPT ![c].at = "waiting"]
  /\ UNCHANGED <<row, logins, live, memo, lane, spoilt>>

\* Mutant: the rotation map is not consulted.
Unremembered(t) == FALSE

\* The rotation map still knows what this token was exchanged for.
Remembered(t) == t \in memo

\* The token was exchanged a moment ago: the result of that time is returned.
Redirected(c) ==
  LET k == Of[c]
      u == Successor(call[c].tok)
      p == Persists(Of[c], call[c].kind, call[c].want) IN
  /\ Asking(c)
  /\ flight[k] = NULL
  /\ Remembered(call[c].tok)
  /\ IF p THEN Store(k, u, {row[k].active}) ELSE UNCHANGED <<row, spoilt>>
  /\ call' = [call EXCEPT ![c] = AfterToken(c, u, call[c].ran \/ p)]
  /\ UNCHANGED <<logins, live, memo, lane, flight>>

\* The row holds another token, which has more than a minute to live.
UseStored(c) ==
  LET k == Of[c]
      r == row[k] IN
  /\ Asking(c)
  /\ flight[k] = NULL
  /\ ~Remembered(call[c].tok)
  /\ r.rt \notin {NULL, call[c].tok}
  /\ call' = [call EXCEPT ![c] = AfterToken(c, r.rt, call[c].ran \/ Persists(Of[c], call[c].kind, call[c].want))]
  /\ UNCHANGED <<row, logins, live, memo, lane, flight, spoilt>>

\* Mutant: the row is not read again, the caller presents what it loaded.
PresentedAsLoaded(c) == call[c].tok

\* The token of the row, which is the newest, if there is one.
Presented(c) == IF row[Of[c]].rt = NULL THEN call[c].tok ELSE row[Of[c]].rt

\* The caller takes the mutex and queues in the lane of the group.  History: the
\* rotation map is asked about the caller's token, not about the row's, and a row
\* without a token does not keep the caller from presenting its own.
Lead(c) ==
  LET k == Of[c]
      t == Presented(c) IN
  /\ Asking(c)
  /\ flight[k] = NULL
  /\ ~Remembered(call[c].tok)
  /\ row[k].rt \in {NULL, call[c].tok} \/ ~row[k].fresh
  /\ flight' = [flight EXCEPT ![k] = [by |-> c, kind |-> call[c].kind, at |-> "lane",
                                      want |-> call[c].want, sent |-> t, got |-> NULL, waits |-> {c}]]
  /\ lane' = Append(lane, k)
  /\ call' = [call EXCEPT ![c].at = "waiting", ![c].tok = t]
  /\ spoilt' = IF Remembered(t) \/ row[k].rt = NULL THEN spoilt \cup {FamilyOf(t)} ELSE spoilt
  /\ UNCHANGED <<row, logins, live, memo>>

\* withTimeout: the attempt is given up, the refresh goes on without this caller.
GiveUp(c) ==
  LET k == Of[c] IN
  /\ call[c] # NULL
  /\ call[c].at = "waiting"
  /\ call[c].kind = "reactive"
  /\ flight[k] # NULL
  /\ flight' = [flight EXCEPT ![k].waits = @ \ {c}]
  /\ call' = [call EXCEPT ![c] = AfterNull(c)]
  /\ UNCHANGED <<row, logins, live, memo, lane, spoilt>>

-----------------------------------------------------------------------------
(* The refresh: serializeRefresh and the provider. *)

In(k, step) == flight[k] # NULL /\ flight[k].at = step

\* Mutant: the providers of the group have no lane.
SendAtOnce(k) ==
  /\ In(k, "lane")
  /\ flight' = [flight EXCEPT ![k].at = "net"]
  /\ UNCHANGED <<row, logins, live, memo, lane, call, spoilt>>

Send(k) ==
  /\ In(k, "lane")
  /\ Head(lane) = k
  /\ flight' = [flight EXCEPT ![k].at = "net"]
  /\ UNCHANGED <<row, logins, live, memo, lane, call, spoilt>>

Answered(k, u) == flight' = [flight EXCEPT ![k].at = "settle", ![k].got = u]

Rotate(t) ==
  /\ t \in live
  /\ t.login + t.gen <= Bound[t.of]
  /\ live' = (live \ {t}) \cup {Successor(t)}

Granted(k) ==
  /\ In(k, "net")
  /\ Rotate(flight[k].sent)
  /\ Answered(k, Successor(flight[k].sent))
  /\ UNCHANGED <<row, logins, memo, lane, call, spoilt>>

\* The provider exchanged the token, the answer never arrives.
AnswerLost(k) ==
  /\ In(k, "net")
  /\ Rotate(flight[k].sent)
  /\ Answered(k, NULL)
  /\ spoilt' = spoilt \cup {FamilyOf(flight[k].sent)}
  /\ UNCHANGED <<row, logins, memo, lane, call>>

Failed(k) ==
  /\ In(k, "net")
  /\ Answered(k, NULL)
  /\ UNCHANGED <<row, logins, live, memo, lane, call, spoilt>>

\* Reuse: the provider revokes the family.
Refused(k) ==
  LET t == flight[k].sent IN
  /\ In(k, "net")
  /\ t \notin live
  /\ live' = {u \in live : FamilyOf(u) # FamilyOf(t)}
  /\ Answered(k, Dead)
  /\ UNCHANGED <<row, logins, memo, lane, call, spoilt>>

\* The lane moves on, after a gap if a sibling waits; the rotation is remembered,
\* the leader's callback stores it in the mutex, then every caller has the result.
Finish(k) ==
  LET f == flight[k]
      u == f.got
      p == u \in Token /\ Persists(k, f.kind, f.want)
      ran(c) == call[c].ran \/ (p /\ c = f.by)
      after(c) == IF u = NULL THEN AfterNull(c)
                  ELSE IF u = Dead THEN AfterDead(c, f.sent)
                  ELSE AfterToken(c, u, ran(c)) IN
  /\ In(k, "settle")
  /\ memo' = IF u \in Token THEN memo \cup {f.sent} ELSE memo
  /\ IF p THEN Store(k, u, {row[k].active})
     ELSE /\ UNCHANGED row
          \* History: the guard skipped the row and nobody is left to write it.
          /\ spoilt' = IF u \in Token /\ f.kind = "reactive" /\ \A c \in f.waits : after(c) = NULL
                       THEN spoilt \cup {FamilyOf(u)} ELSE spoilt
  /\ call' = [c \in Callers |->
                IF c \in f.waits THEN after(c)
                ELSE IF c = f.by /\ p /\ call[c] # NULL /\ f.kind = "reactive"
                  \* The attempt was given up, the request is in a later one.
                  THEN [call[c] EXCEPT !.ran = TRUE, !.tok = u]
                ELSE call[c]]
  /\ lane' = Tail(lane)
  /\ flight' = [flight EXCEPT ![k] = NULL]
  /\ UNCHANGED <<logins, live>>

-----------------------------------------------------------------------------
(* The callers, after the mutex. *)

\* The fallback write, or the late one: nothing is compared.  A successful test
\* activates the connection.
Write(c) ==
  LET k == Of[c] IN
  /\ call[c] # NULL
  /\ call[c].at = "writing"
  /\ Store(k, call[c].tok,
           IF call[c].kind = "test" THEN {row[k].active, TRUE} ELSE {row[k].active})
  /\ call' = [call EXCEPT ![c] = NULL]
  /\ UNCHANGED <<logins, live, memo, lane, flight>>

\* Mutant: the row is not read again before the connection is deactivated.
RotatedSinceNever(c) == FALSE

\* wasRefreshTokenRotated, credentialsChangedSinceSweep: the row moved on.
RotatedSince(c) ==
  LET r == row[Of[c]] IN
  IF call[c].kind = "reactive" THEN r.rt \notin {NULL, call[c].want} ELSE r.rt # call[c].want \/ r.fresh

\* The token was refused for good: the request deactivates the connection, the
\* sweep drops the token and deactivates when its retries are used up.
Deactivate(c) ==
  LET k == Of[c] IN
  /\ call[c] # NULL
  /\ call[c].at = "dead"
  /\ IF RotatedSince(c) THEN UNCHANGED row
     ELSE IF call[c].kind = "reactive" THEN row' = [row EXCEPT ![k].active = FALSE]
     ELSE \E a \in {row[k].active, FALSE} :
            row' = [row EXCEPT ![k] = [rt |-> NULL, fresh |-> @.fresh, active |-> a]]
  /\ call' = [call EXCEPT ![c] = NULL]
  /\ UNCHANGED <<logins, live, memo, lane, flight, spoilt>>

-----------------------------------------------------------------------------
(* The world. *)

Writing(k) == \E c \in Callers : Of[c] = k /\ call[c] # NULL /\ call[c].at = "writing"

\* An access token outlives the minute of the rotation map.
Expire(k) ==
  /\ row[k].fresh
  /\ \A t \in memo : t.of # k
  /\ row' = [row EXCEPT ![k].fresh = FALSE]
  /\ UNCHANGED <<logins, live, memo, lane, flight, call, spoilt>>

\* The minute is over, for the oldest entry of the account first; the writes of the
\* callers follow within seconds.
Forget(t) ==
  /\ t \in memo
  /\ \A u \in memo : u.of = t.of => u.login > t.login \/ (u.login = t.login /\ u.gen >= t.gen)
  /\ ~Writing(t.of)
  /\ memo' = memo \ {t}
  /\ UNCHANGED <<row, logins, live, lane, flight, call, spoilt>>

\* The user authenticates again.
Login(k) ==
  LET t == FirstToken(k, logins[k] + 1) IN
  /\ logins[k] < Bound[k]
  /\ logins' = [logins EXCEPT ![k] = @ + 1]
  /\ live' = live \cup {t}
  /\ row' = [row EXCEPT ![k] = [rt |-> t, fresh |-> TRUE, active |-> TRUE]]
  /\ UNCHANGED <<memo, lane, flight, call, spoilt>>

\* What only memory holds is lost, the tokens not yet in the database with it.
Restart ==
  /\ spoilt' = spoilt
       \cup {FamilyOf(flight[k].got) : k \in {j \in Connections : flight[j] # NULL /\ flight[j].got \in Token}}
       \cup {FamilyOf(call[c].tok) : c \in {d \in Callers : call[d] # NULL /\ call[d].at = "writing"
                                                            /\ call[d].tok # row[Of[d]].rt}}
  /\ memo' = {}
  /\ lane' = <<>>
  /\ flight' = [k \in Connections |-> NULL]
  /\ call' = [c \in Callers |-> NULL]
  /\ UNCHANGED <<row, logins, live>>

-----------------------------------------------------------------------------

CallerStep(c) == Join(c) \/ Redirected(c) \/ UseStored(c) \/ Lead(c) \/ Write(c) \/ Deactivate(c)

RefreshStep(k) == Send(k) \/ Granted(k) \/ AnswerLost(k) \/ Failed(k) \/ Refused(k) \/ Finish(k)

Next ==
  \/ \E c \in Callers : Load(c) \/ CallerStep(c) \/ GiveUp(c)
  \/ \E k \in Connections : RefreshStep(k) \/ Expire(k) \/ Login(k)
  \/ \E t \in memo : Forget(t)
  \/ Restart

Spec == Init /\ [][Next]_vars

\* The event loop runs what is ready, and fetch ends at the latest with its default
\* time-out of the headers.
FairSpec ==
  /\ Spec
  /\ \A c \in Callers : WF_vars(CallerStep(c))
  /\ \A k \in Connections : WF_vars(RefreshStep(k))

-----------------------------------------------------------------------------
(* Properties. *)

\* Two accounts of a rotation group never present their tokens at the same time:
\* the provider would take it for a reuse (refreshSerializer.ts:70-101).
SiblingsTakeTurns ==
  \A j, k \in Connections : j # k =>
    ~(In(j, "net") \/ In(j, "settle")) \/ ~(In(k, "net") \/ In(k, "settle"))

\* A caller that waits is one of those whom the refresh of its connection will tell,
\* and the lane holds the refreshes under way and nothing else: nobody waits for a
\* refresh that is gone, and the lane never stands still on one
\* (tokenRefresh.ts:523-575, refreshSerializer.ts:76-101).
NobodyWaitsInVain ==
  /\ \A c \in Callers : call[c] # NULL /\ call[c].at = "waiting" =>
       flight[Of[c]] # NULL /\ c \in flight[Of[c]].waits
  /\ \A k \in Connections : flight[k] # NULL <=> \E i \in 1..Len(lane) : lane[i] = k

\* The tokens an account's memory and row hold that still work or will be stored.
InHand(k) ==
  {row[k].rt}
    \cup {flight[j].got : j \in {j \in {k} : flight[j] # NULL}}
    \cup {call[c].tok : c \in {d \in Callers : Of[d] = k /\ call[d] # NULL /\ call[d].at = "writing"}}

\* The live token of the family the row is in is never mislaid, whatever the order
\* of refreshes, late writes and time-outs, but for an answer lost on the way, a
\* restart before the write, a write of an older result over a newer one, and a
\* result the guard keeps from the row after a time-out (tokenRefresh.ts:523-727).
LiveTokenIsKept ==
  \A k \in Connections : \A t \in live :
    row[k].rt # NULL /\ FamilyOf(t) = FamilyOf(row[k].rt) /\ FamilyOf(t) \notin spoilt
      => t \in InHand(k)

\* Unless its family was spoilt in one of these ways, a token is never presented
\* after it was exchanged, however stale the credentials of the caller
\* (tokenRefresh.ts:626-727).
NoTokenPresentedTwice ==
  \A k \in Connections : In(k, "net") /\ flight[k].sent \notin live
                           => FamilyOf(flight[k].sent) \in spoilt

\* A refusal takes the token or the activity of a connection only if the token in
\* the row is dead, or if it is the one the caller had loaded and the refusal it
\* shared was for a token of another login (chatCore.ts:4087-4110,
\* tokenHealthCheck.ts:1068-1132).
LiveConnectionsStayActive ==
  [][\A c \in Callers :
       LET t == row[Of[c]].rt IN
       call[c] # NULL /\ call[c].at = "dead" /\ call'[c] = NULL /\ row'[Of[c]] # row[Of[c]] =>
         \/ t \notin live
         \/ t = call[c].want /\ FamilyOf(t) # FamilyOf(call[c].tok)]_vars

\* Every caller comes to an end, whatever the provider answers or leaves unanswered
\* and however many siblings queue in the lane.
CallersEnd == \A c \in Callers : call[c] # NULL ~> call[c] = NULL
=============================================================================
