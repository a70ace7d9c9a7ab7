------------------------------ MODULE LiveFeed ------------------------------
(***************************************************************************)
(* terminal/feed: the live market-data service.  feed.go's Start and Close *)
(* and live.go's run loop own the session with the exchange: dial, poll,   *)
(* reconnect with a growing pause, swap the session, end.  A news poller   *)
(* runs beside each session.  Callers of Candles share one request of a    *)
(* series through flights and a cache; one series is modelled.             *)
(*                                                                         *)
(* A session is a number and a series is known by the number of candles it *)
(* was fetched with.  How long the pauses are, the status line, and the    *)
(* caches of quotes, books and trades, of which every write stands alone   *)
(* under one lock, are left out; the offline mode keeps no state.          *)
(***************************************************************************)
EXTENDS Naturals, FiniteSets

CONSTANTS Caller,      \* goroutines that ask for candles
          Want,        \* the number of candles each asks for
          MaxSessions  \* bound on the sessions dialled

ASSUME WantAssumption == Want \in [Caller -> Nat \ {0}]
ASSUME SessionAssumption == MaxSessions \in Nat \ {0}

VARIABLES loop,      \* where Start, then its run loop, is
          client,    \* Service.client, 0 for nil
          dialled,   \* sessions dialled so far
          open,      \* sessions not closed
          old,       \* the session a swap has to close
          cancelled, \* the context of the service is done
          pollers,   \* sessions whose newsLoop runs
          kinds,     \* candleKinds is loaded
          closing    \* how far Close is

VARIABLES caller, \* what each caller does
          using,  \* the session it read, or the count its flight brought
          answer, \* the count it was served with, 0 for an error
          flight, \* Service.flights has a flight of the series
          cached  \* count of the cached series, 0 when none is fresh

sessionVars == <<loop, client, dialled, open, old, cancelled, pollers, kinds, closing>>
candleVars == <<caller, using, answer, flight, cached>>
feedVars == <<sessionVars, candleVars>>

Session == 1..MaxSessions
LoopState == {"new", "dial", "stored", "subscribe", "run", "failed", "pause", "redial", "swap",
              "refresh", "refused", "ended"}
CallerState == {"idle", "again", "join", "wait", "woken", "fetch", "land", "done"}

FeedTypeOK ==
  /\ loop \in LoopState
  /\ client \in 0..MaxSessions /\ old \in 0..MaxSessions /\ dialled \in 0..MaxSessions
  /\ open \subseteq Session /\ pollers \subseteq Session
  /\ {cancelled, kinds} \subseteq BOOLEAN
  /\ closing \in {"no", "waiting", "closed"}
  /\ caller \in [Caller -> CallerState]
  /\ answer \in [Caller -> Nat]
  /\ flight \in BOOLEAN /\ cached \in Nat

FeedInit ==
  /\ loop = "new" /\ client = 0 /\ dialled = 0 /\ open = {} /\ old = 0
  /\ cancelled = FALSE /\ pollers = {} /\ kinds = FALSE
  /\ closing = "no"
  /\ caller = [c \in Caller |-> "idle"]
  /\ using = [c \in Caller |-> 0]
  /\ answer = [c \in Caller |-> 0]
  /\ flight = FALSE /\ cached = 0

-----------------------------------------------------------------------------
(* Start *)

\* Start of the one caller the terminal has: the dial is made without the lock.
Start ==
  /\ loop = "new" /\ closing = "no"
  /\ loop' = "dial"
  /\ UNCHANGED <<client, dialled, open, old, cancelled, pollers, kinds, closing, candleVars>>

Dialled == dialled' = dialled + 1 /\ open' = open \cup {dialled + 1}

StartDials ==
  /\ loop = "dial"
  /\ \/ /\ dialled < MaxSessions
        /\ Dialled
        /\ client' = dialled + 1
        /\ loop' = "stored"
     \/ loop' = "refused" /\ UNCHANGED <<client, dialled, open>>
  /\ UNCHANGED <<old, cancelled, pollers, kinds, closing, candleVars>>

\* applyCatalog and refreshServerTime before the loop; the dictionaries of a
\* session may lack the candle kinds, and then the last known ones stay.
StartReady ==
  /\ loop = "stored"
  /\ kinds' \in {kinds, TRUE}
  /\ loop' = "subscribe"
  /\ UNCHANGED <<client, dialled, open, old, cancelled, pollers, closing, candleVars>>

-----------------------------------------------------------------------------
(* runLoop *)

\* The loop's head, or a wait in it, sees that the context is done.
LoopEnds ==
  /\ cancelled
  /\ loop \in {"subscribe", "failed", "pause"}
  /\ loop' = "ended"
  /\ UNCHANGED <<client, dialled, open, old, cancelled, pollers, kinds, closing, candleVars>>

\* runOnce: the universe is subscribed and the news polled beside it.
SubscribeAll ==
  /\ loop = "subscribe"
  /\ \/ /\ loop' = "run"
              /\ pollers' = pollers \cup {client}
     \/ loop' = "failed" /\ UNCHANGED pollers
  /\ UNCHANGED <<client, dialled, open, old, cancelled, kinds, closing, candleVars>>

\* Client.Run returns: the session failed, or the context is done.
RunEnds ==
  /\ loop = "run"
  /\ loop' = "failed"
  /\ UNCHANGED <<client, dialled, open, old, cancelled, pollers, kinds, closing, candleVars>>

\* The failure is told; the pause depends on how long the session lasted.
SessionOver ==
  /\ loop = "failed" /\ ~cancelled
  /\ loop' = "pause"
  /\ UNCHANGED <<client, dialled, open, old, cancelled, pollers, kinds, closing, candleVars>>

\* The pause passes; the next one is longer, up to a limit.
PauseOver ==
  /\ loop = "pause"
  /\ loop' = "redial"
  /\ UNCHANGED <<client, dialled, open, old, cancelled, pollers, kinds, closing, candleVars>>

\* dialWithTimeout: the new session is current before the old one is closed.
Redial ==
  /\ loop = "redial"
  /\ \/ /\ dialled < MaxSessions
        /\ Dialled
        /\ old' = client
        /\ client' = dialled + 1
        /\ loop' = "swap"
     \/ loop' = (IF cancelled THEN "ended" ELSE "pause") /\ UNCHANGED <<client, dialled, open, old>>
  /\ UNCHANGED <<cancelled, pollers, kinds, closing, candleVars>>

\* Faulty: the old session is dropped.
SwapKeepsOld ==
  /\ loop = "swap"
  /\ old' = 0
  /\ loop' = "refresh"
  /\ UNCHANGED <<client, dialled, open, cancelled, pollers, kinds, closing, candleVars>>

Swap ==
  /\ loop = "swap"
  /\ open' = open \ {old}
  /\ old' = 0
  /\ loop' = "refresh"
  /\ UNCHANGED <<client, dialled, cancelled, pollers, kinds, closing, candleVars>>

Refresh ==
  /\ loop = "refresh"
  /\ kinds' \in {kinds, TRUE}
  /\ loop' = "subscribe"
  /\ UNCHANGED <<client, dialled, open, old, cancelled, pollers, closing, candleVars>>

LoopStep ==
  \/ StartDials \/ StartReady \/ LoopEnds \/ SubscribeAll \/ RunEnds \/ SessionOver
  \/ PauseOver \/ Redial \/ Swap \/ Refresh

\* newsLoop ends when its session does, or with the service.
PollerEnds(n) ==
  /\ n \in pollers
  /\ cancelled \/ ~(loop = "run" /\ client = n)
  /\ pollers' = pollers \ {n}
  /\ UNCHANGED <<loop, client, dialled, open, old, cancelled, kinds, closing, candleVars>>

\* The context the service was started with is done (a signal).
ParentCancelled ==
  /\ ~cancelled
  /\ cancelled' = TRUE
  /\ UNCHANGED <<loop, client, dialled, open, old, pollers, kinds, closing, candleVars>>

-----------------------------------------------------------------------------
(* Close *)

Started == loop \notin {"new", "dial", "stored"}

\* Faulty: the run loop is not told.
CloseUncancelled ==
  /\ closing = "no" /\ Started
  /\ closing' = "waiting"
  /\ UNCHANGED <<loop, client, dialled, open, old, cancelled, pollers, kinds, candleVars>>

\* Close cancels the run; the terminal calls it when Start has returned.
CloseBegin ==
  /\ closing = "no" /\ Started
  /\ closing' = "waiting"
  /\ cancelled' = TRUE
  /\ UNCHANGED <<loop, client, dialled, open, old, pollers, kinds, candleVars>>

\* wg.Wait, and the last session is closed.
CloseEnd ==
  /\ closing = "waiting"
  /\ loop \in {"ended", "refused"} /\ pollers = {}
  /\ open' = open \ {client}
  /\ client' = 0
  /\ closing' = "closed"
  /\ UNCHANGED <<loop, dialled, old, cancelled, pollers, kinds, candleVars>>

-----------------------------------------------------------------------------
(* Candles *)

GoOn(c, pc) == caller' = [caller EXCEPT ![c] = pc]
Answer(c, n) == GoOn(c, "done") /\ answer' = [answer EXCEPT ![c] = n]

\* cachedHistory: a cached series serves the requests it is long enough for;
\* then currentClient is read.  The terminal serves callers once Start has
\* returned.
Candles(c) ==
  /\ Started
  /\ caller[c] \in {"idle", "again"}
  /\ IF Want[c] <= cached THEN Answer(c, cached) /\ UNCHANGED using
     ELSE IF client = 0 THEN Answer(c, 0) /\ UNCHANGED using
     ELSE /\ using' = [using EXCEPT ![c] = client]
          /\ GoOn(c, "join")
          /\ UNCHANGED answer
  /\ UNCHANGED <<sessionVars, flight, cached>>

\* beginHistoryFlight: the first becomes the leader, the others wait for it.
\* The leader asks the session it has read before.
BeginFlight(c) ==
  /\ caller[c] = "join"
  /\ GoOn(c, IF flight THEN "wait" ELSE "fetch")
  /\ flight' = TRUE
  /\ UNCHANGED <<sessionVars, using, answer, cached>>

\* endHistoryFlight: the flight leaves the map and all who wait wake with its
\* result, as does the leader.
EndFlight(c, n) ==
  /\ flight' = FALSE
  /\ caller' = [x \in Caller |-> IF caller[x] = "wait" THEN "woken"
                                ELSE IF x = c THEN "done" ELSE caller[x]]
  /\ using' = [x \in Caller |-> IF caller[x] = "wait" THEN n ELSE using[x]]
  /\ answer' = [answer EXCEPT ![c] = n]

\* Faulty: a series that is too short is taken all the same.
WakeAnyLength(c) ==
  /\ caller[c] = "woken"
  /\ Answer(c, using[c])
  /\ UNCHANGED <<sessionVars, using, flight, cached>>

\* A waiter shares the series, its error, or tries again for a longer one.
Wake(c) ==
  /\ caller[c] = "woken"
  /\ IF using[c] = 0 \/ using[c] >= Want[c] THEN Answer(c, using[c])
     ELSE GoOn(c, "again") /\ UNCHANGED answer
  /\ UNCHANGED <<sessionVars, using, flight, cached>>

\* The context of a waiter is done.
WaitTimesOut(c) ==
  /\ caller[c] = "wait"
  /\ Answer(c, 0)
  /\ UNCHANGED <<sessionVars, using, flight, cached>>

\* fetchHistory: no candle kinds yet, a closed session, an error, a timeout.
FetchFails(c) ==
  /\ caller[c] = "fetch"
  /\ EndFlight(c, 0)
  /\ UNCHANGED <<sessionVars, cached>>

\* The series arrives and is cached.
FetchHistory(c) ==
  /\ caller[c] = "fetch"
  /\ kinds /\ using[c] \in open
  /\ cached' = Want[c]
  /\ GoOn(c, "land")
  /\ UNCHANGED <<sessionVars, using, answer, flight>>

LandFlight(c) ==
  /\ caller[c] = "land"
  /\ EndFlight(c, Want[c])
  /\ UNCHANGED <<sessionVars, cached>>

\* HistoryTTL passes.
CacheExpires ==
  /\ cached # 0
  /\ cached' = 0
  /\ UNCHANGED <<sessionVars, caller, using, answer, flight>>

CallerStep(c) ==
  \/ caller[c] = "again" /\ Candles(c)
  \/ BeginFlight(c) \/ Wake(c) \/ FetchFails(c) \/ FetchHistory(c) \/ LandFlight(c)

FeedNext ==
  \/ Start \/ LoopStep \/ ParentCancelled
  \/ \E n \in Session : PollerEnds(n)
  \/ CloseBegin \/ CloseEnd
  \/ \E c \in Caller : Candles(c) \/ CallerStep(c) \/ WaitTimesOut(c)
  \/ CacheExpires

\* Goroutines run; a dial and a request end, at the latest by their timeouts;
\* a run that was cancelled returns.
FeedFairness ==
  /\ WF_feedVars(LoopStep /\ (loop = "run" => cancelled))
  /\ \A n \in Session : WF_feedVars(PollerEnds(n))
  /\ WF_feedVars(CloseEnd)
  /\ \A c \in Caller : WF_feedVars(CallerStep(c))

FeedSpec == FeedInit /\ [][FeedNext]_feedVars /\ FeedFairness

-----------------------------------------------------------------------------
(* Properties *)

\* When Close has returned nothing of the service is left behind: no session
\* is open, also not one that a reconnect dialled meanwhile, and no goroutine
\* runs.
ClosedLeavesNothing ==
  closing = "closed" => /\ open = {}
                        /\ pollers = {}
                        /\ loop \in {"ended", "refused"}

\* One request of a series is with the exchange at a time, and whoever shares
\* it, or finds it in the cache, has at least the candles he asked for
\* (beginHistoryFlight: "native.Client allows only one History request per
\* series in flight").
SharedHistory ==
  /\ Cardinality({c \in Caller : caller[c] \in {"fetch", "land"}}) <= 1
  /\ \A c \in Caller : answer[c] # 0 => answer[c] >= Want[c]

\* Close returns, whatever the run loop is waiting for.
FeedCloses == closing = "waiting" ~> closing = "closed"

\* A call of Candles returns: leaders that fail wake those who wait for them.
CandlesAnswered == \A c \in Caller : caller[c] \notin {"idle", "done"} ~> caller[c] = "done"

\* Nobody waits for the feed for ever, at its end or in the middle.
FeedAnswers == FeedCloses /\ CandlesAnswered
=============================================================================
