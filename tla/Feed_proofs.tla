----------------------------- MODULE Feed_proofs -----------------------------
(***************************************************************************)
(* The safety properties of the terminal's market data, for any bounds:    *)
(* LiveFeed.tla (sessions and shared requests of history), BotManager.tla  *)
(* (the runs of a bot) and ClosedBars.tla (the stream between them).       *)
(*                                                                         *)
(* A closed service leaves no session behind because it never has two      *)
(* outside a swap.  One request of a series is in flight because a leader  *)
(* holds the flight from its first step to its last.  A bar is replayed    *)
(* and traded once because the window ends with lastBar and every order's  *)
(* id stays with the account.  The stream leaves no candle out because     *)
(* what it still has to send is always the next part of the series.        *)
(***************************************************************************)
EXTENDS LiveFeed, BotManager, ClosedBars, FiniteSetTheorems,
        SequenceTheorems, WellFoundedInduction, TLAPS

\* The sessions that can be open: the current one, and in a swap the one before.
OpenSessions ==
  /\ open \subseteq {client, old}
  /\ loop # "swap" => old = 0
  /\ loop \in {"new", "dial"} => client = 0
  /\ loop \notin {"new", "dial", "refused", "ended"} => client # 0
  /\ loop \in {"new", "dial", "stored"} => closing = "no"

\* A leader holds the flight; the rest wait for it or are not in it.
Leading(c) == caller[c] \in {"fetch", "land"}
OneLeader ==
  /\ \A c \in Caller : Leading(c) => flight
  /\ \A c, d \in Caller : Leading(c) /\ Leading(d) => c = d

\* Who was served with candles has enough of them.
Served == \A c \in Caller : answer[c] # 0 => answer[c] >= Want[c]

FeedInv ==
  /\ FeedTypeOK /\ using \in [Caller -> Nat]
  /\ OpenSessions /\ ClosedLeavesNothing
  /\ OneLeader /\ Served

\* The orders of the account are those of its client order ids.
OrderIDs ==
  /\ \A i \in 1..Len(orders) : orders[i] \in clientOrderIDs
  /\ \A r \in Run : phase[r] \in {"deciding", "placing"} => decision[r].bar \in Bar

\* A bot that runs has the cancel of its run.
CancelHeld == running <=> cancel # 0

BotInv ==
  /\ BotTypeOK /\ WindowInOrder /\ OneOrderPerBar /\ OrderIDs
  /\ CancelHeld /\ ControlledUntilFailure


-----------------------------------------------------------------------------
(* LiveFeed.tla *)

\* The steps of the service itself and of a session's poller do not touch the
\* callers of Candles.
LoopNext ==
  \/ Start \/ LoopStep \/ ParentCancelled \/ CloseBegin \/ CloseEnd
  \/ \E n \in Session : PollerEnds(n)

\* They keep the sessions apart.
LEMMA LoopInv ==
  ASSUME FeedInv, LoopNext
  PROVE  FeedInv'
<1> USE SessionAssumption
        DEF FeedInv, FeedTypeOK, OpenSessions, ClosedLeavesNothing, LoopState, Session,
            candleVars
<1>1. Served' /\ OneLeader' /\ using' \in [Caller -> Nat]
  <2>1. UNCHANGED <<caller, using, answer, flight, cached>>
    BY DEF LoopNext, LoopStep, Start, StartDials, StartReady, LoopEnds, SubscribeAll, RunEnds,
           SessionOver, PauseOver, Redial, Swap, Refresh, ParentCancelled, CloseBegin, CloseEnd,
           PollerEnds
  <2> QED
    BY <2>1 DEF Served, OneLeader, Leading
<1> DEFINE Loop == FeedTypeOK' /\ OpenSessions' /\ ClosedLeavesNothing'
<1>2. ASSUME Start
      PROVE  Loop
  BY <1>2 DEF Start
<1>3. ASSUME StartDials
      PROVE  Loop
  <2>1. CASE loop' = "stored"
    <3>1. dialled + 1 \in Session /\ open = {}
      BY <1>3, <2>1 DEF StartDials
    <3>2. open' = {dialled + 1} /\ client' = dialled + 1 /\ dialled' = dialled + 1
      BY <1>3, <2>1, <3>1 DEF StartDials, Dialled
    <3> QED
      BY <1>3, <2>1, <3>1, <3>2 DEF StartDials
  <2>2. CASE loop' = "refused"
    BY <1>3, <2>2 DEF StartDials
  <2> QED
    BY <1>3, <2>1, <2>2 DEF StartDials
<1>4. ASSUME StartReady
      PROVE  Loop
  BY <1>4 DEF StartReady
<1>5. ASSUME LoopEnds
      PROVE  Loop
  BY <1>5 DEF LoopEnds
<1>6. ASSUME SubscribeAll
      PROVE  Loop
  <2>1. client \in Session
    BY <1>6 DEF SubscribeAll
  <2>2. pollers' \subseteq Session /\ loop' \in {"run", "failed"}
    BY <1>6, <2>1 DEF SubscribeAll
  <2>3. UNCHANGED <<client, dialled, open, old, cancelled, kinds, closing, candleVars>>
    BY <1>6 DEF SubscribeAll
  <2>4. FeedTypeOK'
    BY <2>2, <2>3
  <2>5. OpenSessions' /\ ClosedLeavesNothing'
    BY <1>6, <2>2, <2>3 DEF SubscribeAll
  <2> QED
    BY <2>4, <2>5
<1>7. ASSUME RunEnds
      PROVE  Loop
  BY <1>7 DEF RunEnds
<1>8. ASSUME SessionOver
      PROVE  Loop
  BY <1>8 DEF SessionOver
<1>9. ASSUME PauseOver
      PROVE  Loop
  BY <1>9 DEF PauseOver
<1>10. ASSUME Redial
      PROVE  Loop
  <2>1. CASE loop' = "swap"
    <3>1. dialled + 1 \in Session /\ open \subseteq {client}
      BY <1>10, <2>1 DEF Redial
    <3>2. /\ open' = open \cup {dialled + 1} /\ client' = dialled + 1
          /\ dialled' = dialled + 1 /\ old' = client
      BY <1>10, <2>1 DEF Redial, Dialled
    <3>3. open' \subseteq {client', old'} /\ open' \subseteq Session
      BY <3>1, <3>2
    <3> QED
      BY <1>10, <2>1, <3>1, <3>2, <3>3 DEF Redial
  <2>2. CASE loop' # "swap"
    BY <1>10, <2>2 DEF Redial
  <2> QED
    BY <2>1, <2>2
<1>11. ASSUME Swap
      PROVE  Loop
  BY <1>11 DEF Swap
<1>12. ASSUME Refresh
      PROVE  Loop
  BY <1>12 DEF Refresh
<1>13. ASSUME ParentCancelled
      PROVE  Loop
  BY <1>13 DEF ParentCancelled
<1>14. ASSUME CloseBegin
      PROVE  Loop
  BY <1>14 DEF CloseBegin, Started
<1>15. ASSUME CloseEnd
      PROVE  Loop
  BY <1>15 DEF CloseEnd
<1>16. ASSUME NEW n \in Session, PollerEnds(n)
      PROVE  Loop
  BY <1>16 DEF PollerEnds
<1> HIDE DEF Loop
<1>17. Loop
  BY <1>2, <1>3, <1>4, <1>5, <1>6, <1>7, <1>8, <1>9, <1>10, <1>11, <1>12, <1>13, <1>14, <1>15, <1>16 DEF LoopNext, LoopStep
<1> QED
  BY <1>1, <1>17 DEF Loop

\* A flight that ends leaves no leader, and wakes its waiters with its result.
LEMMA EndFlightInv ==
  ASSUME FeedInv, NEW c \in Caller, Leading(c), NEW n \in Nat, n # 0 => n >= Want[c],
         EndFlight(c, n), UNCHANGED sessionVars, cached' \in Nat
  PROVE  FeedInv'
<1> USE DEF FeedInv, EndFlight, sessionVars
<1>1. FeedTypeOK' /\ using' \in [Caller -> Nat]
  BY DEF FeedTypeOK, CallerState
<1>2. OpenSessions' /\ ClosedLeavesNothing'
  BY DEF OpenSessions, ClosedLeavesNothing
<1>3. \A d \in Caller : ~Leading(d)'
  BY DEF OneLeader, Leading, FeedTypeOK
<1>4. OneLeader'
  BY <1>3 DEF OneLeader
<1>5. Served'
  BY DEF Served, FeedTypeOK
<1> QED
  BY <1>1, <1>2, <1>4, <1>5

\* The other steps of a caller.
LEMMA CallerInv ==
  ASSUME FeedInv, NEW c \in Caller,
         Candles(c) \/ BeginFlight(c) \/ Wake(c) \/ FetchHistory(c) \/ WaitTimesOut(c)
  PROVE  FeedInv'
<1> USE WantAssumption, SessionAssumption DEF FeedInv, FeedTypeOK, CallerState, sessionVars, GoOn, Answer
<1>0. OpenSessions' /\ ClosedLeavesNothing'
  <2>1. UNCHANGED sessionVars
    BY DEF Candles, BeginFlight, Wake, FetchHistory, WaitTimesOut
  <2> QED
    BY <2>1 DEF OpenSessions, ClosedLeavesNothing
<1> DEFINE Shared == FeedTypeOK' /\ using' \in [Caller -> Nat] /\ OneLeader' /\ Served'
<1>1. ASSUME Candles(c)
      PROVE  Shared
  BY <1>1 DEF Candles, OneLeader, Leading, Served
<1>2. ASSUME BeginFlight(c)
      PROVE  Shared
  BY <1>2 DEF BeginFlight, OneLeader, Leading, Served
<1>3. ASSUME Wake(c)
      PROVE  Shared
  BY <1>3 DEF Wake, OneLeader, Leading, Served
<1>4. ASSUME FetchHistory(c)
      PROVE  Shared
  BY <1>4 DEF FetchHistory, OneLeader, Leading, Served
<1>5. ASSUME WaitTimesOut(c)
      PROVE  Shared
  BY <1>5 DEF WaitTimesOut, OneLeader, Leading, Served
<1> HIDE DEF Shared
<1>6. Shared
  BY <1>1, <1>2, <1>3, <1>4, <1>5
<1> QED
  BY <1>0, <1>6 DEF Shared

\* Every step of the feed and its callers keeps the invariant.
LEMMA FeedStep == FeedInv /\ [FeedNext]_feedVars => FeedInv'
<1> SUFFICES ASSUME FeedInv, [FeedNext]_feedVars
             PROVE  FeedInv'
  OBVIOUS
<1>1. CASE LoopNext
  BY <1>1, LoopInv
<1>2. ASSUME NEW c \in Caller, Candles(c) \/ CallerStep(c) \/ WaitTimesOut(c)
      PROVE  FeedInv'
  <2>1. CASE FetchFails(c)
    BY <2>1, EndFlightInv DEF FetchFails, Leading, FeedInv, FeedTypeOK
  <2>2. CASE LandFlight(c)
    <3>1. Want[c] \in Nat
      BY WantAssumption
    <3> QED
      BY <3>1, <2>2, EndFlightInv DEF LandFlight, Leading, FeedInv, FeedTypeOK
  <2> QED
    BY <1>2, <2>1, <2>2, CallerInv DEF CallerStep
<1>3. CASE CacheExpires
  BY <1>3 DEF CacheExpires, sessionVars, FeedInv, FeedTypeOK, OpenSessions, ClosedLeavesNothing,
              OneLeader, Leading, Served
<1>4. CASE UNCHANGED feedVars
  BY <1>4 DEF feedVars, sessionVars, candleVars, FeedInv, FeedTypeOK, OpenSessions,
              ClosedLeavesNothing, OneLeader, Leading, Served
<1> QED
  BY <1>1, <1>2, <1>3, <1>4 DEF FeedNext, LoopNext

\* FeedInv holds in every reachable state.
THEOREM FeedInvariance == FeedSpec => []FeedInv
<1>1. FeedInit => FeedInv
  <2> SUFFICES ASSUME FeedInit
               PROVE  FeedInv
    OBVIOUS
  <2>1. FeedTypeOK /\ using \in [Caller -> Nat]
    <3>1. {cancelled, kinds} \subseteq BOOLEAN
      BY DEF FeedInit
    <3>2. client \in 0..MaxSessions /\ old \in 0..MaxSessions /\ dialled \in 0..MaxSessions
      BY SessionAssumption DEF FeedInit
    <3>3. caller \in [Caller -> CallerState] /\ answer \in [Caller -> Nat]
          /\ using \in [Caller -> Nat]
      BY DEF FeedInit, CallerState
    <3> QED
      BY <3>1, <3>2, <3>3 DEF FeedInit, FeedTypeOK, LoopState
  <2>2. OpenSessions /\ ClosedLeavesNothing
    BY DEF FeedInit, OpenSessions, ClosedLeavesNothing
  <2>3. OneLeader /\ Served
    BY DEF FeedInit, OneLeader, Leading, Served
  <2> QED
    BY <2>1, <2>2, <2>3 DEF FeedInv
<1> QED
  BY <1>1, FeedStep, PTL DEF FeedSpec

\* After Close no session is open and no goroutine of the service runs, whatever
\* the reconnect loop was doing.
THEOREM NothingLeft == FeedSpec => []ClosedLeavesNothing
<1>1. FeedInv => ClosedLeavesNothing
  BY DEF FeedInv
<1> QED
  BY FeedInvariance, <1>1, PTL

\* The exchange sees one request of a series at a time, and nobody who shares it
\* is served with fewer candles than he asked for.
THEOREM OneRequest == FeedSpec => []SharedHistory
<1>1. FeedInv => SharedHistory
  <2> SUFFICES ASSUME FeedInv
               PROVE  SharedHistory
    OBVIOUS
  <2> DEFINE leaders == {c \in Caller : caller[c] \in {"fetch", "land"}}
  <2>1. Cardinality(leaders) <= 1
    <3>1. CASE leaders = {}
      BY <3>1, FS_EmptySet
    <3>2. CASE leaders # {}
      <4>1. PICK c : leaders = {c}
        BY <3>2 DEF FeedInv, OneLeader, Leading
      <4> HIDE DEF leaders
      <4> QED
        BY <4>1, FS_Singleton
    <3> QED
      BY <3>1, <3>2
  <2> QED
    BY <2>1 DEF FeedInv, Served, SharedHistory
<1> QED
  BY FeedInvariance, <1>1, PTL


-----------------------------------------------------------------------------
(* BotManager.tla: the replay window *)

Ascending(window) == \A i, j \in 1..Len(window) : i < j => window[i] < window[j]

\* A window that grows by a later bar stays in order and ends with it.
LEMMA Grown ==
  ASSUME NEW window \in Seq(Bar), Ascending(window), NEW t \in Bar,
         window # <<>> => window[Len(window)] < t
  PROVE  /\ Append(window, t) \in Seq(Bar) /\ Ascending(Append(window, t))
         /\ Len(Append(window, t)) = Len(window) + 1 /\ Len(window) \in Nat
         /\ Append(window, t)[Len(window) + 1] = t
<1>1. /\ Append(window, t) \in Seq(Bar) /\ Len(Append(window, t)) = Len(window) + 1
      /\ \A i \in 1..Len(window) : Append(window, t)[i] = window[i]
      /\ Append(window, t)[Len(window) + 1] = t
  BY AppendProperties
<1>2. Len(window) \in Nat
  BY LenProperties
<1>3. \A i \in 1..Len(window) : window[i] \in Nat
  BY ElementOfSeq, BarsAssumption DEF Bar
<1>4. \A i \in 1..Len(window) : window[i] < t
  <2> TAKE i \in 1..Len(window)
  <2>1. window # <<>> /\ Len(window) \in 1..Len(window)
    BY <1>2, EmptySeq
  <2>2. CASE i < Len(window)
    BY <2>1, <2>2, <1>3, BarsAssumption DEF Ascending, Bar
  <2>3. CASE i = Len(window)
    BY <2>1, <2>3
  <2> QED
    BY <2>2, <2>3, <1>2
<1>5. Ascending(Append(window, t))
  <2> SUFFICES ASSUME NEW i \in 1..Len(window) + 1, NEW j \in 1..Len(window) + 1, i < j
               PROVE  Append(window, t)[i] < Append(window, t)[j]
    BY <1>1 DEF Ascending
  <2>1. i \in 1..Len(window)
    BY <1>2
  <2>2. CASE j \in 1..Len(window)
    BY <2>1, <2>2, <1>1 DEF Ascending
  <2>3. CASE j = Len(window) + 1
    BY <2>1, <2>3, <1>1, <1>4
  <2> QED
    BY <2>2, <2>3, <1>2
<1> QED
  BY <1>1, <1>2, <1>5

\* barHistoryLimit keeps the last bars.
LEMMA TrimmedFacts ==
  ASSUME NEW window \in Seq(Bar), Ascending(window), Len(window) > 0
  PROVE  /\ Trimmed(window) \in Seq(Bar) /\ Ascending(Trimmed(window))
         /\ Len(Trimmed(window)) \in 1..HistoryLimit
         /\ Trimmed(window)[Len(Trimmed(window))] = window[Len(window)]
<1>1. Len(window) \in Nat /\ HistoryLimit \in Nat \ {0}
  BY LenProperties, HistoryAssumption
<1>2. CASE Len(window) <= HistoryLimit
  BY <1>1, <1>2 DEF Trimmed
<1>3. CASE Len(window) > HistoryLimit
  <2> DEFINE first == Len(window) - HistoryLimit + 1
             kept == SubSeq(window, first, Len(window))
  <2>1. /\ first \in Int /\ Len(window) \in Int /\ first >= 1 /\ first <= Len(window)
        /\ Len(window) - first + 1 = HistoryLimit
        /\ \A i \in first..Len(window) : i \in 1..Len(window)
    BY <1>1, <1>3
  <2>2. \A i \in first..Len(window) : window[i] \in Bar
    BY <2>1, ElementOfSeq
  <2>3. /\ kept \in Seq(Bar) /\ Len(kept) = HistoryLimit
        /\ \A i \in 1..HistoryLimit : kept[i] = window[first + i - 1]
    BY <2>1, <2>2, SubSeqProperties
  <2>4. Trimmed(window) = kept
    BY <1>1, <1>3 DEF Trimmed
  <2>5. \A i \in 1..HistoryLimit : first + i - 1 \in 1..Len(window)
    BY <2>1, <1>1
  <2> HIDE DEF kept
  <2>6. Ascending(kept)
    <3> SUFFICES ASSUME NEW i \in 1..HistoryLimit, NEW j \in 1..HistoryLimit, i < j
                 PROVE  kept[i] < kept[j]
      BY <2>3 DEF Ascending
    <3>1. first + i - 1 < first + j - 1
      BY <2>1, <1>1
    <3> QED
      BY <3>1, <2>3, <2>5 DEF Ascending
  <2>7. kept[Len(kept)] = window[Len(window)]
    <3>1. first + HistoryLimit - 1 = Len(window) /\ HistoryLimit \in 1..HistoryLimit
      BY <1>1
    <3> QED
      BY <3>1, <2>3
  <2> QED
    BY <2>3, <2>4, <2>6, <2>7, <1>1
<1> QED
  BY <1>1, <1>2, <1>3


-----------------------------------------------------------------------------
(* BotManager.tla: the steps *)

\* handleBar takes a bar of the stream, and a bar it does not drop becomes the
\* last of the window.
LEMMA Handled ==
  ASSUME BotTypeOK, WindowInOrder, NEW r \in Run, HandleBar(r)
  PROVE  /\ bars' \in Seq(Bar) /\ Len(bars') <= HistoryLimit
         /\ lastBar' \in 0..MaxBars
         /\ WindowInOrder'
         /\ stream' \in [Run -> Seq(Bar)] /\ \A x \in Run : Len(stream'[x]) <= Buffered
         /\ phase'[r] \in {"consuming", "deciding"}
         /\ phase' = [phase EXCEPT ![r] = phase'[r]]
         /\ decision' \in [Run -> [bar : 0..MaxBars, signal : Signal]]
         /\ phase'[r] = "deciding" => decision'[r].bar \in Bar
         /\ \A x \in Run : x # r => decision'[x] = decision[x]
<1>1. /\ stream[r] \in Seq(Bar) /\ stream[r] # <<>> /\ phase[r] = "consuming"
      /\ stream' = [stream EXCEPT ![r] = Tail(stream[r])]
  BY DEF BotTypeOK, HandleBar, HandleKeeping
<1>2. /\ Head(stream[r]) \in Bar /\ Tail(stream[r]) \in Seq(Bar)
      /\ Len(Tail(stream[r])) = Len(stream[r]) - 1 /\ Len(stream[r]) \in Nat
      /\ Len(stream[r]) <= Buffered
  BY <1>1, HeadTailProperties, LenProperties DEF BotTypeOK
<1>3. stream' \in [Run -> Seq(Bar)] /\ \A x \in Run : Len(stream'[x]) <= Buffered
  <2>1. Len(Tail(stream[r])) <= Buffered
    BY <1>2, BufferedAssumption
  <2> QED
    BY <1>1, <1>2, <2>1 DEF BotTypeOK
<1>4. PICK t \in Bar : t = Head(stream[r])
  BY <1>2
<1>5. CASE Repeated(t)
  <2>1. UNCHANGED <<bars, lastBar, phase, decision>>
    BY <1>4, <1>5 DEF HandleBar, HandleKeeping, windowVars
  <2> QED
    BY <1>1, <1>3, <2>1 DEF BotTypeOK, WindowInOrder
<1>6. CASE ~Repeated(t)
  <2> DEFINE window == Append(bars, t)
  <2>1. /\ bars' = Trimmed(window) /\ lastBar' = t
        /\ \E signal \in Signal :
             \/ /\ phase' = [phase EXCEPT ![r] = "deciding"]
                /\ decision' = [decision EXCEPT ![r] = [bar |-> t, signal |-> signal]]
             \/ UNCHANGED <<phase, decision>>
    BY <1>4, <1>6 DEF HandleBar, HandleKeeping
  <2>2. bars # <<>> => bars[Len(bars)] < t
    <3> SUFFICES ASSUME bars # <<>>
                 PROVE  bars[Len(bars)] < t
      OBVIOUS
    <3>1. Len(bars) \in 1..Len(bars)
      BY EmptySeq DEF BotTypeOK
    <3>2. bars[Len(bars)] \in Bar
      BY <3>1, ElementOfSeq DEF BotTypeOK
    <3>3. lastBar = bars[Len(bars)]
      BY DEF WindowInOrder
    <3> QED
      BY <3>2, <3>3, <1>6, BarsAssumption DEF Repeated, Bar
  <2>3. bars \in Seq(Bar) /\ Ascending(bars)
    BY DEF BotTypeOK, WindowInOrder, Ascending
  <2>4. /\ window \in Seq(Bar) /\ Ascending(window) /\ Len(window) = Len(bars) + 1
        /\ Len(bars) \in Nat /\ window[Len(bars) + 1] = t
    BY <2>2, <2>3, Grown
  <2>5. Len(window) > 0 /\ window[Len(window)] = t
    BY <2>4
  <2>6. /\ Trimmed(window) \in Seq(Bar) /\ Ascending(Trimmed(window))
        /\ Len(Trimmed(window)) \in 1..HistoryLimit
        /\ Trimmed(window)[Len(Trimmed(window))] = t
    BY <2>4, <2>5, TrimmedFacts
  <2> HIDE DEF window
  <2>7. Len(bars') <= HistoryLimit /\ Len(bars') > 0
    BY <2>1, <2>6, HistoryAssumption
  <2>8. WindowInOrder'
    <3>1. bars' # <<>>
      BY <2>7
    <3> QED
      BY <3>1, <2>1, <2>6 DEF WindowInOrder, Ascending
  <2>9. lastBar' \in 0..MaxBars /\ t \in 0..MaxBars
    BY <2>1, BarsAssumption DEF Bar
  <2>10. /\ phase'[r] \in {"consuming", "deciding"}
         /\ phase' = [phase EXCEPT ![r] = phase'[r]]
    BY <1>1, <2>1 DEF BotTypeOK
  <2>11. /\ decision' \in [Run -> [bar : 0..MaxBars, signal : Signal]]
         /\ phase'[r] = "deciding" => decision'[r].bar \in Bar
         /\ \A x \in Run : x # r => decision'[x] = decision[x]
    <3>1. CASE UNCHANGED <<phase, decision>>
      BY <1>1, <3>1 DEF BotTypeOK
    <3>2. ASSUME NEW signal \in Signal,
                 decision' = [decision EXCEPT ![r] = [bar |-> t, signal |-> signal]]
          PROVE  /\ decision' \in [Run -> [bar : 0..MaxBars, signal : Signal]]
                 /\ decision'[r].bar = t
                 /\ \A x \in Run : x # r => decision'[x] = decision[x]
      <4>1. [bar |-> t, signal |-> signal] \in [bar : 0..MaxBars, signal : Signal]
        BY <2>9
      <4> QED
        BY <3>2, <4>1 DEF BotTypeOK
    <3> QED
      BY <3>1, <3>2, <2>1
  <2> QED
    BY <1>3, <2>1, <2>6, <2>7, <2>8, <2>9, <2>10, <2>11
<1> QED
  BY <1>5, <1>6


\* The relations that no bar and no order is part of: which run has the bot's
\* cancel, and that a signal is carried out with the bar it came from.
LEMMA RunsInv ==
  ASSUME BotInv, [BotNext]_botVars
  PROVE  /\ phase' \in [Run -> {"none", "subscribing", "consuming", "deciding", "placing",
                                "ended", "failed"}]
         /\ \A r \in Run : r <= starts' <=> phase'[r] # "none"
         /\ CancelHeld' /\ ControlledUntilFailure'
<1> USE DEF BotInv
<1> DEFINE Goal == /\ phase' \in [Run -> {"none", "subscribing", "consuming", "deciding", "placing",
                                          "ended", "failed"}]
                   /\ \A r \in Run : r <= starts' <=> phase'[r] # "none"
                   /\ CancelHeld' /\ ControlledUntilFailure'
\* A run that goes on to another place keeps its hold.
<1>1. ASSUME NEW r \in Run, NEW to \in {"consuming", "deciding", "placing", "ended"},
             phase[r] \notin {"none", "ended", "failed"},
             phase' = [phase EXCEPT ![r] = to],
             UNCHANGED <<starts, cancel, running, cancelling>>
      PROVE  Goal
  BY <1>1, StartsAssumption DEF BotTypeOK, CancelHeld, ControlledUntilFailure, Controlled, Over, Run
<1>2. ASSUME UNCHANGED <<phase, starts>>, CancelHeld', ControlledUntilFailure'
      PROVE  Goal
  BY <1>2 DEF BotTypeOK
<1>3. ASSUME NEW r \in Run, SubscribeSucceeds(r) \/ ConsumeEnds(r) \/ ReadAccount(r) \/ PlaceAt(r)
      PROVE  Goal
  BY <1>1, <1>3 DEF SubscribeSucceeds, ConsumeEnds, ReadAccount, PlaceAt, stageVars
<1>4. ASSUME NEW r \in Run, HandleBar(r)
      PROVE  Goal
  <2>1. /\ phase[r] = "consuming" /\ UNCHANGED <<starts, cancel, running, cancelling>>
        /\ phase'[r] \in {"consuming", "deciding"} /\ phase' = [phase EXCEPT ![r] = phase'[r]]
    BY <1>4, Handled DEF HandleBar, HandleKeeping, stageVars
  <2> QED
    BY <2>1, <1>1
<1>5. ASSUME NEW r \in Run, Emit(r) \/ CancelRun(r)
      PROVE  Goal
  BY <1>2, <1>5 DEF Emit, CancelRun, stageVars, CancelHeld, ControlledUntilFailure, Controlled, Over
<1>6. ASSUME Promote \/ UNCHANGED botVars
      PROVE  Goal
  BY <1>2, <1>6 DEF Promote, botVars, stageVars, CancelHeld, ControlledUntilFailure, Controlled, Over
<1>7. ASSUME Stop
      PROVE  Goal
  <2>1. /\ UNCHANGED <<phase, starts>> /\ cancel' = 0 /\ running' = FALSE
        /\ cancelling' = cancelling \cup ({cancel} \ {0})
    BY <1>7 DEF Stop, StopTaking
  <2>2. CancelHeld' /\ ControlledUntilFailure'
    BY <2>1 DEF CancelHeld, ControlledUntilFailure, Controlled, Over, BotTypeOK
  <2> QED
    BY <1>2, <2>1, <2>2
<1>8. ASSUME NEW to \in Runnable, StartRun(to)
      PROVE  Goal
  <2>1. /\ ~running /\ starts + 1 \in Run /\ starts' = starts + 1 /\ cancel' = starts + 1
        /\ running' = TRUE /\ cancelling' = cancelling
        /\ phase' = [phase EXCEPT ![starts + 1] = "subscribing"]
    BY <1>8, StartsAssumption DEF StartRun, BotTypeOK, Run
  <2>2. starts \in Nat /\ cancel = 0
    BY <2>1, StartsAssumption DEF BotTypeOK, CancelHeld
  <2>3. phase' \in [Run -> {"none", "subscribing", "consuming", "deciding", "placing",
                            "ended", "failed"}]
    BY <2>1 DEF BotTypeOK
  <2>4. \A r \in Run : r <= starts' <=> phase'[r] # "none"
    BY <2>1, <2>2, StartsAssumption DEF BotTypeOK, Run
  <2>5. CancelHeld'
    BY <2>1, <2>2 DEF CancelHeld
  <2>6. ControlledUntilFailure'
    <3> SUFFICES ASSUME \A r \in Run : phase'[r] # "failed", NEW r \in 1..starts + 1, r # starts + 1,
                        ~Over(r)'
                 PROVE  r \in cancelling
      BY <2>1, <2>2 DEF ControlledUntilFailure, Controlled
    <3>1. r \in Run /\ r \in 1..starts /\ starts + 1 # r
      BY <2>1, <2>2, StartsAssumption DEF Run
    <3>2. \A x \in Run : x # starts + 1 => phase'[x] = phase[x]
      BY <2>1 DEF BotTypeOK
    <3>3. phase[starts + 1] = "none"
      BY <2>1, <2>2 DEF BotTypeOK
    <3>4. \A x \in Run : phase[x] # "failed"
      BY <3>2, <3>3
    <3>5. ~Over(r)
      BY <3>1, <3>2 DEF Over
    <3>6. r = cancel \/ r \in cancelling
      BY <3>1, <3>4, <3>5 DEF ControlledUntilFailure, Controlled
    <3> QED
      BY <3>1, <3>6, <2>2
  <2> QED
    BY <2>3, <2>4, <2>5, <2>6
<1>9. ASSUME NEW r \in Run, SubscribeFails(r)
      PROVE  Goal
  <2>1. /\ phase[r] = "subscribing" /\ phase' = [phase EXCEPT ![r] = "failed"]
        /\ starts' = starts /\ cancel' = 0 /\ running' = FALSE
    BY <1>9 DEF SubscribeFails
  <2>2. phase'[r] = "failed"
    BY <2>1 DEF BotTypeOK
  <2>3. CancelHeld' /\ ControlledUntilFailure'
    BY <2>1, <2>2 DEF CancelHeld, ControlledUntilFailure
  <2> QED
    BY <2>1, <2>3 DEF BotTypeOK
<1> HIDE DEF Goal
<1>10. Goal
  BY <1>3, <1>4, <1>5, <1>6, <1>7, <1>8, <1>9 DEF BotNext, Consume
<1> QED
  BY <1>10 DEF Goal


\* An order is placed under an id the account does not have yet.
LEMMA Placed ==
  ASSUME BotInv, NEW r \in Run, PlaceAt(r)
  PROVE  /\ position' \in Nat /\ clientOrderIDs' \subseteq Bar /\ orders' \in Seq(Bar)
         /\ OneOrderPerBar' /\ \A i \in 1..Len(orders') : orders'[i] \in clientOrderIDs'
<1>0. /\ orders \in Seq(Bar) /\ OneOrderPerBar /\ \A i \in 1..Len(orders) : orders[i] \in clientOrderIDs
      /\ position \in Nat /\ clientOrderIDs \subseteq Bar
  BY DEF BotInv, BotTypeOK, OrderIDs
<1>1. CASE UNCHANGED accountVars
  BY <1>0, <1>1 DEF accountVars, OneOrderPerBar
<1>2. CASE ~UNCHANGED accountVars
  <2>1. PICK t \in Bar : t = decision[r].bar
    BY DEF PlaceAt, BotInv, OrderIDs
  <2>2. /\ t \notin clientOrderIDs /\ clientOrderIDs' = clientOrderIDs \cup {t}
        /\ orders' = Append(orders, t)
    BY <1>2, <2>1 DEF PlaceAt
  <2>3. position' \in Nat
    BY <1>0, <1>2 DEF PlaceAt
  <2>4. /\ orders' \in Seq(Bar) /\ Len(orders') = Len(orders) + 1 /\ Len(orders) \in Nat
        /\ \A i \in 1..Len(orders) : orders'[i] = orders[i]
        /\ orders'[Len(orders) + 1] = t
    BY <1>0, <2>2, AppendProperties, LenProperties
  <2>5. \A i \in 1..Len(orders') : i \in 1..Len(orders) \/ i = Len(orders) + 1
    BY <2>4
  <2>6. \A i \in 1..Len(orders') : orders'[i] \in clientOrderIDs'
    BY <1>0, <2>2, <2>4, <2>5
  <2>7. OneOrderPerBar'
    <3> SUFFICES ASSUME NEW i \in 1..Len(orders'), NEW j \in 1..Len(orders'), i # j
                 PROVE  orders'[i] # orders'[j]
      BY DEF OneOrderPerBar
    <3>1. CASE i \in 1..Len(orders) /\ j \in 1..Len(orders)
      BY <3>1, <1>0, <2>4 DEF OneOrderPerBar
    <3>2. CASE i = Len(orders) + 1
      BY <3>2, <1>0, <2>2, <2>4, <2>5
    <3>3. CASE j = Len(orders) + 1
      BY <3>3, <1>0, <2>2, <2>4, <2>5
    <3> QED
      BY <3>1, <3>2, <3>3, <2>5
  <2> QED
    BY <1>0, <2>2, <2>3, <2>4, <2>6, <2>7
<1> QED
  BY <1>1, <1>2

\* Every step keeps the types, the window, the orders and their ids.
LEMMA BotBarsInv ==
  ASSUME BotInv, [BotNext]_botVars
  PROVE  BotTypeOK' /\ WindowInOrder' /\ OneOrderPerBar' /\ OrderIDs'
<1> USE DEF BotInv
<1>0. /\ phase' \in [Run -> {"none", "subscribing", "consuming", "deciding", "placing",
                             "ended", "failed"}]
      /\ \A r \in Run : r <= starts' <=> phase'[r] # "none"
  BY RunsInv
<1> DEFINE Goal == BotTypeOK' /\ WindowInOrder' /\ OneOrderPerBar' /\ OrderIDs'
<1>1. ASSUME UNCHANGED <<windowVars, streamVars, decision, accountVars>>,
             stage' \in Stage, running' \in BOOLEAN, running' => stage' \in Runnable,
             starts' \in 0..MaxStarts, cancel' \in 0..starts',
             paperFunded' \in BOOLEAN, stage' = "paper" => paperFunded',
             cancelling' \subseteq Run, done' \subseteq Run,
             \A r \in Run : phase'[r] \in {"deciding", "placing"} =>
                              phase[r] \in {"deciding", "placing"}
      PROVE  Goal
  BY <1>0, <1>1 DEF BotTypeOK, WindowInOrder, OneOrderPerBar, OrderIDs, windowVars, streamVars,
                    accountVars
<1>2. ASSUME NEW to \in Runnable, StartRun(to)
      PROVE  Goal
  <2>1. UNCHANGED <<cancelling, done, streamVars, decision, accountVars>>
    BY <1>2 DEF StartRun
  <2>2. bars' = <<>> /\ lastBar' = 0 /\ bars' \in Seq(Bar) /\ Len(bars') = 0
    BY <1>2 DEF StartRun
  <2>3. starts' \in 0..MaxStarts /\ cancel' \in 0..starts'
    BY <1>2, StartsAssumption DEF StartRun, BotTypeOK
  <2>4. /\ stage' \in Stage /\ stage' \in Runnable /\ running' \in BOOLEAN
        /\ paperFunded' \in BOOLEAN /\ (stage' = "paper" => paperFunded')
    BY <1>2 DEF StartRun, BotTypeOK, Runnable, Stage
  <2>5. \A r \in Run : phase'[r] \in {"deciding", "placing"} => phase[r] \in {"deciding", "placing"}
    BY <1>2 DEF StartRun, BotTypeOK
  <2>6. BotTypeOK'
    BY <1>0, <2>1, <2>2, <2>3, <2>4, HistoryAssumption, BarsAssumption
       DEF BotTypeOK, streamVars, accountVars
  <2>7. WindowInOrder'
    BY <2>2 DEF WindowInOrder
  <2>8. OneOrderPerBar' /\ OrderIDs'
    BY <2>1, <2>5 DEF OneOrderPerBar, OrderIDs, accountVars
  <2> QED
    BY <2>6, <2>7, <2>8
<1>3. ASSUME Stop
      PROVE  Goal
  <2>1. UNCHANGED <<paperFunded, starts, phase, done, streamVars, decision, accountVars>>
    BY <1>3 DEF Stop, StopTaking
  <2>2. bars' = <<>> /\ lastBar' = 0 /\ bars' \in Seq(Bar) /\ Len(bars') = 0
    BY <1>3 DEF Stop, StopTaking
  <2>3. /\ cancel' \in 0..starts' /\ running' = FALSE /\ stage' = "stopped"
        /\ cancelling' \subseteq Run
    BY <1>3, <2>1, StartsAssumption DEF Stop, StopTaking, BotTypeOK, Run
  <2>4. BotTypeOK'
    <3>1. /\ stage' \in Stage /\ running' \in BOOLEAN /\ (running' => stage' \in Runnable)
          /\ (stage' = "paper" => paperFunded')
      BY <2>3 DEF Stage
    <3>2. /\ paperFunded' \in BOOLEAN /\ starts' \in 0..MaxStarts /\ done' \subseteq Run
      BY <2>1 DEF BotTypeOK
    <3>3. Len(bars') <= HistoryLimit /\ lastBar' \in 0..MaxBars
      BY <2>2, HistoryAssumption, BarsAssumption
    <3> QED
      BY <1>0, <2>1, <2>2, <2>3, <3>1, <3>2, <3>3 DEF BotTypeOK, streamVars, accountVars
  <2>5. WindowInOrder'
    BY <2>2 DEF WindowInOrder
  <2>6. OneOrderPerBar' /\ OrderIDs'
    BY <2>1 DEF OneOrderPerBar, OrderIDs, accountVars
  <2> QED
    BY <2>4, <2>5, <2>6
<1>4. ASSUME Promote \/ UNCHANGED botVars
      PROVE  Goal
  BY <1>1, <1>4 DEF Promote, botVars, stageVars, BotTypeOK, Stage, Runnable
<1>5. ASSUME NEW r \in Run, SubscribeSucceeds(r) \/ SubscribeFails(r) \/ CancelRun(r) \/ ConsumeEnds(r)
      PROVE  Goal
  <2>1. UNCHANGED <<windowVars, streamVars, decision, accountVars, starts, paperFunded, cancelling>>
    BY <1>5 DEF SubscribeSucceeds, SubscribeFails, CancelRun, ConsumeEnds, stageVars
  <2>2. \/ UNCHANGED <<stage, running, cancel>>
        \/ stage' = "stopped" /\ running' = FALSE /\ cancel' = 0
    <3>1. SubscribeFails(r) => stage' = "stopped" /\ running' = FALSE /\ cancel' = 0
      BY DEF SubscribeFails
    <3>2. SubscribeSucceeds(r) \/ CancelRun(r) \/ ConsumeEnds(r) => UNCHANGED <<stage, running, cancel>>
      BY DEF SubscribeSucceeds, CancelRun, ConsumeEnds, stageVars
    <3> QED
      BY <1>5, <3>1, <3>2
  <2>3. done' = done \/ done' = done \cup {r}
    BY <1>5 DEF SubscribeSucceeds, SubscribeFails, CancelRun, ConsumeEnds
  <2>4. \/ phase' = phase
        \/ phase' = [phase EXCEPT ![r] = "consuming"]
        \/ phase' = [phase EXCEPT ![r] = "failed"]
        \/ phase' = [phase EXCEPT ![r] = "ended"]
    BY <1>5 DEF SubscribeSucceeds, SubscribeFails, CancelRun, ConsumeEnds
  <2>5. \A x \in Run : phase'[x] \in {"deciding", "placing"} => phase[x] \in {"deciding", "placing"}
    BY <2>4 DEF BotTypeOK
  <2>6. /\ stage' \in Stage /\ running' \in BOOLEAN /\ (running' => stage' \in Runnable)
        /\ (stage' = "paper" => paperFunded')
    <3>1. CASE UNCHANGED <<stage, running, cancel>>
      BY <2>1, <3>1 DEF BotTypeOK
    <3>2. CASE stage' = "stopped" /\ running' = FALSE
      BY <3>2 DEF Stage
    <3> QED
      BY <2>2, <3>1, <3>2
  <2>7. /\ starts' \in 0..MaxStarts /\ paperFunded' \in BOOLEAN
        /\ cancelling' \subseteq Run /\ done' \subseteq Run
    BY <2>1, <2>3 DEF BotTypeOK
  <2>8. cancel' \in 0..starts'
    BY <2>1, <2>2, <2>7, StartsAssumption DEF BotTypeOK
  <2> QED
    BY <1>1, <2>1, <2>5, <2>6, <2>7, <2>8
<1>6. ASSUME NEW r \in Run, ReadAccount(r)
      PROVE  Goal
  BY <1>1, <1>6 DEF ReadAccount, stageVars, BotTypeOK
<1>7. ASSUME NEW r \in Run, Emit(r)
      PROVE  Goal
  <2>1. PICK t \in (sent[r] + 1)..MaxBars :
          sent' = [sent EXCEPT ![r] = t] /\ stream' = [stream EXCEPT ![r] = Append(stream[r], t)]
    BY <1>7 DEF Emit
  <2>2. t \in Bar /\ t \in 0..MaxBars
    BY BarsAssumption DEF BotTypeOK, Bar
  <2>3. /\ Append(stream[r], t) \in Seq(Bar) /\ Len(Append(stream[r], t)) = Len(stream[r]) + 1
        /\ Len(stream[r]) \in Nat /\ Len(stream[r]) < Buffered
    BY <1>7, <2>2, AppendProperties, LenProperties DEF BotTypeOK, Emit
  <2>4. Len(Append(stream[r], t)) <= Buffered
    BY <2>3, BufferedAssumption
  <2>5. /\ stream' \in [Run -> Seq(Bar)] /\ \A x \in Run : Len(stream'[x]) <= Buffered
        /\ sent' \in [Run -> 0..MaxBars]
    BY <2>1, <2>2, <2>3, <2>4 DEF BotTypeOK
  <2>6. UNCHANGED <<stageVars, windowVars, phase, cancelling, done, decision, accountVars>>
    BY <1>7 DEF Emit
  <2> QED
    BY <2>5, <2>6 DEF stageVars, windowVars, accountVars, BotTypeOK, WindowInOrder, OneOrderPerBar,
                      OrderIDs
<1>8. ASSUME NEW r \in Run, HandleBar(r)
      PROVE  Goal
  <2>1. /\ bars' \in Seq(Bar) /\ Len(bars') <= HistoryLimit /\ lastBar' \in 0..MaxBars
        /\ WindowInOrder'
        /\ stream' \in [Run -> Seq(Bar)] /\ \A x \in Run : Len(stream'[x]) <= Buffered
        /\ decision' \in [Run -> [bar : 0..MaxBars, signal : Signal]]
    BY <1>8, Handled
  <2>2. /\ phase' = [phase EXCEPT ![r] = phase'[r]] /\ phase'[r] \in {"consuming", "deciding"}
        /\ phase'[r] = "deciding" => decision'[r].bar \in Bar
        /\ \A x \in Run : x # r => decision'[x] = decision[x]
    BY <1>8, Handled
  <2>3. UNCHANGED <<stageVars, cancelling, done, sent, accountVars>>
    BY <1>8 DEF HandleBar, HandleKeeping
  <2>4. BotTypeOK'
    BY <1>0, <2>1, <2>3 DEF BotTypeOK, stageVars, accountVars
  <2>5. \A x \in Run : phase'[x] \in {"deciding", "placing"} => decision'[x].bar \in Bar
    <3> TAKE x \in Run
    <3>1. CASE x = r
      BY <3>1, <2>2
    <3>2. CASE x # r
      BY <3>2, <2>2 DEF BotTypeOK, OrderIDs
    <3> QED
      BY <3>1, <3>2
  <2>6. OneOrderPerBar' /\ OrderIDs'
    BY <2>3, <2>5 DEF OneOrderPerBar, OrderIDs, accountVars
  <2> QED
    BY <2>1, <2>4, <2>6
<1>9. ASSUME NEW r \in Run, PlaceAt(r)
      PROVE  Goal
  <2>1. /\ position' \in Nat /\ clientOrderIDs' \subseteq Bar /\ orders' \in Seq(Bar)
        /\ OneOrderPerBar' /\ \A i \in 1..Len(orders') : orders'[i] \in clientOrderIDs'
    BY <1>9, Placed
  <2>2. /\ UNCHANGED <<stageVars, windowVars, cancelling, done, streamVars, decision>>
        /\ phase' = [phase EXCEPT ![r] = "consuming"]
    BY <1>9 DEF PlaceAt
  <2>3. BotTypeOK'
    BY <1>0, <2>1, <2>2 DEF BotTypeOK, stageVars, windowVars, streamVars
  <2>4. WindowInOrder'
    BY <2>2 DEF WindowInOrder, windowVars
  <2>5. OrderIDs'
    BY <2>1, <2>2 DEF OrderIDs, BotTypeOK
  <2> QED
    BY <2>1, <2>3, <2>4, <2>5
<1> HIDE DEF Goal
<1>10. Goal
  BY <1>2, <1>3, <1>4, <1>5, <1>6, <1>7, <1>8, <1>9 DEF BotNext, Consume
<1> QED
  BY <1>10 DEF Goal

\* BotInv holds in every reachable state.
THEOREM BotInvariance == BotSpec => []BotInv
<1>1. BotInit => BotInv
  <2> SUFFICES ASSUME BotInit
               PROVE  BotInv
    OBVIOUS
  <2>1. <<>> \in Seq(Bar) /\ Len(<<>>) = 0
    OBVIOUS
  <2>2. BotTypeOK
    <3>1. /\ stream \in [Run -> Seq(Bar)] /\ \A r \in Run : Len(stream[r]) <= Buffered
          /\ bars \in Seq(Bar) /\ Len(bars) <= HistoryLimit /\ orders \in Seq(Bar)
      BY <2>1, BufferedAssumption, HistoryAssumption DEF BotInit
    <3>2. /\ cancel \in 0..starts /\ starts \in 0..MaxStarts /\ lastBar \in 0..MaxBars
          /\ sent \in [Run -> 0..MaxBars]
          /\ decision \in [Run -> [bar : 0..MaxBars, signal : Signal]]
      BY StartsAssumption, BarsAssumption DEF BotInit, NoDecision, Signal
    <3>3. \A r \in Run : r <= starts <=> phase[r] # "none"
      BY StartsAssumption DEF BotInit, Run
    <3> QED
      BY <3>1, <3>2, <3>3 DEF BotInit, BotTypeOK, Stage
  <2>3. WindowInOrder /\ OneOrderPerBar /\ OrderIDs
    BY <2>1 DEF BotInit, WindowInOrder, OneOrderPerBar, OrderIDs
  <2>4. CancelHeld /\ ControlledUntilFailure
    BY DEF BotInit, CancelHeld, ControlledUntilFailure, Controlled
  <2> QED
    BY <2>2, <2>3, <2>4 DEF BotInv
<1>2. BotInv /\ [BotNext]_botVars => BotInv'
  BY RunsInv, BotBarsInv DEF BotInv
<1> QED
  BY <1>1, <1>2, PTL DEF BotSpec

\* A bar enters the replay window of a bot once and in order, and is traded once,
\* over every run, stop and restart.
THEOREM OncePerBar == BotSpec => []BarsOnce
<1>1. BotInv => BarsOnce
  BY DEF BotInv, BarsOnce
<1> QED
  BY BotInvariance, <1>1, PTL

\* As long as no subscription has failed, the next Stop reaches every run that is
\* not over or being ended.
THEOREM KillSwitch == BotSpec => []ControlledUntilFailure
<1>1. BotInv => ControlledUntilFailure
  BY DEF BotInv
<1> QED
  BY BotInvariance, <1>1, PTL


-----------------------------------------------------------------------------
(* ClosedBars.tla *)

\* The candles sent so far, oldest first; the last of them is `last`.
Sent ==
  /\ \A i \in 1..Len(emitted) - 1 : emitted[i] < emitted[i + 1]
  /\ last = IF emitted = <<>> THEN 0 ELSE emitted[Len(emitted)]

\* What this emit still has to send comes next: unless a reply reached too far,
\* no candle between it and the last one is missing.
NextPart ==
  /\ \A b \in closed : b > last
  /\ producer \notin {"send", "ended"} => closed = {}
  /\ producer = "send" => closed # {}
  /\ ~late => \A x \in closed : \A b \in Traded : last < b /\ b < x => b \in closed

BarsInv == BarsTypeOK /\ Sent /\ (~late => Contiguous) /\ NextPart

\* A set of numbers that is not empty has a least element.
LEMMA LeastOf ==
  ASSUME NEW S \in SUBSET Nat, S # {}
  PROVE  Min(S) \in S /\ \A y \in S : Min(S) <= y
<1>1. PICK x \in S : \A y \in S : ~(<<y, x>> \in OpToRel(<, Nat))
  <2> HIDE DEF OpToRel
  <2> QED
    BY NatLessThanWellFounded, WFMin
<1>2. \A y \in S : ~(y < x)
  <2> TAKE y \in S
  <2>1. <<y, x>> \in Nat \X Nat
    OBVIOUS
  <2> QED
    BY <1>1, <2>1, Zenon DEF OpToRel
<1>3. \A y \in S : x <= y
  BY <1>2
<1> QED
  BY <1>3 DEF Min

\* One with a bound has a greatest: its distance to the bound is the least.
LEMMA GreatestOf ==
  ASSUME NEW n \in Nat, NEW S \in SUBSET (0..n), S # {}
  PROVE  Max(S) \in S /\ \A y \in S : Max(S) >= y
<1> DEFINE D == {n - y : y \in S}
<1>1. D \in SUBSET Nat /\ D # {}
  <2>1. \A y \in S : n - y \in Nat
    OBVIOUS
  <2> QED
    BY <2>1
<1>2. Min(D) \in D /\ \A d \in D : Min(D) <= d
  BY <1>1, LeastOf
<1>3. PICK x \in S : Min(D) = n - x
  BY <1>2
<1>4. \A y \in S : x >= y
  <2> TAKE y \in S
  <2>1. n - x <= n - y
    BY <1>2, <1>3
  <2> QED
    BY <2>1
<1> QED
  BY <1>4 DEF Max

\* The candle that stands for all before it is one of them.
LEMMA NewestStands ==
  ASSUME BarsTypeOK, NEW candles \in SUBSET Traded, closed = {}, closed' = {},
         Sent, ~late => Contiguous, TakeNewest(candles), late' = late
  PROVE  /\ emitted' \in Seq(Traded) /\ last' \in 0..End
         /\ Sent' /\ (~late' => Contiguous')
<1>1. CASE candles = {}
  BY <1>1 DEF TakeNewest, Sent, Contiguous, BarsTypeOK
<1>2. CASE candles # {}
  <2>1. candles \in SUBSET (0..End)
    BY TradedAssumption, EndAssumption
  <2>2. PICK m \in candles : m = Max(candles)
    BY <2>1, <1>2, GreatestOf, EndAssumption
  <2>3. last' = m /\ emitted' = <<m>> /\ m \in Traded
    BY <1>2, <2>2 DEF TakeNewest
  <2>4. emitted' \in Seq(Traded) /\ Len(emitted') = 1 /\ emitted'[1] = m /\ emitted' # <<>>
    BY <2>3
  <2>5. last' \in 0..End
    BY <2>1, <2>3
  <2> QED
    BY <2>3, <2>4, <2>5 DEF Sent, Contiguous
<1> QED
  BY <1>1, <1>2

\* A reply in time has every closed candle from the last one to its newest: it
\* covers at most as many intervals as it was asked to have candles.
LEMMA Enough ==
  ASSUME BarsTypeOK, NEW h \in 0..cutoff + 2, NEW b \in Traded,
         last # 0, last < b, b < cutoff, b <= h,
         ~(cutoff > last /\ cutoff - last + 2 > MaxCount)
  PROVE  b \in Newest(CountMissed, h)
<1>1. /\ last \in Nat /\ cutoff \in Nat /\ b \in Nat /\ h \in Nat
      /\ MinCount \in Nat /\ MaxCount \in Nat
  BY TradedAssumption, CountAssumption, EndAssumption DEF BarsTypeOK
<1>2. PICK missed \in Nat : missed = cutoff - last + 2 /\ missed <= MaxCount
  BY <1>1
<1>3. PICK most \in Nat : most = Max({MinCount, missed}) /\ most >= missed
  <2>1. PICK n \in Nat : MinCount <= n /\ missed <= n
    BY <1>1, <1>2
  <2>2. {MinCount, missed} \in SUBSET (0..n) /\ {MinCount, missed} # {}
    BY <1>1, <2>1
  <2>3. Max({MinCount, missed}) \in {MinCount, missed} /\ \A y \in {MinCount, missed} : Max({MinCount, missed}) >= y
    BY <2>2, GreatestOf
  <2> QED
    BY <2>3, <1>1
<1>4. PICK n \in Nat : n = Min({most, MaxCount}) /\ n >= missed
  <2>1. {most, MaxCount} \in SUBSET Nat /\ {most, MaxCount} # {}
    BY <1>1
  <2>2. Min({most, MaxCount}) \in {most, MaxCount}
    BY <2>1, LeastOf
  <2> QED
    BY <2>2, <1>1, <1>2, <1>3
<1>5. CountMissed = n
  <2>1. cutoff > last
    BY <1>1
  <2> QED
    BY <2>1, <1>2, <1>3, <1>4 DEF CountMissed
<1>6. /\ Cardinality({x \in Traded : b <= x /\ x <= h}) \in Nat
      /\ Cardinality({x \in Traded : b <= x /\ x <= h}) <= h - b + 1
  <2>1. IsFiniteSet(b..h) /\ Cardinality(b..h) = h - b + 1
    BY <1>1, FS_Interval
  <2>2. \A x \in Traded : b <= x /\ x <= h => x \in b..h
    BY <1>1, TradedAssumption, EndAssumption
  <2>3. PICK T \in SUBSET (b..h) : T = {x \in Traded : b <= x /\ x <= h}
    BY <2>2
  <2>4. Cardinality(T) \in Nat /\ Cardinality(T) <= h - b + 1
    BY <2>1, FS_Subset, FS_CardinalityType
  <2> QED
    BY <2>3, <2>4
<1>7. h - b + 1 <= n
  BY <1>1, <1>2, <1>4
<1> QED
  BY <1>1, <1>5, <1>6, <1>7 DEF Newest

\* The queue and the clocks hold what they should.
LEMMA BarsTypeStep ==
  ASSUME BarsInv, [BarsNext]_barVars
  PROVE  /\ clock' \in 1..End /\ outages' \in 0..Outages /\ timer' \in 0..End
         /\ {online', connected', ctxDone', late'} \subseteq BOOLEAN
         /\ events' \in Seq(Event) /\ Len(events') <= Queue
         /\ producer' \in {"seed", "select", "emit", "send", "ended"}
         /\ asked' \in 0..End /\ cutoff' \in 0..End
<1>0. BarsTypeOK
  BY DEF BarsInv
<1>1. clock' \in 1..End /\ outages' \in 0..Outages
  <2>1. ASSUME UNCHANGED <<clock, outages>>
        PROVE  clock' \in 1..End /\ outages' \in 0..Outages
    BY <1>0, <2>1 DEF BarsTypeOK
  <2>2. ASSUME Tick
        PROVE  clock' \in 1..End /\ outages' \in 0..Outages
    BY <1>0, <2>2, EndAssumption DEF BarsTypeOK, Tick
  <2>3. ASSUME SessionChanges
        PROVE  clock' \in 1..End /\ outages' \in 0..Outages
    BY <1>0, <2>3, OutagesAssumption DEF BarsTypeOK, SessionChanges
  <2> QED
    BY <2>1, <2>2, <2>3 DEF BarsNext, ProducerStep, barVars, Quote, Unsubscribe, Seed, TimerFires,
                            TakeEvent, History, Reply, HistoryFails, Send, StreamEnds
<1>2. timer' \in 0..End
  <2>1. NextClose \in 0..End /\ timer \in 0..End /\ 0 \in 0..End /\ clock \in 0..End
    BY <1>0, EndAssumption DEF BarsTypeOK, NextClose
  <2>2. EmitDone => timer' \in 0..End
    BY <2>1 DEF EmitDone
  <2> QED
    BY <2>1, <2>2
       DEF BarsNext, ProducerStep, barVars, Tick, Quote, SessionChanges, Unsubscribe, Seed,
           TimerFires, TakeEvent, History, Reply, HistoryFails, Send, StreamEnds
<1>3. {online', connected', ctxDone', late'} \subseteq BOOLEAN
  <2>1. online' \in BOOLEAN
    BY <1>0 DEF BarsTypeOK, BarsNext, ProducerStep, barVars, Tick, Quote, SessionChanges, Unsubscribe,
           Seed, TimerFires, TakeEvent, History, Reply, HistoryFails, Send, StreamEnds
  <2>2. ctxDone' \in BOOLEAN
    BY <1>0 DEF BarsTypeOK, BarsNext, ProducerStep, barVars, Tick, Quote, SessionChanges, Unsubscribe,
           Seed, TimerFires, TakeEvent, History, Reply, HistoryFails, Send, StreamEnds
  <2>3. late' \in BOOLEAN
    BY <1>0 DEF BarsTypeOK, BarsNext, ProducerStep, barVars, Tick, Quote, SessionChanges, Unsubscribe,
           Seed, TimerFires, TakeEvent, History, Reply, HistoryFails, Send, StreamEnds
  <2>4. connected' \in BOOLEAN
    <3>1. ASSUME TakeEvent
          PROVE  connected' \in BOOLEAN
      <4>1. PICK ev \in Event : ev = Head(events)
        BY <1>0, <3>1, HeadTailProperties DEF BarsTypeOK, TakeEvent
      <4>2. ev.type = "status" => ev.connected \in BOOLEAN
        BY DEF Event
      <4> QED
        BY <1>0, <3>1, <4>1, <4>2 DEF BarsTypeOK, TakeEvent
    <3> QED
      BY <1>0, <3>1
         DEF BarsTypeOK, BarsNext, ProducerStep, barVars, Tick, Quote, SessionChanges, Unsubscribe,
             Seed, TimerFires, History, Reply, HistoryFails, Send, StreamEnds
  <2> QED
    BY <2>1, <2>2, <2>3, <2>4
<1>4. events' \in Seq(Event) /\ Len(events') <= Queue
  <2>0. events \in Seq(Event) /\ Len(events) <= Queue /\ Queue \in Nat /\ Len(events) \in Nat
    BY <1>0, LenProperties, QueueAssumption DEF BarsTypeOK
  <2>1. ASSUME NEW ev \in Event, Push(ev)
        PROVE  events' \in Seq(Event) /\ Len(events') <= Queue
    BY <2>0, <2>1, AppendProperties DEF Push
  <2>2. ASSUME Quote
        PROVE  events' \in Seq(Event) /\ Len(events') <= Queue
    <3>1. [type |-> "quote", at |-> clock] \in Event
      BY <1>0 DEF BarsTypeOK, Event
    <3> QED
      BY <2>1, <2>2, <3>1 DEF Quote
  <2>3. ASSUME SessionChanges
        PROVE  events' \in Seq(Event) /\ Len(events') <= Queue
    <3>1. [type |-> "status", connected |-> ~online] \in Event
      BY DEF Event
    <3> QED
      BY <2>1, <2>3, <3>1 DEF SessionChanges
  <2>4. ASSUME TakeEvent
        PROVE  events' \in Seq(Event) /\ Len(events') <= Queue
    BY <2>0, <2>4, HeadTailProperties DEF TakeEvent
  <2>5. ASSUME UNCHANGED events
        PROVE  events' \in Seq(Event) /\ Len(events') <= Queue
    BY <2>0, <2>5
  <2> QED
    BY <2>2, <2>3, <2>4, <2>5 DEF BarsNext, ProducerStep, barVars, Tick, Unsubscribe, Seed, TimerFires,
                            History, Reply, HistoryFails, Send, StreamEnds
<1>5. producer' \in {"seed", "select", "emit", "send", "ended"}
  BY <1>0 DEF BarsTypeOK, BarsNext, ProducerStep, barVars, Tick, Quote, SessionChanges, Unsubscribe,
         Seed, TimerFires, TakeEvent, History, Reply, HistoryFails, Send, StreamEnds, EmitAt, EmitDone
<1>6. asked' \in 0..End /\ cutoff' \in 0..End
  <2>0. asked \in 0..End /\ cutoff \in 0..End /\ clock \in 0..End
    BY <1>0, EndAssumption DEF BarsTypeOK
  <2>1. ASSUME TakeEvent
        PROVE  asked' \in 0..End /\ cutoff' \in 0..End
    <3>1. PICK ev \in Event : ev = Head(events)
      BY <1>0, <2>1, HeadTailProperties DEF BarsTypeOK, TakeEvent
    <3>2. ev.type # "status" => ev.at \in 0..End
      BY EndAssumption DEF Event
    <3> QED
      BY <2>0, <2>1, <3>1, <3>2 DEF TakeEvent, EmitAt
  <2> QED
    BY <2>0, <2>1 DEF BarsNext, ProducerStep, barVars, Tick, Quote, SessionChanges, Unsubscribe, Seed,
                      TimerFires, History, Reply, HistoryFails, Send, StreamEnds, EmitAt
<1> QED
  BY <1>1, <1>2, <1>3, <1>4, <1>5, <1>6

\* A candle is sent after the one before it, and none between the two is left.
LEMMA SentNext ==
  ASSUME BarsInv, Send
  PROVE  /\ emitted' \in Seq(Traded) /\ last' \in 0..End /\ closed' \subseteq Traded
         /\ Sent' /\ (~late' => Contiguous') /\ NextPart'
<1>0. /\ emitted \in Seq(Traded) /\ closed \subseteq Traded /\ Len(emitted) \in Nat
      /\ Traded \subseteq 0..End
      /\ \A b \in Traded : b \in Nat
  BY LenProperties, TradedAssumption, EndAssumption DEF BarsInv, BarsTypeOK
<1>1. PICK bar \in closed : bar = Min(closed) /\ \A y \in closed : bar <= y
  <2>1. closed \in SUBSET Nat /\ closed # {}
    BY <1>0 DEF BarsInv, NextPart, Send
  <2> QED
    BY <2>1, LeastOf
<1>2. /\ emitted' = Append(emitted, bar) /\ last' = bar /\ closed' = closed \ {bar} /\ late' = late
      /\ closed = {bar} => producer' = "select"
      /\ closed # {bar} => producer' = "send"
  BY <1>1 DEF Send, EmitDone, BarsInv
<1>3. /\ emitted' \in Seq(Traded) /\ Len(emitted') = Len(emitted) + 1
      /\ \A i \in 1..Len(emitted) : emitted'[i] = emitted[i]
      /\ emitted'[Len(emitted) + 1] = bar /\ emitted' # <<>>
  BY <1>0, <1>1, <1>2, AppendProperties
<1>4. last < bar
  BY <1>1 DEF BarsInv, NextPart
<1>5. ~late => \A b \in Traded : ~(last < b /\ b < bar)
  <2> SUFFICES ASSUME ~late, NEW b \in Traded, last < b, b < bar
               PROVE  FALSE
    OBVIOUS
  <2>1. b \in closed
    BY <1>1 DEF BarsInv, NextPart
  <2> QED
    BY <2>1, <1>0, <1>1
<1>6. \A i \in 1..Len(emitted') - 1 :
        \/ i \in 1..Len(emitted) - 1 /\ emitted'[i] = emitted[i] /\ emitted'[i + 1] = emitted[i + 1]
        \/ emitted'[i] = last /\ emitted'[i + 1] = bar
  <2> TAKE i \in 1..Len(emitted') - 1
  <2>1. CASE i = Len(emitted)
    <3>1. emitted # <<>> /\ i \in 1..Len(emitted)
      BY <1>0, <1>3, <2>1
    <3>2. last = emitted[Len(emitted)]
      BY <3>1 DEF BarsInv, Sent
    <3> QED
      BY <1>3, <2>1, <3>1, <3>2
  <2>2. CASE i # Len(emitted)
    <3>1. i \in 1..Len(emitted) - 1 /\ i \in 1..Len(emitted) /\ i + 1 \in 1..Len(emitted)
      BY <1>0, <1>3, <2>2
    <3> QED
      BY <1>3, <3>1
  <2> QED
    BY <2>1, <2>2
<1>7. Sent'
  <2>1. \A i \in 1..Len(emitted') - 1 : emitted'[i] < emitted'[i + 1]
    BY <1>4, <1>6 DEF BarsInv, Sent
  <2>2. last' = emitted'[Len(emitted')]
    BY <1>2, <1>3
  <2> QED
    BY <1>3, <2>1, <2>2 DEF Sent
<1>8. ~late' => Contiguous'
  BY <1>2, <1>5, <1>6 DEF BarsInv, Contiguous
<1>9. NextPart'
  <2>1. \A b \in closed' : b > last'
    <3> SUFFICES ASSUME NEW b \in closed, b # bar
                 PROVE  b > bar
      BY <1>2
    <3> QED
      BY <1>0, <1>1
  <2>2. ~late' => \A x \in closed' : \A b \in Traded : last' < b /\ b < x => b \in closed'
    <3> SUFFICES ASSUME ~late, NEW x \in closed, NEW b \in Traded, bar < b, b < x
                 PROVE  b \in closed /\ b # bar
      BY <1>2
    <3>1. last < b /\ last \in Nat
      BY <1>0, <1>4, EndAssumption DEF BarsInv, BarsTypeOK
    <3> QED
      BY <3>1, <1>0 DEF BarsInv, NextPart
  <2> QED
    BY <2>1, <2>2, <1>1, <1>2 DEF NextPart
<1>10. last' \in 0..End
  BY <1>0, <1>1, <1>2
<1> QED
  BY <1>0, <1>2, <1>3, <1>7, <1>8, <1>9, <1>10

\* A reply leaves the closed candles after the last one to be sent: all of them,
\* when it was in time.
LEMMA Replied ==
  ASSUME BarsInv, NEW h \in Published, Reply(CountMissed, h)
  PROVE  /\ emitted' \in Seq(Traded) /\ last' \in 0..End /\ closed' \subseteq Traded
         /\ Sent' /\ (~late' => Contiguous') /\ NextPart'
<1> DEFINE candles == {b \in Newest(CountMissed, h) : b < cutoff}
           due == {b \in candles : b > last}
<1>0. producer = "emit" /\ closed = {} /\ BarsTypeOK
  BY DEF BarsInv, NextPart, Reply
<1>1. candles \in SUBSET Traded
  BY DEF Newest
<1>2. CASE last = 0
  <2>1. TakeNewest(candles) /\ producer' = "select" /\ UNCHANGED <<closed, late>>
    BY <1>2 DEF Reply, EmitDone
  <2> HIDE DEF candles
  <2>2. /\ emitted' \in Seq(Traded) /\ last' \in 0..End
        /\ Sent' /\ (~late' => Contiguous')
    BY <1>0, <1>1, <2>1, NewestStands DEF BarsInv
  <2> QED
    BY <1>0, <2>1, <2>2 DEF NextPart
<1>3. CASE last # 0
  <2>1. /\ closed' = due /\ UNCHANGED <<last, emitted>>
        /\ ~late' => ~late /\ ~(h > cutoff + 2) /\ ~(cutoff > last /\ cutoff - last + 2 > MaxCount)
        /\ producer' = IF due = {} THEN "select" ELSE "send"
    BY <1>3 DEF Reply, EmitDone
  <2>2. /\ last \in Nat /\ cutoff \in Nat /\ h \in Nat /\ Traded \subseteq Nat
    BY <1>0, TradedAssumption, EndAssumption DEF BarsTypeOK, Published
  <2>3. ~late' => \A x \in due : \A b \in Traded : last < b /\ b < x => b \in due
    <3> SUFFICES ASSUME ~late', NEW x \in due, NEW b \in Traded, last < b, b < x
                 PROVE  b \in due
      OBVIOUS
    <3>1. x < cutoff /\ x <= h /\ x \in Nat
      BY <2>2 DEF Newest
    <3>2. b < cutoff /\ b <= h /\ h \in 0..cutoff + 2
      BY <2>1, <2>2, <3>1
    <3>3. b \in Newest(CountMissed, h)
      BY <1>0, <1>3, <2>1, <3>2, Enough
    <3> QED
      BY <3>2, <3>3
  <2>4. due \subseteq Traded /\ \A b \in due : b > last
    BY <1>1
  <2>5. NextPart'
    <3> HIDE DEF due
    <3> QED
      BY <2>1, <2>3, <2>4 DEF NextPart
  <2>6. Sent' /\ (~late' => Contiguous')
    BY <2>1 DEF BarsInv, Sent, Contiguous
  <2> HIDE DEF due
  <2> QED
    BY <1>0, <2>1, <2>4, <2>5, <2>6 DEF BarsTypeOK
<1> QED
  BY <1>2, <1>3

\* The inductive invariant of the stream of closed bars.
THEOREM BarsInvariance == BarsSpec => []BarsInv
<1>1. BarsInit => BarsInv
  <2> SUFFICES ASSUME BarsInit
               PROVE  BarsInv
    OBVIOUS
  <2>1. /\ emitted = <<>> /\ last = 0 /\ closed = {} /\ producer = "seed" /\ events = <<>>
        /\ cutoff = 0 /\ asked = 0 /\ outages = 0 /\ clock \in 1..End /\ timer = clock
        /\ {online, connected, ctxDone, late} \subseteq BOOLEAN
    BY DEF BarsInit
  <2>2. /\ Len(events) = 0 /\ Len(emitted) = 0 /\ events \in Seq(Event) /\ emitted \in Seq(Traded)
    BY <2>1
  <2>3. BarsTypeOK
    BY <2>1, <2>2, EndAssumption, OutagesAssumption, QueueAssumption DEF BarsTypeOK
  <2> QED
    BY <2>1, <2>2, <2>3 DEF BarsInv, Sent, Contiguous, NextPart
<1>2. BarsInv /\ [BarsNext]_barVars => BarsInv'
  <2> SUFFICES ASSUME BarsInv, [BarsNext]_barVars
               PROVE  BarsInv'
    OBVIOUS
  <2> DEFINE Goal == /\ emitted' \in Seq(Traded) /\ last' \in 0..End /\ closed' \subseteq Traded
                     /\ Sent' /\ (~late' => Contiguous') /\ NextPart'
  \* A step that sends nothing and has nothing to send.
  <2>1. ASSUME UNCHANGED <<emitted, last, closed, late>>,
               producer' # producer => (closed = {} /\ producer' # "send") \/ producer' = "ended"
        PROVE  Goal
    BY <2>1 DEF BarsInv, BarsTypeOK, Sent, Contiguous, NextPart
  <2>2. ASSUME Tick \/ Quote \/ SessionChanges \/ Unsubscribe \/ StreamEnds \/ UNCHANGED barVars
        PROVE  Goal
    BY <2>1, <2>2 DEF Tick, Quote, SessionChanges, Unsubscribe, StreamEnds, barVars
  <2>3. ASSUME TimerFires \/ TakeEvent \/ HistoryFails
        PROVE  Goal
    <3>1. closed = {}
      BY <2>3 DEF BarsInv, NextPart, TimerFires, TakeEvent, HistoryFails
    <3> QED
      BY <2>1, <2>3, <3>1 DEF TimerFires, TakeEvent, HistoryFails, EmitAt, EmitDone
  <2>4. ASSUME Seed
        PROVE  Goal
    <3>1. closed = {} /\ closed' = closed /\ late' = late /\ producer' = "select"
      BY <2>4 DEF BarsInv, NextPart, Seed
    <3>2. CASE UNCHANGED <<last, emitted>>
      BY <2>1, <3>1, <3>2
    <3>3. CASE \E h \in Published : TakeNewest({b \in Newest(3, h) : b < clock})
      <4>1. PICK candles \in SUBSET Traded : TakeNewest(candles)
        BY <3>3 DEF Newest
      <4>2. emitted' \in Seq(Traded) /\ last' \in 0..End /\ Sent' /\ (~late' => Contiguous')
        BY <3>1, <4>1, NewestStands DEF BarsInv
      <4> QED
        BY <3>1, <4>2 DEF NextPart
    <3> QED
      BY <2>4, <3>2, <3>3 DEF Seed
  <2>5. ASSUME History
        PROVE  Goal
    BY <2>5, Replied DEF History
  <2>6. ASSUME Send
        PROVE  Goal
    BY <2>6, SentNext
  <2> HIDE DEF Goal
  <2>7. Goal
    BY <2>2, <2>3, <2>4, <2>5, <2>6 DEF BarsNext, ProducerStep
  <2>8. /\ emitted' \in Seq(Traded) /\ last' \in 0..End /\ closed' \subseteq Traded
        /\ Sent' /\ (~late' => Contiguous') /\ NextPart'
    BY <2>7 DEF Goal
  <2>9. BarsTypeOK'
    BY <2>8, BarsTypeStep DEF BarsTypeOK
  <2> QED
    BY <2>8, <2>9 DEF BarsInv
<1> QED
  BY <1>1, <1>2, PTL DEF BarsSpec

\* The closed candles of a series come once, in order, and without a gap unless
\* a reply reached more than two intervals beyond what was asked for.
THEOREM StreamComplete == BarsSpec => []InOrderAndComplete
<1>1. BarsInv => InOrderAndComplete
  BY DEF BarsInv, Sent, InOrderAndComplete
<1> QED
  BY BarsInvariance, <1>1, PTL

=============================================================================
