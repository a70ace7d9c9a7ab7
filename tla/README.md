# TLA+ models of txmlconnector

txmlconnector speaks the broker protocol TRANSAQ in pure Go, serves it over
gRPC, and builds a trading terminal on top. This directory holds models of the
parts of it whose correctness depends on interleavings, failures and orders of
events, the TLC configurations that check them on small instances, and the
proofs TLAPS checks. `PROJECT.json` is the machine-readable index: components,
runs, the source lines every definition stands for, findings, hazards, theorems.

    tlc -workers 2 -config MCServer.cfg MCServer      # a run
    tlapm Broker_proofs.tla                           # the proofs of a module

Paths below are relative to `src/`.

## 1. The system

    application -- client (gRPC) -- server -- native.Connector -- native.Client
                                                                     |
    terminal: feed -- bots -- paper broker -- agent             native/session
              api, recorder, lobreplay, backtest                     |
                                                                 wire, TCP

A command goes down as an XML text and is answered at once; everything else
comes up as callbacks: from the session's polls through `Client`, the callback
queue of `Connector`, the `broker` of the gRPC server, a response stream, the
client's queue and one of its typed channels. The terminal uses `native.Client`
directly (`terminal/feed`), trades on a paper account and lets rules (bots) and
a language model (agent) decide.

| component | state | operations | what is hard | what makes it correct |
|---|---|---|---|---|
| `server/broker.go`, `service.go` | the map of subscriptions, their queues, `done`, `closed` | subscribe, publish, close; the `FetchResponseData` loop | publish, close and a handler's deferred close race; a slow stream is detached at its limit | a stream is a gapless run of the messages; the status is honest |
| `server/server.go` | gRPC server, listener, connector | Serve, graceful and forced stop | streams whose clients read nothing; order of shutdown | Serve returns, no RPC survives, the broker closes before the connector |
| `native/connector.go` | state, client, cancel and done of the last run, callback queue | Start, SendCommand, Close; the run of a session | commands (under `cmdMu`), runs (under `mu`) and the delivery goroutine; reports made after the unlock | runs do not overlap; every session ended once; every connect answered; silence after Close |
| `native/client*.go`, `recover.go`, `events_*.go` | catalog, masks, specifications, orders and their buffer, last trades, history collectors, `recovering`, `fatal` | load, Poll, Run, recover, Reconnect, subscribe, NewOrder, History, ChangePassword | numbers of instruments hold for one session only; commands around a Reconnect; replays | feeds follow the symbol; a trade is told once; orders have their last status |
| `native/session` | socket, deadline, abandoned replies, transaction counter | exchange, Transact, Restore, Close, Logout | cancellation in the middle of an exchange, late deadlines, broken links | a reply goes to its own request; an unsent transaction is told from an unknown one |
| `client` | unbounded queue, typed channels, context, shutdown | receive loop, dispatcher, Close, RunWithReconnect | a full channel, the end of the stream; commands that are late or lost | order, nothing lost while the session lives; one client at a time, replaced |
| `terminal/paper` | accounts, positions, orders, trades, keys | Allocate, Place, Cancel, OnQuote, Snapshot | an order is checked, filled and booked over five structures; retried keys | money is conserved, one order per key |
| `terminal/bot` | stage, cancel, window, runs | Start, Promote, Stop, the bar goroutine, executePaper | runs overlap a restart; three steps of an order without the lock | no bar replayed or ordered twice, the kill-switch reaches every run |
| `terminal/feed` | client, history cache and flights, closed-bar streams | Start, Close, runLoop, history, streamClosedBars | Close against a reconnect; a flight shared by callers; late quotes | nothing survives Close; candles in order and complete |
| `terminal/agent` proposals, autonomy | proposal ring, envelope slots, the autonomy run and its money | Propose, Approve, Reject; start, step, stop | Approve executes without its lock; the daily stop against a pending order | a tool runs once, a person or a slot behind every order, the kill-switch is final |
| `terminal/agent` dialogs | histories, their LRU order | Chat, Load, Append | concurrent requests of one dialog, failures after side effects, trimming | whole turns under the system prompt; a chat ends |
| `terminal/recorder` | sequence, pending books, gaps | handle, subscribe, the loop of md-recorder | a lost link, a restart of the process | a replay of the rows rebuilds the book |
| `terminal/lobreplay` | book, working orders, cash, trips | apply a row, fill, cancel | queue position, latency, resets, a position turned around | fills that could have happened, books that agree |
| `terminal/api`, `cmd/terminal` | SSE clients, event loop, main | subscribe, publish, closeAll; the shutdown | a slow or a late browser | the last state arrives; the process ends |
| wire, records, model, xmlcompat, payloads of session | none | encode, decode, render | widths and lengths | round trips, pinned by fixture tests |
| backtest, research, fingerprint, volatility, vintage | none | numeric functions of series | boundaries | fill rules |
| automation, storage, MCP, skills, web, `cmd/connector`, tools, testserver, replay, natsout, generated code | ledgers and adapters | | | |

`PROJECT.json` lists all 30 with their files and status, and 40 hazards of
the code, each at its line and with the properties that watch it.

## 2. What is modelled

Every module maps its definitions to source lines in `PROJECT.json`. An action
is one critical section, one channel operation or one step between two of them;
where the code unlocks in the middle of an operation, the operation is two
actions. Names follow the code. A definition called *faulty* in its comment is
a plausible bug (a dropped guard, a missing reset): no run uses it, it is the
mutated form of its neighbour that shows the property to be able to fail.

### FanOut, Broker, Broker_proofs (`server/broker.go`, `server/service.go`)

`Broker` has the broker's map, queues and `done` channels, and one
`FetchResponseData` call per handler: subscribe, header, select, send, deferred
close. The three cases of the select are three actions, because Go picks any
ready case. `done[h]` counts how often the channel was closed: a second close is
a panic. `Buffer` is the capacity of the queue (8192 by default), `joined` and
`sent` are history. `FanOut` is what the fan-out promises its clients: each
stream hands on the messages in order from where it joined, and may end at any
time; `ImplementsFanOut` says that `Broker` implements it.

### Server (`server/server.go`)

`Server` EXTENDS `Broker` and drives its `Publish` (the connector's callback),
`Close` and `Subscribe` (an accepted stream) from `Serve`: start of the
connector, the select on a failed listener or a cancelled context, the broker's
close, `GracefulStop` in a goroutine of its own, the timer and `Stop`, the wait
for `grpcServer.Serve`, the connector's close. gRPC itself is modelled from that
use.

### NativeConnector (`native/connector.go`, and the outcomes of `native.Client`)

The command that holds `cmdMu` and its program counter, a worker per accepted
connect, the bounded queue `out` with its delivery goroutine, and goroutines
that wait for a history. Login, load, poll and recovery are their outcomes:
`OpenFails`/`OpenSucceeds`, `LinkLost`, `PollFails`, `RecoveryEnds`. A send on
the closed queue sets `panicked` and ends the process. The other commands
(orders, subscriptions, requests for data) take `cmdMu`, make one exchange and
release it: they change nothing of this state.

### NativeClient (`native/client.go`, `recover.go`, `client_*.go`, `events_*.go`)

One `Client` with its server. The server numbers the instruments anew in each
session (`numbering`), so a secid kept over a Reconnect may mean something else;
its records wait in `inbox` until a poll takes them. `Run` polls, fails, recovers
within its window or ends; a fatal `change_pass` marks and closes. The commands are
one at a time, as `cmdMu` makes them; beside them run `Run`, one history request
and one `NewOrder`, whose lookup and send are two steps. `Reconnect` logs in,
publishes the connection, resets the stores, loads, resubscribes. The user may have
several clients of his own, whose records come one by one: an order waits
in `pendingOrders` for the first of them only. `told`,
`unheard`, `wanted`, `unsure`, `missed`, `wrong` and `broken` are history.

### Session (`native/session/login.go`, `transact.go`, `recover.go`)

One connection, its lock, deadline, and the frames on their way. The server
answers in request order. A cancelled exchange leaves its reply behind and its
type in `abandoned`; `readReply` drops such replies. The `AfterFunc` of a context
is a goroutine: `Fire` while its exchange runs, `StrayDeadline` when the exchange
was over before it ran. `late` counts the timeouts and stray deadlines of a
behaviour and is bounded by `MaxLate`.

### TCClient, Reconnect (`client/`)

`TCClient` is one stream: the receive loop, the queue with its one-token `notify`
channel, the dispatcher, the typed channels, the end of the stream in the order
of the deferred function, and an application that reads and closes when it
likes. `Reconnect` is the supervisor of `RunWithReconnect` over several clients: the
handshake with its timeout, the session, the disconnect that may be lost or
come late, the back-off, the stop; the connector is modelled from its answers.

### PaperBroker, PaperLedger, Sums (`terminal/paper/paper.go`)

Accounts, positions, orders, trades and client order ids under one lock;
`OnQuote` is a walk over the orders with `cursor`, one fill per step, during which
nothing else may run. Money is exact: cash and fees are integers in units that
the fee rate divides, average prices are fractions. `float64` rounding is not
modelled. `PaperLedger` adds the sums that relate accounts to the trade log, and
what `Snapshot` lists. `Sums` has the total of a sequence, as a recursive function
that proofs can reason about.

### BotManager (`terminal/bot`)

The runs of one bot. `Start` ends at its unlock and the subscription succeeds or
fails later; `Stop` takes the cancel function and calls it later (`cancelling`,
`done`); a bar is handled under the lock, and on paper a signal leads to
`ReadAccount` and `PlaceAt` without it. What a rule decides is free. The position
is that of the bot's paper account, quantities in units of the bot's size.

### Autonomy, Approval (`terminal/agent/autonomy.go`, `risk.go`, `proposals.go`, `limits.go`)

`Autonomy` EXTENDS `PaperBroker`: a run takes money into its account, walks the
bars of a short history, fills yesterday's decision, decides, stops at its
limits, sells out and gives the money back. `Approval` EXTENDS `Autonomy`: request
threads call tools, which pass the risk check, the envelope with its slots, or
become proposals in the ring; `Approve` takes the proposal under the lock and
runs the tool without it. The state of the paper broker is shared by all.

### Chat (`terminal/agent/llm.go`, `conversation.go`, `analyst.go`)

A goroutine per request: `Load`, requests to the model until it answers, calls or
fails, the tools of a reply one by one, `Append` with `trimConversation` and
`evictLocked`, or the fallback. Only the store is under a lock. A message is its
role, a reply knows how many tools it called; the budget of bytes counts
messages. What the tools do is in `Approval`.

### LiveFeed, ClosedBars (`terminal/feed/feed.go`, `live.go`)

`LiveFeed` has `Start`, `Close`, the loop with its reconnects and pollers, and the
history cache with the flight that callers of one series share. `ClosedBars` is
one stream of closed candles: the event queue, the timer, the producer with its
cutoff and the history it asks for, outages of the session.

### LobBook, Recording, LobReplay (`terminal/recorder`, `cmd/md-recorder`, `terminal/lobreplay`)

`LobBook` is the book both ends share. `Recording` records the rows of one
instrument over sessions, lost links and restarts, and replays them beside the
exchange's own book. `LobReplay` is the engine: rows are applied, orders wait
for their latency, queue, fill, are cancelled, and the account keeps its trips.
One operator is one order's turn in a walk of the engine (`ActivateOne`, `TradeOne`,
`SubmitOne`), the walk is their fold. Each step up in size truncates the average
price (`fill.go:378`), so that trips and cash may differ by less than one
unit of money per unit held: with `got` units filled in all by at most
`got * (got - 1) / 2`, which is the bound in `TripsMatchCash`.

### Terminal (`terminal/api/sse.go`, the event loop, `cmd/terminal`)

The hub with a bounded channel per tab, the handler of a stream, the event loop
that publishes quotes and portfolio, requests that change the account, and main's
shutdown in the order of the code.

### The proof modules

`Broker_proofs` (Broker and Server), `Client_proofs` (TCClient, Reconnect and
NativeConnector), `Session_proofs` (Session and NativeClient), `Paper_proofs`
(PaperBroker and PaperLedger), `Replay_proofs` (LobReplay), `Agent_proofs` (Autonomy
and Approval), `Feed_proofs` (LiveFeed, BotManager and ClosedBars) and
`Terminal_proofs` (Terminal, Recording and Chat) hold the theorems of section 5, each
about the component's own module. `Replay_proofs` extends `Paper_proofs` for its
lemmas on folds and totals only.

### The MC modules

`MCServer`, `MCNative`, `MCRecords`, `MCTerminal`, `MCApproval` and `MCFeed` are what TLC
runs. Modules that share no state are put together in one MC module: a behaviour
picks the one that is at work (`atWork`), and the others are over from the
beginning. Nothing is lost by that, since no step of one can touch another.

## 3. What the runs show

| run | modules and bounds | result |
|---|---|---|
| `server` | Server over Broker: 2 streams, queue of 1, 2 messages with and 3 without the server | a stream is a gapless run of messages with an honest status and implements `FanOut`; every stream ends that was detached or shut down; the connector is closed last |
| `native` | NativeConnector: 2 sessions, 1 recovery each, queue of 1, 1 history; TCClient: 2 channels of 1, 3 messages; Reconnect | runs never overlap, each session ends once, silence after Close, every connect is answered and a command lets go of `cmdMu`; a client's channels are in order and complete and its stream goes on; one client at a time, replaced until stopped |
| `records` | PaperBroker: 2 accounts, 3 orders of 6 kinds; Recording: 3 levels, 2 sessions, 1 lost link; LobReplay: 2 orders, 5 rows; Session: 2 callers, 3 requests, 1 late deadline, 1 recovery; NativeClient: 2 sessions, 2 instruments, 2 orders, 2 clients of the user and a foreign one, 3 events | books balance, a key orders once, a quote leaves no order it meets; the rows rebuild the book; fills could have happened and agree with the cash; replies go to their requests; feeds survive a Reconnect, a trade is told once, orders are current, only what overlaps a Reconnect reaches the wrong instrument |
| `terminal` | Terminal: 1 tab with 2 streams, 1 request; Chat: 2 goroutines, 3 chats, 2 dialogs of which 1 is kept | the last orders event and portfolio arrive, the process ends; whole turns under the system prompt, a chat ends |
| `agent` | Approval over Autonomy: 2 threads, 4 calls, a ring of 1, an envelope of 1 order, 2 runs of 2 bars | a proposal runs once and in time; a person or a slot behind every order of the main account; money is given to one run; the daily stop leaves nothing open; the kill-switch returns and is final |
| `feed` | LiveFeed: 2 callers, 2 connections; ClosedBars: 5 intervals, 1 outage, queue of 1; BotManager: 2 runs, 2 bars | Close leaves nothing, requests are shared and answered; candles in order, complete while replies are timely, and they arrive; no bar twice, the kill-switch reaches every run until a subscription fails |
| `paper_snapshot` | PaperBroker | violated: a position bought again is listed twice |
| `connector_panic` | NativeConnector, 2 sessions | violated: a report is sent on the closed queue |
| `session_answer` | Session, 2 requests, 1 late deadline | violated: a request gets another one's reply |
| `bot_uncontrolled` | BotManager, 2 runs, 1 bar | violated: a run that no Stop can end |
| `bars_gap` | ClosedBars, 7 intervals, queue of 2 | violated: candles are skipped |
| `reconnect_stuck` | Reconnect | violated: no client is ever created again |

Every property of a passing run has a faulty definition under which it fails.

**Why the bounds suffice.** The properties relate two actors at most: two
streams, the last run of a connector and the one before, a request and the one
that follows it on the lock, a bot's run and its successor, a session and the
next one. The limits (queues, channels, rings, windows) are 1 or 2 so that they
are reached with few messages: full, overrun and empty again. Three requests put
a cancelled one, its backlog and a victim in a row; two instruments are enough
to swap their numbers; three chats overrun two turns and a store of one dialog;
one round of two tools is enough to split. The events of a native client
(`MaxSpent`) were checked with four as well: 2 million states, no error. Where the
proofs apply, the bounds do not matter.

**Symmetry.** `records` uses the symmetry of the instruments of NativeClient,
`session_answer` that of the callers; neither has a liveness property.

**Deadlock** is not checked: in each of these systems stopping is normal (the
bounds are used up, the process has ended). The waits that must end are liveness
properties.

**Fairness.**
*Broker, Server*: a runnable handler is scheduled (weak fairness of its steps);
`stream.Send` is under gRPC flow control, so it is only guaranteed to return on a
cancelled stream, and a detached stream that blocks for ever in Send is excluded
by the antecedent of `DetachedReturns`. In Server timers fire; nothing is assumed
of clients.
*NativeConnector*: the callback handler returns, exchanges have timeouts and
recoveries a window, so every wait of a run ends; the senders on the callback
queue have strong fairness, since a Go channel serves blocked senders in turn.
*TCClient*: receive loop and dispatcher run, a stream whose context is cancelled
ends; the application need not read.
*Reconnect*: the supervisor goes on, a disconnect on its way arrives or is lost, a
session that was told to stop returns; a session need not end by itself.
*BotManager*: goroutines run; no bar has to come and nobody has to press Stop.
*Approval*: a run that can go on does, if it can again and again: Go's mutex does
not starve a waiter, and the walk of `OnQuote` ends. One fairness condition for
all runs together is enough.
*LiveFeed*: loop, pollers and callers go on, once Close has cancelled a loop its
session returns; a session need not end by itself.
*ClosedBars*: time passes, the producer runs, its timer and the history's answer
come if they can again and again, an outage ends.
*Terminal*: handlers, publishers and main go on and a write returns; nobody has to
open or close a tab, trade or signal.
*Chat*: the model and the tools answer or fail; `llmComplete` has a timeout.
The other modules have safety properties only.

## 4. Findings

The six findings of `PROJECT.json`, and what to do about each:

- `connector_panic`: `finish` reports after it released `mu`, `Close` waits for the
  last run only. Two connects, the first run still about to report, Close: send
  on a closed channel. Close would have to wait for every run.
- `session_answer`: an exchange that fails with its own context alive (request
  timeout, or the late deadline of a predecessor) does not record its reply as
  abandoned. The next request of the type takes it; for `transact` that is the
  order number of somebody else's order. The type should be recorded whenever a
  written request gets no reply on a socket that stays.
- `bot_uncontrolled`: the failure path of `Start` resets `running`, `cancel` and the
  stage of whatever run is current. It should check that the run is its own.
- `paper_snapshot`: `posOrder` keeps the symbol of a closed position; a purchase
  appends it again.
- `bars_gap`: `emit` counts the missed intervals at the time of the quote it
  handles, the reply ends at the time of the request. The count should be taken
  when the request is made.
- `reconnect_stuck`: a client given up in the handshake is dropped without a
  disconnect, and the connector keeps its session. A connect of a new client
  would have to replace what it finds, or the supervisor disconnect first.

Observations of the same kind, seen in the models and the code, stated by no run.

*Connector, session, server:*
- A disconnect that read the state before a run's own end tells the end again
  (`native/recover_test.go:566` says "exactly once").
- `Client.Logout` does not wake a history request (`native/client_history.go:146`
  says "Close and relogin end the wait"): its goroutine stays.
- `Restore` installs its socket on a connection that was closed while it dialled
  (`native/session/login.go:540` says it cannot stay open).
- `OutcomeError` may carry the number of a later transaction
  (`native/session/transact.go:154`); the model leaves that number out.
- Connect and disconnect do not look at their context: a late disconnect of a
  former client ends the session of the next one; `server_status` may answer with
  a state that has ended.
- When `grpcServer.Serve` fails by itself, the handlers are not stopped.

*Native client:*
- `NewOrder` and the other transactions do not look at `recovering`, and take the
  connection after the unlock: an order that overlaps a Reconnect goes to the
  instrument that has the old number now (`OnlyOverlapsMisroute` says that only
  those do). `native/recover.go:231` says "concurrent requests fail fast while
  recovering". A history request that looked its secid up before a Reconnect does
  the same.
- `Run` drops the events of a poll that meets a fatal failure, and those decoded
  before an error, while the dedup remembers their trades: Reconnect's replay
  drops them again (`unheard` in `TradesOnce`).
- A change of a buffered order is dropped (`missed` in `OrdersCurrent`). With two
  accounts an order of the second that comes before its client is dropped as
  foreign, where `native/events_order.go:10` says it waits.
- `changeSubscription` computes under the lock, sends and stores outside it: two
  callers, or an unknown outcome (`unsure` in `FeedsRestored`), leave client and
  server apart. `TradeDedup.lastRaw` keeps numbers of an old session. A
  `loadSecSpecs` in flight over a Reconnect stores under old numbers.
- After a History that was cancelled the next one of the series takes the late
  parts; any body of a news story ends another's request; `recover` retries every
  second after a fatal `change_pass` came, until its window ends.

*Client, paper, bots:*
- A cancelled bot run with a buffered bar may trade on the stage of the next run,
  and two overlapping runs may both enter from a flat account
  (`terminal/bot/manager.go:543`, `:624`). `Start` does not look at
  `Manager.closed`.
- At the end of a stream `sendTyped` may drop a message although its channel has
  room (`client/main.go:358` says none is dropped).

*Feed, recorder, replay:*
- Two concurrent Starts of the feed both dial, and one that ends after Close
  leaves a session; `closedBacktestBars` goes around the flights and may meet
  "already in flight"; every tick after a candle's end asks for history; the
  cutoff is the local clock's; the leader's cancelled context fails its followers.
- Sessions ended by an error of the sink, and restarts, write no gap row; the loop
  of md-recorder ends on any deadline error, also on one of a recovery or an
  insert (`cmd/md-recorder/main.go:80` against `:17`). lobreplay ignores
  `session_id` and joins the snapshot rows of two sessions; a trade with the time
  of a snapshot's rows resets the book in the middle of it.

*Terminal, agent:*
- A browser that subscribes after `closeAll` makes `Shutdown` wait for its full
  timeout (`cmd/terminal/main.go:192` says otherwise). Orders of the agent and of
  bots publish no `orders` event; two publishers may swap their snapshots.
- Results of evicted proposals stay in `proposalResults`; not every change of a
  status is published.
- A dialog evicted while its chat is in flight is stored again without the system
  prompt, and stays so (`bare` in `DialogsWhole`); two first chats store the prompt
  twice; a dialog over its bytes keeps its newest turn only, since the bytes are
  not counted again while it is trimmed; a turn that failed after a tool had
  acted is not stored, so the model does not know of the action when asked again.
  A provider that reuses the ids of its calls has its second order refused as a
  duplicate (`terminal/agent/types.go:105`).
- `automation.Ledger` reads its conversations and computes outside the lock;
  `WriteBacklog` reads, merges and writes without one.

*cmd/connector:* a late log record reopens the files of a closed logger;
`UnInitialize` forgets the library before it is finalised, and waits for itself when
a callback calls it; an old callback may still run when `SetCallback` returns.

## 5. What is proved

The theorems hold for every value of the constants that the `ASSUME`s of the
modules allow: any sets of handlers, callers, instruments, orders, tabs, tools, any
capacities and bounds. Besides types and "at least one" these are:
`BufferAssumption` (`subscribe` raises a smaller buffer), `TypeAssumption` (a
connection may send transactions), `FiniteAssumption` (instruments, clients and
orders are finitely many), `SymbolAssumption` (so are the instruments of the paper
broker), `LevelAssumption` (a level is a side and a price, and a recording has
finitely many), `EndAssumption` and its like for the bounds of a behaviour.
`NeverOverdrawn` and `BooksAgree`, which contains it, alone have a hypothesis of their
own, `FeeBps <= Unit`: with a commission above the turnover a sale costs money, and the
code looks at the cash of a buyer only. `Unit` is the whole turnover.

| module | theorems (property of a run) | inductive invariant |
|---|---|---|
| Broker_proofs | `NoGap` (`ContiguousRun`), `Honest` (`HonestStatus`), `Implements` (`ImplementsFanOut`), `Final`, `Current`, `NoDoubleClose`, `TypeCorrect`; inside Serve `ClosedAfterBroker` (`ClosedConnectorClosedBroker`), `ServerStreams`, `ServerFinal`, `ServerImplements` | `IInv`, `ServerInv` |
| Client_proofs | `DeliveredInOrder` (`Delivered`), `OneClientAtATime` (`OneClient`), `ClientTypeCorrect`; of the native connector `Apart` (`SessionsApart`), `Silent` (`SilentAfterClose`), `TypeCorrect` | `ClientInv`, `ReconnectInv`, `IInv` |
| Session_proofs | `Exchanges` (`ExchangesApart`), `FeedsAsWanted` (`FeedsRestored`), `TradesToldOnce` (`TradesOnce`), `LastStatusKept` (`OrdersCurrent`), `RequestsAddressed` (`OnlyOverlapsMisroute`), `SessionTypeCorrect`, `NativeTypeCorrect` | `SessionInv`, `NativeInv` |
| Paper_proofs | `OneOrderPerKey` (`ClientIdOnce`), `WalkIsComplete` (`QuoteExhausts`), `BooksAgree` (`BooksBalance`), put together from `MoneyConserved`, `QuantitiesMatch`, `FillsOnce`, `NeverOverdrawn`; `PaperTypeCorrect` | `PaperInv` |
| Replay_proofs | `ReplayIsHonest` (`HonestReplay`) | `ReplayInv` |
| Agent_proofs | `OneRunFundedOnce` (`FundedOnce`), `FlatAfterRiskStop` (`RiskStopFlat`), `ToolRunsOnce` (`ApprovedOnce`), `NothingBehindTheHuman` (`HumanOrEnvelope`), `StoppedTradesNoMore` | `AgentInv` |
| Feed_proofs | `NothingLeft` (`ClosedLeavesNothing`), `OneRequest` (`SharedHistory`), `OncePerBar` (`BarsOnce`), `KillSwitch` (`ControlledUntilFailure`), `StreamComplete` (`InOrderAndComplete`) | `FeedInv`, `BotInv`, `BarsInv` |
| Terminal_proofs | `NoOrdersLost` (`OrdersReachClients`), `RowsRebuild` (`Rebuilt`), `DialogsStayWhole` (`DialogsWhole`) | `TerminalInv`, `RecordingInv`, `ChatInv` |

Few of the properties are inductive. What has to be added, and why:

- **Broker.** A stream's run of messages lies in three places, `sent`, `holding` and
  `messages`; `Pieces` says that the three are numbered one after the other, `Last`
  where the last one ends: at `published` for a stream in the map (`Attached`), at
  most there for the others. That `done` is closed once needs that nobody in the map
  is done; that a status is honest needs what `slow` and `done` tell about the past
  (`Ended`). The refinement maps `handed` to `sent`.
- **Server.** A step of Serve is a step of the broker, or cuts connections and changes
  nothing of the broker (`Cut`); `ShutdownOrder` says how far Serve is and what
  is closed by then.
- **NativeConnector.** Which run the state stands for, and the places of the worker,
  of the client pointer and of a disconnect under way: each of the three may be
  the one that ends a session (`LatestLive`, `Ends`, `Pointer`, `Commands`).
- **TCClient.** The queue is the last part of what the stream brought; the message the
  dispatcher carries is older than the queue and younger than its channel;
  every older message of a live session is on its channel.
- **Session.** The property speaks of results. The reason is on the wire: the
  replies to come answer the abandoned types, in order, then the request of the
  reader (`OnTheWire`, `Backlog`); no number is used twice (`NumbersApart`).
- **NativeClient.** The properties speak of what was read; what makes them true is
  still in the inbox. `NativeInv` says of it that the first record of a session is its
  catalog (`Phases`), that it brings the trades of an instrument without a gap
  behind the last one told (`TradesFollow`) and of an order only newer
  statuses, the last among them (`OrdersFollow`); that the masks of client and
  server differ only inside a command (`Masked`), the specifications are the
  session's (`SpecsNow`), and a request carries the number of the session it was
  looked up in (`Errands`).
- **PaperBroker.** A key keeps the order it made, an order that rests crosses no
  quote behind the walk, trades and filled orders match one to one. The lemmas are
  about the methods of the broker with any well-typed request, so that Agent_proofs
  uses them for the agent's calls. `QuantitiesMatch` needs that a total grows by
  what is appended; running sums are shown to exist by a least counterexample
  over the length, since the library's induction theorems cannot be used.
  `MoneyConserved` adds the costs of an account's positions as fractions, by a fold
  over the instruments. The fold of the community modules is a recursive
  function over a set and a `CHOOSE`; it is followed along one sequence of the
  elements, as running results (`Running`, by the same least counterexample), and
  two folds that differ in one element are followed side by side (`Abreast`). Then
  one fill changes one summand, and what a trade takes from the cash it
  adds to the position or to what was realized, the last part included.
- **LobReplay.** Nothing in the property ties an order to its past or says what
  the orders in flight still want; `ReplayInv` does (`Orderly`): ids are places in the
  history, no two orders share one, `remaining` is what was ordered less what was
  got, and the queue ahead is what is left of the volume found at activation. In the
  middle of a walk half of the orders are dealt with (`Walked`): those looked at
  are in order, the pasts of the others are untouched, and `Pending` adds what the
  others want. A market order's walk through the levels is a fold over a set of prices;
  each price keeps `Purse`, that trips, fees and cash tell of the same fills.
  That they do (`Kept`) needs the size of the position in it, at most what was
  got, and that a flat account owes no entry fee; a fill is opened, increased, closed,
  or closed and opened, and each case moves fees without losing a unit, and loses of
  the earnings only what the average price truncates. The bound has to be
  quadratic: a linear one holds on the small instance, but a position built up unit by
  unit may lose each time one per unit held.
- **Agent.** Only the current run is running and its orders never rest, so nothing
  moves its account between two of its steps (`NoneRest`); the thread that approved a
  proposal is the only one with its number (`Approving`); each slot of the envelope
  is an order placed or a thread about to place one (`GateInv`).
- **Feed.** Outside a swap at most one session is open (`OpenSessions`); a leader
  holds the flight from its first step to its last (`OneLeader`).
  **BotManager:** the orders of the account are those of its ids (`OrderIDs`), and who
  has no cancel function is on its way out (`CancelHeld`). **ClosedBars:** what is
  still to be sent is the next part of the series (`NextPart`).
- **Terminal.** A tab comes into the hub with nothing owed, and has an event in hand
  exactly while it is written (`Tab`). **Recording:** the rows not read yet lead to
  a book (`Leads`) that is what the recorder has seen, or empty (`Sound`), and the
  replies under way continue it one after the other (`Linked`, `Run`). **Chat:** a reply in the middle
  of its calls is completed by the answers still to come (`Answers`), a stored
  dialog is `Complete`; histories stay whole joined, and cut where
  `trimConversation` cuts them, at a message that answers no call.

Statements were written for proofs where TLC does not care: `Delivered` says which
messages a channel holds by their numbers; the sums of PaperLedger, Autonomy and
Approval are totals of sequences; the buffer of orders is a function; a dialog is
cut at the first of its newest turns, a place among its messages.

**Only model-checked.** Liveness under fairness, and with it everything stated with
`~>`, is out of this prover's reach, as is ENABLED. Every state invariant of
a passing run is stated by a theorem of the table above.
The runs that expect a violation have nothing to prove.

## 6. What is not modelled, and the plan

Left out for good: ciphers, payload layouts, record decoding and XML rendering
(pure conversions, pinned by fixture and golden tests), what the agent's tools and
the research packages compute (sequential numeric code), generated gRPC code, the
Windows DLL behind `connector`, storage adapters, the web front end, tools.
`float64` rounding is left out of the paper broker. This is most of the
repository's lines: the models cover the code whose steps may interleave.

Left out of the modules: the journal of the bots; batching of inserts and news
bodies of the recorder; the news store and the quotes of the feed; positions,
limits, ticks and options of the native client; metrics of lobreplay; the login
handshake; `Reset` of the dialogs, which nothing calls.

Candidates for further modules: the host calls of `cmd/connector` over one
connector (`Initialize`, `SetCallback`, `UnInitialize`), the automation ledger and its
backlog, the waiters of news bodies, the frames and packed integers of
`native/wire` as operators against a reference.
