------------------------------ MODULE Terminal ------------------------------
(***************************************************************************)
(* terminal/api and cmd/terminal: the event hub of the browser clients, the*)
(* publishers of the paper account's state, and the shutdown of main.      *)
(*                                                                         *)
(* The state of the paper account is the number of its changes.  An event  *)
(* is "orders" or "portfolio" with the state it was built from; quotes,    *)
(* status, heartbeats and agent, bot and news events only take room in the *)
(* queues and are one kind, "other".                                       *)
(***************************************************************************)
EXTENDS Integers, Sequences, FiniteSets

CONSTANTS Browser,     \* browser tabs with an event stream
          Ordering,    \* requests that place or cancel an order
          HubBuffer,   \* hubBuffer
          MaxAccount,  \* bound on the changes of the account
          MaxStreams   \* bound on the streams a tab opens

ASSUME TerminalAssumption ==
  /\ HubBuffer \in Nat \ {0} /\ MaxAccount \in Nat /\ MaxStreams \in Nat
  /\ IsFiniteSet(Browser) /\ IsFiniteSet(Ordering)

VARIABLES account,    \* changes of the paper account
          hub,        \* tabs whose channel is in hub.subs
          queue,      \* queue[b]: the tab's channel
          stream,     \* stream[b]: where the handler of the tab's stream is
          streams,    \* streams[b]: streams the tab opened
          hand,       \* hand[b]: the event being written, a sequence
          told,       \* told[b]: the last portfolio the tab got, -1 before
          publisher,  \* publisher[p]: where the event loop or a request is
          saw,        \* saw[p]: the snapshot it took
          apiDone,    \* Server.ctx is cancelled
          term,       \* where main is
          signalled,  \* SIGINT or SIGTERM
          owed        \* history: owed[b]: the orders published last and not written yet, -1 if none

clientVars == <<hub, queue, stream, streams, hand, told>>
publisherVars == <<publisher, saw>>
termVars == <<account, clientVars, publisherVars, apiDone, term, signalled, owed>>

Publisher == Ordering \cup {"loop"}
Streaming == {"select", "write"}
HubEvent == [kind : {"orders", "portfolio"}, state : 0..MaxAccount] \cup [kind : {"other"}]

TerminalTypeOK ==
  /\ account \in 0..MaxAccount
  /\ hub \subseteq Browser
  /\ queue \in [Browser -> Seq(HubEvent)] /\ hand \in [Browser -> Seq(HubEvent)]
  /\ \A b \in Browser : Len(queue[b]) <= HubBuffer /\ Len(hand[b]) <= 1
  /\ stream \in [Browser -> {"none", "open"} \cup Streaming]
  /\ told \in [Browser -> -1..MaxAccount] /\ owed \in [Browser -> -1..MaxAccount]
  /\ publisher \in [Publisher -> {"idle", "quoted", "changed", "orders", "read", "portfolio", "done"}]
  /\ saw \in [Publisher -> 0..MaxAccount]
  /\ term \in {"serving", "closing", "closingFailed", "shutdown", "feed", "exited"}

TerminalInit ==
  /\ account = 0
  /\ hub = {} /\ queue = [b \in Browser |-> <<>>]
  /\ stream = [b \in Browser |-> "none"] /\ streams = [b \in Browser |-> 0]
  /\ hand = [b \in Browser |-> <<>>]
  /\ told = [b \in Browser |-> -1]
  /\ publisher = [p \in Publisher |-> "idle"] /\ saw = [p \in Publisher |-> 0]
  /\ apiDone = FALSE /\ term = "serving" /\ signalled = FALSE
  /\ owed = [b \in Browser |-> -1]

Up == term # "exited"

-----------------------------------------------------------------------------
(* The hub *)

\* Faulty: an event a client has no room for is skipped.
PublishSkips(ev) ==
  /\ queue' = [b \in Browser |-> IF b \in hub /\ Len(queue[b]) < HubBuffer THEN Append(queue[b], ev) ELSE queue[b]]
  /\ UNCHANGED hub

\* publish: a client without room is dropped.
HubPublish(ev) ==
  /\ queue' = [b \in Browser |-> IF b \in hub /\ Len(queue[b]) < HubBuffer THEN Append(queue[b], ev) ELSE queue[b]]
  /\ hub' = {b \in hub : Len(queue[b]) < HubBuffer}

Publish(ev) ==
  /\ HubPublish(ev)
  /\ owed' = [b \in Browser |-> IF ev.kind = "orders" /\ b \in hub THEN ev.state ELSE owed[b]]
  /\ UNCHANGED <<stream, streams, hand, told>>

-----------------------------------------------------------------------------
(* handleEvents *)

\* The header is written before the client is subscribed.
OpenStream(b) ==
  /\ term \in {"serving", "closing"}
  /\ stream[b] = "none" /\ streams[b] < MaxStreams
  /\ stream' = [stream EXCEPT ![b] = "open"]
  /\ streams' = [streams EXCEPT ![b] = @ + 1]
  /\ UNCHANGED <<account, hub, queue, hand, told, publisherVars, apiDone, term, signalled, owed>>

SubscribeStream(b) ==
  /\ Up /\ stream[b] = "open"
  /\ stream' = [stream EXCEPT ![b] = "select"]
  /\ hub' = hub \cup {b}
  /\ UNCHANGED <<account, queue, streams, hand, told, publisherVars, apiDone, term, signalled, owed>>

\* What is still queued is written after the channel is closed.
TakeEvent(b) ==
  /\ Up /\ stream[b] = "select"
  /\ queue[b] # <<>>
  /\ hand' = [hand EXCEPT ![b] = <<Head(queue[b])>>]
  /\ queue' = [queue EXCEPT ![b] = Tail(@)]
  /\ stream' = [stream EXCEPT ![b] = "write"]
  /\ UNCHANGED <<account, hub, streams, told, publisherVars, apiDone, term, signalled, owed>>

WriteEvent(b) ==
  /\ Up /\ stream[b] = "write"
  /\ LET ev == Head(hand[b])
     IN  /\ told' = IF ev.kind = "portfolio" THEN [told EXCEPT ![b] = ev.state] ELSE told
         /\ owed' = IF ev.kind = "orders" /\ ev.state = owed[b] THEN [owed EXCEPT ![b] = -1] ELSE owed
  /\ hand' = [hand EXCEPT ![b] = <<>>]
  /\ stream' = [stream EXCEPT ![b] = "select"]
  /\ UNCHANGED <<account, hub, queue, streams, publisherVars, apiDone, term, signalled>>

\* The handler returns and its cancel removes the channel.
StreamReturns(b) ==
  /\ hub' = hub \ {b}
  /\ stream' = [stream EXCEPT ![b] = "none"]
  /\ hand' = [hand EXCEPT ![b] = <<>>] /\ queue' = [queue EXCEPT ![b] = <<>>]
  /\ told' = [told EXCEPT ![b] = -1] /\ owed' = [owed EXCEPT ![b] = -1]
  /\ UNCHANGED <<account, streams, publisherVars, apiDone, term, signalled>>

\* The channel was closed and everything in it is written.
ChannelClosed(b) == Up /\ stream[b] = "select" /\ b \notin hub /\ queue[b] = <<>> /\ StreamReturns(b)

\* A write fails or runs into its deadline.
WriteFails(b) == Up /\ stream[b] = "write" /\ StreamReturns(b)

\* The tab is closed.
TabGone(b) == Up /\ stream[b] # "none" /\ StreamReturns(b)

-----------------------------------------------------------------------------
(* The publishers: the event loop and the requests *)

Goes(p, to) == publisher' = [publisher EXCEPT ![p] = to]

AccountChanges == account < MaxAccount /\ account' = account + 1

\* The agent and the bots place orders, too, and publish no state.
OthersTrade ==
  /\ Up /\ AccountChanges
  /\ UNCHANGED <<clientVars, publisherVars, apiDone, term, signalled, owed>>

\* handlePlaceOrder, handleCancelOrder: a rejected order is a change as well.
RequestChanges(p) ==
  /\ term \in {"serving", "closing"} /\ publisher[p] = "idle"
  /\ AccountChanges
  /\ Goes(p, "changed")
  /\ UNCHANGED <<clientVars, saw, apiDone, term, signalled, owed>>

\* tickQuotes: the quotes are published ...
Tick ==
  /\ publisher["loop"] = "idle" /\ ~apiDone
  /\ Publish([kind |-> "other"])
  /\ Goes("loop", "quoted")
  /\ UNCHANGED <<account, saw, apiDone, term, signalled>>

\* Faulty: the portfolio is published when an order changed only.
QuietTick == /\ UNCHANGED account
             /\ Goes("loop", "idle")

UnchangedTick == /\ UNCHANGED account
                 /\ Goes("loop", "read")

\* ... and may fill resting orders.
DriveOrders ==
  /\ Up /\ publisher["loop"] = "quoted"
  /\ \/ AccountChanges /\ Goes("loop", "changed")
     \/ UnchangedTick
  /\ UNCHANGED <<clientVars, saw, apiDone, term, signalled, owed>>

\* publishPaperState reads a snapshot and publishes the orders; then
\* publishPortfolio reads one of its own.
ReadSnapshot(p, from, to) ==
  /\ Up /\ publisher[p] = from
  /\ saw' = [saw EXCEPT ![p] = account]
  /\ Goes(p, to)
  /\ UNCHANGED <<account, clientVars, apiDone, term, signalled, owed>>

PublishState(p, state, to) ==
  /\ Up /\ publisher[p] = state
  /\ Publish([kind |-> state, state |-> saw[p]])
  /\ Goes(p, to)
  /\ saw' = [saw EXCEPT ![p] = 0]
  /\ UNCHANGED <<account, apiDone, term, signalled>>

PublisherStep(p) ==
  \/ ReadSnapshot(p, "changed", "orders")
  \/ PublishState(p, "orders", "read")
  \/ ReadSnapshot(p, "read", "portfolio")
  \/ PublishState(p, "portfolio", IF p = "loop" THEN "idle" ELSE "done")

LoopEnds ==
  /\ Up /\ publisher["loop"] = "idle" /\ apiDone
  /\ Goes("loop", "done")
  /\ UNCHANGED <<account, clientVars, saw, apiDone, term, signalled, owed>>

-----------------------------------------------------------------------------
(* main *)

Signal ==
  /\ ~signalled
  /\ signalled' = TRUE
  /\ UNCHANGED <<account, clientVars, publisherVars, apiDone, term, owed>>

\* The select of main, and the cancel of Server.Close.
LeaveServing ==
  /\ term = "serving"
  /\ \/ signalled /\ term' = "closing"
     \/ term' = "closingFailed"
  /\ apiDone' = TRUE
  /\ UNCHANGED <<account, clientVars, publisherVars, signalled, owed>>

\* Server.Close waits for the event loop and drops every client.
CloseHub ==
  /\ term \in {"closing", "closingFailed"}
  /\ publisher["loop"] = "done"
  /\ hub' = {}
  /\ term' = IF term = "closing" THEN "shutdown" ELSE "feed"
  /\ UNCHANGED <<account, queue, stream, streams, hand, told, publisherVars, apiDone, signalled, owed>>

NoStreams == /\ \A b \in Browser : stream[b] = "none"
        /\ \A p \in Ordering : publisher[p] \in {"idle", "done"}

\* Faulty: Shutdown waits for the handlers however long they take.
ShutdownForever == NoStreams

\* httpServer.Shutdown: the handlers are over, or shutdownTimeout is.
ShutdownReturns == NoStreams \/ ~NoStreams

Shutdown ==
  /\ term = "shutdown"
  /\ ShutdownReturns
  /\ term' = "feed"
  /\ UNCHANGED <<account, clientVars, publisherVars, apiDone, signalled, owed>>

\* The feed is closed, then the bots, and the process ends.
CloseFeed ==
  /\ term = "feed"
  /\ term' = "exited"
  /\ UNCHANGED <<account, clientVars, publisherVars, apiDone, signalled, owed>>

MainStep == LeaveServing \/ CloseHub \/ Shutdown \/ CloseFeed
StreamStep(b) == SubscribeStream(b) \/ TakeEvent(b) \/ WriteEvent(b) \/ ChannelClosed(b) \/ WriteFails(b)
LoopStep == Tick \/ DriveOrders \/ PublisherStep("loop") \/ LoopEnds

TerminalNext ==
  \/ \E b \in Browser : OpenStream(b) \/ StreamStep(b) \/ TabGone(b)
  \/ \E p \in Ordering : RequestChanges(p) \/ PublisherStep(p)
  \/ OthersTrade \/ LoopStep \/ Signal \/ MainStep

\* Goroutines that can go on do, a write returns, and main's waits end; nobody
\* has to open or close a tab, trade, or signal.
TerminalFairness ==
  /\ \A b \in Browser : WF_termVars(StreamStep(b))
  /\ \A p \in Ordering : WF_termVars(PublisherStep(p))
  /\ WF_termVars(LoopStep)
  /\ WF_termVars(term # "serving" /\ MainStep) /\ WF_termVars(signalled /\ MainStep)

TerminalSpec == TerminalInit /\ [][TerminalNext]_termVars /\ TerminalFairness

-----------------------------------------------------------------------------
(* Properties *)

\* The last orders among these events carry this state.
LastOrders(events, state) ==
  \E k \in 1..Len(events) :
    /\ events[k].kind = "orders" /\ events[k].state = state
    /\ \A j \in k + 1..Len(events) : events[j].kind # "orders"

\* A tab that is subscribed has, or will get, the last orders published since it
\* subscribed: a slow client is dropped, never left without an event.
OrdersReachClients ==
  \A b \in hub : owed[b] # -1 => LastOrders(hand[b] \o queue[b], owed[b])

\* Whatever changes the account, and in whatever order snapshots are published,
\* a tab is never left with an old portfolio: it gets the current one, its
\* stream ends, or the server closes.
PortfolioConverges ==
  \A b \in Browser : []<>(stream[b] \notin Streaming \/ told[b] = account \/ apiDone)

\* After a signal the process ends, whatever its clients do.
TerminalExits == signalled ~> term = "exited"
=============================================================================
