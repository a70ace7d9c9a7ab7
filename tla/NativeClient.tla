---------------------------- MODULE NativeClient ----------------------------
(***************************************************************************)
(* native.Client: the typed session over one connection.  The load of a    *)
(* session, the poll loop of Run with its recovery, the new login of       *)
(* Reconnect, and what the client derives from the records of RQ_MAIN:     *)
(* catalog, feeds, trades, orders, specifications, candles.                *)
(*                                                                         *)
(* The server (external) numbers the instruments anew in every session: a  *)
(* secid means something within one session only.  A session's records     *)
(* wait in `inbox` until a poll takes them; a short recovery keeps the     *)
(* session and its inbox.  A subscription to trades replays the day.       *)
(*                                                                         *)
(* Three goroutines use the client.  The application's commands are one at *)
(* a time, as Connector.cmdMu makes them, Reconnect among them, after Run  *)
(* has returned.  Beside it run Run itself, one history request, and one   *)
(* NewOrder.  A reply of RQ_MAIN carries one record here: what happens     *)
(* between two records of a longer reply only the server does.             *)
(*                                                                         *)
(* Left out: Close and Logout (NativeConnector.tla), replies that do not    *)
(* parse, trades of securities that are not in the catalog, a login that   *)
(* fails, boards, positions, ticks, news, options and limits.              *)
(***************************************************************************)
EXTENDS Naturals, FiniteSets, SequencesExt

CONSTANTS Instrument,  \* stable symbols
          Feed,        \* "trades" and the other bits of a mask
          OwnClient,   \* numeric clients of the session
          ClientOrder, \* orders at the exchange
          Owner,       \* Owner[o]: the client of an order, own or not
          Nothing,
          MaxLogins,   \* bound on the sessions
          MaxTradeNo,  \* bound on the trades of an instrument
          MaxStatus,   \* last status of an order
          MaxSpent     \* bound on what network, exchange and application begin

ASSUME FeedAssumption == "trades" \in Feed
ASSUME OwnerAssumption == DOMAIN Owner = ClientOrder
ASSUME NothingAssumption == Nothing \notin Instrument
ASSUME BoundsAssumption ==
  /\ {MaxTradeNo, MaxSpent} \subseteq Nat
  /\ {MaxLogins, MaxStatus} \subseteq Nat \ {0}
ASSUME FiniteAssumption ==
  IsFiniteSet(Instrument) /\ IsFiniteSet(OwnClient) /\ IsFiniteSet(ClientOrder)

VARIABLES
  \* the server
  login,         \* the number of the session
  numbering,     \* numbering[i]: the secid of i in this session
  feeds,         \* feeds[i]: the mask of i in this session
  inbox,
  tape,          \* tape[i]: the trades of the day
  status,        \* status[o]: 0 before the order is placed
  \* the client
  conn,          \* "up", "down" (link lost), "closed", "none"
  recovering, fatal,
  catalog,       \* catalog[id]: the instrument, or Nothing
  subs, dedup, secSpecs,
  clients,       \* Client.accounts
  pendingOrders, \* the status of an order that is buffered, or 0
  known,         \* Client.orders: the status it has, or 0
  collector,     \* the secid in Client.history, or 0
  \* goroutines
  run,           \* "off", "polling", "failed", "recovering", "attempt", "over"
  cmd, asker, placer,
  \* history
  spent,
  told,          \* told[i]: trades told as trades of i
  unheard,       \* instruments with a trade that Run dropped with a fatal failure
  wanted,        \* wanted[i]: the feeds the commands that succeeded asked for
  unsure,        \* instruments whose last change failed
  missed,        \* orders changed while buffered, or told before their client
  wrong,         \* requests that reached an instrument nobody named
  broken         \* what broke the link: "nothing", "loss" or "close"

exchangeSide == <<login, numbering, feeds, inbox, tape, status>>
linkSide == <<conn, recovering, fatal, run, broken>>
orderStore == <<clients, pendingOrders, known, missed>>
tradeStore == <<dedup, told, unheard>>
masks == <<subs, wanted>>
askVars == <<collector, asker>>
clientSide == <<linkSide, catalog, masks, secSpecs, orderStore, tradeStore, askVars, cmd, placer,
                 unsure, wrong>>
nativeVars == <<exchangeSide, clientSide, spent>>

SecId == 1..Cardinality(Instrument)
Numbering == {n \in [Instrument -> SecId] : IsInjective(n)}
NoCatalog == [id \in SecId |-> Nothing]
NoFeeds == [i \in Instrument |-> {}]
NoOrders == [o \in ClientOrder |-> 0]
Waiting == [pc |-> "idle", of |-> Nothing, sec |-> 0, login |-> 0]
Rest == [pc |-> "idle", of |-> Nothing, feed |-> Nothing, mask |-> {}, sec |-> 0, on |-> FALSE]

NativeTypeOK ==
  /\ login \in 1..MaxLogins /\ numbering \in Numbering
  /\ {feeds, subs} \subseteq [Instrument -> SUBSET Feed]
  /\ conn \in {"up", "down", "closed", "none"}
  /\ run \in {"off", "polling", "failed", "recovering", "attempt", "over"}
  /\ {recovering, fatal} \subseteq BOOLEAN
  /\ {catalog, secSpecs} \subseteq [SecId -> Instrument \cup {Nothing}]
  /\ clients \subseteq OwnClient
  /\ {status, known, pendingOrders} \subseteq [ClientOrder -> 0..MaxStatus]
  /\ {tape, dedup} \subseteq [Instrument -> 0..MaxTradeNo]
  /\ collector \in 0..Cardinality(Instrument)
  /\ spent \in 0..MaxSpent

-----------------------------------------------------------------------------
(* The server *)

Meant(id) == CHOOSE i \in Instrument : numbering[i] = id

\* The snapshot of a new session: securities, then clients and orders in any
\* order.
Snapshot ==
  LET recs == [kind : {"client"}, of : OwnClient]
              \cup {[kind |-> "order", of |-> o, status |-> status[o]] :
                      o \in {p \in ClientOrder : status[p] > 0}}
  IN  {<<[kind |-> "securities"]>> \o s : s \in SetToSeqs(recs)}

Push(r) == inbox' = IF conn = "none" THEN inbox ELSE Append(inbox, r)

Spend == spent < MaxSpent /\ spent' = spent + 1

TradeHappens(i) ==
  /\ Spend
  /\ tape[i] < MaxTradeNo
  /\ tape' = [tape EXCEPT ![i] = @ + 1]
  /\ IF "trades" \in feeds[i]
       THEN Push([kind |-> "trade", sec |-> numbering[i], no |-> tape[i] + 1])
       ELSE UNCHANGED inbox
  /\ UNCHANGED <<login, numbering, feeds, status, clientSide>>

OrderMoves(o) ==
  /\ Spend
  /\ status[o] < MaxStatus
  /\ status' = [status EXCEPT ![o] = @ + 1]
  /\ Push([kind |-> IF status[o] = 0 THEN "order" ELSE "modify",
           of |-> o, status |-> status[o] + 1])
  /\ UNCHANGED <<login, numbering, feeds, tape, clientSide>>

\* RQ_SUBSCRIBE with one item: the mask replaces the old one.
Replay(i, mask) ==
  IF "trades" \in mask \ feeds[i]
    THEN [no \in 1..tape[i] |-> [kind |-> "trade", sec |-> numbering[i], no |-> no]]
    ELSE <<>>
ServerSubscribes(id, mask) ==
  LET i == Meant(id)
  IN  /\ feeds' = [feeds EXCEPT ![i] = mask]
      /\ inbox' = inbox \o Replay(i, mask)

LinkDrops ==
  /\ Spend
  /\ conn = "up"
  /\ conn' = "down"
  /\ broken' = IF broken = "nothing" THEN "loss" ELSE broken
  /\ UNCHANGED <<exchangeSide, recovering, fatal, run, catalog, masks, secSpecs, orderStore,
                 tradeStore, askVars, cmd, placer, unsure, wrong>>

-----------------------------------------------------------------------------
(* Records: the decoders of Poll, under Client.mu *)

SecOf(i) == CHOOSE id \in SecId : catalog[id] = i
InCatalog(i) == \E id \in SecId : catalog[id] = i

ApplySecurities ==
  /\ catalog' = [id \in SecId |-> Meant(id)]
  /\ UNCHANGED <<orderStore, tradeStore, askVars>>

\* decodeClientNew: the client's buffered orders are told now.
Buffered(o, c) == Owner[o] = c /\ pendingOrders[o] > 0
FlushPending(c) ==
  /\ pendingOrders' = [o \in ClientOrder |-> IF Buffered(o, c) THEN 0 ELSE pendingOrders[o]]
  /\ known' = [o \in ClientOrder |-> IF Buffered(o, c) THEN pendingOrders[o] ELSE known[o]]
DecodeClientNew(c) ==
  /\ clients' = clients \cup {c}
  /\ FlushPending(c)
  /\ UNCHANGED <<catalog, missed, tradeStore, askVars>>

\* Faulty: without a client the order is taken for somebody else's.
DecodeOrderUnbuffered(r) ==
  /\ known' = IF Owner[r.of] \in clients THEN [known EXCEPT ![r.of] = r.status] ELSE known
  /\ UNCHANGED <<catalog, clients, pendingOrders, missed, tradeStore, askVars>>

\* decodeOrderNew: before the first client is known the order is buffered; from
\* then on an order whose client is not known is taken for somebody else's.
DecodeOrderNew(r) ==
  /\ CASE clients = {} ->
            /\ pendingOrders' = [pendingOrders EXCEPT ![r.of] = r.status]
            /\ UNCHANGED <<known, missed>>
       [] Owner[r.of] \in clients ->
            /\ known' = [known EXCEPT ![r.of] = r.status]
            /\ UNCHANGED <<pendingOrders, missed>>
       [] OTHER ->
            /\ missed' = missed \cup {r.of}
            /\ UNCHANGED <<pendingOrders, known>>
  /\ UNCHANGED <<catalog, clients, tradeStore, askVars>>

\* decodeOrderModify: an order not in the store is not found.
DecodeOrderModify(r) ==
  /\ IF known[r.of] > 0
       THEN known' = [known EXCEPT ![r.of] = r.status] /\ UNCHANGED missed
       ELSE missed' = missed \cup {r.of} /\ UNCHANGED known
  /\ UNCHANGED <<catalog, clients, pendingOrders, tradeStore, askVars>>

\* Run hands the events of a reply on, unless it sees a fatal failure.
HandOn(i, r) ==
  IF fatal
    THEN unheard' = unheard \cup {i} /\ UNCHANGED told
    ELSE told' = [told EXCEPT ![i] = Append(@, <<Meant(r.sec), r.no>>)] /\ UNCHANGED unheard

\* Faulty: the last number is kept per secid.
DecodeTradeById(r) ==
  LET i == catalog[r.sec]
      row == CHOOSE n \in Numbering : TRUE
      slot == CHOOSE j \in Instrument : row[j] = r.sec
  IN  /\ IF r.no > dedup[slot]
           THEN dedup' = [dedup EXCEPT ![slot] = r.no] /\ HandOn(i, r)
           ELSE UNCHANGED tradeStore
      /\ UNCHANGED <<catalog, orderStore, askVars>>

\* decodeAllTrade with FreshSymbol: a trade not above the last is a replay.
DecodeAllTrade(r) ==
  LET i == catalog[r.sec]
  IN  /\ IF r.no > dedup[i]
           THEN dedup' = [dedup EXCEPT ![i] = r.no] /\ HandOn(i, r)
           ELSE UNCHANGED tradeStore
      /\ UNCHANGED <<catalog, orderStore, askVars>>

\* addHistoryPart, with the last part: the request has its candles.
DecodeCandles(r) ==
  /\ IF collector = r.sec
       THEN collector' = 0 /\ asker' = Waiting
       ELSE UNCHANGED askVars
  /\ UNCHANGED <<catalog, orderStore, tradeStore>>

Decode ==
  LET r == Head(inbox)
  IN  /\ inbox' = Tail(inbox)
      /\ CASE r.kind = "securities" -> ApplySecurities
           [] r.kind = "client" -> DecodeClientNew(r.of)
           [] r.kind = "order" -> DecodeOrderNew(r)
           [] r.kind = "modify" -> DecodeOrderModify(r)
           [] r.kind = "trade" -> DecodeAllTrade(r)
           [] r.kind = "candles" -> DecodeCandles(r)
      /\ UNCHANGED <<login, numbering, feeds, tape, status, masks, secSpecs, placer, unsure, wrong,
                     spent, conn, recovering, fatal, broken>>

-----------------------------------------------------------------------------
(* Run *)

stores == <<orderStore, tradeStore, askVars>>
commands == <<cmd, placer, masks, secSpecs, unsure, wrong>>

RunMoves(now, next, c) ==
  /\ run = now /\ run' = next
  /\ conn' = c
  /\ UNCHANGED <<exchangeSide, recovering, fatal, broken, catalog, stores, commands, spent>>

\* A poll whose exchange succeeded; a fatal failure ends Run after it.
PollRecord ==
  /\ run = "polling" /\ conn = "up" /\ inbox # <<>>
  /\ Decode
  /\ run' = IF fatal THEN "over" ELSE run
  /\ UNCHANGED cmd

\* Poll fails on the link; then Run looks for a fatal failure.
PollErrs == conn # "up" /\ RunMoves("polling", "failed", conn)
CheckFatal == RunMoves("failed", IF fatal THEN "over" ELSE "recovering", conn)
RunSeesFatal == fatal /\ RunMoves("polling", "over", conn)

\* recover: shortRecover begins with the fatal check, and Restore brings the
\* link back under a Close that came meanwhile; the window ends the attempts.
BeginAttempt == ~fatal /\ RunMoves("recovering", "attempt", conn)
AttemptSucceeds ==
  /\ run = "attempt" /\ run' = "polling"
  /\ conn' = "up" /\ broken' = "nothing"
  /\ UNCHANGED <<exchangeSide, recovering, fatal, catalog, stores, commands, spent>>
AttemptFails == RunMoves("attempt", "recovering", conn)
WindowEnds == RunMoves("recovering", "over", conn)

-----------------------------------------------------------------------------
(* Commands *)

AtCmd(pc) == cmd.pc = pc
Become(pc) == cmd' = [cmd EXCEPT !.pc = pc]
Quiet == UNCHANGED <<linkSide, catalog, stores, placer, wrong>>

\* Faulty: the mask of the command alone.
MaskOfCommand(i, f, on) == IF on THEN {f} ELSE {}

\* changeSubscription: the full new mask of the symbol.
NewMask(i, f, on) == IF on THEN subs[i] \cup {f} ELSE subs[i] \ {f}

ChangeSubscription(i, f, on) ==
  /\ Spend
  /\ AtCmd("idle") /\ ~recovering /\ conn # "none" /\ InCatalog(i)
  /\ cmd' = [pc |-> "send", of |-> i, feed |-> f, mask |-> NewMask(i, f, on),
              sec |-> SecOf(i), on |-> on]
  /\ Quiet
  /\ UNCHANGED <<exchangeSide, masks, secSpecs, unsure>>

SendSucceeds ==
  /\ AtCmd("send") /\ conn = "up"
  /\ ServerSubscribes(cmd.sec, cmd.mask)
  /\ Become("store")
  /\ Quiet
  /\ UNCHANGED <<login, numbering, tape, status, masks, secSpecs, unsure, spent>>

\* An error leaves subs as they were; the server may have the mask.
SendFails ==
  /\ AtCmd("send")
  /\ \/ conn = "up" /\ ServerSubscribes(cmd.sec, cmd.mask)
     \/ UNCHANGED <<feeds, inbox>>
  /\ unsure' = unsure \cup {cmd.of}
  /\ cmd' = Rest
  /\ Quiet
  /\ UNCHANGED <<login, numbering, tape, status, masks, secSpecs, spent>>

StoreMask ==
  /\ AtCmd("store")
  /\ subs' = [subs EXCEPT ![cmd.of] = cmd.mask]
  /\ wanted' = [wanted EXCEPT ![cmd.of] = IF cmd.on THEN @ \cup {cmd.feed} ELSE @ \ {cmd.feed}]
  /\ unsure' = unsure \ {cmd.of}
  /\ IF cmd.on THEN Become("specs") ELSE cmd' = Rest
  /\ Quiet
  /\ UNCHANGED <<exchangeSide, secSpecs, spent>>

\* loadSecSpecs: RQ_SEC_SPEC is answered in full, or fails and is forgotten.
Specified(ids) == [id \in SecId |-> IF id \in ids THEN Meant(id) ELSE secSpecs[id]]
LoadSpecs ==
  /\ AtCmd("specs")
  /\ secSpecs' \in {secSpecs} \cup (IF conn = "up" THEN {Specified({cmd.sec})} ELSE {})
  /\ cmd' = Rest
  /\ Quiet
  /\ UNCHANGED <<exchangeSide, masks, unsure, spent>>

\* ChangePassword with a fatal reply.
ChangePassword ==
  /\ Spend
  /\ AtCmd("idle") /\ conn = "up" /\ ~recovering
  /\ Become("mark")
  /\ Quiet
  /\ UNCHANGED <<exchangeSide, masks, secSpecs, unsure>>

CloseSocket(pc, next) ==
  /\ AtCmd(pc) /\ Become(next)
  /\ conn' = "closed"
  /\ broken' = IF broken = "nothing" THEN "close" ELSE broken
  /\ UNCHANGED <<exchangeSide, recovering, fatal, run, catalog, stores, masks, secSpecs, placer,
                 unsure, wrong, spent>>
Mark(pc, next) ==
  /\ AtCmd(pc) /\ Become(next)
  /\ fatal' = TRUE
  /\ UNCHANGED <<exchangeSide, conn, recovering, run, broken, catalog, stores, masks, secSpecs,
                 placer, unsure, wrong, spent>>

\* Faulty: the socket is closed first.
CloseThenMark == CloseSocket("mark", "close") \/ Mark("close", "idle")

MarkThenClose == Mark("mark", "close") \/ CloseSocket("close", "idle")

-----------------------------------------------------------------------------
(* Reconnect: relogin *)

\* Login on a fresh connection, which is published before the load.
Login ==
  /\ AtCmd("idle") /\ run = "over" /\ login < MaxLogins
  /\ login' = login + 1
  /\ numbering' \in Numbering
  /\ feeds' = NoFeeds
  /\ inbox' \in Snapshot
  /\ conn' = "up" /\ broken' = "nothing"
  /\ fatal' = FALSE /\ recovering' = TRUE
  /\ run' = "off"
  /\ Become("reset")
  /\ UNCHANGED <<tape, status, catalog, stores, masks, secSpecs, placer, unsure, wrong, spent>>

ForgetOrders ==
  /\ clients' = {} /\ pendingOrders' = NoOrders
  /\ known' = NoOrders /\ missed' = {}
Relogged ==
  UNCHANGED <<exchangeSide, linkSide, masks, placer, unsure, wrong, spent>>

\* The stores of the old session are dropped; what waits for candles fails.
Reset ==
  /\ AtCmd("reset") /\ Become("startup")
  /\ ForgetOrders
  /\ collector' = 0
  /\ asker' = IF asker.pc \in {"send", "wait"} THEN Waiting ELSE asker
  /\ secSpecs' = NoCatalog
  /\ UNCHANGED <<catalog, tradeStore>>
  /\ Relogged

\* load: RQ_STARTUP brings an empty catalog, then the snapshot is drained.
Startup ==
  /\ AtCmd("startup") /\ conn = "up"
  /\ Become("load")
  /\ catalog' = NoCatalog
  /\ UNCHANGED <<stores, secSpecs>>
  /\ Relogged

LoadRecord ==
  /\ AtCmd("load") /\ conn = "up" /\ inbox # <<>>
  /\ Decode
  /\ UNCHANGED <<run, cmd>>

Drained ==
  /\ AtCmd("load") /\ inbox = <<>>
  /\ Become("resubscribe")
  /\ UNCHANGED <<catalog, stores, secSpecs>>
  /\ Relogged

\* resubscribe: one request with the masks of all symbols.
Subscribed == {i \in Instrument : subs[i] # {} /\ InCatalog(i)}
Resubscribe ==
  /\ AtCmd("resubscribe") /\ conn = "up"
  /\ feeds' = [i \in Instrument |->
       IF catalog[numbering[i]] \in Subscribed THEN subs[catalog[numbering[i]]] ELSE feeds[i]]
  /\ inbox' = inbox \o FlattenSeq([id \in SecId |-> Replay(Meant(id), feeds'[Meant(id)])])
  /\ unsure' = {}
  /\ Become("respecs")
  /\ UNCHANGED <<login, numbering, tape, status, linkSide, catalog, stores, masks, secSpecs, placer,
                 wrong, spent>>

\* The specifications, at best; then the application runs Run.
Finish ==
  /\ AtCmd("respecs")
  /\ secSpecs' \in {secSpecs, Specified({SecOf(i) : i \in Subscribed})}
  /\ recovering' = FALSE
  /\ run' = "polling"
  /\ cmd' = Rest
  /\ UNCHANGED <<exchangeSide, conn, fatal, broken, catalog, stores, masks, placer, unsure, wrong,
                 spent>>

\* fail: the connection is detached and closed.
ReloginFails ==
  /\ cmd.pc \in {"startup", "load", "resubscribe"} /\ login > 1
  /\ conn' = "none"
  /\ recovering' = FALSE
  /\ run' = "over"
  /\ cmd' = Rest
  /\ UNCHANGED <<exchangeSide, fatal, broken, catalog, stores, masks, secSpecs, placer, unsure,
                 wrong, spent>>

-----------------------------------------------------------------------------
(* A history request and an order, on goroutines of their own *)

ClientExists == login > 1 \/ ~recovering
Aside == UNCHANGED <<linkSide, catalog, orderStore, tradeStore, masks, secSpecs, cmd, unsure>>

\* A request for instrument i went out with this secid.
Misses(kind, g, overlapped) ==
  IF Meant(g.sec) = g.of THEN {} ELSE {<<kind, overlapped>>}

\* StartHistory and the lookup of History.
Ask(i) ==
  /\ Spend
  /\ asker.pc = "idle" /\ ClientExists /\ ~recovering /\ conn # "none" /\ InCatalog(i)
  /\ asker' = [pc |-> "register", of |-> i, sec |-> SecOf(i), login |-> login]
  /\ UNCHANGED <<collector, placer, wrong, exchangeSide>>
  /\ Aside

\* The collector is registered, unless a relogin is under way.
Register ==
  /\ asker.pc = "register"
  /\ IF recovering \/ conn = "none"
       THEN asker' = Waiting /\ UNCHANGED collector
       ELSE asker' = [asker EXCEPT !.pc = "send"] /\ collector' = asker.sec
  /\ UNCHANGED <<placer, wrong, exchangeSide, spent>>
  /\ Aside

\* RQ_HISTORY_EXT; without an answer the collector is dropped.
SendHistory ==
  /\ asker.pc = "send"
  /\ \/ /\ conn = "up"
        /\ inbox' = Append(inbox, [kind |-> "candles", sec |-> asker.sec])
        /\ wrong' = wrong \cup Misses("history", asker, login # asker.login)
        /\ asker' = [asker EXCEPT !.pc = "wait"]
        /\ UNCHANGED collector
     \/ asker' = Waiting /\ collector' = 0 /\ UNCHANGED <<inbox, wrong>>
  /\ UNCHANGED <<placer, login, numbering, feeds, tape, status, spent>>
  /\ Aside

\* NewOrder: the lookup in the catalog; nothing asks for `recovering`.
LookUpOrder(i) ==
  /\ Spend
  /\ placer.pc = "idle" /\ ClientExists /\ InCatalog(i)
  /\ placer' = [pc |-> "send", of |-> i, sec |-> SecOf(i),
                 login |-> IF recovering THEN 0 ELSE login]
  /\ UNCHANGED <<askVars, wrong, exchangeSide>>
  /\ Aside

\* The order goes out on whatever connection the client has by now.
SendOrder ==
  /\ placer.pc = "send"
  /\ placer' = Waiting
  /\ \/ conn = "up" /\ wrong' = wrong \cup Misses("order", placer, login # placer.login)
     \/ UNCHANGED wrong
  /\ UNCHANGED <<askVars, exchangeSide, spent>>
  /\ Aside

-----------------------------------------------------------------------------
\* Dial has logged in; the load is about to begin.
NativeInit ==
  /\ login = 1
  /\ numbering \in Numbering
  /\ feeds = NoFeeds
  /\ tape = [i \in Instrument |-> 0]
  /\ status \in [ClientOrder -> 0..1]
  /\ inbox \in Snapshot
  /\ conn = "up" /\ broken = "nothing" /\ recovering = TRUE /\ fatal = FALSE
  /\ catalog = NoCatalog /\ secSpecs = NoCatalog
  /\ subs = NoFeeds /\ wanted = NoFeeds
  /\ dedup = [i \in Instrument |-> 0] /\ told = [i \in Instrument |-> <<>>] /\ unheard = {}
  /\ clients = {} /\ pendingOrders = NoOrders /\ known = NoOrders /\ missed = {}
  /\ collector = 0
  /\ run = "off"
  /\ cmd = [Rest EXCEPT !.pc = "startup"]
  /\ asker = Waiting /\ placer = Waiting
  /\ spent = 0
  /\ unsure = {} /\ wrong = {}

NativeNext ==
  \/ \E i \in Instrument : TradeHappens(i) \/ Ask(i) \/ LookUpOrder(i)
  \/ \E o \in ClientOrder : OrderMoves(o)
  \/ LinkDrops
  \/ PollRecord \/ PollErrs \/ CheckFatal \/ RunSeesFatal
  \/ BeginAttempt \/ AttemptSucceeds \/ AttemptFails \/ WindowEnds
  \/ \E i \in Instrument, f \in Feed, on \in BOOLEAN : ChangeSubscription(i, f, on)
  \/ SendSucceeds \/ SendFails \/ StoreMask \/ LoadSpecs
  \/ ChangePassword \/ MarkThenClose
  \/ Login \/ Reset \/ Startup \/ LoadRecord \/ Drained \/ Resubscribe \/ Finish \/ ReloginFails
  \/ Register \/ SendHistory \/ SendOrder

NativeSpec == NativeInit /\ [][NativeNext]_nativeVars

-----------------------------------------------------------------------------
(* Properties *)

AtRest == cmd.pc = "idle" /\ conn # "none"

\* Between commands the server feeds what the client believes to be subscribed
\* to, in whatever session ("subscriptions restored by model.Symbol"), unless
\* the last change of the instrument ended in an error; the specification kept
\* under a secid is that of the instrument the catalog has there.
FeedsRestored ==
  AtRest =>
    /\ \A i \in Instrument \ unsure : feeds[i] = wanted[i]
    /\ \A id \in SecId : secSpecs[id] \in {Nothing, catalog[id]}

\* The trades told of an instrument are its trades, each once and in order,
\* and none is skipped, whatever was replayed by subscriptions and new
\* sessions under other secids; one that came together with a fatal failure is
\* dropped, and remembered as if it had been told.
TradesOnce ==
  \A i \in Instrument, k \in 1..MaxTradeNo :
    k \in DOMAIN told[i] =>
      /\ told[i][k][1] = i
      /\ k > 1 => told[i][k][2] > told[i][k - 1][2]
      /\ i \notin unheard => told[i][k][2] = k

\* When all records of the session are read, an order of the session's own
\* client has its last status, in whatever order the snapshot came, unless a
\* change came while it was buffered, or the order itself after another client
\* of the session and before its own; nobody else's is ever kept.
OrdersCurrent ==
  /\ \A o \in ClientOrder : known[o] > 0 => Owner[o] \in OwnClient
  /\ run = "polling" /\ inbox = <<>> /\ conn = "up" =>
       \A o \in ClientOrder \ missed : Owner[o] \in OwnClient => known[o] = status[o]

\* A history request goes to the instrument it names, and so does an order,
\* unless a Reconnect began in between; and Run never tries to recover the
\* socket that a fatal change_pass closed.
OnlyOverlapsMisroute ==
  /\ \A w \in wrong : w[2]
  /\ ~(run = "recovering" /\ broken = "close")

=============================================================================
