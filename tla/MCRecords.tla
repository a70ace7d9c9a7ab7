----------------------------- MODULE MCRecords -----------------------------
(***************************************************************************)
(* The paper broker, the recorded market data and its replay, the client   *)
(* of the native protocol and the exchanges of its connection, for TLC.    *)
(* They share no state; in a behaviour one of them is at work.             *)
(***************************************************************************)
EXTENDS MCPaperBroker, Recording, LobReplay, Session, NativeClient, TLC

MCLevel == {<<"bid", 2>>, <<"ask", 3>>, <<"ask", 4>>}

MCEvent ==
  [kind : {"level"}, level : MCLevel, qty : {0, 1}]
  \cup {[kind |-> "gap"], [kind |-> "snapshot", level |-> <<"bid", 2>>, qty |-> 1]}
  \cup {[kind |-> "trade", side |-> "sell", price |-> 2, qty |-> 2, no |-> 1],
        [kind |-> "trade", side |-> "buy", price |-> 3, qty |-> 2, no |-> 2],
        [kind |-> "trade", side |-> "none", price |-> 2, qty |-> 2, no |-> 0]}

MCOrder ==
  [side : {"buy", "sell"}, type : {"market"}, price : {0}, qty : {2}]
  \cup {[side |-> "buy", type |-> "limit", price |-> 2, qty |-> 2],
        [side |-> "sell", type |-> "limit", price |-> 3, qty |-> 2]}

RecordingOver ==
  /\ market = NoLevels /\ changes = MaxChanges /\ outbox = <<>>
  /\ main = "stopped" /\ sessions = 0 /\ losses = 0 /\ pending = TRUE
  /\ rows = <<>> /\ replay = EmptyBook
  /\ interrupted = TRUE
  /\ seen = NoLevels /\ imaged = FALSE /\ marked = TRUE /\ joined = FALSE

LobOver ==
  /\ lob = EmptyBook /\ events = MaxEvents /\ seenTrades = {}
  /\ working = <<>> /\ placed = 0 /\ filled = 0 /\ cancelled = 0 /\ unfilled = 0
  /\ account = NewAccount
  /\ history = <<>>

CONSTANTS o1, o2, own, other, foreign

\* An own order and somebody else's.
MCOwner == o1 :> own @@ o2 :> foreign

\* The instruments of the client are interchangeable.
InstrumentSymmetry == Permutations(Instrument)

SessionOver ==
  /\ mu = {}
  /\ open = FALSE /\ link = FALSE /\ expired = FALSE
  /\ stray = 0 /\ late = MaxLate
  /\ abandoned = <<>> /\ requests = <<>> /\ replies = <<>>
  /\ calls = MaxCalls /\ restores = MaxRestores
  /\ pc = [c \in Caller |-> "idle"]
  /\ call = [c \in Caller |-> NoCall]
  /\ ctxDone = [c \in Caller |-> FALSE]
  /\ timer = [c \in Caller |-> "none"]
  /\ result = [c \in Caller |-> NoResult]
  /\ written = {}

\* Before the records of the first session; any numbering will do.
ClientOver ==
  /\ login = 1 /\ numbering \in Numbering
  /\ feeds = NoFeeds /\ inbox = <<>>
  /\ tape = [i \in Instrument |-> 0] /\ status = NoOrders
  /\ conn = "none" /\ broken = "nothing" /\ recovering = FALSE /\ fatal = FALSE /\ run = "over"
  /\ catalog = NoCatalog /\ secSpecs = NoCatalog
  /\ subs = NoFeeds /\ wanted = NoFeeds
  /\ dedup = [i \in Instrument |-> 0] /\ told = [i \in Instrument |-> <<>>] /\ unheard = {}
  /\ clients = {} /\ pendingOrders = NoOrders /\ known = NoOrders /\ missed = {}
  /\ collector = 0 /\ cmd = Rest /\ asker = Waiting /\ placer = Waiting
  /\ spent = MaxSpent /\ unsure = {} /\ wrong = {}

VARIABLE atWork \* "paper", "recording", "replay", "session" or "client"

MCInit ==
  /\ Init
  /\ \/ atWork = "paper" /\ RecordingOver /\ LobOver /\ SessionOver /\ ClientOver
     \/ atWork = "recording" /\ RecordingInit /\ LobOver /\ SessionOver /\ ClientOver
     \/ atWork = "replay" /\ RecordingOver /\ LobInit /\ SessionOver /\ ClientOver
     \/ atWork = "session" /\ RecordingOver /\ LobOver /\ SessionInit /\ ClientOver
     \/ atWork = "client" /\ RecordingOver /\ LobOver /\ SessionOver /\ NativeInit

MCNext ==
  /\ \/ /\ atWork = "paper" /\ Next
        /\ UNCHANGED <<recordingVars, lobVars, sessionVars, nativeVars>>
     \/ /\ atWork = "recording" /\ RecordingNext
        /\ UNCHANGED <<vars, lobVars, sessionVars, nativeVars>>
     \/ /\ atWork = "replay" /\ LobNext
        /\ UNCHANGED <<vars, recordingVars, sessionVars, nativeVars>>
     \/ /\ atWork = "session" /\ SessionNext
        /\ UNCHANGED <<vars, recordingVars, lobVars, nativeVars>>
     \/ /\ atWork = "client" /\ NativeNext
        /\ UNCHANGED <<vars, recordingVars, lobVars, sessionVars>>
  /\ UNCHANGED atWork

MCSpec == MCInit /\ [][MCNext]_<<vars, recordingVars, lobVars, sessionVars, nativeVars, atWork>>
=============================================================================
