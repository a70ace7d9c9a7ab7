------------------------------- MODULE MCFeed -------------------------------
(***************************************************************************)
(* The market data of the terminal and the bots that trade on it for TLC:  *)
(* LiveFeed.tla, ClosedBars.tla and BotManager.tla.  They share no state;  *)
(* in a behaviour one of them is at work and the others are over.          *)
(***************************************************************************)
EXTENDS LiveFeed, ClosedBars, BotManager, TLC

CONSTANTS c1, c2

\* One caller of a short series, one of a long one.
MCWant == c1 :> 1 @@ c2 :> 2

FeedOver ==
  /\ loop = "ended" /\ client = 0 /\ dialled = 0 /\ open = {} /\ old = 0
  /\ cancelled = TRUE /\ pollers = {} /\ kinds = FALSE /\ closing = "closed"
  /\ caller = [c \in Caller |-> "done"]
  /\ using = [c \in Caller |-> 0]
  /\ answer = [c \in Caller |-> 0]
  /\ flight = FALSE /\ cached = 0

BarsOver ==
  /\ clock = End /\ timer = End /\ online = TRUE /\ outages = 0
  /\ events = <<>> /\ producer = "ended" /\ last = 0 /\ cutoff = 0 /\ asked = 0 /\ closed = {}
  /\ connected = FALSE /\ ctxDone = TRUE /\ emitted = <<>> /\ late = FALSE

BotOver ==
  /\ stage = "stopped" /\ running = FALSE
  /\ cancel = 0 /\ bars = <<>> /\ lastBar = 0 /\ paperFunded = FALSE
  /\ starts = MaxStarts
  /\ phase = [r \in Run |-> "ended"]
  /\ cancelling = {} /\ done = {}
  /\ sent = [r \in Run |-> 0]
  /\ stream = [r \in Run |-> <<>>]
  /\ decision = [r \in Run |-> NoDecision]
  /\ position = 0 /\ clientOrderIDs = {} /\ orders = <<>>

VARIABLE atWork \* "feed", "bars" or "bot"

MCInit ==
  \/ atWork = "feed" /\ FeedInit /\ BarsOver /\ BotOver
  \/ atWork = "bars" /\ FeedOver /\ BarsInit /\ BotOver
  \/ atWork = "bot" /\ FeedOver /\ BarsOver /\ BotInit

MCNext ==
  /\ \/ atWork = "feed" /\ FeedNext /\ UNCHANGED <<barVars, botVars>>
     \/ atWork = "bars" /\ BarsNext /\ UNCHANGED <<feedVars, botVars>>
     \/ atWork = "bot" /\ BotNext /\ UNCHANGED <<feedVars, barVars>>
  /\ UNCHANGED atWork

MCSpec ==
  /\ MCInit /\ [][MCNext]_<<feedVars, barVars, botVars, atWork>>
  /\ FeedFairness /\ BarsFairness /\ BotFairness
=============================================================================
