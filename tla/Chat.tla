-------------------------------- MODULE Chat --------------------------------
(***************************************************************************)
(* terminal/agent: the tool-calling loop of a chat with the model, its     *)
(* local fallback, and the store of the dialogs.  llm.go, conversation.go  *)
(* and the entry of analyst.go.                                            *)
(*                                                                         *)
(* Requests of the same dialog run concurrently; only Load and Append take *)
(* the store's lock.  The model (external) answers, calls up to MaxFanOut  *)
(* tools, or fails.  A message is its role; a message with tool calls      *)
(* carries how many, and a tool message which call it answers.  The byte   *)
(* budget of a dialog is a number of messages.  The screen context, which  *)
(* is in no history, the ledger and the events are left out.               *)
(***************************************************************************)
EXTENDS Integers, FiniteSets, SequencesExt

CONSTANTS Talker,        \* goroutines that serve chat requests
          Dialog,        \* conversation ids
          MaxIterations, \* maxToolIterations
          MaxFanOut,     \* bound on the calls of one reply
          LRUSize,       \* conversationLRUSize
          MaxTurns,      \* defaultConversationTurns
          MaxMessages,   \* defaultConversationBytes
          MaxChats       \* bound on the requests

ASSUME LoopAssumption == {MaxIterations, MaxFanOut, MaxMessages, MaxChats} \subseteq Nat
ASSUME StoreAssumption == {LRUSize, MaxTurns} \subseteq Nat \ {0}

VARIABLES entries,   \* entries[d]: the messages of a dialog, <<>> if it is not kept
          lru,       \* memoryConversations.order
          chat,      \* chat[t]: the request a goroutine serves
          chats,     \* bound: requests begun
          bare       \* history: dialogs made anew by a request that had loaded the old one

chatVars == <<entries, lru, chat, chats, bare>>

Message == [role : {"system", "user", "answer"}, n : {0}]
           \cup [role : {"calls", "tool"}, n : 1..MaxFanOut]
System == [role |-> "system", n |-> 0]
User == [role |-> "user", n |-> 0]
AnswerMessage == [role |-> "answer", n |-> 0]
NoChat == [pc |-> "idle", dialog |-> CHOOSE d \in Dialog : TRUE, loaded |-> <<>>, turn |-> <<>>,
           iteration |-> 0, called |-> 0, acted |-> FALSE, bare |-> FALSE]

ChatTypeOK ==
  /\ entries \in [Dialog -> Seq(Message)]
  /\ lru \in Seq(Dialog) /\ IsInjective(lru)
  /\ \A t \in Talker :
       /\ chat[t].pc \in {"idle", "ask", "tools", "store", "failed", "analyst"}
       /\ chat[t].iteration \in 0..MaxIterations
  /\ chats \in 0..MaxChats
  /\ bare \subseteq Dialog

ChatInit ==
  /\ entries = [d \in Dialog |-> <<>>]
  /\ lru = <<>>
  /\ chat = [t \in Talker |-> NoChat]
  /\ chats = 0
  /\ bare = {}

-----------------------------------------------------------------------------
(* The store *)

Remembered(d) == entries[d] # <<>>
Forget(d, order) == IF d \in ToSet(order) THEN RemoveAt(order, CHOOSE k \in DOMAIN order : order[k] = d)
                                         ELSE order
Touch(d, order) == Append(Forget(d, order), d)

\* turnGroups: where the turns of a history begin, its first message included;
\* and where the newest n of them do.
Turns(msgs) == {k \in DOMAIN msgs : k = 1 \/ msgs[k] = User}
Newest(n, msgs) == {k \in Turns(msgs) : Cardinality({j \in Turns(msgs) : j > k}) < n}

\* Faulty: single messages are dropped from the oldest side.
TrimMessages(msgs) ==
  LET system == IF msgs[1] = System THEN 1 ELSE 0
      body == SubSeq(msgs, system + 1, Len(msgs))
      excess == IF Len(msgs) > MaxMessages THEN Len(msgs) - MaxMessages ELSE 0
  IN  SubSeq(msgs, 1, system) \o SubSeq(body, excess + 1, Len(body))

\* trimConversation: whole turns are dropped from the oldest side until both
\* bounds hold or one turn is left; the bytes are those before the trimming,
\* so a dialog over its budget keeps the newest turn only.
Trim(msgs) ==
  LET system == IF msgs[1] = System THEN 1 ELSE 0
      body == SubSeq(msgs, system + 1, Len(msgs))
      turns == IF Len(msgs) > MaxMessages THEN 1 ELSE MaxTurns
  IN  SubSeq(msgs, 1, system) \o SubSeq(body, Min(Newest(turns, body)), Len(body))

\* evictLocked, for a dialog that is not kept.
Kept == {d \in Dialog : Remembered(d)}
Evicted(d) == IF ~Remembered(d) /\ Cardinality(Kept) >= LRUSize /\ lru # <<>> THEN {Head(lru)} ELSE {}

\* Append.
Store(t, msgs) ==
  LET d == chat[t].dialog
      out == Evicted(d)
  IN  /\ entries' = [e \in Dialog |-> IF e = d THEN Trim(entries[d] \o msgs)
                                      ELSE IF e \in out THEN <<>> ELSE entries[e]]
      /\ lru' = Touch(d, IF out = {} THEN lru ELSE Tail(lru))
      /\ bare' = (bare \ out) \cup (IF ~Remembered(d) /\ msgs[1] # System THEN {d} ELSE {})

-----------------------------------------------------------------------------
(* chatLLM *)

AtChat(t, pc) == chat[t].pc = pc
Say(t, msgs, pc) == chat' = [chat EXCEPT ![t].turn = @ \o msgs, ![t].pc = pc]
GoChat(t, pc) == chat' = [chat EXCEPT ![t].pc = pc]
Unstored == UNCHANGED <<entries, lru, bare>>

\* The messages of the next request to the model.
Payload(t) == chat[t].loaded \o chat[t].turn

\* Load: a dialog without a history begins with the system prompt.
BeginChat(t, d) ==
  /\ AtChat(t, "idle")
  /\ chats < MaxChats /\ chats' = chats + 1
  /\ chat' = [chat EXCEPT ![t] = [NoChat EXCEPT
       !.pc = "ask", !.dialog = d, !.loaded = entries[d], !.bare = Remembered(d) /\ d \in bare,
       !.turn = IF Remembered(d) THEN <<User>> ELSE <<System, User>>]]
  /\ lru' = IF Remembered(d) THEN Touch(d, lru) ELSE lru
  /\ UNCHANGED <<entries, bare>>

Iterating(t) == AtChat(t, "ask") /\ chat[t].iteration < MaxIterations

\* The model answers; the last request, without tools, takes an empty answer.
ModelAnswers(t) ==
  /\ AtChat(t, "ask")
  /\ GoChat(t, "store")
  /\ Unstored /\ UNCHANGED chats

ModelCalls(t, n) ==
  /\ Iterating(t)
  /\ chat' = [chat EXCEPT ![t].turn = Append(@, [role |-> "calls", n |-> n]),
                          ![t].pc = "tools", ![t].called = 0]
  /\ Unstored /\ UNCHANGED chats

\* A failed request, an empty answer, or the context is done.
ModelFails(t) ==
  /\ AtChat(t, "ask")
  /\ GoChat(t, "failed")
  /\ Unstored /\ UNCHANGED chats

\* One call of the reply; a tool may have side effects.
CallTool(t) ==
  LET k == chat[t].called + 1
      reply == chat[t].turn[Len(chat[t].turn) - chat[t].called]
      last == k = reply.n
  IN  /\ AtChat(t, "tools")
      /\ \E acts \in BOOLEAN :
           chat' = [chat EXCEPT ![t].turn = Append(@, [role |-> "tool", n |-> k]),
                                ![t].called = k,
                                ![t].acted = @ \/ acts,
                                ![t].iteration = IF last THEN @ + 1 ELSE @,
                                ![t].pc = IF last THEN "ask" ELSE "tools"]
      /\ Unstored /\ UNCHANGED chats

\* The completed turn is stored.
Persist(t) ==
  /\ AtChat(t, "store")
  /\ Store(t, Append(chat[t].turn, AnswerMessage))
  /\ chat' = [chat EXCEPT ![t] = NoChat]
  /\ UNCHANGED chats

\* Faulty: a failed request is sent again.
FallbackRetries(t) ==
  /\ AtChat(t, "failed")
  /\ chat' = [chat EXCEPT ![t] = NoChat] \/ GoChat(t, "ask")
  /\ Unstored /\ UNCHANGED chats

\* Chat after a failure: nothing is stored; a request that acted, or whose
\* context is done, ends, any other is answered by the local analyst.
Fallback(t) ==
  /\ AtChat(t, "failed")
  /\ \/ chat' = [chat EXCEPT ![t] = NoChat]
     \/ ~chat[t].acted /\ GoChat(t, "analyst")
  /\ Unstored /\ UNCHANGED chats

\* localAnalyst: it may start or stop the autonomy, once.
AnalystAnswers(t) ==
  /\ AtChat(t, "analyst")
  /\ chat' = [chat EXCEPT ![t] = NoChat]
  /\ Unstored /\ UNCHANGED chats

ChatStep(t) ==
  \/ ModelAnswers(t) \/ ModelFails(t)
  \/ CallTool(t) \/ Persist(t)
  \/ Fallback(t) \/ AnalystAnswers(t)
  \/ \E n \in 1..MaxFanOut : ModelCalls(t, n)

ChatNext ==
  \E t \in Talker :
    \/ \E d \in Dialog : BeginChat(t, d)
    \/ ChatStep(t)

\* The model and the tools answer or time out (llmComplete's timeout).
ChatFairness == \A t \in Talker : WF_chatVars(ChatStep(t))

ChatSpec == ChatInit /\ [][ChatNext]_chatVars /\ ChatFairness

-----------------------------------------------------------------------------
(* Properties *)

\* Every reply that calls tools is followed by the answers of exactly those.
WholeCalls(msgs) ==
  \A k \in DOMAIN msgs :
    /\ msgs[k].role = "calls" =>
         /\ k + msgs[k].n <= Len(msgs)
         /\ \A j \in 1..msgs[k].n : msgs[k + j] = [role |-> "tool", n |-> j]
    /\ msgs[k].role = "tool" =>
         \E c \in 1..(k - 1) : c + msgs[k].n = k /\ msgs[c].role = "calls" /\ msgs[c].n >= msgs[k].n

\* conversation.go:5: whatever was trimmed, evicted and appended by concurrent
\* requests of a dialog, the model is sent a history in which no reply is split
\* from the answers of its tools, with the system prompt in front unless the
\* dialog was evicted under a request; the store keeps a bounded number of
\* dialogs, each of a bounded number of complete turns.
DialogsWhole ==
  /\ \A t \in Talker : AtChat(t, "ask") =>
       /\ WholeCalls(Payload(t))
       /\ Head(Payload(t)) = System \/ chat[t].bare
  /\ Len(lru) <= LRUSize /\ ToSet(lru) = Kept
  /\ \A d \in Dialog : Remembered(d) =>
       /\ Last(entries[d]) = AnswerMessage
       /\ Cardinality({k \in DOMAIN entries[d] : entries[d][k] = User}) <= MaxTurns

\* llm.go's loop and fallback: a chat ends, however the model calls and fails,
\* whatever its tools do and other chats store.
ChatsEnd == \A t \in Talker : (chat[t].pc # "idle") ~> (chat[t].pc = "idle")
=============================================================================
