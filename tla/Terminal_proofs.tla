-------------------------- MODULE Terminal_proofs --------------------------
(***************************************************************************)
(* The safety properties of Terminal.tla, of Recording.tla and of          *)
(* Chat.tla, for any tabs, requests, changes of the account and room in a  *)
(* client's channel, any levels, quantities, sessions and lost links, and  *)
(* any chats, dialogs, calls and bounds of the store.                      *)
(*                                                                         *)
(* Terminal.  OrdersReachClients is about the tabs in the hub only, since  *)
(* a tab that is dropped is owed an event it has no room for.  So it needs *)
(* to know that a tab comes into the hub with nothing owed: Tab says what  *)
(* a stream that is not subscribed has, and that an event is in the        *)
(* handler's hand exactly while it is written.                             *)
(*                                                                         *)
(* Recording.  Rebuilt holds when the rows are read; before that, it is    *)
(* about the book the rows not yet read will lead to.  RecordingInv says   *)
(* that there is one (Leads) and that it is Sound: its levels are those    *)
(* the recorder has seen, or it is empty, and the replies under way        *)
(* continue it (Linked), each the one before (Run).                        *)
(*                                                                         *)
(* Chat.  DialogsWhole is about what the model is sent; a reply in the     *)
(* middle of its calls is not whole yet.  ChatInv says of it that the      *)
(* answers still to come (Answers) complete it, and of a stored dialog     *)
(* that it is Complete.  Histories stay whole when they are joined         *)
(* (WholeJoined) and when they are cut at a message that answers no call   *)
(* (WholeCut), as trimConversation does.                                   *)
(***************************************************************************)
EXTENDS Terminal, Recording, Chat, SequenceTheorems, FiniteSetTheorems, WellFoundedInduction, TLAPS

-----------------------------------------------------------------------------
(* The last orders of a sequence of events *)

\* What is queued is written after what is in hand.
LEMMA ConcatAppend ==
  ASSUME NEW S, NEW d \in Seq(S), NEW s \in Seq(S), NEW e \in S
  PROVE  d \o Append(s, e) = Append(d \o s, e)
<1>1. Append(s, e) = s \o <<e>> /\ Append(d \o s, e) = (d \o s) \o <<e>>
  BY AppendIsConcat, ConcatProperties
<1>2. <<e>> \in Seq(S)
  OBVIOUS
<1> QED
  BY <1>1, <1>2, ConcatAssociative

\* An orders event at the end is the last one; another kind leaves the last one
\* where it is.
LEMMA LastAppend ==
  ASSUME NEW events \in Seq(HubEvent), NEW ev \in HubEvent, NEW state
  PROVE  /\ ev.kind = "orders" /\ ev.state = state => LastOrders(Append(events, ev), state)
         /\ ev.kind # "orders" /\ LastOrders(events, state)
              => LastOrders(Append(events, ev), state)
<1>1. /\ Len(Append(events, ev)) = Len(events) + 1
      /\ \A i \in 1..Len(events) : Append(events, ev)[i] = events[i]
      /\ Append(events, ev)[Len(events) + 1] = ev
      /\ Len(events) \in Nat
  BY AppendProperties, LenProperties
<1>2. CASE ev.kind = "orders" /\ ev.state = state
  <2>1. Len(events) + 1 \in 1..Len(Append(events, ev))
    BY <1>1
  <2>2. \A j \in Len(events) + 1 + 1..Len(Append(events, ev)) : FALSE
    BY <1>1
  <2> QED
    BY <1>1, <1>2, <2>1, <2>2 DEF LastOrders
<1>3. ASSUME ev.kind # "orders", LastOrders(events, state)
      PROVE  LastOrders(Append(events, ev), state)
  <2>1. PICK k \in 1..Len(events) :
          /\ events[k].kind = "orders" /\ events[k].state = state
          /\ \A j \in k + 1..Len(events) : events[j].kind # "orders"
    BY <1>3 DEF LastOrders
  <2>2. ASSUME NEW j \in k + 1..Len(Append(events, ev))
        PROVE  Append(events, ev)[j].kind # "orders"
    <3>1. j \in k + 1..Len(events) \/ j = Len(events) + 1
      BY <1>1, <2>1
    <3>2. CASE j \in k + 1..Len(events)
      <4>1. j \in 1..Len(events)
        BY <1>1, <2>1, <3>2
      <4> QED
        BY <1>1, <2>1, <3>2, <4>1
    <3>3. CASE j = Len(events) + 1
      BY <1>1, <1>3, <3>3
    <3> QED
      BY <3>1, <3>2, <3>3
  <2>3. k \in 1..Len(Append(events, ev)) /\ Append(events, ev)[k] = events[k]
    BY <1>1, <2>1
  <2> QED
    BY <2>1, <2>2, <2>3 DEF LastOrders
<1> QED
  BY <1>2, <1>3

\* When the first event is taken away, the last orders stay unless they were it.
LEMMA LastTail ==
  ASSUME NEW ev \in HubEvent, NEW events \in Seq(HubEvent), NEW state,
         LastOrders(<<ev>> \o events, state)
  PROVE  LastOrders(events, state) \/ (ev.kind = "orders" /\ ev.state = state)
<1>1. /\ Len(<<ev>> \o events) = 1 + Len(events) /\ Len(events) \in Nat
      /\ (<<ev>> \o events)[1] = ev
      /\ \A i \in 2..1 + Len(events) : (<<ev>> \o events)[i] = events[i - 1]
  <2>1. <<ev>> \in Seq(HubEvent) /\ Len(<<ev>>) = 1 /\ <<ev>>[1] = ev
    OBVIOUS
  <2> HIDE DEF HubEvent
  <2>2. Len(events) \in Nat
    BY LenProperties
  <2>3. /\ Len(<<ev>> \o events) = Len(<<ev>>) + Len(events)
        /\ \A i \in 1..Len(<<ev>>) + Len(events) :
             (<<ev>> \o events)[i] = IF i <= Len(<<ev>>) THEN <<ev>>[i]
                                      ELSE events[i - Len(<<ev>>)]
    BY <2>1, ConcatProperties
  <2> QED
    BY <2>1, <2>2, <2>3
<1>2. PICK k \in 1..Len(<<ev>> \o events) :
        /\ (<<ev>> \o events)[k].kind = "orders" /\ (<<ev>> \o events)[k].state = state
        /\ \A j \in k + 1..Len(<<ev>> \o events) : (<<ev>> \o events)[j].kind # "orders"
  BY DEF LastOrders
<1>3. CASE k = 1
  BY <1>1, <1>2, <1>3
<1>4. CASE k # 1
  <2>1. k - 1 \in 1..Len(events) /\ k \in 2..1 + Len(events)
    BY <1>1, <1>2, <1>4
  <2>2. events[k - 1].kind = "orders" /\ events[k - 1].state = state
    BY <1>1, <1>2, <2>1
  <2>3. ASSUME NEW j \in k - 1 + 1..Len(events)
        PROVE  events[j].kind # "orders"
    <3>1. j + 1 \in k + 1..Len(<<ev>> \o events) /\ j + 1 \in 2..1 + Len(events)
          /\ j + 1 - 1 = j
      BY <1>1, <2>1
    <3>2. (<<ev>> \o events)[j + 1] = events[j]
      BY <1>1, <3>1
    <3>3. (<<ev>> \o events)[j + 1].kind # "orders"
      BY <1>2, <3>1
    <3> QED
      BY <3>2, <3>3
  <2>4. PICK i \in 1..Len(events) : i = k - 1
    BY <2>1
  <2>5. \A j \in i + 1..Len(events) : events[j].kind # "orders"
    BY <2>3, <2>4
  <2>6. events[i].kind = "orders" /\ events[i].state = state
    BY <2>2, <2>4
  <2>7. LastOrders(events, state)
    BY <2>5, <2>6 DEF LastOrders
  <2> QED
    BY <2>7
<1> QED
  BY <1>3, <1>4

-----------------------------------------------------------------------------
(* The inductive invariant *)

Tab(b) ==
  /\ b \in hub => stream[b] \in Streaming
  /\ stream[b] = "write" <=> hand[b] # <<>>
  /\ stream[b] \notin Streaming => queue[b] = <<>> /\ owed[b] = -1
  /\ b \in hub /\ owed[b] # -1 => LastOrders(hand[b] \o queue[b], owed[b])

TerminalInv == TerminalTypeOK /\ \A b \in Browser : Tab(b)

\* The terminal starts without a stream.
LEMMA TerminalInitInv == TerminalInit => TerminalInv
<1> SUFFICES ASSUME TerminalInit PROVE TerminalInv
  OBVIOUS
<1>1. <<>> \in Seq(HubEvent) /\ Len(<<>>) = 0
  BY EmptySeq
<1>2. 0 \in 0..MaxAccount /\ -1 \in -1..MaxAccount
  BY TerminalAssumption
<1>3. queue \in [Browser -> Seq(HubEvent)] /\ hand \in [Browser -> Seq(HubEvent)]
  BY <1>1 DEF TerminalInit
<1>4. \A b \in Browser : queue[b] = <<>> /\ hand[b] = <<>>
  BY DEF TerminalInit
<1>5. \A b \in Browser : Len(queue[b]) <= HubBuffer /\ Len(hand[b]) <= 1
  BY <1>1, <1>4, TerminalAssumption
<1>6. /\ account \in 0..MaxAccount /\ hub \subseteq Browser
      /\ stream \in [Browser -> {"none", "open"} \cup Streaming]
      /\ told \in [Browser -> -1..MaxAccount] /\ owed \in [Browser -> -1..MaxAccount]
      /\ publisher \in [Publisher -> {"idle", "quoted", "changed", "orders", "read",
                                       "portfolio", "done"}]
      /\ saw \in [Publisher -> 0..MaxAccount]
      /\ term \in {"serving", "closing", "closingFailed", "shutdown", "feed", "exited"}
  BY <1>2 DEF TerminalInit
<1>7. TerminalTypeOK
  BY <1>3, <1>5, <1>6 DEF TerminalTypeOK
<1>8. ASSUME NEW b \in Browser PROVE Tab(b)
  BY <1>4 DEF TerminalInit, Tab, Streaming
<1> QED
  BY <1>7, <1>8 DEF TerminalInv

\* A tab none of whose state a step touches keeps its part of the invariant.
LEMMA TabFrame ==
  ASSUME NEW b \in Browser, Tab(b), b \in hub' => b \in hub,
         stream'[b] = stream[b], hand'[b] = hand[b], queue'[b] = queue[b], owed'[b] = owed[b]
  PROVE  Tab(b)'
BY DEF Tab

\* publish: a tab with room is given the event, one without leaves the hub.
LEMMA PublishInv ==
  ASSUME TerminalInv, NEW ev \in HubEvent, Publish(ev)
  PROVE  /\ queue' \in [Browser -> Seq(HubEvent)] /\ hub' \subseteq Browser
         /\ owed' \in [Browser -> -1..MaxAccount]
         /\ \A b \in Browser : Len(queue'[b]) <= HubBuffer
         /\ \A b \in Browser : Tab(b)'
<1>1. TerminalTypeOK /\ \A b \in Browser : Tab(b)
  BY DEF TerminalInv
<1>2. /\ queue' = [b \in Browser |-> IF b \in hub /\ Len(queue[b]) < HubBuffer
                                       THEN Append(queue[b], ev) ELSE queue[b]]
      /\ hub' = {b \in hub : Len(queue[b]) < HubBuffer}
      /\ owed' = [b \in Browser |-> IF ev.kind = "orders" /\ b \in hub THEN ev.state ELSE owed[b]]
      /\ UNCHANGED <<stream, hand>>
  BY DEF Publish, HubPublish
<1>3. \A b \in Browser : /\ queue[b] \in Seq(HubEvent) /\ hand[b] \in Seq(HubEvent)
                         /\ Len(queue[b]) \in Nat /\ Len(queue[b]) <= HubBuffer
  BY <1>1, LenProperties DEF TerminalTypeOK
<1>4. \A b \in Browser : /\ Append(queue[b], ev) \in Seq(HubEvent)
                         /\ Len(Append(queue[b], ev)) = Len(queue[b]) + 1
  BY <1>3, AppendProperties
<1>5. ev.kind = "orders" => ev.state \in -1..MaxAccount
  BY TerminalAssumption DEF HubEvent
<1>6. queue' \in [Browser -> Seq(HubEvent)] /\ hub' \subseteq Browser
  BY <1>1, <1>2, <1>3, <1>4 DEF TerminalTypeOK
<1>7. owed' \in [Browser -> -1..MaxAccount]
  BY <1>1, <1>2, <1>5 DEF TerminalTypeOK
<1>8. \A b \in Browser : Len(queue'[b]) <= HubBuffer
  BY <1>2, <1>3, <1>4, TerminalAssumption
<1>9. ASSUME NEW b \in Browser PROVE Tab(b)'
  <2>1. CASE b \in hub'
    <3>1. /\ b \in hub /\ queue'[b] = Append(queue[b], ev) /\ stream[b] \in Streaming
          /\ owed'[b] = IF ev.kind = "orders" THEN ev.state ELSE owed[b]
      BY <1>1, <1>2, <2>1 DEF Tab
    <3>2. hand[b] \o queue[b] \in Seq(HubEvent)
      BY <1>3, ConcatProperties
    <3>3. hand[b] \o Append(queue[b], ev) = Append(hand[b] \o queue[b], ev)
      <4>1. queue[b] \in Seq(HubEvent) /\ hand[b] \in Seq(HubEvent)
        BY <1>3
      <4>2. \A d, q \in Seq(HubEvent) : d \o Append(q, ev) = Append(d \o q, ev)
        BY ConcatAppend
      <4> QED
        BY <4>1, <4>2
    <3>4. owed'[b] # -1 => LastOrders(Append(hand[b] \o queue[b], ev), owed'[b])
      BY <1>1, <3>1, <3>2, LastAppend DEF Tab
    <3> QED
      BY <1>1, <1>2, <3>1, <3>3, <3>4 DEF Tab
  <2>2. CASE b \notin hub'
    <3>1. stream[b] \notin Streaming => queue'[b] = <<>> /\ owed'[b] = -1
      BY <1>1, <1>2 DEF Tab
    <3> QED
      BY <1>1, <1>2, <2>2, <3>1 DEF Tab
  <2> QED
    BY <2>1, <2>2
<1> QED
  BY <1>6, <1>7, <1>8, <1>9

\* A new stream is subscribed with nothing owed to it.
LEMMA OpenInv ==
  ASSUME TerminalInv, NEW b \in Browser, OpenStream(b) \/ SubscribeStream(b)
  PROVE  TerminalInv'
<1>1. TerminalTypeOK /\ \A x \in Browser : Tab(x)
  BY DEF TerminalInv
<1>2. TerminalTypeOK'
  BY <1>1 DEF TerminalTypeOK, OpenStream, SubscribeStream, publisherVars, Streaming
<1>3. ASSUME NEW x \in Browser PROVE Tab(x)'
  <2>1. stream[b] \in {"none", "open"} /\ queue' = queue /\ hand' = hand /\ owed' = owed
    BY DEF OpenStream, SubscribeStream
  <2>2. queue[b] = <<>> /\ owed[b] = -1 /\ hand[b] = <<>>
    BY <1>1, <2>1 DEF Tab, Streaming
  <2>3. CASE x = b
    BY <1>1, <2>1, <2>2, <2>3 DEF Tab, OpenStream, SubscribeStream, Streaming, TerminalTypeOK
  <2>4. CASE x # b
    <3>1. stream'[x] = stream[x] /\ (x \in hub' <=> x \in hub)
      BY <1>1, <2>4 DEF OpenStream, SubscribeStream, TerminalTypeOK
    <3> QED
      BY <1>1, <2>1, <3>1, TabFrame
  <2> QED
    BY <2>3, <2>4
<1> QED
  BY <1>2, <1>3 DEF TerminalInv

\* The handler takes the first event in hand: nothing is lost on the way.
LEMMA TakeInv ==
  ASSUME TerminalInv, NEW b \in Browser, TakeEvent(b)
  PROVE  TerminalInv'
<1>1. TerminalTypeOK /\ \A x \in Browser : Tab(x)
  BY DEF TerminalInv
<1>2. queue[b] \in Seq(HubEvent) /\ queue[b] # <<>> /\ stream[b] = "select" /\ hand[b] = <<>>
  BY <1>1 DEF TerminalTypeOK, TakeEvent, Tab, Streaming
<1>3. /\ Head(queue[b]) \in HubEvent /\ Tail(queue[b]) \in Seq(HubEvent)
      /\ Len(Tail(queue[b])) = Len(queue[b]) - 1
      /\ <<Head(queue[b])>> \o Tail(queue[b]) = queue[b]
  BY <1>2, HeadTailProperties
<1>4. <<Head(queue[b])>> \in Seq(HubEvent) /\ Len(<<Head(queue[b])>>) = 1
  BY <1>3
<1>5. <<>> \o queue[b] = queue[b]
  BY <1>2, ConcatEmptySeq
<1>6. /\ hand' = [hand EXCEPT ![b] = <<Head(queue[b])>>]
      /\ queue' = [queue EXCEPT ![b] = Tail(queue[b])]
      /\ stream' = [stream EXCEPT ![b] = "write"]
      /\ hub' = hub /\ owed' = owed
  BY DEF TakeEvent
<1>7. TerminalTypeOK'
  <2>1. queue' \in [Browser -> Seq(HubEvent)] /\ hand' \in [Browser -> Seq(HubEvent)]
    BY <1>1, <1>3, <1>4, <1>6 DEF TerminalTypeOK
  <2>2. Len(queue[b]) \in Nat
    BY <1>2, LenProperties
  <2>3. \A x \in Browser : Len(queue'[x]) <= HubBuffer /\ Len(hand'[x]) <= 1
    BY <1>1, <1>3, <1>4, <1>6, <2>2, TerminalAssumption DEF TerminalTypeOK
  <2>4. stream' \in [Browser -> {"none", "open"} \cup Streaming]
    BY <1>1, <1>6 DEF TerminalTypeOK, Streaming
  <2> QED
    BY <1>1, <2>1, <2>3, <2>4 DEF TerminalTypeOK, TakeEvent, publisherVars
<1>8. ASSUME NEW x \in Browser PROVE Tab(x)'
  <2>1. CASE x = b
    <3>1. hand'[b] \o queue'[b] = hand[b] \o queue[b]
      BY <1>1, <1>2, <1>3, <1>5, <1>6 DEF TerminalTypeOK
    <3>2. hand'[b] # <<>> /\ stream'[b] = "write"
      BY <1>1, <1>6 DEF TerminalTypeOK
    <3> QED
      BY <1>1, <1>6, <2>1, <3>1, <3>2 DEF Tab, Streaming
  <2>2. CASE x # b
    BY <1>1, <1>6, <2>2, TabFrame DEF TerminalTypeOK
  <2> QED
    BY <2>1, <2>2
<1> QED
  BY <1>7, <1>8 DEF TerminalInv

\* The event in hand is written: it was the owed one, or that is still queued.
LEMMA WriteInv ==
  ASSUME TerminalInv, NEW b \in Browser, WriteEvent(b)
  PROVE  TerminalInv'
<1>1. TerminalTypeOK /\ \A x \in Browser : Tab(x)
  BY DEF TerminalInv
<1>2. /\ hand[b] \in Seq(HubEvent) /\ queue[b] \in Seq(HubEvent) /\ hand[b] # <<>>
      /\ Len(hand[b]) <= 1 /\ stream[b] = "write"
  BY <1>1 DEF TerminalTypeOK, WriteEvent, Tab
<1>3. PICK ev \in HubEvent : ev = Head(hand[b])
  BY <1>2, HeadTailProperties
<1>4. hand[b] = <<ev>>
  <2>1. Len(hand[b]) = 1 /\ hand[b][1] = ev
    <3>1. PICK n \in Nat : n = Len(hand[b])
      BY <1>2, LenProperties
    <3>2. n # 0
      BY <1>2, <3>1, EmptySeq
    <3>3. Head(hand[b]) = hand[b][1]
      OBVIOUS
    <3>4. n = 1
      <4>1. n <= 1
        BY <1>2, <3>1
      <4> QED
        BY <3>2, <4>1
    <3> QED
      BY <1>3, <3>1, <3>3, <3>4
  <2> QED
    BY <1>2, <2>1
<1>5. /\ told' = IF ev.kind = "portfolio" THEN [told EXCEPT ![b] = ev.state] ELSE told
      /\ owed' = IF ev.kind = "orders" /\ ev.state = owed[b] THEN [owed EXCEPT ![b] = -1] ELSE owed
      /\ hand' = [hand EXCEPT ![b] = <<>>]
      /\ stream' = [stream EXCEPT ![b] = "select"]
      /\ hub' = hub /\ queue' = queue
  BY <1>3 DEF WriteEvent
<1>6. <<>> \in Seq(HubEvent) /\ Len(<<>>) = 0 /\ <<>> \o queue[b] = queue[b]
  BY <1>2, EmptySeq, ConcatEmptySeq
<1>7. TerminalTypeOK'
  <2>1. hand' \in [Browser -> Seq(HubEvent)] /\ \A x \in Browser : Len(hand'[x]) <= 1
    BY <1>1, <1>5, <1>6 DEF TerminalTypeOK
  <2>2. ev.kind = "portfolio" => ev.state \in -1..MaxAccount
    BY TerminalAssumption DEF HubEvent
  <2>3. -1 \in -1..MaxAccount
    BY TerminalAssumption
  <2>4. told' \in [Browser -> -1..MaxAccount] /\ owed' \in [Browser -> -1..MaxAccount]
    BY <1>1, <1>5, <2>2, <2>3 DEF TerminalTypeOK
  <2>5. stream' \in [Browser -> {"none", "open"} \cup Streaming]
    BY <1>1, <1>5 DEF TerminalTypeOK, Streaming
  <2> QED
    BY <1>1, <2>1, <2>4, <2>5 DEF TerminalTypeOK, WriteEvent, publisherVars
<1>8. ASSUME NEW x \in Browser PROVE Tab(x)'
  <2>1. CASE x = b
    <3>1. hand'[b] = <<>> /\ stream'[b] = "select" /\ hand'[b] \o queue'[b] = queue[b]
      BY <1>1, <1>5, <1>6 DEF TerminalTypeOK
    <3>2. owed'[b] # -1 => owed'[b] = owed[b] /\ ~(ev.kind = "orders" /\ ev.state = owed[b])
      BY <1>1, <1>5 DEF TerminalTypeOK
    <3>3. b \in hub /\ owed[b] # -1 => LastOrders(<<ev>> \o queue[b], owed[b])
      BY <1>1, <1>4 DEF Tab
    <3>4. \A state : LastOrders(<<ev>> \o queue[b], state) =>
                       LastOrders(queue[b], state) \/ (ev.kind = "orders" /\ ev.state = state)
      <4>1. PICK q \in Seq(HubEvent) : q = queue[b]
        BY <1>2
      <4>2. \A state : LastOrders(<<ev>> \o q, state) =>
                         LastOrders(q, state) \/ (ev.kind = "orders" /\ ev.state = state)
        BY LastTail
      <4> QED
        BY <4>1, <4>2
    <3>5. b \in hub' /\ owed'[b] # -1 => LastOrders(hand'[b] \o queue'[b], owed'[b])
      BY <1>5, <3>1, <3>2, <3>3, <3>4
    <3> QED
      BY <2>1, <3>1, <3>5 DEF Tab, Streaming
  <2>2. CASE x # b
    BY <1>1, <1>5, <2>2, TabFrame DEF TerminalTypeOK
  <2> QED
    BY <2>1, <2>2
<1> QED
  BY <1>7, <1>8 DEF TerminalInv

\* The handler of a stream returns and leaves nothing behind.
LEMMA ReturnInv ==
  ASSUME TerminalInv, NEW b \in Browser, StreamReturns(b), term' = term
  PROVE  TerminalInv'
<1>1. TerminalTypeOK /\ \A x \in Browser : Tab(x)
  BY DEF TerminalInv
<1>2. <<>> \in Seq(HubEvent) /\ Len(<<>>) = 0 /\ -1 \in -1..MaxAccount /\ 0 <= HubBuffer
  BY EmptySeq, TerminalAssumption
<1>3. /\ hub' = hub \ {b} /\ stream' = [stream EXCEPT ![b] = "none"]
      /\ hand' = [hand EXCEPT ![b] = <<>>] /\ queue' = [queue EXCEPT ![b] = <<>>]
      /\ told' = [told EXCEPT ![b] = -1] /\ owed' = [owed EXCEPT ![b] = -1]
      /\ UNCHANGED <<account, publisher, saw, term>>
  BY DEF StreamReturns, publisherVars
<1>4. TerminalTypeOK'
  <2>1. queue' \in [Browser -> Seq(HubEvent)] /\ hand' \in [Browser -> Seq(HubEvent)]
    BY <1>1, <1>2, <1>3 DEF TerminalTypeOK
  <2>2. \A x \in Browser : Len(queue'[x]) <= HubBuffer /\ Len(hand'[x]) <= 1
    BY <1>1, <1>2, <1>3 DEF TerminalTypeOK
  <2>3. told' \in [Browser -> -1..MaxAccount] /\ owed' \in [Browser -> -1..MaxAccount]
    BY <1>1, <1>2, <1>3 DEF TerminalTypeOK
  <2> QED
    BY <1>1, <1>3, <2>1, <2>2, <2>3 DEF TerminalTypeOK
<1>5. ASSUME NEW x \in Browser PROVE Tab(x)'
  <2>1. CASE x = b
    <3>1. /\ b \notin hub' /\ stream'[b] = "none" /\ hand'[b] = <<>>
          /\ queue'[b] = <<>> /\ owed'[b] = -1
      BY <1>1, <1>3 DEF TerminalTypeOK
    <3> QED
      BY <2>1, <3>1 DEF Tab
  <2>2. CASE x # b
    BY <1>1, <1>3, <2>2, TabFrame DEF TerminalTypeOK
  <2> QED
    BY <2>1, <2>2
<1> QED
  BY <1>4, <1>5 DEF TerminalInv

\* What changes no stream keeps the invariant with the types.
LEMMA AsideInv ==
  ASSUME TerminalInv, TerminalTypeOK',
         UNCHANGED <<queue, stream, hand, owed>>, hub' \subseteq hub
  PROVE  TerminalInv'
BY TabFrame DEF TerminalInv

\* The publishers: what they publish is an event of the account they read.
LEMMA PublishersInv ==
  ASSUME TerminalInv,
         \/ Tick \/ DriveOrders \/ LoopEnds \/ OthersTrade
         \/ \E p \in Publisher : RequestChanges(p) \/ PublisherStep(p)
  PROVE  TerminalInv'
<1>1. TerminalTypeOK
  BY DEF TerminalInv
<1> DEFINE Places == {"idle", "quoted", "changed", "orders", "read", "portfolio", "done"}
<1>2. \A p \in Publisher, to \in Places : Goes(p, to) => publisher' \in [Publisher -> Places]
  BY <1>1 DEF TerminalTypeOK, Goes
<1>3. "loop" \in Publisher
  BY DEF Publisher
<1>4. AccountChanges => account' \in 0..MaxAccount
  BY <1>1, TerminalAssumption DEF TerminalTypeOK, AccountChanges
<1>5. ASSUME NEW ev \in HubEvent, Publish(ev), publisher' \in [Publisher -> Places],
             saw' \in [Publisher -> 0..MaxAccount], UNCHANGED <<account, term>>
      PROVE  TerminalInv'
  <2>1. /\ queue' \in [Browser -> Seq(HubEvent)] /\ hub' \subseteq Browser
        /\ owed' \in [Browser -> -1..MaxAccount]
        /\ \A b \in Browser : Len(queue'[b]) <= HubBuffer
        /\ \A b \in Browser : Tab(b)'
    BY <1>5, PublishInv
  <2>2. UNCHANGED <<stream, hand, told>>
    BY <1>5 DEF Publish
  <2> QED
    BY <1>1, <1>5, <2>1, <2>2 DEF TerminalInv, TerminalTypeOK
<1>6. CASE Tick
  <2>1. [kind |-> "other"] \in HubEvent
    BY DEF HubEvent
  <2>2. publisher' \in [Publisher -> Places]
    BY <1>2, <1>3, <1>6 DEF Tick
  <2> QED
    BY <1>1, <1>5, <1>6, <2>1, <2>2 DEF Tick, TerminalTypeOK
<1>7. CASE DriveOrders
  <2>1. publisher' \in [Publisher -> Places] /\ account' \in 0..MaxAccount
    BY <1>1, <1>2, <1>3, <1>4, <1>7 DEF DriveOrders, UnchangedTick, TerminalTypeOK
  <2>2. TerminalTypeOK'
    BY <1>1, <1>7, <2>1 DEF DriveOrders, clientVars, TerminalTypeOK
  <2> QED
    BY <1>7, <2>2, AsideInv DEF DriveOrders, clientVars
<1>8. CASE LoopEnds
  <2>1. publisher' \in [Publisher -> Places]
    BY <1>2, <1>3, <1>8 DEF LoopEnds
  <2>2. TerminalTypeOK'
    BY <1>1, <1>8, <2>1 DEF LoopEnds, clientVars, TerminalTypeOK
  <2> QED
    BY <1>8, <2>2, AsideInv DEF LoopEnds, clientVars
<1>9. CASE OthersTrade
  <2>1. TerminalTypeOK'
    BY <1>1, <1>4, <1>9 DEF OthersTrade, clientVars, publisherVars, TerminalTypeOK
  <2> QED
    BY <1>9, <2>1, AsideInv DEF OthersTrade, clientVars
<1>10. ASSUME NEW p \in Publisher, RequestChanges(p) PROVE TerminalInv'
  <2>1. publisher' \in [Publisher -> Places] /\ account' \in 0..MaxAccount
    BY <1>2, <1>4, <1>10 DEF RequestChanges
  <2>2. TerminalTypeOK'
    BY <1>1, <1>10, <2>1 DEF RequestChanges, clientVars, TerminalTypeOK
  <2> QED
    BY <1>10, <2>2, AsideInv DEF RequestChanges, clientVars
<1>11. ASSUME NEW p \in Publisher, NEW from, NEW to \in Places, ReadSnapshot(p, from, to)
       PROVE  TerminalInv'
  <2>1. publisher' \in [Publisher -> Places] /\ saw' \in [Publisher -> 0..MaxAccount]
    BY <1>1, <1>2, <1>11 DEF ReadSnapshot, TerminalTypeOK
  <2>2. TerminalTypeOK'
    BY <1>1, <1>11, <2>1 DEF ReadSnapshot, clientVars, TerminalTypeOK
  <2> QED
    BY <1>11, <2>2, AsideInv DEF ReadSnapshot, clientVars
<1>12. ASSUME NEW p \in Publisher, NEW state \in {"orders", "portfolio"}, NEW to \in Places,
              PublishState(p, state, to)
       PROVE  TerminalInv'
  <2>1. [kind |-> state, state |-> saw[p]] \in HubEvent
    <3>1. saw[p] \in 0..MaxAccount
      BY <1>1 DEF TerminalTypeOK
    <3> QED
      BY <3>1 DEF HubEvent
  <2>2. 0 \in 0..MaxAccount
    BY TerminalAssumption
  <2>3. publisher' \in [Publisher -> Places] /\ saw' \in [Publisher -> 0..MaxAccount]
    BY <1>1, <1>2, <1>12, <2>2 DEF PublishState, TerminalTypeOK
  <2> QED
    BY <1>5, <1>12, <2>1, <2>3 DEF PublishState
<1>13. ASSUME NEW p \in Publisher, PublisherStep(p) PROVE TerminalInv'
  BY <1>11, <1>12, <1>13 DEF PublisherStep
<1> QED
  BY <1>6, <1>7, <1>8, <1>9, <1>10, <1>13

\* main leaves the streams alone, but for the hub it empties.
LEMMA MainInv ==
  ASSUME TerminalInv, Signal \/ MainStep
  PROVE  TerminalInv'
<1>1. TerminalTypeOK
  BY DEF TerminalInv
<1>2. UNCHANGED <<queue, stream, hand, owed, told, account, publisher, saw>>
  BY DEF Signal, MainStep, LeaveServing, CloseHub, Shutdown, CloseFeed, clientVars, publisherVars
<1>3. hub' \subseteq hub
  BY DEF Signal, MainStep, LeaveServing, CloseHub, Shutdown, CloseFeed, clientVars
<1>4. term' \in {"serving", "closing", "closingFailed", "shutdown", "feed", "exited"}
  BY <1>1 DEF Signal, MainStep, LeaveServing, CloseHub, Shutdown, CloseFeed, TerminalTypeOK
<1>5. TerminalTypeOK'
  BY <1>1, <1>2, <1>3, <1>4 DEF TerminalTypeOK
<1> QED
  BY <1>2, <1>3, <1>5, AsideInv

\* TerminalInv is inductive.
LEMMA TerminalInductive == TerminalInv /\ [TerminalNext]_termVars => TerminalInv'
<1> SUFFICES ASSUME TerminalInv, [TerminalNext]_termVars PROVE TerminalInv'
  OBVIOUS
<1>1. ASSUME NEW b \in Browser, OpenStream(b) \/ StreamStep(b) \/ TabGone(b)
      PROVE  TerminalInv'
  <2>1. CASE ChannelClosed(b) \/ WriteFails(b) \/ TabGone(b)
    BY <2>1, ReturnInv DEF ChannelClosed, WriteFails, TabGone, StreamReturns
  <2> QED
    BY <1>1, <2>1, OpenInv, TakeInv, WriteInv DEF StreamStep
<1>2. ASSUME NEW p \in Ordering, RequestChanges(p) \/ PublisherStep(p) PROVE TerminalInv'
  BY <1>2, PublishersInv DEF Publisher
<1>3. CASE OthersTrade \/ LoopStep
  BY <1>3, PublishersInv DEF LoopStep, Publisher
<1>4. CASE Signal \/ MainStep
  BY <1>4, MainInv
<1>5. CASE UNCHANGED termVars
  <2>1. TerminalTypeOK'
    BY <1>5 DEF termVars, clientVars, publisherVars, TerminalInv, TerminalTypeOK
  <2> QED
    BY <1>5, <2>1, AsideInv DEF termVars, clientVars
<1> QED
  BY <1>1, <1>2, <1>3, <1>4, <1>5 DEF TerminalNext

\* Every reachable state of the terminal satisfies TerminalInv: it is well
\* typed, and no client's channel exceeds hubBuffer.
THEOREM TerminalInvariance == TerminalSpec => []TerminalInv
BY TerminalInitInv, TerminalInductive, PTL DEF TerminalSpec

\* A tab in the hub has, or will get, the last orders published since it
\* subscribed (publish drops the slow client, never the event).
THEOREM NoOrdersLost == TerminalSpec => []OrdersReachClients
<1>1. TerminalInv => OrdersReachClients
  BY DEF TerminalInv, TerminalTypeOK, Tab, OrdersReachClients
<1> QED
  BY <1>1, TerminalInvariance, PTL

-----------------------------------------------------------------------------
(* Recording: rows and the book they lead to *)

Path(start, rws, books) ==
  /\ books \in [1..Len(rws) + 1 -> Book]
  /\ books[1] = start
  /\ \A k \in 1..Len(rws) : books[k + 1] = Apply(books[k], rws[k])

\* Reading these rows, lobreplay gets from the book `start` to this one.
Leads(start, rws, book) == \E books : Path(start, rws, books) /\ books[Len(rws) + 1] = book

\* No rows, no change.
LEMMA LeadsNowhere ==
  ASSUME NEW start \in Book
  PROVE  /\ Leads(start, <<>>, start)
         /\ \A book : Leads(start, <<>>, book) => book = start
<1>1. Len(<<>>) = 0
  OBVIOUS
<1> HIDE DEF Book
<1>2. Leads(start, <<>>, start)
  <2> DEFINE books == [k \in 1..1 |-> start]
  <2>1. books \in [1..Len(<<>>) + 1 -> Book] /\ books[1] = start
    BY <1>1
  <2>2. Path(start, <<>>, books) /\ books[Len(<<>>) + 1] = start
    BY <1>1, <2>1 DEF Path
  <2> QED
    BY <2>2 DEF Leads
<1>3. ASSUME NEW book, Leads(start, <<>>, book) PROVE book = start
  <2>1. PICK books : Path(start, <<>>, books) /\ books[Len(<<>>) + 1] = book
    BY <1>3 DEF Leads
  <2> QED
    BY <1>1, <2>1 DEF Path
<1> QED
  BY <1>2, <1>3

\* Rows that are read one after the other.
LEMMA LeadsOn ==
  ASSUME NEW start, NEW r \in Seq(Row), NEW s \in Seq(Row), NEW mid, NEW book,
         Leads(start, r, mid), Leads(mid, s, book)
  PROVE  Leads(start, r \o s, book)
<1> HIDE DEF Book, Row
<1>1. PICK b : Path(start, r, b) /\ b[Len(r) + 1] = mid
  BY DEF Leads
<1>2. PICK c : Path(mid, s, c) /\ c[Len(s) + 1] = book
  BY DEF Leads
<1>3. PICK n \in Nat, m \in Nat : n = Len(r) /\ m = Len(s)
  BY LenProperties
<1>4. /\ Len(r \o s) = n + m
      /\ \A i \in 1..n + m : (r \o s)[i] = IF i <= n THEN r[i] ELSE s[i - n]
  BY <1>3, ConcatProperties
<1> DEFINE d == [k \in 1..n + m + 1 |-> IF k <= n + 1 THEN b[k] ELSE c[k - n]]
<1>5. /\ b \in [1..n + 1 -> Book] /\ b[1] = start /\ b[n + 1] = mid
      /\ \A k \in 1..n : b[k + 1] = Apply(b[k], r[k])
  BY <1>1, <1>3 DEF Path
<1>6. /\ c \in [1..m + 1 -> Book] /\ c[1] = mid /\ c[m + 1] = book
      /\ \A k \in 1..m : c[k + 1] = Apply(c[k], s[k])
  BY <1>2, <1>3 DEF Path
<1>7. \A k \in 1..n + m + 1 : /\ k <= n + 1 => d[k] = b[k]
                              /\ k > n => d[k] = c[k - n]
  BY <1>5, <1>6
<1>8. d \in [1..n + m + 1 -> Book]
  <2>1. ASSUME NEW k \in 1..n + m + 1
        PROVE  (IF k <= n + 1 THEN b[k] ELSE c[k - n]) \in Book
    <3>1. k <= n + 1 => k \in 1..n + 1
      OBVIOUS
    <3>2. ~(k <= n + 1) => k - n \in 1..m + 1
      OBVIOUS
    <3> QED
      BY <1>5, <1>6, <3>1, <3>2
  <2> QED
    BY <2>1
<1>9. d[1] = start /\ d[n + m + 1] = book
  BY <1>5, <1>6, <1>7
<1> HIDE DEF d
<1>10. ASSUME NEW k \in 1..n + m PROVE d[k + 1] = Apply(d[k], (r \o s)[k])
  <2>1. CASE k <= n
    <3>1. k \in 1..n /\ k \in 1..n + m + 1 /\ k + 1 \in 1..n + m + 1 /\ k + 1 <= n + 1
      BY <2>1
    <3>2. d[k] = b[k] /\ d[k + 1] = b[k + 1] /\ (r \o s)[k] = r[k]
      BY <1>4, <1>7, <2>1, <3>1
    <3> QED
      BY <1>5, <3>1, <3>2
  <2>2. CASE ~(k <= n)
    <3>1. PICK j \in 1..m : k = n + j /\ k - n = j /\ k + 1 - n = j + 1
      BY <2>2
    <3>2. d[k] = c[j] /\ d[k + 1] = c[j + 1] /\ (r \o s)[k] = s[j]
      BY <1>4, <1>7, <2>2, <3>1
    <3> QED
      BY <1>6, <3>1, <3>2
  <2> QED
    BY <2>1, <2>2
<1>11. Path(start, r \o s, d) /\ d[Len(r \o s) + 1] = book
  BY <1>4, <1>8, <1>9, <1>10 DEF Path
<1> QED
  BY <1>11 DEF Leads

\* lobreplay reads one row.
LEMMA LeadsTail ==
  ASSUME NEW start, NEW r \in Seq(Row), r # <<>>, NEW book, Leads(start, r, book)
  PROVE  Leads(Apply(start, Head(r)), Tail(r), book)
<1> HIDE DEF Book, Row
<1>1. PICK b : Path(start, r, b) /\ b[Len(r) + 1] = book
  BY DEF Leads
<1>2. PICK n \in Nat : n = Len(r)
  BY LenProperties
<1>3. /\ Head(r) = r[1] /\ Len(Tail(r)) = n - 1 /\ n # 0
      /\ \A i \in 1..n - 1 : Tail(r)[i] = r[i + 1]
  <2>1. n # 0
    BY <1>2, EmptySeq
  <2> QED
    BY <1>2, <2>1, HeadTailProperties
<1>4. /\ b \in [1..n + 1 -> Book] /\ b[1] = start /\ b[n + 1] = book
      /\ \A k \in 1..n : b[k + 1] = Apply(b[k], r[k])
  BY <1>1, <1>2 DEF Path
<1> DEFINE d == [k \in 1..n |-> b[k + 1]]
<1>5. d \in [1..n -> Book] /\ d[1] = Apply(start, Head(r)) /\ d[n] = book
  BY <1>3, <1>4
<1>6. ASSUME NEW k \in 1..n - 1 PROVE d[k + 1] = Apply(d[k], Tail(r)[k])
  <2>1. k + 1 \in 1..n /\ k \in 1..n
    OBVIOUS
  <2> QED
    BY <1>3, <1>4, <2>1
<1>7. Len(Tail(r)) + 1 = n
  BY <1>3
<1>8. Path(Apply(start, Head(r)), Tail(r), d) /\ d[Len(Tail(r)) + 1] = book
  BY <1>3, <1>5, <1>6, <1>7 DEF Path
<1> QED
  BY <1>8 DEF Leads

\* SetToSeq lists a finite set.
LEMMA Listed ==
  ASSUME NEW S, IsFiniteSet(S)
  PROVE  /\ SetToSeq(S) \in Seq(S)
         /\ \A x \in S : \E i \in 1..Len(SetToSeq(S)) : SetToSeq(S)[i] = x
<1>1. PICK n \in Nat : n = Cardinality(S) /\ ExistsBijection(1..n, S)
  BY FS_CardinalityType
<1>2. \E f \in [1..n -> S] : IsInjective(f)
  BY <1>1 DEF ExistsBijection, Bijection, Injection
<1>3. SetToSeq(S) \in [1..n -> S] /\ IsInjective(SetToSeq(S))
  BY <1>1, <1>2 DEF SetToSeq
<1>4. SetToSeq(S) \in Injection(1..n, S)
  BY <1>3 DEF Injection
<1>5. Cardinality(1..n) = n
  BY FS_Interval
<1>6. SetToSeq(S) \in Surjection(1..n, S)
  BY <1>1, <1>4, <1>5, FS_Injection
<1>7. SetToSeq(S) \in Seq(S) /\ Len(SetToSeq(S)) = n
  BY <1>3
<1> QED
  BY <1>6, <1>7 DEF Surjection

\* The book after the rows of a reply: its levels are set, on an empty book when
\* a snapshot begins.
Base(book) == IF pending /\ ~book.inSnapshot THEN NoLevels ELSE book.levels
Set(book, levels, ls) ==
  [levels |-> [l \in Level |-> IF l \in ls THEN levels[l] ELSE Base(book)[l]],
   inSnapshot |-> pending]
SoFar(book, reply, ls) == IF ls = {} THEN book ELSE Set(book, reply.levels, ls)
Recorded(book, reply) == SoFar(book, reply, DOMAIN reply.levels)
RowOf(reply, l) == [kind |-> KindOfCallback, level |-> l, qty |-> reply.levels[l]]

\* What a reply is made of.
LEMMA ReplyType ==
  ASSUME NEW reply \in Reply
  PROVE  /\ DOMAIN reply.levels \subseteq Level
         /\ \A l \in DOMAIN reply.levels : reply.levels[l] \in 0..MaxQty
         /\ reply.market \in Quantities /\ reply.full \in BOOLEAN
BY DEF Reply

\* Setting levels of a book makes a book.
LEMMA SetType ==
  ASSUME NEW book \in Book, NEW reply \in Reply, NEW ls \in SUBSET DOMAIN reply.levels,
         pending \in BOOLEAN
  PROVE  Set(book, reply.levels, ls) \in Book
<1>1. Base(book) \in Quantities
  BY RecordingAssumption DEF Base, Book, Quantities, NoLevels
<1>2. [l \in Level |-> IF l \in ls THEN reply.levels[l] ELSE Base(book)[l]] \in Quantities
  BY <1>1, ReplyType DEF Quantities
<1> QED
  BY <1>2 DEF Set, Book

\* The rows of a reply are rows, one for each of its levels.
LEMMA RowsOfReply ==
  ASSUME NEW reply \in Reply, pending \in BOOLEAN
  PROVE  \E ls \in Seq(DOMAIN reply.levels) :
           /\ RowsOf(reply) =
                [i \in 1..Len(ls) |-> RowOf(reply, ls[i])]
           /\ RowsOf(reply) \in Seq(Row) /\ Len(RowsOf(reply)) = Len(ls)
           /\ \A l \in DOMAIN reply.levels : \E i \in 1..Len(ls) : ls[i] = l
<1> DEFINE ls == SetToSeq(DOMAIN reply.levels)
<1>1. IsFiniteSet(DOMAIN reply.levels)
  BY ReplyType, RecordingAssumption, FS_Subset
<1>2. /\ ls \in Seq(DOMAIN reply.levels)
      /\ \A l \in DOMAIN reply.levels : \E i \in 1..Len(ls) : ls[i] = l
  BY <1>1, Listed
<1>3. RowsOf(reply) = [i \in 1..Len(ls) |-> RowOf(reply, ls[i])]
  BY DEF RowsOf, RowOf
<1> HIDE DEF ls
<1>4. PICK n \in Nat : n = Len(ls)
  BY <1>2, LenProperties
<1>5. \A i \in 1..n : ls[i] \in DOMAIN reply.levels
  BY <1>2, <1>4
<1>6. ASSUME NEW i \in 1..n
      PROVE  RowOf(reply, ls[i]) \in Row
  <2>1. ls[i] \in Level /\ reply.levels[ls[i]] \in 0..MaxQty
    BY <1>5, ReplyType
  <2>2. KindOfCallback \in {"snapshot", "level"}
    BY DEF KindOfCallback
  <2> QED
    BY <2>1, <2>2 DEF Row, RowOf
<1>7. RowsOf(reply) \in [1..n -> Row]
  BY <1>3, <1>4, <1>6
<1>8. RowsOf(reply) \in Seq(Row) /\ Len(RowsOf(reply)) = n
  BY <1>7
<1> QED
  BY <1>2, <1>3, <1>4, <1>8

\* Each row sets one level more.
LEMMA SetOneMore ==
  ASSUME NEW book \in Book, NEW reply \in Reply, pending \in BOOLEAN,
         NEW ls \in SUBSET DOMAIN reply.levels, NEW l \in DOMAIN reply.levels,
         NEW row, row = RowOf(reply, l),
         NEW before, before = SoFar(book, reply, ls)
  PROVE  Apply(before, row) = SoFar(book, reply, ls \cup {l})
<1> USE DEF RowOf, SoFar
<1>1. l \in Level /\ Base(book) \in Quantities /\ book.levels \in Quantities
  BY ReplyType, RecordingAssumption DEF Base, Book, Quantities, NoLevels
<1> DEFINE from == IF ls = {} THEN Base(book) ELSE Set(book, reply.levels, ls).levels
<1>2. from = [x \in Level |-> IF x \in ls THEN reply.levels[x] ELSE Base(book)[x]]
  BY <1>1 DEF Set, Quantities
<1>3. [from EXCEPT ![l] = reply.levels[l]]
        = [x \in Level |-> IF x \in ls \cup {l} THEN reply.levels[x] ELSE Base(book)[x]]
  BY <1>1, <1>2
<1>4. CASE pending
  <2>1. row.kind = "snapshot" /\ row.level = l /\ row.qty = reply.levels[l]
    BY <1>4 DEF KindOfCallback
  <2>2. Apply(before, row) = ApplySnapshot(before, row)
    BY <2>1 DEF Apply
  <2>3. (IF before.inSnapshot THEN before.levels ELSE NoLevels) = from
    BY <1>4 DEF Set, Base
  <2>4. ApplySnapshot(before, row)
          = [levels |-> [from EXCEPT ![l] = reply.levels[l]], inSnapshot |-> TRUE]
    BY <2>1, <2>3 DEF ApplySnapshot, SetLevel
  <2>5. pending = TRUE
    BY <1>4
  <2> QED
    BY <1>3, <2>2, <2>4, <2>5 DEF Set
<1>5. CASE ~pending
  <2>1. row.kind = "level" /\ row.level = l /\ row.qty = reply.levels[l]
    BY <1>5 DEF KindOfCallback
  <2>2. Apply(before, row) = ApplyLevel(before, row)
    BY <2>1 DEF Apply
  <2>3. before.levels = from
    BY <1>5 DEF Set, Base
  <2>4. ApplyLevel(before, row)
          = [levels |-> [from EXCEPT ![l] = reply.levels[l]], inSnapshot |-> FALSE]
    BY <2>1, <2>3 DEF ApplyLevel, SetLevel
  <2>5. pending = FALSE
    BY <1>5
  <2> QED
    BY <1>3, <2>2, <2>4, <2>5 DEF Set
<1> QED
  BY <1>4, <1>5

\* The rows of a reply lead to the book with the reply's levels.
LEMMA RowsLead ==
  ASSUME NEW book \in Book, NEW reply \in Reply, pending \in BOOLEAN
  PROVE  Leads(book, RowsOf(reply), Recorded(book, reply)) /\ Recorded(book, reply) \in Book
<1>1. PICK ls \in Seq(DOMAIN reply.levels) :
        /\ RowsOf(reply) =
             [i \in 1..Len(ls) |-> RowOf(reply, ls[i])]
        /\ RowsOf(reply) \in Seq(Row) /\ Len(RowsOf(reply)) = Len(ls)
        /\ \A l \in DOMAIN reply.levels : \E i \in 1..Len(ls) : ls[i] = l
  BY RowsOfReply
<1>2. PICK n \in Nat : n = Len(ls)
  BY LenProperties
<1>3. \A i \in 1..n : ls[i] \in DOMAIN reply.levels
  BY <1>2
<1> DEFINE Done(j) == {ls[i] : i \in 1..j}
           After(j) == SoFar(book, reply, Done(j))
           books == [k \in 1..n + 1 |-> After(k - 1)]
<1>4. ASSUME NEW j \in 0..n PROVE Done(j) \subseteq DOMAIN reply.levels /\ After(j) \in Book
  <2>1. Done(j) \in SUBSET DOMAIN reply.levels
    BY <1>3
  <2> QED
    BY <2>1, SetType DEF SoFar
<1>5. books \in [1..n + 1 -> Book]
  <2>1. \A k \in 1..n + 1 : k - 1 \in 0..n
    OBVIOUS
  <2> QED
    BY <1>4, <2>1
<1>11. \A k \in 1..n + 1 : books[k] = After(k - 1)
  <2> HIDE DEF After
  <2> QED
    OBVIOUS
<1> HIDE DEF books
<1>6. books[1] = book
  <2>1. 1 \in 1..n + 1 /\ Done(1 - 1) = {}
    OBVIOUS
  <2>2. After(1 - 1) = book
    BY <2>1 DEF SoFar
  <2> QED
    BY <1>11, <2>1, <2>2
<1>7. ASSUME NEW k \in 1..n PROVE books[k + 1] = Apply(books[k], RowsOf(reply)[k])
  <2>1. /\ k \in 1..n + 1 /\ k + 1 \in 1..n + 1 /\ k + 1 - 1 = k /\ k - 1 \in 0..n
    OBVIOUS
  <2>2. books[k] = After(k - 1) /\ books[k + 1] = After(k)
    <3> HIDE DEF After
    <3> QED
      BY <1>11, <2>1
  <2>3. Done(k) = Done(k - 1) \cup {ls[k]}
    <3>1. \A i \in 1..k : i \in 1..k - 1 \/ i = k
      OBVIOUS
    <3>2. 1..k - 1 \subseteq 1..k /\ k \in 1..k
      OBVIOUS
    <3> QED
      BY <3>1, <3>2
  <2>4. RowsOf(reply)[k] = RowOf(reply, ls[k])
    BY <1>1, <1>2
  <2>5. PICK done \in SUBSET DOMAIN reply.levels, l \in DOMAIN reply.levels :
          done = Done(k - 1) /\ l = ls[k]
    BY <1>3, <1>4, <2>1
  <2>6. Apply(SoFar(book, reply, done), RowOf(reply, l)) = SoFar(book, reply, done \cup {l})
    BY SetOneMore
  <2> HIDE DEF Done
  <2> QED
    BY <2>2, <2>3, <2>4, <2>5, <2>6
<1>8. Done(n) = DOMAIN reply.levels
  BY <1>1, <1>2, <1>3
<1>9. books[n + 1] = Recorded(book, reply)
  <2>1. n + 1 \in 1..n + 1 /\ n + 1 - 1 = n
    OBVIOUS
  <2>2. After(n) = Recorded(book, reply)
    BY <1>8 DEF Recorded
  <2> HIDE DEF After
  <2> QED
    BY <1>11, <2>1, <2>2
<1>10. Path(book, RowsOf(reply), books)
  BY <1>1, <1>2, <1>5, <1>6, <1>7 DEF Path
<1>12. Recorded(book, reply) \in Book
  <2>1. n + 1 \in 1..n + 1
    OBVIOUS
  <2> QED
    BY <1>5, <1>9, <2>1
<1>13. books[Len(RowsOf(reply)) + 1] = Recorded(book, reply)
  BY <1>1, <1>2, <1>9
<1> QED
  BY <1>10, <1>12, <1>13 DEF Leads

-----------------------------------------------------------------------------
(* Recording: the replies under way *)

Connected == main \in {"polling", "recover"}

\* A reply has the levels of the exchange's book it was made from, all of them
\* if it is an image, and what it does not have is as it was in the book m.
WellFormed(r) ==
  /\ \A l \in DOMAIN r.levels : r.levels[l] = r.market[l]
  /\ r.full => DOMAIN r.levels = Present(r.market)
Follows(m, r) ==
  IF r.full THEN r.market = m ELSE \A l \in Level \ DOMAIN r.levels : r.market[l] = m[l]

\* Queued replies follow each other up to the exchange's book m.
Run(box, m) ==
  /\ \A k \in 1..Len(box) : WellFormed(box[k])
  /\ \A k \in 2..Len(box) : Follows(box[k - 1].market, box[k])
  /\ box # <<>> => box[Len(box)].market = m

\* The first of them, or the exchange's book, follows the book q.
Linked(q, box, m) == IF box = <<>> THEN q = m ELSE Follows(q, box[1])

\* The exchange queues one more reply.
LEMMA RunAppend ==
  ASSUME NEW box \in Seq(Reply), NEW m, Run(box, m),
         NEW r \in Reply, WellFormed(r), Follows(m, r)
  PROVE  /\ Run(Append(box, r), r.market)
         /\ \A q : Linked(q, box, m) => Linked(q, Append(box, r), r.market)
<1> HIDE DEF Reply
<1>1. PICK n \in Nat : n = Len(box)
  BY LenProperties
<1>2. /\ Len(Append(box, r)) = n + 1
      /\ \A k \in 1..n : Append(box, r)[k] = box[k]
      /\ Append(box, r)[n + 1] = r
      /\ Append(box, r) # <<>>
  BY <1>1, AppendProperties
<1>3. ASSUME NEW k \in 1..n + 1 PROVE WellFormed(Append(box, r)[k])
  <2>1. k \in 1..n \/ k = n + 1
    OBVIOUS
  <2> QED
    BY <1>1, <1>2, <2>1 DEF Run
<1>4. ASSUME NEW k \in 2..n + 1 PROVE Follows(Append(box, r)[k - 1].market, Append(box, r)[k])
  <2>1. CASE k = n + 1
    <3>1. n \in 1..n /\ box # <<>> /\ k - 1 = n
      BY <1>1, <2>1
    <3> QED
      BY <1>1, <1>2, <2>1, <3>1 DEF Run
  <2>2. CASE k # n + 1
    <3>1. k \in 2..n /\ k \in 1..n /\ k - 1 \in 1..n
      BY <2>2
    <3> QED
      BY <1>1, <1>2, <3>1 DEF Run
  <2> QED
    BY <2>1, <2>2
<1>5. Run(Append(box, r), r.market)
  BY <1>2, <1>3, <1>4 DEF Run
<1>6. ASSUME NEW q, Linked(q, box, m) PROVE Linked(q, Append(box, r), r.market)
  <2>1. CASE box = <<>>
    BY <1>1, <1>2, <1>6, <2>1 DEF Linked
  <2>2. CASE box # <<>>
    <3>1. 1 \in 1..n
      BY <1>1, <2>2, EmptySeq
    <3> QED
      BY <1>2, <1>6, <2>2, <3>1 DEF Linked
  <2> QED
    BY <2>1, <2>2
<1> QED
  BY <1>5, <1>6

\* A reply is taken from the queue, or lost.
LEMMA RunTail ==
  ASSUME NEW box \in Seq(Reply), box # <<>>, NEW m, Run(box, m)
  PROVE  /\ Head(box) \in Reply /\ WellFormed(Head(box)) /\ Tail(box) \in Seq(Reply)
         /\ Head(box) = box[1]
         /\ Run(Tail(box), m)
         /\ Linked(Head(box).market, Tail(box), m)
<1> HIDE DEF Reply
<1>1. PICK n \in Nat : n = Len(box) /\ n # 0
  BY LenProperties, EmptySeq
<1>2. /\ Head(box) \in Reply /\ Head(box) = box[1] /\ Tail(box) \in Seq(Reply)
      /\ Len(Tail(box)) = n - 1
      /\ \A k \in 1..n - 1 : Tail(box)[k] = box[k + 1]
  BY <1>1, HeadTailProperties
<1>3. Tail(box) = <<>> <=> n = 1
  <2>1. Tail(box) = <<>> <=> Len(Tail(box)) = 0
    BY <1>2, EmptySeq
  <2> QED
    BY <1>2, <2>1
<1>4. ASSUME NEW k \in 1..n - 1 PROVE WellFormed(Tail(box)[k])
  <2>1. k + 1 \in 1..n
    OBVIOUS
  <2> QED
    BY <1>1, <1>2, <2>1 DEF Run
<1>5. ASSUME NEW k \in 2..n - 1 PROVE Follows(Tail(box)[k - 1].market, Tail(box)[k])
  <2>1. PICK j \in 1..n - 1 : j = k - 1 /\ k \in 1..n - 1 /\ k + 1 \in 2..n /\ k + 1 - 1 = j + 1
    OBVIOUS
  <2>2. Tail(box)[j] = box[j + 1] /\ Tail(box)[k] = box[k + 1]
    BY <1>2, <2>1
  <2>3. Follows(box[k + 1 - 1].market, box[k + 1])
    BY <1>1, <2>1 DEF Run
  <2> QED
    BY <2>1, <2>2, <2>3
<1>6. n # 1 => Tail(box)[n - 1].market = m
  <2>1. n # 1 => n - 1 \in 1..n - 1 /\ n - 1 + 1 = n
    BY <1>1
  <2> QED
    BY <1>1, <1>2, <2>1 DEF Run
<1>7. Linked(Head(box).market, Tail(box), m)
  <2>1. CASE n = 1
    BY <1>1, <1>2, <1>3, <2>1 DEF Linked, Run
  <2>2. CASE n # 1
    <3>1. 2 \in 2..n /\ 1 \in 1..n - 1 /\ 1 + 1 = 2 /\ 2 - 1 = 1
      BY <1>1, <2>2
    <3>2. Follows(box[2 - 1].market, box[2])
      BY <1>1, <3>1 DEF Run
    <3>3. Tail(box)[1] = box[2] /\ Head(box) = box[2 - 1]
      BY <1>2, <3>1
    <3> QED
      BY <1>3, <2>2, <3>2, <3>3 DEF Linked
  <2> QED
    BY <2>1, <2>2
<1>8. Run(Tail(box), m)
  BY <1>2, <1>3, <1>4, <1>5, <1>6 DEF Run
<1>9. WellFormed(Head(box))
  <2>1. 1 \in 1..n
    BY <1>1
  <2> QED
    BY <1>1, <1>2, <2>1 DEF Run
<1> QED
  BY <1>2, <1>7, <1>8, <1>9

\* The image of a subscription, and the news of a level.
LEMMA ImageReply ==
  ASSUME market \in Quantities
  PROVE  FullImage \in Reply /\ WellFormed(FullImage) /\ Follows(market, FullImage)
         /\ FullImage.market = market
<1>1. Present(market) \in SUBSET Level
  BY DEF Present
<1>2. [l \in Present(market) |-> market[l]] \in [Present(market) -> 0..MaxQty]
  BY <1>1 DEF Quantities
<1>3. FullImage \in Reply
  BY <1>1, <1>2 DEF FullImage, Reply
<1> QED
  BY <1>3 DEF FullImage, WellFormed, Follows

Changed(l, q) == [market EXCEPT ![l] = q]
News(l, q, m) == [full |-> FALSE, levels |-> [x \in {l} |-> q], market |-> m]

\* A reply about one level leaves the others as they were.
LEMMA LevelReply ==
  ASSUME market \in Quantities, NEW l \in Level, NEW q \in 0..MaxQty, NEW m,
         m = Changed(l, q), NEW r, r = News(l, q, m)
  PROVE  r \in Reply /\ WellFormed(r) /\ Follows(market, r) /\ r.market = m /\ m \in Quantities
<1> USE DEF Changed, News
<1>1. m \in Quantities /\ m[l] = q
  BY DEF Quantities
<1>2. [x \in {l} |-> q] \in [{l} -> 0..MaxQty] /\ {l} \in SUBSET Level
  OBVIOUS
<1>3. r \in Reply
  BY <1>1, <1>2 DEF Reply
<1>4. WellFormed(r)
  BY <1>1 DEF WellFormed
<1>5. Follows(market, r)
  BY DEF Follows, Quantities
<1> QED
  BY <1>1, <1>3, <1>4, <1>5

-----------------------------------------------------------------------------
(* Recording: the inductive invariant *)

\* What the rows written so far lead to, while the recorder has a session whose
\* rows may be joined: nothing before the first row, then levels as they were
\* at the last reply, and all of them after an image.  Unless the book is still
\* empty, the next reply continues it.
Sound(book) ==
  /\ marked => book = EmptyBook
  /\ Connected /\ ~joined =>
       /\ pending => book = EmptyBook
       /\ \A l \in Level : book.levels[l] # 0 => book.levels[l] = seen[l]
       /\ imaged => book.levels = seen
       /\ (book.levels = NoLevels /\ ~imaged) \/ Linked(seen, outbox, market)

RecordingInv ==
  /\ RecordingTypeOK
  /\ Connected => Run(outbox, market)
  /\ \E book \in Book : Leads(replay, rows, book) /\ Sound(book)

\* The recorder starts with nothing.
LEMMA RecordingInitInv == RecordingInit => RecordingInv
<1> SUFFICES ASSUME RecordingInit PROVE RecordingInv
  OBVIOUS
<1>1. NoLevels \in Quantities
  BY RecordingAssumption DEF NoLevels, Quantities
<1>2. EmptyBook \in Book
  BY <1>1 DEF EmptyBook, Book
<1>3. <<>> \in Seq(Reply) /\ <<>> \in Seq(Row)
  BY EmptySeq
<1>4. RecordingTypeOK
  BY <1>1, <1>2, <1>3 DEF RecordingInit, RecordingTypeOK
<1>5. Leads(replay, rows, EmptyBook)
  BY <1>2, LeadsNowhere DEF RecordingInit
<1>6. Sound(EmptyBook) /\ ~Connected
  BY DEF RecordingInit, Sound, Connected
<1> QED
  BY <1>2, <1>4, <1>5, <1>6 DEF RecordingInv

\* handle: the rows of a reply lead from a sound book to a sound one.
LEMMA PollInv ==
  ASSUME RecordingInv, Poll
  PROVE  RecordingInv'
<1>1. RecordingTypeOK /\ Connected /\ Run(outbox, market)
  BY DEF RecordingInv, Poll, Connected
<1>2. PICK book \in Book : Leads(replay, rows, book) /\ Sound(book)
  BY DEF RecordingInv
<1>3. outbox \in Seq(Reply) /\ outbox # <<>> /\ rows \in Seq(Row) /\ pending \in BOOLEAN
  BY <1>1 DEF RecordingTypeOK, Poll
<1>4. PICK reply \in Reply : reply = Head(outbox)
  BY <1>1, <1>3, RunTail
<1>5. /\ WellFormed(reply) /\ reply = outbox[1] /\ Tail(outbox) \in Seq(Reply)
      /\ Run(Tail(outbox), market)
      /\ Linked(reply.market, Tail(outbox), market)
  BY <1>1, <1>3, <1>4, RunTail
<1>6. /\ rows' = rows \o RowsOf(reply)
      /\ pending' = (pending /\ DOMAIN reply.levels = {})
      /\ seen' = reply.market
      /\ imaged' = (imaged \/ reply.full)
      /\ marked' = (marked /\ DOMAIN reply.levels = {})
      /\ outbox' = Tail(outbox)
      /\ UNCHANGED <<market, main, replay, joined>>
  BY <1>4 DEF Poll
<1>7. PICK next \in Book :
        next = Recorded(book, reply) /\ Leads(book, RowsOf(reply), next)
  BY <1>3, RowsLead
<1>13. RowsOf(reply) \in Seq(Row)
  BY <1>3, RowsOfReply
<1>8. Leads(replay', rows', next)
  BY <1>2, <1>3, <1>6, <1>7, <1>13, LeadsOn
<1>9. RecordingTypeOK'
  <2>1. rows' \in Seq(Row)
    BY <1>3, <1>6, <1>13, ConcatProperties
  <2>2. reply.market \in Quantities /\ reply.full \in BOOLEAN
    BY ReplyType
  <2>3. {pending', imaged', marked', joined'} \subseteq BOOLEAN
    BY <1>1, <1>6, <2>2 DEF RecordingTypeOK
  <2> QED
    BY <1>1, <1>5, <1>6, <2>1, <2>2, <2>3 DEF RecordingTypeOK
<1>10. DOMAIN reply.levels = {} => next = book
  BY <1>7 DEF Recorded, SoFar
<1>11. ASSUME Connected', ~joined'
       PROVE  /\ pending' => next = EmptyBook
              /\ \A l \in Level : next.levels[l] # 0 => next.levels[l] = seen'[l]
              /\ imaged' => next.levels = seen'
              /\ Linked(seen', outbox', market')
  <2> DEFINE D == DOMAIN reply.levels
  <2>1. /\ pending => book = EmptyBook
        /\ \A l \in Level : book.levels[l] # 0 => book.levels[l] = seen[l]
        /\ imaged => book.levels = seen
        /\ (book.levels = NoLevels /\ ~imaged) \/ Follows(seen, reply)
    BY <1>1, <1>2, <1>3, <1>5, <1>6, <1>11 DEF Sound, Linked
  <2>2. book.levels \in [Level -> 0..MaxQty] /\ next.levels \in [Level -> 0..MaxQty]
        /\ reply.market \in [Level -> 0..MaxQty] /\ D \subseteq Level
        /\ seen \in [Level -> 0..MaxQty]
    BY <1>1, <1>7, ReplyType DEF Book, Quantities, RecordingTypeOK
  <2>3. ASSUME NEW l \in Level
        PROVE  next.levels[l] = IF l \in D THEN reply.market[l] ELSE book.levels[l]
    <3>1. Base(book) = book.levels
      BY <2>1 DEF Base, EmptyBook
    <3> QED
      BY <1>5, <1>7, <3>1 DEF Recorded, SoFar, Set, WellFormed
  <2>4. ASSUME NEW l \in Level, next.levels[l] # 0 PROVE next.levels[l] = reply.market[l]
    <3>1. CASE l \in D
      BY <2>3, <3>1
    <3>2. CASE l \notin D
      <4>1. book.levels[l] # 0 /\ book.levels[l] = seen[l] /\ next.levels[l] = book.levels[l]
        BY <2>1, <2>3, <2>4, <3>2
      <4>2. Follows(seen, reply)
        BY <2>1, <4>1 DEF NoLevels
      <4>3. reply.market[l] = seen[l]
        BY <3>2, <4>2 DEF Follows
      <4> QED
        BY <4>1, <4>3
    <3> QED
      BY <3>1, <3>2
  <2>5. ASSUME imaged' PROVE next.levels = reply.market
    <3>1. ASSUME NEW l \in Level PROVE next.levels[l] = reply.market[l]
      <4>1. CASE l \in D
        BY <2>3, <4>1
      <4>2. CASE l \notin D /\ reply.full
        <5>1. reply.market[l] = 0
          BY <1>5, <4>2 DEF WellFormed, Present
        <5> QED
          BY <2>4, <5>1
      <4>3. CASE l \notin D /\ ~reply.full
        <5>1. imaged /\ Follows(seen, reply)
          BY <1>6, <2>1, <2>5, <4>3
        <5>2. reply.market[l] = seen[l] /\ book.levels[l] = seen[l]
          BY <2>1, <4>3, <5>1 DEF Follows
        <5> QED
          BY <2>3, <4>3, <5>2
      <4> QED
        BY <4>1, <4>2, <4>3
    <3> QED
      BY <2>2, <3>1
  <2>6. pending' => next = EmptyBook
    BY <1>6, <1>10, <2>1
  <2>7. Linked(seen', outbox', market')
    BY <1>5, <1>6
  <2> QED
    BY <1>6, <2>4, <2>5, <2>6, <2>7
<1>12. marked' => next = EmptyBook
  BY <1>2, <1>6, <1>10 DEF Sound
<1>15. Sound(next)'
  BY <1>11, <1>12 DEF Sound
<1>14. Connected' => Run(outbox', market')
  BY <1>5, <1>6
<1> QED
  BY <1>8, <1>9, <1>14, <1>15 DEF RecordingInv
\* A book and a row make a book.
LEMMA ApplyType ==
  ASSUME NEW book \in Book, NEW row \in Row
  PROVE  Apply(book, row) \in Book
<1>1. NoLevels \in Quantities
  BY RecordingAssumption DEF NoLevels, Quantities
<1>2. CASE row.kind = "gap"
  <2>1. Apply(book, row) = EmptyBook
    BY <1>2 DEF Apply, ApplyGap
  <2> QED
    BY <1>1, <2>1 DEF EmptyBook, Book
<1>3. CASE row.kind # "gap"
  <2>1. row.kind \in {"snapshot", "level"} /\ row.level \in Level /\ row.qty \in 0..MaxQty
    BY <1>3 DEF Row
  <2>2. ASSUME NEW q \in Quantities PROVE SetLevel(q, row) \in Quantities
    BY <2>1 DEF SetLevel, Quantities
  <2>3. book.levels \in Quantities
    BY DEF Book
  <2>4. ApplyLevel(book, row) \in Book
    BY <2>2, <2>3 DEF ApplyLevel, Book
  <2>5. ApplySnapshot(book, row) \in Book
    BY <1>1, <2>2, <2>3 DEF ApplySnapshot, Book
  <2> QED
    BY <2>1, <2>4, <2>5 DEF Apply
<1> QED
  BY <1>2, <1>3

\* The exchange's book changes, and a session that is subscribed will hear of it.
LEMMA MarketInv ==
  ASSUME RecordingInv, MarketMoves
  PROVE  RecordingInv'
<1>1. RecordingTypeOK /\ outbox \in Seq(Reply) /\ market \in Quantities
  BY DEF RecordingInv, RecordingTypeOK
<1>2. PICK l \in Level, q \in 0..MaxQty :
        /\ market' = Changed(l, q)
        /\ outbox' = IF Connected THEN Append(outbox, News(l, q, market')) ELSE outbox
  BY DEF MarketMoves, Connected, Changed, News
<1>3. PICK m : m = market'
  OBVIOUS
<1>4. PICK r : r = News(l, q, m)
  OBVIOUS
<1>5. r \in Reply /\ WellFormed(r) /\ Follows(market, r) /\ r.market = m /\ m \in Quantities
  <2>1. m = Changed(l, q)
    BY <1>2, <1>3
  <2> QED
    BY <1>1, <1>4, <2>1, LevelReply
<1>6. outbox' = IF Connected THEN Append(outbox, r) ELSE outbox
  BY <1>2, <1>3, <1>4
<1>7. UNCHANGED <<main, pending, rows, replay, seen, imaged, marked, joined>>
  BY DEF MarketMoves
<1>8. Connected => /\ Run(outbox', market')
                   /\ \A s : Linked(s, outbox, market) => Linked(s, outbox', market')
  BY <1>1, <1>3, <1>5, <1>6, RunAppend DEF RecordingInv
<1>9. PICK book \in Book : Leads(replay, rows, book) /\ Sound(book)
  BY DEF RecordingInv
<1>10. Sound(book)'
  BY <1>7, <1>8, <1>9 DEF Sound, Connected
<1>11. outbox' \in Seq(Reply)
  <2> HIDE DEF Reply
  <2> QED
    BY <1>1, <1>5, <1>6, AppendProperties
<1>12. RecordingTypeOK'
  BY <1>1, <1>3, <1>5, <1>7, <1>11 DEF RecordingTypeOK
<1>13. (Connected => Run(outbox, market))'
  BY <1>7, <1>8 DEF Connected
<1> QED
  BY <1>7, <1>9, <1>10, <1>12, <1>13 DEF RecordingInv

\* A session begins with an image, on an empty book if the last row is a gap.
LEMMA DialInv ==
  ASSUME RecordingInv, Dial
  PROVE  RecordingInv'
<1>1. RecordingTypeOK /\ market \in Quantities
  BY DEF RecordingInv, RecordingTypeOK
<1>2. PICK r \in Reply : r = FullImage /\ WellFormed(r) /\ r.market = market
  BY <1>1, ImageReply
<1>3. /\ outbox' = <<r>> /\ pending' = TRUE /\ imaged' = FALSE
      /\ joined' = (joined \/ ~marked)
      /\ UNCHANGED <<market, rows, replay, seen, marked>> /\ main' = "polling"
  BY <1>2 DEF Dial
<1>4. outbox' \in Seq(Reply) /\ Len(outbox') = 1 /\ outbox'[1] = r
  <2> HIDE DEF Reply
  <2> QED
    BY <1>3
<1>5. Run(outbox', market')
  <2>1. \A k \in 1..1 : k = 1
    OBVIOUS
  <2>2. \A k \in 2..1 : FALSE
    OBVIOUS
  <2> QED
    BY <1>2, <1>3, <1>4, <2>1, <2>2 DEF Run
<1>6. PICK book \in Book : Leads(replay, rows, book) /\ Sound(book)
  BY DEF RecordingInv
<1>7. Sound(book)'
  <2>1. ~joined' => marked
    BY <1>1, <1>3 DEF RecordingTypeOK
  <2>2. marked => book = EmptyBook
    BY <1>6 DEF Sound
  <2>3. book = EmptyBook => book.levels = NoLevels /\ \A l \in Level : book.levels[l] = 0
    BY DEF EmptyBook, NoLevels
  <2> QED
    BY <1>3, <2>1, <2>2, <2>3 DEF Sound
<1>8. RecordingTypeOK'
  <2>1. {pending', imaged', marked', joined'} \subseteq BOOLEAN
    BY <1>1, <1>3 DEF RecordingTypeOK
  <2> QED
    BY <1>1, <1>3, <1>4, <2>1 DEF RecordingTypeOK
<1> QED
  BY <1>3, <1>5, <1>6, <1>7, <1>8 DEF RecordingInv

\* The row of a gap empties the book, whatever is lost with the link.
LEMMA LinkInv ==
  ASSUME RecordingInv, LinkLost
  PROVE  RecordingInv'
<1>1. RecordingTypeOK /\ Connected /\ Run(outbox, market)
  BY DEF RecordingInv, LinkLost, Connected
<1>2. outbox \in Seq(Reply) /\ rows \in Seq(Row)
  BY <1>1 DEF RecordingTypeOK
<1>3. /\ rows' = rows \o GapRows /\ pending' = TRUE /\ imaged' = FALSE
      /\ marked' = TRUE /\ joined' = FALSE
      /\ UNCHANGED <<market, replay, seen>> /\ main' = "recover"
      /\ outbox' = outbox \/ (outbox # <<>> /\ outbox' = Tail(outbox))
  BY DEF LinkLost
<1>4. outbox' \in Seq(Reply) /\ Run(outbox', market')
  BY <1>1, <1>2, <1>3, RunTail
<1>5. PICK book \in Book : Leads(replay, rows, book)
  BY DEF RecordingInv
<1>6. EmptyBook \in Book
  BY RecordingAssumption DEF EmptyBook, Book, NoLevels, Quantities
<1>7. PICK gap \in Row : gap = [kind |-> "gap"]
  BY DEF Row
<1>8. GapRows = <<gap>> /\ Apply(book, gap) = EmptyBook
  BY <1>7 DEF GapRows, Apply, ApplyGap
<1>9. <<gap>> \in Seq(Row)
  OBVIOUS
<1>10. Leads(book, <<gap>>, EmptyBook)
  <2> HIDE DEF Book, Row
  <2>1. PICK empty \in Book : empty = EmptyBook
    BY <1>6
  <2> DEFINE books == [k \in 1..2 |-> IF k = 1 THEN book ELSE empty]
  <2>2. books \in [1..Len(<<gap>>) + 1 -> Book] /\ books[1] = book
    OBVIOUS
  <2>3. \A k \in 1..Len(<<gap>>) : k = 1 /\ books[k + 1] = empty /\ <<gap>>[k] = gap
    OBVIOUS
  <2>4. Path(book, <<gap>>, books)
    BY <1>8, <2>1, <2>2, <2>3 DEF Path
  <2>5. books[Len(<<gap>>) + 1] = empty
    OBVIOUS
  <2> QED
    BY <2>1, <2>4, <2>5 DEF Leads
<1>11. Leads(replay', rows', EmptyBook)
  BY <1>2, <1>3, <1>5, <1>8, <1>9, <1>10, LeadsOn
<1>12. Sound(EmptyBook)'
  BY <1>3 DEF Sound, EmptyBook, NoLevels
<1>13. RecordingTypeOK'
  <2>1. rows' \in Seq(Row)
    BY <1>2, <1>3, <1>8, <1>9, ConcatProperties
  <2>2. {pending', imaged', marked', joined'} \subseteq BOOLEAN
    BY <1>3
  <2> QED
    BY <1>1, <1>3, <1>4, <2>1, <2>2 DEF RecordingTypeOK
<1> QED
  BY <1>4, <1>6, <1>11, <1>12, <1>13 DEF RecordingInv

\* The recorder subscribes again and the exchange queues another image.
LEMMA RecoverInv ==
  ASSUME RecordingInv, Recover
  PROVE  RecordingInv'
<1>1. RecordingTypeOK /\ Connected /\ Run(outbox, market)
  BY DEF RecordingInv, Recover, Connected
<1>2. outbox \in Seq(Reply) /\ market \in Quantities
  BY <1>1 DEF RecordingTypeOK
<1>3. PICK r \in Reply : r = FullImage /\ WellFormed(r) /\ Follows(market, r) /\ r.market = market
  BY <1>2, ImageReply
<1>4. /\ outbox' = Append(outbox, r) /\ main' = "polling"
      /\ UNCHANGED <<market, pending, rows, replay, seen, imaged, marked, joined>>
  BY <1>3 DEF Recover
<1>5. /\ Run(outbox', market')
      /\ \A s : Linked(s, outbox, market) => Linked(s, outbox', market')
  BY <1>1, <1>2, <1>3, <1>4, RunAppend
<1>6. PICK book \in Book : Leads(replay, rows, book) /\ Sound(book)
  BY DEF RecordingInv
<1>7. Sound(book)'
  BY <1>1, <1>4, <1>5, <1>6 DEF Sound
<1>8. outbox' \in Seq(Reply)
  <2> HIDE DEF Reply
  <2> QED
    BY <1>2, <1>3, <1>4, AppendProperties
<1>9. RecordingTypeOK'
  BY <1>1, <1>4, <1>8 DEF RecordingTypeOK
<1> QED
  BY <1>4, <1>5, <1>6, <1>7, <1>9 DEF RecordingInv

\* A session ends: only the rows written remain.
LEMMA EndInv ==
  ASSUME RecordingInv,
         PollFails \/ RecoverFails \/ Restart \/ StopRecording
  PROVE  RecordingInv'
<1>1. /\ main' \in {"pause", "stopped"}
      /\ outbox' \in {outbox, <<>>}
      /\ UNCHANGED <<market, pending, rows, replay, seen, imaged, marked, joined>>
  BY DEF PollFails, RecoverFails, Restart, StopRecording, EndSession
<1>2. PICK book \in Book : Leads(replay, rows, book) /\ Sound(book)
  BY DEF RecordingInv
<1>3. ~Connected'
  BY <1>1 DEF Connected
<1>4. Sound(book)'
  BY <1>1, <1>2, <1>3 DEF Sound
<1>5. outbox' \in Seq(Reply)
  BY <1>1, EmptySeq DEF RecordingInv, RecordingTypeOK
<1>6. RecordingTypeOK'
  BY <1>1, <1>5 DEF RecordingInv, RecordingTypeOK
<1> QED
  BY <1>1, <1>2, <1>3, <1>4, <1>6 DEF RecordingInv

\* Reading a row does not change the book the rows lead to.
LEMMA ReplayInv ==
  ASSUME RecordingInv, ReplayRow
  PROVE  RecordingInv'
<1>1. RecordingTypeOK /\ rows \in Seq(Row) /\ rows # <<>> /\ replay \in Book
  BY DEF RecordingInv, RecordingTypeOK, ReplayRow
<1>2. /\ replay' = Apply(replay, Head(rows)) /\ rows' = Tail(rows)
      /\ UNCHANGED <<market, main, outbox, pending, seen, imaged, marked, joined>>
  BY DEF ReplayRow
<1>3. PICK book \in Book : Leads(replay, rows, book) /\ Sound(book)
  BY DEF RecordingInv
<1>4. Leads(replay', rows', book)
  BY <1>1, <1>2, <1>3, LeadsTail
<1>5. Head(rows) \in Row /\ Tail(rows) \in Seq(Row)
  <2> HIDE DEF Row
  <2> QED
    BY <1>1, HeadTailProperties
<1>6. replay' \in Book
  BY <1>1, <1>2, <1>5, ApplyType
<1>7. RecordingTypeOK'
  BY <1>1, <1>2, <1>5, <1>6 DEF RecordingTypeOK
<1>8. Sound(book)'
  BY <1>2, <1>3 DEF Sound, Connected
<1>9. (Connected => Run(outbox, market))'
  BY <1>2 DEF RecordingInv, Connected
<1> QED
  BY <1>3, <1>4, <1>7, <1>8, <1>9 DEF RecordingInv

\* RecordingInv is inductive.
LEMMA RecordingInductive == RecordingInv /\ [RecordingNext]_recordingVars => RecordingInv'
<1> SUFFICES ASSUME RecordingInv, [RecordingNext]_recordingVars PROVE RecordingInv'
  OBVIOUS
<1>1. CASE Interrupt \/ UNCHANGED recordingVars
  <2>1. UNCHANGED <<market, main, outbox, pending, rows, replay, seen, imaged, marked, joined>>
    BY <1>1 DEF Interrupt, recordingVars
  <2>2. PICK book \in Book : Leads(replay, rows, book) /\ Sound(book)
    BY DEF RecordingInv
  <2>3. Sound(book)' /\ (Connected => Run(outbox, market))'
    BY <2>1, <2>2 DEF Sound, Connected, RecordingInv
  <2>4. RecordingTypeOK'
    BY <2>1 DEF RecordingInv, RecordingTypeOK
  <2> QED
    BY <2>1, <2>2, <2>3, <2>4 DEF RecordingInv
<1> QED
  BY <1>1, MarketInv, DialInv, PollInv, LinkInv, RecoverInv, EndInv, ReplayInv DEF RecordingNext

\* Every reachable state of recorder and replay satisfies RecordingInv.
THEOREM RecordingInvariance == RecordingSpec => []RecordingInv
BY RecordingInitInv, RecordingInductive, PTL DEF RecordingSpec

\* The book lobreplay rebuilds is the exchange's at the last reply recorded,
\* as far as images and levels arrived (quotesEvents, gapEvents, Book.Apply).
THEOREM RowsRebuild == RecordingSpec => []Rebuilt
<1>1. ASSUME RecordingInv, Replayed, ~joined
      PROVE  /\ \A l \in Present(replay.levels) : replay.levels[l] = seen[l]
             /\ imaged => replay.levels = seen
  <2>1. PICK book \in Book : Leads(replay, rows, book) /\ Sound(book)
    BY <1>1 DEF RecordingInv
  <2>2. rows = <<>> /\ Connected /\ replay \in Book
    BY <1>1 DEF Replayed, Connected, RecordingInv, RecordingTypeOK
  <2>3. book = replay
    BY <2>1, <2>2, LeadsNowhere
  <2> QED
    BY <1>1, <2>1, <2>2, <2>3 DEF Sound, Present
<1>2. RecordingInv => Rebuilt
  BY <1>1 DEF Rebuilt
<1> QED
  BY <1>2, RecordingInvariance, PTL

-----------------------------------------------------------------------------
(* Chat: whole histories *)

\* What the proofs need to know of messages.
LEMMA Messages ==
  /\ \A m \in Message : m.n \in Nat
  /\ {System, User, AnswerMessage} \subseteq Message
  /\ \A n \in 1..MaxFanOut : /\ [role |-> "tool", n |-> n] \in Message
                             /\ [role |-> "calls", n |-> n] \in Message
  /\ User # System /\ AnswerMessage # User
  /\ System.role = "system" /\ User.role = "user" /\ AnswerMessage.role = "answer"
<1>1. 1..MaxFanOut \subseteq Nat
  BY LoopAssumption
<1> QED
  BY <1>1 DEF Message, System, User, AnswerMessage

\* What a sequence after another consists of.
LEMMA JoinedAt ==
  ASSUME NEW S, NEW a \in Seq(S), NEW b \in Seq(S), NEW n \in Nat, NEW m \in Nat,
         n = Len(a), m = Len(b)
  PROVE  /\ a \o b \in Seq(S) /\ Len(a \o b) = n + m
         /\ \A i \in 1..n : (a \o b)[i] = a[i]
         /\ \A i \in 1..m : (a \o b)[n + i] = b[i]
<1>1. /\ a \o b \in Seq(S) /\ Len(a \o b) = n + m
      /\ \A i \in 1..(n + m) : (a \o b)[i] = IF i <= n THEN a[i] ELSE b[i - n]
  BY ConcatProperties
<1>2. ASSUME NEW i \in 1..m PROVE (a \o b)[n + i] = b[i]
  <2>1. n + i \in 1..(n + m) /\ ~(n + i <= n) /\ n + i - n = i
    OBVIOUS
  <2> QED
    BY <1>1, <2>1
<1>3. ASSUME NEW i \in 1..n PROVE (a \o b)[i] = a[i]
  <2>1. i \in 1..(n + m) /\ i <= n
    OBVIOUS
  <2> QED
    BY <1>1, <2>1
<1> QED
  BY <1>1, <1>2, <1>3

\* A history after another: no reply is split if none was.
LEMMA WholeJoined ==
  ASSUME NEW a \in Seq(Message), NEW b \in Seq(Message), WholeCalls(a), WholeCalls(b)
  PROVE  WholeCalls(a \o b)
<1> HIDE DEF Message
<1> DEFINE c == a \o b
<1>1. PICK n \in Nat, m \in Nat : n = Len(a) /\ m = Len(b)
  BY LenProperties
<1>2. /\ Len(c) = n + m /\ DOMAIN c = 1..(n + m) /\ DOMAIN a = 1..n /\ DOMAIN b = 1..m
      /\ \A i \in 1..n : c[i] = a[i]
      /\ \A i \in 1..m : c[n + i] = b[i]
  <2>1. /\ c \in Seq(Message) /\ Len(c) = n + m
        /\ \A i \in 1..n : c[i] = a[i]
        /\ \A i \in 1..m : c[n + i] = b[i]
    BY <1>1, JoinedAt
  <2> QED
    BY <1>1, <2>1, LenProperties
<1>3. (\A i \in 1..n : a[i].n \in Nat) /\ (\A i \in 1..m : b[i].n \in Nat)
  BY <1>1, Messages, ElementOfSeq
<1> HIDE DEF c
<1> DEFINE Fine(k) ==
             /\ c[k].role = "calls" =>
                  /\ k + c[k].n <= Len(c)
                  /\ \A j \in 1..c[k].n : c[k + j] = [role |-> "tool", n |-> j]
             /\ c[k].role = "tool" =>
                  \E d \in 1..(k - 1) : d + c[k].n = k /\ c[d].role = "calls" /\ c[d].n >= c[k].n
<1>4. ASSUME NEW k \in 1..n PROVE Fine(k)
  <2>1. /\ a[k].role = "calls" =>
             /\ k + a[k].n <= n
             /\ \A j \in 1..a[k].n : a[k + j] = [role |-> "tool", n |-> j]
        /\ a[k].role = "tool" =>
             \E d \in 1..(k - 1) : d + a[k].n = k /\ a[d].role = "calls" /\ a[d].n >= a[k].n
    BY <1>1, <1>2 DEF WholeCalls
  <2>2. c[k] = a[k] /\ a[k].n \in Nat
    BY <1>2, <1>3
  <2>3. \A j \in 1..n : c[j] = a[j]
    BY <1>2
  <2>4. ASSUME a[k].role = "calls", NEW j \in 1..a[k].n PROVE k + j \in 1..n
    BY <2>1, <2>2, <2>4
  <2> QED
    BY <1>2, <2>1, <2>2, <2>3, <2>4
<1>5. ASSUME NEW l \in 1..m
      PROVE  Fine(n + l)
  <2>1. /\ b[l].role = "calls" =>
             /\ l + b[l].n <= m
             /\ \A j \in 1..b[l].n : b[l + j] = [role |-> "tool", n |-> j]
        /\ b[l].role = "tool" =>
             \E d \in 1..(l - 1) : d + b[l].n = l /\ b[d].role = "calls" /\ b[d].n >= b[l].n
    BY <1>1, <1>2 DEF WholeCalls
  <2>2. PICK size \in Nat : size = b[l].n /\ c[n + l] = b[l]
    BY <1>2, <1>3
  <2>3. ASSUME b[l].role = "calls"
        PROVE  n + l + size <= n + m /\ \A j \in 1..size : c[n + l + j] = [role |-> "tool", n |-> j]
    <3>1. l + size <= m
      BY <2>1, <2>2, <2>3
    <3>2. ASSUME NEW j \in 1..size PROVE c[n + l + j] = [role |-> "tool", n |-> j]
      <4>1. l + j \in 1..m /\ n + l + j = n + (l + j)
        BY <3>1
      <4> QED
        BY <1>2, <2>1, <2>2, <2>3, <4>1
    <3> QED
      BY <3>1, <3>2
  <2>4. ASSUME b[l].role = "tool"
        PROVE  \E d \in 1..(n + l - 1) : d + size = n + l /\ c[d].role = "calls" /\ c[d].n >= size
    <3>1. PICK e \in 1..(l - 1) : e + size = l /\ b[e].role = "calls" /\ b[e].n >= size
      BY <2>1, <2>2, <2>4
    <3>2. n + e \in 1..(n + l - 1) /\ n + e + size = n + l /\ e \in 1..m
      BY <3>1
    <3> QED
      BY <1>2, <3>1, <3>2
  <2> QED
    BY <1>2, <2>2, <2>3, <2>4
<1>6. ASSUME NEW k \in DOMAIN c, k \notin 1..n PROVE \E l \in 1..m : k = n + l
  <2>1. k - n \in 1..m /\ k = n + (k - n)
    BY <1>2, <1>6
  <2> QED
    BY <2>1
<1>7. WholeCalls(c)
  <2>1. ASSUME NEW k \in DOMAIN c PROVE Fine(k)
    <3> HIDE DEF Fine
    <3> QED
      BY <1>4, <1>5, <1>6
  <2> QED
    BY <2>1 DEF WholeCalls
<1> QED
  BY <1>7 DEF c

\* A history is cut at a message that answers no call: no reply is split.
LEMMA WholeCut ==
  ASSUME NEW a \in Seq(Message), WholeCalls(a), NEW p \in 1..Len(a), a[p].role # "tool"
  PROVE  /\ SubSeq(a, p, Len(a)) \in Seq(Message)
         /\ Len(SubSeq(a, p, Len(a))) = Len(a) - p + 1
         /\ \A i \in 1..(Len(a) - p + 1) : SubSeq(a, p, Len(a))[i] = a[p + i - 1]
         /\ WholeCalls(SubSeq(a, p, Len(a)))
<1> HIDE DEF Message
<1> DEFINE s == SubSeq(a, p, Len(a))
<1>1. PICK n \in Nat : n = Len(a)
  BY LenProperties
<1>2. \A i \in 1..n : a[i] \in Message /\ a[i].n \in Nat
  BY <1>1, ElementOfSeq, Messages
<1>3. PICK m \in Nat : m = n - p + 1
  BY <1>1
<1>4. s \in Seq(Message) /\ Len(s) = m /\ \A i \in 1..m : s[i] = a[p + i - 1]
  <2>1. p \in Int /\ n \in Int /\ (\A i \in p..n : a[i] \in Message) /\ p <= n
    BY <1>1, <1>2
  <2> QED
    BY <1>1, <1>3, <2>1, SubSeqProperties
<1>5. DOMAIN s = 1..m
  BY <1>4, LenProperties
<1> HIDE DEF s
<1>6. ASSUME NEW k \in 1..m
      PROVE  /\ s[k].role = "calls" =>
                  /\ k + s[k].n <= m
                  /\ \A j \in 1..s[k].n : s[k + j] = [role |-> "tool", n |-> j]
             /\ s[k].role = "tool" =>
                  \E d \in 1..(k - 1) : d + s[k].n = k /\ s[d].role = "calls" /\ s[d].n >= s[k].n
  <2>1. PICK q \in 1..n : q = p + k - 1 /\ s[k] = a[q]
    BY <1>1, <1>3, <1>4
  <2>2. PICK size \in Nat : size = a[q].n
    BY <1>2
  <2>3. DOMAIN a = 1..n
    BY <1>1, LenProperties
  <2>4. ASSUME a[q].role = "calls"
        PROVE  k + size <= m /\ \A j \in 1..size : s[k + j] = [role |-> "tool", n |-> j]
    <3>1. q + size <= n /\ \A j \in 1..size : a[q + j] = [role |-> "tool", n |-> j]
      BY <1>1, <2>2, <2>3, <2>4 DEF WholeCalls
    <3>2. k + size <= m
      BY <1>3, <2>1, <3>1
    <3>3. ASSUME NEW j \in 1..size PROVE s[k + j] = a[q + j]
      <4>1. k + j \in 1..m /\ p + (k + j) - 1 = q + j
        BY <2>1, <3>2
      <4> QED
        BY <1>4, <4>1
    <3> QED
      BY <3>1, <3>2, <3>3
  <2>5. ASSUME a[q].role = "tool"
        PROVE  \E d \in 1..(k - 1) : d + size = k /\ s[d].role = "calls" /\ s[d].n >= size
    <3>1. PICK e \in 1..(q - 1) : e + size = q /\ a[e].role = "calls" /\ a[e].n >= size
      BY <1>1, <2>2, <2>3, <2>5 DEF WholeCalls
    <3>2. e >= p
      <4> SUFFICES ASSUME e < p PROVE FALSE
        OBVIOUS
      <4>1. e \in 1..n /\ a[e].n \in Nat
        BY <1>2, <2>1, <3>1
      <4>2. p - e \in 1..a[e].n
        BY <2>1, <3>1, <4>1
      <4>3. a[e + (p - e)] = [role |-> "tool", n |-> p - e]
        BY <1>1, <2>3, <3>1, <4>1, <4>2 DEF WholeCalls
      <4> QED
        BY <4>1, <4>3
    <3>3. PICK d \in 1..(k - 1) : d = e - p + 1
      <4>1. k \in Int /\ p \in Int /\ e \in Int /\ e <= q - 1 /\ q = p + k - 1 /\ e >= p
        BY <1>1, <1>3, <2>1, <3>1, <3>2
      <4>2. e - p + 1 \in 1..(k - 1)
        BY <4>1
      <4> QED
        BY <4>2
    <3>4. d \in 1..m /\ p + d - 1 = e /\ d + size = k
      BY <2>1, <3>1, <3>3
    <3> QED
      BY <1>4, <3>1, <3>4
  <2> QED
    BY <2>1, <2>2, <2>4, <2>5
<1>7. WholeCalls(s)
  BY <1>4, <1>5, <1>6 DEF WholeCalls
<1> QED
  BY <1>1, <1>3, <1>4, <1>7 DEF s

\* A single message that calls nothing and answers nothing.
LEMMA WholeAlone ==
  ASSUME NEW m \in Message, m.role \notin {"calls", "tool"}
  PROVE  <<m>> \in Seq(Message) /\ WholeCalls(<<m>>)
BY DEF WholeCalls

\* A reply that calls n tools, and the answers behind it.
Answers(k, n) == [i \in 1..(n - k) |-> [role |-> "tool", n |-> k + i]]

\* The answers from the one behind the k-th on, one by one.
LEMMA AnswersAre ==
  ASSUME NEW n \in 1..MaxFanOut, NEW k \in 0..n
  PROVE  /\ Answers(k, n) \in Seq(Message) /\ Len(Answers(k, n)) = n - k
         /\ \A i \in 1..(n - k) : Answers(k, n)[i] = [role |-> "tool", n |-> k + i]
<1>1. MaxFanOut \in Nat /\ n \in Nat /\ k \in Nat /\ n - k \in Nat
  BY LoopAssumption
<1>2. \A i \in 1..(n - k) : k + i \in 1..MaxFanOut
  BY <1>1
<1>3. \A i \in 1..(n - k) : [role |-> "tool", n |-> k + i] \in Message
  BY <1>2, Messages
<1> HIDE DEF Message
<1> QED
  BY <1>1, <1>3 DEF Answers

\* A reply with all its answers is whole.
LEMMA WholeReply ==
  ASSUME NEW n \in 1..MaxFanOut
  PROVE  /\ <<[role |-> "calls", n |-> n]>> \o Answers(0, n) \in Seq(Message)
         /\ WholeCalls(<<[role |-> "calls", n |-> n]>> \o Answers(0, n))
<1> HIDE DEF Message
<1> DEFINE r == [role |-> "calls", n |-> n]
           s == <<r>> \o Answers(0, n)
<1>1. n \in Nat /\ 0 \in 0..n
  BY LoopAssumption
<1>2. /\ Answers(0, n) \in Seq(Message) /\ Len(Answers(0, n)) = n
      /\ \A i \in 1..n : Answers(0, n)[i] = [role |-> "tool", n |-> i]
  <2>1. PICK zero \in 0..n : zero = 0
    BY <1>1
  <2>2. n - zero = n /\ \A i \in 1..n : zero + i = i
    BY <1>1, <2>1
  <2>3. /\ Answers(zero, n) \in Seq(Message) /\ Len(Answers(zero, n)) = n - zero
        /\ \A i \in 1..(n - zero) : Answers(zero, n)[i] = [role |-> "tool", n |-> zero + i]
    BY AnswersAre
  <2> QED
    BY <2>1, <2>2, <2>3
<1>3. <<r>> \in Seq(Message) /\ Len(<<r>>) = 1 /\ <<r>>[1] = r
  <2>1. r \in Message
    BY Messages
  <2> QED
    BY <2>1
<1>4. /\ s \in Seq(Message) /\ Len(s) = n + 1 /\ s[1] = r
      /\ \A i \in 1..n : s[i + 1] = [role |-> "tool", n |-> i]
  <2>1. /\ s \in Seq(Message) /\ Len(s) = 1 + n
        /\ \A i \in 1..(1 + n) : s[i] = IF i <= 1 THEN <<r>>[i] ELSE Answers(0, n)[i - 1]
    BY <1>2, <1>3, ConcatProperties
  <2>2. ASSUME NEW i \in 1..n PROVE s[i + 1] = Answers(0, n)[i]
    <3>1. i + 1 \in 1..(1 + n) /\ ~(i + 1 <= 1) /\ (i + 1) - 1 = i
      BY <1>1
    <3> QED
      BY <2>1, <3>1
  <2>3. 1 \in 1..(1 + n) /\ n + 1 = 1 + n
    BY <1>1
  <2> QED
    BY <1>2, <1>3, <2>1, <2>2, <2>3
<1>5. DOMAIN s = 1..(n + 1)
  BY <1>4, LenProperties
<1> HIDE DEF s
<1>6. ASSUME NEW k \in 1..(n + 1)
      PROVE  /\ s[k].role = "calls" =>
                  /\ k + s[k].n <= Len(s)
                  /\ \A j \in 1..s[k].n : s[k + j] = [role |-> "tool", n |-> j]
             /\ s[k].role = "tool" =>
                  \E c \in 1..(k - 1) : c + s[k].n = k /\ s[c].role = "calls" /\ s[c].n >= s[k].n
  <2>1. CASE k = 1
    <3>1. s[k].role = "calls" /\ s[k].n = n
      BY <1>4, <2>1
    <3>2. \A j \in 1..n : s[k + j] = s[j + 1]
      BY <1>1, <2>1
    <3> QED
      BY <1>1, <1>4, <2>1, <3>1, <3>2
  <2>2. CASE k # 1
    <3>1. PICK i \in 1..n : i + 1 = k
      BY <1>1, <2>2
    <3>2. s[k] = [role |-> "tool", n |-> i]
      BY <1>4, <3>1
    <3>3. 1 \in 1..(k - 1) /\ 1 + i = k /\ n >= i
      BY <1>1, <3>1
    <3>4. s[1].role = "calls" /\ s[1].n = n
      BY <1>4
    <3>5. s[k].role = "tool" /\ s[k].n = i
      BY <3>2
    <3> QED
      BY <3>3, <3>4, <3>5
  <2> QED
    BY <2>1, <2>2
<1> QED
  BY <1>4, <1>5, <1>6 DEF WholeCalls, s

\* A set of numbers that is not empty has a least element.
LEMMA LeastOf ==
  ASSUME NEW S \in SUBSET Nat, S # {}
  PROVE  Min(S) \in S /\ \A y \in S : Min(S) <= y
<1>1. PICK x \in S : \A y \in S : ~(<<y, x>> \in OpToRel(<, Nat))
  <2> HIDE DEF OpToRel
  <2> QED
    BY NatLessThanWellFounded, WFMin
<1>2. \A y \in S : ~(y < x)
  <2> TAKE y \in S
  <2>1. <<y, x>> \in Nat \X Nat
    OBVIOUS
  <2> QED
    BY <1>1, <2>1, Zenon DEF OpToRel
<1>3. \A y \in S : x <= y
  BY <1>2
<1> QED
  BY <1>3 DEF Min

\* One with a bound has a greatest: its distance to the bound is the least.
LEMMA GreatestOf ==
  ASSUME NEW n \in Nat, NEW S \in SUBSET (0..n), S # {}
  PROVE  Max(S) \in S /\ \A y \in S : Max(S) >= y
<1> DEFINE D == {n - y : y \in S}
<1>1. D \in SUBSET Nat /\ D # {}
  <2>1. \A y \in S : n - y \in Nat
    OBVIOUS
  <2> QED
    BY <2>1
<1>2. Min(D) \in D /\ \A d \in D : Min(D) <= d
  BY <1>1, LeastOf
<1>3. PICK x \in S : Min(D) = n - x
  BY <1>2
<1>4. \A y \in S : x >= y
  <2> TAKE y \in S
  <2>1. n - x <= n - y
    BY <1>2, <1>3
  <2> QED
    BY <2>1
<1> QED
  BY <1>4 DEF Max

-----------------------------------------------------------------------------
(* Chat: trimConversation *)

\* The newest turns of a history begin at one of its turns, and are at most n.
LEMMA NewestTurns ==
  ASSUME NEW msgs \in Seq(Message), msgs # <<>>, NEW n \in Nat \ {0}
  PROVE  /\ Min(Newest(n, msgs)) \in Turns(msgs)
         /\ LET from == Min(Newest(n, msgs))
            IN  /\ IsFiniteSet({j \in Turns(msgs) : j >= from})
                /\ Cardinality({j \in Turns(msgs) : j >= from}) <= n
<1> HIDE DEF Message
<1>1. PICK len \in Nat \ {0} : len = Len(msgs) /\ DOMAIN msgs = 1..len
  BY LenProperties, EmptySeq
<1> DEFINE T == Turns(msgs)
<1>2. T \subseteq 1..len /\ 1 \in T
  BY <1>1 DEF Turns
<1>3. T \subseteq 0..len /\ T \subseteq Nat /\ T # {}
  BY <1>2
<1>4. \A k \in Nat : /\ IsFiniteSet({j \in T : j > k}) /\ Cardinality({j \in T : j > k}) \in Nat
                     /\ IsFiniteSet({j \in T : j >= k})
  <2>1. IsFiniteSet(1..len)
    BY FS_Interval
  <2> TAKE k \in Nat
  <2>2. {j \in T : j > k} \in SUBSET (1..len) /\ {j \in T : j >= k} \in SUBSET (1..len)
    BY <1>2
  <2> QED
    BY <2>1, <2>2, FS_Subset, FS_CardinalityType
<1>5. PICK g \in T : \A j \in T : g >= j
  <2> HIDE DEF T
  <2> QED
    BY <1>3, GreatestOf
<1>6. {j \in T : j > g} = {}
  BY <1>3, <1>5
<1>7. g \in Newest(n, msgs)
  <2>1. Cardinality({j \in Turns(msgs) : j > g}) = 0
    BY <1>6, FS_EmptySet
  <2>2. g \in Turns(msgs) /\ 0 < n
    OBVIOUS
  <2> QED
    BY <2>1, <2>2 DEF Newest
<1>8. Newest(n, msgs) \in SUBSET Nat /\ Newest(n, msgs) # {}
  BY <1>3, <1>7 DEF Newest
<1>9. Min(Newest(n, msgs)) \in Newest(n, msgs)
  BY <1>8, LeastOf
<1>10. PICK from : from = Min(Newest(n, msgs))
  OBVIOUS
<1>11. from \in T /\ from \in Nat /\ Cardinality({j \in T : j > from}) < n
  BY <1>3, <1>9, <1>10 DEF Newest
<1>12. {j \in T : j >= from} = {j \in T : j > from} \cup {from}
  BY <1>3, <1>11
<1>13. Cardinality({j \in T : j >= from}) = Cardinality({j \in T : j > from}) + 1
  <2> DEFINE S == {j \in T : j > from}
  <2>1. IsFiniteSet(S)
    BY <1>4, <1>11
  <2>3. from \notin S
    BY <1>11
  <2> HIDE DEF S
  <2>2. Cardinality(S \cup {from}) = Cardinality(S) + 1
    BY <2>1, <2>3, FS_AddElement
  <2> QED
    BY <1>12, <2>2 DEF S
<1>14. IsFiniteSet({j \in T : j >= from}) /\ Cardinality({j \in T : j > from}) \in Nat
  BY <1>4, <1>11
<1>15. Cardinality({j \in T : j >= from}) <= n
  BY <1>11, <1>13, <1>14
<1> QED
  BY <1>10, <1>11, <1>14, <1>15

\* A dialog as the store keeps it: whole, complete, of a bounded number of turns.
Users(msgs) == {k \in DOMAIN msgs : msgs[k] = User}
Complete(msgs) ==
  /\ WholeCalls(msgs)
  /\ Len(msgs) > 0 /\ Last(msgs) = AnswerMessage
  /\ Cardinality(Users(msgs)) <= MaxTurns

\* The users of w are those of body from the one at p on, behind sys messages.
UsersFollow(w, body, sys, p) ==
  \A k \in 1..Len(w) : w[k] = User =>
    k > sys /\ p + (k - sys) - 1 <= Len(body) /\ w[k] = body[p + (k - sys) - 1]

\* A history has no more users than there are turns it is made of.
LEMMA UsersKept ==
  ASSUME NEW w \in Seq(Message), NEW body \in Seq(Message), NEW sys \in {0, 1},
         NEW p \in Nat \ {0},
         UsersFollow(w, body, sys, p),
         IsFiniteSet({j \in Turns(body) : j >= p})
  PROVE  Cardinality(Users(w)) <= Cardinality({j \in Turns(body) : j >= p})
<1> HIDE DEF Message
<1> DEFINE U == Users(w)
           K == {j \in Turns(body) : j >= p}
           f == [k \in U |-> p + (k - sys) - 1]
<1>1. DOMAIN w = 1..Len(w) /\ DOMAIN body = 1..Len(body) /\ Len(w) \in Nat /\ Len(body) \in Nat
  BY LenProperties
<1>2. U \subseteq 1..Len(w) /\ sys \in Nat
  BY <1>1 DEF Users
<1>3. ASSUME NEW k \in U PROVE f[k] \in K
  <2>1. k \in Nat /\ w[k] = User
    BY <1>1, <1>2 DEF Users
  <2>2. PICK q : q = p + (k - sys) - 1
    OBVIOUS
  <2>3. k > sys /\ q <= Len(body) /\ body[q] = User
    BY <1>2, <2>1, <2>2 DEF UsersFollow
  <2>4. q \in 1..Len(body) /\ q >= p
    BY <1>1, <1>2, <2>1, <2>2, <2>3
  <2>5. q \in Turns(body)
    BY <1>1, <2>3, <2>4 DEF Turns
  <2> QED
    BY <2>2, <2>4, <2>5
<1>4. f \in [U -> K]
  BY <1>3
<1>5. ASSUME NEW a \in U, NEW b \in U, f[a] = f[b] PROVE a = b
  <2>1. a \in Nat /\ b \in Nat
    BY <1>1, <1>2
  <2>2. p + (a - sys) - 1 = p + (b - sys) - 1
    BY <1>5
  <2> QED
    BY <1>2, <2>1, <2>2
<1>6. DOMAIN f = U
  OBVIOUS
<1> HIDE DEF f, U, K
<1>7. f \in Injection(U, K)
  BY <1>4, <1>5, <1>6 DEF Injection, IsInjective
<1>8. IsFiniteSet(K)
  BY DEF K
<1>9. Cardinality(U) <= Cardinality(K)
  BY <1>7, <1>8, FS_Injection
<1> QED
  BY <1>9 DEF U, K

\* trimConversation leaves a complete dialog, with its system prompt.
LEMMA Trimmed ==
  ASSUME NEW msgs \in Seq(Message), WholeCalls(msgs), Len(msgs) > 0, Last(msgs) = AnswerMessage
  PROVE  /\ Trim(msgs) \in Seq(Message) /\ Complete(Trim(msgs))
         /\ msgs[1] = System => Trim(msgs)[1] = System
<1> HIDE DEF Message
<1>1. PICK len \in Nat \ {0} : len = Len(msgs)
  BY LenProperties
<1>2. \A i \in 1..len : msgs[i] \in Message
  BY <1>1, ElementOfSeq
<1>3. msgs[len] = AnswerMessage /\ 1 \in 1..len /\ len \in 1..len
  BY <1>1 DEF Last
<1>4. PICK sys : sys = IF msgs[1] = System THEN 1 ELSE 0
  OBVIOUS
<1>5. sys \in {0, 1} /\ sys < len
  <2>1. System # AnswerMessage
    BY Messages
  <2> QED
    BY <1>3, <1>4, <2>1
<1>6. PICK body : body = SubSeq(msgs, sys + 1, len)
  OBVIOUS
<1>7. PICK room \in Nat \ {0} : room = len - sys
  BY <1>5
<1>8. body \in Seq(Message) /\ Len(body) = room /\ \A i \in 1..room : body[i] = msgs[sys + i]
  <2>1. sys + 1 \in Int /\ len \in Int /\ sys + 1 <= len /\ \A i \in sys + 1..len : msgs[i] \in Message
    BY <1>2, <1>5
  <2>2. /\ SubSeq(msgs, sys + 1, len) \in Seq(Message)
        /\ Len(SubSeq(msgs, sys + 1, len)) = len - (sys + 1) + 1
        /\ \A i \in 1..len - (sys + 1) + 1 : SubSeq(msgs, sys + 1, len)[i] = msgs[sys + 1 + i - 1]
    BY <2>1, SubSeqProperties
  <2>3. len - (sys + 1) + 1 = room /\ \A i \in 1..room : sys + 1 + i - 1 = sys + i
    BY <1>5, <1>7
  <2> QED
    BY <1>6, <2>2, <2>3
<1>9. PICK turns \in Nat \ {0} : turns = (IF Len(msgs) > MaxMessages THEN 1 ELSE MaxTurns)
                                   /\ turns <= MaxTurns
  BY StoreAssumption
<1>10. PICK from : from = Min(Newest(turns, body))
  OBVIOUS
<1>11. /\ from \in Turns(body) /\ IsFiniteSet({j \in Turns(body) : j >= from})
       /\ Cardinality({j \in Turns(body) : j >= from}) <= turns
  <2>1. body # <<>>
    BY <1>8, EmptySeq
  <2> QED
    BY <1>8, <1>10, <2>1, NewestTurns
<1>12. from \in 1..room /\ (from = 1 \/ body[from] = User)
  <2>1. DOMAIN body = 1..room
    BY <1>8, LenProperties
  <2> QED
    BY <1>11, <2>1 DEF Turns
<1>13. PICK p \in 1..len : p = sys + from
  BY <1>5, <1>7, <1>12
<1>14. msgs[p] = body[from]
  BY <1>8, <1>12, <1>13
<1>15. msgs[p].role # "tool"
  <2>1. CASE body[from] = User
    BY <1>14, <2>1, Messages
  <2>2. CASE from = 1
    <3> SUFFICES ASSUME msgs[p].role = "tool" PROVE FALSE
      OBVIOUS
    <3>1. DOMAIN msgs = 1..len
      BY <1>1, LenProperties
    <3>2. PICK c \in 1..(p - 1) : msgs[c].role = "calls"
      BY <3>1 DEF WholeCalls
    <3>3. sys = 1 /\ c = 1
      BY <1>5, <1>13, <2>2, <3>2
    <3>4. msgs[1] = System
      BY <1>4, <3>3
    <3> QED
      BY <3>2, <3>3, <3>4, Messages
  <2> QED
    BY <1>12, <2>1, <2>2
<1>16. PICK tail, size : tail = SubSeq(msgs, p, len) /\ size = len - p + 1
  OBVIOUS
<1>17. size \in Nat \ {0} /\ size = room - from + 1
  BY <1>5, <1>7, <1>12, <1>13, <1>16
<1>18. /\ tail \in Seq(Message) /\ Len(tail) = size /\ WholeCalls(tail)
       /\ \A i \in 1..size : tail[i] = msgs[p + i - 1]
  BY <1>1, <1>15, <1>16, WholeCut
<1>19. SubSeq(body, from, room) = tail
  <2>1. from \in Int /\ room \in Int /\ from <= room /\ \A i \in from..room : body[i] \in Message
    BY <1>8, <1>12, ElementOfSeq
  <2>2. /\ SubSeq(body, from, room) \in Seq(Message)
        /\ Len(SubSeq(body, from, room)) = size
        /\ \A i \in 1..size : SubSeq(body, from, room)[i] = body[from + i - 1]
    BY <1>17, <2>1, SubSeqProperties
  <2>3. ASSUME NEW i \in 1..size PROVE SubSeq(body, from, room)[i] = tail[i]
    <3>1. from + i - 1 \in 1..room /\ sys + (from + i - 1) = p + i - 1
      BY <1>5, <1>12, <1>13, <1>17
    <3> QED
      BY <1>8, <1>18, <2>2, <3>1
  <2> QED
    BY <1>18, <2>2, <2>3, SeqEqual
<1>20. PICK front : front = SubSeq(msgs, 1, sys)
  OBVIOUS
<1>21. /\ front \in Seq(Message) /\ Len(front) = sys /\ WholeCalls(front)
       /\ sys = 1 => front[1] = System
  <2>1. CASE sys = 0
    <3>1. front = <<>>
      BY <1>20, <2>1, SubSeqEmpty
    <3> QED
      BY <2>1, <3>1, EmptySeq DEF WholeCalls
  <2>2. CASE sys = 1
    <3>1. msgs[1] = System /\ System \in Message /\ System.role \notin {"calls", "tool"}
      BY <1>4, <2>2, Messages
    <3>2. front \in Seq(Message) /\ Len(front) = 1 /\ front[1] = System
      <4>1. \A i \in 1..1 : msgs[i] \in Message
        BY <1>2, <1>3
      <4>2. /\ SubSeq(msgs, 1, 1) \in Seq(Message) /\ Len(SubSeq(msgs, 1, 1)) = 1
            /\ SubSeq(msgs, 1, 1)[1] = msgs[1]
        BY <4>1, SubSeqProperties
      <4> QED
        BY <1>20, <2>2, <3>1, <4>2
    <3>3. front = <<System>>
      <4>1. <<System>> \in Seq(Message) /\ Len(<<System>>) = 1 /\ <<System>>[1] = System
        BY <3>1
      <4>2. \A i \in 1..Len(front) : front[i] = <<System>>[i]
        BY <3>2, <4>1
      <4> QED
        BY <3>2, <4>1, <4>2, SeqEqual
    <3> QED
      BY <2>2, <3>1, <3>2, <3>3, WholeAlone
  <2> QED
    BY <1>5, <2>1, <2>2
<1>22. PICK w : w = front \o tail
  OBVIOUS
<1>23. /\ w \in Seq(Message) /\ Len(w) = sys + size /\ WholeCalls(w)
       /\ \A i \in 1..(sys + size) : w[i] = IF i <= sys THEN front[i] ELSE tail[i - sys]
  BY <1>18, <1>21, <1>22, ConcatProperties, WholeJoined
<1>24. Trim(msgs) = w
  BY <1>1, <1>4, <1>6, <1>8, <1>9, <1>10, <1>19, <1>20, <1>22 DEF Trim
<1>25. w[sys + size] = AnswerMessage
  <2>1. sys + size \in 1..(sys + size) /\ ~(sys + size <= sys) /\ sys + size - sys = size /\ size \in 1..size
    BY <1>5, <1>17
  <2>2. p + size - 1 = len
    BY <1>13, <1>16
  <2>3. w[sys + size] = tail[size]
    <3>1. PICK last \in 1..(sys + size) : last = sys + size /\ ~(last <= sys) /\ last - sys = size
      BY <1>5, <1>17, <2>1
    <3>2. w[last] = tail[last - sys]
      BY <1>23, <3>1
    <3> QED
      BY <3>1, <3>2
  <2>4. tail[size] = msgs[p + size - 1]
    BY <1>18, <2>1
  <2> QED
    BY <1>3, <2>2, <2>3, <2>4
<1>26. Cardinality(Users(w)) <= MaxTurns
  <2>1. ASSUME NEW k \in 1..Len(w), w[k] = User
        PROVE  k > sys /\ from + (k - sys) - 1 <= Len(body) /\ w[k] = body[from + (k - sys) - 1]
    <3>1. k > sys
      <4> SUFFICES ASSUME k <= sys PROVE FALSE
        BY <1>5
      <4>1. sys = 1 /\ k = 1
        BY <1>5
      <4> QED
        BY <1>21, <1>23, <2>1, <4>1, Messages
    <3>2. PICK i \in 1..size : i = k - sys
      BY <1>5, <1>17, <1>23, <3>1
    <3>3. w[k] = msgs[p + i - 1]
      BY <1>5, <1>18, <1>23, <3>1, <3>2
    <3>4. from + i - 1 \in 1..room /\ sys + (from + i - 1) = p + i - 1
      BY <1>5, <1>12, <1>13, <1>17
    <3> QED
      BY <1>8, <3>1, <3>2, <3>3, <3>4
  <2>2. from \in Nat \ {0}
    BY <1>12
  <2>6. IsFiniteSet({j \in Turns(body) : j >= from})
    BY <1>11
  <2>3. Cardinality(Users(w)) <= Cardinality({j \in Turns(body) : j >= from})
    <3>1. UsersFollow(w, body, sys, from)
      BY <2>1 DEF UsersFollow
    <3> QED
      BY <1>5, <1>8, <1>23, <2>2, <2>6, <3>1, UsersKept
  <2>4. Cardinality({j \in Turns(body) : j >= from}) \in Nat
    BY <1>11, FS_CardinalityType
  <2>5. Cardinality(Users(w)) \in Nat /\ MaxTurns \in Nat
    <3>1. Users(w) \in SUBSET (1..Len(w)) /\ Len(w) \in Nat
      BY <1>23, LenProperties DEF Users
    <3>2. IsFiniteSet(1..Len(w))
      BY <3>1, FS_Interval
    <3>3. IsFiniteSet(Users(w))
      BY <3>1, <3>2, FS_Subset
    <3> QED
      BY <3>3, FS_CardinalityType, StoreAssumption
  <2> QED
    BY <1>9, <1>11, <2>3, <2>4, <2>5
<1>27. Complete(w)
  BY <1>5, <1>17, <1>23, <1>25, <1>26 DEF Complete, Last
<1>28. msgs[1] = System => w[1] = System
  BY <1>4, <1>17, <1>21, <1>23
<1> QED
  BY <1>23, <1>24, <1>27, <1>28

-----------------------------------------------------------------------------
(* Chat: the order of the dialogs *)

\* touchLocked: an order of different dialogs stays one, with the dialog last.
LEMMA Touched ==
  ASSUME NEW order \in Seq(Dialog), IsInjective(order), NEW d \in Dialog
  PROVE  /\ Touch(d, order) \in Seq(Dialog) /\ IsInjective(Touch(d, order))
         /\ ToSet(Touch(d, order)) = ToSet(order) \cup {d}
         /\ Len(Touch(d, order)) = IF d \in ToSet(order) THEN Len(order) ELSE Len(order) + 1
<1>1. PICK n \in Nat : n = Len(order)
  BY LenProperties
<1>2. DOMAIN order = 1..n /\ \A i \in 1..n : order[i] \in Dialog
  BY <1>1, LenProperties, ElementOfSeq
<1>3. CASE d \notin ToSet(order)
  <2>1. PICK s : s = Touch(d, order)
    OBVIOUS
  <2>2. s = Append(order, d)
    BY <1>3, <2>1 DEF Touch, Forget
  <2>3. /\ s \in Seq(Dialog) /\ Len(s) = n + 1
        /\ \A i \in 1..n : s[i] = order[i]
        /\ s[n + 1] = d
    BY <1>1, <2>2, AppendProperties
  <2>4. DOMAIN s = 1..(n + 1)
    BY <2>3, LenProperties
  <2>5. \A i \in 1..n : order[i] # d
    BY <1>2, <1>3 DEF ToSet
  <2>6. ASSUME NEW a \in DOMAIN s, NEW b \in DOMAIN s, s[a] = s[b] PROVE a = b
    <3>1. (a \in 1..n \/ a = n + 1) /\ (b \in 1..n \/ b = n + 1)
      BY <2>4
    <3> QED
      BY <1>2, <2>3, <2>5, <2>6, <3>1 DEF IsInjective
  <2>7. ToSet(s) = ToSet(order) \cup {d}
    <3>1. ASSUME NEW x \in ToSet(s) PROVE x \in ToSet(order) \cup {d}
      <4>1. PICK i \in 1..(n + 1) : x = s[i]
        BY <2>4 DEF ToSet
      <4>2. i \in 1..n \/ i = n + 1
        OBVIOUS
      <4> QED
        BY <1>2, <2>3, <4>1, <4>2 DEF ToSet
    <3>2. ASSUME NEW x \in ToSet(order) PROVE x \in ToSet(s)
      <4>1. PICK i \in 1..n : x = order[i]
        BY <1>2 DEF ToSet
      <4>2. i \in DOMAIN s
        BY <2>4
      <4> QED
        BY <2>3, <4>1, <4>2 DEF ToSet
    <3>3. d \in ToSet(s)
      <4>1. n + 1 \in DOMAIN s
        BY <2>4
      <4> QED
        BY <2>3, <4>1 DEF ToSet
    <3> QED
      BY <3>1, <3>2, <3>3
  <2> QED
    BY <1>1, <1>3, <2>1, <2>3, <2>6, <2>7 DEF IsInjective
<1>4. CASE d \in ToSet(order)
  <2>1. PICK k \in 1..n : k = (CHOOSE i \in DOMAIN order : order[i] = d) /\ order[k] = d
    BY <1>2, <1>4 DEF ToSet
  <2>2. PICK r : r = RemoveAt(order, k)
    OBVIOUS
  <2>3. /\ r \in Seq(Dialog) /\ Len(r) = n - 1
        /\ \A i \in 1..(n - 1) : r[i] = IF i < k THEN order[i] ELSE order[i + 1]
    <3>1. PICK front, rear : front = SubSeq(order, 1, k - 1) /\ rear = SubSeq(order, k + 1, n)
      OBVIOUS
    <3>2. front \in Seq(Dialog) /\ Len(front) = k - 1 /\ \A i \in 1..(k - 1) : front[i] = order[i]
      <4>1. 1 \in Int /\ k - 1 \in Int /\ \A i \in 1..(k - 1) : order[i] \in Dialog
        BY <1>2
      <4>2. /\ SubSeq(order, 1, k - 1) \in Seq(Dialog)
            /\ Len(SubSeq(order, 1, k - 1)) = IF 1 <= k - 1 THEN k - 1 - 1 + 1 ELSE 0
            /\ \A i \in 1..(k - 1 - 1 + 1) : SubSeq(order, 1, k - 1)[i] = order[1 + i - 1]
        BY <4>1, SubSeqProperties
      <4>3. k - 1 - 1 + 1 = k - 1 /\ \A i \in 1..(k - 1) : 1 + i - 1 = i
        OBVIOUS
      <4> QED
        BY <3>1, <4>2, <4>3
    <3>3. rear \in Seq(Dialog) /\ Len(rear) = n - k /\ \A i \in 1..(n - k) : rear[i] = order[k + i]
      <4>1. k + 1 \in Int /\ n \in Int /\ \A i \in (k + 1)..n : order[i] \in Dialog
        BY <1>2
      <4>2. /\ SubSeq(order, k + 1, n) \in Seq(Dialog)
            /\ Len(SubSeq(order, k + 1, n)) = IF k + 1 <= n THEN n - (k + 1) + 1 ELSE 0
            /\ \A i \in 1..(n - (k + 1) + 1) : SubSeq(order, k + 1, n)[i] = order[k + 1 + i - 1]
        BY <4>1, SubSeqProperties
      <4>3. n - (k + 1) + 1 = n - k /\ \A i \in 1..(n - k) : k + 1 + i - 1 = k + i
        OBVIOUS
      <4> QED
        BY <3>1, <4>2, <4>3
    <3>4. r = front \o rear
      BY <1>1, <2>2, <3>1 DEF RemoveAt
    <3>5. /\ r \in Seq(Dialog) /\ Len(r) = (k - 1) + (n - k)
          /\ \A i \in 1..((k - 1) + (n - k)) : r[i] = IF i <= k - 1 THEN front[i] ELSE rear[i - (k - 1)]
      <4>1. k - 1 \in Nat /\ n - k \in Nat
        OBVIOUS
      <4>2. PICK head, rest : head = Len(front) /\ rest = Len(rear)
        OBVIOUS
      <4>3. /\ r \in Seq(Dialog) /\ Len(r) = head + rest
            /\ \A i \in 1..(head + rest) : r[i] = IF i <= head THEN front[i] ELSE rear[i - head]
        BY <3>2, <3>3, <3>4, <4>2, ConcatProperties
      <4>4. head = k - 1 /\ rest = n - k
        BY <3>2, <3>3, <4>2
      <4> QED
        BY <4>1, <4>3, <4>4
    <3>6. (k - 1) + (n - k) = n - 1
      OBVIOUS
    <3>7. ASSUME NEW i \in 1..(n - 1) PROVE r[i] = IF i < k THEN order[i] ELSE order[i + 1]
      <4>1. CASE i < k
        <5>1. i \in 1..(k - 1) /\ i <= k - 1
          BY <4>1
        <5> QED
          BY <3>2, <3>5, <3>6, <4>1, <5>1
      <4>2. CASE ~(i < k)
        <5>1. PICK j \in 1..(n - k) : j = i - (k - 1) /\ k + j = i + 1 /\ ~(i <= k - 1)
          BY <4>2
        <5>2. r[i] = rear[j]
          BY <3>5, <3>6, <5>1
        <5> QED
          BY <3>3, <4>2, <5>1, <5>2
      <4> QED
        BY <4>1, <4>2
    <3> QED
      BY <3>5, <3>6, <3>7
  <2>4. PICK s : s = Touch(d, order)
    OBVIOUS
  <2>5. s = Append(r, d)
    BY <1>4, <2>1, <2>2, <2>4 DEF Touch, Forget
  <2>6. /\ s \in Seq(Dialog) /\ Len(s) = n
        /\ \A i \in 1..(n - 1) : s[i] = r[i]
        /\ s[n] = d
    <3>1. (n - 1) + 1 = n
      OBVIOUS
    <3> QED
      BY <2>3, <2>5, <3>1, AppendProperties
  <2>7. DOMAIN s = 1..n
    BY <2>6, LenProperties
  \* The place in the order from which a dialog comes.
  <2> DEFINE From(i) == IF i = n THEN k ELSE IF i < k THEN i ELSE i + 1
  <2>8. ASSUME NEW i \in 1..n PROVE From(i) \in 1..n /\ s[i] = order[From(i)]
    <3>1. CASE i = n
      BY <2>1, <2>6, <3>1
    <3>2. CASE i # n
      <4>1. i \in 1..(n - 1)
        BY <3>2
      <4> QED
        BY <2>3, <2>6, <3>2, <4>1
    <3> QED
      BY <3>1, <3>2
  <2>9. ASSUME NEW a \in DOMAIN s, NEW b \in DOMAIN s, s[a] = s[b] PROVE a = b
    <3>1. From(a) = From(b)
      <4> HIDE DEF From
      <4> QED
        BY <1>2, <2>7, <2>8, <2>9 DEF IsInjective
    <3> QED
      BY <2>7, <3>1
  <2>10. ASSUME NEW i \in 1..n PROVE \E j \in 1..n : From(j) = i
    <3>1. CASE i = k
      BY <3>1
    <3>2. CASE i < k
      BY <3>2
    <3>3. CASE i > k
      <4>1. i - 1 \in 1..n /\ From(i - 1) = i
        BY <3>3
      <4> QED
        BY <4>1
    <3> QED
      BY <3>1, <3>2, <3>3
  <2>11. ToSet(s) = ToSet(order)
    <3> HIDE DEF From
    <3>1. ASSUME NEW x \in ToSet(s) PROVE x \in ToSet(order)
      <4>1. PICK i \in 1..n : x = s[i]
        BY <2>7 DEF ToSet
      <4> QED
        BY <1>2, <2>8, <4>1 DEF ToSet
    <3>2. ASSUME NEW x \in ToSet(order) PROVE x \in ToSet(s)
      <4>1. PICK i \in 1..n : x = order[i]
        BY <1>2 DEF ToSet
      <4>2. PICK j \in 1..n : From(j) = i
        BY <2>10
      <4> QED
        BY <2>7, <2>8, <4>1, <4>2 DEF ToSet
    <3> QED
      BY <3>1, <3>2
  <2> QED
    BY <1>1, <1>4, <2>4, <2>6, <2>9, <2>11 DEF IsInjective
<1> QED
  BY <1>3, <1>4

\* evictLocked: the order without its first dialog.
LEMMA Oldest ==
  ASSUME NEW order \in Seq(Dialog), IsInjective(order), order # <<>>
  PROVE  /\ Tail(order) \in Seq(Dialog) /\ IsInjective(Tail(order))
         /\ Head(order) \in ToSet(order) /\ ToSet(Tail(order)) = ToSet(order) \ {Head(order)}
         /\ Len(Tail(order)) = Len(order) - 1
<1>1. PICK n \in Nat : n = Len(order)
  BY LenProperties
<1>2. PICK s : s = Tail(order)
  OBVIOUS
<1>3. n > 0 /\ s \in Seq(Dialog) /\ Len(s) = n - 1 /\ \A i \in 1..(n - 1) : s[i] = order[i + 1]
  <2>1. n # 0
    BY <1>1, EmptySeq
  <2> QED
    BY <1>1, <1>2, <2>1, HeadTailProperties
<1>4. DOMAIN order = 1..n /\ DOMAIN s = 1..(n - 1)
  BY <1>1, <1>3, LenProperties
<1>5. PICK h : h = Head(order)
  OBVIOUS
<1>6. h = order[1] /\ 1 \in 1..n
  BY <1>3, <1>5
<1>7. ASSUME NEW a \in DOMAIN s, NEW b \in DOMAIN s, s[a] = s[b] PROVE a = b
  <2>1. a + 1 \in 1..n /\ b + 1 \in 1..n /\ order[a + 1] = order[b + 1]
    BY <1>3, <1>4, <1>7
  <2>2. a + 1 = b + 1
    BY <1>4, <2>1 DEF IsInjective
  <2> QED
    BY <1>4, <2>2
<1>8. ASSUME NEW x \in ToSet(s) PROVE x \in ToSet(order) \ {h}
  <2>1. PICK i \in 1..(n - 1) : x = order[i + 1]
    BY <1>3, <1>4, <1>8 DEF ToSet
  <2>2. i + 1 \in 1..n /\ i + 1 # 1
    BY <1>3
  <2> QED
    BY <1>4, <1>6, <2>1, <2>2 DEF ToSet, IsInjective
<1>9. ASSUME NEW x \in ToSet(order) \ {h} PROVE x \in ToSet(s)
  <2>1. PICK i \in 1..n : x = order[i]
    BY <1>4 DEF ToSet
  <2>2. i - 1 \in 1..(n - 1) /\ (i - 1) + 1 = i
    BY <1>6, <1>9, <2>1
  <2>3. s[i - 1] = x
    BY <1>3, <2>1, <2>2
  <2> QED
    BY <1>4, <2>2, <2>3 DEF ToSet
<1>10. h \in ToSet(order)
  BY <1>4, <1>6 DEF ToSet
<1> QED
  BY <1>1, <1>2, <1>3, <1>5, <1>7, <1>8, <1>9, <1>10 DEF IsInjective

\* A sequence of different dialogs is as long as they are many.
LEMMA Counted ==
  ASSUME NEW order \in Seq(Dialog), IsInjective(order)
  PROVE  Cardinality(ToSet(order)) = Len(order)
<1>1. PICK n \in Nat : n = Len(order)
  BY LenProperties
<1>2. order \in [1..n -> Dialog] /\ DOMAIN order = 1..n
  BY <1>1, LenProperties
<1>3. PICK S : S = ToSet(order)
  OBVIOUS
<1>4. order \in [1..n -> S]
  BY <1>2, <1>3 DEF ToSet
<1>5. order \in Injection(1..n, S)
  BY <1>4 DEF Injection
<1>6. order \in Surjection(1..n, S)
  BY <1>2, <1>3, <1>4 DEF Surjection, ToSet
<1>7. ExistsBijection(1..n, S)
  BY <1>5, <1>6 DEF ExistsBijection, Bijection
<1>8. IsFiniteSet(1..n) /\ Cardinality(1..n) = n
  BY FS_Interval
<1>9. Cardinality(S) = n
  BY <1>7, <1>8, FS_Bijection
<1> QED
  BY <1>1, <1>3, <1>9

-----------------------------------------------------------------------------
(* Chat: the invariant *)

ChatRecord ==
  [pc : {"idle", "ask", "tools", "store", "failed", "analyst"}, dialog : Dialog \cup {NoChat.dialog},
   loaded : Seq(Message), turn : Seq(Message), iteration : 0..MaxIterations, called : Nat,
   acted : BOOLEAN, bare : BOOLEAN]

\* What a request has loaded and said, as long as it may store its turn.
Begun(c) ==
  /\ c.dialog \in Dialog /\ WholeCalls(c.loaded) /\ Len(c.turn) > 0
  /\ c.loaded = <<>> => c.turn[1] = System
  /\ c.loaded # <<>> => c.loaded[1] = System \/ c.bare

\* In the middle of the calls of a reply: the answers still to come complete it.
Calling(c) ==
  LET reply == c.turn[Len(c.turn) - c.called]
  IN  /\ c.called < Len(c.turn) /\ c.iteration < MaxIterations
      /\ reply.role = "calls" /\ reply.n \in 1..MaxFanOut /\ c.called < reply.n
      /\ WholeCalls(c.turn \o Answers(c.called, reply.n))

Talking(c) ==
  /\ c.pc \in {"ask", "tools", "store"} => Begun(c)
  /\ c.pc \in {"ask", "store"} => WholeCalls(c.turn)
  /\ c.pc = "tools" => Calling(c)

Stored(d) == Complete(entries[d]) /\ (entries[d][1] = System \/ d \in bare)

ChatInv ==
  /\ entries \in [Dialog -> Seq(Message)] /\ chats \in 0..MaxChats /\ bare \subseteq Dialog
  /\ chat \in [Talker -> ChatRecord]
  /\ \A t \in Talker : Talking(chat[t])
  /\ \A d \in Dialog : Remembered(d) => Stored(d)
  /\ lru \in Seq(Dialog) /\ IsInjective(lru) /\ Len(lru) <= LRUSize /\ ToSet(lru) = Kept

\* A request goes from here to c, and the store stays as it is.
Moves(t, c) ==
  /\ c \in ChatRecord /\ Talking(c)
  /\ chat' = [chat EXCEPT ![t] = c]
  /\ UNCHANGED <<entries, bare>>

\* A goroutine without a request, or whose request has ended.
LEMMA NoneTalking == NoChat \in ChatRecord /\ Talking(NoChat)
<1>1. <<>> \in Seq(Message)
  BY EmptySeq
<1> HIDE DEF Message
<1>2. 0 \in 0..MaxIterations
  BY LoopAssumption
<1>3. NoChat \in ChatRecord
  BY <1>1, <1>2 DEF NoChat, ChatRecord
<1>4. NoChat.pc = "idle"
  BY DEF NoChat
<1> QED
  BY <1>3, <1>4 DEF Talking

\* Moving one request keeps what is known of them all.
LEMMA Moved ==
  ASSUME ChatInv, NEW t \in Talker, NEW c, Moves(t, c), UNCHANGED lru, chats' \in 0..MaxChats
  PROVE  ChatInv'
<1> HIDE DEF Message, ChatRecord
<1>1. chat' \in [Talker -> ChatRecord] /\ \A s \in Talker : chat'[s] = IF s = t THEN c ELSE chat[s]
  BY DEF ChatInv, Moves
<1>2. \A s \in Talker : Talking(chat'[s])
  BY <1>1 DEF ChatInv, Moves
<1>3. entries' = entries /\ bare' = bare /\ lru' = lru
  BY DEF Moves
<1>4. Kept' = Kept /\ \A d \in Dialog : (Remembered(d)' <=> Remembered(d)) /\ (Stored(d)' <=> Stored(d))
  BY <1>3 DEF Kept, Remembered, Stored
<1> QED
  BY <1>1, <1>2, <1>3, <1>4 DEF ChatInv

\* The next answer is the first of those that were to come.
LEMMA NextAnswer ==
  ASSUME NEW n \in 1..MaxFanOut, NEW k \in 0..(n - 1), NEW turn \in Seq(Message)
  PROVE  Append(turn, [role |-> "tool", n |-> k + 1]) \o Answers(k + 1, n) = turn \o Answers(k, n)
<1> HIDE DEF Message
<1>1. n \in Nat /\ k \in Nat /\ k + 1 \in 0..n /\ k \in 0..n /\ k + 1 \in 1..MaxFanOut
  BY LoopAssumption
<1> DEFINE m == [role |-> "tool", n |-> k + 1]
<1>2. m \in Message /\ <<m>> \in Seq(Message) /\ Len(<<m>>) = 1 /\ <<m>>[1] = m
  <2>1. m \in Message
    BY <1>1, Messages
  <2> HIDE DEF m
  <2> QED
    BY <2>1
<1>3. PICK a, b : a = Answers(k, n) /\ b = Answers(k + 1, n)
  OBVIOUS
<1>4. PICK r \in Nat : r = n - (k + 1) /\ n - k = 1 + r
  BY <1>1
<1>5. /\ a \in Seq(Message) /\ Len(a) = 1 + r
      /\ \A i \in 1..(1 + r) : a[i] = [role |-> "tool", n |-> k + i]
  BY <1>1, <1>3, <1>4, AnswersAre
<1>6. /\ b \in Seq(Message) /\ Len(b) = r
      /\ \A i \in 1..r : b[i] = [role |-> "tool", n |-> (k + 1) + i]
  BY <1>1, <1>3, <1>4, AnswersAre
<1> HIDE DEF m
<1>7. PICK s : s = <<m>> \o b
  OBVIOUS
<1>8. /\ s \in Seq(Message) /\ Len(s) = 1 + r
      /\ \A i \in 1..(1 + r) : s[i] = IF i <= 1 THEN <<m>>[i] ELSE b[i - 1]
  BY <1>2, <1>6, <1>7, ConcatProperties
<1>9. ASSUME NEW i \in 1..(1 + r) PROVE s[i] = a[i]
  <2>1. CASE i = 1
    BY <1>2, <1>5, <1>8, <2>1 DEF m
  <2>2. CASE i # 1
    <3>1. PICK j \in 1..r : j = i - 1 /\ (k + 1) + j = k + i /\ ~(i <= 1)
      BY <1>1, <2>2
    <3> QED
      BY <1>5, <1>6, <1>8, <3>1
  <2> QED
    BY <2>1, <2>2
<1>10. s = a
  BY <1>5, <1>8, <1>9, SeqEqual
<1>11. Append(turn, m) \o b = turn \o s
  <2>1. Append(turn, m) = turn \o <<m>>
    BY <1>2, AppendIsConcat
  <2> QED
    BY <1>2, <1>6, <1>7, <2>1, ConcatAssociative
<1> QED
  BY <1>3, <1>10, <1>11 DEF m

\* A reply comes behind a whole turn: with its answers, the turn is whole.
LEMMA NewReply ==
  ASSUME NEW n \in 1..MaxFanOut, NEW turn \in Seq(Message), WholeCalls(turn)
  PROVE  WholeCalls(Append(turn, [role |-> "calls", n |-> n]) \o Answers(0, n))
<1> HIDE DEF Message
<1> DEFINE r == [role |-> "calls", n |-> n]
<1>1. r \in Message /\ <<r>> \in Seq(Message)
  <2>1. r \in Message
    BY Messages
  <2> QED
    BY <2>1
<1>2. /\ <<r>> \o Answers(0, n) \in Seq(Message) /\ WholeCalls(<<r>> \o Answers(0, n))
      /\ Answers(0, n) \in Seq(Message)
  <2>1. 0 \in 0..n
    BY LoopAssumption
  <2> QED
    BY <2>1, WholeReply, AnswersAre
<1> HIDE DEF r
<1>3. WholeCalls(turn \o (<<r>> \o Answers(0, n)))
  BY <1>2, WholeJoined
<1>4. turn \o (<<r>> \o Answers(0, n)) = Append(turn, r) \o Answers(0, n)
  <2>1. Append(turn, r) = turn \o <<r>>
    BY <1>1, AppendIsConcat
  <2> QED
    BY <1>1, <1>2, <2>1, ConcatAssociative
<1> QED
  BY <1>3, <1>4 DEF r

\* No answers are left after the last one.
LEMMA NoAnswersLeft ==
  ASSUME NEW n \in 1..MaxFanOut, NEW turn \in Seq(Message)
  PROVE  turn \o Answers(n, n) = turn
<1> HIDE DEF Message
<1>1. n \in 0..n /\ n - n = 0
  BY LoopAssumption
<1>2. Answers(n, n) \in Seq(Message) /\ Len(Answers(n, n)) = 0
  BY <1>1, AnswersAre
<1>3. Answers(n, n) = <<>>
  BY <1>2, EmptySeq
<1> QED
  BY <1>3, ConcatEmptySeq

-----------------------------------------------------------------------------
(* Chat: the steps *)

\* Load: what is kept of a dialog begins with its system prompt, or is bare.
LEMMA BeginStep ==
  ASSUME ChatInv, NEW t \in Talker, NEW d \in Dialog, BeginChat(t, d)
  PROVE  ChatInv'
<1> HIDE DEF Message
<1>1. PICK known : known = Remembered(d)
  OBVIOUS
<1>2. entries[d] \in Seq(Message) /\ (known <=> entries[d] # <<>>)
  BY <1>1 DEF ChatInv, Remembered
<1>3. PICK first : first = IF known THEN <<User>> ELSE <<System, User>>
  OBVIOUS
<1>4. first \in Seq(Message) /\ Len(first) > 0 /\ WholeCalls(first) /\ (~known => first[1] = System)
  <2>1. System \in Message /\ User \in Message
    BY Messages
  <2>2. <<User>> \in Seq(Message) /\ WholeCalls(<<User>>) /\ Len(<<User>>) = 1
    BY <2>1, WholeAlone, Messages
  <2>3. <<System>> \in Seq(Message) /\ WholeCalls(<<System>>)
    BY <2>1, WholeAlone, Messages
  <2>4. /\ <<System, User>> \in Seq(Message) /\ Len(<<System, User>>) = 2
        /\ <<System, User>>[1] = System
    BY <2>1
  <2>5. WholeCalls(<<System, User>>)
    <3>1. <<System, User>> = <<System>> \o <<User>>
      <4>1. PICK a, b : a = <<System>> /\ b = <<User>>
        OBVIOUS
      <4>2. /\ a \in Seq(Message) /\ b \in Seq(Message) /\ Len(a) = 1 /\ Len(b) = 1
            /\ a[1] = System /\ b[1] = User
        BY <2>1, <4>1
      <4>3. PICK s : s = a \o b
        OBVIOUS
      <4>4. /\ s \in Seq(Message) /\ Len(s) = 1 + 1
            /\ (\A i \in 1..1 : s[i] = a[i]) /\ (\A i \in 1..1 : s[1 + i] = b[i])
        BY <4>2, <4>3, JoinedAt
      <4>5. Len(s) = 2 /\ s[1] = System /\ s[2] = User
        BY <4>2, <4>4
      <4>6. PICK r : r = <<System, User>>
        OBVIOUS
      <4>7. r \in Seq(Message) /\ Len(r) = 2 /\ r[1] = System /\ r[2] = User
        BY <2>1, <4>6
      <4>8. \A i \in 1..2 : r[i] = s[i]
        BY <4>5, <4>7
      <4>9. r = s
        BY <4>4, <4>5, <4>7, <4>8, SeqEqual
      <4> QED
        BY <4>1, <4>3, <4>6, <4>9
    <3> QED
      BY <2>2, <2>3, <3>1, WholeJoined
  <2> QED
    BY <1>3, <2>2, <2>4, <2>5
<1>5. PICK c : c = [NoChat EXCEPT !.pc = "ask", !.dialog = d, !.loaded = entries[d],
                                  !.bare = known /\ d \in bare, !.turn = first]
  OBVIOUS
<1>6. c \in ChatRecord /\ Talking(c)
  <2>1. c = [pc |-> "ask", dialog |-> d, loaded |-> entries[d], turn |-> first, iteration |-> 0,
             called |-> 0, acted |-> FALSE, bare |-> known /\ d \in bare]
    BY <1>5 DEF NoChat
  <2>2. c \in ChatRecord
    <3>1. 0 \in 0..MaxIterations /\ (known /\ d \in bare) \in BOOLEAN
      BY LoopAssumption
    <3> QED
      BY <1>2, <1>4, <2>1, <3>1 DEF ChatRecord
  <2>3. WholeCalls(entries[d]) /\ (known => entries[d][1] = System \/ d \in bare)
    <3>1. CASE known
      BY <1>1, <3>1 DEF ChatInv, Stored, Complete
    <3>2. CASE ~known
      BY <1>2, <3>2 DEF WholeCalls
    <3> QED
      BY <3>1, <3>2
  <2>4. Begun(c)
    BY <1>2, <1>4, <2>1, <2>3 DEF Begun
  <2> QED
    BY <1>4, <2>1, <2>2, <2>4 DEF Talking
<1>7. chat' = [chat EXCEPT ![t] = c] /\ UNCHANGED <<entries, bare>> /\ chats' \in 0..MaxChats
  BY <1>1, <1>3, <1>5, LoopAssumption DEF BeginChat, ChatInv
<1>8. lru' \in Seq(Dialog) /\ IsInjective(lru') /\ Len(lru') <= LRUSize /\ ToSet(lru') = Kept
  <2>1. CASE known
    <3>1. d \in ToSet(lru)
      BY <1>1, <2>1 DEF ChatInv, Kept
    <3>2. lru' = Touch(d, lru)
      BY <1>1, <2>1 DEF BeginChat
    <3>3. /\ Touch(d, lru) \in Seq(Dialog) /\ IsInjective(Touch(d, lru))
          /\ ToSet(Touch(d, lru)) = ToSet(lru) \cup {d} /\ Len(Touch(d, lru)) = Len(lru)
      BY <3>1, Touched DEF ChatInv
    <3> QED
      BY <3>1, <3>2, <3>3 DEF ChatInv
  <2>2. CASE ~known
    BY <1>1, <2>2 DEF BeginChat, ChatInv
  <2> QED
    BY <2>1, <2>2
<1>9. chat' \in [Talker -> ChatRecord] /\ \A s \in Talker : Talking(chat'[s])
  <2> HIDE DEF ChatRecord
  <2>1. chat' \in [Talker -> ChatRecord] /\ \A s \in Talker : chat'[s] = IF s = t THEN c ELSE chat[s]
    BY <1>6, <1>7 DEF ChatInv
  <2> QED
    BY <1>6, <2>1 DEF ChatInv
<1>10. Kept' = Kept /\ \A e \in Dialog : (Remembered(e)' <=> Remembered(e)) /\ (Stored(e)' <=> Stored(e))
  BY <1>7 DEF Kept, Remembered, Stored
<1> QED
  BY <1>7, <1>8, <1>9, <1>10 DEF ChatInv

\* A reply with calls follows a whole turn.
LEMMA CallsStep ==
  ASSUME ChatInv, NEW t \in Talker, NEW n \in 1..MaxFanOut, ModelCalls(t, n)
  PROVE  ChatInv'
<1> HIDE DEF Message
<1>1. PICK c : c = chat[t]
  OBVIOUS
<1>2. c \in ChatRecord /\ Talking(c) /\ c.pc = "ask" /\ c.iteration < MaxIterations
  BY <1>1 DEF ChatInv, ModelCalls, Iterating, AtChat
<1>3. PICK r : r = [role |-> "calls", n |-> n] /\ r \in Message
  BY Messages
<1>4. PICK turn : turn = Append(c.turn, r)
  OBVIOUS
<1>5. PICK e : e = [c EXCEPT !.turn = turn, !.pc = "tools", !.called = 0]
  OBVIOUS
<1>6. c.turn \in Seq(Message) /\ c.called \in Nat /\ c.iteration \in 0..MaxIterations
  BY <1>2 DEF ChatRecord
<1>7. PICK len \in Nat : len = Len(c.turn) /\ len > 0
  BY <1>2, <1>6, LenProperties DEF Talking, Begun
<1>8. turn \in Seq(Message) /\ Len(turn) = len + 1 /\ turn[len + 1] = r /\ turn[1] = c.turn[1]
  <2>1. 1 \in 1..len
    BY <1>7
  <2> QED
    BY <1>3, <1>4, <1>6, <1>7, <2>1, AppendProperties
<1>9. e \in ChatRecord
  BY <1>2, <1>5, <1>8 DEF ChatRecord
<1>10. /\ e.turn = turn /\ e.pc = "tools" /\ e.called = 0 /\ e.iteration = c.iteration
       /\ e.dialog = c.dialog /\ e.loaded = c.loaded /\ e.bare = c.bare
  BY <1>2, <1>5 DEF ChatRecord
<1>11. Begun(e)
  BY <1>2, <1>7, <1>8, <1>10 DEF Talking, Begun
<1>12. Calling(e)
  <2>1. WholeCalls(turn \o Answers(0, n))
    BY <1>2, <1>3, <1>4, <1>6, NewReply DEF Talking
  <2>2. len + 1 - 0 = len + 1 /\ 0 < len + 1 /\ 0 < n
    BY <1>7, LoopAssumption
  <2>3. e.turn[Len(e.turn) - e.called] = r
    BY <1>8, <1>10, <2>2
  <2>4. r.role = "calls" /\ r.n = n
    BY <1>3
  <2> QED
    BY <1>2, <1>8, <1>10, <2>1, <2>2, <2>3, <2>4 DEF Calling
<1>13. Talking(e)
  BY <1>10, <1>11, <1>12 DEF Talking
<1>14. Moves(t, e) /\ UNCHANGED lru /\ chats' \in 0..MaxChats
  BY <1>1, <1>3, <1>4, <1>5, <1>9, <1>13 DEF Moves, ModelCalls, Unstored, ChatInv
<1> QED
  BY <1>14, Moved

\* A tool answers the next call of its reply.
LEMMA ToolStep ==
  ASSUME ChatInv, NEW t \in Talker, CallTool(t)
  PROVE  ChatInv'
<1> HIDE DEF Message
<1>1. PICK c : c = chat[t]
  OBVIOUS
<1>2. c \in ChatRecord /\ Talking(c) /\ c.pc = "tools"
  BY <1>1 DEF ChatInv, CallTool, AtChat
<1>3. /\ c.turn \in Seq(Message) /\ c.iteration \in 0..MaxIterations /\ c.acted \in BOOLEAN
      /\ Begun(c) /\ Calling(c)
  BY <1>2 DEF ChatRecord, Talking
<1>4. PICK len \in Nat, k \in Nat : len = Len(c.turn) /\ k = c.called /\ k < len
  BY <1>2, <1>3, LenProperties DEF ChatRecord, Calling
<1>5. PICK reply : reply = c.turn[len - k]
  OBVIOUS
<1>6. PICK n \in 1..MaxFanOut : n = reply.n /\ k < n
  BY <1>3, <1>4, <1>5 DEF Calling
<1>7. reply.role = "calls" /\ c.iteration < MaxIterations /\ WholeCalls(c.turn \o Answers(k, n))
  BY <1>3, <1>4, <1>5, <1>6 DEF Calling
<1>8. PICK m : m = [role |-> "tool", n |-> k + 1]
  OBVIOUS
<1>9. PICK turn : turn = Append(c.turn, m)
  OBVIOUS
<1>10. k + 1 \in 1..MaxFanOut /\ k \in 0..(n - 1) /\ k + 1 \in 0..n
  BY <1>4, <1>6, LoopAssumption
<1>11. m \in Message
  BY <1>8, <1>10, Messages
<1>12. /\ turn \in Seq(Message) /\ Len(turn) = len + 1 /\ turn[1] = c.turn[1]
       /\ turn[(len + 1) - (k + 1)] = reply
  <2>1. /\ turn \in Seq(Message) /\ Len(turn) = len + 1
        /\ \A i \in 1..len : turn[i] = c.turn[i]
    BY <1>3, <1>4, <1>9, <1>11, AppendProperties
  <2>2. 1 \in 1..len /\ len - k \in 1..len /\ (len + 1) - (k + 1) = len - k
    BY <1>4
  <2> QED
    BY <1>5, <2>1, <2>2
<1>13. WholeCalls(turn \o Answers(k + 1, n))
  BY <1>3, <1>6, <1>7, <1>8, <1>9, <1>10, NextAnswer
<1>14. PICK acts \in BOOLEAN :
         chat' = [chat EXCEPT ![t].turn = Append(@, m), ![t].called = k + 1, ![t].acted = @ \/ acts,
                              ![t].iteration = IF k + 1 = n THEN @ + 1 ELSE @,
                              ![t].pc = IF k + 1 = n THEN "ask" ELSE "tools"]
  BY <1>1, <1>4, <1>5, <1>6, <1>8 DEF CallTool
<1>15. PICK e : e = [c EXCEPT !.turn = turn, !.called = k + 1, !.acted = @ \/ acts,
                              !.iteration = IF k + 1 = n THEN @ + 1 ELSE @,
                              !.pc = IF k + 1 = n THEN "ask" ELSE "tools"]
  OBVIOUS
<1>16. chat' = [chat EXCEPT ![t] = e]
  BY <1>1, <1>9, <1>14, <1>15 DEF ChatInv
<1>17. /\ e.turn = turn /\ e.called = k + 1 /\ e.pc = (IF k + 1 = n THEN "ask" ELSE "tools")
       /\ e.iteration = (IF k + 1 = n THEN c.iteration + 1 ELSE c.iteration)
       /\ e.dialog = c.dialog /\ e.loaded = c.loaded /\ e.bare = c.bare
  BY <1>2, <1>15 DEF ChatRecord
<1>18. e \in ChatRecord
  <2>1. c.iteration + 1 \in 0..MaxIterations /\ k + 1 \in Nat
    BY <1>3, <1>4, <1>7, LoopAssumption
  <2> QED
    BY <1>2, <1>3, <1>12, <1>15, <2>1 DEF ChatRecord
<1>19. Begun(e)
  BY <1>3, <1>4, <1>12, <1>17 DEF Begun
<1>20. CASE k + 1 = n
  <2>1. WholeCalls(turn)
    BY <1>12, <1>13, <1>20, NoAnswersLeft
  <2>2. Talking(e)
    BY <1>17, <1>19, <1>20, <2>1 DEF Talking
  <2>3. Moves(t, e) /\ UNCHANGED lru /\ chats' \in 0..MaxChats
    BY <1>16, <1>18, <2>2 DEF Moves, CallTool, Unstored, ChatInv
  <2> QED
    BY <2>3, Moved
<1>21. CASE k + 1 # n
  <2>1. k + 1 < n /\ k + 1 < len + 1
    BY <1>4, <1>6, <1>21, LoopAssumption
  <2>2. Calling(e)
    BY <1>6, <1>7, <1>12, <1>13, <1>17, <1>21, <2>1 DEF Calling
  <2>3. Talking(e)
    BY <1>17, <1>19, <1>21, <2>2 DEF Talking
  <2>4. Moves(t, e) /\ UNCHANGED lru /\ chats' \in 0..MaxChats
    BY <1>16, <1>18, <2>3 DEF Moves, CallTool, Unstored, ChatInv
  <2> QED
    BY <2>4, Moved
<1> QED
  BY <1>20, <1>21

\* A request that ends, fails or has its answer leaves the store as it is.
LEMMA GoStep ==
  ASSUME ChatInv, NEW t \in Talker, NEW pc \in {"store", "failed", "analyst"},
         chat[t].pc = "ask" \/ pc = "analyst", GoChat(t, pc), Unstored, UNCHANGED chats
  PROVE  ChatInv'
<1> HIDE DEF Message
<1>1. PICK c : c = chat[t] /\ c \in ChatRecord /\ Talking(c)
  BY DEF ChatInv
<1>2. PICK e : e = [c EXCEPT !.pc = pc]
  OBVIOUS
<1>3. /\ e \in ChatRecord /\ e.pc = pc /\ e.turn = c.turn
      /\ e.dialog = c.dialog /\ e.loaded = c.loaded /\ e.bare = c.bare
  BY <1>1, <1>2 DEF ChatRecord
<1>4. Talking(e)
  BY <1>1, <1>3 DEF Talking, Begun
<1>5. Moves(t, e) /\ UNCHANGED lru /\ chats' \in 0..MaxChats
  BY <1>1, <1>2, <1>3, <1>4 DEF Moves, GoChat, Unstored, ChatInv
<1> QED
  BY <1>5, Moved

\* A request is over, without a turn to store.
LEMMA EndStep ==
  ASSUME ChatInv, NEW t \in Talker, chat' = [chat EXCEPT ![t] = NoChat], Unstored, UNCHANGED chats
  PROVE  ChatInv'
<1>1. Moves(t, NoChat) /\ UNCHANGED lru /\ chats' \in 0..MaxChats
  BY NoneTalking DEF Moves, Unstored, ChatInv
<1> QED
  BY <1>1, Moved

\* What the store makes of the kept messages of a dialog and a completed turn.
LEMMA Joined ==
  ASSUME ChatInv, NEW t \in Talker, chat[t].pc = "store", NEW d \in Dialog
  PROVE  LET msgs == Append(chat[t].turn, AnswerMessage)
             whole == entries[d] \o msgs
         IN  /\ msgs[1] = chat[t].turn[1]
             /\ whole \in Seq(Message) /\ WholeCalls(whole) /\ Len(whole) > 0 /\ Last(whole) = AnswerMessage
             /\ Remembered(d) => whole[1] = entries[d][1]
             /\ ~Remembered(d) => whole[1] = chat[t].turn[1]
<1> HIDE DEF Message
<1>1. PICK turn : turn = chat[t].turn
  OBVIOUS
<1>2. turn \in Seq(Message) /\ WholeCalls(turn) /\ Len(turn) > 0
  BY <1>1 DEF ChatInv, ChatRecord, Talking, Begun
<1>3. PICK n \in Nat \ {0} : n = Len(turn)
  BY <1>2, LenProperties
<1>4. PICK msgs : msgs = Append(turn, AnswerMessage)
  OBVIOUS
<1>5. AnswerMessage \in Message /\ <<AnswerMessage>> \in Seq(Message) /\ WholeCalls(<<AnswerMessage>>)
  BY WholeAlone, Messages
<1>6. /\ msgs \in Seq(Message) /\ Len(msgs) = n + 1 /\ msgs[n + 1] = AnswerMessage
      /\ msgs[1] = turn[1] /\ WholeCalls(msgs)
  <2>1. 1 \in 1..n
    OBVIOUS
  <2>2. msgs = turn \o <<AnswerMessage>>
    BY <1>2, <1>4, <1>5, AppendIsConcat
  <2>3. WholeCalls(msgs)
    BY <1>2, <1>5, <2>2, WholeJoined
  <2> QED
    BY <1>2, <1>3, <1>4, <1>5, <2>1, <2>3, AppendProperties
<1>7. PICK old : old = entries[d]
  OBVIOUS
<1>14. PICK m \in Nat : m = Len(old)
  BY <1>7, LenProperties DEF ChatInv
<1>8. old \in Seq(Message) /\ WholeCalls(old) /\ (Remembered(d) <=> m > 0) /\ (m = 0 <=> old = <<>>)
  <2>1. old \in Seq(Message)
    BY <1>7 DEF ChatInv
  <2>2. (m = 0 <=> old = <<>>) /\ (Remembered(d) <=> m > 0)
    BY <1>7, <1>14, <2>1, EmptySeq DEF Remembered
  <2>3. CASE m > 0
    BY <1>7, <2>1, <2>2, <2>3 DEF ChatInv, Stored, Complete
  <2>4. CASE m = 0
    BY <2>1, <2>2, <2>4 DEF WholeCalls
  <2> QED
    BY <1>7, <2>1, <2>2, <2>3, <2>4
<1>9. PICK whole : whole = old \o msgs
  OBVIOUS
<1>10. /\ whole \in Seq(Message) /\ Len(whole) = m + (n + 1) /\ WholeCalls(whole)
       /\ \A i \in 1..m : whole[i] = old[i]
       /\ \A i \in 1..(n + 1) : whole[m + i] = msgs[i]
  <2>1. n + 1 \in Nat
    OBVIOUS
  <2>2. WholeCalls(whole)
    BY <1>6, <1>8, <1>9, WholeJoined
  <2>3. PICK l \in Nat : l = n + 1
    BY <2>1
  <2>4. old \in Seq(Message) /\ msgs \in Seq(Message) /\ l = Len(msgs)
    BY <1>6, <1>8, <2>3
  <2>5. /\ old \o msgs \in Seq(Message) /\ Len(old \o msgs) = m + l
        /\ \A i \in 1..m : (old \o msgs)[i] = old[i]
        /\ \A i \in 1..l : (old \o msgs)[m + i] = msgs[i]
    BY <1>14, <2>4, JoinedAt
  <2> QED
    BY <1>9, <2>2, <2>3, <2>5
<1>11. Len(whole) > 0 /\ Last(whole) = AnswerMessage
  <2>1. m + (n + 1) > 0 /\ n + 1 \in 1..(n + 1)
    OBVIOUS
  <2> QED
    BY <1>6, <1>10, <2>1 DEF Last
<1>12. 1 \in 1..(n + 1) /\ (m > 0 => 1 \in 1..m) /\ (m = 0 => m + 1 = 1)
  OBVIOUS
<1>13. (m > 0 => whole[1] = old[1]) /\ (m = 0 => whole[1] = msgs[1])
  BY <1>10, <1>12
<1>15. (Remembered(d) => whole[1] = old[1]) /\ (~Remembered(d) => whole[1] = turn[1])
  BY <1>6, <1>8, <1>13
<1> QED
  BY <1>1, <1>4, <1>6, <1>7, <1>9, <1>10, <1>11, <1>15

\* Append: the completed turn is stored, whatever other requests stored since
\* the request loaded its history.
LEMMA PersistStep ==
  ASSUME ChatInv, NEW t \in Talker, Persist(t)
  PROVE  ChatInv'
<1> HIDE DEF Message
<1>1. PICK d \in Dialog : d = chat[t].dialog
  BY DEF ChatInv, Persist, AtChat, Talking, Begun
<1>2. PICK msgs, whole : msgs = Append(chat[t].turn, AnswerMessage) /\ whole = entries[d] \o msgs
  OBVIOUS
<1>3. /\ msgs[1] = chat[t].turn[1]
      /\ whole \in Seq(Message) /\ WholeCalls(whole) /\ Len(whole) > 0 /\ Last(whole) = AnswerMessage
      /\ Remembered(d) => whole[1] = entries[d][1]
      /\ ~Remembered(d) => whole[1] = chat[t].turn[1]
  BY <1>2, Joined DEF Persist, AtChat
<1>4. PICK kept : kept = Trim(whole)
  OBVIOUS
<1>5. kept \in Seq(Message) /\ Complete(kept) /\ (whole[1] = System => kept[1] = System) /\ kept # <<>>
  <2>1. kept \in Seq(Message) /\ Complete(kept) /\ (whole[1] = System => kept[1] = System)
    BY <1>3, <1>4, Trimmed
  <2> QED
    BY <2>1, EmptySeq DEF Complete
<1>6. PICK out : out = Evicted(d)
  OBVIOUS
<1>7. out \subseteq ToSet(lru) /\ d \notin out /\ (Remembered(d) => out = {})
      /\ (out = {} \/ out = {Head(lru)})
      /\ (out # {} => lru # <<>>) /\ (~Remembered(d) /\ out = {} => Len(lru) < LRUSize)
  <2>1. lru # <<>> => Head(lru) \in ToSet(lru)
    BY Oldest DEF ChatInv
  <2>2. ~Remembered(d) => d \notin ToSet(lru)
    BY DEF ChatInv, Kept
  <2>3. Cardinality(Kept) = Len(lru) /\ Len(lru) \in Nat
    BY Counted, LenProperties DEF ChatInv
  <2>4. ASSUME ~Remembered(d), out = {} PROVE Len(lru) < LRUSize
    <3>1. ~(Cardinality(Kept) >= LRUSize) \/ lru = <<>>
      BY <1>6, <2>4 DEF Evicted
    <3>2. lru = <<>> => Len(lru) = 0
      BY EmptySeq
    <3> QED
      BY <2>3, <3>1, <3>2, StoreAssumption
  <2> QED
    BY <1>6, <2>1, <2>2, <2>4 DEF Evicted
<1>8. /\ entries' = [e \in Dialog |-> IF e = d THEN kept ELSE IF e \in out THEN <<>> ELSE entries[e]]
      /\ lru' = Touch(d, IF out = {} THEN lru ELSE Tail(lru))
      /\ bare' = (bare \ out) \cup (IF ~Remembered(d) /\ msgs[1] # System THEN {d} ELSE {})
      /\ chat' = [chat EXCEPT ![t] = NoChat] /\ chats' = chats
  BY <1>1, <1>2, <1>4, <1>6 DEF Persist, Store
<1>9. entries' \in [Dialog -> Seq(Message)] /\ bare' \subseteq Dialog /\ chats' \in 0..MaxChats
  BY <1>5, <1>8, EmptySeq DEF ChatInv
<1>10. chat' \in [Talker -> ChatRecord] /\ \A s \in Talker : Talking(chat'[s])
  <2> HIDE DEF ChatRecord
  <2>1. chat' \in [Talker -> ChatRecord] /\ \A s \in Talker : chat'[s] = IF s = t THEN NoChat ELSE chat[s]
    BY <1>8, NoneTalking DEF ChatInv
  <2> QED
    BY <2>1, NoneTalking DEF ChatInv
<1>11. ASSUME NEW e \in Dialog, entries'[e] # <<>>
       PROVE  Complete(entries'[e]) /\ (entries'[e][1] = System \/ e \in bare')
  <2>1. CASE e = d
    <3>1. entries'[e] = kept
      BY <1>8, <2>1
    <3>2. CASE Remembered(d)
      <4>1. entries[d][1] = System \/ d \in bare
        BY <3>2 DEF ChatInv, Stored
      <4>2. kept[1] = System \/ d \in bare
        BY <1>3, <1>5, <3>2, <4>1
      <4> QED
        BY <1>5, <1>7, <1>8, <2>1, <3>1, <4>2
    <3>3. CASE ~Remembered(d)
      <4>1. kept[1] = System \/ msgs[1] # System
        BY <1>3, <1>5, <3>3
      <4> QED
        BY <1>5, <1>8, <2>1, <3>1, <3>3, <4>1
    <3> QED
      BY <3>2, <3>3
  <2>2. CASE e # d
    <3>1. e \notin out /\ entries'[e] = entries[e]
      BY <1>8, <1>11, <2>2
    <3>2. Stored(e)
      BY <1>11, <3>1 DEF ChatInv, Remembered
    <3> QED
      BY <1>8, <3>1, <3>2 DEF Stored
  <2> QED
    BY <2>1, <2>2
<1>12. Kept' = (Kept \ out) \cup {d}
  <2>1. \A e \in Dialog : entries'[e] # <<>> <=> e = d \/ (e \notin out /\ entries[e] # <<>>)
    BY <1>5, <1>8
  <2> QED
    BY <2>1 DEF Kept, Remembered
<1>13. PICK rest : rest = IF out = {} THEN lru ELSE Tail(lru)
  OBVIOUS
<1>14. /\ rest \in Seq(Dialog) /\ IsInjective(rest) /\ ToSet(rest) = Kept \ out
       /\ (d \in ToSet(rest) => Len(rest) <= LRUSize) /\ (d \notin ToSet(rest) => Len(rest) + 1 <= LRUSize)
  <2>1. Len(lru) \in Nat /\ LRUSize \in Nat /\ Len(lru) <= LRUSize /\ ToSet(lru) = Kept
    BY LenProperties, StoreAssumption DEF ChatInv
  <2>2. CASE out = {}
    <3>1. rest = lru
      BY <1>13, <2>2
    <3>2. d \notin ToSet(lru) => Len(lru) + 1 <= LRUSize
      BY <1>7, <2>1, <2>2 DEF Kept
    <3> QED
      BY <2>1, <2>2, <3>1, <3>2 DEF ChatInv
  <2>3. CASE out # {}
    <3>1. out = {Head(lru)} /\ lru # <<>> /\ rest = Tail(lru)
      BY <1>7, <1>13, <2>3
    <3>2. /\ Tail(lru) \in Seq(Dialog) /\ IsInjective(Tail(lru))
          /\ ToSet(Tail(lru)) = ToSet(lru) \ {Head(lru)} /\ Len(Tail(lru)) = Len(lru) - 1
      BY <3>1, Oldest DEF ChatInv
    <3> QED
      BY <2>1, <3>1, <3>2
  <2> QED
    BY <2>2, <2>3
<1>15. lru' \in Seq(Dialog) /\ IsInjective(lru') /\ Len(lru') <= LRUSize /\ ToSet(lru') = Kept'
  <2>1. lru' = Touch(d, rest)
    BY <1>8, <1>13
  <2>2. /\ Touch(d, rest) \in Seq(Dialog) /\ IsInjective(Touch(d, rest))
        /\ ToSet(Touch(d, rest)) = ToSet(rest) \cup {d}
        /\ Len(Touch(d, rest)) = IF d \in ToSet(rest) THEN Len(rest) ELSE Len(rest) + 1
    BY <1>14, Touched
  <2> QED
    BY <1>12, <1>14, <2>1, <2>2
<1> QED
  BY <1>9, <1>10, <1>11, <1>15 DEF ChatInv, Remembered, Stored

\* At the start nothing is kept.
LEMMA ChatStarts == ChatInit => ChatInv
<1> HIDE DEF Message, ChatRecord
<1> SUFFICES ASSUME ChatInit PROVE ChatInv
  OBVIOUS
<1>1. <<>> \in Seq(Message) /\ <<>> \in Seq(Dialog) /\ Len(<<>>) = 0
  BY EmptySeq
<1>2. Kept = {} /\ \A d \in Dialog : ~Remembered(d)
  BY DEF ChatInit, Kept, Remembered
<1>3. IsInjective(lru) /\ ToSet(lru) = {}
  BY DEF ChatInit, IsInjective, ToSet
<1>4. chat \in [Talker -> ChatRecord] /\ \A t \in Talker : Talking(chat[t])
  BY NoneTalking DEF ChatInit
<1>5. 0 \in 0..MaxChats /\ 0 <= LRUSize
  BY LoopAssumption, StoreAssumption
<1> QED
  BY <1>1, <1>2, <1>3, <1>4, <1>5 DEF ChatInit, ChatInv

\* Every step of a chat keeps the invariant.
LEMMA ChatGoesOn == ChatInv /\ [ChatNext]_chatVars => ChatInv'
<1> SUFFICES ASSUME ChatInv, [ChatNext]_chatVars PROVE ChatInv'
  OBVIOUS
<1>1. ASSUME NEW t \in Talker, NEW d \in Dialog, BeginChat(t, d) PROVE ChatInv'
  BY <1>1, BeginStep
<1>2. ASSUME NEW t \in Talker, ModelAnswers(t) PROVE ChatInv'
  BY <1>2, GoStep DEF ModelAnswers, AtChat
<1>3. ASSUME NEW t \in Talker, ModelFails(t) PROVE ChatInv'
  BY <1>3, GoStep DEF ModelFails, AtChat
<1>4. ASSUME NEW t \in Talker, CallTool(t) PROVE ChatInv'
  BY <1>4, ToolStep
<1>5. ASSUME NEW t \in Talker, Persist(t) PROVE ChatInv'
  BY <1>5, PersistStep
<1>6. ASSUME NEW t \in Talker, Fallback(t) PROVE ChatInv'
  BY <1>6, GoStep, EndStep DEF Fallback
<1>7. ASSUME NEW t \in Talker, AnalystAnswers(t) PROVE ChatInv'
  BY <1>7, EndStep DEF AnalystAnswers
<1>8. ASSUME NEW t \in Talker, NEW n \in 1..MaxFanOut, ModelCalls(t, n) PROVE ChatInv'
  BY <1>8, CallsStep
<1>9. CASE UNCHANGED chatVars
  BY <1>9 DEF chatVars, ChatInv, ChatRecord, Talking, Begun, Calling, Stored, Complete, Remembered, Kept
<1> QED
  BY <1>1, <1>2, <1>3, <1>4, <1>5, <1>6, <1>7, <1>8, <1>9 DEF ChatNext, ChatStep

\* The invariant has the property: what is sent is what was loaded and said.
LEMMA ChatStaysWhole == ChatInv => DialogsWhole
<1> HIDE DEF Message
<1> SUFFICES ASSUME ChatInv PROVE DialogsWhole
  OBVIOUS
<1>1. ASSUME NEW t \in Talker, AtChat(t, "ask")
      PROVE  WholeCalls(Payload(t)) /\ (Head(Payload(t)) = System \/ chat[t].bare)
  <2>1. PICK c : c = chat[t]
    OBVIOUS
  <2>2. /\ c.loaded \in Seq(Message) /\ c.turn \in Seq(Message)
        /\ WholeCalls(c.loaded) /\ WholeCalls(c.turn) /\ Len(c.turn) > 0
        /\ (c.loaded = <<>> => c.turn[1] = System)
        /\ (c.loaded # <<>> => c.loaded[1] = System \/ c.bare)
    BY <1>1, <2>1 DEF AtChat, ChatInv, ChatRecord, Talking, Begun
  <2>3. PICK a \in Nat, b \in Nat : a = Len(c.loaded) /\ b = Len(c.turn) /\ (a = 0 <=> c.loaded = <<>>)
    BY <2>2, LenProperties, EmptySeq
  <2>4. PICK all : all = c.loaded \o c.turn
    OBVIOUS
  <2>5. /\ all \in Seq(Message) /\ Len(all) = a + b /\ WholeCalls(all)
        /\ \A i \in 1..a : all[i] = c.loaded[i]
        /\ \A i \in 1..b : all[a + i] = c.turn[i]
    <3>1. PICK old, new : old = c.loaded /\ new = c.turn
      OBVIOUS
    <3>2. /\ old \o new \in Seq(Message) /\ Len(old \o new) = a + b /\ WholeCalls(old \o new)
          /\ \A i \in 1..a : (old \o new)[i] = old[i]
          /\ \A i \in 1..b : (old \o new)[a + i] = new[i]
      <4>1. old \in Seq(Message) /\ new \in Seq(Message) /\ a = Len(old) /\ b = Len(new)
            /\ WholeCalls(old) /\ WholeCalls(new)
        BY <2>2, <2>3, <3>1
      <4>2. WholeCalls(old \o new)
        BY <4>1, WholeJoined
      <4> QED
        BY <4>1, <4>2, JoinedAt
    <3> QED
      BY <2>4, <3>1, <3>2
  <2>6. 1 \in 1..b /\ (a # 0 => 1 \in 1..a) /\ (a = 0 => a + 1 = 1)
    <3>1. b > 0
      BY <2>2, <2>3
    <3> QED
      BY <3>1
  <2>7. all[1] = System \/ c.bare
    <3>1. CASE a = 0
      BY <2>2, <2>3, <2>5, <2>6, <3>1
    <3>2. CASE a # 0
      BY <2>2, <2>3, <2>5, <2>6, <3>2
    <3> QED
      BY <3>1, <3>2
  <2>8. Head(all) = all[1]
    BY <2>5
  <2> QED
    BY <2>1, <2>4, <2>5, <2>7, <2>8 DEF Payload
<1>2. ASSUME NEW d \in Dialog, Remembered(d)
      PROVE  /\ Last(entries[d]) = AnswerMessage
             /\ Cardinality({k \in DOMAIN entries[d] : entries[d][k] = User}) <= MaxTurns
  BY <1>2 DEF ChatInv, Stored, Complete, Users
<1> QED
  BY <1>1, <1>2 DEF ChatInv, DialogsWhole

\* trimConversation, evictLocked, chatLLM: whatever concurrent requests trim,
\* evict and append, and however many tools a reply calls, no reply that the
\* model is sent or the store keeps is split from the answers of its tools, the
\* system prompt stays in front, and the store keeps its bounds.
THEOREM DialogsStayWhole == ChatSpec => []DialogsWhole
<1>1. ChatInit => ChatInv
  BY ChatStarts
<1>2. ChatInv /\ [ChatNext]_chatVars => ChatInv'
  BY ChatGoesOn
<1>3. ChatInv => DialogsWhole
  BY ChatStaysWhole
<1> QED
  BY <1>1, <1>2, <1>3, PTL DEF ChatSpec
=============================================================================
