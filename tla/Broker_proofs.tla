---------------------------- MODULE Broker_proofs ----------------------------
(***************************************************************************)
(* The safety properties of Broker.tla for any set of handlers, any buffer *)
(* of at least one message and any number of publications, on its own and  *)
(* inside Server.tla, whose Stop cancels many streams in one step.         *)
(*                                                                         *)
(* None of them is inductive alone: that a done channel is closed once     *)
(* needs "who is in the map is not done", that no message is skipped needs *)
(* the place of each of the three pieces of a run (sent, holding, queued), *)
(* and that a status is honest needs what a slow mark and a done channel   *)
(* say about the past.  IInv adds these.                                   *)
(***************************************************************************)
EXTENDS Server, SequenceTheorems, TLAPS

\* s holds base+1, base+2, ...
Numbered(s, base) == \A i \in 1..Len(s) : s[i] = base + i

\* A run in three pieces that started after message j: the sent s, the held m,
\* the queued q, and the last message it reaches.
Chain(j, s, m, q) ==
  /\ Numbered(s, j)
  /\ Numbered(m, j + Len(s))
  /\ Numbered(q, j + Len(s) + Len(m))
Reach(j, s, m, q) == j + Len(s) + Len(m) + Len(q)

Pieces(h) == Chain(joined[h], sent[h], holding[h], messages[h])
Last(h) == Reach(joined[h], sent[h], holding[h], messages[h])

\* Before its FetchResponseData call h has nothing.
Idle(h) ==
  pc[h] = "idle" =>
    /\ h \notin subscribers /\ done[h] = 0 /\ ~slow[h] /\ result[h] = "none"
    /\ joined[h] = NotJoined
    /\ sent[h] = <<>> /\ holding[h] = <<>> /\ messages[h] = <<>>

Joined(h) == pc[h] # "idle" => Last(h) <= published

\* A message is held only from its receive to the end of the send.
Holding(h) ==
  /\ holding[h] # <<>> => Len(holding[h]) = 1
  /\ holding[h] # <<>> => pc[h] \in {"send", "deferred", "returned"}
  /\ pc[h] = "send" => holding[h] # <<>>

\* Who is in the map is neither done nor slow nor behind.
Attached(h) ==
  h \in subscribers =>
    /\ ~closed /\ done[h] = 0 /\ pc[h] # "returned"
    /\ Last(h) = published

\* What done, the slow mark and the status tell about the past.
Ended(h) ==
  /\ done[h] <= 1
  /\ slow[h] => Last(h) < published
  /\ done[h] > 0 /\ ~slow[h] /\ pc[h] # "returned" => closed
  /\ result[h] = "ResourceExhausted" => slow[h]
  /\ result[h] = "ok" => closed

HandlerInv(h) == Pieces(h) /\ Idle(h) /\ Joined(h) /\ Holding(h) /\ Attached(h) /\ Ended(h)

IInv == TypeOK /\ \A h \in Handler : HandlerInv(h)

-----------------------------------------------------------------------------
(* Sequences of consecutive numbers *)

\* Appending the next number keeps a run consecutive.
LEMMA NumberedAppend ==
  ASSUME NEW s \in Seq(Message), NEW base \in Nat, Numbered(s, base),
         base + Len(s) + 1 \in Message
  PROVE  Numbered(Append(s, base + Len(s) + 1), base)
<1> DEFINE e == base + Len(s) + 1
<1>1. /\ Len(Append(s, e)) = Len(s) + 1
      /\ \A i \in 1..Len(s) : Append(s, e)[i] = s[i]
      /\ Append(s, e)[Len(s) + 1] = e
  BY AppendProperties
<1>2. Len(s) \in Nat
  BY LenProperties
<1>3. ASSUME NEW i \in 1..Len(s) + 1
      PROVE  Append(s, e)[i] = base + i
  <2>1. CASE i \in 1..Len(s)
    BY <2>1, <1>1 DEF Numbered
  <2>2. CASE i = Len(s) + 1
    BY <2>2, <1>1
  <2> QED
    BY <1>2, <2>1, <2>2
<1> QED
  BY <1>1, <1>3 DEF Numbered

\* Two runs, the second starting where the first ends, make one.
LEMMA NumberedConcat ==
  ASSUME NEW s \in Seq(Message), NEW t \in Seq(Message), NEW base \in Nat,
         Numbered(s, base), Numbered(t, base + Len(s))
  PROVE  Numbered(s \o t, base)
<1>1. /\ Len(s \o t) = Len(s) + Len(t)
      /\ \A i \in 1..Len(s) + Len(t) :
           (s \o t)[i] = IF i <= Len(s) THEN s[i] ELSE t[i - Len(s)]
  BY ConcatProperties
<1>2. Len(s) \in Nat /\ Len(t) \in Nat
  BY LenProperties
<1>3. ASSUME NEW i \in 1..Len(s) + Len(t)
      PROVE  (s \o t)[i] = base + i
  <2>1. CASE i <= Len(s)
    BY <2>1, <1>1, <1>2 DEF Numbered
  <2>2. CASE ~(i <= Len(s))
    <3>1. i - Len(s) \in 1..Len(t)
      BY <2>2, <1>2
    <3>2. t[i - Len(s)] = base + Len(s) + (i - Len(s))
      BY <3>1 DEF Numbered
    <3> QED
      BY <3>2, <2>2, <1>1, <1>2
  <2> QED
    BY <2>1, <2>2
<1> QED
  BY <1>1, <1>3 DEF Numbered

\* Taking the first number leaves the run that starts one later.
LEMMA NumberedTail ==
  ASSUME NEW s \in Seq(Message), s # <<>>, NEW base \in Nat, Numbered(s, base)
  PROVE  /\ Numbered(<<Head(s)>>, base)
         /\ Numbered(Tail(s), base + 1)
<1>1. /\ Len(Tail(s)) = Len(s) - 1
      /\ \A i \in 1..Len(Tail(s)) : Tail(s)[i] = s[i + 1]
  BY HeadTailProperties
<1>2. Len(s) \in Nat /\ Len(s) > 0
  BY EmptySeq, LenProperties
<1>3. Head(s) = base + 1
  BY <1>2 DEF Numbered
<1> QED
  BY <1>1, <1>2, <1>3 DEF Numbered

\* The lengths and the end of a run are naturals.
LEMMA ReachNat ==
  ASSUME NEW j \in Nat,
         NEW s \in Seq(Message), NEW m \in Seq(Message), NEW q \in Seq(Message)
  PROVE  Reach(j, s, m, q) \in Nat
<1>1. Len(s) \in Nat /\ Len(m) \in Nat /\ Len(q) \in Nat
  BY LenProperties
<1> QED
  BY <1>1 DEF Reach

\* publish() on a queue with room: the run reaches one message further.
LEMMA ChainAppend ==
  ASSUME NEW j \in Nat,
         NEW s \in Seq(Message), NEW m \in Seq(Message), NEW q \in Seq(Message),
         Chain(j, s, m, q), NEW k \in Message, k = Reach(j, s, m, q) + 1
  PROVE  /\ Chain(j, s, m, Append(q, k))
         /\ Reach(j, s, m, Append(q, k)) = k
<1>1. Len(s) \in Nat /\ Len(m) \in Nat /\ Len(q) \in Nat
  BY LenProperties
<1>2. j + Len(s) + Len(m) \in Nat /\ k = j + Len(s) + Len(m) + Len(q) + 1
  BY <1>1 DEF Reach
<1>3. Numbered(Append(q, k), j + Len(s) + Len(m))
  BY <1>2, NumberedAppend DEF Chain
<1>4. Len(Append(q, k)) = Len(q) + 1
  BY AppendProperties
<1> QED
  BY <1>1, <1>2, <1>3, <1>4 DEF Chain, Reach

\* The select loop takes a message from the queue: nothing is lost on the way.
LEMMA ChainReceive ==
  ASSUME NEW j \in Nat, NEW s \in Seq(Message), NEW q \in Seq(Message), q # <<>>,
         Chain(j, s, <<>>, q)
  PROVE  /\ <<Head(q)>> \in Seq(Message) /\ Tail(q) \in Seq(Message)
         /\ Chain(j, s, <<Head(q)>>, Tail(q))
         /\ Reach(j, s, <<Head(q)>>, Tail(q)) = Reach(j, s, <<>>, q)
<1>1. /\ Head(q) \in Message /\ Tail(q) \in Seq(Message)
      /\ Len(Tail(q)) = Len(q) - 1
  BY HeadTailProperties
<1>2. Len(s) \in Nat /\ Len(q) \in Nat /\ Len(<<>>) = 0 /\ Len(<<Head(q)>>) = 1
  BY LenProperties
<1>3. Numbered(q, j + Len(s))
  BY <1>2 DEF Chain
<1>4. Numbered(<<Head(q)>>, j + Len(s)) /\ Numbered(Tail(q), j + Len(s) + 1)
  BY <1>2, <1>3, NumberedTail
<1> QED
  BY <1>1, <1>2, <1>4 DEF Chain, Reach

\* stream.Send returns: the held message joins the sent ones.
LEMMA ChainSend ==
  ASSUME NEW j \in Nat,
         NEW s \in Seq(Message), NEW m \in Seq(Message), NEW q \in Seq(Message),
         Chain(j, s, m, q)
  PROVE  /\ s \o m \in Seq(Message)
         /\ Chain(j, s \o m, <<>>, q)
         /\ Reach(j, s \o m, <<>>, q) = Reach(j, s, m, q)
<1>1. Len(s) \in Nat /\ Len(m) \in Nat /\ Len(q) \in Nat /\ Len(<<>>) = 0
  BY LenProperties
<1>2. s \o m \in Seq(Message) /\ Len(s \o m) = Len(s) + Len(m)
  BY ConcatProperties
<1>3. Numbered(s \o m, j)
  BY NumberedConcat DEF Chain
<1>4. Numbered(<<>>, j + Len(s \o m))
  BY <1>1 DEF Numbered
<1>5. Numbered(q, j + Len(s \o m) + Len(<<>>))
  BY <1>1, <1>2 DEF Chain
<1> QED
  BY <1>1, <1>2, <1>3, <1>4, <1>5 DEF Chain, Reach

\* The three pieces together are the consecutive run from j + 1 to the end.
LEMMA ChainWhole ==
  ASSUME NEW j \in Nat,
         NEW s \in Seq(Message), NEW m \in Seq(Message), NEW q \in Seq(Message),
         Chain(j, s, m, q)
  PROVE  Numbered(s \o m \o q, j) /\ j + Len(s \o m \o q) = Reach(j, s, m, q)
<1>1. /\ s \o m \in Seq(Message) /\ Chain(j, s \o m, <<>>, q)
      /\ Reach(j, s \o m, <<>>, q) = Reach(j, s, m, q)
  BY ChainSend
<1>2. Len(s \o m) \in Nat /\ Len(q) \in Nat /\ Len(<<>>) = 0
  BY <1>1, LenProperties
<1>3. Numbered(s \o m, j) /\ Numbered(q, j + Len(s \o m))
  BY <1>1, <1>2 DEF Chain
<1>4. Numbered((s \o m) \o q, j)
  BY <1>1, <1>3, NumberedConcat
<1>5. Len((s \o m) \o q) = Len(s \o m) + Len(q)
  BY <1>1, ConcatProperties
<1> QED
  BY <1>1, <1>2, <1>4, <1>5 DEF Reach

-----------------------------------------------------------------------------
(* The inductive invariant *)

\* A handler none of whose state a step touches keeps its part of IInv.
LEMMA Frame ==
  ASSUME NEW h \in Handler, HandlerInv(h),
         UNCHANGED <<published, closed>>,
         h \in subscribers' => h \in subscribers,
         h \in subscribers => h \in subscribers',
         messages'[h] = messages[h], done'[h] = done[h], slow'[h] = slow[h],
         pc'[h] = pc[h], holding'[h] = holding[h], sent'[h] = sent[h],
         joined'[h] = joined[h], result'[h] = result[h]
  PROVE  HandlerInv(h)'
BY DEF HandlerInv, Pieces, Idle, Joined, Holding, Attached, Ended, Last

\* Everything the model starts with satisfies IInv.
LEMMA InitInv == Init => IInv
<1> SUFFICES ASSUME Init PROVE IInv
  OBVIOUS
<1>1. TypeOK
  <2>1. <<>> \in Seq(Message) /\ Len(<<>>) = 0
    BY EmptySeq
  <2>2. NotJoined \in 0..NotJoined
    BY MaxPublishedAssumption DEF NotJoined
  <2>3. /\ messages \in [Handler -> Seq(Message)]
        /\ holding \in [Handler -> Seq(Message)]
        /\ sent \in [Handler -> Seq(Message)]
    BY <2>1 DEF Init
  <2>4. \A h \in Handler : Len(messages[h]) <= Buffer
    <3>1. \A h \in Handler : messages[h] = <<>>
      BY DEF Init
    <3>2. 0 <= Buffer
      BY BufferAssumption
    <3> QED
      BY <2>1, <3>1, <3>2
  <2>5. /\ published \in 0..MaxPublished
        /\ joined \in [Handler -> 0..NotJoined]
    BY <2>2, MaxPublishedAssumption DEF Init
  <2>6. /\ closed \in BOOLEAN /\ subscribers \subseteq Handler
        /\ done \in [Handler -> Nat]
        /\ slow \in [Handler -> BOOLEAN] /\ ctxDone \in [Handler -> BOOLEAN]
        /\ pc \in [Handler -> PC] /\ result \in [Handler -> Result]
    BY DEF Init, PC, Result
  <2> QED
    BY <2>3, <2>4, <2>5, <2>6 DEF TypeOK
<1>2. ASSUME NEW h \in Handler PROVE HandlerInv(h)
  <2>1. /\ pc[h] = "idle" /\ h \notin subscribers /\ done[h] = 0 /\ ~slow[h]
        /\ result[h] = "none" /\ joined[h] = NotJoined
        /\ sent[h] = <<>> /\ holding[h] = <<>> /\ messages[h] = <<>>
    BY DEF Init
  <2>2. Chain(NotJoined, <<>>, <<>>, <<>>)
    BY EmptySeq DEF Chain, Numbered
  <2> QED
    BY <2>1, <2>2 DEF HandlerInv, Pieces, Idle, Joined, Holding, Attached, Ended
<1> QED
  BY <1>1, <1>2 DEF IInv

\* Type correctness, one action at a time.
LEMMA TypeStep == TypeOK /\ [Next]_vars => TypeOK'
<1> SUFFICES ASSUME TypeOK, [Next]_vars PROVE TypeOK'
  OBVIOUS
<1> USE DEF TypeOK
<1>1. CASE Publish
  <2>1. published + 1 \in Message /\ published' \in 0..MaxPublished
    BY <1>1, MaxPublishedAssumption DEF Publish, Offer, Message
  <2>2. messages' \in [Handler -> Seq(Message)]
    BY <1>1, <2>1, AppendProperties DEF Publish, Offer
  <2>3. \A h \in Handler : Len(messages'[h]) <= Buffer
    <3> SUFFICES ASSUME NEW h \in Handler PROVE Len(messages'[h]) <= Buffer
      OBVIOUS
    <3>1. Len(Append(messages[h], published + 1)) = Len(messages[h]) + 1
      BY <2>1, AppendProperties
    <3>2. Len(messages[h]) \in Nat
      BY LenProperties
    <3>3. CASE h \in subscribers \ Lagging
      BY <1>1, <3>1, <3>2, <3>3, BufferAssumption DEF Publish, Offer, Lagging
    <3>4. CASE h \notin subscribers \ Lagging
      BY <1>1, <3>4 DEF Publish, Offer
    <3> QED
      BY <3>3, <3>4
  <2>4. /\ done' \in [Handler -> Nat] /\ slow' \in [Handler -> BOOLEAN]
        /\ subscribers' \subseteq Handler
    BY <1>1 DEF Publish, Offer
  <2> QED
    BY <1>1, <2>1, <2>2, <2>3, <2>4 DEF Publish, Offer, handlerVars
<1>2. CASE Close
  BY <1>2 DEF Close, Shut, handlerVars
<1>3. ASSUME NEW h \in Handler, Subscribe(h) PROVE TypeOK'
  <2>1. published \in 0..NotJoined
    BY MaxPublishedAssumption DEF NotJoined
  <2> QED
    BY <1>3, <2>1 DEF Subscribe, PC
<1>4. ASSUME NEW h \in Handler, SendHeader(h) PROVE TypeOK'
  BY <1>4 DEF SendHeader, brokerVars, PC
<1>5. ASSUME NEW h \in Handler, Receive(h) PROVE TypeOK'
  <2>1. /\ Head(messages[h]) \in Message
        /\ Tail(messages[h]) \in Seq(Message)
        /\ Len(Tail(messages[h])) = Len(messages[h]) - 1
        /\ Len(messages[h]) \in Nat
    BY <1>5, HeadTailProperties, LenProperties DEF Receive
  <2>2. <<Head(messages[h])>> \in Seq(Message)
    BY <2>1
  <2>3. messages' \in [Handler -> Seq(Message)] /\ holding' \in [Handler -> Seq(Message)]
    BY <1>5, <2>1, <2>2 DEF Receive
  <2>4. \A g \in Handler : Len(messages'[g]) <= Buffer
    BY <1>5, <2>1, BufferAssumption DEF Receive
  <2> QED
    BY <1>5, <2>3, <2>4 DEF Receive, PC
<1>6. ASSUME NEW h \in Handler, ObserveDone(h) PROVE TypeOK'
  BY <1>6 DEF ObserveDone, Return, brokerVars, PC, Result
<1>7. ASSUME NEW h \in Handler, ObserveCancel(h) PROVE TypeOK'
  BY <1>7 DEF ObserveCancel, Return, brokerVars, PC, Result
<1>8. ASSUME NEW h \in Handler, DeferredClose(h) PROVE TypeOK'
  <2>1. pc' \in [Handler -> PC]
    BY <1>8 DEF DeferredClose, PC
  <2>2. subscribers' \subseteq Handler /\ done' \in [Handler -> Nat]
    <3>1. CASE h \in subscribers
      BY <1>8, <3>1 DEF DeferredClose
    <3>2. CASE h \notin subscribers
      BY <1>8, <3>2 DEF DeferredClose
    <3> QED
      BY <3>1, <3>2
  <2> QED
    BY <1>8, <2>1, <2>2 DEF DeferredClose
<1>9. ASSUME NEW h \in Handler, Send(h) PROVE TypeOK'
  <2>1. sent[h] \o holding[h] \in Seq(Message) /\ <<>> \in Seq(Message)
    BY ConcatProperties, EmptySeq
  <2>2. sent' \in [Handler -> Seq(Message)] /\ holding' \in [Handler -> Seq(Message)]
    BY <1>9, <2>1 DEF Send
  <2> QED
    BY <1>9, <2>2 DEF Send, brokerVars, PC
<1>10. ASSUME NEW h \in Handler, TransportFails(h) PROVE TypeOK'
  BY <1>10 DEF TransportFails, Return, brokerVars, PC, Result
<1>11. ASSUME NEW h \in Handler, Cancel(h) PROVE TypeOK'
  BY <1>11 DEF Cancel, brokerVars
<1>12. CASE UNCHANGED vars
  BY <1>12 DEF vars, brokerVars, handlerVars
<1> QED
  BY <1>1, <1>2, <1>3, <1>4, <1>5, <1>6, <1>7, <1>8, <1>9, <1>10, <1>11, <1>12
     DEF Next, Handle, SendReturns

\* The numbers the steps compare are naturals.
LEMMA Numbers ==
  ASSUME TypeOK, NEW h \in Handler
  PROVE  joined[h] \in Nat /\ published \in Nat /\ Last(h) \in Nat
<1>1. joined[h] \in Nat /\ published \in Nat
  BY MaxPublishedAssumption DEF TypeOK, NotJoined
<1> QED
  BY <1>1, ReachNat DEF TypeOK, Last

\* publish(): a reached subscriber is still current, a lagging one is told, the
\* others are left further behind.
LEMMA PublishInv ==
  ASSUME IInv, Publish, NEW h \in Handler
  PROVE  HandlerInv(h)'
<1> USE DEF HandlerInv
<1>1. TypeOK /\ HandlerInv(h)
  BY DEF IInv
<1>2. /\ UNCHANGED <<closed, handlerVars>> /\ ~closed
      /\ published' = published + 1 /\ published + 1 \in Message
      /\ subscribers' = subscribers \ Lagging
  BY <1>1, MaxPublishedAssumption DEF Publish, Offer, Message, TypeOK
<1>3. UNCHANGED <<pc, holding, sent, joined, result, ctxDone>>
  BY <1>2 DEF handlerVars
<1>4. joined[h] \in Nat /\ published \in Nat /\ Last(h) \in Nat
  BY <1>1, Numbers
<1>5. CASE h \in subscribers \ Lagging
  <2>1. /\ messages'[h] = Append(messages[h], published + 1)
        /\ done'[h] = done[h] /\ slow'[h] = slow[h]
    BY <1>1, <1>5 DEF Publish, Offer, TypeOK, Lagging
  <2>2. Last(h) = published /\ pc[h] # "idle" /\ done[h] = 0
    BY <1>1, <1>5 DEF Attached, Idle
  <2>3. Pieces(h)' /\ Last(h)' = published'
    <3>1. /\ sent[h] \in Seq(Message) /\ holding[h] \in Seq(Message)
          /\ messages[h] \in Seq(Message)
      BY <1>1 DEF TypeOK
    <3>2. LET q == Append(messages[h], published + 1)
          IN  /\ Chain(joined[h], sent[h], holding[h], q)
              /\ Reach(joined[h], sent[h], holding[h], q) = published + 1
      BY <1>1, <1>2, <1>4, <2>2, <3>1, ChainAppend DEF Pieces, Last
    <3> QED
      BY <1>2, <1>3, <2>1, <3>2 DEF Pieces, Last
  <2>4. Idle(h)' /\ Holding(h)'
    BY <1>1, <1>3, <2>2 DEF Idle, Holding
  <2>5. Attached(h)' /\ Joined(h)'
    BY <1>1, <1>2, <1>3, <1>4, <1>5, <2>1, <2>3 DEF Attached, Joined
  <2>6. Ended(h)'
    BY <1>1, <1>2, <1>3, <1>4, <1>5, <2>1, <2>2 DEF Ended, Attached
  <2> QED
    BY <2>3, <2>4, <2>5, <2>6
<1>6. CASE h \in Lagging
  <2>1. /\ messages'[h] = messages[h]
        /\ done'[h] = done[h] + 1 /\ slow'[h] = TRUE /\ h \in subscribers
    BY <1>1, <1>6 DEF Publish, Offer, TypeOK, Lagging
  <2>2. Last(h)' = Last(h) /\ Pieces(h)'
    BY <1>1, <1>3, <2>1 DEF Last, Pieces
  <2>3. Last(h) = published /\ pc[h] # "idle" /\ done[h] = 0 /\ pc[h] # "returned"
    BY <1>1, <2>1 DEF Attached, Idle
  <2>4. Idle(h)' /\ Holding(h)'
    BY <1>1, <1>3, <2>3 DEF Idle, Holding
  <2>5. Joined(h)' /\ Attached(h)'
    BY <1>2, <1>4, <1>6, <2>2, <2>3 DEF Joined, Attached
  <2>6. Ended(h)'
    BY <1>1, <1>2, <1>3, <1>4, <2>1, <2>2, <2>3 DEF Ended
  <2> QED
    BY <2>2, <2>4, <2>5, <2>6
<1>7. CASE h \notin subscribers
  <2>1. messages'[h] = messages[h] /\ done'[h] = done[h] /\ slow'[h] = slow[h]
    BY <1>1, <1>7 DEF Publish, Offer, TypeOK, Lagging
  <2>2. Last(h)' = Last(h) /\ Pieces(h)'
    BY <1>1, <1>3, <2>1 DEF Last, Pieces
  <2>3. Idle(h)' /\ Holding(h)' /\ Attached(h)'
    BY <1>1, <1>2, <1>3, <1>7, <2>1 DEF Idle, Holding, Attached
  <2>4. Joined(h)' /\ Ended(h)'
    BY <1>1, <1>2, <1>3, <1>4, <2>1, <2>2 DEF Joined, Ended
  <2> QED
    BY <2>2, <2>3, <2>4
<1> QED
  BY <1>5, <1>6, <1>7

\* broker.close(): every attached subscription is done, once.
LEMMA CloseInv ==
  ASSUME IInv, Close, NEW h \in Handler
  PROVE  HandlerInv(h)'
<1> USE DEF HandlerInv
<1>1. TypeOK /\ HandlerInv(h)
  BY DEF IInv
<1>2. /\ UNCHANGED <<published, messages, slow, ctxDone, pc, holding, sent, joined, result>>
      /\ closed' /\ subscribers' = {}
      /\ done'[h] = IF h \in subscribers THEN done[h] + 1 ELSE done[h]
  BY <1>1 DEF Close, Shut, handlerVars
<1>3. Last(h)' = Last(h) /\ Pieces(h)'
  BY <1>1, <1>2 DEF Last, Pieces
<1>4. Idle(h)' /\ Joined(h)' /\ Holding(h)' /\ Attached(h)'
  BY <1>1, <1>2, <1>3 DEF Idle, Joined, Holding, Attached
<1>5. Ended(h)'
  BY <1>1, <1>2, <1>3 DEF Ended, Attached
<1> QED
  BY <1>3, <1>4, <1>5

\* subscribe() starts an empty run at the current publication.
LEMMA SubscribeInv ==
  ASSUME IInv, NEW h \in Handler, Subscribe(h)
  PROVE  HandlerInv(h)'
<1>1. TypeOK /\ HandlerInv(h)
  BY DEF IInv
<1>2. /\ pc[h] = "idle" /\ pc'[h] = "header" /\ joined'[h] = published
      /\ UNCHANGED <<published, closed, messages, slow, holding, sent, result>>
      /\ closed => done'[h] = done[h] + 1 /\ subscribers' = subscribers
      /\ ~closed => done' = done
  BY <1>1 DEF Subscribe, TypeOK
<1>3. /\ h \notin subscribers /\ done[h] = 0 /\ ~slow[h] /\ result[h] = "none"
      /\ sent[h] = <<>> /\ holding[h] = <<>> /\ messages[h] = <<>>
  BY <1>1, <1>2 DEF HandlerInv, Idle
<1>4. /\ Chain(published, <<>>, <<>>, <<>>)
      /\ Reach(published, <<>>, <<>>, <<>>) = published
  BY <1>1, EmptySeq DEF Chain, Reach, Numbered, TypeOK
<1>5. Pieces(h)' /\ Last(h)' = published
  BY <1>2, <1>3, <1>4 DEF Pieces, Last
<1>6. Idle(h)' /\ Joined(h)' /\ Holding(h)'
  BY <1>1, <1>2, <1>3, <1>5 DEF Idle, Joined, Holding, TypeOK
<1>7. Attached(h)' /\ Ended(h)'
  <2>1. CASE closed
    BY <1>2, <1>3, <1>5, <2>1 DEF Attached, Ended
  <2>2. CASE ~closed
    BY <1>2, <1>3, <1>5, <2>2 DEF Attached, Ended
  <2> QED
    BY <2>1, <2>2
<1> QED
  BY <1>5, <1>6, <1>7 DEF HandlerInv

\* The select loop takes a message: the run keeps its pieces together.
LEMMA ReceiveInv ==
  ASSUME IInv, NEW h \in Handler, Receive(h)
  PROVE  HandlerInv(h)'
<1>1. TypeOK /\ HandlerInv(h)
  BY DEF IInv
<1>2. /\ pc[h] = "loop" /\ pc'[h] = "send" /\ messages[h] # <<>>
      /\ holding'[h] = <<Head(messages[h])>> /\ messages'[h] = Tail(messages[h])
      /\ UNCHANGED <<published, closed, subscribers, done, slow, sent, joined, result>>
  BY <1>1 DEF Receive, TypeOK
<1>3. holding[h] = <<>>
  BY <1>1, <1>2 DEF HandlerInv, Holding
<1>4. Pieces(h)' /\ Last(h)' = Last(h)
  <2>1. joined[h] \in Nat /\ sent[h] \in Seq(Message) /\ messages[h] \in Seq(Message)
    BY <1>1, Numbers DEF TypeOK
  <2>2. Chain(joined[h], sent[h], <<>>, messages[h])
    BY <1>1, <1>3 DEF HandlerInv, Pieces
  <2>3. /\ Chain(joined[h], sent[h], <<Head(messages[h])>>, Tail(messages[h]))
        /\ Reach(joined[h], sent[h], <<Head(messages[h])>>, Tail(messages[h]))
             = Reach(joined[h], sent[h], <<>>, messages[h])
    BY <1>2, <2>1, <2>2, ChainReceive
  <2> QED
    BY <1>2, <1>3, <2>3 DEF Pieces, Last
<1>5. Idle(h)' /\ Joined(h)' /\ Holding(h)'
  BY <1>1, <1>2, <1>4 DEF HandlerInv, Idle, Joined, Holding
<1>6. Attached(h)' /\ Ended(h)'
  BY <1>1, <1>2, <1>4 DEF HandlerInv, Attached, Ended
<1> QED
  BY <1>4, <1>5, <1>6 DEF HandlerInv

\* stream.Send returns.
LEMMA SendInv ==
  ASSUME IInv, NEW h \in Handler, Send(h)
  PROVE  HandlerInv(h)'
<1>1. TypeOK /\ HandlerInv(h)
  BY DEF IInv
<1>2. /\ pc[h] = "send" /\ pc'[h] = "loop"
      /\ sent'[h] = sent[h] \o holding[h] /\ holding'[h] = <<>>
      /\ UNCHANGED <<published, closed, subscribers, messages, done, slow, joined, result>>
  BY <1>1 DEF Send, TypeOK, brokerVars
<1>3. Pieces(h)' /\ Last(h)' = Last(h)
  <2>1. /\ joined[h] \in Nat /\ sent[h] \in Seq(Message) /\ messages[h] \in Seq(Message)
        /\ holding[h] \in Seq(Message)
    BY <1>1, Numbers DEF TypeOK
  <2>2. Chain(joined[h], sent[h], holding[h], messages[h])
    BY <1>1 DEF HandlerInv, Pieces
  <2>3. /\ Chain(joined[h], sent[h] \o holding[h], <<>>, messages[h])
        /\ Reach(joined[h], sent[h] \o holding[h], <<>>, messages[h])
             = Reach(joined[h], sent[h], holding[h], messages[h])
    BY <2>1, <2>2, ChainSend
  <2> QED
    BY <1>2, <2>3 DEF Pieces, Last
<1>4. Idle(h)' /\ Joined(h)' /\ Holding(h)'
  BY <1>1, <1>2, <1>3 DEF HandlerInv, Idle, Joined, Holding
<1>5. Attached(h)' /\ Ended(h)'
  BY <1>1, <1>2, <1>3 DEF HandlerInv, Attached, Ended
<1> QED
  BY <1>3, <1>4, <1>5 DEF HandlerInv

\* The deferred close: the handler that leaves closes done unless the broker did.
LEMMA DeferredCloseInv ==
  ASSUME IInv, NEW h \in Handler, DeferredClose(h)
  PROVE  HandlerInv(h)'
<1>1. TypeOK /\ HandlerInv(h)
  BY DEF IInv
<1>2. /\ pc[h] = "deferred" /\ pc'[h] = "returned"
      /\ UNCHANGED <<published, closed, messages, slow, holding, sent, joined, result>>
      /\ h \notin subscribers'
      /\ h \in subscribers => done'[h] = done[h] + 1
      /\ h \notin subscribers => done'[h] = done[h]
  BY <1>1 DEF DeferredClose, TypeOK
<1>3. Pieces(h)' /\ Last(h)' = Last(h)
  BY <1>1, <1>2 DEF HandlerInv, Pieces, Last
<1>4. Idle(h)' /\ Joined(h)' /\ Holding(h)' /\ Attached(h)'
  BY <1>1, <1>2, <1>3 DEF HandlerInv, Idle, Joined, Holding, Attached
<1>5. Ended(h)'
  BY <1>1, <1>2, <1>3 DEF HandlerInv, Attached, Ended
<1> QED
  BY <1>3, <1>4, <1>5 DEF HandlerInv

\* The steps that only move the handler: the header, the failing transport and
\* the two ends the loop observes.
LEMMA MoveInv ==
  ASSUME IInv, NEW h \in Handler,
         SendHeader(h) \/ TransportFails(h) \/ ObserveDone(h) \/ ObserveCancel(h)
  PROVE  HandlerInv(h)'
<1>1. TypeOK /\ HandlerInv(h)
  BY DEF IInv
<1>2. UNCHANGED <<published, closed, subscribers, messages, done, slow, holding, sent, joined>>
  BY DEF SendHeader, TransportFails, ObserveDone, ObserveCancel, brokerVars
<1>3. Pieces(h)' /\ Last(h)' = Last(h)
  BY <1>1, <1>2 DEF HandlerInv, Pieces, Last
<1>4. /\ pc[h] \in {"header", "loop", "send"} /\ pc'[h] \in {"loop", "deferred"}
      /\ pc'[h] = "loop" => pc[h] = "header"
  BY <1>1 DEF SendHeader, TransportFails, ObserveDone, ObserveCancel, Return, TypeOK
<1>5. Idle(h)' /\ Joined(h)' /\ Holding(h)' /\ Attached(h)'
  BY <1>1, <1>2, <1>3, <1>4 DEF HandlerInv, Idle, Joined, Holding, Attached
<1>6. /\ result'[h] = "ResourceExhausted" => slow[h]
      /\ result'[h] = "ok" => closed
  BY <1>1 DEF SendHeader, TransportFails, ObserveDone, ObserveCancel, Return, TypeOK,
              HandlerInv, Ended
<1>7. Ended(h)'
  BY <1>1, <1>2, <1>3, <1>4, <1>6 DEF HandlerInv, Ended
<1> QED
  BY <1>3, <1>5, <1>7 DEF HandlerInv

\* A step of handler h leaves the part of every other handler g alone.
LEMMA OthersInv ==
  ASSUME IInv, NEW h \in Handler, NEW g \in Handler, g # h,
         Subscribe(h) \/ Handle(h) \/ SendReturns(h) \/ Cancel(h)
  PROVE  HandlerInv(g)'
<1>1. TypeOK /\ HandlerInv(g)
  BY DEF IInv
<1> USE DEF TypeOK
<1>2. UNCHANGED <<published, closed>>
  BY DEF Subscribe, Handle, SendReturns, Cancel, SendHeader, Receive, ObserveDone,
         ObserveCancel, DeferredClose, Send, TransportFails, brokerVars
<1>3. messages'[g] = messages[g] /\ slow'[g] = slow[g]
  BY <1>1 DEF Subscribe, Handle, SendReturns, Cancel, SendHeader, Receive, ObserveDone,
              ObserveCancel, DeferredClose, Send, TransportFails, brokerVars
<1>4. holding'[g] = holding[g] /\ sent'[g] = sent[g] /\ joined'[g] = joined[g]
  BY <1>1 DEF Subscribe, Handle, SendReturns, Cancel, SendHeader, Receive, ObserveDone,
              ObserveCancel, DeferredClose, Send, TransportFails, brokerVars
<1>5. pc'[g] = pc[g] /\ result'[g] = result[g]
  BY <1>1 DEF Subscribe, Handle, SendReturns, Cancel, SendHeader, Receive, ObserveDone,
              ObserveCancel, DeferredClose, Send, TransportFails, Return, brokerVars
<1>6. done'[g] = done[g] /\ (g \in subscribers' <=> g \in subscribers)
  BY <1>1 DEF Subscribe, Handle, SendReturns, Cancel, SendHeader, Receive, ObserveDone,
              ObserveCancel, DeferredClose, Send, TransportFails, brokerVars
<1> QED
  BY <1>1, <1>2, <1>3, <1>4, <1>5, <1>6, Frame

\* IInv is inductive.
LEMMA Inductive == IInv /\ [Next]_vars => IInv'
<1> SUFFICES ASSUME IInv, [Next]_vars PROVE IInv'
  OBVIOUS
<1>1. TypeOK'
  BY TypeStep DEF IInv
<1>2. ASSUME NEW g \in Handler PROVE HandlerInv(g)'
  <2>1. CASE Publish
    BY <2>1, PublishInv
  <2>2. CASE Close
    BY <2>2, CloseInv
  <2>3. ASSUME NEW h \in Handler,
               Subscribe(h) \/ Handle(h) \/ SendReturns(h) \/ Cancel(h)
        PROVE  HandlerInv(g)'
    <3>1. CASE g # h
      BY <2>3, <3>1, OthersInv
    <3>2. CASE g = h /\ (Subscribe(h) \/ Handle(h) \/ SendReturns(h))
      BY <3>2, SubscribeInv, ReceiveInv, SendInv, DeferredCloseInv, MoveInv
         DEF Handle, SendReturns
    <3>3. CASE g = h /\ Cancel(h)
      <4>1. UNCHANGED <<brokerVars, pc, holding, sent, joined, result>>
        BY <3>3 DEF Cancel
      <4> QED
        BY <4>1, Frame DEF brokerVars, IInv
    <3> QED
      BY <2>3, <3>1, <3>2, <3>3
  <2>4. CASE UNCHANGED vars
    BY <2>4, Frame DEF vars, brokerVars, handlerVars, IInv
  <2> QED
    BY <2>1, <2>2, <2>3, <2>4 DEF Next
<1> QED
  BY <1>1, <1>2 DEF IInv

\* Every state the broker reaches with its handlers satisfies IInv.
THEOREM Invariance == Spec => []IInv
BY InitInv, Inductive, PTL DEF Spec

-----------------------------------------------------------------------------
(* The properties of Broker.tla *)

\* Type correctness; a queue never outgrows its buffer.
THEOREM TypeCorrect == Spec => []TypeOK
<1>1. IInv => TypeOK
  BY DEF IInv
<1> QED
  BY <1>1, Invariance, PTL

\* What a subscription has carried is the run its invariant describes.
LEMMA CarriedIsRun ==
  ASSUME IInv, NEW h \in Handler
  PROVE  Numbered(Carried(h), joined[h]) /\ joined[h] + Len(Carried(h)) = Last(h)
<1>1. /\ sent[h] \in Seq(Message) /\ holding[h] \in Seq(Message)
      /\ messages[h] \in Seq(Message) /\ joined[h] \in Nat
  BY Numbers DEF IInv, TypeOK
<1>2. Chain(joined[h], sent[h], holding[h], messages[h])
  BY DEF IInv, HandlerInv, Pieces
<1> QED
  BY <1>1, <1>2, ChainWhole DEF Carried, Last

\* IInv gives the run of every stream.
LEMMA RunInv == IInv => ContiguousRun
BY CarriedIsRun DEF ContiguousRun, Numbered

\* No stream skips, repeats or reorders a message (publish and the select loop).
THEOREM NoGap == Spec => []ContiguousRun
BY RunInv, Invariance, PTL

\* Under IInv a run in the map reaches the last publication.
LEMMA CurrentInv == IInv => AttachedIsCurrent
<1> SUFFICES ASSUME IInv PROVE AttachedIsCurrent
  OBVIOUS
<1>1. \A h \in subscribers : h \in Handler /\ Last(h) = published
  BY DEF IInv, TypeOK, HandlerInv, Attached
<1> QED
  BY <1>1, CarriedIsRun DEF AttachedIsCurrent

\* A subscription still in the map has missed nothing (publish).
THEOREM Current == Spec => []AttachedIsCurrent
BY CurrentInv, Invariance, PTL

\* IInv counts at most one close of a done channel.
LEMMA OnceInv == IInv => DoneClosedOnce
BY DEF IInv, HandlerInv, Ended, DoneClosedOnce

\* The done channel is never closed twice, which would panic (publish,
\* broker.close and subscription.close).
THEOREM NoDoubleClose == Spec => []DoneClosedOnce
BY OnceInv, Invariance, PTL

\* Under IInv a status tells what the run of the stream missed.
LEMMA HonestInv == IInv => HonestStatus
<1> SUFFICES ASSUME IInv PROVE HonestStatus
  OBVIOUS
<1>1. \A h \in Handler : /\ result[h] = "ResourceExhausted" => Last(h) < published
                         /\ result[h] = "ok" => closed
  BY DEF IInv, HandlerInv, Ended
<1> QED
  BY <1>1, CarriedIsRun DEF HonestStatus

\* The status FetchResponseData returns is honest.
THEOREM Honest == Spec => []HonestStatus
BY HonestInv, Invariance, PTL

\* A step never feeds or attaches a subscription that is done.
LEMMA FinalStep ==
  ASSUME IInv, [Next]_vars
  PROVE  \A h \in Handler :
           done[h] > 0 => /\ h \notin subscribers'
                          /\ Len(messages'[h]) <= Len(messages[h])
<1> SUFFICES ASSUME NEW h \in Handler, done[h] > 0
             PROVE  h \notin subscribers' /\ Len(messages'[h]) <= Len(messages[h])
  OBVIOUS
<1>1. h \notin subscribers /\ pc[h] # "idle" /\ TypeOK /\ Len(messages[h]) \in Nat
  BY LenProperties DEF IInv, HandlerInv, Attached, Idle, TypeOK
<1>2. CASE Publish
  BY <1>1, <1>2 DEF Publish, Offer, Lagging, TypeOK
<1>3. CASE Close
  BY <1>1, <1>3 DEF Close, Shut
<1>4. ASSUME NEW g \in Handler, Receive(g)
      PROVE  h \notin subscribers' /\ Len(messages'[h]) <= Len(messages[h])
  <2>1. Len(Tail(messages[g])) = Len(messages[g]) - 1
    BY <1>1, <1>4, HeadTailProperties DEF Receive, TypeOK
  <2> QED
    BY <1>1, <1>4, <2>1 DEF Receive, TypeOK
<1>5. ASSUME NEW g \in Handler,
             Subscribe(g) \/ SendHeader(g) \/ ObserveDone(g) \/ ObserveCancel(g)
             \/ DeferredClose(g) \/ SendReturns(g) \/ Cancel(g)
      PROVE  h \notin subscribers' /\ Len(messages'[h]) <= Len(messages[h])
  <2>1. messages' = messages /\ h \notin subscribers'
    BY <1>1, <1>5 DEF Subscribe, SendHeader, ObserveDone, ObserveCancel, DeferredClose,
                      SendReturns, Send, TransportFails, Cancel, brokerVars
  <2> QED
    BY <1>1, <2>1
<1>6. CASE UNCHANGED vars
  BY <1>1, <1>6 DEF vars, brokerVars
<1> QED
  BY <1>2, <1>3, <1>4, <1>5, <1>6 DEF Next, Handle

\* A detached subscription is never fed again (publish ranges over the map).
THEOREM Final == Spec => DetachedIsFinal
BY FinalStep, Invariance, PTL DEF Spec, DetachedIsFinal

-----------------------------------------------------------------------------
(* The broker and its handlers implement FanOut *)

\* What stream.Send hands over is the message right after the last one.
LEMMA SendHands ==
  ASSUME IInv, NEW h \in Handler, Send(h)
  PROVE  Promise!Hand(h)
<1>1. TypeOK /\ HandlerInv(h)
  BY DEF IInv
<1> DEFINE k == holding[h][1]
<1>2. /\ joined[h] \in Nat /\ published \in 0..MaxPublished
      /\ sent[h] \in Seq(Message) /\ holding[h] \in Seq(Message)
      /\ messages[h] \in Seq(Message)
  BY <1>1, Numbers DEF TypeOK
<1>3. Len(holding[h]) = 1
  BY <1>1 DEF Send, HandlerInv, Holding
<1>4. k \in Message /\ holding[h] = <<k>>
  BY <1>2, <1>3, ElementOfSeq, SeqEqual
<1>5. k = joined[h] + Len(sent[h]) + 1
  BY <1>1, <1>3 DEF HandlerInv, Pieces, Chain, Numbered
<1>6. sent[h] \o holding[h] = Append(sent[h], joined[h] + Len(sent[h]) + 1)
  BY <1>2, <1>4, <1>5, AppendIsConcat
<1>7. sent' = [sent EXCEPT ![h] = Append(sent[h], joined[h] + Len(sent[h]) + 1)]
  BY <1>6 DEF Send
<1>8. pc[h] # "idle" /\ Last(h) <= published
  BY <1>1 DEF Send, HandlerInv, Joined
<1>9. joined[h] + Len(sent[h]) < published
  <2>1. \A j, a, c \in Nat : j + a + 1 + c <= published => j + a < published
    BY <1>2
  <2>2. Len(sent[h]) \in Nat /\ Len(messages[h]) \in Nat
    BY <1>2, LenProperties
  <2>3. joined[h] + Len(sent[h]) + 1 + Len(messages[h]) <= published
    BY <1>3, <1>8 DEF Last, Reach
  <2> QED
    BY <1>2, <2>1, <2>2, <2>3
<1>10. joined[h] # Promise!None
  <2>1. \A j, a \in Nat : j + a < published => j < MaxPublished + 1
    BY <1>2, MaxPublishedAssumption
  <2>2. Len(sent[h]) \in Nat
    BY <1>2, LenProperties
  <2> QED
    BY <1>2, <1>9, <2>1, <2>2, MaxPublishedAssumption DEF Promise!None
<1>11. UNCHANGED <<published, joined>>
  BY DEF Send, brokerVars
<1> QED
  BY <1>7, <1>9, <1>10, <1>11 DEF Promise!Hand

\* Every step of the broker is a step of FanOut or leaves its variables alone.
LEMMA FanOutStep ==
  ASSUME IInv, [Next]_vars
  PROVE  [Promise!Next]_(Promise!fvars)
<1> USE DEF Promise!Next, Promise!fvars
<1>1. CASE Publish
  BY <1>1 DEF Publish, Offer, handlerVars, Promise!Publish
<1>2. CASE Close
  BY <1>2 DEF Close, Shut, handlerVars
<1>3. ASSUME NEW h \in Handler, Subscribe(h) PROVE Promise!Join(h)
  <2>1. joined[h] = NotJoined
    BY <1>3 DEF IInv, HandlerInv, Idle, Subscribe
  <2> QED
    BY <1>3, <2>1 DEF Subscribe, Promise!Join, Promise!None, NotJoined
<1>4. ASSUME NEW h \in Handler, Send(h) PROVE Promise!Hand(h)
  BY <1>4, SendHands
<1>5. ASSUME NEW h \in Handler, Handle(h) \/ TransportFails(h) \/ Cancel(h)
      PROVE  UNCHANGED Promise!fvars
  BY <1>5 DEF Handle, SendHeader, Receive, ObserveDone, ObserveCancel, DeferredClose,
              TransportFails, Cancel, brokerVars
<1>6. CASE UNCHANGED vars
  BY <1>6 DEF vars, brokerVars, handlerVars
<1> QED
  BY <1>1, <1>2, <1>3, <1>4, <1>5, <1>6 DEF Next, SendReturns

\* The broker with its handlers implements FanOut (publish, subscribe and the
\* loop of FetchResponseData).
THEOREM Implements == Spec => ImplementsFanOut
<1>1. Init => Promise!Init
  BY DEF Init, Promise!Init, Promise!None, NotJoined
<1> QED
  BY <1>1, FanOutStep, Invariance, PTL DEF Spec, ImplementsFanOut, Promise!Spec

-----------------------------------------------------------------------------
(* Inside the server *)

\* From the moment Serve leaves its select the broker is closed, and the
\* connector is closed later still.
ShutdownOrder ==
  /\ serve \in {"stopping", "draining", "waiting", "closing"} => closed
  /\ native = "closed" => closed

ServerInv == IInv /\ ShutdownOrder

\* server.Stop cancels the streams and touches nothing else of the broker.
Cut == UNCHANGED <<brokerVars, pc, holding, sent, joined, result>>
       /\ ctxDone' \in [Handler -> BOOLEAN]

\* Whatever the server does, the broker and its handlers take a step of theirs
\* or the connections are cut.
LEMMA ServerSteps ==
  ASSUME IInv, [ServerNext]_allVars
  PROVE  [Next]_vars \/ Cut
<1>1. CASE LeaveSelect
  BY <1>1 DEF LeaveSelect, Next
<1>2. CASE ForceStop
  <2>1. \A h \in Handler : ctxDone[h] \in BOOLEAN
    BY DEF IInv, TypeOK
  <2>2. \A h \in Handler : (ctxDone[h] \/ Live(h)) \in BOOLEAN
    BY <2>1 DEF Live
  <2>3. ctxDone' \in [Handler -> BOOLEAN]
    BY <1>2, <2>2 DEF ForceStop, StopWhen
  <2> QED
    BY <1>2, <2>3 DEF ForceStop, StopWhen, Cut
<1>3. CASE Callback
  BY <1>3 DEF Callback, Next
<1>4. ASSUME NEW h \in Handler, Accept(h) \/ HandlerStep(h) \/ SendStep(h) \/ ClientGone(h)
      PROVE  [Next]_vars
  BY <1>4 DEF Accept, HandlerStep, SendStep, ClientGone, Next
<1>5. CASE StartConnector \/ BeginGracefulStop \/ GracefulStopReturns \/ DrainEnds
           \/ AwaitServe \/ CloseConnector \/ ListenerFails \/ Interrupt
  BY <1>5 DEF StartConnector, BeginGracefulStop, GracefulStopReturns, DrainEnds, AwaitServe,
              CloseConnector, CloseFrom, ListenerFails, Interrupt
<1>6. CASE UNCHANGED allVars
  BY <1>6 DEF allVars
<1> QED
  BY <1>1, <1>2, <1>3, <1>4, <1>5, <1>6 DEF ServerNext, Serve

\* Cutting the connections disturbs nothing IInv speaks of.
LEMMA CutInv == IInv /\ Cut => IInv'
<1> SUFFICES ASSUME IInv, Cut PROVE IInv'
  OBVIOUS
<1>1. TypeOK'
  BY DEF IInv, TypeOK, Cut, brokerVars
<1>2. ASSUME NEW h \in Handler PROVE HandlerInv(h)'
  BY Frame DEF IInv, Cut, brokerVars
<1> QED
  BY <1>1, <1>2 DEF IInv

\* A closed broker stays closed.
LEMMA StaysClosed ==
  ASSUME closed, [Next]_vars \/ Cut
  PROVE  closed'
BY DEF Next, Publish, Offer, Close, Shut, Subscribe, Handle, SendReturns, SendHeader, Receive,
       ObserveDone, ObserveCancel, DeferredClose, Send, TransportFails, Cancel, vars,
       brokerVars, Cut

\* Serve closes the broker before it goes on to the connector.
LEMMA OrderStep ==
  ASSUME ServerInv, [ServerNext]_allVars
  PROVE  ShutdownOrder'
<1>1. closed => closed'
  BY ServerSteps, StaysClosed DEF ServerInv
<1> USE DEF ServerInv, ShutdownOrder
<1>2. CASE Serve
  <2>1. CASE LeaveSelect
    BY <2>1 DEF LeaveSelect, Close, Shut
  <2>2. CASE StartConnector \/ BeginGracefulStop \/ GracefulStopReturns
    BY <1>1, <2>2 DEF StartConnector, BeginGracefulStop, GracefulStopReturns
  <2>3. CASE DrainEnds \/ ForceStop \/ AwaitServe
    BY <1>1, <2>3 DEF DrainEnds, ForceStop, StopWhen, AwaitServe
  <2>4. CASE CloseConnector
    BY <1>1, <2>4 DEF CloseConnector, CloseFrom
  <2> QED
    BY <1>2, <2>1, <2>2, <2>3, <2>4 DEF Serve
<1>3. CASE ListenerFails \/ Interrupt
  BY <1>1, <1>3 DEF ListenerFails, Interrupt
<1>4. CASE Callback \/ \E h \in Handler :
                         Accept(h) \/ HandlerStep(h) \/ SendStep(h) \/ ClientGone(h)
  BY <1>1, <1>4 DEF Callback, Accept, HandlerStep, SendStep, ClientGone, serverVars
<1>5. CASE UNCHANGED allVars
  BY <1>1, <1>5 DEF allVars, serverVars
<1> QED
  BY <1>2, <1>3, <1>4, <1>5 DEF ServerNext

\* Every state of the server satisfies ServerInv.
THEOREM ServerInvariance == ServerSpec => []ServerInv
<1>1. ServerInit => ServerInv
  BY InitInv DEF ServerInit, ServerInv, ShutdownOrder
<1>2. ServerInv /\ [ServerNext]_allVars => ServerInv'
  BY ServerSteps, Inductive, CutInv, OrderStep DEF ServerInv
<1> QED
  BY <1>1, <1>2, PTL DEF ServerSpec

\* The connector is closed only after the broker, and by then no stream is
\* attached (the order of Serve's shutdown and its defer).
THEOREM ClosedAfterBroker == ServerSpec => []ClosedConnectorClosedBroker
<1>1. ASSUME ServerInv PROVE ClosedConnectorClosedBroker
  <2>1. closed => subscribers = {}
    BY <1>1 DEF ServerInv, IInv, HandlerInv, Attached, TypeOK
  <2> QED
    BY <1>1, <2>1 DEF ServerInv, ShutdownOrder, ClosedConnectorClosedBroker
<1> QED
  BY <1>1, ServerInvariance, PTL

\* The properties of the streams hold through Serve's whole life, its forced
\* stop included (publish, FetchResponseData and Serve together).
THEOREM ServerStreams ==
  ServerSpec => [](/\ TypeOK /\ ContiguousRun /\ AttachedIsCurrent
                   /\ DoneClosedOnce /\ HonestStatus)
<1>1. ASSUME IInv
      PROVE  TypeOK /\ ContiguousRun /\ AttachedIsCurrent /\ DoneClosedOnce /\ HonestStatus
  BY <1>1, RunInv, CurrentInv, OnceInv, HonestInv DEF IInv
<1>2. ServerInv => IInv
  BY DEF ServerInv
<1> QED
  BY <1>1, <1>2, ServerInvariance, PTL

\* Inside the server, too, a detached subscription is never fed or attached
\* again.
THEOREM ServerFinal == ServerSpec => DetachedIsFinal
<1>1. ASSUME IInv, Cut
      PROVE  \A h \in Handler :
               done[h] > 0 => /\ h \notin subscribers'
                              /\ Len(messages'[h]) <= Len(messages[h])
  <2> SUFFICES ASSUME NEW h \in Handler, done[h] > 0
               PROVE  h \notin subscribers' /\ Len(messages'[h]) <= Len(messages[h])
    OBVIOUS
  <2>1. h \notin subscribers /\ Len(messages[h]) \in Nat
    BY <1>1, LenProperties DEF IInv, HandlerInv, Attached, TypeOK
  <2> QED
    BY <1>1, <2>1 DEF Cut, brokerVars
<1>2. ServerInv /\ [ServerNext]_allVars =>
        \A h \in Handler :
          done[h] > 0 => /\ h \notin subscribers'
                         /\ Len(messages'[h]) <= Len(messages[h])
  BY <1>1, ServerSteps, FinalStep DEF ServerInv
<1> QED
  BY <1>2, ServerInvariance, PTL DEF ServerSpec, DetachedIsFinal

\* The server, its shutdown included, implements FanOut for its streams.
THEOREM ServerImplements == ServerSpec => ImplementsFanOut
<1>1. ServerInit => Promise!Init
  BY DEF ServerInit, Init, Promise!Init, Promise!None, NotJoined
<1>2. Cut => UNCHANGED Promise!fvars
  BY DEF Cut, brokerVars, Promise!fvars
<1>3. ServerInv /\ [ServerNext]_allVars => [Promise!Next]_(Promise!fvars)
  BY <1>2, ServerSteps, FanOutStep DEF ServerInv
<1> QED
  BY <1>1, <1>3, ServerInvariance, PTL DEF ServerSpec, ImplementsFanOut, Promise!Spec
=============================================================================
