---------------------------- MODULE Client_proofs ----------------------------
(***************************************************************************)
(* The safety properties of the two connectors: the gRPC client            *)
(* (TCClient.tla for any set of channels, any capacity and any number of   *)
(* messages, and Reconnect.tla) and the native connector                   *)
(* (NativeConnector.tla for any number of connects and recoveries, any     *)
(* size of the callback channel and any set of history goroutines).        *)
(*                                                                         *)
(* A channel is in order because the queue is the last part of what the    *)
(* stream brought and the message on its way is older than the queue and   *)
(* younger than its channel.  Nothing is lost because every older message  *)
(* of a live session is on its channel or on its way.                      *)
(*                                                                         *)
(* That a session has one run needs to know which run the state stands     *)
(* for; that it has one end needs the place of its worker, of the client   *)
(* pointer and of a disconnect under way, because each of the three may be *)
(* the one that ends it.                                                   *)
(***************************************************************************)
EXTENDS TCClient, Reconnect, NativeConnector, SequenceTheorems, TLAPS

-----------------------------------------------------------------------------
(* The gRPC client *)

\* The messages the dispatcher has taken from the queue.
Taken == Len(received) - Len(queue)

\* The messages are numbered; the queue holds the last of them.
Stream ==
  /\ \A i \in 1..Len(received) : received[i].id = i
  /\ \A k \in 1..Len(queue) : queue[k] = received[Taken + k]
  /\ loop = "push" => Len(received) < MaxMessages

\* The message on its way is one of those taken, for some channel.
OnItsWay ==
  /\ Len(dispatching) <= 1
  /\ \A k \in 1..Len(dispatching) :
       /\ dispatching[k].to # "nowhere"
       /\ dispatching[k].id <= Taken
       /\ dispatching[k] = received[dispatching[k].id]

\* What a channel has carried: some of the messages taken, older than the one on
\* its way, in order.
Carried(c) ==
  /\ \A k \in 1..Len(Out(c)) :
       /\ Out(c)[k].to = c
       /\ Out(c)[k].id <= Taken
       /\ Out(c)[k] = received[Out(c)[k].id]
       /\ \A j \in 1..Len(dispatching) : Out(c)[k].id < dispatching[j].id
  /\ \A i, j \in 1..Len(Out(c)) : i < j => Out(c)[i].id < Out(c)[j].id

\* A live session has taken no message in vain.
Kept ==
  ~shutdown /\ ~ctxCancelled =>
    \A i \in 1..Taken, c \in Chan :
      received[i].to = c /\ c # "nowhere" =>
        Holds(Out(c), received[i]) \/ Holds(dispatching, received[i])

ClientRelations == Stream /\ OnItsWay /\ (\A c \in Chan : Carried(c)) /\ Kept

ClientInv == ClientTypeOK /\ ClientRelations


-----------------------------------------------------------------------------
(* Sequences *)

\* What Append does, as the steps below use it.
LEMMA AppendFacts ==
  ASSUME NEW S, NEW s \in Seq(S), NEW e \in S
  PROVE  /\ Append(s, e) \in Seq(S)
         /\ Len(Append(s, e)) = Len(s) + 1
         /\ \A i \in 1..Len(s) : Append(s, e)[i] = s[i]
         /\ Append(s, e)[Len(s) + 1] = e
         /\ Holds(Append(s, e), e)
         /\ \A m : Holds(s, m) => Holds(Append(s, e), m)
<1>1. /\ Append(s, e) \in Seq(S)
      /\ Len(Append(s, e)) = Len(s) + 1
      /\ \A i \in 1..Len(s) : Append(s, e)[i] = s[i]
      /\ Append(s, e)[Len(s) + 1] = e
  BY AppendProperties
<1>2. Len(s) \in Nat
  BY LenProperties
<1>3. Len(s) + 1 \in 1..Len(Append(s, e)) /\ 1..Len(s) \subseteq 1..Len(Append(s, e))
  BY <1>1, <1>2
<1>4. Holds(Append(s, e), e)
  BY <1>1, <1>3 DEF Holds
<1>5. \A m : Holds(s, m) => Holds(Append(s, e), m)
  BY <1>1, <1>3 DEF Holds
<1> QED
  BY <1>1, <1>4, <1>5

\* What Tail and Head do.
LEMMA TailFacts ==
  ASSUME NEW S, NEW s \in Seq(S), s # <<>>
  PROVE  /\ Head(s) \in S /\ Head(s) = s[1]
         /\ Tail(s) \in Seq(S)
         /\ Len(s) \in Nat \ {0}
         /\ Len(Tail(s)) = Len(s) - 1
         /\ \A i \in 1..Len(Tail(s)) : Tail(s)[i] = s[i + 1]
BY HeadTailProperties, EmptySeq, LenProperties

\* A message sent on a channel comes after what it has carried.
LEMMA ConcatAppend ==
  ASSUME NEW S, NEW d \in Seq(S), NEW s \in Seq(S), NEW e \in S
  PROVE  d \o Append(s, e) = Append(d \o s, e)
<1>1. Append(s, e) = s \o <<e>> /\ Append(d \o s, e) = (d \o s) \o <<e>>
  BY AppendIsConcat, ConcatProperties
<1>2. <<e>> \in Seq(S)
  OBVIOUS
<1> QED
  BY <1>1, <1>2, ConcatAssociative

\* A message that is read moves from one part of the channel's run to the other.
LEMMA ConcatMove ==
  ASSUME NEW S, NEW d \in Seq(S), NEW s \in Seq(S), s # <<>>
  PROVE  Append(d, Head(s)) \o Tail(s) = d \o s
<1>1. Head(s) \in S /\ Tail(s) \in Seq(S)
  BY HeadTailProperties
<1>2. <<Head(s)>> \in Seq(S)
  BY <1>1
<1>3. Append(d, Head(s)) = d \o <<Head(s)>>
  BY <1>1, AppendIsConcat
<1>4. (d \o <<Head(s)>>) \o Tail(s) = d \o (<<Head(s)>> \o Tail(s))
  BY <1>1, <1>2, ConcatAssociative
<1>5. <<Head(s)>> \o Tail(s) = s
  BY HeadTailProperties
<1> QED
  BY <1>3, <1>4, <1>5


\* What one of three parts holds, the whole holds.
LEMMA HoldsConcat ==
  ASSUME NEW S, NEW s \in Seq(S), NEW t \in Seq(S), NEW u \in Seq(S), NEW m,
         Holds(s, m) \/ Holds(t, m) \/ Holds(u, m)
  PROVE  Holds(s \o t \o u, m)
<1>1. ASSUME NEW x \in Seq(S), NEW y \in Seq(S), Holds(x, m) \/ Holds(y, m)
      PROVE  Holds(x \o y, m)
  <2>1. /\ Len(x) \in Nat /\ Len(y) \in Nat /\ Len(x \o y) = Len(x) + Len(y)
        /\ \A i \in 1..Len(x) + Len(y) :
             (x \o y)[i] = IF i <= Len(x) THEN x[i] ELSE y[i - Len(x)]
    BY ConcatProperties, LenProperties
  <2>2. CASE Holds(x, m)
    <3>1. PICK k \in 1..Len(x) : x[k] = m
      BY <2>2 DEF Holds
    <3>2. k \in 1..Len(x) + Len(y) /\ k <= Len(x)
      BY <2>1
    <3> QED
      BY <3>1, <3>2, <2>1 DEF Holds
  <2>3. CASE Holds(y, m)
    <3>1. PICK k \in 1..Len(y) : y[k] = m
      BY <2>3 DEF Holds
    <3>2. Len(x) + k \in 1..Len(x) + Len(y) /\ ~(Len(x) + k <= Len(x)) /\ Len(x) + k - Len(x) = k
      BY <2>1
    <3>3. (x \o y)[Len(x) + k] = m
      BY <3>1, <3>2, <2>1
    <3> QED
      BY <3>2, <3>3, <2>1 DEF Holds
  <2> QED
    BY <2>2, <2>3, <1>1
<1>2. s \o t \in Seq(S)
  BY ConcatProperties
<1> QED
  BY <1>1, <1>2

-----------------------------------------------------------------------------
(* The client: types *)

\* The lengths of its sequences are naturals.
LEMMA Lengths ==
  ASSUME ClientTypeOK
  PROVE  /\ Len(received) \in Nat /\ Len(queue) \in Nat /\ Len(dispatching) \in Nat
         /\ Taken \in Nat /\ Taken <= Len(received)
         /\ \A c \in Chan : Len(channel[c]) \in Nat
<1>1. Len(received) \in Nat /\ Len(queue) \in Nat /\ Len(dispatching) \in Nat
  BY LenProperties DEF ClientTypeOK
<1>2. \A c \in Chan : Len(channel[c]) \in Nat
  BY LenProperties DEF ClientTypeOK
<1> QED
  BY <1>1, <1>2 DEF ClientTypeOK, Taken

\* Messages are numbered from one.
LEMMA MessageId ==
  ASSUME NEW message \in StreamMessage
  PROVE  message.id \in Nat \ {0}
<1>1. message.id \in 1..MaxMessages
  BY DEF StreamMessage
<1> QED
  BY <1>1, StreamMessagesAssumption

\* The message that is pushed: the next number, for some channel or for none.
LEMMA PushedMessage ==
  ASSUME ClientTypeOK, Stream, Push
  PROVE  \E message \in StreamMessage :
           /\ message.id = Len(received) + 1
           /\ queue' = Append(queue, message) /\ received' = Append(received, message)
<1>1. Len(received) + 1 \in 1..MaxMessages
  <2>1. Len(received) \in Nat /\ Len(received) < MaxMessages
    BY Lengths DEF Push, Stream
  <2> QED
    BY <2>1, StreamMessagesAssumption
<1>2. PICK to \in Chan \cup {"nowhere"} :
        /\ queue' = Append(queue, [id |-> Len(received) + 1, to |-> to])
        /\ received' = Append(received, [id |-> Len(received) + 1, to |-> to])
  BY DEF Push
<1>3. [id |-> Len(received) + 1, to |-> to] \in StreamMessage
  BY <1>1 DEF StreamMessage
<1> QED
  BY <1>2, <1>3

\* The message the dispatcher sends has a channel.
LEMMA SentMessage ==
  ASSUME ClientTypeOK, OnItsWay, dispatcher = "send"
  PROVE  /\ Len(dispatching) = 1 /\ dispatching[1] \in StreamMessage
         /\ dispatching[1].to \in Chan
<1>1. dispatching \in Seq(StreamMessage) /\ Len(dispatching) = 1
  BY DEF ClientTypeOK
<1>2. 1 \in 1..Len(dispatching)
  BY <1>1
<1>3. dispatching[1] \in StreamMessage
  BY <1>1, <1>2, ElementOfSeq
<1> QED
  BY <1>1, <1>2, <1>3 DEF OnItsWay, StreamMessage

\* Every step of the client keeps its types.
LEMMA ClientTypeStep == ClientInv /\ [ClientNext]_clientVars => ClientTypeOK'
<1> SUFFICES ASSUME ClientTypeOK, Stream, OnItsWay, [ClientNext]_clientVars
             PROVE  ClientTypeOK'
  BY DEF ClientInv, ClientRelations
<1> USE Lengths DEF queueVars, endVars, historyVars
<1>1. ASSUME Recv \/ SignalPush \/ StreamEnds \/ CloseQueue \/ Release \/ Join \/ EndSession
      PROVE  ClientTypeOK'
  BY <1>1 DEF Recv, SignalPush, StreamEnds, CloseQueue, Release, Join, EndSession, ClientTypeOK
<1>2. CASE Push
  <2>1. PICK message \in StreamMessage :
          queue' = Append(queue, message) /\ received' = Append(received, message)
    BY <1>2, PushedMessage
  <2>2. queue' \in Seq(StreamMessage) /\ Len(queue') = Len(queue) + 1
    BY <2>1, AppendFacts DEF ClientTypeOK
  <2>3. received' \in Seq(StreamMessage) /\ Len(received') = Len(received) + 1
    BY <2>1, AppendFacts DEF ClientTypeOK
  <2>4. Len(received) < MaxMessages /\ loop' = "signal"
    BY <1>2 DEF Push, Stream
  <2>5. Len(queue') <= Len(received') /\ Len(received') <= MaxMessages
    BY <2>2, <2>3, <2>4, StreamMessagesAssumption DEF ClientTypeOK
  <2>6. UNCHANGED <<queueClosed, token, dispatcher, dispatching, channel, endVars, delivered>>
    BY <1>2 DEF Push
  <2> QED
    BY <2>2, <2>3, <2>4, <2>5, <2>6 DEF ClientTypeOK
<1>3. CASE Pop
  <2>1. /\ Head(queue) \in StreamMessage /\ Tail(queue) \in Seq(StreamMessage)
        /\ Len(Tail(queue)) = Len(queue) - 1
    BY <1>3, TailFacts DEF Pop, ClientTypeOK
  <2>2. <<Head(queue)>> \in Seq(StreamMessage) /\ Len(<<Head(queue)>>) = 1
    BY <2>1
  <2>0. queue' = Tail(queue) /\ received' = received
    BY <1>3 DEF Pop
  <2>3. queue' \in Seq(StreamMessage) /\ Len(queue') <= Len(received')
    BY <2>0, <2>1 DEF ClientTypeOK
  <2>4. /\ dispatcher' \in {"look", "wait", "send", "done"}
        /\ dispatching' \in Seq(StreamMessage) /\ (Len(dispatching') = 1 <=> dispatcher' = "send")
    <3>1. CASE Head(queue).to = "nowhere"
      BY <1>3, <3>1 DEF Pop, ClientTypeOK
    <3>2. CASE Head(queue).to # "nowhere"
      BY <1>3, <2>2, <3>2 DEF Pop, ClientTypeOK
    <3> QED
      BY <3>1, <3>2
  <2> QED
    BY <1>3, <2>3, <2>4 DEF Pop, ClientTypeOK
<1>4. ASSUME PopEmpty \/ Woken \/ PopCancelled \/ AppCloses
      PROVE  ClientTypeOK'
  BY <1>4 DEF PopEmpty, Woken, PopCancelled, AppCloses, ClientTypeOK
<1>5. CASE SendTyped
  <2>1. dispatching[1] \in StreamMessage /\ dispatching[1].to \in Chan
    BY <1>5, SentMessage DEF SendTyped
  <2> DEFINE c == dispatching[1].to
             longer == Append(channel[c], dispatching[1])
  <2>2. longer \in Seq(StreamMessage) /\ Len(longer) = Len(channel[c]) + 1
    BY <2>1, AppendFacts DEF ClientTypeOK
  <2>3. Len(longer) <= ChannelBuffer
    BY <1>5, <2>1, <2>2, ChannelBufferAssumption DEF SendTyped, Room
  <2>4. channel' = [channel EXCEPT ![c] = longer]
    BY <1>5 DEF SendTyped
  <2> HIDE DEF c, longer
  <2>5. channel' \in [Chan -> Seq(StreamMessage)] /\ \A d \in Chan : Len(channel'[d]) <= ChannelBuffer
    BY <2>1, <2>2, <2>3, <2>4 DEF ClientTypeOK, c
  <2>6. dispatching' \in Seq(StreamMessage) /\ Len(dispatching') = 0
    BY <1>5 DEF SendTyped
  <2> QED
    BY <1>5, <2>5, <2>6 DEF SendTyped, ClientTypeOK
<1>6. CASE GiveUp
  <2>1. dispatching' \in Seq(StreamMessage) /\ Len(dispatching') = 0
    BY <1>6 DEF GiveUp, GiveUpWhen
  <2> QED
    BY <1>6, <2>1 DEF GiveUp, GiveUpWhen, ClientTypeOK
<1>7. ASSUME NEW c \in Chan, AppReads(c)
      PROVE  ClientTypeOK'
  <2>1. /\ Head(channel[c]) \in StreamMessage /\ Tail(channel[c]) \in Seq(StreamMessage)
        /\ Len(Tail(channel[c])) = Len(channel[c]) - 1
    BY <1>7, TailFacts DEF AppReads, ClientTypeOK
  <2>2. Append(delivered[c], Head(channel[c])) \in Seq(StreamMessage)
    BY <2>1, AppendFacts DEF ClientTypeOK
  <2>3. channel' \in [Chan -> Seq(StreamMessage)] /\ \A d \in Chan : Len(channel'[d]) <= ChannelBuffer
    BY <1>7, <2>1, ChannelBufferAssumption DEF AppReads, ClientTypeOK
  <2>4. delivered' \in [Chan -> Seq(StreamMessage)]
    BY <1>7, <2>2 DEF AppReads, ClientTypeOK
  <2> QED
    BY <1>7, <2>3, <2>4 DEF AppReads, ClientTypeOK
<1>8. CASE UNCHANGED clientVars
  BY <1>8 DEF clientVars, ClientTypeOK
<1> QED
  BY <1>1, <1>2, <1>3, <1>4, <1>5, <1>6, <1>7, <1>8 DEF ClientNext, LoopStep, Dispatch


-----------------------------------------------------------------------------
(* The client: relations *)

\* At the start there is no message anywhere.
LEMMA ClientInitInv == ClientInit => ClientInv
<1> SUFFICES ASSUME ClientInit
             PROVE  ClientInv
  OBVIOUS
<1>1. <<>> \in Seq(StreamMessage) /\ Len(<<>>) = 0
  OBVIOUS
<1>2. ClientTypeOK
  <2>1. /\ channel \in [Chan -> Seq(StreamMessage)] /\ delivered \in [Chan -> Seq(StreamMessage)]
        /\ \A c \in Chan : Len(channel[c]) = 0
    BY <1>1 DEF ClientInit
  <2>2. queue \in Seq(StreamMessage) /\ received \in Seq(StreamMessage)
        /\ dispatching \in Seq(StreamMessage)
        /\ Len(queue) = 0 /\ Len(received) = 0 /\ Len(dispatching) = 0
    BY <1>1 DEF ClientInit
  <2>3. \A c \in Chan : Len(channel[c]) <= ChannelBuffer
    <3> TAKE c \in Chan
    <3>1. Len(channel[c]) = 0 /\ 0 <= ChannelBuffer
      BY <2>1, ChannelBufferAssumption
    <3> QED
      BY <3>1
  <2>4. Len(queue) <= Len(received) /\ Len(received) <= MaxMessages
    BY <2>2, StreamMessagesAssumption
  <2>5. Len(dispatching) = 1 <=> dispatcher = "send"
    BY <2>2 DEF ClientInit
  <2> QED
    BY <2>1, <2>2, <2>3, <2>4, <2>5 DEF ClientInit, ClientTypeOK
<1>3. Taken = 0
  BY <1>1 DEF ClientInit, Taken
<1>4. \A c \in Chan : Len(Out(c)) = 0
  <2> TAKE c \in Chan
  <2>1. Out(c) = <<>> \o <<>>
    BY DEF ClientInit, Out
  <2> QED
    BY <2>1
<1>5. Stream /\ OnItsWay
  BY <1>1 DEF ClientInit, Stream, OnItsWay
<1>6. (\A c \in Chan : Carried(c)) /\ Kept
  BY <1>1, <1>3, <1>4 DEF Carried, Kept
<1> QED
  BY <1>2, <1>5, <1>6 DEF ClientInv, ClientRelations

\* The run of a channel, what it carried and holds, is a sequence of messages.
LEMMA OutType ==
  ASSUME ClientTypeOK, NEW c \in Chan
  PROVE  Out(c) \in Seq(StreamMessage) /\ Len(Out(c)) \in Nat
<1>1. delivered[c] \in Seq(StreamMessage) /\ channel[c] \in Seq(StreamMessage)
  BY DEF ClientTypeOK
<1>2. Out(c) \in Seq(StreamMessage)
  BY <1>1, ConcatProperties DEF Out
<1> QED
  BY <1>2, LenProperties

\* Steps that move no message, and at most end the session.
LEMMA QuietInv ==
  ASSUME ClientInv,
         UNCHANGED <<queue, dispatching, channel, received, delivered>>,
         shutdown => shutdown', ctxCancelled => ctxCancelled',
         loop' = "push" => Len(received) < MaxMessages,
         ctxCancelled' \in BOOLEAN, shutdown' \in BOOLEAN
  PROVE  ClientRelations'
<1>1. Taken' = Taken /\ \A c : Out(c)' = Out(c)
  BY DEF Taken, Out
<1>2. Stream' /\ OnItsWay'
  BY <1>1 DEF ClientInv, ClientRelations, Stream, OnItsWay
<1>3. \A c \in Chan : Carried(c)'
  BY <1>1 DEF ClientInv, ClientRelations, Carried
<1>4. Kept'
  BY <1>1 DEF ClientInv, ClientRelations, Kept
<1> QED
  BY <1>2, <1>3, <1>4 DEF ClientRelations

\* A pushed message is queued behind the others; nothing else moves.
LEMMA PushInv ==
  ASSUME ClientInv, Push
  PROVE  ClientRelations'
<1>0. ClientTypeOK /\ Stream /\ OnItsWay /\ (\A c \in Chan : Carried(c)) /\ Kept
  BY DEF ClientInv, ClientRelations
<1>1. PICK message \in StreamMessage :
        /\ message.id = Len(received) + 1
        /\ queue' = Append(queue, message) /\ received' = Append(received, message)
  BY <1>0, PushedMessage
<1>2. /\ Len(queue') = Len(queue) + 1
      /\ \A k \in 1..Len(queue) : queue'[k] = queue[k]
      /\ queue'[Len(queue) + 1] = message
  BY <1>0, <1>1, AppendFacts DEF ClientTypeOK
<1>3. /\ Len(received') = Len(received) + 1
      /\ \A k \in 1..Len(received) : received'[k] = received[k]
      /\ received'[Len(received) + 1] = message
  BY <1>0, <1>1, AppendFacts DEF ClientTypeOK
<1>4. /\ Len(received) \in Nat /\ Len(queue) \in Nat /\ Len(dispatching) \in Nat
      /\ Taken \in Nat /\ Taken <= Len(received)
  BY <1>0, Lengths
<1>5. Taken' = Taken
  BY <1>2, <1>3, <1>4 DEF Taken
<1>6. /\ loop' = "signal" /\ UNCHANGED <<dispatching, shutdown, ctxCancelled>>
      /\ \A c : Out(c)' = Out(c)
  BY DEF Push, endVars, Out
<1>7. \A i \in 1..Len(received') : received'[i].id = i
  <2> TAKE i \in 1..Len(received')
  <2>1. CASE i \in 1..Len(received)
    BY <2>1, <1>0, <1>3 DEF Stream
  <2>2. CASE i = Len(received) + 1
    BY <2>2, <1>1, <1>3
  <2> QED
    BY <2>1, <2>2, <1>3, <1>4
<1>8. \A k \in 1..Len(queue') : queue'[k] = received'[Taken' + k]
  <2> TAKE k \in 1..Len(queue')
  <2>1. CASE k \in 1..Len(queue)
    <3>1. Taken + k \in 1..Len(received)
      BY <2>1, <1>4 DEF Taken
    <3> QED
      BY <2>1, <3>1, <1>0, <1>2, <1>3, <1>5 DEF Stream
  <2>2. CASE k = Len(queue) + 1
    <3>1. Taken + k = Len(received) + 1
      BY <2>2, <1>4 DEF Taken
    <3> QED
      BY <2>2, <3>1, <1>2, <1>3, <1>5
  <2> QED
    BY <2>1, <2>2, <1>2, <1>4
<1>9. Stream'
  BY <1>6, <1>7, <1>8 DEF Stream
<1>10. \A i \in 1..Taken : received'[i] = received[i]
  BY <1>3, <1>4
<1>11. OnItsWay'
  <2> SUFFICES ASSUME NEW k \in 1..Len(dispatching)
               PROVE  /\ dispatching[k].to # "nowhere"
                      /\ dispatching[k].id <= Taken
                      /\ dispatching[k] = received'[dispatching[k].id]
    BY <1>0, <1>5, <1>6 DEF OnItsWay
  <2>1. /\ dispatching[k].to # "nowhere" /\ dispatching[k].id <= Taken
        /\ dispatching[k] = received[dispatching[k].id]
    BY <1>0 DEF OnItsWay
  <2>2. dispatching[k] \in StreamMessage
    BY <1>0, ElementOfSeq DEF ClientTypeOK
  <2>3. dispatching[k].id \in Nat \ {0}
    BY <2>2, MessageId
  <2>4. dispatching[k].id \in 1..Taken
    BY <2>1, <2>3, <1>4
  <2> QED
    BY <2>1, <2>4, <1>10
<1>12. ASSUME NEW c \in Chan
       PROVE  Carried(c)'
  <2>1. \A k \in 1..Len(Out(c)) : Out(c)[k].id \in 1..Taken
    <3> TAKE k \in 1..Len(Out(c))
    <3>1. Out(c)[k] \in StreamMessage
      BY <1>0, OutType, ElementOfSeq
    <3>2. Out(c)[k].id \in Nat \ {0}
      BY <3>1, MessageId
    <3>3. Out(c)[k].id <= Taken
      BY <1>0 DEF Carried
    <3> QED
      BY <3>2, <3>3, <1>4
  <2>2. \A k \in 1..Len(Out(c)) : Out(c)[k] = received'[Out(c)[k].id]
    BY <2>1, <1>0, <1>10 DEF Carried
  <2> QED
    BY <2>2, <1>0, <1>5, <1>6 DEF Carried
<1>13. Kept'
  BY <1>0, <1>5, <1>6, <1>10 DEF Kept
<1> QED
  BY <1>9, <1>11, <1>12, <1>13 DEF ClientRelations


\* Pop takes the oldest message of the queue: it is younger than all that were taken.
LEMMA PopInv ==
  ASSUME ClientInv, Pop
  PROVE  ClientRelations'
<1>0. ClientTypeOK /\ Stream /\ OnItsWay /\ (\A c \in Chan : Carried(c)) /\ Kept
  BY DEF ClientInv, ClientRelations
<1>1. /\ Head(queue) \in StreamMessage /\ Head(queue) = queue[1]
      /\ Len(Tail(queue)) = Len(queue) - 1 /\ Len(queue) \in Nat \ {0}
      /\ \A k \in 1..Len(Tail(queue)) : Tail(queue)[k] = queue[k + 1]
  BY <1>0, TailFacts DEF Pop, ClientTypeOK
<1>2. /\ queue' = Tail(queue)
      /\ UNCHANGED <<loop, received, shutdown, ctxCancelled>> /\ \A c : Out(c)' = Out(c)
  BY DEF Pop, endVars, historyVars, Out
<1>3. Len(received) \in Nat /\ Taken \in Nat /\ Taken < Len(received)
  BY <1>0, <1>1, Lengths DEF Taken
<1>4. Taken' = Taken + 1
  BY <1>1, <1>2, <1>3 DEF Taken
<1>5. Head(queue) = received[Taken + 1] /\ Head(queue).id = Taken + 1
  BY <1>0, <1>1, <1>3 DEF Stream
<1>6. Stream'
  <2>1. \A k \in 1..Len(queue') : queue'[k] = received[Taken + 1 + k]
    BY <1>0, <1>1, <1>2, <1>3 DEF Stream
  <2> QED
    BY <2>1, <1>0, <1>2, <1>4 DEF Stream
<1>7. dispatching = <<>>
  <2>1. dispatching \in Seq(StreamMessage) /\ Len(dispatching) <= 1
    BY <1>0 DEF ClientTypeOK, OnItsWay
  <2>2. ASSUME dispatching # <<>>
        PROVE  FALSE
    <3>1. PICK n \in Nat : n = Len(dispatching) /\ n > 0 /\ n <= 1
      BY <2>1, <2>2, EmptySeq
    <3>2. n = 1
      BY <3>1
    <3> QED
      BY <1>0, <3>1, <3>2 DEF Pop, ClientTypeOK
  <2> QED
    BY <2>2
<1>8. \/ dispatching' = <<>> /\ Head(queue).to = "nowhere"
      \/ dispatching' = <<Head(queue)>> /\ Head(queue).to # "nowhere"
  BY <1>7 DEF Pop
<1>9. /\ Len(dispatching') <= 1
      /\ \A k \in 1..Len(dispatching') : dispatching'[k] = Head(queue) /\ Head(queue).to # "nowhere"
  <2>1. CASE dispatching' = <<>>
    BY <2>1
  <2>2. CASE dispatching' = <<Head(queue)>> /\ Head(queue).to # "nowhere"
    BY <2>2
  <2> QED
    BY <2>1, <2>2, <1>8
<1>10. OnItsWay'
  <2>1. received' = received /\ Taken' = Taken + 1
    BY <1>2, <1>4
  <2> QED
    BY <2>1, <1>3, <1>5, <1>9 DEF OnItsWay
<1>11. ASSUME NEW c \in Chan
       PROVE  Carried(c)'
  <2>1. \A k \in 1..Len(Out(c)) : Out(c)[k].id \in Nat /\ Out(c)[k].id <= Taken
    <3> TAKE k \in 1..Len(Out(c))
    <3>1. Out(c)[k] \in StreamMessage
      BY <1>0, OutType, ElementOfSeq
    <3> QED
      BY <3>1, <1>0, MessageId DEF Carried
  <2>2. \A k \in 1..Len(Out(c)) : Out(c)[k].id <= Taken + 1 /\ Out(c)[k].id < Taken + 1
    BY <2>1, <1>3
  <2> QED
    BY <2>2, <1>0, <1>2, <1>4, <1>5, <1>9 DEF Carried
<1>12. Kept'
  <2> SUFFICES ASSUME ~shutdown, ~ctxCancelled, NEW i \in 1..Taken + 1,
                      NEW c \in Chan, received[i].to = c, c # "nowhere"
               PROVE  Holds(Out(c), received[i]) \/ Holds(dispatching', received[i])
    BY <1>2, <1>4 DEF Kept
  <2>0. i \in 1..Taken \/ i = Taken + 1
    BY <1>3
  <2>1. CASE i \in 1..Taken
    <3>1. 1..Len(dispatching) = {}
      BY <1>7
    <3>2. ~Holds(dispatching, received[i])
      BY <3>1 DEF Holds
    <3> QED
      BY <2>1, <3>2, <1>0 DEF Kept
  <2>2. CASE i = Taken + 1
    <3>1. dispatching' = <<received[i]>>
      BY <2>2, <1>5, <1>8
    <3>2. 1 \in 1..Len(dispatching') /\ dispatching'[1] = received[i]
      BY <3>1
    <3> QED
      BY <3>2 DEF Holds
  <2> QED
    BY <2>0, <2>1, <2>2
<1> QED
  BY <1>6, <1>10, <1>11, <1>12 DEF ClientRelations


\* sendTyped: what was on its way is now the last message of its channel.
LEMMA SendInv ==
  ASSUME ClientInv, SendTyped
  PROVE  ClientRelations'
<1>0. ClientTypeOK /\ Stream /\ OnItsWay /\ (\A c \in Chan : Carried(c)) /\ Kept
  BY DEF ClientInv, ClientRelations
<1>1. PICK m \in StreamMessage, to \in Chan :
        /\ m = dispatching[1] /\ to = m.to /\ Len(dispatching) = 1 /\ 1 \in 1..Len(dispatching)
        /\ m.id <= Taken /\ m = received[m.id] /\ m.id \in Nat \ {0}
  <2>1. /\ Len(dispatching) = 1 /\ dispatching[1] \in StreamMessage
        /\ dispatching[1].to \in Chan
    BY <1>0, SentMessage DEF SendTyped
  <2>2. 1 \in 1..Len(dispatching)
    BY <2>1
  <2> QED
    BY <2>1, <2>2, <1>0, MessageId DEF OnItsWay
<1>2. /\ channel' = [channel EXCEPT ![to] = Append(channel[to], m)]
      /\ dispatching' = <<>> /\ UNCHANGED <<loop, queue, received, delivered, shutdown, ctxCancelled>>
  BY <1>1 DEF SendTyped, queueVars, endVars, historyVars
<1>3. Taken' = Taken
  BY <1>2 DEF Taken
<1>4. Out(to)' = Append(Out(to), m)
  <2>1. channel'[to] = Append(channel[to], m) /\ delivered' = delivered
    BY <1>0, <1>1, <1>2 DEF ClientTypeOK
  <2>2. delivered[to] \in Seq(StreamMessage) /\ channel[to] \in Seq(StreamMessage)
    BY <1>0, <1>1 DEF ClientTypeOK
  <2>3. delivered[to] \o Append(channel[to], m) = Append(delivered[to] \o channel[to], m)
    <3>1. PICK d \in Seq(StreamMessage), q \in Seq(StreamMessage) :
            d = delivered[to] /\ q = channel[to]
      BY <2>2
    <3>2. d \o Append(q, m) = Append(d \o q, m)
      BY ConcatAppend
    <3> QED
      BY <3>1, <3>2
  <2> QED
    BY <2>1, <2>3 DEF Out
<1>5. \A c \in Chan : c # to => Out(c)' = Out(c)
  BY <1>0, <1>1, <1>2 DEF ClientTypeOK, Out
<1>6. /\ Len(Out(to)') = Len(Out(to)) + 1 /\ Len(Out(to)) \in Nat
      /\ \A k \in 1..Len(Out(to)) : Out(to)'[k] = Out(to)[k]
      /\ Out(to)'[Len(Out(to)) + 1] = m
      /\ Holds(Out(to)', m) /\ \A x : Holds(Out(to), x) => Holds(Out(to)', x)
  BY <1>0, <1>1, <1>4, OutType, AppendFacts
<1>7. Len(dispatching') = 0
  BY <1>2
<1>8. Stream' /\ OnItsWay'
  BY <1>0, <1>2, <1>3, <1>7 DEF Stream, OnItsWay
<1>9. Carried(to)'
  <2>1. \A k \in 1..Len(Out(to)) : Out(to)[k].id < m.id
    BY <1>0, <1>1 DEF Carried
  <2>2. \A k \in 1..Len(Out(to)) + 1 :
          /\ Out(to)'[k].to = to /\ Out(to)'[k].id <= Taken
          /\ Out(to)'[k] = received[Out(to)'[k].id]
    <3> TAKE k \in 1..Len(Out(to)) + 1
    <3>1. CASE k \in 1..Len(Out(to))
      BY <3>1, <1>0, <1>1, <1>6 DEF Carried
    <3>2. CASE k = Len(Out(to)) + 1
      BY <3>2, <1>1, <1>6
    <3> QED
      BY <3>1, <3>2, <1>6
  <2>3. \A i, j \in 1..Len(Out(to)) + 1 : i < j => Out(to)'[i].id < Out(to)'[j].id
    <3> TAKE i, j \in 1..Len(Out(to)) + 1
    <3> HAVE i < j
    <3>1. i \in 1..Len(Out(to)) /\ Out(to)'[i] = Out(to)[i]
      BY <1>6
    <3>2. CASE j \in 1..Len(Out(to))
      BY <3>1, <3>2, <1>0, <1>1, <1>6 DEF Carried
    <3>3. CASE j = Len(Out(to)) + 1
      BY <3>1, <3>3, <1>6, <2>1
    <3> QED
      BY <3>2, <3>3, <1>6
  <2> QED
    BY <2>2, <2>3, <1>2, <1>3, <1>6, <1>7 DEF Carried
<1>10. ASSUME NEW c \in Chan, c # to
       PROVE  Carried(c)'
  BY <1>10, <1>0, <1>2, <1>3, <1>5, <1>7 DEF Carried
<1>11. Kept'
  <2> SUFFICES ASSUME ~shutdown, ~ctxCancelled, NEW i \in 1..Taken,
                      NEW c \in Chan, received[i].to = c, c # "nowhere"
               PROVE  Holds(Out(c)', received[i])
    BY <1>2, <1>3 DEF Kept
  <2>1. CASE Holds(Out(c), received[i])
    BY <2>1, <1>5, <1>6
  <2>2. CASE Holds(dispatching, received[i])
    <3>1. received[i] = m
      BY <2>2, <1>1 DEF Holds
    <3> QED
      BY <3>1, <1>1, <1>6
  <2> QED
    BY <2>1, <2>2, <1>0 DEF Kept
<1> QED
  BY <1>8, <1>9, <1>10, <1>11 DEF ClientRelations

\* sendTyped gives up only when the session is over: a message is left out.
LEMMA GiveUpInv ==
  ASSUME ClientInv, GiveUp
  PROVE  ClientRelations'
<1>0. ClientTypeOK /\ Stream /\ OnItsWay /\ (\A c \in Chan : Carried(c)) /\ Kept
  BY DEF ClientInv, ClientRelations
<1>1. /\ dispatching' = <<>> /\ UNCHANGED <<loop, queue, received, shutdown, ctxCancelled>>
      /\ (shutdown \/ ctxCancelled) /\ \A c : Out(c)' = Out(c)
  BY DEF GiveUp, GiveUpWhen, queueVars, endVars, historyVars, Out
<1>2. Taken' = Taken /\ Len(dispatching') = 0
  BY <1>1 DEF Taken
<1>3. Stream' /\ OnItsWay'
  BY <1>0, <1>1, <1>2 DEF Stream, OnItsWay
<1>4. \A c \in Chan : Carried(c)'
  BY <1>0, <1>1, <1>2 DEF Carried
<1>5. Kept'
  BY <1>1 DEF Kept
<1> QED
  BY <1>3, <1>4, <1>5 DEF ClientRelations

\* A message the application reads moves from the channel's buffer to what was
\* delivered; the run of the channel is the same.
LEMMA ReadInv ==
  ASSUME ClientInv, NEW c \in Chan, AppReads(c)
  PROVE  ClientRelations'
<1>0. ClientTypeOK /\ Stream /\ OnItsWay /\ (\A d \in Chan : Carried(d)) /\ Kept
  BY DEF ClientInv, ClientRelations
<1>1. /\ channel' = [channel EXCEPT ![c] = Tail(channel[c])]
      /\ delivered' = [delivered EXCEPT ![c] = Append(delivered[c], Head(channel[c]))]
      /\ UNCHANGED <<loop, queue, dispatching, received, shutdown, ctxCancelled>>
  BY DEF AppReads, queueVars, endVars
<1>2. Taken' = Taken
  BY <1>1 DEF Taken
<1>3. \A d \in Chan : Out(d)' = Out(d)
  <2>1. delivered[c] \in Seq(StreamMessage) /\ channel[c] \in Seq(StreamMessage)
    BY <1>0 DEF ClientTypeOK
  <2>2. Append(delivered[c], Head(channel[c])) \o Tail(channel[c]) = delivered[c] \o channel[c]
    BY <2>1, ConcatMove DEF AppReads
  <2>3. channel'[c] = Tail(channel[c]) /\ delivered'[c] = Append(delivered[c], Head(channel[c]))
    BY <1>0, <1>1 DEF ClientTypeOK
  <2>4. \A d \in Chan : d # c => channel'[d] = channel[d] /\ delivered'[d] = delivered[d]
    BY <1>0, <1>1 DEF ClientTypeOK
  <2> QED
    BY <2>2, <2>3, <2>4 DEF Out
<1>4. Stream' /\ OnItsWay'
  BY <1>0, <1>1, <1>2 DEF Stream, OnItsWay
<1>5. \A d \in Chan : Carried(d)'
  BY <1>0, <1>1, <1>2, <1>3 DEF Carried
<1>6. Kept'
  BY <1>0, <1>1, <1>2, <1>3 DEF Kept
<1> QED
  BY <1>4, <1>5, <1>6 DEF ClientRelations


\* Every step of the client keeps the invariant.
LEMMA ClientStep == ClientInv /\ [ClientNext]_clientVars => ClientInv'
<1> SUFFICES ASSUME ClientInv, [ClientNext]_clientVars
             PROVE  ClientInv'
  OBVIOUS
<1>1. ClientTypeOK'
  BY ClientTypeStep
<1>2. ctxCancelled' \in BOOLEAN /\ shutdown' \in BOOLEAN
  BY <1>1 DEF ClientTypeOK
<1> USE DEF queueVars, endVars, historyVars
<1>3. ASSUME Recv
      PROVE  ClientRelations'
  <2>1. /\ UNCHANGED <<queue, dispatching, channel, received, delivered>>
        /\ (shutdown => shutdown') /\ (ctxCancelled => ctxCancelled')
        /\ (loop' = "push" => Len(received) < MaxMessages)
    BY <1>3 DEF Recv
  <2> QED
    BY <1>2, <2>1, QuietInv
<1>4. ASSUME SignalPush \/ StreamEnds \/ CloseQueue \/ Release \/ Join \/ EndSession
      PROVE  ClientRelations'
  BY <1>2, <1>4, QuietInv DEF SignalPush, StreamEnds, CloseQueue, Release, Join, EndSession
<1>5. ASSUME PopEmpty \/ Woken \/ PopCancelled \/ AppCloses \/ UNCHANGED clientVars
      PROVE  ClientRelations'
  <2>1. loop = "push" => Len(received) < MaxMessages
    BY DEF ClientInv, ClientRelations, Stream
  <2> QED
    BY <1>2, <1>5, <2>1, QuietInv DEF PopEmpty, Woken, PopCancelled, AppCloses, clientVars
<1> HIDE DEF queueVars, endVars, historyVars
<1>6. ClientRelations'
  <2>1. ASSUME \E c \in Chan : AppReads(c)
        PROVE  ClientRelations'
    BY <2>1, ReadInv
  <2>2. ASSUME Push \/ Pop \/ SendTyped \/ GiveUp
        PROVE  ClientRelations'
    BY <2>2, PushInv, PopInv, SendInv, GiveUpInv
  <2> QED
    BY <1>3, <1>4, <1>5, <2>1, <2>2 DEF ClientNext, LoopStep, Dispatch
<1> QED
  BY <1>1, <1>6 DEF ClientInv

\* ClientInv holds in every reachable state.
THEOREM ClientInvariance == ClientSpec => []ClientInv
BY ClientInitInv, ClientStep, PTL DEF ClientSpec

\* The state of the client stays within its types, every channel within its
\* capacity, and the dispatcher sends one message at a time.
THEOREM ClientTypeCorrect == ClientSpec => []ClientTypeOK
<1>1. ClientInv => ClientTypeOK
  BY DEF ClientInv
<1> QED
  BY ClientInvariance, <1>1, PTL

\* Each typed channel of a client is the run of its messages: in the order of the
\* stream at any time, and while the session lives none is missing.
THEOREM DeliveredInOrder == ClientSpec => []Delivered
<1>1. ClientInv => Delivered
  <2> SUFFICES ASSUME ClientInv
               PROVE  Delivered
    OBVIOUS
  <2>0. ClientTypeOK /\ Stream /\ OnItsWay /\ (\A c \in Chan : Carried(c)) /\ Kept
    BY DEF ClientInv, ClientRelations
  <2>1. InOrder
    <3> SUFFICES ASSUME NEW c \in Chan
                 PROVE  \A k \in 1..Len(Out(c)) : Holds(received, Out(c)[k])
      BY <2>0 DEF InOrder, Carried
    <3> TAKE k \in 1..Len(Out(c))
    <3>1. Out(c)[k] \in StreamMessage
      BY <2>0, OutType, ElementOfSeq
    <3>2. PICK i \in Nat \ {0} : i = Out(c)[k].id /\ i <= Taken /\ Out(c)[k] = received[i]
      BY <2>0, <3>1, MessageId DEF Carried
    <3>3. i \in 1..Len(received)
      BY <2>0, <3>2, Lengths
    <3> QED
      BY <3>2, <3>3 DEF Holds
  <2>2. NothingLost
    <3> SUFFICES ASSUME ~shutdown, ~ctxCancelled, NEW i \in 1..Len(received),
                        received[i].to # "nowhere"
                 PROVE  Holds(Out(received[i].to) \o dispatching \o queue, received[i])
      BY DEF NothingLost
    <3>1. received[i] \in StreamMessage
      BY <2>0, ElementOfSeq DEF ClientTypeOK
    <3>2. PICK c \in Chan : received[i].to = c /\ c # "nowhere"
      BY <3>1 DEF StreamMessage
    <3>3. Out(c) \in Seq(StreamMessage) /\ dispatching \in Seq(StreamMessage)
          /\ queue \in Seq(StreamMessage)
      BY <2>0, OutType DEF ClientTypeOK
    <3>4. CASE i \in 1..Taken
      <4>1. Holds(Out(c), received[i]) \/ Holds(dispatching, received[i])
        BY <3>2, <3>4, <2>0 DEF Kept
      <4> QED
        BY <4>1, <3>2, <3>3, HoldsConcat
    <3>5. CASE i \in Taken + 1..Len(received)
      <4>1. i - Taken \in 1..Len(queue)
        BY <3>5, <2>0, Lengths DEF Taken
      <4>2. queue[i - Taken] = received[i]
        BY <4>1, <3>5, <2>0, Lengths DEF Stream
      <4>3. Holds(queue, received[i])
        BY <4>1, <4>2 DEF Holds
      <4> QED
        BY <4>3, <3>2, <3>3, HoldsConcat
    <3> QED
      BY <3>4, <3>5, <2>0, Lengths
  <2> QED
    BY <2>1, <2>2 DEF Delivered
<1> QED
  BY ClientInvariance, <1>1, PTL

-----------------------------------------------------------------------------
(* The supervisor *)

\* A client is open only from its creation to the end of its session, and only
\* the current one; the server answers none that is not there.
ReconnectInv ==
  /\ ReconnectTypeOK
  /\ OneClient
  /\ "current" \in clients <=> supervisor \in {"header", "connecting", "session", "disconnecting"}

\* Every step of the supervisor, of its session and of the server keeps it.
LEMMA ReconnectStep == ReconnectInv /\ [ReconnectNext]_reconnectVars => ReconnectInv'
<1> SUFFICES ASSUME ReconnectInv, [ReconnectNext]_reconnectVars
             PROVE  ReconnectInv'
  OBVIOUS
<1> USE DEF ReconnectInv, ReconnectTypeOK, OneClient, Party
<1>1. CASE CreateClient
  <2>1. clients = {}
    BY <1>1 DEF CreateClient
  <2>2. clients' = {"current"}
    BY <1>1, <2>1 DEF CreateClient
  <2>3. wire' \subseteq [cmd : {"connect", "disconnect"}, from : Party]
    BY <1>1 DEF CreateClient
  <2>4. holder' \in Party \cup {"none"}
    BY <1>1 DEF CreateClient, Former
  <2> QED
    BY <1>1, <2>2, <2>3, <2>4 DEF CreateClient
<1>2. CASE SeesStop
  BY <1>2 DEF SeesStop
<1>3. CASE ConnectRefused
  BY <1>3 DEF ConnectRefused, Discard
<1>4. CASE HandshakeFails
  BY <1>4 DEF HandshakeFails, Discard
<1>5. CASE DisconnectOver
  BY <1>5 DEF DisconnectOver
<1>6. CASE PauseOver
  BY <1>6 DEF PauseOver
<1>7. CASE HeaderArrives
  BY <1>7 DEF HeaderArrives, Submit
<1>8. CASE ConnectSucceeds
  BY <1>8 DEF ConnectSucceeds
<1>9. CASE SessionReturns
  BY <1>9 DEF SessionReturns, Submit
<1>10. CASE StopRequest
  BY <1>10 DEF StopRequest
<1>11. ASSUME NEW m \in wire, Execute(m)
       PROVE  ReconnectInv'
  BY <1>11 DEF Execute
<1>12. CASE CommandLost
  BY <1>12 DEF CommandLost
<1>13. CASE ConnectorDown
  BY <1>13 DEF ConnectorDown
<1>14. CASE UNCHANGED reconnectVars
  BY <1>14 DEF reconnectVars
<1> QED
  BY <1>1, <1>2, <1>3, <1>4, <1>5, <1>6, <1>7, <1>8, <1>9, <1>10, <1>11, <1>12, <1>13, <1>14
     DEF ReconnectNext, Supervise

\* RunWithReconnect has one client open at a time, and none while it pauses or
\* after it returned.
THEOREM OneClientAtATime == ReconnectSpec => []OneClient
<1>1. ReconnectInit => ReconnectInv
  BY DEF ReconnectInit, ReconnectInv, ReconnectTypeOK, OneClient, Party
<1>2. ReconnectInv => OneClient
  BY DEF ReconnectInv
<1> QED
  BY <1>1, ReconnectStep, <1>2, PTL DEF ReconnectSpec

-----------------------------------------------------------------------------
(* The native connector: invariants *)

\* The places where the client of a run is, or may be, in Connector.client.
HasClient == {"announce", "running", "emitRecover", "recovering", "emitTrue",
              "emitDown", "lost", "over"}

\* The places before the end of the client.
NotEnded == WorkerPC \ {"failed", "report", "over"}

\* Runs are numbered in the order of their connects.
Numbered == \A n \in Session : n > current <=> worker[n] = "none"

\* Only the run of the last connect is live, and not behind the state's back.
LatestLive == \A n \in Session : Live(n) => n = current /\ state # "disconnected"

\* What is left of a client when its worker is at each place.
Ends ==
  \A n \in Session :
    /\ Len(ended[n]) <= 1
    /\ worker[n] \in NotEnded => ended[n] = <<>>

\* The client pointer: only the latest run's, and one nobody ended.
Pointer ==
  client # 0 =>
    /\ client = current
    /\ state # "disconnected"
    /\ worker[client] \in HasClient
    /\ ended[client] = <<>>

\* Where a command can be, and what it knows there.
Commands ==
  /\ cmd = "none" <=> cmdPc = "none"
  /\ cmdPc \in {"check", "settle", "drain"} => cmd = "close"
  /\ state # "disconnected" => current # 0
  /\ cmd = "status" <=> cmdPc = "emit"
  /\ cmdPc \in {"emit", "cancel", "await", "logout", "say", "delivery"} => current # 0
  /\ cmdPc = "logout" => client = 0 /\ ended[current] = <<>> /\ worker[current] = "over"

\* A history goroutine asked a session.
Histories ==
  \A g \in History :
    hist[g] \in {"asking", "waiting", "ready", "emit"} => histSession[g] # 0

\* What Close leaves behind.
Closing ==
  /\ closed <=> outClosed
  /\ closed => cmdPc \in {"none", "drain"} /\ LatestOver
  /\ closed /\ cmdPc = "none" => out = <<>> /\ handling = <<>>

Relations ==
  Numbered /\ LatestLive /\ Ends /\ Pointer /\ Commands /\ Histories /\ Closing

IInv == TypeOK /\ Relations


-----------------------------------------------------------------------------
(* The native connector: types *)

\* What a send leaves of the callback channel.
Sent ==
  /\ out' \in Seq(Msg) /\ Len(out') <= QueueSize
  /\ panicked' \in BOOLEAN
  /\ outClosed' = outClosed /\ handling' = handling /\ heard' = heard
  /\ outClosed => out' = out

\* A send keeps the callback channel within its size and a closed one as it is.
LEMMA SendType ==
  ASSUME TypeOK, NEW kind \in Kind, NEW n \in Session, Emit(kind, n)
  PROVE  Sent
<1>1. CASE outClosed
  BY <1>1 DEF TypeOK, Emit, Send, Sent
<1>2. CASE ~outClosed
  <2> DEFINE m == [kind |-> kind, session |-> n]
  <2>1. Len(out) < QueueSize /\ out' = Append(out, m) /\ m \in Msg
    BY <1>2 DEF Emit, Send, Msg
  <2>2. Append(out, m) \in Seq(Msg) /\ Len(Append(out, m)) = Len(out) + 1
    BY <2>1, AppendProperties DEF TypeOK
  <2>3. Len(out) \in Nat
    BY LenProperties DEF TypeOK
  <2> QED
    BY <1>2, <2>1, <2>2, <2>3, QueueAssumption DEF TypeOK, Emit, Send, Sent
<1> QED
  BY <1>1, <1>2

\* A worker that moves stays at one of its places.
LEMMA MoveType ==
  ASSUME TypeOK, NEW n \in Session, NEW to \in WorkerPC, Move(n, to)
  PROVE  worker' \in [Session -> WorkerPC]
BY DEF TypeOK, Move

\* A client that is ended once more leaves a sequence of ends.
LEMMA EndType ==
  ASSUME TypeOK, NEW n \in Session, NEW how \in {"closed", "loggedOut"},
         ended' = [ended EXCEPT ![n] = Append(@, how)]
  PROVE  ended' \in [Session -> Seq({"closed", "loggedOut"})]
<1>1. Append(ended[n], how) \in Seq({"closed", "loggedOut"})
  BY AppendProperties DEF TypeOK
<1> QED
  BY <1>1 DEF TypeOK

\* Every step keeps the types.
LEMMA TypeStep == IInv /\ [Next]_vars => TypeOK'
<1> SUFFICES ASSUME TypeOK, Commands, Histories, [Next]_vars
             PROVE  TypeOK'
  BY DEF IInv, Relations
<1> USE QueueAssumption, SessionsAssumption, RecoveriesAssumption
        DEF connVars, workVars, outVars, histVars
<1>1. CASE Start
  BY <1>1 DEF TypeOK, Start
<1>2. CASE Connect
  <2>1. current + 1 \in Session
    BY <1>2 DEF TypeOK, Connect, Session
  <2>2. "opening" \in WorkerPC
    BY DEF WorkerPC
  <2> QED
    BY <1>2, <2>1, <2>2 DEF TypeOK, Connect, Session
<1>3. CASE StatusCommand
  BY <1>3 DEF TypeOK, StatusCommand
<1>4. CASE DisconnectCommand
  BY <1>4 DEF TypeOK, DisconnectCommand
<1>5. CASE CloseCommand
  BY <1>5 DEF TypeOK, CloseCommand
<1>6. CASE TakeCallback
  <2>1. Head(out) \in Msg /\ Tail(out) \in Seq(Msg) /\ Len(Tail(out)) = Len(out) - 1
    BY <1>6, HeadTailProperties DEF TypeOK, TakeCallback
  <2>2. Len(out) \in Nat
    BY LenProperties DEF TypeOK
  <2>3. handling' \in Seq(Msg)
    BY <1>6, <2>1 DEF TakeCallback
  <2> QED
    BY <1>6, <2>1, <2>2, <2>3 DEF TypeOK, TakeCallback
<1>7. CASE HandlerReturns
  <2>1. Head(handling) \in Msg
    BY <1>7, HeadTailProperties DEF TypeOK, HandlerReturns
  <2>2. heard' \subseteq Session
    BY <1>7, <2>1 DEF TypeOK, HandlerReturns, Msg
  <2>3. handling' \in Seq(Msg)
    BY <1>7 DEF HandlerReturns
  <2> QED
    BY <1>7, <2>2, <2>3 DEF TypeOK, HandlerReturns
<1>8. CASE StatusEmit
  <2>1. current \in Session
    BY <1>8 DEF StatusEmit, TypeOK, Session, Commands
  <2>2. Emit("true", current) /\ "true" \in Kind
    BY <1>8 DEF StatusEmit, Kind
  <2>3. Sent
    BY <2>1, <2>2, SendType
  <2> QED
    BY <1>8, <2>3 DEF TypeOK, StatusEmit, Sent
<1>9. CASE DisconnectCancel
  BY <1>9 DEF TypeOK, DisconnectCancel, CancelRuns
<1>10. CASE DisconnectAwait
  BY <1>10 DEF TypeOK, DisconnectAwait, TakeOver
<1>11. CASE DisconnectLogout
  <2>1. current \in Session
    BY <1>11 DEF DisconnectLogout, TypeOK, Session, Commands
  <2>2. ended' \in [Session -> Seq({"closed", "loggedOut"})]
    BY <1>11, <2>1, EndType DEF DisconnectLogout
  <2> QED
    BY <1>11, <2>2 DEF TypeOK, DisconnectLogout
<1>12. CASE DisconnectSay
  <2>1. current \in Session
    BY <1>12 DEF DisconnectSay, TypeOK, Session, Commands
  <2>2. Emit("false", current) /\ "false" \in Kind
    BY <1>12 DEF DisconnectSay, Kind
  <2>3. Sent
    BY <2>1, <2>2, SendType
  <2> QED
    BY <1>12, <2>3 DEF TypeOK, DisconnectSay, Sent
<1>13. CASE DisconnectDelivered
  BY <1>13 DEF TypeOK, DisconnectDelivered
<1>14. CASE CloseDisconnects
  BY <1>14 DEF TypeOK, CloseDisconnects
<1>15. CASE CloseSettle
  BY <1>15 DEF TypeOK, CloseSettle
<1>16. CASE CloseDrained
  BY <1>16 DEF TypeOK, CloseDrained
<1>17. ASSUME NEW g \in History, RequestHistory(g)
      PROVE  TypeOK'
  BY <1>17 DEF TypeOK, RequestHistory
<1>18. ASSUME NEW g \in History, AskHistory(g)
      PROVE  TypeOK'
  BY <1>18 DEF TypeOK, AskHistory
<1>19. ASSUME NEW g \in History, PartsArrive(g)
      PROVE  TypeOK'
  BY <1>19 DEF TypeOK, PartsArrive
<1>20. ASSUME NEW g \in History, CheckClosed(g)
      PROVE  TypeOK'
  BY <1>20 DEF TypeOK, CheckClosed
<1>21. ASSUME NEW g \in History, EmitCandles(g)
      PROVE  TypeOK'
  <2>1. histSession[g] \in Session
    BY <1>21 DEF EmitCandles, TypeOK, Session, Histories
  <2>2. Sent
    BY <1>21, <2>1, SendType DEF EmitCandles, Kind
  <2> QED
    BY <1>21, <2>2 DEF TypeOK, EmitCandles, Sent
<1>22. ASSUME NEW n \in Session, OpenFails(n)
      PROVE  TypeOK'
  BY <1>22 DEF TypeOK, OpenFails, Move, WorkerPC
<1>23. ASSUME NEW n \in Session, OpenSucceeds(n)
      PROVE  TypeOK'
  <2>1. worker' \in [Session -> WorkerPC]
    BY <1>23, MoveType DEF OpenSucceeds, WorkerPC
  <2>2. ended' \in [Session -> Seq({"closed", "loggedOut"})]
    BY <1>23, EndType DEF TypeOK, OpenSucceeds
  <2>3. client' \in 0..MaxSessions /\ state' \in {"disconnected", "connecting", "connected"}
    BY <1>23 DEF TypeOK, OpenSucceeds, Session
  <2> QED
    BY <1>23, <2>1, <2>2, <2>3 DEF TypeOK, OpenSucceeds
<1>24. ASSUME NEW n \in Session, Announce(n)
      PROVE  TypeOK'
  <2>1. worker' \in [Session -> WorkerPC]
    BY <1>24, MoveType DEF Announce, EmitAt, WorkerPC
  <2>2. Sent
    BY <1>24, SendType DEF Announce, EmitAt, Kind
  <2> QED
    BY <1>24, <2>1, <2>2 DEF TypeOK, Announce, EmitAt, Sent
<1>25. ASSUME NEW n \in Session, ReportRecover(n)
      PROVE  TypeOK'
  <2>1. worker' \in [Session -> WorkerPC]
    BY <1>25, MoveType DEF ReportRecover, EmitAt, WorkerPC
  <2>2. Sent
    BY <1>25, SendType DEF ReportRecover, EmitAt, Kind
  <2> QED
    BY <1>25, <2>1, <2>2 DEF TypeOK, ReportRecover, EmitAt, Sent
<1>26. ASSUME NEW n \in Session, ReportRecovered(n)
      PROVE  TypeOK'
  <2>1. worker' \in [Session -> WorkerPC]
    BY <1>26, MoveType DEF ReportRecovered, EmitAt, WorkerPC
  <2>2. Sent
    BY <1>26, SendType DEF ReportRecovered, EmitAt, Kind
  <2> QED
    BY <1>26, <2>1, <2>2 DEF TypeOK, ReportRecovered, EmitAt, Sent
<1>27. ASSUME NEW n \in Session, RunCancelled(n)
      PROVE  TypeOK'
  BY <1>27 DEF TypeOK, RunCancelled, Move, WorkerPC
<1>28. ASSUME NEW n \in Session, RecoveryEnds(n)
      PROVE  TypeOK'
  <2>1. worker' \in [Session -> WorkerPC]
    BY <1>28, MoveType DEF RecoveryEnds, WorkerPC
  <2> QED
    BY <1>28, <2>1 DEF TypeOK, RecoveryEnds
<1>29. ASSUME NEW n \in Session, ReportDown(n)
      PROVE  TypeOK'
  <2>1. worker' \in [Session -> WorkerPC]
    BY <1>29, MoveType DEF ReportDown, WorkerPC
  <2>2. Sent
    BY <1>29, SendType DEF ReportDown, Kind
  <2> QED
    BY <1>29, <2>1, <2>2 DEF TypeOK, ReportDown, Sent
<1>30. ASSUME NEW n \in Session, FinishRun(n)
      PROVE  TypeOK'
  <2>1. worker' \in [Session -> WorkerPC]
    BY <1>30, MoveType DEF FinishRun, WorkerPC
  <2> QED
    BY <1>30, <2>1 DEF TypeOK, FinishRun
<1>31. ASSUME NEW n \in Session, CloseClient(n)
      PROVE  TypeOK'
  BY <1>31 DEF TypeOK, CloseClient, Move, WorkerPC
<1>32. ASSUME NEW n \in Session, CloseConnection(n)
      PROVE  TypeOK'
  <2>1. worker' \in [Session -> WorkerPC]
    BY <1>32, MoveType DEF CloseConnection, WorkerPC
  <2>2. ended' \in [Session -> Seq({"closed", "loggedOut"})]
    BY <1>32, EndType DEF CloseConnection
  <2> QED
    BY <1>32, <2>1, <2>2 DEF TypeOK, CloseConnection
<1>33. ASSUME NEW n \in Session, Report(n)
      PROVE  TypeOK'
  <2>1. worker' \in [Session -> WorkerPC]
    BY <1>33, MoveType DEF Report, WorkerPC
  <2>2. Sent
    BY <1>33, SendType DEF Report, Kind
  <2> QED
    BY <1>33, <2>1, <2>2 DEF TypeOK, Report, Sent
<1>34. ASSUME NEW n \in Session, LinkLost(n)
      PROVE  TypeOK'
  BY <1>34 DEF TypeOK, LinkLost, Move, WorkerPC
<1>35. ASSUME NEW n \in Session, PollFails(n)
      PROVE  TypeOK'
  BY <1>35 DEF TypeOK, PollFails, Move, WorkerPC
<1>36. CASE UNCHANGED vars
  BY <1>36 DEF TypeOK, vars
<1> QED
  BY <1>1, <1>2, <1>3, <1>4, <1>5, <1>6, <1>7, <1>8, <1>9, <1>10, <1>11, <1>12, <1>13, <1>14, <1>15, <1>16, <1>17, <1>18, <1>19, <1>20, <1>21, <1>22, <1>23, <1>24, <1>25, <1>26, <1>27, <1>28, <1>29, <1>30, <1>31, <1>32, <1>33, <1>34, <1>35, <1>36
     DEF Next, Deliver, Command, Run, Collect

-----------------------------------------------------------------------------
(* The native connector: relations *)

\* Nothing runs, nothing was asked.
LEMMA InitInv == Init => IInv
<1> SUFFICES ASSUME Init
             PROVE  IInv
  OBVIOUS
<1>1. TypeOK
  <2>1. <<>> \in Seq(Msg) /\ Len(<<>>) = 0 /\ <<>> \in Seq({"closed", "loggedOut"})
    OBVIOUS
  <2>2. ended \in [Session -> Seq({"closed", "loggedOut"})]
    BY <2>1 DEF Init
  <2>3. out \in Seq(Msg) /\ Len(out) <= QueueSize /\ handling \in Seq(Msg)
    BY <2>1, QueueAssumption DEF Init
  <2>4. recoveries \in [Session -> 0..MaxRecoveries] /\ client \in 0..MaxSessions
        /\ current \in 0..MaxSessions /\ histSession \in [History -> 0..MaxSessions]
    BY SessionsAssumption, RecoveriesAssumption DEF Init
  <2> QED
    BY <2>2, <2>3, <2>4 DEF Init, TypeOK, WorkerPC
<1>2. \A n \in Session : ~Live(n) /\ ended[n] = <<>> /\ n > current
  BY SessionsAssumption DEF Init, Session, Live, WorkerPC
<1>3. Relations
  BY <1>2 DEF Init, Relations, Numbered, LatestLive, Ends, Pointer, Commands,
              Histories, Closing, NotEnded, WorkerPC, LatestOver
<1> QED
  BY <1>1, <1>3 DEF IInv

\* Whose client is not in Connector.client.
LEMMA NoClient ==
  ASSUME IInv, NEW n \in Session, worker[n] \notin HasClient
  PROVE  client # n
<1>1. n # 0
  BY DEF Session
<1> QED
  BY <1>1 DEF IInv, Relations, Pointer

\* An accepted connect, or a command that ends a run, has a current run.
LEMMA CurrentSession ==
  ASSUME IInv, current # 0
  PROVE  current \in Session
BY SessionsAssumption DEF IInv, TypeOK, Session

\* The one end of a client: its worker is where a client may have ended.
LEMMA OneEnd ==
  ASSUME IInv, NEW n \in Session, ended[n] = <<>>, NEW how \in {"closed", "loggedOut"},
         ended' = [ended EXCEPT ![n] = Append(@, how)],
         worker'[n] \notin NotEnded,
         \A m \in Session : m # n => worker'[m] = worker[m]
  PROVE  Ends'
<1>1. \A m \in Session : Len(ended[m]) <= 1 /\ (worker[m] \in NotEnded => ended[m] = <<>>)
  BY DEF IInv, Relations, Ends
<1>2. ended'[n] = <<how>> /\ \A m \in Session : m # n => ended'[m] = ended[m]
  BY DEF IInv, TypeOK
<1>3. \A m \in Session :
        Len(ended'[m]) <= 1 /\ (worker'[m] \in NotEnded => ended'[m] = <<>>)
  <2> TAKE m \in Session
  <2>1. CASE m = n
    BY <2>1, <1>2
  <2>2. CASE m # n
    BY <2>2, <1>1, <1>2
  <2> QED
    BY <2>1, <2>2
<1> QED
  BY <1>3 DEF Ends, NotEnded

\* A worker that goes on from place to place: it does not come to life, does not
\* forget that its client was ended, and keeps the client pointer in mind.
GoesOn(n, to) ==
  /\ worker[n] \notin {"none", "over"} /\ to # "none"
  /\ to \notin {"closing", "shutting", "report", "over"} => Live(n)
  /\ to \in NotEnded => worker[n] \in NotEnded
  /\ client = n => to \in HasClient

\* Such a step, which may also send, keeps the relations.
LEMMA GoesOnInv ==
  ASSUME IInv, TypeOK', NEW n \in Session, NEW to \in WorkerPC, Move(n, to), GoesOn(n, to),
         UNCHANGED <<connVars, cmd, cmdPc, ended, histVars, outClosed, handling>>,
         outClosed => out' = out
  PROVE  Relations'
<1> USE SessionsAssumption
        DEF IInv, TypeOK, Session, connVars, histVars, Relations, GoesOn, Move, Live,
            WorkerPC, NotEnded, HasClient
<1>1. \A m \in Session : m # n => worker'[m] = worker[m]
  OBVIOUS
<1>2. worker'[n] = to
  OBVIOUS
<1>3. \A m \in Session : Live(m)' => Live(m)
  BY <1>1, <1>2
<1>4. Numbered' /\ LatestLive'
  BY <1>1, <1>2, <1>3 DEF Numbered, LatestLive
<1>5. Ends'
  BY <1>1, <1>2 DEF Ends
<1>6. Pointer'
  BY <1>1, <1>2 DEF Pointer
<1>7. Commands'
  BY <1>1, <1>2 DEF Commands
<1>8. Histories'
  BY DEF Histories
<1>9. Closing'
  <2>1. LatestOver => LatestOver'
    BY <1>1, CurrentSession DEF LatestOver
  <2> QED
    BY <2>1 DEF Closing
<1> QED
  BY <1>4, <1>5, <1>6, <1>7, <1>8, <1>9

\* Every step keeps the relations.
LEMMA RelationStep == IInv /\ TypeOK' /\ [Next]_vars => Relations'
<1> SUFFICES ASSUME IInv, TypeOK', [Next]_vars
             PROVE  Relations'
  OBVIOUS
<1> USE SessionsAssumption
        DEF IInv, TypeOK, Session, connVars, workVars, outVars, histVars, Relations
<1> DEFINE Goes(n) == \E to \in WorkerPC :
      /\ Move(n, to) /\ GoesOn(n, to)
      /\ UNCHANGED <<connVars, cmd, cmdPc, ended, histVars, outClosed, handling>>
      /\ outClosed => out' = out
<1>0. ASSUME NEW n \in Session, Goes(n)
      PROVE  Relations'
  BY <1>0, GoesOnInv
<1> HIDE DEF Goes
<1>1. CASE Start
  BY <1>1 DEF Start, Live, WorkerPC, HasClient, NotEnded, LatestOver, Accepts,
               Numbered, LatestLive, Ends, Pointer, Commands, Histories, Closing
<1>2. CASE Connect
  BY <1>2 DEF Connect, Live, WorkerPC, HasClient, NotEnded, LatestOver, Accepts,
               Numbered, LatestLive, Ends, Pointer, Commands, Histories, Closing
<1>3. CASE StatusCommand
  BY <1>3 DEF StatusCommand, Live, WorkerPC, HasClient, NotEnded, LatestOver, Accepts,
               Numbered, LatestLive, Ends, Pointer, Commands, Histories, Closing
<1>4. CASE DisconnectCommand
  BY <1>4 DEF DisconnectCommand, Live, WorkerPC, HasClient, NotEnded, LatestOver, Accepts,
               Numbered, LatestLive, Ends, Pointer, Commands, Histories, Closing
<1>5. CASE CloseCommand
  BY <1>5 DEF CloseCommand, Live, WorkerPC, HasClient, NotEnded, LatestOver, Accepts,
               Numbered, LatestLive, Ends, Pointer, Commands, Histories, Closing
<1>6. CASE TakeCallback
  BY <1>6 DEF TakeCallback, Live, WorkerPC, HasClient, NotEnded, LatestOver, Accepts,
               Numbered, LatestLive, Ends, Pointer, Commands, Histories, Closing
<1>7. CASE HandlerReturns
  BY <1>7 DEF HandlerReturns, Live, WorkerPC, HasClient, NotEnded, LatestOver, Accepts,
               Numbered, LatestLive, Ends, Pointer, Commands, Histories, Closing
<1>8. CASE StatusEmit
  BY <1>8 DEF StatusEmit, Emit, Send, Live, WorkerPC, HasClient, NotEnded, LatestOver, Accepts,
               Numbered, LatestLive, Ends, Pointer, Commands, Histories, Closing
<1>9. CASE DisconnectCancel
  BY <1>9 DEF DisconnectCancel, CancelRuns, Live, WorkerPC, HasClient, NotEnded, LatestOver, Accepts,
               Numbered, LatestLive, Ends, Pointer, Commands, Histories, Closing
<1>10. CASE DisconnectAwait
  BY <1>10 DEF DisconnectAwait, TakeOver, Live, WorkerPC, HasClient, NotEnded, LatestOver, Accepts,
               Numbered, LatestLive, Ends, Pointer, Commands, Histories, Closing
<1>11. CASE DisconnectLogout
  <2> USE <1>11 DEF DisconnectLogout
  <2>1. current \in Session /\ ended[current] = <<>> /\ client = 0 /\ worker[current] = "over"
    BY DEF Commands
  <2>2. worker' = worker /\ worker[current] \notin NotEnded
    BY <2>1 DEF NotEnded
  <2>3. Ends'
    BY <2>1, <2>2, OneEnd
  <2>4. Numbered' /\ LatestLive' /\ Pointer' /\ Histories'
    BY <2>1 DEF Numbered, LatestLive, Live, Pointer, Histories
  <2>5. Commands' /\ Closing'
    BY <2>1 DEF Commands, Closing, LatestOver
  <2> QED
    BY <2>3, <2>4, <2>5
<1>12. CASE DisconnectSay
  BY <1>12 DEF DisconnectSay, Emit, Send, Live, WorkerPC, HasClient, NotEnded, LatestOver, Accepts,
               Numbered, LatestLive, Ends, Pointer, Commands, Histories, Closing
<1>13. CASE DisconnectDelivered
  BY <1>13 DEF DisconnectDelivered, Live, WorkerPC, HasClient, NotEnded, LatestOver, Accepts,
               Numbered, LatestLive, Ends, Pointer, Commands, Histories, Closing
<1>14. CASE CloseDisconnects
  BY <1>14 DEF CloseDisconnects, Live, WorkerPC, HasClient, NotEnded, LatestOver, Accepts,
               Numbered, LatestLive, Ends, Pointer, Commands, Histories, Closing
<1>15. CASE CloseSettle
  BY <1>15 DEF CloseSettle, Live, WorkerPC, HasClient, NotEnded, LatestOver, Accepts,
               Numbered, LatestLive, Ends, Pointer, Commands, Histories, Closing
<1>16. CASE CloseDrained
  BY <1>16 DEF CloseDrained, Live, WorkerPC, HasClient, NotEnded, LatestOver, Accepts,
               Numbered, LatestLive, Ends, Pointer, Commands, Histories, Closing
<1>17. ASSUME NEW g \in History, RequestHistory(g)
      PROVE  Relations'
  BY <1>17 DEF RequestHistory, Live, WorkerPC, HasClient, NotEnded, LatestOver, Accepts,
               Numbered, LatestLive, Ends, Pointer, Commands, Histories, Closing
<1>18. ASSUME NEW g \in History, AskHistory(g)
      PROVE  Relations'
  BY <1>18 DEF AskHistory, Live, WorkerPC, HasClient, NotEnded, LatestOver, Accepts,
               Numbered, LatestLive, Ends, Pointer, Commands, Histories, Closing
<1>19. ASSUME NEW g \in History, PartsArrive(g)
      PROVE  Relations'
  BY <1>19 DEF PartsArrive, Live, WorkerPC, HasClient, NotEnded, LatestOver, Accepts,
               Numbered, LatestLive, Ends, Pointer, Commands, Histories, Closing
<1>20. ASSUME NEW g \in History, CheckClosed(g)
      PROVE  Relations'
  BY <1>20 DEF CheckClosed, Live, WorkerPC, HasClient, NotEnded, LatestOver, Accepts,
               Numbered, LatestLive, Ends, Pointer, Commands, Histories, Closing
<1>21. ASSUME NEW g \in History, EmitCandles(g)
      PROVE  Relations'
  BY <1>21 DEF EmitCandles, Emit, Send, Live, WorkerPC, HasClient, NotEnded, LatestOver, Accepts,
               Numbered, LatestLive, Ends, Pointer, Commands, Histories, Closing
<1>22. ASSUME NEW n \in Session, OpenFails(n)
      PROVE  Relations'
  <2>1. client # n
    BY <1>22, NoClient DEF OpenFails, HasClient
  <2>2. Goes(n)
    BY <1>22, <2>1 DEF OpenFails, Move, Goes, GoesOn, Live, WorkerPC, NotEnded
  <2> QED
    BY <2>2, <1>0
<1>23. ASSUME NEW n \in Session, OpenSucceeds(n)
      PROVE  Relations'
  <2> USE <1>23 DEF OpenSucceeds
  <2>1. n = current /\ state # "disconnected" /\ ended[n] = <<>>
    BY DEF LatestLive, Live, WorkerPC, Ends, NotEnded
  <2>0. client # n
    BY NoClient DEF HasClient
  <2>2. CASE cancelled[n]
    <3>2. /\ worker' = [worker EXCEPT ![n] = "failed"]
          /\ ended' = [ended EXCEPT ![n] = Append(@, "closed")]
          /\ UNCHANGED <<client, state>>
      BY <2>2 DEF Move
    <3>3. Numbered' /\ LatestLive'
      BY <2>1, <3>2 DEF Numbered, LatestLive, Live, WorkerPC
    <3>4. Ends'
      BY <2>1, <3>2, OneEnd DEF NotEnded
    <3>5. Pointer' /\ Histories'
      BY <2>0, <2>1, <3>2 DEF Pointer, Histories
    <3>6. Commands' /\ Closing'
      BY <2>1, <3>2 DEF Commands, Closing, LatestOver
    <3> QED
      BY <3>3, <3>4, <3>5, <3>6
  <2>3. CASE ~cancelled[n]
    <3>1. /\ worker' = [worker EXCEPT ![n] = "announce"]
          /\ client' = n /\ state' = "connected" /\ ended' = ended
      BY <2>3 DEF Move
    <3>2. Numbered' /\ LatestLive'
      BY <2>1, <3>1 DEF Numbered, LatestLive, Live, WorkerPC
    <3>3. Ends'
      BY <2>1, <3>1 DEF Ends, NotEnded
    <3>4. Pointer' /\ Histories'
      BY <2>1, <3>1 DEF Pointer, Histories, HasClient
    <3>5. Commands' /\ Closing'
      BY <2>1, <3>1 DEF Commands, Closing, LatestOver
    <3> QED
      BY <3>2, <3>3, <3>4, <3>5
  <2> QED
    BY <2>2, <2>3
<1>24. ASSUME NEW n \in Session, Announce(n)
      PROVE  Relations'
  <2>1. Goes(n)
    BY <1>24 DEF Announce, Move, EmitAt, Emit, Send, Goes, GoesOn, Live, WorkerPC, NotEnded, HasClient
  <2> QED
    BY <2>1, <1>0
<1>25. ASSUME NEW n \in Session, ReportRecover(n)
      PROVE  Relations'
  <2>1. Goes(n)
    BY <1>25 DEF ReportRecover, Move, EmitAt, Emit, Send, Goes, GoesOn, Live, WorkerPC, NotEnded, HasClient
  <2> QED
    BY <2>1, <1>0
<1>26. ASSUME NEW n \in Session, ReportRecovered(n)
      PROVE  Relations'
  <2>1. Goes(n)
    BY <1>26 DEF ReportRecovered, Move, EmitAt, Emit, Send, Goes, GoesOn, Live, WorkerPC, NotEnded, HasClient
  <2> QED
    BY <2>1, <1>0
<1>27. ASSUME NEW n \in Session, RunCancelled(n)
      PROVE  Relations'
  <2>1. Goes(n)
    BY <1>27 DEF RunCancelled, Move, Goes, GoesOn, Live, WorkerPC, NotEnded, HasClient
  <2> QED
    BY <2>1, <1>0
<1>28. ASSUME NEW n \in Session, RecoveryEnds(n)
      PROVE  Relations'
  <2>1. Goes(n)
    BY <1>28 DEF RecoveryEnds, Move, Goes, GoesOn, Live, WorkerPC, NotEnded, HasClient
  <2> QED
    BY <2>1, <1>0
<1>29. ASSUME NEW n \in Session, ReportDown(n)
      PROVE  Relations'
  <2>1. Goes(n)
    BY <1>29 DEF ReportDown, Move, Emit, Send, Goes, GoesOn, Live, WorkerPC, NotEnded, HasClient
  <2> QED
    BY <2>1, <1>0
<1>30. ASSUME NEW n \in Session, FinishRun(n)
      PROVE  Relations'
  <2> USE <1>30 DEF FinishRun
  <2>1. n = current /\ state # "disconnected"
    BY DEF LatestLive, Live, WorkerPC
  <2>2. CASE cancelled[n]
    <3>1. Goes(n)
      BY <2>2 DEF Goes, GoesOn, Live, WorkerPC, NotEnded, HasClient, Pointer
    <3> QED
      BY <3>1, <1>0
  <2>3. CASE ~cancelled[n]
    <3> DEFINE to == IF worker[n] = "lost" THEN "closing" ELSE "report"
    <3>1. /\ worker' = [worker EXCEPT ![n] = to]
          /\ state' = "disconnected" /\ client' = 0
      BY <2>3 DEF Move
    <3>2. \A m \in Session : ~Live(m)'
      BY <2>1, <3>1 DEF LatestLive, Live, WorkerPC
    <3>3. Numbered'
      BY <3>1 DEF Numbered
    <3>4. LatestLive' /\ Pointer' /\ Histories'
      BY <3>1, <3>2 DEF LatestLive, Pointer, Histories
    <3>5. Ends'
      BY <3>1 DEF Ends, NotEnded
    <3>6. Commands' /\ Closing'
      BY <2>1, <3>1 DEF Commands, Closing, LatestOver
    <3> QED
      BY <3>3, <3>4, <3>5, <3>6
  <2> QED
    BY <2>2, <2>3
<1>31. ASSUME NEW n \in Session, CloseClient(n)
      PROVE  Relations'
  <2> USE <1>31 DEF CloseClient, Move
  <2>1. client # n
    BY NoClient DEF HasClient
  <2>0. \A m \in Session : worker'[m] = IF m = n THEN "shutting" ELSE worker[m]
    OBVIOUS
  <2>2. Numbered' /\ LatestLive'
    BY DEF Numbered, LatestLive, Live, WorkerPC
  <2>3. Ends'
    BY <2>0 DEF Ends, NotEnded, WorkerPC
  <2>7. Pointer'
    BY <2>0, <2>1 DEF Pointer
  <2>4. Histories'
    BY DEF Histories
  <2>5. LatestOver => LatestOver'
    BY <2>0, CurrentSession DEF LatestOver
  <2>6. Commands'
    BY <2>0 DEF Commands
  <2>8. Closing'
    BY <2>5 DEF Closing
  <2> QED
    BY <2>2, <2>3, <2>4, <2>6, <2>7, <2>8
<1>32. ASSUME NEW n \in Session, CloseConnection(n)
      PROVE  Relations'
  <2> USE <1>32 DEF CloseConnection
  <2> DEFINE to == IF down[n] THEN "over" ELSE "report"
  <2>1. client # n
    BY NoClient DEF HasClient
  <2>0. ended[n] = <<>>
    BY DEF Ends, NotEnded, WorkerPC
  <2>2. /\ worker' = [worker EXCEPT ![n] = to]
        /\ worker'[n] = to /\ \A m \in Session : m # n => worker'[m] = worker[m]
    BY DEF Move
  <2>3. Numbered' /\ LatestLive'
    BY <2>2 DEF Numbered, LatestLive, Live, WorkerPC
  <2>4. Ends'
    BY <2>0, <2>2, OneEnd DEF NotEnded
  <2>5. Pointer' /\ Histories'
    BY <2>1, <2>2 DEF Pointer, Histories
  <2>6. LatestOver => LatestOver'
    BY <2>2, CurrentSession DEF LatestOver
  <2>7. Commands'
    BY <2>1, <2>2 DEF Commands
  <2>8. Closing'
    BY <2>6 DEF Closing
  <2> QED
    BY <2>3, <2>4, <2>5, <2>7, <2>8
<1>33. ASSUME NEW n \in Session, Report(n)
      PROVE  Relations'
  <2>1. Goes(n)
    BY <1>33 DEF Report, Move, Emit, Send, Goes, GoesOn, Live, WorkerPC, NotEnded, HasClient, Pointer
  <2> QED
    BY <2>1, <1>0
<1>34. ASSUME NEW n \in Session, LinkLost(n)
      PROVE  Relations'
  <2>1. Goes(n)
    BY <1>34 DEF LinkLost, Move, Goes, GoesOn, Live, WorkerPC, NotEnded, HasClient
  <2> QED
    BY <2>1, <1>0
<1>35. ASSUME NEW n \in Session, PollFails(n)
      PROVE  Relations'
  <2>1. Goes(n)
    BY <1>35 DEF PollFails, Move, Goes, GoesOn, Live, WorkerPC, NotEnded, HasClient
  <2> QED
    BY <2>1, <1>0
<1>36. CASE UNCHANGED vars
  BY <1>36 DEF vars, Live, WorkerPC, HasClient, NotEnded, LatestOver, Accepts,
               Numbered, LatestLive, Ends, Pointer, Commands, Histories, Closing
<1> QED
  BY <1>1, <1>2, <1>3, <1>4, <1>5, <1>6, <1>7, <1>8, <1>9, <1>10, <1>11, <1>12,
     <1>13, <1>14, <1>15, <1>16, <1>17, <1>18, <1>19, <1>20, <1>21, <1>22,
     <1>23, <1>24, <1>25, <1>26, <1>27, <1>28, <1>29, <1>30, <1>31, <1>32,
     <1>33, <1>34, <1>35, <1>36
     DEF Next, Deliver, Command, Run, Collect

\* IInv holds in every reachable state.
THEOREM Invariance == Spec => []IInv
<1>1. IInv /\ [Next]_vars => IInv'
  BY TypeStep, RelationStep DEF IInv
<1> QED
  BY InitInv, <1>1, PTL DEF Spec

-----------------------------------------------------------------------------
(* The native connector: properties *)

\* The state of the connector stays within its types, and its callback channel
\* within callbackQueueSize.
THEOREM TypeCorrect == Spec => []TypeOK
<1>1. IInv => TypeOK
  BY DEF IInv
<1> QED
  BY Invariance, <1>1, PTL

\* connect, disconnect, finish and Close never give a session two runs at once, or
\* its client two ends, or keep a client that was ended.
THEOREM Apart == Spec => []SessionsApart
<1>1. IInv => SessionsApart
  <2> SUFFICES ASSUME IInv
               PROVE  SessionsApart
    OBVIOUS
  <2>1. OneLiveSession
    BY DEF IInv, Relations, LatestLive, OneLiveSession
  <2>2. EndedOnce
    BY DEF IInv, Relations, Ends, Pointer, EndedOnce, Session
  <2> QED
    BY <2>1, <2>2 DEF SessionsApart
<1> QED
  BY Invariance, <1>1, PTL

\* A Close that returned left nothing behind that could still reach the handler.
THEOREM Silent == Spec => []SilentAfterClose
<1>1. IInv => SilentAfterClose
  BY DEF IInv, Relations, Commands, Closing, SilentAfterClose
<1> QED
  BY Invariance, <1>1, PTL
=============================================================================
