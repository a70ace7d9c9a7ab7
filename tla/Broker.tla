------------------------------- MODULE Broker -------------------------------
(***************************************************************************)
(* server/broker.go and the FetchResponseData handler of server/service.go:*)
(* the fan-out of the connector's messages to the gRPC response streams.   *)
(*                                                                         *)
(* Message k is the k-th one the broker accepted.  Each handler is one     *)
(* FetchResponseData call: it subscribes, sends the response header, then  *)
(* loops in a select over its queue, its done channel and its context, and *)
(* its deferred close detaches it.  Every action below runs under          *)
(* broker.mu or touches only the handler's own state.  Go's select picks   *)
(* any ready case, so the loop's alternatives are separate actions.        *)
(***************************************************************************)
EXTENDS Naturals, Sequences

CONSTANTS Handler,        \* FetchResponseData calls
          Buffer,         \* capacity of subscription.messages
          MaxPublished    \* bound on the messages published

\* subscribe() raises a smaller buffer to one.
ASSUME BufferAssumption == Buffer \in Nat \ {0}
ASSUME MaxPublishedAssumption == MaxPublished \in Nat

VARIABLES published,      \* messages accepted by publish() so far
          closed,         \* broker.closed
          subscribers,    \* broker.subscribers
          messages,       \* messages[h]: the buffered channel of h
          done,           \* done[h]: how often h's done channel was closed
          slow,           \* slow[h]: subscription.err is errSlowSubscriber
          ctxDone,        \* ctxDone[h]: the stream's context is cancelled
          pc,             \* where the handler is
          holding,        \* the message taken from the queue, not yet sent
          sent,           \* messages handed to gRPC, in order
          joined,         \* published at the time of subscribe()
          result          \* the status the handler returns

brokerVars == <<published, closed, subscribers, messages, done, slow>>
handlerVars == <<ctxDone, pc, holding, sent, joined, result>>
vars == <<brokerVars, handlerVars>>

Message == 1..MaxPublished
NotJoined == MaxPublished + 1
PC == {"idle", "header", "loop", "send", "deferred", "returned"}
Result == {"none", "ok", "ResourceExhausted", "cancelled", "transport"}

TypeOK ==
  /\ published \in 0..MaxPublished
  /\ closed \in BOOLEAN
  /\ subscribers \subseteq Handler
  /\ messages \in [Handler -> Seq(Message)]
  /\ \A h \in Handler : Len(messages[h]) <= Buffer
  /\ done \in [Handler -> Nat]
  /\ slow \in [Handler -> BOOLEAN]
  /\ ctxDone \in [Handler -> BOOLEAN]
  /\ pc \in [Handler -> PC]
  /\ holding \in [Handler -> Seq(Message)]
  /\ sent \in [Handler -> Seq(Message)]
  /\ joined \in [Handler -> 0..NotJoined]
  /\ result \in [Handler -> Result]

Init ==
  /\ published = 0
  /\ closed = FALSE
  /\ subscribers = {}
  /\ messages = [h \in Handler |-> <<>>]
  /\ done = [h \in Handler |-> 0]
  /\ slow = [h \in Handler |-> FALSE]
  /\ ctxDone = [h \in Handler |-> FALSE]
  /\ pc = [h \in Handler |-> "idle"]
  /\ holding = [h \in Handler |-> <<>>]
  /\ sent = [h \in Handler |-> <<>>]
  /\ joined = [h \in Handler |-> NotJoined]
  /\ result = [h \in Handler |-> "none"]

-----------------------------------------------------------------------------
(* broker.go *)

\* The subscribers whose buffer has no room for one more message.
Lagging == {h \in subscribers : Len(messages[h]) >= Buffer}

\* What one publication does to the map: the message goes to `reached`, the done
\* channels of `ended` are closed, `failed` get errSlowSubscriber, `removed`
\* leave the map.
Offer(reached, ended, failed, removed) ==
  /\ ~closed
  /\ published < MaxPublished
  /\ published' = published + 1
  /\ messages' = [h \in Handler |->
                    IF h \in reached THEN Append(messages[h], published + 1) ELSE messages[h]]
  /\ done' = [h \in Handler |-> IF h \in ended THEN done[h] + 1 ELSE done[h]]
  /\ slow' = [h \in Handler |-> slow[h] \/ h \in failed]
  /\ subscribers' = subscribers \ removed
  /\ UNCHANGED <<closed, handlerVars>>

\* Faulty publications: the overrun message is dropped and the stream goes on;
\* err is not recorded.
PublishDrops == Offer(subscribers \ Lagging, {}, {}, {})
PublishWithoutErr == Offer(subscribers \ Lagging, Lagging, {}, Lagging)

\* publish(): offer the message to every subscriber without blocking; the ones
\* with no room are marked slow, their done channel is closed and they leave
\* the map.  A closed broker ignores the message.
Publish == Offer(subscribers \ Lagging, Lagging, Lagging, Lagging)

\* The broker closes, ending the subscriptions in `ended`.
Shut(ended, removed) ==
  /\ ~closed
  /\ closed' = TRUE
  /\ done' = [h \in Handler |-> IF h \in ended THEN done[h] + 1 ELSE done[h]]
  /\ subscribers' = subscribers \ removed
  /\ UNCHANGED <<published, messages, slow, handlerVars>>

\* A faulty shutdown: done stays open.
CloseWithoutDone == Shut({}, subscribers)

\* broker.close(): end every subscription and refuse new ones.
Close == Shut(subscribers, subscribers)

-----------------------------------------------------------------------------
(* service.go, FetchResponseData *)

\* subscribe(): a closed broker hands out a subscription that is already done.
Subscribe(h) ==
  /\ pc[h] = "idle"
  /\ pc' = [pc EXCEPT ![h] = "header"]
  /\ joined' = [joined EXCEPT ![h] = published]
  /\ IF closed
       THEN /\ done' = [done EXCEPT ![h] = @ + 1]
            /\ UNCHANGED subscribers
       ELSE /\ subscribers' = subscribers \cup {h}
            /\ UNCHANGED done
  /\ UNCHANGED <<published, closed, messages, slow, ctxDone, holding, sent, result>>

Return(h, status) ==
  /\ pc' = [pc EXCEPT ![h] = "deferred"]
  /\ result' = [result EXCEPT ![h] = status]

\* stream.SendHeader succeeds: the client may now send connect.
SendHeader(h) ==
  /\ pc[h] = "header"
  /\ pc' = [pc EXCEPT ![h] = "loop"]
  /\ UNCHANGED <<brokerVars, ctxDone, holding, sent, joined, result>>

\* stream.SendHeader or stream.Send fails: the transport is gone.
TransportFails(h) ==
  /\ pc[h] \in {"header", "send"}
  /\ Return(h, "transport")
  /\ UNCHANGED <<brokerVars, ctxDone, holding, sent, joined>>

\* case message := <-sub.messages
Receive(h) ==
  /\ pc[h] = "loop"
  /\ messages[h] # <<>>
  /\ holding' = [holding EXCEPT ![h] = <<Head(messages[h])>>]
  /\ messages' = [messages EXCEPT ![h] = Tail(@)]
  /\ pc' = [pc EXCEPT ![h] = "send"]
  /\ UNCHANGED <<published, closed, subscribers, done, slow, ctxDone, sent, joined, result>>

\* stream.Send returns: gRPC accepted the message.
Send(h) ==
  /\ pc[h] = "send"
  /\ sent' = [sent EXCEPT ![h] = @ \o holding[h]]
  /\ holding' = [holding EXCEPT ![h] = <<>>]
  /\ pc' = [pc EXCEPT ![h] = "loop"]
  /\ UNCHANGED <<brokerVars, ctxDone, joined, result>>

\* case <-sub.done: the status tells a slow subscriber from a shutdown.
ObserveDone(h) ==
  /\ pc[h] = "loop"
  /\ done[h] > 0
  /\ Return(h, IF slow[h] THEN "ResourceExhausted" ELSE "ok")
  /\ UNCHANGED <<brokerVars, ctxDone, holding, sent, joined>>

\* case <-stream.Context().Done()
ObserveCancel(h) ==
  /\ pc[h] = "loop"
  /\ ctxDone[h]
  /\ Return(h, "cancelled")
  /\ UNCHANGED <<brokerVars, ctxDone, holding, sent, joined>>

\* defer sub.close(): nothing to do when the broker already detached it.
DeferredClose(h) ==
  /\ pc[h] = "deferred"
  /\ pc' = [pc EXCEPT ![h] = "returned"]
  /\ IF h \in subscribers
       THEN /\ done' = [done EXCEPT ![h] = @ + 1]
            /\ subscribers' = subscribers \ {h}
       ELSE UNCHANGED <<done, subscribers>>
  /\ UNCHANGED <<published, closed, messages, slow, ctxDone, holding, sent, joined, result>>

\* The client goes away, or gRPC cancels the stream.
Cancel(h) ==
  /\ pc[h] \notin {"idle", "returned"}
  /\ ~ctxDone[h]
  /\ ctxDone' = [ctxDone EXCEPT ![h] = TRUE]
  /\ UNCHANGED <<brokerVars, pc, holding, sent, joined, result>>

\* The handler's own steps, stream.Send aside.
Handle(h) ==
  \/ SendHeader(h)
  \/ Receive(h)
  \/ ObserveDone(h) \/ ObserveCancel(h)
  \/ DeferredClose(h)

\* stream.Send returns, one way or the other.
SendReturns(h) == Send(h) \/ TransportFails(h)

Next ==
  \/ Publish
  \/ Close
  \/ \E h \in Handler : Subscribe(h) \/ Handle(h) \/ SendReturns(h) \/ Cancel(h)

Spec == Init /\ [][Next]_vars

\* A runnable goroutine is scheduled.  stream.Send is under gRPC flow control: a
\* client that stops reading blocks it, and only a cancelled stream frees it.
Fairness ==
  \A h \in Handler : /\ WF_vars(Handle(h))
                     /\ WF_vars(ctxDone[h] /\ SendReturns(h))
FairSpec == Spec /\ Fairness

-----------------------------------------------------------------------------
(* Properties *)

\* Everything the subscription has carried so far, oldest first.
Carried(h) == sent[h] \o holding[h] \o messages[h]

\* No stream skips, repeats or reorders a message: what went through its queue
\* is the run of publications that starts right after it subscribed
\* (publish and the loop of FetchResponseData; "every gRPC subscriber sees
\* every XML message", docs/architecture.md).
ContiguousRun ==
  \A h \in Handler : \A i \in 1..Len(Carried(h)) : Carried(h)[i] = joined[h] + i

\* A subscription still in the map has missed nothing: its run reaches the last
\* publication, so the messages between the readiness header and the connect
\* command cannot be lost (the handshake comment of FetchResponseData).
AttachedIsCurrent ==
  \A h \in subscribers : joined[h] + Len(Carried(h)) = published

\* The done channel is closed at most once, whatever publish, broker.close and
\* the deferred subscription.close do in whatever order: a second close panics.
DoneClosedOnce == \A h \in Handler : done[h] <= 1

\* The returned status is honest: ResourceExhausted is for a stream that did
\* miss a message while the broker ran, a clean end only for a shutdown.
HonestStatus ==
  \A h \in Handler :
    /\ result[h] = "ResourceExhausted" => joined[h] + Len(Carried(h)) < published
    /\ result[h] = "ok" => closed

\* A detached subscription is never fed again (publish ranges over the map).
DetachedIsFinal ==
  [][\A h \in Handler :
       done[h] > 0 => /\ h \notin subscribers'
                      /\ Len(messages'[h]) <= Len(messages[h])]_vars

\* Whoever is not in the map any more, being slow or after a shutdown, ends its
\* RPC, unless gRPC never lets its stream.Send return: the select of
\* FetchResponseData may prefer the queue to done, but the queue is finite.
DetachedReturns ==
  \A h \in Handler :
    []<>(pc[h] # "send") =>
      (joined[h] # NotJoined /\ h \notin subscribers ~> pc[h] = "returned")

\* The streams see what FanOut promises.
Promise == INSTANCE FanOut WITH handed <- sent
ImplementsFanOut == Promise!Spec
=============================================================================
