---------------------------- MODULE Session_proofs ----------------------------
(***************************************************************************)
(* The safety properties of Session.tla and of NativeClient.tla, for any   *)
(* callers, instruments, clients, orders and bounds.                       *)
(*                                                                         *)
(* Session.  No exchange of a connection gets the reply of another, and a  *)
(* transaction that failed ordinarily never left.  ExchangesApart is not   *)
(* inductive: it speaks of results.  The reason for them is on the wire:   *)
(* the replies still to come answer the abandoned types, in order, then    *)
(* the request of the reader; and no number is used twice, so what was     *)
(* written is never the call that has not got there.                       *)
(*                                                                         *)
(* The client.  Its properties speak of what it has read; what makes them  *)
(* true is what it has not.  NativeInv says of every inbox that it brings  *)
(* the trades of an instrument without a gap behind the last one told,     *)
(* and of an order only newer statuses, the last among them; that the      *)
(* first record of a session is its catalog; and that the masks of server  *)
(* and client differ only inside a command.                                *)
(***************************************************************************)
EXTENDS Session, NativeClient, Integers, FiniteSetTheorems, SequenceTheorems, WellFoundedInduction, TLAPS

\* One caller holds the lock; an AfterFunc belongs to its exchange, and one that
\* runs has a done context.
Holding ==
  /\ \A c, d \in mu : c = d
  /\ \A c \in Caller : /\ timer[c] # "none" => c \in mu
                       /\ timer[c] = "running" => ctxDone[c]
  /\ link => open

\* With no timeout and no stray deadline, a deadline in the past is the own
\* context's.
OwnDeadline ==
  /\ stray <= late
  /\ late = 0 => \A c \in mu : expired => ctxDone[c]

\* The k-th reply still to come, m, answers an abandoned type or the own request.
Due(left, own, k, m) ==
  \/ k <= Len(left) /\ m.type = left[k]
  \/ k = Len(left) + 1 /\ m.type = own.type /\ m.id = own.id

\* So it is for a reader: all that has arrived, and while the link works all
\* that will, its own reply last.
ReaderDue(c) ==
  /\ \A k \in 1..Len(replies) : replies[k].kind = "reply" => Due(abandoned, call[c], k, replies[k])
  /\ link => /\ \A k \in 1..Len(requests) : Due(abandoned, call[c], Len(replies) + k, requests[k])
             /\ Len(replies) + Len(requests) = Len(abandoned) + 1

\* Between two reads only abandoned replies are to come.
Backlog ==
  /\ \A k \in 1..Len(replies) : replies[k].type = abandoned[k]
  /\ \A k \in 1..Len(requests) : requests[k].type = abandoned[Len(replies) + k]
  /\ Len(replies) + Len(requests) = Len(abandoned)

OnTheWire ==
  /\ link => \A k \in 1..Len(replies) : replies[k].kind = "reply"
  /\ late = 0 => /\ \A c \in Caller : pc[c] = "read" => ReaderDue(c)
                 /\ link /\ (\A c \in Caller : pc[c] # "read") => Backlog

\* Calls are numbered apart, and one that has not written is not among the written.
NumbersApart ==
  /\ \A c \in Caller : call[c].id <= calls /\ (pc[c] # "idle" => call[c].id >= 1)
  /\ \A c, d \in Caller : c # d /\ call[c].id = call[d].id => call[c].id = 0
  /\ \A n \in written : n <= calls
  /\ \A c \in Caller : pc[c] \in {"lock", "write"} => call[c].id \notin written

\* A result is that of the caller's last call, which is over.
Results ==
  /\ \A c \in Caller :
       result[c].kind # "none" => /\ pc[c] = "idle"
                                  /\ result[c].id = call[c].id /\ result[c].id >= 1
  /\ AnswerOwnUntilLate /\ OrdinaryUnsent

SessionInv ==
  /\ SessionTypeOK /\ Holding /\ OwnDeadline /\ OnTheWire /\ NumbersApart /\ Results

-----------------------------------------------------------------------------
(* Types *)

\* A call that returns leaves the lock, its AfterFunc and the section.
Gone(c, kind, n) ==
  /\ mu' = mu \ {c} /\ UNCHANGED <<calls, call, ctxDone>>
  /\ pc' \in [Caller -> {"idle", "lock", "write", "read"}]
  /\ pc'[c] = "idle" /\ \A d \in Caller : d # c => pc'[d] = pc[d]
  /\ timer' \in [Caller -> {"none", "armed", "running"}]
  /\ timer'[c] = "none" /\ \A d \in Caller : d # c => timer'[d] = timer[d]
  /\ result' \in [Caller -> [kind : Returned, id : Number, type : RequestType, answered : Number]]
  /\ result'[c].kind = kind /\ result'[c].answered = n
  /\ result'[c].id = call[c].id /\ result'[c].type = call[c].type
  /\ \A d \in Caller : d # c => result'[d] = result[d]

\* Leave does that.
LEMMA Left ==
  ASSUME SessionTypeOK, NEW c \in Caller, NEW kind \in Returned, NEW n \in Number, Leave(c, kind, n)
  PROVE  Gone(c, kind, n)
<1>1. /\ mu' = mu \ {c} /\ UNCHANGED <<calls, call, ctxDone>>
      /\ pc' = [pc EXCEPT ![c] = "idle"] /\ timer' = [timer EXCEPT ![c] = "none"]
  BY DEF Leave, LeaveHolding, callVars
<1>2. PICK r \in [kind : Returned, id : Number, type : RequestType, answered : Number] :
        /\ r = [kind |-> kind, id |-> call[c].id, type |-> call[c].type, answered |-> n]
        /\ result' = [result EXCEPT ![c] = r]
  <2>1. call[c].id \in Number /\ call[c].type \in RequestType
    BY DEF SessionTypeOK, WireRequest
  <2> QED
    BY <2>1 DEF Leave, LeaveHolding
<1>3. r.kind = kind /\ r.answered = n /\ r.id = call[c].id /\ r.type = call[c].type
  BY <1>2
<1>4. /\ result' \in [Caller -> [kind : Returned, id : Number, type : RequestType, answered : Number]]
      /\ result'[c] = r /\ \A d \in Caller : d # c => result'[d] = result[d]
  BY <1>2 DEF SessionTypeOK
<1>5. /\ pc' \in [Caller -> {"idle", "lock", "write", "read"}]
      /\ pc'[c] = "idle" /\ \A d \in Caller : d # c => pc'[d] = pc[d]
  BY <1>1 DEF SessionTypeOK
<1>6. /\ timer' \in [Caller -> {"none", "armed", "running"}]
      /\ timer'[c] = "none" /\ \A d \in Caller : d # c => timer'[d] = timer[d]
  BY <1>1 DEF SessionTypeOK
<1> QED
  BY <1>1, <1>3, <1>4, <1>5, <1>6 DEF Gone

\* The calls that return, and how.
LEMMA LeavingAs ==
  ASSUME SessionTypeOK, NEW c \in Caller
  PROVE  /\ EnterClosed(c) => Gone(c, "ordinary", 0)
         /\ WriteFails(c) => Gone(c, Failure(c), 0)
         /\ ReadFails(c) => Gone(c, Failure(c), 0)
         /\ ReadReply(c) => \/ Gone(c, "outcome", 0) \/ Gone(c, Failure(c), 0)
                            \/ /\ Gone(c, "reply", Head(replies).id)
                               /\ Head(replies).kind = "reply" /\ Head(replies).type = call[c].type
<1>1. 0 \in Number /\ "ordinary" \in Returned /\ "reply" \in Returned /\ "outcome" \in Returned
  BY CallsAssumption DEF Number, Returned
<1>2. Failure(c) \in Returned
  BY DEF Failure, Returned
<1>3. EnterClosed(c) => Gone(c, "ordinary", 0)
  BY <1>1, Left DEF EnterClosed
<1>4. WriteFails(c) => Gone(c, Failure(c), 0)
  BY <1>1, <1>2, Left DEF WriteFails, WriteFailsAs
<1>5. ReadFails(c) => Gone(c, Failure(c), 0)
  BY <1>1, <1>2, Left DEF ReadFails, ReadFailsLeaving
<1>6. ASSUME ReadReply(c)
      PROVE  \/ Gone(c, "outcome", 0) \/ Gone(c, Failure(c), 0)
             \/ /\ Gone(c, "reply", Head(replies).id)
                /\ Head(replies).kind = "reply" /\ Head(replies).type = call[c].type
  <2>1. PICK f \in Frame : f = Head(replies)
    BY <1>6, HeadTailProperties DEF ReadReply, SessionTypeOK
  <2>2. f.id \in Number
    BY DEF Frame
  <2>3. \/ f.kind = "reply" /\ f.type = call[c].type /\ Leave(c, "reply", f.id)
        \/ Leave(c, "outcome", 0) \/ Leave(c, Failure(c), 0)
    BY <1>6, <2>1 DEF ReadReply
  <2> QED
    BY <1>1, <1>2, <2>1, <2>2, <2>3, Left
<1> QED
  BY <1>3, <1>4, <1>5, <1>6

Returns(c) == EnterClosed(c) \/ WriteFails(c) \/ ReadReply(c) \/ ReadFails(c)

\* Whoever returns was in a call.
LEMMA Leaving ==
  ASSUME SessionTypeOK, NEW c \in Caller, Returns(c)
  PROVE  pc[c] # "idle" /\ \E kind, n : Gone(c, kind, n)
<1>1. pc[c] # "idle"
  BY DEF Returns, EnterClosed, WriteFails, WriteFailsAs, ReadReply, ReadFails, ReadFailsLeaving
<1> QED
  BY <1>1, LeavingAs DEF Returns

\* The calls, their contexts and results are well typed after every step.
LEMMA CallerTypes ==
  ASSUME SessionTypeOK, [SessionNext]_sessionVars
  PROVE  /\ calls' \in Number /\ call' \in [Caller -> WireRequest]
         /\ ctxDone' \in [Caller -> BOOLEAN]
         /\ timer' \in [Caller -> {"none", "armed", "running"}]
         /\ pc' \in [Caller -> {"idle", "lock", "write", "read"}]
         /\ result' \in [Caller -> [kind : Returned, id : Number, type : RequestType,
                                    answered : Number]]
<1> DEFINE Goal == /\ calls' \in Number /\ call' \in [Caller -> WireRequest]
                   /\ ctxDone' \in [Caller -> BOOLEAN]
                   /\ timer' \in [Caller -> {"none", "armed", "running"}]
                   /\ pc' \in [Caller -> {"idle", "lock", "write", "read"}]
                   /\ result' \in [Caller -> [kind : Returned, id : Number, type : RequestType,
                                              answered : Number]]
<1>1. ASSUME UNCHANGED <<calls, call, ctxDone, timer, pc, result>>
      PROVE  Goal
  BY <1>1 DEF SessionTypeOK
<1>2. ASSUME NEW c \in Caller, Returns(c)
      PROVE  Goal
  BY <1>1, <1>2, Leaving DEF Gone, SessionTypeOK
<1>3. ASSUME NEW c \in Caller, NEW t \in RequestType, Call(c, t)
      PROVE  Goal
  <2>1. calls' \in Number /\ calls' = calls + 1
    BY <1>3, CallsAssumption DEF Call, SessionTypeOK, Number
  <2>2. [id |-> calls + 1, type |-> t] \in WireRequest
    BY <2>1 DEF WireRequest
  <2>3. NoResult \in [kind : Returned, id : Number, type : RequestType, answered : Number]
    BY TypeAssumption, CallsAssumption DEF NoResult, Returned, Number
  <2> QED
    BY <1>3, <2>1, <2>2, <2>3 DEF Call, SessionTypeOK
<1>4. ASSUME NEW c \in Caller, CancelCtx(c) \/ Fire(c) \/ Enter(c) \/ Write(c)
      PROVE  Goal
  <2>1. UNCHANGED <<calls, call, result>>
    BY <1>4 DEF CancelCtx, Fire, Enter, Write, callVars
  <2>2. ctxDone' = ctxDone \/ ctxDone' = [ctxDone EXCEPT ![c] = TRUE]
    BY <1>4 DEF CancelCtx, Fire, Enter, Write
  <2>3. timer' = timer \/ \E v \in {"none", "armed", "running"} : timer' = [timer EXCEPT ![c] = v]
    BY <1>4 DEF CancelCtx, Fire, Enter, Write, SessionTypeOK
  <2>4. pc' = pc \/ \E v \in {"write", "read"} : pc' = [pc EXCEPT ![c] = v]
    BY <1>4 DEF CancelCtx, Fire, Enter, Write
  <2>5. ctxDone' \in [Caller -> BOOLEAN]
    BY <2>2 DEF SessionTypeOK
  <2>6. timer' \in [Caller -> {"none", "armed", "running"}]
    BY <2>3 DEF SessionTypeOK
  <2>7. pc' \in [Caller -> {"idle", "lock", "write", "read"}]
    BY <2>4 DEF SessionTypeOK
  <2> QED
    BY <2>1, <2>5, <2>6, <2>7 DEF SessionTypeOK
<1>5. ASSUME NEW c \in Caller, ReadStale(c) \/ Timeout(c)
      PROVE  Goal
  BY <1>1, <1>5 DEF ReadStale, Timeout, callVars
<1>6. ASSUME StrayDeadline \/ Answer \/ LinkBreaks \/ Restore \/ CloseConn \/ UNCHANGED sessionVars
      PROVE  Goal
  BY <1>1, <1>6 DEF StrayDeadline, Answer, LinkBreaks, Restore, CloseConn, callVars, sessionVars
<1> HIDE DEF Goal
<1>7. Goal
  BY <1>2, <1>3, <1>4, <1>5, <1>6 DEF SessionNext, Exchange, Returns
<1> QED
  BY <1>7 DEF Goal

\* The connection is well typed after every step.
LEMMA WireTypes ==
  ASSUME SessionTypeOK, OwnDeadline, [SessionNext]_sessionVars
  PROVE  /\ open' \in BOOLEAN /\ link' \in BOOLEAN /\ expired' \in BOOLEAN
         /\ stray' \in 0..MaxLate /\ late' \in 0..MaxLate /\ stray' <= late'
         /\ abandoned' \in Seq(RequestType)
         /\ requests' \in Seq(WireRequest) /\ replies' \in Seq(Frame)
         /\ restores' \in 0..MaxRestores
         /\ written' \subseteq Number
<1> USE DEF SessionNext, Exchange, sessionVars, wireVars, callVars
<1>1. open' \in BOOLEAN
  BY DEF SessionTypeOK, Call, EnterClosed, Enter, Write, WriteFails, WriteFailsAs, ReadStale,
         ReadReply, ReadFails, ReadFailsLeaving, CancelCtx, Fire, Timeout, StrayDeadline, Answer,
         LinkBreaks, Restore, CloseConn
<1>2. link' \in BOOLEAN
  BY DEF SessionTypeOK, Call, EnterClosed, Enter, Write, WriteFails, WriteFailsAs, ReadStale,
         ReadReply, ReadFails, ReadFailsLeaving, CancelCtx, Fire, Timeout, StrayDeadline, Answer,
         LinkBreaks, Restore, CloseConn
<1>3. expired' \in BOOLEAN
  BY DEF SessionTypeOK, Call, EnterClosed, Enter, Write, WriteFails, WriteFailsAs, ReadStale,
         ReadReply, ReadFails, ReadFailsLeaving, CancelCtx, Fire, Timeout, StrayDeadline, Answer,
         LinkBreaks, Restore, CloseConn
<1>4. stray' \in 0..MaxLate /\ late' \in 0..MaxLate /\ stray' <= late'
  <2>0. stray \in 0..MaxLate /\ late \in 0..MaxLate /\ stray <= late /\ MaxLate \in Nat
    BY LateAssumption DEF SessionTypeOK, OwnDeadline
  <2>1. ASSUME NEW c \in Caller, WriteFails(c) \/ ReadReply(c) \/ ReadFails(c)
        PROVE  stray' \in 0..MaxLate /\ late' \in 0..MaxLate /\ stray' <= late'
    <3>1. StayBehind(c) \in 0..1
      BY DEF StayBehind
    <3>2. PICK n \in 0..1 : late + n <= MaxLate /\ late' = late + n /\ stray' = stray + n
      BY <2>1, <3>1 DEF WriteFails, WriteFailsAs, ReadReply, ReadFails, ReadFailsLeaving
    <3> QED
      BY <2>0, <3>2
  <2>2. ASSUME NEW c \in Caller, Timeout(c)
        PROVE  stray' \in 0..MaxLate /\ late' \in 0..MaxLate /\ stray' <= late'
    BY <2>0, <2>2 DEF Timeout
  <2>3. ASSUME late' = late, stray' = stray \/ stray' = 0 \/ (stray > 0 /\ stray' = stray - 1)
        PROVE  stray' \in 0..MaxLate /\ late' \in 0..MaxLate /\ stray' <= late'
    BY <2>0, <2>3
  <2> QED
    BY <2>1, <2>2, <2>3
       DEF Call, EnterClosed, Enter, Write, ReadStale, CancelCtx, Fire, StrayDeadline, Answer,
           LinkBreaks, Restore, CloseConn
<1>5. abandoned' \in Seq(RequestType)
  <2>0. abandoned \in Seq(RequestType)
    BY DEF SessionTypeOK
  <2>1. ASSUME NEW c \in Caller, ReadStale(c)
        PROVE  abandoned' \in Seq(RequestType)
    BY <2>0, <2>1, HeadTailProperties DEF ReadStale, Stale
  <2>2. ASSUME NEW c \in Caller, ReadFails(c)
        PROVE  abandoned' \in Seq(RequestType)
    <3>1. call[c].type \in RequestType
      BY DEF SessionTypeOK, WireRequest
    <3>2. /\ <<call[c].type>> \in Seq(RequestType) /\ <<>> \in Seq(RequestType)
      BY <3>1
    <3>3. PICK left \in Seq(RequestType) : abandoned' = abandoned \o left
      BY <2>2, <3>2 DEF ReadFails, ReadFailsLeaving
    <3> QED
      BY <2>0, <3>3, ConcatProperties
  <2>3. ASSUME abandoned' = abandoned \/ abandoned' = <<>>
        PROVE  abandoned' \in Seq(RequestType)
    BY <2>0, <2>3, EmptySeq
  <2> QED
    BY <2>1, <2>2, <2>3
       DEF Call, EnterClosed, Enter, Write, WriteFails, WriteFailsAs, ReadReply, CancelCtx, Fire,
           Timeout, StrayDeadline, Answer, LinkBreaks, Restore, CloseConn
<1>6. requests' \in Seq(WireRequest)
  <2>0. requests \in Seq(WireRequest)
    BY DEF SessionTypeOK
  <2>1. ASSUME NEW c \in Caller, Write(c)
        PROVE  requests' \in Seq(WireRequest)
    <3>1. call[c] \in WireRequest
      BY DEF SessionTypeOK
    <3> QED
      BY <2>0, <2>1, <3>1, AppendProperties DEF Write
  <2>2. ASSUME Answer
        PROVE  requests' \in Seq(WireRequest)
    BY <2>0, <2>2, HeadTailProperties DEF Answer
  <2>3. ASSUME requests' = requests \/ requests' = <<>>
        PROVE  requests' \in Seq(WireRequest)
    BY <2>0, <2>3, EmptySeq
  <2> QED
    BY <2>1, <2>2, <2>3
       DEF Call, EnterClosed, Enter, WriteFails, WriteFailsAs, ReadStale, ReadReply, ReadFails,
           ReadFailsLeaving, CancelCtx, Fire, Timeout, StrayDeadline, LinkBreaks, Restore, CloseConn
<1>7. replies' \in Seq(Frame)
  <2>0. replies \in Seq(Frame)
    BY DEF SessionTypeOK
  <2>1. ASSUME Answer
        PROVE  replies' \in Seq(Frame)
    <3>1. PICK r \in WireRequest : r = Head(requests)
      BY <2>1, HeadTailProperties DEF Answer, SessionTypeOK
    <3>2. [id |-> r.id, type |-> r.type, kind |-> "reply"] \in Frame
      BY DEF WireRequest, Frame
    <3> QED
      BY <2>0, <2>1, <3>1, <3>2, AppendProperties DEF Answer
  <2>2. ASSUME LinkBreaks
        PROVE  replies' \in Seq(Frame)
    <3>1. [id |-> 0, type |-> "transact", kind |-> "bye"] \in Frame
      BY TypeAssumption, CallsAssumption DEF Frame, Number
    <3>2. <<[id |-> 0, type |-> "transact", kind |-> "bye"]>> \in Seq(Frame) /\ <<>> \in Seq(Frame)
      BY <3>1
    <3>3. PICK bye \in Seq(Frame) : replies' = replies \o bye
      BY <2>2, <3>2 DEF LinkBreaks
    <3> QED
      BY <2>0, <3>3, ConcatProperties
  <2>3. ASSUME NEW c \in Caller, ReadStale(c) \/ ReadReply(c)
        PROVE  replies' \in Seq(Frame)
    BY <2>0, <2>3, HeadTailProperties DEF ReadStale, ReadReply
  <2>4. ASSUME replies' = replies \/ replies' = <<>>
        PROVE  replies' \in Seq(Frame)
    BY <2>0, <2>4, EmptySeq
  <2> QED
    BY <2>1, <2>2, <2>3, <2>4
       DEF Call, EnterClosed, Enter, Write, WriteFails, WriteFailsAs, ReadFails, ReadFailsLeaving,
           CancelCtx, Fire, Timeout, StrayDeadline, Restore, CloseConn
<1>8. restores' \in 0..MaxRestores
  <2>1. restores' = restores \/ (restores < MaxRestores /\ restores' = restores + 1)
    BY DEF Call, EnterClosed, Enter, Write, WriteFails, WriteFailsAs, ReadStale,
         ReadReply, ReadFails, ReadFailsLeaving, CancelCtx, Fire, Timeout, StrayDeadline, Answer,
         LinkBreaks, Restore, CloseConn
  <2> QED
    BY <2>1, RestoresAssumption DEF SessionTypeOK
<1>9. written' \subseteq Number
  <2>1. written' = written \/ \E c \in Caller : written' = written \cup {call[c].id}
    BY DEF Call, EnterClosed, Enter, Write, WriteFails, WriteFailsAs, ReadStale,
         ReadReply, ReadFails, ReadFailsLeaving, CancelCtx, Fire, Timeout, StrayDeadline, Answer,
         LinkBreaks, Restore, CloseConn
  <2> QED
    BY <2>1 DEF SessionTypeOK, WireRequest
<1> QED
  BY <1>1, <1>2, <1>3, <1>4, <1>5, <1>6, <1>7, <1>8, <1>9

\* The lock has one holder, who is between write and read; AfterFuncs are its own.
LEMMA LockStep ==
  ASSUME SessionTypeOK, Holding, OwnDeadline, [SessionNext]_sessionVars
  PROVE  /\ mu' \subseteq Caller /\ Cardinality(mu') <= 1
         /\ \A c \in Caller : pc'[c] \in {"write", "read"} <=> c \in mu'
         /\ Holding' /\ OwnDeadline'
<1> DEFINE Goal == /\ mu' \subseteq Caller
                   /\ \A c \in Caller : pc'[c] \in {"write", "read"} <=> c \in mu'
                   /\ Holding' /\ OwnDeadline'
<1> USE DEF wireVars, callVars
<1>0. late \in Nat /\ stray \in Nat /\ late' \in Nat /\ stray' <= late'
  BY WireTypes, LateAssumption DEF SessionTypeOK
\* A step that leaves the callers where they are.
<1>1. ASSUME UNCHANGED <<mu, pc, timer, ctxDone>>, link' => open',
             late' = 0 => late = 0 /\ (expired' => expired)
      PROVE  Goal
  BY <1>0, <1>1 DEF SessionTypeOK, Holding, OwnDeadline
<1>2. ASSUME NEW c \in Caller, Returns(c)
      PROVE  Goal
  <2>1. PICK kind, n : Gone(c, kind, n)
    BY <1>2, Leaving
  <2>2. expired' = expired /\ link' = link /\ open' = open
    BY <1>2 DEF Returns, EnterClosed, WriteFails, WriteFailsAs, ReadReply, ReadFails, ReadFailsLeaving
  <2>3. late' = 0 => late = 0
    <3>1. StayBehind(c) \in 0..1
      BY DEF StayBehind
    <3>2. late' = late \/ late' = late + StayBehind(c)
      BY <1>2 DEF Returns, EnterClosed, WriteFails, WriteFailsAs, ReadReply, ReadFails, ReadFailsLeaving
    <3> QED
      BY <1>0, <3>1, <3>2
  <2>4. mu' \subseteq mu /\ mu' \subseteq Caller /\ \A d \in Caller : pc'[d] \in {"write", "read"} <=> d \in mu'
    BY <2>1 DEF Gone, SessionTypeOK
  <2>5. Holding'
    BY <2>1, <2>2, <2>4 DEF Gone, Holding
  <2>6. OwnDeadline'
    BY <1>0, <2>1, <2>2, <2>3, <2>4 DEF Gone, OwnDeadline
  <2> QED
    BY <2>4, <2>5, <2>6
<1>3. ASSUME NEW c \in Caller, NEW t \in RequestType, Call(c, t)
      PROVE  Goal
  <2>1. /\ UNCHANGED <<mu, timer, expired, late, open, link, stray>>
        /\ pc[c] = "idle" /\ pc' = [pc EXCEPT ![c] = "lock"] /\ ctxDone' = [ctxDone EXCEPT ![c] = FALSE]
    BY <1>3 DEF Call
  <2>2. c \notin mu
    BY <2>1 DEF SessionTypeOK
  <2>3. \A d \in Caller : d # c => pc'[d] = pc[d] /\ ctxDone'[d] = ctxDone[d]
    BY <2>1 DEF SessionTypeOK
  <2>4. pc'[c] = "lock"
    BY <2>1 DEF SessionTypeOK
  <2>5. mu' \subseteq Caller /\ \A d \in Caller : pc'[d] \in {"write", "read"} <=> d \in mu'
    BY <2>1, <2>2, <2>3, <2>4 DEF SessionTypeOK
  <2>6. Holding'
    BY <2>1, <2>2, <2>3 DEF Holding
  <2>7. OwnDeadline'
    BY <2>1, <2>2, <2>3, <2>5 DEF OwnDeadline
  <2> QED
    BY <2>5, <2>6, <2>7
<1>4. ASSUME NEW c \in Caller, CancelCtx(c)
      PROVE  Goal
  <2>1. /\ UNCHANGED <<mu, pc, expired, late, open, link, stray>>
        /\ ctxDone' = [ctxDone EXCEPT ![c] = TRUE]
        /\ timer' = [timer EXCEPT ![c] = IF timer[c] = "armed" THEN "running" ELSE timer[c]]
    BY <1>4 DEF CancelCtx
  <2>2. /\ ctxDone'[c] = TRUE /\ \A d \in Caller : d # c => ctxDone'[d] = ctxDone[d]
    BY <2>1 DEF SessionTypeOK
  <2>3. /\ timer'[c] # "none" => timer[c] # "none"
        /\ \A d \in Caller : d # c => timer'[d] = timer[d]
    BY <2>1 DEF SessionTypeOK
  <2>4. mu' \subseteq Caller /\ \A d \in Caller : pc'[d] \in {"write", "read"} <=> d \in mu'
    BY <2>1 DEF SessionTypeOK
  <2>5. Holding'
    BY <2>1, <2>2, <2>3 DEF Holding
  <2>6. OwnDeadline'
    BY <2>1, <2>2, <2>4 DEF OwnDeadline
  <2> QED
    BY <2>4, <2>5, <2>6
<1>5. ASSUME NEW c \in Caller, Fire(c)
      PROVE  Goal
  <2>1. /\ UNCHANGED <<mu, pc, ctxDone, late, open, link, stray>>
        /\ timer[c] = "running" /\ timer' = [timer EXCEPT ![c] = "none"]
    BY <1>5 DEF Fire
  <2>2. c \in mu /\ ctxDone[c] /\ \A d \in mu : d = c
    BY <2>1 DEF Holding
  <2>3. timer'[c] = "none" /\ \A d \in Caller : d # c => timer'[d] = timer[d]
    BY <2>1 DEF SessionTypeOK
  <2>4. mu' \subseteq Caller /\ \A d \in Caller : pc'[d] \in {"write", "read"} <=> d \in mu'
    BY <2>1 DEF SessionTypeOK
  <2>5. Holding'
    BY <2>1, <2>3 DEF Holding
  <2>6. OwnDeadline'
    BY <2>1, <2>2 DEF OwnDeadline
  <2> QED
    BY <2>4, <2>5, <2>6
<1>6. ASSUME NEW c \in Caller, Enter(c)
      PROVE  Goal
  <2>1. /\ UNCHANGED <<ctxDone, late, open, link, stray>> /\ mu = {} /\ mu' = {c} /\ expired' = FALSE
        /\ pc' = [pc EXCEPT ![c] = "write"]
        /\ timer' = [timer EXCEPT ![c] = IF ctxDone[c] THEN "running" ELSE "armed"]
    BY <1>6 DEF Enter
  <2>2. /\ timer'[c] = "running" => ctxDone'[c]
        /\ \A d \in Caller : d # c => timer'[d] = timer[d]
    BY <2>1 DEF SessionTypeOK
  <2>3. mu' \subseteq Caller /\ \A d \in Caller : pc'[d] \in {"write", "read"} <=> d \in mu'
    BY <2>1 DEF SessionTypeOK
  <2>4. Holding'
    BY <2>1, <2>2 DEF Holding
  <2>5. OwnDeadline'
    BY <2>1 DEF OwnDeadline
  <2> QED
    BY <2>3, <2>4, <2>5
<1>7. ASSUME NEW c \in Caller, Write(c)
      PROVE  Goal
  <2>1. /\ UNCHANGED <<mu, ctxDone, late, open, link, stray, timer, expired>>
        /\ pc[c] = "write" /\ pc' = [pc EXCEPT ![c] = "read"]
    BY <1>7 DEF Write
  <2>2. mu' \subseteq Caller /\ \A d \in Caller : pc'[d] \in {"write", "read"} <=> d \in mu'
    BY <2>1 DEF SessionTypeOK
  <2> QED
    BY <2>1, <2>2 DEF Holding, OwnDeadline
<1>8. ASSUME NEW c \in Caller, ReadStale(c)
      PROVE  Goal
  BY <1>1, <1>8 DEF ReadStale, Holding
<1>9. ASSUME NEW c \in Caller, Timeout(c)
      PROVE  Goal
  <2>1. UNCHANGED <<mu, pc, timer, ctxDone, open, link>> /\ late' # 0
    BY <1>0, <1>9 DEF Timeout
  <2> QED
    BY <1>1, <2>1 DEF Holding
<1>10. ASSUME StrayDeadline
       PROVE  Goal
  <2>1. UNCHANGED <<mu, pc, timer, ctxDone, open, link>> /\ late' = late /\ late # 0
    BY <1>0, <1>10 DEF StrayDeadline, OwnDeadline
  <2> QED
    BY <1>1, <2>1 DEF Holding
<1>11. ASSUME Answer \/ LinkBreaks \/ Restore \/ CloseConn \/ UNCHANGED sessionVars
       PROVE  Goal
  <2>1. UNCHANGED <<mu, pc, timer, ctxDone, late>> /\ (expired' => expired)
    BY <1>11 DEF Answer, LinkBreaks, Restore, CloseConn, sessionVars
  <2>2. link' => open'
    BY <1>11 DEF Answer, LinkBreaks, Restore, CloseConn, sessionVars, Holding
  <2> QED
    BY <1>1, <2>1, <2>2
<1> HIDE DEF Goal
<1>12. Goal
  BY <1>2, <1>3, <1>4, <1>5, <1>6, <1>7, <1>8, <1>9, <1>10, <1>11 DEF SessionNext, Exchange, Returns
<1>13. /\ mu' \subseteq Caller /\ Holding' /\ OwnDeadline'
       /\ \A c \in Caller : pc'[c] \in {"write", "read"} <=> c \in mu'
  BY <1>12 DEF Goal
<1>14. Cardinality(mu') <= 1
  <2>1. CASE mu' = {}
    BY <2>1, FS_EmptySet
  <2>2. CASE mu' # {}
    <3>1. PICK c \in mu' : mu' = {c}
      BY <1>13, <2>2 DEF Holding
    <3> QED
      BY <3>1, FS_Singleton
  <2> QED
    BY <2>1, <2>2
<1> QED
  BY <1>13, <1>14

-----------------------------------------------------------------------------
(* The wire *)

\* The socket has one reader.
LEMMA OneReader ==
  ASSUME SessionTypeOK, Holding, NEW c \in Caller, pc[c] \in {"write", "read"}
  PROVE  \A d \in Caller : d # c => pc[d] \notin {"write", "read"}
BY DEF SessionTypeOK, Holding

\* A reply that is not dropped as stale is the own one, and the last to come.
LEMMA OwnReply ==
  ASSUME SessionInv, NEW c \in Caller, ReadReply(c), late = 0, Head(replies).kind = "reply"
  PROVE  /\ abandoned = <<>> /\ Head(replies).id = call[c].id
         /\ link => Len(replies) = 1 /\ Len(requests) = 0
<1>1. /\ ReaderDue(c) /\ replies # <<>> /\ ~Stale(Head(replies))
      /\ replies \in Seq(Frame) /\ abandoned \in Seq(RequestType) /\ requests \in Seq(WireRequest)
  BY DEF SessionInv, OnTheWire, ReadReply, SessionTypeOK
<1>2. /\ Len(replies) \in Nat /\ Len(replies) >= 1 /\ Len(abandoned) \in Nat /\ Len(requests) \in Nat
      /\ 1 \in 1..Len(replies) /\ replies[1] = Head(replies)
  BY <1>1, EmptySeq, LenProperties
<1>3. Due(abandoned, call[c], 1, replies[1])
  BY <1>1, <1>2 DEF ReaderDue
<1>4. ~(1 <= Len(abandoned) /\ replies[1].type = abandoned[1])
  <2> SUFFICES ASSUME 1 <= Len(abandoned), replies[1].type = abandoned[1]
               PROVE  FALSE
    OBVIOUS
  <2>1. abandoned # <<>> /\ Head(abandoned) = abandoned[1]
    BY <1>1, EmptySeq
  <2> QED
    BY <1>1, <1>2, <2>1 DEF Stale
<1>5. Len(abandoned) = 0 /\ replies[1].id = call[c].id
  BY <1>2, <1>3, <1>4 DEF Due
<1>6. abandoned = <<>>
  BY <1>1, <1>5, EmptySeq
<1>7. link => Len(replies) = 1 /\ Len(requests) = 0
  <2> SUFFICES ASSUME link
               PROVE  Len(replies) = 1 /\ Len(requests) = 0
    OBVIOUS
  <2>1. Len(replies) + Len(requests) = Len(abandoned) + 1
    BY <1>1 DEF ReaderDue
  <2>2. PICK p \in Nat, q \in Nat : p = Len(replies) /\ q = Len(requests) /\ p >= 1
    BY <1>2
  <2>3. p + q = 0 + 1
    BY <2>1, <2>2, <1>5
  <2>4. p = 1 /\ q = 0
    BY <2>2, <2>3
  <2> QED
    BY <2>2, <2>4
<1> QED
  BY <1>2, <1>5, <1>6, <1>7

\* What is still to come after a step.
LEMMA WireStep ==
  ASSUME SessionInv, [SessionNext]_sessionVars
  PROVE  OnTheWire'
<1> USE DEF wireVars, callVars
<1>0. /\ replies \in Seq(Frame) /\ abandoned \in Seq(RequestType) /\ requests \in Seq(WireRequest)
      /\ Len(replies) \in Nat /\ Len(abandoned) \in Nat /\ Len(requests) \in Nat
      /\ late \in Nat /\ SessionTypeOK /\ Holding
  BY LenProperties, LateAssumption DEF SessionInv, SessionTypeOK
<1>n. Len(replies) \in Nat /\ Len(abandoned) \in Nat /\ Len(requests) \in Nat
  BY <1>0
\* A step away from the wire.
<1>1. ASSUME UNCHANGED <<link, replies, requests, abandoned>>, late' = 0 => late = 0,
             \A d \in Caller : pc'[d] = "read" <=> pc[d] = "read",
             \A d \in Caller : pc'[d] = "read" => call'[d] = call[d]
      PROVE  OnTheWire'
  BY <1>1 DEF SessionInv, OnTheWire, ReaderDue, Due, Backlog
<1>2. ASSUME NEW c \in Caller, NEW t \in RequestType, Call(c, t)
      PROVE  OnTheWire'
  <2>1. /\ pc[c] = "idle" /\ pc' = [pc EXCEPT ![c] = "lock"]
        /\ UNCHANGED <<link, replies, requests, abandoned, late>>
        /\ \A d \in Caller : d # c => call'[d] = call[d]
    BY <1>0, <1>2 DEF Call, SessionTypeOK
  <2>2. \A d \in Caller : pc'[d] = "read" <=> pc[d] = "read"
    BY <1>0, <2>1 DEF SessionTypeOK
  <2> QED
    BY <1>1, <2>1, <2>2
<1>3. ASSUME NEW c \in Caller, CancelCtx(c) \/ Fire(c) \/ Enter(c) \/ Timeout(c)
      PROVE  OnTheWire'
  <2>1. /\ UNCHANGED <<link, replies, requests, abandoned, call>>
        /\ late' = late \/ late' = late + 1
        /\ pc' = pc \/ (pc[c] = "lock" /\ pc' = [pc EXCEPT ![c] = "write"])
    BY <1>3 DEF CancelCtx, Fire, Enter, Timeout
  <2>2. \A d \in Caller : pc'[d] = "read" <=> pc[d] = "read"
    BY <1>0, <2>1 DEF SessionTypeOK
  <2>3. late' = 0 => late = 0
    BY <1>0, <2>1
  <2> QED
    BY <1>1, <2>1, <2>2, <2>3
<1>4. ASSUME NEW c \in Caller, EnterClosed(c) \/ WriteFails(c)
      PROVE  OnTheWire'
  <2>1. /\ UNCHANGED <<link, replies, requests, abandoned>> /\ pc[c] # "read"
        /\ late' = late \/ late' = late + StayBehind(c)
    BY <1>4 DEF EnterClosed, WriteFails, WriteFailsAs
  <2>2. PICK kind, n : Gone(c, kind, n)
    BY <1>0, <1>4, Leaving DEF Returns
  <2>3. \A d \in Caller : pc'[d] = "read" <=> pc[d] = "read"
    BY <2>1, <2>2 DEF Gone
  <2>4. StayBehind(c) \in 0..1
    BY DEF StayBehind
  <2>5. late' = 0 => late = 0
    BY <1>0, <2>1, <2>4
  <2> QED
    BY <1>1, <2>1, <2>2, <2>3, <2>5 DEF Gone
<1>5. ASSUME StrayDeadline \/ UNCHANGED sessionVars
      PROVE  OnTheWire'
  BY <1>1, <1>5 DEF StrayDeadline, sessionVars
<1>6. ASSUME NEW c \in Caller, Write(c)
      PROVE  OnTheWire'
  <2>1. /\ pc[c] = "write" /\ link /\ requests' = Append(requests, call[c])
        /\ pc' = [pc EXCEPT ![c] = "read"]
        /\ UNCHANGED <<link, replies, abandoned, call, late>>
    BY <1>6 DEF Write
  <2>2. \A d \in Caller : pc[d] # "read"
    BY <1>0, <2>1, OneReader
  <2>3. late = 0 => Backlog
    BY <2>1, <2>2 DEF SessionInv, OnTheWire
  <2>4. /\ Len(requests') = Len(requests) + 1 /\ requests'[Len(requests) + 1] = call[c]
        /\ \A k \in 1..Len(requests) : requests'[k] = requests[k]
    <3>1. call[c] \in WireRequest
      BY <1>0 DEF SessionTypeOK
    <3> QED
      BY <1>0, <2>1, <3>1, AppendProperties
  <2>5. late = 0 => ReaderDue(c)'
    <3> SUFFICES ASSUME Backlog
                 PROVE  ReaderDue(c)'
      BY <2>3
    <3>1. ASSUME NEW k \in 1..Len(replies)
          PROVE  Due(abandoned', call'[c], k, replies[k])
      <4>1. k <= Len(abandoned) /\ replies[k].type = abandoned[k]
        BY <1>0 DEF Backlog
      <4> QED
        BY <2>1, <4>1 DEF Due
    <3>2. ASSUME NEW k \in 1..Len(requests) + 1
          PROVE  Due(abandoned', call'[c], Len(replies) + k, requests'[k])
      <4>1. CASE k = Len(requests) + 1
        <5>1. Len(replies) + Len(requests) = Len(abandoned)
          BY DEF Backlog
        <5>2. requests'[k] = call[c] /\ Len(replies) + k = Len(abandoned) + 1
          BY <1>n, <2>4, <4>1, <5>1
        <5> QED
          BY <2>1, <5>2 DEF Due
      <4>2. CASE k # Len(requests) + 1
        <5>1. k \in 1..Len(requests)
          BY <1>0, <4>2
        <5>2. Len(replies) + k <= Len(abandoned) /\ requests'[k].type = abandoned[Len(replies) + k]
          BY <1>0, <2>4, <5>1 DEF Backlog
        <5> QED
          BY <2>1, <5>2 DEF Due
      <4> QED
        BY <4>1, <4>2
    <3>3. Len(replies) + Len(requests') = Len(abandoned) + 1
      <4>1. Len(replies) + Len(requests) = Len(abandoned)
        BY DEF Backlog
      <4>2. Len(requests') = Len(requests) + 1
        BY <2>4
      <4> QED
        BY <1>n, <4>1, <4>2
    <3> QED
      BY <2>1, <2>4, <3>1, <3>2, <3>3 DEF ReaderDue, Due
  <2>6. pc'[c] = "read" /\ \A d \in Caller : d # c => pc'[d] # "read"
    BY <1>0, <2>1, <2>2 DEF SessionTypeOK
  <2> QED
    BY <2>1, <2>5, <2>6 DEF SessionInv, OnTheWire
<1>7. ASSUME NEW c \in Caller, ReadStale(c)
      PROVE  OnTheWire'
  <2>1. /\ pc[c] = "read" /\ replies # <<>> /\ abandoned # <<>>
        /\ replies' = Tail(replies) /\ abandoned' = Tail(abandoned)
        /\ UNCHANGED <<link, requests, call, late, pc>>
    BY <1>7 DEF ReadStale, Stale
  <2>2. /\ Len(replies') = Len(replies) - 1 /\ \A k \in 1..Len(replies') : replies'[k] = replies[k + 1]
        /\ Len(abandoned') = Len(abandoned) - 1
        /\ \A k \in 1..Len(abandoned') : abandoned'[k] = abandoned[k + 1]
    BY <1>0, <2>1, HeadTailProperties
  <2>3. \A d \in Caller : d # c => pc[d] # "read"
    BY <1>0, <2>1, OneReader
  <2>4. Len(replies) >= 1 /\ Len(abandoned) >= 1
    BY <1>0, <2>1, EmptySeq
  \* What was due next but one is due next.
  <2>5. ASSUME NEW k \in Nat \ {0}, NEW m, Due(abandoned, call[c], k + 1, m)
        PROVE  Due(abandoned', call'[c], k, m)
    <3>1. CASE k + 1 <= Len(abandoned) /\ m.type = abandoned[k + 1]
      <4>1. k \in 1..Len(abandoned')
        BY <1>0, <2>2, <3>1
      <4> QED
        BY <1>0, <2>2, <3>1, <4>1 DEF Due
    <3>2. CASE k + 1 = Len(abandoned) + 1 /\ m.type = call[c].type /\ m.id = call[c].id
      <4>1. Len(abandoned') = Len(abandoned) - 1
        BY <2>2
      <4>2. k = Len(abandoned') + 1
        BY <1>n, <3>2, <4>1
      <4> QED
        BY <2>1, <3>2, <4>2 DEF Due
    <3> QED
      BY <2>5, <3>1, <3>2 DEF Due
  <2>6. ASSUME ReaderDue(c)
        PROVE  ReaderDue(c)'
    <3>1. ASSUME NEW k \in 1..Len(replies'), replies'[k].kind = "reply"
          PROVE  Due(abandoned', call'[c], k, replies'[k])
      <4>1. k + 1 \in 1..Len(replies) /\ k \in Nat \ {0}
        BY <1>0, <2>2
      <4>2. Due(abandoned, call[c], k + 1, replies[k + 1])
        BY <2>2, <2>6, <3>1, <4>1 DEF ReaderDue
      <4>3. PICK m : m = replies[k + 1]
        OBVIOUS
      <4>4. Due(abandoned', call'[c], k, m)
        BY <2>5, <4>1, <4>2, <4>3
      <4> QED
        BY <2>2, <4>3, <4>4 DEF Due
    <3>2. ASSUME link, NEW k \in 1..Len(requests)
          PROVE  Due(abandoned', call'[c], Len(replies') + k, requests[k])
      <4>1. Due(abandoned, call[c], Len(replies) + k, requests[k])
        BY <2>6, <3>2 DEF ReaderDue
      <4>2. PICK n \in Nat \ {0} : n = Len(replies') + k /\ n + 1 = Len(replies) + k
        <5>1. Len(replies') = Len(replies) - 1 /\ k \in Nat \ {0}
          BY <1>n, <2>2
        <5> QED
          BY <1>n, <2>4, <5>1
      <4>3. PICK m : m = requests[k]
        OBVIOUS
      <4>4. Due(abandoned', call'[c], n, m)
        BY <2>5, <4>1, <4>2, <4>3
      <4> QED
        BY <2>1, <4>2, <4>3, <4>4 DEF Due
    <3>3. link => Len(replies') + Len(requests) = Len(abandoned') + 1
      BY <1>0, <2>2, <2>4, <2>6 DEF ReaderDue
    <3> QED
      BY <2>1, <3>1, <3>2, <3>3 DEF ReaderDue, Due
  <2>7. link' => \A k \in 1..Len(replies') : replies'[k].kind = "reply"
    BY <1>0, <2>1, <2>2 DEF SessionInv, OnTheWire
  <2> QED
    BY <2>1, <2>3, <2>6, <2>7 DEF SessionInv, OnTheWire
<1>8. ASSUME NEW c \in Caller, ReadReply(c)
      PROVE  OnTheWire'
  <2>1. /\ pc[c] = "read" /\ replies # <<>> /\ replies' = Tail(replies) /\ UNCHANGED <<link, requests>>
        /\ late' = late + StayBehind(c)
        /\ Head(replies).kind = "reply" => abandoned' = <<>>
    BY <1>8 DEF ReadReply
  <2>2. PICK kind, n : Gone(c, kind, n)
    BY <1>0, <1>8, Leaving DEF Returns
  <2>3. \A d \in Caller : pc'[d] # "read"
    BY <1>0, <2>1, <2>2, OneReader DEF Gone
  <2>4. late' = 0 => late = 0
    <3>1. StayBehind(c) \in 0..1
      BY DEF StayBehind
    <3> QED
      BY <1>0, <2>1, <3>1
  <2>5. /\ Len(replies') = Len(replies) - 1 /\ \A k \in 1..Len(replies') : replies'[k] = replies[k + 1]
        /\ Len(replies) >= 1 /\ Head(replies) = replies[1]
    BY <1>0, <2>1, HeadTailProperties, EmptySeq
  <2>6. link' => \A k \in 1..Len(replies') : replies'[k].kind = "reply"
    BY <1>0, <2>1, <2>5 DEF SessionInv, OnTheWire
  <2>7. link' /\ late' = 0 => Backlog'
    <3> SUFFICES ASSUME link, late = 0
                 PROVE  Backlog'
      BY <2>1, <2>4
    <3>1. Head(replies).kind = "reply"
      BY <1>0, <2>5 DEF SessionInv, OnTheWire
    <3>2. abandoned' = <<>> /\ Len(replies') = 0 /\ Len(requests') = 0
      BY <1>0, <1>8, <2>1, <2>5, <3>1, OwnReply
    <3> QED
      BY <3>2, EmptySeq DEF Backlog
  <2> QED
    BY <2>3, <2>6, <2>7 DEF OnTheWire
<1>9. ASSUME NEW c \in Caller, ReadFails(c)
      PROVE  OnTheWire'
  <2>1. /\ pc[c] = "read" /\ UNCHANGED <<link, replies, requests>>
        /\ late' = late + StayBehind(c)
        /\ expired \/ ~link
        /\ ctxDone[c] => abandoned' = abandoned \o <<call[c].type>>
    BY <1>9 DEF ReadFails, ReadFailsLeaving
  <2>2. PICK kind, n : Gone(c, kind, n)
    BY <1>0, <1>9, Leaving DEF Returns
  <2>3. \A d \in Caller : pc'[d] # "read"
    BY <1>0, <2>1, <2>2, OneReader DEF Gone
  <2>4. late' = 0 => late = 0
    <3>1. StayBehind(c) \in 0..1
      BY DEF StayBehind
    <3> QED
      BY <1>0, <2>1, <3>1
  <2>5. link' /\ late' = 0 => Backlog'
    <3> SUFFICES ASSUME link, late = 0
                 PROVE  Backlog'
      BY <2>1, <2>4
    <3>1. ctxDone[c]
      <4>1. c \in mu
        BY <1>0, <2>1 DEF SessionTypeOK
      <4> QED
        BY <2>1, <4>1 DEF SessionInv, OwnDeadline
    <3>2. ReaderDue(c) /\ \A k \in 1..Len(replies) : replies[k].kind = "reply"
      BY <2>1 DEF SessionInv, OnTheWire
    <3>3. PICK t \in RequestType : t = call[c].type
      BY <1>0 DEF SessionTypeOK, WireRequest
    <3>4. /\ Len(abandoned') = Len(abandoned) + 1 /\ abandoned'[Len(abandoned) + 1] = t
          /\ \A k \in 1..Len(abandoned) : abandoned'[k] = abandoned[k]
      <4>1. abandoned' = Append(abandoned, t)
        BY <1>0, <2>1, <3>1, <3>3, AppendIsConcat
      <4> QED
        BY <1>0, <4>1, AppendProperties
    <3>5. ASSUME NEW k \in Nat \ {0}, NEW m, Due(abandoned, call[c], k, m)
          PROVE  m.type = abandoned'[k]
      <4>1. CASE k <= Len(abandoned) /\ m.type = abandoned[k]
        BY <1>0, <3>4, <4>1
      <4>2. CASE k = Len(abandoned) + 1 /\ m.type = call[c].type
        BY <3>3, <3>4, <4>2
      <4> QED
        BY <3>5, <4>1, <4>2 DEF Due
    <3>6. \A k \in 1..Len(replies) : replies[k].type = abandoned'[k]
      BY <1>0, <3>2, <3>5 DEF ReaderDue
    <3>7. \A k \in 1..Len(requests) : requests[k].type = abandoned'[Len(replies) + k]
      <4> TAKE k \in 1..Len(requests)
      <4>1. Due(abandoned, call[c], Len(replies) + k, requests[k])
        BY <3>2 DEF ReaderDue
      <4>2. Len(replies) + k \in Nat \ {0}
        BY <1>0
      <4> QED
        BY <3>5, <4>1, <4>2
    <3>8. Len(replies) + Len(requests) = Len(abandoned')
      BY <1>0, <3>2, <3>4 DEF ReaderDue
    <3> QED
      BY <2>1, <3>6, <3>7, <3>8 DEF Backlog
  <2>6. link' => \A k \in 1..Len(replies') : replies'[k].kind = "reply"
    BY <2>1 DEF SessionInv, OnTheWire
  <2> QED
    BY <2>3, <2>5, <2>6 DEF OnTheWire
<1>10. ASSUME Answer
       PROVE  OnTheWire'
  <2>1. /\ link /\ requests # <<>> /\ requests' = Tail(requests)
        /\ UNCHANGED <<link, abandoned, call, late, pc>>
    BY <1>10 DEF Answer
  <2>2. PICK r \in WireRequest : r = requests[1] /\ Head(requests) = r
    BY <1>0, <2>1, HeadTailProperties
  <2>3. PICK f \in Frame : f.id = r.id /\ f.type = r.type /\ f.kind = "reply" /\ replies' = Append(replies, f)
    <3>1. [id |-> r.id, type |-> r.type, kind |-> "reply"] \in Frame
      BY DEF WireRequest, Frame
    <3> QED
      BY <1>10, <2>2, <3>1 DEF Answer
  <2>4. /\ Len(replies') = Len(replies) + 1 /\ replies'[Len(replies) + 1] = f
        /\ \A k \in 1..Len(replies) : replies'[k] = replies[k]
    BY <1>0, <2>3, AppendProperties
  <2>5. /\ Len(requests') = Len(requests) - 1 /\ Len(requests) >= 1
        /\ \A k \in 1..Len(requests') : requests'[k] = requests[k + 1]
    BY <1>0, <2>1, HeadTailProperties, EmptySeq
  <2>6. \A k \in 1..Len(replies') : k \in 1..Len(replies) \/ (k = Len(replies) + 1 /\ replies'[k] = f)
    BY <1>0, <2>4
  <2>7. \A k \in 1..Len(replies') : replies'[k].kind = "reply"
    BY <2>1, <2>3, <2>4, <2>6 DEF SessionInv, OnTheWire
  <2>8. \A k \in 1..Len(requests') : k + 1 \in 1..Len(requests) /\ Len(replies') + k = Len(replies) + (k + 1)
    <3>1. PICK a \in Nat, b \in Nat : a = Len(replies) /\ b = Len(requests)
      BY <1>0, LenProperties
    <3>2. Len(replies') = a + 1 /\ Len(requests') = b - 1
      BY <2>4, <2>5, <3>1
    <3>3. \A k \in 1..b - 1 : k + 1 \in 1..b /\ a + 1 + k = a + (k + 1)
      OBVIOUS
    <3> QED
      BY <3>1, <3>2, <3>3
  <2>9. ASSUME NEW c \in Caller, ReaderDue(c)
        PROVE  ReaderDue(c)'
    <3>1. \A k, m : Due(abandoned', call'[c], k, m) => Due(abandoned, call[c], k, m)
      BY <2>1 DEF Due
    <3>2. Due(abandoned, call[c], Len(replies) + 1, requests[1])
      BY <1>0, <2>1, <2>5, <2>9 DEF ReaderDue
    <3>3. Due(abandoned', call'[c], Len(replies) + 1, f)
      BY <2>1, <2>2, <2>3, <3>2 DEF Due
    <3>4. \A k \in 1..Len(replies') : Due(abandoned', call'[c], k, replies'[k])
      <4> TAKE k \in 1..Len(replies')
      <4>1. CASE k \in 1..Len(replies)
        <5>1. replies'[k] = replies[k] /\ replies[k].kind = "reply"
          BY <2>1, <2>4, <4>1 DEF SessionInv, OnTheWire
        <5>2. Due(abandoned, call[c], k, replies[k])
          BY <2>9, <4>1, <5>1 DEF ReaderDue
        <5> QED
          BY <2>1, <5>1, <5>2 DEF Due
      <4>2. CASE k = Len(replies) + 1 /\ replies'[k] = f
        BY <3>3, <4>2 DEF Due
      <4> QED
        BY <2>6, <4>1, <4>2
    <3>5. \A k \in 1..Len(requests') : Due(abandoned', call'[c], Len(replies') + k, requests'[k])
      <4> TAKE k \in 1..Len(requests')
      <4>1. Due(abandoned, call[c], Len(replies) + (k + 1), requests[k + 1])
        BY <2>1, <2>8, <2>9 DEF ReaderDue
      <4> QED
        BY <2>1, <2>5, <2>8, <4>1 DEF Due
    <3>6. Len(replies') + Len(requests') = Len(abandoned') + 1
      <4>1. PICK a \in Nat, b \in Nat : a = Len(replies) /\ b = Len(requests)
        BY <1>0, LenProperties
      <4>2. a + b = Len(abandoned) + 1 /\ Len(abandoned') = Len(abandoned)
        BY <2>1, <2>9, <4>1 DEF ReaderDue
      <4>3. Len(replies') = a + 1 /\ Len(requests') = b - 1
        BY <2>4, <2>5, <4>1
      <4> QED
        BY <4>2, <4>3
    <3> QED
      BY <3>4, <3>5, <3>6 DEF ReaderDue, Due
  <2>10. ASSUME Backlog
         PROVE  Backlog'
    <3>1. \A k \in 1..Len(replies') : replies'[k].type = abandoned[k]
      <4> TAKE k \in 1..Len(replies')
      <4>1. CASE k \in 1..Len(replies)
        BY <2>4, <2>10, <4>1 DEF Backlog
      <4>2. CASE k = Len(replies) + 1 /\ replies'[k] = f
        <5>1. requests[1].type = abandoned[Len(replies) + 1]
          BY <1>0, <2>5, <2>10 DEF Backlog
        <5> QED
          BY <2>2, <2>3, <4>2, <5>1
      <4> QED
        BY <2>6, <4>1, <4>2
    <3>2. \A k \in 1..Len(requests') : requests'[k].type = abandoned[Len(replies') + k]
      BY <2>5, <2>8, <2>10 DEF Backlog
    <3>3. Len(replies') + Len(requests') = Len(abandoned)
      <4>1. Len(replies) + Len(requests) = Len(abandoned)
        BY <2>10 DEF Backlog
      <4>2. Len(replies') = Len(replies) + 1 /\ Len(requests') = Len(requests) - 1
        BY <2>4, <2>5
      <4> QED
        BY <1>n, <4>1, <4>2
    <3> QED
      BY <2>1, <3>1, <3>2, <3>3 DEF Backlog
  <2> QED
    BY <2>1, <2>7, <2>9, <2>10 DEF SessionInv, OnTheWire
<1>11. ASSUME LinkBreaks
       PROVE  OnTheWire'
  <2>1. /\ ~link' /\ UNCHANGED <<abandoned, call, late, pc>>
        /\ \/ replies' = replies \o <<>>
           \/ replies' = replies \o <<[id |-> 0, type |-> "transact", kind |-> "bye"]>>
    BY <1>11 DEF LinkBreaks
  <2>2. \A k \in 1..Len(replies') :
          \/ k \in 1..Len(replies) /\ replies'[k] = replies[k]
          \/ replies'[k].kind = "bye"
    <3>1. CASE replies' = replies \o <<>>
      BY <1>0, <3>1, ConcatEmptySeq
    <3>2. CASE replies' = replies \o <<[id |-> 0, type |-> "transact", kind |-> "bye"]>>
      <4>1. PICK f \in Frame : f = [id |-> 0, type |-> "transact", kind |-> "bye"] /\ f.kind = "bye"
        <5>1. 0 \in Number
          BY CallsAssumption DEF Number
        <5>2. [id |-> 0, type |-> "transact", kind |-> "bye"] \in Frame
          BY TypeAssumption, <5>1 DEF Frame
        <5> QED
          BY <5>2
      <4>2. replies' = Append(replies, f)
        BY <1>0, <3>2, <4>1, AppendIsConcat
      <4>3. /\ Len(replies') = Len(replies) + 1 /\ replies'[Len(replies) + 1] = f
            /\ \A k \in 1..Len(replies) : replies'[k] = replies[k]
        BY <1>0, <4>2, AppendProperties
      <4>4. \A k \in 1..Len(replies') : k \in 1..Len(replies) \/ k = Len(replies) + 1
        BY <1>0, <4>3
      <4> QED
        BY <4>1, <4>3, <4>4
    <3> QED
      BY <2>1, <3>1, <3>2
  <2>3. ASSUME NEW c \in Caller, ReaderDue(c)
        PROVE  ReaderDue(c)'
    <3>1. \A k \in 1..Len(replies') : replies'[k].kind = "reply" => Due(abandoned', call'[c], k, replies'[k])
      <4> SUFFICES ASSUME NEW k \in 1..Len(replies'), replies'[k].kind = "reply"
                   PROVE  Due(abandoned', call'[c], k, replies'[k])
        OBVIOUS
      <4>1. k \in 1..Len(replies) /\ replies'[k] = replies[k]
        BY <2>2
      <4>2. Due(abandoned, call[c], k, replies[k])
        BY <2>3, <4>1 DEF ReaderDue
      <4> QED
        BY <2>1, <4>1, <4>2 DEF Due
    <3> QED
      BY <2>1, <3>1 DEF ReaderDue, Due
  <2> QED
    BY <2>1, <2>3 DEF SessionInv, OnTheWire
<1>12. ASSUME Restore \/ CloseConn
       PROVE  OnTheWire'
  <2>1. /\ mu = {} /\ pc' = pc /\ replies' = <<>> /\ requests' = <<>> /\ (link' => abandoned' = <<>>)
    BY <1>12 DEF Restore, CloseConn
  <2>2. \A c \in Caller : pc'[c] # "read"
    BY <1>0, <2>1 DEF SessionTypeOK
  <2>3. Len(replies') = 0 /\ Len(requests') = 0 /\ (link' => Len(abandoned') = 0)
    BY <2>1, EmptySeq
  <2> QED
    BY <2>2, <2>3 DEF OnTheWire, Backlog
<1> QED
  BY <1>2, <1>3, <1>4, <1>5, <1>6, <1>7, <1>8, <1>9, <1>10, <1>11, <1>12 DEF SessionNext, Exchange

-----------------------------------------------------------------------------
(* Numbers and results *)

\* Every call has a number of its own.
LEMMA NumbersStep ==
  ASSUME SessionTypeOK, NumbersApart, [SessionNext]_sessionVars
  PROVE  NumbersApart'
<1> USE DEF callVars
<1>0. calls \in Nat /\ \A c \in Caller : call[c].id \in Nat
  BY CallsAssumption DEF SessionTypeOK, Number, WireRequest
<1>1. ASSUME UNCHANGED <<calls, call, written>>,
             \A d \in Caller : pc'[d] # "idle" => pc[d] # "idle",
             \A d \in Caller : pc'[d] \in {"lock", "write"} => pc[d] \in {"lock", "write"}
      PROVE  NumbersApart'
  BY <1>1 DEF NumbersApart
<1>2. ASSUME NEW c \in Caller, EnterClosed(c) \/ ReadReply(c) \/ ReadFails(c)
      PROVE  NumbersApart'
  <2>1. PICK kind, n : Gone(c, kind, n)
    BY <1>2, Leaving DEF Returns
  <2>2. written' = written
    BY <1>2 DEF EnterClosed, ReadReply, ReadFails, ReadFailsLeaving
  <2>3. \A d \in Caller : pc'[d] # "idle" => pc'[d] = pc[d]
    BY <2>1 DEF Gone
  <2> QED
    BY <1>1, <2>1, <2>2, <2>3 DEF Gone
<1>3. ASSUME NEW c \in Caller, Write(c) \/ WriteFails(c)
      PROVE  NumbersApart'
  <2>1. /\ pc[c] = "write" /\ UNCHANGED <<calls, call>> /\ written' = written \cup {call[c].id}
    BY <1>3, LeavingAs DEF Write, WriteFails, WriteFailsAs, Gone
  <2>2. pc'[c] \notin {"lock", "write"} /\ \A d \in Caller : d # c => pc'[d] = pc[d]
    <3>1. CASE Write(c)
      BY <3>1 DEF Write, SessionTypeOK
    <3>2. CASE WriteFails(c)
      BY <3>2, LeavingAs DEF Gone
    <3> QED
      BY <1>3, <3>1, <3>2
  <2>3. ASSUME NEW d \in Caller, pc'[d] \in {"lock", "write"}
        PROVE  call[d].id \notin written'
    <3>1. d # c /\ pc[d] \in {"lock", "write"}
      BY <2>2, <2>3
    <3>2. call[d].id >= 1 /\ call[d].id \notin written
      BY <3>1 DEF NumbersApart
    <3>3. call[d].id # call[c].id
      BY <3>1, <3>2 DEF NumbersApart
    <3> QED
      BY <2>1, <3>2, <3>3
  <2>4. \A n \in written' : n <= calls
    BY <2>1 DEF NumbersApart
  <2>5. \A d \in Caller : call[d].id <= calls /\ (pc'[d] # "idle" => call[d].id >= 1)
    BY <2>1, <2>2 DEF NumbersApart
  <2> QED
    BY <2>1, <2>3, <2>4, <2>5 DEF NumbersApart
<1>4. ASSUME NEW c \in Caller, NEW t \in RequestType, Call(c, t)
      PROVE  NumbersApart'
  <2>1. /\ calls' = calls + 1 /\ written' = written /\ pc[c] = "idle"
        /\ call'[c].id = calls + 1 /\ \A d \in Caller : d # c => call'[d] = call[d] /\ pc'[d] = pc[d]
    BY <1>4 DEF Call, SessionTypeOK
  <2>2. \A d \in Caller : call'[d].id <= calls' /\ (pc'[d] # "idle" => call'[d].id >= 1)
    BY <1>0, <2>1 DEF NumbersApart
  <2>3. \A d \in Caller : d # c => call'[d].id < call'[c].id
    BY <1>0, <2>1 DEF NumbersApart
  <2>4. \A n \in written : n \in Nat /\ n <= calls
    BY CallsAssumption DEF NumbersApart, SessionTypeOK, Number
  <2>5. call'[c].id \notin written
    BY <1>0, <2>1, <2>4
  <2>6. \A d, e \in Caller : d # e /\ call'[d].id = call'[e].id => call'[d].id = 0
    <3> TAKE d, e \in Caller
    <3>1. CASE d = c \/ e = c
      BY <1>0, <2>1, <2>3, <3>1
    <3>2. CASE d # c /\ e # c
      BY <2>1, <3>2 DEF NumbersApart
    <3> QED
      BY <3>1, <3>2
  <2>7. \A n \in written' : n <= calls'
    BY <1>0, <2>1, <2>4
  <2>8. \A d \in Caller : pc'[d] \in {"lock", "write"} => call'[d].id \notin written'
    BY <2>1, <2>5 DEF NumbersApart
  <2> QED
    BY <2>2, <2>6, <2>7, <2>8 DEF NumbersApart
<1>5. ASSUME NEW c \in Caller, Enter(c) \/ ReadStale(c) \/ CancelCtx(c) \/ Fire(c) \/ Timeout(c)
      PROVE  NumbersApart'
  <2>1. /\ UNCHANGED <<calls, call, written>>
        /\ pc' = pc \/ (pc[c] = "lock" /\ pc' = [pc EXCEPT ![c] = "write"])
    BY <1>5 DEF Enter, ReadStale, CancelCtx, Fire, Timeout
  <2>2. \A d \in Caller : pc'[d] = pc[d] \/ (pc[d] = "lock" /\ pc'[d] = "write")
    BY <2>1 DEF SessionTypeOK
  <2> QED
    BY <1>1, <2>1, <2>2
<1>6. ASSUME StrayDeadline \/ Answer \/ LinkBreaks \/ Restore \/ CloseConn \/ UNCHANGED sessionVars
      PROVE  NumbersApart'
  BY <1>1, <1>6 DEF StrayDeadline, Answer, LinkBreaks, Restore, CloseConn, sessionVars
<1> QED
  BY <1>2, <1>3, <1>4, <1>5, <1>6 DEF SessionNext, Exchange

\* What a call returns is true of it, and stays so.
LEMMA ResultsStep ==
  ASSUME SessionInv, [SessionNext]_sessionVars
  PROVE  Results'
<1> USE DEF callVars
<1>0. /\ SessionTypeOK /\ NumbersApart /\ Results /\ late \in Nat
      /\ \A c \in Caller : call[c].id \in Nat /\ result[c].id \in Nat
  BY CallsAssumption, LateAssumption DEF SessionInv, SessionTypeOK, Number, WireRequest
\* What is said of one result.
<1> DEFINE Fine(c) ==
      /\ result[c].kind # "none" => /\ pc[c] = "idle"
                                    /\ result[c].id = call[c].id /\ result[c].id >= 1
      /\ late = 0 /\ result[c].kind = "reply" => result[c].answered = result[c].id
      /\ result[c].kind = "ordinary" /\ result[c].type = "transact" => result[c].id \notin written
<1>1. /\ \A c \in Caller : Fine(c)
      /\ (\A c \in Caller : Fine(c)') => Results'
  BY <1>0 DEF Results, AnswerOwnUntilLate, AnswerOwn, OrdinaryUnsent
<1>2. ASSUME NEW c \in Caller, UNCHANGED result[c], UNCHANGED call[c], written' = written,
             late' = 0 => late = 0, pc[c] = "idle" => pc'[c] = "idle"
      PROVE  Fine(c)'
  BY <1>1, <1>2
<1>3. ASSUME NEW c \in Caller, EnterClosed(c) \/ ReadReply(c) \/ ReadFails(c)
      PROVE  Results'
  <2>1. PICK kind, n : Gone(c, kind, n)
    BY <1>0, <1>3, Leaving DEF Returns
  <2>2. written' = written /\ pc[c] # "idle" /\ (pc[c] = "lock" \/ ~EnterClosed(c))
    BY <1>3 DEF EnterClosed, ReadReply, ReadFails, ReadFailsLeaving
  <2>3. late' = 0 => late = 0
    <3>1. StayBehind(c) \in 0..1
      BY DEF StayBehind
    <3>2. late' = late \/ late' = late + StayBehind(c)
      BY <1>3 DEF EnterClosed, ReadReply, ReadFails, ReadFailsLeaving
    <3> QED
      BY <1>0, <3>1, <3>2
  <2>4. ASSUME NEW d \in Caller, d # c
        PROVE  Fine(d)'
    BY <1>2, <2>1, <2>2, <2>3, <2>4 DEF Gone
  <2>5. Fine(c)'
    <3>1. pc'[c] = "idle" /\ result'[c].id = call'[c].id /\ result'[c].id >= 1
      BY <1>0, <2>1, <2>2 DEF Gone, NumbersApart
    <3>2. late' = 0 /\ result'[c].kind = "reply" => result'[c].answered = result'[c].id
      <4> SUFFICES ASSUME late' = 0, result'[c].kind = "reply"
                   PROVE  result'[c].answered = result'[c].id
        OBVIOUS
      <4>1. Failure(c) # "reply"
        BY DEF Failure
      <4>2. /\ ReadReply(c) /\ Gone(c, "reply", Head(replies).id) /\ Head(replies).kind = "reply"
        BY <1>0, <1>3, <4>1, LeavingAs DEF Gone
      <4>3. Head(replies).id = call[c].id
        BY <2>3, <4>2, OwnReply
      <4> QED
        BY <4>2, <4>3 DEF Gone
    <3>3. result'[c].kind = "ordinary" /\ result'[c].type = "transact" => result'[c].id \notin written'
      <4> SUFFICES ASSUME result'[c].kind = "ordinary", result'[c].type = "transact"
                   PROVE  result'[c].id \notin written'
        OBVIOUS
      <4>1. Failure(c) # "ordinary"
        BY <2>1 DEF Failure, Gone
      <4>2. EnterClosed(c)
        BY <1>0, <1>3, <4>1, LeavingAs DEF Gone
      <4>3. call[c].id \notin written
        BY <1>0, <2>2, <4>2 DEF NumbersApart
      <4> QED
        BY <2>1, <2>2, <4>3 DEF Gone
    <3> QED
      BY <3>1, <3>2, <3>3
  <2> QED
    BY <1>1, <2>4, <2>5
<1>4. ASSUME NEW c \in Caller, Write(c) \/ WriteFails(c)
      PROVE  Results'
  <2>1. pc[c] = "write" /\ written' = written \cup {call[c].id} /\ call' = call
    BY <1>0, <1>4, LeavingAs DEF Write, WriteFails, WriteFailsAs, Gone
  <2>2. late' = 0 => late = 0
    <3>1. StayBehind(c) \in 0..1
      BY DEF StayBehind
    <3>2. late' = late \/ late' = late + StayBehind(c)
      BY <1>4 DEF Write, WriteFails, WriteFailsAs
    <3> QED
      BY <1>0, <3>1, <3>2
  <2>3. \A d \in Caller : d # c => result'[d] = result[d] /\ pc'[d] = pc[d]
    <3>1. CASE Write(c)
      BY <1>0, <3>1 DEF Write, SessionTypeOK
    <3>2. CASE WriteFails(c)
      BY <1>0, <3>2, LeavingAs DEF Gone
    <3> QED
      BY <1>4, <3>1, <3>2
  <2>4. ASSUME NEW d \in Caller, d # c
        PROVE  Fine(d)'
    <3>1. result[d].kind # "none" => result[d].id # call[c].id
      <4> SUFFICES ASSUME result[d].kind # "none", result[d].id = call[c].id
                   PROVE  FALSE
        OBVIOUS
      <4>1. call[d].id = call[c].id /\ call[c].id >= 1
        BY <1>1
      <4> QED
        BY <1>0, <2>4, <4>1 DEF NumbersApart
    <3> QED
      BY <1>1, <2>1, <2>2, <2>3, <2>4, <3>1
  <2>5. Fine(c)'
    <3>1. CASE Write(c)
      <4>1. result'[c].kind = "none"
        BY <1>1, <2>1, <3>1 DEF Write
      <4> QED
        BY <4>1
    <3>2. CASE WriteFails(c)
      <4>1. Gone(c, Failure(c), 0)
        BY <1>0, <3>2, LeavingAs
      <4>2. call[c].id >= 1
        BY <1>0, <2>1 DEF NumbersApart
      <4> QED
        BY <4>1, <4>2 DEF Gone, Failure
    <3> QED
      BY <1>4, <3>1, <3>2
  <2> QED
    BY <1>1, <2>4, <2>5
<1>5. ASSUME NEW c \in Caller, NEW t \in RequestType, Call(c, t)
      PROVE  Results'
  <2>1. /\ written' = written /\ late' = late
        /\ result'[c] = NoResult
        /\ \A d \in Caller : d # c => call'[d] = call[d] /\ pc'[d] = pc[d] /\ result'[d] = result[d]
    BY <1>0, <1>5 DEF Call, SessionTypeOK
  <2>2. ASSUME NEW d \in Caller, d # c
        PROVE  Fine(d)'
    BY <1>2, <2>1, <2>2
  <2>3. Fine(c)'
    BY <2>1 DEF NoResult
  <2> QED
    BY <1>1, <2>2, <2>3
<1>6. ASSUME UNCHANGED <<result, call, written>>, late' = 0 => late = 0,
             \A d \in Caller : pc[d] = "idle" => pc'[d] = "idle"
      PROVE  Results'
  BY <1>1, <1>2, <1>6
<1>7. ASSUME NEW c \in Caller, Enter(c) \/ ReadStale(c) \/ CancelCtx(c) \/ Fire(c) \/ Timeout(c)
      PROVE  Results'
  <2>1. /\ UNCHANGED <<result, call, written>> /\ (late' = late \/ late' = late + 1)
        /\ pc' = pc \/ (pc[c] = "lock" /\ pc' = [pc EXCEPT ![c] = "write"])
    BY <1>7 DEF Enter, ReadStale, CancelCtx, Fire, Timeout
  <2>2. \A d \in Caller : pc[d] = "idle" => pc'[d] = "idle"
    BY <1>0, <2>1 DEF SessionTypeOK
  <2>3. late' = 0 => late = 0
    BY <1>0, <2>1
  <2> QED
    BY <1>6, <2>1, <2>2, <2>3
<1>8. ASSUME StrayDeadline \/ Answer \/ LinkBreaks \/ Restore \/ CloseConn \/ UNCHANGED sessionVars
      PROVE  Results'
  BY <1>6, <1>8 DEF StrayDeadline, Answer, LinkBreaks, Restore, CloseConn, sessionVars
<1> QED
  BY <1>3, <1>4, <1>5, <1>7, <1>8 DEF SessionNext, Exchange

-----------------------------------------------------------------------------
(* The theorems *)

\* The inductive invariant of the exchanges.
THEOREM SessionInvariance == SessionSpec => []SessionInv
<1>1. SessionInit => SessionInv
  <2> SUFFICES ASSUME SessionInit
               PROVE  SessionInv
    OBVIOUS
  <2>0. 0 \in Number /\ NoCall \in WireRequest
        /\ NoResult \in [kind : Returned, id : Number, type : RequestType, answered : Number]
    BY TypeAssumption, CallsAssumption DEF NoCall, NoResult, WireRequest, Returned, Number
  <2>1. /\ mu = {} /\ Cardinality(mu) = 0
    BY FS_EmptySet DEF SessionInit
  <2>2. SessionTypeOK
    <3>1. /\ call \in [Caller -> WireRequest]
          /\ result \in [Caller -> [kind : Returned, id : Number, type : RequestType,
                                    answered : Number]]
      BY <2>0 DEF SessionInit
    <3>2. /\ pc \in [Caller -> {"idle", "lock", "write", "read"}]
          /\ ctxDone \in [Caller -> BOOLEAN]
          /\ timer \in [Caller -> {"none", "armed", "running"}]
          /\ \A c \in Caller : pc[c] \in {"write", "read"} <=> c \in mu
      BY DEF SessionInit
    <3>3. /\ mu \subseteq Caller /\ Cardinality(mu) <= 1
          /\ stray \in 0..MaxLate /\ late \in 0..MaxLate /\ restores \in 0..MaxRestores
          /\ calls \in Number /\ written \subseteq Number
      BY <2>0, <2>1, LateAssumption, RestoresAssumption DEF SessionInit
    <3>4. /\ open \in BOOLEAN /\ link \in BOOLEAN /\ expired \in BOOLEAN
          /\ abandoned \in Seq(RequestType)
          /\ requests \in Seq(WireRequest) /\ replies \in Seq(Frame)
      BY EmptySeq DEF SessionInit
    <3> QED
      BY <3>1, <3>2, <3>3, <3>4 DEF SessionTypeOK
  <2>3. Holding /\ OwnDeadline
    BY <2>1 DEF SessionInit, Holding, OwnDeadline
  <2>4. OnTheWire
    BY EmptySeq DEF SessionInit, OnTheWire, Backlog
  <2>5. NumbersApart
    BY DEF SessionInit, NumbersApart, NoCall
  <2>6. Results
    BY DEF SessionInit, Results, NoResult, AnswerOwnUntilLate, AnswerOwn, OrdinaryUnsent
  <2> QED
    BY <2>2, <2>3, <2>4, <2>5, <2>6 DEF SessionInv
<1>2. SessionInv /\ [SessionNext]_sessionVars => SessionInv'
  <2> SUFFICES ASSUME SessionInv, [SessionNext]_sessionVars
               PROVE  SessionInv'
    OBVIOUS
  <2>1. SessionTypeOK /\ Holding /\ OwnDeadline /\ NumbersApart
    BY DEF SessionInv
  <2>2. SessionTypeOK'
    BY <2>1, CallerTypes, WireTypes, LockStep DEF SessionTypeOK
  <2>3. Holding' /\ OwnDeadline'
    BY <2>1, LockStep
  <2> QED
    BY <2>1, <2>2, <2>3, WireStep, NumbersStep, ResultsStep DEF SessionInv
<1> QED
  BY <1>1, <1>2, PTL DEF SessionSpec

\* Every reachable state of the connection is well typed.
THEOREM SessionTypeCorrect == SessionSpec => []SessionTypeOK
<1>1. SessionInv => SessionTypeOK
  BY DEF SessionInv
<1> QED
  BY SessionInvariance, <1>1, PTL

\* A call gets the reply to its own request, the abandoned types are those still
\* to come, and a transaction that fails ordinarily was not sent: the first two
\* as long as there was no timeout and no deadline of another exchange.
THEOREM Exchanges == SessionSpec => []ExchangesApart
<1>1. SessionInv => BacklogKnown
  <2> SUFFICES ASSUME SessionInv, late = 0, link, \A c \in mu : pc[c] = "write"
               PROVE  abandoned = Types(replies) \o Types(requests)
    BY DEF BacklogKnown
  <2>1. \A c \in Caller : pc[c] # "read"
    BY DEF SessionInv, SessionTypeOK
  <2>2. Backlog
    BY <2>1 DEF SessionInv, OnTheWire
  <2>3. /\ replies \in Seq(Frame) /\ abandoned \in Seq(RequestType) /\ requests \in Seq(WireRequest)
        /\ Len(replies) \in Nat /\ Len(abandoned) \in Nat /\ Len(requests) \in Nat
    BY LenProperties DEF SessionInv, SessionTypeOK
  <2>4. /\ Types(replies) \in Seq(RequestType) /\ Len(Types(replies)) = Len(replies)
        /\ \A k \in 1..Len(replies) : Types(replies)[k] = replies[k].type
    <3>0. \A m \in Frame : m.type \in RequestType
      BY DEF Frame
    <3>1. \A k \in 1..Len(replies) : replies[k].type \in RequestType
      BY <2>3, <3>0, ElementOfSeq
    <3> QED
      BY <2>3, <3>1 DEF Types
  <2>5. /\ Types(requests) \in Seq(RequestType) /\ Len(Types(requests)) = Len(requests)
        /\ \A k \in 1..Len(requests) : Types(requests)[k] = requests[k].type
    <3>0. \A m \in WireRequest : m.type \in RequestType
      BY DEF WireRequest
    <3>1. \A k \in 1..Len(requests) : requests[k].type \in RequestType
      BY <2>3, <3>0, ElementOfSeq
    <3> QED
      BY <2>3, <3>1 DEF Types
  <2> DEFINE both == Types(replies) \o Types(requests)
  <2>6. /\ both \in Seq(RequestType) /\ Len(both) = Len(replies) + Len(requests)
        /\ \A k \in 1..Len(replies) + Len(requests) :
             both[k] = IF k <= Len(replies) THEN Types(replies)[k]
                       ELSE Types(requests)[k - Len(replies)]
    <3>1. PICK first \in Seq(RequestType), second \in Seq(RequestType) :
            first = Types(replies) /\ second = Types(requests)
      BY <2>4, <2>5
    <3>2. /\ first \o second \in Seq(RequestType) /\ Len(first \o second) = Len(first) + Len(second)
          /\ \A k \in 1..Len(first) + Len(second) :
               (first \o second)[k] = IF k <= Len(first) THEN first[k] ELSE second[k - Len(first)]
      BY ConcatProperties
    <3>3. Len(first) = Len(replies) /\ Len(second) = Len(requests) /\ both = first \o second
      BY <2>4, <2>5, <3>1
    <3> HIDE DEF both
    <3> QED
      BY <3>1, <3>2, <3>3
  <2> HIDE DEF both
  <2>7. Len(both) = Len(abandoned)
    BY <2>2, <2>6 DEF Backlog
  <2>8. \A k \in 1..Len(abandoned) : abandoned[k] = both[k]
    <3> TAKE k \in 1..Len(abandoned)
    <3>0. k \in 1..Len(replies) + Len(requests)
      BY <2>2 DEF Backlog
    <3>1. CASE k <= Len(replies)
      <4>1. k \in 1..Len(replies)
        BY <2>3, <3>1
      <4> QED
        BY <2>2, <2>4, <2>6, <3>0, <3>1, <4>1 DEF Backlog
    <3>2. CASE ~(k <= Len(replies))
      <4>1. PICK p \in Nat, q \in Nat : p = Len(replies) /\ q = Len(requests)
        BY <2>3
      <4>2. k \in 1..p + q /\ ~(k <= p)
        BY <3>0, <3>2, <4>1
      <4>3. PICK j \in 1..q : j = k - p /\ p + j = k
        BY <4>2
      <4> QED
        BY <2>2, <2>5, <2>6, <3>0, <3>2, <4>1, <4>3 DEF Backlog
    <3> QED
      BY <3>1, <3>2
  <2>9. abandoned = both
    BY <2>3, <2>6, <2>7, <2>8, SeqEqual
  <2> QED
    BY <2>9 DEF both
<1>2. SessionInv => ExchangesApart
  BY <1>1 DEF SessionInv, Results, ExchangesApart, RepliesApart
<1> QED
  BY SessionInvariance, <1>2, PTL

-----------------------------------------------------------------------------
(* The client: numberings *)

\* A numbering names every instrument, and no two by the same number.
LEMMA NumberingOnto ==
  ASSUME NEW n \in Numbering
  PROVE  /\ \A id \in SecId : \E i \in Instrument : n[i] = id
         /\ \A i, j \in Instrument : n[i] = n[j] => i = j
         /\ \A i \in Instrument : n[i] \in SecId
<1>1. PICK c \in Nat : c = Cardinality(Instrument)
  BY FiniteAssumption, FS_CardinalityType
<1>2. IsFiniteSet(1..c) /\ Cardinality(1..c) = c
  BY FS_Interval
<1>3. n \in [Instrument -> 1..c] /\ IsInjective(n)
  BY <1>1 DEF Numbering, SecId
<1>4. n \in Injection(Instrument, 1..c)
  BY <1>3 DEF Injection
<1>5. n \in Surjection(Instrument, 1..c)
  BY <1>1, <1>2, <1>4, FiniteAssumption, FS_Injection
<1> QED
  BY <1>1, <1>3, <1>5 DEF Surjection, IsInjective, SecId

\* The instrument a number stands for.
LEMMA MeantIs ==
  ASSUME numbering \in Numbering
  PROVE  /\ \A id \in SecId : Meant(id) \in Instrument /\ numbering[Meant(id)] = id
         /\ \A i \in Instrument : numbering[i] \in SecId /\ Meant(numbering[i]) = i
<1>1. PICK n \in Numbering : n = numbering
  OBVIOUS
<1>2. /\ \A id \in SecId : \E i \in Instrument : n[i] = id
      /\ \A i, j \in Instrument : n[i] = n[j] => i = j
      /\ \A i \in Instrument : n[i] \in SecId
  BY NumberingOnto
<1> QED
  BY <1>1, <1>2 DEF Meant

\* The number the catalog has for an instrument.
LEMMA SecOfIs ==
  ASSUME NEW i, InCatalog(i)
  PROVE  SecOf(i) \in SecId /\ catalog[SecOf(i)] = i
BY DEF InCatalog, SecOf

-----------------------------------------------------------------------------
(* The client: what waits in the inbox *)

Record ==
  [kind : {"securities"}]
  \cup [kind : {"client"}, of : OwnClient]
  \cup [kind : {"order", "modify"}, of : ClientOrder, status : 1..MaxStatus]
  \cup [kind : {"trade"}, sec : SecId, no : 1..MaxTradeNo]
  \cup [kind : {"candles"}, sec : SecId]

\* Trades of a number, of which each but those up to d+1 has its predecessor
\* before it.
TradeOf(r, sec) == r.kind = "trade" /\ r.sec = sec
Gapless(box, sec, d) ==
  \A k \in 1..Len(box) : TradeOf(box[k], sec) /\ box[k].no > d + 1 =>
    \E j \in 1..k - 1 : TradeOf(box[j], sec) /\ box[j].no = box[k].no - 1
Brings(box, sec, n) == \E k \in 1..Len(box) : TradeOf(box[k], sec) /\ box[k].no = n

\* Records about an order, each with a higher status than the one before.
About(r, o) == r.kind \in {"order", "modify"} /\ r.of = o
Rising(box, o, h) ==
  \A k \in 1..Len(box) : About(box[k], o) =>
    /\ box[k].status > h
    /\ \A j \in 1..k - 1 : About(box[j], o) => box[j].status < box[k].status
Tells(box, o, s) == \E k \in 1..Len(box) : About(box[k], o) /\ box[k].status = s
AtMost(box, o, s) == \A k \in 1..Len(box) : About(box[k], o) => box[k].status <= s

Announces(box, c) == \E k \in 1..Len(box) : box[k].kind = "client" /\ box[k].of = c

\* What the records are made of.
LEMMA RecordType ==
  ASSUME NEW r \in Record
  PROVE  /\ r.kind \in {"securities", "client", "order", "modify", "trade", "candles"}
         /\ r.kind = "client" => r.of \in OwnClient
         /\ r.kind \in {"order", "modify"} => r.of \in ClientOrder /\ r.status \in 1..MaxStatus
         /\ r.kind = "trade" => r.sec \in SecId /\ r.no \in 1..MaxTradeNo
         /\ r.kind = "candles" => r.sec \in SecId
BY DEF Record

\* A number in a record is a number.
LEMMA RecordNumbers ==
  ASSUME NEW box \in Seq(Record)
  PROVE  /\ Len(box) \in Nat
         /\ \A k \in 1..Len(box) : /\ box[k] \in Record
                                   /\ \A sec : TradeOf(box[k], sec) => box[k].no \in Nat \ {0}
                                   /\ \A o : About(box[k], o) => box[k].status \in Nat \ {0}
<1>1. PICK n \in Nat : n = Len(box)
  BY LenProperties
<1> HIDE DEF Record
<1>2. \A k \in 1..n : box[k] \in Record
  BY <1>1
<1>3. MaxTradeNo \in Nat /\ MaxStatus \in Nat
  BY BoundsAssumption
<1>4. ASSUME NEW k \in 1..n
      PROVE  /\ \A sec : TradeOf(box[k], sec) => box[k].no \in Nat \ {0}
             /\ \A o : About(box[k], o) => box[k].status \in Nat \ {0}
  BY <1>2, <1>3, RecordType DEF TradeOf, About
<1> QED
  BY <1>1, <1>2, <1>4

\* Where the records of two sequences are.
LEMMA Joined ==
  ASSUME NEW box \in Seq(Record), NEW more \in Seq(Record)
  PROVE  /\ box \o more \in Seq(Record)
         /\ Len(box) \in Nat /\ Len(more) \in Nat /\ Len(box \o more) = Len(box) + Len(more)
         /\ \A k \in 1..Len(box) : k \in 1..Len(box \o more) /\ (box \o more)[k] = box[k]
         /\ \A k \in 1..Len(more) : /\ Len(box) + k \in 1..Len(box \o more)
                                    /\ (box \o more)[Len(box) + k] = more[k]
         /\ \A k \in 1..Len(box \o more) :
              k \in 1..Len(box) \/ (k - Len(box) \in 1..Len(more) /\ (box \o more)[k] = more[k - Len(box)])
<1>1. PICK n \in Nat, m \in Nat : n = Len(box) /\ m = Len(more)
  BY LenProperties
<1> HIDE DEF Record
<1>2. /\ box \o more \in Seq(Record) /\ Len(box \o more) = n + m
      /\ \A k \in 1..n + m : (box \o more)[k] = IF k <= n THEN box[k] ELSE more[k - n]
  BY <1>1, ConcatProperties
<1>3. \A k \in 1..n : k \in 1..n + m /\ k <= n
  OBVIOUS
<1>4. \A k \in 1..m : n + k \in 1..n + m /\ ~(n + k <= n) /\ n + k - n = k
  OBVIOUS
<1>5. \A k \in 1..n + m : k \in 1..n \/ (k - n \in 1..m /\ ~(k <= n))
  OBVIOUS
<1> QED
  BY <1>1, <1>2, <1>3, <1>4, <1>5

\* More records at the end: what was there still is.
LEMMA JoinedKeeps ==
  ASSUME NEW box \in Seq(Record), NEW more \in Seq(Record)
  PROVE  /\ \A sec, n : Brings(box, sec, n) \/ Brings(more, sec, n) => Brings(box \o more, sec, n)
         /\ \A o, s : Tells(box, o, s) \/ Tells(more, o, s) => Tells(box \o more, o, s)
         /\ \A o, s : AtMost(box, o, s) /\ AtMost(more, o, s) => AtMost(box \o more, o, s)
         /\ \A c : Announces(box, c) => Announces(box \o more, c)
<1> HIDE DEF Record
<1>1. ASSUME NEW sec, NEW n, Brings(box, sec, n) \/ Brings(more, sec, n)
      PROVE  Brings(box \o more, sec, n)
  <2>1. CASE Brings(box, sec, n)
    <3>1. PICK k \in 1..Len(box) : TradeOf(box[k], sec) /\ box[k].no = n
      BY <2>1 DEF Brings
    <3>2. k \in 1..Len(box \o more) /\ (box \o more)[k] = box[k]
      BY Joined
    <3> QED
      BY <3>1, <3>2 DEF Brings
  <2>2. CASE Brings(more, sec, n)
    <3>1. PICK k \in 1..Len(more) : TradeOf(more[k], sec) /\ more[k].no = n
      BY <2>2 DEF Brings
    <3>2. Len(box) + k \in 1..Len(box \o more) /\ (box \o more)[Len(box) + k] = more[k]
      BY Joined
    <3> QED
      BY <3>1, <3>2 DEF Brings
  <2> QED
    BY <1>1, <2>1, <2>2
<1>2. ASSUME NEW o, NEW s, Tells(box, o, s) \/ Tells(more, o, s)
      PROVE  Tells(box \o more, o, s)
  <2>1. CASE Tells(box, o, s)
    <3>1. PICK k \in 1..Len(box) : About(box[k], o) /\ box[k].status = s
      BY <2>1 DEF Tells
    <3>2. k \in 1..Len(box \o more) /\ (box \o more)[k] = box[k]
      BY Joined
    <3> QED
      BY <3>1, <3>2 DEF Tells
  <2>2. CASE Tells(more, o, s)
    <3>1. PICK k \in 1..Len(more) : About(more[k], o) /\ more[k].status = s
      BY <2>2 DEF Tells
    <3>2. Len(box) + k \in 1..Len(box \o more) /\ (box \o more)[Len(box) + k] = more[k]
      BY Joined
    <3> QED
      BY <3>1, <3>2 DEF Tells
  <2> QED
    BY <1>2, <2>1, <2>2
<1>3. ASSUME NEW o, NEW s, AtMost(box, o, s), AtMost(more, o, s)
      PROVE  AtMost(box \o more, o, s)
  BY <1>3, Joined DEF AtMost
<1>4. ASSUME NEW c, Announces(box, c) PROVE Announces(box \o more, c)
  BY <1>4, Joined DEF Announces
<1> QED
  BY <1>1, <1>2, <1>3, <1>4

\* Trades without gaps, before trades that begin with the first.
LEMMA JoinedGapless ==
  ASSUME NEW box \in Seq(Record), NEW more \in Seq(Record), NEW sec, NEW d \in Nat,
         Gapless(box, sec, d), Gapless(more, sec, 0)
  PROVE  Gapless(box \o more, sec, d)
<1> HIDE DEF Record
<1>1. PICK n \in Nat, m \in Nat : n = Len(box) /\ m = Len(more)
  BY LenProperties
<1> DEFINE both == box \o more
<1>2. /\ Len(both) = n + m
      /\ \A k \in 1..n : both[k] = box[k]
      /\ \A k \in 1..m : both[n + k] = more[k]
      /\ \A k \in 1..n + m : k \in 1..n \/ (k - n \in 1..m /\ both[k] = more[k - n])
  BY <1>1, Joined
<1> HIDE DEF both
<1>3. ASSUME NEW k \in 1..n + m, TradeOf(both[k], sec), both[k].no > d + 1
      PROVE  \E j \in 1..k - 1 : TradeOf(both[j], sec) /\ both[j].no = both[k].no - 1
  <2>1. CASE k \in 1..n
    <3>1. PICK j \in 1..k - 1 : TradeOf(box[j], sec) /\ box[j].no = box[k].no - 1
      BY <1>1, <1>2, <1>3, <2>1 DEF Gapless
    <3>2. j \in 1..n
      BY <2>1
    <3> QED
      BY <1>2, <2>1, <3>1, <3>2
  <2>2. CASE k \notin 1..n
    <3>1. PICK h \in 1..m : h = k - n /\ both[k] = more[h]
      BY <1>2, <2>2
    <3>2. more[h].no \in Nat
      BY <1>1, <1>3, <3>1, RecordNumbers
    <3>3. PICK j \in 1..h - 1 : TradeOf(more[j], sec) /\ more[j].no = more[h].no - 1
      BY <1>1, <1>3, <3>1, <3>2 DEF Gapless
    <3>4. n + j \in 1..k - 1 /\ j \in 1..m
      BY <3>1
    <3> QED
      BY <1>2, <3>1, <3>3, <3>4
  <2> QED
    BY <2>1, <2>2
<1> QED
  BY <1>2, <1>3 DEF Gapless, both

\* One record alone.
LEMMA Alone ==
  ASSUME NEW r \in Record
  PROVE  /\ <<r>> \in Seq(Record)
         /\ r.kind # "trade" => \A sec, d : Gapless(<<r>>, sec, d)
         /\ \A o, s : About(r, o) /\ r.status = s => Tells(<<r>>, o, s)
         /\ \A o, s : (About(r, o) => r.status <= s) => AtMost(<<r>>, o, s)
         /\ \A o, h : (About(r, o) => r.status > h) => Rising(<<r>>, o, h)
<1> HIDE DEF Record
<1>1. <<r>> \in Seq(Record) /\ Len(<<r>>) = 1 /\ <<r>>[1] = r
  OBVIOUS
<1>2. \A k \in 1..1 : k = 1 /\ <<r>>[k] = r /\ ~(\E j \in 1..k - 1 : TRUE)
  OBVIOUS
<1>3. ASSUME r.kind # "trade", NEW sec, NEW d PROVE Gapless(<<r>>, sec, d)
  BY <1>1, <1>2, <1>3 DEF Gapless, TradeOf
<1>4. ASSUME NEW o, NEW s, About(r, o), r.status = s PROVE Tells(<<r>>, o, s)
  <2>1. 1 \in 1..Len(<<r>>)
    BY <1>1
  <2> QED
    BY <1>1, <1>4, <2>1 DEF Tells
<1>5. ASSUME NEW o, NEW s, About(r, o) => r.status <= s PROVE AtMost(<<r>>, o, s)
  BY <1>1, <1>2, <1>5 DEF AtMost
<1>6. ASSUME NEW o, NEW h, About(r, o) => r.status > h PROVE Rising(<<r>>, o, h)
  BY <1>1, <1>2, <1>6 DEF Rising
<1> QED
  BY <1>1, <1>3, <1>4, <1>5, <1>6

\* Rising statuses, before higher ones that rise.
LEMMA JoinedRising ==
  ASSUME NEW box \in Seq(Record), NEW more \in Seq(Record), NEW o, NEW h, NEW b \in Nat,
         Rising(box, o, h), Rising(more, o, h), Rising(more, o, b), AtMost(box, o, b)
  PROVE  Rising(box \o more, o, h)
<1> HIDE DEF Record
<1>1. PICK n \in Nat, m \in Nat : n = Len(box) /\ m = Len(more)
  BY LenProperties
<1> DEFINE both == box \o more
<1>2. /\ Len(both) = n + m
      /\ \A k \in 1..n : both[k] = box[k]
      /\ \A k \in 1..m : both[n + k] = more[k]
      /\ \A k \in 1..n + m : k \in 1..n \/ (k - n \in 1..m /\ both[k] = more[k - n])
  BY <1>1, Joined
<1> HIDE DEF both
<1>3. ASSUME NEW k \in 1..n + m, About(both[k], o)
      PROVE  /\ both[k].status > h
             /\ \A j \in 1..k - 1 : About(both[j], o) => both[j].status < both[k].status
  <2>1. CASE k \in 1..n
    <3>1. \A j \in 1..k - 1 : j \in 1..n
      BY <2>1
    <3> QED
      BY <1>1, <1>2, <1>3, <2>1, <3>1 DEF Rising
  <2>2. CASE k \notin 1..n
    <3>1. PICK i \in 1..m : i = k - n /\ both[k] = more[i]
      BY <1>2, <2>2
    <3>2. /\ more[i].status > h /\ more[i].status > b
          /\ \A j \in 1..i - 1 : About(more[j], o) => more[j].status < more[i].status
      BY <1>1, <1>3, <3>1 DEF Rising
    <3>3. ASSUME NEW j \in 1..k - 1, About(both[j], o) PROVE both[j].status < both[k].status
      <4>1. CASE j \in 1..n
        <5>1. box[j].status \in Nat /\ box[j].status <= b /\ both[j] = box[j]
          BY <1>1, <1>2, <3>3, <4>1, RecordNumbers DEF AtMost
        <5>2. more[i].status \in Nat
          BY <1>1, <1>3, <3>1, RecordNumbers
        <5> QED
          BY <3>1, <3>2, <5>1, <5>2
      <4>2. CASE j \notin 1..n
        <5>1. PICK g \in 1..i - 1 : g = j - n /\ j \in 1..n + m
          BY <3>1, <4>2
        <5>2. both[j] = more[g]
          BY <1>2, <4>2, <5>1
        <5> QED
          BY <3>1, <3>2, <3>3, <5>1, <5>2
      <4> QED
        BY <4>1, <4>2
    <3> QED
      BY <3>1, <3>2, <3>3
  <2> QED
    BY <2>1, <2>2
<1> QED
  BY <1>2, <1>3 DEF Rising, both

\* Where the records are when the first is taken.
LEMMA Taken ==
  ASSUME NEW box \in Seq(Record), box # <<>>
  PROVE  /\ Head(box) \in Record /\ Head(box) = box[1] /\ Tail(box) \in Seq(Record)
         /\ Len(box) \in Nat \ {0} /\ Len(Tail(box)) = Len(box) - 1
         /\ \A k \in 1..Len(Tail(box)) : Tail(box)[k] = box[k + 1] /\ k + 1 \in 1..Len(box)
         /\ \A k \in 1..Len(box) : k = 1 \/ (k - 1 \in 1..Len(Tail(box)) /\ box[k] = Tail(box)[k - 1])
<1> HIDE DEF Record
<1>1. PICK n \in Nat : n = Len(box) /\ n # 0
  BY LenProperties, EmptySeq
<1>2. /\ Head(box) \in Record /\ Head(box) = box[1] /\ Tail(box) \in Seq(Record)
      /\ Len(Tail(box)) = n - 1
      /\ \A k \in 1..n - 1 : Tail(box)[k] = box[k + 1]
  BY <1>1, HeadTailProperties
<1>3. \A k \in 1..n : k = 1 \/ (k - 1 \in 1..n - 1 /\ k - 1 + 1 = k)
  BY <1>1
<1>4. \A k \in 1..n - 1 : k + 1 \in 1..n
  BY <1>1
<1> QED
  BY <1>1, <1>2, <1>3, <1>4

\* What is left of it.
LEMMA TakenKeeps ==
  ASSUME NEW box \in Seq(Record), box # <<>>
  PROVE  /\ \A sec, n : /\ Brings(box, sec, n)
                        /\ ~(TradeOf(Head(box), sec) /\ Head(box).no = n)
                        => Brings(Tail(box), sec, n)
         /\ \A o, s : /\ Tells(box, o, s)
                      /\ ~(About(Head(box), o) /\ Head(box).status = s)
                      => Tells(Tail(box), o, s)
         /\ \A o, s : AtMost(box, o, s) =>
              AtMost(Tail(box), o, s) /\ (About(Head(box), o) => Head(box).status <= s)
         /\ \A c : /\ Announces(box, c)
                   /\ ~(Head(box).kind = "client" /\ Head(box).of = c)
                   => Announces(Tail(box), c)
<1> HIDE DEF Record
<1> DEFINE rest == Tail(box)
<1>1. /\ Head(box) = box[1] /\ 1 \in 1..Len(box)
      /\ \A k \in 1..Len(rest) : rest[k] = box[k + 1] /\ k + 1 \in 1..Len(box)
      /\ \A k \in 1..Len(box) : k = 1 \/ (k - 1 \in 1..Len(rest) /\ box[k] = rest[k - 1])
  BY Taken
<1> HIDE DEF rest
<1>2. ASSUME NEW sec, NEW n, Brings(box, sec, n),
             ~(TradeOf(Head(box), sec) /\ Head(box).no = n)
      PROVE  Brings(rest, sec, n)
  <2>1. PICK k \in 1..Len(box) : TradeOf(box[k], sec) /\ box[k].no = n
    BY <1>2 DEF Brings
  <2>2. k - 1 \in 1..Len(rest) /\ box[k] = rest[k - 1]
    BY <1>1, <1>2, <2>1
  <2> QED
    BY <2>1, <2>2 DEF Brings
<1>3. ASSUME NEW o, NEW s, Tells(box, o, s), ~(About(Head(box), o) /\ Head(box).status = s)
      PROVE  Tells(rest, o, s)
  <2>1. PICK k \in 1..Len(box) : About(box[k], o) /\ box[k].status = s
    BY <1>3 DEF Tells
  <2>2. k - 1 \in 1..Len(rest) /\ box[k] = rest[k - 1]
    BY <1>1, <1>3, <2>1
  <2> QED
    BY <2>1, <2>2 DEF Tells
<1>4. ASSUME NEW o, NEW s, AtMost(box, o, s)
      PROVE  AtMost(rest, o, s) /\ (About(Head(box), o) => Head(box).status <= s)
  BY <1>1, <1>4 DEF AtMost
<1>5. ASSUME NEW c, Announces(box, c), ~(Head(box).kind = "client" /\ Head(box).of = c)
      PROVE  Announces(rest, c)
  <2>1. PICK k \in 1..Len(box) : box[k].kind = "client" /\ box[k].of = c
    BY <1>5 DEF Announces
  <2>2. k - 1 \in 1..Len(rest) /\ box[k] = rest[k - 1]
    BY <1>1, <1>5, <2>1
  <2> QED
    BY <2>1, <2>2 DEF Announces
<1> QED
  BY <1>2, <1>3, <1>4, <1>5 DEF rest

\* The first trade above the last one told is the next; without it the others
\* still have their predecessors.
LEMMA TakenGapless ==
  ASSUME NEW box \in Seq(Record), box # <<>>, NEW sec, NEW d \in Nat, Gapless(box, sec, d)
  PROVE  IF TradeOf(Head(box), sec) /\ Head(box).no > d
           THEN Head(box).no = d + 1 /\ Gapless(Tail(box), sec, d + 1)
           ELSE Gapless(Tail(box), sec, d)
<1> HIDE DEF Record
<1> DEFINE rest == Tail(box)
<1>1. PICK n \in Nat, m \in Nat :
        /\ n = Len(box) /\ m = Len(rest) /\ n = m + 1
        /\ Head(box) = box[1]
        /\ \A k \in 1..m : rest[k] = box[k + 1] /\ k + 1 \in 1..n
        /\ \A k \in 1..n : k = 1 \/ (k - 1 \in 1..m /\ box[k] = rest[k - 1])
  BY Taken
<1> HIDE DEF rest
<1>2. \A k \in 1..n : TradeOf(box[k], sec) => box[k].no \in Nat
  BY <1>1, RecordNumbers
<1>3. ASSUME TradeOf(box[1], sec) PROVE box[1].no <= d + 1
  <2>1. 1 \in 1..n /\ ~(\E j \in 1..1 - 1 : TRUE)
    BY <1>1
  <2> QED
    BY <1>1, <1>2, <1>3, <2>1 DEF Gapless
<1>4. ASSUME NEW e \in {d, d + 1}, TradeOf(box[1], sec) => box[1].no <= e
      PROVE  Gapless(rest, sec, e)
  <2>1. ASSUME NEW k \in 1..m, TradeOf(rest[k], sec), rest[k].no > e + 1
        PROVE  \E j \in 1..k - 1 : TradeOf(rest[j], sec) /\ rest[j].no = rest[k].no - 1
    <3>1. k + 1 \in 1..n /\ rest[k] = box[k + 1] /\ rest[k].no \in Nat
      BY <1>1, <1>2, <2>1
    <3>2. PICK j \in 1..k + 1 - 1 : TradeOf(box[j], sec) /\ box[j].no = rest[k].no - 1
      BY <1>1, <2>1, <3>1 DEF Gapless
    <3>3. j # 1 /\ j \in 1..n
      BY <1>1, <1>4, <2>1, <3>1, <3>2
    <3>4. j - 1 \in 1..k - 1 /\ box[j] = rest[j - 1]
      BY <1>1, <3>3
    <3> QED
      BY <3>2, <3>4
  <2> QED
    BY <1>1, <2>1 DEF Gapless
<1>5. CASE TradeOf(box[1], sec) /\ box[1].no > d
  <2>1. box[1].no = d + 1
    BY <1>1, <1>2, <1>3, <1>5
  <2>2. Gapless(rest, sec, d + 1)
    BY <1>4, <2>1
  <2> QED
    BY <1>1, <1>5, <2>1, <2>2 DEF rest
<1>6. CASE ~(TradeOf(box[1], sec) /\ box[1].no > d)
  <2>1. TradeOf(box[1], sec) => box[1].no <= d
    BY <1>1, <1>2, <1>6
  <2>2. Gapless(rest, sec, d)
    BY <1>4, <2>1
  <2> QED
    BY <1>1, <1>6, <2>2 DEF rest
<1> QED
  BY <1>5, <1>6

\* The statuses behind the first are higher.
LEMMA TakenRising ==
  ASSUME NEW box \in Seq(Record), box # <<>>, NEW o, NEW h, Rising(box, o, h)
  PROVE  /\ Rising(Tail(box), o, h)
         /\ About(Head(box), o) => Head(box).status > h /\ Rising(Tail(box), o, Head(box).status)
<1> HIDE DEF Record
<1> DEFINE rest == Tail(box)
<1>1. PICK n \in Nat, m \in Nat :
        /\ n = Len(box) /\ m = Len(rest) /\ n = m + 1
        /\ Head(box) = box[1]
        /\ \A k \in 1..m : rest[k] = box[k + 1] /\ k + 1 \in 1..n
  BY Taken
<1> HIDE DEF rest
<1>2. ASSUME NEW k \in 1..m, About(rest[k], o)
      PROVE  /\ rest[k].status > h
             /\ About(box[1], o) => rest[k].status > box[1].status
             /\ \A j \in 1..k - 1 : About(rest[j], o) => rest[j].status < rest[k].status
  <2>1. /\ k + 1 \in 1..n /\ rest[k] = box[k + 1] /\ 1 \in 1..k + 1 - 1 /\ 1 \in 1..n
        /\ \A j \in 1..k - 1 : j + 1 \in 1..k + 1 - 1 /\ j \in 1..m
    BY <1>1
  <2>2. /\ rest[k].status > h
        /\ \A j \in 1..k + 1 - 1 : About(box[j], o) => box[j].status < rest[k].status
    BY <1>1, <1>2, <2>1 DEF Rising
  <2>3. About(box[1], o) => rest[k].status \in Nat /\ box[1].status \in Nat
    BY <1>1, <1>2, <2>1, RecordNumbers
  <2> QED
    BY <1>1, <2>1, <2>2, <2>3
<1>3. Rising(rest, o, h)
  BY <1>1, <1>2 DEF Rising
<1>4. About(box[1], o) => box[1].status > h /\ Rising(rest, o, box[1].status)
  <2>1. 1 \in 1..n
    BY <1>1
  <2> QED
    BY <1>1, <1>2, <2>1 DEF Rising
<1> QED
  BY <1>1, <1>3, <1>4 DEF rest

-----------------------------------------------------------------------------
(* The client: the replays of one request *)

\* The sequences put together, one after the other.
Chained(S, seqs, f, n) ==
  /\ f \in [1..n -> Seq(S)] /\ f[1] = seqs[1]
  /\ \A k \in 2..n : f[k] = f[k - 1] \o seqs[k]

\* Sequences can be put together.
LEMMA Chains ==
  ASSUME NEW S, NEW len \in Nat, NEW seqs \in [1..len -> Seq(S)], NEW n \in 1..len
  PROVE  \E f : Chained(S, seqs, f, n)
<1> DEFINE Bad == {m \in Nat : m \in 1..len /\ ~\E f : Chained(S, seqs, f, m)}
<1>12. SUFFICES ASSUME ~\E f : Chained(S, seqs, f, n) PROVE FALSE
  OBVIOUS
<1>1. n \in Bad
  BY <1>12
<1>2. PICK m \in Bad : \A k \in Bad : ~(k < m)
  <2>1. PICK m \in Bad : \A k \in Bad : <<k, m>> \notin OpToRel(<, Nat)
    BY <1>1, NatLessThanWellFounded, WFMin
  <2> QED
    BY <2>1 DEF OpToRel
<1>3. m # 1
  <2>1. Chained(S, seqs, [k \in 1..1 |-> seqs[1]], 1)
    BY <1>2 DEF Chained
  <2> QED
    BY <1>2, <2>1
<1>4. m \in 1..len /\ m - 1 \in 1..len /\ m - 1 \in Nat /\ m - 1 < m
  BY <1>2, <1>3
<1>5. PICK f : Chained(S, seqs, f, m - 1)
  BY <1>2, <1>4
<1>6. PICK g : g = [k \in 1..m |-> IF k = m THEN f[m - 1] \o seqs[m] ELSE f[k]]
  OBVIOUS
<1>7. /\ f \in [1..m - 1 -> Seq(S)] /\ f[1] = seqs[1]
      /\ \A k \in 2..m - 1 : f[k] = f[k - 1] \o seqs[k]
  BY <1>5 DEF Chained
<1>8. f[m - 1] \o seqs[m] \in Seq(S)
  <2>1. f[m - 1] \in Seq(S) /\ seqs[m] \in Seq(S)
    BY <1>3, <1>4, <1>7
  <2> QED
    BY <2>1, ConcatProperties
<1>9. g \in [1..m -> Seq(S)]
  <2>1. \A k \in 1..m : k # m => k \in 1..m - 1
    BY <1>4
  <2> QED
    BY <1>6, <1>7, <1>8, <2>1
<1>10. g[1] = seqs[1] /\ \A k \in 2..m : g[k] = g[k - 1] \o seqs[k]
  <2>1. 1 \in 1..m /\ 1 # m
    BY <1>3, <1>4
  <2>2. ASSUME NEW k \in 2..m PROVE g[k] = g[k - 1] \o seqs[k]
    <3>1. k \in 1..m /\ k - 1 \in 1..m /\ k - 1 # m /\ (k # m => k \in 2..m - 1)
      BY <1>4
    <3> QED
      BY <1>6, <1>7, <3>1
  <2> QED
    BY <1>6, <1>7, <2>1, <2>2
<1>11. Chained(S, seqs, g, m)
  BY <1>9, <1>10 DEF Chained
<1> QED
  BY <1>2, <1>11

\* FlattenSeq puts them together.
LEMMA Flattened ==
  ASSUME NEW S, NEW len \in Nat \ {0}, NEW seqs \in [1..len -> Seq(S)]
  PROVE  \E f : Chained(S, seqs, f, len) /\ FlattenSeq(seqs) = f[len]
<1>1. PICK f : Chained(S, seqs, f, len)
  BY Chains
<1>2. Len(seqs) = len
  OBVIOUS
<1> DEFINE g == CHOOSE h : h = [i \in 1..Len(seqs) |-> IF i = 1 THEN seqs[i] ELSE h[i - 1] \o seqs[i]]
<1>3. FlattenSeq(seqs) = g[len]
  BY <1>2 DEF FlattenSeq
<1>4. f = [i \in 1..Len(seqs) |-> IF i = 1 THEN seqs[i] ELSE f[i - 1] \o seqs[i]]
  <2>1. /\ f = [i \in 1..len |-> f[i]] /\ f[1] = seqs[1]
        /\ \A k \in 2..len : f[k] = f[k - 1] \o seqs[k]
    BY <1>1 DEF Chained
  <2>2. \A k \in 1..len : k # 1 => k \in 2..len
    OBVIOUS
  <2>3. \A i \in 1..len : f[i] = IF i = 1 THEN seqs[i] ELSE f[i - 1] \o seqs[i]
    BY <2>1, <2>2
  <2> QED
    BY <1>2, <2>1, <2>3
<1>5. g = [i \in 1..len |-> IF i = 1 THEN seqs[i] ELSE g[i - 1] \o seqs[i]]
  BY <1>2, <1>4
<1> HIDE DEF g
<1> DEFINE Bad == {m \in Nat : m \in 1..len /\ g[m] # f[m]}
<1>6. Bad = {}
  <2>1. SUFFICES ASSUME Bad # {} PROVE FALSE
    OBVIOUS
  <2>2. PICK m \in Bad : \A k \in Bad : ~(k < m)
    <3>1. PICK m \in Bad : \A k \in Bad : <<k, m>> \notin OpToRel(<, Nat)
      BY <2>1, NatLessThanWellFounded, WFMin
    <3> QED
      BY <3>1 DEF OpToRel
  <2>3. m \in 1..len /\ g[m] # f[m]
    BY <2>2
  <2>4. g[m] = IF m = 1 THEN seqs[m] ELSE g[m - 1] \o seqs[m]
    BY <1>5, <2>3
  <2>5. m # 1
    BY <1>1, <2>3, <2>4 DEF Chained
  <2>6. m \in 2..len /\ m - 1 \in 1..len /\ m - 1 \in Nat /\ m - 1 < m
    BY <2>3, <2>5
  <2>7. g[m - 1] = f[m - 1]
    BY <2>2, <2>6
  <2> QED
    BY <1>1, <2>3, <2>4, <2>5, <2>6, <2>7 DEF Chained
<1>7. g[len] = f[len]
  BY <1>6
<1> QED
  BY <1>1, <1>3, <1>7

TradesOnly(box) == \A k \in 1..Len(box) : box[k].kind = "trade"

\* The day's trades of an instrument, if the mask asks for them anew.
LEMMA ReplayIs ==
  ASSUME numbering \in Numbering, tape \in [Instrument -> 0..MaxTradeNo],
         NEW i \in Instrument, NEW mask
  PROVE  /\ Replay(i, mask) \in Seq(Record)
         /\ TradesOnly(Replay(i, mask))
         /\ \A sec : Gapless(Replay(i, mask), sec, 0)
         /\ "trades" \in mask \ feeds[i] =>
              tape[i] = 0 \/ Brings(Replay(i, mask), numbering[i], tape[i])
<1>1. PICK sec \in SecId : sec = numbering[i]
  BY MeantIs
<1>2. PICK n \in Nat : n = tape[i] /\ n <= MaxTradeNo
  BY BoundsAssumption
<1>3. MaxTradeNo \in Nat
  BY BoundsAssumption
<1> DEFINE day == [no \in 1..n |-> [kind |-> "trade", sec |-> sec, no |-> no]]
<1>4. \A no \in 1..n : [kind |-> "trade", sec |-> sec, no |-> no] \in Record
  BY <1>2, <1>3 DEF Record
<1>5. day \in Seq(Record) /\ Len(day) = n
  <2> HIDE DEF Record
  <2> QED
    BY <1>4
<1>6. \A k \in 1..n : /\ day[k].kind = "trade" /\ day[k].sec = sec /\ day[k].no = k
  OBVIOUS
<1> HIDE DEF day, Record
<1>7. TradesOnly(day)
  BY <1>5, <1>6 DEF TradesOnly
<1>8. ASSUME NEW s PROVE Gapless(day, s, 0)
  <2>1. ASSUME NEW k \in 1..n, TradeOf(day[k], s), day[k].no > 0 + 1
        PROVE  \E j \in 1..k - 1 : TradeOf(day[j], s) /\ day[j].no = day[k].no - 1
    <3>1. k - 1 \in 1..k - 1 /\ k - 1 \in 1..n
      BY <1>6, <2>1
    <3> QED
      BY <1>6, <2>1, <3>1 DEF TradeOf
  <2> QED
    BY <1>5, <2>1 DEF Gapless
<1>9. n = 0 \/ Brings(day, sec, n)
  <2>1. n # 0 => n \in 1..n
    OBVIOUS
  <2> QED
    BY <1>5, <1>6, <2>1 DEF Brings, TradeOf
<1>10. /\ <<>> \in Seq(Record) /\ Len(<<>>) = 0 /\ TradesOnly(<<>>)
       /\ \A s : Gapless(<<>>, s, 0)
  BY DEF TradesOnly, Gapless
<1>11. Replay(i, mask) = IF "trades" \in mask \ feeds[i] THEN day ELSE <<>>
  BY <1>1, <1>2 DEF Replay, day
<1> QED
  BY <1>1, <1>2, <1>5, <1>7, <1>8, <1>9, <1>10, <1>11

\* Trades put together are trades.
LEMMA JoinedTrades ==
  ASSUME NEW box \in Seq(Record), NEW more \in Seq(Record), TradesOnly(box), TradesOnly(more)
  PROVE  TradesOnly(box \o more)
<1> HIDE DEF Record
<1> QED
  BY Joined DEF TradesOnly

\* The replays of all the instruments of a request.
LEMMA ReplaysAre ==
  ASSUME numbering \in Numbering, tape \in [Instrument -> 0..MaxTradeNo],
         NEW m \in [Instrument -> SUBSET Feed], NEW all,
         all = FlattenSeq([id \in SecId |-> Replay(Meant(id), m[Meant(id)])])
  PROVE  /\ all \in Seq(Record)
         /\ TradesOnly(all)
         /\ \A sec : Gapless(all, sec, 0)
         /\ \A i \in Instrument : "trades" \in m[i] \ feeds[i] =>
              tape[i] = 0 \/ Brings(all, numbering[i], tape[i])
<1>1. PICK len \in Nat : len = Cardinality(Instrument) /\ SecId = 1..len
  BY FiniteAssumption, FS_CardinalityType DEF SecId
<1> DEFINE rep(id) == Replay(Meant(id), m[Meant(id)])
<1>2. PICK seqs : seqs = [id \in 1..len |-> rep(id)]
  OBVIOUS
<1>3. \A id \in 1..len : seqs[id] = rep(id)
  BY <1>2
<1>4. ASSUME NEW id \in 1..len
      PROVE  /\ seqs[id] \in Seq(Record) /\ TradesOnly(seqs[id])
             /\ \A sec : Gapless(seqs[id], sec, 0)
             /\ \A i \in Instrument : i = Meant(id) /\ "trades" \in m[i] \ feeds[i] =>
                  tape[i] = 0 \/ Brings(seqs[id], numbering[i], tape[i])
  <2>1. PICK j \in Instrument : j = Meant(id)
    BY <1>1, MeantIs
  <2>2. PICK mask : mask = m[j]
    OBVIOUS
  <2>3. seqs[id] = Replay(j, mask)
    BY <1>3, <2>1, <2>2
  <2> QED
    BY <2>1, <2>2, <2>3, ReplayIs
<1>5. all = FlattenSeq(seqs)
  BY <1>1, <1>2
<1> HIDE DEF rep, Record
<1>6. CASE len = 0
  <2>1. seqs = <<>> /\ Len(seqs) = 0
    BY <1>2, <1>6
  <2>2. all = <<>>
    BY <1>5, <2>1 DEF FlattenSeq
  <2>3. ASSUME NEW i \in Instrument PROVE FALSE
    BY <1>1, <1>6, MeantIs
  <2>4. <<>> \in Seq(Record) /\ Len(<<>>) = 0
    OBVIOUS
  <2>5. TradesOnly(<<>>) /\ \A sec : Gapless(<<>>, sec, 0)
    BY DEF TradesOnly, Gapless
  <2> QED
    BY <2>2, <2>3, <2>4, <2>5
<1>7. CASE len # 0
  <2>1. seqs \in [1..len -> Seq(Record)] /\ len \in Nat \ {0}
    BY <1>2, <1>3, <1>4, <1>7
  <2>2. PICK f : Chained(Record, seqs, f, len) /\ all = f[len]
    <3>1. \E f : Chained(Record, seqs, f, len) /\ FlattenSeq(seqs) = f[len]
      BY <2>1, Flattened
    <3> QED
      BY <1>5, <3>1
  <2>3. /\ f \in [1..len -> Seq(Record)] /\ f[1] = seqs[1]
        /\ \A k \in 2..len : f[k] = f[k - 1] \o seqs[k]
    BY <2>2 DEF Chained
  <2> DEFINE Good(k) == TradesOnly(f[k]) /\ \A sec : Gapless(f[k], sec, 0)
             Bad == {k \in Nat : k \in 1..len /\ ~Good(k)}
  <2>4. \A a, b \in Seq(Record) :
          /\ TradesOnly(a) /\ TradesOnly(b) => TradesOnly(a \o b)
          /\ \A sec : Gapless(a, sec, 0) /\ Gapless(b, sec, 0) => Gapless(a \o b, sec, 0)
    BY JoinedTrades, JoinedGapless
  <2>5. Bad = {}
    <3>1. SUFFICES ASSUME Bad # {} PROVE FALSE
      OBVIOUS
    <3>2. PICK k \in Bad : \A h \in Bad : ~(h < k)
      <4>1. PICK k \in Bad : \A h \in Bad : <<h, k>> \notin OpToRel(<, Nat)
        BY <3>1, NatLessThanWellFounded, WFMin
      <4> QED
        BY <4>1 DEF OpToRel
    <3>3. k \in 1..len /\ ~Good(k)
      BY <3>2
    <3>4. k # 1
      BY <1>4, <2>3, <3>3
    <3>5. k \in 2..len /\ k - 1 \in 1..len /\ k - 1 \in Nat /\ k - 1 < k
      BY <3>3, <3>4
    <3>6. Good(k - 1)
      <4> HIDE DEF Good
      <4> QED
        BY <3>2, <3>5
    <3>7. PICK a \in Seq(Record), b \in Seq(Record) : a = f[k - 1] /\ b = seqs[k] /\ f[k] = a \o b
      BY <2>1, <2>3, <3>3, <3>5
    <3>8. TradesOnly(a) /\ TradesOnly(b) /\ \A sec : Gapless(a, sec, 0) /\ Gapless(b, sec, 0)
      BY <1>4, <3>3, <3>6, <3>7
    <3> QED
      BY <2>4, <3>3, <3>7, <3>8
  <2>6. Good(len)
    <3> HIDE DEF Good
    <3> QED
      BY <2>1, <2>5
  <2>7. ASSUME NEW i \in Instrument, "trades" \in m[i] \ feeds[i]
        PROVE  tape[i] = 0 \/ Brings(all, numbering[i], tape[i])
    <3>0. PICK id \in 1..len : id = numbering[i]
      BY <1>1, MeantIs
    <3>1. PICK sec, n : id = numbering[i] /\ sec = id /\ n = tape[i]
      BY <3>0
    <3>2. Meant(id) = i
      BY <3>1, MeantIs
    <3>3. SUFFICES ASSUME n # 0 PROVE Brings(all, sec, n)
      BY <3>1
    <3>4. Brings(seqs[id], sec, n)
      BY <1>4, <2>7, <3>1, <3>2, <3>3
    <3> DEFINE Lacks == {k \in Nat : k \in id..len /\ ~Brings(f[k], sec, n)}
    <3>5. \A a, b \in Seq(Record) : Brings(a, sec, n) \/ Brings(b, sec, n) => Brings(a \o b, sec, n)
      BY JoinedKeeps
    <3>6. ASSUME NEW k \in 2..len PROVE f[k - 1] \in Seq(Record) /\ seqs[k] \in Seq(Record)
      BY <2>1, <2>3
    <3>7. Brings(f[id], sec, n)
      <4>1. CASE id = 1
        BY <2>3, <3>4, <4>1
      <4>2. CASE id # 1
        <5>1. id \in 2..len
          BY <4>2
        <5> QED
          BY <2>3, <3>4, <3>5, <3>6, <5>1
      <4> QED
        BY <4>1, <4>2
    <3>8. Lacks = {}
      <4>1. SUFFICES ASSUME Lacks # {} PROVE FALSE
        OBVIOUS
      <4>2. PICK k \in Lacks : \A h \in Lacks : ~(h < k)
        <5>1. PICK k \in Lacks : \A h \in Lacks : <<h, k>> \notin OpToRel(<, Nat)
          BY <4>1, NatLessThanWellFounded, WFMin
        <5> QED
          BY <5>1 DEF OpToRel
      <4>3. k \in id..len /\ ~Brings(f[k], sec, n)
        BY <4>2
      <4>4. k # id
        BY <3>7, <4>3
      <4>5. k \in 2..len /\ k - 1 \in id..len /\ k - 1 \in Nat /\ k - 1 < k
        BY <4>3, <4>4
      <4>6. Brings(f[k - 1], sec, n)
        BY <4>2, <4>5
      <4> QED
        BY <2>3, <3>5, <3>6, <4>3, <4>5, <4>6
    <3>9. len \in Nat /\ len \in id..len
      OBVIOUS
    <3> QED
      BY <2>2, <3>8, <3>9
  <2>8. all \in Seq(Record)
    BY <2>1, <2>2, <2>3
  <2> QED
    BY <2>2, <2>6, <2>7, <2>8
<1> QED
  BY <1>6, <1>7

\* The snapshot of a session begins with the securities, has every client of the
\* session and the status of every order that was placed, and no trades.
LEMMA SnapshotIs ==
  ASSUME status \in [ClientOrder -> 0..MaxStatus], NEW box \in Snapshot
  PROVE  /\ box \in Seq(Record) /\ box # <<>> /\ box[1].kind = "securities"
         /\ \A sec, d : Gapless(box, sec, d)
         /\ \A c \in OwnClient : Announces(box, c)
         /\ \A o \in ClientOrder : /\ Rising(box, o, 0) /\ AtMost(box, o, status[o])
                                   /\ status[o] > 0 => Tells(box, o, status[o])
<1> DEFINE Placed == {p \in ClientOrder : status[p] > 0}
           A == [kind : {"client"}, of : OwnClient]
           B == {[kind |-> "order", of |-> o, status |-> status[o]] : o \in Placed}
           recs == A \cup B
<1>1. MaxStatus \in Nat
  BY BoundsAssumption
<1>2. IsFiniteSet(A)
  <2>1. PICK f : f = [c \in OwnClient |-> [kind |-> "client", of |-> c]]
    OBVIOUS
  <2>2. f \in Surjection(OwnClient, A)
    BY <2>1 DEF Surjection
  <2> QED
    BY <2>2, FiniteAssumption, FS_Surjection
<1>3. IsFiniteSet(B)
  <2>1. PICK f : f = [o \in Placed |-> [kind |-> "order", of |-> o, status |-> status[o]]]
    OBVIOUS
  <2>2. f \in Surjection(Placed, B)
    BY <2>1 DEF Surjection
  <2>3. IsFiniteSet(Placed)
    BY FiniteAssumption, FS_Subset
  <2> QED
    BY <2>2, <2>3, FS_Surjection
<1>4. PICK n \in Nat : n = Cardinality(recs)
  <2> HIDE DEF A, B
  <2> QED
    BY <1>2, <1>3, FS_Union, FS_CardinalityType
<1>5. PICK s \in SetToSeqs(recs) : box = <<[kind |-> "securities"]>> \o s
  BY DEF Snapshot
<1>6. /\ s \in [1..n -> recs]
      /\ \A i, j \in 1..n : i # j => s[i] # s[j]
  BY <1>4, <1>5 DEF SetToSeqs
<1>7. recs \subseteq Record /\ [kind |-> "securities"] \in Record
  BY <1>1 DEF Record
<1>8. PICK first \in Record : first = [kind |-> "securities"]
  BY <1>7
<1>9. \A r \in recs : /\ r.kind \in {"client", "order"}
                      /\ r.kind = "order" => r.of \in Placed /\ r.status = status[r.of]
                      /\ r.kind = "order" => r = [kind |-> "order", of |-> r.of, status |-> status[r.of]]
  OBVIOUS
<1>10. /\ \A c \in OwnClient : \E r \in recs : r.kind = "client" /\ r.of = c
       /\ \A o \in Placed : \E r \in recs : r.kind = "order" /\ r.of = o /\ r.status = status[o]
  <2>1. ASSUME NEW c \in OwnClient PROVE \E r \in recs : r.kind = "client" /\ r.of = c
    <3>1. [kind |-> "client", of |-> c] \in recs
      OBVIOUS
    <3> QED
      BY <3>1
  <2>2. ASSUME NEW o \in Placed
        PROVE  \E r \in recs : r.kind = "order" /\ r.of = o /\ r.status = status[o]
    <3>1. [kind |-> "order", of |-> o, status |-> status[o]] \in recs
      OBVIOUS
    <3> QED
      BY <3>1
  <2> QED
    BY <2>1, <2>2
<1>11. \A r \in recs : \E i \in 1..n : s[i] = r
  <2> HIDE DEF recs
  <2>1. IsFiniteSet(recs)
    <3> HIDE DEF A, B
    <3> QED
      BY <1>2, <1>3, FS_Union DEF recs
  <2>2. s \in Injection(1..n, recs)
    BY <1>6 DEF Injection, IsInjective
  <2>3. Cardinality(1..n) = n
    BY FS_Interval
  <2>4. s \in Surjection(1..n, recs)
    BY <1>4, <2>1, <2>2, <2>3, FS_Injection
  <2> QED
    BY <2>4 DEF Surjection
<1> HIDE DEF recs, Record
<1>12. s \in Seq(Record) /\ Len(s) = n /\ <<first>> \in Seq(Record) /\ Len(<<first>>) = 1
  BY <1>6, <1>7
<1>13. /\ box \in Seq(Record) /\ Len(box) = 1 + n /\ box[1] = first
       /\ \A k \in 1..n : 1 + k \in 1..Len(box) /\ box[1 + k] = s[k]
       /\ \A k \in 1..1 + n : k = 1 \/ (k - 1 \in 1..n /\ box[k] = s[k - 1])
  <2>1. box = <<first>> \o s /\ <<first>>[1] = first /\ 1 \in 1..Len(<<first>>)
    BY <1>5, <1>8, <1>12
  <2>2. \A k : k \in 1..Len(<<first>>) => k = 1
    BY <1>12
  <2> QED
    BY <1>12, <2>1, <2>2, Joined
<1>14. box # <<>> /\ box[1].kind = "securities"
  BY <1>8, <1>13
<1>15. \A k \in 1..1 + n : /\ box[k].kind \in {"securities", "client", "order"}
                           /\ box[k].kind = "order" =>
                                /\ k # 1 /\ k - 1 \in 1..n /\ box[k] = s[k - 1]
                                /\ box[k].of \in Placed /\ box[k].status = status[box[k].of]
  BY <1>6, <1>8, <1>9, <1>13
<1>16. ASSUME NEW sec, NEW d PROVE Gapless(box, sec, d)
  BY <1>13, <1>15 DEF Gapless, TradeOf
<1>17. ASSUME NEW c \in OwnClient PROVE Announces(box, c)
  <2>1. PICK i \in 1..n : s[i].kind = "client" /\ s[i].of = c
    BY <1>10, <1>11
  <2> QED
    BY <1>13, <2>1 DEF Announces
<1>18. ASSUME NEW o \in ClientOrder PROVE AtMost(box, o, status[o])
  BY <1>13, <1>15, <1>1, <1>18 DEF AtMost, About
<1>19. ASSUME NEW o \in ClientOrder, status[o] > 0 PROVE Tells(box, o, status[o])
  <2>1. o \in Placed
    BY <1>19
  <2>2. PICK i \in 1..n : s[i].kind = "order" /\ s[i].of = o /\ s[i].status = status[o]
    BY <1>10, <1>11, <2>1
  <2> QED
    BY <1>13, <2>2 DEF Tells, About
<1>20. ASSUME NEW o \in ClientOrder PROVE Rising(box, o, 0)
  <2>1. ASSUME NEW k \in 1..1 + n, About(box[k], o)
        PROVE  /\ box[k].status > 0
               /\ \A j \in 1..k - 1 : ~About(box[j], o)
    <3>1. box[k].kind = "order" /\ box[k].of = o
      BY <1>15, <2>1 DEF About
    <3>2. /\ k - 1 \in 1..n /\ box[k] = s[k - 1] /\ o \in Placed
          /\ box[k].status = status[o]
      BY <1>15, <3>1
    <3>3. ASSUME NEW j \in 1..k - 1, About(box[j], o) PROVE FALSE
      <4>1. j \in 1..1 + n /\ j # k
        BY <3>3
      <4>2. box[j].kind = "order" /\ box[j].of = o
        BY <1>15, <3>3, <4>1 DEF About
      <4>3. j - 1 \in 1..n /\ box[j] = s[j - 1] /\ j - 1 # k - 1
        BY <1>15, <4>1, <4>2
      <4>4. s[j - 1] \in recs /\ s[k - 1] \in recs
        BY <1>6, <3>2, <4>3
      <4>5. s[j - 1] = s[k - 1]
        BY <1>9, <3>1, <3>2, <4>2, <4>3, <4>4
      <4> QED
        BY <1>6, <3>2, <4>3, <4>5
    <3> QED
      BY <3>2, <3>3
  <2> QED
    BY <1>13, <2>1 DEF Rising
<1> QED
  BY <1>13, <1>14, <1>16, <1>17, <1>18, <1>19, <1>20

-----------------------------------------------------------------------------
(* The client: the inductive invariant *)

Unsubscribed == {"reset", "startup", "load", "resubscribe"}
Loading == Unsubscribed \cup {"respecs"}

Command ==
  [pc : {"idle", "send", "store", "specs", "mark", "close"} \cup Loading,
   of : Instrument \cup {Nothing}, feed : Feed \cup {Nothing}, mask : SUBSET Feed,
   sec : 0..Cardinality(Instrument), on : BOOLEAN]
Errand ==
  [pc : {"idle", "register", "send", "wait"}, of : Instrument \cup {Nothing},
   sec : 0..Cardinality(Instrument), login : 0..MaxLogins]

ClientTypes ==
  /\ NativeTypeOK
  /\ inbox \in Seq(Record)
  /\ wanted \in [Instrument -> SUBSET Feed]
  /\ broken \in {"nothing", "loss", "close"}
  /\ cmd \in Command
  /\ cmd.pc \in {"send", "store"} => cmd.of \in Instrument /\ cmd.feed \in Feed /\ cmd.sec \in SecId
  /\ cmd.pc = "specs" => cmd.sec \in SecId
  /\ asker \in Errand /\ placer \in Errand
  /\ asker.pc # "idle" => asker.of \in Instrument /\ asker.sec \in SecId
  /\ placer.pc # "idle" => placer.of \in Instrument /\ placer.sec \in SecId
  /\ told \in [Instrument -> Seq(Instrument \X Nat)]

\* The catalog is that of the session as soon as its first record is read, and
\* Run polls only then.
CurrentCatalog == \A i \in Instrument : catalog[numbering[i]] = i
Starts == inbox # <<>> /\ inbox[1].kind = "securities"
Phases ==
  /\ run = "off" <=> cmd.pc \in Loading
  /\ cmd.pc \in Loading => recovering
  /\ conn = "none" => run = "over" /\ cmd.pc = "idle"
  /\ cmd.pc \in Unsubscribed => feeds = NoFeeds
  /\ cmd.pc \in {"reset", "startup"} => Starts
  /\ cmd.pc \notin {"reset", "startup"} /\ conn # "none" =>
       CurrentCatalog \/ (cmd.pc = "load" /\ Starts)

\* The server has the mask the client believes it has, but between the two
\* steps of a command and after a failure.
Masked ==
  /\ subs = wanted
  /\ cmd.pc \in {"send", "store"} => cmd.mask = NewMask(cmd.of, cmd.feed, cmd.on)
  /\ cmd.pc = "send" => numbering[cmd.of] = cmd.sec
  /\ cmd.pc = "store" => feeds[cmd.of] = cmd.mask
  /\ conn # "none" /\ cmd.pc \notin Unsubscribed =>
       \A i \in Instrument \ unsure : (cmd.pc = "store" /\ i = cmd.of) \/ feeds[i] = wanted[i]

\* Specifications are read under the numbers of the session.
SpecsNow ==
  /\ cmd.pc \in Loading \ {"reset"} => secSpecs = NoCatalog
  /\ conn # "none" /\ cmd.pc # "reset" => \A id \in SecId : secSpecs[id] \in {Nothing, catalog[id]}

\* What is told of an instrument is what dedup has let through, and what is not
\* told yet is on its way, without a gap.
ToldSoFar(i) ==
  /\ \A k \in 1..Len(told[i]) : /\ told[i][k][1] = i
                                /\ told[i][k][2] <= dedup[i]
                                /\ k > 1 => told[i][k][2] > told[i][k - 1][2]
                                /\ i \notin unheard => told[i][k][2] = k
  /\ i \notin unheard => Len(told[i]) = dedup[i]
ToCome(i) ==
  /\ Gapless(inbox, numbering[i], dedup[i])
  /\ "trades" \in feeds[i] => tape[i] <= dedup[i] \/ Brings(inbox, numbering[i], tape[i])
TradesFollow ==
  /\ \A i \in Instrument : ToldSoFar(i)
  /\ conn # "none" => \A i \in Instrument : ToCome(i)

\* An order is kept or buffered, never both, and what the inbox has of it is
\* newer; its last status is one of these, or it was missed.
Held(o) == IF cmd.pc = "reset" THEN 0 ELSE IF pendingOrders[o] > 0 THEN pendingOrders[o] ELSE known[o]
Introduced == IF cmd.pc = "reset" THEN {} ELSE clients
Dropped == IF cmd.pc = "reset" THEN {} ELSE missed
OrderFollows(o) ==
  /\ Held(o) <= status[o]
  /\ Rising(inbox, o, Held(o)) /\ AtMost(inbox, o, status[o])
  /\ Owner[o] \in OwnClient /\ o \notin Dropped => Held(o) = status[o] \/ Tells(inbox, o, status[o])
OrdersFollow ==
  /\ \A o \in ClientOrder : /\ known[o] > 0 => Owner[o] \in clients
                            /\ pendingOrders[o] > 0 => Owner[o] \notin clients
  /\ conn # "none" =>
       /\ \A c \in OwnClient \ Introduced : Announces(inbox, c)
       /\ \A o \in ClientOrder : OrderFollows(o)

\* What was looked up in this session names the same instrument still, and a
\* link that is being recovered was lost.
Addressed(g) ==
  /\ g.login <= login
  /\ g.pc \in {"register", "send"} /\ g.login = login /\ conn # "none" => numbering[g.of] = g.sec
Errands ==
  /\ Addressed(asker) /\ Addressed(placer)
  /\ \A w \in wrong : w[2]
  /\ (broken = "close" \/ cmd.pc = "close") => fatal
  /\ conn \in {"down", "closed"} => broken # "nothing"
  /\ run \in {"failed", "recovering", "attempt"} => broken # "nothing"
  /\ run \in {"recovering", "attempt"} => broken = "loss"

NativeInv ==
  ClientTypes /\ Phases /\ Masked /\ SpecsNow /\ TradesFollow /\ OrdersFollow /\ Errands

\* What an action that leaves the masks alone does to them: nothing.
LEMMA MaskedFrame ==
  ASSUME Masked, UNCHANGED <<subs, wanted, cmd, feeds, unsure, numbering>>,
         conn' # "none" => conn # "none"
  PROVE  Masked'
BY DEF Masked, NewMask

\* Nor to the specifications.
LEMMA SpecsFrame ==
  ASSUME SpecsNow, UNCHANGED <<secSpecs, catalog, cmd>>, conn' # "none" => conn # "none"
  PROVE  SpecsNow'
BY DEF SpecsNow

\* More records at the end do not hide the first.
LEMMA PhasesFrame ==
  ASSUME Phases, NEW more \in Seq(Record), inbox \in Seq(Record), inbox' = inbox \o more,
         UNCHANGED <<run, cmd, recovering, feeds, catalog, numbering>>,
         conn' = conn
  PROVE  Phases'
<1> HIDE DEF Record
<1>1. Starts => Starts'
  <2>1. ASSUME inbox # <<>> PROVE inbox' # <<>> /\ inbox'[1] = inbox[1]
    <3>1. PICK n \in Nat : n = Len(inbox)
      BY LenProperties
    <3>2. 1 \in 1..Len(inbox) /\ Len(inbox') # 0
      BY <2>1, <3>1, EmptySeq, Joined
    <3> QED
      BY <3>2, Joined
  <2> QED
    BY <2>1 DEF Starts
<1> QED
  BY <1>1 DEF Phases, CurrentCatalog

\* More records at the end that begin where the trades end.
LEMMA TradesGrow ==
  ASSUME TradesFollow, inbox \in Seq(Record), NEW more \in Seq(Record), inbox' = inbox \o more,
         dedup \in [Instrument -> 0..MaxTradeNo],
         UNCHANGED <<told, unheard, dedup, numbering>>,
         conn' # "none" => conn # "none",
         \A i \in Instrument : Gapless(more, numbering[i], 0),
         \A i \in Instrument : "trades" \in feeds'[i] =>
           \/ "trades" \in feeds[i] /\ tape'[i] = tape[i]
           \/ tape'[i] = 0
           \/ Brings(more, numbering[i], tape'[i])
  PROVE  TradesFollow'
<1> HIDE DEF Record
<1>1. ASSUME NEW i \in Instrument PROVE ToldSoFar(i)'
  BY DEF TradesFollow, ToldSoFar
<1>2. ASSUME conn' # "none", NEW i \in Instrument PROVE ToCome(i)'
  <2>0. PICK d \in Nat : d = dedup[i]
    BY BoundsAssumption
  <2>1. PICK sec : d = dedup[i] /\ sec = numbering[i]
    BY <2>0
  <2>2. ToCome(i)
    BY <1>2 DEF TradesFollow
  <2>3. Gapless(inbox, sec, d) /\ Gapless(more, sec, 0)
    BY <2>1, <2>2 DEF ToCome
  <2>4. Gapless(inbox', sec, d)
    BY <2>3, JoinedGapless
  <2>5. \A n : Brings(inbox, sec, n) \/ Brings(more, sec, n) => Brings(inbox', sec, n)
    BY JoinedKeeps
  <2>6. PICK t, u : t = tape[i] /\ u = tape'[i]
    OBVIOUS
  <2>7. "trades" \in feeds[i] => t <= d \/ Brings(inbox, sec, t)
    BY <2>1, <2>2, <2>6 DEF ToCome
  <2>8. "trades" \in feeds'[i] => u <= d \/ Brings(inbox', sec, u)
    BY <2>1, <2>5, <2>6, <2>7
  <2> QED
    BY <2>1, <2>4, <2>6, <2>8 DEF ToCome
<1> QED
  BY <1>1, <1>2 DEF TradesFollow

\* More records at the end that are about no order.
LEMMA OrdersGrow ==
  ASSUME OrdersFollow, inbox \in Seq(Record), NEW more \in Seq(Record), inbox' = inbox \o more,
         \A k \in 1..Len(more) : more[k].kind \notin {"order", "modify"},
         status \in [ClientOrder -> 0..MaxStatus],
         UNCHANGED <<clients, pendingOrders, known, missed, status>>,
         cmd'.pc = "reset" <=> cmd.pc = "reset",
         conn' # "none" => conn # "none"
  PROVE  OrdersFollow'
<1> HIDE DEF Record
<1>1. ASSUME conn' # "none", NEW c \in OwnClient \ Introduced' PROVE Announces(inbox', c)
  BY <1>1, JoinedKeeps DEF OrdersFollow, Introduced
<1>2. ASSUME conn' # "none", NEW o \in ClientOrder PROVE OrderFollows(o)'
  <2>0. PICK s \in Nat : s = status[o]
    BY BoundsAssumption
  <2>1. PICK h : s = status[o] /\ h = Held(o)
    BY <2>0
  <2>2. h = Held(o)' /\ s = status'[o] /\ (o \notin Dropped' => o \notin Dropped)
    BY <2>1 DEF Held, Dropped
  <2>3. /\ h <= s
        /\ Rising(inbox, o, h) /\ AtMost(inbox, o, s)
        /\ Owner[o] \in OwnClient /\ o \notin Dropped => h = s \/ Tells(inbox, o, s)
    BY <1>2, <2>1 DEF OrdersFollow, OrderFollows
  <2>4. Rising(more, o, h) /\ Rising(more, o, s) /\ AtMost(more, o, s)
    BY DEF Rising, AtMost, About
  <2>5. Rising(inbox', o, h)
    BY <2>3, <2>4, JoinedRising
  <2>6. AtMost(inbox', o, s) /\ (Tells(inbox, o, s) => Tells(inbox', o, s))
    BY <2>3, <2>4, JoinedKeeps
  <2> QED
    BY <2>2, <2>3, <2>5, <2>6 DEF OrderFollows
<1> QED
  BY <1>1, <1>2 DEF OrdersFollow

\* Nothing new in the inbox.
LEMMA InboxFrame ==
  ASSUME inbox \in Seq(Record), inbox' = inbox
  PROVE  /\ <<>> \in Seq(Record) /\ inbox' = inbox \o <<>> /\ Len(<<>>) = 0
         /\ \A sec : Gapless(<<>>, sec, 0)
<1>1. \A sec : Gapless(<<>>, sec, 0)
  BY DEF Gapless
<1> HIDE DEF Record
<1> QED
  BY <1>1, ConcatEmptySeq

\* Nothing new of the trades.
LEMMA TradesFrame ==
  ASSUME ClientTypes, TradesFollow,
         UNCHANGED <<inbox, told, unheard, dedup, numbering, tape, feeds>>,
         conn' # "none" => conn # "none"
  PROVE  TradesFollow'
<1>1. inbox \in Seq(Record) /\ dedup \in [Instrument -> 0..MaxTradeNo]
  BY DEF ClientTypes, NativeTypeOK
<1> QED
  BY <1>1, InboxFrame, TradesGrow

\* Nothing new of the orders.
LEMMA OrdersFrame ==
  ASSUME ClientTypes, OrdersFollow,
         UNCHANGED <<inbox, clients, pendingOrders, known, missed, status>>,
         cmd'.pc = "reset" <=> cmd.pc = "reset",
         conn' # "none" => conn # "none"
  PROVE  OrdersFollow'
<1>1. inbox \in Seq(Record) /\ status \in [ClientOrder -> 0..MaxStatus]
  BY DEF ClientTypes, NativeTypeOK
<1>2. \A k \in 1..Len(<<>>) : FALSE
  OBVIOUS
<1> QED
  BY <1>1, <1>2, InboxFrame, OrdersGrow

\* Nothing new of the requests under way.
LEMMA ErrandsFrame ==
  ASSUME Errands, UNCHANGED <<asker, placer, login, wrong, fatal, broken, conn, run, numbering>>,
         cmd'.pc = "close" => cmd.pc = "close"
  PROVE  Errands'
BY DEF Errands, Addressed

-----------------------------------------------------------------------------
(* The client: each action keeps the invariant *)

\* What the types say of the inbox and the counters.
LEMMA TypesGive ==
  ASSUME ClientTypes
  PROVE  /\ inbox \in Seq(Record) /\ numbering \in Numbering
         /\ dedup \in [Instrument -> 0..MaxTradeNo] /\ tape \in [Instrument -> 0..MaxTradeNo]
         /\ status \in [ClientOrder -> 0..MaxStatus]
         /\ feeds \in [Instrument -> SUBSET Feed] /\ subs \in [Instrument -> SUBSET Feed]
         /\ catalog \in [SecId -> Instrument \cup {Nothing}]
BY DEF ClientTypes, NativeTypeOK

\* A trade on the exchange: it is on its way if it is subscribed to.
LEMMA TradeHappensInv ==
  ASSUME NativeInv, NEW i \in Instrument, TradeHappens(i)
  PROVE  NativeInv'
<1>1. /\ ClientTypes /\ Phases /\ Masked /\ SpecsNow /\ TradesFollow /\ OrdersFollow /\ Errands
      /\ inbox \in Seq(Record) /\ numbering \in Numbering
      /\ tape \in [Instrument -> 0..MaxTradeNo] /\ dedup \in [Instrument -> 0..MaxTradeNo]
  BY TypesGive DEF NativeInv
<1>2. PICK sec \in SecId, t \in Nat :
        /\ sec = numbering[i] /\ t = tape[i] /\ t < MaxTradeNo /\ MaxTradeNo \in Nat
        /\ tape' = [tape EXCEPT ![i] = t + 1]
  <2>1. numbering[i] \in SecId /\ tape[i] \in Nat /\ MaxTradeNo \in Nat
    BY <1>1, MeantIs, BoundsAssumption
  <2> QED
    BY <2>1 DEF TradeHappens
<1>3. PICK r \in Record : r = [kind |-> "trade", sec |-> sec, no |-> t + 1]
  <2>1. t + 1 \in 1..MaxTradeNo
    BY <1>2
  <2>2. [kind |-> "trade", sec |-> sec, no |-> t + 1] \in [kind : {"trade"}, sec : SecId, no : 1..MaxTradeNo]
    BY <2>1
  <2> QED
    BY <2>2 DEF Record
<1>4. /\ inbox' = IF "trades" \in feeds[i] /\ conn # "none" THEN Append(inbox, r) ELSE inbox
      /\ spent' \in 0..MaxSpent
      /\ UNCHANGED <<login, numbering, feeds, status, clientSide>>
  BY <1>1, <1>2, <1>3, BoundsAssumption DEF TradeHappens, Push, Spend, ClientTypes, NativeTypeOK
<1>5. /\ UNCHANGED <<conn, recovering, fatal, run, broken>>
      /\ UNCHANGED <<catalog, subs, wanted, secSpecs, clients, pendingOrders, known, missed>>
      /\ UNCHANGED <<dedup, told, unheard, collector, asker, cmd, placer, unsure, wrong>>
  BY <1>4 DEF clientSide, linkSide, masks, orderStore, tradeStore, askVars
<1> HIDE DEF Record
<1>6. PICK more \in Seq(Record) :
        /\ inbox' = inbox \o more
        /\ more = <<>> \/ (more = <<r>> /\ conn # "none")
        /\ "trades" \in feeds[i] /\ conn # "none" => more = <<r>>
  <2>1. <<>> \in Seq(Record) /\ <<r>> \in Seq(Record)
    OBVIOUS
  <2>2. inbox \o <<>> = inbox /\ inbox \o <<r>> = Append(inbox, r)
    BY <1>1, ConcatEmptySeq, AppendIsConcat
  <2> QED
    BY <1>4, <2>1, <2>2
<1>7. \A k \in 1..Len(more) : more[k] = r
  BY <1>6
<1>8. ClientTypes'
  <2>1. inbox' \in Seq(Record)
    BY <1>1, <1>6, ConcatProperties
  <2>2. tape' \in [Instrument -> 0..MaxTradeNo]
    BY <1>1, <1>2
  <2> QED
    BY <1>1, <1>4, <1>5, <2>1, <2>2 DEF ClientTypes, NativeTypeOK
<1>9. TradesFollow'
  <2>1. CASE more = <<>>
    <3>1. ASSUME conn' # "none", NEW j \in Instrument PROVE ToCome(j)'
      <4>1. j # i \/ "trades" \notin feeds[i]
        BY <1>5, <1>6, <2>1, <3>1
      <4>2. inbox' = inbox /\ ToCome(j) /\ (j # i => tape'[j] = tape[j])
        BY <1>1, <1>2, <1>5, <1>6, <2>1, <3>1, ConcatEmptySeq DEF TradesFollow
      <4> QED
        BY <1>4, <1>5, <4>1, <4>2 DEF ToCome
    <3>2. ASSUME NEW j \in Instrument PROVE ToldSoFar(j)'
      BY <1>1, <1>5 DEF TradesFollow, ToldSoFar
    <3> QED
      BY <3>1, <3>2 DEF TradesFollow
  <2>2. CASE more = <<r>> /\ conn # "none"
    <3>1. ASSUME NEW j \in Instrument PROVE ToCome(j)'
      <4>1. PICK s \in SecId, d \in Nat : s = numbering[j] /\ d = dedup[j]
        BY <1>1, MeantIs, BoundsAssumption
      <4>2. Gapless(inbox, s, d)
        BY <1>1, <2>2, <4>1 DEF TradesFollow, ToCome
      <4>3. CASE j # i
        <5>1. s # sec
          BY <1>1, <1>2, <4>1, <4>3, NumberingOnto
        <5>2. Gapless(more, s, 0)
          BY <1>3, <1>7, <5>1 DEF Gapless, TradeOf
        <5>3. Gapless(inbox', s, d)
          BY <1>1, <1>6, <4>2, <5>2, JoinedGapless
        <5>4. \A n : Brings(inbox, s, n) => Brings(inbox', s, n)
          BY <1>1, <1>6, JoinedKeeps
        <5>5. tape'[j] = tape[j] /\ ToCome(j)
          BY <1>1, <1>2, <2>2, <4>3 DEF TradesFollow
        <5> QED
          BY <1>4, <1>5, <4>1, <5>3, <5>4, <5>5 DEF ToCome
      <4>4. CASE j = i
        <5>1. Brings(inbox', sec, t + 1)
          <6>1. Brings(more, sec, t + 1)
            BY <1>3, <2>2 DEF Brings, TradeOf
          <6> QED
            BY <1>1, <1>6, <6>1, JoinedKeeps
        <5>2. tape'[i] = t + 1
          BY <1>1, <1>2
        <5>3. t <= d \/ Brings(inbox, sec, t)
          <6>1. "trades" \in feeds[i]
            BY <1>3, <1>4, <2>2, <1>6, <1>1, AppendProperties
          <6> QED
            BY <1>1, <1>2, <2>2, <4>1, <4>4, <6>1 DEF TradesFollow, ToCome
        <5>4. Gapless(inbox', sec, d)
          <6>1. PICK n \in Nat : n = Len(inbox)
            BY <1>1, LenProperties
          <6>2. /\ Len(inbox') = n + 1
                /\ \A k \in 1..n : inbox'[k] = inbox[k]
                /\ inbox'[n + 1] = r
            <7>1. inbox' = Append(inbox, r)
              BY <1>1, <1>6, <2>2, AppendIsConcat
            <7> QED
              BY <1>1, <6>1, <7>1, AppendProperties
          <6>3. ASSUME NEW k \in 1..n + 1, TradeOf(inbox'[k], sec), inbox'[k].no > d + 1
                PROVE  \E h \in 1..k - 1 : TradeOf(inbox'[h], sec) /\ inbox'[h].no = inbox'[k].no - 1
            <7>1. CASE k \in 1..n
              <8>1. PICK h \in 1..k - 1 : TradeOf(inbox[h], sec) /\ inbox[h].no = inbox[k].no - 1
                BY <1>2, <4>1, <4>2, <4>4, <6>1, <6>2, <6>3, <7>1 DEF Gapless
              <8>2. h \in 1..n
                BY <7>1
              <8> QED
                BY <6>2, <7>1, <8>1, <8>2
            <7>2. CASE k \notin 1..n
              <8>1. k = n + 1 /\ inbox'[k].no = t + 1 /\ t > d
                BY <1>3, <6>2, <6>3, <7>2
              <8>2. PICK h \in 1..n : TradeOf(inbox[h], sec) /\ inbox[h].no = t
                BY <5>3, <6>1, <8>1 DEF Brings
              <8>3. h \in 1..k - 1 /\ inbox'[h] = inbox[h]
                BY <6>2, <8>1
              <8> QED
                BY <8>1, <8>2, <8>3
            <7> QED
              BY <7>1, <7>2
          <6> QED
            BY <6>2, <6>3 DEF Gapless
        <5> QED
          BY <1>2, <1>4, <1>5, <4>1, <4>4, <5>1, <5>2, <5>4 DEF ToCome
      <4> QED
        BY <4>3, <4>4
    <3>2. ASSUME NEW j \in Instrument PROVE ToldSoFar(j)'
      BY <1>1, <1>5 DEF TradesFollow, ToldSoFar
    <3> QED
      BY <3>1, <3>2 DEF TradesFollow
  <2> QED
    BY <1>6, <2>1, <2>2
<1>10. OrdersFollow'
  <2>1. \A k \in 1..Len(more) : more[k].kind \notin {"order", "modify"}
    BY <1>3, <1>7
  <2> QED
    BY <1>1, <1>4, <1>5, <1>6, <2>1, TypesGive, OrdersGrow
<1>11. Phases'
  BY <1>1, <1>4, <1>5, <1>6, PhasesFrame
<1>12. Masked' /\ SpecsNow' /\ Errands'
  BY <1>1, <1>4, <1>5, MaskedFrame, SpecsFrame, ErrandsFrame
<1> QED
  BY <1>8, <1>9, <1>10, <1>11, <1>12 DEF NativeInv

\* An order is placed, or changes: the record of it is newer than all before.
LEMMA OrderMovesInv ==
  ASSUME NativeInv, NEW o \in ClientOrder, OrderMoves(o)
  PROVE  NativeInv'
<1>1. /\ ClientTypes /\ Phases /\ Masked /\ SpecsNow /\ TradesFollow /\ OrdersFollow /\ Errands
      /\ inbox \in Seq(Record) /\ status \in [ClientOrder -> 0..MaxStatus]
  BY TypesGive DEF NativeInv
<1>2. PICK s \in Nat :
        /\ s = status[o] /\ s < MaxStatus /\ MaxStatus \in Nat
        /\ status' = [status EXCEPT ![o] = s + 1]
  <2>1. status[o] \in Nat /\ MaxStatus \in Nat
    BY <1>1, BoundsAssumption
  <2> QED
    BY <2>1 DEF OrderMoves
<1>3. PICK r \in Record : r = [kind |-> IF s = 0 THEN "order" ELSE "modify", of |-> o, status |-> s + 1]
  <2>1. s + 1 \in 1..MaxStatus /\ (IF s = 0 THEN "order" ELSE "modify") \in {"order", "modify"}
    BY <1>2
  <2>2. [kind |-> IF s = 0 THEN "order" ELSE "modify", of |-> o, status |-> s + 1]
          \in [kind : {"order", "modify"}, of : ClientOrder, status : 1..MaxStatus]
    BY <2>1
  <2> QED
    BY <2>2 DEF Record
<1>4. /\ inbox' = IF conn = "none" THEN inbox ELSE Append(inbox, r)
      /\ spent' \in 0..MaxSpent
      /\ UNCHANGED <<login, numbering, feeds, tape, clientSide>>
  BY <1>1, <1>2, <1>3, BoundsAssumption DEF OrderMoves, Push, Spend, ClientTypes, NativeTypeOK
<1>5. /\ UNCHANGED <<conn, recovering, fatal, run, broken>>
      /\ UNCHANGED <<catalog, subs, wanted, secSpecs, clients, pendingOrders, known, missed>>
      /\ UNCHANGED <<dedup, told, unheard, collector, asker, cmd, placer, unsure, wrong>>
  BY <1>4 DEF clientSide, linkSide, masks, orderStore, tradeStore, askVars
<1> HIDE DEF Record
<1>6. PICK more \in Seq(Record) :
        /\ inbox' = inbox \o more
        /\ more = <<>> \/ more = <<r>>
        /\ conn # "none" => more = <<r>>
  <2>1. <<>> \in Seq(Record) /\ <<r>> \in Seq(Record)
    OBVIOUS
  <2>2. inbox \o <<>> = inbox /\ inbox \o <<r>> = Append(inbox, r)
    BY <1>1, ConcatEmptySeq, AppendIsConcat
  <2> QED
    BY <1>4, <2>1, <2>2
<1>7. \A k \in 1..Len(more) : more[k] = r
  BY <1>6
<1>8. ClientTypes'
  <2>1. inbox' \in Seq(Record)
    BY <1>1, <1>6, ConcatProperties
  <2>2. status' \in [ClientOrder -> 0..MaxStatus]
    BY <1>1, <1>2
  <2> QED
    BY <1>1, <1>4, <1>5, <2>1, <2>2 DEF ClientTypes, NativeTypeOK
<1>9. TradesFollow'
  <2>1. \A sec : Gapless(more, sec, 0)
    BY <1>3, <1>7 DEF Gapless, TradeOf
  <2> QED
    BY <1>1, <1>4, <1>5, <1>6, <2>1, TypesGive, TradesGrow
<1>10. OrdersFollow'
  <2>1. ASSUME conn # "none", NEW p \in ClientOrder PROVE OrderFollows(p)'
    <3>0. PICK b \in Nat : b = status[p]
      BY <1>1, <1>2
    <3>1. PICK h : b = status[p] /\ h = Held(p)
      BY <3>0
    <3>2. h = Held(p)' /\ Dropped' = Dropped
      BY <1>5, <3>1 DEF Held, Dropped
    <3>3. /\ h <= b /\ Rising(inbox, p, h) /\ AtMost(inbox, p, b)
          /\ Owner[p] \in OwnClient /\ p \notin Dropped => h = b \/ Tells(inbox, p, b)
      BY <1>1, <2>1, <3>1 DEF OrdersFollow, OrderFollows
    <3>4. more = <<r>>
      BY <1>6, <2>1
    <3>5. h \in Nat
      BY <1>1, <3>1, BoundsAssumption DEF Held, ClientTypes, NativeTypeOK
    <3>6. About(r, p) => p = o /\ b = s /\ r.status = s + 1
      BY <1>2, <1>3, <3>1 DEF About
    <3>7. Rising(more, p, h) /\ Rising(more, p, b)
      BY <3>3, <3>4, <3>5, <3>6, Alone
    <3>8. Rising(inbox', p, h)
      BY <1>1, <1>6, <3>3, <3>7, JoinedRising
    <3>9. CASE p = o
      <4>1. status'[p] = s + 1 /\ b = s
        BY <1>1, <1>2, <3>1, <3>9
      <4>2. AtMost(inbox, p, s + 1)
        <5>1. \A k \in 1..Len(inbox) : About(inbox[k], p) => inbox[k].status \in Nat
          BY <1>1, RecordNumbers
        <5> QED
          BY <3>3, <4>1, <5>1 DEF AtMost
      <4>3. AtMost(more, p, s + 1) /\ Tells(more, p, s + 1)
        <5>1. About(r, p) /\ r.status = s + 1
          BY <1>3, <3>9 DEF About
        <5> QED
          BY <3>4, <5>1, Alone
      <4>4. AtMost(inbox', p, s + 1) /\ Tells(inbox', p, s + 1)
        BY <1>1, <1>6, <4>2, <4>3, JoinedKeeps
      <4> QED
        BY <3>2, <3>3, <3>5, <3>8, <4>1, <4>4 DEF OrderFollows
    <3>10. CASE p # o
      <4>1. status'[p] = b
        BY <1>1, <1>2, <3>1, <3>10
      <4>2. AtMost(more, p, b)
        BY <3>4, <3>6, <3>10, Alone
      <4>3. AtMost(inbox', p, b) /\ (Tells(inbox, p, b) => Tells(inbox', p, b))
        BY <1>1, <1>6, <3>3, <4>2, JoinedKeeps
      <4> QED
        BY <3>2, <3>3, <3>8, <4>1, <4>3 DEF OrderFollows
    <3> QED
      BY <3>9, <3>10
  <2>2. ASSUME conn # "none", NEW c \in OwnClient \ Introduced' PROVE Announces(inbox', c)
    BY <1>1, <1>5, <1>6, <2>2, JoinedKeeps DEF OrdersFollow, Introduced
  <2>3. \A p \in ClientOrder : /\ known'[p] > 0 => Owner[p] \in clients'
                               /\ pendingOrders'[p] > 0 => Owner[p] \notin clients'
    BY <1>1, <1>5 DEF OrdersFollow
  <2> QED
    BY <1>5, <2>1, <2>2, <2>3 DEF OrdersFollow
<1>11. Phases'
  BY <1>1, <1>4, <1>5, <1>6, PhasesFrame
<1>12. Masked' /\ SpecsNow' /\ Errands'
  BY <1>1, <1>4, <1>5, MaskedFrame, SpecsFrame, ErrandsFrame
<1> QED
  BY <1>8, <1>9, <1>10, <1>11, <1>12 DEF NativeInv

\* The link and Run change; nothing that was read or asked for does.
LEMMA LinkMovesInv ==
  ASSUME NativeInv,
         LinkDrops \/ PollErrs \/ CheckFatal \/ RunSeesFatal \/ BeginAttempt
           \/ AttemptSucceeds \/ AttemptFails \/ WindowEnds
  PROVE  NativeInv'
<1> USE DEF RunMoves, PollErrs, CheckFatal, RunSeesFatal, BeginAttempt, AttemptSucceeds,
            AttemptFails, WindowEnds
<1>1. /\ ClientTypes /\ Phases /\ Masked /\ SpecsNow /\ TradesFollow /\ OrdersFollow /\ Errands
      /\ inbox \in Seq(Record)
  BY TypesGive DEF NativeInv
<1> HIDE DEF Record
<1>2. /\ UNCHANGED <<login, numbering, feeds, inbox, tape, status, recovering, fatal>>
      /\ UNCHANGED <<catalog, subs, wanted, secSpecs, clients, pendingOrders, known, missed>>
      /\ UNCHANGED <<dedup, told, unheard, collector, asker, cmd, placer, unsure, wrong>>
  BY DEF LinkDrops, exchangeSide, stores, commands, masks, orderStore, tradeStore, askVars
<1>3. /\ conn' \in {"up", "down", "closed", "none"} /\ broken' \in {"nothing", "loss", "close"}
      /\ run' \in {"off", "polling", "failed", "recovering", "attempt", "over"}
      /\ spent' \in 0..MaxSpent
  BY <1>1, BoundsAssumption DEF LinkDrops, Spend, ClientTypes, NativeTypeOK
<1>4. /\ conn' = "none" <=> conn = "none"
      /\ run' = "off" <=> run = "off"
      /\ conn = "none" => run' = run
  BY <1>1 DEF LinkDrops, Phases
<1>5. Phases'
  BY <1>1, <1>2, <1>4 DEF Phases, CurrentCatalog, Starts
<1>6. /\ broken' = "close" => fatal
      /\ conn' \in {"down", "closed"} => broken' # "nothing"
      /\ run' \in {"failed", "recovering", "attempt"} => broken' # "nothing"
      /\ run' \in {"recovering", "attempt"} => broken' = "loss"
  <2>1. CASE LinkDrops
    BY <1>1, <2>1 DEF LinkDrops, Errands, ClientTypes
  <2>2. CASE PollErrs
    BY <1>1, <2>2 DEF Errands, ClientTypes, NativeTypeOK, Phases
  <2>3. CASE ~LinkDrops /\ ~PollErrs
    BY <1>1, <2>3 DEF Errands, ClientTypes
  <2> QED
    BY <2>1, <2>2, <2>3
<1>7. Errands'
  BY <1>1, <1>2, <1>4, <1>6 DEF Errands, Addressed
<1>8. ClientTypes'
  BY <1>1, <1>2, <1>3 DEF ClientTypes, NativeTypeOK
<1>9. Masked' /\ SpecsNow'
  BY <1>1, <1>2, <1>4, MaskedFrame, SpecsFrame
<1>10. TradesFollow' /\ OrdersFollow'
  BY <1>1, <1>2, <1>4, TradesFrame, OrdersFrame
<1> QED
  BY <1>5, <1>7, <1>8, <1>9, <1>10 DEF NativeInv

\* The catalog is that of the session when a record is read, or this is the
\* record that brings it.
LEMMA ReadNow ==
  ASSUME NativeInv, inbox # <<>>, conn = "up", run = "polling" \/ cmd.pc = "load"
  PROVE  /\ cmd.pc \notin {"reset", "startup"}
         /\ CurrentCatalog \/ (cmd.pc = "load" /\ Head(inbox).kind = "securities")
         /\ cmd.pc = "load" => secSpecs = NoCatalog
<1>1. Phases /\ inbox \in Seq(Record) /\ SpecsNow
  BY TypesGive DEF NativeInv
<1> HIDE DEF Record
<1>2. Head(inbox) = inbox[1]
  BY <1>1, Taken
<1>3. cmd.pc \notin {"reset", "startup"}
  BY <1>1 DEF Phases, Loading, Unsubscribed
<1> QED
  BY <1>1, <1>2, <1>3 DEF Phases, Starts, SpecsNow, Loading, Unsubscribed

\* The trades, when the record that is read is not one.
LEMMA ReadNoTrade ==
  ASSUME ClientTypes, TradesFollow, inbox # <<>>, inbox' = Tail(inbox), Head(inbox).kind # "trade",
         UNCHANGED <<told, unheard, dedup, numbering, tape, feeds, conn>>
  PROVE  TradesFollow'
<1>1. inbox \in Seq(Record) /\ dedup \in [Instrument -> 0..MaxTradeNo]
  BY TypesGive
<1> HIDE DEF Record
<1>2. ASSUME NEW i \in Instrument PROVE ToldSoFar(i)'
  BY DEF TradesFollow, ToldSoFar
<1>3. ASSUME conn # "none", NEW i \in Instrument PROVE ToCome(i)'
  <2>0. PICK d \in Nat : d = dedup[i]
    BY <1>1, BoundsAssumption
  <2>1. PICK sec, t : d = dedup[i] /\ sec = numbering[i] /\ t = tape[i]
    BY <2>0
  <2>2. /\ Gapless(inbox, sec, d)
        /\ "trades" \in feeds[i] => t <= d \/ Brings(inbox, sec, t)
    BY <1>3, <2>1 DEF TradesFollow, ToCome
  <2>3. ~TradeOf(Head(inbox), sec)
    BY DEF TradeOf
  <2>4. Gapless(inbox', sec, d)
    BY <1>1, <2>2, <2>3, TakenGapless
  <2>5. Brings(inbox, sec, t) => Brings(inbox', sec, t)
    BY <1>1, <2>3, TakenKeeps
  <2> QED
    BY <2>1, <2>2, <2>4, <2>5 DEF ToCome
<1> QED
  BY <1>2, <1>3 DEF TradesFollow

\* The orders, when the record that is read is about none and is no client's.
LEMMA ReadNoOrder ==
  ASSUME ClientTypes, OrdersFollow, inbox # <<>>, inbox' = Tail(inbox),
         Head(inbox).kind \notin {"order", "modify", "client"},
         UNCHANGED <<clients, pendingOrders, known, missed, status, cmd, conn>>
  PROVE  OrdersFollow'
<1>1. inbox \in Seq(Record)
  BY TypesGive
<1> HIDE DEF Record
<1>2. ASSUME conn # "none", NEW o \in ClientOrder PROVE OrderFollows(o)'
  <2>1. PICK s, h : s = status[o] /\ h = Held(o)
    OBVIOUS
  <2>2. h = Held(o)' /\ s = status'[o] /\ Dropped' = Dropped
    BY <2>1 DEF Held, Dropped
  <2>3. /\ h <= s /\ Rising(inbox, o, h) /\ AtMost(inbox, o, s)
        /\ Owner[o] \in OwnClient /\ o \notin Dropped => h = s \/ Tells(inbox, o, s)
    BY <1>2, <2>1 DEF OrdersFollow, OrderFollows
  <2>4. ~About(Head(inbox), o)
    BY DEF About
  <2>5. Rising(inbox', o, h)
    BY <1>1, <2>3, TakenRising
  <2>6. AtMost(inbox', o, s) /\ (Tells(inbox, o, s) => Tells(inbox', o, s))
    BY <1>1, <2>3, <2>4, TakenKeeps
  <2> QED
    BY <2>2, <2>3, <2>5, <2>6 DEF OrderFollows
<1>3. ASSUME conn # "none", NEW c \in OwnClient \ Introduced' PROVE Announces(inbox', c)
  BY <1>1, <1>3, TakenKeeps DEF OrdersFollow, Introduced
<1> QED
  BY <1>2, <1>3 DEF OrdersFollow

\* decodeClientNew: an order that was buffered is kept now.
LEMMA ReadClient ==
  ASSUME ClientTypes, OrdersFollow, inbox # <<>>, inbox' = Tail(inbox), cmd.pc # "reset",
         Head(inbox).kind = "client", DecodeClientNew(Head(inbox).of),
         UNCHANGED <<status, cmd, conn>>
  PROVE  /\ OrdersFollow'
         /\ clients' \subseteq OwnClient
         /\ {known', pendingOrders'} \subseteq [ClientOrder -> 0..MaxStatus]
<1>1. inbox \in Seq(Record) /\ clients \subseteq OwnClient
      /\ known \in [ClientOrder -> 0..MaxStatus] /\ pendingOrders \in [ClientOrder -> 0..MaxStatus]
  BY TypesGive DEF ClientTypes, NativeTypeOK
<1>2. PICK c \in OwnClient : c = Head(inbox).of
  BY <1>1, Taken, RecordType
<1> HIDE DEF Record
<1>3. /\ clients' = clients \cup {c} /\ missed' = missed
      /\ pendingOrders' = [o \in ClientOrder |-> IF Buffered(o, c) THEN 0 ELSE pendingOrders[o]]
      /\ known' = [o \in ClientOrder |-> IF Buffered(o, c) THEN pendingOrders[o] ELSE known[o]]
  BY <1>2 DEF DecodeClientNew, FlushPending
<1>4. {known', pendingOrders'} \subseteq [ClientOrder -> 0..MaxStatus]
  <2>1. \A o \in ClientOrder : pendingOrders[o] \in 0..MaxStatus /\ known[o] \in 0..MaxStatus /\ 0 \in 0..MaxStatus
    BY <1>1, BoundsAssumption
  <2> QED
    BY <1>3, <2>1
<1>5. ASSUME NEW o \in ClientOrder
      PROVE  /\ known'[o] > 0 => Owner[o] \in clients'
             /\ pendingOrders'[o] > 0 => Owner[o] \notin clients'
             /\ Held(o)' = Held(o)
  <2>1. /\ known[o] \in Nat /\ pendingOrders[o] \in Nat
        /\ known[o] > 0 => Owner[o] \in clients
        /\ pendingOrders[o] > 0 => Owner[o] \notin clients
    BY <1>1, BoundsAssumption DEF OrdersFollow
  <2>2. CASE Buffered(o, c)
    <3>1. pendingOrders'[o] = 0 /\ known'[o] = pendingOrders[o] /\ Owner[o] = c /\ pendingOrders[o] > 0
      BY <1>3, <2>2 DEF Buffered
    <3> QED
      BY <1>3, <2>1, <3>1 DEF Held
  <2>3. CASE ~Buffered(o, c)
    <3>1. pendingOrders'[o] = pendingOrders[o] /\ known'[o] = known[o]
      BY <1>3, <2>3
    <3> QED
      BY <1>3, <2>1, <2>3, <3>1 DEF Held, Buffered
  <2> QED
    BY <2>2, <2>3
<1>6. ASSUME conn # "none", NEW o \in ClientOrder PROVE OrderFollows(o)'
  <2>1. PICK s, h : s = status[o] /\ h = Held(o)
    OBVIOUS
  <2>2. h = Held(o)' /\ s = status'[o] /\ Dropped' = Dropped
    BY <1>3, <1>5, <2>1 DEF Dropped
  <2>3. /\ h <= s /\ Rising(inbox, o, h) /\ AtMost(inbox, o, s)
        /\ Owner[o] \in OwnClient /\ o \notin Dropped => h = s \/ Tells(inbox, o, s)
    BY <1>6, <2>1 DEF OrdersFollow, OrderFollows
  <2>4. ~About(Head(inbox), o)
    BY DEF About
  <2>5. Rising(inbox', o, h)
    BY <1>1, <2>3, TakenRising
  <2>6. AtMost(inbox', o, s) /\ (Tells(inbox, o, s) => Tells(inbox', o, s))
    BY <1>1, <2>3, <2>4, TakenKeeps
  <2> QED
    BY <2>2, <2>3, <2>5, <2>6 DEF OrderFollows
<1>7. ASSUME conn # "none", NEW d \in OwnClient \ Introduced' PROVE Announces(inbox', d)
  <2>1. d \in OwnClient \ Introduced /\ d # c
    BY <1>3, <1>7 DEF Introduced
  <2> QED
    BY <1>1, <1>2, <1>7, <2>1, TakenKeeps DEF OrdersFollow
<1>8. OrdersFollow'
  BY <1>5, <1>6, <1>7 DEF OrdersFollow
<1> QED
  BY <1>1, <1>3, <1>4, <1>8

\* decodeOrderNew and decodeOrderModify: the order is kept, buffered or missed.
LEMMA ReadOrder ==
  ASSUME ClientTypes, OrdersFollow, inbox # <<>>, inbox' = Tail(inbox), cmd.pc # "reset",
         \/ Head(inbox).kind = "order" /\ DecodeOrderNew(Head(inbox))
         \/ Head(inbox).kind = "modify" /\ DecodeOrderModify(Head(inbox)),
         UNCHANGED <<status, cmd, conn>>
  PROVE  /\ OrdersFollow'
         /\ clients' = clients
         /\ {known', pendingOrders'} \subseteq [ClientOrder -> 0..MaxStatus]
<1>1. inbox \in Seq(Record)
      /\ known \in [ClientOrder -> 0..MaxStatus] /\ pendingOrders \in [ClientOrder -> 0..MaxStatus]
  BY TypesGive DEF ClientTypes, NativeTypeOK
<1>2. PICK r \in Record : r = Head(inbox)
  BY <1>1, Taken
<1>3. PICK p \in ClientOrder, v \in 1..MaxStatus : p = r.of /\ v = r.status /\ r.kind \in {"order", "modify"}
  BY <1>2, RecordType
<1>4. MaxStatus \in Nat /\ v \in Nat /\ v > 0
  BY BoundsAssumption
<1> HIDE DEF Record
<1>5. /\ clients' = clients
      /\ \/ /\ clients = {} /\ pendingOrders' = [pendingOrders EXCEPT ![p] = v]
            /\ UNCHANGED <<known, missed>>
         \/ /\ Owner[p] \in clients \/ known[p] > 0
            /\ known' = [known EXCEPT ![p] = v] /\ UNCHANGED <<pendingOrders, missed>>
         \/ missed' = missed \cup {p} /\ UNCHANGED <<pendingOrders, known>>
  BY <1>2, <1>3 DEF DecodeOrderNew, DecodeOrderModify
<1>6. {known', pendingOrders'} \subseteq [ClientOrder -> 0..MaxStatus]
  <2>1. v \in 0..MaxStatus
    BY <1>4
  <2> QED
    BY <1>1, <1>5, <2>1
<1>7. \A o \in ClientOrder : /\ known[o] \in Nat /\ pendingOrders[o] \in Nat
                             /\ known[o] > 0 => Owner[o] \in clients
                             /\ pendingOrders[o] > 0 => Owner[o] \notin clients
  BY <1>1, <1>4 DEF OrdersFollow
<1>8. ASSUME NEW o \in ClientOrder
      PROVE  /\ known'[o] > 0 => Owner[o] \in clients'
             /\ pendingOrders'[o] > 0 => Owner[o] \notin clients'
             /\ o # p => Held(o)' = Held(o)
             /\ p \in missed' \/ Held(p)' = v
             /\ Held(p)' \in {v, Held(p)}
             /\ missed \subseteq missed'
  <2>1. CASE clients = {} /\ pendingOrders' = [pendingOrders EXCEPT ![p] = v] /\ UNCHANGED <<known, missed>>
    <3>1. pendingOrders'[p] = v /\ (o # p => pendingOrders'[o] = pendingOrders[o])
      BY <1>1, <2>1
    <3> QED
      BY <1>4, <1>5, <1>7, <2>1, <3>1 DEF Held
  <2>2. CASE /\ Owner[p] \in clients \/ known[p] > 0
             /\ known' = [known EXCEPT ![p] = v] /\ UNCHANGED <<pendingOrders, missed>>
    <3>1. known'[p] = v /\ (o # p => known'[o] = known[o]) /\ Owner[p] \in clients
      BY <1>1, <1>7, <2>2
    <3>2. ~(pendingOrders[p] > 0)
      BY <1>7, <3>1
    <3> QED
      BY <1>4, <1>5, <1>7, <2>2, <3>1, <3>2 DEF Held
  <2>3. CASE missed' = missed \cup {p} /\ UNCHANGED <<pendingOrders, known>>
    BY <1>5, <1>7, <2>3 DEF Held
  <2> QED
    BY <1>5, <2>1, <2>2, <2>3
<1>9. ASSUME conn # "none", NEW o \in ClientOrder PROVE OrderFollows(o)'
  <2>1. PICK s, h : s = status[o] /\ h = Held(o)
    OBVIOUS
  <2>2. s = status'[o] /\ (o \notin Dropped' => o \notin Dropped)
    BY <1>8, <2>1 DEF Dropped
  <2>3. /\ h <= s /\ Rising(inbox, o, h) /\ AtMost(inbox, o, s)
        /\ Owner[o] \in OwnClient /\ o \notin Dropped => h = s \/ Tells(inbox, o, s)
    BY <1>9, <2>1 DEF OrdersFollow, OrderFollows
  <2>4. Rising(inbox', o, h)
    BY <1>1, <2>3, TakenRising
  <2>5. AtMost(inbox', o, s)
    BY <1>1, <2>3, TakenKeeps
  <2>6. CASE o # p
    <3>1. ~About(Head(inbox), o) /\ Held(o)' = h
      BY <1>2, <1>3, <1>8, <2>1, <2>6 DEF About
    <3>2. Tells(inbox, o, s) => Tells(inbox', o, s)
      BY <1>1, <3>1, TakenKeeps
    <3> QED
      BY <2>2, <2>3, <2>4, <2>5, <3>1, <3>2 DEF OrderFollows
  <2>7. CASE o = p
    <3>1. About(Head(inbox), o) /\ Head(inbox).status = v
      BY <1>2, <1>3, <2>7 DEF About
    <3>2. v > h /\ Rising(inbox', o, v) /\ v <= s
      BY <1>1, <2>3, <3>1, TakenRising, TakenKeeps
    <3>3. Tells(inbox, o, s) => v = s \/ Tells(inbox', o, s)
      BY <1>1, <3>1, TakenKeeps
    <3>4. h \in Nat /\ s \in Nat
      BY <1>4, <1>7, <2>1, TypesGive DEF Held
    <3>5. Held(o)' \in {v, h} /\ (o \in missed' \/ Held(o)' = v)
      BY <1>8, <2>1, <2>7
    <3>6. o \notin Dropped' => Held(o)' = v
      BY <3>5 DEF Dropped
    <3>7. PICK g : g = Held(o)'
      OBVIOUS
    <3>8. g <= s /\ Rising(inbox', o, g)
      BY <2>3, <2>4, <3>2, <3>5, <3>7
    <3>9. Owner[o] \in OwnClient /\ o \notin Dropped' => g = s \/ Tells(inbox', o, s)
      BY <1>4, <2>2, <2>3, <3>2, <3>3, <3>4, <3>6, <3>7
    <3> QED
      BY <2>2, <2>5, <3>7, <3>8, <3>9 DEF OrderFollows
  <2> QED
    BY <2>6, <2>7
<1>10. ASSUME conn # "none", NEW c \in OwnClient \ Introduced' PROVE Announces(inbox', c)
  BY <1>1, <1>2, <1>3, <1>5, <1>10, TakenKeeps DEF OrdersFollow, Introduced
<1>11. OrdersFollow'
  BY <1>8, <1>9, <1>10 DEF OrdersFollow
<1> QED
  BY <1>5, <1>6, <1>11

\* decodeAllTrade: the next trade of its instrument is told, a replayed one is not.
LEMMA ReadTrade ==
  ASSUME ClientTypes, TradesFollow, CurrentCatalog, inbox # <<>>, inbox' = Tail(inbox),
         Head(inbox).kind = "trade", DecodeAllTrade(Head(inbox)), conn # "none",
         UNCHANGED <<numbering, tape, feeds, conn>>
  PROVE  /\ TradesFollow'
         /\ dedup' \in [Instrument -> 0..MaxTradeNo]
         /\ told' \in [Instrument -> Seq(Instrument \X Nat)]
<1>1. /\ inbox \in Seq(Record) /\ numbering \in Numbering
      /\ dedup \in [Instrument -> 0..MaxTradeNo] /\ tape \in [Instrument -> 0..MaxTradeNo]
      /\ told \in [Instrument -> Seq(Instrument \X Nat)]
  BY TypesGive DEF ClientTypes
<1>2. PICK r \in Record : r = Head(inbox)
  BY <1>1, Taken
<1>3. MaxTradeNo \in Nat
  BY BoundsAssumption
<1>4. PICK sec \in SecId, no \in Nat : sec = r.sec /\ no = r.no /\ no <= MaxTradeNo
  BY <1>2, <1>3, RecordType
<1> HIDE DEF Record
<1>5. PICK i \in Instrument : i = Meant(sec) /\ numbering[i] = sec /\ catalog[sec] = i
  BY <1>1, MeantIs DEF CurrentCatalog
<1>6. PICK d \in Nat, line \in Seq(Instrument \X Nat) : d = dedup[i] /\ line = told[i] /\ d <= MaxTradeNo
  BY <1>1, <1>3
<1>7. /\ Gapless(inbox, sec, d)
      /\ TradeOf(r, sec) /\ \A s : s # sec => ~TradeOf(r, s)
  BY <1>2, <1>4, <1>5, <1>6 DEF TradesFollow, ToCome, TradeOf
<1>8. ASSUME NEW j \in Instrument, j # i, dedup'[j] = dedup[j] PROVE ToCome(j)'
  <2>1. PICK s \in SecId, e \in Nat, t \in Nat : s = numbering[j] /\ e = dedup[j] /\ t = tape[j]
    <3>1. numbering[j] \in SecId /\ dedup[j] \in Nat /\ tape[j] \in Nat
      BY <1>1, <1>3, MeantIs
    <3> QED
      BY <3>1
  <2>2. s # sec
    BY <1>1, <1>5, <1>8, <2>1, NumberingOnto
  <2>3. ~TradeOf(Head(inbox), s)
    BY <1>2, <1>7, <2>2
  <2>4. Gapless(inbox, s, e) /\ ("trades" \in feeds[j] => t <= e \/ Brings(inbox, s, t))
    BY <2>1 DEF TradesFollow, ToCome
  <2>5. Gapless(inbox', s, e)
    BY <1>1, <2>3, <2>4, TakenGapless
  <2>6. Brings(inbox, s, t) => Brings(inbox', s, t)
    BY <1>1, <2>3, TakenKeeps
  <2> QED
    BY <1>8, <2>1, <2>4, <2>5, <2>6 DEF ToCome
<1>9. PICK t \in Nat : t = tape[i] /\ ("trades" \in feeds[i] => t <= d \/ Brings(inbox, sec, t))
  <2>1. tape[i] \in Nat
    BY <1>1, <1>3
  <2>2. "trades" \in feeds[i] => tape[i] <= d \/ Brings(inbox, sec, tape[i])
    BY <1>5, <1>6 DEF TradesFollow, ToCome
  <2> QED
    BY <2>1, <2>2
<1>10. Brings(inbox, sec, t) => t = no \/ Brings(inbox', sec, t)
  BY <1>1, <1>2, <1>4, TakenKeeps
<1>11. CASE ~(no > d)
  <2>1. UNCHANGED <<dedup, told, unheard>>
    BY <1>2, <1>4, <1>5, <1>6, <1>11 DEF DecodeAllTrade, tradeStore
  <2>2. Gapless(inbox', sec, d)
    BY <1>1, <1>2, <1>4, <1>7, <1>11, TakenGapless
  <2>3. "trades" \in feeds[i] => t <= d \/ Brings(inbox', sec, t)
    BY <1>9, <1>10, <1>11
  <2>4. ToCome(i)'
    BY <1>5, <1>6, <1>9, <2>1, <2>2, <2>3 DEF ToCome
  <2>5. \A j \in Instrument : ToldSoFar(j)'
    BY <2>1 DEF TradesFollow, ToldSoFar
  <2>6. \A j \in Instrument : ToCome(j)'
    BY <1>8, <2>1, <2>4
  <2> QED
    BY <1>1, <2>1, <2>5, <2>6 DEF TradesFollow
<1>12. CASE no > d
  <2>1. /\ dedup' = [dedup EXCEPT ![i] = no]
        /\ \/ fatal /\ unheard' = unheard \cup {i} /\ told' = told
           \/ told' = [told EXCEPT ![i] = Append(@, <<i, no>>)] /\ unheard' = unheard
    BY <1>2, <1>4, <1>5, <1>6, <1>12 DEF DecodeAllTrade, HandOn
  <2>2. no = d + 1 /\ Gapless(inbox', sec, no)
    BY <1>1, <1>2, <1>4, <1>7, <1>12, TakenGapless
  <2>3. dedup' \in [Instrument -> 0..MaxTradeNo] /\ dedup'[i] = no
        /\ \A j \in Instrument : j # i => dedup'[j] = dedup[j]
    BY <1>1, <1>3, <1>4, <2>1
  <2>4. "trades" \in feeds[i] => t <= no \/ Brings(inbox', sec, t)
    BY <1>9, <1>10, <2>2
  <2>5. ToCome(i)'
    BY <1>5, <1>9, <2>2, <2>3, <2>4 DEF ToCome
  <2>6. \A j \in Instrument : ToCome(j)'
    BY <1>8, <2>3, <2>5
  <2>7. PICK n \in Nat : n = Len(line)
    BY LenProperties
  <2>8. /\ \A k \in 1..n : /\ line[k][1] = i /\ line[k][2] <= d
                           /\ k > 1 => line[k][2] > line[k - 1][2]
                           /\ i \notin unheard => line[k][2] = k
        /\ i \notin unheard => n = d
    BY <1>6, <2>7 DEF TradesFollow, ToldSoFar
  <2>9. \A k \in 1..n : line[k][2] \in Nat
    BY <2>7
  <2>10. told' \in [Instrument -> Seq(Instrument \X Nat)] /\ \A j \in Instrument \ {i} : told'[j] = told[j]
    <3>1. Append(line, <<i, no>>) \in Seq(Instrument \X Nat)
      BY AppendProperties
    <3> QED
      BY <1>1, <1>6, <2>1, <3>1
  <2>11. ASSUME NEW j \in Instrument, j # i PROVE ToldSoFar(j)'
    <3>1. told'[j] = told[j] /\ dedup'[j] = dedup[j] /\ (j \notin unheard' => j \notin unheard)
      BY <2>1, <2>3, <2>10, <2>11
    <3>2. ToldSoFar(j)
      BY DEF TradesFollow
    <3> QED
      BY <3>1, <3>2 DEF ToldSoFar
  <2>12. ToldSoFar(i)'
    <3>1. CASE fatal /\ unheard' = unheard \cup {i} /\ told' = told
      <4>1. ASSUME NEW k \in 1..n PROVE line[k][2] <= no
        <5>1. PICK a \in Nat : a = line[k][2] /\ a <= d
          BY <2>8, <2>9
        <5> QED
          BY <2>2, <5>1
      <4>2. \A k \in 1..n : line[k][1] = i /\ (k > 1 => line[k][2] > line[k - 1][2])
        BY <2>8
      <4>3. told'[i] = line
        BY <1>6, <3>1
      <4> QED
        BY <2>3, <2>7, <3>1, <4>1, <4>2, <4>3 DEF ToldSoFar
    <3>2. CASE told' = [told EXCEPT ![i] = Append(@, <<i, no>>)] /\ unheard' = unheard
      <4>1. PICK more : more = told'[i] /\ more = Append(line, <<i, no>>)
        BY <1>1, <1>6, <3>2
      <4>2. Len(more) = n + 1 /\ more[n + 1] = <<i, no>> /\ \A k \in 1..n : more[k] = line[k]
        BY <2>7, <4>1, AppendProperties
      <4>3. ASSUME NEW k \in 1..n + 1
            PROVE  /\ more[k][1] = i /\ more[k][2] <= no
                   /\ k > 1 => more[k][2] > more[k - 1][2]
                   /\ i \notin unheard => more[k][2] = k
        <5>1. CASE k \in 1..n
          <6>1. more[k] = line[k] /\ (k > 1 => k - 1 \in 1..n /\ more[k - 1] = line[k - 1])
            BY <4>2, <5>1
          <6> QED
            BY <2>2, <2>8, <2>9, <5>1, <6>1
        <5>2. CASE k = n + 1
          <6>1. k > 1 => n \in 1..n /\ more[k - 1] = line[n] /\ k - 1 = n
            BY <4>2, <5>2
          <6>2. k > 1 => line[n][2] <= d /\ line[n][2] \in Nat
            BY <2>8, <2>9, <6>1
          <6>3. more[k][1] = i /\ more[k][2] = no
            BY <4>2, <5>2
          <6> QED
            BY <2>2, <2>8, <5>2, <6>1, <6>2, <6>3
        <5> QED
          BY <5>1, <5>2
      <4>4. i \notin unheard => n + 1 = no
        BY <2>2, <2>8
      <4> QED
        BY <2>3, <3>2, <4>1, <4>2, <4>3, <4>4 DEF ToldSoFar
    <3> QED
      BY <2>1, <3>1, <3>2
  <2> QED
    BY <2>3, <2>6, <2>10, <2>11, <2>12 DEF TradesFollow
<1> QED
  BY <1>11, <1>12

\* A poll, or a step of the load, takes one record.
LEMMA ReadInv ==
  ASSUME NativeInv, PollRecord \/ LoadRecord
  PROVE  NativeInv'
<1>1. /\ ClientTypes /\ Phases /\ Masked /\ SpecsNow /\ TradesFollow /\ OrdersFollow /\ Errands
      /\ inbox \in Seq(Record) /\ numbering \in Numbering
      /\ catalog \in [SecId -> Instrument \cup {Nothing}]
  BY TypesGive DEF NativeInv
<1>2. PICK r \in Record : r = Head(inbox)
  BY <1>1, Taken DEF PollRecord, LoadRecord
<1>3. Tail(inbox) \in Seq(Record)
  BY <1>1, Taken DEF PollRecord, LoadRecord
<1>4. r.kind \in {"securities", "client", "order", "modify", "trade", "candles"}
  BY <1>2, RecordType
<1> HIDE DEF Record
<1>5. /\ conn = "up" /\ inbox # <<>> /\ inbox' = Tail(inbox) /\ cmd' = cmd
      /\ run = "polling" \/ cmd.pc = "load"
      /\ run' = run \/ (run = "polling" /\ run' = "over")
      /\ UNCHANGED <<login, numbering, feeds, tape, status, subs, wanted, secSpecs, placer, unsure>>
      /\ UNCHANGED <<wrong, spent, conn, recovering, fatal, broken>>
  BY DEF PollRecord, LoadRecord, Decode, AtCmd, masks
<1>6. /\ r.kind = "securities" => ApplySecurities
      /\ r.kind = "client" => DecodeClientNew(r.of)
      /\ r.kind = "order" => DecodeOrderNew(r)
      /\ r.kind = "modify" => DecodeOrderModify(r)
      /\ r.kind = "trade" => DecodeAllTrade(r)
      /\ r.kind = "candles" => DecodeCandles(r)
  BY <1>2, <1>4 DEF PollRecord, LoadRecord, Decode
<1>7. /\ cmd.pc \notin {"reset", "startup"}
      /\ CurrentCatalog \/ (cmd.pc = "load" /\ r.kind = "securities")
      /\ cmd.pc = "load" => secSpecs = NoCatalog
  BY <1>2, <1>5, ReadNow
<1>8. /\ catalog' \in [SecId -> Instrument \cup {Nothing}] /\ CurrentCatalog'
      /\ \A id \in SecId : secSpecs[id] \in {Nothing, catalog'[id]}
  <2>1. CASE r.kind = "securities"
    <3>1. catalog' = [id \in SecId |-> Meant(id)]
      BY <1>6, <2>1 DEF ApplySecurities
    <3>2. \A id \in SecId : Meant(id) \in Instrument /\ catalog'[id] = Meant(id)
      BY <1>1, <3>1, MeantIs
    <3>3. CurrentCatalog'
      BY <1>1, <1>5, <3>2, MeantIs DEF CurrentCatalog
    <3>4. ASSUME NEW id \in SecId PROVE secSpecs[id] \in {Nothing, catalog'[id]}
      <4>1. CASE CurrentCatalog
        <5>1. catalog[id] = Meant(id)
          BY <1>1, <4>1, MeantIs DEF CurrentCatalog
        <5> QED
          BY <1>1, <1>5, <1>7, <3>2, <5>1 DEF SpecsNow
      <4>2. CASE ~CurrentCatalog
        BY <1>7, <4>2 DEF NoCatalog
      <4> QED
        BY <4>1, <4>2
    <3> QED
      BY <3>1, <3>2, <3>3, <3>4
  <2>2. CASE r.kind # "securities"
    <3>1. catalog' = catalog
      BY <1>4, <1>6, <2>2 DEF DecodeClientNew, DecodeOrderNew, DecodeOrderModify, DecodeAllTrade, DecodeCandles
    <3> QED
      BY <1>1, <1>5, <1>7, <2>2, <3>1 DEF CurrentCatalog, SpecsNow
  <2> QED
    BY <2>1, <2>2
<1>9. /\ TradesFollow'
      /\ dedup' \in [Instrument -> 0..MaxTradeNo] /\ told' \in [Instrument -> Seq(Instrument \X Nat)]
  <2>1. CASE r.kind = "trade"
    <3>1. CurrentCatalog
      BY <1>7, <2>1
    <3> QED
      BY <1>1, <1>2, <1>5, <1>6, <2>1, <3>1, ReadTrade
  <2>2. CASE r.kind # "trade"
    <3>1. UNCHANGED <<dedup, told, unheard>>
      BY <1>4, <1>6, <2>2
      DEF ApplySecurities, DecodeClientNew, DecodeOrderNew, DecodeOrderModify, DecodeCandles, tradeStore
    <3> QED
      BY <1>1, <1>2, <1>5, <2>2, <3>1, ReadNoTrade DEF ClientTypes, NativeTypeOK
  <2> QED
    BY <2>1, <2>2
<1>10. /\ OrdersFollow'
       /\ clients' \subseteq OwnClient
       /\ {known', pendingOrders'} \subseteq [ClientOrder -> 0..MaxStatus]
  <2>1. clients \subseteq OwnClient /\ {known, pendingOrders} \subseteq [ClientOrder -> 0..MaxStatus]
    BY <1>1 DEF ClientTypes, NativeTypeOK
  <2>2. CASE r.kind = "client"
    BY <1>1, <1>2, <1>5, <1>6, <1>7, <2>2, ReadClient
  <2>3. CASE r.kind \in {"order", "modify"}
    BY <1>1, <1>2, <1>5, <1>6, <1>7, <2>1, <2>3, ReadOrder
  <2>4. CASE r.kind \notin {"client", "order", "modify"}
    <3>1. UNCHANGED <<clients, pendingOrders, known, missed>>
      BY <1>4, <1>6, <2>4 DEF ApplySecurities, DecodeAllTrade, DecodeCandles, orderStore
    <3> QED
      BY <1>1, <1>2, <1>5, <2>1, <2>4, <3>1, ReadNoOrder
  <2> QED
    BY <2>2, <2>3, <2>4
<1>11. (asker' = Waiting /\ collector' = 0) \/ UNCHANGED <<asker, collector>>
  BY <1>4, <1>6 DEF ApplySecurities, DecodeClientNew, DecodeOrderNew, DecodeOrderModify,
                    DecodeAllTrade, DecodeCandles, askVars
<1>12. Waiting \in Errand /\ Waiting.pc = "idle" /\ Waiting.login = 0 /\ 0 \in 0..Cardinality(Instrument)
  <2>1. Cardinality(Instrument) \in Nat /\ MaxLogins \in Nat
    BY FiniteAssumption, FS_CardinalityType, BoundsAssumption
  <2> QED
    BY <2>1 DEF Waiting, Errand
<1>13. /\ asker' \in Errand /\ collector' \in 0..Cardinality(Instrument)
       /\ asker'.pc # "idle" => asker' = asker
       /\ asker' = asker \/ asker' = Waiting
  BY <1>1, <1>11, <1>12 DEF ClientTypes, NativeTypeOK
<1>14. ClientTypes'
  <2>1. run' \in {"off", "polling", "failed", "recovering", "attempt", "over"}
    BY <1>1, <1>5 DEF ClientTypes, NativeTypeOK
  <2> HIDE DEF Command, Errand
  <2> QED
    BY <1>1, <1>3, <1>5, <1>8, <1>9, <1>10, <1>13, <2>1 DEF ClientTypes, NativeTypeOK
<1>15. Phases'
  <2>1. run' = "off" <=> cmd'.pc \in Loading
    BY <1>1, <1>5 DEF Phases
  <2> QED
    BY <1>1, <1>5, <1>7, <1>8, <2>1 DEF Phases
<1>16. Masked'
  BY <1>1, <1>5, MaskedFrame
<1>17. SpecsNow'
  BY <1>1, <1>5, <1>8 DEF SpecsNow
<1>18. Errands'
  <2>1. Addressed(asker)' /\ Addressed(placer)'
    BY <1>1, <1>5, <1>12, <1>13 DEF Errands, Addressed, ClientTypes, NativeTypeOK
  <2> QED
    BY <1>1, <1>5, <2>1 DEF Errands
<1> QED
  BY <1>9, <1>10, <1>14, <1>15, <1>16, <1>17, <1>18 DEF NativeInv

\* The steps of a command.
LEMMA Becomes ==
  ASSUME cmd \in Command, NEW place \in {"idle", "send", "store", "specs", "mark", "close"} \cup Loading,
         Become(place)
  PROVE  /\ cmd' \in Command /\ cmd'.pc = place
         /\ cmd'.of = cmd.of /\ cmd'.feed = cmd.feed /\ cmd'.mask = cmd.mask
         /\ cmd'.sec = cmd.sec /\ cmd'.on = cmd.on
BY DEF Become, Command

\* And its end.
LEMMA Rests ==
  Rest \in Command /\ Rest.pc = "idle"
<1>1. PICK n \in Nat : n = Cardinality(Instrument)
  BY FiniteAssumption, FS_CardinalityType
<1> QED
  BY <1>1 DEF Rest, Command

\* With the catalog of the session, a lookup finds the number of the session.
LEMMA LooksUp ==
  ASSUME ClientTypes, CurrentCatalog, NEW i \in Instrument, InCatalog(i)
  PROVE  SecOf(i) \in SecId /\ numbering[i] = SecOf(i)
<1>1. PICK id \in SecId : id = SecOf(i) /\ catalog[id] = i
  BY SecOfIs
<1>2. Meant(id) \in Instrument /\ numbering[Meant(id)] = id
  BY TypesGive, MeantIs
<1> QED
  BY <1>1, <1>2 DEF CurrentCatalog

\* The mask of a command reaches its instrument, and its trades follow.
LEMMA SubscribesInv ==
  ASSUME NativeInv, cmd.pc = "send", conn = "up", ServerSubscribes(cmd.sec, cmd.mask),
         UNCHANGED <<numbering, tape, status, told, unheard, dedup>>,
         UNCHANGED <<clients, pendingOrders, known, missed, conn>>,
         cmd'.pc # "reset"
  PROVE  /\ inbox' \in Seq(Record)
         /\ feeds' = [feeds EXCEPT ![cmd.of] = cmd.mask]
         /\ feeds' \in [Instrument -> SUBSET Feed]
         /\ TradesFollow' /\ OrdersFollow'
<1>1. /\ ClientTypes /\ Masked /\ TradesFollow /\ OrdersFollow
      /\ inbox \in Seq(Record) /\ numbering \in Numbering /\ feeds \in [Instrument -> SUBSET Feed]
      /\ tape \in [Instrument -> 0..MaxTradeNo] /\ dedup \in [Instrument -> 0..MaxTradeNo]
      /\ status \in [ClientOrder -> 0..MaxStatus]
  BY TypesGive DEF NativeInv
<1>2. PICK i \in Instrument, mask \in SUBSET Feed, sec \in SecId :
        i = cmd.of /\ mask = cmd.mask /\ sec = cmd.sec /\ numbering[i] = sec
  BY <1>1 DEF ClientTypes, Masked, Command
<1>3. Meant(sec) = i
  BY <1>1, <1>2, MeantIs
<1>4. feeds' = [feeds EXCEPT ![i] = mask] /\ inbox' = inbox \o Replay(i, mask)
  BY <1>2, <1>3 DEF ServerSubscribes
<1>5. PICK more \in Seq(Record) :
        /\ inbox' = inbox \o more
        /\ TradesOnly(more)
        /\ \A s : Gapless(more, s, 0)
        /\ "trades" \in mask \ feeds[i] => tape[i] = 0 \/ Brings(more, numbering[i], tape[i])
  <2> HIDE DEF Record
  <2> QED
    BY <1>1, <1>4, ReplayIs
<1> HIDE DEF Record
<1>6. inbox' \in Seq(Record)
  BY <1>1, <1>5, ConcatProperties
<1>7. feeds' \in [Instrument -> SUBSET Feed] /\ feeds'[i] = mask
      /\ \A j \in Instrument \ {i} : feeds'[j] = feeds[j]
  BY <1>1, <1>4
<1>8. TradesFollow'
  <2>1. \A j \in Instrument : "trades" \in feeds'[j] =>
           \/ "trades" \in feeds[j] /\ tape'[j] = tape[j]
           \/ tape'[j] = 0
           \/ Brings(more, numbering[j], tape'[j])
    BY <1>5, <1>7
  <2> QED
    BY <1>1, <1>5, <2>1, TradesGrow
<1>9. OrdersFollow'
  <2>1. \A k \in 1..Len(more) : more[k].kind \notin {"order", "modify"}
    BY <1>5 DEF TradesOnly
  <2> QED
    BY <1>1, <1>5, <2>1, OrdersGrow
<1> QED
  BY <1>2, <1>4, <1>6, <1>7, <1>8, <1>9

\* changeSubscription begins: the number is of this session.
LEMMA ChangeSubscriptionInv ==
  ASSUME NativeInv, NEW i \in Instrument, NEW f \in Feed, NEW on \in BOOLEAN,
         ChangeSubscription(i, f, on)
  PROVE  NativeInv'
<1>1. /\ ClientTypes /\ Phases /\ Masked /\ SpecsNow /\ TradesFollow /\ OrdersFollow /\ Errands
      /\ subs \in [Instrument -> SUBSET Feed]
  BY TypesGive DEF NativeInv
<1>2. /\ cmd.pc = "idle" /\ conn # "none" /\ InCatalog(i)
      /\ cmd' = [pc |-> "send", of |-> i, feed |-> f, mask |-> NewMask(i, f, on),
                  sec |-> SecOf(i), on |-> on]
  BY DEF ChangeSubscription, AtCmd
<1>3. /\ UNCHANGED <<login, numbering, feeds, inbox, tape, status>>
      /\ UNCHANGED <<conn, recovering, fatal, run, broken, subs, wanted, secSpecs, unsure>>
      /\ UNCHANGED <<catalog, clients, pendingOrders, known, missed, dedup, told, unheard>>
      /\ UNCHANGED <<collector, asker, placer, wrong>>
      /\ spent' \in 0..MaxSpent
  BY <1>1, BoundsAssumption
  DEF ChangeSubscription, Quiet, exchangeSide, linkSide, masks, stores, orderStore, tradeStore, askVars,
      Spend, ClientTypes, NativeTypeOK
<1>4. CurrentCatalog
  BY <1>1, <1>2 DEF Phases, Loading, Unsubscribed
<1>5. SecOf(i) \in SecId /\ numbering[i] = SecOf(i)
  BY <1>1, <1>2, <1>4, LooksUp
<1>6. NewMask(i, f, on) \in SUBSET Feed
  BY <1>1 DEF NewMask
<1>7. cmd' \in Command
  <2>1. SecOf(i) \in 0..Cardinality(Instrument)
    BY <1>5, FiniteAssumption, FS_CardinalityType DEF SecId
  <2> QED
    BY <1>2, <1>6, <2>1 DEF Command
<1>8. ClientTypes'
  <2>1. cmd'.pc = "send" /\ cmd'.of = i /\ cmd'.feed = f /\ cmd'.sec = SecOf(i)
    BY <1>2
  <2> HIDE DEF Command, Errand, Record
  <2> QED
    BY <1>1, <1>3, <1>5, <1>7, <2>1 DEF ClientTypes, NativeTypeOK
<1>9. cmd'.pc = "send" /\ cmd'.of = i /\ cmd'.feed = f /\ cmd'.on = on
      /\ cmd'.mask = NewMask(i, f, on) /\ cmd'.sec = SecOf(i)
  BY <1>2
<1>10. Phases'
  BY <1>1, <1>2, <1>3, <1>9 DEF Phases, Loading, Unsubscribed, CurrentCatalog, Starts
<1>11. Masked'
  BY <1>1, <1>2, <1>3, <1>5, <1>9 DEF Masked, NewMask, Unsubscribed
<1>12. SpecsNow'
  BY <1>1, <1>2, <1>3, <1>9 DEF SpecsNow, Loading, Unsubscribed
<1>13. TradesFollow' /\ OrdersFollow' /\ Errands'
  BY <1>1, <1>2, <1>3, <1>9, TradesFrame, OrdersFrame, ErrandsFrame
<1> QED
  BY <1>8, <1>10, <1>11, <1>12, <1>13 DEF NativeInv

\* The exchange of a command: the server has the mask, or nobody knows.
LEMMA SendInv ==
  ASSUME NativeInv, SendSucceeds \/ SendFails
  PROVE  NativeInv'
<1>1. /\ ClientTypes /\ Phases /\ Masked /\ SpecsNow /\ TradesFollow /\ OrdersFollow /\ Errands
      /\ inbox \in Seq(Record) /\ feeds \in [Instrument -> SUBSET Feed]
  BY TypesGive DEF NativeInv
<1>2. /\ cmd.pc = "send"
      /\ UNCHANGED <<login, numbering, tape, status>>
      /\ UNCHANGED <<conn, recovering, fatal, run, broken, subs, wanted, secSpecs, spent>>
      /\ UNCHANGED <<catalog, clients, pendingOrders, known, missed, dedup, told, unheard>>
      /\ UNCHANGED <<collector, asker, placer, wrong>>
  BY DEF SendSucceeds, SendFails, AtCmd, Quiet, linkSide, masks, stores, orderStore, tradeStore, askVars
<1>3. \/ Become("store") /\ unsure' = unsure /\ conn = "up"
         /\ ServerSubscribes(cmd.sec, cmd.mask)
      \/ cmd' = Rest /\ unsure' = unsure \cup {cmd.of}
         /\ (UNCHANGED <<feeds, inbox>> \/ (conn = "up" /\ ServerSubscribes(cmd.sec, cmd.mask)))
  BY DEF SendSucceeds, SendFails
<1>4. PICK i \in Instrument : i = cmd.of /\ cmd.feed \in Feed /\ cmd.sec \in SecId /\ cmd \in Command
  BY <1>1, <1>2 DEF ClientTypes
<1>5. /\ cmd' \in Command
      /\ \/ /\ cmd'.pc = "store" /\ cmd'.of = i /\ cmd'.feed = cmd.feed /\ cmd'.mask = cmd.mask
            /\ cmd'.sec = cmd.sec /\ cmd'.on = cmd.on
         \/ cmd'.pc = "idle"
  <2>1. "store" \in {"idle", "send", "store", "specs", "mark", "close"} \cup Loading
    OBVIOUS
  <2> QED
    BY <1>3, <1>4, <2>1, Becomes, Rests
<1>6. CASE conn = "up" /\ ServerSubscribes(cmd.sec, cmd.mask)
  <2>1. /\ inbox' \in Seq(Record) /\ feeds' = [feeds EXCEPT ![i] = cmd.mask]
        /\ feeds' \in [Instrument -> SUBSET Feed]
        /\ TradesFollow' /\ OrdersFollow'
    BY <1>2, <1>4, <1>5, <1>6, SubscribesInv
  <2>2. feeds'[i] = cmd.mask /\ \A j \in Instrument \ {i} : feeds'[j] = feeds[j]
    BY <1>1, <2>1
  <2>3. ClientTypes'
    <3> HIDE DEF Command, Errand, Record
    <3> QED
      BY <1>1, <1>2, <1>4, <1>5, <2>1 DEF ClientTypes, NativeTypeOK
  <2>4. Phases'
    BY <1>1, <1>2, <1>5, <1>6 DEF Phases, Loading, Unsubscribed, CurrentCatalog
  <2>5. Masked'
    <3>1. CASE cmd'.pc = "store"
      BY <1>1, <1>2, <1>3, <1>4, <1>5, <2>2, <3>1, Rests DEF Masked, NewMask, Unsubscribed
    <3>2. CASE cmd'.pc = "idle"
      <4>1. unsure' = unsure \cup {i}
        <5>1. cmd'.pc # "store"
          BY <3>2
        <5>2. ~Become("store")
          BY <1>4, <5>1, Becomes
        <5> QED
          BY <1>3, <1>4, <5>2
      <4> QED
        BY <1>1, <1>2, <1>4, <2>2, <3>2, <4>1 DEF Masked, Unsubscribed
    <3> QED
      BY <1>5, <3>1, <3>2
  <2>6. SpecsNow' /\ Errands'
    BY <1>1, <1>2, <1>5, ErrandsFrame DEF SpecsNow, Loading, Unsubscribed
  <2> QED
    BY <2>1, <2>3, <2>4, <2>5, <2>6 DEF NativeInv
<1>7. CASE UNCHANGED <<feeds, inbox>> /\ cmd' = Rest /\ unsure' = unsure \cup {i}
  <2>1. cmd'.pc = "idle"
    BY <1>7, Rests
  <2>2. ClientTypes'
    <3> HIDE DEF Command, Errand, Record
    <3> QED
      BY <1>1, <1>2, <1>5, <1>7, <2>1 DEF ClientTypes, NativeTypeOK
  <2>3. Phases'
    BY <1>1, <1>2, <1>7, <2>1 DEF Phases, Loading, Unsubscribed, CurrentCatalog, Starts
  <2>4. Masked'
    BY <1>1, <1>2, <1>4, <1>7, <2>1 DEF Masked, Unsubscribed
  <2>5. SpecsNow'
    BY <1>1, <1>2, <2>1 DEF SpecsNow, Loading, Unsubscribed
  <2>6. TradesFollow' /\ OrdersFollow' /\ Errands'
    BY <1>1, <1>2, <1>7, <2>1, TradesFrame, OrdersFrame, ErrandsFrame
  <2> QED
    BY <2>2, <2>3, <2>4, <2>5, <2>6 DEF NativeInv
<1> QED
  BY <1>3, <1>4, <1>6, <1>7

\* The mask is stored: now the client believes what the server has.
LEMMA StoreMaskInv ==
  ASSUME NativeInv, StoreMask
  PROVE  NativeInv'
<1>1. /\ ClientTypes /\ Phases /\ Masked /\ SpecsNow /\ TradesFollow /\ OrdersFollow /\ Errands
      /\ subs \in [Instrument -> SUBSET Feed] /\ wanted \in [Instrument -> SUBSET Feed]
  BY TypesGive DEF NativeInv, ClientTypes
<1>2. /\ cmd.pc = "store"
      /\ UNCHANGED <<login, numbering, feeds, inbox, tape, status>>
      /\ UNCHANGED <<conn, recovering, fatal, run, broken, secSpecs, spent>>
      /\ UNCHANGED <<catalog, clients, pendingOrders, known, missed, dedup, told, unheard>>
      /\ UNCHANGED <<collector, asker, placer, wrong>>
  BY DEF StoreMask, AtCmd, Quiet, linkSide, exchangeSide, stores, orderStore, tradeStore, askVars
<1>3. PICK i \in Instrument, f \in Feed, mask \in SUBSET Feed :
        /\ i = cmd.of /\ f = cmd.feed /\ mask = cmd.mask
        /\ cmd.sec \in SecId /\ cmd \in Command
  BY <1>1, <1>2 DEF ClientTypes, Command
<1>4. /\ subs' = [subs EXCEPT ![i] = mask]
      /\ wanted' = [wanted EXCEPT ![i] = IF cmd.on THEN @ \cup {f} ELSE @ \ {f}]
      /\ unsure' = unsure \ {i}
      /\ Become("specs") \/ cmd' = Rest
  BY <1>3 DEF StoreMask
<1>5. cmd' \in Command /\ cmd'.pc \in {"specs", "idle"} /\ (cmd'.pc = "specs" => cmd'.sec = cmd.sec)
  BY <1>3, <1>4, Becomes, Rests
<1>6. /\ mask = IF cmd.on THEN subs[i] \cup {f} ELSE subs[i] \ {f}
      /\ feeds[i] = mask /\ subs = wanted
  BY <1>1, <1>2, <1>3 DEF Masked, NewMask
<1>7. /\ subs' = wanted' /\ subs'[i] = mask
      /\ subs' \in [Instrument -> SUBSET Feed]
      /\ \A j \in Instrument \ {i} : wanted'[j] = wanted[j]
  BY <1>1, <1>4, <1>6
<1>8. ClientTypes'
  <2> HIDE DEF Command, Errand, Record
  <2> QED
    BY <1>1, <1>2, <1>3, <1>5, <1>7 DEF ClientTypes, NativeTypeOK
<1>9. Phases'
  BY <1>1, <1>2, <1>5 DEF Phases, Loading, Unsubscribed, CurrentCatalog, Starts
<1>10. Masked'
  BY <1>1, <1>2, <1>3, <1>4, <1>5, <1>6, <1>7 DEF Masked, Unsubscribed
<1>11. SpecsNow'
  BY <1>1, <1>2, <1>5 DEF SpecsNow, Loading, Unsubscribed
<1>12. TradesFollow' /\ OrdersFollow' /\ Errands'
  BY <1>1, <1>2, <1>5, TradesFrame, OrdersFrame, ErrandsFrame
<1> QED
  BY <1>8, <1>9, <1>10, <1>11, <1>12 DEF NativeInv

\* loadSecSpecs: what is kept under a number is of the instrument that has it.
LEMMA LoadSpecsInv ==
  ASSUME NativeInv, LoadSpecs
  PROVE  NativeInv'
<1>1. /\ ClientTypes /\ Phases /\ Masked /\ SpecsNow /\ TradesFollow /\ OrdersFollow /\ Errands
      /\ numbering \in Numbering
  BY TypesGive DEF NativeInv
<1>2. /\ cmd.pc = "specs" /\ cmd' = Rest
      /\ UNCHANGED <<login, numbering, feeds, inbox, tape, status, subs, wanted, unsure>>
      /\ UNCHANGED <<conn, recovering, fatal, run, broken, spent>>
      /\ UNCHANGED <<catalog, clients, pendingOrders, known, missed, dedup, told, unheard>>
      /\ UNCHANGED <<collector, asker, placer, wrong>>
  BY DEF LoadSpecs, AtCmd, Quiet, linkSide, exchangeSide, masks, stores, orderStore, tradeStore, askVars
<1>3. secSpecs' = secSpecs \/ (conn = "up" /\ secSpecs' = Specified({cmd.sec}))
  BY DEF LoadSpecs
<1>4. cmd' \in Command /\ cmd'.pc = "idle"
  BY <1>2, Rests
<1>5. /\ secSpecs' \in [SecId -> Instrument \cup {Nothing}]
      /\ conn # "none" => \A id \in SecId : secSpecs'[id] \in {Nothing, catalog[id]}
  <2>1. /\ secSpecs \in [SecId -> Instrument \cup {Nothing}]
        /\ conn # "none" => CurrentCatalog /\ \A id \in SecId : secSpecs[id] \in {Nothing, catalog[id]}
    BY <1>1, <1>2 DEF ClientTypes, NativeTypeOK, SpecsNow, Phases, Loading, Unsubscribed
  <2>2. CASE secSpecs' = Specified({cmd.sec}) /\ conn = "up"
    <3>1. \A id \in SecId : Meant(id) \in Instrument /\ catalog[id] = Meant(id)
      BY <1>1, <2>1, <2>2, MeantIs DEF CurrentCatalog
    <3>2. \A id \in SecId : secSpecs'[id] \in {secSpecs[id], Meant(id)}
      BY <2>2 DEF Specified
    <3> QED
      BY <2>1, <2>2, <3>1, <3>2 DEF Specified
  <2> QED
    BY <1>3, <2>1, <2>2
<1>6. ClientTypes'
  <2> HIDE DEF Command, Errand, Record
  <2> QED
    BY <1>1, <1>2, <1>4, <1>5 DEF ClientTypes, NativeTypeOK
<1>7. Phases'
  BY <1>1, <1>2, <1>4 DEF Phases, Loading, Unsubscribed, CurrentCatalog, Starts
<1>8. Masked'
  BY <1>1, <1>2, <1>4 DEF Masked, Unsubscribed
<1>9. SpecsNow'
  BY <1>1, <1>2, <1>4, <1>5 DEF SpecsNow, Loading, Unsubscribed
<1>10. TradesFollow' /\ OrdersFollow' /\ Errands'
  BY <1>1, <1>2, <1>4, TradesFrame, OrdersFrame, ErrandsFrame
<1> QED
  BY <1>6, <1>7, <1>8, <1>9, <1>10 DEF NativeInv

\* ChangePassword and what a fatal reply to it does: the failure is marked before
\* the socket is closed.
LEMMA PasswordInv ==
  ASSUME NativeInv, ChangePassword \/ MarkThenClose
  PROVE  NativeInv'
<1>1. /\ ClientTypes /\ Phases /\ Masked /\ SpecsNow /\ TradesFollow /\ OrdersFollow /\ Errands
      /\ cmd \in Command
  BY DEF NativeInv, ClientTypes
<1>2. /\ UNCHANGED <<login, numbering, feeds, inbox, tape, status, subs, wanted, secSpecs, unsure>>
      /\ UNCHANGED <<recovering, run>>
      /\ UNCHANGED <<catalog, clients, pendingOrders, known, missed, dedup, told, unheard>>
      /\ UNCHANGED <<collector, asker, placer, wrong>>
  BY DEF ChangePassword, MarkThenClose, Mark, CloseSocket, Quiet, linkSide, exchangeSide, masks,
         stores, orderStore, tradeStore, askVars
<1>3. \/ /\ cmd.pc = "idle" /\ conn = "up" /\ Become("mark") /\ spent' \in 0..MaxSpent
         /\ UNCHANGED <<conn, fatal, broken>>
      \/ /\ cmd.pc = "mark" /\ Become("close") /\ fatal' = TRUE
         /\ UNCHANGED <<conn, broken, spent>>
      \/ /\ cmd.pc = "close" /\ Become("idle") /\ conn' = "closed"
         /\ broken' = (IF broken = "nothing" THEN "close" ELSE broken)
         /\ UNCHANGED <<fatal, spent>>
  <2>1. CASE ChangePassword
    BY <1>1, <2>1, BoundsAssumption
    DEF ChangePassword, Spend, AtCmd, Quiet, linkSide, ClientTypes, NativeTypeOK
  <2>2. CASE MarkThenClose
    BY <2>2 DEF MarkThenClose, Mark, CloseSocket, AtCmd
  <2> QED
    BY <2>1, <2>2
<1>4. cmd' \in Command /\ cmd'.pc \in {"idle", "mark", "close"} /\ cmd.pc \in {"idle", "mark", "close"}
  <2>1. {"idle", "mark", "close"} \subseteq {"idle", "send", "store", "specs", "mark", "close"} \cup Loading
    OBVIOUS
  <2> QED
    BY <1>1, <1>3, <2>1, Becomes
<1>5. /\ conn' = conn \/ conn' = "closed"
      /\ conn' = "none" <=> conn = "none"
  BY <1>1, <1>3 DEF Phases
<1>6. ClientTypes'
  <2>1. /\ conn' \in {"up", "down", "closed", "none"} /\ broken' \in {"nothing", "loss", "close"}
        /\ fatal' \in BOOLEAN /\ spent' \in 0..MaxSpent
    BY <1>1, <1>3 DEF ClientTypes, NativeTypeOK
  <2> HIDE DEF Command, Errand, Record
  <2> QED
    BY <1>1, <1>2, <1>4, <2>1 DEF ClientTypes, NativeTypeOK
<1>7. Phases'
  <2>1. conn' = "none" => cmd'.pc = "idle" /\ run = "over"
    <3>1. conn = "none" => cmd.pc = "idle" /\ run = "over" /\ ~(cmd.pc \in {"mark", "close"})
      BY <1>1 DEF Phases
    <3>2. conn # "none"
      BY <1>3, <3>1
    <3> QED
      BY <1>5, <3>2
  <2> QED
    BY <1>1, <1>2, <1>4, <1>5, <2>1 DEF Phases, Loading, Unsubscribed, CurrentCatalog, Starts
<1>8. Masked'
  BY <1>1, <1>2, <1>4, <1>5 DEF Masked, Unsubscribed
<1>9. SpecsNow'
  BY <1>1, <1>2, <1>4, <1>5 DEF SpecsNow, Loading, Unsubscribed
<1>10. TradesFollow' /\ OrdersFollow'
  BY <1>1, <1>2, <1>4, <1>5, TradesFrame, OrdersFrame
<1>11. Errands'
  <2>1. Addressed(asker)' /\ Addressed(placer)'
    BY <1>1, <1>2, <1>5 DEF Errands, Addressed
  <2>2. (broken' = "close" \/ cmd'.pc = "close") => fatal'
    <3>1. Become("idle") \/ Become("mark") => cmd'.pc # "close"
      BY <1>1, Becomes
    <3> QED
      BY <1>1, <1>3, <3>1 DEF Errands
  <2>3. /\ conn' \in {"down", "closed"} => broken' # "nothing"
        /\ run' \in {"failed", "recovering", "attempt"} => broken' # "nothing"
        /\ run' \in {"recovering", "attempt"} => broken' = "loss"
    BY <1>1, <1>2, <1>3 DEF Errands
  <2> QED
    BY <1>1, <1>2, <2>1, <2>2, <2>3 DEF Errands
<1> QED
  BY <1>6, <1>7, <1>8, <1>9, <1>10, <1>11 DEF NativeInv

\* A new session: its snapshot is in the inbox, nothing is subscribed to, and what
\* was looked up before is of an older session.
LEMMA LoginInv ==
  ASSUME NativeInv, Login
  PROVE  NativeInv'
<1>1. /\ ClientTypes /\ Phases /\ Masked /\ SpecsNow /\ TradesFollow /\ OrdersFollow /\ Errands
      /\ status \in [ClientOrder -> 0..MaxStatus] /\ cmd \in Command
      /\ login \in 1..MaxLogins
  BY TypesGive DEF NativeInv, ClientTypes, NativeTypeOK
<1>2. /\ login < MaxLogins /\ login' = login + 1 /\ numbering' \in Numbering /\ feeds' = NoFeeds
      /\ conn' = "up" /\ broken' = "nothing" /\ fatal' = FALSE /\ recovering' = TRUE /\ run' = "off"
      /\ UNCHANGED <<tape, status, subs, wanted, secSpecs, unsure, spent>>
      /\ UNCHANGED <<catalog, clients, pendingOrders, known, missed, dedup, told, unheard>>
      /\ UNCHANGED <<collector, asker, placer, wrong>>
  BY DEF Login, masks, stores, orderStore, tradeStore, askVars
<1>3. cmd' \in Command /\ cmd'.pc = "reset"
  <2>1. "reset" \in {"idle", "send", "store", "specs", "mark", "close"} \cup Loading
    BY DEF Loading, Unsubscribed
  <2> QED
    BY <1>1, <2>1, Becomes DEF Login
<1>4. PICK box \in Snapshot : box = inbox'
  BY DEF Login
<1>5. /\ box \in Seq(Record) /\ box # <<>> /\ box[1].kind = "securities"
      /\ \A sec, d : Gapless(box, sec, d)
      /\ \A c \in OwnClient : Announces(box, c)
      /\ \A o \in ClientOrder : /\ Rising(box, o, 0) /\ AtMost(box, o, status[o])
                                /\ status[o] > 0 => Tells(box, o, status[o])
  BY <1>1, SnapshotIs
<1> HIDE DEF Record, Command, Errand
<1>6. ClientTypes'
  <2>1. NoFeeds \in [Instrument -> SUBSET Feed]
    BY DEF NoFeeds
  <2>2. login' \in 1..MaxLogins
    BY <1>1, <1>2, BoundsAssumption
  <2> QED
    BY <1>1, <1>2, <1>3, <1>4, <1>5, <2>1, <2>2 DEF ClientTypes, NativeTypeOK
<1>7. Phases'
  BY <1>2, <1>3, <1>4, <1>5 DEF Phases, Loading, Unsubscribed, Starts, NoFeeds
<1>8. Masked'
  BY <1>1, <1>2, <1>3 DEF Masked, Unsubscribed
<1>9. SpecsNow'
  BY <1>3 DEF SpecsNow
<1>10. TradesFollow'
  <2>1. ASSUME NEW i \in Instrument PROVE ToldSoFar(i)' /\ ToCome(i)'
    BY <1>1, <1>2, <1>4, <1>5 DEF TradesFollow, ToldSoFar, ToCome, NoFeeds
  <2> QED
    BY <2>1 DEF TradesFollow
<1>11. OrdersFollow'
  <2>1. ASSUME NEW o \in ClientOrder PROVE OrderFollows(o)'
    <3>1. PICK s \in Nat : s = status[o] /\ s = status'[o]
      BY <1>1, <1>2, BoundsAssumption
    <3>2. Held(o)' = 0
      BY <1>3 DEF Held
    <3>3. Rising(box, o, 0) /\ AtMost(box, o, s) /\ (s = 0 \/ Tells(box, o, s))
      <4>1. Rising(box, o, 0) /\ AtMost(box, o, status[o]) /\ (status[o] > 0 => Tells(box, o, status[o]))
        BY <1>5
      <4> QED
        BY <3>1, <4>1
    <3> QED
      BY <1>4, <3>1, <3>2, <3>3 DEF OrderFollows
  <2>2. \A c \in OwnClient : Announces(inbox', c)
    BY <1>4, <1>5
  <2> QED
    BY <1>1, <1>2, <2>1, <2>2 DEF OrdersFollow
<1>12. Errands'
  <2>1. asker.login \in Nat /\ placer.login \in Nat
    BY <1>1 DEF ClientTypes, Errand
  <2>2. asker.login < login' /\ placer.login < login'
    BY <1>1, <1>2, <2>1 DEF Errands, Addressed
  <2>3. Addressed(asker)' /\ Addressed(placer)'
    BY <1>1, <1>2, <2>1, <2>2 DEF Addressed
  <2> QED
    BY <1>1, <1>2, <1>3, <2>3 DEF Errands
<1> QED
  BY <1>6, <1>7, <1>8, <1>9, <1>10, <1>11, <1>12 DEF NativeInv

\* Waiting is where an errand begins and ends.
LEMMA Waits ==
  Waiting \in Errand /\ Waiting.pc = "idle" /\ Waiting.login = 0 /\ 0 \in 0..Cardinality(Instrument)
<1>1. Cardinality(Instrument) \in Nat /\ MaxLogins \in Nat
  BY FiniteAssumption, FS_CardinalityType, BoundsAssumption
<1> QED
  BY <1>1 DEF Waiting, Errand

\* The stores are dropped: what was known of the old session counts no more.
LEMMA ResetInv ==
  ASSUME NativeInv, Reset
  PROVE  NativeInv'
<1>1. /\ ClientTypes /\ Phases /\ Masked /\ SpecsNow /\ TradesFollow /\ OrdersFollow /\ Errands
      /\ cmd \in Command
  BY DEF NativeInv, ClientTypes
<1>2. /\ cmd.pc = "reset" /\ Become("startup")
      /\ clients' = {} /\ pendingOrders' = NoOrders /\ known' = NoOrders /\ missed' = {}
      /\ collector' = 0 /\ secSpecs' = NoCatalog
      /\ asker' = Waiting \/ asker' = asker
      /\ UNCHANGED <<login, numbering, feeds, inbox, tape, status, subs, wanted, unsure, spent>>
      /\ UNCHANGED <<conn, recovering, fatal, run, broken>>
      /\ UNCHANGED <<catalog, dedup, told, unheard, placer, wrong>>
  BY DEF Reset, AtCmd, ForgetOrders, Relogged, exchangeSide, linkSide, masks, tradeStore
<1>3. cmd' \in Command /\ cmd'.pc = "startup"
  <2>1. "startup" \in {"idle", "send", "store", "specs", "mark", "close"} \cup Loading
    BY DEF Loading, Unsubscribed
  <2> QED
    BY <1>1, <1>2, <2>1, Becomes
<1> HIDE DEF Record, Command, Errand
<1>4. ClientTypes'
  <2>1. NoOrders \in [ClientOrder -> 0..MaxStatus] /\ NoCatalog \in [SecId -> Instrument \cup {Nothing}]
    BY BoundsAssumption DEF NoOrders, NoCatalog
  <2>2. asker' \in Errand /\ (asker'.pc # "idle" => asker' = asker) /\ collector' \in 0..Cardinality(Instrument)
    BY <1>1, <1>2, Waits DEF ClientTypes
  <2> QED
    BY <1>1, <1>2, <1>3, <2>1, <2>2 DEF ClientTypes, NativeTypeOK
<1>5. Phases'
  BY <1>1, <1>2, <1>3 DEF Phases, Loading, Unsubscribed, Starts
<1>6. Masked'
  BY <1>1, <1>2, <1>3 DEF Masked, Unsubscribed
<1>7. SpecsNow'
  BY <1>2 DEF SpecsNow, NoCatalog
<1>8. TradesFollow'
  BY <1>1, <1>2, TradesFrame
<1>9. OrdersFollow'
  <2>1. ASSUME NEW o \in ClientOrder
        PROVE  /\ Held(o)' = 0 /\ Held(o) = 0 /\ ~(known'[o] > 0) /\ ~(pendingOrders'[o] > 0)
               /\ conn # "none" => OrderFollows(o)'
    <3>1. known'[o] = 0 /\ pendingOrders'[o] = 0
      BY <1>2 DEF NoOrders
    <3>2. Held(o)' = 0 /\ Held(o) = 0 /\ Dropped = {} /\ Dropped' = {}
      BY <1>2, <1>3, <3>1 DEF Held, Dropped
    <3> QED
      BY <1>1, <1>2, <3>1, <3>2 DEF OrdersFollow, OrderFollows
  <2>2. Introduced' = Introduced
    BY <1>2, <1>3 DEF Introduced
  <2> QED
    BY <1>1, <1>2, <2>1, <2>2 DEF OrdersFollow
<1>10. Errands'
  <2>1. Addressed(asker)' /\ Addressed(placer)'
    BY <1>1, <1>2, Waits DEF Errands, Addressed, ClientTypes, NativeTypeOK
  <2> QED
    BY <1>1, <1>2, <1>3, <2>1 DEF Errands
<1> QED
  BY <1>4, <1>5, <1>6, <1>7, <1>8, <1>9, <1>10 DEF NativeInv

\* The load begins with an empty catalog, and ends with that of the session.
LEMMA LoadInv ==
  ASSUME NativeInv, Startup \/ Drained
  PROVE  NativeInv'
<1>1. /\ ClientTypes /\ Phases /\ Masked /\ SpecsNow /\ TradesFollow /\ OrdersFollow /\ Errands
      /\ cmd \in Command
  BY DEF NativeInv, ClientTypes
<1>2. /\ UNCHANGED <<login, numbering, feeds, inbox, tape, status, subs, wanted, unsure, spent>>
      /\ UNCHANGED <<conn, recovering, fatal, run, broken, secSpecs>>
      /\ UNCHANGED <<clients, pendingOrders, known, missed, dedup, told, unheard>>
      /\ UNCHANGED <<collector, asker, placer, wrong>>
  BY DEF Startup, Drained, Relogged, exchangeSide, linkSide, masks, stores, orderStore, tradeStore, askVars
<1>3. \/ cmd.pc = "startup" /\ Become("load") /\ catalog' = NoCatalog
      \/ cmd.pc = "load" /\ inbox = <<>> /\ Become("resubscribe") /\ catalog' = catalog
  BY DEF Startup, Drained, AtCmd
<1>4. /\ cmd' \in Command
      /\ \/ cmd.pc = "startup" /\ cmd'.pc = "load" /\ catalog' = NoCatalog
         \/ cmd.pc = "load" /\ inbox = <<>> /\ cmd'.pc = "resubscribe" /\ catalog' = catalog
  <2>1. {"load", "resubscribe"} \subseteq {"idle", "send", "store", "specs", "mark", "close"} \cup Loading
    BY DEF Loading, Unsubscribed
  <2> QED
    BY <1>1, <1>3, <2>1, Becomes
<1> HIDE DEF Record, Command, Errand
<1>5. ClientTypes'
  <2>1. NoCatalog \in [SecId -> Instrument \cup {Nothing}]
    BY DEF NoCatalog
  <2> QED
    BY <1>1, <1>2, <1>4, <2>1 DEF ClientTypes, NativeTypeOK
<1>6. Phases'
  BY <1>1, <1>2, <1>4 DEF Phases, Loading, Unsubscribed, Starts, CurrentCatalog
<1>7. Masked'
  BY <1>1, <1>2, <1>4 DEF Masked, Unsubscribed
<1>8. SpecsNow'
  <2>1. secSpecs = NoCatalog
    BY <1>1, <1>4 DEF SpecsNow, Loading, Unsubscribed
  <2> QED
    BY <1>2, <2>1 DEF SpecsNow, NoCatalog
<1>9. TradesFollow' /\ OrdersFollow' /\ Errands'
  BY <1>1, <1>2, <1>4, TradesFrame, OrdersFrame, ErrandsFrame
<1> QED
  BY <1>5, <1>6, <1>7, <1>8, <1>9 DEF NativeInv

\* resubscribe: the new session has the masks of all symbols, and replays the day.
LEMMA ResubscribeInv ==
  ASSUME NativeInv, Resubscribe
  PROVE  NativeInv'
<1>1. /\ ClientTypes /\ Phases /\ Masked /\ SpecsNow /\ TradesFollow /\ OrdersFollow /\ Errands
      /\ cmd \in Command
      /\ inbox \in Seq(Record) /\ numbering \in Numbering
      /\ subs \in [Instrument -> SUBSET Feed] /\ tape \in [Instrument -> 0..MaxTradeNo]
      /\ dedup \in [Instrument -> 0..MaxTradeNo] /\ status \in [ClientOrder -> 0..MaxStatus]
  BY TypesGive DEF NativeInv, ClientTypes
<1>2. /\ cmd.pc = "resubscribe" /\ conn = "up" /\ Become("respecs") /\ unsure' = {}
      /\ UNCHANGED <<login, numbering, tape, status, subs, wanted, secSpecs, spent>>
      /\ UNCHANGED <<conn, recovering, fatal, run, broken>>
      /\ UNCHANGED <<catalog, clients, pendingOrders, known, missed, dedup, told, unheard>>
      /\ UNCHANGED <<collector, asker, placer, wrong>>
  BY DEF Resubscribe, AtCmd, linkSide, masks, stores, orderStore, tradeStore, askVars
<1>3. cmd' \in Command /\ cmd'.pc = "respecs"
  <2>1. "respecs" \in {"idle", "send", "store", "specs", "mark", "close"} \cup Loading
    BY DEF Loading
  <2> QED
    BY <1>1, <1>2, <2>1, Becomes
<1>4. CurrentCatalog /\ feeds = NoFeeds
  BY <1>1, <1>2 DEF Phases, Unsubscribed
<1>5. feeds' = subs
  <2>1. ASSUME NEW i \in Instrument
        PROVE  subs[i] = IF catalog[numbering[i]] \in Subscribed THEN subs[catalog[numbering[i]]] ELSE feeds[i]
    <3>1. catalog[numbering[i]] = i /\ numbering[i] \in SecId /\ feeds[i] = {}
      BY <1>1, <1>4, MeantIs DEF CurrentCatalog, NoFeeds
    <3>2. InCatalog(i)
      BY <3>1 DEF InCatalog
    <3> QED
      BY <3>1, <3>2 DEF Subscribed
  <2>2. feeds' = [i \in Instrument |->
          IF catalog[numbering[i]] \in Subscribed THEN subs[catalog[numbering[i]]] ELSE feeds[i]]
    BY DEF Resubscribe
  <2> QED
    BY <1>1, <2>1, <2>2
<1>6. PICK m, all :
        /\ m \in [Instrument -> SUBSET Feed] /\ m = subs
        /\ all = FlattenSeq([id \in SecId |-> Replay(Meant(id), m[Meant(id)])])
  BY <1>1
<1>7. inbox' = inbox \o all
  BY <1>5, <1>6 DEF Resubscribe
<1>8. /\ all \in Seq(Record)
      /\ TradesOnly(all)
      /\ \A sec : Gapless(all, sec, 0)
      /\ \A i \in Instrument : "trades" \in m[i] \ feeds[i] =>
           tape[i] = 0 \/ Brings(all, numbering[i], tape[i])
  <2> HIDE DEF Record
  <2> QED
    BY <1>1, <1>6, ReplaysAre
<1> HIDE DEF Record, Command, Errand
<1>9. inbox' \in Seq(Record)
  BY <1>1, <1>7, <1>8, ConcatProperties
<1>10. ClientTypes'
  BY <1>1, <1>2, <1>3, <1>5, <1>9 DEF ClientTypes, NativeTypeOK
<1>11. Phases'
  BY <1>1, <1>2, <1>3, <1>4 DEF Phases, Loading, Unsubscribed, CurrentCatalog
<1>12. Masked'
  BY <1>1, <1>2, <1>3, <1>5 DEF Masked
<1>13. SpecsNow'
  BY <1>1, <1>2, <1>3 DEF SpecsNow, Loading, Unsubscribed
<1>14. TradesFollow'
  <2>1. \A i \in Instrument : "trades" \in feeds'[i] =>
           \/ "trades" \in feeds[i] /\ tape'[i] = tape[i]
           \/ tape'[i] = 0
           \/ Brings(all, numbering[i], tape'[i])
    BY <1>2, <1>4, <1>5, <1>6, <1>8 DEF NoFeeds
  <2> QED
    BY <1>1, <1>2, <1>7, <1>8, <2>1, TradesGrow
<1>15. OrdersFollow'
  <2>1. \A k \in 1..Len(all) : all[k].kind \notin {"order", "modify"}
    BY <1>8 DEF TradesOnly
  <2> QED
    BY <1>1, <1>2, <1>3, <1>7, <1>8, <2>1, OrdersGrow
<1>16. Errands'
  BY <1>1, <1>2, <1>3, ErrandsFrame
<1> QED
  BY <1>10, <1>11, <1>12, <1>13, <1>14, <1>15, <1>16 DEF NativeInv

\* The end of a relogin: the session is the client's, or the client has none.
LEMMA ReloginEndsInv ==
  ASSUME NativeInv, Finish \/ ReloginFails
  PROVE  NativeInv'
<1>1. /\ ClientTypes /\ Phases /\ Masked /\ SpecsNow /\ TradesFollow /\ OrdersFollow /\ Errands
      /\ numbering \in Numbering
  BY TypesGive DEF NativeInv
<1>2. /\ cmd' = Rest /\ recovering' = FALSE
      /\ UNCHANGED <<login, numbering, feeds, inbox, tape, status, subs, wanted, unsure, spent>>
      /\ UNCHANGED <<fatal, broken>>
      /\ UNCHANGED <<catalog, clients, pendingOrders, known, missed, dedup, told, unheard>>
      /\ UNCHANGED <<collector, asker, placer, wrong>>
  BY DEF Finish, ReloginFails, exchangeSide, masks, stores, orderStore, tradeStore, askVars
<1>3. \/ /\ cmd.pc = "respecs" /\ conn' = conn /\ run' = "polling"
         /\ secSpecs' = secSpecs \/ \E ids : secSpecs' = Specified(ids)
      \/ /\ cmd.pc \in {"startup", "load", "resubscribe"} /\ conn' = "none" /\ run' = "over"
         /\ secSpecs' = secSpecs
  BY DEF Finish, ReloginFails, AtCmd
<1>4. cmd' \in Command /\ cmd'.pc = "idle" /\ cmd.pc \in Loading \ {"reset"}
  BY <1>2, <1>3, Rests DEF Loading, Unsubscribed
<1>5. conn # "none"
  BY <1>1, <1>4 DEF Phases, Loading, Unsubscribed
<1>6. secSpecs = NoCatalog
  BY <1>1, <1>4 DEF SpecsNow
<1>7. conn' # "none" => cmd.pc = "respecs" /\ CurrentCatalog /\ run' = "polling"
  BY <1>1, <1>3, <1>5 DEF Phases
<1>8. /\ secSpecs' \in [SecId -> Instrument \cup {Nothing}]
      /\ conn' # "none" => \A id \in SecId : secSpecs'[id] \in {Nothing, catalog[id]}
  <2>1. CASE secSpecs' = secSpecs
    BY <1>6, <2>1 DEF NoCatalog
  <2>2. CASE cmd.pc = "respecs" /\ \E ids : secSpecs' = Specified(ids)
    <3>1. CurrentCatalog
      BY <1>1, <1>5, <2>2 DEF Phases
    <3>2. \A id \in SecId : Meant(id) \in Instrument /\ catalog[id] = Meant(id)
      BY <1>1, <3>1, MeantIs DEF CurrentCatalog
    <3>3. PICK ids : secSpecs' = Specified(ids)
      BY <2>2
    <3>4. \A id \in SecId : secSpecs'[id] = Meant(id) \/ secSpecs'[id] = Nothing
      BY <1>6, <3>3 DEF Specified, NoCatalog
    <3> QED
      BY <3>2, <3>3, <3>4 DEF Specified
  <2> QED
    BY <1>3, <2>1, <2>2
<1>9. ClientTypes'
  <2>1. run' \in {"off", "polling", "failed", "recovering", "attempt", "over"}
        /\ conn' \in {"up", "down", "closed", "none"}
    BY <1>1, <1>3 DEF ClientTypes, NativeTypeOK
  <2> HIDE DEF Record, Command, Errand
  <2> QED
    BY <1>1, <1>2, <1>4, <1>8, <2>1 DEF ClientTypes, NativeTypeOK
<1>10. Phases'
  BY <1>1, <1>2, <1>3, <1>4, <1>5, <1>7 DEF Phases, Loading, Unsubscribed, CurrentCatalog
<1>11. Masked'
  BY <1>1, <1>2, <1>4, <1>5, <1>7 DEF Masked, Unsubscribed
<1>12. SpecsNow'
  BY <1>2, <1>4, <1>8 DEF SpecsNow, Loading, Unsubscribed
<1>13. TradesFollow' /\ OrdersFollow'
  BY <1>1, <1>2, <1>4, <1>5, TradesFrame, OrdersFrame
<1>14. Errands'
  <2>1. Addressed(asker)' /\ Addressed(placer)'
    BY <1>1, <1>2, <1>5 DEF Errands, Addressed
  <2> QED
    BY <1>1, <1>2, <1>3, <1>4, <2>1 DEF Errands
<1> QED
  BY <1>9, <1>10, <1>11, <1>12, <1>13, <1>14 DEF NativeInv

\* An errand moves on its own: the parts of the invariant about the session, its
\* records and its command stay.
LEMMA AsideFrame ==
  ASSUME NativeInv, Aside, UNCHANGED <<login, numbering, feeds, inbox, tape, status>>
  PROVE  Phases' /\ Masked' /\ SpecsNow' /\ TradesFollow' /\ OrdersFollow'
<1>1. /\ ClientTypes /\ Phases /\ Masked /\ SpecsNow /\ TradesFollow /\ OrdersFollow
      /\ UNCHANGED <<conn, recovering, fatal, run, broken, subs, wanted, secSpecs, unsure, cmd>>
      /\ UNCHANGED <<catalog, clients, pendingOrders, known, missed, dedup, told, unheard>>
  BY DEF NativeInv, Aside, linkSide, masks, orderStore, tradeStore
<1>2. Phases'
  BY <1>1 DEF Phases, CurrentCatalog, Starts
<1>3. Masked' /\ SpecsNow' /\ TradesFollow' /\ OrdersFollow'
  BY <1>1, MaskedFrame, SpecsFrame, TradesFrame, OrdersFrame
<1> QED
  BY <1>2, <1>3

\* A lookup finds the number of the session, unless a relogin is under way.
LEMMA LookUpInv ==
  ASSUME NativeInv, NEW i \in Instrument, Ask(i) \/ LookUpOrder(i)
  PROVE  NativeInv'
<1>1. /\ ClientTypes /\ Phases /\ Masked /\ SpecsNow /\ TradesFollow /\ OrdersFollow /\ Errands
      /\ login \in 1..MaxLogins
  BY DEF NativeInv, ClientTypes, NativeTypeOK
<1>2. /\ UNCHANGED <<login, numbering, feeds, inbox, tape, status>>
      /\ Aside
      /\ UNCHANGED <<collector, wrong>> /\ spent' \in 0..MaxSpent /\ InCatalog(i)
  BY <1>1, BoundsAssumption
  DEF Ask, LookUpOrder, exchangeSide, askVars, Spend, ClientTypes, NativeTypeOK
<1>3. /\ UNCHANGED <<conn, recovering, fatal, run, broken, subs, wanted, secSpecs, unsure, cmd>>
      /\ UNCHANGED <<catalog, clients, pendingOrders, known, missed, dedup, told, unheard>>
  BY <1>2 DEF Aside, linkSide, masks, orderStore, tradeStore
<1>4. PICK sec \in SecId : sec = SecOf(i)
  BY <1>2, SecOfIs
<1>5. ~recovering /\ conn # "none" => numbering[i] = sec
  <2>1. ASSUME ~recovering, conn # "none" PROVE CurrentCatalog
    BY <1>1, <2>1 DEF Phases, Loading, Unsubscribed
  <2> QED
    BY <1>1, <1>2, <1>4, <2>1, LooksUp
<1>6. \/ /\ asker' = [pc |-> "register", of |-> i, sec |-> sec, login |-> login] /\ placer' = placer
         /\ ~recovering
      \/ /\ placer' = [pc |-> "send", of |-> i, sec |-> sec, login |-> IF recovering THEN 0 ELSE login]
         /\ asker' = asker
  BY <1>4 DEF Ask, LookUpOrder, askVars
<1>7. /\ asker' \in Errand /\ placer' \in Errand
      /\ asker' = asker \/ (asker'.of = i /\ asker'.sec = sec /\ asker'.login = login /\ ~recovering)
      /\ \/ placer' = placer
         \/ placer'.of = i /\ placer'.sec = sec /\ placer'.login = (IF recovering THEN 0 ELSE login)
  <2>1. /\ sec \in 0..Cardinality(Instrument)
        /\ login \in 0..MaxLogins /\ 0 \in 0..MaxLogins
    BY <1>1, <1>4, FiniteAssumption, FS_CardinalityType, BoundsAssumption DEF SecId
  <2>2. asker \in Errand /\ placer \in Errand
    BY <1>1 DEF ClientTypes
  <2>3. \A place \in {"register", "send"}, l \in 0..MaxLogins :
          [pc |-> place, of |-> i, sec |-> sec, login |-> l] \in Errand
    BY <2>1 DEF Errand
  <2>4. [pc |-> "register", of |-> i, sec |-> sec, login |-> login] \in Errand
    BY <2>1, <2>3
  <2>5. [pc |-> "send", of |-> i, sec |-> sec, login |-> IF recovering THEN 0 ELSE login] \in Errand
    BY <2>1, <2>3
  <2> QED
    BY <1>6, <2>2, <2>4, <2>5
<1>8. ClientTypes'
  <2> HIDE DEF Command, Errand, Record
  <2> QED
    BY <1>1, <1>2, <1>3, <1>7 DEF ClientTypes, NativeTypeOK
<1>9. Errands'
  <2>1. Addressed(asker)'
    BY <1>1, <1>2, <1>3, <1>5, <1>7 DEF Errands, Addressed
  <2>2. Addressed(placer)'
    BY <1>1, <1>2, <1>3, <1>5, <1>7 DEF Errands, Addressed
  <2> QED
    BY <1>1, <1>2, <1>3, <2>1, <2>2 DEF Errands
<1>10. Phases' /\ Masked' /\ SpecsNow' /\ TradesFollow' /\ OrdersFollow'
  BY <1>2, AsideFrame
<1> QED
  BY <1>8, <1>9, <1>10 DEF NativeInv

\* A request that goes out in the session of its lookup reaches its instrument.
LEMMA ErrandMovesInv ==
  ASSUME NativeInv, Register \/ SendHistory \/ SendOrder
  PROVE  NativeInv'
<1>1. /\ ClientTypes /\ Phases /\ Masked /\ SpecsNow /\ TradesFollow /\ OrdersFollow /\ Errands
      /\ inbox \in Seq(Record) /\ numbering \in Numbering
      /\ dedup \in [Instrument -> 0..MaxTradeNo] /\ status \in [ClientOrder -> 0..MaxStatus]
  BY TypesGive DEF NativeInv
<1>2. /\ UNCHANGED <<login, numbering, feeds, tape, status, spent>>
      /\ Aside
  BY DEF Register, SendHistory, SendOrder, exchangeSide
<1>3. /\ UNCHANGED <<conn, recovering, fatal, run, broken, subs, wanted, secSpecs, unsure, cmd>>
      /\ UNCHANGED <<catalog, clients, pendingOrders, known, missed, dedup, told, unheard>>
  BY <1>2 DEF Aside, linkSide, masks, orderStore, tradeStore
<1>4. /\ asker \in Errand /\ placer \in Errand
      /\ asker.pc # "idle" => asker.of \in Instrument /\ asker.sec \in SecId
      /\ placer.pc # "idle" => placer.of \in Instrument /\ placer.sec \in SecId
      /\ collector \in 0..Cardinality(Instrument)
  BY <1>1 DEF ClientTypes, NativeTypeOK
<1>5. \A id \in SecId : id \in 0..Cardinality(Instrument)
  BY FiniteAssumption, FS_CardinalityType DEF SecId
<1>6. \/ asker' = Waiting /\ placer' = placer
      \/ /\ asker.pc \in {"register", "send"} /\ placer' = placer
         /\ \E place \in {"send", "wait"} : asker' = [asker EXCEPT !.pc = place]
      \/ asker' = asker /\ placer' = Waiting
  BY DEF Register, SendHistory, SendOrder, askVars
<1>7. /\ asker' \in Errand /\ placer' \in Errand
      /\ \/ asker' = asker
         \/ asker' = Waiting /\ asker'.pc = "idle"
         \/ asker.pc \in {"register", "send"} /\ asker'.of = asker.of /\ asker'.sec = asker.sec
            /\ asker'.login = asker.login
      /\ placer' = placer \/ (placer' = Waiting /\ placer'.pc = "idle")
  <2>1. \A place \in {"send", "wait"} :
          /\ [asker EXCEPT !.pc = place] \in Errand /\ [asker EXCEPT !.pc = place].of = asker.of
          /\ [asker EXCEPT !.pc = place].sec = asker.sec /\ [asker EXCEPT !.pc = place].login = asker.login
    BY <1>4 DEF Errand
  <2> HIDE DEF Errand
  <2> QED
    BY <1>4, <1>6, <2>1, Waits
<1>8. collector' \in 0..Cardinality(Instrument)
  BY <1>4, <1>5, Waits DEF Register, SendHistory, SendOrder, askVars
<1>9. PICK more \in Seq(Record) :
        inbox' = inbox \o more /\ \A k \in 1..Len(more) : more[k].kind = "candles"
  <2>1. CASE inbox' = inbox
    <3> HIDE DEF Record
    <3>1. <<>> \in Seq(Record) /\ inbox' = inbox \o <<>> /\ Len(<<>>) = 0
      BY <1>1, <2>1, InboxFrame
    <3>2. PICK none \in Seq(Record) : none = <<>>
      BY <3>1
    <3>3. inbox' = inbox \o none /\ \A k \in 1..Len(none) : none[k].kind = "candles"
      BY <3>1, <3>2
    <3> QED
      BY <3>3
  <2>2. CASE inbox' # inbox
    <3>1. asker.pc = "send" /\ inbox' = Append(inbox, [kind |-> "candles", sec |-> asker.sec])
      BY <2>2 DEF Register, SendHistory, SendOrder, exchangeSide
    <3>2. PICK r : r = [kind |-> "candles", sec |-> asker.sec]
      OBVIOUS
    <3>3. r \in Record /\ r.kind = "candles"
      BY <1>4, <3>1, <3>2 DEF Record
    <3> HIDE DEF Record
    <3>4. <<r>> \in Seq(Record) /\ Len(<<r>>) = 1 /\ \A k \in 1..1 : <<r>>[k] = r
      BY <3>3
    <3>5. inbox' = inbox \o <<r>>
      BY <1>1, <3>1, <3>2, <3>3, AppendIsConcat
    <3> QED
      BY <3>3, <3>4, <3>5
  <2> QED
    BY <2>1, <2>2
<1> HIDE DEF Record, Command, Errand
<1>10. ClientTypes'
  <2>1. inbox' \in Seq(Record)
    BY <1>1, <1>9, ConcatProperties
  <2> QED
    BY <1>1, <1>2, <1>3, <1>4, <1>7, <1>8, <2>1 DEF ClientTypes, NativeTypeOK
<1>11. Phases'
  BY <1>1, <1>2, <1>3, <1>9, PhasesFrame
<1>12. Masked' /\ SpecsNow'
  BY <1>1, <1>2, <1>3, MaskedFrame, SpecsFrame
<1>13. TradesFollow'
  <2>1. \A sec : Gapless(more, sec, 0)
    BY <1>9 DEF Gapless, TradeOf
  <2> QED
    BY <1>1, <1>2, <1>3, <1>9, <2>1, TradesGrow
<1>14. OrdersFollow'
  BY <1>1, <1>2, <1>3, <1>9, OrdersGrow
<1>15. \A w \in wrong' : w[2]
  <2>1. ASSUME NEW g \in {asker, placer}, NEW kind, g.pc = "send", Addressed(g), conn = "up",
               NEW w \in Misses(kind, g, login # g.login)
        PROVE  w[2]
    <3>1. w = <<kind, login # g.login>> /\ Meant(g.sec) # g.of
      BY <2>1 DEF Misses
    <3>2. g.of \in Instrument
      BY <1>4, <2>1
    <3>3. login # g.login
      BY <1>1, <2>1, <3>1, <3>2, MeantIs DEF Addressed
    <3> QED
      BY <3>1, <3>3
  <2>2. \/ wrong' = wrong
        \/ conn = "up" /\ asker.pc = "send" /\ wrong' = wrong \cup Misses("history", asker, login # asker.login)
        \/ conn = "up" /\ placer.pc = "send" /\ wrong' = wrong \cup Misses("order", placer, login # placer.login)
    BY DEF Register, SendHistory, SendOrder
  <2>3. Addressed(asker) /\ Addressed(placer) /\ \A w \in wrong : w[2]
    BY <1>1 DEF Errands
  <2> QED
    BY <2>1, <2>2, <2>3
<1>16. Errands'
  <2>1. Waiting.pc = "idle" /\ Waiting.login = 0 /\ login \in Nat
    BY <1>1, Waits DEF ClientTypes, NativeTypeOK
  <2>2. asker'.login <= login /\ placer'.login <= login
    BY <1>1, <1>7, <2>1 DEF Errands, Addressed
  <2>3. Addressed(asker)' /\ Addressed(placer)'
    BY <1>1, <1>2, <1>3, <1>7, <2>2 DEF Errands, Addressed
  <2> QED
    BY <1>1, <1>2, <1>3, <1>15, <2>3 DEF Errands
<1> QED
  BY <1>10, <1>11, <1>12, <1>13, <1>14, <1>16 DEF NativeInv

\* The first session begins like any other, with its snapshot in the inbox.
LEMMA NativeBegins ==
  ASSUME NativeInit
  PROVE  NativeInv
<1>1. status \in [ClientOrder -> 0..1] /\ MaxStatus \in Nat \ {0} /\ MaxLogins \in Nat \ {0}
      /\ {MaxTradeNo, MaxSpent} \subseteq Nat
  BY BoundsAssumption DEF NativeInit
<1>2. status \in [ClientOrder -> 0..MaxStatus]
  BY <1>1
<1>3. PICK box \in Snapshot : box = inbox
  BY DEF NativeInit
<1>4. /\ box \in Seq(Record) /\ box # <<>> /\ box[1].kind = "securities"
      /\ \A sec, d : Gapless(box, sec, d)
      /\ \A c \in OwnClient : Announces(box, c)
      /\ \A o \in ClientOrder : /\ Rising(box, o, 0) /\ AtMost(box, o, status[o])
                                /\ status[o] > 0 => Tells(box, o, status[o])
  BY <1>2, SnapshotIs
<1>5. cmd \in Command /\ cmd.pc = "startup"
  <2>1. "startup" \in {"idle", "send", "store", "specs", "mark", "close"} \cup Loading
    BY DEF Loading, Unsubscribed
  <2> QED
    BY <2>1, Rests DEF NativeInit, Command
<1>6. /\ login = 1 /\ numbering \in Numbering /\ feeds = NoFeeds /\ conn = "up" /\ broken = "nothing"
      /\ recovering = TRUE /\ fatal = FALSE /\ catalog = NoCatalog /\ secSpecs = NoCatalog
      /\ subs = NoFeeds /\ wanted = NoFeeds /\ unheard = {} /\ clients = {} /\ missed = {}
      /\ tape = [i \in Instrument |-> 0]
      /\ dedup = [i \in Instrument |-> 0] /\ told = [i \in Instrument |-> <<>>]
      /\ pendingOrders = NoOrders /\ known = NoOrders /\ collector = 0 /\ run = "off"
      /\ asker = Waiting /\ placer = Waiting /\ spent = 0 /\ unsure = {} /\ wrong = {}
  BY DEF NativeInit
<1> HIDE DEF Record, Command, Errand
<1>7. ClientTypes
  <2>1. /\ NoFeeds \in [Instrument -> SUBSET Feed] /\ NoOrders \in [ClientOrder -> 0..MaxStatus]
        /\ NoCatalog \in [SecId -> Instrument \cup {Nothing}]
        /\ [i \in Instrument |-> 0] \in [Instrument -> 0..MaxTradeNo]
        /\ 1 \in 1..MaxLogins /\ 0 \in 0..MaxSpent
    BY <1>1 DEF NoFeeds, NoOrders, NoCatalog
  <2>2. told \in [Instrument -> Seq(Instrument \X Nat)]
    BY <1>6
  <2> QED
    BY <1>2, <1>3, <1>4, <1>5, <1>6, <2>1, <2>2, Waits DEF ClientTypes, NativeTypeOK
<1>8. Phases
  BY <1>3, <1>4, <1>5, <1>6 DEF Phases, Loading, Unsubscribed, Starts
<1>9. Masked /\ SpecsNow
  BY <1>5, <1>6 DEF Masked, Unsubscribed, SpecsNow, NoCatalog
<1>10. TradesFollow
  <2>1. ASSUME NEW i \in Instrument PROVE ToldSoFar(i) /\ ToCome(i)
    <3>1. told[i] = <<>> /\ Len(told[i]) = 0 /\ dedup[i] = 0 /\ feeds[i] = {}
      BY <1>6 DEF NoFeeds
    <3> QED
      BY <1>3, <1>4, <3>1 DEF ToldSoFar, ToCome
  <2> QED
    BY <2>1 DEF TradesFollow
<1>11. OrdersFollow
  <2>1. ASSUME NEW o \in ClientOrder
        PROVE  OrderFollows(o) /\ ~(known[o] > 0) /\ ~(pendingOrders[o] > 0)
    <3>1. known[o] = 0 /\ pendingOrders[o] = 0
      BY <1>6 DEF NoOrders
    <3>2. Held(o) = 0
      BY <3>1 DEF Held
    <3>3. PICK s \in Nat : s = status[o]
      BY <1>1
    <3>4. Rising(box, o, 0) /\ AtMost(box, o, status[o]) /\ (status[o] > 0 => Tells(box, o, status[o]))
      BY <1>4
    <3>5. AtMost(box, o, s) /\ (s = 0 \/ Tells(box, o, s))
      BY <3>3, <3>4
    <3> QED
      BY <1>3, <3>1, <3>2, <3>3, <3>4, <3>5 DEF OrderFollows
  <2>2. \A c \in OwnClient : Announces(inbox, c)
    BY <1>3, <1>4
  <2> QED
    BY <2>1, <2>2 DEF OrdersFollow
<1>12. Errands
  BY <1>5, <1>6, Waits DEF Errands, Addressed
<1> QED
  BY <1>7, <1>8, <1>9, <1>10, <1>11, <1>12 DEF NativeInv

\* A step that changes nothing.
LEMMA NativeStutters ==
  ASSUME NativeInv, UNCHANGED nativeVars
  PROVE  NativeInv'
<1>1. /\ ClientTypes /\ Phases /\ Masked /\ SpecsNow /\ TradesFollow /\ OrdersFollow /\ Errands
      /\ inbox \in Seq(Record)
  BY TypesGive DEF NativeInv
<1>2. /\ UNCHANGED <<login, numbering, feeds, inbox, tape, status, subs, wanted, unsure, spent>>
      /\ UNCHANGED <<conn, recovering, fatal, run, broken, secSpecs, cmd>>
      /\ UNCHANGED <<catalog, clients, pendingOrders, known, missed, dedup, told, unheard>>
      /\ UNCHANGED <<collector, asker, placer, wrong>>
  BY DEF nativeVars, exchangeSide, clientSide, linkSide, masks, orderStore, tradeStore, askVars
<1>3. ClientTypes'
  <2> HIDE DEF Command, Errand, Record
  <2> QED
    BY <1>1, <1>2 DEF ClientTypes, NativeTypeOK
<1>4. Phases'
  BY <1>1, <1>2 DEF Phases, CurrentCatalog, Starts
<1>5. Masked' /\ SpecsNow' /\ TradesFollow' /\ OrdersFollow' /\ Errands'
  BY <1>1, <1>2, MaskedFrame, SpecsFrame, TradesFrame, OrdersFrame, ErrandsFrame
<1> QED
  BY <1>3, <1>4, <1>5 DEF NativeInv

\* Every reachable state of the client, its server and its goroutines satisfies
\* the invariant: the catalog is the session's whenever a record is taken, the
\* masks agree but inside a command, and what is not told yet is on its way.
THEOREM NativeInvariance == NativeSpec => []NativeInv
<1>1. NativeInit => NativeInv
  BY NativeBegins
<1>2. NativeInv /\ [NativeNext]_nativeVars => NativeInv'
  <2>1. SUFFICES ASSUME NativeInv, NativeNext \/ UNCHANGED nativeVars PROVE NativeInv'
    OBVIOUS
  <2>2. CASE UNCHANGED nativeVars
    BY <2>1, <2>2, NativeStutters
  <2>3. CASE \E i \in Instrument : TradeHappens(i) \/ Ask(i) \/ LookUpOrder(i)
    BY <2>1, <2>3, TradeHappensInv, LookUpInv
  <2>4. CASE \E o \in ClientOrder : OrderMoves(o)
    BY <2>1, <2>4, OrderMovesInv
  <2>5. CASE \/ LinkDrops \/ PollErrs \/ CheckFatal \/ RunSeesFatal
             \/ BeginAttempt \/ AttemptSucceeds \/ AttemptFails \/ WindowEnds
    BY <2>1, <2>5, LinkMovesInv
  <2>6. CASE PollRecord \/ LoadRecord
    BY <2>1, <2>6, ReadInv
  <2>7. CASE \E i \in Instrument, f \in Feed, on \in BOOLEAN : ChangeSubscription(i, f, on)
    BY <2>1, <2>7, ChangeSubscriptionInv
  <2>8. CASE SendSucceeds \/ SendFails
    BY <2>1, <2>8, SendInv
  <2>9. CASE StoreMask
    BY <2>1, <2>9, StoreMaskInv
  <2>10. CASE LoadSpecs
    BY <2>1, <2>10, LoadSpecsInv
  <2>11. CASE ChangePassword \/ MarkThenClose
    BY <2>1, <2>11, PasswordInv
  <2>12. CASE Login
    BY <2>1, <2>12, LoginInv
  <2>13. CASE Reset
    BY <2>1, <2>13, ResetInv
  <2>14. CASE Startup \/ Drained
    BY <2>1, <2>14, LoadInv
  <2>15. CASE Resubscribe
    BY <2>1, <2>15, ResubscribeInv
  <2>16. CASE Finish \/ ReloginFails
    BY <2>1, <2>16, ReloginEndsInv
  <2>17. CASE Register \/ SendHistory \/ SendOrder
    BY <2>1, <2>17, ErrandMovesInv
  <2> QED
    BY <2>1, <2>2, <2>3, <2>4, <2>5, <2>6, <2>7, <2>8, <2>9, <2>10, <2>11, <2>12, <2>13, <2>14,
       <2>15, <2>16, <2>17 DEF NativeNext
<1> QED
  BY <1>1, <1>2, PTL DEF NativeSpec

\* The client's variables keep their types.
THEOREM NativeTypeCorrect == NativeSpec => []NativeTypeOK
<1>1. NativeInv => NativeTypeOK
  BY DEF NativeInv, ClientTypes
<1> QED
  BY <1>1, NativeInvariance, PTL

\* Between commands the server feeds what the commands asked for, in whatever
\* session (subscribe, unsubscribe, resubscribe), and a specification is that of
\* the instrument under whose number it is kept.
THEOREM FeedsAsWanted == NativeSpec => []FeedsRestored
<1>1. NativeInv => FeedsRestored
  BY DEF NativeInv, Masked, SpecsNow, FeedsRestored, AtRest, Unsubscribed
<1> QED
  BY <1>1, NativeInvariance, PTL

\* Every trade of an instrument is told once and in order, over all replays and
\* sessions (decodeAllTrade with its FreshSymbol).
THEOREM TradesToldOnce == NativeSpec => []TradesOnce
<1>1. NativeInv => TradesOnce
  <2>1. SUFFICES ASSUME NativeInv, NEW i \in Instrument, NEW k \in 1..MaxTradeNo, k \in DOMAIN told[i]
                 PROVE  /\ told[i][k][1] = i
                        /\ k > 1 => told[i][k][2] > told[i][k - 1][2]
                        /\ i \notin unheard => told[i][k][2] = k
    BY DEF TradesOnce
  <2>2. told[i] \in Seq(Instrument \X Nat) /\ ToldSoFar(i)
    BY <2>1 DEF NativeInv, ClientTypes, TradesFollow
  <2>3. k \in 1..Len(told[i])
    BY <2>1, <2>2, LenProperties
  <2> QED
    BY <2>2, <2>3 DEF ToldSoFar
<1> QED
  BY <1>1, NativeInvariance, PTL

\* When the session's records are read, an own order has its last status, but for
\* the orders whose records came in an order the decoders do not expect
\* (decodeOrderNew, decodeOrderModify, flushPendingOrders).
THEOREM LastStatusKept == NativeSpec => []OrdersCurrent
<1>1. NativeInv => OrdersCurrent
  <2> SUFFICES ASSUME NativeInv PROVE OrdersCurrent
    OBVIOUS
  <2>1. /\ clients \subseteq OwnClient /\ OrdersFollow /\ Phases
        /\ {status, known, pendingOrders} \subseteq [ClientOrder -> 0..MaxStatus]
    BY DEF NativeInv, ClientTypes, NativeTypeOK
  <2>2. \A o \in ClientOrder : known[o] > 0 => Owner[o] \in OwnClient
    BY <2>1 DEF OrdersFollow
  <2>3. ASSUME run = "polling", inbox = <<>>, conn = "up",
               NEW o \in ClientOrder \ missed, Owner[o] \in OwnClient
        PROVE  known[o] = status[o]
    <3>1. cmd.pc # "reset"
      BY <2>1, <2>3 DEF Phases, Loading, Unsubscribed
    <3>2. Len(inbox) = 0
      BY <2>3
    <3>3. ~Announces(inbox, Owner[o]) /\ ~Tells(inbox, o, status[o])
      BY <3>2 DEF Announces, Tells
    <3>4. Owner[o] \in clients
      BY <2>1, <2>3, <3>1, <3>3 DEF OrdersFollow, Introduced
    <3>5. Held(o) = status[o]
      BY <2>1, <2>3, <3>1, <3>3 DEF OrdersFollow, OrderFollows, Dropped
    <3>6. ~(pendingOrders[o] > 0)
      BY <2>1, <3>4 DEF OrdersFollow
    <3> QED
      BY <3>1, <3>5, <3>6 DEF Held
  <2> QED
    BY <2>2, <2>3 DEF OrdersCurrent
<1> QED
  BY <1>1, NativeInvariance, PTL

\* A request reaches another instrument than it names only when a Reconnect came
\* between its lookup and its exchange (Client.History, NewOrder), and Run never
\* recovers the socket that a fatal change_pass closed.
THEOREM RequestsAddressed == NativeSpec => []OnlyOverlapsMisroute
<1>1. NativeInv => OnlyOverlapsMisroute
  BY DEF NativeInv, Errands, OnlyOverlapsMisroute
<1> QED
  BY <1>1, NativeInvariance, PTL

=============================================================================
