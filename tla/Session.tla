------------------------------- MODULE Session -------------------------------
(***************************************************************************)
(* native/session: request and reply exchanges on one connection (Conn).   *)
(*                                                                         *)
(* Callers take Conn.mu for a whole exchange: deadline, write, read.  The  *)
(* server answers in request order.  An exchange cancelled while it waits  *)
(* leaves a reply behind, and its type goes to `abandoned` so that a later *)
(* exchange skips it.  Restore (the short recovery) swaps the socket;      *)
(* Close drops it.                                                         *)
(*                                                                         *)
(* A context's AfterFunc moves the socket's deadline into the past from a  *)
(* goroutine of its own, and stop() does not wait for one that has begun:  *)
(* it may run when the next exchange has set its deadline (stray).         *)
(*                                                                         *)
(* A request is its number and type; ciphers, frames and payloads are      *)
(* left out, as is a reply cut in the middle by a deadline.                *)
(***************************************************************************)
EXTENDS Naturals, Sequences, FiniteSets

CONSTANTS Caller,       \* goroutines that use the connection
          RequestType,  \* request types, "transact" among them
          MaxCalls,     \* bound on the requests
          MaxLate,      \* bound on timeouts and stray deadlines
          MaxRestores   \* bound on the short recoveries

ASSUME TypeAssumption == "transact" \in RequestType
ASSUME CallsAssumption == MaxCalls \in Nat
ASSUME LateAssumption == MaxLate \in Nat
ASSUME RestoresAssumption == MaxRestores \in Nat

VARIABLES mu,             \* the callers in the critical section of Conn.mu
          open,           \* Conn.nc is not nil
          link,           \* the socket works
          expired,        \* the socket's deadline is in the past
          stray,          \* AfterFuncs still to run for exchanges that ended
          abandoned,      \* Conn.abandoned
          requests,       \* written, not yet answered
          replies,        \* answered, not yet read
          calls, late, restores,
          pc,             \* pc[c]: where the caller is
          call,           \* call[c]: the request it is making
          ctxDone,        \* ctxDone[c]: the context of the call is done
          timer,          \* timer[c]: the AfterFunc of the call
          result,         \* result[c]: what the last call returned
          written         \* history: requests that may have left the process

wireVars == <<open, link, requests, replies, restores>>
callVars == <<calls, call>>
sessionVars == <<mu, wireVars, expired, stray, abandoned, callVars, late, pc, ctxDone, timer,
          result, written>>

Number == 0..MaxCalls
WireRequest == [id : Number, type : RequestType]
Frame == [id : Number, type : RequestType, kind : {"reply", "bye"}]
Returned == {"none", "reply", "ordinary", "outcome"}

SessionTypeOK ==
  /\ mu \subseteq Caller /\ Cardinality(mu) <= 1
  /\ open \in BOOLEAN /\ link \in BOOLEAN /\ expired \in BOOLEAN
  /\ stray \in 0..MaxLate /\ late \in 0..MaxLate
  /\ abandoned \in Seq(RequestType)
  /\ requests \in Seq(WireRequest) /\ replies \in Seq(Frame)
  /\ calls \in Number /\ restores \in 0..MaxRestores
  /\ pc \in [Caller -> {"idle", "lock", "write", "read"}]
  /\ \A c \in Caller : pc[c] \in {"write", "read"} <=> c \in mu
  /\ call \in [Caller -> WireRequest]
  /\ ctxDone \in [Caller -> BOOLEAN]
  /\ timer \in [Caller -> {"none", "armed", "running"}]
  /\ result \in [Caller -> [kind : Returned, id : Number, type : RequestType,
                            answered : Number]]
  /\ written \subseteq Number

NoCall == [id |-> 0, type |-> "transact"]
NoResult == [kind |-> "none", id |-> 0, type |-> "transact", answered |-> 0]

SessionInit ==
  /\ mu = {}
  /\ open = TRUE /\ link = TRUE /\ expired = FALSE
  /\ stray = 0 /\ late = 0
  /\ abandoned = <<>> /\ requests = <<>> /\ replies = <<>>
  /\ calls = 0 /\ restores = 0
  /\ pc = [c \in Caller |-> "idle"]
  /\ call = [c \in Caller |-> NoCall]
  /\ ctxDone = [c \in Caller |-> FALSE]
  /\ timer = [c \in Caller |-> "none"]
  /\ result = [c \in Caller |-> NoResult]
  /\ written = {}

-----------------------------------------------------------------------------
(* Calls *)

\* Request(typ), or Transact, whose local number only its error carries.
Call(c, t) ==
  /\ pc[c] = "idle"
  /\ calls < MaxCalls
  /\ calls' = calls + 1
  /\ call' = [call EXCEPT ![c] = [id |-> calls + 1, type |-> t]]
  /\ pc' = [pc EXCEPT ![c] = "lock"]
  /\ ctxDone' = [ctxDone EXCEPT ![c] = FALSE]
  /\ result' = [result EXCEPT ![c] = NoResult]
  /\ UNCHANGED <<mu, wireVars, expired, stray, abandoned, late, timer, written>>

\* The context of the call is cancelled; its AfterFunc starts.
CancelCtx(c) ==
  /\ pc[c] # "idle"
  /\ ~ctxDone[c]
  /\ ctxDone' = [ctxDone EXCEPT ![c] = TRUE]
  /\ timer' = [timer EXCEPT ![c] = IF @ = "armed" THEN "running" ELSE @]
  /\ UNCHANGED <<mu, wireVars, expired, stray, abandoned, callVars, late, pc, result, written>>

\* The AfterFunc of a running exchange moves the deadline ...
Fire(c) ==
  /\ timer[c] = "running"
  /\ timer' = [timer EXCEPT ![c] = "none"]
  /\ expired' = TRUE
  /\ UNCHANGED <<mu, wireVars, stray, abandoned, callVars, late, pc, ctxDone, result, written>>

\* ... and one whose exchange is over moves the deadline of whoever is next.
StrayDeadline ==
  /\ stray > 0
  /\ stray' = stray - 1
  /\ expired' = TRUE
  /\ UNCHANGED <<mu, wireVars, abandoned, callVars, late, pc, ctxDone, timer, result, written>>

\* The call returns; stop() ends an armed AfterFunc, one that already runs stays behind.
LeaveHolding(c, kind, answered, held) ==
  /\ mu' = held
  /\ pc' = [pc EXCEPT ![c] = "idle"]
  /\ result' = [result EXCEPT ![c] =
       [kind |-> kind, id |-> call[c].id, type |-> call[c].type,
        answered |-> answered]]
  /\ timer' = [timer EXCEPT ![c] = "none"]
  /\ UNCHANGED <<callVars, ctxDone>>

\* The deferred unlock.
Leave(c, kind, answered) == LeaveHolding(c, kind, answered, mu \ {c})
StayBehind(c) == IF timer[c] = "running" THEN 1 ELSE 0

\* The lock is taken but the connection was closed.
EnterClosed(c) ==
  /\ pc[c] = "lock" /\ mu = {} /\ ~open
  /\ Leave(c, "ordinary", 0)
  /\ UNCHANGED <<wireVars, expired, stray, abandoned, late, written>>

\* The lock is taken, the deadline set and the AfterFunc armed.
Enter(c) ==
  /\ pc[c] = "lock" /\ mu = {} /\ open
  /\ mu' = {c}
  /\ pc' = [pc EXCEPT ![c] = "write"]
  /\ expired' = FALSE
  /\ timer' = [timer EXCEPT ![c] = IF ctxDone[c] THEN "running" ELSE "armed"]
  /\ UNCHANGED <<wireVars, stray, abandoned, callVars, late, ctxDone, result, written>>

\* The error after the write: a transaction's outcome is unknown.
Failure(c) == IF call[c].type = "transact" THEN "outcome" ELSE "ordinary"

\* nc.Write succeeds.
Write(c) ==
  /\ pc[c] = "write" /\ link /\ ~expired
  /\ requests' = Append(requests, call[c])
  /\ written' = written \cup {call[c].id}
  /\ pc' = [pc EXCEPT ![c] = "read"]
  /\ UNCHANGED <<mu, open, link, replies, restores, expired, stray, abandoned,
                 callVars, late, ctxDone, timer, result>>

WriteFailsAs(c, kind) ==
  /\ pc[c] = "write" /\ (~link \/ expired)
  /\ late + StayBehind(c) <= MaxLate
  /\ late' = late + StayBehind(c) /\ stray' = stray + StayBehind(c)
  /\ written' = written \cup {call[c].id}
  /\ Leave(c, kind, 0)
  /\ UNCHANGED <<wireVars, expired, abandoned>>

\* Faulty: a failed write counts as an error before the write.
WriteFailsOrdinary(c) == WriteFailsAs(c, "ordinary")

\* nc.Write fails: part of the frame may have left.
WriteFails(c) == WriteFailsAs(c, Failure(c))

\* readReply drops the reply of an abandoned request.
Stale(f) == abandoned # <<>> /\ f.kind = "reply" /\ f.type = Head(abandoned)
ReadStale(c) ==
  /\ pc[c] = "read" /\ replies # <<>> /\ ~expired
  /\ Stale(Head(replies))
  /\ replies' = Tail(replies)
  /\ abandoned' = Tail(abandoned)
  /\ UNCHANGED <<mu, open, link, requests, restores, expired, stray, callVars, late,
                 pc, ctxDone, timer, result, written>>

\* readReply keeps the frame; another type than the abandoned one ends the list.
\* An empty or unreadable reply to a transaction leaves its outcome unknown.
ReadReply(c) ==
  /\ pc[c] = "read" /\ replies # <<>> /\ ~expired
  /\ late + StayBehind(c) <= MaxLate
  /\ late' = late + StayBehind(c) /\ stray' = stray + StayBehind(c)
  /\ LET f == Head(replies)
     IN /\ ~Stale(f)
        /\ replies' = Tail(replies)
        /\ abandoned' = IF f.kind = "reply" THEN <<>> ELSE abandoned
        /\ IF f.kind = "reply" /\ f.type = call[c].type
             THEN \/ Leave(c, "reply", f.id)
                  \/ f.type = "transact" /\ Leave(c, "outcome", 0)
             ELSE Leave(c, Failure(c), 0)
  /\ UNCHANGED <<open, link, requests, restores, expired, written>>

\* The read fails; the types in `left` join the abandoned ones.
ReadFailsLeaving(c, left) ==
  /\ pc[c] = "read"
  /\ \/ expired
     \/ ~link /\ replies = <<>>
  /\ late + StayBehind(c) <= MaxLate
  /\ late' = late + StayBehind(c) /\ stray' = stray + StayBehind(c)
  /\ abandoned' = abandoned \o left
  /\ Leave(c, Failure(c), 0)
  /\ UNCHANGED <<wireVars, expired, written>>

\* Faulty: the reply that will still come is forgotten.
ReadFailsForgetting(c) == ReadFailsLeaving(c, <<>>)

\* The read fails: the reply of a cancelled request will still come.
ReadFails(c) == ReadFailsLeaving(c, IF ctxDone[c] THEN <<call[c].type>> ELSE <<>>)

\* The request timeout passes while the caller waits.
Timeout(c) ==
  /\ pc[c] = "read" /\ ~expired
  /\ late < MaxLate
  /\ late' = late + 1
  /\ expired' = TRUE
  /\ UNCHANGED <<mu, wireVars, stray, abandoned, callVars, pc, ctxDone, timer, result, written>>

-----------------------------------------------------------------------------
(* The server and the socket *)

\* The server answers the oldest request.
Answer ==
  /\ link /\ requests # <<>>
  /\ LET r == Head(requests)
     IN replies' = Append(replies, [id |-> r.id, type |-> r.type, kind |-> "reply"])
  /\ requests' = Tail(requests)
  /\ UNCHANGED <<mu, open, link, restores, expired, stray, abandoned, callVars, late,
                 pc, ctxDone, timer, result, written>>

\* The link breaks, with or without a BYE; what arrived can still be read.
LinkBreaks ==
  /\ open /\ link
  /\ link' = FALSE
  /\ requests' = <<>>
  /\ \E bye \in {<<>>, <<[id |-> 0, type |-> "transact", kind |-> "bye"]>>} :
       replies' = replies \o bye
  /\ UNCHANGED <<mu, open, restores, expired, stray, abandoned, callVars, late, pc,
                 ctxDone, timer, result, written>>

\* Restore succeeds with a new socket, which no abandoned reply can reach; a failed
\* one changes nothing.
Restore ==
  /\ mu = {}
  /\ restores < MaxRestores
  /\ restores' = restores + 1
  /\ open' = TRUE /\ link' = TRUE /\ expired' = FALSE
  /\ requests' = <<>> /\ replies' = <<>> /\ stray' = 0
  /\ abandoned' = <<>>
  /\ UNCHANGED <<mu, callVars, late, pc, ctxDone, timer, result, written>>

\* Close, and Logout, which writes a request nobody answers first.
CloseConn ==
  /\ mu = {} /\ open
  /\ open' = FALSE /\ link' = FALSE
  /\ requests' = <<>> /\ replies' = <<>> /\ stray' = 0
  /\ UNCHANGED <<mu, restores, expired, abandoned, callVars, late, pc, ctxDone, timer, result,
                 written>>

Exchange(c) ==
  \/ EnterClosed(c) \/ Enter(c) \/ Write(c) \/ WriteFails(c)
  \/ ReadStale(c) \/ ReadReply(c) \/ ReadFails(c)

SessionNext ==
  \/ \E c \in Caller : \/ \E t \in RequestType : Call(c, t)
                       \/ Exchange(c) \/ CancelCtx(c) \/ Fire(c) \/ Timeout(c)
  \/ StrayDeadline
  \/ Answer \/ LinkBreaks \/ Restore \/ CloseConn

SessionSpec == SessionInit /\ [][SessionNext]_sessionVars

-----------------------------------------------------------------------------
(* Properties *)

\* A reply is returned to the call that asked for it: an order's number never
\* goes to another order ("first skipping the replies of abandoned requests").
AnswerOwn ==
  \A c \in Caller : result[c].kind = "reply" => result[c].answered = result[c].id

\* So it is as long as every exchange has ended with a reply, a broken link or
\* its own cancelled context, with no timeout and no deadline of another one.
AnswerOwnUntilLate == late = 0 => AnswerOwn

\* The abandoned types are then those of the replies still to come, in order,
\* while the link works and nobody is reading.
Types(s) == [k \in 1..Len(s) |-> s[k].type]
BacklogKnown ==
  late = 0 /\ open /\ link /\ (\A c \in mu : pc[c] = "write") =>
    abandoned = Types(replies) \o Types(requests)

\* Both: what is still to come is known, so no reply goes to another request.
RepliesApart == AnswerOwnUntilLate /\ BacklogKnown

\* A transaction that returns an ordinary error never left the process, so it
\* may be sent again ("errors before the write are ordinary").
OrdinaryUnsent ==
  \A c \in Caller :
    result[c].kind = "ordinary" /\ result[c].type = "transact" => result[c].id \notin written

\* A caller knows what became of its exchange: the reply it gets is its own,
\* and an error that is no unknown outcome means nothing was sent.
ExchangesApart == RepliesApart /\ OrdinaryUnsent

=============================================================================
