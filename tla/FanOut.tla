------------------------------- MODULE FanOut -------------------------------
(***************************************************************************)
(* What server.broker promises its subscribers, without queues, locks or   *)
(* goroutines: every stream is handed, one by one and in order, the        *)
(* messages published after it joined, with no gap.  A stream may end at   *)
(* any moment, and then it is handed nothing more; joining after the       *)
(* broker has closed is joining a stream that gets nothing.                *)
(***************************************************************************)
EXTENDS Naturals, Sequences

CONSTANTS Handler,        \* the streams that may join
          MaxPublished    \* bound on the number of published messages

VARIABLES published,      \* number of messages published so far
          joined,         \* published when the stream joined, or None
          handed          \* the messages the stream was handed, in order

fvars == <<published, joined, handed>>

None == MaxPublished + 1

Init == /\ published = 0
        /\ joined = [h \in Handler |-> None]
        /\ handed = [h \in Handler |-> <<>>]

Publish == /\ published < MaxPublished
           /\ published' = published + 1
           /\ UNCHANGED <<joined, handed>>

Join(h) == /\ joined[h] = None
           /\ joined' = [joined EXCEPT ![h] = published]
           /\ UNCHANGED <<published, handed>>

\* The next message of the stream is the one right after the last it got.
Hand(h) == /\ joined[h] # None
           /\ joined[h] + Len(handed[h]) < published
           /\ handed' = [handed EXCEPT ![h] = Append(@, joined[h] + Len(@) + 1)]
           /\ UNCHANGED <<published, joined>>

Next == Publish \/ \E h \in Handler : Join(h) \/ Hand(h)

Spec == Init /\ [][Next]_fvars
=============================================================================
