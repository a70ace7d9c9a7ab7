----------------------------- MODULE Recording -----------------------------
(***************************************************************************)
(* cmd/md-recorder and terminal/recorder: the order book of one symbol on  *)
(* its way from the exchange into md.book_events, and out of it again into *)
(* the book lobreplay rebuilds.                                            *)
(*                                                                         *)
(* The exchange is external: it queues a full image of the book when the   *)
(* symbol is subscribed, and the levels that change, until they are        *)
(* polled; it keeps a session for a while when the link breaks, and a      *)
(* reply that was under way then is lost.  Trades and news are left out;   *)
(* row numbers order rows as they are written.                             *)
(***************************************************************************)
EXTENDS LobBook, Sequences, FiniteSets, SequencesExt

CONSTANTS MaxChanges,  \* bound on the changes of the exchange's book
          MaxSessions, \* bound on the sessions opened
          MaxLosses    \* bound on the links lost

VARIABLES market,   \* the exchange's book
          changes,  \* how often it changed
          outbox,   \* replies the exchange holds for the session
          main,     \* where md-recorder is
          sessions, \* sessions opened; the current one's id
          losses,   \* links lost
          pending,  \* recorder.pending of the symbol
          rows,     \* rows in the table and not yet replayed
          replay,   \* the book lobreplay rebuilds
          interrupted \* SIGINT or SIGTERM

VARIABLES seen,   \* history: the exchange's book at the last reply recorded
          imaged, \* history: a full image was recorded since the last break
          marked, \* history: the last row written is a gap, or there is none
          joined  \* history: since the last gap two sessions met without one

recordingVars == <<market, changes, outbox, main, sessions, losses, pending, rows, replay,
                   interrupted, seen, imaged, marked, joined>>

ASSUME RecordingAssumption ==
  /\ MaxChanges \in Nat /\ MaxSessions \in Nat /\ MaxLosses \in Nat /\ MaxQty \in Nat
  /\ IsFiniteSet(Level)

Reply == [full : BOOLEAN, levels : UNION {[S -> 0..MaxQty] : S \in SUBSET Level}, market : Quantities]
Row == [kind : {"snapshot", "level"}, level : Level, qty : 0..MaxQty] \cup [kind : {"gap"}]

RecordingTypeOK ==
  /\ market \in Quantities /\ seen \in Quantities
  /\ outbox \in Seq(Reply)
  /\ main \in {"pause", "polling", "recover", "stopped"}
  /\ rows \in Seq(Row)
  /\ replay \in Book
  /\ {pending, imaged, marked, joined} \subseteq BOOLEAN

RecordingInit ==
  /\ market \in Quantities /\ changes = 0 /\ outbox = <<>>
  /\ main = "pause" /\ sessions = 0 /\ losses = 0 /\ pending = TRUE
  /\ rows = <<>> /\ replay = EmptyBook
  /\ interrupted = FALSE
  /\ seen = NoLevels /\ imaged = FALSE /\ marked = TRUE /\ joined = FALSE

-----------------------------------------------------------------------------
(* The exchange *)

Present(q) == {l \in Level : q[l] # 0}
FullImage == [full |-> TRUE, levels |-> [l \in Present(market) |-> market[l]], market |-> market]

\* A level changes; a session that is subscribed is told.
MarketMoves ==
  /\ changes < MaxChanges
  /\ changes' = changes + 1
  /\ \E l \in Level, q \in 0..MaxQty :
       /\ q # market[l]
       /\ market' = [market EXCEPT ![l] = q]
       /\ outbox' = IF main \in {"polling", "recover"}
                      THEN Append(outbox, [full |-> FALSE, levels |-> [x \in {l} |-> q], market |-> market'])
                      ELSE outbox
  /\ UNCHANGED <<main, sessions, losses, pending, rows, replay, interrupted, seen, imaged, marked, joined>>

-----------------------------------------------------------------------------
(* The recorder *)

KindOfCallback == IF pending THEN "snapshot" ELSE "level"

\* quotesEvents: a row for each level of the callback.
RowsOf(reply) ==
  LET ls == SetToSeq(DOMAIN reply.levels)
  IN  [i \in 1..Len(ls) |-> [kind |-> KindOfCallback, level |-> ls[i], qty |-> reply.levels[ls[i]]]]

\* Why a session ends decides whether md-recorder opens another one: an error
\* that is, or wraps, a deadline ends the command.
EndSession(deadline) == main' = IF deadline THEN "stopped" ELSE "pause"

\* recordSession: dial, then subscribe; the exchange answers with an image.  A
\* dial that fails only leads to the next pause.
Dial ==
  /\ main = "pause" /\ ~interrupted
  /\ sessions < MaxSessions
  /\ sessions' = sessions + 1
  /\ pending' = TRUE /\ imaged' = FALSE
  /\ outbox' = <<FullImage>>
  /\ main' = "polling"
  /\ joined' = (joined \/ ~marked)
  /\ UNCHANGED <<market, changes, losses, rows, replay, interrupted, seen, marked>>

\* handle: the rows of a reply are inserted; an empty image leaves the symbol
\* pending.
Poll ==
  /\ main = "polling" /\ ~interrupted
  /\ outbox # <<>>
  /\ LET reply == Head(outbox)
     IN  /\ rows' = rows \o RowsOf(reply)
         /\ pending' = (pending /\ DOMAIN reply.levels = {})
         /\ seen' = reply.market
         /\ imaged' = (imaged \/ reply.full)
         /\ marked' = (marked /\ DOMAIN reply.levels = {})
  /\ outbox' = Tail(outbox)
  /\ UNCHANGED <<market, changes, main, sessions, losses, replay, interrupted, joined>>

\* An insert fails, or a reply makes no sense, and the session ends; the
\* timeout of an insert is a deadline.
PollFails ==
  /\ main = "polling"
  /\ \E deadline \in BOOLEAN : EndSession(deadline)
  /\ outbox' = <<>>
  /\ UNCHANGED <<market, changes, sessions, losses, pending, rows, replay, interrupted, seen, imaged, marked, joined>>

\* Faulty: a break leaves no row.
GapRowsNone == <<>>

\* gapEvents
GapRows == <<[kind |-> "gap"]>>

\* The link breaks, maybe with a reply under way, and the client reports it
\* before it tries to recover.
LinkLost ==
  /\ main = "polling" /\ ~interrupted
  /\ losses < MaxLosses
  /\ losses' = losses + 1
  /\ outbox' \in {outbox} \cup (IF outbox # <<>> THEN {Tail(outbox)} ELSE {})
  /\ rows' = rows \o GapRows
  /\ pending' = TRUE /\ imaged' = FALSE
  /\ marked' = TRUE /\ joined' = FALSE
  /\ main' = "recover"
  /\ UNCHANGED <<market, changes, sessions, replay, interrupted, seen>>

\* The session is restored and the recorder subscribes again.
Recover ==
  /\ main = "recover"
  /\ outbox' = Append(outbox, FullImage)
  /\ main' = "polling"
  /\ UNCHANGED <<market, changes, sessions, losses, pending, rows, replay, interrupted, seen, imaged, marked, joined>>

\* The window expires, or the exchange refuses: the error wraps that of the
\* last attempt, which may have run into its own deadline.
RecoverFails ==
  /\ main = "recover"
  /\ \E deadline \in BOOLEAN : EndSession(deadline)
  /\ outbox' = <<>>
  /\ UNCHANGED <<market, changes, sessions, losses, pending, rows, replay, interrupted, seen, imaged, marked, joined>>

\* The process dies and is started again.
Restart ==
  /\ main \in {"polling", "recover"}
  /\ main' = "pause"
  /\ outbox' = <<>>
  /\ UNCHANGED <<market, changes, sessions, losses, pending, rows, replay, interrupted, seen, imaged, marked, joined>>

Interrupt ==
  /\ ~interrupted
  /\ interrupted' = TRUE
  /\ UNCHANGED <<market, changes, outbox, main, sessions, losses, pending, rows, replay, seen, imaged, marked, joined>>

\* The context is seen in Run, in a recovery, or in main's pause.
StopRecording ==
  /\ interrupted /\ main # "stopped"
  /\ main' = "stopped"
  /\ UNCHANGED <<market, changes, outbox, sessions, losses, pending, rows, replay, interrupted, seen, imaged, marked, joined>>

\* lobreplay reads the next row.
ReplayRow ==
  /\ rows # <<>>
  /\ replay' = Apply(replay, Head(rows))
  /\ rows' = Tail(rows)
  /\ UNCHANGED <<market, changes, outbox, main, sessions, losses, pending, interrupted, seen, imaged, marked, joined>>

RecordingNext ==
  \/ MarketMoves \/ Dial \/ Poll \/ PollFails \/ LinkLost \/ Recover \/ RecoverFails
  \/ Restart \/ Interrupt \/ StopRecording \/ ReplayRow

RecordingSpec == RecordingInit /\ [][RecordingNext]_recordingVars

-----------------------------------------------------------------------------
(* Properties *)

Replayed == rows = <<>> /\ main \in {"polling", "recover"}

\* What lobreplay rebuilds from the rows is the exchange's book, whatever was
\* lost with a link: a level is absent or as it was at the last reply
\* recorded, and once an image arrived all of them are there.  Only the rows of
\* two sessions between which no gap row was written may be joined, until the
\* next gap.
Rebuilt ==
  Replayed /\ ~joined =>
    /\ \A l \in Present(replay.levels) : replay.levels[l] = seen[l]
    /\ imaged => replay.levels = seen

=============================================================================
