------------------------------- MODULE LobBook -------------------------------
(***************************************************************************)
(* terminal/lobreplay: the order book rebuilt from recorded rows.  A book  *)
(* is the quantity at each level, 0 where there is none, together with     *)
(* whether a run of snapshot rows is being read.                           *)
(***************************************************************************)
EXTENDS Naturals, FiniteSets

CONSTANTS Level, \* a side and a price
          MaxQty \* bound on a level's quantity

ASSUME LevelAssumption == Level \subseteq {"bid", "ask"} \X Nat /\ IsFiniteSet(Level) /\ MaxQty \in Nat

Quantities == [Level -> 0..MaxQty]
NoLevels == [l \in Level |-> 0]

Book == [levels : Quantities, inSnapshot : BOOLEAN]
EmptyBook == [levels |-> NoLevels, inSnapshot |-> FALSE]

SetLevel(levels, row) == [levels EXCEPT ![row.level] = row.qty]

\* Faulty: each row of a snapshot starts the book anew.
ApplySnapshotAnew(book, row) ==
  [levels |-> SetLevel(NoLevels, row), inSnapshot |-> TRUE]

\* The first row of a run of snapshot rows resets the book.
ApplySnapshot(book, row) ==
  [levels |-> SetLevel(IF book.inSnapshot THEN book.levels ELSE NoLevels, row), inSnapshot |-> TRUE]

ApplyLevel(book, row) == [levels |-> SetLevel(book.levels, row), inSnapshot |-> FALSE]

\* A gap drops every level: those before it are never joined with those after.
ApplyGap(book, row) == EmptyBook

ApplyTrade(book, row) == [book EXCEPT !.inSnapshot = FALSE]

Apply(book, row) ==
  CASE row.kind = "snapshot" -> ApplySnapshot(book, row)
    [] row.kind = "level"    -> ApplyLevel(book, row)
    [] row.kind = "gap"      -> ApplyGap(book, row)
    [] row.kind = "trade"    -> ApplyTrade(book, row)
=============================================================================
