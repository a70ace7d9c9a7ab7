----------------------------- MODULE MCTerminal -----------------------------
(***************************************************************************)
(* The terminal's event streams with its shutdown, and the chats with the  *)
(* model, for TLC.  They share no state; in a behaviour one of them is at  *)
(* work and the other is over.                                             *)
(***************************************************************************)
EXTENDS Terminal, Chat

TerminalOver ==
  /\ account = MaxAccount
  /\ hub = {} /\ queue = [b \in Browser |-> <<>>]
  /\ stream = [b \in Browser |-> "none"] /\ streams = [b \in Browser |-> MaxStreams]
  /\ hand = [b \in Browser |-> <<>>]
  /\ told = [b \in Browser |-> -1]
  /\ publisher = [p \in Publisher |-> "done"] /\ saw = [p \in Publisher |-> 0]
  /\ apiDone = TRUE /\ term = "exited" /\ signalled = TRUE
  /\ owed = [b \in Browser |-> -1]

ChatOver ==
  /\ entries = [d \in Dialog |-> <<>>] /\ lru = <<>>
  /\ chat = [t \in Talker |-> NoChat] /\ chats = MaxChats
  /\ bare = {}

VARIABLE atWork \* "terminal" or "chat"

MCInit ==
  \/ atWork = "terminal" /\ TerminalInit /\ ChatOver
  \/ atWork = "chat" /\ TerminalOver /\ ChatInit

MCNext ==
  /\ \/ atWork = "terminal" /\ TerminalNext /\ UNCHANGED chatVars
     \/ atWork = "chat" /\ ChatNext /\ UNCHANGED termVars
  /\ UNCHANGED atWork

MCSpec ==
  /\ MCInit /\ [][MCNext]_<<termVars, chatVars, atWork>>
  /\ TerminalFairness /\ ChatFairness
=============================================================================
