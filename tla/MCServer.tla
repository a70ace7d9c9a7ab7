------------------------------ MODULE MCServer ------------------------------
(***************************************************************************)
(* Broker.tla and Server.tla for TLC.  A behaviour has either the broker   *)
(* with every order of publications and shutdown, or the broker inside a   *)
(* server, where fewer messages are published.                             *)
(***************************************************************************)
EXTENDS Server

CONSTANT ServerPublishes \* bound on the messages published inside a server

\* A value of serve that no step of the server starts from.
Alone == serve = "alone"

MCInit ==
  \/ ServerInit
  \/ /\ Init
     /\ serve = "alone" /\ interrupted = FALSE /\ accepting = FALSE
     /\ grpcServe = "running" /\ graceful = "no" /\ native = "new" /\ timedOut = FALSE

MCNext ==
  \/ Alone /\ Next /\ UNCHANGED serverVars
  \/ ~Alone /\ ServerNext /\ published' <= ServerPublishes

MCSpec == MCInit /\ [][MCNext]_allVars /\ ServerFairness
=============================================================================
