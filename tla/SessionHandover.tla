---------------------------- MODULE SessionHandover ----------------------------
(***************************************************************************)
(* How the start-up hands the session over.  SessionStartup and            *)
(* SessionManager are two views of one daemon, and share what is starting, *)
(* parked or owned by a client, the restart hints and the attempts.  The   *)
(* programs of the session are seen here as D-Bus clients, which register  *)
(* without a connection of their own.                                      *)
(***************************************************************************)
EXTENDS SessionStartup

\* The programs whose XfsmProperties exist, and what SessionManager sees of
\* clients and properties.
Owned == pending \cup starting \cup parked \cup clients

ClientsSeen == [p \in Programs |-> IF p \in clients THEN "IDLE" ELSE "GONE"]
PropsSeen == [p \in Programs |-> IF p \in Owned THEN hint[p] ELSE "none"]
AttemptsSeen == [p \in Programs |-> IF p \in Owned THEN attempts[p] ELSE 0]

Manager == INSTANCE SessionManager WITH
  XsmpClients <- {}, DBusClients <- Programs, XTerms <- {},
  Stoppable <- Programs,
  Types <- {"logout"}, Wayland <- TRUE, Bus <- "bus",
  cstate <- ClientsSeen, props <- PropsSeen, attempts <- AttemptsSeen,
  restartProps <- parked,
  saveTimer <- {}, dieTimer <- FALSE,
  killTimer <- [held |-> {}, lost |-> {}, stray |-> FALSE],
  saveSession <- TRUE, checkpointName <- FALSE, shutdownType <- "logout",
  idleReq <- {}, dialog <- {},
  sent <- [p \in Programs |-> "none"],
  stored <- [group |-> "none", ids |-> {}]

\* The end of the start-up is the beginning of SessionManager: when the manager
\* becomes idle, what it has is what RestoredSpec starts from, and every later
\* timeout, exit, registration or loss of a program of the session is a step of
\* SessionManager or does not concern it.  Nothing of the start-up survives
\* that SessionManager does not know of: no pending entry, no start-up timeout
\* that would go on to a next group, no count of failsafe clients.
ManagerTakesOver ==
  [][/\ mgr # "IDLE" /\ mgr' = "IDLE" => Manager!HandedOver'
     /\ mgr = "IDLE" => Manager!Next \/ UNCHANGED Manager!vars]_vars
=============================================================================
