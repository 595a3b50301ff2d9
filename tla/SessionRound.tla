----------------------------- MODULE SessionRound -----------------------------
(***************************************************************************)
(* SessionManager as an implementation of SaveRound.  Interaction is part  *)
(* of saving: the client that interacts and those that wait for their turn *)
(* hold the round up.                                                      *)
(***************************************************************************)
EXTENDS SessionManager

Stage ==
  CASE mgr = "IDLE"           -> "idle"
    [] mgr = "CHECKPOINT"     -> "checkpoint"
    [] mgr = "SHUTDOWN"       -> "shutdown"
    [] mgr = "SHUTDOWNPHASE2" -> "dying"
    [] mgr = "QUIT"           -> "ended"
    [] OTHER                  -> "undefined"

Saving ==
  {c \in Clients : cstate[c] \in {"SAVING", "WAITFORINTERACT", "INTERACTING"}}

Waiting == {c \in Clients : cstate[c] = "WAITFORPHASE2"}

Round == INSTANCE SaveRound WITH
  stage <- Stage, saving <- Saving, waiting <- Waiting,
  written <- stored.group

\* Every history of the session manager is one of SaveRound: whichever handler
\* changes the state of a client, in whatever order messages, timeouts, lost
\* connections, late requests and dialog answers come, the round is neither
\* finished nor stored before everybody is through with it, nor left waiting
\* for nobody.
RoundIsImplemented == Round!Spec
=============================================================================
