---------------------------- MODULE SessionClaims ----------------------------
(***************************************************************************)
(* What the D-Bus interface descriptions and the comments of xfce4-session *)
(* say of the session manager, and the code does not do.  Each formula is  *)
(* refuted by the run named in the README; the counterexample shows the    *)
(* sequence of calls in which code and text part.                          *)
(***************************************************************************)
EXTENDS SessionManager

\* xfsm-manager-dbus.xml on Checkpoint: "Instructs the session manager to save
\* state and save all client state, without ending the session."  A checkpoint
\* is completed by what a client does or fails to do: with no client to ask,
\* the manager stays in CHECKPOINT and refuses every later request.
CheckpointEnds == mgr = "CHECKPOINT" ~> mgr # "CHECKPOINT"

\* xfsm-client-dbus.xml on state 5: "Wait for Interact: the client is waiting
\* for the session manager to allow it to interact with the user."  The turn
\* is only passed on by an InteractDone: if the interacting client leaves, the
\* others wait for good.
WaitersAreServed ==
  \A c \in XsmpClients :
    cstate[c] = "WAITFORINTERACT" ~> cstate[c] # "WAITFORINTERACT" \/ ~Alive

\* xfsm-client-dbus.xml on CancelEndSession: "Emitted when QueryEndSession has
\* been canceled. Resume normal operation."  The signal is emitted on the
\* client that cancelled, not on the D-Bus clients that were queried.
CancelIsTold ==
  [][mgr = "SHUTDOWN" /\ mgr' = "CHECKPOINT" /\ UNCHANGED idleReq
     => \A d \in DBusClients :
          cstate[d] \in {"SAVING", "SAVEDONE"} =>
            sent'[d] = "CancelEndSession"]_vars

\* xfsm-manager.c: "send SAVE YOURSELF DONE, while not being in save mode.
\* Prepare to be nuked!"  The client is closed, and used after that.
NothingUsedAfterRelease == mgr # "UNDEFINED"

\* xfsm-client.c, in kill_hung_client: "XfsmClient *client = XFSM_CLIENT
\* (user_data);", a checked cast that asserts that the source still has the
\* client it was begun for.  A second Terminate puts the id of a new source over
\* that of the first, and the release of the client removes the second only.
KillTimersHaveClients == ~killTimer.stray
=============================================================================
