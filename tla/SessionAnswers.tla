---------------------------- MODULE SessionAnswers ----------------------------
(***************************************************************************)
(* SessionManager with XSMP clients that keep to the protocol as those of  *)
(* xfce-sm-client.c do: a client sends SaveYourselfDone once for a         *)
(* SaveYourself, asks for the user or for phase 2 before that, and then    *)
(* waits until it is told to go on.                                        *)
(***************************************************************************)
EXTENDS SessionClaims

\* sm_client->state as far as it decides what may be sent: "idle" stands for
\* frozen and disconnected too.
VARIABLE doing

SaveRequests == {"SaveYourselfLocal", "SaveYourself", "SaveYourselfShutdown"}

\* What a client may send, by what it is doing.  The only save it requests
\* itself is a shutdown; it registers as it opens the connection, and closes it
\* later.
InTurn(c) ==
  /\ CloseRequest(c) => cstate[c] # "CONNECTED"
  /\ SaveYourself(c) => doing[c] = "idle" /\ SaveYourselfOfSession(c, TRUE, FALSE)
  /\ SaveYourselfDone(c) \/ SaveYourselfPhase2(c) \/ InteractRequest(c)
       => doing[c] = "saving"
  /\ (\E cancel \in BOOLEAN : InteractDone(c, cancel)) => doing[c] = "interacting"

\* What the messages it gets and sends lead to.  A cancelled client answers the
\* save it waits with; SaveComplete does not overtake an answer on its way.
NextDoing(c) ==
  CASE cstate'[c] = "GONE" -> "idle"
    [] sent'[c] \in SaveRequests \cup {"SaveYourselfPhase2", "ShutdownCancelled"}
         -> "saving"
    [] sent'[c] = "Interact" -> "interacting"
    [] OTHER ->
         IF SaveYourselfDone(c) THEN "idle"
         ELSE IF SaveYourselfPhase2(c) \/ InteractRequest(c) THEN "waiting"
         ELSE IF \E cancel \in BOOLEAN : InteractDone(c, cancel) THEN "saving"
         ELSE doing[c]

AnsweringNext ==
  /\ Next
  /\ \A c \in XsmpClients : InTurn(c)
  /\ doing' = [c \in XsmpClients |-> NextDoing(c)]

AnsweringSpec ==
  /\ Init
  /\ doing = [c \in XsmpClients |-> "idle"]
  /\ [][AnsweringNext]_<<vars, doing>>
=============================================================================
