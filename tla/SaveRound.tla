------------------------------ MODULE SaveRound ------------------------------
(***************************************************************************)
(* What a save of the session promises, without messages, dialogs, timers  *)
(* and kinds of clients: some clients are saving; one may be held back     *)
(* until all the others are through with the first phase; when nobody is   *)
(* left the round ends, and only then may it be written to the sessions    *)
(* file and, if it was a shutdown, may the clients be told to die.         *)
(* SessionManager implements it (SessionRound).                            *)
(***************************************************************************)
CONSTANT Clients

VARIABLES
  stage,    \* where the session manager is
  saving,   \* clients the round waits for
  waiting,  \* clients held back until phase 2
  written   \* what the last step wrote to the sessions file

vars == <<stage, saving, waiting, written>>

Stages == {"idle", "checkpoint", "shutdown", "dying", "ended", "undefined"}

TypeOK ==
  /\ stage \in Stages
  /\ saving \subseteq Clients
  /\ waiting \subseteq Clients
  /\ written \in {"none", "session", "checkpoint"}

Init ==
  /\ stage = "idle"
  /\ saving = {}
  /\ waiting = {}
  /\ written = "none"

InRound == stage \in {"checkpoint", "shutdown"}

\* A save is asked of the clients in S, on top of whatever is going on.  A
\* shutdown may also end the session there and then.
Begin(kind, S) ==
  /\ stage \in {"idle", "checkpoint", "shutdown", "dying"}
  /\ stage' = kind
  /\ saving' = saving \cup S
  /\ waiting' = waiting \ S
  /\ written' = "none"

\* The end of a round.  Only a checkpoint has a name of its own.
Finish ==
  /\ saving' = {} /\ waiting' = {}
  /\ \/ /\ stage = "checkpoint"
        /\ stage' \in {"idle", "undefined"}
        /\ written' \in {"none", "session", "checkpoint"}
     \/ /\ stage = "shutdown"
        /\ stage' \in {"dying", "ended", "undefined"}
        /\ written' \in {"none", "session"}

\* The round goes on with S saving and W held back: if nobody is saving, phase
\* 2 begins for all who are held back, and if there is none the round is over.
GoOn(S, W) ==
  \/ /\ S # {}
     /\ saving' = S /\ waiting' = W
     /\ stage' = stage /\ written' = "none"
  \/ /\ S = {} /\ W # {}
     /\ saving' = W /\ waiting' = {}
     /\ stage' = stage /\ written' = "none"
  \/ /\ S = {} /\ W = {}
     /\ Finish

\* A client has answered or is gone, be it one the round waits for or not.
Through(c) == InRound /\ GoOn(saving \ {c}, waiting \ {c})

\* A client asks for phase 2.
HoldBack(c) == InRound /\ GoOn(saving \ {c}, waiting \cup {c})

\* A shutdown is cancelled: the round is finished as a checkpoint.
Cancel ==
  /\ stage = "shutdown" /\ stage' = "checkpoint"
  /\ written' = "none"
  /\ UNCHANGED <<saving, waiting>>

\* The session ends when the last client has left or the time of the die phase
\* is up: the timer runs on if a late request begins one more save.
End ==
  /\ stage \in {"idle", "checkpoint", "shutdown", "dying"}
  /\ stage' = "ended"
  /\ written' = "none"
  /\ UNCHANGED <<saving, waiting>>

\* Undefined behaviour of the code.
Break ==
  /\ stage' = "undefined"
  /\ written' = "none"
  /\ UNCHANGED <<saving, waiting>>

\* Everything else leaves the round alone.
Other ==
  /\ written' = "none"
  /\ UNCHANGED <<stage, saving, waiting>>

Next ==
  \/ Other \/ Cancel \/ End \/ Break
  \/ \E c \in Clients : Through(c) \/ HoldBack(c)
  \/ \E kind \in {"checkpoint", "shutdown", "ended"}, S \in SUBSET Clients :
       Begin(kind, S)

Spec == Init /\ [][Next]_vars
=============================================================================
