-------------------------- MODULE MCSessionManager --------------------------
(* Small instances of SessionManager for TLC. *)
EXTENDS SessionClaims, SessionRound, TLC

Symmetry == Permutations(XsmpClients)

\* Views.  What a step emits and writes is never read again, and the name of a
\* checkpoint only decides the group that is written; whether a shutdown saves
\* only decides whether anything is.  States that differ in these alone are one,
\* in runs whose properties do not look at them in the first state of a step.
WithoutOutput == <<mgr, clientVars, dieTimer, propVars, saveSession, reqVars>>
WithoutStore == <<mgr, clientVars, dieTimer, propVars, reqVars>>
=============================================================================
