---------------------------- MODULE FlaggedService ----------------------------
(* What the manager relies on: a service that tells, in a variable of the        *)
(* environment shared by the boards, whether it is working on a request.         *)
(* FredManager polls these variables; ResetFEE and TcmConfigurations maintain    *)
(* them, each at the same two places of its processExecution.                    *)
VARIABLES
  flag,    \* the environment variable, 0 or 1
  phase    \* what the service is doing

flagVars == <<flag, phase>>

Phases == {"returned", "preparing", "waiting", "serving"}

\* A service starts, and returns from every processExecution, in "returned".
Init ==
  /\ flag = 0
  /\ phase = "returned"

\* FRED calls processExecution again: the flag is lowered before anything else.
\* The service may have something to prepare before it waits.
Begin ==
  /\ phase = "returned"
  /\ flag' = 0
  /\ phase' \in {"preparing", "waiting"}

\* The preparation is over.
Ready ==
  /\ phase = "preparing"
  /\ phase' = "waiting"
  /\ UNCHANGED flag

\* A request arrives: the flag is raised.
Take ==
  /\ phase = "waiting"
  /\ flag' = 1
  /\ phase' = "serving"

\* The request has been answered, whatever the answer.
Return ==
  /\ phase = "serving"
  /\ phase' = "returned"
  /\ UNCHANGED flag

Next == Begin \/ Ready \/ Take \/ Return

Spec == Init /\ [][Next]_flagVars
===============================================================================
