-------------------------- MODULE InterceptContract --------------------------
(***************************************************************************)
(* What every protocol interception engine of g3proxy promises for one     *)
(* connection (the intercept() entry point of an engine object): the       *)
(* inspect action is chosen once, the path that runs takes the four IO     *)
(* handles out of the object exactly once and hands the upstream write     *)
(* half on (to a relay or handshake, or to a spawned shutdown), the path   *)
(* concludes with a success or an error, and exactly one log event for    *)
(* that conclusion is emitted afterwards.                                  *)
(*                                                                         *)
(* This is the abstract specification the engine modules are checked      *)
(* against through a refinement mapping; it is not an implementation.      *)
(***************************************************************************)
EXTENDS Naturals

CONSTANT Actions   \* the inspect actions the policy may choose

VARIABLES
    action,   \* the chosen inspect action
    stage,    \* "Dispatch", "Run", "Concluded" or "Logged"
    takes,    \* how often the IO handles were taken out of the object
    ups,      \* the upstream write half: "Held" or "Released"
    outcome,  \* "None", "Ok" or "Err": what the path concluded with
    logs      \* log events emitted for the connection

vars == <<action, stage, takes, ups, outcome, logs>>

Init ==
    /\ action \in Actions
    /\ stage = "Dispatch"
    /\ takes = 0
    /\ ups = "Held"
    /\ outcome = "None"
    /\ logs = 0

\* intercept() dispatches on the chosen action.
Choose ==
    /\ stage = "Dispatch"
    /\ stage' = "Run"
    /\ UNCHANGED <<action, takes, ups, outcome, logs>>

\* The path takes the IO handles and hands the upstream write half on; it
\* may conclude in the same step.
Take ==
    /\ stage = "Run"
    /\ takes = 0
    /\ takes' = 1
    /\ ups' = "Released"
    /\ \/ UNCHANGED <<stage, outcome>>
       \/ stage' = "Concluded" /\ outcome' \in {"Ok", "Err"}
    /\ UNCHANGED <<action, logs>>

\* The path concludes after it took the IO.
Conclude ==
    /\ stage = "Run"
    /\ takes = 1
    /\ stage' = "Concluded"
    /\ outcome' \in {"Ok", "Err"}
    /\ UNCHANGED <<action, takes, ups, logs>>

\* The one log event of the connection, after the conclusion, with the
\* upstream write half no longer held.
Log ==
    /\ stage = "Concluded"
    /\ ups = "Released"
    /\ stage' = "Logged"
    /\ logs' = logs + 1
    /\ UNCHANGED <<action, takes, ups, outcome>>

Next == Choose \/ Take \/ Conclude \/ Log

Spec == Init /\ [][Next]_vars

=============================================================================
