---------------------------- MODULE KeymessDaemon ----------------------------
(***************************************************************************)
(* g3keymess as a whole: the keyless request dispatcher (KeymessDispatch)  *)
(* and the process registration task (KeymessRegister) run side by side in *)
(* one process and share no state; their steps interleave.                 *)
(***************************************************************************)
EXTENDS KeymessDispatch, KeymessRegister

allVars == <<vars, rvars>>

DInit == Init /\ RInit

DNext ==
    \/ Next /\ UNCHANGED rvars
    \/ RNext /\ UNCHANGED vars

\* The registration task's sleeps end and it is polled, and an upstream
\* that is down comes back; the dispatcher needs no fairness for the
\* properties checked of it.
\* The type of the daemon's state: the dispatcher's and the registration
\* task's, whose retry count stays within startup_retry.
DTypeOK == TypeOK /\ RTypeOK

DSpec == DInit /\ [][DNext]_allVars
         /\ WF_allVars(RegisterStep /\ UNCHANGED vars)
         /\ WF_allVars(UpstreamUp /\ UNCHANGED vars)

=============================================================================
