--------------------------- MODULE StatsdRegistries ---------------------------
(***************************************************************************)
(* The two configuration registries of g3statsd side by side: the runtime  *)
(* importer registry (ImporterRegistry) and the collect config registry    *)
(* (CollectConfigRegistry).  The daemon's reload requests reach them one   *)
(* at a time, each through its own Mutex, and they share no state, so the  *)
(* composition interleaves their steps; one run checks both.               *)
(***************************************************************************)
EXTENDS ImporterRegistry, CollectConfigRegistry

allVars == <<vars, cvars>>

SInit == Init /\ CInit

SNext ==
    \/ Next /\ UNCHANGED cvars
    \/ CNext /\ UNCHANGED vars

SSpec == SInit /\ [][SNext]_allVars

====
