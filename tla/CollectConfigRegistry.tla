------------------------- MODULE CollectConfigRegistry -------------------------
(***************************************************************************)
(* The collect configuration of g3statsd: load_all, load_at_position,      *)
(* load_collect and build_topology_map in                                  *)
(* src/g3statsd/src/config/collect/mod.rs.                                 *)
(*                                                                         *)
(* The config registry (registry.rs, not under src/) maps a name to a      *)
(* collect config; add returns the config it replaced.  A config is        *)
(* abstracted to what build_topology_map reads of it: the names its        *)
(* dependent_collecter returns.  TopoMap (in g3-daemon, not under src/)    *)
(* is taken to fail exactly when the dependency graph of the registered    *)
(* configs has a cycle, a dependency on an unregistered name being a       *)
(* leaf.  Each function runs to its end in one step: the reload that       *)
(* calls them is sequential.                                               *)
(***************************************************************************)
EXTENDS Naturals, FiniteSets, Functions, TLC

LOCAL INSTANCE Relation

CONSTANTS
    CollectNames,   \* collect names
    Types           \* the "type" values a document may carry

ASSUME Types \subseteq {"dummy", "internal", "unsupported"}

\* A YAML document at a position: its type, name and dependencies; a
\* document that is not a map is one of type "NotAMap".
Docs == [type : Types \cup {"NotAMap"}, name : CollectNames, deps : SUBSET CollectNames]

IsMap(doc) == doc.type # "NotAMap"

VARIABLES
    creg,       \* the config registry: registered name -> its dependencies
    cphase,     \* "Startup", "Running", or "Exit" after load_all failed
    cres        \* the result of the last load: "None", "Ok" or "Err"

cvars == <<creg, cphase, cres>>

\* The registry is empty before load_all.
CInit ==
    /\ creg = <<>>
    /\ cphase = "Startup"
    /\ cres = "None"

\* load_collect: the "type" key selects the parser; another type is Err.
LoadCollect(doc) == doc.type \in {"dummy", "internal"}

\* build_topology_map: add_node for every registered name, following
\* dependent_collecter of each registered config; Err on a loop.
DependsOn(r) ==
    [<<x, y>> \in CollectNames \X CollectNames |-> x \in DOMAIN r /\ y \in r[x]]
BuildTopologyMap(r) ==
    LET tc == TransitiveClosure(DependsOn(r), CollectNames)
    IN  \A n \in CollectNames : ~tc[n, n]

\* registry::add and registry::del, as a new registry.
RegAdd(r, doc) == (doc.name :> doc.deps) @@ r
RegDel(r, n) == Restrict(r, DOMAIN r \ {n})

\* load_all: every document of the collect list is parsed and added; a
\* document that is not a map or not parsed, or a name already added,
\* stops the load with Err, and so does a loop found by build_topology_map.
\* The daemon does not start on Err and the registry is not used again.
LoadAll ==
    /\ cphase = "Startup"
    /\ \E ds \in UNION {[1..k -> Docs] : k \in 0..2} :
          LET parsed == \A i \in DOMAIN ds : IsMap(ds[i]) /\ LoadCollect(ds[i])
              unique == \A i, j \in DOMAIN ds : i # j => ds[i].name # ds[j].name
              r == [n \in {ds[i].name : i \in DOMAIN ds} |->
                      ds[CHOOSE i \in DOMAIN ds : ds[i].name = n].deps]
          IN  IF parsed /\ unique /\ BuildTopologyMap(r)
                 THEN creg' = r /\ cphase' = "Running" /\ cres' = "Ok"
                 ELSE cphase' = "Exit" /\ cres' = "Err" /\ UNCHANGED creg

\* load_at_position with the rollback left out.
LoadAtPositionNoRollback(doc) ==
    /\ cphase = "Running"
    /\ IF ~IsMap(doc) \/ ~LoadCollect(doc)
          THEN cres' = "Err" /\ UNCHANGED creg
          ELSE /\ creg' = RegAdd(creg, doc)
               /\ cres' = IF BuildTopologyMap(RegAdd(creg, doc)) THEN "Ok" ELSE "Err"
    /\ UNCHANGED cphase

\* load_at_position whose rollback deletes the name whatever add returned.
LoadAtPositionDelOnly(doc) ==
    /\ cphase = "Running"
    /\ IF ~IsMap(doc) \/ ~LoadCollect(doc)
          THEN cres' = "Err" /\ UNCHANGED creg
          ELSE LET added == RegAdd(creg, doc) IN
               IF BuildTopologyMap(added)
                  THEN creg' = added /\ cres' = "Ok"
                  ELSE creg' = RegDel(added, doc.name) /\ cres' = "Err"
    /\ UNCHANGED cphase

\* load_at_position: load_doc must give a map, load_collect must parse it;
\* add it, keeping the config it replaced; if build_topology_map fails,
\* roll back (add the old config again, or del the name when there was
\* none) and return the error.
LoadAtPosition(doc) ==
    /\ cphase = "Running"
    /\ IF ~IsMap(doc) \/ ~LoadCollect(doc)
          THEN cres' = "Err" /\ UNCHANGED creg
          ELSE LET added == RegAdd(creg, doc) IN
                   IF BuildTopologyMap(added)
                      THEN creg' = added /\ cres' = "Ok"
                      ELSE /\ creg' = IF doc.name \in DOMAIN creg
                                         THEN (doc.name :> creg[doc.name]) @@ added
                                         ELSE RegDel(added, doc.name)
                           /\ cres' = "Err"
    /\ UNCHANGED cphase

\* The daemon exited after a failed load_all.
Exited ==
    /\ cphase = "Exit"
    /\ UNCHANGED cvars

CNext ==
    \/ LoadAll
    \/ \E doc \in Docs : LoadAtPosition(doc)
    \/ Exited

CSpec == CInit /\ [][CNext]_cvars

-----------------------------------------------------------------------------

\* Whenever the daemon runs, the collect configs it holds have no
\* dependency loop: load_all refuses to start on one, and a reload that
\* would close one (possibly only together with configs loaded by earlier
\* reloads) is rolled back by load_at_position.
NoDependencyLoop == cphase = "Running" => BuildTopologyMap(creg)

\* A load_at_position that returns Err leaves the registry as it was: the
\* rollback puts back the config add replaced, or deletes the name add
\* inserted, so a failed reload of an existing collect loses nothing.
FailedReloadKeepsRegistry ==
    [][cphase = "Running" /\ cres' = "Err" => creg' = creg]_cvars

====
