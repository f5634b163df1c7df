--------------------------- MODULE ImporterRegistry ---------------------------
(***************************************************************************)
(* The runtime importer registry of g3statsd: ImporterRegistry in          *)
(* src/g3statsd/src/import/registry.rs.                                    *)
(*                                                                         *)
(* The registry maps a name to an importer object (an ArcImporter).  A     *)
(* real importer drives a runtime: _start_runtime starts one,              *)
(* _abort_runtime stops the runtime of the object, and an object made by   *)
(* _reload_with_old_notifier drives the runtime of the object it was       *)
(* reloaded from.  A default (dummy) importer has no runtime.  Objects are *)
(* numbered in the order they are made; every public function takes the   *)
(* registry's Mutex, so each operation is one step.  The importer methods  *)
(* are not under src/; each may fail, which the registry reports as Err.   *)
(***************************************************************************)
EXTENDS Naturals, FiniteSets

CONSTANTS
    Names,      \* importer names
    MaxObjs     \* the most importer objects made in a behaviour

ASSUME MaxObjs \in Nat

Objs == 1..MaxObjs

Kinds == {"Dummy", "Real"}

VARIABLES
    inner,      \* the HashMap: name -> object, 0 when absent
    kind,       \* object -> "None" (not made yet), "Dummy" or "Real"
    rtOf,       \* object -> the runtime it drives (named by the object that started it), 0 for none
    running,    \* the runtimes that run
    nextId      \* the next object to be made

vars == <<inner, kind, rtOf, running, nextId>>

\* ImporterRegistry::new: an empty map.
Init ==
    /\ inner = [n \in Names |-> 0]
    /\ kind = [o \in Objs |-> "None"]
    /\ rtOf = [o \in Objs |-> 0]
    /\ running = {}
    /\ nextId = 1

\* Make the next object, of kind k, driving runtime rt.
Make(k, rt) ==
    /\ nextId <= MaxObjs
    /\ kind' = [kind EXCEPT ![nextId] = k]
    /\ rtOf' = [rtOf EXCEPT ![nextId] = rt]
    /\ nextId' = nextId + 1

\* _start_runtime of the next object, of kind k: a real importer starts a
\* runtime of its own, a dummy one has none.
OwnRuntime(k) == IF k = "Real" THEN nextId ELSE 0
Start(k, r) == IF k = "Real" THEN r \cup {nextId} ELSE r

\* _abort_runtime of object o (nothing for an object without a runtime).
Abort(o, r) == IF o = 0 THEN r ELSE r \ {rtOf[o]}

AddNoAbort(n) ==
    \E k \in Kinds :
       /\ Make(k, OwnRuntime(k))
       /\ inner' = [inner EXCEPT ![n] = nextId]
       /\ running' = Start(k, running)

\* add: start the new importer's runtime (an error returns before the
\* insert), insert it and abort the runtime of the object it replaces.
Add(n) ==
    \E k \in Kinds :
       /\ Make(k, OwnRuntime(k))
       /\ inner' = [inner EXCEPT ![n] = nextId]
       /\ running' = Start(k, Abort(inner[n], running))

\* del: remove the name and abort its runtime.
Del(n) ==
    /\ inner[n] # 0
    /\ inner' = [inner EXCEPT ![n] = 0]
    /\ running' = Abort(inner[n], running)
    /\ UNCHANGED <<kind, rtOf, nextId>>

\* reload_no_respawn: the new object keeps the old notifier and so the old
\* runtime, which is notified of the new config and not aborted.  The
\* caller uses it only when the importer type does not change.
ReloadNoRespawnAbortOld(n) ==
    LET old == inner[n] IN
    /\ old # 0
    /\ Make(kind[old], rtOf[old])
    /\ inner' = [inner EXCEPT ![n] = nextId]
    /\ running' = Abort(old, running)

ReloadNoRespawn(n) ==
    LET old == inner[n] IN
    /\ old # 0
    /\ Make(kind[old], rtOf[old])
    /\ inner' = [inner EXCEPT ![n] = nextId]
    /\ UNCHANGED running

\* reload_and_respawn: a new object with a new notifier, of the kind of
\* the new config; start its runtime (an error returns before the insert),
\* insert it, abort the old runtime.
ReloadAndRespawn(n) ==
    LET old == inner[n] IN
    /\ old # 0
    /\ \E k \in Kinds :
          /\ Make(k, OwnRuntime(k))
          /\ inner' = [inner EXCEPT ![n] = nextId]
          /\ running' = Start(k, Abort(old, running))

\* get_or_insert_default: a default importer for a name not registered.
GetOrInsertDefault(n) ==
    /\ inner[n] = 0
    /\ Make("Dummy", 0)
    /\ inner' = [inner EXCEPT ![n] = nextId]
    /\ UNCHANGED running

\* An operation that returns Err without changing the registry: a lookup of
\* a name that is absent, or a failed _start_runtime or _reload_*.
Failed == UNCHANGED vars

Next ==
    \/ \E n \in Names :
          \/ Add(n) \/ Del(n) \/ ReloadNoRespawn(n) \/ ReloadAndRespawn(n)
          \/ GetOrInsertDefault(n)
    \/ Failed

Spec == Init /\ [][Next]_vars

-----------------------------------------------------------------------------

\* The runtimes that run are exactly those of the registered importers:
\* after any sequence of add, del, reloads with and without respawn and
\* default inserts, no replaced or removed importer's runtime is left
\* running, and no registered real importer lost its runtime (a runtime
\* kept across reload_no_respawn is aborted once, by whoever replaces the
\* last object that drives it).
RuntimesMatchRegistry ==
    running = {rtOf[inner[n]] : n \in {m \in Names : inner[m] # 0 /\ kind[inner[m]] = "Real"}}

====
