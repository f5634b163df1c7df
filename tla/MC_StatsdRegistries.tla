------------------------- MODULE MC_StatsdRegistries -------------------------
(* Model values for checking StatsdRegistries with TLC. *)
EXTENDS StatsdRegistries

CONSTANTS n1, n2, c1, c2

\* Two importer names, so one name's operations can be checked not to
\* touch the other's runtime.
MC_Names == {n1, n2}

\* Five objects: enough for a default, an add, a reload without respawn
\* (sharing a runtime), then a respawn or a second add replacing them.
MC_MaxObjs == 5

\* Two collect names: a self-dependency and a loop through both, built by
\* two reloads, can happen.
MC_CollectNames == {c1, c2}

\* The two parsed collect types and one load_collect refuses.
MC_Types == {"dummy", "internal", "unsupported"}
=============================================================================
