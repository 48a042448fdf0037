--------------------------- MODULE MCIncidentMemory ---------------------------
(* Two interchangeable sessions of one incident, one exporter. *)
EXTENDS MemoryProperties, TLC

Interchangeable == Permutations(Sessions)
=============================================================================
