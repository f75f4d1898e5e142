----------------------------- MODULE MCPlayWave -----------------------------
(***************************************************************************)
(* Small instances of PlayWave.  Callers, memory and device handles are    *)
(* interchangeable.                                                        *)
(***************************************************************************)
EXTENDS PlayWave, TLC

Symmetry == Permutations(Callers) \cup Permutations(Packets) \cup Permutations(Devices)
=============================================================================
