-------------------------- MODULE MCPreloadTracer --------------------------
(* PreloadTracer for TLC.                                                  *)
EXTENDS PreloadTracer, TLC

(* Connections and descriptor numbers are interchangeable; only the safety *)
(* run uses this.                                                          *)
Symmetry == Permutations(Conn) \cup Permutations(Fd)
=============================================================================
