------------------------- MODULE MCIncrementalCompile -------------------------
(* Bounds for the run of IncrementalCompile that a cfg cannot write. *)
EXTENDS IncrementalCompile, TLC

Symmetry == Permutations(Builders)

\* Nothing more is claimed of builds that begin between a disturbance and the removal
\* of dist: there, none begins.
NoneBeginsDisturbed == calm \/ \A b \in Builders : UnderWay(b)' => UnderWay(b)

==============================================================================
