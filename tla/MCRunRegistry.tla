---------------------------- MODULE MCRunRegistry ----------------------------
(* Instances of RunRegistry for TLC.  Subjects, serials and tools are
   interchangeable; run ids are numbers because latest_run_db orders them. *)
EXTENDS RunRegistry, TLC

Symmetry == Permutations(Subjects) \cup Permutations(Serials) \cup Permutations(Tools)
=============================================================================
