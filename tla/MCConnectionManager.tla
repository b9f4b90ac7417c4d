------------------------ MODULE MCConnectionManager ------------------------
(* Instances of ConnectionManager for TLC. *)
EXTENDS ConnectionManager, TLC

\* Runtimes are interchangeable; the symmetry is used for safety runs only.
RuntimeSymmetry == Permutations(Runtimes)
=============================================================================
