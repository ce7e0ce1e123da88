--------------------------- MODULE MCUserManager ---------------------------
(* Model values for checking UserManager with TLC. *)
EXTENDS UserManager, TLC

MCLocalCopy == <<-1, 0>>
IdSymmetry  == Permutations(Ids)
=============================================================================
