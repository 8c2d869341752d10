--------------------------------- MODULE MCSignIn ---------------------------------
(***************************************************************************)
(* SignIn for TLC: its call slots are interchangeable.                      *)
(***************************************************************************)
EXTENDS SignIn, TLC

MCSymmetry == Permutations(Call)
=============================================================================
