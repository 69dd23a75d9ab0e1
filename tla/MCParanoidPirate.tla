-------------------------- MODULE MCParanoidPirate --------------------------
(* ParanoidPirate with few names and short times. *)
EXTENDS ParanoidPirate, TLC

NameSymmetry ==
  Permutations(Workers) \union Permutations(Ids) \union Permutations(Requests)

=============================================================================
