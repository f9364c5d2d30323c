------------------------- MODULE MCCredentialQuery -------------------------
(***************************************************************************)
(* CredentialQuery, and CredentialAssignment below it, for TLC.  Workers,  *)
(* keys and instances are interchangeable.                                 *)
(***************************************************************************)
EXTENDS CredentialQuery, TLC

MCSymmetry == Permutations(Workers) \cup Permutations(Keys) \cup Permutations(Instances)

=============================================================================
