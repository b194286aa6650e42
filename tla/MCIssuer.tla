------------------------------ MODULE MCIssuer ------------------------------
(* Instances of Issuer for TLC: small sets, and the symmetry of the names. *)
EXTENDS IssuerInv, TLC

NamesAreSymmetric ==
  Permutations(Accounts) \cup Permutations(Devices) \cup Permutations(Keys)
    \cup Permutations(Identities) \cup Permutations(Serials)
=============================================================================
