---------------------------- MODULE MCCloudSpace ----------------------------
(* Instances of CloudSpace for TLC: two workers are interchangeable, and so *)
(* are two users.                                                           *)
EXTENDS CloudSpace, TLC

Symmetry == Permutations(Workers) \cup Permutations(Users)

=============================================================================
