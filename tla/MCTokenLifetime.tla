-------------------------- MODULE MCTokenLifetime ---------------------------
(* An instance of TokenLifetime for TLC. *)
EXTENDS TokenLifetime, TLC

SomeSkews == -1..1
AnyRequest == Permutations(Requests)
=============================================================================
