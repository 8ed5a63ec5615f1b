----------------------------- MODULE MCSessions -----------------------------
(* Instances of Sessions for TLC: requests are interchangeable. *)
EXTENDS Sessions, TLC

AnyRequest == Permutations(Requests)
=============================================================================
