-------------------------- MODULE MCDiamondUpgrade --------------------------
(* Instances of DiamondUpgrade for TLC.  In the first every facet keeps its  *)
(* functions to itself: A gains a4 and a5 and loses a3, B loses b2, and of C *)
(* no old commit is known.  In the second, function m moves from A to B.     *)
EXTENDS DiamondUpgrade, TLC

CONSTANTS A, B, C

ThreeFacets == <<A, B, C>>
TwoFacets == <<A, B>>
KeptOld == (A :> <<"a1", "a3">>) @@ (B :> <<"b1", "b2">>) @@ (C :> <<"c1">>)
KeptNew == (A :> <<"a1", "a4", "a5">>) @@ (B :> <<"b1">>) @@ (C :> <<"c1">>)
MovedOld == (A :> <<"a1", "m">>) @@ (B :> <<"b1">>)
MovedNew == (A :> <<"a1", "a4">>) @@ (B :> <<"b1", "m">>)
OldAddresses == (A :> "oldA") @@ (B :> "oldB") @@ (C :> "oldC")
NewAddresses == (A :> "newA") @@ (B :> "newB") @@ (C :> "newC")
OldAddress == [n \in Names |-> OldAddresses[n]]
NewAddress == [n \in Names |-> NewAddresses[n]]
=============================================================================
