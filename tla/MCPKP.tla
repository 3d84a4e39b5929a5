-------------------------------- MODULE MCPKP --------------------------------
(* Instances of the PKP contracts for TLC: an action and a WebAuthn          *)
(* credential for which two public keys are about, and two root keys.        *)
EXTENDS PKPProperties, TLC

CONSTANTS n1, n2, n3, s1, s2, s3, act, web, k1, k2, claimed

OneNodeEach == n1 :> s1 @@ n2 :> s2
FirstHasTwo == n1 :> s1 @@ n2 :> s1 @@ n3 :> s3
WholeAndPart == {{"bls", "ecdsa"}, {"bls"}}
OneOrTwo == {{s1}, {s1, s2}}
FirstAndThird == {{s1, s3}}
MintedAndClaimed == ((1..MaxMints) \X (1..MaxBlock)) \cup {claimed}

Entry(a, k, ss) == [method |-> a, userPubkey |-> k, scopes |-> ss]
FewBatches == {<<{}, {}>>, <<{}, {act}>>,
               <<{Entry(act, NoPubkey, {1}), Entry(web, k1, {})}, {}>>,
               <<{Entry(web, k2, {1})}, {act, web}>>}
=============================================================================
