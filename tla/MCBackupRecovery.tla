-------------------------- MODULE MCBackupRecovery --------------------------
(* Instances of BackupRecovery for TLC: three nodes and three members; the   *)
(* parties overlap, so that calls of an earlier DKG reach a later one.       *)
EXTENDS BackupRecoveryProperties

CONSTANTS n1, n2, n3, m1, m2, m3

TwoPairs == {<<m1, m2>>, <<m2, m3>>}
AllOrTwo == {{n1, n2, n3}, {n2, n3}}

\* The keys of each DKG, and the first key of the second alone.
WholeAndPart == {KeysOf(1), KeysOf(2), {<<2, 1>>}}
=============================================================================
