-------------------------- MODULE MCTenantStorage --------------------------
(* Small instances of TenantStorage for TLC. *)
EXTENDS TenantStorage, TLC

CONSTANTS s1, u1, w1, w2, disk, s3, alias

\* The server's disk, a bucket, and the bucket by another address.
MCAt == [p \in Places |-> IF p = disk THEN "disk" ELSE "bucket"]

\* Neither address of the bucket is told from the other, nor the handlers.
MCSymmetry == Permutations(Workers) \cup Permutations({s3, alias})
=============================================================================
