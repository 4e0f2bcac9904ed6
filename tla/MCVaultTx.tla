----------------------------- MODULE MCVaultTx -----------------------------
(* Small instances of VaultTx: one workspace and one key, two processes.   *)
EXTENDS VaultTx, TLC

CONSTANTS u1, u2, u3, u4, u5, d1, d2, d3, p1, p2, v1, v2, a, b

MCNormal == "K" :> "K"

Symmetry ==
    Permutations(Uuids) \cup Permutations(Deks) \cup Permutations(PublicKeys)
        \cup Permutations(Values) \cup Permutations(Procs)
=============================================================================
