------------------------------ MODULE MCVault ------------------------------
(* A small instance of Vault: one workspace may be named after the id of   *)
(* the other, and two spellings name the same secret key.                  *)
EXTENDS Vault, TLC

CONSTANTS u1, u2, u3, u4, u5, u6, d1, d2, d3, p1, p2, v1, v2

MCNormal == "k" :> "K" @@ "K" :> "K" @@ "L" :> "L" @@ " " :> Empty

\* u1 is also a name, and the UUIDs are drawn in no particular order.
Symmetry ==
    Permutations({u2, u3, u4, u5, u6}) \cup Permutations({d1, d2, d3})
        \cup Permutations({p1, p2}) \cup Permutations({v1, v2})
=============================================================================
