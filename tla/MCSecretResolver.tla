-------------------------- MODULE MCSecretResolver --------------------------
(* A small instance of SecretResolver: "A-1" is a key that the text "$A-1" *)
(* does not name.                                                          *)
EXTENDS SecretResolver, TLC

CONSTANTS v1, v2, a

MCScan == "A" :> <<"A">> @@ "A-1" :> <<"A">>

\* All secrets, as a command and as a tool; an overridden variable and a
\* template that names one key twice; a bad name after a good one.
Let(name, keys) == [name |-> name, keys |-> keys, valid |-> TRUE]
MCJobs ==
    {[mcp |-> m, all |-> TRUE, items |-> <<Let("A", <<"A-1">>)>>] : m \in BOOLEAN} \cup
    {[mcp |-> TRUE, all |-> FALSE,
      items |-> <<Let("A", <<"A">>), Let("X", <<"A">>), Let("X", <<"A", "A-1", "A">>)>>],
     [mcp |-> FALSE, all |-> FALSE,
      items |-> <<Let("A", <<"A">>), [Let("X", <<"A">>) EXCEPT !.valid = FALSE]>>]}

Symmetry == Permutations({v1, v2})
=============================================================================
