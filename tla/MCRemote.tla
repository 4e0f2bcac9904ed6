------------------------------ MODULE MCRemote ------------------------------
(* A compressible content and one that is not, two keys, two key files.    *)
EXTENDS Remote

CONSTANTS v1, v2, certificate, pem, k1, k2

MCSize == v1 :> 4 @@ v2 :> 1
MCPacked == v1 :> 2 @@ v2 :> 3
\* What the others write.
MCValues == {AsIs(v2), Compressed(v1)}
MCNormal == "a" :> "A" @@ "A" :> "A" @@ "b" :> "B" @@ "2b" :> Invalid

Line(key, value) == [key |-> key, value |-> AsIs(value)]

MCClientFiles ==
    "v1" :> v1 @@ "v2" :> v2 @@ "cert" :> certificate @@ "key" :> pem @@ "missing" :> NoFile
    @@ "env0" :> <<>>
    @@ "env1" :> <<Line("b", v1)>>
    @@ "env2" :> <<Line("a", v1), Line("b", v2)>>
    @@ "env3" :> <<Line("A", v1), Line("b", v1), Line("a", v2)>>
    @@ "env4" :> <<Line("a", v1), Line("2b", v1)>>

MCEnvFiles == {MCClientFiles["env" \o ToString(i)] : i \in 0..4}

Address(home) == [host |-> TRUE, home |-> home]
NoFlags == [no_compress |-> FALSE, compress |-> FALSE, level |-> NoLevel]

\* A command of the name, with nothing given but the host.
Plainly(name) ==
    [name |-> name, remote |-> Address("/there"), variable |-> Nothing, db |-> FALSE,
     workspace |-> NoWorkspace, key |-> "A", stdin |-> Nothing, paths |-> <<>>,
     overwrite |-> FALSE, skip |-> FALSE, flags |-> NoFlags, level |-> NoLevel,
     no_uncompress |-> FALSE]

Imports ==
    {[Plainly("import") EXCEPT !.paths = "--env-file" :> path, !.overwrite = o, !.skip = s] :
        path \in {"env0", "env1", "env2", "env3", "env4", "missing"}, o, s \in BOOLEAN}

SetFiles ==
    {[Plainly("set file") EXCEPT !.paths = "--file" :> path, !.overwrite = TRUE, !.flags = f, !.level = l] :
        path \in {"v1", "v2"}, l \in {NoLevel, 23},
        f \in {NoFlags, [NoFlags EXCEPT !.compress = TRUE], [NoFlags EXCEPT !.no_compress = TRUE],
               [NoFlags EXCEPT !.compress = TRUE, !.level = 22]}}

Gets == {[Plainly("get output") EXCEPT !.no_uncompress = raw] : raw \in BOOLEAN}

Adds ==
    {[Plainly("rsa add") EXCEPT !.workspace = "flag", !.paths = p] :
        p \in {"--cert" :> "cert", "--cert" :> "cert" @@ "--rewrap-from-key" :> "key"}}

Others ==
    {Plainly("exec"), [Plainly("delete") EXCEPT !.db = TRUE],
     [Plainly("delete") EXCEPT !.remote = [host |-> FALSE, home |-> NoHome]],
     [Plainly("delete") EXCEPT !.remote = Nothing, !.variable = Address(NoHome)],
     [Plainly("set stdin") EXCEPT !.stdin = AsIs(v1), !.workspace = "flag"],
     [Plainly("set stdin") EXCEPT !.stdin = AsIs(v1), !.overwrite = TRUE]}

MCCommands == Imports \cup SetFiles \cup Gets \cup Adds \cup Others

\* The commands that carry out an operation, with the flag --workspace.
MCFlagCommands == {[c EXCEPT !.workspace = "flag"] : c \in SetFiles \cup Gets}
=============================================================================
