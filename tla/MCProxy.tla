------------------------------- MODULE MCProxy -------------------------------
(* Two routes and a catch-all, and one whose base URL is a secret; keys of  *)
(* which one begins with the other; secrets that are empty or look like a   *)
(* template; requests with "$", with a header that is no method and with    *)
(* dots in the path.                                                        *)
EXTENDS Proxy

CONSTANTS A, B, x, u, g

MCTokens == {A, B, x, u, g, "$", "open", "/", "..", "?", "#", " ", "%20"} \cup Context
MCKeys == {<<A>>, <<A, B>>}
MCValues == {<<u>>, <<>>, <<"body">>}

Route(prefix, templates, passQuery) ==
    [prefix |-> prefix, templates |-> templates, passQuery |-> passQuery]

\* base: u; header: $AB; path: the tail.
Tail1 == Route(<<"/", g, "/", x>>, [base |-> <<u>>, header |-> <<x, "$", A, B>>], TRUE)
\* base: with $AB in its path and a query; body: $A and the body; header: "$" and
\* a header; path: of the route.
Body2 == Route(<<g, "/">>, [base |-> <<u, "/", "$", A, B, "/", "?", x>>, path |-> <<g>>,
                            header |-> <<"$", "header">>, body |-> <<"$", A, x, "body">>], FALSE)
\* base: with a fragment; method: a header.
All3 == Route(<<>>, [base |-> <<u, "#", x>>, method |-> <<" ", "header">>,
                     query |-> <<"query", " ", x>>], FALSE)
Secret4 == Route(<<"/">>, [base |-> <<"$", A>>, body |-> <<x>>], TRUE)
Unknown == Route(<<>>, [base |-> <<u>>, query |-> <<"$", B>>], FALSE)
Based == Route(<<>>, [base |-> <<u, "tail">>], FALSE)

MCConfigs == {<<Tail1, Body2>>, <<Body2, All3>>, <<Secret4>>, <<Unknown>>, <<Based>>}

Request(path, query, header, body) ==
    [path |-> path, method |-> <<x>>, query |-> query, header |-> header, body |-> body]

MCRequests ==
    {Request(<<"/", g, "/", x>>, <<"$", A>>, <<x>>, <<x>>),
     Request(<<"/", g, "/", x, "/", "$", B>>, <<>>, <<x>>, <<x>>),
     Request(<<"/", g, "/", x>>, <<x>>, <<x>>, Binary),
     Request(<<"/", g, "/", x, "/", "..", "/", x>>, <<x>>, <<A>>, <<x>>),
     Request(<<"/", g>>, <<>>, <<x>>, Binary),
     Request(<<"/", g>>, <<>>, <<x>>, <<"body", "$", x>>),
     Request(<<"/", g>>, <<>>, <<x>>, <<"$", A, B>>),
     Request(<<"/">>, <<x>>, <<x>>, <<"$", A>>),
     Request(<<"/", x>>, <<>>, <<>>, <<"$", A>>),
     Request(<<"/", x>>, <<"$", A>>, <<x>>, <<x>>)}

\* u stands for a scheme and a host.
MCParsesAsUrl(text) == text # <<>> /\ Head(text) = u

\* A step back in the path, as far as there is one; a path of its own for the
\* bare host; blanks of other parts.
MCUrlPart(part, text) ==
    LET Step(path, a) == IF a # ".." THEN Append(path, a)
                         ELSE IF Len(path) > 3 THEN SubSeq(path, 1, Len(path) - 2) ELSE path
        path == FoldLeft(Step, <<>>, text)
    IN  IF part # "path" THEN [i \in DOMAIN text |-> IF text[i] = " " THEN "%20" ELSE text[i]]
        ELSE IF Len(path) = 1 THEN Append(path, "/") ELSE path
=============================================================================
