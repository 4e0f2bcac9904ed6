-------------------------------- MODULE Proxy --------------------------------
(***************************************************************************)
(* vaultick-proxy: the secrets its routes name are read once, at the       *)
(* start, and put into the templates; each request then renders the        *)
(* templates with what the client sent, and the result is scanned again    *)
(* for placeholders before it goes upstream.                               *)
(*                                                                         *)
(* A text is a sequence of tokens: letters of key names (up to their       *)
(* case; a workspace with two keys that differ in case alone has no proxy),*)
(* "$", a placeholder {{request.X}} as X, "open" for one that is not closed*)
(* or not known, and anything else; a single brace is none.  Requests share*)
(* nothing but the routes: one at a time is enough.                        *)
(***************************************************************************)
EXTENDS Naturals, Sequences, SequencesExt

CONSTANTS
    Tokens,             \* what texts are made of
    Letters, Keys,      \* the names of secrets, sequences of letters
    Values, NoValue,    \* texts of secrets
    NoText,             \* a template that could not be rendered
    Binary,             \* a body that is not UTF-8
    Configs,            \* sequences of routes
    Requests,           \* what clients send
    MethodTokens,       \* what HTTP allows in a method
    ParsesAsUrl(_),     \* Url::parse accepts the text
    UrlPart(_, _)       \* how the url crate writes a text as the "path" (with all
                        \* that is before it), "query" or "fragment" of a URL

Given == {"base", "method", "path", "query", "header", "body"}
Context == {"method", "path", "tail", "query", "header", "body"}

ASSUME KeysAssumption == Keys \subseteq Seq(Letters) /\ <<>> \notin Keys
ASSUME TextsAssumption ==
    /\ Values \subseteq Seq(Tokens) /\ Context \cup {"/"} \subseteq Tokens /\ Binary # NoText
    /\ NoText \notin Seq(Tokens) /\ Binary \notin Seq(Tokens)
ASSUME ConfigsAssumption ==
    \A config \in Configs : DOMAIN config = 1..Len(config) /\ \A i \in DOMAIN config :
        /\ config[i].prefix \in Seq(Tokens)
        /\ \A f \in DOMAIN config[i].templates : config[i].templates[f] \in Seq(Tokens)
        /\ DOMAIN config[i].templates \subseteq Given
        /\ "base" \in DOMAIN config[i].templates
        /\ config[i].passQuery \in BOOLEAN
ASSUME RequestsAssumption ==
    \A request \in Requests :
        /\ \A f \in {"method", "path", "query", "header"} : request[f] \in Seq(Tokens)
        /\ request.body \in Seq(Tokens) \cup {Binary}

VARIABLES
    store,      \* the secrets of the workspace
    server,     \* the process: its state, configuration, listing and values
    routes,     \* its compiled routes
    conn        \* the request it serves, or served last

vars == <<store, server, routes, conn>>

Present == {k \in Keys : store[k] # NoValue}
Worth == {<<k, store[k]>> : k \in Present}
NoValues == [k \in Keys |-> NoValue]
Down == [state |-> "down", config |-> <<>>, values |-> NoValues, seen |-> {}]
NoConn == [pc |-> "idle", request |-> NoText, route |-> 0, sent |-> NoText, status |-> 0]

Init ==
    /\ store \in [Keys -> Values \cup {NoValue}]
    /\ server = Down /\ routes = <<>> /\ conn = NoConn
-----------------------------------------------------------------------------
(* Placeholders of secrets: "$" and the letters after it, as many as there are *)

Starts(text) == {i \in 1..Len(text) - 1 : text[i] = "$" /\ text[i + 1] \in Letters}
End(text, i) ==
    CHOOSE j \in i + 1..Len(text) :
        /\ \A l \in i + 1..j : text[l] \in Letters
        /\ j < Len(text) => text[j + 1] \notin Letters
Name(text, i) == SubSeq(text, i + 1, End(text, i))
Named(text) == {Name(text, i) : i \in Starts(text)}
Inside(text, i) == \E j \in Starts(text) : i \in j + 1..End(text, j)

\* replace_secret_placeholders: what is put in is not looked at again.
Replace(text, values) ==
    FlattenSeq([i \in DOMAIN text |->
        IF i \in Starts(text) THEN values[Name(text, i)]
        ELSE IF Inside(text, i) THEN <<>> ELSE <<text[i]>>])

\* render_request_template
Render(text, context) ==
    IF \E i \in DOMAIN text :
        text[i] = "open" \/ (text[i] \in Context /\ context[text[i]] = Binary)
    THEN NoText
    ELSE FlattenSeq([i \in DOMAIN text |->
            IF text[i] \in Context THEN context[text[i]] ELSE <<text[i]>>])
-----------------------------------------------------------------------------
(* Methods, paths and URLs *)

TrimEnd(text, mark) ==
    SubSeq(text, 1, CHOOSE n \in 0..Len(text) :
                        /\ \A i \in n + 1..Len(text) : text[i] = mark
                        /\ n = 0 \/ text[n] # mark)

Trim(text) == Reverse(TrimEnd(Reverse(TrimEnd(text, " ")), " "))

\* Method::from_bytes, of the text without the blanks around it
IsMethod(text) == Trim(text) # <<>> /\ ToSet(Trim(text)) \subseteq MethodTokens

ASSUME MethodsAssumption == \A request \in Requests : IsMethod(request.method)

WithSlash(path) == IF path # <<>> /\ Head(path) = "/" THEN path ELSE <<"/">> \o path

NormalPrefix(prefix) ==
    IF prefix \in {<<>>, <<"/">>} THEN <<"/">> ELSE TrimEnd(WithSlash(prefix), "/")

MatchesPrefix(path, prefix) ==
    prefix = <<"/">> \/ path = prefix \/ IsPrefix(prefix \o <<"/">>, path)

PathTail(path, prefix) ==
    IF path \in {<<>>, prefix} THEN <<"/">>
    ELSE IF prefix = <<"/">> THEN path ELSE SubSeq(path, Len(prefix) + 1, Len(path))

Before(text, marks) ==
    LET i == SelectInSeq(text, LAMBDA a : a \in marks)
    IN  IF i = 0 THEN text ELSE SubSeq(text, 1, i - 1)

\* build_upstream_url: the path is joined to that of the base URL, whose own
\* query is dropped; a fragment stays.
UpstreamUrl(base, path, query) ==
    UrlPart("path", TrimEnd(Before(base, {"?", "#"}), "/")
                        \o (IF path \in {<<>>, <<"/">>} THEN <<>> ELSE WithSlash(path)))
    \o (IF query = <<>> THEN <<>> ELSE <<"?">> \o UrlPart("query", query))
    \o UrlPart("fragment", SubSeq(base, Len(Before(base, {"#"})) + 1, Len(base)))
-----------------------------------------------------------------------------
(* Start: build_state *)

Templates(route) ==
    IF "path" \in DOMAIN route.templates THEN route.templates
    ELSE [f \in DOMAIN route.templates \cup {"path"} |->
             IF f = "path" THEN <<"tail">> ELSE route.templates[f]]

RouteKeys(route) == UNION {Named(route.templates[f]) : f \in DOMAIN route.templates}

\* Mutant: the secrets of the body are not redacted.
AllButBody(route, values) ==
    {values[k] : k \in UNION {Named(route.templates[f]) :
                                f \in DOMAIN route.templates \ {"body"}}} \ {<<>>}

Redacted(route, values) == {values[k] : k \in RouteKeys(route)} \ {<<>>}

Referenced(config) == UNION {RouteKeys(config[i]) : i \in DOMAIN config}

\* Every key is listed, every placeholder known, and the base URL has none
\* that depends on a request.
Accepted(config) ==
    \A i \in DOMAIN config : \A f \in DOMAIN config[i].templates :
        LET text == config[i].templates[f]
        IN  /\ Named(text) \subseteq Present
            /\ "open" \notin ToSet(text)
            /\ f = "base" => ToSet(text) \cap Context = {}

Compiled(route, values) ==
    [prefix |-> NormalPrefix(route.prefix), passQuery |-> route.passQuery,
     templates |-> [f \in DOMAIN Templates(route) |-> Replace(Templates(route)[f], values)],
     redacted |-> Redacted(route, values)]

\* The configuration is read and the keys are listed; an error ends the
\* process at once.
Start(config) ==
    /\ server.state = "down" /\ Accepted(config)
    /\ server' = [state |-> "starting", config |-> config, values |-> NoValues,
                  seen |-> Worth]
    /\ UNCHANGED <<store, routes, conn>>

Load(k) ==
    /\ server.state = "starting"
    /\ k \in Referenced(server.config) /\ server.values[k] = NoValue
    /\ store[k] # NoValue
    /\ server' = [server EXCEPT !.values[k] = store[k]]
    /\ UNCHANGED <<store, routes, conn>>

\* A key is gone or not to be opened, the client or the listener not to be had.
GiveUp ==
    /\ server.state = "starting"
    /\ server' = Down
    /\ UNCHANGED <<store, routes, conn>>

Serve ==
    /\ server.state = "starting"
    /\ \A k \in Referenced(server.config) : server.values[k] # NoValue
    /\ server' = [server EXCEPT !.state = "serving"]
    /\ routes' = [i \in DOMAIN server.config |-> Compiled(server.config[i], server.values)]
    /\ UNCHANGED <<store, conn>>

\* A graceful shutdown ends with the request; a kill does not wait.
Stop ==
    /\ server.state = "serving"
    /\ server' = [server EXCEPT !.state = "stopping"]
    /\ UNCHANGED <<store, routes, conn>>

Exit ==
    /\ server.state = "stopping" /\ conn.pc = "idle"
    /\ server' = Down /\ routes' = <<>> /\ conn' = NoConn
    /\ UNCHANGED store

Kill ==
    /\ server.state # "down"
    /\ server' = Down /\ routes' = <<>> /\ conn' = NoConn
    /\ UNCHANGED store

\* Other processes set and delete secrets.
Other ==
    /\ \E k \in Keys, v \in Values \cup {NoValue} : store' = [store EXCEPT ![k] = v]
    /\ server' = IF server.state = "starting"
                 THEN [server EXCEPT !.seen = @ \cup
                          {<<k, store'[k]>> : k \in {l \in Keys : store'[l] # NoValue}}]
                 ELSE server
    /\ UNCHANGED <<routes, conn>>
-----------------------------------------------------------------------------
(* One request: handle_proxy_request and forward_request *)

Answered(status) == conn' = [conn EXCEPT !.pc = "idle", !.status = status]

\* The first route whose prefix the path has.
Accept(request) ==
    /\ server.state = "serving" /\ conn.pc = "idle"
    /\ LET matching == {i \in DOMAIN routes : MatchesPrefix(request.path, routes[i].prefix)}
       IN  conn' = IF matching = {} THEN [NoConn EXCEPT !.status = 404]
                   ELSE [NoConn EXCEPT !.pc = "body", !.request = request,
                                       !.route = CHOOSE i \in matching : \A j \in matching : i <= j]
    /\ UNCHANGED <<store, server, routes>>

\* The body is longer than the limit, or breaks off.
RefuseBody ==
    /\ conn.pc = "body"
    /\ \E status \in {400, 413} : Answered(status)
    /\ UNCHANGED <<store, server, routes>>

RequestContext(prefix, request) ==
    [method |-> request.method, path |-> request.path, query |-> request.query,
     header |-> request.header, body |-> request.body,
     tail |-> PathTail(request.path, prefix)]

\* The text that is rendered, or passed on, as f.
Rendered(route, request, f) ==
    LET context == RequestContext(route.prefix, request)
    IN  IF f = "base" THEN route.templates[f]
        ELSE IF f \in DOMAIN route.templates THEN Render(route.templates[f], context)
        ELSE IF f \in {"method", "body"} \/ (f = "query" /\ route.passQuery) THEN context[f]
        ELSE <<>>

\* Mutants: a body that is passed on is scanned as well; what a client names
\* is resolved.
BodyToo(route, request) ==
    {"url", "header"} \cup (IF request.body = Binary THEN {} ELSE {"body"})
Resolved(route, request, f) ==
    LET text == Rendered(route, request, f)
    IN  IF text \in {NoText, Binary} THEN text
        ELSE IF Named(text) \subseteq {k \in Keys : server.values[k] # NoValue}
        THEN Replace(text, server.values) ELSE text

\* ResolvedRequest::from_spec takes a body without a template for bytes.
Scanned(route, request) ==
    {"url", "header"} \cup (IF "body" \in DOMAIN route.templates THEN {"body"} ELSE {})

Forwarded(route, request, f) == Rendered(route, request, f)

\* The request that goes upstream, made of these texts.
Upstream(texts) ==
    [method |-> Trim(texts.method), url |-> UpstreamUrl(texts.base, texts.path, texts.query),
     header |-> texts.header, body |-> texts.body]

\* A template cannot be rendered, the method or the base URL is none, or what
\* would go upstream still names a secret.
Refused(texts, scanned) ==
    \/ \E f \in Given : texts[f] = NoText
    \/ ~IsMethod(texts.method) \/ ~ParsesAsUrl(texts.base)
    \/ \E part \in scanned : Starts(Upstream(texts)[part]) # {}

Forward ==
    /\ conn.pc = "body"
    /\ LET route == routes[conn.route]
           texts == [f \in Given |-> Forwarded(route, conn.request, f)]
       IN  IF Refused(texts, Scanned(route, conn.request)) THEN Answered(500)
           ELSE conn' = [conn EXCEPT !.pc = "upstream", !.sent = Upstream(texts)]
    /\ UNCHANGED <<store, server, routes>>

Respond ==
    /\ conn.pc = "upstream"
    /\ conn' = [conn EXCEPT !.pc = "response", !.status = 200]
    /\ UNCHANGED <<store, server, routes>>

\* The upstream cannot be reached, or a header has what HTTP does not allow in
\* one (502); the route's timeout, or the system's for a connection (504).
Fail ==
    /\ conn.pc = "upstream"
    /\ \E status \in {502, 504} : Answered(status)
    /\ UNCHANGED <<store, server, routes>>

\* The response ends, or breaks off; or the client leaves.
Finish ==
    /\ conn.pc # "idle"
    /\ conn' = NoConn
    /\ UNCHANGED <<store, server, routes>>

Next ==
    \/ \E config \in Configs : Start(config)
    \/ \E k \in Keys : Load(k)
    \/ GiveUp \/ Serve \/ Stop \/ Exit \/ Kill \/ Other
    \/ \E request \in Requests : Accept(request)
    \/ RefuseBody \/ Forward \/ Respond \/ Fail \/ Finish

Spec == Init /\ [][Next]_vars
-----------------------------------------------------------------------------
(* Properties *)

Forwarding == conn.pc \in {"upstream", "response"}
Configured == server.config[conn.route]

\* A proxy that serves has a value for every key its routes name, one the key
\* had while it started; the route that names the key, in whatever field, cuts
\* this value out of the bodies of its responses, and not one set since.
SnapshotIsRedacted ==
    \A i \in DOMAIN routes : \A f \in DOMAIN server.config[i].templates :
        \A k \in Named(server.config[i].templates[f]) :
            /\ <<k, server.values[k]>> \in server.seen
            /\ server.values[k] \in routes[i].redacted \cup {<<>>}

\* The template with everything put in at once.
AtOnce(route, f) ==
    LET text == Templates(route)[f]
        context == RequestContext(NormalPrefix(route.prefix), conn.request)
    IN  FlattenSeq([i \in DOMAIN text |->
            IF i \in Starts(text) THEN server.values[Name(text, i)]
            ELSE IF Inside(text, i) THEN <<>>
            ELSE IF text[i] \in Context THEN context[text[i]] ELSE <<text[i]>>])

Bracketed(text) == "open" \in ToSet(text) \/ ToSet(text) \cap Context # {}

\* The texts of the request as the configuration means them.
Meant ==
    [f \in Given |->
        IF f \in DOMAIN Templates(Configured) THEN AtOnce(Configured, f)
        ELSE IF f \in {"method", "body"} \/ (f = "query" /\ Configured.passQuery)
        THEN conn.request[f] ELSE <<>>]

\* Three passes over a text do what one would: nothing a client sends is taken
\* for the name of a secret, and no secret of another route leaves.  (The value
\* of a secret is taken for a template of the request, if it looks like one.)
SentIsTheTemplate ==
    Forwarding /\ (\A k \in RouteKeys(Configured) : ~Bracketed(server.values[k])) =>
        conn.sent = Upstream(Meant)

\* A request that has been read is refused for a body that is no text, a secret
\* that looks like a template, a method or a base URL that comes out as none,
\* or something in the URL, a header or the body of a template that looks like
\* the name of a secret; for nothing else, and never for a body passed on.
RefusedForAReason ==
    conn.status = 500 =>
        \/ /\ conn.request.body = Binary
           /\ \E f \in DOMAIN Templates(Configured) : "body" \in ToSet(Templates(Configured)[f])
        \/ \E k \in RouteKeys(Configured) : Bracketed(server.values[k])
        \/ ~IsMethod(Meant.method) \/ ~ParsesAsUrl(Meant.base)
        \/ \E part \in {"url", "header"} : Starts(Upstream(Meant)[part]) # {}
        \/ "body" \in DOMAIN Templates(Configured) /\ Starts(Meant.body) # {}
=============================================================================
