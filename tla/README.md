# Vaultick, specified

A verification development kept beside the source of vaultick: TLA+ modules
that model the program, TLC runs over small instances, and TLAPS proofs of what
matters most for instances of any size. Paths and line numbers refer to the
repository (`src/`); `lib.rs` without a directory is
`vaultick-lib/src/lib.rs`.

## 1. The system

Vaultick keeps secrets in an SQLite file. A *workspace* holds RSA certificates
and secrets; each secret is sealed under a data key (DEK) of its own and the DEK
is wrapped once for every certificate of the workspace. There is no server that
owns the file: a command, the MCP server and the proxy are processes that open
it directly.

| Component | Keeps | Operations | Hard because |
|---|---|---|---|
| storage library (`lib.rs`) | tables workspaces, certificates, secrets, secret_recipients | create, delete, list, set, get, add/remove certificate | many processes, deferred transactions, reads outside a transaction, crashes, cascades |
| opening and migrations (`lib.rs:122`, `:697`) | the file, its schema and version, the default workspace | open | the path is looked up before the connection exists; schema and seed are separate autocommit statements |
| redaction (`vaultick-request/src/lib.rs:160`) | bytes held back, replacements | push a chunk, finish | a value cut over chunks, overlapping values, end of file, holding back too much |
| exec, by command and by MCP tool (`commands/mod.rs:529`, `runtime.rs:270`) | child, two pipes, two threads, collected output | start, read, wait, join | bounded pipes, threads that give up early, a child that leaves others behind, an output limit |
| env-file import (`commands/mod.rs:419`) | a listing of the keys, the entries left | parse, list, check, set one by one | the only command of several library calls; decides on a listing |
| MCP sessions (`vaultick-mcp`) | the table of sessions | initialize, dispatch, delete, event stream, shutdown | checked under a lock that is released before the dispatch |
| MCP tools (`services.rs`, `runtime.rs`), and the exec and request commands | a listing of the keys, a cache, what to redact | resolve, exec, request | values are read one by one after the listing, while others write; limits |
| proxy (`vaultick-proxy`) | routes and secrets read at start | start, forward one request, shut down | secrets read one by one at the start and kept, three passes over a template, upstream failure and timeout |
| remote mode (`commands/remote.rs`) | one ssh child on this side; `remote-stdio`, its child and its temporary files on the host | run a command on another host | four processes and bounded pipes between them; what an exit status tells when one of them dies; clean-up |
| key discovery (`lib.rs:503`, `:1066`) | key files in `~/.ssh`, the certificates of the workspace | the `_auto` calls | files and certificates that change between listing, probing, reading and opening |
| compression (`compression.rs`) | the columns `compression`, `original_size` | prepare, validate, decompress | a mode from three flags and a variable; payloads that travel prepared |
| pagination, tables of output, installer | nothing | pure functions over text or rows | boundaries |

The processes interact only through the file, so the modules of the library are
the core, and all else stands on them: `VaultTx` shows that a library call may
be taken as atomic, and the modules above the library take it so.

Properties that make each part correct:

- *Storage*: whoever holds a certificate opens every secret of the workspace and
  nobody else does; overwriting revokes; no secret is ever left without a key;
  references stay with their row; calls are atomic under any interleaving.
- *Opening*: whoever is past `open` finds the schema; a new database has the default
  workspace unless the open that created it broke off; one that was deleted is not seeded
  again.
- *Redaction*: leftmost-longest replacement of the whole input, whatever the
  chunks; nothing lost or repeated; nothing held back without need.
- *Exec*: the child is never blocked for good; the call ends; all that was written
  is returned; the limit is exact.
- *Secrets in exec and request*: every value handed out is redacted; one value per secret
  and call; none that is older than the call; nothing runs with a part of its environment.
- *MCP server*: tools run in open sessions only; a stream shows what is collected; the
  shutdown waits only for clients that stay, their upstreams and the children of exec calls.
- *Proxy*: what goes upstream, its method, URL, headers and body, is made of the templates
  with everything put in once; every secret in them is cut out of the response; a request is refused for a reason; what is served with is one
  snapshot of the start.
- *Import*: without `--overwrite` nothing is replaced; success is complete; left
  alone, all or nothing.
- *Remote mode*: a call that exits with 0 has been carried out, where and with what the
  client named; one that could not be sent does nothing, however much of it arrived; the
  temporary files are there as long as the child reads them and gone when the host has
  answered; every call ends.
- *Key discovery*: a reader who has the key, in its place, from beginning to end gets the
  secret.
- *Compression*: a payload comes back as the content it was made of and is listed with its size.

## 2. Modules

| Module | Models | Kind |
|---|---|---|
| `SharedStore` | what the library promises: who can read which value of which key | abstract specification |
| `Vault` | the four tables and every writing call, one action each | detailed; implements `SharedStore` |
| `VaultTx` | several processes, the SQL statements of each call, SQLite's locks | detailed; its committed tables implement `Vault` |
| `DbOpen` | `Vaultick::open` by several processes on one path | component |
| `Redactor` | the streaming matcher and what feeds it | component, with its reference definition (the whole input) as invariants |
| `Exec` | child, pipes, threads and caller | component |
| `Payload` | compression of files: the mode, what is sent, stored and read back | operators, with the round trip as their property |
| `KeyDiscovery` | one look-up of an `_auto` call, over files and certificates that change | component; an `INSTANCE` inside `Remote` |
| `EnvImport` | `secret set --env-file` against other processes | component over atomic library calls; an `INSTANCE` inside `Remote` |
| `Remote` | one `--remote` call: client, ssh, `remote-stdio` and its child | composition of `EnvImport` (what the child does), `KeyDiscovery` (what the host looks up) and `Payload` (what travels) |
| `SecretResolver` | how exec and request, as commands and as tools, turn placeholders into values | component over atomic library calls |
| `McpServer` | connections, the session table, tool calls, streams, graceful shutdown | component; `SecretResolver` and `Exec` are what happens inside a call |
| `Proxy` | the start of the proxy, its routes, one request after another | component over atomic library calls; `Redactor` is what happens to the response |
| `MC*` | constants of the runs | model checking |
| `VaultProofs`, `VaultTxProofs`, `DbOpenProofs`, `OutputProofs` (of `Redactor` and `Exec`), `SecretResolverProofs`, `McpServerProofs`, `ProxyProofs`, `RemoteProofs` | theorems | proofs |

### SharedStore, Vault

`workspaces`, `certificates`, `secrets` and `recipients` are the tables of
`migrations/0001_initial.sql` as sets of rows. Encryption is an envelope: a
wrapped DEK opens under the private key of its public key, a ciphertext under its
DEK and the key name it was sealed with (the associated data). A key pair is named by its public
key. `drawn` is what the random generator has given out; `handed` is a history of
every wrapped DEK ever stored, which is what the former holder of a key may have
kept. A UUID is assumed not to be drawn twice, and nobody is assumed to name a
workspace after a UUID *before* it is drawn; naming one after a UUID that exists
is allowed, and is what `ReferencesAreStable` is about. A call that fails rolls
back, so it is a stuttering step. The read calls are the operators
`ResolveWorkspace`, `ResolveCertificate`, `UnwrapSecretKey` and `GetSecret`.

`SharedStore` knows only workspaces, authorised keys and current values.
`Vault!ImplementsSharedStore` maps the tables to it: the authorised keys of a
workspace are the public keys of its certificates, and the value of a key what
every one of them gets from `GetSecret`.

### VaultTx

Each writing call is what its function does: the SELECTs and checks under a SHARED
lock (`Begin`), then the list of its statements, each applied to the transaction's
own copy of the tables (`Write`), then the commit. A statement that meets another
RESERVED lock fails at once, since SQLite does not call the busy handler on the
upgrade of a read lock; a commit waits for readers until the busy timeout. The
crash of a process loses its transaction (the hot journal). `WaitsFor(p)` is the set of
processes whose locks hold `p` up; that nobody is in it is the guard of every step that takes a
lock, and a statement may time out while somebody is. `get_secret` and
`create_workspace` run outside of a transaction, statement by statement. A workspace may be
named after a UUID once the UUID is committed, though not before (`CreateWorkspace`). The
behaviour of SQLite itself is external: it is taken from what rusqlite's defaults
(rollback journal, deferred transactions, 5 s busy timeout) make of these calls.

### DbOpen

`pc[p]` follows `open`: the look-up of the path, the connection, one action per
`CREATE TABLE`, the version, the seed. An open may break off at each point, because
the process dies or a statement waits longer than the busy timeout (`Crash`). The file may be
missing or stem from the release before the compression columns, with version 1 stamped on it.
What columns a file has is not modelled: they come with their table, and the repository
promises nothing of a table that is there already.

### Redactor

`offset`, `pending` and the output follow `Redactor`; `Push` is a chunk of any size,
`Finish` the end of the input, `Fail` an upstream error. The output is kept as the
list of decisions (copied byte or replaced value, with its place), so that the
invariants can compare it with the whole input. An input and a set of values are
chosen at the start.

### Exec

Sizes are in blocks after redaction; which bytes they are is `Redactor`'s business.
The child is in a write, or not; a pipe holds at most `Capacity`; a thread reads,
passes any part on and holds the rest, finishes at the end of file, or gives up
(the writer of the command failed, or the tool passed `Limit`) and closes its read
end. The caller waits for the child, then joins stdout, then stderr.

### EnvImport

One action for everything up to the first entry (flags, parsing, listing, conflict
check), one for each entry, one for the end; `Other` is any other command on the
workspace. `Remote` runs it as the host's child (`Procs <- {"child"}`), with the file that the
client sent. Two spellings may name one key and a file may repeat a key. A key that another
process sets after the listing makes an import with `--skip-existing` fail with the rest not
imported (`commands/mod.rs:445`), for `Set` then meets a key that `Skip` did not know of;
`docs/resources/secrets.md:78` promises to keep such keys and import the rest.

### Payload

`ResolveCompressionMode` is the choice from `--compress`, `--compress-level`,
`--no-compress` and `VAULTICK_COMPRESSION_LEVEL`, `PrepareSecretPayload` what becomes of a
file, `DecompressSecretPayload` and `OriginalBytes` what is read back and listed. zstd is
external: a content has a size and a packed size, and unpacking gives the content back if
the buffer of `original_size` bytes is long enough. An empty set of results is an error.

### KeyDiscovery

A look-up lists the certificates (`List`), asks for a file of each label in turn (`Probe`),
then for `id_rsa` if there was none (`EndProbe`), reads the candidates until one holds the
key of a listed certificate (`Try`), and opens the secret with it (`Read`). A label that is
empty is never a file name; the model has labels without a file instead. Between any two
steps others write, replace and remove files, add and delete certificates, and set and
delete the secret. `steady` is a history: the certificates whose key has been in the file of
its label, or in `id_rsa` with no file of any listed label, since the call began. Between
look-ups `certs` and `dir` are reset, as nobody looks at them.

### Remote

A behaviour is one call, from the words typed to its exit status. `effect` is what has been done
on the host: in which home, in which workspace, what. The client prepares the
request (`PrepareRemoteRequest`: the address, the commands that are refused, the files read
and replaced by placeholders, compression done on this side), writes all of it to ssh,
closes the pipe and only then reads the response and waits for ssh. On the host
`remote-stdio` reads the request completely, writes the temporary files one by one, spawns
itself with the arguments, writes the standard input, collects the output, waits, drops the
guards of the files and answers; a `secret set --file` or `secret get --output` it carries
out in its own process. Requests, responses and standard input are `Blocks` blocks; a pipe
holds `Capacity`. The child opens the database, reads its input, makes its library calls and
prints one line for each.

ssh and the operating system are external. ssh is two pipes and an exit status: that of the
remote command, or an error when the connection is lost. A loss discards any of what was on
its way to the host, and either of the host's processes may be killed at any moment, with
one exception: while `remote-stdio` carries out an operation itself a kill or a loss is not
noticed before the answer, so that it is modelled there. A process that is killed while it
feeds the child leaves it with a shorter input and an ordinary end of file.

Others use the database while the child or a look-up reads it; what they did before is in
the initial states. Of the workspace only the keys the command touches are kept. `delete`
stands for every command of one library call without input, such as those on workspaces.
Left out are `secret set --env-file -` over the remote standard input, and the commands that
change nothing. The certificates of `rsa add` are kept as far as an effect tells (which
contents were given for which option); that rewrapping is right is `Vault`'s business.

The host is told of the workspace by the flag of a command, or by the variable of an
operation (`HostIsTold`); `SuccessMeansDone` claims the workspace of those calls, and the run
`RemoteWorkspace` shows what becomes of the others.

### SecretResolver

One model for the two copies of the resolver (`commands/mod.rs:979`, `runtime.rs:30`):
`Begin` lists the keys and makes the resolver; then the placeholders are resolved one by
one, each by `FromCache` or by a `GetSecret` of its own, and `Assign` gives the finished
template to its variable, or its place in the HTTP request. A template is the sequence of
the keys it names; `Scan[k]` is what the scanner finds in the text `$k`. They differ in one
way: with `--all` the command reads each listed key directly, and the tool renders the
text `$KEY` (`runtime.rs:141`), so that for a key such as `A-1` it reads the placeholder `A`.
Such a key cannot be named in a template at all; the model has one. `Other` is any
command of another process. `used` and `seen` are histories: the values used, and
what each key was worth at some time since `Begin`.

### McpServer

`conn[c]` is a connection and the handler that runs on it: between its headers and its body
(`body`), dispatched, in `exec`, in a `request` that the handler awaits, answering with a
`streaming` request whose task runs on its own, or in an event stream. What a handler does
between two awaits is one action, and the session table is touched only under its mutex
within such an action. The loss of a connection drops the future of a handler that awaits,
and the call with it; the task of a stream was spawned and goes on; `exec` blocks
its handler (`block_in_place`) and does not notice that its client has left. hyper and axum are external, taken from how `main.rs` and
`routes.rs` use them: a graceful shutdown accepts nothing more, closes idle connections and
waits for the others; then the runtime drops the tasks that are left.

### Proxy

`Start` reads the configuration, lists the keys and validates the templates; `Load` is one
`get_secret` of `build_state`; `Serve` compiles the routes. Then the process keeps no
connection to the file. A request is accepted by the first route it matches (`Accept`), its
body is read (`RefuseBody`), the templates are rendered, joined and scanned for placeholders
once more (`Forward`), and the upstream answers, fails or is too slow (`Respond`, `Fail`).
The handlers share nothing but the routes, which never change, so that one request at a time
stands for any number. A text is a sequence of tokens, fine enough for the three passes: the
secrets at the start, the request's parts, the last scan of `ResolvedRequest::from_spec`.
All headers of a route are one, and so are all of a request.

`Upstream` is the request that `Forward` sends and `Refused` scans, its URL as a whole:
`UpstreamUrl` joins the rendered path to that of the base URL, drops the base URL's own query
and keeps its fragment, as `build_upstream_url` does. Which texts are URLs and how the url
crate writes their parts (dots in a path, the path of a bare host, percent signs) is external,
the constants `ParsesAsUrl` and `UrlPart`; the run has an instance that does each of it to a
few tokens, and the theorems hold for any. Likewise `MethodTokens` are what HTTP allows in a
method. A base URL is not looked at before a request comes, and a method template may render to
nothing, for instance where the header it names is absent: `Refused` answers such requests with
status 500. A header value that HTTP does not allow is found by reqwest only, when the request
is sent (`Fail`). The status 504 is that of the route's timeout or of the system's for a
connection.

The last scan finds no placeholder of the configuration any more, but it fails on anything that
looks like one: a `$name` in a query that `pass_query` hands on (OData's `?$filter=`), in the
tail of a path, in what a template copies, or in the value of a secret, ends the request with
status 500. Likewise the value of a secret with `{{` in it is taken for a template of the
request (in every field but the base URL). `RefusedForAReason` and `SentIsTheTemplate` name both, and
the former a method and a base URL that are none.

## 3. Runs

`CHECK_DEADLOCK FALSE` stands where the bound of the instance or the program really
ends: random values run out (`MCVault`), the opens are used up (`DbOpen`), the
input has been read (`MCRedactor`), the call has ended (`Exec`, `MCRemote`), the server has
stopped (`McpServer`). A call of `MCRemote` that hangs would not be reported as a deadlock then;
`RemoteCallEnds` is there to find it.

| Run | Instance | Shows |
|---|---|---|
| `Vault` | two workspaces (one may be named after the id of the other), two key pairs, two keys in two spellings, two values, 6 UUIDs, 3 DEKs | readers and values agree with `SharedStore`; every certificate opens every secret and nothing else does; the last key is refused exactly when it would orphan a secret; overwriting revokes; references are stable; the inductive invariant of the proofs, from which types, cascades and the absence of orphans follow (proved, not run on their own) |
| `VaultTx` | two processes, one workspace, one key, two key pairs, two values, 4 UUIDs, 3 DEKs, crashes and timeouts | the committed tables take only steps of `Vault`; a read returns a value of some moment of it, and fails only for a timeout, a key that did not open the secret at some moment of it, or a secret set anew meanwhile; no processes wait for one another in a circle |
| `VaultTxRead` | as `VaultTx`, with 5 UUIDs and 2 DEKs | **violated**: `get_secret` reads ciphertext and wrapped keys in two statements; an overwrite in between makes an authorised read fail |
| `DbOpen` | three processes, four opens, each of which may break off, fresh or old file | the schema is complete after every open; a deleted default stays deleted; a default that is there or due is lost only to a deletion, or in the step in which the open that found no file breaks off |
| `DbOpenCrash` | one process, crashes | **violated**: a process that dies between creating the file and seeding it leaves a database without default workspace for good (a second process that opens meanwhile sees the same) |
| `Redactor` | every input up to six bytes over two letters, every chunking, eight sets of overlapping values | the output is the leftmost-longest replacement; nothing is lost, repeated or held back without need |
| `Exec` | pipes of 2, limit 2, five writes over both streams, both callers | result complete, limit exact, child never stuck, call ends |
| `SecretResolver` | one caller, two keys, two values and the empty one, four requests by command and by tool, any writes of others between two steps | every value handed out is redacted; one value per key in a call; no value older than the call; what runs has every name it was asked for |
| `McpServer` | two connections, two sessions, two protocol versions, a limit of one block and two blocks upstream | tools run in open sessions only; streams keep the limit; the shutdown waits for nobody but clients that stay, their upstreams and the children of exec calls |
| `Proxy` | two keys one of which begins with the other, three values (one empty, one that looks like a template), five configurations of up to two routes, ten requests | the method, URL, headers and body that go upstream are made of the templates with everything put in at once; the secrets are redacted; a request fails for a reason; one snapshot of the start |
| `Remote` | two blocks over pipes of one, one kill or loss, two contents (one that zstd shrinks and one that it does not), five env files, two keys in three spellings, two key pairs, two key files, two certificates; 50 command lines of seven commands | a call that exits with 0 was carried out with the client's inputs, and in its workspace if the host was told of it; a failure leaves nothing done; temporary files last as long as the child; every call ends; a look-up fails only for a reason; an import keeps values without `--overwrite`, is complete when it succeeds and all or nothing when left alone |
| `RemoteWorkspace` | as `Remote`, with `--workspace` on the commands that the host carries out itself | **violated**: they go to the default workspace |

Why the bounds are enough. A flaw of `Vault` shows with two of everything: a key that ought
not to open against one that ought to, a workspace against another, a value overwritten
once. Six UUIDs allow two workspaces, two certificates and two secrets at once; three DEKs a
secret overwritten beside another. Locks are between pairs of processes, and a circle of
waiting needs no more than two; four UUIDs are its workspace, two certificates and a secret, and
three DEKs let a secret be set anew twice during one read. In `DbOpen` one process creates, one meets the half-made
file, a third comes late. In `Redactor` values of up to three bytes in inputs of six give
each way in which two values can be nested, overlap or be cut twice. In `Exec` a pipe of two
can be empty, partly and completely full, and five writes fill both pipes or pass the limit
and fill the pipe again. In `SecretResolver` callers share nothing but the workspace, so
that `Other` stands for all of them but one; a template names a key twice around another, an
item overrides an earlier one and a bad name follows a good one. In `Remote` two blocks are
the least with a middle, where a request can be cut, and a pipe of one is full after one
write; two lines of output fill the pipe of the child; one fault of each kind at each point
shows what the others conclude, and each process has only one peer to conclude it from. Two
key files are a label and `id_rsa`, two certificates one that fits and one that does not; a
directory with a third file has been explored too (5.5 million states of the look-up alone,
too long for a run), and the theorem has any number. In `Proxy` the configurations have a
route with and without each template, a key in the body alone, a key that is not listed and
a placeholder where none is allowed; a base URL with a path and a query of its own, one with a
fragment, one that is a secret and comes out as no URL if the secret is empty; and a method
that is a header. The requests have `$` names in each part, bodies that are no text, dots in
their path, a header that is no method, and a letter that would continue the name before it.
Each reason of `RefusedForAReason` is the only one for some request. In `McpServer` one
connection deletes or initializes while another is between its headers and its body, and the
second block is the one that exceeds the limit.

### Fairness

- `McpServer`: weak fairness of `Stop` and of what a handler or the accept loop does of
  itself (`Serve`): tokio schedules them. A client, a child or an upstream is never
  forced to act, so that `ShutdownEnds` allows for waiting for them for ever: an open
  event stream keeps the server from stopping, and so does a call of a client that stays, for
  neither exec nor the tool's request has a timeout unless the request names one. A call of exec
  does so even when its client has left, for as long as its child runs (`WaitsForOthers`).
- `VaultTx` states no fairness: SQLite's busy handler polls, and which of two waiting
  processes gets a lock is nobody's promise. `NobodyWaitsInACircle` says what is left to
  the program: in every group of processes one waits for no other of the group.
- `Remote`: weak fairness of the client, of `remote-stdio`, of the child and of ssh's end
  (`HangUp`) each: all four are processes the kernel schedules, and ssh ends when the remote command
  has ended. Faults and other users are never forced, so that `RemoteCallEnds` says that the
  call ends whether or not anything breaks; none of the four waits for a person, for
  standard input has been read before.
- `Exec`: the caller and each thread are scheduled, and the kernel completes a write
  that has room or a closed reader. Nothing makes the child exit or write,
  nor a process it left end: `CallEnds` starts from their end.

## 4. Proofs

All constants are arbitrary but for the named assumptions, which TLC evaluates in the runs.

- `VaultProofs`. `IInv` is `TypeOK`, the constraints of the schema (`LiveRows`, uniqueness),
  and `ExactRecipients`: a secret has exactly one recipient row per certificate of its
  workspace, holding its own DEK for that certificate's key, together with the freshness of
  what is drawn (each stored DEK belongs to one sealing). Exactness is what makes it
  inductive: "every certificate opens" is not preserved by adding a certificate unless the
  rewrapping key is known to open all, and "nobody else opens" not by removing one unless
  its rows are the only ones. One lemma per operation.
- `OutputProofs`. The matcher decides on the bytes pushed so far; the proof is that each
  decision is the one the whole input would give: a longer match, or a match that begins
  earlier, would have been a reason to wait. `IInv` ties the decisions to offsets that tile
  the input. For `Exec` it is conservation: what a pipe ever accepted is in the pipe, in the
  matcher or in the output while its thread reads, and in the output with no writer left
  once it has finished. The caller's position tells which threads have finished. That the child
  is never stuck (`WritesAlwaysReturn`): a full pipe is input for its thread, whose next read
  makes room or closes the pipe; nobody else writes while the child does, so that room stays
  until the write returns.
- `VaultTxProofs`. `VaultTx` implements `Vault`, for any number of processes
  (`CallsAreSerialised`). The invariant says of each transaction that the statements it has
  left lead from its copy of the tables to those of a call of `Vault` made *now*, unless one
  of them is rejected (`Leads`, `Leaders`). A statement takes one step on that way,
  rollbacks drop it, and a commit reaches its end; a commit cannot spoil the way of another
  transaction since it waits until there is none. `Draws` keeps what is drawn distinct
  between calls, and the single statement of `create_workspace` is treated apart
  (`Creates`). As every commit is a step of `Vault`, the invariant of `VaultProofs` holds of
  the committed tables, and what is proved of atomic calls holds of interleaved ones: exactly
  the authorised keys open the secrets (`ReadersReadAlways`), the tables implement
  `SharedStore` (`StoreIsShared`), a commit seals for nobody who is not authorised in the
  tables it commits (`WritesShutFormerReadersOut`), references are stable
  (`ReferencesStable`). For `ReadsAreCurrent`, a read has seen what its key is worth in the
  present tables and the row it has read (`Reading`), with the sealed record and not the bytes
  alone: a row that was seen and still stands is the same sealing, so that its wrapped keys
  fit, and one that was replaced is a new sealing (`SealedAnew`), the one excuse of a failure.
  For `NobodyWaitsInACircle`, whoever is waited for holds a lock, and waits itself only at its
  commit, with the RESERVED lock that at most one process has (`OneWriter`).
- `DbOpenProofs`. Whoever is past the tables has been preceded by complete tables, the count
  of which never falls; whoever found the path missing did so before any user could have deleted the
  default. Two theorems mark the boundary of finding 2: only a deletion by a user, or the end of
  an open that is to seed, takes away a default that is there or due
  (`OnlyACrashLosesTheDefault`), and where no open breaks off, whoever is past it
  finds the default unless it was deleted or its creator is still at it (`DefaultIsSeeded`).
- `SecretResolverProofs`. What is cached was used, what was used is still cached, and what
  is cached is redacted; a call that is resolving has seen what each key is worth now.
  `OneValuePerKey` follows because the cache is a function, `ValuesAreFresh` from the
  second. For `RunsWithEverything` (`Progress`): what is still to be done is the end of the
  list of items, and each item before that end is in the environment or is overridden by a
  later one.
- `McpServerProofs`. A session in the table was drawn and not deleted; a request that is
  late names a deleted session. Since ids are not drawn twice, a session that is found under
  the lock cannot be one that was gone when the request came. For the shutdown, `Phase(c)` is
  how far a connection is on its way to be closed. It never falls while the server stops and
  rises with each step of the server, and in every other phase the connection waits for
  others or is closed (`ConnectionsSettle`, `ShutdownIsGraceful`).
- `ProxyProofs`. For `SnapshotIsRedacted` (`ProxyIInv`): what has been loaded was seen since
  the start, and while the process starts it sees whatever a key is worth; routes are
  compiled once, from these values. For `SentIsTheTemplate` and `RefusedForAReason`
  (`ConnIInv`): while a request is served, what was sent or refused is what its route and
  its client say. The rest is about texts. The first pass replaces each `$NAME` of the
  template, the second each part of the request, the third only looks whether a `$NAME` is
  left. The second pass replaces token by token, and it does not matter whether that happens
  before pieces are joined or after (`EachFlatten`), so that the two passes are one
  (`PassesAreOne`) unless a secret holds what the second pass looks for. The texts being equal,
  so is the request made of them, whatever `UrlPart` does, and what is scanned of it.
- `RemoteProofs`. `PayloadsRoundTrip` is by cases of the mode. The invariant of `Remote`
  (`IInv`) follows a failure from where it arises to where it is reported: the blocks the
  host has read and those in the pipe are no more than the client has written, and nothing
  begins before the host has them all, so that a client that could not write its last block
  knows that nothing has begun (`Begun`); a code other than 0 is handed from the child to
  `remote-stdio`, to ssh and to the client only if nothing was done or the child was killed
  (`CodesTell`, with `Paired` for how far the child can be). `Guarded` says that files are
  written in the order of the request, and that none is dropped before the child has ended,
  even if `remote-stdio` is killed. For the look-up of a key (`LookupInv`): while a steady
  file of a label has not been tried it is among the labels to be probed or the candidates;
  while a steady `id_rsa` counts, no listed label has a file and so no candidate comes
  before it. Others can only shrink what is steady, which the history records. That nothing
  else moves during a look-up comes from `IInv`: there is no child while the host carries
  out an operation itself. For the import (`StoreInv`): the child has the file of the
  client, since the placeholder of an option leads back to what was captured for it
  (`RequestInv`); what is left to do is the end of the parsed entries, each entry before
  that end was written or was to be skipped, nothing else was written (`Progress`), and as
  long as nobody has disturbed the import, the keys listed and those written are the keys
  that exist (`Alone`). What `ParseEnvFile` returns, one entry per key with the value of its
  last line, is proved for files of any length. For a success (`SuccessInv`): blocks of the
  standard input are neither lost nor made, so that a child that has read to the end of an
  undisturbed pipe has it all (`StdinSent`); a child or a host that ends with 0 has left the
  effect of the command that was typed (`HostResults`), and the client takes code and output
  from such an answer only (`ClientResult`).

Induction. What a recursive function computes, `FlattenSeq` in `Proxy` or `ParseEnvFile`, is
proved by infinite descent: the set of lengths at which the claim fails would have a least
element, by the library's theorems about well-founded orders (`LeastNumber`), which take a
set where its induction principles take a predicate.

Liveness. The prover knows nothing of ENABLED, which the fairness of the specifications is
made of. The theorems about liveness write fairness out with the guards of the actions
(`WritesReturn`, `ThreadReads`, `IsServed`, `StopIsFair`): for ever again the guard is false, or
for ever again the action is taken. With the guards as they are this is weak fairness, for each
of these actions changes some variable. The other limit is induction over temporal formulas, as
in "a pipe is emptied block by block". `ShutdownEnds` needs it in one place only, where
connections that are closed one by one are closed together; of a finite set that is a truth of
logic, and `ShutdownIsGraceful` has it as the hypothesis `ConnsAreFinite`.

Only model-checked: `CallEnds`, where pipes of any size are emptied, and `RemoteCallEnds`, where
requests and responses of any size are passed on; both are such inductions, and the second is
under the fairness of actions that are instances of another module. Every invariant and every
action property of a passing run is a theorem. The three runs that expect a violation have
none, of course; what holds in spite of the violation is proved beside them (`ReadsAreCurrent`,
`DefaultIsSeeded`, and `SuccessMeansDone` for the calls whose host is told of the workspace).

What the theorems assume of the constants is what the code grants: keys are normalised or
invalid, names of options and of commands are those the parser of the arguments lets pass,
texts are sequences of tokens, markers for "none" are not values.

## 5. Where the code and its promises differ

1. `get_secret` is not atomic (`lib.rs:551`, `:557`): a legal read may fail while a secret is
   overwritten. Run `VaultTxRead`. It fails for no other reason (`ReadsAreCurrent`).
2. The default workspace is not seeded when the creating process dies, or when a second
   one opens, between `Connection::open` and the INSERT (`lib.rs:125`, `:702`). Run `DbOpenCrash`.
3. `--workspace` is not sent with `secret set --file` and `secret get --output`
   (`commands/remote.rs:214`, `:237`, `:282`, `:660`): the host uses `VAULTICK_WORKSPACE` of
   the client or `default`, whatever the flag says, where `docs/services/vaultick-cli.md`
   puts the flag first and
   `docs/superpowers/specs/2026-05-26-vaultick-remote-ssh-design.md:172` wants the same of
   remote mode. Run `RemoteWorkspace`.

Met while modelling, in the models, and without a run of their own:

- `0002_secret_compression.sql` is never run; the first migration stamps version 2 on an old
  table (`lib.rs:26`), which keeps its columns. (The
  columns are not in `DbOpen`.)
- The client writes the whole request before it reads anything (`commands/remote.rs:342`). When ssh
  ends meanwhile it reports a broken pipe, and ssh's message and status are lost (`SendFails`).
- A temporary file whose write or change of mode fails has no guard yet, and stays
  (the state `orphan`).
- A `remote-stdio` that is killed while it feeds its child makes the child store the part of
  the value that came (`Stdin`).
- A secret operation does not look at the host's `VAULTICK_WORKSPACE`, which a child of the
  same request inherits (`OperationWorkspace`, `ChildWorkspace`).
- `id_rsa` is tried only when no label has a file, so that a file of a label that holds another
  key hides it (`Fallback`).
- An invalid level in the environment is found only when the file has been read
  (`commands/mod.rs:656`), and checks of flags that exclude one another are not made in remote mode.

## 6. Not modelled, and the plan

In this order:

1. Pages of a listing that are taken while others write.
2. A remote import from standard input, composed with the feeding of the child.
3. The filtering of response headers in the proxy, which pass unredacted.

Templates are modelled where they are used (`SecretResolver`, `Proxy`), text by text; the
scanner itself is a function without state, each case of which has a unit test. The
execution of a request over HTTP awaits one response; the streaming of its body is in `Redactor`.

Left out for good: layout of tables and JSON, logging, argument parsing, the cryptographic
primitives (taken as ideal), zstd, reqwest and axum beyond how they are used, the
installer and the release script.
