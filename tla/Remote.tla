------------------------------- MODULE Remote -------------------------------
(***************************************************************************)
(* vaultick --remote: one command carried out on another host.  The client *)
(* packs the command, its standard input and its files into one request,   *)
(* sends it through ssh to vaultick remote-stdio, and only then reads the  *)
(* response.  The host either runs itself as a child with the arguments of *)
(* the request, or carries out a secret operation in its own process.      *)
(*                                                                         *)
(* The child that imports an env file is EnvImport, the look-up of a key   *)
(* on the host is KeyDiscovery, what travels and is stored is Payload.     *)
(* A behaviour is one call; others use the database all the while.         *)
(***************************************************************************)
EXTENDS Payload, Sequences, FiniteSets, SequencesExt

CONSTANTS
    Commands,           \* what is typed: see MCRemote
    ClientFiles,        \* the files of the client, by their paths
    ClientWorkspace, HostWorkspace,     \* VAULTICK_WORKSPACE here and there
    NoWorkspace, DefaultWorkspace,
    HostHome, NoHome,                   \* VAULTICK_HOME of the host
    Keys, NoValue, Values, Normal, Invalid, EnvFiles,               \* EnvImport
    Names, IdRsa, PublicKeys, NoFile, Unusable, NoKey, MaxCerts,    \* KeyDiscovery
    Nothing,            \* no address, no command, no input or output
    Blocks,             \* a request, a response, a standard input: so many writes
    Capacity,           \* of every pipe
    MaxFaults           \* bound: kills and losses of the connection

ASSUME BlocksAssumption ==
    /\ Blocks \in Nat \ {0} /\ Capacity \in Nat \ {0}
    /\ MaxFaults \in Nat /\ MaxCerts \in Nat

ASSUME KeysAssumption ==
    /\ IdRsa \in Names /\ NoFile \notin PublicKeys
    /\ \A key \in DOMAIN Normal : Normal[key] \in Keys \cup {Invalid}

\* What a secret may hold: a plain value, or a file that was compressed.
Payloads == UNION {{AsIs(c), Compressed(c)} : c \in Contents}

ASSUME ValuesAssumption ==
    /\ NoValue \notin Payloads
    /\ Values \subseteq Payloads
    /\ EnvFiles \subseteq Seq([key : DOMAIN Normal, value : Payloads])

Levels == Int \cup {NoLevel}

\* What the parser of the arguments lets pass.
ASSUME CommandsAssumption ==
    \A cmd \in Commands :
        /\ cmd.key \in Keys /\ cmd.flags.level \in Levels /\ cmd.level \in Levels
        /\ DOMAIN cmd.paths \subseteq {"--env-file", "--cert", "--rewrap-from-key", "--file"}
        /\ "--file" \in DOMAIN cmd.paths <=> cmd.name = "set file"
        /\ "--env-file" \in DOMAIN cmd.paths <=> cmd.name = "import"
        /\ cmd.name = "set file" =>
              ClientFiles[cmd.paths["--file"]] \in Contents \cup {NoFile}
        /\ cmd.name = "import" =>
              ClientFiles[cmd.paths["--env-file"]] \in EnvFiles \cup {NoFile}
        /\ cmd.name = "set stdin" =>
              cmd.stdin # Nothing /\ \E c \in Contents : cmd.stdin = AsIs(c)

VARIABLES
    client,     \* the command on this side
    link,       \* ssh: its two pipes, whether it runs, and its exit status
    server,     \* remote-stdio
    child,      \* the command on the host
    temp,       \* the temporary files of the host
    output,     \* the file that --output names
    effect,     \* history: what has been done on the host, with which inputs
    faults,
    workspace, content, job,    \* of EnvImport
    certs, dir, lookup          \* of KeyDiscovery

Imp == INSTANCE EnvImport WITH Procs <- {"child"}, Files <- EnvFiles
K == INSTANCE KeyDiscovery

store == <<workspace, content, job>>
keys == <<certs, dir, lookup>>
vars == <<client, link, server, child, temp, output, effect, faults, store, keys>>

NoRequest == [home |-> NoHome, workspace |-> NoWorkspace, command |-> Nothing,
              stdin |-> Nothing, files |-> <<>>, operation |-> [kind |-> "none"]]

\* What else the workspace holds is left out.
Touched(cmd) == IF cmd.name = "import" THEN Keys ELSE {cmd.key}

Init ==
    /\ \E cmd \in Commands :
        client = [pc |-> "idle", cmd |-> cmd, request |-> NoRequest, left |-> Blocks, got |-> 0,
                  outcome |-> "none"]
    /\ link = [alive |-> FALSE, up |-> 0, down |-> 0, status |-> "none"]
    /\ server = [pc |-> "off", got |-> 0, left |-> Blocks, code |-> 0, payload |-> NoValue]
    /\ child = [pc |-> "none", in |-> 0, got |-> 0, out |-> 0, prints |-> FALSE, code |-> 0]
    /\ temp = <<>>
    /\ output = Nothing /\ effect = <<>> /\ faults = {}
    /\ Imp!Init
    /\ \A k \in Keys \ Touched(client.cmd) : content[k] = NoValue
    /\ K!Init
-----------------------------------------------------------------------------
(* The client: prepare_remote_request *)

Cmd == client.cmd
Request == client.request

\* --remote, then VAULTICK_REMOTE, with the host's home after a colon; an
\* address without a host is an error.  Empty is an error.
ResolveRemote(cmd) ==
    {a \in {IF cmd.remote # Nothing THEN cmd.remote ELSE cmd.variable} : a.host}

ValidateRemoteMode(cmd) == ~cmd.db

OnlyLocal == {"exec", "request"}

\* What the host is to run: the words of the command without --remote.
StripRemoteArgs(cmd) ==
    [name |-> cmd.name, workspace |-> cmd.workspace, key |-> cmd.key, overwrite |-> cmd.overwrite,
     skip |-> cmd.skip, paths |-> [o \in DOMAIN cmd.paths |-> [at |-> "client", n |-> 0]]]

\* Mutant: every file gets the number of the first.
AllTheSame(files) == 1

PlaceholderOf(files) == Len(files) + 1

\* A placeholder takes the place of the path, the contents go along.
CaptureFileOption(request, cmd, option) ==
    IF option \notin DOMAIN cmd.paths THEN request
    ELSE [request EXCEPT
             !.command.paths[option] = [at |-> "placeholder", n |-> PlaceholderOf(request.files)],
             !.files = Append(@, ClientFiles[cmd.paths[option]])]

CaptureFiles(cmd, request) ==
    LET env == CaptureFileOption(request, cmd, "--env-file")
        cert == CaptureFileOption(env, cmd, "--cert")
    IN  CaptureFileOption(cert, cmd, "--rewrap-from-key")

\* Only the key and the file of such a command travel, not its arguments.
Operation(request, operation) ==
    [request EXCEPT !.command = Nothing, !.operation = operation]

SetPreparedFile(cmd, payload) ==
    [kind |-> "set", key |-> cmd.key, payload |-> payload, overwrite |-> cmd.overwrite]

\* Empty is an error.
PrepareRemoteRequest(cmd) ==
    LET readable == \A o \in DOMAIN cmd.paths : ClientFiles[cmd.paths[o]] # NoFile
        base(a) == [NoRequest EXCEPT !.home = a.home, !.workspace = ClientWorkspace,
                                     !.command = StripRemoteArgs(cmd), !.stdin = cmd.stdin]
    IN  {r \in UNION {
            IF cmd.name = "set file" THEN
                {Operation(base(a), SetPreparedFile(cmd, payload)) :
                    payload \in UNION {PrepareSecretPayload(ClientFiles[cmd.paths["--file"]], mode) :
                                  mode \in ResolveCompressionMode(cmd.flags, cmd.level)}}
            ELSE IF cmd.name = "get output" THEN
                {Operation(base(a), [kind |-> "get", key |-> cmd.key])}
            ELSE {CaptureFiles(cmd, base(a))} : a \in ResolveRemote(cmd)} :
         readable /\ ValidateRemoteMode(cmd) /\ cmd.name \notin OnlyLocal}

\* The workspace of a child is that of its arguments, of its environment, in
\* which the client's variable replaces the host's, or the default.
ChildWorkspace ==
    CASE Request.command.workspace # NoWorkspace -> Request.command.workspace
      [] Request.workspace # NoWorkspace -> Request.workspace
      [] HostWorkspace # NoWorkspace -> HostWorkspace
      [] OTHER -> DefaultWorkspace

OperationWorkspace ==
    IF Request.workspace # NoWorkspace THEN Request.workspace ELSE DefaultWorkspace

\* The variable of the request replaces the host's.
Home == IF Request.home # NoHome THEN Request.home ELSE HostHome
-----------------------------------------------------------------------------
(* The client: dispatch_remote_request *)

End(outcome) == client' = [client EXCEPT !.pc = "done", !.outcome = outcome]

\* The request is prepared and ssh started, unless either fails.
Dispatch ==
    /\ client.pc = "idle"
    /\ \/ PrepareRemoteRequest(Cmd) = {} /\ End("refused") /\ UNCHANGED link
       \/ PrepareRemoteRequest(Cmd) # {} /\ End("unsent") /\ UNCHANGED link
       \/ \E r \in PrepareRemoteRequest(Cmd) :
            /\ client' = [client EXCEPT !.pc = "sending", !.request = r]
            /\ link' = [link EXCEPT !.alive = TRUE]
    /\ UNCHANGED <<server, child, temp, output, effect, faults, store, keys>>

\* Nothing is read before everything is written; then ssh's stdin is closed.
Send ==
    /\ client.pc = "sending" /\ link.alive /\ link.up < Capacity
    /\ client' = [client EXCEPT !.left = @ - 1, !.pc = IF client.left = 1 THEN "waiting" ELSE @]
    /\ link' = [link EXCEPT !.up = @ + 1]
    /\ UNCHANGED <<server, child, temp, output, effect, faults, store, keys>>

\* ssh has ended: a broken pipe, whatever its stderr and its status say.
SendFails ==
    /\ client.pc = "sending" /\ ~link.alive
    /\ End("unsent")
    /\ UNCHANGED <<link, server, child, temp, output, effect, faults, store, keys>>

Receive ==
    /\ client.pc = "waiting" /\ link.down > 0
    /\ client' = [client EXCEPT !.got = @ + 1]
    /\ link' = [link EXCEPT !.down = @ - 1]
    /\ UNCHANGED <<server, child, temp, output, effect, faults, store, keys>>

ExitCode == IF server.code = 0 THEN "ok" ELSE "failed"

\* What goes to the output; empty is an error.
OutputBytes ==
    IF Cmd.no_uncompress THEN {server.payload.bytes} ELSE DecompressSecretPayload(server.payload)

\* ssh has ended and its output is complete.  It is no response when a login
\* shell has printed something first.
Ends ==
    /\ client.pc = "waiting" /\ ~link.alive /\ link.down = 0
    /\ \/ link.status = "error" /\ End("ssh failed") /\ UNCHANGED output
       \/ link.status = "zero" /\ End("invalid") /\ UNCHANGED output
       \/ /\ link.status = "zero"
          /\ IF server.payload = NoValue THEN End(ExitCode) /\ UNCHANGED output
             ELSE \/ \E bytes \in OutputBytes : output' = bytes /\ End(ExitCode)
                  \/ End("output failed") /\ UNCHANGED output
    /\ UNCHANGED <<link, server, child, temp, effect, faults, store, keys>>

ClientNext == Dispatch \/ Send \/ SendFails \/ Receive \/ Ends
-----------------------------------------------------------------------------
(* The host: handle_remote_stdio, execute_remote_request *)

\* Returning drops the guards of the temporary files, which removes them.
Dropped == [i \in DOMAIN temp |-> [temp[i] EXCEPT !.state = IF @ = "guarded" THEN "removed" ELSE @]]

\* Mutant: a failed request leaves by another way.
DroppedAfterSuccess(code) == IF code = 0 THEN Dropped ELSE temp

AfterReturn(code) == Dropped

Return(code, payload) ==
    /\ server' = [server EXCEPT !.pc = "answering", !.code = code, !.payload = payload]
    /\ temp' = AfterReturn(code)

\* sshd starts the program, if there is one.
Start ==
    /\ link.alive /\ server.pc = "off"
    /\ \/ server' = [server EXCEPT !.pc = "reading"]
       \/ server' = [server EXCEPT !.pc = "exited", !.code = 1]
    /\ UNCHANGED <<client, link, child, temp, output, effect, faults, store, keys>>

\* Nobody will write to the host any more.
Closed == ~link.alive \/ client.pc \notin {"idle", "sending"}

\* Mutant: the end of the input ends the request.
WhateverCame == server.got = Blocks \/ (Closed /\ link.up = 0)

\* read_exact has read every length that the header announced.
Complete == server.got = Blocks

ReadBlock ==
    /\ server.pc = "reading" /\ ~Complete /\ link.up > 0
    /\ server' = [server EXCEPT !.got = @ + 1]
    /\ link' = [link EXCEPT !.up = @ - 1]
    /\ UNCHANGED <<client, child, temp, output, effect, faults, store, keys>>

\* The input ends too early.
ReadFails ==
    /\ server.pc = "reading" /\ ~Complete /\ link.up = 0 /\ Closed
    /\ server' = [server EXCEPT !.pc = "exited", !.code = 1]
    /\ UNCHANGED <<client, link, child, temp, output, effect, faults, store, keys>>

\* The version of the protocol may be another one.
Accept ==
    /\ server.pc = "reading" /\ Complete
    /\ \/ Return(1, NoValue)
       \/ /\ server' = [server EXCEPT
                           !.pc = IF Request.operation.kind # "none" THEN "operation" ELSE "files"]
          /\ UNCHANGED temp
    /\ UNCHANGED <<client, link, child, output, effect, faults, store, keys>>

\* TempFileGuard::write.  There is no guard yet when the write or the mode
\* fails, so that what has been written stays.
WriteTempFile ==
    /\ server.pc = "files" /\ Len(temp) < Len(Request.files)
    /\ LET file(state) == [contents |-> Request.files[Len(temp) + 1], state |-> state]
       IN  \/ temp' = Append(temp, file("guarded")) /\ UNCHANGED server
           \/ \E left \in {<<>>, <<file("orphan")>>} :
                /\ server' = [server EXCEPT !.pc = "answering", !.code = 1]
                /\ temp' = AfterReturn(1) \o left
    /\ UNCHANGED <<client, link, child, output, effect, faults, store, keys>>

\* current_exe is spawned with pipes, or cannot be.
Spawn ==
    /\ server.pc = "files" /\ Len(temp) = Len(Request.files)
    /\ \/ /\ server' = [server EXCEPT !.pc = IF Request.stdin = Nothing THEN "collecting" ELSE "feeding"]
          /\ child' = [child EXCEPT !.pc = "starting"]
          /\ UNCHANGED temp
       \/ Return(1, NoValue) /\ UNCHANGED child
    /\ UNCHANGED <<client, link, output, effect, faults, store, keys>>

\* The standard input is written before any output is read, and closed.
Feed ==
    /\ server.pc = "feeding" /\ child.pc # "ended" /\ child.in < Capacity
    /\ child' = [child EXCEPT !.in = @ + 1]
    /\ server' = [server EXCEPT
                     !.pc = IF child.in + child.got + 1 = Blocks THEN "collecting" ELSE @]
    /\ UNCHANGED <<client, link, temp, output, effect, faults, store, keys>>

\* The child has ended without reading: a broken pipe.
FeedFails ==
    /\ server.pc = "feeding" /\ child.pc = "ended"
    /\ Return(1, NoValue)
    /\ UNCHANGED <<client, link, child, output, effect, faults, store, keys>>

\* Mutant: the exit of the child is awaited before its output is read.
AfterItsEnd == child.pc = "ended"

MayCollect == TRUE

Collect ==
    /\ server.pc = "collecting" /\ child.out > 0 /\ MayCollect
    /\ child' = [child EXCEPT !.out = @ - 1]
    /\ UNCHANGED <<client, link, server, temp, output, effect, faults, store, keys>>

Collected ==
    /\ server.pc = "collecting" /\ child.pc = "ended" /\ child.out = 0
    /\ Return(child.code, NoValue)
    /\ UNCHANGED <<client, link, child, output, effect, faults, store, keys>>

Answer ==
    /\ server.pc = "answering" /\ link.alive /\ link.down < Capacity
    /\ link' = [link EXCEPT !.down = @ + 1]
    /\ server' = [server EXCEPT !.left = @ - 1, !.pc = IF server.left = 1 THEN "answered" ELSE @]
    /\ UNCHANGED <<client, child, temp, output, effect, faults, store, keys>>

AnswerFails ==
    /\ server.pc = "answering" /\ ~link.alive
    /\ server' = [server EXCEPT !.pc = "exited"]
    /\ UNCHANGED <<client, link, child, temp, output, effect, faults, store, keys>>
-----------------------------------------------------------------------------
(* The host: execute_remote_secret_operation *)

Operating == server.pc = "operation"
Op == Request.operation

Did(space, what) == effect' = <<Home, space>> \o what

\* No home, no database, or the default workspace is gone.
OperationFails ==
    /\ Operating /\ lookup.pc = "idle"
    /\ Return(1, NoValue)
    /\ UNCHANGED <<client, link, child, output, effect, faults, store, keys>>

\* set_secret_prepared_bytes_owned (Vault).
MaySet(key, overwrite) == workspace = "open" /\ (overwrite \/ content[key] = NoValue)

SetPrepared ==
    /\ Operating /\ Op.kind = "set" /\ Home # NoHome
    /\ MaySet(Op.key, Op.overwrite) /\ ValidateCompressionMetadata(Op.payload)
    /\ content' = [content EXCEPT ![Op.key] = Op.payload]
    /\ Did(OperationWorkspace, <<"set", Op.key, Op.payload>>)
    /\ Return(0, NoValue)
    /\ UNCHANGED <<client, link, child, output, faults, workspace, job, keys>>

Serves == content[Op.key] # NoValue
Consistent(cs) == workspace = "open" <=> cs # <<>>

GetRaw ==
    /\ Operating /\ Op.kind = "get" /\ Home # NoHome
    /\ \/ workspace = "missing" /\ K!ListFails
       \/ /\ workspace # "missing" /\ lookup.pc = "idle"
          /\ \E cs \in K!Certificates(MaxCerts), d \in K!Directories :
                 Consistent(cs) /\ K!List(cs, d, Serves)
       \/ K!Probe \/ K!EndProbe \/ K!Try \/ K!Read(Serves)
    /\ effect' = IF lookup'.pc = "found"
                 THEN <<Home, OperationWorkspace, "get", Op.key, content[Op.key]>> ELSE effect
    /\ CASE lookup'.pc = "found" -> Return(0, content[Op.key])
         [] lookup'.pc = "failed" -> Return(1, NoValue)
         [] OTHER -> UNCHANGED <<server, temp>>
    /\ UNCHANGED <<client, link, child, output, faults, store>>

ServerNext ==
    \/ Start \/ ReadBlock \/ ReadFails \/ Accept \/ WriteTempFile \/ Spawn \/ Feed \/ FeedFails
    \/ Collect \/ Collected \/ Answer \/ AnswerFails \/ OperationFails \/ SetPrepared \/ GetRaw
-----------------------------------------------------------------------------
(* The child: vaultick with the arguments of the request *)

Args == Request.command
Exit(code) == child' = [child EXCEPT !.pc = "ended", !.code = code]

\* The database is opened and the workspace resolved before anything is read.
ChildOpens ==
    /\ child.pc = "starting"
    /\ \/ Home # NoHome
          /\ child' = [child EXCEPT !.pc = IF Request.stdin = Nothing THEN "running" ELSE "reading"]
       \/ Exit(1)
    /\ UNCHANGED <<client, link, server, temp, output, effect, faults, store, keys>>

ChildReads ==
    /\ child.pc = "reading" /\ child.in > 0
    /\ child' = [child EXCEPT !.in = @ - 1, !.got = @ + 1]
    /\ UNCHANGED <<client, link, server, temp, output, effect, faults, store, keys>>

\* Its input ends when nobody can write to it any more.
ChildHasRead ==
    /\ child.pc = "reading" /\ child.in = 0 /\ server.pc # "feeding"
    /\ child' = [child EXCEPT !.pc = "running"]
    /\ UNCHANGED <<client, link, server, temp, output, effect, faults, store, keys>>

\* A process that is killed while it writes leaves half of the input.
Stdin == IF child.got = Blocks THEN {Request.stdin} ELSE {AsIs(c) : c \in Contents} \ {Request.stdin}

\* The contents of a file named in the arguments; empty if it is not there.
Reads(option) == {temp[i].contents : i \in {Args.paths[option].n} \cap
                                           {j \in DOMAIN temp : temp[j].state # "removed"}}

\* One library call that succeeds, and a line about it; or an error.
Does(what) ==
    /\ Did(ChildWorkspace, what)
    /\ child' = [child EXCEPT !.prints = TRUE, !.pc = "ending"]
Fails == Exit(1) /\ UNCHANGED <<workspace, content, effect>>

DeleteSecret ==
    /\ Args.name = "delete"
    /\ IF content[Args.key] # NoValue
       THEN /\ Does(<<"delete", Args.key>>)
            /\ content' = [content EXCEPT ![Args.key] = NoValue] /\ UNCHANGED workspace
       ELSE Fails
    /\ UNCHANGED job

SetSecret ==
    /\ Args.name = "set stdin"
    /\ \E value \in Stdin :
        IF MaySet(Args.key, Args.overwrite)
        THEN /\ Does(<<"set", Args.key, value>>)
             /\ content' = [content EXCEPT ![Args.key] = value] /\ UNCHANGED workspace
        ELSE Fails
    /\ UNCHANGED job

\* A second reader needs a key that opens what there is (Vault), and any file
\* may hold something else.
AddCertificate ==
    /\ Args.name = "rsa add"
    /\ LET found == [o \in DOMAIN Args.paths |-> Reads(o)]
       IN  \/ /\ workspace # "missing" /\ \A o \in DOMAIN found : found[o] # {}
              /\ Imp!Present # {} => "--rewrap-from-key" \in DOMAIN found
              /\ Does(<<"add", found>>)
              /\ workspace' = "open" /\ UNCHANGED content
           \/ Fails
    /\ UNCHANGED job

\* The env file, and the import as EnvImport has it.
ImportStarts ==
    /\ Args.name = "import" /\ job["child"].pc = "idle"
    /\ IF Reads("--env-file") = {} THEN Exit(1) /\ UNCHANGED store
       ELSE \E file \in Reads("--env-file") :
                /\ Imp!Import("child", file, Args.overwrite, Args.skip)
                /\ IF job'["child"].pc = "failed" THEN Exit(1) ELSE UNCHANGED child
    /\ UNCHANGED effect

ImportWrites ==
    /\ Imp!Skip("child") \/ Imp!Set("child")
    /\ IF job'["child"].pc = "failed" THEN Exit(1) ELSE child' = [child EXCEPT !.prints = TRUE]
    /\ UNCHANGED effect

ImportEnds ==
    /\ Imp!Finish("child")
    /\ Did(ChildWorkspace, <<"import", job["child"].file>>)
    /\ Exit(0)

Runs ==
    /\ child.pc = "running" /\ ~child.prints
    /\ DeleteSecret \/ SetSecret \/ AddCertificate \/ ImportStarts \/ ImportWrites \/ ImportEnds
    /\ UNCHANGED <<client, link, server, temp, output, faults, keys>>

\* A line blocks the child when the pipe is full, and ends it when nobody can
\* read the pipe.
Prints ==
    /\ child.pc \in {"running", "ending"} /\ child.prints
    /\ LET goes == child.pc = "running" /\ server.pc = "collecting"
       IN  \/ child.out < Capacity /\ server.pc = "collecting"
              /\ child' = [child EXCEPT !.prints = FALSE, !.out = @ + 1,
                                        !.pc = IF goes THEN @ ELSE "ended"]
           \/ server.pc # "collecting" /\ Exit(1)
    /\ UNCHANGED <<client, link, server, temp, output, effect, faults, store, keys>>

ChildNext == ChildOpens \/ ChildReads \/ ChildHasRead \/ Runs \/ Prints
-----------------------------------------------------------------------------
(* Faults, and others *)

Fault(name) == Cardinality(faults) < MaxFaults /\ faults' = faults \cup {name}

\* The connection is lost: ssh ends here, the host only meets closed pipes,
\* and what was on its way may be lost.  A loss between the last block and an
\* operation of the host shows when the host answers.
ConnectionLost ==
    /\ link.alive /\ server.pc # "operation" /\ ~(server.pc = "reading" /\ Complete)
    /\ Fault("connection")
    /\ \E rest \in IF client.pc = "sending" THEN {0, link.up} ELSE {0} :
        link' = [link EXCEPT !.alive = FALSE, !.status = "error", !.up = rest]
    /\ UNCHANGED <<client, server, child, temp, output, effect, store, keys>>

\* A kill during an operation shows when the host should answer.
ServerKilled ==
    /\ server.pc \notin {"off", "operation", "answered", "exited", "killed"} /\ Fault("server")
    /\ server' = [server EXCEPT !.pc = "killed"]
    /\ UNCHANGED <<client, link, child, temp, output, effect, store, keys>>

ChildKilled ==
    /\ child.pc \notin {"none", "ended"} /\ Fault("child")
    /\ Exit(1)
    /\ UNCHANGED <<client, link, server, temp, output, effect, store, keys>>

\* ssh ends with the status of the remote command.
HangUp ==
    /\ link.alive /\ server.pc \in {"answered", "exited", "killed"}
    /\ link' = [link EXCEPT !.alive = FALSE,
                            !.status = IF server.pc = "answered" THEN "zero" ELSE "error"]
    /\ UNCHANGED <<client, server, child, temp, output, effect, faults, store, keys>>

\* Others use the database: what they do matters while a child or a look-up
\* reads it, any earlier state of it being an initial one.
OthersSet ==
    /\ child.pc = "running" /\ job["child"].pc = "writing"
    /\ Imp!Other
    /\ UNCHANGED <<client, link, server, child, temp, output, effect, faults, keys>>

OthersChangeKeys ==
    /\ K!Active
    /\ \/ /\ K!RsaAddAuto \/ K!RsaAdd \/ (K!RsaDelete /\ (certs' = <<>> => Imp!Present = {}))
          /\ UNCHANGED <<dir, content>>
       \/ K!FileChange /\ UNCHANGED <<certs, content>>
       \/ /\ certs # <<>> /\ UNCHANGED <<certs, dir>>
          /\ \E v \in Values \cup {NoValue} : content' = [content EXCEPT ![Op.key] = v]
       \/ /\ certs' = <<>> /\ content' = [k \in Keys |-> NoValue] /\ UNCHANGED dir
    /\ Len(certs') <= MaxCerts
    /\ workspace' \in IF certs' = <<>> THEN {"bare", "missing"} ELSE {"open"}
    /\ K!Witness(content'[Op.key] # NoValue)
    /\ UNCHANGED <<client, link, server, child, temp, output, effect, faults, job>>

Next ==
    \/ ClientNext \/ ServerNext \/ ChildNext \/ HangUp
    \/ ConnectionLost \/ ServerKilled \/ ChildKilled
    \/ OthersSet \/ OthersChangeKeys

Spec ==
    /\ Init /\ [][Next]_vars
    /\ WF_vars(ClientNext) /\ WF_vars(ServerNext) /\ WF_vars(ChildNext) /\ WF_vars(HangUp)
-----------------------------------------------------------------------------
(* Properties *)

\* docs/services/vaultick-cli.md: --workspace, then VAULTICK_WORKSPACE, then
\* default; remote mode is to do the same.
LocalWorkspace ==
    CASE Cmd.workspace # NoWorkspace -> Cmd.workspace
      [] ClientWorkspace # NoWorkspace -> ClientWorkspace
      [] OTHER -> DefaultWorkspace

\* The request carries the flag of a command, and the variable of an operation;
\* the variable of the host is in force when a command gets neither.
HostIsTold ==
    IF Cmd.name \in {"set file", "get output"} THEN Cmd.workspace = NoWorkspace
    ELSE Cmd.workspace # NoWorkspace \/ ClientWorkspace # NoWorkspace \/ HostWorkspace = NoWorkspace

\* What a command has to do on the host, said of the client's files.
Achieved(what) ==
    CASE Cmd.name = "delete" -> what = <<"delete", Cmd.key>>
      [] Cmd.name = "set stdin" -> what = <<"set", Cmd.key, Cmd.stdin>>
      [] Cmd.name = "set file" ->
            /\ what[1] = "set" /\ what[2] = Cmd.key
            /\ DecompressSecretPayload(what[3]) = {Plain(ClientFiles[Cmd.paths["--file"]])}
            /\ OriginalBytes(what[3]) = Size[ClientFiles[Cmd.paths["--file"]]]
      [] Cmd.name = "get output" ->
            /\ what[1] = "get" /\ what[2] = Cmd.key
            /\ output = IF Cmd.no_uncompress THEN what[3].bytes ELSE Plain(what[3].bytes.of)
      [] Cmd.name = "rsa add" ->
            what = <<"add", [o \in DOMAIN Cmd.paths |-> {ClientFiles[Cmd.paths[o]]}]>>
      [] Cmd.name = "import" -> what = <<"import", ClientFiles[Cmd.paths["--env-file"]]>>

\* A remote command that exits with 0 has been carried out on the host, in
\* the home and the workspace that were named, with the inputs of the client;
\* the output file holds the secret as the host had it, unpacked if asked.
SuccessMeansDone ==
    client.outcome = "ok" =>
        /\ effect # <<>>
        /\ \E a \in ResolveRemote(Cmd) :
            effect[1] = IF a.home # NoHome THEN a.home ELSE HostHome
        /\ HostIsTold => effect[2] = LocalWorkspace
        /\ Achieved(SubSeq(effect, 3, Len(effect)))

\* A command that could not be sent does nothing on the host, then or later,
\* however much of it has arrived; one that the host reports as failed has
\* done nothing but write some entries of an env file, unless its process was
\* killed.  Without a success the output file is left alone.
FailureMeansUndone ==
    /\ client.outcome \in {"refused", "unsent"} => effect = <<>> /\ job["child"].pc = "idle"
    /\ client.outcome = "failed" => effect = <<>> \/ "child" \in faults
    /\ client.outcome \notin {"ok", "output failed"} => output = Nothing

\* The design document: temporary files are deleted after the command.  Every
\* file that was sent is there, with its contents, as long as the child may
\* read it, also when remote-stdio has been killed; and none that has a guard
\* is left when remote-stdio answers.
TempFilesLastAsLongAsTheChild ==
    /\ child.pc \in {"starting", "reading", "running"} =>
        \A i \in DOMAIN Request.files :
            temp[i].contents = Request.files[i] /\ temp[i].state # "removed"
    /\ server.pc \in {"answering", "answered", "exited"} =>
        \A i \in DOMAIN temp : temp[i].state # "guarded"

\* Pipes of bounded size and two processes that write before they read never
\* block each other: the call ends, whatever is killed or lost.
RemoteCallEnds == <>(client.pc = "done")

\* remote-ssh-design.md: remote mode should support VAULTICK_WORKSPACE and
\* --workspace the same way local mode does.
RemoteWorkspaceIsLocal == effect # <<>> => effect[2] = LocalWorkspace

\* Of the components, on the host.
LookupFailsForAReason == K!LookupFailsForAReason
DoneIsComplete == Imp!DoneIsComplete
UndisturbedIsAllOrNothing == Imp!UndisturbedIsAllOrNothing
ImportsKeepValues == Imp!ImportsKeepValues
=============================================================================
