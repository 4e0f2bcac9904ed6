---------------------------- MODULE RemoteProofs ----------------------------
(* Remote calls, for every command, number of blocks, capacity of the pipes *)
(* and bound on the faults: what a success and a failure say of the host,   *)
(* how long the temporary files last, that a payload comes back as it was,  *)
(* why a look-up fails, and what an import of an env file leaves behind.    *)
EXTENDS Remote, TLAPS, WellFoundedInduction

-----------------------------------------------------------------------------
(* Payload *)

Modes == [kind : {"none", "try", "force"}, level : Int \cup {NoLevel}]

\* Whatever the mode, a payload that prepare_secret_payload returns is
\* accepted by the library, comes back as the content it was made of, is
\* listed with its size and, unless forced, is not larger.
THEOREM PayloadsRoundTrip ==
    ASSUME NEW c \in Contents, NEW mode \in Modes
    PROVE  RoundTrips(c, mode)
<1> SUFFICES ASSUME NEW s \in PrepareSecretPayload(c, mode)
             PROVE  /\ ValidateCompressionMetadata(s)
                    /\ DecompressSecretPayload(s) = {Plain(c)}
                    /\ OriginalBytes(s) = Size[c]
                    /\ mode.kind # "force" => Length(s.bytes) <= Size[c]
  BY DEF RoundTrips
<1>1. Size[c] \in Nat /\ Packed[c] \in Nat /\ Size[c] # NoSize
  BY SizesAssumption
<1>2. CASE s = AsIs(c)
  BY <1>1, <1>2 DEF AsIs, Plain, Length, ValidateCompressionMetadata, DecompressSecretPayload,
                    OriginalBytes, StoredBytes, TagBytes
<1>3. CASE s = Compressed(c) /\ (mode.kind = "force" \/ Packed[c] < Size[c])
  <2>1. /\ s.bytes = Zstd(c) /\ s.compression = "zstd" /\ s.original = Size[c]
        /\ s.bytes.form = "packed" /\ s.bytes.of = c
    BY <1>3 DEF Compressed, Zstd
  <2>2. DecompressSecretPayload(s) = {Plain(c)}
    BY <1>1, <2>1 DEF DecompressSecretPayload
  <2>3. ValidateCompressionMetadata(s) /\ OriginalBytes(s) = Size[c]
    BY <1>1, <2>1 DEF ValidateCompressionMetadata, OriginalBytes
  <2>4. mode.kind # "force" => Length(s.bytes) <= Size[c]
    BY <1>1, <1>3, <2>1 DEF Length
  <2> QED  BY <2>2, <2>3, <2>4
<1>4. \/ s = AsIs(c)
      \/ s = Compressed(c) /\ (mode.kind = "force" \/ Packed[c] < Size[c])
  BY DEF PrepareSecretPayload
<1> QED  BY <1>2, <1>3, <1>4

-----------------------------------------------------------------------------
(* The invariant *)

\* What the files of a request hold.
FileContents == UNION {{ClientFiles[cmd.paths[o]] : o \in DOMAIN cmd.paths} : cmd \in Commands}

TempFile == [contents : FileContents, state : {"guarded", "removed", "orphan"}]

ServerStates == {"off", "reading", "operation", "files", "feeding", "collecting", "answering",
                 "answered", "exited", "killed"}
Outcomes == {"none", "refused", "unsent", "ssh failed", "invalid", "output failed", "ok", "failed"}

\* The records and their fields; a request and a payload have many shapes.
ClientType ==
    client \in [pc : {"idle", "sending", "waiting", "done"}, cmd : Commands,
                request : {client.request}, left : 0..Blocks, got : Nat, outcome : Outcomes]
LinkType == link \in [alive : BOOLEAN, up : Nat, down : Nat, status : {"none", "zero", "error"}]
ServerType ==
    server \in [pc : ServerStates, got : Nat, left : Int, code : {0, 1}, payload : {server.payload}]
ChildType ==
    child \in [pc : {"none", "starting", "reading", "running", "ending", "ended"},
               in : Nat, got : Nat, out : Nat, prints : BOOLEAN, code : {0, 1}]
FileTypes == temp \in Seq(TempFile) /\ Request.files \in Seq(FileContents)

Types == ClientType /\ LinkType /\ ServerType /\ ChildType /\ FileTypes

\* The host has read no more blocks than have been written, and nothing has
\* been done or started there before it has read them all.
Begun ==
    /\ server.got + link.up <= Blocks - client.left
    /\ client.pc \in {"idle", "sending"} \/ client.outcome \in {"refused", "unsent"} => client.left # 0
    /\ \/ effect # <<>> \/ child.pc # "none" \/ job["child"].pc # "idle"
       \/ server.pc \notin {"off", "reading", "exited", "killed"}
       => server.got = Blocks

\* How far the child can be when remote-stdio is where it is.
Paired ==
    /\ server.pc \in {"off", "reading", "operation", "files"} => child.pc = "none"
    /\ child.pc \in {"starting", "reading"} => server.pc \in {"feeding", "collecting", "killed"}
    /\ child.pc \in {"running", "ending"} => server.pc \in {"collecting", "killed"}
    /\ server.pc = "feeding" => Request.stdin # Nothing

\* A code other than 0 is handed from the child to remote-stdio, to ssh and to
\* the client only when nothing was done, or the child was killed.
CodesTell ==
    /\ \/ server.pc \in {"off", "reading", "operation", "files", "feeding"}
       \/ child.pc \in {"starting", "reading", "running"}
       => effect = <<>>
    /\ child.pc = "ended" /\ child.code # 0 =>
         effect = <<>> \/ "child" \in faults \/ server.pc = "killed"
    /\ child.pc # "ended" => child.code = 0
    /\ server.pc \in {"answering", "answered"} /\ server.code # 0 =>
         effect = <<>> \/ "child" \in faults
    /\ link.status = "zero" => server.pc = "answered"
    /\ client.outcome = "failed" => server.pc = "answered" /\ server.code # 0

\* A payload comes with the code 0, and only it makes an output file.
OutputNeedsPayload ==
    /\ server.payload # NoValue => server.code = 0
    /\ server.payload # NoValue => server.pc \in {"answering", "answered", "exited", "killed"}
    /\ output # Nothing => client.outcome = "ok"
    /\ client.pc # "done" => client.outcome = "none"

\* The guards are held from the first file to the end of the child.
Guarded ==
    /\ server.pc \in {"off", "reading", "operation"} => temp = <<>>
    /\ server.pc = "files" => Len(temp) <= Len(Request.files)
    /\ server.pc \in {"feeding", "collecting"} \/ child.pc \in {"starting", "reading", "running"} =>
         Len(temp) = Len(Request.files)
    /\ server.pc \in {"files", "feeding", "collecting"} \/ child.pc \in {"starting", "reading", "running"} =>
         \A i \in 1..Len(temp) : temp[i] = [contents |-> Request.files[i], state |-> "guarded"]
    /\ server.pc \in {"answering", "answered", "exited"} =>
         \A i \in 1..Len(temp) : temp[i].state # "guarded"

IInv == Types /\ Begun /\ Paired /\ CodesTell /\ OutputNeedsPayload /\ Guarded
-----------------------------------------------------------------------------
(* Requests and the first state *)

\* A file is captured at the end of the files.
LEMMA CaptureKeepsShape ==
    ASSUME NEW cmd \in Commands, NEW r, DOMAIN r = DOMAIN NoRequest, r.files \in Seq(FileContents),
           NEW option
    PROVE  LET c == CaptureFileOption(r, cmd, option)
           IN  DOMAIN c = DOMAIN NoRequest /\ c.files \in Seq(FileContents)
<1>1. CASE option \notin DOMAIN cmd.paths
  BY <1>1 DEF CaptureFileOption
<1>2. CASE option \in DOMAIN cmd.paths
  <2> DEFINE x == ClientFiles[cmd.paths[option]]
             c == CaptureFileOption(r, cmd, option)
  <2>1. x \in FileContents
    BY <1>2 DEF FileContents
  <2>2. "files" \in DOMAIN r
    BY DEF NoRequest
  <2>3. DOMAIN c = DOMAIN r /\ c.files = Append(r.files, x)
    BY <1>2, <2>2 DEF CaptureFileOption
  <2> QED  BY <2>1, <2>3
<1> QED  BY <1>1, <1>2

\* The empty sequence is a sequence of anything.
LEMMA EmptyIsSeq == \A S : <<>> \in Seq(S)
  OBVIOUS

\* The files of a prepared request.
LEMMA RequestsHaveFiles ==
    ASSUME NEW cmd \in Commands, NEW r \in PrepareRemoteRequest(cmd)
    PROVE  r.files \in Seq(FileContents)
<1> DEFINE base(a) == [NoRequest EXCEPT !.home = a.home, !.workspace = ClientWorkspace,
                                        !.command = StripRemoteArgs(cmd), !.stdin = cmd.stdin]
<1>1. \A a : DOMAIN base(a) = DOMAIN NoRequest /\ base(a).files = <<>>
  BY DEF NoRequest
<1>2. \A a, op : Operation(base(a), op).files = <<>>
  BY <1>1 DEF Operation, NoRequest
<1>3. \A a : CaptureFiles(cmd, base(a)).files \in Seq(FileContents)
  <2> TAKE a
  <2> DEFINE env == CaptureFileOption(base(a), cmd, "--env-file")
             cert == CaptureFileOption(env, cmd, "--cert")
             last == CaptureFileOption(cert, cmd, "--rewrap-from-key")
  <2>1. base(a).files \in Seq(FileContents)
    BY <1>1, EmptyIsSeq
  <2>2. DOMAIN env = DOMAIN NoRequest /\ env.files \in Seq(FileContents)
    BY <1>1, <2>1, CaptureKeepsShape
  <2>3. DOMAIN cert = DOMAIN NoRequest /\ cert.files \in Seq(FileContents)
    BY <2>2, CaptureKeepsShape
  <2>4. last.files \in Seq(FileContents)
    BY <2>3, CaptureKeepsShape
  <2> QED  BY <2>4 DEF CaptureFiles
<1>4. \/ \E a, op : r = Operation(base(a), op)
      \/ \E a : r = CaptureFiles(cmd, base(a))
  BY DEF PrepareRemoteRequest
<1>5. CASE \E a, op : r = Operation(base(a), op)
  <2>1. r.files = <<>>
    BY <1>2, <1>5
  <2> QED  BY <2>1, EmptyIsSeq
<1>6. CASE \E a : r = CaptureFiles(cmd, base(a))
  BY <1>3, <1>6
<1> QED  BY <1>4, <1>5, <1>6

\* The invariant holds before the request is prepared.
LEMMA InitEstablishes == Init => IInv
<1> SUFFICES ASSUME Init PROVE IInv
  OBVIOUS
<1>1. PICK cmd \in Commands :
        client = [pc |-> "idle", cmd |-> cmd, request |-> NoRequest, left |-> Blocks, got |-> 0,
                  outcome |-> "none"]
  BY DEF Init
<1>2. /\ link = [alive |-> FALSE, up |-> 0, down |-> 0, status |-> "none"]
      /\ server = [pc |-> "off", got |-> 0, left |-> Blocks, code |-> 0, payload |-> NoValue]
      /\ child = [pc |-> "none", in |-> 0, got |-> 0, out |-> 0, prints |-> FALSE, code |-> 0]
      /\ temp = <<>> /\ output = Nothing /\ effect = <<>>
  BY DEF Init
<1>3. job["child"].pc = "idle"
  BY DEF Init, Imp!Init, Imp!Idle
<1>4. Blocks \in Nat \ {0}
  BY BlocksAssumption
<1>5. Types
  <2>1. ClientType
    BY <1>1, <1>4 DEF ClientType, Outcomes
  <2>2. LinkType /\ ServerType /\ ChildType
    BY <1>2, <1>4 DEF LinkType, ServerType, ChildType, ServerStates
  <2>3. temp = <<>> /\ Request.files = <<>>
    BY <1>1, <1>2 DEF Request, NoRequest
  <2> QED  BY <2>1, <2>2, <2>3, EmptyIsSeq DEF Types, FileTypes
<1>6. Begun /\ Paired /\ CodesTell /\ OutputNeedsPayload /\ Guarded
  BY <1>1, <1>2, <1>3, <1>4 DEF Begun, Paired, CodesTell, OutputNeedsPayload, Guarded
<1> QED  BY <1>5, <1>6 DEF IInv
-----------------------------------------------------------------------------
(* The steps of the client *)

\* While something is left to be written, nothing goes on at the host.
LEMMA NothingYet ==
    ASSUME IInv, client.left # 0
    PROVE  /\ effect = <<>> /\ child.pc = "none" /\ job["child"].pc = "idle"
           /\ server.pc \in {"off", "reading", "exited", "killed"}
<1>1. server.got # Blocks
  BY BlocksAssumption DEF IInv, Types, Begun, ClientType, LinkType, ServerType
<1> QED  BY <1>1 DEF IInv, Begun

\* The request is prepared, or refused.
LEMMA DispatchPreserves == ASSUME IInv, Dispatch PROVE IInv'
<1> USE DEF IInv, Types, store, Request, Cmd
<1>1. UNCHANGED <<server, child, temp, output, effect, faults, job>>
  BY DEF Dispatch
<1>2. /\ child.pc = "none" /\ client.left # 0
      /\ server.pc \in {"off", "reading", "exited", "killed"}
      /\ client.outcome = "none" /\ output = Nothing
  BY NothingYet DEF Dispatch, Begun, OutputNeedsPayload
<1>3. CASE \E outcome \in {"refused", "unsent"} : End(outcome) /\ UNCHANGED link
  <2>1. PICK outcome \in {"refused", "unsent"} : End(outcome) /\ UNCHANGED link
    BY <1>3
  <2>2. /\ ClientType' /\ client'.request = client.request /\ client'.left = client.left
        /\ client'.outcome = outcome /\ client'.pc = "done"
    BY <2>1 DEF End, ClientType, Outcomes
  <2>3. Types'
    BY <1>1, <2>1, <2>2 DEF LinkType, ServerType, ChildType, FileTypes
  <2>4. Begun'
    BY <1>1, <1>2, <2>1, <2>2 DEF Begun
  <2>5. Paired' /\ CodesTell'
    BY <1>1, <1>2, <2>1, <2>2 DEF Paired, CodesTell
  <2>6. OutputNeedsPayload' /\ Guarded'
    BY <1>1, <1>2, <2>1, <2>2 DEF OutputNeedsPayload, Guarded
  <2> QED  BY <2>3, <2>4, <2>5, <2>6
<1>4. CASE \E r \in PrepareRemoteRequest(Cmd) :
             /\ client' = [client EXCEPT !.pc = "sending", !.request = r]
             /\ link' = [link EXCEPT !.alive = TRUE]
  <2>1. PICK r \in PrepareRemoteRequest(Cmd) :
             /\ client' = [client EXCEPT !.pc = "sending", !.request = r]
             /\ link' = [link EXCEPT !.alive = TRUE]
    BY <1>4
  <2>2. /\ ClientType' /\ client'.request = r /\ client'.left = client.left
        /\ client'.outcome = client.outcome /\ client'.pc = "sending"
    BY <2>1 DEF ClientType
  <2>3. LinkType' /\ link'.up = link.up /\ link'.status = link.status
    BY <2>1 DEF LinkType
  <2>4. client'.request.files \in Seq(FileContents)
    BY <2>2, RequestsHaveFiles DEF ClientType
  <2>5. Types'
    BY <1>1, <2>2, <2>3, <2>4 DEF ServerType, ChildType, FileTypes
  <2>6. Begun'
    BY <1>1, <1>2, <2>2, <2>3 DEF Begun
  <2>7. Paired' /\ CodesTell'
    BY <1>1, <1>2, <2>2, <2>3 DEF Paired, CodesTell
  <2>8. OutputNeedsPayload' /\ Guarded'
    BY <1>1, <1>2, <2>2, <2>3 DEF OutputNeedsPayload, Guarded
  <2> QED  BY <2>5, <2>6, <2>7, <2>8
<1> QED  BY <1>3, <1>4 DEF Dispatch

\* A block is written to ssh, or cannot be.
LEMMA SendingPreserves == ASSUME IInv, Send \/ SendFails PROVE IInv'
<1> USE DEF IInv, Types, store, Request, Cmd
<1>1. UNCHANGED <<server, child, temp, output, effect, faults, job>>
  BY DEF Send, SendFails
<1>2. client.left # 0 /\ client.outcome = "none"
  BY DEF Begun, OutputNeedsPayload, Send, SendFails
<1>3. CASE Send
  <2>1. /\ ClientType' /\ client'.request = client.request /\ client'.left = client.left - 1
        /\ client'.outcome = "none"
        /\ client'.pc = IF client.left = 1 THEN "waiting" ELSE "sending"
    <3>1. client.left - 1 \in 0..Blocks /\ client.pc = "sending"
      BY <1>2, <1>3, BlocksAssumption DEF Send, ClientType
    <3> QED  BY <1>2, <1>3, <3>1 DEF Send, ClientType
  <2>2. LinkType' /\ link'.up = link.up + 1 /\ link'.status = link.status
    BY <1>3 DEF Send, LinkType
  <2>3. Types'
    BY <1>1, <2>1, <2>2 DEF ServerType, ChildType, FileTypes
  <2>4. Begun'
    BY <1>1, <1>2, <2>1, <2>2, BlocksAssumption DEF Begun, ServerType, LinkType, ClientType
  <2>5. Paired' /\ CodesTell' /\ OutputNeedsPayload' /\ Guarded'
    BY <1>1, <1>2, <2>1, <2>2 DEF Paired, CodesTell, OutputNeedsPayload, Guarded
  <2> QED  BY <2>3, <2>4, <2>5
<1>4. CASE SendFails
  <2>1. /\ ClientType' /\ client'.request = client.request /\ client'.left = client.left
        /\ client'.outcome = "unsent" /\ client'.pc = "done"
    BY <1>4 DEF SendFails, End, ClientType, Outcomes
  <2>2. UNCHANGED link
    BY <1>4 DEF SendFails
  <2>3. Types'
    BY <1>1, <2>1, <2>2 DEF LinkType, ServerType, ChildType, FileTypes
  <2>4. Begun'
    BY <1>1, <1>2, <2>1, <2>2 DEF Begun
  <2>5. Paired' /\ CodesTell' /\ OutputNeedsPayload' /\ Guarded'
    BY <1>1, <1>2, <2>1, <2>2 DEF Paired, CodesTell, OutputNeedsPayload, Guarded
  <2> QED  BY <2>3, <2>4, <2>5
<1> QED  BY <1>3, <1>4

\* The response is read, and the call ends.
LEMMA WaitingPreserves == ASSUME IInv, Receive \/ Ends PROVE IInv'
<1> USE DEF IInv, Types, store, Request, Cmd
<1>1. UNCHANGED <<server, child, temp, effect, faults, job>> /\ client.outcome = "none"
  BY DEF Receive, Ends, OutputNeedsPayload
<1>2. CASE Receive
  <2>1. /\ ClientType' /\ client'.request = client.request /\ client'.left = client.left
        /\ client'.outcome = client.outcome /\ client'.pc = client.pc
    BY <1>2 DEF Receive, ClientType
  <2>2. LinkType' /\ link'.up = link.up /\ link'.status = link.status /\ output' = output
    BY <1>2 DEF Receive, LinkType
  <2>3. Types'
    BY <1>1, <2>1, <2>2 DEF ServerType, ChildType, FileTypes
  <2>4. Begun' /\ Paired' /\ CodesTell' /\ OutputNeedsPayload' /\ Guarded'
    BY <1>1, <2>1, <2>2 DEF Begun, Paired, CodesTell, OutputNeedsPayload, Guarded
  <2> QED  BY <2>3, <2>4
<1>3. CASE Ends
  <2>1. PICK outcome \in {"ssh failed", "invalid", "output failed", "ok", "failed"} :
            /\ End(outcome) /\ UNCHANGED link
            /\ outcome \in {"failed", "ok"} => link.status = "zero" /\ outcome = ExitCode
            /\ output' # output => server.payload # NoValue /\ outcome = ExitCode
    BY <1>3 DEF Ends, ExitCode
  <2>2. /\ ClientType' /\ client'.request = client.request /\ client'.left = client.left
        /\ client'.outcome = outcome /\ client'.pc = "done"
    BY <2>1 DEF End, ClientType, Outcomes
  <2>3. Types'
    BY <1>1, <2>1, <2>2 DEF LinkType, ServerType, ChildType, FileTypes
  <2>4. output # Nothing => FALSE
    BY <1>1 DEF OutputNeedsPayload
  <2>5. output' # Nothing => outcome = "ok"
    BY <2>1, <2>4 DEF OutputNeedsPayload, ExitCode
  <2>6. Begun' /\ Paired' /\ Guarded'
    BY <1>1, <2>1, <2>2 DEF Begun, Paired, Guarded
  <2>7. CodesTell' /\ OutputNeedsPayload'
    BY <1>1, <2>1, <2>2, <2>5 DEF CodesTell, OutputNeedsPayload, ExitCode
  <2> QED  BY <2>3, <2>6, <2>7
<1> QED  BY <1>2, <1>3

-----------------------------------------------------------------------------
(* The connection, and the steps of remote-stdio *)

\* The guards that go out of scope leave no file that they guard.
LEMMA DropClears ==
    ASSUME temp \in Seq(TempFile)
    PROVE  /\ Dropped \in Seq(TempFile) /\ Len(Dropped) = Len(temp)
           /\ \A i \in 1..Len(temp) : Dropped[i].state # "guarded"
<1>1. \A i \in DOMAIN temp : Dropped[i] \in TempFile /\ Dropped[i].state # "guarded"
  <2> TAKE i \in DOMAIN temp
  <2>1. temp[i] \in TempFile
    OBVIOUS
  <2>2. Dropped[i] = [temp[i] EXCEPT !.state = IF temp[i].state = "guarded" THEN "removed"
                                              ELSE temp[i].state]
    BY DEF Dropped
  <2> QED  BY <2>1, <2>2 DEF TempFile
<1>2. DOMAIN temp = 1..Len(temp) /\ Len(temp) \in Nat
  OBVIOUS
<1>3. Dropped \in [1..Len(temp) -> TempFile]
  BY <1>1, <1>2 DEF Dropped
<1>4. Dropped \in Seq(TempFile) /\ Len(Dropped) = Len(temp)
  BY <1>2, <1>3
<1> QED  BY <1>1, <1>2, <1>4

\* Both ends of the connection, its loss, and the death of remote-stdio.
LEMMA ConnectionPreserves ==
    ASSUME IInv, Start \/ ReadBlock \/ ReadFails \/ ConnectionLost \/ ServerKilled \/ HangUp
    PROVE  IInv'
<1> USE DEF IInv, Types, store, Request
<1>1. UNCHANGED <<client, child, temp, output, effect, job>>
  BY DEF Start, ReadBlock, ReadFails, ConnectionLost, ServerKilled, HangUp
<1>2. ClientType' /\ ChildType' /\ FileTypes'
  BY <1>1 DEF ClientType, ChildType, FileTypes
<1>3. CASE Start \/ ReadFails
  <2>1. /\ UNCHANGED <<link, faults>> /\ server.pc \in {"off", "reading"}
        /\ server' = [server EXCEPT !.pc = "reading"] \/ server' = [server EXCEPT !.pc = "exited", !.code = 1]
    BY <1>3 DEF Start, ReadFails
  <2>2. /\ ServerType' /\ server'.pc \in {"reading", "exited"} /\ server'.got = server.got
        /\ server'.payload = server.payload
    BY <2>1 DEF ServerType, ServerStates
  <2>3. server.payload = NoValue
    BY <2>1 DEF OutputNeedsPayload
  <2>4. Types' /\ Begun' /\ Paired' /\ CodesTell' /\ Guarded'
    BY <1>1, <1>2, <2>1, <2>2 DEF LinkType, Begun, Paired, CodesTell, Guarded
  <2>5. OutputNeedsPayload'
    BY <1>1, <2>1, <2>2, <2>3 DEF OutputNeedsPayload
  <2> QED  BY <2>4, <2>5
<1>4. CASE ReadBlock
  <2>1. /\ ServerType' /\ server'.pc = "reading" /\ server.pc = "reading"
        /\ server'.got = server.got + 1 /\ server'.code = server.code
        /\ server'.payload = server.payload /\ server.got # Blocks
    BY <1>4 DEF ReadBlock, ServerType, Complete
  <2>2. LinkType' /\ link'.up = link.up - 1 /\ link'.status = link.status /\ UNCHANGED faults
    BY <1>4 DEF ReadBlock, LinkType
  <2>3. effect = <<>> /\ child.pc = "none" /\ job["child"].pc = "idle"
    BY <2>1 DEF Begun
  <2>4. Begun'
    BY <1>1, <2>1, <2>2, <2>3 DEF Begun, ServerType, LinkType, ClientType
  <2>5. Types' /\ Paired' /\ CodesTell' /\ OutputNeedsPayload' /\ Guarded'
    BY <1>1, <1>2, <2>1, <2>2 DEF Paired, CodesTell, OutputNeedsPayload, Guarded
  <2> QED  BY <2>4, <2>5
<1>5. CASE ConnectionLost \/ HangUp
  <2>1. UNCHANGED server /\ faults \subseteq faults'
    BY <1>5 DEF ConnectionLost, HangUp, Fault
  <2>2. LinkType' /\ link'.up <= link.up /\ (link'.status = "zero" => server.pc = "answered")
    <3>1. CASE ConnectionLost
      <4>1. PICK rest \in {0, link.up} :
                link' = [link EXCEPT !.alive = FALSE, !.status = "error", !.up = rest]
        BY <3>1 DEF ConnectionLost
      <4>2. rest \in Nat /\ rest <= link.up
        BY DEF LinkType
      <4> QED  BY <4>1, <4>2 DEF LinkType
    <3>2. CASE HangUp
      <4>1. \/ link' = [link EXCEPT !.alive = FALSE, !.status = "zero"] /\ server.pc = "answered"
            \/ link' = [link EXCEPT !.alive = FALSE, !.status = "error"]
        BY <3>2 DEF HangUp
      <4>2. PICK status \in {"zero", "error"} :
                /\ link' = [link EXCEPT !.alive = FALSE, !.status = status]
                /\ status = "zero" => server.pc = "answered"
        BY <4>1
      <4>3. link'.up = link.up /\ link'.status = status /\ link.up \in Nat
        BY <4>2 DEF LinkType
      <4>4. LinkType'
        BY <4>2 DEF LinkType
      <4> QED  BY <4>2, <4>3, <4>4
    <3> QED  BY <1>5, <3>1, <3>2
  <2>3. Types'
    BY <1>2, <2>1, <2>2 DEF ServerType
  <2>4. Begun'
    <3>1. /\ server.got \in Nat /\ link.up \in Nat /\ link'.up \in Nat
          /\ client.left \in Int /\ Blocks \in Int
      BY <2>2, BlocksAssumption DEF LinkType, ServerType, ClientType
    <3>2. server.got + link'.up <= Blocks - client.left
      BY <2>2, <3>1 DEF Begun
    <3> QED  BY <1>1, <2>1, <3>2 DEF Begun
  <2>5. Paired' /\ CodesTell' /\ OutputNeedsPayload' /\ Guarded'
    BY <1>1, <2>1, <2>2 DEF Paired, CodesTell, OutputNeedsPayload, Guarded
  <2> QED  BY <2>3, <2>4, <2>5
<1>6. CASE ServerKilled
  <2>1. /\ ServerType' /\ server'.pc = "killed" /\ server'.got = server.got
        /\ server'.code = server.code /\ server'.payload = server.payload
        /\ server.pc # "answered"
    BY <1>6 DEF ServerKilled, ServerType, ServerStates
  <2>2. UNCHANGED link /\ faults \subseteq faults'
    BY <1>6 DEF ServerKilled, Fault
  <2>3. Types' /\ Begun'
    BY <1>1, <1>2, <2>1, <2>2 DEF LinkType, Begun
  <2>4. Paired' /\ CodesTell' /\ OutputNeedsPayload' /\ Guarded'
    BY <1>1, <2>1, <2>2 DEF Paired, CodesTell, OutputNeedsPayload, Guarded
  <2> QED  BY <2>3, <2>4
<1> QED  BY <1>3, <1>4, <1>5, <1>6

\* remote-stdio goes back to write its response.
LEMMA ReturnPreserves ==
    ASSUME IInv, NEW code \in {0, 1}, NEW payload, Return(code, payload),
           UNCHANGED <<client, link, child, output, faults>>,
           server.pc \in {"reading", "operation", "files", "feeding", "collecting"},
           server.got = Blocks,
           child.pc = "none" \/ (child.pc = "ended" /\ effect' = effect),
           code # 0 => payload = NoValue /\ (effect' = <<>> \/ "child" \in faults)
    PROVE  IInv'
<1> USE DEF IInv, Types, Request
<1>1. /\ ServerType' /\ server'.pc = "answering" /\ server'.got = Blocks
      /\ server'.code = code /\ server'.payload = payload
  BY DEF Return, ServerType, ServerStates
<1>2. /\ temp' \in Seq(TempFile) /\ Len(temp') = Len(temp)
      /\ \A i \in 1..Len(temp) : temp'[i].state # "guarded"
  BY DropClears DEF Return, AfterReturn, FileTypes
<1>3. Types'
  BY <1>1, <1>2 DEF ClientType, LinkType, ChildType, FileTypes
<1>4. Begun'
  BY <1>1 DEF Begun
<1>5. Paired' /\ OutputNeedsPayload'
  BY <1>1 DEF Paired, OutputNeedsPayload
<1>6. CodesTell'
  BY <1>1 DEF CodesTell
<1>7. Guarded'
  BY <1>1, <1>2 DEF Guarded
<1> QED  BY <1>3, <1>4, <1>5, <1>6, <1>7

\* A request that is not carried out, a child that has ended, an operation.
LEMMA ReturningPreserves ==
    ASSUME IInv, server.got = Blocks,
           \/ Accept /\ Return(1, NoValue)
           \/ Spawn /\ Return(1, NoValue) /\ UNCHANGED child
           \/ FeedFails \/ Collected \/ OperationFails \/ SetPrepared
    PROVE  IInv'
<1> USE DEF IInv
<1>1. CASE Accept /\ Return(1, NoValue)
  BY <1>1, ReturnPreserves DEF Accept, Paired, CodesTell
<1>2. CASE Spawn /\ Return(1, NoValue) /\ UNCHANGED child
  <2>1. effect = <<>> /\ child.pc = "none" /\ server.pc = "files"
    BY <1>2 DEF Spawn, Paired, CodesTell
  <2> QED  BY <1>2, <2>1, ReturnPreserves DEF Spawn
<1>3. CASE FeedFails
  BY <1>3, ReturnPreserves DEF FeedFails, CodesTell
<1>4. CASE Collected
  <2>1. child.code \in {0, 1}
    BY DEF Types, ChildType
  <2>2. child.code # 0 => effect = <<>> \/ "child" \in faults
    BY <1>4 DEF Collected, CodesTell
  <2> QED  BY <1>4, <2>1, <2>2, ReturnPreserves DEF Collected
<1>5. CASE OperationFails
  BY <1>5, ReturnPreserves DEF OperationFails, Operating, Paired, CodesTell
<1>6. CASE SetPrepared
  BY <1>6, ReturnPreserves DEF SetPrepared, Operating, Paired
<1> QED  BY <1>1, <1>2, <1>3, <1>4, <1>5, <1>6

\* secret get --output, with the look-up of a key.
LEMMA GetPreserves == ASSUME IInv, GetRaw PROVE IInv'
<1> USE DEF IInv
<1>1. /\ UNCHANGED <<client, link, child, output, faults, job>> /\ server.pc = "operation"
      /\ server.got = Blocks /\ effect = <<>> /\ child.pc = "none"
  BY DEF GetRaw, K!ListFails, Operating, store, Begun, Paired, CodesTell
<1>2. CASE lookup'.pc = "found"
  BY <1>1, <1>2, ReturnPreserves DEF GetRaw
<1>3. CASE lookup'.pc = "failed"
  BY <1>1, <1>3, ReturnPreserves DEF GetRaw
<1>4. CASE lookup'.pc \notin {"found", "failed"}
  <2>1. UNCHANGED <<server, temp, effect>>
    BY <1>4 DEF GetRaw
  <2> QED  BY <1>1, <2>1 DEF Types, ClientType, LinkType, ServerType, ChildType, FileTypes, Request,
                            Begun, Paired, CodesTell, OutputNeedsPayload, Guarded
<1> QED  BY <1>2, <1>3, <1>4

\* The request is accepted and its files are written.
LEMMA FilesPreserve ==
    ASSUME IInv,
           \/ Accept /\ ~Return(1, NoValue)
           \/ WriteTempFile
           \/ Spawn /\ ~(Return(1, NoValue) /\ UNCHANGED child)
    PROVE  IInv'
<1> USE DEF IInv, Types, store, Request
<1>1. UNCHANGED <<client, link, output, effect, faults, job>>
  BY DEF Accept, WriteTempFile, Spawn
<1>2. /\ server.got = Blocks /\ effect = <<>> /\ child.pc = "none" /\ server.payload = NoValue
      /\ server.pc \in {"reading", "files"} /\ link.status # "zero" /\ client.outcome # "failed"
  BY DEF Begun, Paired, CodesTell, OutputNeedsPayload, Accept, Complete, WriteTempFile, Spawn
<1>3. ClientType' /\ LinkType' /\ Request'.files \in Seq(FileContents)
  BY <1>1 DEF ClientType, LinkType, FileTypes
<1>4. CASE Accept /\ ~Return(1, NoValue)
  <2>1. UNCHANGED <<temp, child>> /\ server.pc = "reading"
    BY <1>4 DEF Accept
  <2>2. /\ ServerType' /\ server'.pc \in {"operation", "files"} /\ server'.got = server.got
        /\ server'.code = server.code /\ server'.payload = server.payload
    BY <1>4 DEF Accept, ServerType, ServerStates
  <2>3. temp = <<>>
    BY <2>1 DEF Guarded
  <2>4. Types' /\ Begun' /\ Paired' /\ CodesTell' /\ OutputNeedsPayload'
    BY <1>1, <1>2, <1>3, <2>1, <2>2 DEF ChildType, FileTypes, Begun, Paired, CodesTell, OutputNeedsPayload
  <2>5. Guarded'
    BY <1>1, <1>2, <1>3, <2>1, <2>2, <2>3 DEF Guarded
  <2> QED  BY <2>4, <2>5
<1>5. CASE WriteTempFile
  <2> DEFINE file(state) == [contents |-> Request.files[Len(temp) + 1], state |-> state]
  <2>1. /\ UNCHANGED child /\ server.pc = "files" /\ temp \in Seq(TempFile)
        /\ Request.files \in Seq(FileContents) /\ Len(temp) < Len(Request.files)
    BY <1>5 DEF WriteTempFile, FileTypes
  <2>2. \A state \in {"guarded", "orphan"} : file(state) \in TempFile
    <3>1. Len(temp) + 1 \in 1..Len(Request.files)
      BY <2>1
    <3>2. Request.files[Len(temp) + 1] \in FileContents
      BY <2>1, <3>1
    <3> QED  BY <3>2 DEF TempFile
  <2>3. CASE temp' = Append(temp, file("guarded")) /\ UNCHANGED server
    <3>1. /\ temp' \in Seq(TempFile) /\ Len(temp') = Len(temp) + 1
          /\ \A i \in 1..Len(temp) : temp'[i] = temp[i]
          /\ temp'[Len(temp) + 1] = file("guarded")
      BY <2>1, <2>2, <2>3
    <3>2. Types' /\ Begun' /\ Paired' /\ CodesTell' /\ OutputNeedsPayload'
      BY <1>1, <1>2, <1>3, <2>1, <2>3, <3>1
         DEF ServerType, ChildType, FileTypes, Begun, Paired, CodesTell, OutputNeedsPayload
    <3>3. \A i \in 1..Len(temp') : temp'[i] = [contents |-> Request.files[i], state |-> "guarded"]
      <4>1. \A i \in 1..Len(temp) : temp'[i] = [contents |-> Request.files[i], state |-> "guarded"]
        BY <2>1, <3>1 DEF Guarded
      <4>2. \A i \in 1..Len(temp') : i \in 1..Len(temp) \/ i = Len(temp) + 1
        BY <2>1, <3>1
      <4> QED  BY <3>1, <4>1, <4>2
    <3>4. Guarded'
      BY <1>1, <1>2, <2>1, <2>3, <3>1, <3>3 DEF Guarded
    <3> QED  BY <3>2, <3>4
  <2>4. CASE \E left \in {<<>>, <<file("orphan")>>} :
               /\ server' = [server EXCEPT !.pc = "answering", !.code = 1]
               /\ temp' = AfterReturn(1) \o left
    <3>1. PICK left \in {<<>>, <<file("orphan")>>} :
               /\ server' = [server EXCEPT !.pc = "answering", !.code = 1]
               /\ temp' = Dropped \o left
      BY <2>4 DEF AfterReturn
    <3>2. /\ left \in Seq(TempFile) /\ \A i \in 1..Len(left) : left[i].state # "guarded"
      <4>1. CASE left = <<>>
        BY <4>1
      <4>2. CASE left = <<file("orphan")>>
        <5>1. file("orphan") \in TempFile /\ file("orphan").state = "orphan"
          BY <2>2
        <5> HIDE DEF file
        <5> QED  BY <4>2, <5>1
      <4> QED  BY <3>1, <4>1, <4>2
    <3>3. /\ Dropped \in Seq(TempFile) /\ Len(Dropped) = Len(temp)
          /\ \A i \in 1..Len(temp) : Dropped[i].state # "guarded"
      BY <2>1, DropClears
    <3>4. temp' \in Seq(TempFile) /\ \A i \in 1..Len(temp') : temp'[i].state # "guarded"
      BY <3>1, <3>2, <3>3
    <3>5. /\ ServerType' /\ server'.pc = "answering" /\ server'.got = server.got
          /\ server'.payload = server.payload
      BY <3>1 DEF ServerType, ServerStates
    <3>6. Types' /\ Begun' /\ Paired' /\ CodesTell' /\ OutputNeedsPayload'
      BY <1>1, <1>2, <1>3, <2>1, <3>4, <3>5
         DEF ChildType, FileTypes, Begun, Paired, CodesTell, OutputNeedsPayload
    <3>7. Guarded'
      BY <1>1, <1>2, <2>1, <3>4, <3>5 DEF Guarded
    <3> QED  BY <3>6, <3>7
  <2> QED  BY <1>5, <2>3, <2>4 DEF WriteTempFile
<1>6. CASE Spawn /\ ~(Return(1, NoValue) /\ UNCHANGED child)
  <2>1. /\ UNCHANGED temp /\ server.pc = "files" /\ Len(temp) = Len(Request.files)
        /\ server' = [server EXCEPT !.pc = IF Request.stdin = Nothing THEN "collecting" ELSE "feeding"]
        /\ child' = [child EXCEPT !.pc = "starting"]
    BY <1>6 DEF Spawn
  <2>2. /\ ServerType' /\ server'.pc \in {"collecting", "feeding"} /\ server'.got = server.got
        /\ server'.code = server.code /\ server'.payload = server.payload
        /\ server'.pc = "feeding" => Request.stdin # Nothing
    BY <2>1 DEF ServerType, ServerStates
  <2>3. ChildType' /\ child'.pc = "starting"
    BY <2>1 DEF ChildType
  <2>4. Types' /\ Begun' /\ Paired' /\ CodesTell'
    BY <1>1, <1>2, <1>3, <2>1, <2>2, <2>3 DEF FileTypes, Begun, Paired, CodesTell
  <2>5. OutputNeedsPayload' /\ Guarded'
    BY <1>1, <1>2, <2>1, <2>2, <2>3 DEF OutputNeedsPayload, Guarded
  <2> QED  BY <2>4, <2>5
<1> QED  BY <1>4, <1>5, <1>6

\* The standard input and the output of the child, and the response.
LEMMA TalkingPreserves ==
    ASSUME IInv, Feed \/ Collect \/ Answer \/ AnswerFails
    PROVE  IInv'
<1> USE DEF IInv, Types, store, Request
<1>1. UNCHANGED <<client, temp, output, effect, faults, job>>
  BY DEF Feed, Collect, Answer, AnswerFails
<1>2. ClientType' /\ FileTypes'
  BY <1>1 DEF ClientType, FileTypes
<1>3. server.got = Blocks
  BY DEF Begun, Feed, Collect, Answer, AnswerFails
<1>4. CASE Feed
  <2>1. /\ ServerType' /\ server'.pc \in {"feeding", "collecting"} /\ server'.got = server.got
        /\ server'.code = server.code /\ server'.payload = server.payload
        /\ server.pc = "feeding" /\ UNCHANGED link
    BY <1>4 DEF Feed, ServerType, ServerStates
  <2>2. ChildType' /\ child'.pc = child.pc /\ child'.code = child.code
    BY <1>4 DEF Feed, ChildType
  <2>3. Types' /\ Begun' /\ Paired' /\ CodesTell'
    BY <1>1, <1>2, <1>3, <2>1, <2>2 DEF LinkType, Begun, Paired, CodesTell
  <2>4. OutputNeedsPayload' /\ Guarded'
    BY <1>1, <2>1, <2>2 DEF OutputNeedsPayload, Guarded
  <2> QED  BY <2>3, <2>4
<1>5. CASE Collect
  <2>1. ChildType' /\ child'.pc = child.pc /\ child'.code = child.code /\ UNCHANGED <<link, server>>
    BY <1>5 DEF Collect, ChildType
  <2>2. Types' /\ Begun' /\ Paired' /\ CodesTell'
    BY <1>1, <1>2, <1>3, <2>1 DEF LinkType, ServerType, Begun, Paired, CodesTell
  <2>3. OutputNeedsPayload' /\ Guarded'
    BY <1>1, <2>1 DEF OutputNeedsPayload, Guarded
  <2> QED  BY <2>2, <2>3
<1>6. CASE Answer \/ AnswerFails
  <2>1. /\ ServerType' /\ server'.pc \in {"answering", "answered", "exited"}
        /\ server'.got = server.got /\ server'.code = server.code
        /\ server'.payload = server.payload /\ server.pc = "answering" /\ UNCHANGED child
    <3>1. CASE Answer
      <4>1. PICK pc \in {"answering", "answered"} :
                server' = [server EXCEPT !.left = server.left - 1, !.pc = pc]
        BY <3>1 DEF Answer
      <4>2. server.left - 1 \in Int /\ server.pc = "answering" /\ UNCHANGED child
        BY <3>1 DEF Answer, ServerType
      <4> QED  BY <4>1, <4>2 DEF ServerType, ServerStates
    <3>2. CASE AnswerFails
      BY <3>2 DEF AnswerFails, ServerType, ServerStates
    <3> QED  BY <1>6, <3>1, <3>2
  <2>2. LinkType' /\ link'.up = link.up /\ link'.status = link.status
    BY <1>6 DEF Answer, AnswerFails, LinkType
  <2>3. Types' /\ Begun' /\ Paired' /\ CodesTell'
    BY <1>1, <1>2, <1>3, <2>1, <2>2 DEF ChildType, Begun, Paired, CodesTell
  <2>4. OutputNeedsPayload' /\ Guarded'
    BY <1>1, <2>1, <2>2 DEF OutputNeedsPayload, Guarded
  <2> QED  BY <2>3, <2>4
<1> QED  BY <1>4, <1>5, <1>6

\* Every step of remote-stdio.
LEMMA ServerPreserves == ASSUME IInv, ServerNext PROVE IInv'
<1>1. CASE Start \/ ReadBlock \/ ReadFails
  BY <1>1, ConnectionPreserves
<1>2. Accept \/ Spawn \/ FeedFails \/ Collected \/ OperationFails \/ SetPrepared => server.got = Blocks
  BY DEF IInv, Begun, Accept, Complete, Spawn, FeedFails, Collected, OperationFails, SetPrepared, Operating
<1>3. CASE Accept
  BY <1>2, <1>3, FilesPreserve, ReturningPreserves
<1>4. CASE Spawn
  BY <1>2, <1>4, FilesPreserve, ReturningPreserves
<1>5. CASE FeedFails \/ Collected \/ OperationFails \/ SetPrepared
  BY <1>2, <1>5, ReturningPreserves
<1>6. CASE Feed \/ Collect \/ Answer \/ AnswerFails
  BY <1>6, TalkingPreserves
<1>7. CASE WriteTempFile \/ GetRaw
  BY <1>7, FilesPreserve, GetPreserves
<1> QED  BY <1>1, <1>3, <1>4, <1>5, <1>6, <1>7 DEF ServerNext

-----------------------------------------------------------------------------
(* The steps of the child, and others *)

\* What every step of the child comes to.
LEMMA ChildMoves ==
    ASSUME IInv, child.pc \in {"starting", "reading", "running", "ending"}, ChildType',
           UNCHANGED <<client, link, server, temp, output>>, faults \subseteq faults',
           child'.pc \in {"reading", "running", "ending", "ended"},
           child'.pc = "reading" => child.pc \in {"starting", "reading"},
           child'.pc \in {"running", "ending"} => server.pc \in {"collecting", "killed"},
           child'.pc = "running" => child.pc # "ending",
           child'.pc \in {"reading", "running"} \/ server.pc = "feeding" => effect' = <<>>,
           child'.pc # "ended" => child'.code = child.code,
           child'.pc = "ended" /\ child'.code # 0 =>
               effect' = <<>> \/ "child" \in faults' \/ server.pc = "killed"
    PROVE  IInv'
<1> USE DEF IInv, Types, Request
<1>1. server.got = Blocks /\ server.pc \in {"feeding", "collecting", "killed"}
  BY DEF Begun, Paired
<1>2. Types'
  BY DEF ClientType, LinkType, ServerType, FileTypes
<1>3. Begun' /\ Paired'
  BY <1>1 DEF Begun, Paired
<1>4. CodesTell'
  BY <1>1 DEF CodesTell
<1>5. OutputNeedsPayload' /\ Guarded'
  BY <1>1 DEF OutputNeedsPayload, Guarded
<1> QED  BY <1>2, <1>3, <1>4, <1>5

\* The end of the child, and the start of its output.
LEMMA ChildRecord ==
    ASSUME ChildType, NEW code \in {0, 1}
    PROVE  /\ Exit(code) => ChildType' /\ child'.pc = "ended" /\ child'.code = code
           /\ \A what : Does(what) => ChildType' /\ child'.pc = "ending" /\ child'.code = child.code
           /\ child' = [child EXCEPT !.prints = TRUE] =>
                ChildType' /\ child'.pc = child.pc /\ child'.code = child.code
<1>1. ASSUME Exit(code) PROVE ChildType' /\ child'.pc = "ended" /\ child'.code = code
  BY <1>1 DEF Exit, ChildType
<1>2. ASSUME NEW what, Does(what) PROVE ChildType' /\ child'.pc = "ending" /\ child'.code = child.code
  BY <1>2 DEF Does, ChildType
<1>3. ASSUME child' = [child EXCEPT !.prints = TRUE]
      PROVE  ChildType' /\ child'.pc = child.pc /\ child'.code = child.code
  BY <1>3 DEF ChildType
<1> QED  BY <1>1, <1>2, <1>3

\* A library call of the child.
LEMMA RunsPreserves == ASSUME IInv, Runs PROVE IInv'
<1>1. /\ child.pc = "running" /\ server.pc \in {"collecting", "killed"} /\ effect = <<>>
      /\ UNCHANGED <<client, link, server, temp, output>> /\ faults \subseteq faults'
  BY DEF Runs, IInv, Paired, CodesTell
<1>2. ChildType
  BY DEF IInv, Types
<1>3. \/ Exit(1) /\ UNCHANGED effect
      \/ Exit(0)
      \/ \E what : Does(what)
      \/ child' = [child EXCEPT !.prints = TRUE] /\ UNCHANGED effect
      \/ UNCHANGED <<child, effect>>
  BY DEF Runs, DeleteSecret, SetSecret, AddCertificate, ImportStarts, ImportWrites, ImportEnds, Fails
<1>4. CASE Exit(1) /\ UNCHANGED effect
  BY <1>1, <1>2, <1>4, ChildRecord, ChildMoves
<1>5. CASE Exit(0)
  BY <1>1, <1>2, <1>5, ChildRecord, ChildMoves
<1>6. CASE \E what : Does(what)
  BY <1>1, <1>2, <1>6, ChildRecord, ChildMoves
<1>7. CASE child' = [child EXCEPT !.prints = TRUE] /\ UNCHANGED effect
  BY <1>1, <1>2, <1>7, ChildRecord, ChildMoves
<1>8. CASE UNCHANGED <<child, effect>>
  BY <1>1, <1>2, <1>8, ChildMoves DEF ChildType
<1> QED  BY <1>3, <1>4, <1>5, <1>6, <1>7, <1>8

\* Every step of the child, and its death.
LEMMA ChildPreserves == ASSUME IInv, ChildNext \/ ChildKilled PROVE IInv'
<1>1. ChildType /\ Paired /\ CodesTell
  BY DEF IInv, Types
<1>2. CASE ChildOpens
  <2>1. /\ child.pc = "starting" /\ effect = <<>>
        /\ UNCHANGED <<client, link, server, temp, output, effect>> /\ faults \subseteq faults'
    BY <1>1, <1>2 DEF ChildOpens, CodesTell
  <2>2. CASE child' = [child EXCEPT !.pc = IF Request.stdin = Nothing THEN "running" ELSE "reading"]
    <3>1. /\ ChildType' /\ child'.code = child.code
          /\ child'.pc = IF Request.stdin = Nothing THEN "running" ELSE "reading"
      BY <1>1, <2>2 DEF ChildType
    <3>2. child'.pc = "running" => server.pc \in {"collecting", "killed"}
      BY <1>1, <2>1, <3>1 DEF Paired
    <3> QED  BY <2>1, <3>1, <3>2, ChildMoves
  <2>3. CASE Exit(1)
    BY <1>1, <2>1, <2>3, ChildRecord, ChildMoves
  <2> QED  BY <1>2, <2>2, <2>3 DEF ChildOpens
<1>3. CASE ChildReads \/ ChildHasRead
  <2>1. /\ child.pc = "reading" /\ effect = <<>>
        /\ UNCHANGED <<client, link, server, temp, output, effect>> /\ faults \subseteq faults'
    BY <1>1, <1>3 DEF ChildReads, ChildHasRead, CodesTell
  <2>2. CASE ChildReads
    <3>1. ChildType' /\ child'.pc = "reading" /\ child'.code = child.code
      <4>1. child.in - 1 \in Nat /\ child.got + 1 \in Nat
        BY <1>1, <2>2 DEF ChildReads, ChildType
      <4> QED  BY <1>1, <2>2, <4>1 DEF ChildReads, ChildType
    <3> QED  BY <2>1, <3>1, ChildMoves
  <2>3. CASE ChildHasRead
    <3>1. /\ ChildType' /\ child'.pc = "running" /\ child'.code = child.code
          /\ server.pc \in {"collecting", "killed"}
      BY <1>1, <2>3 DEF ChildHasRead, ChildType, Paired
    <3> QED  BY <2>1, <3>1, ChildMoves
  <2> QED  BY <1>3, <2>2, <2>3
<1>4. CASE Prints
  <2>1. /\ child.pc \in {"running", "ending"} /\ server.pc \in {"collecting", "killed"}
        /\ UNCHANGED <<client, link, server, temp, output, effect>> /\ faults \subseteq faults'
    BY <1>1, <1>4 DEF Prints, Paired
  <2>2. CASE server.pc # "collecting" /\ Exit(1)
    BY <1>1, <2>1, <2>2, ChildRecord, ChildMoves
  <2>3. CASE server.pc = "collecting" /\ child.pc = "running"
    <3>1. child' = [child EXCEPT !.prints = FALSE, !.out = @ + 1, !.pc = @]
      BY <1>4, <2>3 DEF Prints
    <3>2. ChildType' /\ child'.pc = "running" /\ child'.code = child.code /\ effect = <<>>
      <4>1. child.out + 1 \in Nat /\ effect = <<>>
        BY <1>1, <2>3 DEF ChildType, CodesTell
      <4> QED  BY <1>1, <2>3, <3>1, <4>1 DEF ChildType
    <3> QED  BY <2>1, <2>3, <3>2, ChildMoves
  <2>4. CASE server.pc = "collecting" /\ child.pc = "ending"
    <3>1. child' = [child EXCEPT !.prints = FALSE, !.out = @ + 1, !.pc = "ended"]
      BY <1>4, <2>4 DEF Prints
    <3>2. ChildType' /\ child'.pc = "ended" /\ child'.code = child.code
      <4>1. child.out + 1 \in Nat
        BY <1>1 DEF ChildType
      <4> QED  BY <1>1, <3>1, <4>1 DEF ChildType
    <3>3. child.code = 0
      BY <1>1, <2>4 DEF CodesTell
    <3> QED  BY <2>1, <2>4, <3>2, <3>3, ChildMoves
  <2> QED  BY <1>4, <2>1, <2>2, <2>3, <2>4 DEF Prints
<1>5. CASE ChildKilled
  <2>1. /\ child.pc \in {"starting", "reading", "running", "ending"} /\ Exit(1)
        /\ UNCHANGED <<client, link, server, temp, output, effect>>
        /\ faults \subseteq faults' /\ "child" \in faults'
    BY <1>1, <1>5 DEF ChildKilled, ChildType, Fault
  <2>2. server.pc = "feeding" => effect = <<>>
    BY <1>1 DEF CodesTell
  <2> QED  BY <1>1, <2>1, <2>2, ChildRecord, ChildMoves
<1>6. CASE Runs
  BY <1>6, RunsPreserves
<1> QED  BY <1>2, <1>3, <1>4, <1>5, <1>6 DEF ChildNext

\* What others do to the database and to the files of the host.
LEMMA OthersPreserve == ASSUME IInv, OthersSet \/ OthersChangeKeys PROVE IInv'
<1>1. /\ UNCHANGED <<client, link, server, child, temp, output, effect, faults>>
      /\ child.pc = "running" \/ UNCHANGED job
  BY DEF OthersSet, OthersChangeKeys
<1>2. Types' /\ Paired' /\ CodesTell' /\ OutputNeedsPayload' /\ Guarded'
  BY <1>1 DEF IInv, Types, ClientType, LinkType, ServerType, ChildType, FileTypes, Request,
              Paired, CodesTell, OutputNeedsPayload, Guarded
<1>3. Begun'
  BY <1>1 DEF IInv, Begun
<1> QED  BY <1>2, <1>3 DEF IInv

\* The invariant holds of every behaviour.
THEOREM InductiveInvariant == Spec => []IInv
<1>1. IInv /\ [Next]_vars => IInv'
  <2> SUFFICES ASSUME IInv, [Next]_vars PROVE IInv'
    OBVIOUS
  <2>1. CASE ClientNext
    BY <2>1, DispatchPreserves, SendingPreserves, WaitingPreserves DEF ClientNext
  <2>2. CASE ServerNext
    BY <2>2, ServerPreserves
  <2>3. CASE ChildNext \/ ChildKilled
    BY <2>3, ChildPreserves
  <2>4. CASE HangUp \/ ConnectionLost \/ ServerKilled
    BY <2>4, ConnectionPreserves
  <2>5. CASE OthersSet \/ OthersChangeKeys
    BY <2>5, OthersPreserve
  <2>6. CASE UNCHANGED vars
    BY <2>6 DEF vars, store, keys, IInv, Types, ClientType, LinkType, ServerType, ChildType, FileTypes,
                Request, Begun, Paired, CodesTell, OutputNeedsPayload, Guarded
  <2> QED  BY <2>1, <2>2, <2>3, <2>4, <2>5, <2>6 DEF Next
<1> QED  BY InitEstablishes, <1>1, PTL DEF Spec
-----------------------------------------------------------------------------
(* The theorems *)

\* A command that could not be sent never does anything on the host, a failure
\* that the host reports means that nothing was done or that its child was
\* killed, and without a success there is no output file.
THEOREM FailuresTell == Spec => []FailureMeansUndone
<1>1. IInv => FailureMeansUndone
  <2> SUFFICES ASSUME IInv PROVE FailureMeansUndone
    OBVIOUS
  <2>1. client.outcome \in {"refused", "unsent"} => effect = <<>> /\ job["child"].pc = "idle"
    BY NothingYet DEF IInv, Begun
  <2>2. client.outcome = "failed" => effect = <<>> \/ "child" \in faults
    BY DEF IInv, CodesTell
  <2>3. client.outcome # "ok" => output = Nothing
    BY DEF IInv, OutputNeedsPayload
  <2> QED  BY <2>1, <2>2, <2>3 DEF FailureMeansUndone
<1> QED  BY <1>1, InductiveInvariant, PTL

\* As long as the child may read them the files of the request are there with
\* their contents, and no guarded one is left when remote-stdio has answered,
\* however many files there are and whoever is killed.
THEOREM TempFilesLast == Spec => []TempFilesLastAsLongAsTheChild
<1>1. IInv => TempFilesLastAsLongAsTheChild
  <2> SUFFICES ASSUME IInv PROVE TempFilesLastAsLongAsTheChild
    OBVIOUS
  <2>1. DOMAIN temp = 1..Len(temp) /\ DOMAIN Request.files = 1..Len(Request.files)
    BY DEF IInv, Types, FileTypes
  <2>2. ASSUME child.pc \in {"starting", "reading", "running"}, NEW i \in DOMAIN Request.files
        PROVE  temp[i].contents = Request.files[i] /\ temp[i].state # "removed"
    <3>1. temp[i] = [contents |-> Request.files[i], state |-> "guarded"]
      BY <2>1, <2>2 DEF IInv, Guarded
    <3> QED  BY <3>1
  <2>3. ASSUME server.pc \in {"answering", "answered", "exited"}, NEW i \in DOMAIN temp
        PROVE  temp[i].state # "guarded"
    BY <2>1, <2>3 DEF IInv, Guarded
  <2> QED  BY <2>2, <2>3 DEF TempFilesLastAsLongAsTheChild
<1> QED  BY <1>1, InductiveInvariant, PTL

-----------------------------------------------------------------------------
(* The look-up of a key on the host of a remote call, for any number of     *)
(* files, keys and certificates: it fails only for a reason.                *)
-----------------------------------------------------------------------------
(* Sets of elements of a sequence *)

\* The elements after Append.
LEMMA ToSetAppend ==
    ASSUME NEW S, NEW s \in Seq(S), NEW x \in S
    PROVE  K!ToSet(Append(s, x)) = K!ToSet(s) \cup {x}
<1>1. /\ Len(s) \in Nat /\ DOMAIN s = 1..Len(s) /\ DOMAIN Append(s, x) = 1..Len(s) + 1
      /\ \A i \in 1..Len(s) : Append(s, x)[i] = s[i]
      /\ Append(s, x)[Len(s) + 1] = x
  OBVIOUS
<1>2. \A i \in 1..Len(s) + 1 : i \in 1..Len(s) \/ i = Len(s) + 1
  BY <1>1
<1>3. Len(s) + 1 \in 1..Len(s) + 1 /\ \A i \in 1..Len(s) : i \in 1..Len(s) + 1
  BY <1>1
<1> QED  BY <1>1, <1>2, <1>3 DEF K!ToSet

\* The elements of a sequence are its head and those of its tail.
LEMMA ToSetHeadTail ==
    ASSUME NEW S, NEW s \in Seq(S), s # <<>>
    PROVE  /\ Head(s) \in S /\ Tail(s) \in Seq(S)
           /\ K!ToSet(s) = {Head(s)} \cup K!ToSet(Tail(s))
           /\ Len(s) = 1 => s = <<Head(s)>>
           /\ Len(s) # 1 => Tail(s) # <<>>
<1>1. Len(s) \in Nat \ {0} /\ DOMAIN s = 1..Len(s) /\ Tail(s) \in Seq(S) /\ Head(s) = s[1]
  OBVIOUS
<1>2. DOMAIN Tail(s) = 1..Len(s) - 1 /\ Len(Tail(s)) = Len(s) - 1 /\ \A i \in 1..Len(s) - 1 : Tail(s)[i] = s[i + 1]
  BY <1>1
<1>3. K!ToSet(s) \subseteq {Head(s)} \cup K!ToSet(Tail(s))
  <2> SUFFICES ASSUME NEW i \in 1..Len(s) PROVE s[i] = Head(s) \/ s[i] \in K!ToSet(Tail(s))
    BY <1>1 DEF K!ToSet
  <2>1. CASE i = 1
    BY <1>1, <2>1
  <2>2. CASE i # 1
    <3>1. i - 1 \in 1..Len(s) - 1 /\ s[i] = Tail(s)[i - 1]
      BY <1>1, <1>2, <2>2
    <3> QED  BY <1>1, <1>2, <3>1 DEF K!ToSet
  <2> QED  BY <2>1, <2>2
<1>4. {Head(s)} \cup K!ToSet(Tail(s)) \subseteq K!ToSet(s)
  <2>1. 1 \in DOMAIN s /\ \A i \in DOMAIN Tail(s) : i + 1 \in DOMAIN s
    BY <1>1, <1>2
  <2> QED  BY <1>1, <1>2, <2>1 DEF K!ToSet
<1>5. Len(s) = 1 => s = <<Head(s)>>
  BY <1>1
<1>6. Len(s) # 1 => Tail(s) # <<>>
  BY <1>1, <1>2
<1>7. Head(s) \in S
  BY <1>1
<1> QED  BY <1>1, <1>3, <1>4, <1>5, <1>6, <1>7

\* The elements of the empty and of a one-element sequence.
LEMMA ToSetSmall == K!ToSet(<<>>) = {} /\ \A x : K!ToSet(<<x>>) = {x}
BY DEF K!ToSet
-----------------------------------------------------------------------------
(* The invariant *)

\* The record of a look-up under way.  What is steady is a listed certificate.
LookupType ==
    /\ lookup \in [pc : {"probing", "trying", "reading"}, listed : Seq(K!Certificate),
                   todo : Seq(Names), candidates : Seq(Names), chosen : {lookup.chosen},
                   steady : {lookup.steady}, served : BOOLEAN, revoked : BOOLEAN]
    /\ lookup.steady \subseteq {"label", "fallback"} \X K!ToSet(lookup.listed)

StillSteady == lookup.steady \subseteq K!Usable(lookup.listed, certs, dir)
StillServed == lookup.served => content[Op.key] # NoValue

\* A steady file of a label is among the candidates, or will be; while a file
\* id_rsa is steady no listed label has a file, so that nothing is before it.
Probed ==
    lookup.pc = "probing" =>
        /\ \A n \in K!ToSet(lookup.todo) : \E y \in K!ToSet(lookup.listed) : y.label = n
        /\ \A c : <<"label", c>> \in lookup.steady =>
                c.label \in K!ToSet(lookup.todo) \cup K!ToSet(lookup.candidates)
        /\ \A c : <<"fallback", c>> \in lookup.steady => lookup.candidates = <<>>

Tried ==
    lookup.pc = "trying" =>
        /\ lookup.candidates # <<>>
        /\ \A c : <<"label", c>> \in lookup.steady => c.label \in K!ToSet(lookup.candidates)
        /\ \A c : <<"fallback", c>> \in lookup.steady => lookup.candidates = <<IdRsa>>

Looking == LookupType /\ StillSteady /\ StillServed /\ Probed /\ Tried

LookupInv ==
    /\ K!Active => Looking /\ server.pc = "operation" /\ Op.kind = "get"
    /\ LookupFailsForAReason

\* What is steady at the moment.
LEMMA SteadyMeans ==
    ASSUME LookupType, StillSteady
    PROVE  /\ \A c : <<"label", c>> \in lookup.steady =>
                c \in K!ToSet(lookup.listed) /\ dir[c.label] = c.pub
           /\ \A c : <<"fallback", c>> \in lookup.steady =>
                /\ c \in K!ToSet(lookup.listed) /\ dir[IdRsa] = c.pub
                /\ \A y \in K!ToSet(lookup.listed) : dir[y.label] = NoFile
           /\ \A c \in K!ToSet(lookup.listed) :
                c.label \in Names /\ c.pub \in K!Pubs(lookup.listed) /\ c.pub # NoFile
           /\ \/ lookup.steady = {}
              \/ \E c : <<"label", c>> \in lookup.steady \/ <<"fallback", c>> \in lookup.steady
<1>1. \A c \in K!ToSet(lookup.listed) : c \in K!Certificate
  BY DEF LookupType, K!ToSet
<1>2. \A c \in K!ToSet(lookup.listed) :
        c.label \in Names /\ c.pub \in K!Pubs(lookup.listed) /\ c.pub # NoFile
  BY <1>1, KeysAssumption DEF K!Certificate, K!Pubs
<1>3. \A c : <<"label", c>> \in lookup.steady =>
        c \in K!ToSet(lookup.listed) /\ dir[c.label] = c.pub
  BY DEF LookupType, StillSteady, K!Usable
<1>4. \A c : <<"fallback", c>> \in lookup.steady =>
        /\ c \in K!ToSet(lookup.listed) /\ dir[IdRsa] = c.pub
        /\ \A y \in K!ToSet(lookup.listed) : dir[y.label] = NoFile
  BY DEF LookupType, StillSteady, K!Usable
<1>5. \A e \in lookup.steady :
        \E c : <<"label", c>> \in lookup.steady \/ <<"fallback", c>> \in lookup.steady
  <2> TAKE e \in lookup.steady
  <2>1. e = <<e[1], e[2]>> /\ e[1] \in {"label", "fallback"}
    BY DEF LookupType
  <2>2. <<"label", e[2]>> \in lookup.steady \/ <<"fallback", e[2]>> \in lookup.steady
    BY <2>1
  <2> QED  BY <2>2
<1> QED  BY <1>2, <1>3, <1>4, <1>5

-----------------------------------------------------------------------------
(* The steps of a look-up *)

\* What the first listing establishes.
LEMMA ListEstablishes ==
    ASSUME NEW cs \in K!Certificates(MaxCerts), NEW d \in K!Directories, K!List(cs, d, Serves),
           UNCHANGED <<content, client>>
    PROVE  Looking' /\ lookup'.pc = "probing"
<1>1. cs \in Seq(K!Certificate)
  <2>1. CASE cs = <<>>
    BY <2>1
  <2>2. CASE \E n \in 1..MaxCerts : cs \in [1..n -> K!Certificate]
    BY <2>2, BlocksAssumption
  <2> QED  BY <2>1, <2>2 DEF K!Certificates
<1> DEFINE labels == [i \in DOMAIN cs |-> cs[i].label]
<1>2. labels \in Seq(Names) /\ DOMAIN labels = DOMAIN cs
  <2>1. \A i \in DOMAIN cs : cs[i].label \in Names
    <3>1. \A i \in DOMAIN cs : cs[i] \in K!Certificate
      BY <1>1
    <3> QED  BY <3>1 DEF K!Certificate
  <2>2. DOMAIN cs = 1..Len(cs) /\ Len(cs) \in Nat
    BY <1>1
  <2> QED  BY <2>1, <2>2
<1>3. /\ lookup' = [pc |-> "probing", listed |-> cs, todo |-> labels, candidates |-> <<>>,
                    chosen |-> NoKey, steady |-> K!Usable(cs, cs, d), served |-> Serves,
                    revoked |-> FALSE]
      /\ certs' = cs /\ dir' = d
  BY DEF K!List
<1>4. K!Usable(cs, cs, d) \subseteq {"label", "fallback"} \X K!ToSet(cs)
  BY DEF K!Usable
<1>5. LookupType'
  <2>1. Serves \in BOOLEAN
    BY DEF Serves
  <2>2. <<>> \in Seq(Names)
    OBVIOUS
  <2> HIDE DEF labels
  <2> QED  BY <1>1, <1>2, <1>3, <1>4, <2>1, <2>2 DEF LookupType
<1>6. StillSteady' /\ StillServed' /\ Tried'
  BY <1>3 DEF StillSteady, StillServed, Tried, Serves, Op, Request
<1>7. K!ToSet(labels) = {c.label : c \in K!ToSet(cs)}
  BY <1>2 DEF K!ToSet
<1>8. Probed'
  <2> HIDE DEF labels
  <2> QED  BY <1>3, <1>4, <1>7 DEF Probed
<1> QED  BY <1>3, <1>5, <1>6, <1>8 DEF Looking

\* The next label is looked for.
LEMMA ProbePreserves ==
    ASSUME Looking, K!Probe, UNCHANGED <<content, client>>
    PROVE  Looking' /\ lookup'.pc = "probing"
<1> DEFINE n == Head(lookup.todo)
           more == IF K!IsFile(n) THEN Append(lookup.candidates, n) ELSE lookup.candidates
<1>1. LookupType /\ StillSteady /\ lookup.pc = "probing" /\ lookup.todo # <<>>
  BY DEF Looking, K!Probe
<1>2. lookup.todo \in Seq(Names) /\ lookup.candidates \in Seq(Names)
  BY <1>1 DEF LookupType
<1>3. /\ n \in Names /\ Tail(lookup.todo) \in Seq(Names)
      /\ K!ToSet(lookup.todo) = {n} \cup K!ToSet(Tail(lookup.todo))
  BY <1>1, <1>2, ToSetHeadTail
<1>4. /\ more \in Seq(Names)
      /\ K!IsFile(n) => K!ToSet(more) = K!ToSet(lookup.candidates) \cup {n}
      /\ ~K!IsFile(n) => more = lookup.candidates
  BY <1>2, <1>3, ToSetAppend
<1>5. /\ lookup' = [lookup EXCEPT !.todo = Tail(lookup.todo), !.candidates = more]
      /\ UNCHANGED <<certs, dir>>
  BY DEF K!Probe
<1> HIDE DEF more, n
<1>6. /\ LookupType' /\ lookup'.pc = "probing" /\ lookup'.listed = lookup.listed
      /\ lookup'.steady = lookup.steady /\ lookup'.served = lookup.served
      /\ lookup'.todo = Tail(lookup.todo) /\ lookup'.candidates = more
  BY <1>1, <1>3, <1>4, <1>5 DEF LookupType
<1>7. StillSteady' /\ StillServed' /\ Tried'
  BY <1>1, <1>5, <1>6 DEF Looking, StillSteady, StillServed, Tried, Op, Request
<1>8. Probed'
  <2>1. \A m \in K!ToSet(lookup'.todo) : \E y \in K!ToSet(lookup'.listed) : y.label = m
    BY <1>1, <1>3, <1>6 DEF Looking, Probed
  <2>2. ASSUME NEW c, <<"label", c>> \in lookup.steady
        PROVE  c.label \in K!ToSet(Tail(lookup.todo)) \cup K!ToSet(more)
    <3>1. c.label \in K!ToSet(lookup.todo) \cup K!ToSet(lookup.candidates)
      BY <1>1, <2>2 DEF Looking, Probed
    <3>2. c.label = n => K!IsFile(n)
      BY <1>1, <2>2, SteadyMeans DEF K!IsFile
    <3> QED  BY <1>3, <1>4, <3>1, <3>2
  <2>3. ASSUME NEW c, <<"fallback", c>> \in lookup.steady
        PROVE  more = <<>>
    <3>1. lookup.candidates = <<>> /\ \E y \in K!ToSet(lookup.listed) : y.label = n
      BY <1>1, <1>3, <2>3 DEF Looking, Probed
    <3>2. ~K!IsFile(n)
      BY <1>1, <2>3, <3>1, SteadyMeans DEF K!IsFile
    <3> QED  BY <1>4, <3>1, <3>2
  <2> QED  BY <1>6, <2>1, <2>2, <2>3 DEF Probed
<1> QED  BY <1>6, <1>7, <1>8 DEF Looking

\* The end of a look-up that is under way.
LEMMA EndFails ==
    ASSUME Looking, NEW pc \in {"found", "failed"}, NEW revoked \in BOOLEAN, K!End(pc, revoked),
           pc = "failed" => lookup.steady = {} \/ ~lookup.served \/ revoked
    PROVE  lookup'.pc = pc /\ LookupInv'
<1>1. /\ lookup'.pc = pc /\ lookup'.steady = lookup.steady
      /\ lookup'.served = lookup.served /\ lookup'.revoked = revoked
  BY DEF K!End, Looking, LookupType
<1> QED  BY <1>1 DEF LookupInv, K!Active, LookupFailsForAReason, K!LookupFailsForAReason

\* The candidates are complete; id_rsa is looked for if there are none.
LEMMA EndProbePreserves ==
    ASSUME Looking, K!EndProbe, UNCHANGED <<content, client>>
    PROVE  \/ Looking' /\ lookup'.pc = "trying"
           \/ LookupInv' /\ lookup'.pc = "failed"
<1>1. /\ LookupType /\ StillSteady /\ Probed /\ lookup.pc = "probing" /\ lookup.todo = <<>>
      /\ lookup.candidates \in Seq(Names)
  BY DEF Looking, LookupType, K!EndProbe
<1>2. /\ \A c : <<"label", c>> \in lookup.steady => c.label \in K!ToSet(lookup.candidates)
      /\ \A c : <<"fallback", c>> \in lookup.steady => lookup.candidates = <<>> /\ K!IsFile(IdRsa)
  BY <1>1, ToSetSmall, SteadyMeans DEF Probed, K!IsFile
<1>3. CASE K!Fallback = <<>>
  <2>1. lookup.candidates = <<>> /\ ~K!IsFile(IdRsa)
    BY <1>3 DEF K!Fallback
  <2>2. lookup.steady = {}
    BY <1>1, <1>2, <2>1, ToSetSmall, SteadyMeans
  <2>3. K!End("failed", FALSE)
    BY <1>3 DEF K!EndProbe
  <2> QED  BY <2>2, <2>3, EndFails
<1>4. CASE K!Fallback # <<>>
  <2>1. /\ lookup' = [lookup EXCEPT !.pc = "trying", !.candidates = K!Fallback]
        /\ UNCHANGED <<certs, dir>>
    BY <1>4 DEF K!EndProbe
  <2>2. K!Fallback \in Seq(Names)
    BY <1>1, KeysAssumption DEF K!Fallback
  <2>3. /\ LookupType' /\ lookup'.pc = "trying" /\ lookup'.listed = lookup.listed
        /\ lookup'.steady = lookup.steady /\ lookup'.served = lookup.served
        /\ lookup'.candidates = K!Fallback
    BY <1>1, <2>1, <2>2 DEF LookupType
  <2>4. StillSteady' /\ StillServed' /\ Probed'
    BY <2>1, <2>3 DEF Looking, StillSteady, StillServed, Probed, Op, Request
  <2>5. Tried'
    <3>1. \A c : <<"label", c>> \in lookup.steady => c.label \in K!ToSet(K!Fallback)
      BY <1>2, ToSetSmall DEF K!Fallback
    <3>2. \A c : <<"fallback", c>> \in lookup.steady => K!Fallback = <<IdRsa>>
      BY <1>2 DEF K!Fallback
    <3> QED  BY <1>4, <2>3, <3>1, <3>2 DEF Tried
  <2> QED  BY <2>3, <2>4, <2>5 DEF Looking
<1> QED  BY <1>3, <1>4

\* The next file is read.
LEMMA TryPreserves ==
    ASSUME Looking, K!Try, UNCHANGED <<content, client>>
    PROVE  \/ Looking' /\ lookup'.pc \in {"trying", "reading"}
           \/ LookupInv' /\ lookup'.pc = "failed"
<1> DEFINE h == Head(lookup.candidates)
<1>1. /\ LookupType /\ StillSteady /\ Tried /\ lookup.pc = "trying"
      /\ lookup.candidates \in Seq(Names) /\ lookup.candidates # <<>>
  BY DEF Looking, LookupType, Tried, K!Try
<1>2. /\ Tail(lookup.candidates) \in Seq(Names)
      /\ K!ToSet(lookup.candidates) = {h} \cup K!ToSet(Tail(lookup.candidates))
      /\ Len(lookup.candidates) = 1 => lookup.candidates = <<h>>
      /\ Len(lookup.candidates) # 1 => Tail(lookup.candidates) # <<>>
  BY <1>1, ToSetHeadTail
<1>3. \A c : <<"label", c>> \in lookup.steady /\ c.label = h => K!Matches(dir[h])
  BY <1>1, SteadyMeans DEF K!Matches
<1>4. \A c : <<"fallback", c>> \in lookup.steady =>
        lookup.candidates = <<IdRsa>> /\ K!Matches(dir[h])
  BY <1>1, SteadyMeans DEF K!Matches, Tried
<1> HIDE DEF h
<1>5. CASE K!Matches(dir[h])
  <2>1. lookup' = [lookup EXCEPT !.pc = "reading", !.chosen = dir[h]] /\ UNCHANGED <<certs, dir>>
    BY <1>5 DEF K!Try, h
  <2>2. /\ LookupType' /\ lookup'.pc = "reading" /\ lookup'.listed = lookup.listed
        /\ lookup'.steady = lookup.steady /\ lookup'.served = lookup.served
    BY <1>1, <2>1 DEF LookupType
  <2> QED  BY <2>1, <2>2
           DEF Looking, StillSteady, StillServed, Probed, Tried, Op, Request
<1>6. CASE ~K!Matches(dir[h]) /\ Len(lookup.candidates) = 1
  <2>1. K!End("failed", FALSE)
    BY <1>6 DEF K!Try, h
  <2>2. lookup.steady = {}
    <3>1. K!ToSet(lookup.candidates) = {h}
      BY <1>2, <1>6, ToSetSmall
    <3>2. \A c : <<"label", c>> \in lookup.steady => c.label = h
      BY <1>1, <3>1 DEF Tried
    <3> QED  BY <1>1, <1>3, <1>4, <1>6, <3>2, SteadyMeans
  <2> QED  BY <2>1, <2>2, EndFails
<1>7. CASE ~K!Matches(dir[h]) /\ Len(lookup.candidates) # 1
  <2>1. /\ lookup' = [lookup EXCEPT !.candidates = Tail(lookup.candidates)]
        /\ UNCHANGED <<certs, dir>>
    BY <1>7 DEF K!Try, h
  <2>2. /\ LookupType' /\ lookup'.pc = "trying" /\ lookup'.listed = lookup.listed
        /\ lookup'.steady = lookup.steady /\ lookup'.served = lookup.served
        /\ lookup'.candidates = Tail(lookup.candidates)
    BY <1>1, <1>2, <2>1 DEF LookupType
  <2>3. Tried'
    BY <1>1, <1>2, <1>3, <1>4, <1>7, <2>2 DEF Tried
  <2>4. StillSteady' /\ StillServed' /\ Probed'
    BY <2>1, <2>2 DEF Looking, StillSteady, StillServed, Probed, Op, Request
  <2> QED  BY <2>2, <2>3, <2>4 DEF Looking
<1> QED  BY <1>5, <1>6, <1>7

\* get_secret with the key that was chosen.
LEMMA ReadPreserves ==
    ASSUME Looking, K!Read(Serves), UNCHANGED <<content, client>>
    PROVE  LookupInv' /\ lookup'.pc \in {"found", "failed"}
<1>1. CASE K!Opens(Serves)
  <2>1. K!End("found", FALSE)
    BY <1>1 DEF K!Read
  <2> QED  BY <2>1, EndFails
<1>2. CASE ~K!Opens(Serves)
  <2> DEFINE revoked == lookup.chosen \notin K!Pubs(certs)
  <2>1. K!End("failed", revoked)
    BY <1>2 DEF K!Read
  <2>2. ~lookup.served \/ revoked
    BY <1>2 DEF Looking, StillServed, K!Opens, Serves
  <2> HIDE DEF revoked
  <2>3. revoked \in BOOLEAN
    BY DEF revoked
  <2> QED  BY <2>1, <2>2, <2>3, EndFails
<1> QED  BY <1>1, <1>2
-----------------------------------------------------------------------------
(* The host, and others *)

\* Every step of the look-up that remote-stdio itself carries out.
LEMMA GetKeepsLookup == ASSUME LookupInv, GetRaw PROVE LookupInv'
<1>1. /\ UNCHANGED <<client, content>> /\ server.pc = "operation" /\ Op.kind = "get"
      /\ \/ lookup'.pc \in {"found", "failed"} \/ UNCHANGED server
  BY DEF GetRaw, Operating, store
<1>2. CASE Looking' /\ lookup'.pc \in {"probing", "trying", "reading"}
  <2>1. server'.pc = "operation" /\ Op'.kind = "get"
    BY <1>1, <1>2 DEF Op, Request
  <2>2. K!LookupFailsForAReason'
    BY <1>2 DEF K!LookupFailsForAReason
  <2> QED  BY <1>2, <2>1, <2>2 DEF LookupInv, LookupFailsForAReason
<1>3. CASE K!ListFails
  BY <1>3 DEF K!ListFails, LookupInv, K!Active, LookupFailsForAReason, K!LookupFailsForAReason
<1>4. CASE \E cs \in K!Certificates(MaxCerts), d \in K!Directories : K!List(cs, d, Serves)
  BY <1>1, <1>2, <1>4, ListEstablishes
<1>5. K!Probe \/ K!EndProbe \/ K!Try \/ K!Read(Serves) => Looking
  BY DEF LookupInv, K!Active, K!Probe, K!EndProbe, K!Try, K!Read
<1>6. CASE K!Probe
  BY <1>1, <1>2, <1>5, <1>6, ProbePreserves
<1>7. CASE K!EndProbe
  BY <1>1, <1>2, <1>5, <1>7, EndProbePreserves
<1>8. CASE K!Try
  BY <1>1, <1>2, <1>5, <1>8, TryPreserves
<1>9. CASE K!Read(Serves)
  BY <1>1, <1>5, <1>9, ReadPreserves
<1> QED  BY <1>3, <1>4, <1>6, <1>7, <1>8, <1>9 DEF GetRaw

\* Others make less of it steady, and the history says so.
LEMMA OthersKeepLookup == ASSUME LookupInv, OthersChangeKeys PROVE LookupInv'
<1>1. /\ K!Active /\ K!Witness(content'[Op.key] # NoValue) /\ UNCHANGED <<client, server>>
      /\ Looking /\ server.pc = "operation" /\ Op.kind = "get"
  BY DEF OthersChangeKeys, LookupInv
<1> DEFINE left == lookup.steady \cap K!Usable(lookup.listed, certs', dir')
           serves == lookup.served /\ content'[Op.key] # NoValue
<1>2. lookup' = [lookup EXCEPT !.steady = left, !.served = serves]
  BY <1>1 DEF K!Witness
<1>3. /\ serves \in BOOLEAN /\ (serves => content'[Op.key] # NoValue)
      /\ left \subseteq lookup.steady /\ left \subseteq K!Usable(lookup.listed, certs', dir')
  OBVIOUS
<1> HIDE DEF left, serves
<1>4. /\ LookupType' /\ lookup'.pc = lookup.pc /\ lookup'.listed = lookup.listed
      /\ lookup'.todo = lookup.todo /\ lookup'.candidates = lookup.candidates
      /\ lookup'.steady = left /\ lookup'.served = serves
  BY <1>1, <1>2, <1>3 DEF Looking, LookupType
<1>5. StillSteady' /\ StillServed'
  BY <1>1, <1>3, <1>4 DEF StillSteady, StillServed, Op, Request
<1>6. Probed' /\ Tried'
  BY <1>1, <1>3, <1>4 DEF Looking, Probed, Tried
<1>7. lookup'.pc # "failed" /\ server'.pc = "operation" /\ Op'.kind = "get"
  BY <1>1, <1>4 DEF K!Active, Op, Request
<1> QED  BY <1>4, <1>5, <1>6, <1>7
         DEF LookupInv, Looking, LookupFailsForAReason, K!LookupFailsForAReason

\* Nothing else happens while a key is looked up: the child has not been
\* started, and only the secret operation writes.
LEMMA OtherStepsKeepLookup ==
    ASSUME LookupInv, IInv, UNCHANGED keys,
           K!Active => UNCHANGED <<client, server, content>>
    PROVE  LookupInv'
<1>1. LookupFailsForAReason'
  BY DEF keys, LookupInv, LookupFailsForAReason, K!LookupFailsForAReason
<1>2. K!Active' => K!Active
  BY DEF keys, K!Active
<1>3. CASE K!Active
  <2>1. Looking /\ server.pc = "operation" /\ Op.kind = "get"
    BY <1>3 DEF LookupInv
  <2>2. Looking' /\ server'.pc = "operation" /\ Op'.kind = "get"
    BY <1>3, <2>1 DEF keys, Looking, LookupType, StillSteady, StillServed, Probed, Tried, Op, Request
  <2> QED  BY <1>1, <2>2 DEF LookupInv
<1> QED  BY <1>1, <1>2, <1>3 DEF LookupInv

\* Every step of the whole system.
LEMMA StepsKeepLookup == ASSUME LookupInv, IInv, [Next]_vars PROVE LookupInv'
<1>1. K!Active => server.pc = "operation" /\ Op.kind = "get" /\ child.pc = "none" /\ client.left = 0
                  /\ client.pc \notin {"idle", "sending"}
  BY NothingYet DEF IInv, LookupInv, Paired, Begun
<1>2. CASE ClientNext
  <2>1. UNCHANGED <<keys, server, content>>
    BY <1>2 DEF ClientNext, Dispatch, Send, SendFails, Receive, Ends, store
  <2>2. CASE K!Active
    <3>1. Looking /\ server.pc = "operation" /\ Op.kind = "get" /\ Request' = Request
      BY <1>1, <1>2, <2>2 DEF LookupInv, ClientNext, Dispatch, Send, SendFails, Receive, Ends, End,
                              Request, IInv, Types, ClientType
    <3>2. Looking' /\ server'.pc = "operation" /\ Op'.kind = "get"
      BY <2>1, <3>1 DEF keys, Looking, LookupType, StillSteady, StillServed, Probed, Tried, Op
    <3> QED  BY <2>1, <3>2 DEF keys, LookupInv, LookupFailsForAReason, K!LookupFailsForAReason
  <2>3. CASE ~K!Active
    BY <2>1, <2>3, OtherStepsKeepLookup
  <2> QED  BY <2>2, <2>3
<1>3. CASE ServerNext
  <2>1. CASE GetRaw
    BY <2>1, GetKeepsLookup
  <2>2. CASE OperationFails \/ SetPrepared
    <3>1. UNCHANGED keys /\ ~K!Active
      BY <1>1, <2>2 DEF OperationFails, SetPrepared, K!Active
    <3> QED  BY <3>1, OtherStepsKeepLookup
  <2>3. CASE Start \/ ReadBlock \/ ReadFails \/ Accept \/ WriteTempFile \/ Spawn \/ Feed \/ FeedFails
             \/ Collect \/ Collected \/ Answer \/ AnswerFails
    <3>1. UNCHANGED keys /\ server.pc # "operation"
      BY <2>3 DEF Start, ReadBlock, ReadFails, Accept, WriteTempFile, Spawn, Feed, FeedFails,
                  Collect, Collected, Answer, AnswerFails
    <3> QED  BY <1>1, <3>1, OtherStepsKeepLookup
  <2> QED  BY <1>3, <2>1, <2>2, <2>3 DEF ServerNext
<1>4. CASE ChildNext \/ ChildKilled \/ OthersSet
  <2>1. UNCHANGED keys /\ child.pc # "none"
    BY <1>4 DEF ChildNext, ChildOpens, ChildReads, ChildHasRead, Runs, Prints, ChildKilled, OthersSet
  <2> QED  BY <1>1, <2>1, OtherStepsKeepLookup
<1>5. CASE HangUp \/ ConnectionLost \/ ServerKilled
  <2>1. UNCHANGED keys /\ server.pc # "operation"
    BY <1>5 DEF HangUp, ConnectionLost, ServerKilled
  <2> QED  BY <1>1, <2>1, OtherStepsKeepLookup
<1>6. CASE OthersChangeKeys
  BY <1>6, OthersKeepLookup
<1>7. CASE UNCHANGED vars
  BY <1>7, OtherStepsKeepLookup DEF vars, store
<1> QED  BY <1>2, <1>3, <1>4, <1>5, <1>6, <1>7 DEF Next

\* The invariant of a look-up holds throughout a remote call.
THEOREM LookupInvariant == Spec => []LookupInv
<1>1. Init => LookupInv
  BY DEF Init, K!Init, K!Idle, LookupInv, K!Active, LookupFailsForAReason, K!LookupFailsForAReason
<1>2. LookupInv /\ IInv /\ [Next]_vars => LookupInv'
  BY StepsKeepLookup
<1> QED  BY <1>1, <1>2, InductiveInvariant, PTL DEF Spec

\* A look-up on the host of a remote call fails only for a reason, however
\* many files, keys and certificates there are and whatever others do to them.
THEOREM LookupIsReliable == Spec => []LookupFailsForAReason
<1>1. LookupInv => LookupFailsForAReason
  BY DEF LookupInv
<1> QED  BY <1>1, LookupInvariant, PTL
-----------------------------------------------------------------------------
(* Induction over numbers *)

\* The order of the natural numbers.
Below == {p \in Nat \X Nat : p[1] < p[2]}

\* Induction over the numbers, for a set in the place of a predicate.
LEMMA NumberInduction ==
    ASSUME NEW S, 0 \in S, \A n \in Nat : n \in S => n + 1 \in S
    PROVE  Nat \subseteq S
<1> SUFFICES ASSUME Nat \ S # {} PROVE FALSE
  OBVIOUS
<1>1. IsWellFoundedOn(Below, Nat)
  BY NatLessThanWellFounded DEF Below, OpToRel
<1>2. PICK n \in Nat \ S : \A m \in Nat \ S : ~(<<m, n>> \in Below)
  BY <1>1, WFMin
<1>3. n # 0 /\ n - 1 \in Nat /\ n - 1 < n
  BY <1>2
<1>4. n - 1 \in S
  BY <1>2, <1>3 DEF Below
<1> QED  BY <1>2, <1>3, <1>4
-----------------------------------------------------------------------------
(* What parse_env_file returns *)

Lines == [key : DOMAIN Normal, value : Payloads]

\* The entries after each line, as ParseEnvFile defines them.
Parsing(f, file, n) ==
    f = [i \in 0..n |-> IF i = 0 THEN <<>> ELSE Imp!Upsert(f[i - 1], file[i])]

\* Entries of the first i lines: each is made from the last line of its key,
\* there is one for every key of a line, and only one.
EntriesOf(file) == {Imp!Entry(file[l]) : l \in 1..Len(file)}
KeyOf(file, l) == Normal[file[l].key]
FromLast(e, file, i) ==
    \E l \in 1..i : e = Imp!Entry(file[l]) /\ \A j \in 1..i : l < j => KeyOf(file, j) # e.key
Parsed(es, file, i) ==
    /\ es \in Seq(EntriesOf(file))
    /\ \A l \in 1..i : \E m \in 1..Len(es) : es[m].key = KeyOf(file, l)
    /\ \A m \in 1..Len(es) : FromLast(es[m], file, i)
    /\ \A m, n \in 1..Len(es) : es[m].key = es[n].key => m = n

\* There is such a function.
LEMMA ParsingExists ==
    ASSUME NEW file, Len(file) \in Nat
    PROVE  \E f : Parsing(f, file, Len(file))
<1> DEFINE S == {n \in Nat : \E f : Parsing(f, file, n)}
<1>1. 0 \in S
  <2> DEFINE e == [i \in 0..0 |-> IF i = 0 THEN <<>> ELSE <<>>]
  <2>1. Parsing(e, file, 0)
    BY DEF Parsing
  <2> QED  BY <2>1
<1>2. ASSUME NEW n \in Nat, n \in S
      PROVE  n + 1 \in S
  <2>1. PICK f : Parsing(f, file, n)
    BY <1>2
  <2> DEFINE g == [i \in 0..n + 1 |-> IF i = 0 THEN <<>> ELSE Imp!Upsert(f[i - 1], file[i])]
  <2>2. \A i \in 0..n : f[i] = IF i = 0 THEN <<>> ELSE Imp!Upsert(f[i - 1], file[i])
    BY <2>1 DEF Parsing
  <2>3. \A i \in 0..n : g[i] = f[i]
    <3> TAKE i \in 0..n
    <3>1. i \in 0..n + 1
      OBVIOUS
    <3>2. g[i] = IF i = 0 THEN <<>> ELSE Imp!Upsert(f[i - 1], file[i])
      BY <3>1
    <3> HIDE DEF g
    <3> QED  BY <2>2, <3>2
  <2>4. \A i \in 0..n + 1 : i # 0 => g[i - 1] = f[i - 1]
    <3> TAKE i \in 0..n + 1
    <3>1. i # 0 => i - 1 \in 0..n
      OBVIOUS
    <3> HIDE DEF g
    <3> QED  BY <2>3, <3>1
  <2>5. g = [i \in 0..n + 1 |-> IF i = 0 THEN <<>> ELSE Imp!Upsert(g[i - 1], file[i])]
    BY <2>4
  <2> HIDE DEF g
  <2>6. Parsing(g, file, n + 1)
    BY <2>5 DEF Parsing
  <2> QED  BY <2>6
<1>3. Nat \subseteq S
  <2> HIDE DEF S
  <2> QED  BY <1>1, <1>2, NumberInduction
<1> QED  BY <1>3

\* One line more.
LEMMA UpsertKeepsParsed ==
    ASSUME NEW file \in Seq(Lines), NEW k \in Nat, k + 1 <= Len(file), NEW es,
           Parsed(es, file, k)
    PROVE  Parsed(Imp!Upsert(es, file[k + 1]), file, k + 1)
<1> DEFINE x == Imp!Entry(file[k + 1])
           S == EntriesOf(file)
<1>1. x \in S /\ x.key = KeyOf(file, k + 1)
  BY DEF EntriesOf, Imp!Entry, Imp!NormalizeKey, KeyOf
<1>2. /\ es \in Seq(S) /\ Len(es) \in Nat /\ DOMAIN es = 1..Len(es)
      /\ \A m \in 1..Len(es) : es[m] \in S
  BY DEF Parsed
<1>3. FromLast(x, file, k + 1)
  BY <1>1 DEF FromLast
<1>4. ASSUME NEW e, FromLast(e, file, k), e.key # x.key
      PROVE  FromLast(e, file, k + 1)
  <2>1. PICK l \in 1..k : e = Imp!Entry(file[l]) /\ \A j \in 1..k : l < j => KeyOf(file, j) # e.key
    BY <1>4 DEF FromLast
  <2>2. \A j \in 1..k + 1 : j \in 1..k \/ j = k + 1
    OBVIOUS
  <2> HIDE DEF x
  <2> QED  BY <1>1, <1>4, <2>1, <2>2 DEF FromLast
<1>5. CASE \E e \in Imp!ToSet(es) : e.key = x.key
  <2> DEFINE new == [m \in DOMAIN es |-> IF es[m].key = x.key THEN x ELSE es[m]]
  <2>1. Imp!Upsert(es, file[k + 1]) = new
    BY <1>5 DEF Imp!Upsert
  <2> HIDE DEF x, S
  <2>2. new \in Seq(S) /\ Len(new) = Len(es)
    BY <1>1, <1>2
  <2>3. \A m \in 1..Len(es) : new[m] = IF es[m].key = x.key THEN x ELSE es[m]
    BY <1>2
  <2> HIDE DEF new
  <2>4. \A m \in 1..Len(es) : new[m].key = es[m].key
    BY <2>3
  <2>5. \A m \in 1..Len(new) : FromLast(new[m], file, k + 1)
    BY <1>3, <1>4, <2>2, <2>3 DEF Parsed
  <2>6. \A m, n \in 1..Len(new) : new[m].key = new[n].key => m = n
    BY <2>2, <2>4 DEF Parsed
  <2>7. PICK p \in 1..Len(es) : es[p].key = x.key
    BY <1>2, <1>5 DEF Imp!ToSet
  <2>8. \A l \in 1..k + 1 : \E m \in 1..Len(new) : new[m].key = KeyOf(file, l)
    <3> TAKE l \in 1..k + 1
    <3>1. CASE l = k + 1
      BY <1>1, <2>2, <2>4, <2>7, <3>1
    <3>2. CASE l \in 1..k
      BY <2>2, <2>4, <3>2 DEF Parsed
    <3> QED  BY <3>1, <3>2
  <2> QED  BY <2>1, <2>2, <2>5, <2>6, <2>8 DEF Parsed, S
<1>6. CASE ~\E e \in Imp!ToSet(es) : e.key = x.key
  <2> DEFINE new == Append(es, x)
  <2>1. Imp!Upsert(es, file[k + 1]) = new
    BY <1>6 DEF Imp!Upsert
  <2>2. \A m \in 1..Len(es) : es[m].key # x.key
    BY <1>2, <1>6 DEF Imp!ToSet
  <2> HIDE DEF x, S
  <2>3. /\ new \in Seq(S) /\ Len(new) = Len(es) + 1 /\ new[Len(es) + 1] = x
        /\ \A m \in 1..Len(es) : new[m] = es[m]
    BY <1>1, <1>2
  <2> HIDE DEF new
  <2>4. \A m \in 1..Len(new) : m \in 1..Len(es) \/ m = Len(es) + 1
    BY <1>2, <2>3
  <2>5. \A m \in 1..Len(new) : FromLast(new[m], file, k + 1)
    BY <1>3, <1>4, <2>2, <2>3, <2>4 DEF Parsed
  <2>6. \A m, n \in 1..Len(new) : new[m].key = new[n].key => m = n
    BY <2>2, <2>3, <2>4 DEF Parsed
  <2>7. 1..Len(es) \subseteq 1..Len(new) /\ Len(es) + 1 \in 1..Len(new)
    BY <1>2, <2>3
  <2>8. \A l \in 1..k + 1 : \E m \in 1..Len(new) : new[m].key = KeyOf(file, l)
    <3> TAKE l \in 1..k + 1
    <3>1. CASE l = k + 1
      BY <1>1, <2>3, <2>7, <3>1
    <3>2. CASE l \in 1..k
      BY <2>3, <2>7, <3>2 DEF Parsed
    <3> QED  BY <3>1, <3>2
  <2> QED  BY <2>1, <2>3, <2>5, <2>6, <2>8 DEF Parsed, S
<1> QED  BY <1>5, <1>6

\* The entries of a file.
LEMMA FilesParse ==
    ASSUME NEW file \in Seq(Lines)
    PROVE  Parsed(Imp!ParseEnvFile(file), file, Len(file))
<1> DEFINE f == CHOOSE g : Parsing(g, file, Len(file))
           S == {n \in Nat : n <= Len(file) => Parsed(f[n], file, n)}
<1>1. Parsing(f, file, Len(file))
  BY ParsingExists
<1>2. Imp!ParseEnvFile(file) = f[Len(file)]
  BY DEF Imp!ParseEnvFile, Parsing
<1> HIDE DEF f
<1>3. \A i \in 0..Len(file) : f[i] = IF i = 0 THEN <<>> ELSE Imp!Upsert(f[i - 1], file[i])
  BY <1>1 DEF Parsing
<1>4. 0 \in S
  <2>1. f[0] = <<>>
    BY <1>3
  <2>2. Parsed(<<>>, file, 0)
    BY EmptyIsSeq DEF Parsed
  <2> QED  BY <2>1, <2>2
<1>5. ASSUME NEW n \in Nat, n \in S
      PROVE  n + 1 \in S
  <2> SUFFICES ASSUME n + 1 <= Len(file) PROVE Parsed(f[n + 1], file, n + 1)
    OBVIOUS
  <2>1. Parsed(f[n], file, n)
    BY <1>5
  <2>2. f[n + 1] = Imp!Upsert(f[n], file[n + 1])
    BY <1>3
  <2> QED  BY <2>1, <2>2, UpsertKeepsParsed
<1>6. Nat \subseteq S
  <2> HIDE DEF S
  <2> QED  BY <1>4, <1>5, NumberInduction
<1> QED  BY <1>2, <1>6

\* The value of an entry is that of the last line of its key.
LEMMA EntriesAreLast ==
    ASSUME NEW file \in Seq(Lines), NEW l \in 1..Len(file)
    PROVE  \E m \in 1..Len(Imp!ParseEnvFile(file)) :
              LET e == Imp!ParseEnvFile(file)[m]
              IN  e.key = KeyOf(file, l) /\ e.value = Imp!LastValue(file, KeyOf(file, l))
<1> DEFINE es == Imp!ParseEnvFile(file)
           key == KeyOf(file, l)
           same == {i \in DOMAIN file : Normal[file[i].key] = key}
<1>1. Parsed(es, file, Len(file))
  BY FilesParse
<1>2. PICK m \in 1..Len(es) : es[m].key = key
  BY <1>1 DEF Parsed
<1>3. PICK i \in 1..Len(file) :
        es[m] = Imp!Entry(file[i]) /\ \A j \in 1..Len(file) : i < j => KeyOf(file, j) # es[m].key
  BY <1>1, <1>2 DEF Parsed, FromLast
<1>4. es[m].key = KeyOf(file, i) /\ es[m].value = file[i].value
  BY <1>3 DEF Imp!Entry, Imp!NormalizeKey, KeyOf
<1> HIDE DEF es, key
<1>5. i \in same /\ same \subseteq 1..Len(file) /\ \A j \in same : j <= i
  BY <1>2, <1>3, <1>4 DEF KeyOf
<1>6. i = CHOOSE k \in same : \A j \in same : j <= k
  <2>1. \A k \in same : (\A j \in same : j <= k) => k = i
    BY <1>5
  <2> HIDE DEF same
  <2> QED  BY <1>5, <2>1
<1>7. Imp!LastValue(file, key) = file[i].value
  BY <1>6 DEF Imp!LastValue
<1> QED  BY <1>2, <1>4, <1>7 DEF es, key
-----------------------------------------------------------------------------
(* What the request says *)

\* Commands that the host carries out in its own process.
Operations == {"set file", "get output"}

\* A request for a child says all of the command, and has the files of the
\* options that have been captured.
Says(r, cmd, home) ==
    /\ DOMAIN r = DOMAIN NoRequest
    /\ DOMAIN r.command = {"name", "workspace", "key", "overwrite", "skip", "paths"}
    /\ DOMAIN r.command.paths = DOMAIN cmd.paths
    /\ r.home = home /\ r.workspace = ClientWorkspace /\ r.stdin = cmd.stdin
    /\ r.operation.kind = "none"
    /\ r.command.name = cmd.name /\ r.command.workspace = cmd.workspace
    /\ r.command.key = cmd.key
Has(r, cmd, option) ==
    /\ r.command.paths[option].n \in 1..Len(r.files)
    /\ r.files[r.command.paths[option].n] = ClientFiles[cmd.paths[option]]

\* One option more is captured.
LEMMA CaptureKeeps ==
    ASSUME NEW cmd \in Commands, NEW home, NEW r, Says(r, cmd, home), r.files \in Seq(FileContents),
           NEW done, \A o \in done \cap DOMAIN cmd.paths : Has(r, cmd, o),
           NEW option
    PROVE  LET c == CaptureFileOption(r, cmd, option)
           IN  /\ Says(c, cmd, home) /\ c.files \in Seq(FileContents)
               /\ \A o \in (done \cup {option}) \cap DOMAIN cmd.paths : Has(c, cmd, o)
<1> DEFINE c == CaptureFileOption(r, cmd, option)
<1>1. CASE option \notin DOMAIN cmd.paths
  BY <1>1 DEF CaptureFileOption
<1>2. CASE option \in DOMAIN cmd.paths
  <2> DEFINE x == ClientFiles[cmd.paths[option]]
             place == [at |-> "placeholder", n |-> Len(r.files) + 1]
             paths == [r.command.paths EXCEPT ![option] = place]
             command == [r.command EXCEPT !.paths = paths]
  <2>1. x \in FileContents
    BY <1>2 DEF FileContents
  <2>2. c = [r EXCEPT !.command = command, !.files = Append(r.files, x)]
    BY <1>2 DEF CaptureFileOption, PlaceholderOf
  <2>3. /\ DOMAIN paths = DOMAIN cmd.paths /\ paths[option].n = Len(r.files) + 1
        /\ \A o \in DOMAIN cmd.paths : o # option => paths[o] = r.command.paths[o]
    BY <1>2 DEF Says
  <2> HIDE DEF paths
  <2>4. /\ DOMAIN command = DOMAIN r.command /\ command.paths = paths
        /\ command.name = r.command.name /\ command.workspace = r.command.workspace
        /\ command.key = r.command.key
    BY DEF Says
  <2> HIDE DEF command
  <2>5. /\ DOMAIN c = DOMAIN r /\ c.command = command /\ c.files = Append(r.files, x)
        /\ c.home = r.home /\ c.workspace = r.workspace /\ c.stdin = r.stdin
        /\ c.operation = r.operation
    BY <2>2 DEF Says, NoRequest
  <2> HIDE DEF c, x
  <2>6. Says(c, cmd, home)
    BY <2>3, <2>4, <2>5 DEF Says
  <2>7. /\ c.files \in Seq(FileContents) /\ Len(c.files) = Len(r.files) + 1
        /\ c.files[Len(r.files) + 1] = x /\ Len(r.files) \in Nat
        /\ \A i \in 1..Len(r.files) : c.files[i] = r.files[i]
    BY <2>1, <2>5
  <2>8. Has(c, cmd, option)
    BY <2>3, <2>4, <2>5, <2>7 DEF Has, x
  <2>9. ASSUME NEW o \in done \cap DOMAIN cmd.paths, o # option
        PROVE  Has(c, cmd, o)
    BY <2>3, <2>4, <2>5, <2>7, <2>9 DEF Has
  <2> QED  BY <2>6, <2>7, <2>8, <2>9 DEF c
<1> QED  BY <1>1, <1>2

\* The request of a command that a child carries out.
LEMMA ChildRequests ==
    ASSUME NEW cmd \in Commands, cmd.name \notin Operations, NEW r \in PrepareRemoteRequest(cmd)
    PROVE  /\ \E a \in ResolveRemote(cmd) : Says(r, cmd, a.home)
           /\ \A o \in DOMAIN cmd.paths : Has(r, cmd, o) /\ ClientFiles[cmd.paths[o]] # NoFile
<1> DEFINE base(a) == [NoRequest EXCEPT !.home = a.home, !.workspace = ClientWorkspace,
                                        !.command = StripRemoteArgs(cmd), !.stdin = cmd.stdin]
<1>1. PICK a \in ResolveRemote(cmd) : r = CaptureFiles(cmd, base(a))
  BY DEF PrepareRemoteRequest, Operations
<1>2. \A o \in DOMAIN cmd.paths : ClientFiles[cmd.paths[o]] # NoFile
  BY DEF PrepareRemoteRequest
<1> DEFINE env == CaptureFileOption(base(a), cmd, "--env-file")
           cert == CaptureFileOption(env, cmd, "--cert")
           last == CaptureFileOption(cert, cmd, "--rewrap-from-key")
<1>3. r = last
  BY <1>1 DEF CaptureFiles
<1>4. Says(base(a), cmd, a.home) /\ base(a).files = <<>>
  BY DEF Says, NoRequest, StripRemoteArgs
<1> HIDE DEF base
<1>5. /\ Says(env, cmd, a.home) /\ env.files \in Seq(FileContents)
      /\ \A o \in ({} \cup {"--env-file"}) \cap DOMAIN cmd.paths : Has(env, cmd, o)
  <2>1. base(a).files \in Seq(FileContents)
    BY <1>4, EmptyIsSeq
  <2>2. \A o \in {} \cap DOMAIN cmd.paths : Has(base(a), cmd, o)
    OBVIOUS
  <2> QED  BY <1>4, <2>1, <2>2, CaptureKeeps
<1> HIDE DEF env
<1>6. /\ Says(cert, cmd, a.home) /\ cert.files \in Seq(FileContents)
      /\ \A o \in ({"--env-file"} \cup {"--cert"}) \cap DOMAIN cmd.paths : Has(cert, cmd, o)
  BY <1>5, CaptureKeeps
<1> HIDE DEF cert
<1>7. /\ Says(last, cmd, a.home)
      /\ \A o \in ({"--env-file", "--cert"} \cup {"--rewrap-from-key"}) \cap DOMAIN cmd.paths :
            Has(last, cmd, o)
  <2>1. \A o \in {"--env-file", "--cert"} \cap DOMAIN cmd.paths : Has(cert, cmd, o)
    BY <1>6
  <2> QED  BY <1>6, <2>1, CaptureKeeps
<1> HIDE DEF last
<1>8. DOMAIN cmd.paths \subseteq {"--env-file", "--cert", "--rewrap-from-key"}
  BY CommandsAssumption DEF Operations
<1> QED  BY <1>2, <1>3, <1>7, <1>8

\* The request of a command that remote-stdio itself carries out.
LEMMA OperationRequests ==
    ASSUME NEW cmd \in Commands, cmd.name \in Operations, NEW r \in PrepareRemoteRequest(cmd)
    PROVE  /\ \E a \in ResolveRemote(cmd) : r.home = a.home
           /\ r.workspace = ClientWorkspace
           /\ r.operation.key = cmd.key
           /\ cmd.name = "get output" => r.operation.kind = "get"
           /\ cmd.name = "set file" =>
                /\ r.operation.kind = "set"
                /\ ClientFiles[cmd.paths["--file"]] \in Contents
                /\ \E mode \in ResolveCompressionMode(cmd.flags, cmd.level) :
                     r.operation.payload \in PrepareSecretPayload(ClientFiles[cmd.paths["--file"]], mode)
<1> DEFINE base(a) == [NoRequest EXCEPT !.home = a.home, !.workspace = ClientWorkspace,
                                        !.command = StripRemoteArgs(cmd), !.stdin = cmd.stdin]
<1>1. \A a, op : LET o == Operation(base(a), op)
                 IN  o.home = a.home /\ o.workspace = ClientWorkspace /\ o.operation = op
  BY DEF Operation, NoRequest
<1>2. CASE cmd.name = "get output"
  <2>1. PICK a \in ResolveRemote(cmd) : r = Operation(base(a), [kind |-> "get", key |-> cmd.key])
    BY <1>2 DEF PrepareRemoteRequest
  <2> HIDE DEF base
  <2>2. /\ r.home = a.home /\ r.workspace = ClientWorkspace
        /\ r.operation = [kind |-> "get", key |-> cmd.key]
    BY <1>1, <2>1
  <2>3. r.operation.kind = "get" /\ r.operation.key = cmd.key
    BY <2>2
  <2> QED  BY <1>2, <2>2, <2>3
<1>3. CASE cmd.name = "set file"
  <2> DEFINE file == ClientFiles[cmd.paths["--file"]]
  <2>1. PICK a \in ResolveRemote(cmd), mode \in ResolveCompressionMode(cmd.flags, cmd.level) :
           \E payload \in PrepareSecretPayload(file, mode) :
              r = Operation(base(a), SetPreparedFile(cmd, payload))
    <3>1. PICK a \in ResolveRemote(cmd) :
             r \in {Operation(base(a), SetPreparedFile(cmd, payload)) :
                     payload \in UNION {PrepareSecretPayload(file, mode) :
                                           mode \in ResolveCompressionMode(cmd.flags, cmd.level)}}
      BY <1>3 DEF PrepareRemoteRequest
    <3> HIDE DEF base, file
    <3> QED  BY <3>1
  <2>2. file \in Contents
    <3>1. \A o \in DOMAIN cmd.paths : ClientFiles[cmd.paths[o]] # NoFile
      BY DEF PrepareRemoteRequest
    <3> QED  BY <1>3, <3>1, CommandsAssumption
  <2> HIDE DEF base, file
  <2>3. PICK payload \in PrepareSecretPayload(file, mode) :
           r = Operation(base(a), SetPreparedFile(cmd, payload))
    BY <2>1
  <2>4. r.home = a.home /\ r.workspace = ClientWorkspace /\ r.operation = SetPreparedFile(cmd, payload)
    BY <1>1, <2>3
  <2>5. r.operation.kind = "set" /\ r.operation.key = cmd.key /\ r.operation.payload = payload
    BY <2>4 DEF SetPreparedFile
  <2> QED  BY <1>3, <2>1, <2>2, <2>3, <2>4, <2>5 DEF file
<1> QED  BY <1>2, <1>3 DEF Operations

\* The modes that the flags and the variable can ask for.
LEMMA ModesResolve ==
    ASSUME NEW cmd \in Commands
    PROVE  ResolveCompressionMode(cmd.flags, cmd.level) \subseteq Modes
<1>1. cmd.flags.level \in Int \cup {NoLevel} /\ cmd.level \in Int \cup {NoLevel}
  BY CommandsAssumption DEF Levels
<1> QED  BY <1>1 DEF ResolveCompressionMode, Modes, DefaultLevel

\* What is prepared is a payload.
LEMMA PreparedIsPayload ==
    ASSUME NEW c \in Contents, NEW mode
    PROVE  PrepareSecretPayload(c, mode) \subseteq Payloads
  BY DEF PrepareSecretPayload, Payloads
-----------------------------------------------------------------------------
(* The request on its way *)

\* Only a prepared request arrives, and it is one for a child or an operation.
RequestInv ==
    /\ link.alive \/ server.pc # "off" =>
         client.pc # "idle" /\ Request \in PrepareRemoteRequest(Cmd)
    /\ server.pc \in {"files", "feeding", "collecting"} \/ child.pc # "none" =>
         Request.operation.kind = "none"
    /\ server.pc = "operation" => Request.operation.kind # "none"

\* A command stays as it was typed, and a request as it was sent.
LEMMA RequestStays ==
    ASSUME IInv, [Next]_vars
    PROVE  /\ Cmd' = Cmd
           /\ client.pc # "idle" => client'.pc # "idle" /\ Request' = Request
<1>1. ClientType
  BY DEF IInv, Types
<1>2. CASE ClientNext
  BY <1>1, <1>2 DEF ClientNext, Dispatch, Send, SendFails, Receive, Ends, End, ClientType, Cmd, Request
<1>3. CASE UNCHANGED client
  BY <1>3 DEF Cmd, Request
<1>4. CASE ServerNext
  BY <1>3, <1>4 DEF ServerNext, Start, ReadBlock, ReadFails, Accept, WriteTempFile, Spawn, Feed, FeedFails,
                    Collect, Collected, Answer, AnswerFails, OperationFails, SetPrepared, GetRaw
<1>5. CASE ChildNext
  BY <1>3, <1>5 DEF ChildNext, ChildOpens, ChildReads, ChildHasRead, Runs, Prints
<1>6. CASE HangUp \/ ConnectionLost \/ ServerKilled \/ ChildKilled \/ OthersSet \/ OthersChangeKeys
  BY <1>3, <1>6 DEF HangUp, ConnectionLost, ServerKilled, ChildKilled, OthersSet, OthersChangeKeys
<1>7. CASE UNCHANGED vars
  BY <1>3, <1>7 DEF vars
<1> QED  BY <1>2, <1>4, <1>5, <1>6, <1>7 DEF Next

\* Every step keeps the request.
LEMMA RequestPreserved == ASSUME IInv, RequestInv, [Next]_vars PROVE RequestInv'
<1>1. ClientType /\ LinkType /\ ServerType /\ ChildType /\ Paired
  BY DEF IInv, Types
<1>2. /\ Cmd' = Cmd
      /\ client.pc # "idle" => client'.pc # "idle" /\ Request' = Request
  BY RequestStays
<1>3. server.pc # "off" \/ child.pc # "none" => client.pc # "idle" /\ Request' = Request
  BY <1>1, <1>2 DEF RequestInv, Paired
<1>4. CASE Dispatch
  <2>1. UNCHANGED <<server, child>> /\ client.pc = "idle"
    BY <1>4 DEF Dispatch
  <2>2. CASE UNCHANGED link
    BY <1>2, <1>3, <2>1, <2>2 DEF RequestInv
  <2>3. CASE \E r \in PrepareRemoteRequest(Cmd) :
            /\ client' = [client EXCEPT !.pc = "sending", !.request = r]
            /\ link' = [link EXCEPT !.alive = TRUE]
    <3>1. client'.pc = "sending" /\ Request' \in PrepareRemoteRequest(Cmd)
      BY <1>1, <2>3 DEF ClientType, Request
    <3>2. Request' \in PrepareRemoteRequest(Cmd')
      BY <1>2, <3>1
    <3> QED  BY <1>3, <2>1, <3>1, <3>2 DEF RequestInv, PrepareRemoteRequest
  <2> QED  BY <1>4, <2>2, <2>3 DEF Dispatch
<1>5. ASSUME ~Dispatch PROVE (link'.alive \/ server'.pc # "off") => (link.alive \/ server.pc # "off")
  <2>1. CASE ClientNext
    BY <1>1, <1>5, <2>1 DEF ClientNext, Send, SendFails, Receive, Ends, LinkType
  <2>2. CASE ServerNext
    BY <1>1, <2>2 DEF ServerNext, Start, ReadBlock, ReadFails, Accept, WriteTempFile, Spawn, Feed,
                      FeedFails, Collect, Collected, Answer, AnswerFails, OperationFails, SetPrepared,
                      GetRaw, Operating, Return, LinkType, ServerType
  <2>3. CASE ChildNext \/ ChildKilled \/ OthersSet \/ OthersChangeKeys \/ UNCHANGED vars
    BY <2>3 DEF ChildNext, ChildOpens, ChildReads, ChildHasRead, Runs, Prints, ChildKilled, OthersSet,
                OthersChangeKeys, vars
  <2>4. CASE HangUp \/ ConnectionLost \/ ServerKilled
    BY <1>1, <2>4 DEF HangUp, ConnectionLost, ServerKilled, LinkType, ServerType
  <2> QED  BY <2>1, <2>2, <2>3, <2>4 DEF Next
<1>6. ASSUME ~Dispatch
      PROVE  /\ server'.pc \in {"files", "feeding", "collecting"} \/ child'.pc # "none" =>
                  Request.operation.kind = "none"
             /\ server'.pc = "operation" => Request.operation.kind # "none"
             /\ server'.pc \in {"files", "feeding", "collecting", "operation"} \/ child'.pc # "none" =>
                  server.pc # "off" \/ child.pc # "none"
  <2>1. CASE ClientNext \/ OthersSet \/ OthersChangeKeys \/ UNCHANGED vars
    <3>1. UNCHANGED <<server, child>>
      BY <1>6, <2>1 DEF ClientNext, Send, SendFails, Receive, Ends, OthersSet, OthersChangeKeys, vars
    <3> QED  BY <3>1 DEF RequestInv
  <2>2. CASE Accept
    BY <1>1, <2>2 DEF RequestInv, Accept, Return, ServerType, Paired
  <2>3. CASE Start \/ ReadBlock \/ ReadFails \/ WriteTempFile \/ Spawn
    BY <1>1, <2>3 DEF RequestInv, Start, ReadBlock, ReadFails, WriteTempFile, Spawn, Return,
                      ServerType, ChildType
  <2>4. CASE Feed \/ FeedFails \/ Collect \/ Collected \/ Answer \/ AnswerFails
    BY <1>1, <2>4 DEF RequestInv, Feed, FeedFails, Collect, Collected, Answer, AnswerFails, Return,
                      ServerType, ChildType
  <2>5. CASE OperationFails \/ SetPrepared \/ GetRaw
    BY <1>1, <2>5 DEF RequestInv, OperationFails, SetPrepared, GetRaw, Operating, Return, ServerType
  <2>6. CASE ChildNext \/ ChildKilled
    <3>1. UNCHANGED server /\ child.pc # "none"
      BY <2>6 DEF ChildNext, ChildOpens, ChildReads, ChildHasRead, Runs, Prints, ChildKilled
    <3> QED  BY <1>1, <3>1 DEF RequestInv, Paired
  <2>7. CASE HangUp \/ ConnectionLost \/ ServerKilled
    BY <1>1, <2>7 DEF RequestInv, HangUp, ConnectionLost, ServerKilled, ServerType
  <2> QED  BY <2>1, <2>2, <2>3, <2>4, <2>5, <2>6, <2>7 DEF Next, ServerNext
<1>7. CASE ~Dispatch
  <2>1. link'.alive \/ server'.pc # "off" =>
          client'.pc # "idle" /\ Request' = Request /\ Request \in PrepareRemoteRequest(Cmd)
    BY <1>2, <1>5, <1>7 DEF RequestInv
  <2>2. PrepareRemoteRequest(Cmd') = PrepareRemoteRequest(Cmd)
    BY <1>2
  <2>3. link'.alive \/ server'.pc # "off" =>
          client'.pc # "idle" /\ Request' \in PrepareRemoteRequest(Cmd')
    BY <2>1, <2>2
  <2>4. server'.pc \in {"files", "feeding", "collecting"} \/ child'.pc # "none" =>
          Request'.operation.kind = "none"
    BY <1>3, <1>6, <1>7
  <2>5. server'.pc = "operation" => Request'.operation.kind # "none"
    BY <1>3, <1>6, <1>7
  <2>6. (PrepareRemoteRequest(Cmd))' = PrepareRemoteRequest(Cmd')
    BY DEF PrepareRemoteRequest
  <2> QED  BY <2>3, <2>4, <2>5, <2>6 DEF RequestInv
<1> QED  BY <1>4, <1>7

\* What a child knows of the command.
LEMMA ChildKnows ==
    ASSUME IInv, RequestInv, child.pc # "none" \/ server.pc \in {"files", "feeding", "collecting"}
    PROVE  /\ Cmd \in Commands /\ Cmd.name \notin Operations
           /\ \E a \in ResolveRemote(Cmd) : Says(Request, Cmd, a.home)
           /\ \A o \in DOMAIN Cmd.paths : Has(Request, Cmd, o) /\ ClientFiles[Cmd.paths[o]] # NoFile
<1>1. Cmd \in Commands /\ Request \in PrepareRemoteRequest(Cmd) /\ Request.operation.kind = "none"
  BY DEF IInv, Types, ClientType, Paired, RequestInv, Cmd
<1>2. Cmd.name \notin Operations
  BY <1>1, OperationRequests DEF Operations
<1> QED  BY <1>1, <1>2, ChildRequests

\* What remote-stdio knows of an operation.
LEMMA HostKnows ==
    ASSUME IInv, RequestInv, Operating
    PROVE  /\ Cmd \in Commands /\ Cmd.name \in Operations
           /\ Request \in PrepareRemoteRequest(Cmd)
           /\ Cmd.name = "set file" <=> Op.kind = "set"
           /\ Cmd.name = "get output" <=> Op.kind = "get"
           /\ Op.key = Cmd.key /\ Cmd.key \in Keys
<1>1. Cmd \in Commands /\ Request \in PrepareRemoteRequest(Cmd) /\ Request.operation.kind # "none"
  BY DEF IInv, Types, ClientType, Operating, RequestInv, Cmd
<1>2. Cmd.name \in Operations
  BY <1>1, ChildRequests DEF Says
<1> QED  BY <1>1, <1>2, OperationRequests, CommandsAssumption DEF Operations, Op

\* The child reads the files of the client.
LEMMA ChildReadsFiles ==
    ASSUME IInv, RequestInv, child.pc = "running", NEW o \in DOMAIN Cmd.paths
    PROVE  Reads(o) = {ClientFiles[Cmd.paths[o]]} /\ o \in DOMAIN Args.paths
<1>1. /\ Has(Request, Cmd, o) /\ DOMAIN Args.paths = DOMAIN Cmd.paths
  BY ChildKnows DEF Says, Args
<1>2. /\ Len(temp) = Len(Request.files) /\ temp \in Seq(TempFile)
      /\ \A i \in 1..Len(temp) : temp[i] = [contents |-> Request.files[i], state |-> "guarded"]
  BY DEF IInv, Types, FileTypes, Guarded
<1> DEFINE n == Args.paths[o].n
<1>3. n \in 1..Len(temp) /\ DOMAIN temp = 1..Len(temp)
  BY <1>1, <1>2 DEF Has, Args
<1>4. temp[n].state = "guarded" /\ temp[n].contents = ClientFiles[Cmd.paths[o]]
  <2>1. Request.files[n] = ClientFiles[Cmd.paths[o]]
    BY <1>1 DEF Has, Args
  <2> HIDE DEF n
  <2>2. temp[n] = [contents |-> Request.files[n], state |-> "guarded"]
    BY <1>2, <1>3
  <2> QED  BY <2>1, <2>2
<1>5. {n} \cap {j \in DOMAIN temp : temp[j].state # "removed"} = {n}
  BY <1>3, <1>4
<1> HIDE DEF n
<1>6. Reads(o) = {temp[i].contents : i \in {n}}
  BY <1>5 DEF Reads, n
<1> QED  BY <1>1, <1>4, <1>6
-----------------------------------------------------------------------------
(* The import of the child *)

Importing == job["child"]
Entries == Imp!ParseEnvFile(Importing.file)
Pair(e) == <<e.key, e.value>>
Rest(es, n) == SubSeq(es, n + 1, Len(es))

ContentType == content \in [Keys -> Payloads \cup {NoValue}]

ImportFields ==
    {"pc", "file", "overwrite", "skip", "existing", "todo", "wrote", "disturbed", "cause"}

\* The import that goes on is that of the command, with the file of the client.
ImportType ==
    /\ DOMAIN job = {"child"}
    /\ Importing.pc \in {"idle", "failed", "writing", "done"}
    /\ Importing.pc # "idle" =>
        /\ DOMAIN Importing = ImportFields
        /\ child.pc # "none" /\ Cmd.name = "import"
        /\ Importing.file = ClientFiles[Cmd.paths["--env-file"]] /\ Importing.file \in EnvFiles

\* The first n entries have been skipped or written, and no other.
Passed(n) ==
    /\ \A i \in 1..n : \/ Importing.skip /\ Entries[i].key \in Importing.existing
                       \/ Pair(Entries[i]) \in Importing.wrote
    /\ \A w \in Importing.wrote : \E i \in 1..n : w = Pair(Entries[i])

Progress ==
    /\ Importing.pc = "writing" =>
         \E n \in 0..Len(Entries) : Importing.todo = Rest(Entries, n) /\ Passed(n)
    /\ Importing.pc = "writing" => \A i \in 1..Len(Entries) : Entries[i].key \in Keys
    /\ Importing.pc = "done" => Passed(Len(Entries))

\* As long as nobody else has changed the workspace it is as it was listed, but
\* for what has been written; so the first entry fails or none does.
Alone ==
    /\ Importing.pc = "writing" /\ ~Importing.overwrite /\ ~Importing.skip =>
         \A i \in 1..Len(Entries) : Entries[i].key \notin Importing.existing
    /\ Importing.pc = "writing" /\ ~Importing.disturbed =>
        /\ Importing.wrote # {} => workspace = "open"
        /\ Imp!Present \subseteq Importing.existing \cup {w[1] : w \in Importing.wrote}
    /\ Importing.pc = "failed" /\ ~Importing.disturbed => Importing.wrote = {}

ImportInv == ImportType /\ Progress /\ Alone

\* What is left after n entries.
LEMMA RestSteps ==
    ASSUME NEW S, NEW es \in Seq(S), NEW n \in 0..Len(es)
    PROVE  /\ Rest(es, 0) = es
           /\ Rest(es, n) = <<>> => n = Len(es)
           /\ Rest(es, n) # <<>> => /\ n + 1 \in 1..Len(es)
                                    /\ Head(Rest(es, n)) = es[n + 1]
                                    /\ Tail(Rest(es, n)) = Rest(es, n + 1)
<1>1. Rest(es, 0) = es
  BY DEF Rest
<1>2. Rest(es, n) = <<>> => n = Len(es)
  BY DEF Rest
<1>3. ASSUME Rest(es, n) # <<>>
      PROVE  /\ n + 1 \in 1..Len(es)
             /\ Head(Rest(es, n)) = es[n + 1]
             /\ Tail(Rest(es, n)) = Rest(es, n + 1)
  <2>1. n + 1 \in 1..Len(es)
    BY <1>3 DEF Rest
  <2>2. Head(Rest(es, n)) = es[n + 1]
    BY <1>3, <2>1 DEF Rest
  <2>3. Tail(Rest(es, n)) = Rest(es, n + 1)
    BY <1>3, <2>1 DEF Rest
  <2> QED  BY <2>1, <2>2, <2>3
<1> QED  BY <1>1, <1>2, <1>3

\* The entries of the file that is imported.
LEMMA EntriesParse ==
    ASSUME Importing.file \in EnvFiles
    PROVE  /\ Entries \in Seq(EntriesOf(Importing.file)) /\ Importing.file \in Seq(Lines)
           /\ \A m, n \in 1..Len(Entries) : Entries[m].key = Entries[n].key => m = n
           /\ \A m \in 1..Len(Entries) : Entries[m].value \in Payloads
<1>1. Importing.file \in Seq(Lines)
  BY ValuesAssumption DEF Lines
<1>2. Parsed(Entries, Importing.file, Len(Importing.file))
  BY <1>1, FilesParse DEF Entries
<1>3. \A e \in EntriesOf(Importing.file) : e.value \in Payloads
  <2>1. \A l \in 1..Len(Importing.file) : Importing.file[l] \in Lines
    BY <1>1
  <2>2. \A line \in Lines : line.value \in Payloads
    BY DEF Lines
  <2> QED  BY <2>1, <2>2 DEF EntriesOf, Imp!Entry
<1> QED  BY <1>1, <1>2, <1>3 DEF Parsed

\* The import does not change while others do not change what it works on.
LEMMA ImportStays ==
    ASSUME IInv, RequestInv, ImportInv, [Next]_vars, UNCHANGED job,
           child.pc # "none" => child'.pc # "none",
           Importing.pc = "writing" => UNCHANGED <<content, workspace>>
    PROVE  ImportInv'
<1>1. /\ Importing' = Importing /\ Entries' = Entries /\ Cmd' = Cmd
      /\ ImportFields' = ImportFields
  BY RequestStays DEF Importing, Entries, ImportFields
<1>2. \A n : Passed(n)' = Passed(n)
  BY <1>1 DEF Passed
<1>3. ImportType'
  BY <1>1 DEF ImportInv, ImportType
<1>4. Progress'
  BY <1>1, <1>2 DEF ImportInv, Progress
<1>5. Importing.pc = "writing" => Imp!Present' = Imp!Present
  BY DEF Imp!Present
<1>6. Alone'
  BY <1>1, <1>5 DEF ImportInv, Alone
<1> QED  BY <1>3, <1>4, <1>6 DEF ImportInv

\* The file is read, and the import begins or fails.
LEMMA ImportBegins ==
    ASSUME IInv, RequestInv, ImportInv, Runs, ImportStarts
    PROVE  ImportInv' /\ UNCHANGED content
<1>1. /\ child.pc = "running" /\ Args.name = "import" /\ Importing.pc = "idle"
      /\ UNCHANGED <<client, content, workspace>>
  BY DEF Runs, ImportStarts, Importing, Imp!Import, store
<1>2. Cmd.name = "import" /\ Cmd \in Commands /\ ClientFiles[Cmd.paths["--env-file"]] # NoFile
      /\ "--env-file" \in DOMAIN Cmd.paths
  BY <1>1, ChildKnows, CommandsAssumption DEF Says, Args
<1> DEFINE file == ClientFiles[Cmd.paths["--env-file"]]
<1>3. file \in EnvFiles
  BY <1>2, CommandsAssumption
<1>4. Reads("--env-file") = {file}
  BY <1>1, <1>2, ChildReadsFiles
<1>5. Imp!Import("child", file, Args.overwrite, Args.skip)
  <2>1. Reads("--env-file") # {}
    BY <1>4
  <2> QED  BY <1>4, <2>1 DEF ImportStarts
<1>6. child'.pc # "none"
  <2>1. child' = child \/ Exit(1)
    BY <1>4 DEF ImportStarts
  <2> QED  BY <1>1, <2>1 DEF Exit, IInv, Types, ChildType
<1>7. Cmd' = Cmd /\ Cmd'.name = "import"
  BY <1>1, <1>2 DEF Cmd
<1> HIDE DEF file
<1> DEFINE es == Imp!ParseEnvFile(file)
           started == [pc |-> "failed", file |-> file, overwrite |-> Args.overwrite,
                       skip |-> Args.skip, existing |-> {}, todo |-> <<>>,
                       wrote |-> {}, disturbed |-> FALSE, cause |-> "none"]
           failed == \E cause : job' = [job EXCEPT !["child"] = [started EXCEPT !.cause = cause]]
           writing == /\ Imp!Parses(file)
                      /\ Args.overwrite \/ Args.skip \/ ~Imp!Conflicts(es)
                      /\ job' = [job EXCEPT !["child"] = [started EXCEPT !.pc = "writing",
                                                   !.existing = Imp!Present, !.todo = es]]
<1>8. failed \/ writing
  BY <1>5 DEF Imp!Import, Imp!Update
<1>9. DOMAIN job = {"child"} /\ DOMAIN job' = {"child"}
  BY <1>8 DEF ImportInv, ImportType
<1>10. CASE failed
  <2>1. PICK cause : job' = [job EXCEPT !["child"] = [started EXCEPT !.cause = cause]]
    BY <1>10
  <2>2. /\ Importing'.pc = "failed" /\ Importing'.file = file /\ Importing'.wrote = {}
        /\ DOMAIN Importing' = ImportFields
    BY <1>9, <2>1 DEF Importing, ImportFields
  <2> QED  BY <1>1, <1>3, <1>6, <1>7, <1>9, <2>2
           DEF ImportInv, ImportType, Progress, Alone, file, ImportFields
<1>11. CASE writing
  <2>1. job'["child"] = [started EXCEPT !.pc = "writing", !.existing = Imp!Present, !.todo = es]
    BY <1>9, <1>11
  <2>2. /\ Importing'.pc = "writing" /\ Importing'.file = file /\ Importing'.wrote = {}
        /\ Importing'.todo = es /\ Importing'.existing = Imp!Present
        /\ Importing'.overwrite = Args.overwrite /\ Importing'.skip = Args.skip
        /\ DOMAIN Importing' = ImportFields
    BY <2>1 DEF Importing, ImportFields
  <2>3. es \in Seq(EntriesOf(file))
    BY <1>3, FilesParse, ValuesAssumption DEF Parsed, Lines
  <2>4. Entries' = es
    BY <2>2 DEF Entries
  <2>5. Rest(es, 0) = es /\ 0 \in 0..Len(es)
    BY <2>3, RestSteps
  <2> HIDE DEF es
  <2>6. Passed(0)'
    BY <2>2 DEF Passed
  <2>7. Progress'
    <3>1. \A i \in 1..Len(es) : es[i].key \in Keys
      <4>1. es = Imp!ParseEnvFile(file) /\ file \in Seq(Lines)
        BY <1>3, ValuesAssumption DEF es, Lines
      <4>2. \A l \in 1..Len(file) : KeyOf(file, l) \in Keys
        <5> SUFFICES ASSUME NEW l \in 1..Len(file) PROVE Normal[file[l].key] \in Keys
          BY DEF KeyOf
        <5>1. file[l] \in Lines /\ file[l] \in Imp!ToSet(file)
          BY <4>1 DEF Imp!ToSet
        <5>2. file[l].key \in DOMAIN Normal
          BY <5>1 DEF Lines
        <5>3. Normal[file[l].key] # Invalid
          BY <1>11, <5>1 DEF Imp!Parses, Imp!NormalizeKey
        <5> QED  BY <5>2, <5>3, KeysAssumption
      <4>3. \A x \in EntriesOf(file) : x.key \in Keys
        BY <4>2 DEF EntriesOf, Imp!Entry, Imp!NormalizeKey, KeyOf
      <4> QED  BY <2>3, <4>3
    <3>2. \E n \in 0..Len(Entries') : Importing'.todo = Rest(Entries', n) /\ Passed(n)'
      BY <2>2, <2>4, <2>5, <2>6
    <3> QED  BY <2>2, <2>4, <3>1, <3>2 DEF Progress, Rest, Passed
  <2>8. ~Args.overwrite /\ ~Args.skip => \A i \in 1..Len(es) : es[i].key \notin Imp!Present
    BY <1>11, <2>3 DEF Imp!Conflicts, Imp!ToSet
  <2>9. Imp!Present' = Imp!Present
    BY <1>1 DEF Imp!Present
  <2>10. Alone'
    BY <2>2, <2>4, <2>8, <2>9 DEF Alone
  <2>11. ImportType'
    BY <1>3, <1>6, <1>7, <1>9, <2>2 DEF ImportType, file, ImportFields
  <2> QED  BY <1>1, <2>7, <2>10, <2>11 DEF ImportInv
<1> QED  BY <1>1, <1>8, <1>10, <1>11

\* One entry more has been passed.
PassesOne(n) ==
    /\ Importing'.file = Importing.file /\ Importing'.skip = Importing.skip
    /\ Importing'.existing = Importing.existing
    /\ \/ /\ Importing'.wrote = Importing.wrote
          /\ Importing.skip /\ Entries[n + 1].key \in Importing.existing
       \/ Importing'.wrote = Importing.wrote \cup {Pair(Entries[n + 1])}

LEMMA OneMore ==
    ASSUME NEW n \in Nat, Passed(n), PassesOne(n)
    PROVE  Passed(n + 1)' /\ Entries' = Entries
<1>1. Entries' = Entries
  BY DEF Entries, PassesOne
<1>2. 1..n \subseteq 1..n + 1 /\ n + 1 \in 1..n + 1 /\ \A i \in 1..n + 1 : i \in 1..n \/ i = n + 1
  OBVIOUS
<1>3. \A i \in 1..n + 1 : \/ Importing'.skip /\ Entries'[i].key \in Importing'.existing
                          \/ Pair(Entries'[i]) \in Importing'.wrote
  BY <1>1, <1>2 DEF Passed, PassesOne
<1>4. \A w \in Importing'.wrote : \E i \in 1..n + 1 : w = Pair(Entries'[i])
  BY <1>1, <1>2 DEF Passed, PassesOne
<1> QED  BY <1>1, <1>3, <1>4 DEF Passed, Pair

\* An entry is skipped or written, or the import fails.
LEMMA ImportGoesOn ==
    ASSUME IInv, RequestInv, ImportInv, ContentType, Runs, ImportWrites
    PROVE  ImportInv' /\ ContentType'
<1>1. /\ child.pc = "running" /\ Importing.pc = "writing" /\ UNCHANGED <<client, workspace>>
      /\ Importing.todo # <<>>
  BY DEF Runs, ImportWrites, Importing, Imp!Skip, Imp!Set
<1>2. /\ Importing.file \in EnvFiles /\ Importing.file = ClientFiles[Cmd.paths["--env-file"]]
      /\ Cmd.name = "import" /\ DOMAIN job = {"child"} /\ DOMAIN Importing = ImportFields
  BY <1>1 DEF ImportInv, ImportType
<1>3. /\ Entries \in Seq(EntriesOf(Importing.file))
      /\ \A i, k \in 1..Len(Entries) : Entries[i].key = Entries[k].key => i = k
      /\ \A i \in 1..Len(Entries) : Entries[i].value \in Payloads
  BY <1>2, EntriesParse
<1>4. PICK n \in 0..Len(Entries) : Importing.todo = Rest(Entries, n) /\ Passed(n)
  BY <1>1 DEF ImportInv, Progress
<1> DEFINE e == Head(Importing.todo)
<1>5. /\ n \in Nat /\ n + 1 \in 1..Len(Entries) /\ e = Entries[n + 1]
      /\ Tail(Importing.todo) = Rest(Entries, n + 1)
  BY <1>1, <1>3, <1>4, RestSteps
<1>6. child'.pc # "none" /\ Cmd' = Cmd
  <2>1. Exit(1) \/ child' = [child EXCEPT !.prints = TRUE]
    BY DEF ImportWrites
  <2> QED  BY <1>1, <2>1 DEF Exit, IInv, Types, ChildType, Cmd
<1> HIDE DEF e
<1> DEFINE skipped == /\ Importing.skip /\ e.key \in Importing.existing
                      /\ job' = [job EXCEPT !["child"] = [Importing EXCEPT !.todo = Tail(@)]]
                      /\ UNCHANGED content
           failed == /\ \/ workspace # "open"
                        \/ e.key \in Imp!Present /\ ~Importing.overwrite
                     /\ ~(Importing.skip /\ e.key \in Importing.existing)
                     /\ \E cause : job' = [job EXCEPT !["child"] =
                                             [Importing EXCEPT !.pc = "failed", !.cause = cause]]
                     /\ UNCHANGED content
           written == /\ workspace = "open"
                      /\ content' = [content EXCEPT ![e.key] = e.value]
                      /\ job' = [q \in {"child"} |->
                                    IF q = "child"
                                    THEN [Importing EXCEPT !.todo = Tail(@),
                                                           !.wrote = @ \cup {<<e.key, e.value>>}]
                                    ELSE Imp!Disturbed(job[q])]
<1>7. skipped \/ failed \/ written
  BY DEF ImportWrites, Imp!Skip, Imp!Set, Imp!Update, Imp!Failed, Imp!Overwrites, Importing, e
<1>8. CASE skipped
  <2>1. job'["child"] = [Importing EXCEPT !.todo = Tail(@)] /\ DOMAIN job' = {"child"}
    BY <1>2, <1>8
  <2>2. /\ DOMAIN Importing' = ImportFields /\ Importing'.pc = "writing"
        /\ Importing'.file = Importing.file /\ Importing'.skip = Importing.skip
        /\ Importing'.overwrite = Importing.overwrite /\ Importing'.existing = Importing.existing
        /\ Importing'.wrote = Importing.wrote /\ Importing'.disturbed = Importing.disturbed
        /\ Importing'.todo = Tail(Importing.todo)
    BY <1>1, <1>2, <2>1 DEF Importing, ImportFields
  <2>3. Passed(n + 1)' /\ Entries' = Entries
    BY <1>4, <1>5, <1>8, <2>2, OneMore DEF PassesOne
  <2>4. Progress'
    <3>1. Importing'.todo = Rest(Entries', n + 1) /\ n + 1 \in 0..Len(Entries')
      BY <1>5, <2>2, <2>3
    <3>2. \A i \in 1..Len(Entries') : Entries'[i].key \in Keys
      BY <1>1, <2>3 DEF ImportInv, Progress
    <3> QED  BY <2>2, <2>3, <3>1, <3>2 DEF Progress, Rest, Passed
  <2>5. Alone'
    BY <1>1, <1>8, <2>2, <2>3 DEF ImportInv, Alone, Imp!Present
  <2>6. ImportType'
    BY <1>2, <1>6, <2>1, <2>2 DEF ImportType, ImportFields
  <2> QED  BY <1>8, <2>4, <2>5, <2>6 DEF ImportInv, ContentType
<1>9. CASE failed
  <2>1. PICK cause : job' = [job EXCEPT !["child"] =
                                [Importing EXCEPT !.pc = "failed", !.cause = cause]]
    BY <1>9
  <2>2. job'["child"] = [Importing EXCEPT !.pc = "failed", !.cause = cause] /\ DOMAIN job' = {"child"}
    BY <1>2, <2>1
  <2>3. /\ DOMAIN Importing' = ImportFields /\ Importing'.pc = "failed"
        /\ Importing'.file = Importing.file /\ Importing'.wrote = Importing.wrote
        /\ Importing'.disturbed = Importing.disturbed
    BY <1>2, <2>2 DEF Importing, ImportFields
  <2>4. ~Importing.disturbed => Importing.wrote = {}
    <3> SUFFICES ASSUME ~Importing.disturbed, Importing.wrote # {} PROVE FALSE
      OBVIOUS
    <3>1. /\ workspace = "open"
          /\ Imp!Present \subseteq Importing.existing \cup {w[1] : w \in Importing.wrote}
      BY <1>1 DEF ImportInv, Alone
    <3>2. e.key \in Imp!Present /\ ~Importing.overwrite
      BY <1>9, <3>1
    <3>3. e.key \notin Importing.existing
      BY <1>1, <1>5, <1>9, <3>2 DEF ImportInv, Alone
    <3>4. PICK w \in Importing.wrote : e.key = w[1]
      BY <3>1, <3>2, <3>3
    <3>5. PICK i \in 1..n : w = Pair(Entries[i])
      BY <1>4 DEF Passed
    <3>6. Entries[i].key = Entries[n + 1].key /\ i \in 1..Len(Entries) /\ i # n + 1
      BY <1>5, <3>4, <3>5 DEF Pair
    <3> QED  BY <1>3, <1>5, <3>6
  <2>5. Progress' /\ Alone'
    BY <2>3, <2>4 DEF Progress, Alone
  <2>6. ImportType'
    BY <1>2, <1>6, <2>2, <2>3 DEF ImportType, ImportFields
  <2> QED  BY <1>9, <2>5, <2>6 DEF ImportInv, ContentType
<1>10. CASE written
  <2>1. job'["child"] = [Importing EXCEPT !.todo = Tail(@), !.wrote = @ \cup {<<e.key, e.value>>}]
        /\ DOMAIN job' = {"child"}
    BY <1>2, <1>10
  <2>2. /\ DOMAIN Importing' = ImportFields /\ Importing'.pc = "writing"
        /\ Importing'.file = Importing.file /\ Importing'.skip = Importing.skip
        /\ Importing'.overwrite = Importing.overwrite /\ Importing'.existing = Importing.existing
        /\ Importing'.wrote = Importing.wrote \cup {<<e.key, e.value>>}
        /\ Importing'.disturbed = Importing.disturbed
        /\ Importing'.todo = Tail(Importing.todo)
    BY <1>1, <1>2, <2>1 DEF Importing, ImportFields
  <2>3. Passed(n + 1)' /\ Entries' = Entries
    BY <1>4, <1>5, <2>2, OneMore DEF PassesOne, Pair
  <2>4. Progress'
    <3>1. Importing'.todo = Rest(Entries', n + 1) /\ n + 1 \in 0..Len(Entries')
      BY <1>5, <2>2, <2>3
    <3>2. \A i \in 1..Len(Entries') : Entries'[i].key \in Keys
      BY <1>1, <2>3 DEF ImportInv, Progress
    <3> QED  BY <2>2, <2>3, <3>1, <3>2 DEF Progress, Rest, Passed
  <2>5. Imp!Present' \subseteq Imp!Present \cup {e.key}
    BY <1>10 DEF ContentType, Imp!Present
  <2>6. Alone'
    <3>1. workspace' = "open"
      BY <1>1, <1>10
    <3>2. ~Importing.disturbed =>
            Imp!Present' \subseteq Importing'.existing \cup {w[1] : w \in Importing'.wrote}
      <4>1. e.key \in {w[1] : w \in Importing'.wrote}
        <5>1. <<e.key, e.value>> \in Importing'.wrote /\ <<e.key, e.value>>[1] = e.key
          BY <2>2
        <5> QED  BY <5>1
      <4>2. {w[1] : w \in Importing.wrote} \subseteq {w[1] : w \in Importing'.wrote}
        BY <2>2
      <4> QED  BY <1>1, <2>2, <2>5, <4>1, <4>2 DEF ImportInv, Alone
    <3> QED  BY <1>1, <2>2, <2>3, <3>1, <3>2 DEF ImportInv, Alone
  <2>7. ImportType'
    BY <1>2, <1>6, <2>1, <2>2 DEF ImportType, ImportFields
  <2>8. ContentType'
    BY <1>3, <1>5, <1>10 DEF ContentType
  <2> QED  BY <2>4, <2>6, <2>7, <2>8 DEF ImportInv
<1> QED  BY <1>7, <1>8, <1>9, <1>10

\* After the last entry it is done.
LEMMA ImportFinishes ==
    ASSUME IInv, RequestInv, ImportInv, Runs, ImportEnds
    PROVE  ImportInv' /\ UNCHANGED content
<1>1. /\ child.pc = "running" /\ Importing.pc = "writing" /\ Importing.todo = <<>>
      /\ UNCHANGED <<client, workspace, content>>
      /\ job' = [job EXCEPT !["child"] = [Importing EXCEPT !.pc = "done"]]
  BY DEF Runs, ImportEnds, Importing, Imp!Finish, Imp!Update
<1>2. /\ Importing.file \in EnvFiles /\ DOMAIN job = {"child"} /\ DOMAIN Importing = ImportFields
  BY <1>1 DEF ImportInv, ImportType
<1>3. /\ DOMAIN job' = {"child"} /\ DOMAIN Importing' = ImportFields
      /\ Importing'.pc = "done" /\ Importing'.file = Importing.file
      /\ Importing'.skip = Importing.skip
      /\ Importing'.wrote = Importing.wrote /\ Importing'.existing = Importing.existing
  BY <1>1, <1>2 DEF Importing, ImportFields
<1>4. Passed(Len(Entries)) /\ Entries' = Entries
  <2>1. PICK n \in 0..Len(Entries) : Importing.todo = Rest(Entries, n) /\ Passed(n)
    BY <1>1 DEF ImportInv, Progress
  <2>2. n = Len(Entries)
    BY <1>1, <1>2, <2>1, EntriesParse, RestSteps
  <2> QED  BY <1>3, <2>1, <2>2 DEF Entries
<1>5. child'.pc # "none" /\ Cmd' = Cmd
  BY <1>1 DEF ImportEnds, Exit, IInv, Types, ChildType, Cmd
<1>6. Passed(Len(Entries))'
  BY <1>3, <1>4 DEF Passed
<1>7. ImportType' /\ Progress' /\ Alone'
  <2>1. ImportType'
    BY <1>1, <1>3, <1>5 DEF ImportInv, ImportType, ImportFields
  <2>2. Progress' /\ Alone'
    BY <1>3, <1>6 DEF Progress, Alone
  <2> QED  BY <2>1, <2>2
<1> QED  BY <1>1, <1>7 DEF ImportInv

\* What others do is remembered.
LEMMA OthersDisturb ==
    ASSUME IInv, RequestInv, ImportInv, ContentType, OthersSet
    PROVE  ImportInv' /\ ContentType'
<1>1. /\ UNCHANGED <<client, child>> /\ Importing.pc = "writing" /\ Imp!Other
  BY DEF OthersSet, Importing
<1>2. /\ DOMAIN job = {"child"} /\ DOMAIN Importing = ImportFields
  BY <1>1 DEF ImportInv, ImportType
<1>3. job'["child"] = [Importing EXCEPT !.disturbed = TRUE] /\ DOMAIN job' = {"child"}
  BY <1>1 DEF Imp!Other, Imp!Disturbed, Importing
<1>4. /\ DOMAIN Importing' = ImportFields /\ Importing'.pc = "writing"
      /\ Importing'.file = Importing.file /\ Importing'.skip = Importing.skip
      /\ Importing'.overwrite = Importing.overwrite /\ Importing'.existing = Importing.existing
      /\ Importing'.wrote = Importing.wrote /\ Importing'.disturbed = TRUE
      /\ Importing'.todo = Importing.todo
  BY <1>1, <1>2, <1>3 DEF Importing, ImportFields
<1>5. Entries' = Entries /\ Cmd' = Cmd /\ \A n : Passed(n) => Passed(n)'
  BY <1>1, <1>4 DEF Entries, Cmd, Passed
<1>6. Progress'
  BY <1>1, <1>4, <1>5 DEF ImportInv, Progress, Rest
<1>7. Alone'
  BY <1>1, <1>4, <1>5 DEF ImportInv, Alone
<1>8. ImportType'
  BY <1>1, <1>3, <1>4, <1>5 DEF ImportInv, ImportType, ImportFields
<1>9. ContentType'
  BY <1>1, ValuesAssumption DEF Imp!Other, ContentType
<1> QED  BY <1>6, <1>7, <1>8, <1>9 DEF ImportInv

StoreInv == RequestInv /\ ContentType /\ ImportInv

\* A child only writes payloads.
LEMMA ChildWritesPayloads ==
    ASSUME IInv, RequestInv, ContentType, Runs, DeleteSecret \/ SetSecret \/ AddCertificate
    PROVE  ContentType' /\ Cmd.name # "import" /\ UNCHANGED job
<1>1. Args.name = Cmd.name /\ Args.key = Cmd.key /\ Request.stdin = Cmd.stdin /\ Cmd \in Commands
  BY ChildKnows DEF Runs, Says, Args
<1>2. CASE DeleteSecret
  BY <1>1, <1>2 DEF DeleteSecret, Fails, ContentType
<1>3. CASE SetSecret
  <2>1. PICK value \in Stdin : \/ content' = [content EXCEPT ![Args.key] = value]
                               \/ UNCHANGED content
    BY <1>3 DEF SetSecret, Fails
  <2>2. \E c \in Contents : Request.stdin = AsIs(c)
    BY <1>1, <1>3, CommandsAssumption DEF SetSecret
  <2>3. Stdin \subseteq Payloads
    BY <2>2 DEF Stdin, Payloads
  <2>4. ContentType'
    BY <2>1, <2>3 DEF ContentType
  <2> QED  BY <1>1, <1>3, <2>4 DEF SetSecret
<1>4. CASE AddCertificate
  BY <1>1, <1>4 DEF AddCertificate, Fails, ContentType
<1> QED  BY <1>2, <1>3, <1>4

\* A payload that the host sets has been prepared by the client.
LEMMA HostWritesPayloads ==
    ASSUME IInv, RequestInv, ContentType, SetPrepared
    PROVE  ContentType' /\ UNCHANGED job
<1>1. /\ Operating /\ Op.kind = "set" /\ UNCHANGED job
      /\ content' = [content EXCEPT ![Op.key] = Op.payload]
  BY DEF SetPrepared
<1>2. /\ Cmd \in Commands /\ Cmd.name = "set file" /\ Request \in PrepareRemoteRequest(Cmd)
  BY <1>1, HostKnows
<1>3. Op.payload \in Payloads
  BY <1>2, OperationRequests, PreparedIsPayload DEF Operations, Op
<1> QED  BY <1>1, <1>3 DEF ContentType

\* Others write what they may.
LEMMA OthersWritePayloads ==
    ASSUME IInv, RequestInv, ContentType, OthersChangeKeys
    PROVE  ContentType'
<1>1. \/ \E v \in Values \cup {NoValue} : content' = [content EXCEPT ![Op.key] = v]
      \/ content' = [k \in Keys |-> NoValue]
      \/ UNCHANGED content
  BY DEF OthersChangeKeys
<1> QED  BY <1>1, ValuesAssumption DEF ContentType

\* Every step of the whole system.
LEMMA StepsKeepStore ==
    ASSUME IInv, LookupInv, StoreInv, [Next]_vars
    PROVE  StoreInv'
<1>1. RequestInv /\ ContentType /\ ImportInv /\ RequestInv'
  BY RequestPreserved DEF StoreInv
<1>2. ChildType /\ ServerType /\ Paired
  BY DEF IInv, Types
<1>3. ASSUME UNCHANGED store, child.pc # "none" => child'.pc # "none"
      PROVE  StoreInv'
  <2>1. ContentType'
    BY <1>1, <1>3 DEF ContentType, store
  <2> QED  BY <1>1, <1>3, <2>1, ImportStays DEF StoreInv, store
<1>4. ASSUME ContentType', UNCHANGED job, Importing.pc # "writing",
             child.pc # "none" => child'.pc # "none"
      PROVE  StoreInv'
  BY <1>1, <1>4, ImportStays DEF StoreInv
<1>5. child.pc = "none" => Importing.pc # "writing"
  BY <1>1 DEF ImportInv, ImportType
<1>6. CASE ClientNext
  BY <1>3, <1>6 DEF ClientNext, Dispatch, Send, SendFails, Receive, Ends
<1>7. CASE ServerNext
  <2>1. CASE SetPrepared
    <3>1. child.pc = "none" /\ UNCHANGED child
      BY <1>2, <2>1 DEF SetPrepared, Operating, Paired
    <3> QED  BY <1>1, <1>4, <1>5, <2>1, <3>1, HostWritesPayloads
  <2>2. CASE Start \/ ReadBlock \/ ReadFails \/ Accept \/ WriteTempFile \/ FeedFails \/ Collected
             \/ Answer \/ AnswerFails \/ OperationFails \/ GetRaw
    <3>1. UNCHANGED <<child, store>>
      BY <2>2 DEF Start, ReadBlock, ReadFails, Accept, WriteTempFile, FeedFails, Collected, Answer,
                  AnswerFails, OperationFails, GetRaw
    <3> QED  BY <1>3, <3>1
  <2>3. CASE Spawn \/ Feed \/ Collect
    <3>1. UNCHANGED store /\ (child.pc # "none" => child'.pc # "none")
      BY <1>2, <2>3 DEF Spawn, Feed, Collect, ChildType
    <3> QED  BY <1>3, <3>1
  <2> QED  BY <1>7, <2>1, <2>2, <2>3 DEF ServerNext
<1>8. CASE ChildNext
  <2>1. CASE ChildOpens \/ ChildReads \/ ChildHasRead \/ Prints
    <3>1. UNCHANGED store /\ child'.pc # "none"
      BY <1>2, <2>1 DEF ChildOpens, ChildReads, ChildHasRead, Prints, Exit, ChildType
    <3> QED  BY <1>3, <3>1
  <2>2. CASE Runs
    <3>1. CASE DeleteSecret \/ SetSecret \/ AddCertificate
      <4>1. ContentType' /\ Cmd.name # "import" /\ UNCHANGED job
        BY <1>1, <2>2, <3>1, ChildWritesPayloads
      <4>2. Importing.pc # "writing"
        BY <1>1, <4>1 DEF ImportInv, ImportType
      <4>3. child'.pc # "none"
        BY <1>2, <2>2, <3>1 DEF Runs, DeleteSecret, SetSecret, AddCertificate, Does, Fails, Exit, ChildType
      <4> QED  BY <1>4, <4>1, <4>2, <4>3
    <3>2. CASE ImportStarts
      BY <1>1, <2>2, <3>2, ImportBegins DEF StoreInv, ContentType
    <3>3. CASE ImportWrites
      BY <1>1, <2>2, <3>3, ImportGoesOn DEF StoreInv
    <3>4. CASE ImportEnds
      BY <1>1, <2>2, <3>4, ImportFinishes DEF StoreInv, ContentType
    <3> QED  BY <2>2, <3>1, <3>2, <3>3, <3>4 DEF Runs
  <2> QED  BY <1>8, <2>1, <2>2 DEF ChildNext
<1>9. CASE HangUp \/ ConnectionLost \/ ServerKilled
  BY <1>3, <1>9 DEF HangUp, ConnectionLost, ServerKilled
<1>10. CASE ChildKilled
  <2>1. UNCHANGED store /\ child'.pc # "none"
    BY <1>2, <1>10 DEF ChildKilled, Exit, ChildType
  <2> QED  BY <1>3, <2>1
<1>11. CASE OthersSet
  BY <1>1, <1>11, OthersDisturb DEF StoreInv
<1>12. CASE OthersChangeKeys
  <2>1. server.pc = "operation" /\ UNCHANGED <<child, job>>
    BY <1>12 DEF LookupInv, OthersChangeKeys
  <2>2. child.pc = "none"
    BY <1>2, <2>1 DEF Paired
  <2> QED  BY <1>1, <1>4, <1>5, <1>12, <2>1, <2>2, OthersWritePayloads
<1>13. CASE UNCHANGED vars
  BY <1>3, <1>13 DEF vars
<1> QED  BY <1>6, <1>7, <1>8, <1>9, <1>10, <1>11, <1>12, <1>13 DEF Next

\* Nothing has been sent or imported, and the store is any that can be.
LEMMA StoreBegins == Init => StoreInv
<1> SUFFICES ASSUME Init PROVE StoreInv
  OBVIOUS
<1>1. RequestInv
  BY DEF Init, RequestInv
<1>2. job = [p \in {"child"} |-> Imp!Idle] /\ Importing = [pc |-> "idle"]
  BY DEF Init, Imp!Init, Imp!Idle, Importing
<1>3. ContentType
  <2>1. \E values \in {Values, {}} : content \in [Keys -> {NoValue} \cup values]
    BY DEF Init, Imp!Init
  <2> QED  BY <2>1, ValuesAssumption DEF ContentType
<1>4. Importing.pc = "idle" /\ DOMAIN job = {"child"}
  BY <1>2
<1>5. ImportInv
  BY <1>4 DEF ImportInv, ImportType, Progress, Alone
<1> QED  BY <1>1, <1>3, <1>5 DEF StoreInv

\* Requests, contents and the import stay consistent.
THEOREM StoreInvariant == Spec => []StoreInv
<1>1. StoreInv /\ IInv /\ LookupInv /\ [Next]_vars => StoreInv'
  BY StepsKeepStore
<1> QED  BY <1>1, StoreBegins, InductiveInvariant, LookupInvariant, PTL DEF Spec

\* Without --overwrite an import replaces nothing, although it has listed the
\* keys long before, and others set some of them since.
THEOREM ImportsReplaceNothing == Spec => ImportsKeepValues
<1> DEFINE keeps == \A p \in {"child"} :
                       job[p].pc = "writing" /\ ~job[p].overwrite =>
                           \A w \in job'[p].wrote \ job[p].wrote : content[w[1]] = NoValue
<1>1. IInv /\ StoreInv /\ [Next]_vars => keeps
  <2> SUFFICES ASSUME IInv, StoreInv, [Next]_vars, Importing.pc = "writing", ~Importing.overwrite,
                      NEW w \in Importing'.wrote, w \notin Importing.wrote
               PROVE  content[w[1]] = NoValue
    BY DEF Importing
  <2>1. /\ DOMAIN job = {"child"} /\ DOMAIN Importing = ImportFields
        /\ Importing.file \in EnvFiles
    BY DEF StoreInv, ImportInv, ImportType
  <2>2. job' # job
    BY DEF Importing
  <2>3. ImportWrites \/ ImportEnds \/ OthersSet
    <3>1. CASE ClientNext \/ HangUp \/ ConnectionLost \/ ServerKilled \/ ChildKilled
               \/ OthersChangeKeys \/ UNCHANGED vars
      BY <2>2, <3>1 DEF ClientNext, Dispatch, Send, SendFails, Receive, Ends, HangUp,
         ConnectionLost, ServerKilled, ChildKilled, OthersChangeKeys, vars, store
    <3>2. CASE ServerNext
      BY <2>2, <3>2 DEF ServerNext, Start, ReadBlock, ReadFails, Accept, WriteTempFile, Spawn, Feed,
         FeedFails, Collect, Collected, Answer, AnswerFails, OperationFails, SetPrepared, GetRaw, store
    <3>3. CASE ChildNext
      BY <2>2, <3>3 DEF ChildNext, ChildOpens, ChildReads, ChildHasRead, Runs, Prints, DeleteSecret,
         SetSecret, AddCertificate, ImportStarts, Importing, store
    <3> QED  BY <3>1, <3>2, <3>3 DEF Next
  <2>4. CASE ImportWrites
    <3> DEFINE e == Head(Importing.todo)
    <3>1. PICK n \in 0..Len(Entries) : Importing.todo = Rest(Entries, n)
      BY DEF StoreInv, ImportInv, Progress
    <3>2. Importing.todo # <<>>
      BY <2>4 DEF ImportWrites, Imp!Skip, Imp!Set, Importing
    <3>3. e = Entries[n + 1] /\ n + 1 \in 1..Len(Entries)
      BY <2>1, <3>1, <3>2, EntriesParse, RestSteps
    <3>4. e.key \in Keys
      BY <3>3 DEF StoreInv, ImportInv, Progress
    <3> HIDE DEF e
    <3>5. w = <<e.key, e.value>> /\ e.key \notin Imp!Present
      <4>1. \/ job' = [job EXCEPT !["child"] = [Importing EXCEPT !.todo = Tail(@)]]
            \/ \E cause : job' = [job EXCEPT !["child"] =
                                      [Importing EXCEPT !.pc = "failed", !.cause = cause]]
            \/ /\ ~(e.key \in Imp!Present)
               /\ job' = [q \in {"child"} |->
                             IF q = "child"
                             THEN [Importing EXCEPT !.todo = Tail(@),
                                                    !.wrote = @ \cup {<<e.key, e.value>>}]
                             ELSE Imp!Disturbed(job[q])]
        BY <2>4 DEF ImportWrites, Imp!Skip, Imp!Set, Imp!Update, Imp!Failed, Imp!Overwrites,
                    Importing, e
      <4>2. \/ Importing'.wrote = Importing.wrote
            \/ /\ ~(e.key \in Imp!Present)
               /\ Importing'.wrote = Importing.wrote \cup {<<e.key, e.value>>}
        BY <2>1, <4>1 DEF Importing, ImportFields
      <4> QED  BY <4>2
    <3> QED  BY <3>4, <3>5 DEF Imp!Present
  <2>5. CASE ImportEnds
    <3>1. job' = [job EXCEPT !["child"] = [Importing EXCEPT !.pc = "done"]]
      BY <2>5 DEF ImportEnds, Imp!Finish, Imp!Update, Importing
    <3>2. Importing'.wrote = Importing.wrote
      BY <2>1, <3>1 DEF Importing, ImportFields
    <3> QED  BY <3>2
  <2>6. CASE OthersSet
    <3>1. job'["child"] = [Importing EXCEPT !.disturbed = TRUE]
      BY <2>6 DEF OthersSet, Imp!Other, Imp!Disturbed, Importing
    <3>2. Importing'.wrote = Importing.wrote
      BY <2>1, <3>1 DEF Importing, ImportFields
    <3> QED  BY <3>2
  <2> QED  BY <2>3, <2>4, <2>5, <2>6
<1>2. IInv /\ StoreInv /\ [Next]_vars => [keeps]_(Imp!vars)
  BY <1>1
<1>3. [][keeps]_(Imp!vars) => ImportsKeepValues
  BY DEF ImportsKeepValues, Imp!ImportsKeepValues
<1> HIDE DEF keeps
<1> QED  BY <1>2, <1>3, StoreInvariant, InductiveInvariant, PTL DEF Spec

\* An import that succeeds is complete, whatever the env file says, whatever
\* flags it has, and whatever others do to the workspace meanwhile.
THEOREM ImportsAreComplete == Spec => []DoneIsComplete
<1>1. StoreInv => DoneIsComplete
  <2> SUFFICES ASSUME StoreInv, Importing.pc = "done",
                      NEW line \in Imp!ToSet(Importing.file)
               PROVE  LET key == Normal[line.key]
                      IN  \/ Importing.skip /\ key \in Importing.existing
                          \/ <<key, Imp!LastValue(Importing.file, key)>> \in Importing.wrote
    BY DEF DoneIsComplete, Imp!DoneIsComplete, Importing
  <2>1. Importing.file \in EnvFiles /\ Passed(Len(Entries))
    BY DEF StoreInv, ImportInv, ImportType, Progress
  <2>2. Importing.file \in Seq(Lines)
    BY <2>1, EntriesParse
  <2>3. PICK l \in 1..Len(Importing.file) : line = Importing.file[l]
    BY <2>2 DEF Imp!ToSet
  <2>4. PICK m \in 1..Len(Entries) :
          /\ Entries[m].key = Normal[line.key]
          /\ Entries[m].value = Imp!LastValue(Importing.file, Normal[line.key])
    BY <2>2, <2>3, EntriesAreLast DEF Entries, KeyOf
  <2> QED  BY <2>1, <2>4 DEF Passed, Pair
<1> QED  BY <1>1, StoreInvariant, PTL

\* Undisturbed, it writes everything or nothing.
THEOREM ImportsAloneAreWhole == Spec => []UndisturbedIsAllOrNothing
<1>1. StoreInv => UndisturbedIsAllOrNothing
  BY DEF StoreInv, ImportInv, Alone, Importing,
         UndisturbedIsAllOrNothing, Imp!UndisturbedIsAllOrNothing
<1> QED  BY <1>1, StoreInvariant, PTL
-----------------------------------------------------------------------------
(* What a success says *)

\* All of the standard input is with the child before it runs.
StdinSent ==
    /\ child.pc = "none" => child.in = 0 /\ child.got = 0
    /\ server.pc \in {"feeding", "collecting"} => child.pc # "none"
    /\ server.pc = "feeding" => child.in + child.got < Blocks
    /\ server.pc = "collecting" /\ Request.stdin # Nothing => child.in + child.got = Blocks
    /\ server.pc = "collecting" /\ child.pc = "running" => child.in = 0 \/ Request.stdin = Nothing

\* The command that a child has carried out.
ChildWhat ==
    CASE Cmd.name = "delete" -> <<"delete", Cmd.key>>
      [] Cmd.name = "set stdin" -> <<"set", Cmd.key, Cmd.stdin>>
      [] Cmd.name = "rsa add" ->
            <<"add", [o \in DOMAIN Cmd.paths |-> {ClientFiles[Cmd.paths[o]]}]>>
      [] OTHER -> <<"import", ClientFiles[Cmd.paths["--env-file"]]>>
ChildDid ==
    /\ Cmd.name \in {"delete", "set stdin", "rsa add", "import"}
    /\ effect = <<Home, ChildWorkspace>> \o ChildWhat

\* The operation that remote-stdio has carried out, and what it answers.
HostDid ==
    \/ /\ Cmd.name = "set file" /\ server.payload = NoValue
       /\ effect = <<Home, OperationWorkspace>> \o <<"set", Op.key, Op.payload>>
    \/ /\ Cmd.name = "get output" /\ server.payload \in Payloads
       /\ effect = <<Home, OperationWorkspace>> \o <<"get", Op.key, server.payload>>

\* The code 0 is handed on only when the command has been carried out.
HostResults ==
    /\ child.pc = "ending" \/ (child.pc = "ended" /\ child.code = 0) =>
         ChildDid \/ server.pc = "killed"
    /\ server.pc \in {"answering", "answered"} /\ server.code = 0 =>
         (ChildDid /\ server.payload = NoValue) \/ HostDid

\* A success comes from an answer with the code 0, and so does the output.
ClientResult ==
    client.outcome = "ok" =>
        /\ server.pc = "answered" /\ server.code = 0
        /\ Cmd.name = "get output" =>
             output = IF Cmd.no_uncompress THEN server.payload.bytes
                      ELSE Plain(server.payload.bytes.of)

SuccessInv == StdinSent /\ HostResults /\ ClientResult

\* Blocks of the standard input are neither lost nor made.
LEMMA StdinStays ==
    ASSUME IInv, RequestInv, StdinSent, [Next]_vars
    PROVE  StdinSent'
<1>1. ClientType /\ ServerType /\ ChildType /\ Paired
  BY DEF IInv, Types
<1>2. Request' = Request \/ server.pc = "off"
  BY RequestStays DEF RequestInv
<1>3. Blocks \in Nat \ {0}
  BY BlocksAssumption
<1>4. CASE ClientNext \/ OthersSet \/ OthersChangeKeys \/ UNCHANGED vars
  <2>1. UNCHANGED <<server, child>>
    BY <1>4 DEF ClientNext, Dispatch, Send, SendFails, Receive, Ends, OthersSet, OthersChangeKeys, vars
  <2> QED  BY <1>2, <2>1 DEF StdinSent
<1>5. CASE Start \/ ReadBlock \/ ReadFails \/ Accept \/ WriteTempFile \/ FeedFails \/ Collected
           \/ Answer \/ AnswerFails \/ OperationFails \/ SetPrepared \/ GetRaw
  <2>1. UNCHANGED child /\ (server'.pc \notin {"feeding", "collecting"} \/ UNCHANGED server)
    BY <1>1, <1>5
       DEF Start, ReadBlock, ReadFails, Accept, WriteTempFile, FeedFails, Collected, Answer,
           AnswerFails, OperationFails, SetPrepared, GetRaw, Return, ServerType
  <2> QED  BY <1>1, <1>2, <2>1 DEF StdinSent
<1>6. CASE Spawn
  <2>1. CASE UNCHANGED child
    <3>1. child.pc = "none"
      BY <1>1, <1>6 DEF Spawn, Paired
    <3>2. [child EXCEPT !.pc = "starting"] # child
      BY <1>1, <3>1 DEF ChildType
    <3>3. server'.pc = "answering"
      BY <1>1, <1>6, <2>1, <3>2 DEF Spawn, Return, ServerType
    <3> QED  BY <2>1, <3>3 DEF StdinSent
  <2>2. CASE /\ server' = [server EXCEPT !.pc = IF Request.stdin = Nothing THEN "collecting" ELSE "feeding"]
             /\ child' = [child EXCEPT !.pc = "starting"]
    <3>1. child.pc = "none" /\ child.in = 0 /\ child.got = 0
      BY <1>1, <1>6 DEF Spawn, Paired, StdinSent
    <3>2. child'.pc = "starting" /\ child'.in = 0 /\ child'.got = 0
      BY <1>1, <2>2, <3>1 DEF ChildType
    <3>3. server'.pc = IF Request.stdin = Nothing THEN "collecting" ELSE "feeding"
      BY <1>1, <2>2 DEF ServerType
    <3>4. Request' = Request
      BY <1>2, <1>6 DEF Spawn
    <3> QED  BY <1>3, <3>2, <3>3, <3>4 DEF StdinSent
  <2> QED  BY <1>6, <2>1, <2>2 DEF Spawn
<1>7. CASE Feed
  <2>1. /\ child.in \in Nat /\ child.got \in Nat /\ child.in + child.got < Blocks
        /\ server.pc = "feeding" /\ child.pc \notin {"none", "running"}
    BY <1>1, <1>7 DEF Feed, ChildType, StdinSent, Paired
  <2>2. child'.pc = child.pc /\ child'.in = child.in + 1 /\ child'.got = child.got
    BY <1>1, <1>7 DEF Feed, ChildType
  <2>3. server'.pc = IF child.in + child.got + 1 = Blocks THEN "collecting" ELSE "feeding"
    BY <1>1, <1>7, <2>1 DEF Feed, ServerType
  <2> QED  BY <1>3, <2>1, <2>2, <2>3 DEF StdinSent
<1>8. CASE Collect
  <2>1. /\ UNCHANGED <<server, client>> /\ child'.pc = child.pc /\ child'.in = child.in
        /\ child'.got = child.got
    BY <1>1, <1>8 DEF Collect, ChildType
  <2> QED  BY <2>1 DEF StdinSent, Request
<1>9. CASE ChildNext \/ ChildKilled
  <2>1. UNCHANGED <<server, client>> /\ child.pc # "none"
    BY <1>9 DEF ChildNext, ChildOpens, ChildReads, ChildHasRead, Runs, Prints, ChildKilled
  <2>2. child'.pc # "none" /\ child'.in + child'.got = child.in + child.got
    <3>1. CASE ChildReads
      BY <1>1, <2>1, <3>1 DEF ChildReads, ChildType
    <3>2. CASE ChildOpens \/ ChildHasRead \/ Prints \/ ChildKilled
      BY <1>1, <2>1, <3>2 DEF ChildOpens, ChildHasRead, Prints, ChildKilled, Exit, ChildType
    <3>3. CASE Runs
      BY <1>1, <2>1, <3>3 DEF Runs, DeleteSecret, SetSecret, AddCertificate, ImportStarts, ImportWrites,
                              ImportEnds, Does, Fails, Exit, ChildType
    <3> QED  BY <1>9, <3>1, <3>2, <3>3 DEF ChildNext
  <2>3. child'.pc = "running" => \/ child.pc = "running" /\ child'.in = child.in
                                 \/ child'.in = 0 \/ Request.stdin = Nothing
    <3>1. CASE ChildReads
      BY <1>1, <3>1 DEF ChildReads, ChildType
    <3>2. CASE ChildOpens \/ ChildHasRead \/ Prints \/ ChildKilled
      BY <1>1, <3>2 DEF ChildOpens, ChildHasRead, Prints, ChildKilled, Exit, ChildType
    <3>3. CASE Runs
      BY <1>1, <3>3 DEF Runs, DeleteSecret, SetSecret, AddCertificate, ImportStarts, ImportWrites,
                        ImportEnds, Does, Fails, Exit, ChildType
    <3> QED  BY <1>9, <3>1, <3>2, <3>3 DEF ChildNext
  <2> QED  BY <2>1, <2>2, <2>3 DEF StdinSent, Request
<1>10. CASE HangUp \/ ConnectionLost \/ ServerKilled
  <2>1. UNCHANGED <<child, client>> /\ (server'.pc \notin {"feeding", "collecting"} \/ UNCHANGED server)
    BY <1>1, <1>10 DEF HangUp, ConnectionLost, ServerKilled, ServerType
  <2> QED  BY <1>1, <2>1 DEF StdinSent, Request
<1> QED  BY <1>4, <1>5, <1>6, <1>7, <1>8, <1>9, <1>10 DEF Next, ServerNext

\* A child that comes to an end without an error has done what was typed.
LEMMA ChildSucceeds ==
    ASSUME IInv, StoreInv, StdinSent, Runs, server.pc # "killed",
           child'.pc = "ending" \/ (child'.pc = "ended" /\ child'.code = 0)
    PROVE  ChildDid'
<1>1. /\ child.pc = "running" /\ server.pc = "collecting" /\ RequestInv /\ ImportInv /\ ChildType
      /\ UNCHANGED client
  BY DEF Runs, IInv, Types, Paired, StoreInv
<1>2. /\ Args.name = Cmd.name /\ Args.key = Cmd.key /\ Request.stdin = Cmd.stdin /\ Cmd \in Commands
      /\ DOMAIN Args.paths = DOMAIN Cmd.paths
  BY <1>1, ChildKnows DEF Says, Args
<1>3. /\ Home' = Home /\ ChildWorkspace' = ChildWorkspace /\ ChildWhat' = ChildWhat
      /\ Cmd' = Cmd
  BY <1>1 DEF Home, ChildWorkspace, ChildWhat, Request, Cmd
<1>4. SUFFICES \E what : /\ effect' = <<Home, ChildWorkspace>> \o what /\ what = ChildWhat
                         /\ Cmd.name \in {"delete", "set stdin", "rsa add", "import"}
  BY <1>3 DEF ChildDid
<1>5. ~Exit(1)
  <2> SUFFICES ASSUME Exit(1) PROVE FALSE
    OBVIOUS
  <2>1. child'.pc = "ended" /\ child'.code = 1
    BY <1>1 DEF Exit, ChildType
  <2> QED  BY <2>1
<1>6. CASE DeleteSecret
  BY <1>2, <1>5, <1>6 DEF DeleteSecret, Does, Fails, Did, ChildWhat
<1>7. CASE SetSecret
  <2>1. Cmd.name = "set stdin" /\ Request.stdin # Nothing
    BY <1>2, <1>7, CommandsAssumption DEF SetSecret
  <2>2. child.got = Blocks
    <3>1. child.in \in Nat /\ child.got \in Nat
      BY <1>1 DEF ChildType
    <3>2. child.in = 0 /\ child.in + child.got = Blocks
      BY <1>1, <2>1 DEF StdinSent
    <3> QED  BY <3>1, <3>2
  <2>3. Stdin = {Cmd.stdin}
    BY <1>2, <2>2 DEF Stdin
  <2>4. Does(<<"set", Cmd.key, Cmd.stdin>>)
    BY <1>2, <1>5, <1>7, <2>3 DEF SetSecret, Fails
  <2> QED  BY <2>1, <2>4 DEF Does, Did, ChildWhat
<1>8. CASE AddCertificate
  <2> DEFINE found == [o \in DOMAIN Args.paths |-> Reads(o)]
  <2>1. found = [o \in DOMAIN Cmd.paths |-> {ClientFiles[Cmd.paths[o]]}]
    BY <1>1, <1>2, ChildReadsFiles
  <2>2. Does(<<"add", found>>) /\ Cmd.name = "rsa add"
    BY <1>2, <1>5, <1>8 DEF AddCertificate, Fails
  <2> HIDE DEF found
  <2> QED  BY <2>1, <2>2 DEF Does, Did, ChildWhat
<1>9. CASE ImportStarts
  BY <1>1, <1>5, <1>9 DEF ImportStarts
<1>10. CASE ImportWrites
  BY <1>1, <1>5, <1>10 DEF ImportWrites, ChildType
<1>11. CASE ImportEnds
  <2>1. Importing.pc = "writing" /\ effect' = <<Home, ChildWorkspace>> \o <<"import", Importing.file>>
    BY <1>11 DEF ImportEnds, Imp!Finish, Importing, Did
  <2>2. Cmd.name = "import" /\ Importing.file = ClientFiles[Cmd.paths["--env-file"]]
    BY <1>1, <2>1 DEF ImportInv, ImportType
  <2> QED  BY <2>1, <2>2 DEF ChildWhat
<1> QED  BY <1>6, <1>7, <1>8, <1>9, <1>10, <1>11 DEF Runs

\* What has been done stays what was done.
LEMMA DoneStays ==
    ASSUME IInv, RequestInv, [Next]_vars, server.pc # "off", UNCHANGED effect
    PROVE  /\ Cmd' = Cmd /\ Request' = Request
           /\ ChildDid => ChildDid'
           /\ HostDid /\ server'.payload = server.payload => HostDid'
<1>1. Cmd' = Cmd /\ Request' = Request
  BY RequestStays DEF RequestInv
<1>2. ChildDid => ChildDid'
  BY <1>1 DEF ChildDid, ChildWhat, Home, ChildWorkspace
<1>3. HostDid /\ server'.payload = server.payload => HostDid'
  BY <1>1 DEF HostDid, Home, OperationWorkspace, Op
<1> QED  BY <1>1, <1>2, <1>3

\* The steps of the host that answer.
LEMMA ReturnsTell ==
    ASSUME IInv, LookupInv, StoreInv, HostResults, [Next]_vars,
           server'.pc = "answering", server'.code = 0, server.pc # "answering"
    PROVE  (ChildDid' /\ server'.payload = NoValue) \/ HostDid'
<1>1. ServerType /\ ChildType /\ Paired /\ RequestInv /\ ContentType
  BY DEF IInv, Types, StoreInv
<1>2. \/ Collected /\ Return(child.code, NoValue)
      \/ SetPrepared \/ GetRaw
  <2>1. ~Return(1, NoValue)
    <3> SUFFICES ASSUME Return(1, NoValue) PROVE FALSE
      OBVIOUS
    <3>1. server'.code = 1
      BY <1>1 DEF Return, ServerType
    <3> QED  BY <3>1
  <2>2. server' # server
    OBVIOUS
  <2>3. CASE ClientNext \/ ChildNext \/ OthersSet \/ OthersChangeKeys \/ ChildKilled \/ UNCHANGED vars
    BY <2>2, <2>3 DEF ClientNext, Dispatch, Send, SendFails, Receive, Ends, OthersSet,
         OthersChangeKeys, ChildKilled, ChildNext, ChildOpens, ChildReads, ChildHasRead, Runs,
         Prints, vars
  <2>4. CASE HangUp \/ ConnectionLost \/ ServerKilled
    BY <1>1, <2>2, <2>4 DEF HangUp, ConnectionLost, ServerKilled, ServerType
  <2>5. CASE Start \/ ReadBlock \/ ReadFails \/ Accept \/ WriteTempFile \/ Spawn
    <3>1. CASE Start \/ ReadBlock \/ ReadFails
      BY <1>1, <3>1 DEF Start, ReadBlock, ReadFails, ServerType
    <3>2. CASE Accept
      BY <1>1, <2>1, <3>2 DEF Accept, ServerType
    <3>3. CASE WriteTempFile
      <4>1. server' = [server EXCEPT !.pc = "answering", !.code = 1]
        BY <2>2, <3>3 DEF WriteTempFile
      <4>2. server'.code = 1
        BY <1>1, <4>1 DEF ServerType
      <4> QED  BY <4>2
    <3>4. CASE Spawn
      BY <1>1, <2>1, <3>4 DEF Spawn, ServerType
    <3> QED  BY <2>5, <3>1, <3>2, <3>3, <3>4
  <2>6. CASE Feed \/ FeedFails \/ Collect \/ Answer \/ AnswerFails \/ OperationFails
    BY <1>1, <2>1, <2>6 DEF Feed, FeedFails, Collect, Answer, AnswerFails, OperationFails, ServerType
  <2>7. Collected => Return(child.code, NoValue)
    BY DEF Collected
  <2> QED  BY <2>3, <2>4, <2>5, <2>6, <2>7 DEF Next, ServerNext
<1>3. CASE Collected /\ Return(child.code, NoValue)
  <2>1. /\ child.pc = "ended" /\ server.pc = "collecting" /\ UNCHANGED effect
        /\ server'.code = child.code /\ server'.payload = NoValue
    BY <1>1, <1>3 DEF Collected, Return, ServerType
  <2>2. ChildDid
    BY <2>1 DEF HostResults
  <2> QED  BY <1>1, <2>1, <2>2, DoneStays
<1>4. CASE SetPrepared
  <2>1. /\ Operating /\ Op.kind = "set" /\ UNCHANGED client /\ server'.payload = NoValue
        /\ effect' = <<Home, OperationWorkspace>> \o <<"set", Op.key, Op.payload>>
    BY <1>1, <1>4 DEF SetPrepared, Did, Return, ServerType
  <2>2. Cmd.name = "set file"
    BY <1>1, <2>1, HostKnows
  <2> QED  BY <2>1, <2>2 DEF HostDid, Home, OperationWorkspace, Op, Request, Cmd
<1>5. CASE GetRaw
  <2>1. /\ Operating /\ Op.kind = "get" /\ UNCHANGED <<client, content>>
    BY <1>5 DEF GetRaw, store
  <2>2. lookup'.pc = "found" /\ Return(0, content[Op.key])
    <3>1. ~Return(1, NoValue) /\ server' # server
      <4> SUFFICES ASSUME Return(1, NoValue) PROVE FALSE
        OBVIOUS
      <4>1. server'.code = 1
        BY <1>1 DEF Return, ServerType
      <4> QED  BY <4>1
    <3> QED  BY <1>5, <3>1 DEF GetRaw
  <2>3. /\ effect' = <<Home, OperationWorkspace, "get", Op.key, content[Op.key]>>
        /\ server'.payload = content[Op.key]
    BY <1>1, <1>5, <2>2 DEF GetRaw, Return, ServerType
  <2>4. content[Op.key] # NoValue
    <3>1. K!Read(Serves)
      <4>1. ~K!ListFails /\ ~\E cs, d : K!List(cs, d, Serves)
        BY <2>2 DEF K!ListFails, K!List
      <4>2. K!Probe \/ K!EndProbe \/ K!Try => Looking
        BY DEF LookupInv, K!Active, K!Probe, K!EndProbe, K!Try
      <4>3. ~K!Probe /\ ~K!EndProbe /\ ~K!Try
        BY <2>1, <2>2, <4>2, ProbePreserves, EndProbePreserves, TryPreserves
      <4> QED  BY <1>5, <4>1, <4>3 DEF GetRaw
    <3>2. K!Opens(Serves)
      <4>1. LookupType
        BY <3>1 DEF LookupInv, K!Active, K!Read, Looking
      <4> QED  BY <2>2, <3>1, <4>1 DEF K!Read, K!End, LookupType
    <3> QED  BY <3>2 DEF K!Opens, Serves
  <2>5. Cmd.name = "get output" /\ content[Op.key] \in Payloads
    BY <1>1, <2>1, <2>4, HostKnows DEF ContentType
  <2>6. effect' = <<Home, OperationWorkspace>> \o <<"get", Op.key, content[Op.key]>>
    BY <2>3
  <2> QED  BY <2>1, <2>3, <2>5, <2>6 DEF HostDid, Home, OperationWorkspace, Op, Request, Cmd
<1> QED  BY <1>2, <1>3, <1>4, <1>5

\* A child that has come to its end, or will, has done what was typed.
LEMMA ChildEnds ==
    ASSUME IInv, StoreInv, SuccessInv, HostResults, [Next]_vars,
           child'.pc = "ending" \/ (child'.pc = "ended" /\ child'.code = 0)
    PROVE  ChildDid' \/ server'.pc = "killed"
<1>1. /\ ServerType /\ ChildType /\ Paired /\ RequestInv /\ StdinSent
      /\ child.pc # "ended" => child.code = 0
  BY DEF IInv, Types, StoreInv, SuccessInv, CodesTell
<1>2. ~Exit(1)
  <2> SUFFICES ASSUME Exit(1) PROVE FALSE
    OBVIOUS
  <2>1. child'.pc = "ended" /\ child'.code = 1
    BY <1>1 DEF Exit, ChildType
  <2> QED  BY <2>1
<1>3. CASE Runs
  <2>1. UNCHANGED server
    BY <1>3 DEF Runs
  <2> QED  BY <1>1, <1>3, <2>1, ChildSucceeds
<1>4. CASE ~Runs
  <2>1. child.pc = "ending" \/ (child.pc = "ended" /\ child.code = 0)
    <3>1. CASE UNCHANGED child
      BY <3>1
    <3>2. CASE ServerNext
      BY <1>1, <3>2 DEF ServerNext, Start, ReadBlock, ReadFails, Accept, WriteTempFile, Spawn, Feed,
           FeedFails, Collect, Collected, Answer, AnswerFails, OperationFails, SetPrepared, GetRaw,
           ChildType
    <3>3. CASE ChildOpens \/ ChildReads \/ ChildHasRead \/ Prints \/ ChildKilled
      BY <1>1, <1>2, <3>3 DEF ChildOpens, ChildReads, ChildHasRead, Prints, ChildKilled, ChildType
    <3>4. CASE ClientNext \/ OthersSet \/ OthersChangeKeys \/ HangUp \/ ConnectionLost \/ ServerKilled
               \/ UNCHANGED vars
      BY <3>1, <3>4 DEF ClientNext, Dispatch, Send, SendFails, Receive, Ends, OthersSet,
           OthersChangeKeys, HangUp, ConnectionLost, ServerKilled, vars
    <3> QED  BY <1>4, <3>2, <3>3, <3>4 DEF Next, ChildNext
  <2>2. ChildDid \/ server.pc = "killed"
    BY <2>1 DEF HostResults
  <2>3. child.pc # "none" /\ child.pc # "running" /\ server.pc \notin {"off", "operation"}
    BY <1>1, <2>1 DEF Paired
  <2>4. UNCHANGED effect
    <3>1. CASE ServerNext
      BY <2>3, <3>1 DEF ServerNext, Start, ReadBlock, ReadFails, Accept, WriteTempFile, Spawn, Feed,
           FeedFails, Collect, Collected, Answer, AnswerFails, OperationFails, SetPrepared, GetRaw,
           Operating
    <3>2. CASE ~ServerNext
      BY <1>4, <3>2 DEF Next, ChildNext, ClientNext, Dispatch, Send, SendFails, Receive, Ends,
           OthersSet, OthersChangeKeys, HangUp, ConnectionLost, ServerKilled, ChildKilled,
           ChildOpens, ChildReads, ChildHasRead, Prints, vars
    <3> QED  BY <3>1, <3>2
  <2>5. server.pc = "killed" => server'.pc = "killed"
    <3>1. CASE ServerNext
      BY <3>1 DEF ServerNext, Start, ReadBlock, ReadFails, Accept, WriteTempFile, Spawn, Feed,
           FeedFails, Collect, Collected, Answer, AnswerFails, OperationFails, SetPrepared, GetRaw,
           Operating
    <3>2. CASE ~ServerNext
      BY <1>1, <1>4, <3>2 DEF Next, ChildNext, ClientNext, Dispatch, Send, SendFails, Receive, Ends,
           OthersSet, OthersChangeKeys, HangUp, ConnectionLost, ServerKilled, ChildKilled,
           ChildOpens, ChildReads, ChildHasRead, Prints, vars, ServerType
    <3> QED  BY <3>1, <3>2
  <2> QED  BY <1>1, <2>2, <2>3, <2>4, <2>5, DoneStays
<1> QED  BY <1>3, <1>4

\* An answer stays as it is.
LEMMA AnswersStay ==
    ASSUME IInv, StoreInv, HostResults, [Next]_vars,
           server'.pc \in {"answering", "answered"}, server'.code = 0, server.pc = "answering"
                                                                        \/ server.pc = "answered"
    PROVE  (ChildDid' /\ server'.payload = NoValue) \/ HostDid'
<1>1. ServerType /\ Paired /\ RequestInv
  BY DEF IInv, Types, StoreInv
<1>2. server'.code = server.code /\ server'.payload = server.payload
  <2>1. CASE ServerNext
    BY <1>1, <2>1 DEF ServerNext, Start, ReadBlock, ReadFails, Accept, WriteTempFile, Spawn, Feed,
         FeedFails, Collect, Collected, Answer, AnswerFails, OperationFails, SetPrepared, GetRaw,
         Operating, ServerType
  <2>2. CASE HangUp \/ ConnectionLost \/ ServerKilled
    BY <1>1, <2>2 DEF HangUp, ConnectionLost, ServerKilled, ServerType
  <2>3. CASE ~ServerNext /\ ~(HangUp \/ ConnectionLost \/ ServerKilled)
    BY <2>3 DEF Next, ChildNext, ClientNext, Dispatch, Send, SendFails, Receive, Ends, OthersSet,
         OthersChangeKeys, ChildKilled, ChildOpens, ChildReads, ChildHasRead, Runs, Prints, vars
  <2> QED  BY <2>1, <2>2, <2>3
<1>3. UNCHANGED effect
  <2>1. CASE ServerNext
    BY <2>1 DEF ServerNext, Start, ReadBlock, ReadFails, Accept, WriteTempFile, Spawn, Feed,
         FeedFails, Collect, Collected, Answer, AnswerFails, OperationFails, SetPrepared, GetRaw,
         Operating
  <2>2. ~Runs
    BY <1>1 DEF Runs, Paired
  <2>3. CASE ~ServerNext
    BY <2>2, <2>3 DEF Next, ChildNext, ClientNext, Dispatch, Send, SendFails, Receive, Ends,
         OthersSet, OthersChangeKeys, HangUp, ConnectionLost, ServerKilled, ChildKilled,
         ChildOpens, ChildReads, ChildHasRead, Prints, vars
  <2> QED  BY <2>1, <2>3
<1>4. (ChildDid /\ server.payload = NoValue) \/ HostDid
  BY <1>2 DEF HostResults
<1> QED  BY <1>1, <1>2, <1>3, <1>4, DoneStays

\* What comes out of a payload.
LEMMA PayloadsUnpack ==
    ASSUME NEW s \in Payloads
    PROVE  DecompressSecretPayload(s) = {Plain(s.bytes.of)}
<1>1. PICK c \in Contents : s = AsIs(c) \/ s = Compressed(c)
  BY DEF Payloads
<1>2. Size[c] \in Nat /\ Size[c] # NoSize
  BY <1>1, SizesAssumption
<1>3. CASE s = AsIs(c)
  BY <1>3 DEF AsIs, Plain, DecompressSecretPayload
<1>4. CASE s = Compressed(c)
  <2>1. /\ s.bytes = Zstd(c) /\ s.compression = "zstd" /\ s.original = Size[c]
        /\ s.bytes.form = "packed" /\ s.bytes.of = c
    BY <1>4 DEF Compressed, Zstd
  <2> QED  BY <1>2, <2>1 DEF DecompressSecretPayload
<1> QED  BY <1>1, <1>3, <1>4

\* The client ends with a success only on an answer with the code 0.
LEMMA ClientKeepsResult ==
    ASSUME IInv, LookupInv, StoreInv, HostResults, ClientResult, [Next]_vars
    PROVE  ClientResult'
<1>1. ClientType /\ ServerType /\ LinkType
  BY DEF IInv, Types
<1>2. /\ client.outcome \in {"ok", "failed", "none"} \cup Outcomes
      /\ client.pc # "done" => client.outcome = "none"
      /\ link.status = "zero" => server.pc = "answered"
  BY DEF IInv, OutputNeedsPayload, CodesTell, Types, ClientType
<1>3. Cmd' = Cmd
  BY RequestStays
<1>4. CASE Ends
  <2>1. /\ client.pc = "waiting" /\ UNCHANGED <<server, link>>
    BY <1>4 DEF Ends
  <2> SUFFICES ASSUME client'.outcome = "ok" PROVE ClientResult'
    BY DEF ClientResult
  <2>2. \A outcome : End(outcome) => client'.outcome = outcome
    BY <1>1 DEF End, ClientType
  <2>3. /\ link.status = "zero" /\ server.code = 0 /\ server.pc = "answered"
        /\ server.payload # NoValue => \E bytes \in OutputBytes : output' = bytes
    BY <1>1, <1>2, <1>4, <2>2 DEF Ends, ExitCode
  <2>4. ASSUME Cmd.name = "get output"
        PROVE  output' = IF Cmd.no_uncompress THEN server.payload.bytes
                         ELSE Plain(server.payload.bytes.of)
    <3>1. server.payload \in Payloads /\ server.payload # NoValue
      BY <2>3, <2>4, ValuesAssumption DEF HostResults, ChildDid, HostDid
    <3>2. output' \in OutputBytes
      BY <2>3, <3>1
    <3> QED  BY <3>1, <3>2, PayloadsUnpack DEF OutputBytes
  <2> QED  BY <1>3, <2>1, <2>3, <2>4 DEF ClientResult
<1>5. CASE Dispatch \/ SendFails
  BY <1>1, <1>2, <1>5 DEF ClientResult, Dispatch, SendFails, End, ClientType
<1>6. CASE ~(Ends \/ Dispatch \/ SendFails)
  <2>1. client'.outcome = client.outcome /\ UNCHANGED output
    BY <1>1, <1>6 DEF Next, ClientNext, Send, Receive, ClientType, ServerNext, Start, ReadBlock,
       ReadFails, Accept, WriteTempFile, Spawn, Feed, FeedFails, Collect, Collected, Answer,
       AnswerFails, OperationFails, SetPrepared, GetRaw, ChildNext, ChildOpens, ChildReads,
       ChildHasRead, Runs, Prints, HangUp, ConnectionLost, ServerKilled, ChildKilled, OthersSet,
       OthersChangeKeys, vars
  <2>2. server.pc = "answered" => UNCHANGED server
    <3>1. CASE ServerNext
      BY <3>1 DEF ServerNext, Start, ReadBlock, ReadFails, Accept, WriteTempFile, Spawn, Feed,
         FeedFails, Collect, Collected, Answer, AnswerFails, OperationFails, SetPrepared, GetRaw,
         Operating
    <3>2. CASE ~ServerNext
      BY <1>6, <3>2 DEF Next, ChildNext, ClientNext, Send, Receive, OthersSet, OthersChangeKeys,
         HangUp, ConnectionLost, ServerKilled, ChildKilled, ChildOpens, ChildReads, ChildHasRead,
         Runs, Prints, vars
    <3> QED  BY <3>1, <3>2
  <2> QED  BY <1>3, <2>1, <2>2 DEF ClientResult
<1> QED  BY <1>4, <1>5, <1>6

\* Every step of the whole system.
LEMMA StepsKeepSuccess ==
    ASSUME IInv, LookupInv, StoreInv, SuccessInv, [Next]_vars
    PROVE  SuccessInv'
<1>1. StdinSent /\ HostResults /\ ClientResult /\ RequestInv
  BY DEF SuccessInv, StoreInv
<1>2. StdinSent' /\ ClientResult'
  BY <1>1, StdinStays, ClientKeepsResult
<1>3. child'.pc = "ending" \/ (child'.pc = "ended" /\ child'.code = 0) =>
        ChildDid' \/ server'.pc = "killed"
  BY <1>1, ChildEnds
<1>4. ASSUME server'.pc \in {"answering", "answered"}, server'.code = 0
      PROVE  (ChildDid' /\ server'.payload = NoValue) \/ HostDid'
  <2>1. CASE server.pc \in {"answering", "answered"}
    BY <1>1, <1>4, <2>1, AnswersStay
  <2>2. CASE server.pc \notin {"answering", "answered"}
    <3>1. server'.pc = "answering"
      <4>1. CASE Answer
        BY <2>2, <4>1 DEF Answer
      <4>2. CASE UNCHANGED server
        BY <1>4, <2>2, <4>2
      <4>3. CASE ServerNext /\ ~Answer
        BY <1>4, <2>2, <4>3 DEF IInv, Types, ServerType, ServerNext, Start, ReadBlock, ReadFails,
           Accept, WriteTempFile, Spawn, Feed, FeedFails, Collect, Collected, AnswerFails,
           OperationFails, SetPrepared, GetRaw, Return
      <4>4. CASE HangUp \/ ConnectionLost \/ ServerKilled
        BY <1>4, <2>2, <4>4 DEF IInv, Types, ServerType, HangUp, ConnectionLost, ServerKilled
      <4>5. CASE ClientNext \/ ChildNext \/ ChildKilled \/ OthersSet \/ OthersChangeKeys
        BY <4>2, <4>5 DEF ClientNext, Dispatch, Send, SendFails, Receive, Ends, OthersSet,
           OthersChangeKeys, ChildKilled, ChildNext, ChildOpens, ChildReads, ChildHasRead, Runs, Prints
      <4> QED  BY <4>1, <4>2, <4>3, <4>4, <4>5 DEF Next, vars
    <3> QED  BY <1>1, <1>4, <2>2, <3>1, ReturnsTell
  <2> QED  BY <2>1, <2>2
<1> QED  BY <1>2, <1>3, <1>4 DEF SuccessInv, HostResults

\* Nothing has begun.
LEMMA SuccessBegins == Init => SuccessInv
  BY DEF Init, SuccessInv, StdinSent, HostResults, ClientResult

\* A code of 0 stands for a command that has been carried out.
THEOREM SuccessInvariant == Spec => []SuccessInv
<1>1. SuccessInv /\ StoreInv /\ IInv /\ LookupInv /\ [Next]_vars => SuccessInv'
  BY StepsKeepSuccess
<1> QED  BY <1>1, SuccessBegins, InductiveInvariant, LookupInvariant, StoreInvariant, PTL DEF Spec

\* The parts of an effect.
LEMMA EffectParts ==
    ASSUME NEW home, NEW space, NEW S, NEW what \in Seq(S)
    PROVE  LET e == <<home, space>> \o what
           IN  e # <<>> /\ e[1] = home /\ e[2] = space /\ SubSeq(e, 3, Len(e)) = what
<1> DEFINE e == <<home, space>> \o what
<1>1. /\ Len(e) = Len(what) + 2 /\ Len(what) \in Nat /\ e[1] = home /\ e[2] = space
      /\ \A i \in 1..Len(what) : e[i + 2] = what[i]
  OBVIOUS
<1>2. SubSeq(e, 3, Len(e)) = [i \in 1..Len(what) |-> e[i + 2]]
  BY <1>1
<1> HIDE DEF e
<1>3. SubSeq(e, 3, Len(e)) = what
  BY <1>1, <1>2
<1> QED  BY <1>1, <1>3 DEF e

\* A success of a child is what was asked for.
LEMMA ChildAchieves ==
    ASSUME IInv, RequestInv, ChildDid, server.pc = "answered"
    PROVE  /\ effect # <<>>
           /\ \E a \in ResolveRemote(Cmd) : effect[1] = IF a.home # NoHome THEN a.home ELSE HostHome
           /\ HostIsTold => effect[2] = LocalWorkspace
           /\ Achieved(SubSeq(effect, 3, Len(effect)))
<1>1. Cmd \in Commands /\ Request \in PrepareRemoteRequest(Cmd) /\ Cmd.name \notin Operations
  BY DEF IInv, Types, ClientType, RequestInv, ChildDid, Operations, Cmd
<1>2. PICK a \in ResolveRemote(Cmd) : Says(Request, Cmd, a.home)
  BY <1>1, ChildRequests
<1>3. Home = IF a.home # NoHome THEN a.home ELSE HostHome
  BY <1>2 DEF Says, Home
<1>4. HostIsTold => ChildWorkspace = LocalWorkspace
  <2>1. Request.command.workspace = Cmd.workspace /\ Request.workspace = ClientWorkspace
    BY <1>2 DEF Says
  <2>2. CASE Cmd.workspace # NoWorkspace
    BY <2>1, <2>2 DEF ChildWorkspace, LocalWorkspace
  <2>3. CASE Cmd.workspace = NoWorkspace /\ ClientWorkspace # NoWorkspace
    BY <2>1, <2>3 DEF ChildWorkspace, LocalWorkspace
  <2>4. CASE Cmd.workspace = NoWorkspace /\ ClientWorkspace = NoWorkspace
    <3>1. HostIsTold => HostWorkspace = NoWorkspace
      BY <1>1, <2>4 DEF HostIsTold, Operations
    <3> QED  BY <2>1, <2>4, <3>1 DEF ChildWorkspace, LocalWorkspace
  <2> QED  BY <2>2, <2>3, <2>4
<1>5. /\ effect # <<>> /\ effect[1] = Home /\ effect[2] = ChildWorkspace
      /\ SubSeq(effect, 3, Len(effect)) = ChildWhat
  <2>1. PICK S : ChildWhat \in Seq(S)
    <3>1. \A x, y : <<x, y>> \in Seq({x, y})
      OBVIOUS
    <3>2. \A x, y, z : <<x, y, z>> \in Seq({x, y, z})
      OBVIOUS
    <3> QED  BY <3>1, <3>2 DEF ChildWhat
  <2>2. effect = <<Home, ChildWorkspace>> \o ChildWhat
    BY DEF ChildDid
  <2> QED  BY <2>1, <2>2, EffectParts
<1>6. Achieved(ChildWhat)
  <2>1. CASE Cmd.name = "delete"
    BY <2>1 DEF Achieved, ChildWhat
  <2>2. CASE Cmd.name = "set stdin"
    BY <2>2 DEF Achieved, ChildWhat
  <2>3. CASE Cmd.name = "rsa add"
    BY <2>3 DEF Achieved, ChildWhat
  <2>4. CASE Cmd.name = "import"
    BY <2>4 DEF Achieved, ChildWhat
  <2> QED  BY <2>1, <2>2, <2>3, <2>4 DEF ChildDid
<1> QED  BY <1>3, <1>4, <1>5, <1>6

\* And so is a success of an operation.
LEMMA HostAchieves ==
    ASSUME IInv, RequestInv, HostDid, ClientResult, client.outcome = "ok"
    PROVE  /\ effect # <<>>
           /\ \E a \in ResolveRemote(Cmd) : effect[1] = IF a.home # NoHome THEN a.home ELSE HostHome
           /\ HostIsTold => effect[2] = LocalWorkspace
           /\ Achieved(SubSeq(effect, 3, Len(effect)))
<1>1. Cmd \in Commands /\ Request \in PrepareRemoteRequest(Cmd) /\ Cmd.name \in Operations
  BY DEF IInv, Types, ClientType, RequestInv, HostDid, Operations, ClientResult, Cmd
<1>2. PICK a \in ResolveRemote(Cmd) : Request.home = a.home
  BY <1>1, OperationRequests
<1>3. Home = IF a.home # NoHome THEN a.home ELSE HostHome
  BY <1>2 DEF Home
<1>4. HostIsTold => OperationWorkspace = LocalWorkspace
  <2>1. Request.workspace = ClientWorkspace
    BY <1>1, OperationRequests
  <2> QED  BY <1>1, <2>1 DEF HostIsTold, OperationWorkspace, LocalWorkspace, Operations
<1>5. Op.key = Cmd.key
  BY <1>1, OperationRequests DEF Op
<1>6. \A x, y, z : <<x, y, z>> \in Seq({x, y, z})
  OBVIOUS
<1>7. CASE Cmd.name = "set file"
  <2> DEFINE what == <<"set", Op.key, Op.payload>>
             file == ClientFiles[Cmd.paths["--file"]]
  <2>1. effect = <<Home, OperationWorkspace>> \o what
    BY <1>7 DEF HostDid
  <2>2. /\ effect # <<>> /\ effect[1] = Home /\ effect[2] = OperationWorkspace
        /\ SubSeq(effect, 3, Len(effect)) = what
    <3>1. what \in Seq({"set", Op.key, Op.payload})
      BY <1>6
    <3> HIDE DEF what
    <3> QED  BY <2>1, <3>1, EffectParts
  <2>3. PICK mode \in ResolveCompressionMode(Cmd.flags, Cmd.level) :
          file \in Contents /\ Op.payload \in PrepareSecretPayload(file, mode)
    BY <1>1, <1>7, OperationRequests DEF Op
  <2>4. RoundTrips(file, mode)
    BY <1>1, <2>3, ModesResolve, PayloadsRoundTrip
  <2>5. DecompressSecretPayload(Op.payload) = {Plain(file)} /\ OriginalBytes(Op.payload) = Size[file]
    BY <2>3, <2>4 DEF RoundTrips
  <2>6. Achieved(what)
    BY <1>5, <1>7, <2>5 DEF Achieved
  <2> HIDE DEF what
  <2> QED  BY <1>3, <1>4, <2>2, <2>6
<1>8. CASE Cmd.name = "get output"
  <2> DEFINE what == <<"get", Op.key, server.payload>>
  <2>1. effect = <<Home, OperationWorkspace>> \o what
    BY <1>8 DEF HostDid
  <2>2. /\ effect # <<>> /\ effect[1] = Home /\ effect[2] = OperationWorkspace
        /\ SubSeq(effect, 3, Len(effect)) = what
    <3>1. what \in Seq({"get", Op.key, server.payload})
      BY <1>6
    <3> HIDE DEF what
    <3> QED  BY <2>1, <3>1, EffectParts
  <2>3. Achieved(what)
    BY <1>5, <1>8 DEF Achieved, ClientResult
  <2> HIDE DEF what
  <2> QED  BY <1>3, <1>4, <2>2, <2>3
<1> QED  BY <1>1, <1>7, <1>8 DEF Operations

\* A remote command that exits with 0 has been carried out, whatever it is,
\* whatever is lost or killed, and whatever others do meanwhile.
THEOREM SuccessesTell == Spec => []SuccessMeansDone
<1>1. SuccessInv /\ StoreInv /\ IInv => SuccessMeansDone
  <2> SUFFICES ASSUME SuccessInv, StoreInv, IInv, client.outcome = "ok" PROVE SuccessMeansDone
    BY DEF SuccessMeansDone
  <2>1. /\ RequestInv /\ ClientResult /\ server.pc = "answered"
        /\ ChildDid \/ HostDid
    BY DEF SuccessInv, StoreInv, HostResults, ClientResult
  <2> QED  BY <2>1, ChildAchieves, HostAchieves DEF SuccessMeansDone
<1> QED  BY <1>1, SuccessInvariant, StoreInvariant, InductiveInvariant, PTL
=============================================================================
