------------------------------ MODULE McpServer ------------------------------
(***************************************************************************)
(* vaultick-mcp: HTTP connections, the session table behind a mutex, the   *)
(* tool calls, their output limit and streams, and the graceful shutdown   *)
(* of axum.  What a tool call hands to a child or an upstream is           *)
(* SecretResolver, the pipes of a child are Exec; here a child runs and    *)
(* ends, and an upstream delivers blocks.                                  *)
(*                                                                         *)
(* A handler runs without interruption between two awaits: it awaits the   *)
(* body of a message and, in vaultick.request, the upstream.  Where it     *)
(* awaits nothing it does not notice that its client has left.             *)
(***************************************************************************)
EXTENDS Naturals

CONSTANTS
    Conns,          \* connections that may be open at a time
    Ids,            \* outcomes of Uuid::new_v4 for sessions
    Protocols,
    Limit,          \* max_tool_output_bytes, in blocks
    MaxBlocks       \* bound: blocks an upstream delivers

ASSUME SizesAssumption == Limit \in Nat /\ MaxBlocks \in Nat
ASSUME IdsAssumption == Ids # {} /\ Protocols # {}

VARIABLES
    server,     \* "serving", "stopping" or "stopped"
    sessions,   \* the rows of the session table
    drawn,      \* session ids drawn so far
    opened,     \* history: sessions that were ever initialized
    gone,       \* history: sessions that were deleted
    conn,       \* the state of each connection
    task        \* the vaultick.request that was begun on it last

vars == <<server, sessions, drawn, opened, gone, conn, task>>
tableVars == <<sessions, drawn, opened, gone>>

Session == [id : Ids, protocol : Protocols, initialized : BOOLEAN]
Dispatched == {"dispatch", "exec", "request", "streaming"}

\* late: the session was deleted before the request came.  here: the client
\* has not left.
Conn == [pc : {"closed", "idle", "body", "events"} \cup Dispatched,
         id : Ids, protocol : Protocols, late : BOOLEAN, here : BOOLEAN]

\* upstream: blocks received; body: blocks collected; notified: blocks sent
\* to the client as notifications.
Task == [state : {"none", "working", "done", "failed"}, stream : BOOLEAN,
         upstream : 0..MaxBlocks, body : 0..MaxBlocks, notified : 0..MaxBlocks]

TypeOK ==
    /\ server \in {"serving", "stopping", "stopped"}
    /\ sessions \subseteq Session
    /\ \A r, s \in sessions : r.id = s.id => r = s
    /\ drawn \subseteq Ids /\ opened \subseteq Ids /\ gone \subseteq Ids
    /\ conn \in [Conns -> Conn] /\ task \in [Conns -> Task]

NoTask == [state |-> "none", stream |-> FALSE, upstream |-> 0, body |-> 0, notified |-> 0]
Unused(pc) == [pc |-> pc, id |-> CHOOSE i \in Ids : TRUE,
               protocol |-> CHOOSE p \in Protocols : TRUE,
               late |-> FALSE, here |-> TRUE]

Init ==
    /\ server = "serving"
    /\ sessions = {} /\ drawn = {} /\ opened = {} /\ gone = {}
    /\ conn = [c \in Conns |-> Unused("closed")]
    /\ task = [c \in Conns |-> NoTask]
-----------------------------------------------------------------------------
(* Connections *)

Goto(c, pc) == conn' = [conn EXCEPT ![c].pc = pc]

\* A connection is kept for the next request, unless the server is stopping
\* or the client has left.
Rest(c) == Unused(IF server = "serving" /\ conn[c].here THEN "idle" ELSE "closed")
Answer(c) == conn' = [conn EXCEPT ![c] = Rest(c)]

\* Bound: not where the task of an earlier stream is still at work.
Connect(c) ==
    /\ server = "serving"
    /\ conn[c].pc = "closed" /\ task[c].state # "working"
    /\ conn' = [conn EXCEPT ![c] = Unused("idle")]
    /\ task' = [task EXCEPT ![c] = NoTask]
    /\ UNCHANGED <<server, tableVars>>

\* The headers of a request have come and its token is right.
Arrive(c, id, protocol) ==
    /\ conn[c].pc = "idle"
    /\ conn' = [conn EXCEPT ![c] = [pc |-> "body", id |-> id, protocol |-> protocol,
                                    late |-> id \in gone, here |-> TRUE]]
    /\ task' = [task EXCEPT ![c] = NoTask]
    /\ UNCHANGED <<server, tableVars>>

\* A handler that awaits is dropped with its connection, and the call it
\* made with it; the task of a stream goes on; the others notice at the end.
Leave(c) ==
    /\ conn[c].pc # "closed" /\ conn[c].here
    /\ conn' = [conn EXCEPT
          ![c] = IF @.pc \in {"dispatch", "exec"} THEN [@ EXCEPT !.here = FALSE]
                 ELSE Unused("closed")]
    /\ task' = [task EXCEPT ![c] = IF conn[c].pc = "request" THEN NoTask ELSE @]
    /\ UNCHANGED <<server, tableVars>>
-----------------------------------------------------------------------------
(* handle_message, once the body is read; the table is locked *)

\* Mutant: a session that is deleted is kept, to be initialized again.
Reset(id) == {IF s.id = id THEN [s EXCEPT !.initialized = FALSE] ELSE s : s \in sessions}

FreshIds == Ids \ drawn

Remove(id) == {s \in sessions : s.id # id}

Ready(s) == s.initialized

Found(c) == {s \in sessions : s.id = conn[c].id /\ s.protocol = conn[c].protocol}

Initialize(c, protocol) ==
    /\ conn[c].pc = "body"
    /\ \E id \in FreshIds :
        /\ sessions' = sessions \cup
                          {[id |-> id, protocol |-> protocol, initialized |-> FALSE]}
        /\ drawn' = drawn \cup {id}
    /\ Answer(c)
    /\ UNCHANGED <<server, opened, gone, task>>

Initialized(c) ==
    /\ conn[c].pc = "body"
    /\ \E s \in Found(c) :
        /\ sessions' = (sessions \ {s}) \cup {[s EXCEPT !.initialized = TRUE]}
        /\ opened' = opened \cup {s.id}
    /\ Answer(c)
    /\ UNCHANGED <<server, drawn, gone, task>>

\* tools/call of a session that is ready; the lock is released.
CallTool(c) ==
    /\ conn[c].pc = "body"
    /\ \E s \in Found(c) : Ready(s)
    /\ Goto(c, "dispatch")
    /\ UNCHANGED <<server, tableVars, task>>

\* Bad bodies and headers, unknown sessions, ping, tools/list, and setLevel,
\* which writes a level that nothing reads: the answer comes at once.
Reply(c) ==
    /\ conn[c].pc = "body"
    /\ Answer(c)
    /\ UNCHANGED <<server, tableVars, task>>
-----------------------------------------------------------------------------
(* handle_delete_session and handle_sse *)

DeleteSession(c, id) ==
    /\ conn[c].pc = "idle"
    /\ sessions' = Remove(id)
    /\ gone' = gone \cup {s.id : s \in {r \in sessions : r.id = id}}
    /\ Answer(c)
    /\ UNCHANGED <<server, drawn, opened, task>>

\* A stream on which nothing is ever sent.
OpenEvents(c, id, protocol) ==
    /\ conn[c].pc = "idle"
    /\ \E s \in sessions : s.id = id /\ s.protocol = protocol
    /\ Goto(c, "events")
    /\ UNCHANGED <<server, tableVars, task>>
-----------------------------------------------------------------------------
(* handle_exec_tool and handle_request_tool *)

\* Arguments, allowlist, database or secrets are refused.
RefuseTool(c) ==
    /\ conn[c].pc = "dispatch"
    /\ Answer(c)
    /\ UNCHANGED <<server, tableVars, task>>

StartExec(c) ==
    /\ conn[c].pc = "dispatch"
    /\ Goto(c, "exec")
    /\ UNCHANGED <<server, tableVars, task>>

\* run_exec_execution returns a result or an error.
ExecEnds(c) ==
    /\ conn[c].pc = "exec"
    /\ Answer(c)
    /\ UNCHANGED <<server, tableVars, task>>

StartRequest(c, stream) ==
    /\ conn[c].pc = "dispatch"
    /\ conn' = [conn EXCEPT ![c] =
          IF @.here THEN [@ EXCEPT !.pc = IF stream THEN "streaming" ELSE "request"]
          ELSE Unused("closed")]
    /\ task' = [task EXCEPT ![c] = IF conn[c].here \/ stream
                                   THEN [NoTask EXCEPT !.state = "working", !.stream = stream]
                                   ELSE NoTask]
    /\ UNCHANGED <<server, tableVars>>

\* Mutant: the client is told of the block before the limit is looked at.
NotifyFirst(t) == IF t.stream THEN t.notified + 1 ELSE 0

\* A block that exceeds the limit is not passed on.
NotifyAfter(t) == t.notified

\* The task of a call whose handler awaits it answers through the handler.
Finish(c, t, state) ==
    /\ task' = [task EXCEPT ![c] = [t EXCEPT !.state = state]]
    /\ IF t.stream THEN UNCHANGED conn ELSE Answer(c)

\* collect_request_result: a block of the upstream, through the Redactor.
Chunk(c) ==
    /\ server # "stopped" /\ task[c].state = "working" /\ task[c].upstream < MaxBlocks
    /\ LET t == [task[c] EXCEPT !.upstream = @ + 1]
       IN  IF t.body + 1 > Limit
           THEN Finish(c, [t EXCEPT !.notified = NotifyAfter(t)], "failed")
           ELSE /\ task' = [task EXCEPT ![c] = [t EXCEPT
                              !.body = @ + 1,
                              !.notified = IF t.stream THEN @ + 1 ELSE @]]
                /\ UNCHANGED conn
    /\ UNCHANGED <<server, tableVars>>

\* The upstream has no more, or breaks off, or cannot be reached in time.
UpstreamEnds(c) ==
    /\ server # "stopped" /\ task[c].state = "working"
    /\ \E state \in {"done", "failed"} : Finish(c, task[c], state)
    /\ UNCHANGED <<server, tableVars>>

\* The result is the last event of the stream.
StreamEnds(c) ==
    /\ conn[c].pc = "streaming" /\ task[c].state \in {"done", "failed"}
    /\ Answer(c)
    /\ UNCHANGED <<server, tableVars, task>>
-----------------------------------------------------------------------------
(* axum::serve with graceful shutdown *)

CtrlC ==
    /\ server = "serving"
    /\ server' = "stopping"
    /\ UNCHANGED <<tableVars, conn, task>>

\* An idle connection is closed.
CloseIdle(c) ==
    /\ server = "stopping" /\ conn[c].pc = "idle"
    /\ conn' = [conn EXCEPT ![c] = Unused("closed")]
    /\ UNCHANGED <<server, tableVars, task>>

\* Mutant: the tasks of streams are waited for, too.
TasksToo == \A c \in Conns : conn[c].pc = "closed" /\ task[c].state # "working"

AllClosed == \A c \in Conns : conn[c].pc = "closed"

\* run returns, and the runtime drops the tasks that are left.
Stop ==
    /\ server = "stopping" /\ AllClosed
    /\ server' = "stopped"
    /\ task' = [c \in Conns |-> IF task[c].state = "working" THEN NoTask ELSE task[c]]
    /\ UNCHANGED <<tableVars, conn>>

\* What the server does of itself.
Serve(c) ==
    \/ RefuseTool(c) \/ StartExec(c) \/ StreamEnds(c) \/ CloseIdle(c)
    \/ \E stream \in BOOLEAN : StartRequest(c, stream)

Next ==
    \/ CtrlC \/ Stop
    \/ \E c \in Conns :
        \/ Connect(c) \/ Leave(c) \/ Serve(c) \/ Reply(c)
        \/ Initialized(c) \/ CallTool(c) \/ ExecEnds(c) \/ Chunk(c) \/ UpstreamEnds(c)
        \/ \E protocol \in Protocols : Initialize(c, protocol)
        \/ \E id \in Ids :
            \/ DeleteSession(c, id)
            \/ \E protocol \in Protocols :
                   Arrive(c, id, protocol) \/ OpenEvents(c, id, protocol)

Spec == Init /\ [][Next]_vars

\* The handlers and the accept loop are scheduled.  Nothing makes a client, a
\* child or an upstream go on.
FairSpec == Spec /\ WF_vars(Stop) /\ \A c \in Conns : WF_vars(Serve(c))
-----------------------------------------------------------------------------
(* Properties *)

\* A tool runs only for a session that has been initialized, and never for a
\* request that came after the session was deleted, whatever other
\* connections do with the table between the check and the end of the call.
ToolsRunInOpenSessions ==
    \A c \in Conns : conn[c].pc \in Dispatched => conn[c].id \in opened /\ ~conn[c].late

\* A client is told of exactly the blocks that are collected, which keep
\* within the limit, and a result that is no error has every block.
StreamKeepsLimit ==
    \A c \in Conns :
        /\ task[c].stream => task[c].notified = task[c].body
        /\ task[c].body <= Limit
        /\ task[c].state = "done" => task[c].body = task[c].upstream

\* Somebody else has to act before the connection can be closed: the child of an
\* exec call, which runs on when its client has left, or a client that is there.
WaitsForOthers(c) ==
    \/ conn[c].pc = "exec"
    \/ /\ conn[c].here
       /\ \/ conn[c].pc \in {"body", "request", "events"}
          \/ conn[c].pc = "streaming" /\ task[c].state = "working"

OthersHoldIt == \E c \in Conns : WaitsForOthers(c)

\* A shutdown ends, or waits for ever for a client that stays, its upstream, or
\* the child of an exec call: never for itself, nor for the task of a stream
\* whose client has left.  (An exec call holds the shutdown up as long as its
\* child runs, also when its client has left: block_in_place does not notice.)
ShutdownEnds ==
    server = "stopping" ~> (server = "stopped" \/ []OthersHoldIt)
=============================================================================
