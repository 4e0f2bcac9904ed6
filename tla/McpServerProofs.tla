--------------------------- MODULE McpServerProofs ---------------------------
(* Tools run in open sessions only, and streams keep the limit, for every  *)
(* number of connections, session ids and protocols and every limit.       *)
EXTENDS McpServer, TLAPS

\* A session that is in the table was drawn and not deleted, and is marked as
\* initialized only once it has been.
TableKept ==
    /\ gone \subseteq drawn
    /\ \A s \in sessions :
        /\ s.id \in drawn /\ s.id \notin gone
        /\ s.initialized => s.id \in opened

\* The history of a request, and what has been checked of it before dispatch.
CallsKept ==
    \A c \in Conns :
        /\ conn[c].late => conn[c].id \in gone
        /\ conn[c].pc \in Dispatched => conn[c].id \in opened /\ ~conn[c].late

\* No block is lost while a task goes on: only the block that exceeds the
\* limit and the failure after it make a difference.
TasksKept ==
    \A c \in Conns :
        /\ task[c].stream => task[c].notified = task[c].body
        /\ task[c].body <= Limit
        /\ task[c].state \in {"working", "done"} => task[c].body = task[c].upstream

\* The inductive invariant.
IInv == TypeOK /\ TableKept /\ CallsKept /\ TasksKept

\* A connection without a request is one.
LEMMA UnusedIsConn ==
    ASSUME NEW pc \in {"closed", "idle"}
    PROVE  /\ Unused(pc) \in Conn
           /\ Unused(pc).pc = pc /\ ~Unused(pc).late /\ Unused(pc).here
BY IdsAssumption DEF Unused, Conn

\* A task that has not begun keeps the limit.
LEMMA NoTaskIsTask ==
    /\ NoTask \in Task
    /\ NoTask.state = "none" /\ NoTask.body = 0 /\ ~NoTask.stream
BY SizesAssumption DEF NoTask, Task

\* It holds before the first connection.
LEMMA InitEstablishes == Init => IInv
<1> SUFFICES ASSUME Init PROVE IInv
  OBVIOUS
<1>1. TypeOK
  BY UnusedIsConn, NoTaskIsTask DEF Init, TypeOK
<1>2. TableKept
  BY DEF Init, TableKept
<1>3. CallsKept
  BY UnusedIsConn DEF Init, CallsKept, Dispatched
<1>4. TasksKept
  <2>1. \A c \in Conns : task[c] = NoTask
    BY DEF Init
  <2>2. NoTask.state \notin {"working", "done"} /\ NoTask.body <= Limit
    BY SizesAssumption DEF NoTask
  <2>3. ~NoTask.stream
    BY DEF NoTask
  <2> QED  BY <2>1, <2>2, <2>3 DEF TasksKept
<1> QED  BY <1>1, <1>2, <1>3, <1>4 DEF IInv

\* A connection that comes to rest, or is lost, owes nothing to a session.
LEMMA RestKeeps ==
    ASSUME TypeOK, CallsKept, NEW c \in Conns, gone \subseteq gone', opened \subseteq opened',
           NEW pc \in {"closed", "idle"}, conn' = [conn EXCEPT ![c] = Unused(pc)]
    PROVE  conn' \in [Conns -> Conn] /\ CallsKept'
<1> DEFINE r == Unused(pc)
<1>1. r \in Conn /\ r.pc = pc /\ ~r.late
  BY UnusedIsConn
<1>2. conn' = [conn EXCEPT ![c] = r]
  OBVIOUS
<1> HIDE DEF r
<1>3. conn' \in [Conns -> Conn]
  BY <1>1, <1>2 DEF TypeOK
<1>4. CallsKept'
  <2> SUFFICES ASSUME NEW d \in Conns
               PROVE  /\ conn'[d].late => conn'[d].id \in gone'
                      /\ conn'[d].pc \in Dispatched =>
                             conn'[d].id \in opened' /\ ~conn'[d].late
    BY DEF CallsKept
  <2>1. CASE d = c
    BY <1>1, <1>2, <2>1 DEF TypeOK, Dispatched
  <2>2. CASE d # c
    BY <1>2, <2>2 DEF TypeOK, CallsKept
  <2> QED  BY <2>1, <2>2
<1> QED  BY <1>3, <1>4

\* So does one that is answered.
LEMMA AnswerKeeps ==
    ASSUME TypeOK, CallsKept, NEW c \in Conns, Answer(c),
           gone \subseteq gone', opened \subseteq opened'
    PROVE  conn' \in [Conns -> Conn] /\ CallsKept'
<1>1. CASE server = "serving" /\ conn[c].here
  <2>1. conn' = [conn EXCEPT ![c] = Unused("idle")]
    BY <1>1 DEF Answer, Rest
  <2> QED  BY <2>1, RestKeeps
<1>2. CASE ~(server = "serving" /\ conn[c].here)
  <2>1. conn' = [conn EXCEPT ![c] = Unused("closed")]
    BY <1>2 DEF Answer, Rest
  <2> QED  BY <2>1, RestKeeps
<1> QED  BY <1>1, <1>2

\* A dispatched call stays one of its session.
LEMMA GotoKeeps ==
    ASSUME TypeOK, CallsKept, NEW c \in Conns, NEW pc \in Dispatched \cup {"events"},
           Goto(c, pc), conn[c].pc \in Dispatched \/ pc = "events",
           UNCHANGED <<gone, opened>>
    PROVE  conn' \in [Conns -> Conn] /\ CallsKept'
<1>1. conn[c] \in Conn
  BY DEF TypeOK
<1>2. [conn[c] EXCEPT !.pc = pc] \in Conn
  BY <1>1 DEF Conn
<1>3. conn' = [conn EXCEPT ![c] = [conn[c] EXCEPT !.pc = pc]]
  BY DEF Goto
<1>4. conn' \in [Conns -> Conn]
  BY <1>2, <1>3 DEF TypeOK
<1>5. CallsKept'
  BY <1>1, <1>3 DEF TypeOK, CallsKept, Conn, Dispatched
<1> QED  BY <1>4, <1>5

\* A task that begins, or is dropped, is as it was drawn.
LEMMA NewTaskKeeps ==
    ASSUME TypeOK, TasksKept, NEW c \in Conns, NEW t \in Task,
           task' = [task EXCEPT ![c] = t],
           t.stream => t.notified = t.body, t.body <= Limit,
           t.state \in {"working", "done"} => t.body = t.upstream
    PROVE  task' \in [Conns -> Task] /\ TasksKept'
<1>1. task' \in [Conns -> Task]
  BY DEF TypeOK
<1>2. TasksKept'
  BY DEF TypeOK, TasksKept
<1> QED  BY <1>1, <1>2
-----------------------------------------------------------------------------
\* The steps of a connection that leave the table and the tasks alone.
LEMMA ConnectionSteps ==
    ASSUME IInv, NEW c \in Conns,
           \/ RefuseTool(c) \/ StartExec(c) \/ ExecEnds(c) \/ StreamEnds(c) \/ CloseIdle(c)
           \/ Reply(c) \/ CallTool(c)
           \/ \E id \in Ids, protocol \in Protocols : OpenEvents(c, id, protocol)
    PROVE  IInv'
<1> USE DEF IInv
<1>1. TypeOK /\ CallsKept
  OBVIOUS
<1>2. UNCHANGED <<server, tableVars, task>>
  BY DEF RefuseTool, StartExec, ExecEnds, StreamEnds, CloseIdle, Reply, CallTool, OpenEvents
<1>3. TableKept' /\ TasksKept'
  BY <1>2 DEF tableVars, TableKept, TasksKept
<1>4. conn' \in [Conns -> Conn] /\ CallsKept'
  <2>1. CASE RefuseTool(c) \/ ExecEnds(c) \/ StreamEnds(c) \/ Reply(c)
    BY <1>1, <1>2, <2>1, AnswerKeeps
       DEF RefuseTool, ExecEnds, StreamEnds, Reply, tableVars
  <2>2. CASE CloseIdle(c)
    BY <1>1, <1>2, <2>2, RestKeeps DEF CloseIdle, tableVars
  <2>3. CASE StartExec(c)
    <3>1. Goto(c, "exec") /\ conn[c].pc \in Dispatched /\ "exec" \in Dispatched \cup {"events"}
      BY <2>3 DEF StartExec, Dispatched
    <3> QED  BY <1>1, <1>2, <3>1, GotoKeeps DEF tableVars
  <2>4. CASE \E id \in Ids, protocol \in Protocols : OpenEvents(c, id, protocol)
    <3>1. Goto(c, "events") /\ "events" \in Dispatched \cup {"events"}
      BY <2>4 DEF OpenEvents
    <3> QED  BY <1>1, <1>2, <3>1, GotoKeeps DEF tableVars
  <2>5. CASE CallTool(c)
    <3>1. PICK s \in sessions : s.id = conn[c].id /\ s.initialized
      BY <2>5 DEF CallTool, Found, Ready
    <3>2. conn[c].id \in opened /\ conn[c].id \notin gone
      BY <3>1 DEF TableKept
    <3>3. ~conn[c].late
      BY <3>2 DEF CallsKept
    <3>4. conn[c] \in Conn
      BY DEF TypeOK
    <3>5. conn' = [conn EXCEPT ![c] = [conn[c] EXCEPT !.pc = "dispatch"]]
      BY <2>5 DEF CallTool, Goto
    <3>6. [conn[c] EXCEPT !.pc = "dispatch"] \in Conn
      BY <3>4 DEF Conn, Dispatched
    <3>7. conn' \in [Conns -> Conn]
      BY <3>5, <3>6 DEF TypeOK
    <3>8. CallsKept'
      BY <1>2, <3>2, <3>3, <3>4, <3>5 DEF TypeOK, CallsKept, Conn, tableVars
    <3> QED  BY <3>7, <3>8
  <2> QED  BY <2>1, <2>2, <2>3, <2>4, <2>5
<1>5. TypeOK'
  BY <1>2, <1>4 DEF TypeOK, tableVars
<1> QED  BY <1>3, <1>4, <1>5

\* The steps that write the table.
LEMMA TableSteps ==
    ASSUME IInv, NEW c \in Conns,
           \/ Initialized(c)
           \/ \E protocol \in Protocols : Initialize(c, protocol)
           \/ \E id \in Ids : DeleteSession(c, id)
    PROVE  IInv'
<1> USE DEF IInv
<1>1. /\ UNCHANGED <<server, task>> /\ Answer(c)
      /\ gone \subseteq gone' /\ opened \subseteq opened'
  BY DEF Initialize, Initialized, DeleteSession
<1>2. conn' \in [Conns -> Conn] /\ CallsKept'
  BY <1>1, AnswerKeeps
<1>3. TasksKept'
  BY <1>1 DEF TasksKept
<1>4. task' \in [Conns -> Task] /\ server' \in {"serving", "stopping", "stopped"}
  BY <1>1 DEF TypeOK
<1>5. CASE \E protocol \in Protocols : Initialize(c, protocol)
  <2>1. PICK protocol \in Protocols, id \in Ids \ drawn :
          /\ sessions' = sessions \cup
                 {[id |-> id, protocol |-> protocol, initialized |-> FALSE]}
          /\ drawn' = drawn \cup {id} /\ UNCHANGED <<opened, gone>>
    BY <1>5 DEF Initialize, FreshIds
  <2> DEFINE new == [id |-> id, protocol |-> protocol, initialized |-> FALSE]
  <2>5. sessions' = sessions \cup {new}
    BY <2>1
  <2>6. new \in Session /\ new.id = id /\ ~new.initialized
    BY DEF Session
  <2> HIDE DEF new
  <2>2. TableKept'
    BY <2>1, <2>5, <2>6 DEF TableKept
  <2>3. sessions' \subseteq Session
    BY <2>5, <2>6 DEF TypeOK
  <2>4. \A r, s \in sessions' : r.id = s.id => r = s
    BY <2>5, <2>6 DEF TypeOK, TableKept
  <2> QED  BY <1>2, <1>3, <1>4, <2>1, <2>2, <2>3, <2>4 DEF TypeOK
<1>6. CASE Initialized(c)
  <2>1. PICK s \in sessions :
          /\ sessions' = (sessions \ {s}) \cup {[s EXCEPT !.initialized = TRUE]}
          /\ opened' = opened \cup {s.id} /\ UNCHANGED <<drawn, gone>>
    BY <1>6 DEF Initialized, Found
  <2> DEFINE t == [s EXCEPT !.initialized = TRUE]
  <2>2. s \in Session /\ t \in Session /\ t.id = s.id
    BY DEF TypeOK, Session
  <2>6. sessions' = (sessions \ {s}) \cup {t}
    BY <2>1
  <2> HIDE DEF t
  <2>7. \A r \in sessions : /\ r.id \in drawn /\ r.id \notin gone
                            /\ r.initialized => r.id \in opened
    BY DEF TableKept
  <2>8. t.id \in drawn' /\ t.id \notin gone' /\ t.id \in opened'
    BY <2>1, <2>2, <2>7
  <2>3. TableKept'
    BY <2>1, <2>6, <2>7, <2>8 DEF TableKept
  <2>4. sessions' \subseteq Session /\ opened' \subseteq Ids
    <3>1. s.id \in Ids
      BY <2>2 DEF Session
    <3> QED  BY <2>1, <2>2, <2>6, <3>1 DEF TypeOK
  <2>5. \A q, r \in sessions' : q.id = r.id => q = r
    BY <2>2, <2>6 DEF TypeOK
  <2> QED  BY <1>2, <1>3, <1>4, <2>1, <2>3, <2>4, <2>5 DEF TypeOK
<1>7. CASE \E id \in Ids : DeleteSession(c, id)
  <2>1. PICK id \in Ids :
          /\ sessions' = {s \in sessions : s.id # id}
          /\ gone' = gone \cup {s.id : s \in {r \in sessions : r.id = id}}
          /\ UNCHANGED <<drawn, opened>>
    BY <1>7 DEF DeleteSession, Remove
  <2>2. gone' \subseteq gone \cup {id} /\ gone' \subseteq drawn
    BY <2>1 DEF TableKept
  <2>3. TableKept'
    BY <2>1, <2>2 DEF TableKept
  <2>4. gone' \subseteq Ids
    BY <2>1, <2>2 DEF TypeOK
  <2> QED  BY <1>2, <1>3, <1>4, <2>1, <2>3, <2>4 DEF TypeOK
<1> QED  BY <1>5, <1>6, <1>7
-----------------------------------------------------------------------------
\* What the limit makes of a task that receives a block.
LEMMA ChunkKeeps ==
    ASSUME IInv, NEW c \in Conns, Chunk(c)
    PROVE  IInv'
<1> USE DEF IInv
<1> DEFINE t == [task[c] EXCEPT !.upstream = @ + 1]
           full == [[t EXCEPT !.notified = NotifyAfter(t)] EXCEPT !.state = "failed"]
           more == [t EXCEPT !.body = @ + 1, !.notified = IF t.stream THEN @ + 1 ELSE @]
<1>1. /\ task[c] \in Task /\ task[c].state = "working"
      /\ task[c].upstream < MaxBlocks /\ task[c].body = task[c].upstream
      /\ task[c].stream => task[c].notified = task[c].body
      /\ task[c].body <= Limit
  BY DEF Chunk, TypeOK, TasksKept
<1>2. UNCHANGED <<server, tableVars>>
  BY DEF Chunk
<1>3. TableKept'
  BY <1>2 DEF TableKept, tableVars
<1>6. /\ t \in Task /\ t.upstream = task[c].upstream + 1
      /\ t.body = task[c].body /\ t.stream = task[c].stream
      /\ t.notified = task[c].notified
  BY <1>1, SizesAssumption DEF Task
<1>4. CASE t.body + 1 > Limit
  <2>1. /\ task' = [task EXCEPT ![c] = full]
        /\ UNCHANGED conn \/ Answer(c)
    BY <1>4 DEF Chunk, Finish
  <2>2. full \in Task /\ full.state = "failed" /\ full.body = task[c].body
        /\ full.stream = task[c].stream /\ full.notified = task[c].notified
    <3> HIDE DEF t
    <3> QED  BY <1>6 DEF Task, NotifyAfter
  <2> HIDE DEF t, full
  <2>3. task' \in [Conns -> Task] /\ TasksKept'
    BY <1>1, <2>1, <2>2, NewTaskKeeps
  <2>4. conn' \in [Conns -> Conn] /\ CallsKept'
    <3>1. CASE Answer(c)
      BY <1>2, <3>1, AnswerKeeps DEF tableVars
    <3>2. CASE UNCHANGED conn
      BY <1>2, <3>2 DEF tableVars, TypeOK, CallsKept
    <3> QED  BY <2>1, <3>1, <3>2
  <2> QED  BY <1>2, <1>3, <2>3, <2>4 DEF TypeOK, tableVars
<1>5. CASE ~(t.body + 1 > Limit)
  <2>1. task' = [task EXCEPT ![c] = more] /\ UNCHANGED conn
    <3>1. t.stream = task[c].stream
      BY <1>1 DEF Task
    <3> QED  BY <1>5, <3>1 DEF Chunk
  <2>8. task[c].body + 1 \in 0..MaxBlocks /\ task[c].body + 1 <= Limit
    BY <1>1, <1>5, <1>6, SizesAssumption DEF Task
  <2>2. more \in Task
    <3> HIDE DEF t
    <3> QED  BY <1>1, <1>6, <2>8 DEF Task
  <2>3. /\ more.body = task[c].body + 1 /\ more.upstream = task[c].upstream + 1
        /\ more.stream => more.notified = more.body
    <3> HIDE DEF t
    <3> QED  BY <1>1, <1>6 DEF Task
  <2>4. more.body <= Limit
    BY <2>3, <2>8
  <2>5. more.body = more.upstream
    BY <1>1, <2>3
  <2> HIDE DEF t, more
  <2>6. task' \in [Conns -> Task] /\ TasksKept'
    BY <2>1, <2>2, <2>3, <2>4, <2>5, NewTaskKeeps
  <2>7. CallsKept'
    BY <1>2, <2>1 DEF CallsKept, tableVars
  <2> QED  BY <1>2, <1>3, <2>1, <2>6, <2>7 DEF TypeOK, tableVars
<1> QED  BY <1>4, <1>5

\* An upstream that ends leaves what was collected as it was.
LEMMA UpstreamEndsKeeps ==
    ASSUME IInv, NEW c \in Conns, UpstreamEnds(c)
    PROVE  IInv'
<1> USE DEF IInv
<1>1. PICK state \in {"done", "failed"} : Finish(c, task[c], state)
  BY DEF UpstreamEnds
<1> DEFINE t == [task[c] EXCEPT !.state = state]
<1>2. /\ task[c] \in Task /\ task[c].state = "working"
      /\ task[c].body = task[c].upstream /\ task[c].body <= Limit
      /\ task[c].stream => task[c].notified = task[c].body
  BY DEF UpstreamEnds, TypeOK, TasksKept
<1>3. UNCHANGED <<server, tableVars>>
  BY DEF UpstreamEnds
<1>4. task' = [task EXCEPT ![c] = t] /\ (UNCHANGED conn \/ Answer(c))
  BY <1>1 DEF Finish
<1>5. t \in Task /\ t.body = t.upstream /\ t.body <= Limit
  BY <1>2 DEF Task
<1>6. t.stream => t.notified = t.body
  BY <1>2 DEF Task
<1> HIDE DEF t
<1>7. task' \in [Conns -> Task] /\ TasksKept'
  BY <1>4, <1>5, <1>6, NewTaskKeeps
<1>8. conn' \in [Conns -> Conn] /\ CallsKept'
  <2>1. CASE Answer(c)
    BY <1>3, <2>1, AnswerKeeps DEF tableVars
  <2>2. CASE UNCHANGED conn
    BY <1>3, <2>2 DEF tableVars, TypeOK, CallsKept
  <2> QED  BY <1>4, <2>1, <2>2
<1> QED  BY <1>3, <1>7, <1>8 DEF TypeOK, TableKept, tableVars

\* A task that begins at a tool call has nothing yet.
LEMMA FreshTask ==
    ASSUME NEW stream \in BOOLEAN
    PROVE  LET t == [NoTask EXCEPT !.state = "working", !.stream = stream]
           IN  t \in Task /\ t.notified = t.body /\ t.body <= Limit /\ t.body = t.upstream
<1> DEFINE t == [NoTask EXCEPT !.state = "working", !.stream = stream]
<1>1. NoTask \in Task /\ NoTask.body = 0 /\ NoTask.notified = 0 /\ NoTask.upstream = 0
  BY NoTaskIsTask DEF NoTask
<1>2. t \in Task
  BY <1>1 DEF Task
<1>3. t.body = 0 /\ t.notified = 0 /\ t.upstream = 0
  BY <1>1 DEF Task
<1> QED  BY <1>2, <1>3, SizesAssumption

\* To drop a task, or to begin a connection or a request without one.
LEMMA NoTaskKeeps ==
    ASSUME TypeOK, TasksKept, NEW c \in Conns, task' = [task EXCEPT ![c] = NoTask]
    PROVE  task' \in [Conns -> Task] /\ TasksKept'
<1>1. NoTask \in Task /\ ~NoTask.stream /\ NoTask.body <= Limit
  BY SizesAssumption, NoTaskIsTask
<1>2. NoTask.state \notin {"working", "done"}
  BY NoTaskIsTask
<1> QED  BY <1>1, <1>2, NewTaskKeeps

\* Clients that come, ask and go, and the beginning of a request.
LEMMA ClientSteps ==
    ASSUME IInv, NEW c \in Conns,
           \/ Connect(c) \/ Leave(c)
           \/ \E id \in Ids, protocol \in Protocols : Arrive(c, id, protocol)
           \/ \E stream \in BOOLEAN : StartRequest(c, stream)
    PROVE  IInv'
<1> USE DEF IInv
<1>1. UNCHANGED <<server, tableVars>>
  BY DEF Connect, Leave, Arrive, StartRequest
<1>2. TableKept'
  BY <1>1 DEF TableKept, tableVars
<1>3. conn[c] \in Conn /\ task[c] \in Task
  BY DEF TypeOK
<1>4. SUFFICES /\ conn' \in [Conns -> Conn] /\ CallsKept'
               /\ task' \in [Conns -> Task] /\ TasksKept'
  BY <1>1, <1>2 DEF TypeOK, tableVars
<1>5. CASE Connect(c)
  <2>1. conn' = [conn EXCEPT ![c] = Unused("idle")] /\ task' = [task EXCEPT ![c] = NoTask]
    BY <1>5 DEF Connect
  <2> QED  BY <1>1, <2>1, RestKeeps, NoTaskKeeps DEF tableVars
<1>6. CASE \E id \in Ids, protocol \in Protocols : Arrive(c, id, protocol)
  <2>1. PICK id \in Ids, protocol \in Protocols : Arrive(c, id, protocol)
    BY <1>6
  <2> DEFINE r == [pc |-> "body", id |-> id, protocol |-> protocol,
                   late |-> id \in gone, here |-> TRUE]
  <2>2. conn' = [conn EXCEPT ![c] = r] /\ task' = [task EXCEPT ![c] = NoTask]
    BY <2>1 DEF Arrive
  <2>3. r \in Conn /\ r.pc \notin Dispatched /\ (r.late => r.id \in gone)
    <3>1. (id \in gone) \in BOOLEAN
      OBVIOUS
    <3>2. r \in Conn
      BY <3>1 DEF Conn
    <3>3. r.pc = "body" /\ r.id = id /\ r.late = (id \in gone)
      OBVIOUS
    <3> HIDE DEF r
    <3> QED  BY <3>2, <3>3 DEF Dispatched
  <2> HIDE DEF r
  <2>4. conn' \in [Conns -> Conn] /\ CallsKept'
    BY <1>1, <2>2, <2>3 DEF TypeOK, CallsKept, tableVars
  <2> QED  BY <2>2, <2>4, NoTaskKeeps
<1>7. CASE Leave(c)
  <2>1. conn' \in [Conns -> Conn] /\ CallsKept'
    <3>1. CASE conn[c].pc \in {"dispatch", "exec"}
      <4> DEFINE r == [conn[c] EXCEPT !.here = FALSE]
      <4>1. conn' = [conn EXCEPT ![c] = r]
        BY <1>7, <3>1 DEF Leave
      <4>2. /\ r \in Conn /\ r.pc = conn[c].pc /\ r.id = conn[c].id
            /\ r.late = conn[c].late
        BY <1>3 DEF Conn
      <4> HIDE DEF r
      <4> QED  BY <1>1, <4>1, <4>2 DEF TypeOK, CallsKept, tableVars
    <3>2. CASE conn[c].pc \notin {"dispatch", "exec"}
      <4>1. conn' = [conn EXCEPT ![c] = Unused("closed")]
        BY <1>7, <3>2 DEF Leave
      <4> QED  BY <1>1, <4>1, RestKeeps DEF tableVars
    <3> QED  BY <3>1, <3>2
  <2>2. task' \in [Conns -> Task] /\ TasksKept'
    <3>1. CASE conn[c].pc = "request"
      <4>1. task' = [task EXCEPT ![c] = NoTask]
        BY <1>7, <3>1 DEF Leave
      <4> QED  BY <4>1, NoTaskKeeps
    <3>2. CASE conn[c].pc # "request"
      <4>1. task' = task
        BY <1>7, <3>2 DEF Leave, TypeOK
      <4> QED  BY <4>1 DEF TypeOK, TasksKept
    <3> QED  BY <3>1, <3>2
  <2> QED  BY <2>1, <2>2
<1>8. CASE \E stream \in BOOLEAN : StartRequest(c, stream)
  <2>1. PICK stream \in BOOLEAN : StartRequest(c, stream)
    BY <1>8
  <2>2. conn' \in [Conns -> Conn] /\ CallsKept'
    <3>1. CASE conn[c].here
      <4>1. PICK pc \in {"streaming", "request"} : Goto(c, pc)
        BY <2>1, <3>1 DEF StartRequest, Goto
      <4>2. pc \in Dispatched \cup {"events"} /\ conn[c].pc \in Dispatched
        BY <2>1 DEF StartRequest, Dispatched
      <4> QED  BY <1>1, <4>1, <4>2, GotoKeeps DEF tableVars
    <3>2. CASE ~conn[c].here
      <4>1. conn' = [conn EXCEPT ![c] = Unused("closed")]
        BY <2>1, <3>2 DEF StartRequest
      <4> QED  BY <1>1, <4>1, RestKeeps DEF tableVars
    <3> QED  BY <3>1, <3>2
  <2>3. task' \in [Conns -> Task] /\ TasksKept'
    <3>1. CASE conn[c].here \/ stream
      <4> DEFINE t == [NoTask EXCEPT !.state = "working", !.stream = stream]
      <4>1. task' = [task EXCEPT ![c] = t]
        BY <2>1, <3>1 DEF StartRequest
      <4>2. t \in Task /\ t.notified = t.body /\ t.body <= Limit /\ t.body = t.upstream
        BY FreshTask
      <4> HIDE DEF t
      <4> QED  BY <4>1, <4>2, NewTaskKeeps
    <3>2. CASE ~(conn[c].here \/ stream)
      <4>1. task' = [task EXCEPT ![c] = NoTask]
        BY <2>1, <3>2 DEF StartRequest
      <4> QED  BY <4>1, NoTaskKeeps
    <3> QED  BY <3>1, <3>2
  <2> QED  BY <2>2, <2>3
<1> QED  BY <1>5, <1>6, <1>7, <1>8

\* The shutdown leaves the table alone, and drops the tasks of streams.
LEMMA ShutdownSteps ==
    ASSUME IInv, CtrlC \/ Stop
    PROVE  IInv'
<1> USE DEF IInv
<1>1. UNCHANGED <<tableVars, conn>> /\ server' \in {"serving", "stopping", "stopped"}
  BY DEF CtrlC, Stop
<1>2. TableKept' /\ CallsKept'
  BY <1>1 DEF tableVars, TableKept, CallsKept
<1>3. task' \in [Conns -> Task] /\ TasksKept'
  <2>1. CASE CtrlC
    BY <2>1 DEF CtrlC, TypeOK, TasksKept
  <2>2. CASE Stop
    <3>1. task' = [c \in Conns |-> IF task[c].state = "working" THEN NoTask ELSE task[c]]
      BY <2>2 DEF Stop
    <3>2. task' \in [Conns -> Task]
      BY <3>1, NoTaskIsTask DEF TypeOK
    <3>3. \A c \in Conns : task'[c] \in {NoTask, task[c]}
      BY <3>1
    <3>4. NoTask.body <= Limit /\ NoTask.state \notin {"working", "done"} /\ ~NoTask.stream
      BY NoTaskIsTask, SizesAssumption
    <3>5. TasksKept'
      BY <3>3, <3>4 DEF TasksKept
    <3> QED  BY <3>2, <3>5
  <2> QED  BY <2>1, <2>2
<1> QED  BY <1>1, <1>2, <1>3 DEF TypeOK, tableVars

\* Every step preserves the inductive invariant.
LEMMA NextPreserves == IInv /\ [Next]_vars => IInv'
<1> SUFFICES ASSUME IInv, [Next]_vars PROVE IInv'
  OBVIOUS
<1>1. CASE UNCHANGED vars
  BY <1>1 DEF vars, IInv, TypeOK, TableKept, CallsKept, TasksKept
<1>2. CASE CtrlC \/ Stop
  BY <1>2, ShutdownSteps
<1>3. ASSUME NEW c \in Conns,
             \/ RefuseTool(c) \/ StartExec(c) \/ ExecEnds(c) \/ StreamEnds(c)
             \/ CloseIdle(c) \/ Reply(c) \/ CallTool(c)
             \/ \E id \in Ids, protocol \in Protocols : OpenEvents(c, id, protocol)
      PROVE  IInv'
  BY <1>3, ConnectionSteps
<1>4. ASSUME NEW c \in Conns,
             \/ Initialized(c) \/ \E protocol \in Protocols : Initialize(c, protocol)
             \/ \E id \in Ids : DeleteSession(c, id)
      PROVE  IInv'
  BY <1>4, TableSteps
<1>5. ASSUME NEW c \in Conns,
             \/ Connect(c) \/ Leave(c)
             \/ \E id \in Ids, protocol \in Protocols : Arrive(c, id, protocol)
             \/ \E stream \in BOOLEAN : StartRequest(c, stream)
      PROVE  IInv'
  BY <1>5, ClientSteps
<1>6. ASSUME NEW c \in Conns, Chunk(c) \/ UpstreamEnds(c) PROVE IInv'
  BY <1>6, ChunkKeeps, UpstreamEndsKeeps
<1> QED  BY <1>1, <1>2, <1>3, <1>4, <1>5, <1>6 DEF Next, Serve

\* The table, the connections and the tasks are always of their types: no two
\* sessions of the table have one id.
THEOREM TypeCorrect == Spec => []TypeOK
<1>1. IInv => TypeOK
  BY DEF IInv
<1> QED  BY <1>1, InitEstablishes, NextPreserves, PTL DEF Spec

\* A tool runs only for a session that was initialized, and never for a
\* request that came after the session was deleted: handle_message checks the
\* session under the lock, and ids are not drawn twice.
THEOREM CallsAreOfOpenSessions == Spec => []ToolsRunInOpenSessions
<1>1. IInv => ToolsRunInOpenSessions
  BY DEF IInv, CallsKept, ToolsRunInOpenSessions
<1> QED  BY <1>1, InitEstablishes, NextPreserves, PTL DEF Spec

\* collect_request_result tells the client of what it collects and of nothing
\* else, within the limit, and completely unless it fails.
THEOREM StreamsKeepTheLimit == Spec => []StreamKeepsLimit
<1>1. IInv => StreamKeepsLimit
  BY DEF IInv, TasksKept, StreamKeepsLimit
<1> QED  BY <1>1, InitEstablishes, NextPreserves, PTL DEF Spec
-----------------------------------------------------------------------------
(* The shutdown of one connection.  ENABLED is opaque to the prover, so the *)
(* fairness of FairSpec is written out with the guards of Serve.            *)

CanServe(c) ==
    \/ server = "stopping" /\ conn[c].pc = "idle"
    \/ conn[c].pc = "dispatch"
    \/ conn[c].pc = "streaming" /\ task[c].state \in {"done", "failed"}

IsServed(c) == []<>~CanServe(c) \/ []<><<Serve(c)>>_vars

\* How far a connection is on its way to be closed, once nothing new is accepted.
Phase(c) ==
    CASE conn[c].pc = "idle" -> 0
      [] conn[c].pc = "body" -> 1
      [] conn[c].pc = "dispatch" -> 2
      [] conn[c].pc \in {"exec", "request", "events"} -> 3
      [] conn[c].pc = "streaming" -> IF task[c].state = "working" THEN 3 ELSE 4
      [] OTHER -> 5

\* What a step does to one connection: nothing, or nothing but the end of its
\* task, or one step further, or it comes to rest.
Moves(c) ==
    \/ /\ conn'[c].pc = conn[c].pc
       /\ \/ task'[c].state = task[c].state \/ conn[c].pc = "closed"
          \/ task[c].state = "working" /\ task'[c].state \in {"done", "failed"}
    \/ conn'[c].pc = "closed"
    \/ server = "serving" /\ conn'[c].pc = "idle"
    \/ conn[c].pc = "idle" /\ conn'[c].pc \in {"body", "events"}
    \/ conn[c].pc = "body" /\ conn'[c].pc = "dispatch"
    \/ conn[c].pc = "dispatch" /\ conn'[c].pc \in {"exec", "request"}
    \/ conn[c].pc = "dispatch" /\ conn'[c].pc = "streaming" /\ task'[c].state = "working"

\* A step of another connection does nothing to this one.
LEMMA OthersStay ==
    ASSUME TypeOK, NEW c \in Conns, NEW d \in Conns, d # c, NEW C, NEW T,
           UNCHANGED conn \/ conn' = [conn EXCEPT ![d] = C],
           UNCHANGED task \/ task' = [task EXCEPT ![d] = T]
    PROVE  Moves(c)
BY DEF TypeOK, Moves

\* An answer closes the connection, or lets it rest while the server serves.
LEMMA AnswerRests ==
    ASSUME TypeOK, NEW c \in Conns, Answer(c)
    PROVE  \/ conn'[c].pc = "closed"
           \/ server = "serving" /\ conn'[c].pc = "idle"
BY UnusedIsConn DEF TypeOK, Answer, Rest

\* Whatever happens, a connection moves that way.
LEMMA StepMoves ==
    ASSUME IInv, NEW c \in Conns, [Next]_vars
    PROVE  Moves(c)
<1> USE DEF IInv
<1>1. CASE UNCHANGED vars \/ CtrlC
  BY <1>1 DEF vars, CtrlC, Moves
<1>2. CASE Stop
  BY <1>2 DEF Stop, AllClosed, Moves
<1>3. ASSUME NEW d \in Conns, Answer(d), UNCHANGED task PROVE Moves(c)
  <2>1. CASE d = c
    BY <1>3, <2>1, AnswerRests DEF Moves
  <2>2. CASE d # c
    BY <1>3, <2>2, OthersStay DEF Answer
  <2> QED  BY <2>1, <2>2
<1>4. ASSUME NEW d \in Conns, NEW t, Finish(d, t, "done") \/ Finish(d, t, "failed"),
             t \in Task, task[d].state = "working"
      PROVE  Moves(c)
  <2>1. PICK state \in {"done", "failed"} :
            /\ task' = [task EXCEPT ![d] = [t EXCEPT !.state = state]]
            /\ UNCHANGED conn \/ Answer(d)
    BY <1>4 DEF Finish
  <2>2. CASE d = c
    <3>1. task'[c].state = state
      BY <1>4, <2>1, <2>2 DEF Task, TypeOK
    <3> QED  BY <1>4, <2>1, <2>2, <3>1, AnswerRests DEF Moves
  <2>3. CASE d # c
    BY <2>1, <2>3, OthersStay DEF Answer
  <2> QED  BY <2>2, <2>3
<1>5. ASSUME NEW d \in Conns, NEW id \in Ids, NEW protocol \in Protocols,
             Arrive(d, id, protocol) \/ OpenEvents(d, id, protocol)
      PROVE  Moves(c)
  <2>1. CASE d = c
    BY <1>5, <2>1 DEF Arrive, OpenEvents, Goto, TypeOK, Conn, Moves
  <2>2. CASE d # c
    BY <1>5, <2>2, OthersStay DEF Arrive, OpenEvents, Goto
  <2> QED  BY <2>1, <2>2
<1>6. ASSUME NEW d \in Conns, Connect(d) \/ Leave(d)
      PROVE  Moves(c)
  <2>1. CASE d = c
    BY <1>6, <2>1, UnusedIsConn DEF Connect, Leave, TypeOK, Conn, Moves
  <2>2. CASE d # c
    BY <1>6, <2>2, OthersStay DEF Connect, Leave
  <2> QED  BY <2>1, <2>2
<1>7. ASSUME NEW d \in Conns, CallTool(d) \/ StartExec(d)
      PROVE  Moves(c)
  <2>1. CASE d = c
    BY <1>7, <2>1 DEF CallTool, StartExec, Goto, TypeOK, Conn, Moves
  <2>2. CASE d # c
    BY <1>7, <2>2, OthersStay DEF CallTool, StartExec, Goto
  <2> QED  BY <2>1, <2>2
<1>8. ASSUME NEW d \in Conns, NEW stream \in BOOLEAN, StartRequest(d, stream)
      PROVE  Moves(c)
  <2>1. CASE d = c
    <3>1. conn[c] \in Conn /\ conn[c].pc = "dispatch"
      BY <1>8, <2>1 DEF StartRequest, TypeOK
    <3>2. CASE conn[c].here
      <4>1. conn'[c].pc = IF stream THEN "streaming" ELSE "request"
        BY <1>8, <2>1, <3>1, <3>2 DEF StartRequest, TypeOK, Conn
      <4>2. task'[c].state = "working"
        BY <1>8, <2>1, <3>2 DEF StartRequest, NoTask, TypeOK
      <4> QED  BY <3>1, <4>1, <4>2 DEF Moves
    <3>3. CASE ~conn[c].here
      BY <1>8, <2>1, <3>3, UnusedIsConn DEF StartRequest, TypeOK, Moves
    <3> QED  BY <3>2, <3>3
  <2>2. CASE d # c
    BY <1>8, <2>2, OthersStay DEF StartRequest
  <2> QED  BY <2>1, <2>2
<1>9. ASSUME NEW d \in Conns, Chunk(d) PROVE Moves(c)
  <2> DEFINE t == [task[d] EXCEPT !.upstream = @ + 1]
             late == [t EXCEPT !.notified = NotifyAfter(t)]
  <2>1. task[d] \in Task /\ task[d].state = "working" /\ task[d].upstream < MaxBlocks
    BY <1>9 DEF Chunk, TypeOK
  <2>2. CASE Finish(d, late, "failed")
    <3>1. late \in Task
      <4>1. t \in Task
        BY <2>1, SizesAssumption DEF Task
      <4> HIDE DEF t
      <4> QED  BY <4>1 DEF Task, NotifyAfter
    <3> HIDE DEF late
    <3> QED  BY <1>4, <2>1, <2>2, <3>1
  <2>3. CASE ~Finish(d, late, "failed")
    <3> DEFINE more == [t EXCEPT !.body = @ + 1,
                                 !.notified = IF t.stream THEN @ + 1 ELSE @]
    <3>1. task' = [task EXCEPT ![d] = more] /\ UNCHANGED conn
      BY <1>9, <2>3 DEF Chunk
    <3>2. more.state = "working"
      BY <2>1 DEF Task
    <3> HIDE DEF more
    <3>3. task'[c].state = task[c].state
      BY <2>1, <3>1, <3>2 DEF TypeOK
    <3> QED  BY <3>1, <3>3 DEF Moves
  <2> QED  BY <2>2, <2>3
<1>10. ASSUME NEW d \in Conns, UpstreamEnds(d) PROVE Moves(c)
  <2>1. task[d] \in Task /\ task[d].state = "working"
    BY <1>10 DEF UpstreamEnds, TypeOK
  <2> QED  BY <1>4, <1>10, <2>1 DEF UpstreamEnds
<1>11. ASSUME NEW d \in Conns,
              \/ RefuseTool(d) \/ StreamEnds(d) \/ Reply(d) \/ Initialized(d) \/ ExecEnds(d)
              \/ \E protocol \in Protocols : Initialize(d, protocol)
              \/ \E id \in Ids : DeleteSession(d, id)
       PROVE  Moves(c)
  <2>1. Answer(d) /\ UNCHANGED task
    BY <1>11 DEF RefuseTool, StreamEnds, Reply, Initialized, ExecEnds, Initialize, DeleteSession
  <2> QED  BY <1>3, <2>1
<1>12. ASSUME NEW d \in Conns, CloseIdle(d) PROVE Moves(c)
  BY <1>12, OthersStay, UnusedIsConn DEF CloseIdle, TypeOK, Moves
<1> QED
  BY <1>1, <1>2, <1>5, <1>6, <1>7, <1>8, <1>9, <1>10, <1>11, <1>12 DEF Next, Serve

\* A stream has a task, which goes on or has a result.
StreamsHaveTasks == \A c \in Conns : conn[c].pc = "streaming" => task[c].state # "none"

LEMMA StreamsKeepTasks == Spec => []StreamsHaveTasks
<1>1. Init => StreamsHaveTasks
  BY UnusedIsConn DEF Init, StreamsHaveTasks
<1>2. IInv /\ StreamsHaveTasks /\ [Next]_vars => StreamsHaveTasks'
  BY StepMoves DEF StreamsHaveTasks, Moves
<1> QED  BY <1>1, <1>2, InitEstablishes, NextPreserves, PTL DEF Spec

\* A client that has left is noticed, except by a handler that awaits nothing.
Heard(c) == conn[c].pc \in {"dispatch", "exec"} \/ conn[c].here

\* A step of one connection keeps that of another, and its own if it puts
\* the connection where the client is there.
LEMMA OneIsHeard ==
    ASSUME TypeOK, NEW c \in Conns, NEW d \in Conns, NEW C, Heard(c),
           UNCHANGED conn \/ conn' = [conn EXCEPT ![d] = C],
           d = c => C.here \/ C.pc \in {"dispatch", "exec"}
    PROVE  Heard(c)'
BY DEF TypeOK, Heard

LEMMA StepHears ==
    ASSUME IInv, NEW c \in Conns, Heard(c), [Next]_vars
    PROVE  Heard(c)'
<1> USE DEF IInv
<1>1. CASE UNCHANGED vars \/ CtrlC \/ Stop
  BY <1>1 DEF vars, CtrlC, Stop, Heard
<1>2. ASSUME NEW d \in Conns, UNCHANGED conn \/ Answer(d) PROVE Heard(c)'
  <2>1. Rest(d).here
    BY UnusedIsConn DEF Rest
  <2> QED  BY <1>2, <2>1, OneIsHeard DEF Answer
<1>3. ASSUME NEW d \in Conns, Connect(d) \/ CloseIdle(d) PROVE Heard(c)'
  BY <1>3, OneIsHeard, UnusedIsConn DEF Connect, CloseIdle
<1>4. ASSUME NEW d \in Conns, Leave(d) PROVE Heard(c)'
  <2> DEFINE C == IF conn[d].pc \in {"dispatch", "exec"} THEN [conn[d] EXCEPT !.here = FALSE]
                  ELSE Unused("closed")
  <2>1. conn' = [conn EXCEPT ![d] = C]
    BY <1>4 DEF Leave
  <2>2. C.here \/ C.pc \in {"dispatch", "exec"}
    BY UnusedIsConn DEF TypeOK, Conn
  <2> HIDE DEF C
  <2> QED  BY <2>1, <2>2, OneIsHeard
<1>5. ASSUME NEW d \in Conns, NEW stream \in BOOLEAN, StartRequest(d, stream) PROVE Heard(c)'
  <2> DEFINE C == IF conn[d].here
                  THEN [conn[d] EXCEPT !.pc = IF stream THEN "streaming" ELSE "request"]
                  ELSE Unused("closed")
  <2>1. conn' = [conn EXCEPT ![d] = C]
    BY <1>5 DEF StartRequest
  <2>2. C.here
    BY UnusedIsConn DEF TypeOK, Conn
  <2> HIDE DEF C
  <2> QED  BY <2>1, <2>2, OneIsHeard
<1>6. ASSUME NEW d \in Conns, CallTool(d) \/ StartExec(d) PROVE Heard(c)'
  <2>1. PICK pc \in {"dispatch", "exec"} : conn' = [conn EXCEPT ![d] = [conn[d] EXCEPT !.pc = pc]]
    BY <1>6 DEF CallTool, StartExec, Goto
  <2> DEFINE C == [conn[d] EXCEPT !.pc = pc]
  <2>2. C.pc \in {"dispatch", "exec"}
    BY DEF TypeOK, Conn
  <2>3. conn' = [conn EXCEPT ![d] = C]
    BY <2>1
  <2> HIDE DEF C
  <2> QED  BY <2>2, <2>3, OneIsHeard
<1>7. ASSUME NEW d \in Conns, NEW id \in Ids, NEW protocol \in Protocols,
             Arrive(d, id, protocol) \/ OpenEvents(d, id, protocol)
      PROVE  Heard(c)'
  <2>1. CASE Arrive(d, id, protocol)
    BY <2>1, OneIsHeard DEF Arrive
  <2>2. CASE OpenEvents(d, id, protocol)
    BY <2>2 DEF OpenEvents, Goto, TypeOK, Conn, Heard
  <2> QED  BY <1>7, <2>1, <2>2
<1>8. ASSUME NEW d \in Conns, Chunk(d) \/ UpstreamEnds(d) PROVE Heard(c)'
  <2>1. UNCHANGED conn \/ Answer(d)
    BY <1>8 DEF Chunk, UpstreamEnds, Finish
  <2> QED  BY <1>2, <2>1
<1>9. ASSUME NEW d \in Conns,
             \/ RefuseTool(d) \/ StreamEnds(d) \/ Reply(d) \/ Initialized(d) \/ ExecEnds(d)
             \/ \E protocol \in Protocols : Initialize(d, protocol)
             \/ \E id \in Ids : DeleteSession(d, id)
      PROVE  Heard(c)'
  <2>1. Answer(d)
    BY <1>9 DEF RefuseTool, StreamEnds, Reply, Initialized, ExecEnds, Initialize, DeleteSession
  <2> QED  BY <1>2, <2>1
<1> QED  BY <1>1, <1>3, <1>4, <1>5, <1>6, <1>7, <1>8, <1>9 DEF Next, Serve

ClientsAreHeard == \A c \in Conns : Heard(c)

LEMMA ClientsStayHeard == Spec => []ClientsAreHeard
<1>1. Init => ClientsAreHeard
  BY UnusedIsConn DEF Init, ClientsAreHeard, Heard
<1>2. IInv /\ ClientsAreHeard /\ [Next]_vars => ClientsAreHeard'
  BY StepHears DEF ClientsAreHeard
<1> QED  BY <1>1, <1>2, InitEstablishes, NextPreserves, PTL DEF Spec

\* A server that stops never serves again, and sends no connection back.
LEMMA NoWayBack ==
    ASSUME IInv, NEW c \in Conns, [Next]_vars, server = "stopping"
    PROVE  server' \in {"stopping", "stopped"} /\ Phase(c)' >= Phase(c)
<1>1. server' \in {"stopping", "stopped"}
  BY DEF vars, Next, CtrlC, Stop, Connect, Leave, Serve, RefuseTool, StartExec, StreamEnds,
         CloseIdle, StartRequest, Reply, Initialized, CallTool, ExecEnds, Chunk, UpstreamEnds,
         Initialize, DeleteSession, Arrive, OpenEvents
<1>2. Moves(c)
  BY StepMoves
<1>3. conn[c].pc \in {"closed", "idle", "body", "events"} \cup Dispatched
  BY DEF IInv, TypeOK, Conn
<1>4. Phase(c)' >= Phase(c)
  BY <1>2, <1>3 DEF Moves, Phase, Dispatched
<1> QED  BY <1>1, <1>4

\* What the server does of itself brings the connection further.
LEMMA ServingAdvances ==
    ASSUME IInv, NEW c \in Conns, Serve(c), server = "stopping"
    PROVE  Phase(c)' > Phase(c)
<1> USE DEF IInv
<1>1. CASE RefuseTool(c) \/ StreamEnds(c)
  <2>1. conn'[c].pc = "closed"
    BY <1>1, AnswerRests DEF RefuseTool, StreamEnds
  <2>2. conn[c].pc \in {"dispatch", "streaming"}
    BY <1>1 DEF RefuseTool, StreamEnds
  <2> QED  BY <2>1, <2>2 DEF Phase
<1>2. CASE StartExec(c)
  BY <1>2 DEF StartExec, Goto, TypeOK, Conn, Phase
<1>3. CASE CloseIdle(c)
  BY <1>3, UnusedIsConn DEF CloseIdle, TypeOK, Phase
<1>4. ASSUME NEW stream \in BOOLEAN, StartRequest(c, stream) PROVE Phase(c)' > Phase(c)
  <2>1. conn[c].pc = "dispatch"
    BY <1>4 DEF StartRequest
  <2>2. conn'[c].pc \in {"streaming", "request", "closed"}
    BY <1>4, UnusedIsConn DEF StartRequest, TypeOK, Conn
  <2> QED  BY <2>1, <2>2 DEF Phase
<1> QED  BY <1>1, <1>2, <1>3, <1>4 DEF Serve

\* In each phase the server can go on, or it waits, or the connection is closed.
LEMMA PhasesTell ==
    ASSUME IInv, StreamsHaveTasks, ClientsAreHeard, NEW c \in Conns, server = "stopping"
    PROVE  /\ Phase(c) \in 0..5
           /\ Phase(c) \in {0, 2, 4} => CanServe(c)
           /\ Phase(c) \in {1, 3} => WaitsForOthers(c)
           /\ Phase(c) = 5 => conn[c].pc = "closed"
<1>1. conn[c].pc \in {"closed", "idle", "body", "events"} \cup Dispatched
  BY DEF IInv, TypeOK, Conn
<1>2. task[c].state \in {"none", "working", "done", "failed"}
  BY DEF IInv, TypeOK, Task
<1> QED
  BY <1>1, <1>2 DEF StreamsHaveTasks, ClientsAreHeard, Heard, Phase, CanServe, WaitsForOthers,
                    Dispatched

\* The connection is at least that far.
Past(c, n) == Phase(c) >= n

LEMMA PhasesRise ==
    ASSUME IInv, IInv', NEW c \in Conns, [Next]_vars, server = "stopping"
    PROVE  \A n \in 1..5 : /\ Past(c, n) => Past(c, n)'
                           /\ Past(c, n - 1) /\ Serve(c) => Past(c, n)'
<1>1. Phase(c) \in 0..5
  BY DEF IInv, TypeOK, Conn, Phase
<1>2. Phase(c)' \in 0..5
  BY DEF Phase
<1>3. Phase(c)' >= Phase(c) /\ (Serve(c) => Phase(c)' > Phase(c))
  BY NoWayBack, ServingAdvances
<1> QED  BY <1>1, <1>2, <1>3 DEF Past

\* One connection, from the beginning of the shutdown to its last phase.
LEMMA OneSettles ==
    ASSUME NEW c \in Conns
    PROVE  Spec /\ IsServed(c) =>
               (server = "stopping" ~>
                    \/ server = "stopped"
                    \/ []WaitsForOthers(c)
                    \/ [](conn[c].pc = "closed"))
<1>1. IInv /\ IInv' /\ [Next]_vars => (server = "stopping" =>
          (server = "stopping")' \/ (server = "stopped")')
  BY NoWayBack
<1>2. IInv /\ IInv' /\ [Next]_vars => (server = "stopping" =>
          /\ Past(c, 1) => Past(c, 1)'
          /\ Past(c, 2) => Past(c, 2)'
          /\ Past(c, 3) => Past(c, 3)'
          /\ Past(c, 4) => Past(c, 4)'
          /\ Past(c, 5) => Past(c, 5)')
  BY PhasesRise
<1>3. IInv /\ IInv' /\ [Next]_vars => (server = "stopping" /\ <<Serve(c)>>_vars =>
          /\ Past(c, 1)'
          /\ Past(c, 2) => Past(c, 3)'
          /\ Past(c, 4) => Past(c, 5)')
  <2> SUFFICES ASSUME IInv, IInv', [Next]_vars, server = "stopping", Serve(c)
               PROVE  /\ Past(c, 1)'
                      /\ Past(c, 2) => Past(c, 3)'
                      /\ Past(c, 4) => Past(c, 5)'
    OBVIOUS
  <2>1. Past(c, 0)
    BY DEF Past, Phase
  <2> QED  BY <2>1, PhasesRise
<1>4. IInv /\ StreamsHaveTasks /\ ClientsAreHeard => (server = "stopping" =>
          /\ ~Past(c, 1) => CanServe(c)
          /\ Past(c, 1) /\ ~Past(c, 2) => WaitsForOthers(c)
          /\ Past(c, 2) /\ ~Past(c, 3) => CanServe(c)
          /\ Past(c, 3) /\ ~Past(c, 4) => WaitsForOthers(c)
          /\ Past(c, 4) /\ ~Past(c, 5) => CanServe(c)
          /\ Past(c, 5) => conn[c].pc = "closed")
  BY PhasesTell DEF Past
<1>5. Spec => []IInv
  BY InitEstablishes, NextPreserves, PTL DEF Spec
<1> QED
  BY <1>1, <1>2, <1>3, <1>4, <1>5, StreamsKeepTasks, ClientsStayHeard, PTL DEF Spec, IsServed

\* While the server stops, each of its connections is closed for good, or for
\* ever waits for a client that is there, its upstream or the child of an exec
\* call, or the server has stopped: handlers and accept loop leave none where it
\* is, for any number of connections, sessions and blocks.
THEOREM ConnectionsSettle ==
    Spec /\ (\A c \in Conns : IsServed(c)) =>
        \A c \in Conns :
            (server = "stopping" ~>
                 \/ server = "stopped"
                 \/ []WaitsForOthers(c)
                 \/ [](conn[c].pc = "closed"))
BY OneSettles

CanStop == server = "stopping" /\ AllClosed
StopIsFair == []<>~CanStop \/ []<><<Stop>>_vars

\* What is closed for good one by one is closed together at some time.  Of a
\* finite set of connections this is true whatever the server does, but it takes
\* an induction over temporal formulas, so that it stands as a hypothesis here.
ConnsAreFinite == (\A c \in Conns : <>[](conn[c].pc = "closed")) => <>[]AllClosed

\* If the shutdown goes wrong, it is not for this connection.
LEMMA ClosedUnlessEnded ==
    ASSUME NEW c \in Conns
    PROVE  Spec /\ IsServed(c) /\ ~ShutdownEnds => <>[](conn[c].pc = "closed")
<1>1. WaitsForOthers(c) => OthersHoldIt
  BY DEF OthersHoldIt
<1>2. Spec /\ IsServed(c) =>
          (server = "stopping" ~>
               \/ server = "stopped"
               \/ []WaitsForOthers(c)
               \/ [](conn[c].pc = "closed"))
  BY OneSettles
<1> QED  BY <1>1, <1>2, PTL DEF ShutdownEnds

\* A graceful shutdown ends, or waits for ever for clients that stay, their
\* upstreams, or children of exec calls: for any finite number of connections.
THEOREM ShutdownIsGraceful ==
    /\ Spec
    /\ \A c \in Conns : IsServed(c)
    /\ StopIsFair
    /\ ConnsAreFinite
    => ShutdownEnds
<1>1. Spec /\ (\A c \in Conns : IsServed(c)) /\ ~ShutdownEnds =>
          \A c \in Conns : <>[](conn[c].pc = "closed")
  BY ClosedUnlessEnded
<1>2. IInv /\ [Next]_vars => (server = "stopping" => (server = "stopping")' \/ (server = "stopped")')
  BY DEF vars, Next, CtrlC, Stop, Connect, Leave, Serve, RefuseTool, StartExec, StreamEnds,
         CloseIdle, StartRequest, Reply, Initialized, CallTool, ExecEnds, Chunk, UpstreamEnds,
         Initialize, DeleteSession, Arrive, OpenEvents
<1>3. <<Stop>>_vars => (server = "stopped")'
  BY DEF Stop
<1>4. CanStop <=> server = "stopping" /\ AllClosed
  BY DEF CanStop
<1>5. Spec => [][Next]_vars
  BY PTL DEF Spec
<1>6. Spec => []IInv
  BY InitEstablishes, NextPreserves, PTL DEF Spec
<1> QED
  BY <1>1, <1>2, <1>3, <1>4, <1>5, <1>6, PTL DEF ShutdownEnds, ConnsAreFinite, StopIsFair
=============================================================================
