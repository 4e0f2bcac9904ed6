-------------------------------- MODULE Exec --------------------------------
(***************************************************************************)
(* vaultick exec and the tool vaultick.exec: a child process writes to two *)
(* pipes, two threads empty them through a Redactor, and the caller waits  *)
(* for the child and then for the threads.  The command copies the output  *)
(* to a terminal or file that may fail; the tool collects it up to a       *)
(* limit.  Sizes are counted in blocks after redaction (see Redactor).     *)
(***************************************************************************)
EXTENDS Naturals

CONSTANTS
    Capacity,       \* of a pipe
    Limit,          \* max_output_bytes of the tool
    MaxWrites       \* bound: blocks written by the child and what it leaves

ASSUME SizesAssumption == Capacity \in Nat \ {0} /\ Limit \in Nat /\ MaxWrites \in Nat

Streams == {"stdout", "stderr"}

VARIABLES
    caller,     \* "cli" or "mcp"
    child,      \* "running" or "exited"
    target,     \* the stream the child is in write(2) for, or "none"
    background, \* a process left by the child still holds the write ends
    writes,     \* blocks written or being written so far
    pipe,       \* blocks in each pipe
    sent,       \* history: blocks ever accepted by each pipe
    reader,     \* state of the thread of each stream
    held,       \* blocks pending in its Redactor
    output,     \* blocks it has copied or collected
    main        \* what the caller is doing

execVars == <<caller, child, target, background, writes, pipe, sent, reader, held,
              output, main>>
childVars == <<child, target, background, writes>>
readerVars == <<reader, held, output>>

ExecInit ==
    /\ caller \in {"cli", "mcp"}
    /\ child = "running" /\ target = "none"
    /\ background = FALSE /\ writes = 0
    /\ pipe = [s \in Streams |-> 0] /\ sent = [s \in Streams |-> 0]
    /\ reader = [s \in Streams |-> "reading"]
    /\ held = [s \in Streams |-> 0] /\ output = [s \in Streams |-> 0]
    /\ main = "wait"
-----------------------------------------------------------------------------
(* The child and the pipes *)

\* The thread owns the read end, and drops it when it returns.
ReadEndClosed(s) == reader[s] # "reading"

Accept(s) ==
    /\ pipe[s] < Capacity /\ ~ReadEndClosed(s)
    /\ pipe' = [pipe EXCEPT ![s] = @ + 1]
    /\ sent' = [sent EXCEPT ![s] = @ + 1]

StartWrite(s) ==
    /\ child = "running" /\ target = "none" /\ writes < MaxWrites
    /\ target' = s /\ writes' = writes + 1
    /\ UNCHANGED <<caller, child, background, pipe, sent, readerVars, main>>

\* The write returns once there is room; until then the child is blocked.
Write ==
    /\ target # "none" /\ Accept(target)
    /\ target' = "none"
    /\ UNCHANGED <<caller, child, background, writes, readerVars, main>>

\* SIGPIPE, or EPIPE where the child ignores the signal.
BrokenPipe ==
    /\ target # "none" /\ ReadEndClosed(target)
    /\ target' = "none"
    /\ child' \in {"running", "exited"}
    /\ UNCHANGED <<caller, background, writes, pipe, sent, readerVars, main>>

\* The child ends or is killed; what it started may go on.
Exit ==
    /\ child = "running"
    /\ child' = "exited" /\ target' = "none"
    /\ background' \in BOOLEAN
    /\ UNCHANGED <<caller, writes, pipe, sent, readerVars, main>>

BackgroundWrites(s) ==
    /\ background /\ writes < MaxWrites /\ Accept(s)
    /\ writes' = writes + 1
    /\ UNCHANGED <<caller, child, target, background, readerVars, main>>

BackgroundEnds ==
    /\ background
    /\ background' = FALSE
    /\ UNCHANGED <<caller, child, target, writes, pipe, sent, readerVars, main>>
-----------------------------------------------------------------------------
(* stream_redacted_output and read_redacted_output, a thread for each *)

\* Mutants: stderr is read when stdout has ended; end of file is the end of
\* the child; the caller keeps a copy of the write ends.
InTurn(s) == reader[s] = "reading" /\ (s = "stderr" => reader["stdout"] # "reading")
ChildGone == child = "exited"
LeaksWriteEnd == FALSE

\* Each stream has a thread of its own.
MayRead(s) == reader[s] = "reading"

NoWriters == child = "exited" /\ ~background

\* extend_with_limit
Exceeds(total) == caller = "mcp" /\ total > Limit

\* Mutant: the bytes pending at the end are forgotten.
Forgotten(s) == output[s]

\* What finish yields is added to the output.
Total(s) == output[s] + held[s]

\* The Redactor gives out some of what it has and holds back the rest.
ReadPipe(s) ==
    /\ MayRead(s) /\ pipe[s] > 0
    /\ \E n \in 1..pipe[s] : \E k \in 0..(held[s] + n) :
        /\ pipe' = [pipe EXCEPT ![s] = @ - n]
        /\ IF Exceeds(output[s] + k)
           THEN /\ reader' = [reader EXCEPT ![s] = "failed"]
                /\ UNCHANGED <<held, output>>
           ELSE /\ output' = [output EXCEPT ![s] = @ + k]
                /\ held' = [held EXCEPT ![s] = @ + n - k]
                /\ UNCHANGED reader
    /\ UNCHANGED <<caller, childVars, sent, main>>

EndOfFile(s) ==
    /\ MayRead(s) /\ pipe[s] = 0 /\ NoWriters
    /\ IF Exceeds(Total(s))
       THEN reader' = [reader EXCEPT ![s] = "failed"] /\ UNCHANGED <<held, output>>
       ELSE /\ reader' = [reader EXCEPT ![s] = "finished"]
            /\ output' = [output EXCEPT ![s] = Total(s)]
            /\ held' = [held EXCEPT ![s] = 0]
    /\ UNCHANGED <<caller, childVars, pipe, sent, main>>

\* The writer of the command refuses the output.
WriterFails(s) ==
    /\ caller = "cli" /\ MayRead(s)
    /\ pipe[s] > 0 \/ NoWriters
    /\ reader' = [reader EXCEPT ![s] = "failed"]
    /\ UNCHANGED <<caller, childVars, pipe, sent, held, output, main>>
-----------------------------------------------------------------------------
(* handle_exec and run_exec_execution *)

Wait ==
    /\ main = "wait" /\ child = "exited"
    /\ main' = "join stdout"
    /\ UNCHANGED <<caller, childVars, pipe, sent, readerVars>>

\* The first failure is returned without joining the other thread.
Join(s, here, next) ==
    /\ main = here /\ reader[s] # "reading"
    /\ main' = IF reader[s] = "failed" THEN "failed" ELSE next
    /\ UNCHANGED <<caller, childVars, pipe, sent, readerVars>>

Main ==
    \/ Wait
    \/ Join("stdout", "join stdout", "join stderr")
    \/ Join("stderr", "join stderr", "returned")

ExecNext ==
    \/ Write \/ BrokenPipe \/ Exit \/ BackgroundEnds \/ Main
    \/ \E s \in Streams :
        \/ StartWrite(s) \/ BackgroundWrites(s)
        \/ ReadPipe(s) \/ EndOfFile(s) \/ WriterFails(s)

ExecSpec == ExecInit /\ [][ExecNext]_execVars

\* The threads and the caller are scheduled, and the kernel completes a write
\* that it can complete.  Neither the child nor what it leaves need ever end.
FairSpec ==
    /\ ExecSpec
    /\ WF_execVars(Main) /\ WF_execVars(Write \/ BrokenPipe)
    /\ \A s \in Streams : WF_execVars(ReadPipe(s) \/ EndOfFile(s))
-----------------------------------------------------------------------------
(* Properties *)

\* A call that succeeds returns all that was written to either stream: nothing
\* stays in a pipe or in a Redactor, and nobody is left who could write more.
ResultIsComplete ==
    main = "returned" => output = sent /\ child = "exited" /\ ~background

\* The tool fails exactly when a stream is longer than the limit, however the
\* Redactor divides the stream.
LimitIsExact ==
    caller = "mcp" =>
        /\ main = "returned" => \A s \in Streams : sent[s] <= Limit
        /\ main = "failed" => \E s \in Streams : sent[s] > Limit

\* Whatever the child writes in whatever order, it is never blocked for good,
\* although the caller does not look at the output before the child has ended
\* and a thread may have given up.
ChildIsNeverStuck == \A s \in Streams : target = s ~> target # s

\* Once every process that could write is gone the call ends.
CallEnds == child = "exited" /\ ~background ~> main \in {"returned", "failed"}
=============================================================================
