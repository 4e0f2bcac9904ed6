---------------------------- MODULE OutputProofs -----------------------------
(* What becomes of the output of a child process.  The streaming Redactor    *)
(* replaces exactly the leftmost-longest values of its input, for every      *)
(* input, every set of values and every way in which the input is cut into   *)
(* chunks; and what exec returns is complete and the limit of the tool exact,*)
(* for every pipe capacity, every limit and every number of writes.          *)
EXTENDS Redactor, Exec, TLAPS
-----------------------------------------------------------------------------
(* The Redactor *)

\* While nothing is being flushed, what is held back begins a longer value.
HeldBack ==
    pc \in {"read", "push", "failed"} =>
        Held = 0 \/ \E p \in patterns : Len(p) > Held /\ Begins(p)

\* Once the source is exhausted every byte has been pushed.
AllPushed == eof => read = Len(input)

\* The inductive invariant: a decision taken on the bytes pushed so far is
\* the one the whole input calls for.
IInv ==
    /\ TypeOK
    /\ NothingSlipsThrough
    /\ CutsAreLongest
    /\ EveryByteOnce
    /\ HeldBack
    /\ AllPushed

\* A value that is at hand and stands at the first pending byte occurs there.
LEMMA MatchOccurs ==
    ASSUME TypeOK, NEW p \in patterns
    PROVE  /\ Matches(p) => OccursAt(p, start)
           /\ OccursAt(p, start) /\ Len(p) <= Held => Matches(p)
BY DEF TypeOK, Matches, OccursAt, Held

\* A value that occurs at the first pending byte and is not wholly pushed is
\* waited for.
LEMMA LongOccurrenceBegins ==
    ASSUME TypeOK, AllPushed, NEW p \in patterns,
           OccursAt(p, start), Len(p) > Held
    PROVE  ~eof /\ Longer(p) /\ Begins(p)
<1>1. Len(p) \in Nat /\ Len(input) \in Nat
  BY InputsAssumption DEF TypeOK
<1>2. ~eof
  BY <1>1 DEF TypeOK, AllPushed, OccursAt, Held
<1>3. Begins(p)
  BY <1>1 DEF TypeOK, Begins, OccursAt, Held
<1> QED  BY <1>2, <1>3 DEF Longer

\* The invariant holds before the first chunk.
LEMMA InitEstablishes == Init => IInv
<1> SUFFICES ASSUME Init PROVE IInv
  OBVIOUS
<1>1. TypeOK
  <2>1. patterns \subseteq Seq(Bytes) \ {<<>>}
    BY ValuesAssumption DEF Init
  <2>2. Len(input) \in Nat
    BY InputsAssumption DEF Init
  <2>3. /\ input \in Inputs /\ pc = "read" /\ eof = FALSE
        /\ avail = 0 /\ read = 0 /\ start = 0
        /\ kept = {} /\ cut = {}
    BY DEF Init
  <2>4. kept \subseteq Nat /\ cut \subseteq [at : Nat, len : Nat]
    BY <2>3
  <2>5. eof \in BOOLEAN
    BY <2>3
  <2>6. /\ avail \in Nat /\ read \in Nat /\ start \in Nat
        /\ start <= read /\ read <= avail /\ avail <= Len(input)
    BY <2>2, <2>3
  <2>7. pc \in {"read", "push", "flush", "done", "failed"}
    BY <2>3
  <2>8. input \in Inputs
    BY <2>3
  <2> QED  BY <2>1, <2>4, <2>5, <2>6, <2>7, <2>8 DEF TypeOK
<1>2. NothingSlipsThrough /\ CutsAreLongest
  BY DEF Init, NothingSlipsThrough, CutsAreLongest
<1>3. EveryByteOnce /\ HeldBack /\ AllPushed
  BY DEF Init, EveryByteOnce, HeldBack, AllPushed, Held
<1> QED  BY <1>1, <1>2, <1>3 DEF IInv

\* A replacement takes the longest value there will ever be at its offset.
LEMMA RedactPreserves == IInv /\ Redact => IInv'
<1> SUFFICES ASSUME IInv, Redact PROVE IInv'
  OBVIOUS
<1> USE DEF IInv
<1>0. Len(input) \in Nat /\ \A q \in patterns : Len(q) \in Nat
  BY InputsAssumption DEF TypeOK
<1>1. PICK p \in patterns :
        /\ LongestMatch(p)
        /\ cut' = cut \cup {[at |-> start, len |-> Len(p)]}
        /\ start' = start + Len(p)
  BY DEF Redact, Drain
<1>2. OccursAt(p, start) /\ Len(p) <= Held
  BY <1>1, MatchOccurs DEF LongestMatch, Matches
<1>3. ASSUME NEW q \in patterns, OccursAt(q, start) PROVE Len(q) <= Len(p)
  <2>1. CASE Len(q) <= Held
    BY <1>1, <1>3, <2>1, MatchOccurs DEF LongestMatch
  <2>2. CASE Len(q) > Held
    BY <1>3, <2>2, LongOccurrenceBegins
    DEF Redact, WaitingForLongerMatch, LastByteEver
  <2> QED  BY <1>0, <2>1, <2>2 DEF TypeOK, Held
<1>4. TypeOK'
  BY <1>0, <1>1, <1>2 DEF TypeOK, Redact, Held
<1>5. NothingSlipsThrough'
  BY DEF Redact, NothingSlipsThrough, OccursAt
<1>6. CutsAreLongest'
  BY <1>1, <1>2, <1>3 DEF Redact, CutsAreLongest, OccursAt
<1>7. EveryByteOnce'
  <2>1. \A c \in cut : c.at \in Nat /\ c.len \in Nat /\ c.at + c.len <= start
    BY DEF TypeOK, EveryByteOnce
  <2>2. \A i \in kept' : i < start' /\ \A c \in cut' : ~Covers(c, i)
    BY <1>0, <1>1 DEF Redact, TypeOK, EveryByteOnce, Covers
  <2>3. \A c \in cut' : c.at + c.len <= start'
    BY <1>0, <1>1, <2>1 DEF TypeOK
  <2>4. \A c, d \in cut' : c = d \/ c.at + c.len <= d.at \/ d.at + d.len <= c.at
    BY <1>0, <1>1, <2>1 DEF EveryByteOnce
  <2>5. ASSUME NEW i \in 0..(start' - 1)
        PROVE  i \in kept' \/ \E c \in cut' : Covers(c, i)
    <3>1. CASE i < start
      BY <1>0, <1>1, <3>1 DEF Redact, TypeOK, EveryByteOnce
    <3>2. CASE ~(i < start)
      <4> DEFINE new == [at |-> start, len |-> Len(p)]
      <4>1. new \in cut' /\ new.at = start /\ new.len = Len(p)
        BY <1>1
      <4>2. Covers(new, i)
        BY <1>0, <1>1, <3>2, <4>1 DEF TypeOK, Covers
      <4> QED  BY <4>1, <4>2
    <3> QED  BY <3>1, <3>2
  <2>6. pc' # "done"
    BY DEF Redact
  <2> QED  BY <2>2, <2>3, <2>4, <2>5, <2>6 DEF EveryByteOnce, Covers
<1>8. HeldBack' /\ AllPushed'
  BY DEF Redact, HeldBack, AllPushed
<1> QED  BY <1>4, <1>5, <1>6, <1>7, <1>8

\* A byte is copied only when no value occurs at it.
LEMMA KeepPreserves == IInv /\ Keep => IInv'
<1> SUFFICES ASSUME IInv, Keep PROVE IInv'
  OBVIOUS
<1> USE DEF IInv
<1>0. Len(input) \in Nat /\ \A q \in patterns : Len(q) \in Nat
  BY InputsAssumption DEF TypeOK
<1>1. ASSUME NEW p \in patterns PROVE ~OccursAt(p, start)
  <2>1. CASE Len(p) <= Held
    BY <2>1, MatchOccurs DEF Keep
  <2>2. CASE Len(p) > Held
    BY <2>2, LongOccurrenceBegins
    DEF Keep, WaitingForPartialMatch, LastByteEver
  <2> QED  BY <1>0, <2>1, <2>2 DEF TypeOK, Held
<1>2. TypeOK'
  BY DEF TypeOK, Keep, Held
<1>3. NothingSlipsThrough'
  BY <1>1 DEF Keep, NothingSlipsThrough, OccursAt
<1>4. CutsAreLongest'
  BY DEF Keep, CutsAreLongest, OccursAt
<1>5. EveryByteOnce'
  BY DEF Keep, TypeOK, EveryByteOnce, Covers
<1>6. HeldBack' /\ AllPushed'
  BY DEF Keep, HeldBack, AllPushed
<1> QED  BY <1>2, <1>3, <1>4, <1>5, <1>6

\* The loop returns with the beginning of a longer value, or with nothing.
LEMMA ReturnPreserves == IInv /\ Return => IInv'
<1> SUFFICES ASSUME IInv, Return PROVE IInv'
  OBVIOUS
<1> USE DEF IInv
<1>1. Held = 0 \/ (~eof /\ \E p \in patterns : Len(p) > Held /\ Begins(p))
  <2>1. CASE Held = 0
    BY <2>1
  <2>2. CASE WaitingForLongerMatch
    BY <2>2 DEF WaitingForLongerMatch, LastByteEver, Longer
  <2>3. CASE WaitingForPartialMatch /\ \A p \in patterns : ~Matches(p)
    <3>1. PICK p \in patterns : Begins(p)
      BY <2>3 DEF WaitingForPartialMatch
    <3>2. Len(p) # Held
      BY <2>3, <3>1 DEF Begins, Matches, TypeOK, Held
    <3>3. Len(p) \in Nat
      BY DEF TypeOK
    <3>4. Len(p) > Held
      BY <3>1, <3>2, <3>3 DEF Begins, TypeOK, Held
    <3> QED  BY <2>3, <3>1, <3>4 DEF WaitingForPartialMatch, LastByteEver
  <2> QED  BY <2>1, <2>2, <2>3 DEF Return
<1>2. TypeOK'
  BY DEF TypeOK, Return
<1>3. NothingSlipsThrough' /\ CutsAreLongest'
  BY DEF Return, NothingSlipsThrough, CutsAreLongest, OccursAt
<1>4. pc' = "done" => start = Len(input)
  BY <1>1 DEF Return, AllPushed, TypeOK, Held
<1>5. EveryByteOnce'
  BY <1>4 DEF Return, EveryByteOnce, Covers
<1>6. HeldBack'
  BY <1>1 DEF Return, HeldBack, Begins, Held
<1>7. AllPushed'
  BY DEF Return, AllPushed
<1> QED  BY <1>2, <1>3, <1>5, <1>6, <1>7

\* The steps of the source and of the loop leave the output alone.
LEMMA FeedPreserves == IInv /\ (Read \/ Push \/ Finish \/ Fail) => IInv'
<1> SUFFICES ASSUME IInv, Read \/ Push \/ Finish \/ Fail PROVE IInv'
  OBVIOUS
<1> USE DEF IInv
<1>0. Len(input) \in Nat
  BY InputsAssumption DEF TypeOK
<1>1. /\ UNCHANGED <<input, patterns, start, kept, cut>>
      /\ pc' # "done"
  BY DEF Read, Push, Finish, Fail
<1>2. NothingSlipsThrough' /\ CutsAreLongest' /\ EveryByteOnce'
  BY <1>1 DEF NothingSlipsThrough, CutsAreLongest, EveryByteOnce, OccursAt, Covers
<1>3. CASE Read
  <2>1. TypeOK'
    BY <1>0, <1>3 DEF TypeOK, Read
  <2>2. HeldBack' /\ AllPushed'
    BY <1>3 DEF Read, HeldBack, AllPushed, Held, Begins
  <2> QED  BY <1>2, <2>1, <2>2
<1>4. CASE Push
  <2>1. TypeOK'
    BY <1>0, <1>4 DEF TypeOK, Push
  <2>2. HeldBack'
    BY <1>4 DEF TypeOK, Push, HeldBack, Held, Begins
  <2>3. AllPushed'
    BY <1>0, <1>4 DEF TypeOK, Push, AllPushed
  <2> QED  BY <1>2, <2>1, <2>2, <2>3
<1>5. CASE Finish
  BY <1>2, <1>5 DEF TypeOK, Finish, HeldBack, AllPushed
<1>6. CASE Fail
  <2>1. TypeOK' /\ AllPushed'
    BY <1>6 DEF TypeOK, Fail, AllPushed
  <2>2. HeldBack'
    BY <1>6 DEF Fail, HeldBack, Held, Begins
  <2> QED  BY <1>2, <1>6, <2>1, <2>2
<1> QED  BY <1>3, <1>4, <1>5, <1>6

\* The inductive invariant holds of every behaviour.
THEOREM InductiveInvariant == Spec => []IInv
<1>1. IInv /\ [Next]_vars => IInv'
  <2> SUFFICES ASSUME IInv, [Next]_vars PROVE IInv'
    OBVIOUS
  <2>1. CASE Next
    BY <2>1, RedactPreserves, KeepPreserves, ReturnPreserves, FeedPreserves DEF Next
  <2>2. CASE UNCHANGED vars
    BY <2>2 DEF vars, IInv, TypeOK, NothingSlipsThrough, CutsAreLongest,
       EveryByteOnce, HeldBack, AllPushed, OccursAt, Covers, Held, Begins
  <2> QED  BY <2>1, <2>2
<1> QED  BY InitEstablishes, <1>1, PTL DEF Spec

\* Offsets, pending bytes and output are always well-formed.
THEOREM TypeCorrect == Spec => []TypeOK
<1>1. IInv => TypeOK
  BY DEF IInv
<1> QED  BY <1>1, InductiveInvariant, PTL

\* No value ever begins at a byte that flush_redaction_pending copies to the
\* output, however the chunks divide it.
THEOREM NoValueSlipsThrough == Spec => []NothingSlipsThrough
<1>1. IInv => NothingSlipsThrough
  BY DEF IInv
<1> QED  BY <1>1, InductiveInvariant, PTL

\* What is replaced is the longest value at its offset of the whole input,
\* although only the bytes pushed so far could be looked at.
THEOREM ReplacementsAreLongest == Spec => []CutsAreLongest
<1>1. IInv => CutsAreLongest
  BY DEF IInv
<1> QED  BY <1>1, InductiveInvariant, PTL

\* Every byte that leaves the pending bytes is copied once or replaced once,
\* and a finished stream has lost none.
THEOREM BytesAreAccountedFor == Spec => []EveryByteOnce
<1>1. IInv => EveryByteOnce
  BY DEF IInv
<1> QED  BY <1>1, InductiveInvariant, PTL

\* A reader that waits for the source, or whose source fails, is kept from
\* nothing but the proper beginning of a value.
THEOREM OutputIsPrompt == Spec => []OnlyBeginningsAreHeld
<1>1. IInv => OnlyBeginningsAreHeld
  BY DEF IInv, HeldBack, OnlyBeginningsAreHeld, Held, TypeOK
<1> QED  BY <1>1, InductiveInvariant, PTL
-----------------------------------------------------------------------------
(* The pipes, their threads and the caller *)

\* Only a running child is in a write.
WriterRuns ==
    /\ target \in Streams \cup {"none"}
    /\ target # "none" => child = "running"

\* As much of the types as the proof needs.
Counters ==
    /\ pipe \in [Streams -> Nat] /\ sent \in [Streams -> Nat]
    /\ held \in [Streams -> Nat] /\ output \in [Streams -> Nat]
    /\ reader \in [Streams -> {"reading", "finished", "failed"}]
    /\ WriterRuns

\* Where the accepted blocks of a stream are: while its thread reads, in the
\* pipe, the Redactor or the output; once it has finished, in the output.
Conservation ==
    \A s \in Streams :
        /\ reader[s] = "reading" => sent[s] = pipe[s] + held[s] + output[s]
        /\ reader[s] = "finished" =>
               sent[s] = output[s] /\ child = "exited" /\ ~background

\* The tool keeps within the limit, and gives up only beyond it.
LimitKept ==
    caller = "mcp" => \A s \in Streams :
        /\ output[s] <= Limit
        /\ reader[s] = "failed" => sent[s] > Limit

\* What the caller knows of the threads from where it is.
CallerKnows ==
    /\ main = "join stderr" => reader["stdout"] = "finished"
    /\ main = "returned" => \A s \in Streams : reader[s] = "finished"
    /\ main = "failed" => \E s \in Streams : reader[s] = "failed"

\* The inductive invariant.
PipesInv == Counters /\ Conservation /\ LimitKept /\ CallerKnows

\* It holds at the start, when nothing has been written.
LEMMA PipesAreEmpty == ExecInit => PipesInv
<1> SUFFICES ASSUME ExecInit PROVE PipesInv
  OBVIOUS
<1>1. Counters
  BY DEF ExecInit, Counters, WriterRuns
<1>2. Conservation /\ LimitKept
  BY SizesAssumption DEF ExecInit, Conservation, LimitKept
<1>3. CallerKnows
  BY DEF ExecInit, CallerKnows
<1> QED  BY <1>1, <1>2, <1>3 DEF PipesInv

\* Both streams are streams.
LEMMA TwoStreams == "stdout" \in Streams /\ "stderr" \in Streams
BY DEF Streams

\* A thread that ends, and was not known to have ended, contradicts nothing
\* the caller knows.
LEMMA EndKeepsCallerKnows ==
    ASSUME Counters, CallerKnows, NEW s \in Streams, reader[s] = "reading",
           NEW r \in {"finished", "failed"}, reader' = [reader EXCEPT ![s] = r],
           main' = main
    PROVE  CallerKnows'
<1>1. \A t \in Streams : reader[t] # "reading" => reader'[t] = reader[t]
  BY DEF Counters
<1>2. main = "join stderr" => reader'["stdout"] = "finished"
  BY <1>1, TwoStreams DEF CallerKnows
<1>3. main # "returned"
  BY DEF CallerKnows
<1>4. main = "failed" => \E t \in Streams : reader'[t] = "failed"
  BY <1>1 DEF CallerKnows
<1> QED  BY <1>2, <1>3, <1>4 DEF CallerKnows

\* A block accepted by a pipe is accounted for there; its thread is reading.
LEMMA AcceptPreserves ==
    ASSUME PipesInv, NEW s \in Streams, Accept(s), WriterRuns',
           UNCHANGED <<caller, child, background, reader, held, output, main>>
    PROVE  PipesInv'
<1> USE DEF PipesInv
<1>1. /\ reader[s] = "reading"
      /\ pipe' = [pipe EXCEPT ![s] = @ + 1] /\ sent' = [sent EXCEPT ![s] = @ + 1]
  BY DEF Accept, ReadEndClosed
<1>2. Counters'
  BY <1>1 DEF Counters
<1>3. Conservation'
  BY <1>1 DEF Counters, Conservation
<1>4. LimitKept'
  BY <1>1 DEF Counters, LimitKept
<1>5. CallerKnows'
  BY DEF CallerKnows
<1> QED  BY <1>2, <1>3, <1>4, <1>5

\* A step that touches neither pipes nor threads, and wakes no writer.
LEMMA OtherPreserves ==
    ASSUME PipesInv, WriterRuns',
           UNCHANGED <<caller, pipe, sent, reader, held, output, main>>,
           child = "exited" /\ ~background => child' = "exited" /\ ~background'
    PROVE  PipesInv'
BY DEF PipesInv, Counters, Conservation, LimitKept, CallerKnows

\* The steps of the child and of what it leaves behind.
LEMMA ChildPreserves ==
    ASSUME PipesInv, NEW s \in Streams,
           Write \/ BrokenPipe \/ Exit \/ BackgroundEnds
           \/ StartWrite(s) \/ BackgroundWrites(s)
    PROVE  PipesInv'
<1>0. WriterRuns'
  <2>1. WriterRuns
    BY DEF PipesInv, Counters
  <2> QED
    BY <2>1 DEF WriterRuns, Write, BrokenPipe, Exit, BackgroundEnds, StartWrite,
                BackgroundWrites
<1>1. CASE Write
  <2>1. PICK t \in Streams : t = target
    BY <1>1 DEF Write, PipesInv, Counters, WriterRuns
  <2>2. Accept(t) /\ UNCHANGED <<caller, child, background, reader, held, output, main>>
    BY <1>1, <2>1 DEF Write, readerVars
  <2> QED  BY <1>0, <2>2, AcceptPreserves
<1>2. CASE BackgroundWrites(s)
  <2>1. Accept(s) /\ UNCHANGED <<caller, child, background, reader, held, output, main>>
    BY <1>2 DEF BackgroundWrites, readerVars
  <2> QED  BY <1>0, <2>1, AcceptPreserves
<1>3. CASE BrokenPipe
  <2>1. /\ UNCHANGED <<caller, pipe, sent, reader, held, output, main>>
        /\ child = "running"
    BY <1>3 DEF BrokenPipe, readerVars, PipesInv, Counters, WriterRuns
  <2> QED  BY <1>0, <2>1, OtherPreserves
<1>4. CASE Exit \/ BackgroundEnds \/ StartWrite(s)
  BY <1>0, <1>4, OtherPreserves DEF Exit, BackgroundEnds, StartWrite, readerVars
<1> QED  BY <1>1, <1>2, <1>3, <1>4

\* A block that a thread has taken from its pipe is held or in the output, or
\* the thread has given up.
LEMMA ReadPreserves ==
    ASSUME PipesInv, NEW s \in Streams, ReadPipe(s)
    PROVE  PipesInv'
<1> USE DEF PipesInv
<1>1. PICK n \in 1..pipe[s] : \E k \in 0..(held[s] + n) :
        /\ pipe' = [pipe EXCEPT ![s] = @ - n]
        /\ IF Exceeds(output[s] + k)
           THEN /\ reader' = [reader EXCEPT ![s] = "failed"]
                /\ UNCHANGED <<held, output>>
           ELSE /\ output' = [output EXCEPT ![s] = @ + k]
                /\ held' = [held EXCEPT ![s] = @ + n - k]
                /\ UNCHANGED reader
  BY DEF ReadPipe
<1>2. PICK k \in 0..(held[s] + n) :
        /\ pipe' = [pipe EXCEPT ![s] = @ - n]
        /\ IF Exceeds(output[s] + k)
           THEN /\ reader' = [reader EXCEPT ![s] = "failed"]
                /\ UNCHANGED <<held, output>>
           ELSE /\ output' = [output EXCEPT ![s] = @ + k]
                /\ held' = [held EXCEPT ![s] = @ + n - k]
                /\ UNCHANGED reader
  BY <1>1
<1>3. /\ reader[s] = "reading"
      /\ UNCHANGED <<caller, child, target, background, sent, main>>
  BY DEF ReadPipe, MayRead, childVars
<1>4. WriterRuns'
  BY <1>3 DEF Counters, WriterRuns
<1>5. /\ n \in Nat /\ k \in Nat /\ n <= pipe[s] /\ k <= held[s] + n
      /\ pipe[s] \in Nat /\ held[s] \in Nat /\ output[s] \in Nat /\ sent[s] \in Nat
  BY DEF Counters
<1>6. sent[s] = pipe[s] + held[s] + output[s]
  BY <1>3 DEF Conservation
<1>7. CASE Exceeds(output[s] + k)
  <2>1. /\ reader' = [reader EXCEPT ![s] = "failed"]
        /\ UNCHANGED <<held, output>>
        /\ pipe' = [pipe EXCEPT ![s] = @ - n]
    BY <1>2, <1>7
  <2>2. Counters'
    BY <1>3, <1>4, <1>5, <2>1 DEF Counters
  <2>3. Conservation'
    BY <1>3, <2>1 DEF Counters, Conservation
  <2>4. sent[s] > Limit
    BY <1>5, <1>6, <1>7, SizesAssumption DEF Exceeds
  <2>5. LimitKept'
    BY <1>3, <2>1, <2>4 DEF Counters, LimitKept
  <2>6. CallerKnows'
    BY <1>3, <2>1, EndKeepsCallerKnows
  <2> QED  BY <2>2, <2>3, <2>5, <2>6
<1>8. CASE ~Exceeds(output[s] + k)
  <2>1. /\ output' = [output EXCEPT ![s] = @ + k]
        /\ held' = [held EXCEPT ![s] = @ + n - k]
        /\ pipe' = [pipe EXCEPT ![s] = @ - n]
        /\ UNCHANGED reader
    BY <1>2, <1>8
  <2>2. Counters'
    BY <1>3, <1>4, <1>5, <2>1 DEF Counters
  <2>3. Conservation'
    BY <1>3, <1>5, <1>6, <2>1 DEF Counters, Conservation
  <2>4. caller = "mcp" => output[s] + k <= Limit
    BY <1>5, <1>8, SizesAssumption DEF Exceeds
  <2>5. LimitKept'
    BY <1>3, <2>1, <2>4 DEF Counters, LimitKept
  <2>6. CallerKnows'
    BY <1>3, <2>1 DEF CallerKnows
  <2> QED  BY <2>2, <2>3, <2>5, <2>6
<1> QED  BY <1>7, <1>8

\* A thread that ends has nothing left to give, or gives up.
LEMMA EndPreserves ==
    ASSUME PipesInv, NEW s \in Streams, EndOfFile(s)
    PROVE  PipesInv'
<1> USE DEF PipesInv
<1>1. /\ reader[s] = "reading" /\ pipe[s] = 0 /\ child = "exited" /\ ~background
      /\ UNCHANGED <<caller, child, target, background, pipe, sent, main>>
  BY DEF EndOfFile, MayRead, NoWriters, childVars
<1>2. WriterRuns'
  BY <1>1 DEF Counters, WriterRuns
<1>3. held[s] \in Nat /\ output[s] \in Nat /\ sent[s] \in Nat
  BY DEF Counters
<1>4. sent[s] = Total(s) /\ Total(s) \in Nat
  BY <1>1, <1>3 DEF Conservation, Total
<1>5. CASE Exceeds(Total(s))
  <2>1. reader' = [reader EXCEPT ![s] = "failed"] /\ UNCHANGED <<held, output>>
    BY <1>5 DEF EndOfFile
  <2>2. Counters'
    BY <1>1, <1>2, <2>1 DEF Counters
  <2>3. Conservation'
    BY <1>1, <2>1 DEF Counters, Conservation
  <2>4. LimitKept'
    BY <1>1, <1>4, <1>5, <2>1 DEF Counters, LimitKept, Exceeds
  <2>5. CallerKnows'
    BY <1>1, <2>1, EndKeepsCallerKnows
  <2> QED  BY <2>2, <2>3, <2>4, <2>5
<1>6. CASE ~Exceeds(Total(s))
  <2>1. /\ reader' = [reader EXCEPT ![s] = "finished"]
        /\ output' = [output EXCEPT ![s] = Total(s)]
        /\ held' = [held EXCEPT ![s] = 0]
    BY <1>6 DEF EndOfFile
  <2>2. Counters'
    BY <1>1, <1>2, <1>4, <2>1 DEF Counters
  <2>3. Conservation'
    BY <1>1, <1>4, <2>1 DEF Counters, Conservation
  <2>4. caller = "mcp" => Total(s) <= Limit
    BY <1>4, <1>6, SizesAssumption DEF Exceeds
  <2>5. LimitKept'
    BY <1>1, <2>1, <2>4 DEF Counters, LimitKept
  <2>6. CallerKnows'
    BY <1>1, <2>1, EndKeepsCallerKnows
  <2> QED  BY <2>2, <2>3, <2>5, <2>6
<1> QED  BY <1>5, <1>6

\* Only the command has a writer that fails.
LEMMA WriterFailsPreserves ==
    ASSUME PipesInv, NEW s \in Streams, WriterFails(s)
    PROVE  PipesInv'
<1> USE DEF PipesInv
<1>1. /\ caller = "cli" /\ reader[s] = "reading"
      /\ reader' = [reader EXCEPT ![s] = "failed"]
      /\ UNCHANGED <<caller, child, target, background, pipe, sent, held, output, main>>
  BY DEF WriterFails, MayRead, childVars
<1>2. Counters'
  BY <1>1 DEF Counters, WriterRuns
<1>3. Conservation'
  BY <1>1 DEF Counters, Conservation
<1>4. LimitKept'
  BY <1>1 DEF LimitKept
<1>5. CallerKnows'
  BY <1>1, EndKeepsCallerKnows
<1> QED  BY <1>2, <1>3, <1>4, <1>5

\* The caller goes on only past a thread that has finished.
LEMMA MainPreserves ==
    ASSUME PipesInv, Main
    PROVE  PipesInv'
<1> USE DEF PipesInv
<1>1. UNCHANGED <<caller, child, target, background, pipe, sent, reader, held, output>>
  BY DEF Main, Wait, Join, childVars, readerVars
<1>2. Counters' /\ Conservation' /\ LimitKept'
  BY <1>1 DEF Counters, WriterRuns, Conservation, LimitKept
<1>3. \A s \in Streams : reader[s] \in {"reading", "finished", "failed"}
  BY DEF Counters
<1>4. CASE Wait
  <2>1. main' = "join stdout" /\ reader' = reader
    BY <1>1, <1>4 DEF Wait
  <2> QED  BY <1>2, <2>1 DEF CallerKnows
<1>5. CASE Join("stdout", "join stdout", "join stderr")
  <2>1. \/ reader["stdout"] = "failed" /\ main' = "failed"
        \/ reader["stdout"] = "finished" /\ main' = "join stderr"
    BY <1>3, <1>5, TwoStreams DEF Join
  <2> QED  BY <1>1, <1>2, <2>1, TwoStreams DEF CallerKnows
<1>6. CASE Join("stderr", "join stderr", "returned")
  <2>1. \/ reader["stderr"] = "failed" /\ main' = "failed"
        \/ reader["stderr"] = "finished" /\ main' = "returned"
    BY <1>3, <1>6, TwoStreams DEF Join
  <2>2. main = "join stderr"
    BY <1>6 DEF Join
  <2>3. reader["stdout"] = "finished"
    BY <2>2 DEF CallerKnows
  <2>4. \A s \in Streams : s = "stdout" \/ s = "stderr"
    BY DEF Streams
  <2> QED  BY <1>1, <1>2, <2>1, <2>3, <2>4, TwoStreams DEF CallerKnows
<1> QED  BY <1>4, <1>5, <1>6 DEF Main

\* The invariant holds throughout every behaviour.
THEOREM PipesInvariant == ExecSpec => []PipesInv
<1>1. PipesInv /\ [ExecNext]_execVars => PipesInv'
  <2> SUFFICES ASSUME PipesInv, [ExecNext]_execVars PROVE PipesInv'
    OBVIOUS
  <2>1. CASE Write \/ BrokenPipe \/ Exit \/ BackgroundEnds
    <3>1. "stdout" \in Streams
      BY DEF Streams
    <3> QED  BY <2>1, <3>1, ChildPreserves
  <2>2. CASE Main
    BY <2>2, MainPreserves
  <2>3. ASSUME NEW s \in Streams,
               StartWrite(s) \/ BackgroundWrites(s)
               \/ ReadPipe(s) \/ EndOfFile(s) \/ WriterFails(s)
        PROVE  PipesInv'
    BY <2>3, ChildPreserves, ReadPreserves, EndPreserves, WriterFailsPreserves
  <2>4. CASE UNCHANGED execVars
    BY <2>4 DEF execVars, childVars, readerVars, PipesInv, Counters, WriterRuns,
                Conservation, LimitKept, CallerKnows
  <2> QED  BY <2>1, <2>2, <2>3, <2>4 DEF ExecNext
<1> QED  BY <1>1, PipesAreEmpty, PTL DEF ExecSpec

\* A call of exec that succeeds has returned all that either stream accepted,
\* and nobody is left to write more: for every capacity and limit.
THEOREM NothingIsLost == ExecSpec => []ResultIsComplete
<1>1. PipesInv => ResultIsComplete
  <2> SUFFICES ASSUME PipesInv, main = "returned"
               PROVE  output = sent /\ child = "exited" /\ ~background
    BY DEF ResultIsComplete
  <2>1. \A s \in Streams : reader[s] = "finished"
    BY DEF PipesInv, CallerKnows
  <2>2. \A s \in Streams : sent[s] = output[s] /\ child = "exited" /\ ~background
    BY <2>1 DEF PipesInv, Conservation
  <2>3. "stdout" \in Streams
    BY DEF Streams
  <2>4. output \in [Streams -> Nat] /\ sent \in [Streams -> Nat]
    BY DEF PipesInv, Counters
  <2>5. output = sent
    BY <2>2, <2>4
  <2> QED  BY <2>2, <2>3, <2>5
<1> QED  BY <1>1, PipesInvariant, PTL

\* The tool fails exactly when a stream is longer than the limit.
THEOREM LimitHolds == ExecSpec => []LimitIsExact
<1>1. PipesInv => LimitIsExact
  <2> SUFFICES ASSUME PipesInv, caller = "mcp"
               PROVE  /\ main = "returned" => \A s \in Streams : sent[s] <= Limit
                      /\ main = "failed" => \E s \in Streams : sent[s] > Limit
    BY DEF LimitIsExact
  <2>1. ASSUME main = "returned", NEW s \in Streams PROVE sent[s] <= Limit
    <3>1. sent[s] = output[s]
      BY <2>1 DEF PipesInv, CallerKnows, Conservation
    <3> QED  BY <3>1 DEF PipesInv, LimitKept
  <2>2. ASSUME main = "failed" PROVE \E s \in Streams : sent[s] > Limit
    BY <2>2 DEF PipesInv, CallerKnows, LimitKept
  <2> QED  BY <2>1, <2>2
<1> QED  BY <1>1, PipesInvariant, PTL
-----------------------------------------------------------------------------
(* The child is never blocked for good *)

\* The child is in write(2) for the stream; the kernel can complete the call,
\* or end it with an error; the thread of the stream has something to do.
InWrite(s) == target = s
HasRoom(s) == pipe[s] < Capacity \/ ReadEndClosed(s)
CanReturn(s) == InWrite(s) /\ HasRoom(s)
HasInput(s) == reader[s] = "reading" /\ (pipe[s] > 0 \/ NoWriters)

\* The weak fairness of FairSpec, with what enables the actions written out: a
\* write that can be completed until it is, and a thread that has input until
\* it takes it, are not left alone forever.
WritesReturn(s) == []<>~CanReturn(s) \/ []<><<Write \/ BrokenPipe>>_execVars
ThreadReads(s) == []<>~HasInput(s) \/ []<><<ReadPipe(s) \/ EndOfFile(s)>>_execVars

\* A pipe holds no more than it can; the child is gone where others go on.
PipesBounded ==
    /\ \A s \in Streams : pipe[s] <= Capacity
    /\ background => child = "exited"

LEMMA PipesStayBounded == ExecSpec => []PipesBounded
<1>1. ExecInit => PipesBounded
  BY SizesAssumption DEF ExecInit, PipesBounded
<1>2. PipesInv /\ PipesBounded /\ [ExecNext]_execVars => PipesBounded'
  <2> SUFFICES ASSUME PipesInv, PipesBounded, [ExecNext]_execVars
               PROVE  PipesBounded'
    OBVIOUS
  <2> USE SizesAssumption DEF PipesInv, Counters, WriterRuns, PipesBounded
  <2>1. CASE Write
    BY <2>1 DEF Write, Accept
  <2>2. CASE BrokenPipe
    BY <2>2 DEF BrokenPipe
  <2>3. CASE Exit \/ BackgroundEnds
    BY <2>3 DEF Exit, BackgroundEnds
  <2>4. CASE Main
    <3>1. UNCHANGED <<pipe, background, child>>
      BY <2>4 DEF Main, Wait, Join, childVars
    <3> QED  BY <3>1
  <2>5. ASSUME NEW s \in Streams, StartWrite(s) PROVE PipesBounded'
    BY <2>5 DEF StartWrite
  <2>6. ASSUME NEW s \in Streams, BackgroundWrites(s) PROVE PipesBounded'
    BY <2>6 DEF BackgroundWrites, Accept
  <2>7. ASSUME NEW s \in Streams, ReadPipe(s) PROVE PipesBounded'
    <3>1. PICK n \in 1..pipe[s] : pipe' = [pipe EXCEPT ![s] = @ - n]
      BY <2>7 DEF ReadPipe
    <3>2. n \in Nat /\ pipe[s] - n <= pipe[s]
      OBVIOUS
    <3> QED  BY <2>7, <3>1, <3>2 DEF ReadPipe, childVars
  <2>8. ASSUME NEW s \in Streams, EndOfFile(s) \/ WriterFails(s) PROVE PipesBounded'
    BY <2>8 DEF EndOfFile, WriterFails, childVars
  <2>9. CASE UNCHANGED execVars
    BY <2>9 DEF execVars
  <2> QED  BY <2>1, <2>2, <2>3, <2>4, <2>5, <2>6, <2>7, <2>8, <2>9 DEF ExecNext
<1> QED  BY <1>1, <1>2, PipesInvariant, PTL DEF ExecSpec

\* While the child is in write(2) nobody but it fills the pipe, and room that
\* there is stays until the call returns; a full pipe is input for its thread.
LEMMA RoomStays ==
    ASSUME PipesInv, PipesBounded, [ExecNext]_execVars, NEW s \in Streams, CanReturn(s)
    PROVE  CanReturn(s)' \/ ~InWrite(s)'
<1> USE SizesAssumption
    DEF PipesInv, Counters, WriterRuns, PipesBounded, CanReturn, InWrite, HasRoom, ReadEndClosed
<1>1. s # "none" /\ child = "running" /\ ~background
  BY DEF Streams
<1>2. CASE Write \/ BrokenPipe \/ Exit
  BY <1>1, <1>2 DEF Write, BrokenPipe, Exit
<1>3. CASE BackgroundEnds \/ Main
  BY <1>3 DEF BackgroundEnds, Main, Wait, Join, childVars, readerVars
<1>4. ASSUME NEW t \in Streams, ReadPipe(t)
      PROVE  CanReturn(s)' \/ ~InWrite(s)'
  <2>1. PICK n \in 1..pipe[t] : pipe' = [pipe EXCEPT ![t] = @ - n]
    BY <1>4 DEF ReadPipe
  <2>2. target' = target /\ (reader[s] # "reading" => reader'[s] # "reading")
    BY <1>4 DEF ReadPipe, MayRead, childVars
  <2>3. pipe'[s] <= pipe[s]
    BY <2>1
  <2>4. pipe'[s] \in Int
    BY <2>1
  <2> QED  BY <2>2, <2>3, <2>4
<1>5. ASSUME NEW t \in Streams, StartWrite(t) \/ BackgroundWrites(t) \/ EndOfFile(t)
                                \/ WriterFails(t)
      PROVE  CanReturn(s)' \/ ~InWrite(s)'
  BY <1>1, <1>5 DEF StartWrite, BackgroundWrites, EndOfFile, WriterFails, MayRead, NoWriters,
                    childVars
<1>6. CASE UNCHANGED execVars
  BY <1>6 DEF execVars
<1> QED  BY <1>2, <1>3, <1>4, <1>5, <1>6 DEF ExecNext

\* A read makes room, or the thread gives up and closes the pipe.
LEMMA ReadingMakesRoom ==
    ASSUME PipesInv, PipesBounded, NEW s \in Streams, InWrite(s), ~HasRoom(s)
    PROVE  /\ HasInput(s)
           /\ ReadPipe(s) \/ EndOfFile(s) => HasRoom(s)'
<1> USE SizesAssumption
    DEF PipesInv, Counters, PipesBounded, InWrite, HasRoom, ReadEndClosed
<1>1. HasInput(s)
  BY DEF HasInput
<1>2. ASSUME ReadPipe(s) PROVE HasRoom(s)'
  <2>1. PICK n \in 1..pipe[s] : pipe' = [pipe EXCEPT ![s] = @ - n]
    BY <1>2 DEF ReadPipe
  <2> QED  BY <2>1
<1>3. ASSUME EndOfFile(s) PROVE HasRoom(s)'
  BY <1>3 DEF EndOfFile
<1> QED  BY <1>1, <1>2, <1>3

\* Room is made where there is none, and is used where there is some.
LEMMA WriteReturns ==
    ASSUME NEW s \in Streams
    PROVE  ExecSpec /\ WritesReturn(s) /\ ThreadReads(s) => (target = s ~> target # s)
<1>1. PipesInv /\ PipesBounded /\ [ExecNext]_execVars
          => (CanReturn(s) => CanReturn(s)' \/ ~InWrite(s)')
  BY RoomStays
<1>2. CanReturn(s) /\ <<Write \/ BrokenPipe>>_execVars => ~InWrite(s)'
  BY DEF CanReturn, InWrite, Write, BrokenPipe, Streams
<1>3. PipesInv /\ PipesBounded => (InWrite(s) /\ ~HasRoom(s) => HasInput(s))
  BY ReadingMakesRoom
<1>4. PipesInv /\ PipesBounded =>
          (InWrite(s) /\ ~HasRoom(s) /\ <<ReadPipe(s) \/ EndOfFile(s)>>_execVars => HasRoom(s)')
  BY ReadingMakesRoom
<1>5. CanReturn(s) <=> InWrite(s) /\ HasRoom(s)
  BY DEF CanReturn
<1>6. (InWrite(s) <=> target = s) /\ (~InWrite(s) <=> target # s)
  BY DEF InWrite
<1> QED
  BY <1>1, <1>2, <1>3, <1>4, <1>5, <1>6, PipesInvariant, PipesStayBounded, PTL
     DEF ExecSpec, WritesReturn, ThreadReads

\* Whatever the child writes, it is never blocked for good, for pipes of any
\* capacity, any limit and any number of writes, although the caller waits for
\* the child before it looks at the threads: each stream has a thread of its
\* own, which reads until the end or closes its pipe when it gives up.
THEOREM WritesAlwaysReturn ==
    ExecSpec /\ (\A s \in Streams : WritesReturn(s) /\ ThreadReads(s)) => ChildIsNeverStuck
BY WriteReturns DEF ChildIsNeverStuck
=============================================================================
