------------------------------ MODULE Redactor ------------------------------
(***************************************************************************)
(* The streaming Redactor of vaultick-request and the loop that feeds it:  *)
(* chunks arrive, every byte is pushed to the pending bytes, and the flush *)
(* loop moves what it can decide from the pending bytes to the output.     *)
(*                                                                         *)
(* The pending bytes are input[start+1 .. read].  The output is kept as    *)
(* the offsets of the bytes that were copied and the stretches that were   *)
(* replaced by "[REDACTED]"; their order is the order of the offsets.      *)
(***************************************************************************)
EXTENDS Integers, Sequences

CONSTANTS
    Bytes,
    Inputs,         \* what a child process or an upstream may send
    ValueSets       \* the values to redact, one set for each run

ASSUME InputsAssumption == Inputs \subseteq Seq(Bytes)
ASSUME ValuesAssumption == \A values \in ValueSets : values \subseteq Seq(Bytes)

VARIABLES
    input,      \* all that the source will send
    patterns,   \* Redactor::patterns
    pc,         \* "read", "push", "flush", "done" or "failed"
    avail,      \* end of the chunk at hand
    read,       \* bytes pushed
    start,      \* bytes drained
    eof,        \* the source is exhausted
    kept,       \* offsets of the bytes in the output
    cut         \* stretches replaced in the output

vars == <<input, patterns, pc, avail, read, start, eof, kept, cut>>

TypeOK ==
    /\ input \in Inputs
    /\ patterns \subseteq Seq(Bytes) \ {<<>>}
    /\ pc \in {"read", "push", "flush", "done", "failed"}
    /\ avail \in Nat /\ read \in Nat /\ start \in Nat
    /\ start <= read /\ read <= avail /\ avail <= Len(input)
    /\ eof \in BOOLEAN
    /\ kept \subseteq Nat
    /\ cut \subseteq [at : Nat, len : Nat]

\* Redactor::new drops the empty values.  It sorts the others by length, so
\* that a search finds the longest one first.
Init ==
    /\ input \in Inputs
    /\ \E values \in ValueSets : patterns = {v \in values : v # <<>>}
    /\ pc = "read"
    /\ avail = 0 /\ read = 0 /\ start = 0
    /\ eof = FALSE
    /\ kept = {} /\ cut = {}
-----------------------------------------------------------------------------
(* flush_redaction_pending *)

Held == read - start

\* pending.starts_with(p)
Matches(p) ==
    Len(p) <= Held /\ \A k \in 1..Len(p) : input[start + k] = p[k]

\* p.starts_with(pending)
Begins(p) ==
    Held <= Len(p) /\ \A k \in 1..Held : input[start + k] = p[k]

\* Mutant: the values are sorted the other way round.
ShortestMatch(p) == Matches(p) /\ \A q \in patterns : Matches(q) => Len(p) <= Len(q)

\* The first match in the order of Redactor::new.
LongestMatch(p) == Matches(p) /\ \A q \in patterns : Matches(q) => Len(q) <= Len(p)

\* Mutant: what is pending at the end of a chunk is flushed.
LastByte == read = avail

\* Nothing can follow the pending bytes.
LastByteEver == eof

\* Mutant: a candidate of the same length counts as longer.
AsLong(p) == Len(p) >= Held

Longer(p) == Len(p) > Held

WaitingForLongerMatch == ~LastByteEver /\ \E p \in patterns : Longer(p) /\ Begins(p)
WaitingForPartialMatch == ~LastByteEver /\ \E p \in patterns : Begins(p)

\* Mutants: all that is pending is drained, or one byte too many.
DrainAll(p) == read
DrainMore(p) == start + Len(p) + 1

Drain(p) == start + Len(p)

Redact ==
    /\ pc = "flush" /\ Held > 0
    /\ ~WaitingForLongerMatch
    /\ \E p \in patterns :
        /\ LongestMatch(p)
        /\ cut' = cut \cup {[at |-> start, len |-> Len(p)]}
        /\ start' = Drain(p)
    /\ UNCHANGED <<input, patterns, pc, avail, read, eof, kept>>

Keep ==
    /\ pc = "flush" /\ Held > 0
    /\ \A p \in patterns : ~Matches(p)
    /\ ~WaitingForPartialMatch
    /\ kept' = kept \cup {start}
    /\ start' = start + 1
    /\ UNCHANGED <<input, patterns, pc, avail, read, eof, cut>>

\* The loop ends: nothing is pending, or a match may still grow.
Return ==
    /\ pc = "flush"
    /\ \/ Held = 0
       \/ WaitingForLongerMatch /\ \E p \in patterns : Matches(p)
       \/ WaitingForPartialMatch /\ \A p \in patterns : ~Matches(p)
    /\ pc' = IF eof THEN "done" ELSE "push"
    /\ UNCHANGED <<input, patterns, avail, read, start, eof, kept, cut>>
-----------------------------------------------------------------------------
(* redact_chunk, and the loops of stream_redacted_output,                  *)
(* into_redacted_stream and read_redacted_output                           *)

\* The next chunk arrives.
Read ==
    /\ pc = "read"
    /\ \E n \in (read + 1)..Len(input) : avail' = n
    /\ pc' = "push"
    /\ UNCHANGED <<input, patterns, read, start, eof, kept, cut>>

Push ==
    /\ pc = "push"
    /\ IF read < avail THEN read' = read + 1 /\ pc' = "flush"
                       ELSE read' = read /\ pc' = "read"
    /\ UNCHANGED <<input, patterns, avail, start, eof, kept, cut>>

Finish ==
    /\ pc = "read" /\ read = Len(input)
    /\ eof' = TRUE
    /\ pc' = "flush"
    /\ UNCHANGED <<input, patterns, avail, read, start, kept, cut>>

\* The source fails: what is pending is never shown.
Fail ==
    /\ pc = "read"
    /\ pc' = "failed"
    /\ UNCHANGED <<input, patterns, avail, read, start, eof, kept, cut>>

Next == Redact \/ Keep \/ Return \/ Read \/ Push \/ Finish \/ Fail

Spec == Init /\ [][Next]_vars
-----------------------------------------------------------------------------
(* Properties *)

\* The value stands at this offset of the input, whether read yet or not.
OccursAt(p, i) ==
    i + Len(p) <= Len(input) /\ \A k \in 1..Len(p) : input[i + k] = p[k]

\* No value begins at a byte that is copied to the output, wherever the
\* chunks end and however the values overlap or extend each other.
NothingSlipsThrough == \A i \in kept, p \in patterns : ~OccursAt(p, i)

\* What is replaced is a value, and the longest one at its offset.
CutsAreLongest ==
    \A c \in cut :
        /\ \E p \in patterns : OccursAt(p, c.at) /\ Len(p) = c.len
        /\ \A p \in patterns : OccursAt(p, c.at) => Len(p) <= c.len

Covers(c, i) == c.at <= i /\ i < c.at + c.len

\* Every byte that left the pending bytes was copied once or replaced once,
\* and none is lost at the end.  With the two properties above this fixes
\* the output: it is the leftmost-longest replacement of the whole input.
EveryByteOnce ==
    /\ \A i \in kept : i < start /\ \A c \in cut : ~Covers(c, i)
    /\ \A c \in cut : c.at + c.len <= start
    /\ \A c, d \in cut : c = d \/ c.at + c.len <= d.at \/ d.at + d.len <= c.at
    /\ \A i \in 0..(start - 1) : i \in kept \/ \E c \in cut : Covers(c, i)
    /\ pc = "done" => start = Len(input)

\* Output is prompt: while the source is awaited, only a proper beginning of
\* a value is held back, so that a source that fails takes no more with it.
OnlyBeginningsAreHeld ==
    pc \in {"read", "failed"} /\ Held > 0 => \E p \in patterns : Len(p) > Held /\ Begins(p)
=============================================================================
