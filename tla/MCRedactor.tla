----------------------------- MODULE MCRedactor -----------------------------
(* Inputs of up to six bytes over two letters, and values that are         *)
(* prefixes, suffixes, repetitions and overlaps of each other.             *)
EXTENDS Redactor, SequencesExt

CONSTANT MaxLength

MCInputs == BoundedSeq(Bytes, MaxLength)

MCValueSets ==
    {{}, {<<"a">>}, {<<>>, <<"a", "b">>}, {<<"a">>, <<"a", "b", "b">>},
     {<<"a", "b">>, <<"b", "a">>}, {<<"a", "a">>, <<"a", "a", "b", "b">>},
     {<<"a", "b", "a">>, <<"b", "a", "b", "b">>}, {<<"b">>, <<"b", "b">>, <<"a", "b", "a", "b">>}}
=============================================================================
