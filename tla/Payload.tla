------------------------------ MODULE Payload ------------------------------
(***************************************************************************)
(* Secret payloads: the compression of files (compression.rs), the flags   *)
(* and the variable that choose it, and the columns that record it.  zstd  *)
(* is known by the sizes it makes: bytes are a content, plain or packed.   *)
(***************************************************************************)
EXTENDS Integers

CONSTANTS
    Contents,       \* what files and values hold
    Size,           \* Size[c]: length of c
    Packed,         \* Packed[c]: length of c when zstd has packed it
    NoSize,         \* a NULL in the column original_size
    NoLevel         \* no compression level was given

ASSUME SizesAssumption ==
    /\ Size \in [Contents -> Nat]
    /\ Packed \in [Contents -> Nat]
    /\ NoSize \notin Nat
    /\ NoLevel \notin Int

MinLevel == 1
MaxLevel == 22
DefaultLevel == 10
TagBytes == 16      \* the AES-GCM tag at the end of a ciphertext

Plain(c) == [form |-> "plain", of |-> c]
Zstd(c) == [form |-> "packed", of |-> c]
Bytes == [form : {"plain", "packed"}, of : Contents]
Length(bytes) == IF bytes.form = "plain" THEN Size[bytes.of] ELSE Packed[bytes.of]

\* A payload with its metadata, as it is sent, stored and read back.
Stored == [bytes : Bytes, compression : {"none", "zstd"}, original : Nat \cup {NoSize}]

AsIs(c) == [bytes |-> Plain(c), compression |-> "none", original |-> NoSize]
Compressed(c) == [bytes |-> Zstd(c), compression |-> "zstd", original |-> Size[c]]

ValidLevel(level) == level \in MinLevel..MaxLevel

\* What --compress, --compress-level, --no-compress and the variable
\* VAULTICK_COMPRESSION_LEVEL ask for; empty is an error.  A level given as
\* a flag has been validated by the parser of the arguments.
ResolveCompressionMode(flags, variable) ==
    IF flags.no_compress THEN {[kind |-> "none", level |-> NoLevel]}
    ELSE {[kind |-> IF flags.compress THEN "force" ELSE "try", level |-> l] :
             l \in IF flags.level # NoLevel THEN {flags.level}
                   ELSE IF variable = NoLevel THEN {DefaultLevel}
                   ELSE {v \in {variable} : ValidLevel(v)}}

\* Empty is an error.  Without --compress the smaller form is taken.
PrepareSecretPayload(c, mode) ==
    IF mode.kind = "none" THEN {AsIs(c)}
    ELSE {IF mode.kind = "force" \/ Packed[c] < Size[c] THEN Compressed(c) ELSE AsIs(c) :
             l \in {v \in {mode.level} : ValidLevel(v)}}

\* What a write with explicit metadata must satisfy.
ValidateCompressionMetadata(s) == s.compression = "zstd" <=> s.original # NoSize

\* Empty is an error.  zstd fills a buffer of original_size bytes at most.
DecompressSecretPayload(s) ==
    IF s.compression = "none" THEN {s.bytes}
    ELSE {Plain(b.of) : b \in {x \in {s.bytes} : /\ s.original # NoSize
                                                 /\ x.form = "packed"
                                                 /\ Size[x.of] <= s.original}}

\* original_bytes of a listed secret: what length(ciphertext) or the column
\* original_size say.
StoredBytes(s) == Length(s.bytes) + TagBytes
OriginalBytes(s) ==
    IF s.compression = "zstd" THEN s.original
    ELSE IF StoredBytes(s) < TagBytes THEN 0 ELSE StoredBytes(s) - TagBytes
-----------------------------------------------------------------------------
(* Property *)

\* docs/superpowers/specs: by default get --output returns the original file
\* bytes.  Whatever the mode, a payload that prepare_secret_payload returns
\* is one the library accepts, decompresses to the content it was made of,
\* is listed with that content's size, and is not larger unless forced.
RoundTrips(c, mode) ==
    \A s \in PrepareSecretPayload(c, mode) :
        /\ ValidateCompressionMetadata(s)
        /\ DecompressSecretPayload(s) = {Plain(c)}
        /\ OriginalBytes(s) = Size[c]
        /\ mode.kind # "force" => Length(s.bytes) <= Size[c]
=============================================================================
