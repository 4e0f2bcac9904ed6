----------------------------- MODULE EnvImport ------------------------------
(***************************************************************************)
(* vaultick secret set --env-file: the one command of several library      *)
(* calls.  It parses the file, lists the keys of the workspace once,       *)
(* checks for conflicts, and then sets one entry after the other, while    *)
(* other processes do the same or change the workspace.  A library call is *)
(* atomic here (CallsAreAtomic of VaultTx).                                *)
(***************************************************************************)
EXTENDS Naturals, Sequences, SequencesExt

CONSTANTS
    Procs,
    Keys, Values, NoValue,
    Normal,         \* what a key of the file is trimmed and upper-cased to
    Invalid,        \* a key that is no name of an environment variable
    Files           \* env files: sequences of lines [key, value]

VARIABLES
    workspace,  \* "missing", "bare" (it has no certificate) or "open"
    content,    \* the value of each key in it, or NoValue
    job         \* the import of each process

vars == <<workspace, content, job>>

Idle == [pc |-> "idle"]
Present == {k \in Keys : content[k] # NoValue}

Init ==
    /\ workspace \in {"missing", "bare", "open"}
    /\ content \in [Keys -> {NoValue} \cup IF workspace = "open" THEN Values ELSE {}]
    /\ job = [p \in Procs |-> Idle]
-----------------------------------------------------------------------------
(* parse_env_file *)

NormalizeKey(raw) == Normal[raw]

Entry(line) == [key |-> NormalizeKey(line.key), value |-> line.value]

\* Mutant: the first of several lines for a key wins.
KeepFirst(entries, line) ==
    IF \E e \in ToSet(entries) : e.key = Entry(line).key THEN entries
    ELSE Append(entries, Entry(line))

\* A later line for the same key takes the place of the earlier one.
Upsert(entries, line) ==
    IF \E e \in ToSet(entries) : e.key = Entry(line).key
    THEN [i \in DOMAIN entries |->
             IF entries[i].key = Entry(line).key THEN Entry(line) ELSE entries[i]]
    ELSE Append(entries, Entry(line))

ParseEnvFile(file) ==
    LET parsed[n \in 0..Len(file)] ==
            IF n = 0 THEN <<>> ELSE Upsert(parsed[n - 1], file[n])
    IN  parsed[Len(file)]

Parses(file) == \A line \in ToSet(file) : NormalizeKey(line.key) # Invalid
-----------------------------------------------------------------------------
(* handle_secret, ResolvedSecretSetRequest::EnvFile *)

\* History: somebody else changed the workspace during the import.
Disturbed(j) == IF j.pc = "writing" THEN [j EXCEPT !.disturbed = TRUE] ELSE j

Update(p, j) == job' = [job EXCEPT ![p] = j]

\* Mutant: only the first entry is looked up.
FirstConflicts(entries) == entries # <<>> /\ Head(entries).key \in Present

Conflicts(entries) == \E e \in ToSet(entries) : e.key \in Present

\* Everything up to the first entry: flags, file, list_secrets, conflicts.
Import(p, file, overwrite, skip) ==
    /\ job[p].pc # "writing"
    /\ LET started == [pc |-> "failed", file |-> file, overwrite |-> overwrite,
                       skip |-> skip, existing |-> {}, todo |-> <<>>,
                       wrote |-> {}, disturbed |-> FALSE, cause |-> "none"]
       IN  Update(p,
             IF ~Parses(file) THEN [started EXCEPT !.cause = "parse"]
             ELSE IF overwrite /\ skip THEN [started EXCEPT !.cause = "usage"]
             ELSE IF workspace = "missing" THEN [started EXCEPT !.cause = "workspace"]
             ELSE IF ~overwrite /\ ~skip /\ Conflicts(ParseEnvFile(file))
             THEN [started EXCEPT !.cause = "exists"]
             ELSE [started EXCEPT !.pc = "writing", !.existing = Present,
                                  !.todo = ParseEnvFile(file)])
    /\ UNCHANGED <<workspace, content>>

Failed(p, cause) == [job[p] EXCEPT !.pc = "failed", !.cause = cause]

\* --skip-existing goes by the listing, not by the table.
Skip(p) ==
    /\ job[p].pc = "writing" /\ job[p].todo # <<>>
    /\ job[p].skip /\ Head(job[p].todo).key \in job[p].existing
    /\ UNCHANGED <<workspace, content>>
    /\ Update(p, [job[p] EXCEPT !.todo = Tail(@)])

\* Mutant: the call replaces whatever is there.
AlwaysOverwrites(p) == TRUE

\* The flag is handed on to the library.
Overwrites(p) == job[p].overwrite

\* vaultick.set_secret for the next entry, and its errors.
Set(p) ==
    /\ job[p].pc = "writing" /\ job[p].todo # <<>>
    /\ ~(job[p].skip /\ Head(job[p].todo).key \in job[p].existing)
    /\ LET e == Head(job[p].todo)
       IN  IF workspace # "open" THEN
               Update(p, Failed(p, "workspace")) /\ UNCHANGED content
           ELSE IF e.key \in Present /\ ~Overwrites(p) THEN
               Update(p, Failed(p, "exists")) /\ UNCHANGED content
           ELSE
               /\ content' = [content EXCEPT ![e.key] = e.value]
               /\ job' = [q \in Procs |->
                             IF q = p THEN [job[p] EXCEPT
                                               !.todo = Tail(@),
                                               !.wrote = @ \cup {<<e.key, e.value>>}]
                             ELSE Disturbed(job[q])]
    /\ UNCHANGED workspace

Finish(p) ==
    /\ job[p].pc = "writing" /\ job[p].todo = <<>>
    /\ UNCHANGED <<workspace, content>>
    /\ Update(p, [job[p] EXCEPT !.pc = "done"])
-----------------------------------------------------------------------------
(* Commands of others on the workspace, its certificates and its secrets *)

Other ==
    /\ \/ /\ workspace = "open"
          /\ \E k \in Keys, v \in Values \cup {NoValue} : content' = [content EXCEPT ![k] = v]
          /\ UNCHANGED workspace
       \/ /\ workspace = "missing" /\ workspace' = "bare"
          /\ UNCHANGED content
       \/ /\ workspace = "bare" /\ workspace' = "open"
          /\ UNCHANGED content
       \/ /\ workspace = "open" /\ Present = {} /\ workspace' = "bare"
          /\ UNCHANGED content
       \/ /\ workspace' = "missing"
          /\ content' = [k \in Keys |-> NoValue]
    /\ job' = [q \in Procs |-> Disturbed(job[q])]

Next ==
    \/ Other
    \/ \E p \in Procs :
        \/ \E file \in Files, overwrite, skip \in BOOLEAN : Import(p, file, overwrite, skip)
        \/ Skip(p) \/ Set(p) \/ Finish(p)

Spec == Init /\ [][Next]_vars
-----------------------------------------------------------------------------
(* Properties *)

\* Without --overwrite an import never replaces a value, also one that was
\* set after the keys were listed.
ImportsKeepValues ==
    [][\A p \in Procs :
          job[p].pc = "writing" /\ ~job[p].overwrite =>
              \A w \in job'[p].wrote \ job[p].wrote : content[w[1]] = NoValue]_vars

\* The value of the last line of a key, in the words of the file.
LastValue(file, key) ==
    LET lines == {i \in DOMAIN file : Normal[file[i].key] = key}
    IN  file[CHOOSE i \in lines : \A j \in lines : j <= i].value

\* An import that succeeds has set every key of the file to the value of its
\* last line, except for those that --skip-existing found in the listing.
DoneIsComplete ==
    \A p \in Procs : job[p].pc = "done" =>
        \A key \in {Normal[line.key] : line \in ToSet(job[p].file)} :
            \/ job[p].skip /\ key \in job[p].existing
            \/ <<key, LastValue(job[p].file, key)>> \in job[p].wrote

\* An import that nobody disturbs writes everything or nothing.
UndisturbedIsAllOrNothing ==
    \A p \in Procs :
        job[p].pc = "failed" /\ ~job[p].disturbed => job[p].wrote = {}
=============================================================================
