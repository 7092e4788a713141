---------------------------- MODULE ConfigValues ----------------------------
(***************************************************************************)
(* Values of a configuration file: the ${VAR} references in them (subst.rs) *)
(* and the environment they are layered into (envfile.rs, validation.rs).   *)
(*                                                                         *)
(* A value is a word and the pieces that follow it, in the order in which   *)
(* they are written.  A piece is a text, an escape $${, a reference ${V}, a *)
(* reference with a default, ${V:-...} or ${V-...}, or none of the accepted *)
(* forms.  The pieces of a default come after its reference, which says how *)
(* many they are: its span.  A reference that is not closed is malformed,   *)
(* together with all that follows it, and a closing brace that closes no    *)
(* reference is text.                                                       *)
(***************************************************************************)
EXTENDS Integers, Sequences, SequencesExt, FiniteSets

Word(w) == [word |-> w, pieces |-> <<>>]

\* Two words, one after the other.  Strings do make a string: the test is for the proofs.
Join(a, b) == LET both == a \o b IN IF both \in STRING THEN both ELSE a

Set(v, vars) == v \in DOMAIN vars

\* resolve: the variable is taken, and not the default if there is one.
Counts(p, vars) ==
    p.kind \in {"plain", ":-", "-"} /\ Set(p.of, vars) /\ (p.kind = ":-" => vars[p.of] # "")

\* lookup, resolve and split_braced fail.
Fault(p, vars) ==
    IF p.kind = "malformed"                          THEN "InvalidSubstitution"
    ELSE IF p.kind = "plain" /\ ~Set(p.of, vars)     THEN "UndefinedVariable"
    ELSE "none"

\* What is pushed for a piece itself; a default is pushed by its own pieces.
Says(p, vars) ==
    CASE Counts(p, vars)    -> vars[p.of]
      [] p.kind = "text"    -> p.word
      [] p.kind = "escape"  -> "${"
      [] OTHER              -> ""

\* A default is expanded before the variable is looked at.
ReadingDefaultsFirst(so, p, i, vars) ==                            \* mutant
    IF so.fault # "none"                  THEN so
    ELSE IF Fault(p, vars) # "none"       THEN [so EXCEPT !.fault = Fault(p, vars)]
    ELSE IF i <= so.past                  THEN so
    ELSE [fault |-> "none", word |-> Join(so.word, Says(p, vars)),
          past  |-> IF Counts(p, vars) THEN i + p.span ELSE so.past]

\* One piece, the i-th: the first that fails ends it all, and a default that is not
\* needed is passed over, whatever is in it.
Reading(so, p, i, vars) ==
    IF so.fault # "none" \/ i <= so.past  THEN so
    ELSE IF Fault(p, vars) # "none"       THEN [so EXCEPT !.fault = Fault(p, vars)]
    ELSE [fault |-> "none", word |-> Join(so.word, Says(p, vars)),
          past  |-> IF Counts(p, vars) THEN i + p.span ELSE so.past]

\* expand.
Expansion(value, vars) ==
    LET n == Len(value.pieces)
        upTo[i \in 0..n] ==
            IF i = 0 THEN [fault |-> "none", word |-> value.word, past |-> 0]
            ELSE Reading(upTo[i - 1], value.pieces[i], i, vars)
    IN  upTo[n]

SubstErrors(value, svc, field, vars) ==
    LET fault == Expansion(value, vars).fault
    IN  IF fault = "none" THEN {} ELSE {<<fault, svc, field>>}

\* Expander::one: a value that cannot be expanded stays as it is.
Expanded(value, vars) ==
    LET made == Expansion(value, vars) IN IF made.fault # "none" THEN value ELSE Word(made.word)

\* Expander::list and ::map_values.
ExpandedAll(values, vars) == [i \in DOMAIN values |-> Expanded(values[i], vars)]

AllErrors(values, svc, field, vars) ==
    UNION {SubstErrors(values[i], svc, field, vars) : i \in DOMAIN values}

-----------------------------------------------------------------------------
(* Environments: functions from keys to words. *)

NoVars == [k \in {} |-> ""]

\* BTreeMap::extend.
Over(base, top) ==
    [k \in DOMAIN base \cup DOMAIN top |-> IF k \in DOMAIN top THEN top[k] ELSE base[k]]

\* Environments, each on top of those before it: what map.insert and extend make of them.
Layered(envs) ==
    LET upTo[i \in 0..Len(envs)] == IF i = 0 THEN NoVars ELSE Over(upTo[i - 1], envs[i])
    IN  upTo[Len(envs)]

\* envfile::parse: a line is blank, an assignment, or the end of it all.
EnvLines == [kind : {"blank", "syntax"}] \cup [kind : {"assign"}, key : STRING, value : STRING]

ParseFails(lines) == \E i \in DOMAIN lines : lines[i].kind = "syntax"

\* A later assignment wins.
Parsed(lines) ==
    Layered([i \in DOMAIN lines |->
                IF lines[i].kind = "assign" THEN [k \in {lines[i].key} |-> lines[i].value] ELSE NoVars])

\* is_valid_env_key, and the same for a value.  `bad' stands for every other key.
ValidKey(k)   == k # "bad"
ValidValue(w) == w # "nul"

\* Keeps what is valid of an environment.
ValidPart(env) ==
    LET keys == {k \in DOMAIN env : ValidKey(k) /\ ValidValue(env[k])}
    IN  [k \in keys |-> env[k]]

EnvErrors(env, svc) ==
    {<<"InvalidEnvKey", svc, k>> : k \in {x \in DOMAIN env : ~ValidKey(x)}}
    \cup {<<"NulInEnvValue", svc, k>> : k \in {x \in DOMAIN env : ValidKey(x) /\ ~ValidValue(env[x])}}

\* What a path of a configuration file leads to: relative paths start at `dir'.
Resolved(disk, dir, value) ==
    IF <<dir, value.word>> \in DOMAIN disk.tree THEN disk.tree[<<dir, value.word>>] ELSE "absent"

\* The lines of the env file at a path; a file that cannot be read is one that fails.
Lines(disk, dir, value) ==
    LET at == Resolved(disk, dir, value)
    IN  IF at \in DOMAIN disk.envs THEN disk.envs[at] ELSE <<[kind |-> "syntax"]>>

\* load_env_files: each file that can be read and parsed, the later ones on top.
EnvOfFiles(disk, dir, paths) ==
    Layered([i \in DOMAIN paths |->
                LET lines == Lines(disk, dir, paths[i])
                IN  IF ParseFails(lines) THEN NoVars ELSE ValidPart(Parsed(lines))])

EnvFileErrors(disk, dir, paths, svc) ==
    {<<"InvalidEnvFile", svc, paths[i].word>> : i \in
        {j \in DOMAIN paths :
            LET lines == Lines(disk, dir, paths[j])
            IN  ParseFails(lines) \/ ValidPart(Parsed(lines)) # Parsed(lines)}}

MergedEnvFilesLast(vars, projectFiles, project, serviceFiles, service) ==    \* mutant
    Layered(<<vars, project, projectFiles, service, serviceFiles>>)

\* "process -> project env_file -> project env -> service env_file -> service env".
MergedEnv(vars, projectFiles, project, serviceFiles, service) ==
    Layered(<<vars, projectFiles, project, serviceFiles, service>>)
=============================================================================
