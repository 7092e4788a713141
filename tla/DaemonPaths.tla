----------------------------- MODULE DaemonPaths -----------------------------
(***************************************************************************)
(* Where a project's daemon has its socket (cli/daemon/paths.rs): next to    *)
(* the configuration, or in the first directory private to this user when     *)
(* that path is too long to bind.                                             *)
(*                                                                         *)
(* A path is absolute or not, and the sequence of its components.  The file    *)
(* system says what a path really is (`real', without those that do not       *)
(* resolve), and of each real path what it is and how long.  `here' is a       *)
(* command's working directory, the directory part of its `--config', and the *)
(* two variables it looks at.                                                 *)
(***************************************************************************)
EXTENDS Integers, SequencesExt

CONSTANTS
    MaxSocketPath,  \* MAX_SOCKET_PATH
    SocketLen,      \* of "/.servicrab/daemon.sock"
    MovedLen,       \* of "/servicrab-", the slug, and ".sock"
    Unset           \* a variable that is not set

ASSUME PathAssumption ==
    {MaxSocketPath, SocketLen, MovedLen} \subseteq Nat /\ SocketLen <= MaxSocketPath

\* External: canonicalize() in a working directory.  An empty path is no path.
Resolves(fs, cwd, path) ==
    /\ path.absolute \/ path.parts # <<>>
    /\ (IF path.absolute THEN path.parts ELSE cwd \o path.parts) \in DOMAIN fs.real
Canonical(fs, cwd, path) == fs.real[IF path.absolute THEN path.parts ELSE cwd \o path.parts]

\* normalize: lexically, `.' and `..' go.
Stepped(out, part) ==
    CASE part = "."            -> out
      [] part = ".."           -> IF out = <<>> THEN out ELSE Front(out)
      [] part \notin {".", ".."} -> Append(out, part)

Normalize(parts) ==
    LET after[i \in 0..Len(parts)] == IF i = 0 THEN <<>> ELSE Stepped(after[i - 1], parts[i])
    IN  after[Len(parts)]

\* The configuration's own directory, as it was spelled.
ProjectDirAsSpelled(fs, here) ==                                   \* mutant
    Normalize(IF here.parent.absolute THEN here.parent.parts ELSE here.cwd \o here.parent.parts)

\* project_dir.
ProjectDir(fs, here) ==
    IF Resolves(fs, here.cwd, here.parent) THEN Canonical(fs, here.cwd, here.parent)
    ELSE IF here.parent.absolute THEN here.parent.parts
    ELSE Normalize(here.cwd \o here.parent.parts)

\* is_private_dir and belongs_to_us_alone, of what the variable really names.
IsPrivateDir(fs, cwd, path) ==
    /\ path.absolute
    /\ Resolves(fs, cwd, path)
    /\ LET meta == fs.stat[Canonical(fs, cwd, path)]
       IN meta.dir /\ meta.ours /\ ~meta.shared

\* candidates: $XDG_RUNTIME_DIR, then the temporary directory.
Candidates(here) == <<here.xdg, here.temp>>

\* A candidate that can hold the socket.
Accepts(fs, here, path) ==
    /\ path # Unset
    /\ IsPrivateDir(fs, here.cwd, path)
    /\ fs.stat[Canonical(fs, here.cwd, path)].len + MovedLen <= MaxSocketPath

\* choose_socket_among: the socket's directory, its name there, its length, and how
\* many candidates were turned down for it to stay where it cannot be bound.  The name
\* of one that has moved is the slug of the project's directory, taken to be its own.
ChooseSocket(fs, here, dir) ==
    LET length == fs.stat[dir].len + SocketLen
        good   == {i \in 1..2 : Accepts(fs, here, Candidates(here)[i])}
        moved  == Canonical(fs, here.cwd, Candidates(here)[Min(good)])
    IN IF length <= MaxSocketPath \/ good = {}
         THEN [dir |-> dir, name |-> <<>>, len |-> length,
               rejections |-> IF length <= MaxSocketPath THEN 0 ELSE 2]
         ELSE [dir |-> moved, name |-> dir, len |-> fs.stat[moved].len + MovedLen, rejections |-> 0]

\* DaemonPaths::for_config.
ForConfig(fs, here) == ChooseSocket(fs, here, ProjectDir(fs, here))
=============================================================================
