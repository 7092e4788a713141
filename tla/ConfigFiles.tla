---------------------------- MODULE ConfigFiles ----------------------------
(***************************************************************************)
(* One configuration in several files (load.rs, include.rs).  A path leads  *)
(* to a file, and two paths may lead to the same one.  A file is absent, is *)
(* not TOML, or has a version (0: none), perhaps a [project], perhaps a key *)
(* that this build does not know, the paths that it includes, and services. *)
(***************************************************************************)
EXTENDS Integers, Sequences, SequencesExt, FiniteSets

SupportedVersion == 1

-----------------------------------------------------------------------------
(* load(), up to the merge: the version is looked at before anything else   *)
(* that the file holds.                                                     *)

ReadErrors(root) ==
    IF root.kind = "absent"                                 THEN {"Read"}
    ELSE IF root.kind = "garbled"                           THEN {"Parse"}
    ELSE IF root.version \notin {0, SupportedVersion}       THEN {"UnsupportedVersion"}
    ELSE IF root.version = 0 \/ root.unknown \/ ~root.project THEN {"Parse"}
    ELSE {}

-----------------------------------------------------------------------------
(* include.rs: Loader. *)

Fail(loader, error) == [loader EXCEPT !.errors = @ \cup {error}]

\* The services of a file, each remembering which file declared it.
Stamped(services, path) == [n \in DOMAIN services |-> [services[n] EXCEPT !.origin = path]]

\* Entry::Vacant and Entry::Occupied: the service that was there first stays.
AddServices(loader, services, path) ==
    LET twice == DOMAIN services \cap DOMAIN loader.services
        all   == DOMAIN services \cup DOMAIN loader.services
    IN  [loader EXCEPT
            !.services = [n \in all |-> IF n \in DOMAIN loader.services THEN loader.services[n]
                                        ELSE Stamped(services, path)[n]],
            !.errors   = @ \cup {<<"DuplicateService", n>> : n \in twice}]

NotAFragment(loader, fragment) ==
    [loader EXCEPT !.errors = @
        \cup (IF fragment.version # 0 THEN {<<"IncludeNotAFragment", "version">>} ELSE {})
        \cup (IF fragment.project THEN {<<"IncludeNotAFragment", "project">>} ELSE {})]

\* The file at the path is one that is being read right now.
OnChain(loader, disk, path) == \E i \in DOMAIN loader.chain : loader.chain[i] = disk.is[path]

MergedNever(loader, disk, path) == FALSE                         \* mutant

AlreadyMerged(loader, disk, path) == disk.is[path] \in loader.merged

\* Loader::one: merge one included file, then whatever it includes in turn.  `todo' has
\* the paths that are left of each include list under way, the innermost last, so that
\* it is as long as the chain of the files that are being read.
One(disk, loader, path) ==
    LET id       == disk.is[path]
        fragment == disk.files[id]
        merged   == [loader EXCEPT !.merged = @ \cup {id}]
        added    == AddServices(NotAFragment(merged, fragment), fragment.services, path)
    IN  IF OnChain(loader, disk, path)            THEN Fail(loader, <<"IncludeCycle", path>>)
        ELSE IF AlreadyMerged(loader, disk, path) THEN Fail(loader, <<"IncludeTwice", path>>)
        ELSE IF fragment.kind = "absent"          THEN Fail(loader, <<"IncludeRead", path>>)
        ELSE IF fragment.kind = "garbled" \/ fragment.unknown
                                                  THEN Fail(loader, <<"Parse", path>>)
        ELSE [added EXCEPT !.chain = Append(@, id), !.todo = Append(@, fragment.include)]

\* Loader::include: the next path of the innermost list, or the return to the file
\* that it was included by.
IncludeNext(disk, loader) ==
    LET paths == Last(loader.todo)
    IN  IF loader.todo = <<>> THEN loader
        ELSE IF paths = <<>> THEN [loader EXCEPT !.chain = Front(@), !.todo = Front(@)]
        ELSE One(disk, [loader EXCEPT !.todo[Len(loader.todo)] = Tail(@)], Head(paths))

\* merge(): every service of the root is stamped before the walk starts.
MergeStart(disk, root) ==
    LET raw == disk.files[disk.is[root]]
    IN  [services |-> Stamped(raw.services, root), chain |-> <<disk.is[root]>>,
         merged |-> {}, errors |-> {}, todo |-> <<raw.include>>]

\* A file is merged at most once, so every include entry is come to at most once and
\* every file left at most once.
Merge(disk, root) ==
    LET entries == UNION {{f} \X DOMAIN disk.files[f].include : f \in DOMAIN disk.files}
        turns   == Cardinality(entries) + Cardinality(DOMAIN disk.files)
        after[t \in 0..turns] == IF t = 0 THEN MergeStart(disk, root) ELSE IncludeNext(disk, after[t - 1])
    IN  after[turns]
=============================================================================
