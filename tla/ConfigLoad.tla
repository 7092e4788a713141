----------------------------- MODULE ConfigLoad -----------------------------
(***************************************************************************)
(* Loading a configuration, from the files on disk to the services that     *)
(* are started: load() of load.rs, validate_raw of validation.rs,           *)
(* plan_stack and with_dependents of runtime/plan.rs, one step each.  What   *)
(* the daemon's commands do first of all is this and DaemonPaths:            *)
(* setup() of cli/commands/daemon.rs.                                        *)
(***************************************************************************)
EXTENDS ConfigFiles, ConfigValidation, CycleSearch, DaemonPaths

CONSTANTS
    Cases,          \* families of [disk, vars]: what is on disk, and the process environment
    Selections,     \* [services, profiles]: what a command line asks for
    Stopped,        \* sets of services that were stopped by hand
    Here            \* the situations of commands, on a file system of their own

\* What can be on disk: a path leads to a file and is in a directory, an include names
\* paths, and a service is what raw.rs says.
IsDisk(d) ==
    /\ d.root \in DOMAIN d.is
    /\ \A p \in DOMAIN d.is : d.is[p] \in DOMAIN d.files /\ d.dir[p] \in d.dirs
    /\ IsFiniteSet(DOMAIN d.files)
    /\ \A f \in DOMAIN d.files :
          /\ d.files[f].kind \in {"toml", "garbled", "absent"}
          /\ d.files[f].include \in Seq(DOMAIN d.is)
          /\ DOMAIN d.files[f].services \subseteq Nat \ {0} /\ IsFiniteSet(DOMAIN d.files[f].services)
          /\ \A n \in DOMAIN d.files[f].services : IsRawService(d.files[f].services[n])
    /\ IsRawProject(d.project)
    /\ \A x \in DOMAIN d.tree : d.tree[x] \in STRING
    /\ \A x \in DOMAIN d.envs : d.envs[x] \in Seq(EnvLines)

\* Where a command can be, on a file system of which it knows a part: its directory is
\* a real one, and its configuration has been read, so that the path to it resolves; a
\* bare file name has the empty path.
Situated(fs, here) ==
    /\ here.cwd \in DOMAIN fs.real /\ fs.real[here.cwd] = here.cwd
    /\ \A i \in DOMAIN here.cwd : here.cwd[i] \notin {".", ".."}
    /\ here.cwd \in Seq(ToSet(here.cwd)) /\ here.parent.parts \in Seq(ToSet(here.parent.parts))
    /\ here.parent.absolute \in BOOLEAN
    /\ \/ here.parent.parts = <<>> /\ ~here.parent.absolute
       \/ Resolves(fs, here.cwd, here.parent)

\* Of every real path it is known what it is; the root's has no length.
IsFileSystem(fs) ==
    /\ \A p \in DOMAIN fs.real : fs.real[p] \in DOMAIN fs.stat
    /\ \A p \in DOMAIN fs.stat : fs.stat[p].len \in Nat /\ (p = <<>> => fs.stat[p].len = 0)

ASSUME LoadAssumption ==
    \A i \in DOMAIN Cases : \A c \in Cases[i] :
        /\ IsDisk(c.disk)
        /\ c.vars \in [DOMAIN c.vars -> STRING]
        /\ DOMAIN c.vars \subseteq STRING /\ IsFiniteSet(DOMAIN c.vars)
        /\ c.disk.fs # <<>> => IsFileSystem(c.disk.fs) /\ \A here \in Here : Situated(c.disk.fs, here)

VARIABLES
    disk, vars,     \* what is being loaded
    pc,             \* how far it has got
    raw,            \* RawConfig
    errors,         \* what load() returns when it refuses
    cycle,          \* the cycle that an error names
    config,         \* the validated services and their start order
    selection, plan, seeds, held,
    paths           \* a command's situation, and where it takes the socket to be

state == <<disk, vars, pc, raw, errors, cycle, config, selection, plan, seeds, held, paths>>

NoConfig    == [services |-> <<>>, order |-> <<>>, warnings |-> {}]
NoSelection == [services |-> {}, profiles |-> {}]

Init ==
    /\ \E i \in DOMAIN Cases : \E c \in Cases[i] : disk = c.disk /\ vars = c.vars
    /\ pc = "read"
    /\ raw = [version |-> 0, project |-> <<>>, services |-> <<>>]
    /\ errors = {} /\ cycle = <<>> /\ config = NoConfig
    /\ selection = NoSelection /\ plan = <<>> /\ seeds = {} /\ held = {}
    /\ paths = <<>>

Refuse(at, what) == pc' = at /\ errors' = what

\* read_to_string, declared_version, from_str.
Read ==
    /\ pc = "read"
    /\ LET root == disk.files[disk.is[disk.root]]
       IN  IF ReadErrors(root) # {} THEN Refuse("unread", ReadErrors(root)) /\ UNCHANGED raw
           ELSE /\ pc' = "merge"
                /\ raw' = [version |-> root.version, project |-> disk.project, services |-> <<>>]
                /\ UNCHANGED errors
    /\ UNCHANGED <<disk, vars, cycle, config, selection, plan, seeds, held, paths>>

\* include::merge.
MergeIncludes ==
    /\ pc = "merge"
    /\ LET loader == Merge(disk, disk.root)
       IN  IF loader.errors # {} THEN Refuse("unmerged", loader.errors) /\ UNCHANGED raw
           ELSE pc' = "expand" /\ raw' = [raw EXCEPT !.services = loader.services] /\ UNCHANGED errors
    /\ UNCHANGED <<disk, vars, cycle, config, selection, plan, seeds, held, paths>>

\* Step 0 of validate_raw, fatal on its own.
Expand ==
    /\ pc = "expand"
    /\ IF ExpandErrors(raw, vars) # {} THEN Refuse("unexpanded", ExpandErrors(raw, vars)) /\ UNCHANGED raw
       ELSE pc' = "validate" /\ raw' = ExpandRaw(raw, vars) /\ UNCHANGED errors
    /\ UNCHANGED <<disk, vars, cycle, config, selection, plan, seeds, held, paths>>

\* Steps 1 to 8.
Validate ==
    /\ pc = "validate"
    /\ IF RawErrors(disk, raw) # {} THEN Refuse("invalid", RawErrors(disk, raw)) /\ UNCHANGED config
       ELSE /\ pc' = "sort"
            /\ config' = [services |-> ValidatedServices(disk, vars, raw), order |-> <<>>,
                          warnings |-> UNION {Warnings(raw, n, raw.services[n]) : n \in DOMAIN raw.services}]
            /\ UNCHANGED errors
    /\ UNCHANGED <<disk, vars, raw, cycle, selection, plan, seeds, held, paths>>

\* Step 9.
Sort ==
    /\ pc = "sort"
    /\ LET graph == DepGraph(config.services)
       IN  IF SortsCompletely(graph)
             THEN /\ pc' = "loaded"
                  /\ config' = [config EXCEPT !.order = Kahn(graph).order]
                  /\ UNCHANGED <<errors, cycle>>
             ELSE /\ Refuse("cyclic", {"DependencyCycle"})
                  /\ cycle' = FindCycle(graph, Remaining(graph))
                  /\ UNCHANGED config
    /\ UNCHANGED <<disk, vars, raw, selection, plan, seeds, held, paths>>

\* The configuration as plan.rs reads it.
Planned == [deps      |-> DepGraph(config.services),
            profiles  |-> [n \in DOMAIN config.services |-> config.services[n].profiles],
            autostart |-> [n \in DOMAIN config.services |-> config.services[n].autostart],
            order     |-> config.order]

Select(sel) ==
    /\ pc = "loaded" /\ disk.fs = <<>>
    /\ selection' = sel
    /\ IF PlanErrors(Planned, sel) # {} THEN Refuse("unplanned", PlanErrors(Planned, sel)) /\ UNCHANGED plan
       ELSE pc' = "planned" /\ plan' = PlanStack(Planned, sel) /\ UNCHANGED errors
    /\ UNCHANGED <<disk, vars, raw, cycle, config, seeds, held, paths>>

\* What a session does not start because it was stopped by hand in an earlier one.
HoldBack(stopped) ==
    /\ pc = "planned"
    /\ pc' = "held"
    /\ seeds' = stopped
    /\ held' = WithDependents(Planned, plan, stopped)
    /\ UNCHANGED <<disk, vars, raw, errors, cycle, config, selection, plan, paths>>

\* setup(), once the configuration is loaded: a socket that cannot be bound is refused
\* here, with the reasons.
Locate(here) ==
    /\ pc = "loaded" /\ disk.fs # <<>>
    /\ paths' = <<here, ForConfig(disk.fs, here)>>
    /\ IF paths'[2].rejections # 0 THEN Refuse("nowhere", {"SocketPath"})
       ELSE pc' = "located" /\ UNCHANGED errors
    /\ UNCHANGED <<disk, vars, raw, cycle, config, selection, plan, seeds, held>>

Next ==
    \/ Read \/ MergeIncludes \/ Expand \/ Validate \/ Sort
    \/ \E sel \in Selections : Select(sel)
    \/ \E stopped \in Stopped : HoldBack(stopped)
    \/ \E here \in Here : Locate(here)

Spec == Init /\ [][Next]_state

-----------------------------------------------------------------------------
(* Includes. *)

Root == disk.is[disk.root]

IncludedBy(f) == {disk.is[disk.files[f].include[i]] : i \in DOMAIN disk.files[f].include}

\* The files that belong to the configuration, whatever order they are visited in.
Closure ==
    CHOOSE S \in SUBSET DOMAIN disk.files :
        /\ Root \in S /\ \A f \in S : IncludedBy(f) \subseteq S
        /\ \A T \in SUBSET S : (Root \in T /\ \A f \in T : IncludedBy(f) \subseteq T) => T = S

\* The include entries that lead to a file.
EntriesTo(f) ==
    {e \in UNION {{g} \X DOMAIN disk.files[g].include : g \in Closure} :
        disk.is[disk.files[e[1]].include[e[2]]] = f}

IsFragment(f) ==
    LET x == disk.files[f] IN x.kind = "toml" /\ ~x.unknown /\ x.version = 0 /\ ~x.project

\* "Merging is not overriding: two files declaring the same service is an error"
\* (include.rs): a configuration is put together exactly when its includes form a tree of
\* fragments that declare different services; then no service is missing, none is
\* added, and each remembers the file that declares it.
IncludesAreExact ==
    LET tree == /\ \A f \in Closure :
                       /\ Cardinality(EntriesTo(f)) = IF f = Root THEN 0 ELSE 1
                       /\ f # Root => IsFragment(f)
                       /\ \A g \in Closure \ {f} :
                              DOMAIN disk.files[f].services \cap DOMAIN disk.files[g].services = {}
    IN  /\ pc = "expand" =>
             /\ tree
             /\ DOMAIN raw.services = UNION {DOMAIN disk.files[f].services : f \in Closure}
             /\ \A n \in DOMAIN raw.services :
                    n \in DOMAIN disk.files[disk.is[raw.services[n].origin]].services
        /\ pc = "unmerged" => ~tree

-----------------------------------------------------------------------------
(* Values. *)

\* Every value that the files hold, with the place it stands in.
Places(project, services) ==
    LET tables == {<<0, project>>} \cup {<<n, services[n]>> : n \in DOMAIN services}
    IN  UNION {{<<t[1], "text", f, 0>> : f \in DOMAIN t[2].texts}
               \cup (UNION {{<<t[1], "list", f, i>> : i \in DOMAIN t[2].lists[f]} : f \in DOMAIN t[2].lists})
               \cup {<<t[1], "env", k, 0>> : k \in DOMAIN t[2].env} : t \in tables}

ValueAt(project, services, p) ==
    LET t == IF p[1] = 0 THEN project ELSE services[p[1]]
    IN  CASE p[2] = "text" -> t.texts[p[3]]
          [] p[2] = "list" -> t.lists[p[3]][p[4]]
          [] OTHER         -> t.env[p[3]]

\* The services as their files declare them.
Source(n) == disk.files[CHOOSE f \in Closure : n \in DOMAIN disk.files[f].services].services[n]

\* The variable of a reference is not "unset", nor "unset or empty".
IsThere(p) == p.of \in DOMAIN vars /\ (p.kind = ":-" => vars[p.of] # "")

\* The pieces that count: the ones in no default of a variable that is there.
Used(pieces) ==
    {k \in DOMAIN pieces : \A i \in 1..(k - 1) : k <= i + pieces[i].span => ~IsThere(pieces[i])}

\* "An error when unset", and the forms that are not in the table.
IsFaulty(value) ==
    \E k \in Used(value.pieces) :
        LET p == value.pieces[k]
        IN  p.kind = "malformed" \/ (p.kind = "plain" /\ p.of \notin DOMAIN vars)

\* A row of the table.
Row(p) ==
    CASE p.kind = "text"           -> p.word
      [] p.kind = "escape"         -> "${"
      [] p.kind = "plain"          -> vars[p.of]
      [] OTHER                     -> IF IsThere(p) THEN vars[p.of] ELSE ""

\* What a value has to become.
Means(value, word) ==
    LET n == Len(value.pieces)
        upTo[k \in 0..n] == IF k = 0 THEN value.word
                            ELSE IF k \in Used(value.pieces) THEN Join(upTo[k - 1], Row(value.pieces[k]))
                            ELSE upTo[k - 1]
    IN  ~IsFaulty(value) /\ word = upTo[n]

\* "An unset variable is an error, not an empty string" and "string fields do not expand
\* by themselves.  Each one needs a line in expand_raw" (subst.rs): in a
\* configuration that is checked and loaded no reference is left, and every value is
\* what the table at the top of subst.rs says it is.  One that is turned down holds a
\* value that needs a variable that is not there, or that is in no form of the table.
ReferencesAreResolved ==
    LET declared == [n \in DOMAIN raw.services |-> Source(n)]
        places   == Places(disk.project, declared)
    IN  /\ pc = "validate" =>
             \A p \in places :
                 LET value == ValueAt(raw.project, raw.services, p)
                 IN  value.pieces = <<>> /\ Means(ValueAt(disk.project, declared, p), value.word)
        /\ pc = "unexpanded" => \E p \in places : IsFaulty(ValueAt(disk.project, declared, p))

\* The assignments that an environment holds, and those that a file and several files do.
AssignmentsOf(env) ==
    LET keys == SetToSeq(DOMAIN env) IN [i \in DOMAIN keys |-> <<keys[i], env[keys[i]]>>]
AssignmentsInFile(lines) ==
    FlattenSeq([i \in DOMAIN lines |->
        IF lines[i].kind = "assign" THEN <<<<lines[i].key, lines[i].value>>>> ELSE <<>>])
AssignmentsIn(dir, files) ==
    FlattenSeq([i \in DOMAIN files |-> AssignmentsInFile(Lines(disk, dir, files[i]))])

\* The assignments that lead to a service's environment, from first to last.
Assignments(n) ==
    LET svc == raw.services[n]
    IN  FlattenSeq(<<AssignmentsOf(vars),
                     AssignmentsIn(disk.dir[disk.root], List(raw.project, "env_file")),
                     AssignmentsOf(Plain(raw.project.env)),
                     AssignmentsIn(disk.dir[svc.origin], List(svc, "env_file")),
                     AssignmentsOf(Plain(svc.env))>>)

\* "Merge environment, later layers override earlier ones" (validation.rs): a service
\* runs with the last value that anybody assigns to a key, and its relative env files
\* are the ones next to the file that declares it.
EnvironmentIsLayered ==
    pc = "loaded" => \A n \in DOMAIN config.services :
        LET env == config.services[n].env
            all == Assignments(n)
        IN  /\ DOMAIN env = {all[i][1] : i \in DOMAIN all}
            /\ \A i \in DOMAIN all :
                   (\A j \in (i + 1)..Len(all) : all[j][1] # all[i][1]) => env[all[i][1]] = all[i][2]

\* A loaded configuration says what its files say: both of the above.
ValuesAreAsWritten == ReferencesAreResolved /\ EnvironmentIsLayered

-----------------------------------------------------------------------------
(* Services. *)

InRange(ms, limits) == \A f \in DOMAIN limits : ms[f] >= limits[f].min /\ ms[f] <= limits[f].max

ServiceIsSound(n, svc) ==
    /\ svc.command # <<>> /\ svc.command[1].word # ""
    /\ svc.cwd \in disk.dirs
    /\ InRange(svc.ms, Limits) /\ svc.ms.restart_max_delay >= svc.ms.restart_delay
    /\ svc.signal \in Signals
    /\ raw.services[n].health => /\ svc.health # None /\ svc.health.retries >= 1
                                 /\ InRange(svc.health.ms, HealthLimits)
                                 /\ (svc.health.probe.kind # "command" => svc.health.probe.port \in Ports)
    /\ raw.services[n].watch => /\ svc.watch # None /\ InRange(svc.watch.ms, WatchLimits)
                                /\ "absent" \notin ToSet(svc.watch.paths)

\* What a dependent waits for can happen.
WaitCanEnd(d) ==
    LET target == config.services[d.on]
    IN  /\ d.condition = "service_healthy" => target.health # None
        /\ d.condition = "service_completed_successfully" => target.restart \in {"never", "on-failure"}

\* The cycle that an error names: each of its services depends on the next, and it ends
\* where it began.
CycleIsReal ==
    LET graph == DepGraph(config.services)
    IN  /\ Len(cycle) > 1 /\ cycle[1] = cycle[Len(cycle)]
        /\ \A i \in 1..(Len(cycle) - 1) : cycle[i + 1] \in ToSet(graph[cycle[i]])

\* "A condition the dependency can never satisfy is a deadlock waiting to happen"
\* (validation.rs): in a loaded configuration every service of the files is there and
\* fit to run, what it waits for exists and can happen, and the start order has every
\* service once, behind everything that it depends on.  One that is refused for a cycle
\* has the cycle that the error names.
LoadedConfigIsSound ==
    /\ pc = "loaded" =>
        /\ DOMAIN config.services = DOMAIN raw.services /\ DOMAIN config.services # {}
        /\ Len(config.order) = Cardinality(DOMAIN config.services)
        /\ ToSet(config.order) = DOMAIN config.services
        /\ \A n \in DOMAIN config.services :
              /\ ServiceIsSound(n, config.services[n])
              /\ \A i \in DOMAIN config.services[n].depends_on :
                    LET d == config.services[n].depends_on[i]
                    IN  /\ d.on \in DOMAIN config.services /\ WaitCanEnd(d)
                        /\ \E a, b \in DOMAIN config.order :
                               a < b /\ config.order[a] = d.on /\ config.order[b] = n
    /\ pc = "cyclic" => CycleIsReal

-----------------------------------------------------------------------------
(* Plans. *)

\* Everything that n needs, itself included: the smallest set closed under depends_on.
Needs(n) ==
    LET closed == {S \in SUBSET DOMAIN config.services :
                      n \in S /\ \A m \in S : Dependencies(Planned, m) \subseteq S}
    IN  {m \in DOMAIN config.services : \A S \in closed : m \in S}

\* "A service can never be started without the services it declares in depends_on" and
\* "whoever leaves a service out has to leave its dependents out too" (plan.rs): a plan
\* has what was asked for and all that it needs, nothing else; held back is exactly who
\* needs a service that was stopped by hand, so what is left of the plan is closed too.
PlanIsExact ==
    /\ pc \in {"planned", "held"} =>
         /\ ToSet(plan) = UNION {Needs(n) : n \in Roots(Planned, selection)}
         /\ \A i \in DOMAIN plan : Dependencies(Planned, plan[i]) \subseteq {plan[j] : j \in 1..(i - 1)}
    /\ pc = "held" => held = {n \in ToSet(plan) : Needs(n) \cap seeds # {}}

-----------------------------------------------------------------------------
(* Paths. *)

\* "Two spellings of one project have to reach the same daemon", and only a directory
\* "this user owns with no group or other bits at all is accepted" (paths.rs): a
\* command that goes on has a socket that can be bound, in the project or where nobody
\* else may look; all commands of the project with the same variables take it to be
\* the same, from whatever directory and by whatever name; no other project's do.
OneSocketPerProject ==
    pc = "located" =>
        LET fs == disk.fs here == paths[1] found == paths[2]
            Project(h) == fs.real[IF h.parent.absolute THEN h.parent.parts ELSE h.cwd \o h.parent.parts]
        IN /\ found.len <= MaxSocketPath
           /\ found.dir # Project(here) =>
                  fs.stat[found.dir].dir /\ fs.stat[found.dir].ours /\ ~fs.stat[found.dir].shared
           /\ \A h \in Here :
                  LET there == ForConfig(fs, h)
                  IN /\ Project(h) # Project(here) => <<there.dir, there.name>> # <<found.dir, found.name>>
                     /\ Project(h) = Project(here) /\ Candidates(h) = Candidates(here) =>
                            <<there.dir, there.name>> = <<found.dir, found.name>>
=============================================================================
