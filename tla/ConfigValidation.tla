-------------------------- MODULE ConfigValidation --------------------------
(***************************************************************************)
(* validate_raw of validation.rs: the raw model of a configuration, every   *)
(* value of it expanded, becomes the services that the supervisor runs, or  *)
(* a set of errors.                                                         *)
(***************************************************************************)
EXTENDS ConfigFields, Planning

Plain(env) == [k \in DOMAIN env |-> env[k].word]

\* With `include', relative paths belong to the file that declared the service.
ServiceDir(disk, svc) == disk.dir[svc.origin]

-----------------------------------------------------------------------------
(* The loop over the services.                                              *)

\* The first thing that is wrong with the name or the command, which ends the turn
\* of the loop: "none" if the service is looked at in full.
CommandFault(n, svc) ==
    LET command == List(svc, "command")
    IN  IF n \in BadServices                                 THEN "InvalidServiceName"
        ELSE IF command = <<>>                               THEN "EmptyCommand"
        ELSE IF command[1].word = "" \/ Nul(command[1])      THEN "InvalidExecutable"
        ELSE IF \E i \in DOMAIN command : Nul(command[i])    THEN "NulInCommandArg"
        ELSE "none"

\* validate_profiles.
ProfileErrors(svc, n) ==
    {<<"InvalidProfileName", n, p>> : p \in ToSet(svc.profiles) \cap BadNames}
    \cup {<<"DuplicateProfile", n, p>> : p \in
             {q \in ToSet(svc.profiles) \ BadNames :
                 Cardinality({i \in DOMAIN svc.profiles : svc.profiles[i] = q}) > 1}}

Signals == {"term", "int", "quit", "hup"}

DelayErrors(svc, n) ==
    When(Duration(svc, "restart_max_delay") < Duration(svc, "restart_delay"),
         "RestartMaxDelayTooSmall", n, "restart_max_delay")

ServiceErrors(disk, n, svc) ==
    LET dir == ServiceDir(disk, svc)
    IN  IF CommandFault(n, svc) # "none" THEN {<<CommandFault(n, svc), n, "command">>}
        ELSE When(~CwdIsValid(disk, svc, dir), "InvalidCwd", n, "cwd")
             \cup EnvErrors(Plain(svc.env), n)
             \cup EnvFileErrors(disk, dir, List(svc, "env_file"), n)
             \cup DurationErrors(svc, Limits, n)
             \cup When(Text(svc, "shutdown_signal", "term") \notin Signals,
                       "InvalidShutdownSignal", n, "shutdown_signal")
             \cup (IF svc.health THEN HealthErrors(svc, n) ELSE {})
             \cup (IF svc.watch THEN WatchErrors(disk, svc, Cwd(disk, svc, dir), n) ELSE {})
             \cup DelayErrors(svc, n)
             \cup ProfileErrors(svc, n)

\* The service as the supervisor sees it.
Validated(disk, vars, project, n, svc) ==
    LET dir == ServiceDir(disk, svc)
    IN  [command      |-> List(svc, "command"),
         cwd          |-> Cwd(disk, svc, dir),
         env          |-> MergedEnv(vars,
                                    EnvOfFiles(disk, disk.dir[disk.root], List(project, "env_file")),
                                    ValidPart(Plain(project.env)),
                                    EnvOfFiles(disk, dir, List(svc, "env_file")),
                                    ValidPart(Plain(svc.env))),
         depends_on   |-> svc.depends_on,
         profiles     |-> ToSet(svc.profiles) \ BadNames,
         autostart    |-> svc.autostart,
         restart      |-> svc.restart,
         ms           |-> [f \in DOMAIN Limits |-> Duration(svc, f)],
         max_restarts |-> Number(svc, "max_restarts", 10),
         signal       |-> Text(svc, "shutdown_signal", "term"),
         health       |-> IF svc.health THEN HealthCheck(svc, n) ELSE None,
         watch        |-> IF svc.watch THEN WatchSettings(disk, svc, Cwd(disk, svc, dir)) ELSE None,
         log_to_file  |-> svc.logs # "off"]

\* Settings that are accepted and do nothing.
Warnings(raw, n, svc) ==
    (IF svc.restart = "never"
       THEN {<<"RestartSettingsIgnored", n, f>> : f \in
                {"restart_delay", "restart_max_delay", "max_restarts", "stable_after"}
                    \cap (DOMAIN svc.texts \cup DOMAIN svc.numbers)}
            \cup When(svc.health /\ Has(svc, "health.on_unhealthy")
                          /\ Text(svc, "health.on_unhealthy", "") = "restart",
                      "UnhealthyRestartWithoutPolicy", n, "health.on_unhealthy")
       ELSE {})
    \cup When(~raw.project.logs /\ svc.logs = "on", "LogsWithoutProjectLogs", n, "logs")
    \cup When(List(svc, "command")[1].word \notin InPath, "ExecutableNotInPath", n, "command")

-----------------------------------------------------------------------------
(* The checks across services.                                              *)

Conditions == {"", "service_started", "service_healthy", "service_completed_successfully"}

DependencyFaultOfNames(raw, n, i) ==                             \* mutant
    LET d == raw.services[n].depends_on[i]
    IN  IF d.on \notin DOMAIN raw.services THEN "UnknownDependency" ELSE "none"

\* What is wrong with the i-th dependency of n.  A condition that the dependency can
\* never satisfy would leave the dependent waiting for ever.
DependencyFault(raw, n, i) ==
    LET depends == raw.services[n].depends_on
        d       == depends[i]
    IN  IF d.on = n                                    THEN "SelfDependency"
        ELSE IF d.on \notin DOMAIN raw.services        THEN "UnknownDependency"
        ELSE IF \E j \in 1..(i - 1) : depends[j].on = d.on THEN "DuplicateDependency"
        ELSE IF d.condition \notin Conditions          THEN "InvalidDependencyCondition"
        ELSE IF d.condition = "service_healthy" /\ ~raw.services[d.on].health
                                                       THEN "DependencyNotHealthChecked"
        ELSE IF d.condition = "service_completed_successfully"
                /\ raw.services[d.on].restart \in {"always", "unless-stopped"}
                                                       THEN "DependencyNeverCompletes"
        ELSE "none"

DependencyErrors(raw) ==
    {<<DependencyFault(raw, e[1], e[2]), e[1], "depends_on">> : e \in
        {x \in UNION {{n} \X DOMAIN raw.services[n].depends_on : n \in DOMAIN raw.services} :
            DependencyFault(raw, x[1], x[2]) # "none"}}

ProjectErrors(disk, raw) ==
    LET dir == disk.dir[disk.root]
    IN  When(raw.version # 1, "UnsupportedVersion", 0, "version")
        \cup When(raw.project.name \in BadNames, "InvalidProjectName", 0, "name")
        \cup EnvErrors(Plain(raw.project.env), 0)
        \cup EnvFileErrors(disk, dir, List(raw.project, "env_file"), 0)
        \cup (IF raw.project.logs THEN LogsErrors(disk, raw.project, dir) ELSE {})
        \cup When(DOMAIN raw.services = {}, "NoServices", 0, "services")

\* Steps 1 to 7 of validate_raw.
RawErrors(disk, raw) ==
    ProjectErrors(disk, raw)
    \cup (UNION {ServiceErrors(disk, n, raw.services[n]) : n \in DOMAIN raw.services})
    \cup DependencyErrors(raw)

ValidatedServices(disk, vars, raw) ==
    LET names == {n \in DOMAIN raw.services : CommandFault(n, raw.services[n]) = "none"}
    IN  [n \in names |-> Validated(disk, vars, raw.project, n, raw.services[n])]

\* dep_graph.
DepGraph(services) ==
    [n \in DOMAIN services |->
        [i \in DOMAIN services[n].depends_on |-> services[n].depends_on[i].on]]
=============================================================================
