---------------------------- MODULE ConfigFields ----------------------------
(***************************************************************************)
(* The fields of a configuration: which are expanded (subst.rs), what each  *)
(* may hold, and what becomes of it (the field functions of validation.rs). *)
(*                                                                         *)
(* A raw service has the values that its file gives it: `texts' (field to   *)
(* value), `lists' (field to sequence of values), `numbers' (field to       *)
(* number) and `env' hold a field if the file does.  A field of a sub-table *)
(* carries the table's name.  An error is <<kind, service, field>>; service *)
(* 0 is the project.                                                        *)
(***************************************************************************)
EXTENDS ConfigValues

CONSTANTS
    HumanTime,      \* humantime::parse_duration: the words that it accepts -> milliseconds
    Sizes,          \* the words that are whole sizes -> [number, unit], unit a power of 1024
    Addresses,      \* the words that are addresses -> [scheme, user, host, port]
    BadNames,       \* words that validate_name turns down
    BadServices,    \* services whose names it turns down
    InPath,         \* executables found along PATH
    None            \* an optional setting that is not there

\* The values of ConfigValues: only a default has pieces, and all of them are inside
\* the default that it is itself in.
Pieces == [kind : {"text", "escape", "plain", ":-", "-", "malformed"}, of : STRING, word : STRING, span : Nat]

Nested(pieces) ==
    \A i \in DOMAIN pieces :
        /\ i + pieces[i].span <= Len(pieces)
        /\ pieces[i].kind \notin {":-", "-"} => pieces[i].span = 0
        /\ \A j \in (i + 1)..(i + pieces[i].span) : j + pieces[j].span <= i + pieces[i].span

RawValues == {v \in [word : STRING, pieces : Seq(Pieces)] : Nested(v.pieces)}

\* The fields that hold one such value, or a list of them.
RawTexts == {"dir", "max_size", "cwd", "restart_delay", "restart_max_delay", "stable_after",
             "shutdown_signal", "shutdown_timeout", "watch.interval", "watch.debounce",
             "health.http", "health.tcp", "health.interval", "health.timeout",
             "health.start_period", "health.on_unhealthy"}
RawLists == {"env_file", "command", "watch.paths", "watch.ignore", "health.command"}

IsRawTable(t) ==
    /\ DOMAIN t.texts \subseteq RawTexts /\ DOMAIN t.lists \subseteq RawLists
    /\ \A f \in DOMAIN t.texts : t.texts[f] \in RawValues
    /\ \A f \in DOMAIN t.lists : t.lists[f] \in Seq(RawValues)
    /\ DOMAIN t.env \subseteq STRING /\ IsFiniteSet(DOMAIN t.env)
    /\ \A k \in DOMAIN t.env : t.env[k] \in RawValues

\* What serde makes of [project] (RawProject of raw.rs).
IsRawProject(p) ==
    /\ p = [name |-> p.name, texts |-> p.texts, lists |-> p.lists, numbers |-> p.numbers,
            env |-> p.env, logs |-> p.logs]
    /\ IsRawTable(p)

\* What serde makes of one service of a file (RawService of raw.rs).
IsRawService(svc) ==
    /\ svc = [texts |-> svc.texts, lists |-> svc.lists, numbers |-> svc.numbers, env |-> svc.env,
              health |-> svc.health, watch |-> svc.watch, logs |-> svc.logs,
              depends_on |-> svc.depends_on, profiles |-> svc.profiles,
              autostart |-> svc.autostart, restart |-> svc.restart, origin |-> svc.origin]
    /\ IsRawTable(svc)
    /\ \A f \in DOMAIN svc.numbers : svc.numbers[f] \in Nat
    /\ svc.health \in BOOLEAN /\ svc.watch \in BOOLEAN
    /\ svc.depends_on \in Seq([on : Int, condition : STRING])
    /\ svc.restart \in {"never", "on-failure", "always", "unless-stopped"}

-----------------------------------------------------------------------------
(* expand_raw: the fields in which a variable is expanded.                  *)

ServiceTexts == {"cwd", "restart_delay", "restart_max_delay", "stable_after",
                 "shutdown_signal", "shutdown_timeout"}
HealthTexts  == {"health.http", "health.tcp", "health.interval", "health.timeout",
                 "health.start_period", "health.on_unhealthy"}
WatchTexts   == {"watch.interval", "watch.debounce"}
LogsTexts    == {"dir", "max_size"}

ExpandedTexts == ServiceTexts \cup HealthTexts \cup WatchTexts \cup LogsTexts
ExpandedLists == {"command", "env_file", "health.command", "watch.paths", "watch.ignore"}

\* Expander::service, ::health, ::watch and ::logs, on one table with all its fields.
ExpandTable(t, vars) ==
    [t EXCEPT
        !.texts = [f \in DOMAIN @ |-> IF f \in ExpandedTexts THEN Expanded(@[f], vars) ELSE @[f]],
        !.lists = [f \in DOMAIN @ |-> IF f \in ExpandedLists THEN ExpandedAll(@[f], vars) ELSE @[f]],
        !.env   = ExpandedAll(@, vars)]

TableErrors(t, svc, vars) ==
    (UNION {SubstErrors(t.texts[f], svc, f, vars) : f \in DOMAIN t.texts \cap ExpandedTexts})
    \cup (UNION {AllErrors(t.lists[f], svc, f, vars) : f \in DOMAIN t.lists \cap ExpandedLists})
    \cup AllErrors(t.env, svc, "env", vars)

ExpandRaw(raw, vars) ==
    [raw EXCEPT !.project = ExpandTable(@, vars),
                !.services = [n \in DOMAIN @ |-> ExpandTable(@[n], vars)]]

ExpandErrors(raw, vars) ==
    TableErrors(raw.project, 0, vars)
    \cup UNION {TableErrors(raw.services[n], n, vars) : n \in DOMAIN raw.services}

-----------------------------------------------------------------------------
(* Fields. *)

Has(t, f)  == f \in DOMAIN t.texts
Text(t, f, default) == IF Has(t, f) THEN t.texts[f].word ELSE default
List(t, f) == IF f \in DOMAIN t.lists THEN t.lists[f] ELSE <<>>
Number(t, f, default) == IF f \in DOMAIN t.numbers THEN t.numbers[f] ELSE default

Nul(value) == value.word = "nul"

\* Every duration: its default and the range it has to be in, in milliseconds.
Limits ==
    [restart_delay      |-> [default |-> 1000,  min |-> 100,  max |-> 3600000],
     restart_max_delay  |-> [default |-> 30000, min |-> 100,  max |-> 86400000],
     stable_after       |-> [default |-> 60000, min |-> 1000, max |-> 86400000],
     shutdown_timeout   |-> [default |-> 10000, min |-> 100,  max |-> 3600000]]

HealthLimits ==
    [f \in {"health.interval", "health.timeout", "health.start_period"} |->
        IF f = "health.interval"     THEN [default |-> 2000, min |-> 100, max |-> 3600000]
        ELSE IF f = "health.timeout" THEN [default |-> 5000, min |-> 100, max |-> 3600000]
        ELSE                              [default |-> 0,    min |-> 0,   max |-> 86400000]]

WatchLimits ==
    [f \in {"watch.interval", "watch.debounce"} |->
        IF f = "watch.interval"      THEN [default |-> 1000, min |-> 100, max |-> 3600000]
        ELSE                              [default |-> 300,  min |-> 50,  max |-> 3600000]]

AllLimits == Over(Limits, Over(HealthLimits, WatchLimits))

\* parse_duration_field, and the error that makes it fall back to the default.
DurationFault(t, f) ==
    LET word == Text(t, f, "")
    IN  IF ~Has(t, f)                            THEN "none"
        ELSE IF word \notin DOMAIN HumanTime     THEN "InvalidDuration"
        ELSE IF HumanTime[word] < AllLimits[f].min \/ HumanTime[word] > AllLimits[f].max
                                                 THEN "DurationOutOfRange"
        ELSE "none"

Duration(t, f) ==
    IF Has(t, f) /\ DurationFault(t, f) = "none"
      THEN HumanTime[Text(t, f, "")] ELSE AllLimits[f].default

DurationErrors(t, limits, n) ==
    {<<DurationFault(t, f), n, f>> : f \in {g \in DOMAIN limits : DurationFault(t, g) # "none"}}

\* An error of this kind if the condition holds.
When(condition, kind, n, field) == IF condition THEN {<<kind, n, field>>} ELSE {}

-----------------------------------------------------------------------------
(* Health checks. *)

Probes == {"health.command", "health.http", "health.tcp"}

Declared(t) == {p \in Probes : p \in IF p = "health.command" THEN DOMAIN t.lists ELSE DOMAIN t.texts}

\* parse_host_port: a port is a u16 other than zero.
Ports == 1..65535

HostAndPort(a) == a.host # "" /\ a.port \in Ports

\* parse_http_url: a port that is not there is 80.
HttpUrl(a) == a.scheme = "http" /\ ~a.user /\ (HostAndPort(a) \/ (a.host # "" /\ a.port = None))

\* build_probe.
ProbeIsUsable(t, probe) ==
    IF probe = "health.command"
      THEN LET c == t.lists[probe] IN c # <<>> /\ c[1].word # "" /\ \A i \in DOMAIN c : ~Nul(c[i])
      ELSE LET w == t.texts[probe].word
           IN  w \in DOMAIN Addresses
               /\ (IF probe = "health.http" THEN HttpUrl(Addresses[w]) ELSE HostAndPort(Addresses[w]))

Probe(t, probe) ==
    IF probe = "health.command" THEN [kind |-> "command", command |-> t.lists[probe]]
    ELSE LET a == Addresses[t.texts[probe].word]
         IN  [kind |-> probe, host |-> a.host, port |-> IF a.port = None THEN 80 ELSE a.port]

HealthErrors(t, n) ==
    When(Declared(t) = {}, "MissingHealthProbe", n, "health")
    \cup When(Cardinality(Declared(t)) > 1, "ConflictingHealthProbes", n, "health")
    \cup (IF Cardinality(Declared(t)) = 1
            THEN LET p == CHOOSE q \in Declared(t) : TRUE
                 IN  When(~ProbeIsUsable(t, p), "InvalidHealthProbe", n, p)
            ELSE {})
    \cup DurationErrors(t, HealthLimits, n)
    \cup When(Text(t, "health.on_unhealthy", "restart") \notin {"restart", "ignore"},
              "InvalidUnhealthyAction", n, "health.on_unhealthy")
    \cup When(Number(t, "health.retries", 3) = 0, "InvalidHealthRetries", n, "health.retries")

\* validate_health: None when there is no single probe that can be used.
HealthCheck(t, n) ==
    IF \E p \in Probes : Declared(t) = {p} /\ ProbeIsUsable(t, p)
      THEN [probe        |-> Probe(t, CHOOSE p \in Probes : Declared(t) = {p}),
            ms           |-> [f \in DOMAIN HealthLimits |-> Duration(t, f)],
            retries      |-> IF Number(t, "health.retries", 3) = 0 THEN 1
                             ELSE Number(t, "health.retries", 3),
            on_unhealthy |-> IF Text(t, "health.on_unhealthy", "restart") = "ignore"
                               THEN "ignore" ELSE "restart"]
      ELSE None

\* HealthCheck of config.rs.
HealthChecks ==
    [probe        : [kind : {"command"}, command : Seq(RawValues)]
                    \cup [kind : Probes, host : STRING, port : Int],
     ms           : [DOMAIN HealthLimits -> Nat],
     retries      : Nat \ {0},
     on_unhealthy : {"restart", "ignore"}]

-----------------------------------------------------------------------------
(* Directories, watches, log files.  Wherever a path is relative, it starts *)
(* at the directory that is passed.                                         *)

\* resolve_cwd: the directory of the file when the one asked for is not one.
CwdIsValid(disk, t, dir) == Has(t, "cwd") => Resolved(disk, dir, t.texts["cwd"]) \in disk.dirs

Cwd(disk, t, dir) ==
    IF Has(t, "cwd") /\ CwdIsValid(disk, t, dir) THEN Resolved(disk, dir, t.texts["cwd"]) ELSE dir

\* One turn of the loop over the paths: a path that is not there is left out.
Watching(disk, cwd, found, path) ==
    LET at == Resolved(disk, cwd, path)
    IN  IF path.word = "" \/ at = "absent" THEN found ELSE Append(found, at)

WatchPaths(disk, t, cwd) ==
    LET paths == List(t, "watch.paths")
        after[i \in 0..Len(paths)] == IF i = 0 THEN <<>> ELSE Watching(disk, cwd, after[i - 1], paths[i])
    IN  after[Len(paths)]

AlwaysIgnored == <<".git", ".servicrab">>

Ignoring(ignore, word) ==
    IF word = "" \/ word \in ToSet(ignore) THEN ignore ELSE Append(ignore, word)

Ignored(t) ==
    LET words == List(t, "watch.ignore")
        after[i \in 0..Len(words)] == IF i = 0 THEN AlwaysIgnored
                                      ELSE Ignoring(after[i - 1], words[i].word)
    IN  after[Len(words)]

WatchErrors(disk, t, cwd, n) ==
    LET paths == List(t, "watch.paths")
    IN  When(paths = <<>> \/ Len(WatchPaths(disk, t, cwd)) < Len(paths), "InvalidWatch", n, "watch.paths")
        \cup DurationErrors(t, WatchLimits, n)
        \cup When(\E i \in DOMAIN List(t, "watch.ignore") : List(t, "watch.ignore")[i].word = "",
                  "InvalidWatch", n, "watch.ignore")

\* validate_watch.
WatchSettings(disk, t, cwd) ==
    IF WatchPaths(disk, t, cwd) = <<>> THEN None
    ELSE [paths  |-> WatchPaths(disk, t, cwd), ignore |-> Ignored(t),
          ms     |-> [f \in DOMAIN WatchLimits |-> Duration(t, f)]]

\* WatchSettings of config.rs.
Watches == [paths : Seq(STRING), ignore : Seq(ToSet(AlwaysIgnored) \cup STRING), ms : [DOMAIN WatchLimits -> Nat]]

\* parse_size, in units of 1024 * 1024 bytes, a started one counting whole.
Mebibytes(size) ==
    CASE size.unit = 0 -> (size.number + 1048575) \div 1048576
      [] size.unit = 1 -> (size.number + 1023) \div 1024
      [] OTHER         -> size.number * 1024^(size.unit - 2)

SizeIsValid(t) ==
    Has(t, "max_size") =>
        LET w == t.texts["max_size"].word
        IN  /\ w \in DOMAIN Sizes
            /\ Sizes[w].number >= IF Sizes[w].unit = 0 THEN 1024 ELSE 1
            /\ Mebibytes(Sizes[w]) <= 1048576

LogDirIsFile(disk, t, dir) ==
    LET at == Resolved(disk, dir, Word(Text(t, "dir", ".servicrab/logs")))
    IN  at # "absent" /\ at \notin disk.dirs

\* validate_logs: a directory that is a file is reported alone.
LogsErrors(disk, t, dir) ==
    IF LogDirIsFile(disk, t, dir) THEN {<<"InvalidLogDir", 0, "dir">>}
    ELSE When(~SizeIsValid(t), "InvalidSize", 0, "max_size")
         \cup When(Number(t, "max_files", 3) > 100, "InvalidMaxFiles", 0, "max_files")

-----------------------------------------------------------------------------
\* A duration is a number of milliseconds, a port is a number if it is there, and
\* nothing that is there is None.
ASSUME FieldAssumption ==
    /\ \A w \in DOMAIN HumanTime : HumanTime[w] \in Nat
    /\ \A w \in DOMAIN Addresses : Addresses[w].host \in STRING /\ Addresses[w].port \in Int \cup {None}
    /\ None \notin HealthChecks \cup Watches
=============================================================================
