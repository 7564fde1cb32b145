-------------------------------- MODULE Config --------------------------------
(***************************************************************************)
(* The configuration file (apps/rotom-ng/app/config/config.go), the        *)
(* settings that app.go takes from it for each part of the program, and    *)
(* what each part's Validate accepts.                                      *)
(*                                                                         *)
(* Durations are seconds.  An optional value, a pointer in the Go struct,  *)
(* is a set of one element or none; a field that is not in the file has    *)
(* its zero value.                                                         *)
(***************************************************************************)
EXTENDS Integers

\* The levels that Config.Validate knows, and those that ParseSlogLevel does.
validLevels == {"panic", "fatal", "error", "warn", "warning", "info", "debug", "trace"}
SlogLevels == {"trace", "debug", "info", "warn", "warning", "error", "fatal", "panic"}
Formats == {"plain", "json"}

\* What a file may say.
ConfigFile ==
  [readable : BOOLEAN, devicePing : Int, devicePong : Int, controllerPing : Int,
   controllerPong : Int, registrationTimeout : Int, dataTimeout : SUBSET Int,
   profiling : BOOLEAN, jobs : BOOLEAN, disableWorkerStats : BOOLEAN,
   rateLimit : [Enabled : BOOLEAN, MaxSelections : Int, Duration : Int], jobsPath : STRING,
   controllerSecret : STRING, deviceSecret : STRING, httpSecret : STRING, sessionTTL : Int,
   shutdownTimeout : Int, level : STRING, format : STRING]

OrDefault(value, default) == IF value <= 0 THEN default ELSE value
NameOr(name, default) == IF name = "" THEN default ELSE name

\* An unset data timeout gets the default, and a negative one disables it.
DataTimeoutOr(value, default) ==
  IF value = {} THEN {default} ELSE {IF d < 0 THEN 0 ELSE d : d \in value}

\* DeviceListener.setDefaults and ControllerListener.setDefaults
ListenerDefaults(file) ==
  [file EXCEPT !.devicePing = OrDefault(@, 30),
               !.devicePong = OrDefault(@, 30),
               !.controllerPing = OrDefault(@, 30),
               !.controllerPong = OrDefault(@, 30),
               !.registrationTimeout = OrDefault(@, 60),
               !.dataTimeout = DataTimeoutOr(@, 120)]

\* A rate limit that makes no sense is disabled.
RateLimitDefaults(file) ==
  [file.rateLimit EXCEPT !.Enabled =
     @ /\ file.rateLimit.MaxSelections > 0 /\ file.rateLimit.Duration > 0]

SetDefaults(file) ==
  [ListenerDefaults(file) EXCEPT !.shutdownTimeout = OrDefault(@, 5),
                                 !.sessionTTL = OrDefault(@, 86400),
                                 !.level = NameOr(@, "info"),
                                 !.format = NameOr(@, "plain"),
                                 !.rateLimit = RateLimitDefaults(file),
                                 !.jobsPath = NameOr(@, "./jobs")]

\* Config.Validate; the listeners and their addresses are there once defaults are set.
ValidConfig(cfg) == cfg.level \in validLevels /\ cfg.format \in Formats

\* Wrong: defaults are all it takes.
LoadsUnchecked(file) == file.readable

\* LoadFromFile succeeds: the file can be read and parsed, and is valid with its defaults.
Loads(file) == file.readable /\ ValidConfig(SetDefaults(file))

-----------------------------------------------------------------------------
(* The settings of the parts. *)

NoRateLimit == [Enabled |-> FALSE, MaxSelections |-> 0, Duration |-> 0]

\* getSelectorSettings, get...HandlerSettings and the rest, by the name of the part.
SettingsOf(part, cfg) ==
  CASE part = "httpAPI" -> [current |-> cfg]
    [] part = "api" -> [profiling |-> cfg.profiling, jobs |-> cfg.jobs]
    [] part = "connectionManager" -> [disableWorkerStats |-> cfg.disableWorkerStats]
    [] part = "selector" -> IF cfg.rateLimit.Enabled THEN cfg.rateLimit ELSE NoRateLimit
    [] part = "jobs" -> [path |-> cfg.jobsPath]
    [] part \in {"device", "worker"} -> [ping |-> cfg.devicePing, pong |-> cfg.devicePong]
    [] part = "controller" ->
         [ping |-> cfg.controllerPing, pong |-> cfg.controllerPong,
          registration |-> cfg.registrationTimeout,
          data |-> IF cfg.dataTimeout = {} THEN 0 ELSE CHOOSE d \in cfg.dataTimeout : TRUE]
    [] part = "controllerSecret" -> [secret |-> cfg.controllerSecret]
    [] part = "deviceSecret" -> [secret |-> cfg.deviceSecret]
    [] part = "httpSecret" -> [secret |-> cfg.httpSecret]
    [] part = "sessionTTL" -> [ttl |-> cfg.sessionTTL]
    [] part = "shutdownTimeout" -> [timeout |-> cfg.shutdownTimeout]
    [] part = "logLevel" -> [level |-> cfg.level]

\* The Validate of each part's settings; for the log level, ParseSlogLevel.
Accepts(part, settings) ==
  CASE part = "selector" ->
         settings.Enabled => settings.MaxSelections > 0 /\ settings.Duration > 0
    [] part = "jobs" -> settings.path # ""
    [] part \in {"device", "worker"} -> settings.ping > 0 /\ settings.pong > 0
    [] part = "controller" ->
         /\ settings.ping > 0 /\ settings.pong > 0
         /\ settings.registration > 0 /\ settings.data >= 0
    [] part = "logLevel" -> settings.level \in SlogLevels
    [] OTHER -> TRUE
=============================================================================
