------------------------------- MODULE AppProofs -------------------------------
(***************************************************************************)
(* Theorems about the configuration, reloads and the shutdown, for any     *)
(* files, parts, connections and requests.                                 *)
(*                                                                         *)
(* Whatever a configuration file says, if it loads then every part of the  *)
(* program accepts the settings that are taken from it.  So App.Init and   *)
(* reload never stop at a part's Validate, and no PutSettings of a reload  *)
(* that got past validation is refused and only logged.  On this rests     *)
(* that a reload is all or nothing.                                        *)
(***************************************************************************)
EXTENDS App, TLAPS

-----------------------------------------------------------------------------
(* The configuration. *)

\* What the defaults make of the fields that some part has a condition on.
LEMMA DefaultsMakeSense ==
  ASSUME NEW f \in ConfigFile
  PROVE  LET cfg == SetDefaults(f)
         IN  /\ cfg.devicePing > 0 /\ cfg.devicePong > 0
             /\ cfg.controllerPing > 0 /\ cfg.controllerPong > 0
             /\ cfg.registrationTimeout > 0
             /\ cfg.dataTimeout # {} /\ \A d \in cfg.dataTimeout : d \in Nat
             /\ cfg.rateLimit.Enabled =>
                  cfg.rateLimit.MaxSelections > 0 /\ cfg.rateLimit.Duration > 0
             /\ cfg.jobsPath # ""
<1> DEFINE cfg == SetDefaults(f)
<1>1. /\ cfg.devicePing = OrDefault(f.devicePing, 30)
      /\ cfg.devicePong = OrDefault(f.devicePong, 30)
      /\ cfg.controllerPing = OrDefault(f.controllerPing, 30)
      /\ cfg.controllerPong = OrDefault(f.controllerPong, 30)
      /\ cfg.registrationTimeout = OrDefault(f.registrationTimeout, 60)
      /\ cfg.dataTimeout = DataTimeoutOr(f.dataTimeout, 120)
      /\ cfg.rateLimit = RateLimitDefaults(f)
      /\ cfg.jobsPath = NameOr(f.jobsPath, "./jobs")
  BY DEF SetDefaults, ListenerDefaults, ConfigFile
<1>2. \A value \in Int : OrDefault(value, 30) > 0 /\ OrDefault(value, 60) > 0
  BY DEF OrDefault
<1>3. /\ DataTimeoutOr(f.dataTimeout, 120) # {}
      /\ \A d \in DataTimeoutOr(f.dataTimeout, 120) : d \in Nat
  BY DEF DataTimeoutOr, ConfigFile
<1>4. LET rateLimit == RateLimitDefaults(f)
      IN  rateLimit.Enabled => rateLimit.MaxSelections > 0 /\ rateLimit.Duration > 0
  BY DEF RateLimitDefaults, ConfigFile
<1>5. NameOr(f.jobsPath, "./jobs") # ""
  BY DEF NameOr
<1>6. /\ f.devicePing \in Int /\ f.devicePong \in Int /\ f.controllerPing \in Int
      /\ f.controllerPong \in Int /\ f.registrationTimeout \in Int
  BY DEF ConfigFile
<1> HIDE DEF cfg
<1>7. /\ cfg.devicePing > 0 /\ cfg.devicePong > 0
      /\ cfg.controllerPing > 0 /\ cfg.controllerPong > 0
      /\ cfg.registrationTimeout > 0
  <2>1. OrDefault(f.devicePing, 30) > 0 /\ OrDefault(f.devicePong, 30) > 0
    BY <1>2, <1>6
  <2>2. OrDefault(f.controllerPing, 30) > 0 /\ OrDefault(f.controllerPong, 30) > 0
    BY <1>2, <1>6
  <2>3. OrDefault(f.registrationTimeout, 60) > 0
    BY <1>2, <1>6
  <2> QED
    BY <1>1, <2>1, <2>2, <2>3
<1>8. cfg.dataTimeout # {} /\ \A d \in cfg.dataTimeout : d \in Nat
  BY <1>1, <1>3
<1>9. cfg.rateLimit.Enabled => cfg.rateLimit.MaxSelections > 0 /\ cfg.rateLimit.Duration > 0
  BY <1>1, <1>4
<1>10. cfg.jobsPath # ""
  BY <1>1, <1>5
<1> QED
  BY <1>7, <1>8, <1>9, <1>10 DEF cfg

\* A file that loads is accepted by every part: setDefaults and Config.Validate make
\* sure of all that the Validate of a part, and ParseSlogLevel, ask for.
THEOREM LoadedIsAccepted ==
  ASSUME NEW f \in ConfigFile, Loads(f)
  PROVE  \A part \in Validated \cup {"logLevel"} :
           Accepts(part, SettingsOf(part, SetDefaults(f)))
<1> DEFINE cfg == SetDefaults(f)
<1>1. /\ cfg.devicePing > 0 /\ cfg.devicePong > 0
      /\ cfg.controllerPing > 0 /\ cfg.controllerPong > 0
      /\ cfg.registrationTimeout > 0
      /\ cfg.dataTimeout # {} /\ \A d \in cfg.dataTimeout : d \in Nat
      /\ cfg.rateLimit.Enabled => cfg.rateLimit.MaxSelections > 0 /\ cfg.rateLimit.Duration > 0
      /\ cfg.jobsPath # ""
  BY DefaultsMakeSense
<1>2. cfg.level \in SlogLevels
  BY DEF Loads, ValidConfig, validLevels, SlogLevels
<1> HIDE DEF cfg
<1>3. Accepts("selector", SettingsOf("selector", cfg))
  BY <1>1 DEF Accepts, SettingsOf, NoRateLimit
<1>4. Accepts("jobs", SettingsOf("jobs", cfg))
  BY <1>1 DEF Accepts, SettingsOf
<1>5. Accepts("device", SettingsOf("device", cfg)) /\ Accepts("worker", SettingsOf("worker", cfg))
  BY <1>1 DEF Accepts, SettingsOf
<1>6. Accepts("controller", SettingsOf("controller", cfg))
  <2> DEFINE settings == SettingsOf("controller", cfg)
  <2>1. /\ settings.ping = cfg.controllerPing /\ settings.pong = cfg.controllerPong
        /\ settings.registration = cfg.registrationTimeout
        /\ settings.data = CHOOSE d \in cfg.dataTimeout : TRUE
    BY <1>1 DEF SettingsOf
  <2>2. settings.data \in Nat
    BY <1>1, <2>1
  <2> HIDE DEF settings
  <2>3. /\ settings.ping > 0 /\ settings.pong > 0
        /\ settings.registration > 0
    BY <1>1, <2>1
  <2>4. settings.data >= 0
    BY <2>2
  <2>5. Accepts("controller", settings)
    BY <2>3, <2>4, Zenon DEF Accepts
  <2>6. QED
    BY <2>5 DEF settings
<1>7. Accepts("logLevel", SettingsOf("logLevel", cfg))
  BY <1>2 DEF Accepts, SettingsOf
<1>8. /\ Accepts("connectionManager", SettingsOf("connectionManager", cfg))
      /\ Accepts("api", SettingsOf("api", cfg))
      /\ Accepts("httpAPI", SettingsOf("httpAPI", cfg))
  BY DEF Accepts
<1>9. QED
  BY <1>3, <1>4, <1>5, <1>6, <1>7, <1>8 DEF Validated, cfg

\* So a reload is refused only for a file that does not load.
THEOREM OnlyLoadingRefuses == Good = Loadable
<1>1. ASSUME NEW f \in Loadable
      PROVE  AllAccept(SetDefaults(Contents[f]))
  <2>1. Contents[f] \in ConfigFile /\ Loads(Contents[f])
    BY ReloadAssumption DEF Loadable
  <2>2. QED
    BY <2>1, LoadedIsAccepted DEF AllAccept
<1>2. QED
  BY <1>1 DEF Good

-----------------------------------------------------------------------------
(* The inductive invariants. *)

ReloadSteps == {"idle", "applying", "answered"}

\* Who reloads: the goroutine while Run has it, and a request that is being handled; nobody
\* before the parts are made.
ReloadersAreKnown ==
  /\ reloader[Hangup].pc = "applying" => "reload" \in goroutines
  /\ \A r \in Requests : reloader[r].pc = "applying" => request[r] = "handling"
  /\ main = "starting" => goroutines = {} /\ \A r \in Requests : request[r] = "idle"

\* What reload has put, it took from a file that it validated.
AppliesGoodFiles == \A r \in Reloaders : reloader[r].pc = "applying" => reloader[r].file \in Good

\* Reloads that do not overlap come one after the other, and each starts from parts that
\* have the settings of one file.
PartsDone(r) == {Parts[i] : i \in 1..reloader[r].done}

OneAtATime ==
  ~ overlapped =>
    \A r, s \in Reloaders : reloader[r].pc = "applying" /\ reloader[s].pc = "applying" => r = s

HalfWay(r, f) ==
  \A part \in DOMAIN applied :
    Settings[applied[part]][part] =
      Settings[IF part \in PartsDone(r) THEN reloader[r].file ELSE f][part]

StartsFromOneFile ==
  ~ overlapped =>
    \A r \in Reloaders : reloader[r].pc = "applying" => \E f \in Files : HalfWay(r, f)

ReloadInv ==
  /\ RTypeOK /\ ReloadersAreKnown /\ AppliesGoodFiles
  /\ OneAtATime /\ StartsFromOneFile /\ AllOrNothing

HandlerSteps == {"idle", "arrived", "tracked", "running", "done"}

\* The types of what the servers are busy with, and of where shutdown is.
WorkVarsTyped ==
  /\ handler \in [Conns -> [kind : Kinds \cup {"none"}, pc : HandlerSteps]]
  /\ \A x \in Conns : handler[x].pc # "idle" => handler[x].kind \in Kinds
  /\ request \in [Requests -> {"idle", "handling", "answered"}]
  /\ closers \in Nat /\ jobs \in Nat

LifeTyped ==
  /\ waited \in 0..7 /\ shutDown \in BOOLEAN /\ cut \in BOOLEAN
  /\ goroutines \subseteq Servers \cup {"reload", "periodic"}
  /\ main = "starting" => waited = 0

WorkTyped == WorkVarsTyped /\ LifeTyped

\* Each wait that shutdown has behind it stays satisfied, since what it waited for can only
\* come from what an earlier one waited for.
WaitsStayOver ==
  /\ waited >= 1 => shutDown
  /\ ~ cut =>
       /\ waited >= 1 => Active = {}
       /\ waited >= 2 => Tracked("device") = {}
       /\ waited >= 3 => Tracked("worker") = {}
       /\ waited >= 4 => Tracked("controller") = {}
       /\ waited >= 5 => goroutines = {}
       /\ waited >= 6 => closers = 0
       /\ waited = 7 => jobs = 0
  /\ main = "complete" => waited = 7

\* The inductive invariant.
AppInv == ReloadInv /\ WorkTyped /\ WaitsStayOver

-----------------------------------------------------------------------------
(* Reloads. *)

\* What reload applies, every part accepts.
LEMMA GoodIsAccepted ==
  ASSUME NEW f \in Good, NEW part \in PartNames
  PROVE  f \in Files /\ Accepts(part, Settings[f][part])
<1>1. f \in Files /\ f \in Loadable /\ Contents[f] \in ConfigFile /\ Loads(Contents[f])
  BY ReloadAssumption DEF Good, Loadable
<1>2. Settings[f][part] = SettingsOf(part, SetDefaults(Contents[f]))
  BY <1>1 DEF Settings
<1>3. CASE part \in Validated \cup {"logLevel"}
  BY <1>1, <1>2, <1>3, LoadedIsAccepted
<1>4. CASE part \notin Validated \cup {"logLevel"}
  <2>1. /\ part # "selector" /\ part # "jobs" /\ part # "controller" /\ part # "logLevel"
        /\ part \notin {"device", "worker"}
    BY <1>4 DEF Validated
  <2>2. \A settings : Accepts(part, settings) = TRUE
    BY <2>1 DEF Accepts
  <2> QED
    BY <1>1, <2>2
<1> QED
  BY <1>1, <1>3, <1>4

LEMMA PartsFacts ==
  /\ Len(Parts) \in Nat
  /\ DOMAIN Parts = 1..Len(Parts)
  /\ \A i \in 1..Len(Parts) : Parts[i] \in PartNames
  /\ PartNames = {Parts[i] : i \in 1..Len(Parts)}
  /\ Initial \in Files /\ Initial \in Good
<1>1. Parts \in Seq(PartNames) /\ Initial \in Loadable
  BY ReloadAssumption
<1>2. Len(Parts) \in Nat /\ DOMAIN Parts = 1..Len(Parts)
  BY <1>1
<1>3. \A i \in 1..Len(Parts) : Parts[i] \in PartNames
  BY <1>2 DEF PartNames
<1>4. PartNames = {Parts[i] : i \in 1..Len(Parts)}
  BY <1>2 DEF PartNames
<1>5. Initial \in Files /\ Initial \in Good
  BY <1>1, OnlyLoadingRefuses DEF Loadable
<1> QED
  BY <1>2, <1>3, <1>4, <1>5

\* The part of the invariant that is about reloads alone.
ReloadsInv ==
  RTypeOK /\ AppliesGoodFiles /\ OneAtATime /\ StartsFromOneFile /\ AllOrNothing

Reloader == [pc : ReloadSteps, file : Files, done : 0..Len(Parts)]

LEMMA ReloadTypes ==
  ASSUME RTypeOK
  PROVE  /\ file \in Files
         /\ reloader \in [Reloaders -> Reloader]
         /\ DOMAIN applied = {} \/ DOMAIN applied = PartNames
         /\ applied \in [DOMAIN applied -> Files]
         /\ overlapped \in BOOLEAN
<1>1. applied \in [{} -> Files] \/ applied \in [PartNames -> Files]
  BY DEF RTypeOK
<1> QED
  BY <1>1 DEF RTypeOK, Reloader, ReloadSteps

LEMMA ReloadsStart == RInit => ReloadsInv
<1> SUFFICES ASSUME RInit PROVE ReloadsInv
  OBVIOUS
<1>1. \A r \in Reloaders : reloader[r].pc = "idle"
  BY DEF RInit
<1>2. DOMAIN applied = {} /\ applied \in [{} -> Files]
  BY DEF RInit
<1>3. RTypeOK
  <2>1. reloader \in [Reloaders -> [pc : {"idle", "applying", "answered"}, file : Files,
                                    done : 0..Len(Parts)]]
    BY PartsFacts DEF RInit
  <2>2. \A part \in DOMAIN applied : Accepts(part, Settings[applied[part]][part])
    BY <1>2
  <2> QED
    BY <1>2, <2>1, <2>2, PartsFacts DEF RInit, RTypeOK
<1>4. AppliesGoodFiles /\ OneAtATime /\ StartsFromOneFile
  BY <1>1 DEF AppliesGoodFiles, OneAtATime, StartsFromOneFile
<1>5. AllOrNothing
  BY <1>2, <1>3, PartsFacts DEF AllOrNothing, AllHave
<1> QED
  BY <1>3, <1>4, <1>5 DEF ReloadsInv

\* Editing the file and sending a signal concern what is read next.
LEMMA OperatorKeeps ==
  ASSUME ReloadsInv, UNCHANGED <<applied, reloader, overlapped>>,
         file' \in Files, reloadChan' \in BOOLEAN, asked' \in BOOLEAN
  PROVE  ReloadsInv'
<1>1. RTypeOK'
  BY DEF ReloadsInv, RTypeOK
<1>2. AppliesGoodFiles' /\ OneAtATime'
  BY DEF ReloadsInv, AppliesGoodFiles, OneAtATime
<1>3. StartsFromOneFile'
  BY DEF ReloadsInv, StartsFromOneFile, HalfWay, PartsDone
<1>4. AllOrNothing'
  BY <1>1 DEF ReloadsInv, AllOrNothing, AtRest, AllHave
<1> QED
  BY <1>1, <1>2, <1>3, <1>4 DEF ReloadsInv

\* Nobody reloads while the parts are made.
LEMMA MakePartsKeeps ==
  ASSUME ReloadsInv, MakeParts, AtRest
  PROVE  ReloadsInv'
<1>1. applied' = [part \in PartNames |-> Initial]
      /\ UNCHANGED <<file, reloadChan, reloader, asked, overlapped>>
  BY DEF MakeParts
<1>2. RTypeOK'
  <2>1. \A part \in DOMAIN applied' : Accepts(part, Settings[applied'[part]][part])
    BY <1>1, GoodIsAccepted, PartsFacts
  <2>2. applied' \in [PartNames -> Files]
    BY <1>1, PartsFacts
  <2> QED
    BY <1>1, <2>1, <2>2 DEF ReloadsInv, RTypeOK
<1>3. AppliesGoodFiles' /\ OneAtATime' /\ StartsFromOneFile'
  BY <1>1 DEF AppliesGoodFiles, OneAtATime, StartsFromOneFile, AtRest
<1>4. AllOrNothing'
  BY <1>1, <1>2, PartsFacts DEF AllOrNothing, AllHave
<1> QED
  BY <1>2, <1>3, <1>4 DEF ReloadsInv

\* A reload that starts while no other is under way finds parts that agree.
LEMMA ReadKeeps ==
  ASSUME ReloadsInv, NEW r \in Reloaders, ReadAndValidate(r), UNCHANGED <<file, applied, asked>>,
         reloadChan' \in BOOLEAN
  PROVE  ReloadsInv'
<1>1. /\ reloader[r].pc = "idle"
      /\ reloader' = [reloader EXCEPT ![r] =
                       [pc |-> IF file \in Good THEN "applying" ELSE AfterReload(r),
                        file |-> file, done |-> 0]]
      /\ overlapped' = (overlapped \/ (file \in Good /\ ~ AtRest))
  BY DEF ReadAndValidate
<1>2. reloader \in [Reloaders -> Reloader] /\ file \in Files /\ overlapped \in BOOLEAN
  BY ReloadTypes DEF ReloadsInv
<1>3. /\ reloader'[r].pc = IF file \in Good THEN "applying" ELSE AfterReload(r)
      /\ reloader'[r].file = file /\ reloader'[r].done = 0
      /\ \A s \in Reloaders \ {r} : reloader'[s] = reloader[s]
  BY <1>1, <1>2
<1>4. AfterReload(r) \in {"idle", "answered"}
  BY DEF AfterReload
<1>5. RTypeOK'
  <2>1. reloader' \in [Reloaders -> Reloader]
    BY <1>1, <1>2, <1>4, PartsFacts DEF Reloader, ReloadSteps
  <2>2. overlapped' \in BOOLEAN
    BY <1>1, <1>2
  <2> QED
    BY <2>1, <2>2 DEF ReloadsInv, RTypeOK, Reloader, ReloadSteps
<1>6. AppliesGoodFiles'
  BY <1>3, <1>4 DEF ReloadsInv, AppliesGoodFiles
<1>7. CASE file \in Good
  <2>1. reloader'[r].pc = "applying"
    BY <1>3, <1>7
  <2>2. ASSUME ~ overlapped'
        PROVE  AtRest /\ ~ overlapped
    BY <1>1, <1>7, <2>2
  <2>3. OneAtATime'
    BY <1>3, <2>2 DEF OneAtATime, AtRest
  <2>4. StartsFromOneFile'
    <3> SUFFICES ASSUME ~ overlapped', NEW s \in Reloaders, reloader'[s].pc = "applying"
                 PROVE  \E f \in Files : HalfWay(s, f)'
      BY DEF StartsFromOneFile
    <3>1. s = r /\ PartsDone(r)' = {}
      BY <1>3, <2>2 DEF AtRest, PartsDone
    <3>2. PICK f \in Files : AllHave(f)
      BY <2>2 DEF ReloadsInv, AllOrNothing
    <3>3. HalfWay(r, f)'
      BY <3>1, <3>2 DEF HalfWay, AllHave
    <3> QED
      BY <3>1, <3>3
  <2>5. ~ AtRest'
    BY <2>1 DEF AtRest
  <2> QED
    BY <1>5, <1>6, <2>3, <2>4, <2>5 DEF ReloadsInv, AllOrNothing
<1>8. CASE file \notin Good
  <2>1. \A s \in Reloaders : reloader'[s].pc = "applying" => s # r /\ reloader'[s] = reloader[s]
    BY <1>3, <1>4, <1>8
  <2>2. overlapped' <=> overlapped
    BY <1>1, <1>8
  <2>3. OneAtATime'
    BY <2>1, <2>2 DEF ReloadsInv, OneAtATime
  <2>4. StartsFromOneFile'
    BY <2>1, <2>2 DEF ReloadsInv, StartsFromOneFile, HalfWay, PartsDone
  <2>5. AtRest' <=> AtRest
    BY <1>1, <1>3, <2>1 DEF AtRest
  <2>6. AllOrNothing'
    BY <1>5, <2>2, <2>5 DEF ReloadsInv, AllOrNothing, AllHave
  <2> QED
    BY <1>5, <1>6, <2>3, <2>4, <2>6 DEF ReloadsInv
<1> QED
  BY <1>7, <1>8

\* No PutSettings of a reload is refused, so the parts done have the settings of its file.
LEMMA ApplyKeeps ==
  ASSUME ReloadsInv, NEW r \in Reloaders, Apply(r)
  PROVE  ReloadsInv'
<1> DEFINE part == Parts[reloader[r].done + 1]
           from == reloader[r].file
<1>1. /\ reloader[r].pc = "applying" /\ reloader[r].done < Len(Parts)
      /\ reloader' = [reloader EXCEPT ![r].done = reloader[r].done + 1]
      /\ applied' = IF Accepts(part, Settings[from][part])
                    THEN [applied EXCEPT ![part] = from] ELSE applied
      /\ UNCHANGED <<file, reloadChan, asked, overlapped>>
  BY DEF Apply
<1>2. /\ reloader \in [Reloaders -> Reloader]
      /\ DOMAIN applied = {} \/ DOMAIN applied = PartNames
      /\ applied \in [DOMAIN applied -> Files]
  BY ReloadTypes DEF ReloadsInv
<1>3. /\ reloader[r].done \in 0..Len(Parts) /\ reloader[r].file \in Files
      /\ reloader' \in [Reloaders -> Reloader]
      /\ reloader'[r].pc = "applying" /\ reloader'[r].file = from
      /\ reloader'[r].done = reloader[r].done + 1
      /\ \A s \in Reloaders \ {r} : reloader'[s] = reloader[s]
  <2>1. reloader[r] \in Reloader
    BY <1>2
  <2>2. reloader[r].done \in 0..Len(Parts) /\ reloader[r].file \in Files
        /\ reloader[r].pc \in ReloadSteps
    BY <2>1 DEF Reloader
  <2>3. reloader[r].done + 1 \in 0..Len(Parts)
    BY <1>1, <2>2, PartsFacts
  <2>4. /\ reloader' \in [Reloaders -> Reloader]
        /\ reloader'[r].pc = "applying" /\ reloader'[r].file = from
        /\ reloader'[r].done = reloader[r].done + 1
        /\ \A s \in Reloaders \ {r} : reloader'[s] = reloader[s]
    BY <1>1, <1>2, <2>1, <2>3 DEF Reloader
  <2> QED
    BY <2>2, <2>4
<1>4. from \in Good /\ part \in PartNames
  <2>1. reloader[r].done + 1 \in 1..Len(Parts)
    BY <1>1, <1>3, PartsFacts
  <2> QED
    BY <1>1, <2>1, PartsFacts DEF ReloadsInv, AppliesGoodFiles
<1>5. Accepts(part, Settings[from][part])
  BY <1>4, GoodIsAccepted
<1>6. /\ DOMAIN applied' = DOMAIN applied
      /\ applied' \in [DOMAIN applied -> Files]
      /\ \A p \in DOMAIN applied : applied'[p] = IF p = part THEN from ELSE applied[p]
  BY <1>1, <1>2, <1>3, <1>5
<1>7. RTypeOK'
  <2>1. \A p \in DOMAIN applied' : Accepts(p, Settings[applied'[p]][p])
    BY <1>5, <1>6 DEF ReloadsInv, RTypeOK
  <2>2. applied' \in [{} -> Files] \cup [PartNames -> Files]
    BY <1>2, <1>6
  <2> QED
    BY <1>1, <1>3, <2>1, <2>2 DEF ReloadsInv, RTypeOK, Reloader, ReloadSteps
<1>8. AppliesGoodFiles' /\ OneAtATime'
  BY <1>1, <1>3, <1>4 DEF ReloadsInv, AppliesGoodFiles, OneAtATime
<1>9. PartsDone(r)' = PartsDone(r) \cup {part}
  <2>1. 1..(reloader[r].done + 1) = (1..reloader[r].done) \cup {reloader[r].done + 1}
    BY <1>3, PartsFacts
  <2> QED
    BY <1>3, <2>1 DEF PartsDone
<1>10. StartsFromOneFile'
  <2> SUFFICES ASSUME ~ overlapped', NEW s \in Reloaders, reloader'[s].pc = "applying"
               PROVE  \E f \in Files : HalfWay(s, f)'
    BY DEF StartsFromOneFile
  <2>1. s = r
    BY <1>1, <1>3 DEF ReloadsInv, OneAtATime
  <2>2. PICK f \in Files : HalfWay(r, f)
    BY <1>1 DEF ReloadsInv, StartsFromOneFile
  <2>3. HalfWay(r, f)'
    BY <1>3, <1>6, <1>9, <2>2 DEF HalfWay
  <2> QED
    BY <2>1, <2>3
<1>11. AllOrNothing'
  BY <1>3, <1>7 DEF AllOrNothing, AtRest
<1> QED
  BY <1>7, <1>8, <1>10, <1>11 DEF ReloadsInv

\* When all parts are done they have the settings of the file.
LEMMA SucceedKeeps ==
  ASSUME ReloadsInv, NEW r \in Reloaders, Succeed(r)
  PROVE  ReloadsInv'
<1>1. /\ reloader[r].pc = "applying" /\ reloader[r].done = Len(Parts)
      /\ reloader' = [reloader EXCEPT ![r].pc = AfterReload(r)]
      /\ UNCHANGED <<file, applied, reloadChan, asked, overlapped>>
  BY DEF Succeed
<1>2. /\ reloader \in [Reloaders -> Reloader]
      /\ DOMAIN applied = {} \/ DOMAIN applied = PartNames
  BY ReloadTypes DEF ReloadsInv
<1>3. /\ reloader' \in [Reloaders -> Reloader]
      /\ reloader'[r].pc # "applying"
      /\ reloader[r].file \in Files
      /\ \A s \in Reloaders \ {r} : reloader'[s] = reloader[s]
  BY <1>1, <1>2 DEF Reloader, ReloadSteps, AfterReload
<1>4. RTypeOK'
  BY <1>1, <1>3 DEF ReloadsInv, RTypeOK, Reloader, ReloadSteps
<1>5. AppliesGoodFiles' /\ OneAtATime'
  BY <1>1, <1>3 DEF ReloadsInv, AppliesGoodFiles, OneAtATime
<1>6. StartsFromOneFile'
  BY <1>1, <1>3 DEF ReloadsInv, StartsFromOneFile, HalfWay, PartsDone
<1>7. AllOrNothing'
  <2> SUFFICES ASSUME ~ overlapped', AtRest' PROVE \E f \in Files : AllHave(f)'
    BY <1>4 DEF AllOrNothing
  <2>1. PICK f \in Files : HalfWay(r, f)
    BY <1>1 DEF ReloadsInv, StartsFromOneFile
  <2>2. PartsDone(r) = PartNames
    BY <1>1, PartsFacts DEF PartsDone
  <2>3. AllHave(reloader[r].file)
    BY <1>2, <2>1, <2>2 DEF AllHave, HalfWay
  <2>4. \A g : AllHave(g) => AllHave(g)'
    BY <1>1 DEF AllHave
  <2>5. PICK g \in Files : g = reloader[r].file
    BY <1>3
  <2> QED
    BY <2>3, <2>4, <2>5 DEF AllHave
<1> QED
  BY <1>4, <1>5, <1>6, <1>7 DEF ReloadsInv

-----------------------------------------------------------------------------
(* The reloads of the program. *)

LEMMA ReloaderNames ==
  Hangup \in Reloaders /\ Requests \subseteq Reloaders /\ Hangup \notin Requests
BY ReloadAssumption DEF Reloaders

\* A step of no reload, which no reloader is surprised by.
LEMMA ReloadsAlone ==
  ASSUME ReloadInv, UNCHANGED <<file, applied, reloadChan, reloader, asked, overlapped>>,
         ReloadersAreKnown'
  PROVE  ReloadInv'
<1>1. ReloadsInv /\ reloadChan' \in BOOLEAN /\ asked' \in BOOLEAN /\ file' \in Files
  BY DEF ReloadInv, ReloadsInv, RTypeOK
<1>2. ReloadsInv'
  BY <1>1, OperatorKeeps
<1> QED
  BY <1>2 DEF ReloadInv, ReloadsInv

LEMMA ReloadsStep ==
  ASSUME ReloadInv, WorkTyped, AppNext
  PROVE  ReloadInv'
<1> ReloadsInv /\ ReloadersAreKnown
  BY DEF ReloadInv, ReloadsInv
<1>1. /\ file \in Files /\ reloadChan \in BOOLEAN /\ asked \in BOOLEAN
      /\ reloader \in [Reloaders -> Reloader]
      /\ request \in [Requests -> {"idle", "handling", "answered"}]
  BY ReloadTypes DEF ReloadInv, RTypeOK, WorkTyped, WorkVarsTyped
<1>2. ASSUME NEW r \in Reloaders, ReadAndValidate(r) \/ Apply(r) \/ Succeed(r)
      PROVE  \A s \in Reloaders \ {r} : reloader'[s] = reloader[s]
  BY <1>1, <1>2 DEF ReadAndValidate, Apply, Succeed
<1>3. CASE StartUp
  <2>1. /\ main = "starting" /\ main' # "starting"
        /\ goroutines' = Servers \cup {"reload", "periodic"}
        /\ MakeParts /\ UNCHANGED request
    BY <1>3 DEF StartUp, workVars
  <2>2. AtRest
    <3>1. ASSUME NEW r \in Reloaders PROVE reloader[r].pc # "applying"
      <4>1. goroutines = {} /\ \A x \in Requests : request[x] = "idle"
        BY <2>1 DEF ReloadersAreKnown
      <4> QED
        BY <4>1 DEF ReloadersAreKnown, Reloaders
    <3> QED
      BY <3>1 DEF AtRest
  <2>3. ReloadsInv'
    BY <2>1, <2>2, MakePartsKeeps
  <2>4. ReloadersAreKnown'
    BY <2>1, <2>2, ReloaderNames DEF MakeParts, AtRest, ReloadersAreKnown
  <2> QED
    BY <2>3, <2>4 DEF ReloadInv, ReloadsInv
<1>4. CASE FailToStart
  <2>1. ReloadersAreKnown' /\ UNCHANGED <<file, applied, reloadChan, reloader, asked, overlapped>>
    BY <1>4 DEF FailToStart, rVars, workVars, ReloadersAreKnown
  <2> QED
    BY <2>1, ReloadsAlone
<1>5. CASE Work
  <2>1. UNCHANGED <<file, applied, reloadChan, reloader, asked, overlapped>>
        /\ UNCHANGED <<main, goroutines>>
    BY <1>5 DEF Work, rVars, lifeVars
  <2>2. CASE \E r \in Requests : Answer(r)
    <3>1. PICK r \in Requests : Answer(r)
      BY <2>2
    <3>2. /\ request[r] = "handling" /\ reloader[r].pc \in {"idle", "answered"}
          /\ request' = [request EXCEPT ![r] = "answered"]
      BY <3>1 DEF Answer
    <3>3. ReloadersAreKnown'
      BY <1>1, <2>1, <3>2 DEF ReloadersAreKnown
    <3> QED
      BY <2>1, <3>3, ReloadsAlone
  <2>3. CASE ~ \E r \in Requests : Answer(r)
    <3>1. UNCHANGED request
      BY <1>5, <2>3 DEF Work, Track, Upgrade, EndHandler, StartCloser, EndCloser, EndJob
    <3>2. ReloadersAreKnown'
      BY <2>1, <3>1 DEF ReloadersAreKnown
    <3> QED
      BY <2>1, <3>2, ReloadsAlone
  <2> QED
    BY <2>2, <2>3
<1>6. CASE Arrivals
  <2>1. UNCHANGED <<file, applied, reloadChan, reloader, asked, overlapped>>
        /\ UNCHANGED <<main, goroutines>> /\ main # "starting"
    BY <1>6 DEF Arrivals, lifeVars
  <2>2. \A r \in Requests : request[r] = "handling" => request'[r] = "handling"
    BY <1>1, <1>6 DEF Arrivals, Arrive, ArriveRequest
  <2>3. ReloadersAreKnown'
    BY <2>1, <2>2 DEF ReloadersAreKnown
  <2> QED
    BY <2>1, <2>3, ReloadsAlone
<1>7. CASE Life
  <2>1. UNCHANGED <<file, applied, reloadChan, reloader, asked, overlapped>> /\ UNCHANGED request
    BY <1>7 DEF Life, rVars, workVars
  <2>2. main' # "starting" \/ (main' = main /\ goroutines' \subseteq goroutines)
    BY <1>7 DEF Life, BeginShutdown, CallShutdown, TaskReturns, PassWait, Expire, Complete, GiveUp
  <2>3. reloader[Hangup].pc = "applying" /\ "reload" \in goroutines => "reload" \in goroutines'
    BY <1>7 DEF Life, BeginShutdown, CallShutdown, TaskReturns, PassWait, Expire, Complete, GiveUp
  <2>4. ReloadersAreKnown'
    BY <2>1, <2>2, <2>3 DEF ReloadersAreKnown
  <2> QED
    BY <2>1, <2>4, ReloadsAlone
<1>8. CASE Endings
  <2>1. UNCHANGED <<file, applied, reloadChan, reloader, asked, overlapped>> /\ UNCHANGED request
    BY <1>8 DEF Endings, workVars
  <2>2. main' = main /\ goroutines' \subseteq goroutines
        /\ ("reload" \in goroutines => "reload" \in goroutines')
    BY <1>8 DEF Endings, Terminate, ServerReturns, Servers
  <2>3. ReloadersAreKnown'
    BY <2>1, <2>2 DEF ReloadersAreKnown
  <2> QED
    BY <2>1, <2>3, ReloadsAlone
<1>9. CASE Operator
  <2>1. UNCHANGED <<applied, reloader, overlapped>> /\ UNCHANGED <<main, goroutines, request>>
    BY <1>9 DEF Operator, EditFile, SendHangup, lifeVars, workVars
  <2>2. file' \in Files /\ reloadChan' \in BOOLEAN /\ asked' \in BOOLEAN
    BY <1>1, <1>9 DEF Operator, EditFile, SendHangup
  <2>3. ReloadsInv' /\ ReloadersAreKnown'
    BY <2>1, <2>2, OperatorKeeps DEF ReloadersAreKnown
  <2> QED
    BY <2>3 DEF ReloadInv, ReloadsInv
<1>10. CASE HangupReload
  <2>1. /\ ReadAndValidate(Hangup) /\ UNCHANGED <<file, applied, asked>> /\ reloadChan' = FALSE
        /\ "reload" \in goroutines /\ UNCHANGED <<main, goroutines, request>>
    BY <1>10 DEF HangupReload, ReloadOnHangup, lifeVars, workVars
  <2>2. ReloadsInv'
    BY <2>1, ReadKeeps, ReloaderNames
  <2>3. ReloadersAreKnown'
    BY <1>2, <2>1, ReloaderNames DEF ReloadersAreKnown
  <2> QED
    BY <2>2, <2>3 DEF ReloadInv, ReloadsInv
<1>11. CASE \E r \in Requests : RequestReload(r)
  <2>1. PICK r \in Requests :
          /\ ReadAndValidate(r) /\ UNCHANGED <<file, applied, asked, reloadChan>>
          /\ request[r] = "handling" /\ UNCHANGED <<main, goroutines, request>>
    BY <1>11 DEF RequestReload, ReloadOnRequest, lifeVars, workVars
  <2>2. ReloadsInv'
    BY <1>1, <2>1, ReadKeeps, ReloaderNames
  <2>3. ReloadersAreKnown'
    BY <1>2, <2>1, ReloaderNames DEF ReloadersAreKnown
  <2> QED
    BY <2>2, <2>3 DEF ReloadInv, ReloadsInv
<1>12. CASE \E r \in Reloaders : ProceedReload(r)
  <2>1. PICK r \in Reloaders :
          (Apply(r) \/ Succeed(r)) /\ UNCHANGED <<main, goroutines, request>>
    BY <1>12 DEF ProceedReload, lifeVars, workVars
  <2>2. ReloadsInv'
    BY <2>1, ApplyKeeps, SucceedKeeps
  <2>3. reloader[r].pc = "applying"
    BY <2>1 DEF Apply, Succeed
  <2>4. ReloadersAreKnown'
    BY <1>2, <2>1, <2>3, ReloaderNames DEF ReloadersAreKnown
  <2> QED
    BY <2>2, <2>4 DEF ReloadInv, ReloadsInv
<1> QED
  BY <1>3, <1>4, <1>5, <1>6, <1>7, <1>8, <1>9, <1>10, <1>11, <1>12 DEF AppNext

-----------------------------------------------------------------------------
(* The shutdown. *)

LEMMA WorkStarts == AppInit => WorkTyped /\ WaitsStayOver
<1> SUFFICES ASSUME AppInit PROVE WorkTyped /\ WaitsStayOver
  OBVIOUS
<1>1. WorkVarsTyped
  BY DEF AppInit, WorkVarsTyped, HandlerSteps
<1>2. LifeTyped
  <2>1. waited \in 0..7 /\ goroutines \subseteq Servers \cup {"reload", "periodic"}
    BY DEF AppInit
  <2>2. shutDown \in BOOLEAN /\ cut \in BOOLEAN
    BY DEF AppInit
  <2>3. main = "starting" => waited = 0
    BY DEF AppInit
  <2> QED
    BY <2>1, <2>2, <2>3 DEF LifeTyped
<1>3. waited = 0 /\ main = "starting"
  BY DEF AppInit
<1>4. WaitsStayOver
  BY <1>3 DEF WaitsStayOver
<1> QED
  BY <1>1, <1>2, <1>4 DEF WorkTyped

\* What a handler that goes on, a connection or a request does to what shutdown waits for.
WorkLeaves ==
  /\ Active' \subseteq Active
  /\ \A kind \in {"device", "worker", "controller"} :
       Tracked(kind)' \subseteq Tracked(kind) \cup Active
  /\ closers = 0 /\ closers' # 0 =>
       Active # {} \/ \E kind \in {"device", "worker", "controller"} : Tracked(kind) # {}
  /\ jobs = 0 /\ jobs' # 0 => Active # {}

\* A handler that was accepted never becomes busier than it was.
LEMMA HandlersProceed ==
  ASSUME WorkVarsTyped, UNCHANGED <<request, closers, jobs>>,
         NEW x \in Conns, NEW next \in HandlerSteps \ {"idle", "arrived"},
         handler' = [handler EXCEPT ![x].pc = next],
         \/ handler[x].pc = "arrived" /\ next \in {"tracked", "done"}
         \/ handler[x].pc = "tracked" /\ next \in {"running", "done"}
         \/ handler[x].pc = "running" /\ next = "done"
  PROVE  WorkVarsTyped' /\ WorkLeaves
<1>1. /\ handler'[x].pc = next /\ handler'[x].kind = handler[x].kind
      /\ \A y \in Conns \ {x} : handler'[y] = handler[y]
      /\ handler' \in [Conns -> [kind : Kinds \cup {"none"}, pc : HandlerSteps]]
  BY DEF WorkVarsTyped, HandlerSteps
<1>2. WorkVarsTyped'
  BY <1>1 DEF WorkVarsTyped
<1>3. Active' \subseteq Active
  BY <1>1 DEF Active
<1>4. ASSUME NEW kind \in {"device", "worker", "controller"}
      PROVE  Tracked(kind)' \subseteq Tracked(kind) \cup Active
  BY <1>1 DEF Tracked, Active
<1> QED
  BY <1>2, <1>3, <1>4 DEF WorkLeaves

LEMMA BackgroundProceeds ==
  ASSUME WorkVarsTyped, StartCloser \/ EndCloser \/ EndJob
  PROVE  WorkVarsTyped' /\ WorkLeaves
<1>1. /\ UNCHANGED <<handler, request>>
      /\ closers' \in Nat /\ jobs' \in Nat
      /\ jobs = 0 => jobs' = 0
      /\ closers = 0 /\ closers' # 0 => \E x \in Conns : handler[x].pc = "running"
  BY DEF StartCloser, EndCloser, EndJob, WorkVarsTyped
<1>2. WorkVarsTyped'
  BY <1>1 DEF WorkVarsTyped
<1>3. Active' = Active /\ \A kind : Tracked(kind)' = Tracked(kind)
  BY <1>1 DEF Active, Tracked
<1>4. ASSUME NEW x \in Conns, handler[x].pc = "running"
      PROVE  \E kind \in {"device", "worker", "controller"} : Tracked(kind) # {}
  <2>1. handler[x].kind \in {"device", "worker", "controller"}
    BY <1>4, AppAssumption DEF WorkVarsTyped
  <2>2. x \in Tracked(handler[x].kind)
    BY <1>4 DEF Tracked
  <2> QED
    BY <2>1, <2>2
<1> QED
  BY <1>1, <1>2, <1>3, <1>4 DEF WorkLeaves

LEMMA AnswerProceeds ==
  ASSUME WorkVarsTyped, NEW r \in Requests, Answer(r)
  PROVE  WorkVarsTyped' /\ WorkLeaves
<1>1. /\ request[r] = "handling" /\ request' = [request EXCEPT ![r] = "answered"]
      /\ handler' = handler
      /\ closers' \in Nat /\ jobs' \in Nat
  BY DEF Answer, WorkVarsTyped
<1>2. /\ request' \in [Requests -> {"idle", "handling", "answered"}]
      /\ \A s \in Requests : request'[s] = "handling" => request[s] = "handling"
  BY <1>1 DEF WorkVarsTyped
<1>3. r \in Active
  BY <1>1 DEF Active
<1>4. Active' \subseteq Active /\ \A kind : Tracked(kind)' = Tracked(kind)
  BY <1>1, <1>2 DEF Active, Tracked
<1> QED
  BY <1>1, <1>2, <1>3, <1>4 DEF WorkVarsTyped, WorkLeaves

LEMMA WorkProceeds ==
  ASSUME WorkVarsTyped, Work
  PROVE  WorkVarsTyped' /\ WorkLeaves
<1>1. CASE \E x \in Conns : Track(x) \/ Upgrade(x) \/ EndHandler(x)
  <2>1. PICK x \in Conns : Track(x) \/ Upgrade(x) \/ EndHandler(x)
    BY <1>1
  <2>2. UNCHANGED <<request, closers, jobs>>
    BY <2>1 DEF Track, Upgrade, EndHandler
  <2>3. PICK next \in HandlerSteps \ {"idle", "arrived"} :
          /\ handler' = [handler EXCEPT ![x].pc = next]
          /\ \/ handler[x].pc = "arrived" /\ next \in {"tracked", "done"}
             \/ handler[x].pc = "tracked" /\ next \in {"running", "done"}
             \/ handler[x].pc = "running" /\ next = "done"
    BY <2>1 DEF Track, Upgrade, EndHandler, HandlerSteps
  <2> QED
    BY <2>2, <2>3, HandlersProceed
<1>2. CASE StartCloser \/ EndCloser \/ EndJob
  BY <1>2, BackgroundProceeds
<1>3. CASE \E r \in Requests : Answer(r)
  BY <1>3, AnswerProceeds
<1> QED
  BY <1>1, <1>2, <1>3 DEF Work

LEMMA ArrivalsTyped ==
  ASSUME WorkVarsTyped, Arrivals
  PROVE  WorkVarsTyped' /\ ~ shutDown
<1>1. ASSUME NEW x \in Conns, NEW kind \in Kinds, Arrive(x, kind)
      PROVE  WorkVarsTyped' /\ ~ shutDown
  <2>1. /\ handler' = [handler EXCEPT ![x] = [kind |-> kind, pc |-> "arrived"]]
        /\ UNCHANGED <<request, closers, jobs>> /\ ~ shutDown
    BY <1>1 DEF Arrive
  <2> QED
    BY <2>1 DEF WorkVarsTyped, HandlerSteps
<1>2. ASSUME NEW r \in Requests, ArriveRequest(r)
      PROVE  WorkVarsTyped' /\ ~ shutDown
  BY <1>2 DEF ArriveRequest, WorkVarsTyped
<1> QED
  BY <1>1, <1>2 DEF Arrivals

\* What is over stays over while no wait is passed and nothing arrives.
LEMMA WaitsKept ==
  ASSUME WaitsStayOver, LifeTyped, waited' = waited, cut' = cut, shutDown => shutDown',
         goroutines = {} => goroutines' = {},
         WorkLeaves, main' = "complete" => waited = 7
  PROVE  WaitsStayOver'
<1>1. waited' >= 1 => shutDown'
  BY DEF WaitsStayOver
<1>2. ASSUME ~ cut'
      PROVE  /\ waited' >= 1 => Active' = {}
             /\ waited' >= 2 => Tracked("device")' = {}
             /\ waited' >= 3 => Tracked("worker")' = {}
             /\ waited' >= 4 => Tracked("controller")' = {}
             /\ waited' >= 5 => goroutines' = {}
             /\ waited' >= 6 => closers' = 0
             /\ waited' = 7 => jobs' = 0
  <2>1. /\ waited >= 1 => Active = {}
        /\ waited >= 2 => Active = {} /\ Tracked("device") = {}
        /\ waited >= 3 => Active = {} /\ Tracked("worker") = {}
        /\ waited >= 4 => Active = {} /\ Tracked("controller") = {}
        /\ waited >= 5 => goroutines = {}
        /\ waited >= 6 => /\ closers = 0 /\ Active = {} /\ Tracked("device") = {}
                          /\ Tracked("worker") = {} /\ Tracked("controller") = {}
        /\ waited = 7 => jobs = 0 /\ Active = {}
    BY <1>2 DEF WaitsStayOver, LifeTyped
  <2>2. /\ waited >= 1 => Active' = {}
        /\ waited >= 2 => Tracked("device")' = {}
        /\ waited >= 3 => Tracked("worker")' = {}
        /\ waited >= 4 => Tracked("controller")' = {}
    BY <2>1 DEF WorkLeaves
  <2>3. waited >= 6 => closers' = 0
    BY <2>1 DEF WorkLeaves
  <2>4. waited = 7 => jobs' = 0
    BY <2>1 DEF WorkLeaves
  <2> QED
    BY <2>1, <2>2, <2>3, <2>4
<1> QED
  BY <1>1, <1>2 DEF WaitsStayOver

\* What has not been touched has not become busier.
LEMMA NothingLeaves == UNCHANGED workVars => WorkLeaves
BY DEF workVars, WorkLeaves, Active, Tracked

\* shutdown passes one wait after the other.
LEMMA PassWaitKeeps ==
  ASSUME WaitsStayOver, LifeTyped, PassWait, UNCHANGED workVars
  PROVE  WaitsStayOver' /\ LifeTyped'
<1>1. /\ main = "shuttingDown" /\ waited < 7
      /\ waited' = waited + 1
      /\ IsOver(Waits[waited + 1])
      /\ cut' = (cut \/ (Waits[waited + 1] = "servers" /\ Active # {}))
      /\ UNCHANGED <<main, goroutines, shutDown>>
      /\ UNCHANGED <<handler, request, closers, jobs>>
  BY DEF PassWait, Waits, workVars
<1>2. LifeTyped'
  <2>1. waited' \in 0..7 /\ cut' \in BOOLEAN
    BY <1>1 DEF LifeTyped
  <2> QED
    BY <1>1, <2>1 DEF LifeTyped
<1>3. Active' = Active /\ \A kind : Tracked(kind)' = Tracked(kind)
  BY <1>1 DEF Active, Tracked
<1>4. ASSUME waited = 0
      PROVE  shutDown /\ (~ cut' => Active = {})
  <2>1. Waits[waited + 1] = "servers"
    BY <1>4 DEF Waits
  <2> QED
    BY <1>1, <2>1 DEF IsOver
<1>5. waited = 1 => Tracked("device") = {}
  BY <1>1 DEF IsOver, Waits
<1>6. waited = 2 => Tracked("worker") = {}
  BY <1>1 DEF IsOver, Waits
<1>7. waited = 3 => Tracked("controller") = {}
  BY <1>1 DEF IsOver, Waits
<1>8. waited = 4 => goroutines = {}
  BY <1>1 DEF IsOver, Waits
<1>9. waited = 5 => closers = 0
  BY <1>1 DEF IsOver, Waits
<1>10. waited = 6 => jobs = 0
  BY <1>1 DEF IsOver, Waits
<1>11. waited \in 0..6 /\ (~ cut' => ~ cut)
  BY <1>1 DEF LifeTyped
<1>12. ASSUME ~ cut'
       PROVE  /\ Active = {}
              /\ waited' >= 2 => Tracked("device") = {}
              /\ waited' >= 3 => Tracked("worker") = {}
              /\ waited' >= 4 => Tracked("controller") = {}
              /\ waited' >= 5 => goroutines = {}
              /\ waited' >= 6 => closers = 0
              /\ waited' = 7 => jobs = 0
  <2>1. ~ cut
    BY <1>11, <1>12
  <2> QED
    BY <1>1, <1>4, <1>5, <1>6, <1>7, <1>8, <1>9, <1>10, <1>11, <1>12, <2>1 DEF WaitsStayOver
<1>13. shutDown'
  BY <1>1, <1>4, <1>11 DEF WaitsStayOver
<1> QED
  BY <1>1, <1>2, <1>3, <1>12, <1>13 DEF WaitsStayOver

LEMMA LifeKeeps ==
  ASSUME WaitsStayOver, LifeTyped, Life
  PROVE  WaitsStayOver' /\ LifeTyped'
<1>1. UNCHANGED workVars /\ WorkLeaves
  BY NothingLeaves DEF Life
<1>2. CASE PassWait
  BY <1>1, <1>2, PassWaitKeeps
<1>3. CASE Life /\ ~ PassWait
  <2>1. /\ waited' = waited /\ cut' = cut /\ (shutDown' = shutDown \/ shutDown' = TRUE)
        /\ goroutines' \subseteq goroutines
        /\ main' # "starting" \/ main' = main
        /\ main' = "complete" => waited = 7 \/ main = "complete"
    BY <1>3 DEF Life, BeginShutdown, CallShutdown, TaskReturns, Expire, Complete, GiveUp, Waits
  <2>2. shutDown' \in BOOLEAN /\ (shutDown => shutDown')
    <3>1. CASE shutDown' = shutDown
      BY <3>1 DEF LifeTyped
    <3>2. CASE shutDown' = TRUE
      BY <3>2
    <3> QED
      BY <2>1, <3>1, <3>2
  <2>3. LifeTyped'
    BY <2>1, <2>2 DEF LifeTyped
  <2>4. main' = "complete" => waited = 7
    BY <2>1 DEF WaitsStayOver
  <2> QED
    BY <1>1, <2>1, <2>2, <2>3, <2>4, WaitsKept
<1> QED
  BY <1>2, <1>3

LEMMA WorkStep ==
  ASSUME WorkTyped, WaitsStayOver, AppNext
  PROVE  WorkTyped' /\ WaitsStayOver'
<1> WorkVarsTyped /\ LifeTyped
  BY DEF WorkTyped
<1>1. CASE StartUp
  <2>1. /\ main = "starting" /\ main' = "serving"
        /\ goroutines' = Servers \cup {"reload", "periodic"}
        /\ UNCHANGED <<shutDown, cut, waited, handler, request, closers, jobs>>
    BY <1>1 DEF StartUp, workVars
  <2>2. waited = 0
    BY <2>1 DEF LifeTyped
  <2>3. WorkVarsTyped' /\ LifeTyped'
    BY <2>1 DEF WorkVarsTyped, LifeTyped
  <2> QED
    BY <2>1, <2>2, <2>3 DEF WorkTyped, WaitsStayOver
<1>2. CASE FailToStart
  <2>1. /\ main' = "failed" /\ UNCHANGED <<shutDown, cut, waited, goroutines>>
        /\ UNCHANGED workVars
    BY <1>2 DEF FailToStart
  <2>2. WorkVarsTyped' /\ LifeTyped'
    BY <2>1 DEF WorkVarsTyped, LifeTyped, workVars
  <2> QED
    BY <2>1, <2>2, NothingLeaves, WaitsKept DEF WorkTyped
<1>3. CASE Work
  <2>1. UNCHANGED <<main, goroutines, shutDown, cut, waited>>
    BY <1>3 DEF Work, lifeVars
  <2>2. WorkVarsTyped' /\ WorkLeaves
    BY <1>3, WorkProceeds
  <2>3. LifeTyped' /\ (main' = "complete" => waited = 7)
    BY <2>1 DEF LifeTyped, WaitsStayOver
  <2> QED
    BY <2>1, <2>2, <2>3, WaitsKept DEF WorkTyped
<1>4. CASE Arrivals
  <2>1. UNCHANGED <<main, goroutines, shutDown, cut, waited>>
    BY <1>4 DEF Arrivals, lifeVars
  <2>2. WorkVarsTyped' /\ ~ shutDown
    BY <1>4, ArrivalsTyped
  <2>3. waited = 0
    BY <2>2 DEF LifeTyped, WaitsStayOver
  <2>4. LifeTyped'
    BY <2>1 DEF LifeTyped
  <2> QED
    BY <2>1, <2>2, <2>3, <2>4 DEF WorkTyped, WaitsStayOver
<1>5. CASE Life
  <2>1. WaitsStayOver' /\ LifeTyped'
    BY <1>5, LifeKeeps
  <2>2. WorkVarsTyped'
    BY <1>5 DEF Life, workVars, WorkVarsTyped
  <2> QED
    BY <2>1, <2>2 DEF WorkTyped
<1>6. CASE Endings
  <2>1. /\ UNCHANGED <<main, shutDown, cut, waited>> /\ goroutines' \subseteq goroutines
        /\ UNCHANGED workVars
    BY <1>6 DEF Endings, Terminate, ServerReturns
  <2>2. WorkVarsTyped' /\ LifeTyped' /\ (main' = "complete" => waited = 7)
    BY <2>1 DEF WorkVarsTyped, LifeTyped, workVars, WaitsStayOver
  <2> QED
    BY <2>1, <2>2, NothingLeaves, WaitsKept DEF WorkTyped
<1>7. CASE Operator \/ HangupReload \/ (\E r \in Requests : RequestReload(r))
           \/ \E r \in Reloaders : ProceedReload(r)
  <2>1. UNCHANGED <<main, goroutines, shutDown, cut, waited>> /\ UNCHANGED workVars
    BY <1>7 DEF Operator, HangupReload, RequestReload, ProceedReload, lifeVars
  <2>2. WorkVarsTyped' /\ LifeTyped' /\ (main' = "complete" => waited = 7)
    BY <2>1 DEF WorkVarsTyped, LifeTyped, workVars, WaitsStayOver
  <2> QED
    BY <2>1, <2>2, NothingLeaves, WaitsKept DEF WorkTyped
<1> QED
  BY <1>1, <1>2, <1>3, <1>4, <1>5, <1>6, <1>7 DEF AppNext

-----------------------------------------------------------------------------
(* The theorems about the program's life. *)

LEMMA AppStarts == AppInit => AppInv
<1> SUFFICES ASSUME AppInit PROVE AppInv
  OBVIOUS
<1>1. ReloadsInv
  BY ReloadsStart DEF AppInit
<1>2. ReloadersAreKnown
  BY ReloaderNames DEF AppInit, RInit, ReloadersAreKnown
<1> QED
  BY <1>1, <1>2, WorkStarts DEF AppInv, ReloadInv, ReloadsInv

LEMMA AppStep == AppInv /\ [AppNext]_appVars => AppInv'
<1> SUFFICES ASSUME AppInv, [AppNext]_appVars PROVE AppInv'
  OBVIOUS
<1>1. CASE AppNext
  BY <1>1, ReloadsStep, WorkStep DEF AppInv
<1>2. CASE UNCHANGED appVars
  <2>1. /\ UNCHANGED <<file, applied, reloadChan, reloader, asked, overlapped>>
        /\ UNCHANGED <<main, goroutines, shutDown, cut, waited>>
        /\ UNCHANGED workVars /\ UNCHANGED request
    BY <1>2 DEF appVars, rVars, lifeVars, workVars
  <2>2. ReloadersAreKnown'
    BY <2>1 DEF AppInv, ReloadInv, ReloadersAreKnown
  <2>3. ReloadInv'
    BY <2>1, <2>2, ReloadsAlone DEF AppInv
  <2>4. WorkVarsTyped' /\ LifeTyped'
    BY <2>1 DEF AppInv, WorkTyped, WorkVarsTyped, LifeTyped, workVars
  <2>5. WaitsStayOver'
    BY <2>1, NothingLeaves, WaitsKept DEF AppInv, WorkTyped, WaitsStayOver
  <2> QED
    BY <2>3, <2>4, <2>5 DEF AppInv, WorkTyped
<1> QED
  BY <1>1, <1>2

\* Through starts, reloads, connections, requests and shutdowns in any order: reloads start
\* from parts that agree, and what shutdown has waited for does not come back.
THEOREM AppCorrect == AppSpec => []AppInv
BY AppStarts, AppStep, PTL DEF AppSpec

\* reload gives every part the settings of one file, or leaves all as they were, unless it
\* overlaps with another; for any files and any parts.
THEOREM ReloadsAreAllOrNothing == AppSpec => []AllOrNothing
<1>1. AppInv => AllOrNothing
  BY DEF AppInv, ReloadInv
<1> QED
  BY <1>1, AppCorrect, PTL

\* When shutdown says that it is complete nothing runs any more, whatever was started while
\* it waited; the order of its waits is what makes that true.
THEOREM ShutdownLeavesNothing == AppSpec => []ShutdownComplete
<1>1. AppInv => ShutdownComplete
  <2> SUFFICES ASSUME AppInv, main = "complete", ~ cut
               PROVE  /\ goroutines = {}
                      /\ AtRest
                      /\ \A x \in Conns : handler[x].pc \in {"idle", "done"}
                      /\ \A r \in Requests : request[r] # "handling"
                      /\ closers = 0 /\ jobs = 0
    BY DEF ShutdownComplete
  <2>1. /\ Active = {} /\ goroutines = {} /\ closers = 0 /\ jobs = 0
        /\ \A kind \in {"device", "worker", "controller"} : Tracked(kind) = {}
    BY DEF AppInv, WaitsStayOver
  <2>2. \A r \in Requests : request[r] # "handling"
    BY <2>1 DEF Active
  <2>3. AtRest
    <3>1. ASSUME NEW r \in Reloaders PROVE reloader[r].pc # "applying"
      BY <2>1, <2>2 DEF AppInv, ReloadInv, ReloadersAreKnown, Reloaders
    <3> QED
      BY <3>1 DEF AtRest
  <2>4. ASSUME NEW x \in Conns
        PROVE  handler[x].pc \in {"idle", "done"}
    <3>1. handler[x].pc \in HandlerSteps
          /\ (handler[x].pc # "idle" => handler[x].kind \in {"device", "worker", "controller"})
      BY AppAssumption DEF AppInv, WorkTyped, WorkVarsTyped
    <3>2. handler[x].pc \notin {"arrived", "tracked"}
      BY <2>1 DEF Active
    <3>3. handler[x].pc # "running"
      BY <2>1, <3>1 DEF Tracked
    <3> QED
      BY <3>1, <3>2, <3>3 DEF HandlerSteps
  <2> QED
    BY <2>1, <2>2, <2>3, <2>4
<1> QED
  BY <1>1, AppCorrect, PTL
=============================================================================
