-------------------------------- MODULE Reload --------------------------------
(***************************************************************************)
(* Reloading the configuration (apps/rotom-ng/app/app.go): the goroutine   *)
(* that waits for SIGHUP and the API requests that do the same, each       *)
(* reading the file, validating the settings of every part, and then       *)
(* putting them into one part after the other.  App composes these         *)
(* operations with the rest of the program's life.                         *)
(***************************************************************************)
EXTENDS Config, Sequences

CONSTANTS
  Hangup,       \* the goroutine that waits for SIGHUP
  Requests,     \* API requests
  Files,        \* versions of the configuration file
  Contents,     \* what is in them
  Initial,      \* the one the program was started with
  Parts,        \* the parts, in the order in which reload fills them
  MaxEvents     \* bound: what the world does to the program

VARIABLES
  file,          \* the configuration file
  applied,       \* the file each part there is has its settings from
  reloadChan,    \* whether a signal is pending in reloadChan
  reloader,      \* where each reload is, the file it read and the parts done
  events,        \* history: what the world did so far
  asked,         \* history: whether there was a signal since the last edit
  overlapped     \* history: whether two reloads were ever under way at once

rVars == <<file, applied, reloadChan, reloader, events, asked, overlapped>>

Reloaders == {Hangup} \cup Requests

PartNames == {Parts[i] : i \in DOMAIN Parts}

\* The order of the calls in reload.
AllParts == <<"httpAPI", "api", "connectionManager", "selector", "jobs", "device", "worker",
              "controller", "controllerSecret", "deviceSecret", "httpSecret", "sessionTTL",
              "shutdownTimeout", "logLevel">>

\* The parts whose settings it validates first.
Validated == {"connectionManager", "selector", "jobs", "device", "worker", "controller",
              "api", "httpAPI"}

\* What a part's settings are after each file.
Settings == [f \in Files |-> [part \in PartNames |-> SettingsOf(part, SetDefaults(Contents[f]))]]
Loadable == {f \in Files : Loads(Contents[f])}

\* Every part has the settings of that file.
AllHave(f) == \A part \in DOMAIN applied : Settings[applied[part]][part] = Settings[f][part]

ASSUME ReloadAssumption ==
  /\ Hangup \notin Requests
  /\ Contents \in [Files -> ConfigFile]
  /\ Initial \in Loadable
  /\ Parts \in Seq(PartNames)
  /\ \E picked \in SUBSET DOMAIN AllParts :
       /\ PartNames = {AllParts[i] : i \in picked}
       /\ \A i, j \in DOMAIN Parts : i < j =>
            \E k, l \in picked : k < l /\ Parts[i] = AllParts[k] /\ Parts[j] = AllParts[l]
  /\ MaxEvents \in Nat

AtRest == \A r \in Reloaders : reloader[r].pc # "applying"

-----------------------------------------------------------------------------
(* The operator. *)

Event == events < MaxEvents /\ events' = events + 1

EditFile ==
  /\ Event
  /\ asked' = FALSE
  /\ file' \in Files \ {file}
  /\ UNCHANGED <<applied, reloadChan, reloader, overlapped>>

\* Wrong: the channel has no room, and signal.Notify does not wait.
SendHangupUnbuffered ==
  /\ Event
  /\ reloadChan' = (reloadChan \/ reloader[Hangup].pc = "idle")
  /\ asked' = TRUE
  /\ UNCHANGED <<file, applied, reloader, overlapped>>

\* signal.Notify; a signal that finds the channel full is dropped.
SendHangup ==
  /\ Event
  /\ reloadChan' = TRUE
  /\ asked' = TRUE
  /\ UNCHANGED <<file, applied, reloader, overlapped>>

-----------------------------------------------------------------------------
(* reload *)

AllAccept(cfg) == \A part \in Validated : Accepts(part, SettingsOf(part, cfg))

\* The files with which a reload gets to the point of applying them.
Good == {f \in Loadable : AllAccept(SetDefaults(Contents[f]))}

\* A request is answered once; the goroutine waits for the next signal.
AfterReload(r) == IF r = Hangup THEN "idle" ELSE "answered"

\* App.Init makes every part with its settings, or stops at the first that does not
\* accept them.  The log level is the file's, without the flag -debug.
MakeParts ==
  /\ AllAccept(SetDefaults(Contents[Initial]))
  /\ applied' = [part \in PartNames |-> Initial]
  /\ UNCHANGED <<file, reloadChan, reloader, events, asked, overlapped>>

\* ReloadConfig, and every part's Validate before anything is applied.  A file that
\* does not load, or settings that a part refuses, end the reload there.
ReadAndValidate(r) ==
  /\ reloader[r].pc = "idle"
  /\ reloader' = [reloader EXCEPT ![r] =
                   [pc |-> IF file \in Good THEN "applying" ELSE AfterReload(r),
                    file |-> file, done |-> 0]]
  /\ overlapped' = (overlapped \/ (file \in Good /\ ~ AtRest))

ReloadOnHangup ==
  /\ reloadChan
  /\ reloadChan' = FALSE
  /\ ReadAndValidate(Hangup)
  /\ UNCHANGED <<file, applied, events, asked>>

ReloadOnRequest(r) ==
  /\ ReadAndValidate(r)
  /\ UNCHANGED <<file, applied, reloadChan, events, asked>>

\* PutSettings of the next part, which validates again and keeps what it has if
\* that fails; reload logs it and goes on.
Apply(r) ==
  LET part == Parts[reloader[r].done + 1]
      from == reloader[r].file
  IN  /\ reloader[r].pc = "applying"
      /\ reloader[r].done < Len(Parts)
      /\ reloader' = [reloader EXCEPT ![r].done = @ + 1]
      /\ applied' = IF Accepts(part, Settings[from][part])
                    THEN [applied EXCEPT ![part] = from] ELSE applied
      /\ UNCHANGED <<file, reloadChan, events, asked, overlapped>>

\* Everything is applied.
Succeed(r) ==
  /\ reloader[r].pc = "applying"
  /\ reloader[r].done = Len(Parts)
  /\ reloader' = [reloader EXCEPT ![r].pc = AfterReload(r)]
  /\ UNCHANGED <<file, applied, reloadChan, events, asked, overlapped>>

RInit ==
  /\ file = Initial
  /\ applied = [part \in {} |-> Initial]
  /\ reloadChan = FALSE
  /\ reloader = [r \in Reloaders |-> [pc |-> "idle", file |-> Initial, done |-> 0]]
  /\ events = 0
  /\ asked = FALSE
  /\ overlapped = FALSE

-----------------------------------------------------------------------------
(* Properties. *)

\* The types; a part never has settings it does not accept.
RTypeOK ==
  /\ file \in Files
  /\ applied \in [{} -> Files] \cup [PartNames -> Files]
  /\ \A part \in DOMAIN applied : Accepts(part, Settings[applied[part]][part])
  /\ reloadChan \in BOOLEAN
  /\ reloader \in [Reloaders -> [pc : {"idle", "applying", "answered"}, file : Files,
                                 done : 0..Len(Parts)]]
  /\ asked \in BOOLEAN
  /\ overlapped \in BOOLEAN

\* Reloads that do not overlap are all or nothing, and the types hold: between them
\* the settings of every part, the secrets and the log level among them, come from
\* the same file, also after one that was refused.
AllOrNothing ==
  /\ RTypeOK
  /\ ~ overlapped /\ AtRest => \E f \in Files : AllHave(f)
=============================================================================
