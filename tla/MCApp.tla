-------------------------------- MODULE MCApp --------------------------------
(* Small instances of App for TLC. *)
EXTENDS App

CONSTANTS request1, conn1, empty, odd, loud, broken

\* A file with nothing in it.
Empty ==
  [readable |-> TRUE, devicePing |-> 0, devicePong |-> 0, controllerPing |-> 0,
   controllerPong |-> 0, registrationTimeout |-> 0, dataTimeout |-> {}, profiling |-> FALSE,
   jobs |-> FALSE, disableWorkerStats |-> FALSE, rateLimit |-> NoRateLimit, jobsPath |-> "",
   controllerSecret |-> "", deviceSecret |-> "", httpSecret |-> "", sessionTTL |-> 0,
   shutdownTimeout |-> 0, level |-> "", format |-> ""]

\* Values that make no sense and get replaced.
Odd == [Empty EXCEPT !.devicePing = -1, !.dataTimeout = {-1}, !.httpSecret = "new",
                     !.rateLimit = [Enabled |-> TRUE, MaxSelections |-> 0, Duration |-> 1]]

\* A log level that does not exist, and a file that cannot be parsed.
Loud == [Empty EXCEPT !.httpSecret = "newer", !.level = "loud"]
Broken == [Empty EXCEPT !.readable = FALSE]

MCContents == [f \in Files |-> CASE f = empty -> Empty [] f = odd -> Odd
                                  [] f = loud -> Loud [] f = broken -> Broken]

\* Some of the parts: one that refuses what makes no sense, a secret, and the last.
MCParts == <<"selector", "httpSecret", "logLevel">>
=============================================================================
