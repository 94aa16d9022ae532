----------------------------- MODULE Collectors -----------------------------
(***************************************************************************)
(* The collectors that watch files, logs and packages.  They are processes *)
(* of their own and share nothing but agentCollector, which serves every   *)
(* connection by itself (agentCollector/main.go:118, 221-261), so this is   *)
(* their interleaving.  The fourth, NetProCollector, is in NetPro, together *)
(* with what agentCollector does with what it is sent.                      *)
(***************************************************************************)
EXTENDS FileCollector

CONSTANTS
  Logs, PipeCap, MaxLines, MaxFaults,
  Packages, PackageVersions, MaxInstalls, MaxStarts

VARIABLES
  logWritten, half, unread, logFile, logOut, logChan, logConn, data, logPipe, logUp,
  logReceived, lost, faults,
  installed, installs, lastPackages, halfDay, current, toSend, listConn, listPipe,
  listUp, listWritten, listReceived, starts

Log == INSTANCE LogCollector WITH
  written <- logWritten, file <- logFile, out <- logOut, conn <- logConn,
  pipe <- logPipe, up <- logUp, received <- logReceived

Software == INSTANCE SoftwareCollector WITH
  Versions <- PackageVersions, MaxChanges <- MaxInstalls, changes <- installs,
  conn <- listConn, pipe <- listPipe, up <- listUp, written <- listWritten,
  received <- listReceived

ASSUME CollectorsAssumption ==
  Log!LogCollectorAssumption /\ Software!SoftwareCollectorAssumption

logVars == <<logWritten, half, unread, logFile, logOut, logChan, logConn, data, logPipe,
             logUp, logReceived, lost, faults>>
listVars == <<installed, installs, lastPackages, halfDay, current, toSend, listConn,
              listPipe, listUp, listWritten, listReceived, starts>>
allVars == <<vars, logVars, listVars>>

CollectorsInit == Init /\ Log!Init /\ Software!Init

CollectorsNext ==
  \/ Next /\ UNCHANGED <<logVars, listVars>>
  \/ Log!Next /\ UNCHANGED <<vars, listVars>>
  \/ Software!Next /\ UNCHANGED <<vars, logVars>>

CollectorsFairness == Fairness /\ Log!Fairness /\ Software!Fairness

CollectorsSpec == CollectorsInit /\ [][CollectorsNext]_allVars /\ CollectorsFairness

-----------------------------------------------------------------------------
(* The types of all three. *)
CollectorsTypeOK == TypeOK /\ Log!TypeOK /\ Software!TypeOK

(* The lines of a log arrive in their order, each once; a complete line that *)
(* no failure of a file or a connection has cost has arrived or is under way, *)
(* as a whole or, if its reader met the end of the file in its middle, as     *)
(* its tail (LogCollector/main.go:263-285, 312-317).                         *)
LinesAccountedFor == Log!InOrder /\ Log!AccountedFor

(* If agentCollector always comes back, every line arrives, or a failure has *)
(* cost it (agents/README.md:12, "report continuously"): neither a full       *)
(* channel nor a broken connection stops the log collector.                  *)
LinesArrive == Log!Arrive

(* What the software collector takes for told is what it last wrote of the   *)
(* package (SoftwareCollector/main.go:77-85, 113-135), whatever is installed *)
(* or removed while a list waits to be written.                              *)
ToldIsWritten == Software!ToldIsWritten

(* A package that stays is received in its version, even if the list that    *)
(* first had it was lost with agentCollector, provided agentCollector always *)
(* comes back (SoftwareCollector/main.go:88-99, agents/README.md:14).        *)
PackagesReceived == Software!Received
=============================================================================
