---------------------------- MODULE MCCollectors ----------------------------
(* An instance of Collectors for TLC.  They share no variable: a behaviour   *)
(* is one of a single collector, with the bounds of the others used up and    *)
(* all they had to send received.                                           *)
EXTENDS Collectors, TLC

CONSTANTS dir, inner, auth, syslog

(* A directory in one main watches, with a file in it.                      *)
Homes == dir :> None @@ inner :> dir
TwoAndOne == auth :> 2 @@ syslog :> 1

FileDone ==
  /\ files = [p \in Paths |-> None] /\ changes = MaxChanges
  /\ kernel = <<>> /\ watched = {} /\ unseen = Paths
  /\ buf = <<>> /\ offset = 0 /\ looked = FALSE /\ recent = [p \in Paths |-> FALSE]
  /\ baseline = files /\ made = 0 /\ out = None
  /\ chan = <<>> /\ conn = TRUE /\ sending = None
  /\ requeue = {} /\ delivered = {} /\ fails = MaxFails

LogDone ==
  /\ logWritten = MaxLines /\ half = [f \in Logs |-> FALSE]
  /\ unread = [f \in Logs |-> <<>>] /\ logFile = [f \in Logs |-> "renamed"]
  /\ logOut = [f \in Logs |-> None] /\ logChan = <<>> /\ logConn = "open" /\ data = None
  /\ logPipe = <<>> /\ logUp = TRUE
  /\ logReceived = {} /\ lost = Log!Lines /\ faults = MaxFaults

SoftwareDone ==
  /\ installed = [p \in Packages |-> None] /\ installs = MaxInstalls
  /\ lastPackages = installed /\ halfDay = TRUE /\ current = None /\ toSend = None
  /\ listConn = "none" /\ listPipe = <<>> /\ listUp = FALSE
  /\ listWritten = installed /\ listReceived = installed /\ starts = MaxStarts

InstanceInit ==
  \/ Init /\ LogDone /\ SoftwareDone
  \/ FileDone /\ Log!Init /\ SoftwareDone
  \/ FileDone /\ LogDone /\ Software!Init

InstanceSpec == InstanceInit /\ [][CollectorsNext]_allVars /\ CollectorsFairness
=============================================================================
