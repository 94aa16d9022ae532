-------------------------- MODULE Collectors_proofs --------------------------
(* Proofs about the collectors side by side: what FileCollector_proofs and  *)
(* LogCollector_proofs show of one holds among the others, and what the     *)
(* software collector takes for told is what it wrote.                      *)
EXTENDS Collectors, FileCollector_proofs

(* The others leave the file collector alone (agentCollector/main.go:118,   *)
(* 221-261: every connection is served by itself), so it does what it does  *)
(* by itself, and everything that holds of it holds here.                   *)
THEOREM FilesAlone == CollectorsSpec => Spec
<1>1. CollectorsInit => Init
  BY DEF CollectorsInit
<1>2. [CollectorsNext]_allVars => [Next]_vars
  BY DEF CollectorsNext, allVars
<1> QED
  BY <1>1, <1>2, PTL DEF CollectorsSpec, Spec

(* Among the other collectors, too, no change of a file goes unnoticed, no  *)
(* directory stays unwatched, and every report is in one place              *)
(* (FileCollector/main.go:219-338).                                         *)
THEOREM FilesCollected ==
  CollectorsSpec => []NoUnnoticedChange /\ []NoBlindDirectory /\ []ReportsAccountedFor
<1> QED
  BY FilesAlone, ChangesNoticed, DirectoriesWatched, ReportsKept, PTL

-----------------------------------------------------------------------------
(* A list that waits has, of every package that was scanned, the version,   *)
(* unless it is told already.                                               *)
Waiting ==
  toSend # None =>
    /\ current \in Software!Inventory
    /\ \A p \in Packages : current[p] # None =>
         \/ toSend[p] = current[p]
         \/ toSend[p] = None /\ lastPackages[p] = current[p]

LEMMA SoftwareInit == Software!Init => Software!TypeOK /\ Waiting /\ ToldIsWritten
<1> SUFFICES ASSUME Software!Init
             PROVE  Software!TypeOK /\ Waiting /\ ToldIsWritten
  OBVIOUS
<1>1. <<>> \in Seq(Software!Lists) /\ Len(<<>>) = 0
  BY EmptySeq
<1>2. PipeCap \in Nat /\ MaxInstalls \in Nat /\ MaxStarts \in Nat
  BY CollectorsAssumption DEF Software!SoftwareCollectorAssumption
<1>3. Software!Nothing \in Software!Inventory
  BY DEF Software!Nothing, Software!Inventory
<1>4. Software!TypeOK
  BY <1>1, <1>2, <1>3 DEF Software!Init, Software!TypeOK
<1>5. Waiting
  BY DEF Software!Init, Waiting
<1>6. ToldIsWritten
  BY DEF Software!Init, ToldIsWritten, Software!ToldIsWritten, Software!Nothing
<1> QED
  BY <1>4, <1>5, <1>6

LEMMA SoftwareNext ==
  Software!TypeOK /\ Waiting /\ ToldIsWritten /\ [Software!Next]_(Software!vars)
    => Software!TypeOK' /\ Waiting' /\ ToldIsWritten'
<1> SUFFICES ASSUME Software!TypeOK, Waiting, ToldIsWritten, [Software!Next]_(Software!vars)
             PROVE  Software!TypeOK' /\ Waiting' /\ ToldIsWritten'
  OBVIOUS
<1> USE DEF Software!scanVars, Software!peerVars
<1>1. /\ PipeCap \in Nat /\ MaxInstalls \in Nat /\ MaxStarts \in Nat
      /\ listPipe \in Seq(Software!Lists) /\ Len(listPipe) \in Nat
      /\ installed \in Software!Inventory /\ lastPackages \in Software!Inventory
      /\ listWritten \in Software!Inventory /\ listReceived \in Software!Inventory
  BY CollectorsAssumption, LenProperties
     DEF Software!SoftwareCollectorAssumption, Software!TypeOK
<1>2. ASSUME UNCHANGED <<lastPackages, current, toSend, listWritten>>
      PROVE  Waiting' /\ ToldIsWritten'
  BY <1>2 DEF Waiting, ToldIsWritten, Software!ToldIsWritten
<1>3. ASSUME NEW p \in Packages, NEW v \in PackageVersions \cup {None}, Software!Install(p, v)
      PROVE  Software!TypeOK' /\ Waiting' /\ ToldIsWritten'
  <2>1. installed' \in Software!Inventory /\ installs' \in 0..MaxInstalls
    BY <1>1, <1>3 DEF Software!Install, Software!Inventory, Software!TypeOK
  <2>2. Software!TypeOK'
    BY <1>3, <2>1 DEF Software!Install, Software!TypeOK
  <2> QED
    BY <1>2, <1>3, <2>2 DEF Software!Install
<1>4. CASE Software!TwelveHours
  BY <1>2, <1>4 DEF Software!TwelveHours, Software!TypeOK
<1>5. CASE Software!Scan
  <2> DEFINE l == Software!packagesToSend
  <2>1. /\ l # Software!Nothing /\ current' = installed /\ toSend' = l /\ halfDay' = FALSE
        /\ UNCHANGED <<installed, installs, lastPackages, listConn, listPipe, listUp,
                       listReceived, starts, listWritten>>
    BY <1>5 DEF Software!Scan
  <2>2. l \in Software!Inventory
    BY <1>1 DEF Software!packagesToSend, Software!newOrUpdated, Software!Inventory
  <2>3. \A p \in Packages :
          \/ l[p] = installed[p]
          \/ l[p] = None /\ lastPackages[p] = installed[p]
    BY <1>1 DEF Software!packagesToSend, Software!newOrUpdated, Software!Inventory
  <2> HIDE DEF l
  <2>4. l \in Software!Lists
    <3>1. (\A p \in Packages : l[p] = None) => l = Software!Nothing
      BY <2>2 DEF Software!Inventory, Software!Nothing
    <3> QED
      BY <2>1, <2>2, <3>1 DEF Software!Lists
  <2>5. Software!TypeOK'
    BY <1>1, <2>1, <2>4 DEF Software!TypeOK
  <2>6. Waiting'
    BY <1>1, <2>1, <2>3 DEF Waiting
  <2>7. ToldIsWritten'
    BY <2>1 DEF ToldIsWritten, Software!ToldIsWritten
  <2> QED
    BY <2>5, <2>6, <2>7
<1>6. CASE Software!EmptyScan
  BY <1>2, <1>6 DEF Software!EmptyScan, Software!TypeOK
<1>7. CASE Software!Write
  <2>1. /\ toSend # None /\ Len(listPipe) < PipeCap
        /\ listPipe' = Append(listPipe, toSend)
        /\ listWritten' = Software!Over(listWritten, toSend)
        /\ lastPackages' = current /\ current' = None /\ toSend' = None
        /\ UNCHANGED <<installed, installs, halfDay, listConn, listUp, listReceived, starts>>
    BY <1>7 DEF Software!Write, Software!Scanned
  <2>2. toSend \in Software!Lists /\ toSend \in Software!Inventory
    BY <2>1 DEF Software!TypeOK, Software!Lists
  <2>3. listWritten' \in Software!Inventory
    BY <1>1, <2>1, <2>2 DEF Software!Over, Software!Inventory
  <2>4. listPipe' \in Seq(Software!Lists) /\ Len(listPipe') <= PipeCap
    BY <1>1, <2>1, <2>2, AppendProperties
  <2>5. lastPackages' \in Software!Inventory
    BY <2>1 DEF Waiting
  <2>6. Software!TypeOK'
    BY <1>1, <2>1, <2>3, <2>4, <2>5 DEF Software!TypeOK
  <2>7. Waiting'
    BY <2>1 DEF Waiting
  <2>8. ToldIsWritten'
    <3> SUFFICES ASSUME NEW p \in Packages, current[p] # None
                 PROVE  Software!Over(listWritten, toSend)[p] = current[p]
      BY <2>1 DEF ToldIsWritten, Software!ToldIsWritten
    <3>1. \/ toSend[p] = current[p]
          \/ toSend[p] = None /\ lastPackages[p] = current[p]
      BY <2>1 DEF Waiting
    <3>2. lastPackages[p] = current[p] => listWritten[p] = current[p]
      BY DEF ToldIsWritten, Software!ToldIsWritten
    <3> QED
      BY <3>1, <3>2 DEF Software!Over
  <2> QED
    BY <2>6, <2>7, <2>8
<1>8. CASE Software!WriteFails
  BY <1>2, <1>8 DEF Software!WriteFails, Software!TypeOK
<1>9. CASE Software!Dial
  BY <1>2, <1>9 DEF Software!Dial, Software!TypeOK
<1>10. CASE Software!Receive
  <2>1. /\ listPipe # <<>> /\ listReceived' = Software!Over(listReceived, Head(listPipe))
        /\ listPipe' = Tail(listPipe)
        /\ UNCHANGED <<installed, installs, lastPackages, halfDay, current, toSend, listConn,
                       listUp, starts, listWritten>>
    BY <1>10 DEF Software!Receive
  <2>2. /\ Head(listPipe) \in Software!Lists /\ listPipe' \in Seq(Software!Lists)
        /\ Len(listPipe') <= PipeCap
    BY <1>1, <2>1, HeadTailProperties DEF Software!TypeOK
  <2>3. listReceived' \in Software!Inventory
    BY <1>1, <2>1, <2>2 DEF Software!Over, Software!Inventory, Software!Lists
  <2>4. Software!TypeOK'
    BY <1>1, <2>1, <2>2, <2>3 DEF Software!TypeOK
  <2> QED
    BY <1>2, <2>1, <2>4
<1>11. CASE Software!Stop
  <2>1. <<>> \in Seq(Software!Lists) /\ Len(<<>>) = 0
    BY EmptySeq
  <2>2. listConn' \in {"none", "open", "broken"} /\ listUp' \in BOOLEAN /\ listPipe' = <<>>
        /\ UNCHANGED <<installed, installs, lastPackages, halfDay, current, toSend,
                       listReceived, starts, listWritten>>
    BY <1>11 DEF Software!Stop, Software!TypeOK
  <2>3. listPipe' \in Seq(Software!Lists) /\ Len(listPipe') <= PipeCap
    BY <1>1, <2>1, <2>2
  <2>4. Software!TypeOK'
    BY <2>2, <2>3 DEF Software!TypeOK
  <2> QED
    BY <1>2, <2>2, <2>4
<1>12. CASE Software!Start
  <2>1. starts' \in 0..MaxStarts
    BY <1>1, <1>12 DEF Software!Start, Software!TypeOK
  <2>2. Software!TypeOK'
    BY <1>12, <2>1 DEF Software!Start, Software!TypeOK
  <2> QED
    BY <1>2, <1>12, <2>2 DEF Software!Start
<1>13. CASE UNCHANGED Software!vars
  BY <1>2, <1>13 DEF Software!vars, Software!TypeOK
<1> QED
  BY <1>3, <1>4, <1>5, <1>6, <1>7, <1>8, <1>9, <1>10, <1>11, <1>12, <1>13
     DEF Software!Next

LEMMA SoftwareAlways == CollectorsSpec => [](Software!TypeOK /\ Waiting /\ ToldIsWritten)
<1>1. CollectorsInit => Software!TypeOK /\ Waiting /\ ToldIsWritten
  BY SoftwareInit DEF CollectorsInit
<1>2. [CollectorsNext]_allVars => [Software!Next]_(Software!vars)
  BY DEF CollectorsNext, allVars, listVars, Software!vars, Software!scanVars,
     Software!peerVars
<1> QED
  BY <1>1, <1>2, SoftwareNext, PTL DEF CollectorsSpec

(* What the software collector takes for told is what it last wrote of the  *)
(* package, for any packages and versions                                   *)
(* (Collectors.ToldIsWritten; SoftwareCollector/main.go:77-85, 113-135).    *)
THEOREM VersionsTold == CollectorsSpec => []ToldIsWritten
<1> QED
  BY SoftwareAlways, PTL

-----------------------------------------------------------------------------
(* The log collector, too, does what it does by itself.                     *)
LogProofs == INSTANCE LogCollector_proofs WITH
  written <- logWritten, file <- logFile, out <- logOut, conn <- logConn,
  pipe <- logPipe, up <- logUp, received <- logReceived

LEMMA LogsAlone == CollectorsSpec => Log!Spec
<1>1. CollectorsInit => Log!Init
  BY DEF CollectorsInit
<1>2. [CollectorsNext]_allVars => [Log!Next]_(Log!vars)
  BY DEF CollectorsNext, allVars, logVars, Log!vars, Log!fileVars, Log!mainVars,
     Log!peerVars
<1> QED
  BY <1>1, <1>2, PTL DEF CollectorsSpec, Log!Spec

(* LogCollector_proofs speaks of the same log collector.                    *)
LEMMA SameState ==
  /\ LogProofs!LogCollectorAssumption
  /\ LogProofs!vars = Log!vars
  /\ LogProofs!Init <=> Log!Init
  /\ LogProofs!TypeOK <=> Log!TypeOK
  /\ LogProofs!InOrder <=> Log!InOrder
  /\ LogProofs!AccountedFor <=> Log!AccountedFor
<1>1. LogProofs!LogCollectorAssumption
  BY CollectorsAssumption DEF Log!LogCollectorAssumption,
     LogProofs!LogCollectorAssumption, Log!Lines, LogProofs!Lines, Log!Pieces,
     LogProofs!Pieces, Log!Entries, LogProofs!Entries
<1>2. LogProofs!vars = Log!vars
  BY DEF Log!vars, LogProofs!vars, Log!fileVars, LogProofs!fileVars, Log!mainVars,
     LogProofs!mainVars, Log!peerVars, LogProofs!peerVars
<1>3. LogProofs!Init <=> Log!Init
  BY DEF Log!Init, LogProofs!Init
<1>4. LogProofs!TypeOK <=> Log!TypeOK
  BY DEF Log!TypeOK, LogProofs!TypeOK, Log!Lines, LogProofs!Lines, Log!Pieces,
     LogProofs!Pieces, Log!Entries, LogProofs!Entries
<1>5. /\ \A f : LogProofs!Ends(f) = Log!Ends(f) /\ LogProofs!OfFile(f) = Log!OfFile(f)
      /\ \A f : LogProofs!Flow(f) = Log!Flow(f) /\ LogProofs!ReceivedOf(f) = Log!ReceivedOf(f)
  BY DEF Log!Ends, LogProofs!Ends, Log!OfFile, LogProofs!OfFile, Log!Flow,
     LogProofs!Flow, Log!Taken, LogProofs!Taken, Log!ReceivedOf,
     LogProofs!ReceivedOf
<1>6. LogProofs!InOrder <=> Log!InOrder
  BY <1>5 DEF Log!InOrder, LogProofs!InOrder
<1>7. LogProofs!AccountedFor <=> Log!AccountedFor
  BY <1>5 DEF Log!AccountedFor, LogProofs!AccountedFor, Log!Started,
     LogProofs!Started
<1> QED
  BY <1>1, <1>2, <1>3, <1>4, <1>6, <1>7

LEMMA SameSteps == [Log!Next]_(Log!vars) <=> [LogProofs!Next]_(LogProofs!vars)
<1> USE DEF Log!fileVars, LogProofs!fileVars, Log!mainVars, LogProofs!mainVars,
            Log!peerVars, LogProofs!peerVars
<1>1. \A f \in Logs : LogProofs!Write(f) <=> Log!Write(f)
  BY DEF Log!Write, LogProofs!Write, Log!Appended, LogProofs!Appended
<1>2. \A f \in Logs : LogProofs!WriteRest(f) <=> Log!WriteRest(f)
  BY DEF Log!WriteRest, LogProofs!WriteRest, Log!Appended, LogProofs!Appended
<1>3. \A f \in Logs : LogProofs!Rotate(f) <=> Log!Rotate(f)
  BY DEF Log!Rotate, LogProofs!Rotate, Log!Fault, LogProofs!Fault
<1>4. \A f \in Logs : LogProofs!Open(f) <=> Log!Open(f)
  BY DEF Log!Open, LogProofs!Open
<1>5. \A f \in Logs : LogProofs!ReadLine(f) <=> Log!ReadLine(f)
  BY DEF Log!ReadLine, LogProofs!ReadLine, Log!Rest, LogProofs!Rest
<1>6. \A f \in Logs : LogProofs!ReadEOF(f) <=> Log!ReadEOF(f)
  BY DEF Log!ReadEOF, LogProofs!ReadEOF
<1>7. \A f \in Logs : LogProofs!ReadError(f) <=> Log!ReadError(f)
  BY DEF Log!ReadError, LogProofs!ReadError, Log!Fault, LogProofs!Fault,
     Log!UnreadLines, LogProofs!UnreadLines
<1>8. \A f \in Logs : LogProofs!Put(f) <=> Log!Put(f)
  BY DEF Log!Put, LogProofs!Put
<1>9. LogProofs!Dial <=> Log!Dial
  BY DEF Log!Dial, LogProofs!Dial
<1>10. LogProofs!Take <=> Log!Take
  BY DEF Log!Take, LogProofs!Take
<1>11. LogProofs!Sent <=> Log!Sent
  BY DEF Log!Sent, LogProofs!Sent
<1>12. LogProofs!SendFails <=> Log!SendFails
  BY DEF Log!SendFails, LogProofs!SendFails, Log!AfterFailure,
     LogProofs!AfterFailure
<1>13. LogProofs!Receive <=> Log!Receive
  BY DEF Log!Receive, LogProofs!Receive
<1>14. LogProofs!Stop <=> Log!Stop
  BY DEF Log!Stop, LogProofs!Stop, Log!Fault, LogProofs!Fault
<1>15. LogProofs!Start <=> Log!Start
  BY DEF Log!Start, LogProofs!Start
<1>16. Log!Next <=> LogProofs!Next
  BY <1>1, <1>2, <1>3, <1>4, <1>5, <1>6, <1>7, <1>8, <1>9, <1>10, <1>11, <1>12, <1>13, <1>14,
     <1>15 DEF Log!Next, LogProofs!Next
<1>17. UNCHANGED Log!vars <=> UNCHANGED LogProofs!vars
  BY DEF Log!vars, LogProofs!vars
<1> QED
  BY <1>16, <1>17

(* In the file order, each once, and none is gone unless a failure cost it: *)
(* the lines of the logs, among the other collectors                        *)
(* (Collectors.LinesAccountedFor; LogCollector/main.go:263-285, 312-317).    *)
THEOREM LogsCollected == CollectorsSpec => []LinesAccountedFor
<1>1. LogProofs!Spec => []LogProofs!InOrder /\ []LogProofs!AccountedFor
  BY SameState, LogProofs!LinesInOrder, LogProofs!LinesKept, PTL
<1>2. LogProofs!Spec <=> Log!Spec
  BY SameState, SameSteps, PTL DEF LogProofs!Spec, Log!Spec
<1>3. LogProofs!InOrder /\ LogProofs!AccountedFor => LinesAccountedFor
  BY SameState DEF LinesAccountedFor
<1> QED
  BY <1>1, <1>2, <1>3, LogsAlone, PTL

(* The queues of all three stay within what the code and the kernel give    *)
(* them, and hold what they are for (Collectors.CollectorsTypeOK;           *)
(* FileCollector/main.go:128, LogCollector/main.go:294,                     *)
(* SoftwareCollector/main.go:77-135).                                       *)
THEOREM CollectorsTyped == CollectorsSpec => []CollectorsTypeOK
<1>1. CollectorsSpec => []TypeOK
  BY FilesAlone, TypeCorrect, PTL
<1>2. LogProofs!Spec => []LogProofs!TypeOK
  BY SameState, LogProofs!LogsTyped
<1>3. LogProofs!Spec <=> Log!Spec
  BY SameState, SameSteps, PTL DEF LogProofs!Spec, Log!Spec
<1>4. TypeOK /\ LogProofs!TypeOK /\ (Software!TypeOK /\ Waiting /\ ToldIsWritten)
        => CollectorsTypeOK
  BY SameState DEF CollectorsTypeOK
<1> QED
  BY <1>1, <1>2, <1>3, <1>4, LogsAlone, SoftwareAlways, PTL
=============================================================================
