---------------------------- MODULE LogCollector ----------------------------
(***************************************************************************)
(* The log collector: a goroutine per log file reads the lines that are    *)
(* appended to it, parses them and puts them into a channel; a main loop   *)
(* sends them to agentCollector over a Unix socket (LogCollector/main.go,  *)
(* agentCollector/main.go:221-261).                                        *)
(*                                                                         *)
(* A program appends a line whole or in two pieces; only the second ends   *)
(* in a newline.  What is read is a record [line, part]: ReadString at the *)
(* end of the file returns what there is of a line together with EOF, and  *)
(* the loop drops it, so a record may be the "tail" of a line.  How a line  *)
(* is parsed is data; empty lines, which are skipped, are left out.        *)
(***************************************************************************)
EXTENDS Naturals, Sequences

CONSTANTS
  Logs,        \* logFilePaths
  None,
  ChanCap,     \* capacity of logChan (1000 in the code)
  PipeCap,     \* records the Unix connection buffers
  MaxLines,    \* bound: lines written to each file
  MaxFaults    \* bound: read errors, rotations, failed writes, stops

Lines == UNION {{f} \X (1..MaxLines[f]) : f \in Logs}
Pieces == [line : Lines, part : {"whole", "head", "tail"}]
Entries == [line : Lines, part : {"whole", "tail"}]

(* What Collectors assumes of the constants. *)
LogCollectorAssumption ==
  /\ ChanCap \in Nat \ {0} /\ PipeCap \in Nat \ {0}
  /\ MaxLines \in [Logs -> Nat] /\ MaxFaults \in Nat
  /\ None \notin Entries

VARIABLES
  written,     \* how many lines have been started in each file
  half,        \* is the last of them not complete
  unread,      \* pieces after the position of the reader, in the file it reads
  file,        \* "closed", "current", or "renamed" by a rotation
  out,         \* the record a goroutine is putting into logChan
  logChan,
  conn,        \* main: "none", "open", or "broken" by agentCollector's end
  data,        \* the record main has taken
  pipe,        \* records on the connection
  up,          \* agentCollector runs
  received,    \* history: what agentCollector has read
  lost,        \* history: lines of which no more is to come
  faults

fileVars == <<written, half, unread, file>>
mainVars == <<conn, data>>
peerVars == <<pipe, up, received>>
vars == <<fileVars, out, logChan, mainVars, peerVars, lost, faults>>

TypeOK ==
  /\ written \in [Logs -> Nat] /\ \A f \in Logs : written[f] <= MaxLines[f]
  /\ half \in [Logs -> BOOLEAN]
  /\ unread \in [Logs -> Seq(Pieces)]
  /\ file \in [Logs -> {"closed", "current", "renamed"}]
  /\ out \in [Logs -> Entries \cup {None}]
  /\ logChan \in Seq(Entries) /\ Len(logChan) <= ChanCap
  /\ conn \in {"none", "open", "broken"} /\ data \in Entries \cup {None}
  /\ pipe \in Seq(Entries) /\ Len(pipe) <= PipeCap
  /\ up \in BOOLEAN /\ received \subseteq Entries
  /\ lost \subseteq Lines /\ faults \in 0..MaxFaults

Init ==
  /\ written = [f \in Logs |-> 0] /\ half = [f \in Logs |-> FALSE]
  /\ unread = [f \in Logs |-> <<>>] /\ file = [f \in Logs |-> "closed"]
  /\ out = [f \in Logs |-> None]
  /\ logChan = <<>> /\ conn = "none" /\ data = None
  /\ pipe = <<>> /\ up = TRUE /\ received = {} /\ lost = {} /\ faults = 0

Fault == faults < MaxFaults /\ faults' = faults + 1

-----------------------------------------------------------------------------
(* A program appends to the log; a renamed or closed file does not see it.  *)
Appended(f, n, part) ==
  IF file[f] = "current"
  THEN /\ unread' = [unread EXCEPT ![f] = Append(@, [line |-> <<f, n>>, part |-> part])]
       /\ UNCHANGED lost
  ELSE /\ lost' = lost \cup {<<f, n>>}
       /\ UNCHANGED unread

Write(f) ==
  /\ ~ half[f] /\ written[f] < MaxLines[f]
  /\ written' = [written EXCEPT ![f] = @ + 1]
  /\ \E part \in {"whole", "head"} :
       /\ half' = [half EXCEPT ![f] = part = "head"]
       /\ Appended(f, written[f] + 1, part)
  /\ UNCHANGED <<file, out, logChan, mainVars, peerVars, faults>>

WriteRest(f) ==
  /\ half[f]
  /\ half' = [half EXCEPT ![f] = FALSE]
  /\ Appended(f, written[f], "tail")
  /\ UNCHANGED <<written, file, out, logChan, mainVars, peerVars, faults>>

(* logrotate renames the file and the next line goes to a new one. *)
Rotate(f) ==
  /\ ~ half[f] /\ file[f] = "current" /\ Fault
  /\ file' = [file EXCEPT ![f] = "renamed"]
  /\ UNCHANGED <<written, half, unread, out, logChan, mainVars, peerVars, lost>>

-----------------------------------------------------------------------------
(* os.Open and Seek to the end. *)
Open(f) ==
  /\ file[f] = "closed"
  /\ file' = [file EXCEPT ![f] = "current"]
  /\ UNCHANGED <<written, half, unread, out, logChan, mainVars, peerVars, lost, faults>>

(* ReadString returns a line, or what there is of one. *)
OneTooFar(pieces, i) == SubSeq(pieces, i + 2, Len(pieces))  \* mutant
Rest(pieces, i) == SubSeq(pieces, i + 1, Len(pieces))
ReadLine(f) ==
  /\ file[f] # "closed" /\ out[f] = None
  /\ \E i \in 1..Len(unread[f]) :
       /\ unread[f][i].part # "head"
       /\ \A j \in 1..(i - 1) : unread[f][j].part = "head"
       /\ out' = [out EXCEPT ![f] =
            [line |-> unread[f][i].line,
             part |-> IF i = 1 THEN unread[f][i].part ELSE "whole"]]
       /\ unread' = [unread EXCEPT ![f] = Rest(@, i)]
  /\ UNCHANGED <<written, half, file, logChan, mainVars, peerVars, lost, faults>>

(* At the end of the file: 500 ms later the rest is read as a line. *)
ReadEOF(f) ==
  /\ file[f] # "closed" /\ out[f] = None
  /\ unread[f] # <<>> /\ \A i \in 1..Len(unread[f]) : unread[f][i].part = "head"
  /\ unread' = [unread EXCEPT ![f] = <<>>]
  /\ UNCHANGED <<written, half, file, out, logChan, mainVars, peerVars, lost, faults>>

(* Another error: the file is opened again, at its end. *)
UnreadLines(f) == {unread[f][i].line : i \in 1..Len(unread[f])}
ReadError(f) ==
  /\ file[f] # "closed" /\ out[f] = None /\ Fault
  /\ file' = [file EXCEPT ![f] = "closed"]
  /\ unread' = [unread EXCEPT ![f] = <<>>]
  /\ lost' = lost \cup UnreadLines(f)
  /\ UNCHANGED <<written, half, out, logChan, mainVars, peerVars>>

Put(f) ==
  /\ out[f] # None /\ Len(logChan) < ChanCap
  /\ logChan' = Append(logChan, out[f])
  /\ out' = [out EXCEPT ![f] = None]
  /\ UNCHANGED <<fileVars, mainVars, peerVars, lost, faults>>

-----------------------------------------------------------------------------
Dial ==
  /\ conn = "none" /\ up
  /\ conn' = "open"
  /\ UNCHANGED <<fileVars, out, logChan, data, peerVars, lost, faults>>

Take ==
  /\ conn # "none" /\ data = None /\ logChan # <<>>
  /\ data' = Head(logChan) /\ logChan' = Tail(logChan)
  /\ UNCHANGED <<fileVars, out, conn, peerVars, lost, faults>>

Sent ==
  /\ conn = "open" /\ data # None /\ Len(pipe) < PipeCap
  /\ pipe' = Append(pipe, data)
  /\ data' = None
  /\ UNCHANGED <<fileVars, out, logChan, conn, up, received, lost, faults>>

(* break: the record that could not be written is dropped.  *)
PutBack == Append(logChan, data)                           \* mutant
AfterFailure == logChan
SendFails ==
  /\ conn = "broken" /\ data # None
  /\ data' = None /\ logChan' = AfterFailure
  /\ conn' = "none"
  /\ lost' = lost \cup {data.line}
  /\ UNCHANGED <<fileVars, out, peerVars, faults>>

(* agentCollector reads; or it ends, with what the connection still holds.  *)
Receive ==
  /\ up /\ conn = "open" /\ pipe # <<>>
  /\ received' = received \cup {Head(pipe)} /\ pipe' = Tail(pipe)
  /\ UNCHANGED <<fileVars, out, logChan, mainVars, up, lost, faults>>

Stop ==
  /\ up /\ Fault
  /\ up' = FALSE
  /\ conn' = IF conn = "open" THEN "broken" ELSE conn
  /\ pipe' = <<>>
  /\ lost' = lost \cup {pipe[i].line : i \in 1..Len(pipe)}
  /\ UNCHANGED <<fileVars, out, logChan, data, received>>

Start ==
  /\ ~ up
  /\ up' = TRUE
  /\ UNCHANGED <<fileVars, out, logChan, mainVars, pipe, received, lost, faults>>

Next ==
  \/ \E f \in Logs :
       \/ Write(f) \/ WriteRest(f) \/ Rotate(f)
       \/ Open(f) \/ ReadLine(f) \/ ReadEOF(f) \/ ReadError(f) \/ Put(f)
  \/ Dial \/ Take \/ Sent \/ SendFails
  \/ Receive \/ Stop \/ Start

Spec == Init /\ [][Next]_vars

(* Goroutines run, agentCollector reads, and who began a line ends it.  The  *)
(* channel is full again and again: Go serves blocked senders in turn.       *)
Fairness ==
  /\ \A f \in Logs :
       /\ WF_vars(WriteRest(f)) /\ WF_vars(Open(f)) /\ WF_vars(ReadLine(f))
       /\ SF_vars(Put(f))
  /\ WF_vars(Dial) /\ WF_vars(Take) /\ WF_vars(Sent) /\ WF_vars(SendFails)
  /\ WF_vars(Receive)

FairSpec == Spec /\ Fairness

-----------------------------------------------------------------------------
(* What is under way between a file and agentCollector, the oldest first,   *)
(* and where in it the pieces of the file are, and the ends of its lines.   *)
Taken(e) == IF e = None THEN <<>> ELSE <<e>>
Flow(f) == pipe \o Taken(data) \o logChan \o Taken(out[f]) \o unread[f]
OfFile(f) == {i \in 1..Len(Flow(f)) : Flow(f)[i].line[1] = f}
Ends(f) == {i \in OfFile(f) : Flow(f)[i].part # "head"}
ReceivedOf(f) == {e.line[2] : e \in {e \in received : e.line[1] = f}}
Started(f) == 1..written[f]

(* The lines of a file arrive in their order, each once                     *)
(* (LogCollector/main.go:263-285, 312-317): whatever fails, what has arrived  *)
(* is older than what is under way.                                         *)
InOrder ==
  \A f \in Logs :
    /\ \A i, j \in Ends(f) : i < j => Flow(f)[i].line[2] < Flow(f)[j].line[2]
    /\ \A n \in ReceivedOf(f), i \in OfFile(f) : n < Flow(f)[i].line[2]

(* A line that no failure of a file or a connection has cost, and that is    *)
(* complete, has arrived or is under way: as a whole, or as its tail if its   *)
(* reader met the end of the file in its middle (main.go:264-268).            *)
AccountedFor ==
  \A f \in Logs : \A n \in Started(f) :
    \/ <<f, n>> \in lost
    \/ n = written[f] /\ half[f]
    \/ n \in ReceivedOf(f)
    \/ \E i \in Ends(f) : Flow(f)[i].line[2] = n

(* If agentCollector always comes back, everything written arrives, or a     *)
(* failure has cost it (agents/README.md:12, "report continuously"): neither  *)
(* a full channel nor a broken connection stops the collector.               *)
Arrive ==
  []<>up => \A f \in Logs :
    <>[](\A n \in Started(f) : n \in ReceivedOf(f) \/ <<f, n>> \in lost)
=============================================================================
