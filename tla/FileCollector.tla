---------------------------- MODULE FileCollector ----------------------------
(***************************************************************************)
(* The file integrity collector: a goroutine that reads batches of inotify *)
(* events, keeps a baseline of every watched file and reports changes to a *)
(* channel, and a main loop that sends the reports to agentCollector.      *)
(*                                                                         *)
(* What is known of a file (size, mode, owner, inode, hash) is a version   *)
(* number: every change gives the file a version it never had.  The 500 ms *)
(* of shouldProcess are a flag that a timer clears.  An event that isNoise *)
(* or shouldProcess rejects is met by `continue`, which skips the advance  *)
(* of `offset` at the end of the loop: the goroutine looks at the same     *)
(* event again.  That is no step here, so the rejection is a guard.        *)
(*                                                                         *)
(* A directory that is created gets a watch when its event is handled;     *)
(* until then what happens in it raises no event.  It is removed when it    *)
(* is empty.  Directories of directories would repeat this.                *)
(***************************************************************************)
EXTENDS Naturals, Sequences, FiniteSets

CONSTANTS
  Paths,       \* files and directories below the watched directories
  Dirs,        \* those that are directories
  HomeOf,      \* the directory a file is created in; None for one of main's
  Noise,       \* paths whose name isNoise rejects
  None,
  QueueCap,    \* events the kernel keeps (max_queued_events, 16384)
  ChanCap,     \* capacity of eventChan (10000 in the code)
  MaxChanges,  \* bound: changes made to the files
  MaxFails     \* bound: failures of the connection to agentCollector

ASSUME FileCollectorAssumption ==
  /\ Noise \subseteq Paths /\ Dirs \subseteq Paths
  /\ HomeOf \in [Paths -> Dirs \cup {None}] /\ \A d \in Dirs : HomeOf[d] = None
  /\ QueueCap \in Nat \ {0} /\ ChanCap \in Nat \ {0} /\ MaxChanges \in Nat /\ MaxFails \in Nat
  /\ None \notin Nat \cup Paths

VARIABLES
  files, changes,   \* what is on disk, and how often it was changed
  kernel,           \* the inotify queue
  watched,          \* directories in watchDescriptors that the kernel knows
  unseen,           \* history: paths the kernel kept no event of their last change of, if any
  buf, offset,      \* events returned by read, and how many are done
  looked,           \* a created directory has been given its watch
  recent,           \* paths processed in the last 500 ms
  baseline,
  made,             \* how many reports were made
  out,              \* the report the goroutine is putting into eventChan
  chan,             \* eventChan
  conn, sending,    \* main: connected, and the report it took
  requeue,          \* goroutines that put a report back
  delivered,        \* reports handed to agentCollector
  fails

diskVars   == <<files, changes, kernel, watched, unseen>>
readerVars == <<buf, offset, looked, recent, baseline, made, out>>
senderVars == <<conn, sending, delivered, fails>>
vars       == <<diskVars, readerVars, chan, requeue, senderVars>>

Versions == 0..MaxChanges
Types == {"ADDED", "DELETED", "MODIFIED"}
Overflow == [path |-> None, type |-> "IN_Q_OVERFLOW"]
KernelEvents == [path : Paths, type : Types] \cup {Overflow}
Reports == [n : Nat, path : Paths, event : Types, version : Versions \cup {None}]
ASSUME NoReportAssumption == None \notin Reports

TypeOK ==
  /\ files \in [Paths -> Versions \cup {None}] /\ changes \in Versions
  /\ kernel \in Seq(KernelEvents) /\ Len(kernel) <= QueueCap + 1
  /\ watched \subseteq Dirs /\ unseen \subseteq Paths /\ looked \in BOOLEAN
  /\ buf \in Seq(KernelEvents) /\ offset \in 0..Len(buf)
  /\ recent \in [Paths -> BOOLEAN]
  /\ baseline \in [Paths -> Versions \cup {None}]
  /\ made \in Nat /\ out \in Reports \cup {None}
  /\ chan \in Seq(Reports) /\ Len(chan) <= ChanCap
  /\ conn \in BOOLEAN /\ sending \in Reports \cup {None}
  /\ requeue \subseteq Reports /\ delivered \subseteq Reports
  /\ fails \in 0..MaxFails

HasPlace(p) == HomeOf[p] # None => files[HomeOf[p]] # None

(* The files are scanned into the baseline and the directories watched      *)
(* before events are read.                                                  *)
Init ==
  /\ files \in [Paths -> {0, None}]
  /\ \A p \in Paths : files[p] # None => HasPlace(p)
  /\ changes = 0 /\ kernel = <<>>
  /\ watched = {d \in Dirs : files[d] # None} /\ unseen = {p \in Paths : files[p] = None}
  /\ buf = <<>> /\ offset = 0 /\ looked = FALSE
  /\ recent = [p \in Paths |-> FALSE]
  /\ baseline = files
  /\ made = 0 /\ out = None /\ chan = <<>>
  /\ conn = FALSE /\ sending = None
  /\ requeue = {} /\ delivered = {} /\ fails = 0

-----------------------------------------------------------------------------
(* A watched file is created, written to, or removed, an empty directory    *)
(* created or removed.  A full queue takes one event of overflow, which     *)
(* names no path, and drops the others; an event that equals the last one    *)
(* is dropped too.  IN_IGNORED of a removed directory, which the loop skips,  *)
(* is left out.                                                             *)
Heard(p) == (HomeOf[p] = None \/ HomeOf[p] \in watched) /\ Len(kernel) < QueueCap

Queued(p, t) ==
  LET e == [path |-> p, type |-> t]
  IN  IF Heard(p)
      THEN IF kernel # <<>> /\ kernel[Len(kernel)] = e THEN kernel ELSE Append(kernel, e)
      ELSE IF Len(kernel) < QueueCap \/ \E i \in 1..Len(kernel) : kernel[i] = Overflow
      THEN kernel ELSE Append(kernel, Overflow)

Happens(p, t, v) ==
  /\ changes < MaxChanges
  /\ changes' = changes + 1
  /\ files' = [files EXCEPT ![p] = v]
  /\ kernel' = Queued(p, t)
  /\ unseen' = IF Heard(p) THEN unseen \ {p} ELSE unseen \cup {p}
  /\ watched' = IF t = "DELETED" THEN watched \ {p} ELSE watched
  /\ UNCHANGED <<readerVars, chan, requeue, senderVars>>

Change(p) ==
  \/ /\ files[p] # None /\ p \notin Dirs
     /\ Happens(p, "MODIFIED", changes + 1)
  \/ /\ files[p] = None /\ HasPlace(p)
     /\ Happens(p, "ADDED", changes + 1)
  \/ /\ files[p] # None /\ \A q \in Paths : HomeOf[q] = p => files[q] = None
     /\ Happens(p, "DELETED", None)

TooFar == offset + 2                                       \* mutant
NextOffset == offset + 1

(* syscall.Read: some of the queued events. *)
Read ==
  /\ offset = Len(buf) /\ kernel # <<>>
  /\ \E k \in 1..Len(kernel) :
       /\ buf' = SubSeq(kernel, 1, k)
       /\ kernel' = SubSeq(kernel, k + 1, Len(kernel))
  /\ offset' = 0
  /\ UNCHANGED <<files, changes, watched, unseen, looked, recent, baseline, made,
                 out, chan, requeue, senderVars>>

(* watchDescriptors does not know the descriptor of an overflow. *)
SkipOverflow ==
  /\ offset < Len(buf) /\ buf[offset + 1] = Overflow
  /\ offset' = NextOffset
  /\ UNCHANGED <<diskVars, buf, looked, recent, baseline, made, out, chan, requeue,
                 senderVars>>

isNoise(p) == p \in Noise
shouldProcess(p) == ~ recent[p]

(* getFileMetadata and the baseline: a DELETED event removes the file from  *)
(* it, any other stores what is on disk by now, unless it cannot be read.   *)
BaselineIfKnown(e) ==                                      \* mutant
  IF e.type = "DELETED" THEN None
  ELSE IF baseline[e.path] = None THEN None ELSE files[e.path]
BaselineAfter(e) ==
  IF e.type = "DELETED" THEN None
  ELSE IF files[e.path] = None THEN baseline[e.path] ELSE files[e.path]

(* A directory that was created is watched, if it still exists.  A rejected *)
(* event comes here again.                                                  *)
IsNewDir(e) == e.type = "ADDED" /\ e.path \in Dirs
Settled == {d \in Dirs : shouldProcess(d)}                 \* mutant
MayBeWatched == Dirs
Look ==
  /\ offset < Len(buf) /\ out = None /\ IsNewDir(buf[offset + 1])
  /\ looked' = TRUE
  /\ watched' = watched \cup ({d \in MayBeWatched : files[d] # None} \cap {buf[offset + 1].path})
  /\ UNCHANGED <<files, changes, kernel, unseen, buf, offset, recent, baseline, made,
                 out, chan, requeue, senderVars>>

Handle ==
  /\ offset < Len(buf) /\ out = None
  /\ LET e == buf[offset + 1] IN
       /\ e # Overflow /\ (IsNewDir(e) => looked)
       /\ ~ isNoise(e.path) /\ shouldProcess(e.path)
       /\ recent' = [recent EXCEPT ![e.path] = TRUE]
       /\ baseline' = [baseline EXCEPT ![e.path] = BaselineAfter(e)]
       /\ made' = made + 1
       /\ out' = [n |-> made, path |-> e.path, event |-> e.type,
                  version |-> IF e.type = "DELETED" THEN None ELSE files[e.path]]
  /\ UNCHANGED <<diskVars, buf, offset, looked, chan, requeue, senderVars>>

(* eventChan <- report, then offset advances. *)
Put ==
  /\ out # None /\ Len(chan) < ChanCap
  /\ chan' = Append(chan, out)
  /\ out' = None
  /\ offset' = NextOffset /\ looked' = FALSE
  /\ UNCHANGED <<diskVars, buf, recent, baseline, made, requeue, senderVars>>

DebounceOver(p) ==
  /\ recent[p]
  /\ recent' = [recent EXCEPT ![p] = FALSE]
  /\ UNCHANGED <<diskVars, buf, offset, looked, baseline, made, out, chan, requeue,
                 senderVars>>

-----------------------------------------------------------------------------
(* main: dial, take a report, send it.  *)
Dial ==
  /\ ~ conn
  /\ conn' = TRUE
  /\ UNCHANGED <<diskVars, readerVars, chan, requeue, sending, delivered, fails>>

Take ==
  /\ conn /\ sending = None /\ chan # <<>>
  /\ sending' = Head(chan)
  /\ chan' = Tail(chan)
  /\ UNCHANGED <<diskVars, readerVars, requeue, conn, delivered, fails>>

Send ==
  /\ sending # None
  /\ delivered' = delivered \cup {sending}
  /\ sending' = None
  /\ UNCHANGED <<diskVars, readerVars, chan, requeue, conn, fails>>

(* The write fails: the report goes to a goroutine that puts it back.  *)
NothingKept == {}                                          \* mutant
Kept == {sending}
Again == sending                                           \* mutant
NoReport == None
SendFails ==
  /\ sending # None /\ fails < MaxFails
  /\ fails' = fails + 1
  /\ conn' = FALSE
  /\ requeue' = requeue \cup Kept
  /\ sending' = NoReport
  /\ UNCHANGED <<diskVars, readerVars, chan, delivered>>

Requeue(r) ==
  /\ r \in requeue /\ Len(chan) < ChanCap
  /\ chan' = Append(chan, r)
  /\ requeue' = requeue \ {r}
  /\ UNCHANGED <<diskVars, readerVars, senderVars>>

-----------------------------------------------------------------------------
Next ==
  \/ \E p \in Paths : Change(p) \/ DebounceOver(p)
  \/ Read \/ SkipOverflow \/ Look \/ Handle \/ Put
  \/ Dial \/ Take \/ Send \/ SendFails
  \/ \E r \in requeue : Requeue(r)

Spec == Init /\ [][Next]_vars

(* Goroutines run, the timer runs out, agentCollector listens and, MaxFails *)
(* failures apart, reads what it is sent.                                   *)
Fairness ==
  /\ WF_vars(Read) /\ WF_vars(SkipOverflow) /\ WF_vars(Look) /\ WF_vars(Handle) /\ WF_vars(Put)
  /\ \A p \in Paths : WF_vars(DebounceOver(p))
  /\ WF_vars(Dial) /\ WF_vars(Take) /\ WF_vars(Send)
  /\ SF_vars(\E r \in requeue : Requeue(r))

FairSpec == Spec /\ Fairness

-----------------------------------------------------------------------------
(* The events the goroutine has not dealt with yet. *)
PendingOn(p) ==
  \/ \E i \in 1..Len(kernel) : kernel[i].path = p
  \/ \E i \in 1..Len(buf) : /\ i > IF out = None THEN offset ELSE offset + 1
                            /\ buf[i].path = p

CreationPending(d) ==
  \/ \E i \in 1..Len(kernel) : kernel[i] = [path |-> d, type |-> "ADDED"]
  \/ \E i \in (offset + 1)..Len(buf) :
       buf[i] = [path |-> d, type |-> "ADDED"] /\ (i > offset + 1 \/ out = None)

(* The baseline differs from the disk only while an event of the file is    *)
(* pending, or after a change the kernel kept no event of, because its queue *)
(* was full or the directory not watched yet (main.go:219-299): no other     *)
(* change goes unnoticed, and the old hash of the next report is what the    *)
(* file really had, however changes, removals and readings interleave.       *)
NoUnnoticedChange ==
  \A p \in Paths : baseline[p] # files[p] => PendingOn(p) \/ p \in unseen

(* A directory that exists is watched, or the event of its creation is still *)
(* to come, or the kernel dropped it (main.go:223-229): however often it is   *)
(* removed and created while its events are late, the goroutine does not     *)
(* stay blind to it.                                                        *)
NoBlindDirectory ==
  \A d \in Dirs : files[d] # None => d \in watched \/ d \in unseen \/ CreationPending(d)

(* Every report is in exactly one place until it is delivered               *)
(* (main.go:301-338): none is lost and none doubled by a failed connection. *)
Held(n) ==
  (IF out # None /\ out.n = n THEN {<<"out", 1>>} ELSE {})
  \cup {<<"chan", i>> : i \in {i \in 1..Len(chan) : chan[i].n = n}}
  \cup (IF sending # None /\ sending.n = n THEN {<<"sending", 1>>} ELSE {})
  \cup {<<"requeue", 1>> : r \in {r \in requeue : r.n = n}}
  \cup {<<"delivered", 1>> : r \in {r \in delivered : r.n = n}}
ReportsAccountedFor ==
  \A n \in 0..(made - 1) : Cardinality(Held(n)) = 1

(* What a file has become when it stops changing is reported to              *)
(* agentCollector, unless its last change raised no event                   *)
(* (agents/README.md:13).                                                   *)
Reported(p, v) ==
  \E r \in delivered : /\ r.path = p /\ r.version = v
                       /\ v = None => r.event = "DELETED"
ChangesDelivered ==
  \A p \in Paths \ Noise :
    <>[](files[p] = 0 \/ p \in unseen \/ Reported(p, files[p]))
=============================================================================
