-------------------------- MODULE SoftwareCollector --------------------------
(***************************************************************************)
(* The software collector: every minute a scan of the installed packages;  *)
(* all of them are sent if 12 hours have passed since that was last done,  *)
(* else those that are new or have another version than at the last send   *)
(* (SoftwareCollector/main.go).  A list is one line on the Unix connection *)
(* to agentCollector, which may end with lines in it it has not read.      *)
(*                                                                         *)
(* Sending repeats until a write succeeds.  A failed dpkg-query changes    *)
(* nothing; the scan is one action.                                        *)
(***************************************************************************)
EXTENDS Naturals, Sequences

CONSTANTS
  Packages, None,
  Versions,      \* versions a package may have
  PipeCap,       \* lists the connection buffers
  MaxChanges,    \* bound: installations, updates and removals
  MaxStarts      \* bound: how often agentCollector is started again

(* What Collectors assumes of the constants. *)
SoftwareCollectorAssumption ==
  /\ None \notin Versions /\ PipeCap \in Nat \ {0}
  /\ MaxChanges \in Nat /\ MaxStarts \in Nat

VARIABLES
  installed, changes,   \* what dpkg knows
  lastPackages,         \* what the last list that was sent was computed from
  halfDay,              \* 12 hours have passed since lastFullScan
  current, toSend,      \* currentMap and packagesToSend, None if there are none
  conn,                 \* "none", "open", or "broken" by agentCollector's end
  pipe,                 \* lists on the connection
  up,                   \* agentCollector runs
  written,              \* history: the version last written of each package
  received,             \* history: the version last read of each package
  starts

scanVars == <<lastPackages, halfDay, current, toSend>>
peerVars == <<pipe, up, received, starts>>
vars == <<installed, changes, scanVars, conn, peerVars, written>>

Inventory == [Packages -> Versions \cup {None}]
Lists == {l \in Inventory : \E p \in Packages : l[p] # None}
Nothing == [p \in Packages |-> None]

TypeOK ==
  /\ {installed, lastPackages, written, received} \subseteq Inventory
  /\ changes \in 0..MaxChanges /\ halfDay \in BOOLEAN
  /\ current \in Inventory \cup {None} /\ toSend \in Lists \cup {None}
  /\ conn \in {"none", "open", "broken"}
  /\ pipe \in Seq(Lists) /\ Len(pipe) <= PipeCap
  /\ up \in BOOLEAN /\ starts \in 0..MaxStarts

Init ==
  /\ installed \in Inventory /\ changes = 0
  /\ lastPackages = Nothing /\ halfDay = TRUE
  /\ current = None /\ toSend = None
  /\ conn = "none" /\ pipe = <<>> /\ up = TRUE
  /\ written = Nothing /\ received = Nothing /\ starts = 0

-----------------------------------------------------------------------------
Install(p, v) ==
  /\ changes < MaxChanges /\ installed[p] # v
  /\ installed' = [installed EXCEPT ![p] = v]
  /\ changes' = changes + 1
  /\ UNCHANGED <<scanVars, conn, peerVars, written>>

TwelveHours ==
  /\ ~ halfDay
  /\ halfDay' = TRUE
  /\ UNCHANGED <<installed, changes, lastPackages, current, toSend, conn, peerVars,
                 written>>

(* After the connection is there; a list with no package in it is not sent. *)
newOrUpdated ==
  [p \in Packages |-> IF lastPackages[p] = installed[p] THEN None ELSE installed[p]]
OnlyChanges == newOrUpdated                                \* mutant
packagesToSend == IF halfDay THEN installed ELSE newOrUpdated

Scan ==
  /\ conn # "none" /\ toSend = None
  /\ halfDay' = FALSE
  /\ packagesToSend # Nothing
  /\ current' = installed /\ toSend' = packagesToSend
  /\ UNCHANGED <<installed, changes, lastPackages, conn, peerVars, written>>

(* A scan with nothing to send; only a full one leaves a trace. *)
EmptyScan ==
  /\ conn # "none" /\ toSend = None
  /\ packagesToSend = Nothing
  /\ halfDay' = FALSE
  /\ UNCHANGED <<installed, changes, lastPackages, current, toSend, conn, peerVars,
                 written>>

Over(old, list) == [p \in Packages |-> IF list[p] = None THEN old[p] ELSE list[p]]

(* conn.Write; then lastPackages is what was scanned before it. *)
SinceThen == installed                                     \* mutant
Scanned == current
Write ==
  /\ conn = "open" /\ toSend # None /\ Len(pipe) < PipeCap
  /\ pipe' = Append(pipe, toSend) /\ written' = Over(written, toSend)
  /\ lastPackages' = Scanned
  /\ current' = None /\ toSend' = None
  /\ UNCHANGED <<installed, changes, halfDay, conn, up, received, starts>>

WriteFails ==
  /\ conn = "broken" /\ toSend # None
  /\ conn' = "none"
  /\ UNCHANGED <<installed, changes, scanVars, peerVars, written>>

Dial ==
  /\ conn = "none" /\ up
  /\ conn' = "open"
  /\ UNCHANGED <<installed, changes, scanVars, peerVars, written>>

-----------------------------------------------------------------------------
(* agentCollector reads; or it ends, with what the connection still holds.  *)
Receive ==
  /\ up /\ conn = "open" /\ pipe # <<>>
  /\ received' = Over(received, Head(pipe)) /\ pipe' = Tail(pipe)
  /\ UNCHANGED <<installed, changes, scanVars, conn, up, starts, written>>

Stop ==
  /\ up
  /\ up' = FALSE
  /\ conn' = IF conn = "open" THEN "broken" ELSE conn
  /\ pipe' = <<>>
  /\ UNCHANGED <<installed, changes, scanVars, received, starts, written>>

Start ==
  /\ ~ up /\ starts < MaxStarts
  /\ up' = TRUE /\ starts' = starts + 1
  /\ UNCHANGED <<installed, changes, scanVars, conn, pipe, received, written>>

Next ==
  \/ \E p \in Packages, v \in Versions \cup {None} : Install(p, v)
  \/ TwelveHours
  \/ Scan \/ EmptyScan \/ Write \/ WriteFails \/ Dial
  \/ Receive \/ Stop \/ Start

Spec == Init /\ [][Next]_vars

(* The loop runs, time passes, agentCollector reads. *)
Fairness ==
  /\ WF_vars(TwelveHours) /\ WF_vars(Scan) /\ WF_vars(Write) /\ WF_vars(WriteFails)
  /\ WF_vars(Dial) /\ WF_vars(Receive)

FairSpec == Spec /\ Fairness

-----------------------------------------------------------------------------
(* What the collector takes for told is what it last wrote of the package    *)
(* (SoftwareCollector/main.go:77-85, 113-135), whatever is installed or       *)
(* removed while a list waits to be written: no update is skipped because an  *)
(* unsent scan had seen it.                                                 *)
ToldIsWritten ==
  \A p \in Packages : lastPackages[p] # None => written[p] = lastPackages[p]

(* A package that stays is received in its version, even if the list that    *)
(* first had it was lost with agentCollector, provided agentCollector always  *)
(* comes back (SoftwareCollector/main.go:88-99, agents/README.md:14).         *)
Received ==
  []<>up => \A p \in Packages :
    <>[](installed[p] = None \/ received[p] = installed[p])
=============================================================================
