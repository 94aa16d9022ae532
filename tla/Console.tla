------------------------------- MODULE Console -------------------------------
(***************************************************************************)
(* From the worker to the screen: the master passes the announcements of a *)
(* worker (Pipeline) on to the dashboards of the agent's owner              *)
(* (workerHandler.js:76-172), keeps the status of agents in the database    *)
(* (agentService.js, agentAuthController.js:67-73, 101-122) and knows the   *)
(* dashboards that are connected (uiHandler.js); a dashboard shows what it  *)
(* is sent over what it has loaded (useDashboardSocket.js, page.jsx).       *)
(*                                                                         *)
(* A message of a worker is handled over one or two queries; the answers    *)
(* arrive in any order, so tasks end in any order.  `last_active` counts as *)
(* recent for 10 minutes, far longer than a query takes.                    *)
(***************************************************************************)
EXTENDS Pipeline

CONSTANTS
  Users, Pages,
  Owners,        \* whom agents may belong to
  UserOf,        \* the user logged in on a page
  MaxTasks       \* bound: messages of workers being handled by the master

ASSUME ConsoleAssumption ==
  /\ Owners \subseteq [Agents -> Users] /\ UserOf \in [Pages -> Users]
  /\ MaxTasks \in Nat \ {0}

VARIABLES
  owner,      \* user_id of the agents
  status,     \* agent_status
  recent,     \* agents whose last_active is less than 10 minutes ago
  tasks,      \* messages being handled: [msg, query]
  swept,      \* agents a sweep has set offline and not announced yet
  ws,         \* the websocket of a page: "none", "open", "registered"
  ghost,      \* is a websocket whose page is gone in activeUIs, readyState 1
  loaded,     \* the status of its agents a page has fetched, None before
  statuses,   \* agentStatuses: what the websocket told it since
  shown,      \* the messages in its lists of logs and alerts
  missed,     \* history: messages that were not for a page that was away
  outdated    \* history: agents of which a page missed the last announcement

masterVars == <<owner, status, recent, tasks, swept>>
pageVars   == <<ws, ghost, loaded, statuses, shown, missed, outdated>>
vars       == <<workerVars, linkVars, signs, faults, masterVars, pageVars>>

Statuses == {"online", "offline"}
Tasks == [msg : Messages, query : {"update", "owner"}]

TypeOK ==
  /\ PipelineTypeOK
  /\ owner \in Owners
  /\ status \in [Agents -> Statuses] /\ recent \subseteq Agents
  /\ tasks \in Seq(Tasks) /\ Len(tasks) <= MaxTasks
  /\ swept \subseteq Agents
  /\ ws \in [Pages -> {"none", "open", "registered"}] /\ ghost \in BOOLEAN
  /\ loaded \in [Pages -> [Agents -> Statuses] \cup {None}]
  /\ statuses \in [Pages -> [Agents -> Statuses \cup {None}]]
  /\ shown \in [Pages -> SUBSET Messages]
  /\ missed \in [Pages -> SUBSET Messages]
  /\ outdated \in [Pages -> SUBSET Agents]

Init ==
  /\ PipelineInit
  /\ owner \in Owners
  /\ status = [a \in Agents |-> "offline"] /\ recent = {}
  /\ tasks = <<>> /\ swept = {}
  /\ ws = [p \in Pages |-> "none"] /\ ghost = FALSE
  /\ loaded = [p \in Pages |-> None]
  /\ statuses = [p \in Pages |-> [a \in Agents |-> None]]
  /\ shown = [p \in Pages |-> {}]
  /\ missed = [p \in Pages |-> {}] /\ outdated = [p \in Pages |-> {}]

-----------------------------------------------------------------------------
Owns(p, a) == UserOf[p] = owner[a]

(* What a page shows of an agent, None while it has not loaded its list.   *)
Shown(p, a) == IF statuses[p][a] # None THEN statuses[p][a]
               ELSE IF loaded[p] # None THEN loaded[p][a] ELSE None

activeUIs == {p \in Pages : ws[p] = "registered"}
AnyUI == activeUIs # {} \/ ghost

(* uiClient.user.userId === ownerUserId, readyState === 1 *)
ToEverybody(a) == activeUIs                                \* mutant
Receivers(a) == {p \in activeUIs : Owns(p, a)}

(* The pages R are sent that a has the status s; others of its owner that  *)
(* already show something miss it.                                         *)
AnnounceStatus(R, A, s) ==
  /\ statuses' = [p \in Pages |-> [a \in Agents |->
       IF p \in R /\ a \in A THEN s ELSE statuses[p][a]]]
  /\ outdated' = [p \in Pages |->
       IF p \in R THEN outdated[p] \ A
       ELSE outdated[p] \cup {a \in A : Owns(p, a) /\ Shown(p, a) # None}]
  /\ UNCHANGED <<shown, missed>>

AnnounceItem(R, msg) ==
  /\ shown' = [p \in Pages |-> IF p \in R THEN shown[p] \cup {msg} ELSE shown[p]]
  /\ missed' = [p \in Pages |-> IF p \in R THEN missed[p] ELSE missed[p] \cup {msg}]
  /\ UNCHANGED <<statuses, outdated>>

Announce(R, msg) ==
  IF msg.type = "UPDATE_LAST_ACTIVE" THEN AnnounceStatus(R, {msg.agent}, "online")
                                     ELSE AnnounceItem(R, msg)

-----------------------------------------------------------------------------
(* A message of the worker is read: a status update starts its UPDATE, log *)
(* and alert the query for the owner if any dashboard is connected.         *)
ReadMessage ==
  /\ toMaster # <<>> /\ Len(tasks) < MaxTasks
  /\ toMaster' = Tail(toMaster)
  /\ LET msg == Head(toMaster) IN
       \/ /\ msg.type = "UPDATE_LAST_ACTIVE"
          /\ tasks' = Append(tasks, [msg |-> msg, query |-> "update"])
          /\ UNCHANGED <<statuses, outdated, shown, missed>>
       \/ /\ msg.type # "UPDATE_LAST_ACTIVE" /\ AnyUI
          /\ tasks' = Append(tasks, [msg |-> msg, query |-> "owner"])
          /\ UNCHANGED <<statuses, outdated, shown, missed>>
       \/ /\ msg.type # "UPDATE_LAST_ACTIVE" /\ ~ AnyUI
          /\ Announce({}, msg)
          /\ UNCHANGED tasks
  /\ UNCHANGED <<workerVars, link, unsent, signs, faults, owner, status, recent, swept, ws, ghost,
                 loaded>>

(* updateLastActive; then the query for the owner, if a dashboard is there. *)
Updated(i) ==
  /\ i \in DOMAIN tasks /\ tasks[i].query = "update"
  /\ LET a == tasks[i].msg.agent IN
       /\ status' = [status EXCEPT ![a] = "online"]
       /\ recent' = recent \cup {a}
  /\ IF AnyUI THEN /\ tasks' = [tasks EXCEPT ![i].query = "owner"]
                   /\ UNCHANGED <<statuses, outdated, shown, missed>>
              ELSE /\ tasks' = RemoveAt(tasks, i)
                   /\ Announce({}, tasks[i].msg)
  /\ UNCHANGED <<workerVars, linkVars, signs, faults, owner, swept, ws, ghost, loaded>>

(* The owner is known: to the dashboards of this user. *)
Forward(i) ==
  /\ i \in DOMAIN tasks /\ tasks[i].query = "owner"
  /\ Announce(Receivers(tasks[i].msg.agent), tasks[i].msg)
  /\ tasks' = RemoveAt(tasks, i)
  /\ UNCHANGED <<workerVars, linkVars, signs, faults, owner, status, recent, swept, ws, ghost,
                 loaded>>

(* A query fails: the message is given up; the database may have done the  *)
(* UPDATE all the same.                                                     *)
QueryFails(i) ==
  /\ i \in DOMAIN tasks /\ Fault
  /\ tasks' = RemoveAt(tasks, i)
  /\ \/ UNCHANGED <<status, recent>>
     \/ /\ tasks[i].query = "update"
        /\ status' = [status EXCEPT ![tasks[i].msg.agent] = "online"]
        /\ recent' = recent \cup {tasks[i].msg.agent}
  /\ IF tasks[i].msg.type = "UPDATE_LAST_ACTIVE"
     THEN UNCHANGED <<shown, missed, statuses, outdated>>
     ELSE Announce({}, tasks[i].msg)
  /\ UNCHANGED <<workerVars, linkVars, signs, owner, swept, ws, ghost, loaded>>

(* The handshake of an agent sets its status, and tells no dashboard.       *)
Handshake(a) ==
  /\ Sign
  /\ status' = [status EXCEPT ![a] = "online"]
  /\ recent' = recent \cup {a}
  /\ UNCHANGED <<workerVars, linkVars, faults, owner, tasks, swept, pageVars>>

(* 10 minutes pass without a sign of life; queries are long over.           *)
Ages(a) ==
  /\ a \in recent /\ a \notin swept
  /\ \A i \in DOMAIN tasks : tasks[i].msg.agent # a
  /\ recent' = recent \ {a}
  /\ UNCHANGED <<workerVars, linkVars, signs, faults, owner, status, tasks, swept, pageVars>>

(* The UPDATE of the timer, each minute ...                                 *)
Disconnected == "disconnected"                             \* mutant
SweptStatus == "offline"
Silent == {a \in Agents : status[a] # "offline" /\ a \notin recent}
Sweep ==
  /\ Silent # {} /\ swept = {}
  /\ status' = [a \in Agents |-> IF a \in Silent THEN SweptStatus ELSE status[a]]
  /\ swept' = Silent
  /\ UNCHANGED <<workerVars, linkVars, signs, faults, owner, recent, tasks, pageVars>>

(* ... and, its answer there, AGENTS_DISCONNECTED to every dashboard.       *)
AnnounceIfMany(A) ==                                       \* mutant
  IF Cardinality(A) > 1 THEN AnnounceStatus(activeUIs, A, "offline")
  ELSE UNCHANGED <<statuses, outdated, shown, missed>>
AnnounceSwept(A) == AnnounceStatus(activeUIs, A, "offline")
SweepAnnounced ==
  /\ swept # {}
  /\ AnnounceSwept(swept)
  /\ swept' = {}
  /\ UNCHANGED <<workerVars, linkVars, signs, faults, owner, status, recent, tasks, ws, ghost,
                 loaded>>

-----------------------------------------------------------------------------
(* A page opens its websocket, at once or 3 seconds after the last ended.   *)
PageConnects(p) ==
  /\ ws[p] = "none"
  /\ ws' = [ws EXCEPT ![p] = "open"]
  /\ UNCHANGED <<workerVars, linkVars, signs, faults, masterVars, ghost, loaded, statuses, shown, missed, outdated>>

(* REGISTER_UI with a valid token.                                          *)
Registers(p) ==
  /\ ws[p] = "open"
  /\ ws' = [ws EXCEPT ![p] = "registered"]
  /\ UNCHANGED <<workerVars, linkVars, signs, faults, masterVars, ghost, loaded, statuses, shown, missed, outdated>>

(* Its list of agents arrives, once in its life.                            *)
PageLoads(p) ==
  /\ loaded[p] = None
  /\ loaded' = [loaded EXCEPT ![p] = status]
  /\ UNCHANGED <<workerVars, linkVars, signs, faults, masterVars, ws, ghost, statuses, shown, missed, outdated>>

(* The websocket of a page ends; the master may learn of it late.           *)
PageDisconnects(p) ==
  /\ ws[p] # "none" /\ Fault
  /\ ws' = [ws EXCEPT ![p] = "none"]
  /\ ghost' \in {ghost, ghost \/ ws[p] = "registered"}
  /\ UNCHANGED <<workerVars, linkVars, signs, masterVars, loaded, statuses, shown,
                 missed, outdated>>

(* The page is loaded again: it forgets what it has been sent.              *)
PageReloads(p) ==
  /\ Fault
  /\ ws' = [ws EXCEPT ![p] = "none"]
  /\ ghost' \in {ghost, ghost \/ ws[p] = "registered"}
  /\ loaded' = [loaded EXCEPT ![p] = None]
  /\ statuses' = [statuses EXCEPT ![p] = [a \in Agents |-> None]]
  /\ missed' = [missed EXCEPT ![p] = @ \cup shown[p]]
  /\ shown' = [shown EXCEPT ![p] = {}]
  /\ outdated' = [outdated EXCEPT ![p] = {}]
  /\ UNCHANGED <<workerVars, linkVars, signs, masterVars>>

(* ws.on('close') of the websocket of a page that is gone.                  *)
GhostCloses ==
  /\ ghost
  /\ ghost' = FALSE
  /\ UNCHANGED <<workerVars, linkVars, signs, faults, masterVars, ws, loaded, statuses, shown, missed, outdated>>

-----------------------------------------------------------------------------
Next ==
  \/ PipelineNext /\ UNCHANGED <<masterVars, pageVars>>
  \/ ReadMessage
  \/ \E i \in 1..MaxTasks : Updated(i) \/ Forward(i) \/ QueryFails(i)
  \/ \E a \in Agents : Handshake(a) \/ Ages(a)
  \/ Sweep \/ SweepAnnounced \/ GhostCloses
  \/ \E p \in Pages :
       \/ PageConnects(p) \/ Registers(p) \/ PageLoads(p)
       \/ PageDisconnects(p) \/ PageReloads(p)

Spec == Init /\ [][Next]_vars

(* The event loops of worker and master run, the database answers, timers  *)
(* fire and time passes.  Nobody owes a ping, a handshake or a page.        *)
Fairness ==
  /\ \A c \in Conns : WF_vars(Handles(c) /\ UNCHANGED <<masterVars, pageVars>>)
  /\ WF_vars(ReadMessage)
  /\ \A i \in 1..MaxTasks : WF_vars(Updated(i) \/ Forward(i) \/ QueryFails(i))
  /\ \A a \in Agents : WF_vars(Ages(a))
  /\ WF_vars(Sweep) /\ WF_vars(SweepAnnounced)

FairSpec == Spec /\ Fairness

-----------------------------------------------------------------------------
InFlight ==
  ToSet(toMaster) \cup {tasks[i].msg : i \in DOMAIN tasks}

(* An announcement of a record or an alert is on its way, or it was lost    *)
(* with the worker's websocket, or it is on the page of the agent's owner,  *)
(* unless that page was away (workerHandler.js:84-110, 142-172); it is on   *)
(* no page of anyone else, and nothing is passed on twice.                  *)
EveryPageServed ==
  \A msg \in {m \in sent : m.type # "UPDATE_LAST_ACTIVE"} : \A p \in Pages :
    IF Owns(p, msg.agent)
    THEN Cardinality({w \in {"unsent", "on its way", "shown", "missed"} :
           \/ w = "unsent" /\ msg \in unsent
           \/ w = "on its way" /\ msg \in InFlight
           \/ w = "shown" /\ msg \in shown[p]
           \/ w = "missed" /\ msg \in missed[p]}) = 1
    ELSE msg \notin shown[p]

(* A page shows the status the database holds, sooner or later, while it is *)
(* connected and has not missed the last announcement: announcements that   *)
(* overtake each other are made good by the next sign of life or the next   *)
(* sweep (workerHandler.js:113-140, agentAuthController.js:101-122).        *)
Agrees(p, a) ==
  Shown(p, a) \in {None, status[a]} \/ a \in outdated[p] \/ ws[p] # "registered"
StatusSettles ==
  \A p \in Pages : \A a \in Agents : Owns(p, a) => []<>Agrees(p, a)
=============================================================================
