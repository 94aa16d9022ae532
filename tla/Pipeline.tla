------------------------------ MODULE Pipeline ------------------------------
(***************************************************************************)
(* The detection pipeline of one worker: what it does with the records of a *)
(* batch it has received over TCP (tcpReceiver.js:127-170,                  *)
(* handleAgentRule.js, dbWriter.js, alerter.js), and the websocket to the   *)
(* master through which it announces what it does                           *)
(* (serviceMasterSocket.js).                                                *)
(*                                                                         *)
(* Every connection handles its batch item by item; the connections take   *)
(* turns at each await.  An item is what one row is written for: a record, *)
(* or a package of a software list; two records that say the same are two   *)
(* items.  Whether a rule triggers on it is the business of RuleEngine;     *)
(* here Alert says it.                                                      *)
(***************************************************************************)
EXTENDS Integers, Sequences, FiniteSets, SequencesExt

CONSTANTS
  Conns, Agents, Items, None,
  AgentOf,    \* the agent authenticated on a connection
  Batches,    \* batches that may come: for each connection its records, or none
  Alert,      \* "none", "low", "high" (packet_level >= 10): the rule that triggers
  MaxSigns,   \* bound: pings and handshakes
  MaxQueue,   \* bound: messages on the websocket to the master
  MaxFaults   \* bound: failures of queries, websockets and pages

Records == [software : BOOLEAN, items : Seq(Items)]

ASSUME PipelineAssumption ==
  /\ AgentOf \in [Conns -> Agents]
  /\ Alert \in [Items -> {"none", "low", "high"}]
  /\ \A b \in Batches : DOMAIN b = Conns /\ \A c \in Conns : b[c] \in Seq(Records)
  /\ \A b \in Batches, c \in Conns : \A r \in DOMAIN b[c] :
       b[c][r].items # <<>> /\ (~ b[c][r].software => Len(b[c][r].items) = 1)
  /\ \A b \in Batches, c, d \in Conns : \A r \in DOMAIN b[c], s \in DOMAIN b[d] :
       \A i \in DOMAIN b[c][r].items, j \in DOMAIN b[d][s].items :
         b[c][r].items[i] = b[d][s].items[j] => c = d /\ r = s /\ i = j
  /\ None \notin Items
  /\ MaxQueue \in Nat \ {0} /\ MaxFaults \in Nat /\ MaxSigns \in Nat

VARIABLES
  batch,      \* the batch that comes on each connection, <<>> if none does
  rec, pos,   \* the record and the item in it that a connection handles
  stage,      \* the await it is in: "idle" (no batch yet), "decrypt", "next",
              \* "log", "alert", "name", "done"
  stored,     \* items whose row is written
  alerted,    \* items with a row in rule_alert
  told,       \* items whose alert was written to the agent's connection
  sent,       \* history: the logs and alerts sendToMaster was called with
  link,       \* the websocket to the master: "up" or "down"
  toMaster,   \* messages on it
  unsent,     \* history: those dropped, or lost with the websocket
  signs, faults

workerVars == <<batch, rec, pos, stage, stored, alerted, told, sent>>
linkVars   == <<link, toMaster, unsent>>

MessageTypes == {"UPDATE_LAST_ACTIVE", "AGENT_LOG", "RULE_ALERT"}
Messages == [type : MessageTypes, agent : Agents, item : Items \cup {None}]

PipelineTypeOK ==
  /\ batch \in Batches
  /\ rec \in [Conns -> Nat \ {0}] /\ \A c \in Conns : rec[c] <= Len(batch[c]) + 1
  /\ pos \in [Conns -> Nat \ {0}]
  /\ stage \in [Conns -> {"idle", "decrypt", "next", "log", "alert", "name", "done"}]
  /\ stored \subseteq Items /\ alerted \subseteq Items /\ told \subseteq Items
  /\ sent \subseteq Messages /\ unsent \subseteq Messages
  /\ link \in {"up", "down"}
  /\ toMaster \in Seq(Messages) /\ Len(toMaster) <= MaxQueue
  /\ faults \in 0..MaxFaults /\ signs \in 0..MaxSigns

PipelineInit ==
  /\ batch \in Batches
  /\ rec = [c \in Conns |-> 1] /\ pos = [c \in Conns |-> 1]
  /\ stage = [c \in Conns |-> "idle"]
  /\ stored = {} /\ alerted = {} /\ told = {} /\ sent = {}
  /\ link = "up" /\ toMaster = <<>> /\ unsent = {}
  /\ faults = 0 /\ signs = 0

-----------------------------------------------------------------------------
News(msgs) == {m \in ToSet(msgs) : m.type # "UPDATE_LAST_ACTIVE"}
Message(type, c, item) == [type |-> type, agent |-> AgentOf[c], item |-> item]

(* sendToMaster, in the order of `msgs`: what finds no open websocket is   *)
(* logged and dropped.                                                     *)
sendToMaster(msgs) ==
  /\ Len(toMaster) + Len(msgs) <= MaxQueue
  /\ sent' = sent \cup News(msgs)
  /\ IF link = "up"
     THEN toMaster' = toMaster \o msgs /\ UNCHANGED unsent
     ELSE unsent' = unsent \cup News(msgs) /\ UNCHANGED toMaster
  /\ UNCHANGED link

Fault == faults < MaxFaults /\ faults' = faults + 1

Record(c) == batch[c][rec[c]]
Item(c) == Record(c).items[pos[c]]

(* Where the handler goes on: at an item of the batch, or after it.        *)
GoTo(c, r, p) ==
  /\ rec' = [rec EXCEPT ![c] = r] /\ UNCHANGED batch
  /\ pos' = [pos EXCEPT ![c] = p]
  /\ stage' = [stage EXCEPT ![c] = IF r > Len(batch[c]) THEN "done" ELSE "next"]

Await(c, query) ==
  /\ stage' = [stage EXCEPT ![c] = query]
  /\ UNCHANGED <<batch, rec, pos>>

(* The next package of a software list, else the next record.              *)
NextItem(c) ==
  IF pos[c] < Len(Record(c).items) THEN GoTo(c, rec[c], pos[c] + 1)
                                   ELSE GoTo(c, rec[c] + 1, 1)

(* An exception ends the handler of the record; the loop over the records  *)
(* goes on.                                                                *)
EndsBatch(c) == GoTo(c, Len(batch[c]) + 1, 1)              \* mutant
Hangs(c) == Await(c, "idle")                               \* mutant
Throws(c) == GoTo(c, rec[c] + 1, 1)

(* Frame 0x02. *)
ReceiveBatch(c) ==
  /\ stage[c] = "idle" /\ batch[c] # <<>>
  /\ sendToMaster(<<Message("UPDATE_LAST_ACTIVE", c, None)>>)
  /\ Await(c, "decrypt")
  /\ UNCHANGED <<stored, alerted, told, signs, faults>>

Decrypted(c) ==
  /\ stage[c] = "decrypt"
  /\ GoTo(c, 1, 1)
  /\ UNCHANGED <<stored, alerted, told, sent, linkVars, signs, faults>>

(* evaluateData announces an alert of level 10 and more at once; the       *)
(* INSERT of the record follows.                                           *)
Evaluate(c) ==
  /\ stage[c] = "next"
  /\ sendToMaster(IF Alert[Item(c)] = "high"
                  THEN <<Message("RULE_ALERT", c, Item(c))>> ELSE <<>>)
  /\ Await(c, "log")
  /\ UNCHANGED <<stored, alerted, told, signs, faults>>

(* writeLogToDB returns the row.                                           *)
LogWritten(c) ==
  /\ stage[c] = "log"
  /\ stored' = stored \cup {Item(c)}
  /\ sendToMaster(<<Message("AGENT_LOG", c, Item(c))>>)
  /\ IF Alert[Item(c)] = "none" THEN NextItem(c) ELSE Await(c, "alert")
  /\ UNCHANGED <<alerted, told, signs, faults>>

(* It returns null, whether the row was written or not: no alert is saved, *)
(* and `dbResult.id` throws in the handler of software lists.              *)
SavesAnyway(c) == Await(c, "alert")                        \* mutant
WithoutRow(c) ==
  IF Record(c).software /\ Alert[Item(c)] # "none" THEN Throws(c) ELSE NextItem(c)
LogFails(c) ==
  /\ stage[c] = "log" /\ Fault
  /\ stored' \in {stored, stored \cup {Item(c)}}
  /\ sendToMaster(<<Message("AGENT_LOG", c, Item(c))>>)
  /\ WithoutRow(c)
  /\ UNCHANGED <<alerted, told, signs>>

(* saveRuleAlert: INSERT INTO rule_alert, ...                              *)
AlertWritten(c) ==
  /\ stage[c] = "alert"
  /\ alerted' = alerted \cup {Item(c)}
  /\ Await(c, "name")
  /\ UNCHANGED <<stored, told, sent, linkVars, signs, faults>>

(* ... which fails, for one, when the rule has been deleted since.         *)
AlertFails(c) ==
  /\ stage[c] = "alert" /\ Fault
  /\ Throws(c)
  /\ UNCHANGED <<stored, alerted, told, sent, linkVars, signs>>

(* ... then the SELECT of the rule's name, whose failure does not matter,  *)
(* and sendAlertToAgent, if the agent is connected to this worker.         *)
NameRead(c) ==
  /\ stage[c] = "name"
  /\ told' \in {told, told \cup {Item(c)}}
  /\ NextItem(c)
  /\ UNCHANGED <<stored, alerted, sent, linkVars, signs, faults>>

(* Frame 0x03 on an authenticated connection that handles no batch. *)
Sign == signs < MaxSigns /\ signs' = signs + 1
Ping(c) ==
  /\ stage[c] \in {"idle", "done"} /\ Sign
  /\ sendToMaster(<<Message("UPDATE_LAST_ACTIVE", c, None)>>)
  /\ UNCHANGED <<batch, rec, pos, stage, stored, alerted, told, faults>>

(* The websocket to the master ends, with any last part of what is on it,  *)
(* and is open again 5 seconds later or more.                              *)
LinkFails ==
  /\ link = "up" /\ Fault
  /\ link' = "down"
  /\ \E k \in 0..Len(toMaster) :
       /\ toMaster' = SubSeq(toMaster, 1, k)
       /\ unsent' = unsent \cup News(SubSeq(toMaster, k + 1, Len(toMaster)))
  /\ UNCHANGED <<workerVars, signs>>

LinkUp ==
  /\ link = "down" /\ toMaster = <<>>
  /\ link' = "up"
  /\ UNCHANGED <<workerVars, toMaster, unsent, signs, faults>>

PipelineNext ==
  \/ \E c \in Conns :
       \/ ReceiveBatch(c) \/ Decrypted(c) \/ Evaluate(c)
       \/ LogWritten(c) \/ LogFails(c)
       \/ AlertWritten(c) \/ AlertFails(c) \/ NameRead(c)
       \/ Ping(c)
  \/ LinkFails \/ LinkUp

(* The event loop runs and the database answers.                           *)
Handles(c) ==
  \/ Decrypted(c) \/ Evaluate(c) \/ LogWritten(c) \/ LogFails(c)
  \/ AlertWritten(c) \/ AlertFails(c) \/ NameRead(c)

-----------------------------------------------------------------------------
(* An alert is saved after its record, and the agent is told after both    *)
(* (handleAgentRule.js:24-27, 142-145, dbWriter.js:134-172): what an agent  *)
(* shows its user can be looked up, whatever fails in between.             *)
ToldOfStored == told \subseteq alerted /\ alerted \subseteq stored

(* The items before the one a connection is at. *)
Passed(c, r, i) == r < rec[c] \/ (r = rec[c] /\ i < pos[c])

(* One failure costs what it concerns (tcpReceiver.js:150-167): the items  *)
(* that a handler has passed were announced to the master, stored or not,  *)
(* but for the packages that follow one whose alert could not be saved, in *)
(* the same software list (handleAgentRule.js:144, 159).                   *)
OneFailureOneRecord ==
  \A c \in Conns : stage[c] # "idle" =>
    \A r \in DOMAIN batch[c] : \A i \in DOMAIN batch[c][r].items :
      LET items == batch[c][r].items
      IN  Passed(c, r, i) /\ Message("AGENT_LOG", c, items[i]) \notin sent =>
            /\ batch[c][r].software
            /\ \E j \in 1..(i - 1) : Alert[items[j]] # "none" /\ items[j] \notin alerted

(* Every batch is handled to its end (tcpReceiver.js:150-169), whatever    *)
(* queries fail.                                                           *)
BatchesHandled == \A c \in Conns : (stage[c] = "decrypt") ~> (stage[c] = "done")
=============================================================================
