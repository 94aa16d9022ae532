------------------------------ MODULE KeySync ------------------------------
(***************************************************************************)
(* How the key of an agent reaches the workers.                            *)
(*                                                                         *)
(* The master keeps the `agents` table and a directory `activeWorkers` of  *)
(* worker websockets.  A worker that registers is sent the rules and a     *)
(* snapshot of all keys (workerHandler.js, with two awaits in the middle   *)
(* of the handler); an agent that performs its handshake has its key       *)
(* broadcast to the directory (agentAuthController.js).  A worker keeps    *)
(* the keys in the RAM map `keyCache` and reconnects three seconds after   *)
(* it sees its websocket close (init_socket.js).                           *)
(*                                                                         *)
(* Abstractions.  An agent id determines its key (dashController.js draws  *)
(* both at random, once), so a cache is a set of ids.  A websocket is an   *)
(* element of Sockets, used once; its two ends learn of its end at         *)
(* different times.  WELCOME is only logged by the worker and is left out. *)
(* The columns current_session, last_active and agent_status that the      *)
(* handshake writes are not read by anything modelled here.                *)
(***************************************************************************)
EXTENDS Naturals, Sequences

CONSTANTS
  Workers,      \* worker processes
  Names,        \* values of the environment variable Worker1
  NameOf,       \* the name each worker process reads from its environment
  Agents,       \* agent ids that may be created
  Sockets,      \* websocket connections, each used at most once
  None,         \* "no socket", "no worker", "undefined"
  LateClose,    \* may the master learn of a dead websocket after the worker
                \* has opened its next one?
  DbErrors,     \* may a query of the master fail?
  MaxQueue      \* bound: messages in flight when a handshake is answered

ASSUME KeySyncAssumption ==
  /\ NameOf \in [Workers -> Names]
  /\ None \notin Sockets \cup Workers \cup Names
  /\ LateClose \in BOOLEAN
  /\ DbErrors \in BOOLEAN
  /\ MaxQueue \in Nat

VARIABLES
  \* PostgreSQL, and what has been promised to agents
  created,        \* agent ids ever inserted
  rows,           \* agent ids that have a row
  tokens,         \* agents that were answered 200 by the handshake
  \* the master process
  handshake,      \* per agent: "idle" or "selected" (row read, UPDATE awaited)
  activeWorkers,  \* the directory: name -> websocket
  server,         \* the master's end of each websocket
  workerID,       \* ws.workerID
  stage,          \* where the REGISTER_WORKER handler of the websocket is
  snapshot,       \* the rows its SELECT returned
  \* the network
  hello,          \* the REGISTER_WORKER message: "unsent", "sent", "read"
  toWorker,       \* messages in flight to the worker, oldest first
  \* the worker processes
  owner,          \* which worker opened the websocket
  client,         \* the worker's end of each websocket
  socketInstance, \* the websocket sendToMaster uses
  keyCache,       \* keys in RAM
  activeRules     \* rules in RAM

dbVars     == <<created, rows, tokens>>
masterVars == <<handshake, activeWorkers, server, workerID, stage, snapshot>>
workerVars == <<owner, client, socketInstance, keyCache, activeRules>>
vars       == <<dbVars, masterVars, hello, toWorker, workerVars>>

RuleLists == {"enabled", "none"}  \* getAllRules: the enabled rules, or []
Message ==
       [type : {"RULES"}, message : RuleLists]
  \cup [type : {"AGENT_KEYS_SYNC"}, payload : SUBSET Agents]
  \cup [type : {"NEW_AGENT_KEY"}, agent_id : Agents]

(* The keys a worker stores when it handles the message. *)
KeysIn(m) ==
  CASE m.type = "AGENT_KEYS_SYNC" -> m.payload
    [] m.type = "NEW_AGENT_KEY"   -> {m.agent_id}
    [] OTHER                      -> {}

TypeOK ==
  /\ created \in SUBSET Agents /\ rows \in SUBSET created
  /\ tokens \in SUBSET created
  /\ handshake \in [Agents -> {"idle", "selected"}]
  /\ activeWorkers \in [Names -> Sockets \cup {None}]
  /\ server \in [Sockets -> {"none", "open", "closing", "closed"}]
  /\ workerID \in [Sockets -> Names \cup {None}]
  /\ stage \in [Sockets -> {"idle", "rules", "keys", "read", "synced", "failed"}]
  /\ snapshot \in [Sockets -> SUBSET Agents]
  /\ hello \in [Sockets -> {"unsent", "sent", "read"}]
  /\ toWorker \in [Sockets -> Seq(Message)]
  /\ owner \in [Sockets -> Workers \cup {None}]
  /\ client \in [Sockets -> {"unused", "connecting", "open", "closed"}]
  /\ socketInstance \in [Workers -> Sockets \cup {None}]
  /\ keyCache \in [Workers -> SUBSET Agents]
  /\ activeRules \in [Workers -> RuleLists]

Init ==
  /\ created = {} /\ rows = {} /\ tokens = {}
  /\ handshake = [a \in Agents |-> "idle"]
  /\ activeWorkers = [n \in Names |-> None]
  /\ server = [s \in Sockets |-> "none"]
  /\ workerID = [s \in Sockets |-> None]
  /\ stage = [s \in Sockets |-> "idle"]
  /\ snapshot = [s \in Sockets |-> {}]
  /\ hello = [s \in Sockets |-> "unsent"]
  /\ toWorker = [s \in Sockets |-> <<>>]
  /\ owner = [s \in Sockets |-> None]
  /\ client = [s \in Sockets |-> "unused"]
  /\ socketInstance = [w \in Workers |-> None]
  /\ keyCache = [w \in Workers |-> {}]
  /\ activeRules = [w \in Workers |-> "none"]

-----------------------------------------------------------------------------
(* ws.send on the master: a websocket that is closing or closed, or whose  *)
(* other end is gone, swallows the message.                                *)
Receives(s) == server[s] = "open" /\ client[s] # "closed"
Send(s, m) ==
  toWorker' = IF Receives(s)
              THEN [toWorker EXCEPT ![s] = Append(@, m)] ELSE toWorker

(* createAgent and deleteAgent: one INSERT, one DELETE. *)
CreateAgent(a) ==
  /\ a \notin created
  /\ created' = created \cup {a}
  /\ rows' = rows \cup {a}
  /\ UNCHANGED <<tokens, masterVars, hello, toWorker, workerVars>>

DeleteAgent(a) ==
  /\ a \in rows
  /\ rows' = rows \ {a}
  /\ UNCHANGED <<created, tokens, masterVars, hello, toWorker, workerVars>>

-----------------------------------------------------------------------------
(* POST /api/agent/handshake.  A request that is too old, names no agent or *)
(* is badly signed is refused and changes nothing.                          *)
HandshakeSelect(a) ==
  /\ handshake[a] = "idle"
  /\ a \in rows
  /\ handshake' = [handshake EXCEPT ![a] = "selected"]
  /\ UNCHANGED <<dbVars, activeWorkers, server, workerID, stage, snapshot,
                 hello, toWorker, workerVars>>

(* activeWorkers.forEach: the websockets a new key is broadcast to. *)
ListedSynced(s) == stage[s] = "synced" /\ \E n \in Names : activeWorkers[n] = s \* mutant
Listed(s) == \E n \in Names : activeWorkers[n] = s

(* After the awaited UPDATE: broadcast to the directory and answer 200, in *)
(* one turn of the event loop.  The row may be gone by now: the UPDATE     *)
(* then touches no row and the handler does not look.                      *)
HandshakeReply(a) ==
  /\ handshake[a] = "selected"
  /\ \A s \in Sockets : Len(toWorker[s]) < MaxQueue
  /\ handshake' = [handshake EXCEPT ![a] = "idle"]
  /\ toWorker' = [s \in Sockets |->
       IF Receives(s) /\ Listed(s)
       THEN Append(toWorker[s], [type |-> "NEW_AGENT_KEY", agent_id |-> a])
       ELSE toWorker[s]]
  /\ tokens' = tokens \cup {a}
  /\ UNCHANGED <<created, rows, activeWorkers, server, workerID, stage,
                 snapshot, hello, workerVars>>

(* A query of the handler throws: 500. *)
HandshakeError(a) ==
  /\ DbErrors
  /\ handshake[a] = "selected"
  /\ handshake' = [handshake EXCEPT ![a] = "idle"]
  /\ UNCHANGED <<dbVars, activeWorkers, server, workerID, stage, snapshot,
                 hello, toWorker, workerVars>>

-----------------------------------------------------------------------------
(* connect() runs at the start and when the timer set by the close event   *)
(* of the previous websocket fires.                                        *)
ConnectAnytime(w) == TRUE                    \* mutant: no wait for the close
ConnectOnce(w) == socketInstance[w] = None   \* mutant: no timer is set
MayConnect(w) ==
  /\ socketInstance[w] # None => client[socketInstance[w]] = "closed"
  /\ LateClose \/ \A t \in Sockets : owner[t] = w => server[t] \in {"none", "closed"}

Connect(w, s) ==
  /\ client[s] = "unused"
  /\ MayConnect(w)
  /\ owner' = [owner EXCEPT ![s] = w]
  /\ client' = [client EXCEPT ![s] = "connecting"]
  /\ socketInstance' = [socketInstance EXCEPT ![w] = s]
  /\ UNCHANGED <<dbVars, masterVars, hello, toWorker, keyCache, activeRules>>

(* wss.on('connection'): the websocket is open at the master, unregistered. *)
Accept(s) ==
  /\ client[s] = "connecting" /\ server[s] = "none"
  /\ server' = [server EXCEPT ![s] = "open"]
  /\ UNCHANGED <<dbVars, handshake, activeWorkers, workerID, stage, snapshot,
                 hello, toWorker, workerVars>>

(* ws.on('open') at the worker: introduce yourself. *)
ClientOpen(s) ==
  /\ client[s] = "connecting" /\ server[s] # "none"
  /\ client' = [client EXCEPT ![s] = "open"]
  /\ hello' = [hello EXCEPT ![s] = "sent"]
  /\ UNCHANGED <<dbVars, masterVars, toWorker, owner, socketInstance,
                 keyCache, activeRules>>

(* authTimeout: five seconds without REGISTER_WORKER. *)
AuthTimeout(s) ==
  /\ server[s] = "open" /\ workerID[s] = None
  /\ server' = [server EXCEPT ![s] = "closing"]
  /\ UNCHANGED <<dbVars, handshake, activeWorkers, workerID, stage, snapshot,
                 hello, toWorker, workerVars>>

-----------------------------------------------------------------------------
(* A message event needs a websocket that is not closed yet. *)
Reads(s) == server[s] \in {"open", "closing"}

(* data.worker_id *)
ProcessOf(s) == owner[s]                                    \* mutant
RegisteredName(s) == NameOf[owner[s]]

(* REGISTER_WORKER up to `await getAllRules()`: the websocket enters the   *)
(* directory before anything is awaited.                                   *)
Register(s) ==
  /\ Reads(s) /\ hello[s] = "sent"
  /\ hello' = [hello EXCEPT ![s] = "read"]
  /\ workerID' = [workerID EXCEPT ![s] = RegisteredName(s)]
  /\ activeWorkers' = [activeWorkers EXCEPT ![RegisteredName(s)] = s]
  /\ stage' = [stage EXCEPT ![s] = "rules"]
  /\ UNCHANGED <<dbVars, handshake, server, snapshot, toWorker, workerVars>>

(* getAllRules returns; its own catch turns an error into an empty list. *)
SendRules(s, rules) ==
  /\ stage[s] = "rules"
  /\ rules = "none" => DbErrors
  /\ Send(s, [type |-> "RULES", message |-> rules])
  /\ stage' = [stage EXCEPT ![s] = "keys"]
  /\ UNCHANGED <<dbVars, handshake, activeWorkers, server, workerID, snapshot,
                 hello, workerVars>>

(* The SELECT of all keys runs in the database ... *)
ReadKeys(s) ==
  /\ stage[s] = "keys"
  /\ snapshot' = [snapshot EXCEPT ![s] = rows]
  /\ stage' = [stage EXCEPT ![s] = "read"]
  /\ UNCHANGED <<dbVars, handshake, activeWorkers, server, workerID, hello,
                 toWorker, workerVars>>

(* ... and its result comes back to the handler later. *)
SendKeys(s) ==
  /\ stage[s] = "read"
  /\ Send(s, [type |-> "AGENT_KEYS_SYNC", payload |-> snapshot[s]])
  /\ snapshot' = [snapshot EXCEPT ![s] = {}]
  /\ stage' = [stage EXCEPT ![s] = "synced"]
  /\ UNCHANGED <<dbVars, handshake, activeWorkers, server, workerID, hello,
                 workerVars>>

(* The SELECT or a decryption throws: logged, nothing is sent or retried. *)
SyncError(s) ==
  /\ DbErrors
  /\ stage[s] \in {"keys", "read"}
  /\ snapshot' = [snapshot EXCEPT ![s] = {}]
  /\ stage' = [stage EXCEPT ![s] = "failed"]
  /\ UNCHANGED <<dbVars, handshake, activeWorkers, server, workerID, hello,
                 toWorker, workerVars>>

(* activeWorkers.delete(ws.workerID), whichever websocket is filed there. *)
DirectoryKept(s) == activeWorkers                           \* mutant
DirectoryWithout(s) ==
  IF workerID[s] = None THEN activeWorkers
  ELSE [activeWorkers EXCEPT ![workerID[s]] = None]

(* ws.on('close') at the master.                                           *)
(* A registration still awaiting a query runs on, but all it has left to   *)
(* do is to send, and this websocket swallows what is sent: it ends here.  *)
ServerClose(s) ==
  /\ server[s] \in {"open", "closing"}
  /\ server' = [server EXCEPT ![s] = "closed"]
  /\ activeWorkers' = DirectoryWithout(s)
  /\ stage' = [stage EXCEPT ![s] = "idle"]
  /\ snapshot' = [snapshot EXCEPT ![s] = {}]
  /\ UNCHANGED <<dbVars, handshake, workerID, hello, toWorker, workerVars>>

-----------------------------------------------------------------------------
(* updateKeyCache for every key in the message. *)
CacheReplaced(w, m) ==                                      \* mutant
  IF m.type = "AGENT_KEYS_SYNC" THEN m.payload ELSE keyCache[w] \cup KeysIn(m)
CacheSyncOnly(w, m) ==                                      \* mutant
  IF m.type = "NEW_AGENT_KEY" THEN keyCache[w] ELSE keyCache[w] \cup KeysIn(m)
CacheAfter(w, m) == keyCache[w] \cup KeysIn(m)

(* ws.on('message') at the worker. *)
Deliver(s) ==
  /\ client[s] = "open" /\ toWorker[s] # <<>>
  /\ LET m == Head(toWorker[s])
         w == owner[s]
     IN  /\ keyCache' = [keyCache EXCEPT ![w] = CacheAfter(w, m)]
         /\ activeRules' = [activeRules EXCEPT
                              ![w] = IF m.type = "RULES" THEN m.message ELSE @]
  /\ toWorker' = [toWorker EXCEPT ![s] = Tail(@)]
  /\ UNCHANGED <<dbVars, masterVars, hello, owner, client, socketInstance>>

(* ws.on('close') at the worker: the connection attempt failed, the master *)
(* closed, or the network did.  What was in flight to it is lost.          *)
ClientClose(s) ==
  /\ client[s] \in {"connecting", "open"}
  /\ client' = [client EXCEPT ![s] = "closed"]
  /\ toWorker' = [toWorker EXCEPT ![s] = <<>>]
  /\ UNCHANGED <<dbVars, masterVars, hello, owner, socketInstance, keyCache,
                 activeRules>>

(* A worker process dies and is started again: its RAM is empty. *)
WorkerRestart(w) ==
  LET mine == {s \in Sockets : owner[s] = w}
  IN  /\ socketInstance[w] # None
      /\ client' = [s \in Sockets |-> IF s \in mine THEN "closed" ELSE client[s]]
      /\ toWorker' = [s \in Sockets |-> IF s \in mine THEN <<>> ELSE toWorker[s]]
      /\ socketInstance' = [socketInstance EXCEPT ![w] = None]
      /\ keyCache' = [keyCache EXCEPT ![w] = {}]
      /\ activeRules' = [activeRules EXCEPT ![w] = "none"]
      /\ UNCHANGED <<dbVars, masterVars, hello, owner>>

(* The master process dies and is started again: directory, websockets and *)
(* running handlers are gone, the database stays.                          *)
MasterRestart ==
  /\ \E s \in Sockets : server[s] \in {"open", "closing"}
  /\ handshake' = [a \in Agents |-> "idle"]
  /\ activeWorkers' = [n \in Names |-> None]
  /\ server' = [s \in Sockets |-> IF server[s] = "none" THEN "none" ELSE "closed"]
  /\ stage' = [s \in Sockets |-> "idle"]
  /\ snapshot' = [s \in Sockets |-> {}]
  /\ UNCHANGED <<dbVars, workerID, hello, toWorker, workerVars>>

-----------------------------------------------------------------------------
Next ==
  \/ \E a \in Agents : CreateAgent(a) \/ DeleteAgent(a)
  \/ \E a \in Agents : HandshakeSelect(a) \/ HandshakeReply(a) \/ HandshakeError(a)
  \/ \E w \in Workers, s \in Sockets : Connect(w, s)
  \/ \E s \in Sockets : Accept(s) \/ ClientOpen(s) \/ AuthTimeout(s)
  \/ \E s \in Sockets : Register(s) \/ ReadKeys(s) \/ SendKeys(s) \/ SyncError(s)
  \/ \E s \in Sockets, rules \in RuleLists : SendRules(s, rules)
  \/ \E s \in Sockets : ServerClose(s) \/ Deliver(s) \/ ClientClose(s)
  \/ \E w \in Workers : WorkerRestart(w)
  \/ MasterRestart

Spec == Init /\ [][Next]_vars

(* The event loops run, timers fire, a message on a live websocket arrives *)
(* and each end of a websocket whose other end is gone learns of it.       *)
(* Failures, restarts and requests by people are never owed.               *)
Fairness ==
  /\ \A w \in Workers : WF_vars(\E s \in Sockets : Connect(w, s))
  /\ \A s \in Sockets :
       /\ WF_vars(Accept(s)) /\ WF_vars(ClientOpen(s))
       /\ WF_vars(Register(s))
       /\ WF_vars(\E rules \in RuleLists : SendRules(s, rules))
       /\ WF_vars(ReadKeys(s)) /\ WF_vars(SendKeys(s))
       /\ WF_vars(Deliver(s))
       /\ WF_vars(client[s] = "closed" /\ ServerClose(s))
       /\ WF_vars(server[s] \in {"closing", "closed"} /\ ClientClose(s))
  /\ \A a \in Agents : WF_vars(HandshakeReply(a))

FairSpec == Spec /\ Fairness

-----------------------------------------------------------------------------
(* Both ends of the websocket think it is open. *)
Live(s) == server[s] = "open" /\ client[s] = "open"

(* Keys the worker at the end of s has, or will have once it has read what *)
(* is already on its way to it.                                            *)
InFlight(q) == UNION {KeysIn(q[i]) : i \in 1..Len(q)}
Held(s) == keyCache[owner[s]] \cup InFlight(toWorker[s])

(* Agents that hold a token and still exist. *)
Served == tokens \cap rows

(* A handshake is for an agent that once existed; the two ends of a        *)
(* websocket, its owner and its registration agree.                        *)
Wiring ==
  /\ \A a \in Agents : handshake[a] = "selected" => a \in created
  /\ \A s \in Sockets :
       /\ owner[s] = None <=> client[s] = "unused"
       /\ server[s] # "none" \/ hello[s] # "unsent" => client[s] # "unused"
       /\ client[s] = "open" \/ hello[s] # "unsent" => server[s] # "none"
       /\ workerID[s] # None <=> hello[s] = "read"
       /\ client[s] = "connecting" => hello[s] = "unsent"
       /\ stage[s] # "idle" => hello[s] = "read"

(* A websocket in the directory never misses a key: once its registration  *)
(* has sent the snapshot, every agent that was answered 200 and still      *)
(* exists is known to its worker or on the way to it, whatever happened    *)
(* between the awaits of the registration and of the handshake             *)
(* (workerHandler.js:44-71, agentAuthController.js:76-92).                 *)
NoKeyGap ==
  \A n \in Names : LET s == activeWorkers[n] IN
    (s # None /\ Live(s) /\ stage[s] = "synced") => Served \subseteq Held(s)

(* NoKeyGap between the awaits too: the snapshot that was read but not yet *)
(* sent makes up for what the worker does not hold.                        *)
Covered ==
  \A n \in Names, s \in Sockets :
    activeWorkers[n] = s /\ Live(s) =>
      /\ stage[s] = "read" => Served \subseteq snapshot[s] \cup Held(s)
      /\ stage[s] = "synced" => Served \subseteq Held(s)

(* The directory holds no dead websocket: an entry is open or closing at   *)
(* the master and carries the name it is filed under                       *)
(* (workerHandler.js:44-45, 179-184).                                      *)
NoDeadEntry ==
  \A n \in Names : LET s == activeWorkers[n] IN
    s # None => server[s] \in {"open", "closing"} /\ workerID[s] = n

(* The abstract view: the connections that are filed, alive and            *)
(* synchronised, and the keys at their other end or on the way to it.      *)
Members == {s \in Sockets : Listed(s) /\ Live(s) /\ stage[s] = "synced"}
Boards  == [s \in Sockets |-> IF s \in Members THEN Held(s) ELSE {}]

Board == INSTANCE KeyBoard
         WITH served <- Served, members <- Members, board <- Boards

(* Key distribution is atomic as seen from the agents: for all the awaits, *)
(* queues, closes and restarts, a worker joins with every served key at    *)
(* once, an admitted agent is known to all members at once, and no member  *)
(* forgets (workerHandler.js:29-74 and 179-184,                           *)
(* agentAuthController.js:65-92, dashController.js:219-239).               *)
ImplementsKeyBoard == Board!Spec

(* The inductive invariant. *)
IInv == TypeOK /\ Wiring /\ NoDeadEntry /\ Covered

(* The directory stores the connections that are alive: a websocket that   *)
(* registered and is open at both ends can be found under its name         *)
(* (workerHandler.js:16).                                                  *)
LiveSocketListed ==
  \A s \in Sockets : (Live(s) /\ workerID[s] # None) => activeWorkers[workerID[s]] = s

(* The key of an agent that was answered 200 goes to the workers, all of   *)
(* them: every worker with a live, synchronised connection has it or will  *)
(* get it (agentAuthController.js:76).                                     *)
EveryWorkerCovered ==
  \A s \in Sockets : (Live(s) /\ stage[s] = "synced") => Served \subseteq Held(s)

(* Where names differ and a worker's close is seen before its next hello,  *)
(* a worker has one websocket that is not over, and what registered it is  *)
(* its own name.                                                           *)
DistinctNames == \A v, w \in Workers : NameOf[v] = NameOf[w] => v = w
Over(s) == client[s] = "closed" /\ server[s] \in {"none", "closed"}
OneConnection ==
  \A s \in Sockets :
    /\ client[s] \in {"connecting", "open"} => socketInstance[owner[s]] = s
    /\ workerID[s] # None => workerID[s] = NameOf[owner[s]]
    /\ \A t \in Sockets \ {s} :
         owner[s] # None /\ owner[s] = owner[t] => Over(s) \/ Over(t)

(* A worker process that does not restart never loses a key: reconnecting  *)
(* and a second synchronisation add to the cache, they do not replace it   *)
(* (handlerMasterSocket.js:34-43, verifyAgentSession.js:10-12).            *)
KeysOnlyLostByRestart ==
  [][\A w \in Workers :
       ~ (keyCache[w] \subseteq keyCache'[w]) => WorkerRestart(w)]_vars

(* Every worker comes back: connections fail and processes restart, but a  *)
(* worker ends up connected, synchronised and with the rules in its RAM    *)
(* for good, unless it goes through every websocket of the model.  Only a  *)
(* failed query of its registration leaves a worker connected without      *)
(* keys or rules, and nothing repeats that query (init_socket.js:16-22,    *)
(* workerHandler.js:72, ruleLoader.js:30).                                 *)
Joined(w) ==
  LET s == socketInstance[w]
  IN  s # None /\ Live(s) /\ stage[s] = "synced" /\ activeRules[w] = "enabled"
QueryFailed(w) ==
  LET s == socketInstance[w]
  IN  /\ s # None /\ Live(s)
      /\ \/ stage[s] = "failed"
         \/ stage[s] = "synced" /\ activeRules[w] = "none"
WorkersRejoin ==
  \A w \in Workers : <>[](\/ Joined(w)
                          \/ QueryFailed(w)
                          \/ \A s \in Sockets : client[s] # "unused")

(* The key of an agent that was answered 200 ends up in the RAM of each    *)
(* worker whose synchronised connection the directory holds, unless that   *)
(* connection ends or the agent is deleted first                           *)
(* (agentAuthController.js:76-84).                                         *)
KeyArrives ==
  \A a \in Agents, w \in Workers, s \in Sockets :
    (a \in Served /\ socketInstance[w] = s /\ Live(s) /\ stage[s] = "synced"
                  /\ Listed(s))
      ~> (a \in keyCache[w] \/ ~ Live(s) \/ a \notin rows)
=============================================================================
