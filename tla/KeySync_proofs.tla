--------------------------- MODULE KeySync_proofs ---------------------------
(* Proofs about KeySync, for any number of workers, agents and websockets, *)
(* shared names, late closes and failing queries included.                 *)
EXTENDS KeySync, SequenceTheorems, TLAPS

(* What a message appended to a websocket, or read from it, does to the     *)
(* keys in flight on it.                                                    *)
LEMMA InFlightAppend ==
  ASSUME NEW q \in Seq(Message), NEW m \in Message
  PROVE  InFlight(Append(q, m)) = InFlight(q) \cup KeysIn(m)
<1>1. /\ Len(Append(q, m)) = Len(q) + 1
      /\ Append(q, m)[Len(q) + 1] = m
      /\ \A i \in 1..Len(q) : Append(q, m)[i] = q[i]
  OBVIOUS
<1>2. 1..(Len(q) + 1) = 1..Len(q) \cup {Len(q) + 1}
  BY LenProperties
<1>3. {KeysIn(Append(q, m)[i]) : i \in 1..(Len(q) + 1)}
        = {KeysIn(q[i]) : i \in 1..Len(q)} \cup {KeysIn(m)}
  BY <1>1, <1>2
<1> QED
  BY <1>1, <1>3 DEF InFlight

LEMMA InFlightTail ==
  ASSUME NEW q \in Seq(Message), q # <<>>
  PROVE  InFlight(q) = KeysIn(Head(q)) \cup InFlight(Tail(q))
<1>1. /\ Len(q) \in Nat \ {0}
      /\ Len(Tail(q)) = Len(q) - 1
      /\ Head(q) = q[1]
      /\ \A i \in 1..(Len(q) - 1) : Tail(q)[i] = q[i + 1]
  BY HeadTailProperties, EmptySeq, LenProperties
<1>2. \A i \in 1..Len(q) : i = 1 \/ i - 1 \in 1..(Len(q) - 1)
  BY <1>1
<1>3. \A i \in 1..(Len(q) - 1) : i + 1 \in 1..Len(q)
  BY <1>1
<1>4. 1 \in 1..Len(q)
  BY <1>1
<1>5. ASSUME NEW x \in InFlight(q)
      PROVE  x \in KeysIn(Head(q)) \cup InFlight(Tail(q))
  <2>1. PICK i \in 1..Len(q) : x \in KeysIn(q[i])
    BY <1>5 DEF InFlight
  <2>2. CASE i = 1
    BY <2>1, <2>2, <1>1
  <2>3. CASE i # 1
    <3>1. i - 1 \in 1..(Len(q) - 1) /\ Tail(q)[i - 1] = q[i]
      BY <2>3, <1>1, <1>2
    <3> QED
      BY <3>1, <2>1, <1>1 DEF InFlight
  <2> QED
    BY <2>2, <2>3
<1>6. KeysIn(Head(q)) \subseteq InFlight(q)
  BY <1>1, <1>4 DEF InFlight
<1>7. InFlight(Tail(q)) \subseteq InFlight(q)
  BY <1>1, <1>3 DEF InFlight
<1> QED
  BY <1>5, <1>6, <1>7

-----------------------------------------------------------------------------
(* The types, and the wiring they rest on: who opened a websocket, and that *)
(* its registration and its two ends agree.                                 *)
TypeWiring == TypeOK /\ Wiring

LEMMA TypeWiringInit == Init => TypeWiring
  BY KeySyncAssumption DEF Init, TypeWiring, TypeOK, Wiring, RuleLists

LEMMA TypeWiringNext == TypeWiring /\ [Next]_vars => TypeWiring'
<1> SUFFICES ASSUME TypeOK, Wiring, [Next]_vars
             PROVE  TypeOK' /\ Wiring'
  BY DEF TypeWiring
<1> USE DEF dbVars, masterVars, workerVars
<1>1. ASSUME NEW a \in Agents, CreateAgent(a)
      PROVE  TypeOK' /\ Wiring'
  BY <1>1, KeySyncAssumption DEF CreateAgent, TypeOK, Wiring
<1>2. ASSUME NEW a \in Agents, DeleteAgent(a)
      PROVE  TypeOK' /\ Wiring'
  BY <1>2, KeySyncAssumption DEF DeleteAgent, TypeOK, Wiring
<1>3. ASSUME NEW a \in Agents, HandshakeSelect(a)
      PROVE  TypeOK' /\ Wiring'
  BY <1>3, KeySyncAssumption DEF HandshakeSelect, TypeOK, Wiring
<1>4. ASSUME NEW a \in Agents, HandshakeReply(a)
      PROVE  TypeOK' /\ Wiring'
  <2>1. [type |-> "NEW_AGENT_KEY", agent_id |-> a] \in Message
    BY DEF Message
  <2>2. toWorker' \in [Sockets -> Seq(Message)]
    BY <1>4, <2>1 DEF HandshakeReply, TypeOK
  <2>3. tokens' \in SUBSET created'
    BY <1>4 DEF HandshakeReply, TypeOK, Wiring
  <2> QED
    BY <1>4, <2>2, <2>3 DEF HandshakeReply, TypeOK, Wiring
<1>5. ASSUME NEW a \in Agents, HandshakeError(a)
      PROVE  TypeOK' /\ Wiring'
  BY <1>5, KeySyncAssumption DEF HandshakeError, TypeOK, Wiring
<1>6. ASSUME NEW w \in Workers, NEW s \in Sockets, Connect(w, s)
      PROVE  TypeOK' /\ Wiring'
  BY <1>6, KeySyncAssumption DEF Connect, MayConnect, TypeOK, Wiring
<1>7. ASSUME NEW s \in Sockets, Accept(s)
      PROVE  TypeOK' /\ Wiring'
  BY <1>7, KeySyncAssumption DEF Accept, TypeOK, Wiring
<1>8. ASSUME NEW s \in Sockets, ClientOpen(s)
      PROVE  TypeOK' /\ Wiring'
  BY <1>8, KeySyncAssumption DEF ClientOpen, TypeOK, Wiring
<1>9. ASSUME NEW s \in Sockets, AuthTimeout(s)
      PROVE  TypeOK' /\ Wiring'
  BY <1>9, KeySyncAssumption DEF AuthTimeout, TypeOK, Wiring
<1>10. ASSUME NEW s \in Sockets, Register(s)
      PROVE  TypeOK' /\ Wiring'
  BY <1>10, KeySyncAssumption DEF Register, Reads, RegisteredName, TypeOK, Wiring
<1>11. ASSUME NEW s \in Sockets, NEW rules \in RuleLists, SendRules(s, rules)
      PROVE  TypeOK' /\ Wiring'
  BY <1>11, KeySyncAssumption DEF SendRules, Send, Receives, Message, TypeOK, Wiring
<1>12. ASSUME NEW s \in Sockets, ReadKeys(s)
      PROVE  TypeOK' /\ Wiring'
  BY <1>12, KeySyncAssumption DEF ReadKeys, TypeOK, Wiring
<1>13. ASSUME NEW s \in Sockets, SendKeys(s)
      PROVE  TypeOK' /\ Wiring'
  BY <1>13, KeySyncAssumption DEF SendKeys, Send, Receives, Message, TypeOK, Wiring
<1>14. ASSUME NEW s \in Sockets, SyncError(s)
      PROVE  TypeOK' /\ Wiring'
  BY <1>14, KeySyncAssumption DEF SyncError, TypeOK, Wiring
<1>15. ASSUME NEW s \in Sockets, ServerClose(s)
      PROVE  TypeOK' /\ Wiring'
  BY <1>15, KeySyncAssumption DEF ServerClose, DirectoryWithout, TypeOK, Wiring
<1>16. ASSUME NEW s \in Sockets, Deliver(s)
      PROVE  TypeOK' /\ Wiring'
  BY <1>16, KeySyncAssumption DEF Deliver, CacheAfter, KeysIn, Message, TypeOK,
     Wiring
<1>17. ASSUME NEW s \in Sockets, ClientClose(s)
      PROVE  TypeOK' /\ Wiring'
  BY <1>17, KeySyncAssumption DEF ClientClose, TypeOK, Wiring
<1>18. ASSUME NEW w \in Workers, WorkerRestart(w)
      PROVE  TypeOK' /\ Wiring'
  BY <1>18, KeySyncAssumption DEF WorkerRestart, RuleLists, TypeOK, Wiring
<1>19. CASE MasterRestart
  BY <1>19, KeySyncAssumption DEF MasterRestart, TypeOK, Wiring
<1>20. CASE UNCHANGED vars
  BY <1>20 DEF vars, TypeOK, Wiring
<1> QED
  BY <1>1, <1>2, <1>3, <1>4, <1>5, <1>6, <1>7, <1>8, <1>9, <1>10, <1>11, <1>12,
     <1>13, <1>14, <1>15, <1>16, <1>17, <1>18, <1>19, <1>20 DEF Next

-----------------------------------------------------------------------------
(* A websocket enters the directory once, under its own name, and leaves it *)
(* at its close at the latest.                                              *)
LEMMA NoDeadEntryInit == Init => NoDeadEntry
  BY DEF Init, NoDeadEntry

LEMMA NoDeadEntryNext ==
  TypeWiring /\ NoDeadEntry /\ [Next]_vars => NoDeadEntry'
<1> SUFFICES ASSUME TypeOK, Wiring, NoDeadEntry, [Next]_vars
             PROVE  NoDeadEntry'
  BY DEF TypeWiring
<1> USE DEF dbVars, masterVars, workerVars
<1>1. ASSUME NEW a \in Agents, CreateAgent(a)
      PROVE  NoDeadEntry'
  BY <1>1, KeySyncAssumption DEF CreateAgent, TypeOK, Wiring, NoDeadEntry
<1>2. ASSUME NEW a \in Agents, DeleteAgent(a)
      PROVE  NoDeadEntry'
  BY <1>2, KeySyncAssumption DEF DeleteAgent, TypeOK, Wiring, NoDeadEntry
<1>3. ASSUME NEW a \in Agents, HandshakeSelect(a)
      PROVE  NoDeadEntry'
  BY <1>3, KeySyncAssumption DEF HandshakeSelect, TypeOK, Wiring, NoDeadEntry
<1>4. ASSUME NEW a \in Agents, HandshakeReply(a)
      PROVE  NoDeadEntry'
  BY <1>4, KeySyncAssumption DEF HandshakeReply, TypeOK, Wiring, NoDeadEntry
<1>5. ASSUME NEW a \in Agents, HandshakeError(a)
      PROVE  NoDeadEntry'
  BY <1>5, KeySyncAssumption DEF HandshakeError, TypeOK, Wiring, NoDeadEntry
<1>6. ASSUME NEW w \in Workers, NEW s \in Sockets, Connect(w, s)
      PROVE  NoDeadEntry'
  BY <1>6, KeySyncAssumption DEF Connect, TypeOK, Wiring, NoDeadEntry
<1>7. ASSUME NEW s \in Sockets, Accept(s)
      PROVE  NoDeadEntry'
  BY <1>7, KeySyncAssumption DEF Accept, TypeOK, Wiring, NoDeadEntry
<1>8. ASSUME NEW s \in Sockets, ClientOpen(s)
      PROVE  NoDeadEntry'
  BY <1>8, KeySyncAssumption DEF ClientOpen, TypeOK, Wiring, NoDeadEntry
<1>9. ASSUME NEW s \in Sockets, AuthTimeout(s)
      PROVE  NoDeadEntry'
  BY <1>9, KeySyncAssumption DEF AuthTimeout, TypeOK, Wiring, NoDeadEntry
<1>10. ASSUME NEW s \in Sockets, Register(s)
      PROVE  NoDeadEntry'
  <2>1. workerID[s] = None /\ owner[s] \in Workers
    BY <1>10 DEF Register, TypeOK, Wiring
  <2>2. RegisteredName(s) \in Names
    BY <2>1, KeySyncAssumption DEF RegisteredName
  <2>3. ASSUME NEW n \in Names, activeWorkers'[n] # None
        PROVE  /\ server'[activeWorkers'[n]] \in {"open", "closing"}
               /\ workerID'[activeWorkers'[n]] = n
    <3>1. CASE n = RegisteredName(s)
      BY <3>1, <1>10 DEF Register, Reads, TypeOK
    <3>2. CASE n # RegisteredName(s)
      <4>1. activeWorkers'[n] = activeWorkers[n] /\ activeWorkers[n] # s
        BY <3>2, <2>1, <2>3, <1>10, KeySyncAssumption DEF Register, TypeOK,
           NoDeadEntry
      <4> QED
        BY <4>1, <2>3, <1>10 DEF Register, TypeOK, NoDeadEntry
    <3> QED
      BY <3>1, <3>2
  <2> QED
    BY <2>3 DEF NoDeadEntry
<1>11. ASSUME NEW s \in Sockets, NEW rules \in RuleLists, SendRules(s, rules)
      PROVE  NoDeadEntry'
  BY <1>11, KeySyncAssumption DEF SendRules, TypeOK, Wiring, NoDeadEntry
<1>12. ASSUME NEW s \in Sockets, ReadKeys(s)
      PROVE  NoDeadEntry'
  BY <1>12, KeySyncAssumption DEF ReadKeys, TypeOK, Wiring, NoDeadEntry
<1>13. ASSUME NEW s \in Sockets, SendKeys(s)
      PROVE  NoDeadEntry'
  BY <1>13, KeySyncAssumption DEF SendKeys, TypeOK, Wiring, NoDeadEntry
<1>14. ASSUME NEW s \in Sockets, SyncError(s)
      PROVE  NoDeadEntry'
  BY <1>14, KeySyncAssumption DEF SyncError, TypeOK, Wiring, NoDeadEntry
<1>15. ASSUME NEW s \in Sockets, ServerClose(s)
      PROVE  NoDeadEntry'
  BY <1>15, KeySyncAssumption DEF ServerClose, DirectoryWithout, TypeOK, Wiring,
     NoDeadEntry
<1>16. ASSUME NEW s \in Sockets, Deliver(s)
      PROVE  NoDeadEntry'
  BY <1>16, KeySyncAssumption DEF Deliver, TypeOK, Wiring, NoDeadEntry
<1>17. ASSUME NEW s \in Sockets, ClientClose(s)
      PROVE  NoDeadEntry'
  BY <1>17, KeySyncAssumption DEF ClientClose, TypeOK, Wiring, NoDeadEntry
<1>18. ASSUME NEW w \in Workers, WorkerRestart(w)
      PROVE  NoDeadEntry'
  BY <1>18, KeySyncAssumption DEF WorkerRestart, TypeOK, Wiring, NoDeadEntry
<1>19. CASE MasterRestart
  BY <1>19, KeySyncAssumption DEF MasterRestart, TypeOK, Wiring, NoDeadEntry
<1>20. CASE UNCHANGED vars
  BY <1>20 DEF vars, TypeOK, Wiring, NoDeadEntry
<1> QED
  BY <1>1, <1>2, <1>3, <1>4, <1>5, <1>6, <1>7, <1>8, <1>9, <1>10, <1>11, <1>12,
     <1>13, <1>14, <1>15, <1>16, <1>17, <1>18, <1>19, <1>20 DEF Next

-----------------------------------------------------------------------------
(* No key is missed.  A broadcast reaches every websocket in the directory, *)
(* the snapshot is read after the websocket entered the directory, and the  *)
(* cache only grows while its process lives.                                *)
LEMMA CoveredInit == Init => Covered
  BY KeySyncAssumption DEF Init, Covered, Live

LEMMA CoveredNext == IInv /\ [Next]_vars => Covered'
<1> SUFFICES ASSUME TypeOK, Wiring, NoDeadEntry, Covered, [Next]_vars
             PROVE  Covered'
  BY DEF IInv
<1> USE DEF dbVars, masterVars, workerVars
<1>1. ASSUME NEW a \in Agents, CreateAgent(a)
      PROVE  Covered'
  BY <1>1, KeySyncAssumption DEF CreateAgent, TypeOK, Wiring, Covered, Live, Served,
     Held
<1>2. ASSUME NEW a \in Agents, DeleteAgent(a)
      PROVE  Covered'
  BY <1>2, KeySyncAssumption DEF DeleteAgent, TypeOK, Wiring, Covered, Live, Served,
     Held
<1>3. ASSUME NEW a \in Agents, HandshakeSelect(a)
      PROVE  Covered'
  BY <1>3, KeySyncAssumption DEF HandshakeSelect, TypeOK, Wiring, Covered, Live,
     Served, Held
<1>4. ASSUME NEW a \in Agents, HandshakeReply(a)
      PROVE  Covered'
  <2> DEFINE m == [type |-> "NEW_AGENT_KEY", agent_id |-> a]
  <2>1. m \in Message /\ KeysIn(m) = {a}
    BY DEF Message, KeysIn
  <2> SUFFICES ASSUME NEW n \in Names, NEW s \in Sockets, activeWorkers'[n] = s, Live(s)'
               PROVE  /\ stage'[s] = "read" => Served' \subseteq snapshot'[s] \cup Held(s)'
                      /\ stage'[s] = "synced" => Served' \subseteq Held(s)'
    BY DEF Covered
  <2>2. activeWorkers[n] = s /\ Live(s) /\ Receives(s) /\ Listed(s)
    BY <1>4 DEF HandshakeReply, Live, Receives, Listed
  <2>3. Served' \subseteq Served \cup {a}
    BY <1>4 DEF HandshakeReply, Served
  <2>4. toWorker'[s] = Append(toWorker[s], m) /\ toWorker[s] \in Seq(Message)
    BY <1>4, <2>2 DEF HandshakeReply, TypeOK
  <2>5. InFlight(toWorker'[s]) = InFlight(toWorker[s]) \cup {a}
    BY <2>1, <2>4, InFlightAppend
  <2>6. Held(s)' = Held(s) \cup {a}
    BY <1>4, <2>5 DEF HandshakeReply, Held
  <2> QED
    BY <1>4, <2>2, <2>3, <2>6 DEF HandshakeReply, Covered
<1>5. ASSUME NEW a \in Agents, HandshakeError(a)
      PROVE  Covered'
  BY <1>5, KeySyncAssumption DEF HandshakeError, TypeOK, Wiring, Covered, Live,
     Served, Held
<1>6. ASSUME NEW w \in Workers, NEW s \in Sockets, Connect(w, s)
      PROVE  Covered'
  <2>1. ~ Live(s)'
    BY <1>6 DEF Connect, Live, TypeOK
  <2>2. ASSUME NEW t \in Sockets, t # s
        PROVE  Live(t)' = Live(t) /\ Held(t)' = Held(t)
    BY <1>6, <2>2 DEF Connect, Live, Held, TypeOK
  <2> QED
    BY <1>6, <2>1, <2>2 DEF Connect, Covered, Served
<1>7. ASSUME NEW s \in Sockets, Accept(s)
      PROVE  Covered'
  BY <1>7, KeySyncAssumption DEF Accept, TypeOK, Wiring, Covered, Live, Served, Held
<1>8. ASSUME NEW s \in Sockets, ClientOpen(s)
      PROVE  Covered'
  <2>1. workerID[s] = None /\ hello[s] = "unsent"
    BY <1>8 DEF ClientOpen, Wiring, TypeOK
  <2>2. \A n \in Names : activeWorkers[n] # s
    BY <2>1, KeySyncAssumption DEF NoDeadEntry
  <2>3. ASSUME NEW t \in Sockets, t # s
        PROVE  Live(t)' = Live(t) /\ Held(t)' = Held(t)
    BY <1>8, <2>3 DEF ClientOpen, Live, Held, TypeOK
  <2> QED
    BY <1>8, <2>2, <2>3 DEF ClientOpen, Covered, Served
<1>9. ASSUME NEW s \in Sockets, AuthTimeout(s)
      PROVE  Covered'
  BY <1>9, KeySyncAssumption DEF AuthTimeout, TypeOK, Wiring, Covered, Live, Served,
     Held
<1>10. ASSUME NEW s \in Sockets, Register(s)
      PROVE  Covered'
  BY <1>10, KeySyncAssumption DEF Register, Reads, RegisteredName, TypeOK, Wiring,
     Covered, Live, Served, Held
<1>11. ASSUME NEW s \in Sockets, NEW rules \in RuleLists, SendRules(s, rules)
      PROVE  Covered'
  <2>1. [type |-> "RULES", message |-> rules] \in Message
    BY DEF Message
  <2>2. ASSUME NEW t \in Sockets
        PROVE  Live(t)' = Live(t) /\ Held(t) \subseteq Held(t)'
    <3>1. toWorker[t] \in Seq(Message)
      BY DEF TypeOK
    <3>2. InFlight(toWorker[t]) \subseteq InFlight(toWorker'[t])
      BY <1>11, <2>1, <3>1, InFlightAppend DEF SendRules, Send, TypeOK
    <3> QED
      BY <1>11, <3>2 DEF SendRules, Live, Held
  <2> QED
    BY <1>11, <2>2 DEF SendRules, Covered, Served, TypeOK
<1>12. ASSUME NEW s \in Sockets, ReadKeys(s)
      PROVE  Covered'
  BY <1>12, KeySyncAssumption DEF ReadKeys, TypeOK, Wiring, Covered, Live, Served,
     Held
<1>13. ASSUME NEW s \in Sockets, SendKeys(s)
      PROVE  Covered'
  <2> DEFINE m == [type |-> "AGENT_KEYS_SYNC", payload |-> snapshot[s]]
  <2>1. m \in Message /\ KeysIn(m) = snapshot[s]
    BY DEF Message, KeysIn, TypeOK
  <2>2. ASSUME NEW t \in Sockets
        PROVE  Live(t)' = Live(t) /\ Held(t) \subseteq Held(t)'
    <3>1. toWorker[t] \in Seq(Message)
      BY DEF TypeOK
    <3>2. InFlight(toWorker[t]) \subseteq InFlight(toWorker'[t])
      BY <1>13, <2>1, <3>1, InFlightAppend DEF SendKeys, Send, TypeOK
    <3> QED
      BY <1>13, <3>2 DEF SendKeys, Live, Held
  <2>3. Live(s) => snapshot[s] \subseteq Held(s)'
    <3> SUFFICES ASSUME Live(s) PROVE snapshot[s] \subseteq Held(s)'
      OBVIOUS
    <3>1. toWorker'[s] = Append(toWorker[s], m) /\ toWorker[s] \in Seq(Message)
      BY <1>13 DEF SendKeys, Send, Receives, Live, TypeOK
    <3>2. InFlight(toWorker'[s]) = InFlight(toWorker[s]) \cup snapshot[s]
      BY <2>1, <3>1, InFlightAppend
    <3> QED
      BY <3>2 DEF Held
  <2>4. stage[s] = "read" /\ stage' = [stage EXCEPT ![s] = "synced"]
    BY <1>13 DEF SendKeys
  <2>5. /\ Served' = Served /\ activeWorkers' = activeWorkers
        /\ snapshot' = [snapshot EXCEPT ![s] = {}]
    BY <1>13 DEF SendKeys, Served
  <2> QED
    BY <2>2, <2>3, <2>4, <2>5 DEF Covered, TypeOK
<1>14. ASSUME NEW s \in Sockets, SyncError(s)
      PROVE  Covered'
  BY <1>14, KeySyncAssumption DEF SyncError, TypeOK, Wiring, Covered, Live, Served,
     Held
<1>15. ASSUME NEW s \in Sockets, ServerClose(s)
      PROVE  Covered'
  BY <1>15, KeySyncAssumption DEF ServerClose, DirectoryWithout, TypeOK, Wiring,
     Covered, Live, Served, Held
<1>16. ASSUME NEW s \in Sockets, Deliver(s)
      PROVE  Covered'
  <2>1. /\ toWorker[s] \in Seq(Message) /\ toWorker[s] # <<>>
        /\ owner[s] \in Workers
    BY <1>16 DEF Deliver, TypeOK, Wiring
  <2>2. InFlight(toWorker[s]) = KeysIn(Head(toWorker[s])) \cup InFlight(Tail(toWorker[s]))
    BY <2>1, InFlightTail
  <2>3. keyCache' = [keyCache EXCEPT ![owner[s]] = @ \cup KeysIn(Head(toWorker[s]))]
    BY <1>16 DEF Deliver, CacheAfter
  <2>4. toWorker' = [toWorker EXCEPT ![s] = Tail(@)] /\ owner' = owner
    BY <1>16 DEF Deliver
  <2>5. ASSUME NEW t \in Sockets
        PROVE  Held(t) \subseteq Held(t)'
    <3>1. owner[t] \in Workers => keyCache[owner[t]] \subseteq keyCache'[owner[t]]
      BY <2>1, <2>3 DEF TypeOK
    <3>2. CASE t = s
      <4>1. /\ keyCache'[owner[s]] = keyCache[owner[s]] \cup KeysIn(Head(toWorker[s]))
            /\ toWorker'[s] = Tail(toWorker[s])
        BY <2>1, <2>3, <2>4 DEF TypeOK
      <4> QED
        BY <4>1, <3>2, <2>2, <2>4 DEF Held
    <3>3. CASE t # s
      <4>1. toWorker'[t] = toWorker[t]
        BY <3>3, <2>4 DEF TypeOK
      <4>2. keyCache[owner[t]] \subseteq keyCache'[owner[t]]
        BY <2>1, <2>3 DEF TypeOK
      <4> QED
        BY <4>1, <4>2, <2>4 DEF Held
    <3> QED
      BY <3>2, <3>3
  <2> QED
    BY <1>16, <2>5 DEF Deliver, Covered, Served, Live
<1>17. ASSUME NEW s \in Sockets, ClientClose(s)
      PROVE  Covered'
  <2>1. ~ Live(s)'
    BY <1>17 DEF ClientClose, Live, TypeOK
  <2>2. ASSUME NEW t \in Sockets, t # s
        PROVE  Live(t)' = Live(t) /\ Held(t)' = Held(t)
    BY <1>17, <2>2 DEF ClientClose, Live, Held, TypeOK
  <2> QED
    BY <1>17, <2>1, <2>2 DEF ClientClose, Covered, Served
<1>18. ASSUME NEW w \in Workers, WorkerRestart(w)
      PROVE  Covered'
  <2>1. ASSUME NEW t \in Sockets, owner[t] = w
        PROVE  ~ Live(t)'
    BY <1>18, <2>1 DEF WorkerRestart, Live
  <2>2. ASSUME NEW t \in Sockets, owner[t] # w
        PROVE  Live(t)' = Live(t) /\ Held(t)' = Held(t)
    BY <1>18, <2>2 DEF WorkerRestart, Live, Held, TypeOK
  <2> QED
    BY <1>18, <2>1, <2>2 DEF WorkerRestart, Covered, Served
<1>19. CASE MasterRestart
  BY <1>19, KeySyncAssumption DEF MasterRestart, TypeOK, Wiring, Covered, Live,
     Served, Held
<1>20. CASE UNCHANGED vars
  BY <1>20 DEF vars, TypeOK, Wiring, Covered, Live, Served, Held
<1> QED
  BY <1>1, <1>2, <1>3, <1>4, <1>5, <1>6, <1>7, <1>8, <1>9, <1>10, <1>11, <1>12,
     <1>13, <1>14, <1>15, <1>16, <1>17, <1>18, <1>19, <1>20 DEF Next

-----------------------------------------------------------------------------
(* What registration, handshakes, closes and restarts preserve together     *)
(* (workerHandler.js:16-74, 179-184, agentAuthController.js:10-97).         *)
THEOREM Invariance == Spec => []IInv
<1>1. Init => IInv
  BY TypeWiringInit, NoDeadEntryInit, CoveredInit DEF IInv, TypeWiring
<1>2. IInv /\ [Next]_vars => IInv'
  BY TypeWiringNext, NoDeadEntryNext, CoveredNext DEF IInv, TypeWiring
<1> QED
  BY <1>1, <1>2, PTL DEF Spec

(* Every variable keeps its type. *)
THEOREM TypeCorrect == Spec => []TypeOK
<1>1. IInv => TypeOK
  BY DEF IInv
<1> QED
  BY <1>1, Invariance, PTL

(* The directory of the master (workerHandler.js:16) never holds a websocket *)
(* whose close event it has handled, nor files one under a foreign name.     *)
THEOREM DirectoryClean == Spec => []NoDeadEntry
<1>1. IInv => NoDeadEntry
  BY DEF IInv
<1> QED
  BY <1>1, Invariance, PTL

(* A synchronised websocket of the directory misses no key, however the     *)
(* awaits of its registration interleave with handshakes, deletions, closes *)
(* and restarts (workerHandler.js:44-71, agentAuthController.js:76-92).     *)
THEOREM KeysComplete == Spec => []NoKeyGap
<1>1. IInv => NoKeyGap
  BY DEF IInv, NoKeyGap, Covered, TypeOK
<1> QED
  BY <1>1, Invariance, PTL

(* Only the restart of its process empties a key cache                      *)
(* (handlerMasterSocket.js:34-43).                                          *)
THEOREM KeysStay == Spec => KeysOnlyLostByRestart
<1> DEFINE Keeps == \A w \in Workers :
                      ~ (keyCache[w] \subseteq keyCache'[w]) => WorkerRestart(w)
<1>1. TypeOK /\ [Next]_vars => [Keeps]_vars
  <2> SUFFICES ASSUME TypeOK, Next
               PROVE  Keeps
    OBVIOUS
  <2> USE DEF dbVars, masterVars, workerVars
  <2>1. ASSUME NEW s \in Sockets, Deliver(s)
        PROVE  Keeps
    BY <2>1 DEF Deliver, CacheAfter, TypeOK
  <2>2. ASSUME NEW v \in Workers, WorkerRestart(v)
        PROVE  Keeps
    <3>1. \A w \in Workers : w # v => keyCache'[w] = keyCache[w]
      BY <2>2 DEF WorkerRestart, TypeOK
    <3> QED
      BY <3>1, <2>2
  <2>3. CASE keyCache' = keyCache
    BY <2>3
  <2> QED
    BY <2>1, <2>2, <2>3 DEF Next, CreateAgent, DeleteAgent, HandshakeSelect,
       HandshakeReply, HandshakeError, Connect, Accept, ClientOpen, AuthTimeout,
       Register, ReadKeys, SendKeys, SyncError, SendRules, ServerClose,
       ClientClose, MasterRestart
<1> QED
  BY <1>1, TypeCorrect, PTL DEF Spec, KeysOnlyLostByRestart

-----------------------------------------------------------------------------
(* The deployment the code needs: each worker process reads a name of its   *)
(* own, and the master handles the close of a websocket before the hello of *)
(* the next one.                                                            *)
LEMMA OneConnectionNext ==
  ASSUME ~ LateClose
  PROVE  TypeWiring /\ OneConnection /\ [Next]_vars => OneConnection'
<1> SUFFICES ASSUME TypeOK, Wiring, OneConnection, [Next]_vars
             PROVE  OneConnection'
  BY DEF TypeWiring
<1> USE DEF dbVars, masterVars, workerVars
<1>1. ASSUME NEW a \in Agents, CreateAgent(a)
      PROVE  OneConnection'
  BY <1>1, KeySyncAssumption DEF CreateAgent, TypeOK, Wiring, OneConnection, Over
<1>2. ASSUME NEW a \in Agents, DeleteAgent(a)
      PROVE  OneConnection'
  BY <1>2, KeySyncAssumption DEF DeleteAgent, TypeOK, Wiring, OneConnection, Over
<1>3. ASSUME NEW a \in Agents, HandshakeSelect(a)
      PROVE  OneConnection'
  BY <1>3, KeySyncAssumption DEF HandshakeSelect, TypeOK, Wiring, OneConnection,
     Over
<1>4. ASSUME NEW a \in Agents, HandshakeReply(a)
      PROVE  OneConnection'
  BY <1>4, KeySyncAssumption DEF HandshakeReply, TypeOK, Wiring, OneConnection, Over
<1>5. ASSUME NEW a \in Agents, HandshakeError(a)
      PROVE  OneConnection'
  BY <1>5, KeySyncAssumption DEF HandshakeError, TypeOK, Wiring, OneConnection, Over
<1>6. ASSUME NEW w \in Workers, NEW s \in Sockets, Connect(w, s)
      PROVE  OneConnection'
  BY <1>6, KeySyncAssumption DEF Connect, MayConnect, TypeOK, Wiring, OneConnection,
     Over
<1>7. ASSUME NEW s \in Sockets, Accept(s)
      PROVE  OneConnection'
  BY <1>7, KeySyncAssumption DEF Accept, TypeOK, Wiring, OneConnection, Over
<1>8. ASSUME NEW s \in Sockets, ClientOpen(s)
      PROVE  OneConnection'
  BY <1>8, KeySyncAssumption DEF ClientOpen, TypeOK, Wiring, OneConnection, Over
<1>9. ASSUME NEW s \in Sockets, AuthTimeout(s)
      PROVE  OneConnection'
  BY <1>9, KeySyncAssumption DEF AuthTimeout, TypeOK, Wiring, OneConnection, Over
<1>10. ASSUME NEW s \in Sockets, Register(s)
      PROVE  OneConnection'
  BY <1>10, KeySyncAssumption DEF Register, Reads, RegisteredName, TypeOK, Wiring,
     OneConnection, Over
<1>11. ASSUME NEW s \in Sockets, NEW rules \in RuleLists, SendRules(s, rules)
      PROVE  OneConnection'
  BY <1>11, KeySyncAssumption DEF SendRules, TypeOK, Wiring, OneConnection, Over
<1>12. ASSUME NEW s \in Sockets, ReadKeys(s)
      PROVE  OneConnection'
  BY <1>12, KeySyncAssumption DEF ReadKeys, TypeOK, Wiring, OneConnection, Over
<1>13. ASSUME NEW s \in Sockets, SendKeys(s)
      PROVE  OneConnection'
  BY <1>13, KeySyncAssumption DEF SendKeys, TypeOK, Wiring, OneConnection, Over
<1>14. ASSUME NEW s \in Sockets, SyncError(s)
      PROVE  OneConnection'
  BY <1>14, KeySyncAssumption DEF SyncError, TypeOK, Wiring, OneConnection, Over
<1>15. ASSUME NEW s \in Sockets, ServerClose(s)
      PROVE  OneConnection'
  BY <1>15, KeySyncAssumption DEF ServerClose, DirectoryWithout, TypeOK, Wiring,
     OneConnection, Over
<1>16. ASSUME NEW s \in Sockets, Deliver(s)
      PROVE  OneConnection'
  BY <1>16, KeySyncAssumption DEF Deliver, TypeOK, Wiring, OneConnection, Over
<1>17. ASSUME NEW s \in Sockets, ClientClose(s)
      PROVE  OneConnection'
  BY <1>17, KeySyncAssumption DEF ClientClose, TypeOK, Wiring, OneConnection, Over
<1>18. ASSUME NEW w \in Workers, WorkerRestart(w)
      PROVE  OneConnection'
  BY <1>18, KeySyncAssumption DEF WorkerRestart, TypeOK, Wiring, OneConnection, Over
<1>19. CASE MasterRestart
  BY <1>19, KeySyncAssumption DEF MasterRestart, TypeOK, Wiring, OneConnection, Over
<1>20. CASE UNCHANGED vars
  BY <1>20 DEF vars, TypeOK, Wiring, OneConnection, Over
<1> QED
  BY <1>1, <1>2, <1>3, <1>4, <1>5, <1>6, <1>7, <1>8, <1>9, <1>10, <1>11, <1>12,
     <1>13, <1>14, <1>15, <1>16, <1>17, <1>18, <1>19, <1>20 DEF Next

LEMMA LiveSocketListedNext ==
  ASSUME DistinctNames
  PROVE  TypeWiring /\ OneConnection /\ LiveSocketListed /\ [Next]_vars => LiveSocketListed'
<1> SUFFICES ASSUME TypeOK, Wiring, OneConnection, LiveSocketListed, [Next]_vars
             PROVE  LiveSocketListed'
  BY DEF TypeWiring
<1> USE DEF dbVars, masterVars, workerVars
<1>1. ASSUME NEW a \in Agents, CreateAgent(a)
      PROVE  LiveSocketListed'
  BY <1>1, KeySyncAssumption DEF CreateAgent, TypeOK, Wiring, OneConnection, Over,
     LiveSocketListed, Live, DistinctNames
<1>2. ASSUME NEW a \in Agents, DeleteAgent(a)
      PROVE  LiveSocketListed'
  BY <1>2, KeySyncAssumption DEF DeleteAgent, TypeOK, Wiring, OneConnection, Over,
     LiveSocketListed, Live, DistinctNames
<1>3. ASSUME NEW a \in Agents, HandshakeSelect(a)
      PROVE  LiveSocketListed'
  BY <1>3, KeySyncAssumption DEF HandshakeSelect, TypeOK, Wiring, OneConnection,
     Over, LiveSocketListed, Live, DistinctNames
<1>4. ASSUME NEW a \in Agents, HandshakeReply(a)
      PROVE  LiveSocketListed'
  BY <1>4, KeySyncAssumption DEF HandshakeReply, TypeOK, Wiring, OneConnection,
     Over, LiveSocketListed, Live, DistinctNames
<1>5. ASSUME NEW a \in Agents, HandshakeError(a)
      PROVE  LiveSocketListed'
  BY <1>5, KeySyncAssumption DEF HandshakeError, TypeOK, Wiring, OneConnection,
     Over, LiveSocketListed, Live, DistinctNames
<1>6. ASSUME NEW w \in Workers, NEW s \in Sockets, Connect(w, s)
      PROVE  LiveSocketListed'
  BY <1>6, KeySyncAssumption DEF Connect, MayConnect, TypeOK, Wiring, OneConnection,
     Over, LiveSocketListed, Live, DistinctNames
<1>7. ASSUME NEW s \in Sockets, Accept(s)
      PROVE  LiveSocketListed'
  BY <1>7, KeySyncAssumption DEF Accept, TypeOK, Wiring, OneConnection, Over,
     LiveSocketListed, Live, DistinctNames
<1>8. ASSUME NEW s \in Sockets, ClientOpen(s)
      PROVE  LiveSocketListed'
  BY <1>8, KeySyncAssumption DEF ClientOpen, TypeOK, Wiring, OneConnection, Over,
     LiveSocketListed, Live, DistinctNames
<1>9. ASSUME NEW s \in Sockets, AuthTimeout(s)
      PROVE  LiveSocketListed'
  BY <1>9, KeySyncAssumption DEF AuthTimeout, TypeOK, Wiring, OneConnection, Over,
     LiveSocketListed, Live, DistinctNames
<1>10. ASSUME NEW s \in Sockets, Register(s)
      PROVE  LiveSocketListed'
  BY <1>10, KeySyncAssumption DEF Register, Reads, RegisteredName, TypeOK, Wiring,
     OneConnection, Over, LiveSocketListed, Live, DistinctNames
<1>11. ASSUME NEW s \in Sockets, NEW rules \in RuleLists, SendRules(s, rules)
      PROVE  LiveSocketListed'
  BY <1>11, KeySyncAssumption DEF SendRules, TypeOK, Wiring, OneConnection, Over,
     LiveSocketListed, Live, DistinctNames
<1>12. ASSUME NEW s \in Sockets, ReadKeys(s)
      PROVE  LiveSocketListed'
  BY <1>12, KeySyncAssumption DEF ReadKeys, TypeOK, Wiring, OneConnection, Over,
     LiveSocketListed, Live, DistinctNames
<1>13. ASSUME NEW s \in Sockets, SendKeys(s)
      PROVE  LiveSocketListed'
  BY <1>13, KeySyncAssumption DEF SendKeys, TypeOK, Wiring, OneConnection, Over,
     LiveSocketListed, Live, DistinctNames
<1>14. ASSUME NEW s \in Sockets, SyncError(s)
      PROVE  LiveSocketListed'
  BY <1>14, KeySyncAssumption DEF SyncError, TypeOK, Wiring, OneConnection, Over,
     LiveSocketListed, Live, DistinctNames
<1>15. ASSUME NEW s \in Sockets, ServerClose(s)
      PROVE  LiveSocketListed'
  BY <1>15, KeySyncAssumption DEF ServerClose, DirectoryWithout, TypeOK, Wiring,
     OneConnection, Over, LiveSocketListed, Live, DistinctNames
<1>16. ASSUME NEW s \in Sockets, Deliver(s)
      PROVE  LiveSocketListed'
  BY <1>16, KeySyncAssumption DEF Deliver, TypeOK, Wiring, OneConnection, Over,
     LiveSocketListed, Live, DistinctNames
<1>17. ASSUME NEW s \in Sockets, ClientClose(s)
      PROVE  LiveSocketListed'
  BY <1>17, KeySyncAssumption DEF ClientClose, TypeOK, Wiring, OneConnection, Over,
     LiveSocketListed, Live, DistinctNames
<1>18. ASSUME NEW w \in Workers, WorkerRestart(w)
      PROVE  LiveSocketListed'
  BY <1>18, KeySyncAssumption DEF WorkerRestart, TypeOK, Wiring, OneConnection,
     Over, LiveSocketListed, Live, DistinctNames
<1>19. CASE MasterRestart
  BY <1>19, KeySyncAssumption DEF MasterRestart, TypeOK, Wiring, OneConnection,
     Over, LiveSocketListed, Live, DistinctNames
<1>20. CASE UNCHANGED vars
  BY <1>20 DEF vars, TypeOK, Wiring, OneConnection, Over, LiveSocketListed, Live,
     DistinctNames
<1> QED
  BY <1>1, <1>2, <1>3, <1>4, <1>5, <1>6, <1>7, <1>8, <1>9, <1>10, <1>11, <1>12,
     <1>13, <1>14, <1>15, <1>16, <1>17, <1>18, <1>19, <1>20 DEF Next

(* Then the directory stores every connection that is alive, as             *)
(* workerHandler.js:16 says it does ...                                     *)
THEOREM DirectoryComplete ==
  ASSUME DistinctNames, ~ LateClose
  PROVE  Spec => []LiveSocketListed
<1>1. Init => OneConnection /\ LiveSocketListed
  BY KeySyncAssumption DEF Init, OneConnection, LiveSocketListed, Live, Over
<1>2. IInv /\ OneConnection /\ LiveSocketListed /\ [Next]_vars
        => OneConnection' /\ LiveSocketListed'
  BY OneConnectionNext, LiveSocketListedNext DEF IInv, TypeWiring
<1> QED
  BY <1>1, <1>2, Invariance, PTL DEF Spec

(* ... and the key of every agent that was answered 200 reaches every       *)
(* synchronised worker, as agentAuthController.js:76 says it does.          *)
THEOREM EveryWorkerServed ==
  ASSUME DistinctNames, ~ LateClose
  PROVE  Spec => []EveryWorkerCovered
<1>1. IInv /\ LiveSocketListed => EveryWorkerCovered
  BY DEF IInv, TypeOK, Wiring, Covered, LiveSocketListed, EveryWorkerCovered
<1> QED
  BY <1>1, DirectoryComplete, Invariance, PTL

-----------------------------------------------------------------------------
(* A worker process has at most one websocket that is not closed at its     *)
(* end, the one it sends on.                                                *)
OneOpen ==
  \A s \in Sockets : client[s] \in {"connecting", "open"} => socketInstance[owner[s]] = s

LEMMA OneOpenNext == TypeWiring /\ OneOpen /\ [Next]_vars => OneOpen'
<1> SUFFICES ASSUME TypeOK, Wiring, OneOpen, [Next]_vars
             PROVE  OneOpen'
  BY DEF TypeWiring
<1> USE DEF dbVars, masterVars, workerVars
<1>1. ASSUME NEW w \in Workers, NEW s \in Sockets, Connect(w, s)
      PROVE  OneOpen'
  BY <1>1, KeySyncAssumption DEF Connect, MayConnect, TypeOK, Wiring, OneOpen
<1>2. ASSUME NEW s \in Sockets, ClientOpen(s)
      PROVE  OneOpen'
  BY <1>2 DEF ClientOpen, TypeOK, OneOpen
<1>3. ASSUME NEW s \in Sockets, ClientClose(s)
      PROVE  OneOpen'
  BY <1>3 DEF ClientClose, TypeOK, OneOpen
<1>4. ASSUME NEW w \in Workers, WorkerRestart(w)
      PROVE  OneOpen'
  BY <1>4 DEF WorkerRestart, TypeOK, OneOpen
<1>5. CASE UNCHANGED <<client, owner, socketInstance>>
  BY <1>5 DEF OneOpen
<1> QED
  BY <1>1, <1>2, <1>3, <1>4, <1>5 DEF Next, vars, CreateAgent, DeleteAgent,
     HandshakeSelect, HandshakeReply, HandshakeError, Accept, AuthTimeout,
     Register, ReadKeys, SendKeys, SyncError, SendRules, ServerClose, Deliver,
     MasterRestart

-----------------------------------------------------------------------------
(* The refinement.  A step either leaves the abstract view alone, or is one *)
(* of its four steps; these lemmas say what is enough for each.             *)
LEMMA BoardStutters ==
  ASSUME Served' = Served, Members' = Members,
         \A s \in Members : Held(s)' = Held(s)
  PROVE  UNCHANGED <<Served, Members, Boards>>
  BY DEF Boards

LEMMA BoardLeave ==
  ASSUME Served' = Served, Members' \subseteq Members,
         \A s \in Members' : Held(s)' = Held(s)
  PROVE  Board!Next
<1> DEFINE S == Members \ Members'
<1>1. S \in SUBSET Members /\ Members' = Members \ S
  OBVIOUS
<1>2. Boards' = [s \in Sockets |-> IF s \in S THEN {} ELSE Boards[s]]
  BY DEF Boards
<1>3. Board!Leave(S)
  BY <1>1, <1>2 DEF Board!Leave
<1> QED
  BY <1>1, <1>3 DEF Board!Next

LEMMA RefinementInit == Init => Board!Init
  BY KeySyncAssumption DEF Init, Board!Init, Served, Members, Boards, Live

LEMMA RefinementNext ==
  IInv /\ OneOpen /\ [Next]_vars => [Board!Next]_<<Served, Members, Boards>>
<1> SUFFICES ASSUME TypeOK, Wiring, NoDeadEntry, Covered, OneOpen, [Next]_vars
             PROVE  Board!Next \/ UNCHANGED <<Served, Members, Boards>>
  BY DEF IInv
<1> USE DEF dbVars, masterVars, workerVars
<1>1. ASSUME NEW a \in Agents, CreateAgent(a)
      PROVE  UNCHANGED <<Served, Members, Boards>>
  BY <1>1, BoardStutters DEF CreateAgent, TypeOK, Served, Members, Listed, Live,
     Held
<1>2. ASSUME NEW a \in Agents, DeleteAgent(a)
      PROVE  Board!Next
  <2>1. Members' = Members /\ Boards' = Boards
    BY <1>2 DEF DeleteAgent, Boards, Members, Listed, Live, Held
  <2>2. Served' = Served \ {a}
    BY <1>2 DEF DeleteAgent, Served
  <2> QED
    BY <2>1, <2>2 DEF Board!Next, Board!Withdraw
<1>3. ASSUME NEW a \in Agents, HandshakeSelect(a)
      PROVE  UNCHANGED <<Served, Members, Boards>>
  BY <1>3, BoardStutters DEF HandshakeSelect, Served, Members, Listed, Live, Held
<1>4. ASSUME NEW a \in Agents, HandshakeReply(a)
      PROVE  Board!Next
  <2> DEFINE m == [type |-> "NEW_AGENT_KEY", agent_id |-> a]
  <2>1. m \in Message /\ KeysIn(m) = {a}
    BY DEF Message, KeysIn
  <2>2. Members' = Members
    BY <1>4 DEF HandshakeReply, Members, Listed, Live
  <2>3. Served' = Served \/ Served' = Served \cup {a}
    BY <1>4 DEF HandshakeReply, Served
  <2>4. ASSUME NEW s \in Members
        PROVE  Held(s)' = Held(s) \cup {a}
    <3>1. /\ toWorker'[s] = Append(toWorker[s], m) /\ toWorker[s] \in Seq(Message)
          /\ keyCache' = keyCache /\ owner' = owner
      BY <1>4 DEF HandshakeReply, Members, Live, Receives, TypeOK
    <3>2. InFlight(toWorker'[s]) = InFlight(toWorker[s]) \cup {a}
      BY <2>1, <3>1, InFlightAppend
    <3> QED
      BY <3>1, <3>2 DEF Held
  <2>5. Boards' = [s \in Sockets |-> IF s \in Members THEN Boards[s] \cup {a} ELSE {}]
    BY <2>2, <2>4 DEF Boards
  <2> QED
    BY <2>2, <2>3, <2>5 DEF Board!Next, Board!Admit
<1>5. ASSUME NEW a \in Agents, HandshakeError(a)
      PROVE  UNCHANGED <<Served, Members, Boards>>
  BY <1>5, BoardStutters DEF HandshakeError, Served, Members, Listed, Live, Held
<1>6. ASSUME NEW w \in Workers, NEW s \in Sockets, Connect(w, s)
      PROVE  UNCHANGED <<Served, Members, Boards>>
  <2>1. ~ Live(s) /\ ~ Live(s)'
    BY <1>6 DEF Connect, Live, TypeOK
  <2>2. ASSUME NEW t \in Sockets, t # s
        PROVE  Live(t)' = Live(t) /\ Held(t)' = Held(t)
    BY <1>6, <2>2 DEF Connect, Live, Held, TypeOK
  <2> QED
    BY <1>6, <2>1, <2>2, BoardStutters DEF Connect, Members, Listed, Served
<1>7. ASSUME NEW s \in Sockets, Accept(s)
      PROVE  UNCHANGED <<Served, Members, Boards>>
  BY <1>7, BoardStutters DEF Accept, TypeOK, Served, Members, Listed, Live, Held
<1>8. ASSUME NEW s \in Sockets, ClientOpen(s)
      PROVE  UNCHANGED <<Served, Members, Boards>>
  <2>1. stage[s] = "idle" /\ stage' = stage
    BY <1>8 DEF ClientOpen, Wiring, TypeOK
  <2>2. Members' = Members
    BY <1>8, <2>1 DEF ClientOpen, Members, Listed, Live, TypeOK
  <2> QED
    BY <1>8, <2>2, BoardStutters DEF ClientOpen, Served, Held
<1>9. ASSUME NEW s \in Sockets, AuthTimeout(s)
      PROVE  UNCHANGED <<Served, Members, Boards>>
  <2>1. stage[s] = "idle"
    BY <1>9 DEF AuthTimeout, Wiring, TypeOK
  <2>2. Members' = Members
    BY <1>9, <2>1 DEF AuthTimeout, Members, Listed, Live, TypeOK
  <2> QED
    BY <1>9, <2>2, BoardStutters DEF AuthTimeout, Served, Held
<1>10. ASSUME NEW s \in Sockets, Register(s)
      PROVE  Board!Next
  <2>1. \A t \in Sockets \ {s} : Listed(t)' => Listed(t)
    BY <1>10 DEF Register, Listed, TypeOK
  <2>2. stage' = [stage EXCEPT ![s] = "rules"]
    BY <1>10 DEF Register
  <2>3. Members' \subseteq Members
    BY <1>10, <2>1, <2>2 DEF Register, Members, Live, TypeOK
  <2> QED
    BY <1>10, <2>3, BoardLeave DEF Register, Served, Held
<1>11. ASSUME NEW s \in Sockets, NEW rules \in RuleLists, SendRules(s, rules)
      PROVE  UNCHANGED <<Served, Members, Boards>>
  <2> DEFINE m == [type |-> "RULES", message |-> rules]
  <2>1. m \in Message /\ KeysIn(m) = {}
    BY DEF Message, KeysIn
  <2>2. stage[s] = "rules" /\ stage' = [stage EXCEPT ![s] = "keys"]
    BY <1>11 DEF SendRules
  <2>3. Members' = Members
    BY <1>11, <2>2 DEF SendRules, Members, Listed, Live, TypeOK
  <2>4. ASSUME NEW t \in Members
        PROVE  Held(t)' = Held(t)
    BY <1>11, <2>2 DEF SendRules, Send, Members, Held, TypeOK
  <2> QED
    BY <1>11, <2>3, <2>4, BoardStutters DEF SendRules, Served
<1>12. ASSUME NEW s \in Sockets, ReadKeys(s)
      PROVE  UNCHANGED <<Served, Members, Boards>>
  BY <1>12, BoardStutters DEF ReadKeys, TypeOK, Served, Members, Listed, Live, Held
<1>13. ASSUME NEW s \in Sockets, SendKeys(s)
      PROVE  Board!Next \/ UNCHANGED <<Served, Members, Boards>>
  <2>1. /\ stage[s] = "read" /\ stage' = [stage EXCEPT ![s] = "synced"]
        /\ Served' = Served
    BY <1>13 DEF SendKeys, Served
  <2>2. \A t \in Sockets : Live(t)' = Live(t) /\ Listed(t)' = Listed(t)
    BY <1>13 DEF SendKeys, Live, Listed
  <2>3. s \notin Members
    BY <2>1 DEF Members
  <2>4. \A t \in Members : Held(t)' = Held(t)
    BY <1>13, <2>3 DEF SendKeys, Send, Members, Held, TypeOK
  <2>5. CASE Live(s) /\ Listed(s)
    <3>1. Members' = Members \cup {s}
      BY <2>1, <2>2, <2>5 DEF Members, TypeOK
    <3>2. Covered'
      BY <1>13, CoveredNext DEF Next, IInv
    <3>3. Served \subseteq Held(s)'
      BY <2>1, <2>2, <2>5, <3>2 DEF Covered, Listed, TypeOK
    <3>4. Held(s)' \in SUBSET Agents
      <4>1. TypeOK' /\ Wiring'
        BY <1>13, TypeWiringNext DEF Next, TypeWiring
      <4>2. owner'[s] \in Workers /\ toWorker'[s] \in Seq(Message)
        BY <4>1, <2>2, <2>5 DEF TypeOK, Wiring, Live
      <4>3. InFlight(toWorker'[s]) \subseteq Agents
        <5>1. \A m \in Message : KeysIn(m) \subseteq Agents
          BY DEF Message, KeysIn
        <5>2. \A i \in 1..Len(toWorker'[s]) : toWorker'[s][i] \in Message
          BY <4>2
        <5> QED
          BY <5>1, <5>2 DEF InFlight
      <4> QED
        BY <4>1, <4>2, <4>3 DEF Held, TypeOK
    <3>5. Boards' = [Boards EXCEPT ![s] = Held(s)']
      BY <2>3, <2>4, <3>1 DEF Boards
    <3>6. Board!Join(s)
      BY <2>1, <2>3, <3>1, <3>3, <3>4, <3>5 DEF Board!Join
    <3> QED
      BY <3>6 DEF Board!Next
  <2>6. CASE ~ (Live(s) /\ Listed(s))
    <3>1. Members' = Members
      BY <2>1, <2>2, <2>6 DEF Members, TypeOK
    <3> QED
      BY <2>1, <2>4, <3>1, BoardStutters
  <2> QED
    BY <2>5, <2>6
<1>14. ASSUME NEW s \in Sockets, SyncError(s)
      PROVE  UNCHANGED <<Served, Members, Boards>>
  BY <1>14, BoardStutters DEF SyncError, TypeOK, Served, Members, Listed, Live, Held
<1>15. ASSUME NEW s \in Sockets, ServerClose(s)
      PROVE  Board!Next
  <2>1. \A t \in Sockets : Listed(t)' => Listed(t)
    BY <1>15, KeySyncAssumption DEF ServerClose, DirectoryWithout, Listed, TypeOK
  <2>2. Members' \subseteq Members
    BY <1>15, <2>1 DEF ServerClose, Members, Live, TypeOK
  <2> QED
    BY <1>15, <2>2, BoardLeave DEF ServerClose, Served, Held
<1>16. ASSUME NEW s \in Sockets, Deliver(s)
      PROVE  UNCHANGED <<Served, Members, Boards>>
  <2> DEFINE m == Head(toWorker[s])
  <2>1. /\ toWorker[s] \in Seq(Message) /\ toWorker[s] # <<>>
        /\ owner[s] \in Workers
    BY <1>16 DEF Deliver, TypeOK, Wiring
  <2>2. InFlight(toWorker[s]) = KeysIn(m) \cup InFlight(Tail(toWorker[s]))
    BY <2>1, InFlightTail
  <2>3. /\ keyCache' = [keyCache EXCEPT ![owner[s]] = @ \cup KeysIn(m)]
        /\ toWorker' = [toWorker EXCEPT ![s] = Tail(@)]
        /\ owner' = owner
    BY <1>16 DEF Deliver, CacheAfter
  <2>4. Members' = Members /\ Served' = Served
    BY <1>16 DEF Deliver, Members, Listed, Live, Served
  <2>5. Held(s)' = Held(s)
    BY <2>1, <2>2, <2>3 DEF Held, TypeOK
  <2>6. ASSUME NEW t \in Members, t # s
        PROVE  Held(t)' = Held(t)
    <3>1. owner[t] # owner[s]
      BY <1>16, <2>6 DEF Deliver, Members, Live, OneOpen
    <3> QED
      BY <2>1, <2>3, <2>6, <3>1 DEF Held, Members, TypeOK
  <2> QED
    BY <2>4, <2>5, <2>6, BoardStutters
<1>17. ASSUME NEW s \in Sockets, ClientClose(s)
      PROVE  Board!Next
  <2>1. Members' \subseteq Members /\ s \notin Members'
    BY <1>17 DEF ClientClose, Members, Listed, Live, TypeOK
  <2> QED
    BY <1>17, <2>1, BoardLeave DEF ClientClose, Served, Held, Members, TypeOK
<1>18. ASSUME NEW w \in Workers, WorkerRestart(w)
      PROVE  Board!Next
  <2>1. \A t \in Sockets : owner[t] = w => ~ Live(t)'
    BY <1>18 DEF WorkerRestart, Live
  <2>2. ASSUME NEW t \in Sockets, owner[t] # w
        PROVE  Live(t)' = Live(t) /\ Held(t)' = Held(t)
    BY <1>18, <2>2 DEF WorkerRestart, Live, Held, TypeOK
  <2>3. Members' \subseteq Members /\ \A t \in Members' : owner[t] # w
    BY <1>18, <2>1, <2>2 DEF WorkerRestart, Members, Listed
  <2>4. \A t \in Members' : Held(t)' = Held(t)
    BY <2>2, <2>3 DEF Members
  <2> QED
    BY <1>18, <2>3, <2>4, BoardLeave DEF WorkerRestart, Served
<1>19. CASE MasterRestart
  <2>1. Members' = {}
    BY <1>19, KeySyncAssumption DEF MasterRestart, Members, Listed
  <2> QED
    BY <1>19, <2>1, BoardLeave DEF MasterRestart, Served
<1>20. CASE UNCHANGED vars
  BY <1>20 DEF vars, Served, Members, Boards, Listed, Live, Held
<1> QED
  BY <1>1, <1>2, <1>3, <1>4, <1>5, <1>6, <1>7, <1>8, <1>9, <1>10, <1>11, <1>12,
     <1>13, <1>14, <1>15, <1>16, <1>17, <1>18, <1>19, <1>20 DEF Next

(* Seen from the agents, key distribution is atomic: a worker joins with    *)
(* every served key at once, an admitted agent is known to all members at   *)
(* once, and no member forgets (workerHandler.js:29-74,                     *)
(* agentAuthController.js:65-92).                                           *)
THEOREM Refinement == Spec => ImplementsKeyBoard
<1>1. Init => OneOpen
  BY DEF Init, OneOpen
<1>2. IInv /\ OneOpen /\ [Next]_vars => OneOpen'
  BY OneOpenNext DEF IInv, TypeWiring
<1> QED
  BY <1>1, <1>2, RefinementInit, RefinementNext, Invariance, PTL
     DEF Spec, ImplementsKeyBoard, Board!Spec, Board!vars
=============================================================================
