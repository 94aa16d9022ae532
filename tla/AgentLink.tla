------------------------------ MODULE AgentLink ------------------------------
(***************************************************************************)
(* The long-lived TCP connection between agentCollector (Go) and a worker  *)
(* (Node): dialling and authenticating, sending batches with three         *)
(* attempts, heartbeats, the read loop, and the worker that reads frames   *)
(* one at a time and awaits the processing of each batch.                  *)
(*                                                                         *)
(* The goroutines of the agent share `tcpConn` under connMutex, which      *)
(* getTCPConnection holds while it dials and authenticates; the other      *)
(* critical sections are one step.  writeMutex makes a frame one step.     *)
(* Abstractions: a batch is a model value, its encoding is left out; a     *)
(* token is the generation of the JWT secret it was signed with (tokens    *)
(* carry no expiry); every deadline may expire whenever what it waits for  *)
(* is missing.  One worker: the balancer's choice does not matter here.    *)
(***************************************************************************)
EXTENDS Naturals, Sequences

CONSTANTS
  Batches,     \* batches handed to `go sendBatch`
  Conns,       \* TCP connections, each used once
  None,        \* nil
  LateAuth,    \* may the worker handle the Auth frame of a connection after
               \* the agent has given it up and dialled the next one?
  Stalls,      \* may a write deadline expire, before or inside a frame?
  MaxSecret,   \* bound: how often the JWT secret is replaced
  MaxFrames    \* bound: frames or answers in flight when a ping is added

ASSUME AgentLinkAssumption ==
  /\ None \notin Conns \cup Batches
  /\ LateAuth \in BOOLEAN /\ Stalls \in BOOLEAN
  /\ MaxSecret \in Nat /\ MaxFrames \in Nat

VARIABLES
  \* agentCollector
  started,       \* main has gone past the first handshake
  token,         \* currentConfig.SessionToken
  tcpConn,       \* the shared connection
  dialer,        \* the sendBatch that holds connMutex to dial
  pc, attempt, using,  \* of each sendBatch: step, attempt, its local conn
  reader,        \* the readLoop of each connection
  pinger, pingConn,    \* the heartbeat goroutine and its local conn
  requests,      \* performHandshake goroutines awaiting the master
  closings,      \* performHandshake goroutines about to close tcpConn
  \* the connections
  agentEnd, serverEnd, c2s, s2c,
  \* the worker
  secret,        \* generation of JWT_SECRET_SESSION_AGENT
  hasKey,        \* keyCache.get(agentId) is there
  authed,        \* `authenticated` of each connection
  busy,          \* the batch whose processing is awaited
  activeSocket,  \* activeAgentSockets.get(agentId)
  processed      \* how often each batch went through the rules

senderVars == <<pc, attempt, using>>
agentVars  == <<started, token, tcpConn, dialer, reader, pinger, pingConn,
                requests, closings>>
netVars    == <<agentEnd, serverEnd, c2s, s2c>>
workerVars == <<secret, hasKey, authed, busy, activeSocket, processed>>
vars       == <<senderVars, agentVars, netVars, workerVars>>

Tokens == 0..MaxSecret
Frames == [type : {"auth"}, token : Tokens]
          \cup [type : {"data"}, batch : Batches, whole : BOOLEAN]
          \cup [type : {"ping"}]
Replies == {"ok", "no_key", "bad_token", "pong", "alert"}

TypeOK ==
  /\ started \in BOOLEAN /\ token \in Tokens \cup {None}
  /\ tcpConn \in Conns \cup {None} /\ dialer \in Batches \cup {None}
  /\ pc \in [Batches -> {"idle", "get", "auth", "write", "fail", "sent", "lost"}]
  /\ attempt \in [Batches -> 0..3]
  /\ using \in [Batches -> Conns \cup {None}]
  /\ reader \in [Conns -> {"none", "reading", "exiting", "done"}]
  /\ pinger \in {"idle", "write", "fail"} /\ pingConn \in Conns \cup {None}
  /\ requests \in Nat /\ closings \in Nat
  /\ agentEnd \in [Conns -> {"none", "open", "closed"}]
  /\ serverEnd \in [Conns -> {"none", "open", "closed"}]
  /\ c2s \in [Conns -> Seq(Frames)] /\ s2c \in [Conns -> Seq(Replies)]
  /\ secret \in Tokens /\ hasKey \in BOOLEAN
  /\ authed \in [Conns -> BOOLEAN]
  /\ busy \in [Conns -> Batches \cup {None}]
  /\ activeSocket \in Conns \cup {None}
  /\ processed \in [Batches -> Nat]

Init ==
  /\ started = FALSE /\ token = None /\ tcpConn = None /\ dialer = None
  /\ pc = [b \in Batches |-> "idle"]
  /\ attempt = [b \in Batches |-> 0]
  /\ using = [b \in Batches |-> None]
  /\ reader = [c \in Conns |-> "none"]
  /\ pinger = "idle" /\ pingConn = None
  /\ requests = 0 /\ closings = 0
  /\ agentEnd = [c \in Conns |-> "none"]
  /\ serverEnd = [c \in Conns |-> "none"]
  /\ c2s = [c \in Conns |-> <<>>] /\ s2c = [c \in Conns |-> <<>>]
  /\ secret = 0 /\ hasKey \in BOOLEAN
  /\ authed = [c \in Conns |-> FALSE]
  /\ busy = [c \in Conns |-> None]
  /\ activeSocket = None
  /\ processed = [b \in Batches |-> 0]

-----------------------------------------------------------------------------
(* closeTCPConnection: closes what tcpConn is by now.  Waits for connMutex. *)
Closes == IF tcpConn = None THEN {} ELSE {tcpConn}
CloseCurrent ==
  /\ dialer = None
  /\ tcpConn' = None
  /\ agentEnd' = [c \in Conns |-> IF c \in Closes THEN "closed" ELSE agentEnd[c]]
  /\ s2c' = [c \in Conns |-> IF c \in Closes THEN <<>> ELSE s2c[c]]

(* conn.Close() on a connection of one's own. *)
CloseOwn(c) ==
  /\ agentEnd' = [agentEnd EXCEPT ![c] = "closed"]
  /\ s2c' = [s2c EXCEPT ![c] = <<>>]

(* The attempt of this sendBatch failed: the next one, if there is one. *)
FourAttempts(b) == attempt[b] <= 3                         \* mutant
AttemptsLeft(b) == attempt[b] < 3
Retry(b) ==
  /\ pc' = [pc EXCEPT ![b] = IF AttemptsLeft(b) THEN "get" ELSE "lost"]
  /\ attempt' = [attempt EXCEPT ![b] = IF AttemptsLeft(b) THEN @ + 1 ELSE @]
  /\ using' = [using EXCEPT ![b] = None]

(* Bytes written to a connection the worker has closed go nowhere. *)
Write(c, f) ==
  c2s' = IF serverEnd[c] = "open" THEN [c2s EXCEPT ![c] = Append(@, f)] ELSE c2s

(* main: the first handshake, of which a failure is only logged. *)
FirstHandshake ==
  /\ ~ started
  /\ started' = TRUE
  /\ token' \in {None, secret}
  /\ UNCHANGED <<tcpConn, dialer, reader, pinger, pingConn, requests, closings,
                 senderVars, netVars, workerVars>>

(* dataProcessor: `go sendBatch(batch)`. *)
BeginBatch(b) ==
  /\ started /\ pc[b] = "idle"
  /\ pc' = [pc EXCEPT ![b] = "get"]
  /\ attempt' = [attempt EXCEPT ![b] = 1]
  /\ UNCHANGED <<using, agentVars, netVars, workerVars>>

-----------------------------------------------------------------------------
(* getTCPConnection returns the connection there is. *)
GetExisting(b) ==
  /\ pc[b] = "get" /\ dialer = None /\ tcpConn # None
  /\ pc' = [pc EXCEPT ![b] = "write"]
  /\ using' = [using EXCEPT ![b] = tcpConn]
  /\ UNCHANGED <<attempt, agentVars, netVars, workerVars>>

(* It dials in vain, or there is no token to authenticate with. *)
DialFails(b) ==
  /\ pc[b] = "get" /\ dialer = None /\ tcpConn = None
  /\ Retry(b)
  /\ UNCHANGED <<agentVars, netVars, workerVars>>

(* It dials, and writes the Auth frame; connMutex stays locked. *)
Dial(b, c) ==
  /\ pc[b] = "get" /\ dialer = None /\ tcpConn = None
  /\ token # None
  /\ agentEnd[c] = "none"
  /\ LateAuth \/ \A d \in Conns : \A i \in 1..Len(c2s[d]) : c2s[d][i].type # "auth"
  /\ agentEnd' = [agentEnd EXCEPT ![c] = "open"]
  /\ serverEnd' = [serverEnd EXCEPT ![c] = "open"]
  /\ c2s' = [c2s EXCEPT ![c] = <<[type |-> "auth", token |-> token]>>]
  /\ dialer' = b
  /\ pc' = [pc EXCEPT ![b] = "auth"]
  /\ using' = [using EXCEPT ![b] = c]
  /\ UNCHANGED <<attempt, started, token, tcpConn, reader, pinger, pingConn,
                 requests, closings, s2c, workerVars>>

(* The answer is 0x00: publish the connection and start its read loop. *)
NotAwaited(b) == TRUE                                      \* mutant
AnswerOk(b) == s2c[using[b]] # <<>> /\ Head(s2c[using[b]]) = "ok"
AuthOk(b) ==
  /\ pc[b] = "auth" /\ AnswerOk(b)
  /\ tcpConn' = using[b]
  /\ reader' = [reader EXCEPT ![using[b]] = "reading"]
  /\ s2c' = [s2c EXCEPT ![using[b]] = SubSeq(@, 2, Len(@))]
  /\ dialer' = None
  /\ pc' = [pc EXCEPT ![b] = "write"]
  /\ UNCHANGED <<attempt, using, started, token, pinger, pingConn, requests,
                 closings, agentEnd, serverEnd, c2s, workerVars>>

(* connMutex when getTCPConnection has returned an error. *)
StillLocked(b) == b                                        \* mutant
Unlocked(b) == None

(* The answer is 0x01 or 0x02; the latter starts a handshake goroutine. *)
AuthRefused(b) ==
  /\ pc[b] = "auth"
  /\ s2c[using[b]] # <<>> /\ Head(s2c[using[b]]) # "ok"
  /\ CloseOwn(using[b])
  /\ requests' = IF Head(s2c[using[b]]) = "bad_token" THEN requests + 1 ELSE requests
  /\ dialer' = Unlocked(b)
  /\ Retry(b)
  /\ UNCHANGED <<started, token, tcpConn, reader, pinger, pingConn, closings,
                 serverEnd, c2s, workerVars>>

(* No answer within five seconds, or the connection ends first. *)
AuthFails(b) ==
  /\ pc[b] = "auth" /\ s2c[using[b]] = <<>>
  /\ CloseOwn(using[b])
  /\ dialer' = Unlocked(b)
  /\ Retry(b)
  /\ UNCHANGED <<started, token, tcpConn, reader, pinger, pingConn, requests,
                 closings, serverEnd, c2s, workerVars>>

-----------------------------------------------------------------------------
(* Header and payload under writeMutex. *)
WriteData(b) ==
  /\ pc[b] = "write" /\ agentEnd[using[b]] = "open"
  /\ Write(using[b], [type |-> "data", batch |-> b, whole |-> TRUE])
  /\ pc' = [pc EXCEPT ![b] = "sent"]
  /\ UNCHANGED <<attempt, using, agentVars, agentEnd, serverEnd, s2c, workerVars>>

(* The write fails on a connection that either end has closed, or because  *)
(* its deadline, set before writeMutex.Lock, expires in the queue ...      *)
WriteFails(b) ==
  /\ pc[b] = "write"
  /\ agentEnd[using[b]] = "closed" \/ serverEnd[using[b]] = "closed" \/ Stalls
  /\ pc' = [pc EXCEPT ![b] = "fail"]
  /\ UNCHANGED <<attempt, using, agentVars, netVars, workerVars>>

(* ... or its deadline expires when part of the frame is written. *)
WroteAll == TRUE                                           \* mutant
WrotePart == FALSE
WriteStalls(b) ==
  /\ Stalls
  /\ pc[b] = "write" /\ agentEnd[using[b]] = "open"
  /\ Write(using[b], [type |-> "data", batch |-> b, whole |-> WrotePart])
  /\ pc' = [pc EXCEPT ![b] = "fail"]
  /\ UNCHANGED <<attempt, using, agentVars, agentEnd, serverEnd, s2c, workerVars>>

(* writeMutex is free again; close "the" connection, then try again. *)
CloseAfterFailure(b) ==
  /\ pc[b] = "fail"
  /\ CloseCurrent
  /\ Retry(b)
  /\ UNCHANGED <<started, token, dialer, reader, pinger, pingConn, requests,
                 closings, serverEnd, c2s, workerVars>>

-----------------------------------------------------------------------------
(* readLoop: a Pong or an alert; an error or 45 silent seconds; its defer. *)
ReadReply(c) ==
  /\ reader[c] = "reading" /\ agentEnd[c] = "open" /\ s2c[c] # <<>>
  /\ s2c' = [s2c EXCEPT ![c] = Tail(@)]
  /\ UNCHANGED <<senderVars, agentVars, agentEnd, serverEnd, c2s, workerVars>>

ReadFails(c) ==
  /\ reader[c] = "reading" /\ s2c[c] = <<>>
  /\ reader' = [reader EXCEPT ![c] = "exiting"]
  /\ UNCHANGED <<senderVars, started, token, tcpConn, dialer, pinger, pingConn,
                 requests, closings, netVars, workerVars>>

ReaderCloses(c) ==
  /\ reader[c] = "exiting"
  /\ CloseCurrent
  /\ reader' = [reader EXCEPT ![c] = "done"]
  /\ UNCHANGED <<senderVars, started, token, dialer, pinger, pingConn, requests,
                 closings, serverEnd, c2s, workerVars>>

(* startHeartbeat: copy tcpConn under connMutex, then write a Ping to it. *)
PingTakes ==
  /\ started /\ pinger = "idle" /\ dialer = None /\ tcpConn # None
  /\ pinger' = "write" /\ pingConn' = tcpConn
  /\ UNCHANGED <<senderVars, started, token, tcpConn, dialer, reader, requests,
                 closings, netVars, workerVars>>

PingWrites ==
  /\ pinger = "write" /\ agentEnd[pingConn] = "open"
  /\ Len(c2s[pingConn]) < MaxFrames
  /\ Write(pingConn, [type |-> "ping"])
  /\ pinger' = "idle" /\ pingConn' = None
  /\ UNCHANGED <<senderVars, started, token, tcpConn, dialer, reader, requests,
                 closings, agentEnd, serverEnd, s2c, workerVars>>

PingFails ==
  /\ pinger = "write"
  /\ agentEnd[pingConn] = "closed" \/ serverEnd[pingConn] = "closed"
  /\ pinger' = "fail"
  /\ UNCHANGED <<senderVars, started, token, tcpConn, dialer, reader, pingConn,
                 requests, closings, netVars, workerVars>>

PingCloses ==
  /\ pinger = "fail"
  /\ CloseCurrent
  /\ pinger' = "idle" /\ pingConn' = None
  /\ UNCHANGED <<senderVars, started, token, dialer, reader, requests, closings,
                 serverEnd, c2s, workerVars>>

(* performHandshake in the background: a new token, or an error nobody     *)
(* reads; then the connection is closed so that the next uses the token.   *)
HandshakeAnswered ==
  /\ requests > 0
  /\ token' = secret
  /\ requests' = requests - 1 /\ closings' = closings + 1
  /\ UNCHANGED <<senderVars, started, tcpConn, dialer, reader, pinger, pingConn,
                 netVars, workerVars>>

HandshakeFails ==
  /\ requests > 0
  /\ requests' = requests - 1
  /\ UNCHANGED <<senderVars, started, token, tcpConn, dialer, reader, pinger,
                 pingConn, closings, netVars, workerVars>>

HandshakeCloses ==
  /\ closings > 0
  /\ CloseCurrent
  /\ closings' = closings - 1
  /\ UNCHANGED <<senderVars, started, token, dialer, reader, pinger, pingConn,
                 requests, serverEnd, c2s, workerVars>>

-----------------------------------------------------------------------------
(* socket.write on the worker: lost when the agent has closed its end. *)
Reply(c, r) == IF agentEnd[c] = "open" THEN [s2c EXCEPT ![c] = Append(@, r)] ELSE s2c

(* The frame parser hands over the next frame once the previous one is     *)
(* done, also those that were buffered when the connection closed.         *)
MayRead(c, type) ==
  /\ busy[c] = None /\ c2s[c] # <<>> /\ Head(c2s[c]).type = type
  /\ serverEnd[c] # "none"
Forget(c) == c2s' = [c2s EXCEPT ![c] = <<>>]               \* mutant
Consume(c) == c2s' = [c2s EXCEPT ![c] = Tail(@)]

ReadAuth(c) ==
  /\ MayRead(c, "auth") /\ serverEnd[c] = "open"
  /\ Head(c2s[c]).token = secret /\ hasKey
  /\ Consume(c)
  /\ authed' = [authed EXCEPT ![c] = TRUE]
  /\ activeSocket' = c
  /\ s2c' = Reply(c, "ok")
  /\ UNCHANGED <<senderVars, agentVars, agentEnd, serverEnd, secret, hasKey,
                 busy, processed>>

(* The refusal is written right before socket.destroy(), and may be lost.  *)
RefuseAuth(c) ==
  /\ MayRead(c, "auth") /\ serverEnd[c] = "open"
  /\ Head(c2s[c]).token # secret \/ ~ hasKey
  /\ c2s' = [c2s EXCEPT ![c] = <<>>]
  /\ serverEnd' = [serverEnd EXCEPT ![c] = "closed"]
  /\ \/ s2c' = Reply(c, IF Head(c2s[c]).token # secret THEN "bad_token" ELSE "no_key")
     \/ UNCHANGED s2c
  /\ UNCHANGED <<senderVars, agentVars, agentEnd, workerVars>>

(* activeAgentSockets after the close event of c. *)
RegistryCleared(c) == None                                 \* mutant
RegistryWithout(c) == IF activeSocket = c THEN None ELSE activeSocket

(* A whole Data frame on an authenticated connection with a key: decrypt   *)
(* and handle record by record, with awaits.  Otherwise the socket is      *)
(* destroyed, which NoUnauthenticatedData shows does not happen.           *)
ReadData(c) ==
  /\ MayRead(c, "data") /\ Head(c2s[c]).whole
  /\ authed[c] /\ hasKey
  /\ Consume(c)
  /\ busy' = [busy EXCEPT ![c] = Head(c2s[c]).batch]
  /\ UNCHANGED <<senderVars, agentVars, agentEnd, serverEnd, s2c, secret,
                 hasKey, authed, activeSocket, processed>>

(* A truncated frame makes the parser take what follows for its payload:   *)
(* decryption fails and nothing that follows is understood any more.       *)
ReadGarbage(c) ==
  /\ MayRead(c, "data") /\ ~ Head(c2s[c]).whole
  /\ Len(c2s[c]) > 1
  /\ c2s' = [c2s EXCEPT ![c] = <<Head(@)>>]
  /\ UNCHANGED <<senderVars, agentVars, agentEnd, serverEnd, s2c, workerVars>>

ReadPing(c) ==
  /\ MayRead(c, "ping") /\ Len(s2c[c]) < MaxFrames
  /\ Consume(c)
  /\ s2c' = IF serverEnd[c] = "open" THEN Reply(c, "pong") ELSE s2c
  /\ UNCHANGED <<senderVars, agentVars, agentEnd, serverEnd, workerVars>>

(* The handlers of a batch return; a rule may have sent an alert to the    *)
(* socket the agent is known by.                                           *)
FinishBatch(c) ==
  /\ busy[c] # None
  /\ processed' = [processed EXCEPT ![busy[c]] = @ + 1]
  /\ busy' = [busy EXCEPT ![c] = None]
  /\ \/ UNCHANGED s2c
     \/ /\ activeSocket # None
        /\ s2c' = Reply(activeSocket, "alert")
  /\ UNCHANGED <<senderVars, agentVars, agentEnd, serverEnd, c2s, secret,
                 hasKey, authed, activeSocket>>

(* socket.on('close'): the agent closed, or the network failed.  Frames    *)
(* that already sit behind a batch in the parser's buffer are still read.  *)
ServerCloses(c) ==
  /\ serverEnd[c] = "open"
  /\ serverEnd' = [serverEnd EXCEPT ![c] = "closed"]
  /\ activeSocket' = RegistryWithout(c)
  /\ \E k \in 0..(IF busy[c] = None THEN 0 ELSE Len(c2s[c])) :
       c2s' = [c2s EXCEPT ![c] = SubSeq(@, 1, k)]
  /\ UNCHANGED <<senderVars, agentVars, agentEnd, s2c, secret, hasKey, authed,
                 busy, processed>>

(* AGENT_KEYS_SYNC or NEW_AGENT_KEY brings the key (module KeySync). *)
KeyArrives ==
  /\ ~ hasKey
  /\ hasKey' = TRUE
  /\ UNCHANGED <<senderVars, agentVars, netVars, secret, authed, busy,
                 activeSocket, processed>>

(* The worker is restarted, perhaps with another JWT secret. *)
WorkerRestart ==
  /\ \E c \in Conns : serverEnd[c] = "open"
  /\ secret' \in {secret, secret + 1} /\ secret' <= MaxSecret
  /\ hasKey' = FALSE
  /\ authed' = [c \in Conns |-> FALSE]
  /\ busy' = [c \in Conns |-> None]
  /\ activeSocket' = None
  /\ serverEnd' = [c \in Conns |-> IF serverEnd[c] = "none" THEN "none" ELSE "closed"]
  /\ c2s' = [c \in Conns |-> <<>>]
  /\ UNCHANGED <<senderVars, agentVars, agentEnd, s2c, processed>>

-----------------------------------------------------------------------------
Next ==
  \/ FirstHandshake
  \/ \E b \in Batches : BeginBatch(b) \/ GetExisting(b) \/ DialFails(b)
  \/ \E b \in Batches, c \in Conns : Dial(b, c)
  \/ \E b \in Batches : AuthOk(b) \/ AuthRefused(b) \/ AuthFails(b)
  \/ \E b \in Batches : WriteData(b) \/ WriteFails(b) \/ WriteStalls(b)
                        \/ CloseAfterFailure(b)
  \/ \E c \in Conns : ReadReply(c) \/ ReadFails(c) \/ ReaderCloses(c)
  \/ PingTakes \/ PingWrites \/ PingFails \/ PingCloses
  \/ HandshakeAnswered \/ HandshakeFails \/ HandshakeCloses
  \/ \E c \in Conns : ReadAuth(c) \/ RefuseAuth(c) \/ ReadData(c)
                      \/ ReadGarbage(c) \/ ReadPing(c) \/ FinishBatch(c)
                      \/ ServerCloses(c)
  \/ KeyArrives \/ WorkerRestart

Spec == Init /\ [][Next]_vars

(* Goroutines and the worker's event loop run, deadlines expire, the end   *)
(* of a connection is noticed.  Nothing says the network or a handshake    *)
(* must succeed, except that the master answers what it is asked.          *)
Fairness ==
  /\ WF_vars(FirstHandshake)
  /\ \A b \in Batches :
       /\ WF_vars(GetExisting(b) \/ DialFails(b) \/ \E c \in Conns : Dial(b, c))
       /\ WF_vars(AuthOk(b) \/ AuthRefused(b) \/ AuthFails(b))
       /\ WF_vars(WriteData(b) \/ WriteFails(b))
       /\ WF_vars(CloseAfterFailure(b))
  /\ \A c \in Conns :
       /\ WF_vars(ReadReply(c))
       /\ WF_vars((agentEnd[c] = "closed" \/ serverEnd[c] = "closed") /\ ReadFails(c))
       /\ WF_vars(ReaderCloses(c))
       /\ WF_vars(ReadAuth(c) \/ RefuseAuth(c) \/ ReadData(c)
                  \/ ReadGarbage(c) \/ ReadPing(c))
       /\ WF_vars(FinishBatch(c))
       /\ WF_vars(agentEnd[c] = "closed" /\ c2s[c] = <<>> /\ ServerCloses(c))
  /\ WF_vars(HandshakeAnswered) /\ WF_vars(HandshakeCloses)

FairSpec == Spec /\ Fairness

-----------------------------------------------------------------------------
DataIn(c, b) ==
  \E i \in 1..Len(c2s[c]) : c2s[c][i].type = "data" /\ c2s[c][i].batch = b

(* The worker has seen the end of the connection that b was written to. *)
ConnectionEnded(b) == using[b] # None /\ serverEnd[using[b]] = "closed"

(* A batch goes through the rules at most once, for all the retries, lost   *)
(* connections and buffered frames (main.go:459-504): counters would count  *)
(* twice and alerts double otherwise.                                       *)
AtMostOnce == \A b \in Batches : processed[b] <= 1

(* The agent never sends data on a connection before the worker has         *)
(* authenticated it: the branch that destroys such a socket                 *)
(* (tcpReceiver.js:129-133) is not reached by the agent of this repository. *)
NoUnauthenticatedData ==
  \A c \in Conns, b \in Batches :
    serverEnd[c] = "open" /\ DataIn(c, b) => authed[c] /\ hasKey

(* A batch reported as sent (main.go:502) is processed, being processed or  *)
(* on its way, or the connection it was written to has ended.               *)
SentIsAccountedFor ==
  \A b \in Batches : pc[b] = "sent" =>
    \/ processed[b] = 1
    \/ \E c \in Conns : busy[c] = b \/ DataIn(c, b)
    \/ ConnectionEnded(b)

(* The worker can send to the agent at any time: the connection the agent   *)
(* uses is the one it is registered under (tcpReceiver.js:13-15).           *)
RegistryCurrent ==
  \A c \in Conns :
    tcpConn = c /\ agentEnd[c] = "open" /\ serverEnd[c] = "open" => activeSocket = c

(* Whoever closes the connection because it failed closes the one that      *)
(* failed for it (main.go:413, 491, 497, 511).                              *)
ClosesWhatFailed ==
  /\ \A b \in Batches : pc[b] = "fail" => tcpConn \in {None, using[b]}
  /\ \A c \in Conns : reader[c] = "exiting" => tcpConn \in {None, c}
  /\ pinger = "fail" => tcpConn \in {None, pingConn}

(* Every sendBatch ends, sent or given up: no goroutine waits for ever for  *)
(* connMutex or an answer (main.go:421-507).                                *)
BatchesEnd == \A b \in Batches : pc[b] = "get" ~> pc[b] \in {"sent", "lost"}

(* What was sent is processed in the end, unless the connection ends.       *)
SentIsProcessed ==
  \A b \in Batches :
    pc[b] = "sent" ~> processed[b] = 1 \/ ConnectionEnded(b)
=============================================================================
