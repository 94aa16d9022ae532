-------------------------- MODULE AgentLink_proofs --------------------------
(* Proofs about AgentLink, for any numbers of batches and connections, any  *)
(* changes of the secret, late Auth frames and expiring deadlines included. *)
EXTENDS AgentLink, SequenceTheorems, TLAPS

(* The ends of a connection, the goroutines that use it and the holder of   *)
(* connMutex agree: a connection nobody has dialled is known to nobody.     *)
Wiring ==
  /\ \A c \in Conns :
       /\ agentEnd[c] = "none" <=> serverEnd[c] = "none"
       /\ agentEnd[c] # "open" => s2c[c] = <<>>
       /\ agentEnd[c] = "none" =>
            /\ c2s[c] = <<>> /\ ~ authed[c]
            /\ tcpConn # c /\ \A b \in Batches : using[b] # c
  /\ \A b \in Batches :
       /\ pc[b] \in {"auth", "write", "fail", "sent"} => using[b] # None
       /\ pc[b] = "auth" <=> dialer = b
  /\ dialer # None => tcpConn = None
  /\ pinger # "idle" => pingConn # None

(* A frame that holds the whole of b. *)
Whole(b) == [type |-> "data", batch |-> b, whole |-> TRUE]

(* A batch is in one place only: it is written once, by the sendBatch that   *)
(* ends with it, and leaves the connection for the rules.                    *)
InOnePlace ==
  \A b \in Batches :
    /\ \A c \in Conns : \A i \in 1..Len(c2s[c]) : c2s[c][i] = Whole(b) =>
         /\ pc[b] = "sent" /\ using[b] = c
         /\ busy[c] # b /\ processed[b] = 0
         /\ \A j \in 1..Len(c2s[c]) : c2s[c][j] = Whole(b) => j = i
    /\ \A c \in Conns : busy[c] = b =>
         pc[b] = "sent" /\ using[b] = c /\ processed[b] = 0
    /\ processed[b] \in {0, 1} /\ (processed[b] = 1 => pc[b] = "sent")

(* Whoever may write to a connection has the worker's word that it is        *)
(* authenticated, or is about to read it.                                   *)
Vouched(c) == serverEnd[c] = "open" => authed[c]
Told(c) == \E i \in 1..Len(s2c[c]) : s2c[c][i] = "ok"
Authenticated ==
  /\ \A c \in Conns :
       /\ Told(c) \/ tcpConn = c => Vouched(c)
       /\ \A b \in Batches : DataIn(c, b) => Vouched(c)
       /\ authed[c] /\ serverEnd[c] = "open" => hasKey
  /\ \A b \in Batches : pc[b] = "write" => Vouched(using[b])

(* With orderly Auth frames: while one is unread there is one open agent end *)
(* at most, its own, and nobody has been told of it.                        *)
AuthIn(c) == \E i \in 1..Len(c2s[c]) : c2s[c][i].type = "auth"
Registered ==
  \A c \in Conns :
    /\ agentEnd[c] = "open" => tcpConn = c \/ (dialer # None /\ using[dialer] = c)
    /\ Told(c) \/ tcpConn = c =>
         /\ ~ AuthIn(c)
         /\ agentEnd[c] = "open" /\ serverEnd[c] = "open" => activeSocket = c
    /\ \A i \in 1..Len(c2s[c]) : c2s[c][i].type = "auth" => i = 1
    /\ AuthIn(c) => \A d \in Conns : agentEnd[d] = "open" => d = c

(* Without expiring write deadlines: every frame is whole. *)
NothingCut ==
  \A c \in Conns : \A i \in 1..Len(c2s[c]) : c2s[c][i].type = "data" => c2s[c][i].whole

-----------------------------------------------------------------------------
(* The types, and the wiring they rest on. *)
TypeWiring == TypeOK /\ Wiring

LEMMA TypeWiringInit == Init => TypeWiring
<1> SUFFICES ASSUME Init
             PROVE  TypeOK /\ Wiring
  BY DEF TypeWiring
<1>1. 0 \in Tokens
  BY AgentLinkAssumption DEF Tokens
<1>2. <<>> \in Seq(Frames) /\ <<>> \in Seq(Replies)
  OBVIOUS
<1>3. c2s \in [Conns -> Seq(Frames)] /\ s2c \in [Conns -> Seq(Replies)]
  BY <1>2 DEF Init
<1>4. started \in BOOLEAN /\ hasKey \in BOOLEAN /\ authed \in [Conns -> BOOLEAN]
  BY DEF Init
<1>5. /\ attempt \in [Batches -> 0..3] /\ processed \in [Batches -> Nat]
      /\ requests \in Nat /\ closings \in Nat
  BY DEF Init
<1>6. /\ agentEnd \in [Conns -> {"none", "open", "closed"}]
      /\ serverEnd \in [Conns -> {"none", "open", "closed"}]
  BY DEF Init
<1>7. TypeOK
  BY <1>1, <1>3, <1>4, <1>5, <1>6 DEF Init, TypeOK
<1>8. Wiring
  BY AgentLinkAssumption DEF Init, Wiring
<1> QED
  BY <1>7, <1>8

(* What the worker writes reaches an open agent end, or nobody. *)
LEMMA ReplyType ==
  ASSUME TypeOK, Wiring, NEW c \in Conns, NEW r \in Replies
  PROVE  /\ Reply(c, r) \in [Conns -> Seq(Replies)]
         /\ \A d \in Conns : agentEnd[d] # "open" => Reply(c, r)[d] = <<>>
<1>1. CASE agentEnd[c] = "open"
  <2>1. Append(s2c[c], r) \in Seq(Replies)
    BY AppendProperties DEF TypeOK
  <2> QED
    BY <1>1, <2>1 DEF Reply, TypeOK, Wiring
<1>2. CASE agentEnd[c] # "open"
  BY <1>2 DEF Reply, TypeOK, Wiring
<1> QED
  BY <1>1, <1>2

LEMMA OldReplyType ==
  ASSUME TypeOK, Wiring
  PROVE  /\ s2c \in [Conns -> Seq(Replies)]
         /\ \A d \in Conns : agentEnd[d] # "open" => s2c[d] = <<>>
  BY DEF TypeOK, Wiring

LEMMA TypeWiringNext == TypeWiring /\ [Next]_vars => TypeWiring'
<1> SUFFICES ASSUME TypeOK, Wiring, [Next]_vars
             PROVE  TypeOK' /\ Wiring'
  BY DEF TypeWiring
<1> USE AgentLinkAssumption DEF senderVars, agentVars, netVars, workerVars, Tokens
<1>1. CASE FirstHandshake
  BY <1>1 DEF FirstHandshake, TypeOK, Wiring
<1>2. ASSUME NEW b \in Batches, BeginBatch(b)
      PROVE  TypeOK' /\ Wiring'
  BY <1>2 DEF BeginBatch, TypeOK, Wiring
<1>3. ASSUME NEW b \in Batches, GetExisting(b)
      PROVE  TypeOK' /\ Wiring'
  BY <1>3 DEF GetExisting, TypeOK, Wiring
<1>4. ASSUME NEW b \in Batches, DialFails(b)
      PROVE  TypeOK' /\ Wiring'
  BY <1>4 DEF DialFails, Retry, AttemptsLeft, TypeOK, Wiring
<1>5. ASSUME NEW b \in Batches, NEW c \in Conns, Dial(b, c)
      PROVE  TypeOK' /\ Wiring'
  <2>1. [type |-> "auth", token |-> token] \in Frames
    BY <1>5 DEF Dial, Frames, TypeOK
  <2>2. c2s' \in [Conns -> Seq(Frames)]
    BY <1>5, <2>1 DEF Dial, TypeOK
  <2> QED
    BY <1>5, <2>2 DEF Dial, TypeOK, Wiring
<1>6. ASSUME NEW b \in Batches, AuthOk(b)
      PROVE  TypeOK' /\ Wiring'
  BY <1>6 DEF AuthOk, AnswerOk, TypeOK, Wiring
<1>7. ASSUME NEW b \in Batches, AuthRefused(b)
      PROVE  TypeOK' /\ Wiring'
  BY <1>7 DEF AuthRefused, CloseOwn, Retry, Unlocked, AttemptsLeft, TypeOK, Wiring
<1>8. ASSUME NEW b \in Batches, AuthFails(b)
      PROVE  TypeOK' /\ Wiring'
  BY <1>8 DEF AuthFails, CloseOwn, Retry, Unlocked, AttemptsLeft, TypeOK, Wiring
<1>9. ASSUME NEW b \in Batches, WriteData(b)
      PROVE  TypeOK' /\ Wiring'
  BY <1>9 DEF WriteData, Write, Frames, TypeOK, Wiring
<1>10. ASSUME NEW b \in Batches, WriteFails(b)
      PROVE  TypeOK' /\ Wiring'
  BY <1>10 DEF WriteFails, TypeOK, Wiring
<1>11. ASSUME NEW b \in Batches, WriteStalls(b)
      PROVE  TypeOK' /\ Wiring'
  BY <1>11 DEF WriteStalls, Write, WrotePart, Frames, TypeOK, Wiring
<1>12. ASSUME NEW b \in Batches, CloseAfterFailure(b)
      PROVE  TypeOK' /\ Wiring'
  BY <1>12 DEF CloseAfterFailure, CloseCurrent, Closes, Retry, AttemptsLeft, TypeOK,
     Wiring
<1>13. ASSUME NEW c \in Conns, ReadReply(c)
      PROVE  TypeOK' /\ Wiring'
  BY <1>13 DEF ReadReply, TypeOK, Wiring
<1>14. ASSUME NEW c \in Conns, ReadFails(c)
      PROVE  TypeOK' /\ Wiring'
  BY <1>14 DEF ReadFails, TypeOK, Wiring
<1>15. ASSUME NEW c \in Conns, ReaderCloses(c)
      PROVE  TypeOK' /\ Wiring'
  BY <1>15 DEF ReaderCloses, CloseCurrent, Closes, TypeOK, Wiring
<1>16. CASE PingTakes
  BY <1>16 DEF PingTakes, TypeOK, Wiring
<1>17. CASE PingWrites
  BY <1>17 DEF PingWrites, Write, Frames, TypeOK, Wiring
<1>18. CASE PingFails
  BY <1>18 DEF PingFails, TypeOK, Wiring
<1>19. CASE PingCloses
  BY <1>19 DEF PingCloses, CloseCurrent, Closes, TypeOK, Wiring
<1>20. CASE HandshakeAnswered
  BY <1>20 DEF HandshakeAnswered, TypeOK, Wiring
<1>21. CASE HandshakeFails
  BY <1>21 DEF HandshakeFails, TypeOK, Wiring
<1>22. CASE HandshakeCloses
  BY <1>22 DEF HandshakeCloses, CloseCurrent, Closes, TypeOK, Wiring
<1>23. ASSUME NEW c \in Conns, ReadAuth(c)
      PROVE  TypeOK' /\ Wiring'
  BY <1>23 DEF ReadAuth, MayRead, Consume, Reply, Replies, TypeOK, Wiring
<1>24. ASSUME NEW c \in Conns, RefuseAuth(c)
      PROVE  TypeOK' /\ Wiring'
  <2>1. PICK r \in Replies : s2c' = Reply(c, r) \/ s2c' = s2c
    BY <1>24 DEF RefuseAuth, Replies
  <2>2. s2c' \in [Conns -> Seq(Replies)] /\ \A d \in Conns : agentEnd[d] # "open" => s2c'[d] = <<>>
    BY <2>1, ReplyType, OldReplyType
  <2>3. c2s' \in [Conns -> Seq(Frames)]
    BY <1>24 DEF RefuseAuth, TypeOK
  <2> QED
    BY <1>24, <2>2, <2>3 DEF RefuseAuth, TypeOK, Wiring
<1>25. ASSUME NEW c \in Conns, ReadData(c)
      PROVE  TypeOK' /\ Wiring'
  <2>1. Head(c2s[c]) \in Frames /\ Tail(c2s[c]) \in Seq(Frames)
    BY <1>25, HeadTailProperties DEF ReadData, MayRead, TypeOK
  <2>2. Head(c2s[c]).batch \in Batches
    BY <1>25, <2>1 DEF ReadData, MayRead, Frames
  <2> QED
    BY <1>25, <2>1, <2>2 DEF ReadData, MayRead, Consume, TypeOK, Wiring
<1>26. ASSUME NEW c \in Conns, ReadGarbage(c)
      PROVE  TypeOK' /\ Wiring'
  BY <1>26 DEF ReadGarbage, MayRead, TypeOK, Wiring
<1>27. ASSUME NEW c \in Conns, ReadPing(c)
      PROVE  TypeOK' /\ Wiring'
  BY <1>27 DEF ReadPing, MayRead, Consume, Reply, Replies, TypeOK, Wiring
<1>28. ASSUME NEW c \in Conns, FinishBatch(c)
      PROVE  TypeOK' /\ Wiring'
  <2>1. s2c' = s2c \/ \E d \in Conns, r \in Replies : s2c' = Reply(d, r)
    BY <1>28 DEF FinishBatch, Replies, TypeOK
  <2>2. s2c' \in [Conns -> Seq(Replies)] /\ \A d \in Conns : agentEnd[d] # "open" => s2c'[d] = <<>>
    BY <2>1, ReplyType, OldReplyType, SMTT(30)
  <2>3. processed' \in [Batches -> Nat]
    BY <1>28 DEF FinishBatch, TypeOK
  <2>4. busy' \in [Conns -> Batches \cup {None}]
    BY <1>28 DEF FinishBatch, TypeOK
  <2>5. TypeOK'
    BY <1>28, <2>2, <2>3, <2>4 DEF FinishBatch, TypeOK
  <2> QED
    BY <1>28, <2>2, <2>5 DEF FinishBatch, Wiring
<1>29. ASSUME NEW c \in Conns, ServerCloses(c)
      PROVE  TypeOK' /\ Wiring'
  BY <1>29 DEF ServerCloses, RegistryWithout, TypeOK, Wiring
<1>30. CASE KeyArrives
  BY <1>30 DEF KeyArrives, TypeOK, Wiring
<1>31. CASE WorkerRestart
  <2>1. secret' \in Tokens
    BY <1>31 DEF WorkerRestart, TypeOK
  <2>2. c2s' \in [Conns -> Seq(Frames)]
    BY <1>31 DEF WorkerRestart
  <2>3. authed' \in [Conns -> BOOLEAN] /\ \A c \in Conns : ~ authed'[c]
    BY <1>31 DEF WorkerRestart
  <2>4. /\ serverEnd' \in [Conns -> {"none", "open", "closed"}]
        /\ \A c \in Conns : serverEnd'[c] = "none" <=> serverEnd[c] = "none"
    BY <1>31 DEF WorkerRestart, TypeOK
  <2>5. TypeOK'
    BY <1>31, <2>1, <2>2, <2>3, <2>4 DEF WorkerRestart, TypeOK
  <2>6. Wiring'
    BY <1>31, <2>3, <2>4 DEF WorkerRestart, Wiring
  <2> QED
    BY <2>5, <2>6
<1>32. CASE UNCHANGED vars
  BY <1>32 DEF vars, TypeOK, Wiring
<1> QED
  BY <1>1, <1>2, <1>3, <1>4, <1>5, <1>6, <1>7, <1>8, <1>9, <1>10, <1>11, <1>12,
     <1>13, <1>14, <1>15, <1>16, <1>17, <1>18, <1>19, <1>20, <1>21, <1>22, <1>23,
     <1>24, <1>25, <1>26, <1>27, <1>28, <1>29, <1>30, <1>31, <1>32 DEF Next

(* Type correctness (AgentLink.TypeOK): what the goroutines of the agent and *)
(* the worker keep stays what main.go and tcpReceiver.js take it for.        *)
THEOREM TypeCorrect == Spec => []TypeOK
<1>1. Spec => []TypeWiring
  BY TypeWiringInit, TypeWiringNext, PTL DEF Spec
<1>2. TypeWiring => TypeOK
  BY DEF TypeWiring
<1> QED
  BY <1>1, <1>2, PTL

-----------------------------------------------------------------------------
(* A batch is written once, and read once. *)
LEMMA InOnePlaceInit == Init => InOnePlace
<1> SUFFICES ASSUME Init
             PROVE  InOnePlace
  OBVIOUS
<1>1. \A c \in Conns : c2s[c] = <<>> /\ busy[c] = None
  BY DEF Init
<1>2. \A b \in Batches : pc[b] = "idle" /\ processed[b] = 0
  BY DEF Init
<1>3. \A c \in Conns : 1..Len(c2s[c]) = {}
  BY <1>1
<1>4. \A b \in Batches, c \in Conns : busy[c] # b
  BY <1>1, AgentLinkAssumption
<1>5. \A b \in Batches : processed[b] \in {0, 1} /\ processed[b] # 1
  BY <1>2, 0 # 1
<1>6. \A b \in Batches, c \in Conns : \A i \in 1..Len(c2s[c]) : FALSE
  BY <1>3
<1> QED
  BY <1>4, <1>5, <1>6 DEF InOnePlace

LEMMA InOnePlaceNext == TypeWiring /\ InOnePlace /\ [Next]_vars => InOnePlace'
<1> SUFFICES ASSUME TypeOK, Wiring, InOnePlace, [Next]_vars
             PROVE  InOnePlace'
  BY DEF TypeWiring
<1> USE AgentLinkAssumption DEF senderVars, agentVars, netVars, workerVars
<1>1. CASE FirstHandshake
  BY <1>1 DEF FirstHandshake, TypeOK, Wiring, InOnePlace, Whole
<1>2. ASSUME NEW b \in Batches, BeginBatch(b)
      PROVE  InOnePlace'
  BY <1>2 DEF BeginBatch, TypeOK, Wiring, InOnePlace, Whole
<1>3. ASSUME NEW b \in Batches, GetExisting(b)
      PROVE  InOnePlace'
  BY <1>3 DEF GetExisting, TypeOK, Wiring, InOnePlace, Whole
<1>4. ASSUME NEW b \in Batches, DialFails(b)
      PROVE  InOnePlace'
  BY <1>4 DEF DialFails, Retry, TypeOK, Wiring, InOnePlace, Whole
<1>5. ASSUME NEW b \in Batches, NEW c \in Conns, Dial(b, c)
      PROVE  InOnePlace'
  BY <1>5 DEF Dial, TypeOK, Wiring, InOnePlace, Whole
<1>6. ASSUME NEW b \in Batches, AuthOk(b)
      PROVE  InOnePlace'
  BY <1>6 DEF AuthOk, AnswerOk, TypeOK, Wiring, InOnePlace, Whole
<1>7. ASSUME NEW b \in Batches, AuthRefused(b)
      PROVE  InOnePlace'
  BY <1>7 DEF AuthRefused, CloseOwn, Retry, Unlocked, TypeOK, Wiring, InOnePlace,
     Whole
<1>8. ASSUME NEW b \in Batches, AuthFails(b)
      PROVE  InOnePlace'
  BY <1>8 DEF AuthFails, CloseOwn, Retry, Unlocked, TypeOK, Wiring, InOnePlace,
     Whole
<1>9. ASSUME NEW b \in Batches, WriteData(b)
      PROVE  InOnePlace'
  BY <1>9 DEF WriteData, Write, TypeOK, Wiring, InOnePlace, Whole
<1>10. ASSUME NEW b \in Batches, WriteFails(b)
      PROVE  InOnePlace'
  BY <1>10 DEF WriteFails, TypeOK, Wiring, InOnePlace, Whole
<1>11. ASSUME NEW b \in Batches, WriteStalls(b)
      PROVE  InOnePlace'
  BY <1>11 DEF WriteStalls, Write, WrotePart, TypeOK, Wiring, InOnePlace, Whole
<1>12. ASSUME NEW b \in Batches, CloseAfterFailure(b)
      PROVE  InOnePlace'
  BY <1>12 DEF CloseAfterFailure, CloseCurrent, Closes, Retry, TypeOK, Wiring,
     InOnePlace, Whole
<1>13. ASSUME NEW c \in Conns, ReadReply(c)
      PROVE  InOnePlace'
  BY <1>13 DEF ReadReply, TypeOK, Wiring, InOnePlace, Whole
<1>14. ASSUME NEW c \in Conns, ReadFails(c)
      PROVE  InOnePlace'
  BY <1>14 DEF ReadFails, TypeOK, Wiring, InOnePlace, Whole
<1>15. ASSUME NEW c \in Conns, ReaderCloses(c)
      PROVE  InOnePlace'
  BY <1>15 DEF ReaderCloses, CloseCurrent, TypeOK, Wiring, InOnePlace, Whole
<1>16. CASE PingTakes
  BY <1>16 DEF PingTakes, TypeOK, Wiring, InOnePlace, Whole
<1>17. CASE PingWrites
  BY <1>17 DEF PingWrites, Write, TypeOK, Wiring, InOnePlace, Whole
<1>18. CASE PingFails
  BY <1>18 DEF PingFails, TypeOK, Wiring, InOnePlace, Whole
<1>19. CASE PingCloses
  BY <1>19 DEF PingCloses, CloseCurrent, TypeOK, Wiring, InOnePlace, Whole
<1>20. CASE HandshakeAnswered
  BY <1>20 DEF HandshakeAnswered, TypeOK, Wiring, InOnePlace, Whole
<1>21. CASE HandshakeFails
  BY <1>21 DEF HandshakeFails, TypeOK, Wiring, InOnePlace, Whole
<1>22. CASE HandshakeCloses
  BY <1>22 DEF HandshakeCloses, CloseCurrent, TypeOK, Wiring, InOnePlace, Whole
<1>23. ASSUME NEW c \in Conns, ReadAuth(c)
      PROVE  InOnePlace'
  BY <1>23 DEF ReadAuth, MayRead, Consume, TypeOK, Wiring, InOnePlace, Whole
<1>24. ASSUME NEW c \in Conns, RefuseAuth(c)
      PROVE  InOnePlace'
  BY <1>24 DEF RefuseAuth, TypeOK, Wiring, InOnePlace, Whole
<1>25. ASSUME NEW c \in Conns, ReadData(c)
      PROVE  InOnePlace'
  <2> DEFINE b == Head(c2s[c]).batch
  <2>1. /\ c2s[c] # <<>> /\ Head(c2s[c]) \in Frames /\ Tail(c2s[c]) \in Seq(Frames)
        /\ Head(c2s[c]).type = "data" /\ Head(c2s[c]).whole
    BY <1>25, HeadTailProperties DEF ReadData, MayRead, TypeOK
  <2>2. b \in Batches /\ Head(c2s[c]) = Whole(b)
    BY <2>1 DEF Frames, Whole
  <2>3. /\ Len(Tail(c2s[c])) = Len(c2s[c]) - 1 /\ Len(c2s[c]) \in Nat \ {0}
        /\ \A i \in 1..Len(Tail(c2s[c])) : Tail(c2s[c])[i] = c2s[c][i + 1]
        /\ c2s[c][1] = Whole(b)
    BY <2>1, <2>2, HeadTailProperties, EmptySeq DEF TypeOK
  <2>4. /\ pc[b] = "sent" /\ using[b] = c /\ processed[b] = 0
        /\ \A j \in 1..Len(c2s[c]) : c2s[c][j] = Whole(b) => j = 1
    BY <2>2, <2>3 DEF InOnePlace
  <2>5. \A i \in 1..Len(Tail(c2s[c])) : Tail(c2s[c])[i] # Whole(b)
    BY <2>3, <2>4
  <2>6. /\ c2s' = [c2s EXCEPT ![c] = Tail(@)]
        /\ busy' = [busy EXCEPT ![c] = b]
        /\ UNCHANGED <<pc, using, processed>>
    BY <1>25 DEF ReadData, Consume
  <2>7. ASSUME NEW x \in Batches, NEW d \in Conns, NEW i \in 1..Len(c2s'[d]),
               c2s'[d][i] = Whole(x)
        PROVE  /\ pc'[x] = "sent" /\ using'[x] = d
               /\ busy'[d] # x /\ processed'[x] = 0
               /\ \A j \in 1..Len(c2s'[d]) : c2s'[d][j] = Whole(x) => j = i
    <3>1. CASE d # c
      BY <3>1, <2>6, <2>7 DEF InOnePlace, TypeOK
    <3>2. CASE d = c
      <4>1. c2s'[c] = Tail(c2s[c])
        BY <2>6 DEF TypeOK
      <4>2. x # b
        BY <2>5, <2>7, <3>2, <4>1
      <4>3. \A j \in 1..Len(Tail(c2s[c])) : j + 1 \in 1..Len(c2s[c])
        BY <2>3
      <4>4. i + 1 \in 1..Len(c2s[c]) /\ c2s[c][i + 1] = Whole(x)
        BY <2>3, <2>7, <3>2, <4>1, <4>3
      <4>5. \A j \in 1..Len(Tail(c2s[c])) : Tail(c2s[c])[j] = Whole(x) => j + 1 = i + 1
        BY <2>3, <4>3, <4>4 DEF InOnePlace
      <4> QED
        BY <2>3, <2>6, <3>2, <4>1, <4>2, <4>4, <4>5 DEF InOnePlace, TypeOK
    <3> QED
      BY <3>1, <3>2
  <2>8. ASSUME NEW x \in Batches, NEW d \in Conns, busy'[d] = x
        PROVE  pc'[x] = "sent" /\ using'[x] = d /\ processed'[x] = 0
    BY <2>4, <2>6, <2>8 DEF InOnePlace, TypeOK
  <2> QED
    BY <2>6, <2>7, <2>8 DEF InOnePlace
<1>26. ASSUME NEW c \in Conns, ReadGarbage(c)
      PROVE  InOnePlace'
  BY <1>26 DEF ReadGarbage, MayRead, TypeOK, Wiring, InOnePlace, Whole
<1>27. ASSUME NEW c \in Conns, ReadPing(c)
      PROVE  InOnePlace'
  BY <1>27 DEF ReadPing, MayRead, Consume, TypeOK, Wiring, InOnePlace, Whole
<1>28. ASSUME NEW c \in Conns, FinishBatch(c)
      PROVE  InOnePlace'
  BY <1>28 DEF FinishBatch, TypeOK, Wiring, InOnePlace, Whole
<1>29. ASSUME NEW c \in Conns, ServerCloses(c)
      PROVE  InOnePlace'
  BY <1>29 DEF ServerCloses, TypeOK, Wiring, InOnePlace, Whole
<1>30. CASE KeyArrives
  BY <1>30 DEF KeyArrives, TypeOK, Wiring, InOnePlace, Whole
<1>31. CASE WorkerRestart
  <2>1. \A c \in Conns : c2s'[c] = <<>> /\ busy'[c] = None
    BY <1>31 DEF WorkerRestart
  <2>2. UNCHANGED <<pc, using, processed>>
    BY <1>31 DEF WorkerRestart
  <2> QED
    BY <2>1, <2>2 DEF InOnePlace
<1>32. CASE UNCHANGED vars
  BY <1>32 DEF vars, TypeOK, Wiring, InOnePlace, Whole
<1> QED
  BY <1>1, <1>2, <1>3, <1>4, <1>5, <1>6, <1>7, <1>8, <1>9, <1>10, <1>11, <1>12,
     <1>13, <1>14, <1>15, <1>16, <1>17, <1>18, <1>19, <1>20, <1>21, <1>22, <1>23,
     <1>24, <1>25, <1>26, <1>27, <1>28, <1>29, <1>30, <1>31, <1>32 DEF Next

(* A batch goes through the rules at most once (AgentLink.AtMostOnce), for   *)
(* all the retries of sendBatch, lost connections, frames cut short by a     *)
(* deadline and frames read after the end of their connection: the counters  *)
(* of the rules never count a record twice.                                 *)
THEOREM BatchesOnce == Spec => []AtMostOnce
<1>1. Spec => [](TypeWiring /\ InOnePlace)
  BY TypeWiringInit, TypeWiringNext, InOnePlaceInit, InOnePlaceNext, PTL DEF Spec
<1>2. InOnePlace => AtMostOnce
  <2> SUFFICES ASSUME InOnePlace, NEW b \in Batches
               PROVE  processed[b] <= 1
    BY DEF AtMostOnce
  <2>1. processed[b] \in {0, 1}
    BY DEF InOnePlace
  <2> QED
    BY <2>1
<1> QED
  BY <1>1, <1>2, PTL

-----------------------------------------------------------------------------
(* Nobody writes before the worker has authenticated the connection. *)
LEMMA AuthenticatedInit == Init => Authenticated
<1> SUFFICES ASSUME Init
             PROVE  Authenticated
  OBVIOUS
<1>1. \A c \in Conns : c2s[c] = <<>> /\ s2c[c] = <<>> /\ serverEnd[c] = "none"
  BY DEF Init
<1>2. tcpConn = None /\ \A b \in Batches : pc[b] = "idle"
  BY DEF Init
<1> QED
  BY <1>1, <1>2 DEF Authenticated, Vouched, Told, DataIn

LEMMA AuthenticatedNext == TypeWiring /\ Authenticated /\ [Next]_vars => Authenticated'
<1> SUFFICES ASSUME TypeOK, Wiring, Authenticated, [Next]_vars
             PROVE  Authenticated'
  BY DEF TypeWiring
<1> USE AgentLinkAssumption DEF senderVars, agentVars, netVars, workerVars
<1>1. CASE FirstHandshake
  BY <1>1 DEF FirstHandshake, TypeOK, Wiring, Authenticated, Vouched, Told, DataIn
<1>2. ASSUME NEW b \in Batches, BeginBatch(b)
      PROVE  Authenticated'
  BY <1>2 DEF BeginBatch, TypeOK, Wiring, Authenticated, Vouched, Told, DataIn
<1>3. ASSUME NEW b \in Batches, GetExisting(b)
      PROVE  Authenticated'
  BY <1>3 DEF GetExisting, TypeOK, Wiring, Authenticated, Vouched, Told, DataIn
<1>4. ASSUME NEW b \in Batches, DialFails(b)
      PROVE  Authenticated'
  BY <1>4 DEF DialFails, Retry, TypeOK, Wiring, Authenticated, Vouched, Told, DataIn
<1>5. ASSUME NEW b \in Batches, NEW c \in Conns, Dial(b, c)
      PROVE  Authenticated'
  BY <1>5 DEF Dial, TypeOK, Wiring, Authenticated, Vouched, Told, DataIn
<1>6. ASSUME NEW b \in Batches, AuthOk(b)
      PROVE  Authenticated'
  BY <1>6 DEF AuthOk, AnswerOk, TypeOK, Wiring, Authenticated, Vouched, Told, DataIn
<1>7. ASSUME NEW b \in Batches, AuthRefused(b)
      PROVE  Authenticated'
  BY <1>7 DEF AuthRefused, CloseOwn, Retry, TypeOK, Wiring, Authenticated, Vouched,
     Told, DataIn
<1>8. ASSUME NEW b \in Batches, AuthFails(b)
      PROVE  Authenticated'
  BY <1>8 DEF AuthFails, CloseOwn, Retry, TypeOK, Wiring, Authenticated, Vouched,
     Told, DataIn
<1>9. ASSUME NEW b \in Batches, WriteData(b)
      PROVE  Authenticated'
  BY <1>9 DEF WriteData, Write, TypeOK, Wiring, Authenticated, Vouched, Told, DataIn
<1>10. ASSUME NEW b \in Batches, WriteFails(b)
      PROVE  Authenticated'
  BY <1>10 DEF WriteFails, TypeOK, Wiring, Authenticated, Vouched, Told, DataIn
<1>11. ASSUME NEW b \in Batches, WriteStalls(b)
      PROVE  Authenticated'
  BY <1>11 DEF WriteStalls, Write, WrotePart, TypeOK, Wiring, Authenticated,
     Vouched, Told, DataIn
<1>12. ASSUME NEW b \in Batches, CloseAfterFailure(b)
      PROVE  Authenticated'
  BY <1>12 DEF CloseAfterFailure, CloseCurrent, Closes, Retry, TypeOK, Wiring,
     Authenticated, Vouched, Told, DataIn
<1>13. ASSUME NEW c \in Conns, ReadReply(c)
      PROVE  Authenticated'
  BY <1>13 DEF ReadReply, TypeOK, Wiring, Authenticated, Vouched, Told, DataIn
<1>14. ASSUME NEW c \in Conns, ReadFails(c)
      PROVE  Authenticated'
  BY <1>14 DEF ReadFails, TypeOK, Wiring, Authenticated, Vouched, Told, DataIn
<1>15. ASSUME NEW c \in Conns, ReaderCloses(c)
      PROVE  Authenticated'
  BY <1>15 DEF ReaderCloses, CloseCurrent, Closes, TypeOK, Wiring, Authenticated,
     Vouched, Told, DataIn
<1>16. CASE PingTakes
  BY <1>16 DEF PingTakes, TypeOK, Wiring, Authenticated, Vouched, Told, DataIn
<1>17. CASE PingWrites
  BY <1>17 DEF PingWrites, Write, TypeOK, Wiring, Authenticated, Vouched, Told,
     DataIn
<1>18. CASE PingFails
  BY <1>18 DEF PingFails, TypeOK, Wiring, Authenticated, Vouched, Told, DataIn
<1>19. CASE PingCloses
  BY <1>19 DEF PingCloses, CloseCurrent, Closes, TypeOK, Wiring, Authenticated,
     Vouched, Told, DataIn
<1>20. CASE HandshakeAnswered
  BY <1>20 DEF HandshakeAnswered, TypeOK, Wiring, Authenticated, Vouched, Told,
     DataIn
<1>21. CASE HandshakeFails
  BY <1>21 DEF HandshakeFails, TypeOK, Wiring, Authenticated, Vouched, Told, DataIn
<1>22. CASE HandshakeCloses
  BY <1>22 DEF HandshakeCloses, CloseCurrent, Closes, TypeOK, Wiring, Authenticated,
     Vouched, Told, DataIn
<1>23. ASSUME NEW c \in Conns, ReadAuth(c)
      PROVE  Authenticated'
  BY <1>23 DEF ReadAuth, MayRead, Consume, Reply, TypeOK, Wiring, Authenticated,
     Vouched, Told, DataIn
<1>24. ASSUME NEW c \in Conns, RefuseAuth(c)
      PROVE  Authenticated'
  BY <1>24 DEF RefuseAuth, Reply, TypeOK, Wiring, Authenticated, Vouched, Told,
     DataIn
<1>25. ASSUME NEW c \in Conns, ReadData(c)
      PROVE  Authenticated'
  BY <1>25 DEF ReadData, MayRead, Consume, TypeOK, Wiring, Authenticated, Vouched,
     Told, DataIn
<1>26. ASSUME NEW c \in Conns, ReadGarbage(c)
      PROVE  Authenticated'
  BY <1>26 DEF ReadGarbage, MayRead, TypeOK, Wiring, Authenticated, Vouched, Told,
     DataIn
<1>27. ASSUME NEW c \in Conns, ReadPing(c)
      PROVE  Authenticated'
  BY <1>27 DEF ReadPing, MayRead, Consume, Reply, TypeOK, Wiring, Authenticated,
     Vouched, Told, DataIn
<1>28. ASSUME NEW c \in Conns, FinishBatch(c)
      PROVE  Authenticated'
  <2>1. UNCHANGED <<pc, using, tcpConn, c2s, serverEnd, authed, hasKey>>
    BY <1>28 DEF FinishBatch
  <2>2. \A d \in Conns : Told(d)' => Told(d)
    <3>1. CASE s2c' = s2c
      BY <3>1 DEF Told
    <3>2. CASE s2c' = Reply(activeSocket, "alert") /\ activeSocket # None
      <4>1. activeSocket \in Conns /\ s2c[activeSocket] \in Seq(Replies)
        BY <3>2 DEF TypeOK
      <4>2. \A i \in 1..Len(Append(s2c[activeSocket], "alert")) :
              Append(s2c[activeSocket], "alert")[i] = "ok" =>
                i \in 1..Len(s2c[activeSocket]) /\ s2c[activeSocket][i] = "ok"
        BY <4>1
      <4> QED
        BY <3>2, <4>1, <4>2 DEF Reply, Told, TypeOK
    <3> QED
      BY <1>28, <3>1, <3>2 DEF FinishBatch
  <2> QED
    BY <2>1, <2>2 DEF Authenticated, Vouched, DataIn
<1>29. ASSUME NEW c \in Conns, ServerCloses(c)
      PROVE  Authenticated'
  BY <1>29 DEF ServerCloses, TypeOK, Wiring, Authenticated, Vouched, Told, DataIn
<1>30. CASE KeyArrives
  BY <1>30 DEF KeyArrives, TypeOK, Wiring, Authenticated, Vouched, Told, DataIn
<1>31. CASE WorkerRestart
  BY <1>31 DEF WorkerRestart, TypeOK, Wiring, Authenticated, Vouched, Told, DataIn
<1>32. CASE UNCHANGED vars
  BY <1>32 DEF vars, TypeOK, Wiring, Authenticated, Vouched, Told, DataIn
<1> QED
  BY <1>1, <1>2, <1>3, <1>4, <1>5, <1>6, <1>7, <1>8, <1>9, <1>10, <1>11, <1>12,
     <1>13, <1>14, <1>15, <1>16, <1>17, <1>18, <1>19, <1>20, <1>21, <1>22, <1>23,
     <1>24, <1>25, <1>26, <1>27, <1>28, <1>29, <1>30, <1>31, <1>32 DEF Next

(* The agent never sends data on a connection that the worker has not        *)
(* authenticated (AgentLink.NoUnauthenticatedData), and the worker then has   *)
(* its key: the branches of tcpReceiver.js that destroy such a socket are not *)
(* for this agent, whenever the Auth frame is read and whatever is restarted. *)
THEOREM DataAuthenticated == Spec => []NoUnauthenticatedData
<1>1. Spec => [](TypeWiring /\ Authenticated)
  BY TypeWiringInit, TypeWiringNext, AuthenticatedInit, AuthenticatedNext, PTL
     DEF Spec
<1>2. Authenticated => NoUnauthenticatedData
  BY DEF Authenticated, NoUnauthenticatedData, Vouched
<1> QED
  BY <1>1, <1>2, PTL

-----------------------------------------------------------------------------
(* What is left on a connection after a frame has been read ... *)
LEMMA ConsumeTail ==
  ASSUME TypeOK, NEW c \in Conns, c2s[c] # <<>>, Consume(c)
  PROVE  /\ \A d \in Conns : d # c => c2s'[d] = c2s[d]
         /\ 1 \in 1..Len(c2s[c]) /\ Head(c2s[c]) = c2s[c][1]
         /\ \A i \in 1..Len(c2s'[c]) :
              i + 1 \in 2..Len(c2s[c]) /\ c2s'[c][i] = c2s[c][i + 1]
         /\ \A i \in 2..Len(c2s[c]) :
              i - 1 \in 1..Len(c2s'[c]) /\ c2s'[c][i - 1] = c2s[c][i]
<1>1. c2s'[c] = Tail(c2s[c]) /\ c2s[c] \in Seq(Frames)
  BY DEF Consume, TypeOK
<1>2. /\ Len(c2s[c]) \in Nat \ {0} /\ Len(Tail(c2s[c])) = Len(c2s[c]) - 1
      /\ \A i \in 1..Len(Tail(c2s[c])) : Tail(c2s[c])[i] = c2s[c][i + 1]
  BY <1>1, HeadTailProperties, EmptySeq
<1>3. \A i \in 2..Len(c2s[c]) : i - 1 \in 1..Len(Tail(c2s[c])) /\ (i - 1) + 1 = i
  BY <1>2
<1> QED
  BY <1>1, <1>2, <1>3 DEF Consume, TypeOK

(* ... and what the agent can read after a reply.                           *)
LEMMA ReplyTold ==
  ASSUME TypeOK, NEW c \in Conns, NEW r \in Replies, s2c' = Reply(c, r),
         NEW d \in Conns, Told(d)'
  PROVE  Told(d) \/ (r = "ok" /\ d = c)
<1>1. s2c[c] \in Seq(Replies)
  BY DEF TypeOK
<1>2. PICK i \in 1..Len(s2c'[d]) : s2c'[d][i] = "ok"
  BY DEF Told
<1>3. CASE s2c'[d] = s2c[d]
  BY <1>2, <1>3 DEF Told
<1>4. CASE d = c /\ s2c'[c] = Append(s2c[c], r)
  <2>1. Len(Append(s2c[c], r)) = Len(s2c[c]) + 1
    BY <1>1
  <2>2. CASE i = Len(s2c[c]) + 1
    BY <1>1, <1>2, <1>4, <2>2
  <2>3. CASE i # Len(s2c[c]) + 1
    <3>1. i \in 1..Len(s2c[c])
      BY <1>1, <1>2, <1>4, <2>1, <2>3
    <3>2. s2c[c][i] = "ok"
      BY <1>1, <1>2, <1>4, <3>1
    <3> QED
      BY <1>4, <3>1, <3>2 DEF Told
  <2> QED
    BY <2>2, <2>3
<1> QED
  BY <1>3, <1>4 DEF Reply, TypeOK

-----------------------------------------------------------------------------
(* When the worker handles the Auth frame of a connection before the agent   *)
(* has given it up and dialled the next, the registry follows the agent.    *)
LEMMA RegisteredInit == Init => Registered
<1> SUFFICES ASSUME Init
             PROVE  Registered
  OBVIOUS
<1>1. \A c \in Conns : 1..Len(c2s[c]) = {} /\ 1..Len(s2c[c]) = {} /\ agentEnd[c] = "none"
  BY DEF Init
<1>2. \A c \in Conns : tcpConn # c
  BY AgentLinkAssumption DEF Init
<1> QED
  BY <1>1, <1>2 DEF Registered, Told, AuthIn

LEMMA RegisteredConsume ==
  ASSUME TypeOK, Registered, NEW c \in Conns, c2s[c] # <<>>, Consume(c),
         UNCHANGED <<dialer, tcpConn, using, agentEnd, serverEnd, activeSocket>>,
         \A d \in Conns : Told(d)' => Told(d)
  PROVE  Registered'
<1>1. \A d \in Conns : AuthIn(d)' => AuthIn(d)
  BY ConsumeTail DEF AuthIn
<1>2. ASSUME NEW d \in Conns, NEW i \in 1..Len(c2s'[d]), c2s'[d][i].type = "auth"
      PROVE  i = 1
  <2>1. CASE d = c
    <3>1. i + 1 \in 2..Len(c2s[c]) /\ c2s[c][i + 1].type = "auth"
      BY <1>2, <2>1, ConsumeTail
    <3> QED
      BY <3>1 DEF Registered
  <2>2. CASE d # c
    BY <1>2, <2>2, ConsumeTail DEF Registered
  <2> QED
    BY <2>1, <2>2
<1> QED
  BY <1>1, <1>2 DEF Registered

LEMMA RegisteredNext ==
  ASSUME ~ LateAuth
  PROVE  TypeWiring /\ Registered /\ [Next]_vars => Registered'
<1> SUFFICES ASSUME TypeOK, Wiring, Registered, [Next]_vars
             PROVE  Registered'
  BY DEF TypeWiring
<1> USE AgentLinkAssumption DEF senderVars, agentVars, netVars, workerVars
<1>1. CASE FirstHandshake
  BY <1>1 DEF FirstHandshake, TypeOK, Wiring, Registered, Told, AuthIn
<1>2. ASSUME NEW b \in Batches, BeginBatch(b)
      PROVE  Registered'
  BY <1>2 DEF BeginBatch, TypeOK, Wiring, Registered, Told, AuthIn
<1>3. ASSUME NEW b \in Batches, GetExisting(b)
      PROVE  Registered'
  BY <1>3 DEF GetExisting, TypeOK, Wiring, Registered, Told, AuthIn
<1>4. ASSUME NEW b \in Batches, DialFails(b)
      PROVE  Registered'
  BY <1>4 DEF DialFails, Retry, TypeOK, Wiring, Registered, Told, AuthIn
<1>5. ASSUME NEW b \in Batches, NEW c \in Conns, Dial(b, c)
      PROVE  Registered'
  BY <1>5 DEF Dial, TypeOK, Wiring, Registered, Told, AuthIn
<1>6. ASSUME NEW b \in Batches, AuthOk(b)
      PROVE  Registered'
  BY <1>6, SMTT(30) DEF AuthOk, AnswerOk, TypeOK, Wiring, Registered, Told, AuthIn
<1>7. ASSUME NEW b \in Batches, AuthRefused(b)
      PROVE  Registered'
  BY <1>7 DEF AuthRefused, CloseOwn, Retry, Unlocked, TypeOK, Wiring, Registered,
     Told, AuthIn
<1>8. ASSUME NEW b \in Batches, AuthFails(b)
      PROVE  Registered'
  BY <1>8 DEF AuthFails, CloseOwn, Retry, Unlocked, TypeOK, Wiring, Registered,
     Told, AuthIn
<1>9. ASSUME NEW b \in Batches, WriteData(b)
      PROVE  Registered'
  BY <1>9, SMTT(30) DEF WriteData, Write, TypeOK, Wiring, Registered, Told, AuthIn
<1>10. ASSUME NEW b \in Batches, WriteFails(b)
      PROVE  Registered'
  <2>1. UNCHANGED <<dialer, tcpConn, agentEnd, serverEnd, c2s, s2c, activeSocket, using>>
    BY <1>10 DEF WriteFails
  <2> QED
    BY <2>1 DEF Registered, Told, AuthIn
<1>11. ASSUME NEW b \in Batches, WriteStalls(b)
      PROVE  Registered'
  BY <1>11, SMTT(30) DEF WriteStalls, Write, WrotePart, TypeOK, Wiring, Registered,
     Told, AuthIn
<1>12. ASSUME NEW b \in Batches, CloseAfterFailure(b)
      PROVE  Registered'
  BY <1>12 DEF CloseAfterFailure, CloseCurrent, Closes, Retry, TypeOK, Wiring,
     Registered, Told, AuthIn
<1>13. ASSUME NEW c \in Conns, ReadReply(c)
      PROVE  Registered'
  BY <1>13 DEF ReadReply, TypeOK, Wiring, Registered, Told, AuthIn
<1>14. ASSUME NEW c \in Conns, ReadFails(c)
      PROVE  Registered'
  BY <1>14 DEF ReadFails, TypeOK, Wiring, Registered, Told, AuthIn
<1>15. ASSUME NEW c \in Conns, ReaderCloses(c)
      PROVE  Registered'
  BY <1>15 DEF ReaderCloses, CloseCurrent, Closes, TypeOK, Wiring, Registered, Told,
     AuthIn
<1>16. CASE PingTakes
  BY <1>16 DEF PingTakes, TypeOK, Wiring, Registered, Told, AuthIn
<1>17. CASE PingWrites
  BY <1>17, SMTT(30) DEF PingWrites, Write, TypeOK, Wiring, Registered, Told, AuthIn
<1>18. CASE PingFails
  BY <1>18 DEF PingFails, TypeOK, Wiring, Registered, Told, AuthIn
<1>19. CASE PingCloses
  BY <1>19 DEF PingCloses, CloseCurrent, Closes, TypeOK, Wiring, Registered, Told,
     AuthIn
<1>20. CASE HandshakeAnswered
  BY <1>20 DEF HandshakeAnswered, TypeOK, Wiring, Registered, Told, AuthIn
<1>21. CASE HandshakeFails
  BY <1>21 DEF HandshakeFails, TypeOK, Wiring, Registered, Told, AuthIn
<1>22. CASE HandshakeCloses
  BY <1>22 DEF HandshakeCloses, CloseCurrent, Closes, TypeOK, Wiring, Registered,
     Told, AuthIn
<1>23. ASSUME NEW c \in Conns, ReadAuth(c)
      PROVE  Registered'
  <2>1. /\ c2s[c] # <<>> /\ Consume(c) /\ Head(c2s[c]).type = "auth"
        /\ activeSocket' = c /\ s2c' = Reply(c, "ok")
        /\ UNCHANGED <<dialer, tcpConn, using, agentEnd, serverEnd>>
    BY <1>23 DEF ReadAuth, MayRead
  <2>2. "ok" \in Replies
    BY DEF Replies
  <2>3. AuthIn(c) /\ ~ AuthIn(c)' /\ \A d \in Conns : AuthIn(d)' => AuthIn(d) /\ d # c
    <3>1. AuthIn(c)
      BY <2>1, ConsumeTail DEF AuthIn
    <3>2. ~ AuthIn(c)'
      <4> SUFFICES ASSUME NEW i \in 1..Len(c2s'[c]), c2s'[c][i].type = "auth"
                   PROVE  FALSE
        BY DEF AuthIn
      <4>1. i + 1 \in 2..Len(c2s[c]) /\ c2s[c][i + 1].type = "auth"
        BY <2>1, ConsumeTail
      <4>2. i + 1 \in 1..Len(c2s[c]) /\ i + 1 # 1
        BY <4>1
      <4> QED
        BY <4>1, <4>2 DEF Registered
    <3>3. \A d \in Conns : d # c => (AuthIn(d)' <=> AuthIn(d))
      BY <2>1, ConsumeTail DEF AuthIn
    <3> QED
      BY <3>1, <3>2, <3>3
  <2>4. \A d \in Conns : \A i \in 1..Len(c2s'[d]) : c2s'[d][i].type = "auth" => i = 1
    BY <2>1, <2>3, ConsumeTail DEF AuthIn, Registered
  <2>5. \A d \in Conns : Told(d)' => Told(d) \/ d = c
    BY <2>1, <2>2, ReplyTold
  <2>6. \A d \in Conns : agentEnd[d] = "open" => d = c
    BY <2>3 DEF Registered
  <2> QED
    BY <2>1, <2>3, <2>4, <2>5, <2>6 DEF Registered
<1>24. ASSUME NEW c \in Conns, RefuseAuth(c)
      PROVE  Registered'
  BY <1>24, SMTT(30) DEF RefuseAuth, Reply, TypeOK, Wiring, Registered, Told, AuthIn
<1>25. ASSUME NEW c \in Conns, ReadData(c)
      PROVE  Registered'
  <2>1. /\ c2s[c] # <<>> /\ Consume(c)
        /\ UNCHANGED <<dialer, tcpConn, using, agentEnd, serverEnd, activeSocket>>
    BY <1>25 DEF ReadData, MayRead
  <2>2. \A d \in Conns : Told(d)' => Told(d)
    BY <1>25 DEF ReadData, Told
  <2> QED
    BY <2>1, <2>2, RegisteredConsume
<1>26. ASSUME NEW c \in Conns, ReadGarbage(c)
      PROVE  Registered'
  BY <1>26 DEF ReadGarbage, MayRead, TypeOK, Wiring, Registered, Told, AuthIn
<1>27. ASSUME NEW c \in Conns, ReadPing(c)
      PROVE  Registered'
  <2>1. /\ c2s[c] # <<>> /\ Consume(c)
        /\ UNCHANGED <<dialer, tcpConn, using, agentEnd, serverEnd, activeSocket>>
    BY <1>27 DEF ReadPing, MayRead
  <2>2. \A d \in Conns : Told(d)' => Told(d)
    <3>1. CASE s2c' = s2c
      BY <3>1 DEF Told
    <3>2. CASE s2c' = Reply(c, "pong")
      BY <3>2, ReplyTold, "pong" \in Replies DEF Replies
    <3> QED
      BY <1>27, <3>1, <3>2 DEF ReadPing
  <2> QED
    BY <2>1, <2>2, RegisteredConsume
<1>28. ASSUME NEW c \in Conns, FinishBatch(c)
      PROVE  Registered'
  <2>1. UNCHANGED <<dialer, tcpConn, using, agentEnd, serverEnd, activeSocket, c2s>>
    BY <1>28 DEF FinishBatch
  <2>2. \A d \in Conns : Told(d)' => Told(d)
    <3>1. CASE s2c' = s2c
      BY <3>1 DEF Told
    <3>2. CASE activeSocket # None /\ s2c' = Reply(activeSocket, "alert")
      <4>1. activeSocket \in Conns /\ "alert" \in Replies
        BY <3>2 DEF TypeOK, Replies
      <4> QED
        BY <3>2, <4>1, ReplyTold
    <3> QED
      BY <1>28, <3>1, <3>2 DEF FinishBatch
  <2> QED
    BY <2>1, <2>2 DEF Registered, AuthIn
<1>29. ASSUME NEW c \in Conns, ServerCloses(c)
      PROVE  Registered'
  BY <1>29, SMTT(30) DEF ServerCloses, RegistryWithout, TypeOK, Wiring, Registered,
     Told, AuthIn
<1>30. CASE KeyArrives
  BY <1>30 DEF KeyArrives, TypeOK, Wiring, Registered, Told, AuthIn
<1>31. CASE WorkerRestart
  BY <1>31 DEF WorkerRestart, TypeOK, Wiring, Registered, Told, AuthIn
<1>32. CASE UNCHANGED vars
  BY <1>32 DEF vars, TypeOK, Wiring, Registered, Told, AuthIn
<1> QED
  BY <1>1, <1>2, <1>3, <1>4, <1>5, <1>6, <1>7, <1>8, <1>9, <1>10, <1>11, <1>12,
     <1>13, <1>14, <1>15, <1>16, <1>17, <1>18, <1>19, <1>20, <1>21, <1>22, <1>23,
     <1>24, <1>25, <1>26, <1>27, <1>28, <1>29, <1>30, <1>31, <1>32 DEF Next

(* If no Auth frame is handled after the agent has given its connection up,  *)
(* the connection the agent uses is the one the worker knows it by           *)
(* (AgentLink.RegistryCurrent): an alert reaches the agent whatever is closed, *)
(* retried and restarted.                                                   *)
THEOREM AgentReachable ==
  ASSUME ~ LateAuth
  PROVE  Spec => []RegistryCurrent
<1>1. TypeWiring /\ Registered /\ [Next]_vars => Registered'
  BY RegisteredNext
<1>2. Spec => [](TypeWiring /\ Registered)
  BY <1>1, TypeWiringInit, TypeWiringNext, RegisteredInit, PTL DEF Spec
<1>3. Registered => RegistryCurrent
  BY DEF Registered, RegistryCurrent
<1> QED
  BY <1>2, <1>3, PTL

-----------------------------------------------------------------------------
(* When no deadline cuts a frame short: the data on a connection is whole,   *)
(* and belongs to the sendBatch that wrote it there.                        *)
LEMMA NothingCutConsume ==
  ASSUME TypeOK, NothingCut, NEW c \in Conns, c2s[c] # <<>>, Consume(c)
  PROVE  NothingCut'
<1> SUFFICES ASSUME NEW d \in Conns, NEW i \in 1..Len(c2s'[d]), c2s'[d][i].type = "data"
             PROVE  c2s'[d][i].whole
  BY DEF NothingCut
<1>1. CASE d = c
  <2>1. i + 1 \in 2..Len(c2s[c]) /\ c2s'[d][i] = c2s[c][i + 1]
    BY <1>1, ConsumeTail
  <2> QED
    BY <2>1 DEF NothingCut
<1>2. CASE d # c
  BY <1>2, ConsumeTail DEF NothingCut
<1> QED
  BY <1>1, <1>2

LEMMA NothingCutNext ==
  ASSUME ~ Stalls
  PROVE  TypeWiring /\ NothingCut /\ [Next]_vars => NothingCut'
<1> SUFFICES ASSUME TypeOK, Wiring, NothingCut, [Next]_vars
             PROVE  NothingCut'
  BY DEF TypeWiring
<1> USE AgentLinkAssumption DEF senderVars, agentVars, netVars, workerVars
<1>1. CASE FirstHandshake
  BY <1>1 DEF FirstHandshake, TypeOK, Wiring, NothingCut
<1>2. ASSUME NEW b \in Batches, BeginBatch(b)
      PROVE  NothingCut'
  BY <1>2 DEF BeginBatch, TypeOK, Wiring, NothingCut
<1>3. ASSUME NEW b \in Batches, GetExisting(b)
      PROVE  NothingCut'
  BY <1>3 DEF GetExisting, TypeOK, Wiring, NothingCut
<1>4. ASSUME NEW b \in Batches, DialFails(b)
      PROVE  NothingCut'
  BY <1>4 DEF DialFails, Retry, TypeOK, Wiring, NothingCut
<1>5. ASSUME NEW b \in Batches, NEW c \in Conns, Dial(b, c)
      PROVE  NothingCut'
  BY <1>5 DEF Dial, TypeOK, Wiring, NothingCut
<1>6. ASSUME NEW b \in Batches, AuthOk(b)
      PROVE  NothingCut'
  BY <1>6 DEF AuthOk, AnswerOk, TypeOK, Wiring, NothingCut
<1>7. ASSUME NEW b \in Batches, AuthRefused(b)
      PROVE  NothingCut'
  BY <1>7 DEF AuthRefused, CloseOwn, Retry, Unlocked, TypeOK, Wiring, NothingCut
<1>8. ASSUME NEW b \in Batches, AuthFails(b)
      PROVE  NothingCut'
  BY <1>8 DEF AuthFails, CloseOwn, Retry, Unlocked, TypeOK, Wiring, NothingCut
<1>9. ASSUME NEW b \in Batches, WriteData(b)
      PROVE  NothingCut'
  BY <1>9 DEF WriteData, Write, TypeOK, Wiring, NothingCut
<1>10. ASSUME NEW b \in Batches, WriteFails(b)
      PROVE  NothingCut'
  BY <1>10 DEF WriteFails, TypeOK, Wiring, NothingCut
<1>11. ASSUME NEW b \in Batches, WriteStalls(b)
      PROVE  NothingCut'
  BY <1>11 DEF WriteStalls, Write, WrotePart, TypeOK, Wiring, NothingCut
<1>12. ASSUME NEW b \in Batches, CloseAfterFailure(b)
      PROVE  NothingCut'
  BY <1>12 DEF CloseAfterFailure, CloseCurrent, Closes, Retry, TypeOK, Wiring,
     NothingCut
<1>13. ASSUME NEW c \in Conns, ReadReply(c)
      PROVE  NothingCut'
  BY <1>13 DEF ReadReply, TypeOK, Wiring, NothingCut
<1>14. ASSUME NEW c \in Conns, ReadFails(c)
      PROVE  NothingCut'
  BY <1>14 DEF ReadFails, TypeOK, Wiring, NothingCut
<1>15. ASSUME NEW c \in Conns, ReaderCloses(c)
      PROVE  NothingCut'
  BY <1>15 DEF ReaderCloses, CloseCurrent, Closes, TypeOK, Wiring, NothingCut
<1>16. CASE PingTakes
  BY <1>16 DEF PingTakes, TypeOK, Wiring, NothingCut
<1>17. CASE PingWrites
  BY <1>17 DEF PingWrites, Write, TypeOK, Wiring, NothingCut
<1>18. CASE PingFails
  BY <1>18 DEF PingFails, TypeOK, Wiring, NothingCut
<1>19. CASE PingCloses
  BY <1>19 DEF PingCloses, CloseCurrent, Closes, TypeOK, Wiring, NothingCut
<1>20. CASE HandshakeAnswered
  BY <1>20 DEF HandshakeAnswered, TypeOK, Wiring, NothingCut
<1>21. CASE HandshakeFails
  BY <1>21 DEF HandshakeFails, TypeOK, Wiring, NothingCut
<1>22. CASE HandshakeCloses
  BY <1>22 DEF HandshakeCloses, CloseCurrent, Closes, TypeOK, Wiring, NothingCut
<1>23. ASSUME NEW c \in Conns, ReadAuth(c)
      PROVE  NothingCut'
  <2>1. c2s[c] # <<>> /\ Consume(c)
    BY <1>23 DEF ReadAuth, MayRead
  <2> QED
    BY <2>1, NothingCutConsume
<1>24. ASSUME NEW c \in Conns, RefuseAuth(c)
      PROVE  NothingCut'
  BY <1>24 DEF RefuseAuth, Reply, TypeOK, Wiring, NothingCut
<1>25. ASSUME NEW c \in Conns, ReadData(c)
      PROVE  NothingCut'
  <2>1. c2s[c] # <<>> /\ Consume(c)
    BY <1>25 DEF ReadData, MayRead
  <2> QED
    BY <2>1, NothingCutConsume
<1>26. ASSUME NEW c \in Conns, ReadGarbage(c)
      PROVE  NothingCut'
  BY <1>26 DEF ReadGarbage, MayRead, TypeOK, Wiring, NothingCut
<1>27. ASSUME NEW c \in Conns, ReadPing(c)
      PROVE  NothingCut'
  <2>1. c2s[c] # <<>> /\ Consume(c)
    BY <1>27 DEF ReadPing, MayRead
  <2> QED
    BY <2>1, NothingCutConsume
<1>28. ASSUME NEW c \in Conns, FinishBatch(c)
      PROVE  NothingCut'
  BY <1>28 DEF FinishBatch, TypeOK, Wiring, NothingCut
<1>29. ASSUME NEW c \in Conns, ServerCloses(c)
      PROVE  NothingCut'
  BY <1>29 DEF ServerCloses, RegistryWithout, TypeOK, Wiring, NothingCut
<1>30. CASE KeyArrives
  BY <1>30 DEF KeyArrives, TypeOK, Wiring, NothingCut
<1>31. CASE WorkerRestart
  BY <1>31 DEF WorkerRestart, TypeOK, Wiring, NothingCut
<1>32. CASE UNCHANGED vars
  BY <1>32 DEF vars, TypeOK, Wiring, NothingCut
<1> QED
  BY <1>1, <1>2, <1>3, <1>4, <1>5, <1>6, <1>7, <1>8, <1>9, <1>10, <1>11, <1>12,
     <1>13, <1>14, <1>15, <1>16, <1>17, <1>18, <1>19, <1>20, <1>21, <1>22, <1>23,
     <1>24, <1>25, <1>26, <1>27, <1>28, <1>29, <1>30, <1>31, <1>32 DEF Next

LEMMA DataBelongs ==
  ASSUME TypeOK, InOnePlace, NothingCut,
         NEW c \in Conns, NEW b \in Batches, DataIn(c, b)
  PROVE  using[b] = c
<1>1. PICK i \in 1..Len(c2s[c]) : c2s[c][i].type = "data" /\ c2s[c][i].batch = b
  BY DEF DataIn
<1>2. c2s[c][i] \in Frames /\ c2s[c][i].whole
  BY <1>1, ElementOfSeq DEF TypeOK, NothingCut
<1>3. c2s[c][i] = Whole(b)
  BY <1>1, <1>2 DEF Frames, Whole
<1> QED
  BY <1>3 DEF InOnePlace

LEMMA DataStays ==
  ASSUME TypeOK, NEW c \in Conns, c2s[c] # <<>>, Consume(c),
         NEW d \in Conns, NEW b \in Batches, DataIn(d, b),
         ~ (d = c /\ Head(c2s[c]).type = "data" /\ Head(c2s[c]).batch = b)
  PROVE  DataIn(d, b)'
<1>1. PICK i \in 1..Len(c2s[d]) : c2s[d][i].type = "data" /\ c2s[d][i].batch = b
  BY DEF DataIn
<1>2. CASE d # c
  BY <1>1, <1>2, ConsumeTail DEF DataIn
<1>3. CASE d = c
  <2>1. i # 1
    BY <1>1, <1>3, ConsumeTail
  <2>2. i \in 2..Len(c2s[c])
    BY <1>1, <1>3, <2>1
  <2>3. i - 1 \in 1..Len(c2s'[c]) /\ c2s'[c][i - 1] = c2s[c][i]
    BY <2>2, ConsumeTail
  <2> QED
    BY <1>1, <1>3, <2>3 DEF DataIn
<1> QED
  BY <1>2, <1>3

LEMMA WriteKeeps ==
  ASSUME TypeOK, NEW c \in Conns, NEW f \in Frames, Write(c, f)
  PROVE  /\ \A d \in Conns, b \in Batches : DataIn(d, b) => DataIn(d, b)'
         /\ \A b \in Batches : serverEnd[c] = "open" /\ f.type = "data" /\ f.batch = b
              => DataIn(c, b)'
<1>1. CASE serverEnd[c] # "open"
  BY <1>1 DEF Write, DataIn
<1>2. CASE serverEnd[c] = "open"
  <2>1. c2s' = [c2s EXCEPT ![c] = Append(c2s[c], f)] /\ c2s[c] \in Seq(Frames)
    BY <1>2 DEF Write, TypeOK
  <2>2. c2s'[c] = Append(c2s[c], f) /\ \A d \in Conns : d # c => c2s'[d] = c2s[d]
    BY <2>1 DEF TypeOK
  <2>3. /\ Len(c2s'[c]) = Len(c2s[c]) + 1 /\ Len(c2s[c]) \in Nat
        /\ \A i \in 1..Len(c2s[c]) : c2s'[c][i] = c2s[c][i]
        /\ c2s'[c][Len(c2s[c]) + 1] = f
    BY <2>1, <2>2, AppendProperties, LenProperties
  <2>4. Len(c2s[c]) + 1 \in 1..Len(c2s'[c])
        /\ \A i \in 1..Len(c2s[c]) : i \in 1..Len(c2s'[c])
    BY <2>3
  <2> QED
    BY <2>2, <2>3, <2>4 DEF DataIn
<1> QED
  BY <1>1, <1>2

LEMMA AccountedNext ==
  TypeWiring /\ InOnePlace /\ NothingCut /\ SentIsAccountedFor /\ ~ Stalls /\ [Next]_vars
    => SentIsAccountedFor'
<1> SUFFICES ASSUME TypeOK, Wiring, InOnePlace, NothingCut, SentIsAccountedFor, ~ Stalls,
                    [Next]_vars
             PROVE  SentIsAccountedFor'
  BY DEF TypeWiring
<1> USE AgentLinkAssumption DEF senderVars, agentVars, netVars, workerVars
<1>1. CASE FirstHandshake
  BY <1>1 DEF FirstHandshake, TypeOK, Wiring, InOnePlace, NothingCut,
     SentIsAccountedFor, ConnectionEnded, DataIn, Whole
<1>2. ASSUME NEW b \in Batches, BeginBatch(b)
      PROVE  SentIsAccountedFor'
  BY <1>2 DEF BeginBatch, TypeOK, Wiring, InOnePlace, NothingCut,
     SentIsAccountedFor, ConnectionEnded, DataIn, Whole
<1>3. ASSUME NEW b \in Batches, GetExisting(b)
      PROVE  SentIsAccountedFor'
  BY <1>3 DEF GetExisting, TypeOK, Wiring, InOnePlace, NothingCut,
     SentIsAccountedFor, ConnectionEnded, DataIn, Whole
<1>4. ASSUME NEW b \in Batches, DialFails(b)
      PROVE  SentIsAccountedFor'
  BY <1>4 DEF DialFails, Retry, TypeOK, Wiring, InOnePlace, NothingCut,
     SentIsAccountedFor, ConnectionEnded, DataIn, Whole
<1>5. ASSUME NEW b \in Batches, NEW c \in Conns, Dial(b, c)
      PROVE  SentIsAccountedFor'
  BY <1>5 DEF Dial, TypeOK, Wiring, InOnePlace, NothingCut, SentIsAccountedFor,
     ConnectionEnded, DataIn, Whole
<1>6. ASSUME NEW b \in Batches, AuthOk(b)
      PROVE  SentIsAccountedFor'
  BY <1>6 DEF AuthOk, AnswerOk, TypeOK, Wiring, InOnePlace, NothingCut,
     SentIsAccountedFor, ConnectionEnded, DataIn, Whole
<1>7. ASSUME NEW b \in Batches, AuthRefused(b)
      PROVE  SentIsAccountedFor'
  BY <1>7 DEF AuthRefused, CloseOwn, Retry, Unlocked, TypeOK, Wiring, InOnePlace,
     NothingCut, SentIsAccountedFor, ConnectionEnded, DataIn, Whole
<1>8. ASSUME NEW b \in Batches, AuthFails(b)
      PROVE  SentIsAccountedFor'
  BY <1>8 DEF AuthFails, CloseOwn, Retry, Unlocked, TypeOK, Wiring, InOnePlace,
     NothingCut, SentIsAccountedFor, ConnectionEnded, DataIn, Whole
<1>9. ASSUME NEW b \in Batches, WriteData(b)
      PROVE  SentIsAccountedFor'
  <2>1. /\ pc[b] = "write" /\ using[b] \in Conns /\ serverEnd[using[b]] # "none"
        /\ Write(using[b], Whole(b))
        /\ pc' = [pc EXCEPT ![b] = "sent"]
        /\ UNCHANGED <<using, processed, busy, serverEnd>>
    BY <1>9 DEF WriteData, Whole, TypeOK, Wiring
  <2>2. ASSUME NEW x \in Batches, pc'[x] = "sent"
        PROVE  \/ processed'[x] = 1
               \/ \E c \in Conns : busy'[c] = x \/ DataIn(c, x)'
               \/ ConnectionEnded(x)'
    <3>1. CASE x = b /\ serverEnd[using[b]] = "open"
      BY <2>1, <3>1, WriteKeeps, Whole(b) \in Frames DEF Whole, Frames
    <3>2. CASE x = b /\ serverEnd[using[b]] # "open"
      BY <2>1, <3>2, AgentLinkAssumption DEF ConnectionEnded, TypeOK
    <3>3. CASE x # b
      <4>1. pc[x] = "sent"
        BY <2>1, <2>2, <3>3 DEF TypeOK
      <4>2. \A c \in Conns : DataIn(c, x) => DataIn(c, x)'
        BY <2>1, WriteKeeps, Whole(b) \in Frames DEF Whole, Frames
      <4> QED
        BY <2>1, <4>1, <4>2 DEF SentIsAccountedFor, ConnectionEnded
    <3> QED
      BY <3>1, <3>2, <3>3
  <2> QED
    BY <2>2 DEF SentIsAccountedFor
<1>10. ASSUME NEW b \in Batches, WriteFails(b)
      PROVE  SentIsAccountedFor'
  BY <1>10 DEF WriteFails, TypeOK, Wiring, InOnePlace, NothingCut,
     SentIsAccountedFor, ConnectionEnded, DataIn, Whole
<1>11. ASSUME NEW b \in Batches, WriteStalls(b)
      PROVE  SentIsAccountedFor'
  BY <1>11 DEF WriteStalls, Write, WrotePart, TypeOK, Wiring, InOnePlace,
     NothingCut, SentIsAccountedFor, ConnectionEnded, DataIn, Whole
<1>12. ASSUME NEW b \in Batches, CloseAfterFailure(b)
      PROVE  SentIsAccountedFor'
  BY <1>12 DEF CloseAfterFailure, CloseCurrent, Closes, Retry, TypeOK, Wiring,
     InOnePlace, NothingCut, SentIsAccountedFor, ConnectionEnded, DataIn, Whole
<1>13. ASSUME NEW c \in Conns, ReadReply(c)
      PROVE  SentIsAccountedFor'
  BY <1>13 DEF ReadReply, TypeOK, Wiring, InOnePlace, NothingCut,
     SentIsAccountedFor, ConnectionEnded, DataIn, Whole
<1>14. ASSUME NEW c \in Conns, ReadFails(c)
      PROVE  SentIsAccountedFor'
  BY <1>14 DEF ReadFails, TypeOK, Wiring, InOnePlace, NothingCut,
     SentIsAccountedFor, ConnectionEnded, DataIn, Whole
<1>15. ASSUME NEW c \in Conns, ReaderCloses(c)
      PROVE  SentIsAccountedFor'
  BY <1>15 DEF ReaderCloses, CloseCurrent, Closes, TypeOK, Wiring, InOnePlace,
     NothingCut, SentIsAccountedFor, ConnectionEnded, DataIn, Whole
<1>16. CASE PingTakes
  BY <1>16 DEF PingTakes, TypeOK, Wiring, InOnePlace, NothingCut,
     SentIsAccountedFor, ConnectionEnded, DataIn, Whole
<1>17. CASE PingWrites
  <2>1. /\ pingConn \in Conns /\ Write(pingConn, [type |-> "ping"])
        /\ UNCHANGED <<pc, using, processed, busy, serverEnd>>
    BY <1>17 DEF PingWrites, TypeOK, Wiring
  <2>2. [type |-> "ping"] \in Frames
    BY DEF Frames
  <2>3. \A c \in Conns, b \in Batches : DataIn(c, b) => DataIn(c, b)'
    BY <2>1, <2>2, WriteKeeps
  <2> QED
    BY <2>1, <2>3 DEF SentIsAccountedFor, ConnectionEnded
<1>18. CASE PingFails
  BY <1>18 DEF PingFails, TypeOK, Wiring, InOnePlace, NothingCut,
     SentIsAccountedFor, ConnectionEnded, DataIn, Whole
<1>19. CASE PingCloses
  <2>1. UNCHANGED <<pc, using, processed, busy, serverEnd, c2s>>
    BY <1>19 DEF PingCloses, CloseCurrent
  <2> QED
    BY <2>1 DEF SentIsAccountedFor, ConnectionEnded, DataIn
<1>20. CASE HandshakeAnswered
  BY <1>20 DEF HandshakeAnswered, TypeOK, Wiring, InOnePlace, NothingCut,
     SentIsAccountedFor, ConnectionEnded, DataIn, Whole
<1>21. CASE HandshakeFails
  BY <1>21 DEF HandshakeFails, TypeOK, Wiring, InOnePlace, NothingCut,
     SentIsAccountedFor, ConnectionEnded, DataIn, Whole
<1>22. CASE HandshakeCloses
  BY <1>22 DEF HandshakeCloses, CloseCurrent, Closes, TypeOK, Wiring, InOnePlace,
     NothingCut, SentIsAccountedFor, ConnectionEnded, DataIn, Whole
<1>23. ASSUME NEW c \in Conns, ReadAuth(c)
      PROVE  SentIsAccountedFor'
  <2>1. /\ c2s[c] # <<>> /\ Consume(c) /\ Head(c2s[c]).type # "data"
        /\ UNCHANGED <<pc, using, processed, busy, serverEnd>>
    BY <1>23 DEF ReadAuth, MayRead
  <2>2. \A d \in Conns, b \in Batches : DataIn(d, b) => DataIn(d, b)'
    BY <2>1, DataStays
  <2> QED
    BY <2>1, <2>2 DEF SentIsAccountedFor, ConnectionEnded
<1>24. ASSUME NEW c \in Conns, RefuseAuth(c)
      PROVE  SentIsAccountedFor'
  <2>1. /\ \A d \in Conns : d # c => c2s'[d] = c2s[d] /\ serverEnd'[d] = serverEnd[d]
        /\ serverEnd'[c] = "closed"
        /\ UNCHANGED <<pc, using, processed, busy>>
    BY <1>24 DEF RefuseAuth, TypeOK
  <2>2. ASSUME NEW b \in Batches, pc[b] = "sent", NEW d \in Conns, DataIn(d, b)
        PROVE  DataIn(d, b)' \/ ConnectionEnded(b)'
    BY <2>1, <2>2, DataBelongs, AgentLinkAssumption DEF DataIn, ConnectionEnded
  <2>3. \A b \in Batches : ConnectionEnded(b) => ConnectionEnded(b)'
    BY <2>1 DEF ConnectionEnded, TypeOK
  <2> QED
    BY <2>1, <2>2, <2>3 DEF SentIsAccountedFor
<1>25. ASSUME NEW c \in Conns, ReadData(c)
      PROVE  SentIsAccountedFor'
  <2>1. /\ c2s[c] # <<>> /\ Consume(c) /\ busy[c] = None
        /\ busy' = [busy EXCEPT ![c] = Head(c2s[c]).batch]
        /\ UNCHANGED <<pc, using, processed, serverEnd>>
    BY <1>25 DEF ReadData, MayRead
  <2>2. \A d \in Conns, b \in Batches :
          DataIn(d, b) => DataIn(d, b)' \/ busy'[c] = b
    BY <2>1, DataStays DEF TypeOK
  <2>3. \A d \in Conns, b \in Batches : busy[d] = b => busy'[d] = b
    BY <2>1, AgentLinkAssumption DEF TypeOK
  <2> QED
    BY <2>1, <2>2, <2>3 DEF SentIsAccountedFor, ConnectionEnded
<1>26. ASSUME NEW c \in Conns, ReadGarbage(c)
      PROVE  SentIsAccountedFor'
  BY <1>26 DEF ReadGarbage, MayRead, TypeOK, Wiring, InOnePlace, NothingCut,
     SentIsAccountedFor, ConnectionEnded, DataIn, Whole
<1>27. ASSUME NEW c \in Conns, ReadPing(c)
      PROVE  SentIsAccountedFor'
  <2>1. /\ c2s[c] # <<>> /\ Consume(c) /\ Head(c2s[c]).type # "data"
        /\ UNCHANGED <<pc, using, processed, busy, serverEnd>>
    BY <1>27 DEF ReadPing, MayRead
  <2>2. \A d \in Conns, b \in Batches : DataIn(d, b) => DataIn(d, b)'
    BY <2>1, DataStays
  <2> QED
    BY <2>1, <2>2 DEF SentIsAccountedFor, ConnectionEnded
<1>28. ASSUME NEW c \in Conns, FinishBatch(c)
      PROVE  SentIsAccountedFor'
  <2>1. /\ busy[c] \in Batches
        /\ processed' = [processed EXCEPT ![busy[c]] = @ + 1]
        /\ busy' = [busy EXCEPT ![c] = None]
        /\ UNCHANGED <<pc, using, serverEnd, c2s>>
    BY <1>28 DEF FinishBatch, TypeOK
  <2>2. processed[busy[c]] = 0
    BY <2>1 DEF InOnePlace
  <2>3. processed'[busy[c]] = 1 /\ \A b \in Batches : b # busy[c] => processed'[b] = processed[b]
    BY <2>1, <2>2 DEF TypeOK
  <2>4. \A d \in Conns, b \in Batches : busy[d] = b /\ b # busy[c] => busy'[d] = b
    BY <2>1 DEF TypeOK
  <2> QED
    BY <2>1, <2>3, <2>4 DEF SentIsAccountedFor, ConnectionEnded, DataIn
<1>29. ASSUME NEW c \in Conns, ServerCloses(c)
      PROVE  SentIsAccountedFor'
  <2>1. /\ \A d \in Conns : d # c => c2s'[d] = c2s[d] /\ serverEnd'[d] = serverEnd[d]
        /\ serverEnd'[c] = "closed"
        /\ UNCHANGED <<pc, using, processed, busy>>
    BY <1>29 DEF ServerCloses, TypeOK
  <2>2. ASSUME NEW b \in Batches, pc[b] = "sent", NEW d \in Conns, DataIn(d, b)
        PROVE  DataIn(d, b)' \/ ConnectionEnded(b)'
    BY <2>1, <2>2, DataBelongs, AgentLinkAssumption DEF DataIn, ConnectionEnded
  <2>3. \A b \in Batches : ConnectionEnded(b) => ConnectionEnded(b)'
    BY <2>1 DEF ConnectionEnded, TypeOK
  <2> QED
    BY <2>1, <2>2, <2>3 DEF SentIsAccountedFor
<1>30. CASE KeyArrives
  BY <1>30 DEF KeyArrives, TypeOK, Wiring, InOnePlace, NothingCut,
     SentIsAccountedFor, ConnectionEnded, DataIn, Whole
<1>31. CASE WorkerRestart
  BY <1>31 DEF WorkerRestart, TypeOK, Wiring, InOnePlace, NothingCut,
     SentIsAccountedFor, ConnectionEnded, DataIn, Whole
<1>32. CASE UNCHANGED vars
  BY <1>32 DEF vars, TypeOK, Wiring, InOnePlace, NothingCut, SentIsAccountedFor,
     ConnectionEnded, DataIn, Whole
<1> QED
  BY <1>1, <1>2, <1>3, <1>4, <1>5, <1>6, <1>7, <1>8, <1>9, <1>10, <1>11, <1>12,
     <1>13, <1>14, <1>15, <1>16, <1>17, <1>18, <1>19, <1>20, <1>21, <1>22, <1>23,
     <1>24, <1>25, <1>26, <1>27, <1>28, <1>29, <1>30, <1>31, <1>32 DEF Next

(* If no write deadline expires, a batch that sendBatch reports as sent is    *)
(* processed, being processed or on its way, or its connection has ended      *)
(* (AgentLink.SentIsAccountedFor): the worker drops nothing it was given.     *)
THEOREM SentAccounted ==
  ASSUME ~ Stalls
  PROVE  Spec => []SentIsAccountedFor
<1>1. Init => NothingCut /\ SentIsAccountedFor
  <2> SUFFICES ASSUME Init
               PROVE  NothingCut /\ SentIsAccountedFor
    OBVIOUS
  <2>1. \A c \in Conns : 1..Len(c2s[c]) = {}
    BY DEF Init
  <2>2. \A b \in Batches : pc[b] # "sent"
    BY DEF Init
  <2> QED
    BY <2>1, <2>2 DEF NothingCut, SentIsAccountedFor
<1>2. TypeWiring /\ NothingCut /\ [Next]_vars => NothingCut'
  BY NothingCutNext
<1>3. TypeWiring /\ InOnePlace /\ NothingCut /\ SentIsAccountedFor /\ [Next]_vars
        => SentIsAccountedFor'
  BY AccountedNext
<1> QED
  BY <1>1, <1>2, <1>3, TypeWiringInit, TypeWiringNext, InOnePlaceInit,
     InOnePlaceNext, PTL
     DEF Spec
=============================================================================
