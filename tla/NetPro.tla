------------------------------- MODULE NetPro -------------------------------
(***************************************************************************)
(* The network and process collector: eBPF programs on every CPU put       *)
(* records into one ring buffer (netpro.bpf.c); `ecli` prints them as JSON  *)
(* lines; a Go program rewrites each line and sends it over a Unix socket   *)
(* (NetProCollector/main.go); agentCollector gathers what all collectors    *)
(* send into batches (agentCollector/main.go:109-118, 221-261).             *)
(*                                                                         *)
(* The kernel calls the hooked functions in an order the programs do not   *)
(* control.  An object is a socket or a process; `calls` gives the calls   *)
(* that concern it, which are made one after the other, on any CPU.        *)
(* Calls of different objects overlap.  A record is named by its object and *)
(* the number of the call, <<o, i>>; what it contains is computed from the  *)
(* call.  Lines of ecli that are no record are skipped and left out.        *)
(***************************************************************************)
EXTENDS Integers, Sequences, FiniteSets, SequencesExt

CONSTANTS
  Cpus, Objects, None,
  Scripts,    \* what the kernel may do: for each object, its hooked calls in order
  Slots,      \* records the ring buffer `rb` holds
  PipeSize,   \* lines in the stdout pipe of ecli
  BufSize,    \* lines in the buffer of the Unix connection
  ChanSize,   \* messages in dataCh
  MaxStops    \* bound: how often agentCollector stops

(* struct sock, as far as it is read: addresses are four bytes in the      *)
(* order in which they go over the wire.                                   *)
Byte == 0..255
Sock == [family : {2, 10}, rcv_saddr : [1..4 -> Byte], daddr : [1..4 -> Byte]]
Call ==
       [hook : {"tcp_set_state"}, sk : Sock, newstate : 1..12]
  \cup [hook : {"tcp_connect", "udp_sendmsg", "udp_recvmsg"}, sk : Sock]
  \cup [hook : {"inet_csk_accept"}, sk : Sock \cup {None}]
  \cup [hook : {"sched_process_fork", "sched_process_exit"}, comm : STRING]
  \cup [hook : {"sys_enter_execve"}, comm : STRING, filename : STRING]

ASSUME NetProAssumption ==
  /\ None \notin Objects \X Nat
  /\ \A script \in Scripts : DOMAIN script = Objects
  /\ \A script \in Scripts, o \in Objects : script[o] \in Seq(Call)
  /\ \A n \in {Slots, PipeSize, BufSize, ChanSize} : n \in Nat \ {0}
  /\ MaxStops \in Nat

VARIABLES
  calls,    \* the script of this run
  made,     \* number of calls made about each object
  cpu,      \* the record a program on this CPU has reserved, not submitted
  ring,     \* rb: reserved records, oldest first, and whether submitted
  ecli,     \* "off", "on", "ended"
  pipe,     \* its lines that are not read yet
  go,       \* NetProCollector: "dialing", "scan", "send", "redial", "ended"
  line,     \* the record it is about to send
  agent,    \* is agentCollector "up" or "down"
  conn,     \* the Unix connection: "none", "open", "broken"
  buffer,   \* lines written to it
  dataCh, batch,
  handed,   \* records given to sendBatch, in that order
  stops,
  dropped,  \* history: records for which the ring had no room
  lost      \* history: records lost with ecli or agentCollector

kernelVars    == <<calls, made, cpu, ring, dropped>>
collectorVars == <<ecli, pipe, go, line>>
agentVars     == <<agent, conn, buffer, dataCh, batch, handed, stops>>
vars          == <<kernelVars, collectorVars, agentVars, lost>>

Records == UNION {{o} \X DOMAIN script[o] : o \in Objects, script \in Scripts}
CallOf(id) == calls[id[1]][id[2]]

TypeOK ==
  /\ calls \in Scripts
  /\ made \in [Objects -> Nat] /\ \A o \in Objects : made[o] <= Len(calls[o])
  /\ cpu \in [Cpus -> Records \cup {None}]
  /\ ring \in Seq([id : Records, submitted : BOOLEAN]) /\ Len(ring) <= Slots
  /\ ecli \in {"off", "on", "ended"}
  /\ pipe \in Seq(Records) /\ Len(pipe) <= PipeSize
  /\ go \in {"dialing", "scan", "send", "redial", "ended"}
  /\ line \in Records \cup {None} /\ (line # None <=> go \in {"send", "redial"})
  /\ agent \in {"up", "down"} /\ conn \in {"none", "open", "broken"}
  /\ buffer \in Seq(Records) /\ Len(buffer) <= BufSize
  /\ dataCh \in Seq(Records) /\ Len(dataCh) <= ChanSize
  /\ batch \in Seq(Records) /\ handed \in Seq(Records)
  /\ stops \in 0..MaxStops
  /\ dropped \in SUBSET Records /\ lost \in SUBSET Records

Init ==
  /\ calls \in Scripts
  /\ made = [o \in Objects |-> 0]
  /\ cpu = [c \in Cpus |-> None]
  /\ ring = <<>> /\ dropped = {}
  /\ ecli = "off" /\ pipe = <<>>
  /\ go = "dialing" /\ line = None
  /\ agent \in {"up", "down"} /\ conn = "none"
  /\ buffer = <<>> /\ dataCh = <<>> /\ batch = <<>> /\ handed = <<>>
  /\ stops = 0 /\ lost = {}

-----------------------------------------------------------------------------
(* What the programs write into a record.                                  *)
AF_INET == 2
event_type ==
  [EV_TCP_CONNECT |-> 0, EV_TCP_ACCEPT |-> 1, EV_TCP_STATE |-> 2, EV_UDP_SEND |-> 3,
   EV_UDP_RECV |-> 4, EV_PROC_FORK |-> 5, EV_PROC_EXEC |-> 6, EV_PROC_EXIT |-> 7]

Unset == [type |-> 0, family |-> 0, saddr |-> 0, daddr |-> 0, protocol |-> 0,
          state |-> 0, comm |-> "an older record", filename |-> ""]   \* mutant
Zeroed == [type |-> 0, family |-> 0, saddr |-> 0, daddr |-> 0, protocol |-> 0,
           state |-> 0, comm |-> "", filename |-> ""]

(* A __be32 read as a number by a little-endian CPU. *)
Load32(b) == b[1] + 256 * b[2] + 65536 * b[3] + 16777216 * b[4]

fill_net_info(e, sk) ==
  [e EXCEPT !.family = sk.family, !.saddr = Load32(sk.rcv_saddr),
            !.daddr = Load32(sk.daddr)]

NetRecord(type, protocol, state, sk) ==
  fill_net_info([Zeroed EXCEPT !.type = event_type[type], !.protocol = protocol,
                               !.state = state], sk)

Event(call) ==
  CASE call.hook = "tcp_set_state"   -> NetRecord("EV_TCP_STATE", 6, call.newstate, call.sk)
    [] call.hook = "tcp_connect"     -> NetRecord("EV_TCP_CONNECT", 6, 2, call.sk)
    [] call.hook = "inet_csk_accept" -> NetRecord("EV_TCP_ACCEPT", 6, 1, call.sk)
    [] call.hook = "udp_sendmsg"     -> NetRecord("EV_UDP_SEND", 17, 0, call.sk)
    [] call.hook = "udp_recvmsg"     -> NetRecord("EV_UDP_RECV", 17, 0, call.sk)
    [] call.hook = "sched_process_fork" ->
         [Zeroed EXCEPT !.type = event_type["EV_PROC_FORK"], !.comm = call.comm]
    [] call.hook = "sys_enter_execve" ->
         [Zeroed EXCEPT !.type = event_type["EV_PROC_EXEC"], !.comm = call.comm,
                        !.filename = call.filename]
    [] call.hook = "sched_process_exit" ->
         [Zeroed EXCEPT !.type = event_type["EV_PROC_EXIT"], !.comm = call.comm]

(* The early returns before the reservation: sockets that are not IPv4, an  *)
(* accept that failed.                                                      *)
AboutASocket(call) == "sk" \in DOMAIN call
Traced(call) == AboutASocket(call) => call.sk # None /\ call.sk.family = AF_INET

(* What the Go program makes of it: absent fields are deleted ones.        *)
EventNames == <<"TCP_CONNECT", "TCP_ACCEPT", "TCP_STATE", "UDP_SEND", "UDP_RECV",
                "PROC_FORK", "PROC_EXEC", "PROC_EXIT">>
StateNames == <<"ESTABLISHED", "SYN_SENT", "SYN_RECV", "FIN_WAIT1", "FIN_WAIT2",
                "TIME_WAIT", "CLOSE", "CLOSE_WAIT", "LAST_ACK", "LISTEN", "CLOSING",
                "NEW_SYN_RECV">>
StateOfAll(e) == e.state \in 1..12                                    \* mutant
HasState(e) == EventNames[e.type + 1] = "TCP_STATE" /\ e.state \in 1..12

(* binary.BigEndian.PutUint32 *)
PutUint32(n) == <<n \div 16777216, (n \div 65536) % 256, (n \div 256) % 256, n % 256>>

Metadata(e) ==
  LET all == [event    |-> EventNames[e.type + 1],
              protocol |-> IF e.protocol = 6 THEN "TCP" ELSE "UDP",
              family   |-> IF e.family = 2 THEN "IPv4" ELSE "IPv6",
              state    |-> IF e.state \in 1..12 THEN StateNames[e.state] ELSE "",
              src_ip   |-> PutUint32(e.saddr),
              dst_ip   |-> PutUint32(e.daddr),
              comm     |-> e.comm,
              filename |-> e.filename]
      absent == {f \in DOMAIN all :
                   \/ f = "protocol" /\ e.protocol \notin {6, 17}
                   \/ f = "family" /\ e.family \notin {2, 10}
                   \/ f = "state" /\ ~ HasState(e)
                   \/ f = "src_ip" /\ e.saddr = 0
                   \/ f = "dst_ip" /\ e.daddr = 0
                   \/ f = "comm" /\ e.comm = ""
                   \/ f = "filename" /\ e.filename = ""}
  IN  [f \in DOMAIN all \ absent |-> all[f]]

-----------------------------------------------------------------------------
(* A hooked function is called: the program returns early, finds no room   *)
(* (`if (!e) return 0`), or reserves its record.                           *)
RingFullLate == Len(ring) > Slots                                     \* mutant
RingFull == Len(ring) >= Slots
Busy(o) == \E c \in Cpus : cpu[c] # None /\ cpu[c][1] = o

Called(c, o) ==
  /\ ecli = "on" /\ cpu[c] = None /\ ~ Busy(o)
  /\ made[o] < Len(calls[o])
  /\ made' = [made EXCEPT ![o] = @ + 1]

Skipped(c, o) ==
  /\ Called(c, o)
  /\ ~ Traced(calls[o][made[o] + 1])
  /\ UNCHANGED <<calls, cpu, ring, dropped, collectorVars, agentVars, lost>>

NoRoom(c, o) ==
  /\ Called(c, o)
  /\ Traced(calls[o][made[o] + 1])
  /\ RingFull
  /\ dropped' = dropped \cup {<<o, made[o] + 1>>}
  /\ UNCHANGED <<calls, cpu, ring, collectorVars, agentVars, lost>>

Reserve(c, o) ==
  /\ Called(c, o)
  /\ Traced(calls[o][made[o] + 1])
  /\ ~ RingFull
  /\ cpu' = [cpu EXCEPT ![c] = <<o, made[o] + 1>>]
  /\ ring' = Append(ring, [id |-> <<o, made[o] + 1>>, submitted |-> FALSE])
  /\ UNCHANGED <<calls, dropped, collectorVars, agentVars, lost>>

(* bpf_ringbuf_submit *)
Submit(c) ==
  /\ cpu[c] # None
  /\ cpu' = [cpu EXCEPT ![c] = None]
  /\ ring' = [i \in DOMAIN ring |->
                IF ring[i].id = cpu[c] THEN [ring[i] EXCEPT !.submitted = TRUE] ELSE ring[i]]
  /\ UNCHANGED <<calls, made, dropped, collectorVars, agentVars, lost>>

(* ecli consumes the ring in order, up to the first record that is not     *)
(* submitted; it waits while the pipe is full.                             *)
EcliPrint ==
  /\ ecli = "on" /\ ring # <<>> /\ Head(ring).submitted
  /\ Len(pipe) < PipeSize
  /\ pipe' = Append(pipe, Head(ring).id)
  /\ ring' = Tail(ring)
  /\ UNCHANGED <<calls, made, cpu, dropped, ecli, go, line, agentVars, lost>>

(* ecli dies: its programs are detached and the ring is freed. *)
EcliEnds ==
  /\ ecli = "on"
  /\ ecli' = "ended"
  /\ lost' = lost \cup {ring[i].id : i \in DOMAIN ring}
  /\ ring' = <<>>
  /\ cpu' = [c \in Cpus |-> None]
  /\ UNCHANGED <<calls, made, dropped, pipe, go, line, agentVars>>

-----------------------------------------------------------------------------
(* main: dial until agentCollector listens, only then start ecli. *)
Start ==
  /\ go = "dialing" /\ agent = "up"
  /\ conn' = "open"
  /\ ecli' = "on"
  /\ go' = "scan"
  /\ UNCHANGED <<kernelVars, pipe, line, agent, buffer, dataCh, batch, handed,
                 stops, lost>>

Scan ==
  /\ go = "scan" /\ pipe # <<>>
  /\ line' = Head(pipe) /\ pipe' = Tail(pipe)
  /\ go' = "send"
  /\ UNCHANGED <<kernelVars, ecli, agentVars, lost>>

(* ecli has closed its end and every line is read: the collector is over. *)
ScanEnds ==
  /\ go = "scan" /\ pipe = <<>> /\ ecli = "ended"
  /\ go' = "ended"
  /\ conn' = "none"
  /\ UNCHANGED <<kernelVars, ecli, pipe, line, agent, buffer, dataCh, batch,
                 handed, stops, lost>>

Write ==
  /\ go = "send" /\ conn = "open" /\ Len(buffer) < BufSize
  /\ buffer' = Append(buffer, line)
  /\ line' = None
  /\ go' = "scan"
  /\ UNCHANGED <<kernelVars, ecli, pipe, agent, conn, dataCh, batch, handed,
                 stops, lost>>

(* conn.Write fails: sleep, close, dial. *)
WriteFails ==
  /\ go = "send" /\ conn = "broken"
  /\ conn' = "none"
  /\ go' = "redial"
  /\ UNCHANGED <<kernelVars, ecli, pipe, line, agent, buffer, dataCh, batch,
                 handed, stops, lost>>

(* Connected again: the loop writes the same line. *)
PutBack == go' = "scan" /\ line' = None /\ pipe' = Append(pipe, line) \* mutant
Forget  == go' = "scan" /\ line' = None /\ pipe' = pipe               \* mutant
SendAgain == go' = "send" /\ UNCHANGED <<line, pipe>>
Redial ==
  /\ go = "redial" /\ agent = "up"
  /\ conn' = "open"
  /\ SendAgain
  /\ UNCHANGED <<kernelVars, ecli, agent, buffer, dataCh, batch, handed, stops,
                 lost>>

-----------------------------------------------------------------------------
(* handleConnection of agentCollector: a line goes into the channel, which  *)
(* may be full.                                                             *)
ReadLine ==
  /\ agent = "up" /\ buffer # <<>> /\ Len(dataCh) < ChanSize
  /\ dataCh' = Append(dataCh, Head(buffer))
  /\ buffer' = Tail(buffer)
  /\ UNCHANGED <<kernelVars, collectorVars, agent, conn, batch, handed, stops, lost>>

(* dataProcessor: a message joins the batch; each second what there is goes *)
(* to a sendBatch.                                                          *)
Gather ==
  /\ agent = "up" /\ dataCh # <<>>
  /\ batch' = Append(batch, Head(dataCh))
  /\ dataCh' = Tail(dataCh)
  /\ UNCHANGED <<kernelVars, collectorVars, agent, conn, buffer, handed, stops, lost>>

BatchOfTwo == Len(batch) >= 2                                         \* mutant
BatchDue == Len(batch) > 0
HandOver ==
  /\ agent = "up" /\ BatchDue
  /\ handed' = handed \o batch
  /\ batch' = <<>>
  /\ UNCHANGED <<kernelVars, collectorVars, agent, conn, buffer, dataCh, stops, lost>>

(* agentCollector stops, or crashes, with what is in its memory. *)
AgentStops ==
  /\ agent = "up" /\ stops < MaxStops
  /\ agent' = "down"
  /\ stops' = stops + 1
  /\ conn' = IF conn = "open" THEN "broken" ELSE conn
  /\ lost' = lost \cup ToSet(buffer) \cup ToSet(dataCh) \cup ToSet(batch)
  /\ buffer' = <<>> /\ dataCh' = <<>> /\ batch' = <<>>
  /\ UNCHANGED <<kernelVars, collectorVars, handed>>

AgentStarts ==
  /\ agent = "down"
  /\ agent' = "up"
  /\ UNCHANGED <<kernelVars, collectorVars, conn, buffer, dataCh, batch, handed,
                 stops, lost>>

-----------------------------------------------------------------------------
Next ==
  \/ \E c \in Cpus, o \in Objects : Skipped(c, o) \/ NoRoom(c, o) \/ Reserve(c, o)
  \/ \E c \in Cpus : Submit(c)
  \/ EcliPrint \/ EcliEnds
  \/ Start \/ Scan \/ ScanEnds \/ Write \/ WriteFails \/ Redial
  \/ ReadLine \/ Gather \/ HandOver
  \/ AgentStops \/ AgentStarts

Spec == Init /\ [][Next]_vars

(* Programs run to their end, processes and goroutines run, the ticker     *)
(* ticks.  Nobody owes a call, a crash or a restart.                       *)
Fairness ==
  /\ \A c \in Cpus : WF_vars(Submit(c))
  /\ WF_vars(EcliPrint)
  /\ WF_vars(Start) /\ WF_vars(Scan) /\ WF_vars(ScanEnds)
  /\ WF_vars(Write) /\ WF_vars(WriteFails) /\ WF_vars(Redial)
  /\ WF_vars(ReadLine) /\ WF_vars(Gather) /\ WF_vars(HandOver)

FairSpec == Spec /\ Fairness

-----------------------------------------------------------------------------
(* The records on their way, the one that is furthest first. *)
OnTheWay ==
  batch \o dataCh \o buffer \o (IF line = None THEN <<>> ELSE <<line>>)
    \o pipe \o [i \in DOMAIN ring |-> ring[i].id]
Path == handed \o OnTheWay

(* The calls that were made and should be reported. *)
Observed ==
  {id \in Records : id[2] <= made[id[1]] /\ Traced(CallOf(id))}

(* Back pressure loses nothing: an observed call is in exactly one place,  *)
(* unless the ring was full when it was made, or it was in the memory of a *)
(* process that died (netpro.bpf.c:35-36, NetProCollector/main.go:192-209, *)
(* agentCollector/main.go:221-261): no retry doubles a record, and no full *)
(* pipe, buffer or channel drops one.                                      *)
Conserved ==
  /\ IsInjective(Path)
  /\ Observed = ToSet(Path) \cup dropped \cup lost
  /\ ToSet(Path) \cap (dropped \cup lost) = {} /\ dropped \cap lost = {}

(* Records of one socket or process stay in the order of its calls, across *)
(* CPUs, outages and retries: no exit before its fork, no close before its *)
(* connect.                                                                *)
InKernelOrder ==
  \A i, j \in DOMAIN Path :
    i < j /\ Path[i][1] = Path[j][1] => Path[i][2] < Path[j][2]

(* A connection attempt calls tcp_set_state(SYN_SENT) and tcp_connect, and *)
(* both records carry state 2.  The rules on connection attempts of        *)
(* demo_rule.json (3001 on state SYN_SENT, 3002 on event TCP_CONNECT) count *)
(* it once each, as main.go:121-153 keeps the state of TCP_STATE only.     *)
MetadataOf(id) == Metadata(Event(CallOf(id)))
Counts3001(m) == "state" \in DOMAIN m /\ m.state = "SYN_SENT"
Counts3002(m) == m.event = "TCP_CONNECT"
AttemptCountedOnce ==
  \A o \in Objects :
    LET sent == {i \in DOMAIN handed : handed[i][1] = o}
        by3001 == {i \in sent : Counts3001(MetadataOf(handed[i]))}
        by3002 == {i \in sent : Counts3002(MetadataOf(handed[i]))}
        opened == {n \in 1..made[o] :
                     calls[o][n].hook = "tcp_set_state" /\ calls[o][n].newstate = 2}
        attempts == {n \in 1..made[o] : calls[o][n].hook = "tcp_connect"}
    IN  /\ Cardinality(by3001) <= Cardinality(opened)
        /\ Cardinality(by3002) <= Cardinality(attempts)

(* What is sent describes its own call: the name of its event, its own     *)
(* command and file name and none of another record whose memory the ring  *)
(* reused (netpro.bpf.c:37), and one address for one peer.  On a            *)
(* little-endian machine the address is written back to front               *)
(* (main.go:156-168).                                                       *)
Describes(m, call) ==
  /\ m.event =
       CASE call.hook = "tcp_set_state" -> "TCP_STATE"
         [] call.hook = "tcp_connect" -> "TCP_CONNECT"
         [] call.hook = "inet_csk_accept" -> "TCP_ACCEPT"
         [] call.hook = "udp_sendmsg" -> "UDP_SEND"
         [] call.hook = "udp_recvmsg" -> "UDP_RECV"
         [] call.hook = "sched_process_fork" -> "PROC_FORK"
         [] call.hook = "sys_enter_execve" -> "PROC_EXEC"
         [] call.hook = "sched_process_exit" -> "PROC_EXIT"
  /\ "comm" \in DOMAIN m <=> "comm" \in DOMAIN call /\ call.comm # ""
  /\ "comm" \in DOMAIN m => m.comm = call.comm
  /\ "filename" \in DOMAIN m <=> "filename" \in DOMAIN call /\ call.filename # ""
  /\ "filename" \in DOMAIN m => m.filename = call.filename
  /\ "dst_ip" \in DOMAIN m <=> AboutASocket(call) /\ call.sk.daddr # <<0, 0, 0, 0>>
  /\ "dst_ip" \in DOMAIN m => m.dst_ip = Reverse(call.sk.daddr)
RecordsTruthful ==
  \A i \in DOMAIN handed : Describes(MetadataOf(handed[i]), CallOf(handed[i]))

(* Whatever was reserved is handed to a sendBatch in the end, or lost with *)
(* a process: the ring is never blocked by a record that nobody submits,   *)
(* and collector and agent do not wait for each other for ever, provided   *)
(* that agentCollector is started again (NetProCollector/main.go:192-209). *)
EventuallyHanded ==
  []<>(agent = "up") =>
    \A id \in Records : (id \in ToSet(OnTheWay)) ~> (id \in ToSet(handed) \cup lost)
=============================================================================
