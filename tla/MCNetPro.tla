------------------------------ MODULE MCNetPro ------------------------------
(* An instance of NetPro for TLC: a connection made, one accepted, a        *)
(* datagram socket, an IPv6 socket and a process use every hook.            *)
EXTENDS NetPro

CONSTANTS first, second

Local == <<10, 0, 0, 7>>
Remote == <<8, 8, 4, 4>>
IPv4Sock(a) == [family |-> 2, rcv_saddr |-> Local, daddr |-> a]
IPv6Sock == [family |-> 10, rcv_saddr |-> Local, daddr |-> Remote]

Connects ==
  (first :> <<[hook |-> "tcp_set_state", sk |-> IPv4Sock(Remote), newstate |-> 2],
              [hook |-> "tcp_connect", sk |-> IPv4Sock(Remote)]>>)
  @@
  (second :> <<[hook |-> "udp_sendmsg", sk |-> IPv4Sock(<<0, 0, 0, 0>>)],
               [hook |-> "udp_recvmsg", sk |-> IPv4Sock(Remote)]>>)

Accepts ==
  (first :> <<[hook |-> "inet_csk_accept", sk |-> None],
              [hook |-> "inet_csk_accept", sk |-> IPv4Sock(Remote)]>>)
  @@
  (second :> <<[hook |-> "sched_process_fork", comm |-> "bash"]>>)

Executes ==
  (first :> <<[hook |-> "tcp_set_state", sk |-> IPv6Sock, newstate |-> 7]>>)
  @@
  (second :> <<[hook |-> "sched_process_fork", comm |-> "bash"],
               [hook |-> "sys_enter_execve", comm |-> "bash", filename |-> "/bin/nc"],
               [hook |-> "sched_process_exit", comm |-> "nc"]>>)

AllHooks == {Connects, Accepts, Executes}
=============================================================================
