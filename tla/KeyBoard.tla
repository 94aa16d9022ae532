------------------------------ MODULE KeyBoard ------------------------------
(***************************************************************************)
(* What key distribution promises, without queries, queues or handlers: a  *)
(* notice board per synchronised connection of a worker.  Joining shows    *)
(* the board every agent that is served; admitting an agent puts it on     *)
(* all boards at once; nothing is ever taken off the board of a member.    *)
(* KeySync implements this (KeySync!ImplementsKeyBoard).                   *)
(***************************************************************************)
CONSTANTS
  Agents,       \* agent ids
  Sockets       \* connections of workers

VARIABLES
  served,       \* agents that were answered 200 and still exist
  members,      \* the connections key distribution takes care of
  board         \* the keys of each member; {} for the others

vars == <<served, members, board>>

Init ==
  /\ served = {}
  /\ members = {}
  /\ board = [s \in Sockets |-> {}]

(* The handshake of an agent is answered: all members get its key.  The    *)
(* agent may have been deleted in the meantime.                            *)
Admit(a) ==
  /\ served' \in {served, served \cup {a}}
  /\ board' = [s \in Sockets |-> IF s \in members THEN board[s] \cup {a} ELSE {}]
  /\ UNCHANGED members

(* An agent is deleted; the workers are not told. *)
Withdraw(a) ==
  /\ served' = served \ {a}
  /\ UNCHANGED <<members, board>>

(* A registration is complete: its worker misses no agent that is served. *)
Join(s) ==
  /\ s \notin members
  /\ members' = members \cup {s}
  /\ \E keys \in SUBSET Agents :
       served \subseteq keys /\ board' = [board EXCEPT ![s] = keys]
  /\ UNCHANGED served

(* Connections end, are displaced from the directory, or die with their    *)
(* worker or the master.                                                   *)
Leave(S) ==
  /\ members' = members \ S
  /\ board' = [s \in Sockets |-> IF s \in S THEN {} ELSE board[s]]
  /\ UNCHANGED served

Next ==
  \/ \E a \in Agents : Admit(a) \/ Withdraw(a)
  \/ \E s \in Sockets : Join(s)
  \/ \E S \in SUBSET members : Leave(S)

Spec == Init /\ [][Next]_vars
=============================================================================
