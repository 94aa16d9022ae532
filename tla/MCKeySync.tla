------------------------------ MODULE MCKeySync ------------------------------
(* Instances of KeySync for TLC: two worker processes, whose Worker1        *)
(* variables differ, or are the one value of a shared .env file.            *)
EXTENDS KeySync, TLC

CONSTANTS w1, w2, n1, n2

OwnNames    == w1 :> n1 @@ w2 :> n2
SharedNames == w1 :> n1 @@ w2 :> n1
OneWorker   == w1 :> n1

(* Agents are interchangeable; so are sockets until they are used. *)
Symmetric == Permutations(Agents) \cup Permutations(Sockets)
=============================================================================
