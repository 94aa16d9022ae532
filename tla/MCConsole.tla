------------------------------ MODULE MCConsole ------------------------------
(* An instance of Console for TLC: a list of two packages and a log line on *)
(* one connection, or a severe alert on a connection and a log line on the  *)
(* one that follows it; a dashboard of the agent's owner, or of another.    *)
EXTENDS Console

CONSTANTS c1, agent, file, package1, package2, login, me, them, page

OneAgent == c1 :> agent
ListAndLog ==
  c1 :> <<[software |-> TRUE, items |-> <<package1, package2>>],
          [software |-> FALSE, items |-> <<login>>]>>
SevereAlert == c1 :> <<[software |-> FALSE, items |-> <<file>>]>>
NoBatch == c1 :> <<>>
SomeBatches == {ListAndLog, SevereAlert, NoBatch}
SomeAlerts ==
  file :> "high" @@ package1 :> "low" @@ package2 :> "none" @@ login :> "none"
EitherOwner == {agent :> me, agent :> them}
MyPage == page :> me

(* Of the page of somebody else, the case with every type of message.       *)
InstanceInit == Init /\ (owner[agent] = them => batch = SevereAlert)
InstanceSpec == InstanceInit /\ [][Next]_vars /\ Fairness
=============================================================================
