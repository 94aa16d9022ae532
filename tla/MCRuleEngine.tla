---------------------------- MODULE MCRuleEngine ----------------------------
(* Instances of RuleEngine for TLC. *)
EXTENDS RuleEngine, TLC

CONSTANTS single, brute, scan, login, connect, both, k1

(* A rule without threshold, then two with one that share the event `both`. *)
ThreeRules == {single, brute, scan}
ThreeEvents == {login, connect, both}
ThreeMatches == single :> {connect} @@ brute :> {login, both} @@ scan :> {both}
ThreeKeys == {k1}
ThreeKeyOf == [r \in ThreeRules |-> [e \in ThreeEvents |-> k1]]
ThreeThresholds ==
  single :> None @@ brute :> [count |-> 3, window |-> 2]
                 @@ scan :> [count |-> 2, window |-> 1]
ThreeLists == {<<single, brute, scan>>, <<brute>>, <<>>}

(* Rules 4001 and 4002 of demo_rule.json: a failed login is an event of its *)
(* own, and several from one address are an attack.                         *)
DemoRules == {single, brute}
DemoEvents == {login}
DemoMatches == [r \in DemoRules |-> {login}]
DemoKeys == {k1}
DemoKeyOf == [r \in DemoRules |-> [e \in DemoEvents |-> k1]]
DemoThresholds == single :> None @@ brute :> [count |-> 3, window |-> 2]
DemoLists == {<<single, brute>>}
=============================================================================
