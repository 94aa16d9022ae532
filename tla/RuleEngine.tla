----------------------------- MODULE RuleEngine -----------------------------
(***************************************************************************)
(* The rule engine of a worker: evaluateData goes through the active rules *)
(* in their order, counts what a threshold rule matches per group, and     *)
(* returns at the first rule that triggers.                                *)
(*                                                                         *)
(* The content of a record is a member of Events.  The conditions of a     *)
(* rule, all of which must hold, are the set of events they hold for; its  *)
(* group_by gives every event a key.  No collector puts a timestamp beside *)
(* `type` and `metadata`, so the time of a record is the time at which the *)
(* worker handles it (parser.js:23); `at` is when it happened, which only  *)
(* the properties know.                                                    *)
(***************************************************************************)
EXTENDS Integers, Sequences, FiniteSets

CONSTANTS
  Rules, Events, Keys, None,
  Matches,    \* the events the conditions of a rule hold for
  KeyOf,      \* the group key of a rule for an event
  Threshold,  \* count and window_seconds of a rule, or None
  RuleLists,  \* what RULES may bring: lists of enabled rules, rule_id unique
  MaxDelay,   \* bound: time between an event and its handling
  MaxClock,   \* bound: the clock
  MaxSeen     \* bound: events of a key that the properties remember

ASSUME RuleEngineAssumption ==
  /\ Matches \in [Rules -> SUBSET Events]
  /\ KeyOf \in [Rules -> [Events -> Keys]]
  /\ Threshold \in [Rules -> {None} \cup [count : Nat \ {0}, window : Nat]]
  /\ RuleLists \subseteq Seq(Rules)
  /\ \A list \in RuleLists : \A i, j \in 1..Len(list) : list[i] = list[j] => i = j
  /\ None \notin [count : Nat \ {0}, window : Nat] \cup [count : Nat, firstSeen : Int]
  /\ None \notin Rules
  /\ MaxDelay \in Nat /\ MaxClock \in Nat /\ MaxSeen \in Nat

VARIABLES
  activeRules,     \* activeRules of parser.js
  thresholdCache,  \* [rule -> [key -> entry]]
  clock,           \* Date.now()
  triggered,       \* what the last evaluateData returned: a rule or None
  seen,            \* history: [rule -> [key -> matching events]] since the
                   \* last alert, inside the rule's window
  evidence         \* history: `seen` of the rule that triggered

vars == <<activeRules, thresholdCache, clock, triggered, seen, evidence>>

Entries == [count : Nat, firstSeen : Int]
Seen == [at : Int, handled : Int]

(* What a counter may stand at: the alert removes it.  A reset after an     *)
(* expiry leaves 1, whatever the threshold.                                 *)
Pending(r) == {1} \cup 1..(Threshold[r].count - 1)

TypeOK ==
  /\ activeRules \in RuleLists \cup {<<>>}
  /\ thresholdCache \in [Rules -> [Keys -> Entries \cup {None}]]
  /\ \A r \in Rules : \A k \in Keys :
       thresholdCache[r][k] # None => thresholdCache[r][k].count \in Pending(r)
  /\ clock \in 0..MaxClock
  /\ triggered \in Rules \cup {None}
  /\ seen \in [Rules -> [Keys -> Seq(Seen)]]
  /\ evidence \in Seq(Seen)

Init ==
  /\ activeRules = <<>>
  /\ thresholdCache = [r \in Rules |-> [k \in Keys |-> None]]
  /\ clock = 0 /\ triggered = None
  /\ seen = [r \in Rules |-> [k \in Keys |-> <<>>]]
  /\ evidence = <<>>

-----------------------------------------------------------------------------
(* checkThreshold: the entry of the group after this record, ...           *)
FirstSeenMoves(r, k) ==                                    \* mutant
  IF thresholdCache[r][k] = None THEN [count |-> 1, firstSeen |-> clock]
  ELSE [count |-> thresholdCache[r][k].count + 1, firstSeen |-> clock]
Counted(r, k) ==
  IF thresholdCache[r][k] = None THEN [count |-> 1, firstSeen |-> clock]
  ELSE [thresholdCache[r][k] EXCEPT !.count = @ + 1]

(* ... whether its window has passed, whether it reaches the threshold ... *)
Expired(r, k) == clock - Counted(r, k).firstSeen > Threshold[r].window
OneTooMany(r, k) ==                                        \* mutant
  ~ Expired(r, k) /\ Counted(r, k).count > Threshold[r].count
Reached(r, k) == ~ Expired(r, k) /\ Counted(r, k).count >= Threshold[r].count

(* ... and what checkThreshold leaves in the cache.                        *)
EntryKept(r, k) == Counted(r, k)                           \* mutant
EntryAfter(r, k) ==
  CASE Expired(r, k) -> [count |-> 1, firstSeen |-> clock]
    [] Reached(r, k) -> None
    [] OTHER         -> Counted(r, k)

Triggers(r, e) ==
  /\ e \in Matches[r]
  /\ Threshold[r] = None \/ Reached(r, KeyOf[r][e])

(* The rules that evaluateData reaches: it returns at the first trigger.   *)
ReachedRules(e) ==
  {activeRules[i] : i \in {i \in 1..Len(activeRules) :
     \A j \in 1..(i - 1) : ~ Triggers(activeRules[j], e)}}
TriggeredRule(e) ==
  IF \E r \in ReachedRules(e) : Triggers(r, e)
  THEN CHOOSE r \in ReachedRules(e) : Triggers(r, e)
  ELSE None

-----------------------------------------------------------------------------
Active(list) == {list[i] : i \in 1..Len(list)}
SeenNow(r, k, e, at) ==
  IF r \in Active(activeRules) /\ e \in Matches[r] /\ KeyOf[r][e] = k /\ Threshold[r] # None
  THEN Append(seen[r][k], [at |-> at, handled |-> clock])
  ELSE seen[r][k]
(* What is left of s, which is in the order of handling: the events of the  *)
(* window.                                                                  *)
InWindow(r, s, now) ==
  LET old == {i \in 1..Len(s) : now - s[i].handled > Threshold[r].window}
  IN  SubSeq(s, Cardinality(old) + 1, Len(s))

(* evaluateData *)
Evaluate(e, at) ==
  /\ activeRules # <<>>
  /\ \A r \in Rules, k \in Keys : Len(seen[r][k]) < MaxSeen
  /\ LET hit == TriggeredRule(e)
         counting == {r \in ReachedRules(e) : e \in Matches[r] /\ Threshold[r] # None}
     IN
       /\ triggered' = hit
       /\ evidence' = IF hit = None THEN <<>> ELSE SeenNow(hit, KeyOf[hit][e], e, at)
       /\ seen' = [r \in Rules |-> [k \in Keys |->
                     IF r = hit /\ k = KeyOf[r][e] THEN <<>> ELSE SeenNow(r, k, e, at)]]
       /\ thresholdCache' = [r \in Rules |-> [k \in Keys |->
            IF r \in counting /\ k = KeyOf[r][e]
            THEN EntryAfter(r, k) ELSE thresholdCache[r][k]]]
  /\ UNCHANGED <<activeRules, clock>>

(* RULES: parseRule replaces the list; the counters stay.                  *)
LoadRules(list) ==
  /\ list # activeRules
  /\ activeRules' = list
  /\ triggered' = None /\ evidence' = <<>>
  /\ UNCHANGED <<thresholdCache, clock, seen>>

(* The worker is restarted, or the agent's connection moves to another     *)
(* worker: the counters are in the RAM of one process.                     *)
Restart ==
  /\ activeRules' = <<>>
  /\ thresholdCache' = [r \in Rules |-> [k \in Keys |-> None]]
  /\ seen' = [r \in Rules |-> [k \in Keys |-> <<>>]]
  /\ triggered' = None /\ evidence' = <<>>
  /\ UNCHANGED clock

Tick ==
  /\ clock < MaxClock
  /\ clock' = clock + 1
  /\ seen' = [r \in Rules |-> [k \in Keys |-> InWindow(r, seen[r][k], clock + 1)]]
  /\ triggered' = None /\ evidence' = <<>>
  /\ UNCHANGED <<activeRules, thresholdCache>>

Next ==
  \/ \E e \in Events : \E at \in (clock - MaxDelay)..clock : Evaluate(e, at)
  \/ \E list \in RuleLists : LoadRules(list)
  \/ Restart \/ Tick

Spec == Init /\ [][Next]_vars

-----------------------------------------------------------------------------
(* An alert of a threshold rule rests on as many events of one group as the *)
(* rule asks for, none of them used by an earlier alert, that happened      *)
(* within its window, give or take the delay of their delivery              *)
(* (ruleMatcher.js:91-115): no alert by a counter that should have been     *)
(* reset.                                                                   *)
AlertJustified ==
  triggered # None /\ Threshold[triggered] # None =>
    /\ Len(evidence) >= Threshold[triggered].count
    /\ \A i, j \in 1..Len(evidence) :
         evidence[i].at - evidence[j].at <= Threshold[triggered].window + MaxDelay

(* What a burst is that the engine is bound to report.  Windows start at    *)
(* the first event after the last alert or the last expiry and do not       *)
(* slide: count - 1 events may fall into the window before, hence           *)
(* 2 * count - 2 where count would do for a sliding window.                 *)
Burst(r, k) ==
  \E i \in 1..Len(seen[r][k]) :
    LET last == Len(seen[r][k])
        size == IF Threshold[r].count = 1 THEN 1 ELSE 2 * Threshold[r].count - 2
    IN  /\ last - i + 1 >= size
        /\ seen[r][k][last].handled - seen[r][k][i].handled <= Threshold[r].window

(* No rule placed before r in the list has an event in common with it.      *)
Unshadowed(r) ==
  \A list \in RuleLists : \A i, j \in 1..Len(list) :
    i < j /\ list[j] = r => Matches[list[i]] \cap Matches[r] = {}

(* No burst goes by without an alert of an unshadowed rule                  *)
(* (ruleMatcher.js:104-115), whatever rules are loaded in the meantime.     *)
BurstDetected ==
  \A r \in Rules : \A k \in Keys :
    Threshold[r] # None /\ Unshadowed(r) => ~ Burst(r, k)

(* evaluateData returns the alerts triggered (ruleMatcher.js:123), going    *)
(* through every rule (ruleMatcher.js:130): no burst goes by without an     *)
(* alert, of whatever rule.                                                 *)
EveryBurstDetected ==
  \A r \in Rules : \A k \in Keys : Threshold[r] # None => ~ Burst(r, k)
=============================================================================
