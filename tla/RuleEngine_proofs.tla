------------------------- MODULE RuleEngine_proofs -------------------------
(* Proofs about RuleEngine, for any rules, rule lists, thresholds, windows   *)
(* and delays, and histories of any length.                                  *)
EXTENDS RuleEngine, FiniteSetTheorems, SequenceTheorems, TLAPS

(* What is seen of a group is in the order of handling, and of the window.   *)
InOrder(s, now, window) ==
  /\ \A i, j \in 1..Len(s) : i <= j => s[i].handled <= s[j].handled
  /\ \A i \in 1..Len(s) :
       /\ s[i].handled <= now /\ now - s[i].handled <= window
       /\ s[i].at <= s[i].handled /\ s[i].handled - s[i].at <= MaxDelay

(* A counter whose window lasts counts events that are seen, all of them     *)
(* handled since its first.                                                  *)
CountsSeen(s, entry, now, window) ==
  LET first == Len(s) - entry.count + 1
  IN  entry # None =>
        /\ entry.firstSeen <= now
        /\ now - entry.firstSeen <= window =>
             first \in 1..Len(s) /\ s[first].handled >= entry.firstSeen

(* No more than n events of s were handled at the time t or later.           *)
AtMostSince(s, t, n) == \A i \in 1..Len(s) : s[i].handled >= t => Len(s) - i + 1 <= n

(* The counter of a rule that no other shadows misses nothing: it counts all *)
(* since its first event; the window before that had room for one event less *)
(* than the threshold.                                                       *)
MissesNothing(s, entry, now, count, window) ==
  /\ entry = None => s = <<>>
  /\ entry # None =>
       /\ count # 1 /\ entry.firstSeen <= now
       /\ AtMostSince(s, entry.firstSeen, entry.count)
       /\ AtMostSince(s, entry.firstSeen + 1, entry.count - 1)
       /\ AtMostSince(s, entry.firstSeen - window, entry.count + count - 2)
       /\ s # <<>> => /\ entry.firstSeen <= s[Len(s)].handled
                      /\ s[Len(s)].handled <= entry.firstSeen + window

(* t is s without its first d events, which alone are out of the window.     *)
Rest(s, t, d, now, window) ==
  /\ t \in Seq(Seen) /\ Len(t) = Len(s) - d
  /\ \A i \in 1..(Len(s) - d) : t[i] = s[i + d]
  /\ \A i \in 1..Len(s) : i > d <=> now - s[i].handled <= window

Orderly ==
  \A r \in Rules, k \in Keys : Threshold[r] # None =>
    /\ InOrder(seen[r][k], clock, Threshold[r].window)
    /\ CountsSeen(seen[r][k], thresholdCache[r][k], clock, Threshold[r].window)
Complete ==
  \A r \in Rules, k \in Keys : Threshold[r] # None /\ Unshadowed(r) =>
    MissesNothing(seen[r][k], thresholdCache[r][k], clock,
                  Threshold[r].count, Threshold[r].window)

-----------------------------------------------------------------------------
LEMMA ThresholdType ==
  ASSUME NEW r \in Rules, Threshold[r] # None
  PROVE  Threshold[r].count \in Nat \ {0} /\ Threshold[r].window \in Nat
BY RuleEngineAssumption

(* The entry that checkThreshold leaves is one the cache may hold.          *)
LEMMA EntryType ==
  ASSUME TypeOK, NEW r \in Rules, NEW k \in Keys, Threshold[r] # None
  PROVE  /\ Counted(r, k) \in Entries
         /\ EntryAfter(r, k) \in Entries \cup {None}
         /\ EntryAfter(r, k) # None => EntryAfter(r, k).count \in Pending(r)
<1>1. clock \in Int /\ Threshold[r].count \in Nat \ {0} /\ Threshold[r].window \in Nat
  BY ThresholdType, RuleEngineAssumption DEF TypeOK
<1>2. [count |-> 1, firstSeen |-> clock] \in Entries
  BY <1>1 DEF Entries
<1>3. Counted(r, k) \in Entries
  <2>1. CASE thresholdCache[r][k] = None
    BY <1>2, <2>1 DEF Counted
  <2>2. CASE thresholdCache[r][k] # None
    <3>1. thresholdCache[r][k] \in Entries
      BY <2>2 DEF TypeOK
    <3> QED
      BY <2>2, <3>1 DEF Counted, Entries
  <2> QED
    BY <2>1, <2>2
<1>4. None \notin Entries
  BY RuleEngineAssumption DEF Entries
<1>5. CASE Expired(r, k)
  BY <1>2, <1>3, <1>5 DEF EntryAfter, Reached, Pending
<1>6. CASE Reached(r, k)
  BY <1>3, <1>6 DEF EntryAfter, Reached
<1>7. CASE ~ Expired(r, k) /\ ~ Reached(r, k)
  <2>1. EntryAfter(r, k) = Counted(r, k)
    BY <1>7 DEF EntryAfter
  <2>2. Counted(r, k).count < Threshold[r].count
    BY <1>1, <1>3, <1>7 DEF Reached, Entries
  <2>3. Counted(r, k).count # 0
    BY <1>3 DEF Counted, TypeOK, Entries
  <2> QED
    BY <1>1, <1>3, <2>1, <2>2, <2>3 DEF Pending, Entries
<1> QED
  BY <1>3, <1>5, <1>6, <1>7

LEMMA UpTo ==
  ASSUME NEW n \in Nat
  PROVE  IsFiniteSet(1..n) /\ Cardinality(1..n) = n
<1>1. IsFiniteSet(1..n) /\ Cardinality(1..n) = IF 1 > n THEN 0 ELSE n - 1 + 1
  BY FS_Interval
<1> QED
  BY <1>1

LEMMA WindowType ==
  ASSUME NEW r, NEW s \in Seq(Seen), NEW now
  PROVE  InWindow(r, s, now) \in Seq(Seen)
<1> DEFINE old == {i \in 1..Len(s) : now - s[i].handled > Threshold[r].window}
<1>1. Len(s) \in Nat /\ \A i \in 1..Len(s) : s[i] \in Seen
  BY ElementOfSeq, LenProperties
<1>2. Cardinality(old) \in Nat
  <2>1. IsFiniteSet(old)
    BY <1>1, UpTo, FS_Subset
  <2> QED
    BY <2>1, FS_CardinalityType
<1>3. InWindow(r, s, now) = SubSeq(s, Cardinality(old) + 1, Len(s))
  BY DEF InWindow
<1> HIDE DEF old
<1>4. \A i \in (Cardinality(old) + 1)..Len(s) : s[i] \in Seen
  BY <1>1, <1>2
<1> QED
  BY <1>1, <1>2, <1>3, <1>4, SubSeqProperties

(* An event out of the window is before those in it.                         *)
LEMMA WindowIsSuffix ==
  ASSUME NEW r \in Rules, Threshold[r] # None, NEW s \in Seq(Seen), NEW now \in Int,
         \A i, j \in 1..Len(s) : i <= j => s[i].handled <= s[j].handled
  PROVE  \E d \in 0..Len(s) : Rest(s, InWindow(r, s, now), d, now, Threshold[r].window)
<1> DEFINE W == Threshold[r].window
           old == {i \in 1..Len(s) : now - s[i].handled > W}
           d == Cardinality(old)
<1>1. W \in Nat /\ Len(s) \in Nat /\ \A i \in 1..Len(s) : s[i].handled \in Int
  <2>1. \A i \in 1..Len(s) : s[i] \in Seen
    BY ElementOfSeq
  <2> QED
    BY <2>1, ThresholdType, LenProperties DEF Seen
<1>2. IsFiniteSet(1..Len(s)) /\ Cardinality(1..Len(s)) = Len(s)
  BY <1>1, UpTo
<1>3. IsFiniteSet(old) /\ d \in 0..Len(s)
  BY <1>2, FS_Subset, FS_CardinalityType
<1>4. ASSUME NEW i \in 1..Len(s), now - s[i].handled > W
      PROVE  i <= d
  <2>1. 1..i \subseteq old
    BY <1>1, <1>4
  <2>2. Cardinality(1..i) = i
    BY <1>4, FS_Interval
  <2> QED
    BY <1>3, <2>1, <2>2, FS_Subset
<1>5. ASSUME NEW i \in 1..Len(s), now - s[i].handled <= W
      PROVE  d < i
  <2>1. old \subseteq 1..(i - 1)
    BY <1>1, <1>5, SMTT(30)
  <2>2. IsFiniteSet(1..(i - 1)) /\ Cardinality(1..(i - 1)) = i - 1
    BY <1>5, UpTo
  <2>3. d <= i - 1
    BY <2>1, <2>2, FS_Subset
  <2> QED
    BY <1>3, <2>3
<1>6. \A i \in 1..Len(s) : i > d <=> now - s[i].handled <= W
  BY <1>1, <1>3, <1>4, <1>5
<1>7. InWindow(r, s, now) = SubSeq(s, d + 1, Len(s))
  BY DEF InWindow
<1> HIDE DEF d
<1>8. /\ SubSeq(s, d + 1, Len(s)) \in Seq(Seen)
      /\ Len(SubSeq(s, d + 1, Len(s))) = Len(s) - d
      /\ \A i \in 1..(Len(s) - d) : SubSeq(s, d + 1, Len(s))[i] = s[i + d]
  BY <1>1, <1>3, SubSeqProperties
<1> QED
  BY <1>3, <1>6, <1>7, <1>8 DEF Rest

-----------------------------------------------------------------------------
(* evaluateData, for one rule with a threshold and one of its groups: it is  *)
(* not concerned, or it triggers, or it counts, or it is overlooked.         *)
LEMMA EvaluateCases ==
  ASSUME TypeOK, NEW e \in Events, NEW at, Evaluate(e, at),
         NEW r \in Rules, NEW k \in Keys, Threshold[r] # None
  PROVE  LET more == Append(seen[r][k], [at |-> at, handled |-> clock]) IN
         \/ seen'[r][k] = seen[r][k] /\ thresholdCache'[r][k] = thresholdCache[r][k]
         \/ seen'[r][k] = <<>> /\ thresholdCache'[r][k] = None
         \/ /\ seen'[r][k] = more /\ thresholdCache'[r][k] = EntryAfter(r, k)
            /\ ~ Reached(r, k)
         \/ /\ seen'[r][k] = more /\ thresholdCache'[r][k] = thresholdCache[r][k]
            /\ ~ Unshadowed(r)
<1> DEFINE hit == TriggeredRule(e)
           counting == {q \in ReachedRules(e) : e \in Matches[q] /\ Threshold[q] # None}
<1>1. /\ seen'[r][k] = IF r = hit /\ k = KeyOf[r][e] THEN <<>> ELSE SeenNow(r, k, e, at)
      /\ thresholdCache'[r][k] = IF r \in counting /\ k = KeyOf[r][e]
                                 THEN EntryAfter(r, k) ELSE thresholdCache[r][k]
  BY DEF Evaluate
<1>2. activeRules \in RuleLists /\ activeRules \in Seq(Rules)
  BY RuleEngineAssumption DEF Evaluate, TypeOK
<1>3. None \notin ReachedRules(e)
  BY <1>2, RuleEngineAssumption DEF ReachedRules
<1>4. hit # None => hit \in ReachedRules(e) /\ Triggers(hit, e)
  BY <1>3 DEF TriggeredRule
<1>5. \A q \in ReachedRules(e) : Triggers(q, e) => q = hit
  <2> SUFFICES ASSUME NEW q \in ReachedRules(e), Triggers(q, e)
               PROVE  q = hit
    OBVIOUS
  <2>1. hit \in ReachedRules(e) /\ Triggers(hit, e)
    BY DEF TriggeredRule
  <2> HIDE DEF hit
  <2>2. PICK i \in 1..Len(activeRules) :
          q = activeRules[i] /\ \A j \in 1..(i - 1) : ~ Triggers(activeRules[j], e)
    BY DEF ReachedRules
  <2>3. PICK h \in 1..Len(activeRules) :
          hit = activeRules[h] /\ \A j \in 1..(h - 1) : ~ Triggers(activeRules[j], e)
    BY <2>1 DEF ReachedRules
  <2>4. ~ (h < i) /\ ~ (i < h)
    BY <2>1, <2>2, <2>3
  <2> QED
    BY <2>2, <2>3, <2>4
<1> HIDE DEF hit
<1>6. CASE r = hit /\ k = KeyOf[r][e]
  <2>1. r \in ReachedRules(e) /\ Triggers(r, e)
    BY <1>3, <1>4, <1>6, RuleEngineAssumption
  <2>2. r \in counting /\ Reached(r, k)
    BY <1>6, <2>1 DEF Triggers
  <2>3. EntryAfter(r, k) = None
    BY <2>2 DEF EntryAfter, Reached
  <2> QED
    BY <1>1, <1>6, <2>2, <2>3
<1>7. CASE ~ (r = hit /\ k = KeyOf[r][e]) /\ r \in counting /\ k = KeyOf[r][e]
  <2>1. ~ Reached(r, k)
    BY <1>5, <1>7 DEF Triggers
  <2>2. r \in Active(activeRules)
    BY <1>7 DEF ReachedRules, Active
  <2>3. SeenNow(r, k, e, at) = Append(seen[r][k], [at |-> at, handled |-> clock])
    BY <1>7, <2>2 DEF SeenNow
  <2> QED
    BY <1>1, <1>7, <2>1, <2>3
<1>8. CASE ~ (r = hit /\ k = KeyOf[r][e]) /\ ~ (r \in counting /\ k = KeyOf[r][e])
  <2>1. thresholdCache'[r][k] = thresholdCache[r][k] /\ seen'[r][k] = SeenNow(r, k, e, at)
    BY <1>1, <1>8
  <2>2. CASE SeenNow(r, k, e, at) = seen[r][k]
    BY <2>1, <2>2
  <2>3. CASE SeenNow(r, k, e, at) # seen[r][k]
    <3>1. /\ r \in Active(activeRules) /\ e \in Matches[r] /\ KeyOf[r][e] = k
          /\ SeenNow(r, k, e, at) = Append(seen[r][k], [at |-> at, handled |-> clock])
      BY <2>3 DEF SeenNow
    <3>2. r \notin ReachedRules(e)
      BY <1>8, <3>1
    <3>3. PICK j \in 1..Len(activeRules) : r = activeRules[j]
      BY <3>1 DEF Active
    <3>4. PICK i \in 1..(j - 1) : Triggers(activeRules[i], e)
      BY <3>2, <3>3 DEF ReachedRules
    <3>5. e \in Matches[activeRules[i]] \cap Matches[r] /\ i \in 1..Len(activeRules) /\ i < j
      BY <3>1, <3>4 DEF Triggers
    <3>6. ~ Unshadowed(r)
      BY <1>2, <3>3, <3>5 DEF Unshadowed
    <3> QED
      BY <2>1, <3>1, <3>6
  <2> QED
    BY <2>2, <2>3
<1> QED
  BY <1>6, <1>7, <1>8

(* An event that does not trigger opens a window or joins one.               *)
Opens(entry, after, now, count, window) ==
  /\ after.count = 1 /\ after.firstSeen = now
  /\ entry = None => count # 1
  /\ entry # None => now - entry.firstSeen > window
Joins(entry, after, now, window) ==
  /\ entry # None /\ now - entry.firstSeen <= window
  /\ after.count = entry.count + 1 /\ after.firstSeen = entry.firstSeen

(* What checkThreshold leaves when it does not trigger: a new window, or one *)
(* event more in the old one.                                                *)
LEMMA EntryCases ==
  ASSUME TypeOK, NEW r \in Rules, NEW k \in Keys, Threshold[r] # None, ~ Reached(r, k)
  PROVE  LET entry == thresholdCache[r][k]
             after == EntryAfter(r, k)
         IN  /\ after # None /\ after.count \in Nat /\ after.firstSeen \in Int
             /\ \/ Opens(entry, after, clock, Threshold[r].count, Threshold[r].window)
                \/ Joins(entry, after, clock, Threshold[r].window)
<1> DEFINE entry == thresholdCache[r][k]
<1>1. /\ clock \in Int /\ Threshold[r].count \in Nat \ {0} /\ Threshold[r].window \in Nat
      /\ Counted(r, k) \in Entries
  BY ThresholdType, EntryType, RuleEngineAssumption DEF TypeOK
<1>2. None \notin Entries
  BY RuleEngineAssumption DEF Entries
<1>3. CASE entry = None
  <2>1. Counted(r, k) = [count |-> 1, firstSeen |-> clock]
    BY <1>3 DEF Counted
  <2>2. ~ Expired(r, k)
    BY <1>1, <2>1 DEF Expired
  <2>3. EntryAfter(r, k) = Counted(r, k)
    BY <2>2 DEF EntryAfter
  <2>4. Threshold[r].count # 1
    BY <1>1, <2>1, <2>2 DEF Reached
  <2> QED
    BY <1>1, <1>2, <1>3, <2>1, <2>3, <2>4 DEF Entries, Opens
<1>4. CASE entry # None
  <2>1. entry \in Entries
    BY <1>4 DEF TypeOK
  <2>2. Counted(r, k).count = entry.count + 1 /\ Counted(r, k).firstSeen = entry.firstSeen
    BY <1>4, <2>1 DEF Counted, Entries
  <2>3. CASE Expired(r, k)
    <3>1. EntryAfter(r, k) = [count |-> 1, firstSeen |-> clock]
      BY <2>3 DEF EntryAfter, Reached
    <3>2. clock - entry.firstSeen > Threshold[r].window
      BY <2>2, <2>3 DEF Expired
    <3>3. [count |-> 1, firstSeen |-> clock] \in Entries
      BY <1>1 DEF Entries
    <3> QED
      BY <1>1, <1>2, <1>4, <3>1, <3>2, <3>3 DEF Opens
  <2>4. CASE ~ Expired(r, k)
    <3>1. EntryAfter(r, k) = Counted(r, k)
      BY <2>4 DEF EntryAfter
    <3>2. clock - entry.firstSeen <= Threshold[r].window
      BY <1>1, <2>1, <2>2, <2>4 DEF Expired, Entries
    <3>3. EntryAfter(r, k).count \in Nat /\ EntryAfter(r, k).firstSeen \in Int
      BY <1>1, <3>1 DEF Entries
    <3> QED
      BY <1>1, <1>2, <1>4, <2>2, <3>1, <3>2, <3>3 DEF Joins
  <2> QED
    BY <2>3, <2>4
<1> QED
  BY <1>3, <1>4

(* The event of an alert is the last of its evidence.                        *)
LEMMA AlertCase ==
  ASSUME TypeOK, NEW e \in Events, NEW at, Evaluate(e, at),
         triggered' # None, Threshold[triggered'] # None
  PROVE  \E r \in Rules, k \in Keys :
           /\ triggered' = r /\ Reached(r, k)
           /\ evidence' = Append(seen[r][k], [at |-> at, handled |-> clock])
<1> DEFINE r == TriggeredRule(e)
           k == KeyOf[r][e]
<1>1. triggered' = r /\ evidence' = SeenNow(r, k, e, at)
  BY DEF Evaluate
<1>2. activeRules \in Seq(Rules)
  BY RuleEngineAssumption DEF Evaluate, TypeOK
<1>3. r \in ReachedRules(e) /\ Triggers(r, e)
  BY <1>1 DEF TriggeredRule
<1>4. r \in Active(activeRules) /\ r \in Rules
  BY <1>2, <1>3, ElementOfSeq DEF ReachedRules, Active
<1>5. e \in Matches[r] /\ Reached(r, k)
  BY <1>1, <1>3 DEF Triggers
<1>6. k \in Keys
  BY <1>4, RuleEngineAssumption
<1>7. evidence' = Append(seen[r][k], [at |-> at, handled |-> clock])
  BY <1>1, <1>4, <1>5 DEF SeenNow
<1> QED
  BY <1>1, <1>4, <1>5, <1>6, <1>7

-----------------------------------------------------------------------------
LEMMA TypeInit == Init => TypeOK
<1> SUFFICES ASSUME Init
             PROVE  TypeOK
  OBVIOUS
<1>1. <<>> \in Seq(Seen) /\ 0 \in 0..MaxClock
  BY RuleEngineAssumption
<1>2. seen \in [Rules -> [Keys -> Seq(Seen)]] /\ evidence \in Seq(Seen)
  BY <1>1 DEF Init
<1> QED
  BY <1>1, <1>2 DEF Init, TypeOK

LEMMA TypeNext == TypeOK /\ [Next]_vars => TypeOK'
<1> SUFFICES ASSUME TypeOK, [Next]_vars
             PROVE  TypeOK'
  OBVIOUS
<1>0. <<>> \in Seq(Seen)
  OBVIOUS
<1>1. ASSUME NEW e \in Events, NEW at \in (clock - MaxDelay)..clock, Evaluate(e, at)
      PROVE  TypeOK'
  <2>1. [at |-> at, handled |-> clock] \in Seen
    BY RuleEngineAssumption DEF TypeOK, Seen
  <2>2. \A r \in Rules, k \in Keys : SeenNow(r, k, e, at) \in Seq(Seen)
    BY <2>1, AppendProperties DEF SeenNow, TypeOK
  <2>3. seen' \in [Rules -> [Keys -> Seq(Seen)]]
    BY <1>0, <1>1, <2>2 DEF Evaluate
  <2>4. TriggeredRule(e) \in Rules \cup {None}
    <3>1. \A i \in 1..Len(activeRules) : activeRules[i] \in Rules
      BY <1>1, RuleEngineAssumption, ElementOfSeq DEF Evaluate, TypeOK
    <3>2. ReachedRules(e) \subseteq Rules
      BY <3>1 DEF ReachedRules
    <3> QED
      BY <3>2 DEF TriggeredRule
  <2>5. evidence' \in Seq(Seen)
    <3>1. CASE TriggeredRule(e) = None
      BY <1>0, <1>1, <3>1 DEF Evaluate
    <3>2. CASE TriggeredRule(e) # None
      <4>1. TriggeredRule(e) \in Rules /\ KeyOf[TriggeredRule(e)][e] \in Keys
        BY <2>4, <3>2, RuleEngineAssumption
      <4> QED
        BY <1>1, <2>2, <3>2, <4>1 DEF Evaluate
    <3> QED
      BY <3>1, <3>2
  <2>6. \A r \in Rules, k \in Keys :
          /\ thresholdCache'[r][k] \in Entries \cup {None}
          /\ thresholdCache'[r][k] # None => thresholdCache'[r][k].count \in Pending(r)
    BY <1>1, EntryType DEF Evaluate, TypeOK
  <2>7. thresholdCache' \in [Rules -> [Keys -> Entries \cup {None}]]
    BY <1>1, <2>6 DEF Evaluate
  <2> QED
    BY <1>1, <2>3, <2>4, <2>5, <2>6, <2>7 DEF Evaluate, TypeOK
<1>2. ASSUME NEW list \in RuleLists, LoadRules(list)
      PROVE  TypeOK'
  BY <1>0, <1>2 DEF LoadRules, TypeOK
<1>3. CASE Restart
  BY <1>0, <1>3 DEF Restart, TypeOK
<1>4. CASE Tick
  <2>1. \A r \in Rules, k \in Keys : InWindow(r, seen[r][k], clock + 1) \in Seq(Seen)
    BY WindowType DEF TypeOK
  <2>2. seen' \in [Rules -> [Keys -> Seq(Seen)]]
    BY <1>4, <2>1 DEF Tick
  <2> QED
    BY <1>0, <1>4, <2>2, RuleEngineAssumption DEF Tick, TypeOK
<1>5. CASE UNCHANGED vars
  BY <1>5 DEF vars, TypeOK, Pending
<1> QED
  BY <1>1, <1>2, <1>3, <1>4, <1>5 DEF Next

(* What the worker keeps of a rule and a key is a count below the number of  *)
(* packets that triggers the rule, and the time of the first of them        *)
(* (RuleEngine.TypeOK; ruleMatcher.js:91-115).                              *)
THEOREM TypeCorrect == Spec => []TypeOK
<1> QED
  BY TypeInit, TypeNext, PTL DEF Spec

-----------------------------------------------------------------------------
(* What an event, and time, do to the history and the counter of a group.    *)
LEMMA OneMore ==
  ASSUME NEW s \in Seq(Seen), NEW x \in Seen
  PROVE  /\ Len(s) \in Nat /\ Len(Append(s, x)) = Len(s) + 1
         /\ \A i \in 1..Len(s) : Append(s, x)[i] = s[i]
         /\ Append(s, x)[Len(s) + 1] = x
         /\ \A i \in 1..Len(s) : s[i].handled \in Int /\ s[i].at \in Int
         /\ x.handled \in Int /\ x.at \in Int
<1>1. \A i \in 1..Len(s) : s[i] \in Seen
  BY ElementOfSeq
<1> QED
  BY <1>1, AppendProperties, LenProperties DEF Seen

LEMMA OneMoreInOrder ==
  ASSUME NEW s \in Seq(Seen), NEW x \in Seen, NEW now \in Int, NEW window \in Nat,
         InOrder(s, now, window), x.handled = now, x.at <= now, now - x.at <= MaxDelay
  PROVE  InOrder(Append(s, x), now, window)
<1> DEFINE t == Append(s, x)
<1>1. /\ Len(s) \in Nat /\ Len(t) = Len(s) + 1
      /\ \A i \in 1..Len(s) : t[i] = s[i]
      /\ t[Len(s) + 1] = x
      /\ \A i \in 1..Len(s) : s[i].handled \in Int /\ s[i].at \in Int
      /\ x.handled \in Int /\ x.at \in Int
  BY OneMore
<1> HIDE DEF t
<1>2. \A i \in 1..Len(t) : i \in 1..Len(s) \/ i = Len(s) + 1
  BY <1>1
<1>3. ASSUME NEW i \in 1..Len(t), NEW j \in 1..Len(t), i <= j
      PROVE  t[i].handled <= t[j].handled
  <2>1. CASE j = Len(s) + 1
    BY <1>1, <1>2, <2>1, SMTT(30) DEF InOrder
  <2>2. CASE j \in 1..Len(s)
    <3>1. i \in 1..Len(s)
      BY <1>1, <1>2, <1>3, <2>2
    <3> QED
      BY <1>1, <1>3, <2>2, <3>1 DEF InOrder
  <2> QED
    BY <1>2, <2>1, <2>2
<1>4. \A i \in 1..Len(t) :
        /\ t[i].handled <= now /\ now - t[i].handled <= window
        /\ t[i].at <= t[i].handled /\ t[i].handled - t[i].at <= MaxDelay
  BY <1>1, <1>2 DEF InOrder
<1> QED
  BY <1>3, <1>4 DEF InOrder, t

(* The event is not counted, ...                                             *)
LEMMA OverlookedCountsSeen ==
  ASSUME NEW s \in Seq(Seen), NEW x \in Seen, NEW now \in Int, NEW window \in Nat,
         NEW entry, entry # None => entry.count \in Nat \ {0} /\ entry.firstSeen \in Int,
         InOrder(s, now, window), CountsSeen(s, entry, now, window), x.handled = now
  PROVE  CountsSeen(Append(s, x), entry, now, window)
<1> SUFFICES ASSUME entry # None, now - entry.firstSeen <= window
             PROVE  /\ Len(Append(s, x)) - entry.count + 1 \in 1..Len(Append(s, x))
                    /\ Append(s, x)[Len(Append(s, x)) - entry.count + 1].handled
                         >= entry.firstSeen
  BY DEF CountsSeen
<1> DEFINE t == Append(s, x)
           first == Len(s) - entry.count + 1
<1>1. /\ Len(s) \in Nat /\ Len(t) = Len(s) + 1
      /\ \A i \in 1..Len(s) : t[i] = s[i] /\ s[i].handled \in Int
      /\ t[Len(s) + 1] = x
  BY OneMore
<1>2. first \in 1..Len(s) /\ s[first].handled >= entry.firstSeen /\ entry.firstSeen <= now
  BY DEF CountsSeen
<1> HIDE DEF t
<1>3. Len(t) - entry.count + 1 = first + 1 /\ first + 1 \in 1..Len(t)
  BY <1>1, <1>2, SMTT(30)
<1> HIDE DEF first
<1>4. t[first + 1].handled >= entry.firstSeen
  <2>1. CASE first + 1 \in 1..Len(s)
    <3>1. s[first].handled <= s[first + 1].handled
      BY <1>2, <2>1 DEF InOrder
    <3> QED
      BY <1>1, <1>2, <2>1, <3>1
  <2>2. CASE first + 1 = Len(s) + 1
    BY <1>1, <1>2, <2>2
  <2> QED
    BY <1>1, <1>2, <2>1, <2>2
<1> QED
  BY <1>3, <1>4 DEF t

(* ... or opens a window, or is counted in it.                               *)
LEMMA CountedCountsSeen ==
  ASSUME NEW s \in Seq(Seen), NEW x \in Seen, NEW now \in Int, NEW window \in Nat,
         NEW count, NEW entry, NEW after, after # None,
         entry # None => entry.count \in Nat \ {0} /\ entry.firstSeen \in Int,
         CountsSeen(s, entry, now, window), x.handled = now,
         Opens(entry, after, now, count, window) \/ Joins(entry, after, now, window)
  PROVE  CountsSeen(Append(s, x), after, now, window)
<1> DEFINE t == Append(s, x)
<1>1. /\ Len(s) \in Nat /\ Len(t) = Len(s) + 1
      /\ \A i \in 1..Len(s) : t[i] = s[i] /\ s[i].handled \in Int
      /\ t[Len(s) + 1] = x
  BY OneMore
<1> HIDE DEF t
<1>2. CASE Opens(entry, after, now, count, window)
  <2>1. Len(t) - after.count + 1 = Len(s) + 1 /\ Len(s) + 1 \in 1..Len(t)
    BY <1>1, <1>2 DEF Opens
  <2>2. t[Len(s) + 1].handled >= after.firstSeen /\ after.firstSeen <= now
    BY <1>1, <1>2 DEF Opens
  <2> QED
    BY <2>1, <2>2 DEF CountsSeen, t
<1>3. CASE Joins(entry, after, now, window)
  <2> DEFINE first == Len(s) - entry.count + 1
  <2>1. first \in 1..Len(s) /\ s[first].handled >= entry.firstSeen /\ entry.firstSeen <= now
    BY <1>3 DEF CountsSeen, Joins
  <2>2. Len(t) - after.count + 1 = first /\ first \in 1..Len(t)
    <3>1. entry.count \in Nat /\ after.count = entry.count + 1
      BY <1>3 DEF Joins
    <3> HIDE DEF t
    <3> QED
      BY <1>1, <2>1, <3>1
  <2>3. t[first].handled >= after.firstSeen /\ after.firstSeen <= now
    BY <1>1, <1>3, <2>1 DEF Joins
  <2> HIDE DEF first
  <2> QED
    BY <2>2, <2>3 DEF CountsSeen, t
<1> QED
  BY <1>2, <1>3

LEMMA LaterInOrder ==
  ASSUME NEW s \in Seq(Seen), NEW t, NEW now \in Int, NEW later \in Int, later = now + 1,
         NEW window \in Nat,
         InOrder(s, now, window), NEW d \in 0..Len(s), Rest(s, t, d, later, window)
  PROVE  InOrder(t, later, window)
<1>0. /\ t \in Seq(Seen) /\ Len(t) = Len(s) - d
      /\ \A i \in 1..Len(t) : t[i] = s[i + d]
      /\ \A i \in 1..Len(s) : i > d <=> later - s[i].handled <= window
  BY DEF Rest
<1>1. Len(s) \in Nat /\ \A i \in 1..Len(s) : s[i].handled \in Int /\ s[i].at \in Int
  <2>1. \A i \in 1..Len(s) : s[i] \in Seen
    BY ElementOfSeq
  <2> QED
    BY <2>1, LenProperties DEF Seen
<1>2. ASSUME NEW i \in 1..Len(t)
      PROVE  i + d \in 1..Len(s) /\ i + d > d /\ t[i] = s[i + d]
  <2>1. i \in Nat /\ d \in Nat /\ 1 <= i /\ i <= Len(s) - d
    BY <1>0, <1>1, <1>2
  <2> QED
    BY <1>0, <1>1, <1>2, <2>1
<1>3. ASSUME NEW i \in 1..Len(t), NEW j \in 1..Len(t), i <= j
      PROVE  t[i].handled <= t[j].handled
  <2>1. i + d <= j + d
    BY <1>1, <1>3
  <2> QED
    BY <1>2, <2>1 DEF InOrder
<1>4. ASSUME NEW i \in 1..Len(t)
      PROVE  /\ t[i].handled <= later /\ later - t[i].handled <= window
             /\ t[i].at <= t[i].handled /\ t[i].handled - t[i].at <= MaxDelay
  <2> DEFINE j == i + d
  <2>1. j \in 1..Len(s) /\ j > d /\ t[i] = s[j]
    BY <1>2
  <2> HIDE DEF j
  <2>2. /\ s[j].handled <= now /\ later - s[j].handled <= window
        /\ s[j].at <= s[j].handled /\ s[j].handled - s[j].at <= MaxDelay
    BY <1>0, <2>1 DEF InOrder
  <2> QED
    BY <1>1, <2>1, <2>2
<1>5. \A i, j \in 1..Len(t) : i <= j => t[i].handled <= t[j].handled
  BY <1>3
<1>6. \A i \in 1..Len(t) :
        /\ t[i].handled <= later /\ later - t[i].handled <= window
        /\ t[i].at <= t[i].handled /\ t[i].handled - t[i].at <= MaxDelay
  BY <1>4
<1> QED
  BY <1>5, <1>6 DEF InOrder

LEMMA LaterCountsSeen ==
  ASSUME NEW s \in Seq(Seen), NEW t, NEW now \in Int, NEW later \in Int, later = now + 1,
         NEW window \in Nat,
         NEW entry, entry # None => entry.count \in Nat \ {0} /\ entry.firstSeen \in Int,
         CountsSeen(s, entry, now, window), NEW d \in 0..Len(s), Rest(s, t, d, later, window)
  PROVE  CountsSeen(t, entry, later, window)
<1>0. /\ t \in Seq(Seen) /\ Len(t) = Len(s) - d
      /\ \A i \in 1..Len(t) : t[i] = s[i + d]
      /\ \A i \in 1..Len(s) : i > d <=> later - s[i].handled <= window
  BY DEF Rest
<1>1. Len(s) \in Nat /\ \A i \in 1..Len(s) : s[i].handled \in Int
  <2>1. \A i \in 1..Len(s) : s[i] \in Seen
    BY ElementOfSeq
  <2> QED
    BY <2>1, LenProperties DEF Seen
<1> SUFFICES ASSUME entry # None
             PROVE  /\ entry.firstSeen <= later
                    /\ later - entry.firstSeen <= window =>
                         /\ Len(t) - entry.count + 1 \in 1..Len(t)
                         /\ t[Len(t) - entry.count + 1].handled >= entry.firstSeen
  BY DEF CountsSeen
<1>2. entry.firstSeen <= later
  BY DEF CountsSeen
<1>3. CASE later - entry.firstSeen <= window
  <2> DEFINE first == Len(s) - entry.count + 1
  <2>1. first \in 1..Len(s) /\ s[first].handled >= entry.firstSeen
    BY <1>3 DEF CountsSeen
  <2>2. Len(t) - entry.count + 1 = first - d
    BY <1>0, <1>1
  <2> HIDE DEF first
  <2>3. later - s[first].handled <= window
    BY <1>1, <1>3, <2>1
  <2>4. first - d \in 1..Len(t) /\ first = (first - d) + d
    BY <1>0, <1>1, <2>1, <2>3, SMTT(30)
  <2>5. t[first - d] = s[first]
    BY <1>0, <2>4
  <2> QED
    BY <1>2, <2>1, <2>2, <2>4, <2>5
<1> QED
  BY <1>2, <1>3

-----------------------------------------------------------------------------
(* Tick, for a group. *)
LEMMA TickCases ==
  ASSUME TypeOK, NEW r \in Rules, NEW k \in Keys, Threshold[r] # None, Tick,
         InOrder(seen[r][k], clock, Threshold[r].window)
  PROVE  \E d \in 0..Len(seen[r][k]) :
           Rest(seen[r][k], seen'[r][k], d, clock + 1, Threshold[r].window)
<1>1. clock + 1 \in Int /\ seen[r][k] \in Seq(Seen)
  BY RuleEngineAssumption DEF TypeOK
<1>2. seen'[r][k] = InWindow(r, seen[r][k], clock + 1)
  BY DEF Tick
<1>3. \A i, j \in 1..Len(seen[r][k]) : i <= j => seen[r][k][i].handled <= seen[r][k][j].handled
  BY DEF InOrder
<1> DEFINE s == seen[r][k]
           now == clock + 1
<1> HIDE DEF s, now
<1>4. \E d \in 0..Len(s) : Rest(s, InWindow(r, s, now), d, now, Threshold[r].window)
  BY <1>1, <1>3, WindowIsSuffix DEF s, now
<1> QED
  BY <1>2, <1>4 DEF s, now

-----------------------------------------------------------------------------
LEMMA OrderlyInit == Init => Orderly
<1> SUFFICES ASSUME Init, NEW r \in Rules, NEW k \in Keys
             PROVE  /\ InOrder(seen[r][k], clock, Threshold[r].window)
                    /\ CountsSeen(seen[r][k], thresholdCache[r][k], clock, Threshold[r].window)
  BY DEF Orderly
<1>1. seen[r][k] = <<>> /\ thresholdCache[r][k] = None /\ 1..Len(<<>>) = {}
  BY DEF Init
<1> QED
  BY <1>1 DEF InOrder, CountsSeen

LEMMA EntryOK ==
  ASSUME TypeOK, NEW r \in Rules, NEW k \in Keys, Threshold[r] # None,
         thresholdCache[r][k] # None
  PROVE  /\ thresholdCache[r][k].count \in Nat \ {0}
         /\ thresholdCache[r][k].firstSeen \in Int
         /\ Threshold[r].count # 1 => thresholdCache[r][k].count < Threshold[r].count
<1>1. thresholdCache[r][k] \in Entries /\ thresholdCache[r][k].count \in Pending(r)
  BY DEF TypeOK
<1>2. Threshold[r].count \in Nat \ {0}
  BY ThresholdType
<1> QED
  BY <1>1, <1>2 DEF Entries, Pending

LEMMA OrderlyNext == TypeOK /\ Orderly /\ [Next]_vars => Orderly'
<1> SUFFICES ASSUME TypeOK, Orderly, [Next]_vars,
                    NEW r \in Rules, NEW k \in Keys, Threshold[r] # None
             PROVE  /\ InOrder(seen'[r][k], clock', Threshold[r].window)
                    /\ CountsSeen(seen'[r][k], thresholdCache'[r][k], clock',
                                  Threshold[r].window)
  BY DEF Orderly
<1> DEFINE s == seen[r][k]
           entry == thresholdCache[r][k]
           W == Threshold[r].window
           Goal == /\ InOrder(seen'[r][k], clock', W)
                   /\ CountsSeen(seen'[r][k], thresholdCache'[r][k], clock', W)
<1>1. InOrder(s, clock, W) /\ CountsSeen(s, entry, clock, W)
  BY DEF Orderly
<1>2. W \in Nat /\ clock \in Int /\ MaxDelay \in Nat /\ s \in Seq(Seen)
  BY ThresholdType, RuleEngineAssumption DEF TypeOK
<1>3. entry # None => entry.count \in Nat \ {0} /\ entry.firstSeen \in Int
  BY EntryOK
<1>4. InOrder(<<>>, clock', W) /\ CountsSeen(<<>>, None, clock', W)
  <2>1. 1..Len(<<>>) = {}
    OBVIOUS
  <2> QED
    BY <2>1 DEF InOrder, CountsSeen
<1>5. ASSUME NEW e \in Events, NEW at \in (clock - MaxDelay)..clock, Evaluate(e, at)
      PROVE  Goal
  <2> DEFINE x == [at |-> at, handled |-> clock]
  <2>1. clock' = clock
    BY <1>5 DEF Evaluate
  <2>2. x \in Seen /\ x.handled = clock /\ x.at <= clock /\ clock - x.at <= MaxDelay
    BY <1>2 DEF Seen
  <2>3. InOrder(Append(s, x), clock, W)
    BY <1>1, <1>2, <2>2, OneMoreInOrder
  <2>4. CASE seen'[r][k] = s /\ thresholdCache'[r][k] = entry
    BY <1>1, <2>1, <2>4
  <2>5. CASE seen'[r][k] = <<>> /\ thresholdCache'[r][k] = None
    BY <1>4, <2>5
  <2>6. CASE /\ seen'[r][k] = Append(s, x) /\ thresholdCache'[r][k] = EntryAfter(r, k)
             /\ ~ Reached(r, k)
    <3> DEFINE after == EntryAfter(r, k)
    <3>1. /\ after # None
          /\ \/ Opens(entry, after, clock, Threshold[r].count, W)
             \/ Joins(entry, after, clock, W)
      BY <2>6, EntryCases
    <3> HIDE DEF after, s, entry, W, x
    <3>2. CountsSeen(Append(s, x), after, clock, W)
      BY <1>1, <1>2, <1>3, <2>2, <3>1, CountedCountsSeen
    <3> QED
      BY <2>1, <2>3, <2>6, <3>2 DEF after
  <2>7. CASE seen'[r][k] = Append(s, x) /\ thresholdCache'[r][k] = entry
    <3> HIDE DEF s, entry, W, x
    <3>1. CountsSeen(Append(s, x), entry, clock, W)
      BY <1>1, <1>2, <1>3, <2>2, OverlookedCountsSeen
    <3> QED
      BY <2>1, <2>3, <2>7, <3>1
  <2> QED
    BY <1>5, <2>4, <2>5, <2>6, <2>7, EvaluateCases
<1>6. ASSUME NEW list \in RuleLists, LoadRules(list)
      PROVE  Goal
  BY <1>1, <1>6 DEF LoadRules
<1>7. CASE Restart
  <2>1. seen'[r][k] = <<>> /\ thresholdCache'[r][k] = None
    BY <1>7 DEF Restart
  <2> QED
    BY <1>4, <2>1
<1>8. CASE Tick
  <2> DEFINE t == seen'[r][k]
             later == clock + 1
  <2>1. clock' = later /\ thresholdCache'[r][k] = entry
    BY <1>8 DEF Tick
  <2>2. PICK d \in 0..Len(s) : Rest(s, t, d, later, W)
    BY <1>1, <1>8, TickCases
  <2>3. later \in Int /\ later = clock + 1
    BY <1>2
  <2> HIDE DEF s, t, entry, W, later
  <2>4. InOrder(t, later, W)
    BY <1>1, <1>2, <2>2, <2>3, LaterInOrder
  <2>5. CountsSeen(t, entry, later, W)
    BY <1>1, <1>2, <1>3, <2>2, <2>3, LaterCountsSeen
  <2> QED
    BY <2>1, <2>4, <2>5 DEF t, W
<1>9. CASE UNCHANGED vars
  BY <1>1, <1>9 DEF vars
<1> QED
  BY <1>5, <1>6, <1>7, <1>8, <1>9 DEF Next

-----------------------------------------------------------------------------
(* The evidence of an alert. *)
LEMMA Justified ==
  ASSUME TypeOK, Orderly, NEW e \in Events, NEW at \in (clock - MaxDelay)..clock,
         Evaluate(e, at)
  PROVE  AlertJustified'
<1> SUFFICES ASSUME triggered' # None, Threshold[triggered'] # None
             PROVE  /\ Len(evidence') >= Threshold[triggered'].count
                    /\ \A i, j \in 1..Len(evidence') :
                         evidence'[i].at - evidence'[j].at
                           <= Threshold[triggered'].window + MaxDelay
  BY DEF AlertJustified
<1> DEFINE x == [at |-> at, handled |-> clock]
<1>1. PICK r \in Rules, k \in Keys :
        triggered' = r /\ Reached(r, k) /\ evidence' = Append(seen[r][k], x)
  BY AlertCase
<1> DEFINE s == seen[r][k]
           entry == thresholdCache[r][k]
           N == Threshold[r].count
           W == Threshold[r].window
           t == Append(s, x)
<1>2. /\ N \in Nat \ {0} /\ W \in Nat /\ clock \in Int /\ MaxDelay \in Nat
      /\ s \in Seq(Seen)
  BY <1>1, ThresholdType, RuleEngineAssumption DEF TypeOK
<1>3. x \in Seen /\ x.handled = clock /\ x.at <= clock /\ clock - x.at <= MaxDelay
  BY <1>2 DEF Seen
<1>4. InOrder(s, clock, W) /\ CountsSeen(s, entry, clock, W)
  BY <1>1 DEF Orderly
<1>5. entry # None => entry.count \in Nat \ {0} /\ entry.firstSeen \in Int
  BY <1>1, EntryOK
<1>6. InOrder(t, clock, W)
  BY <1>2, <1>3, <1>4, OneMoreInOrder
<1>7. /\ Len(s) \in Nat /\ Len(t) = Len(s) + 1
      /\ \A i \in 1..Len(t) : t[i].handled \in Int /\ t[i].at \in Int
  <2>1. t \in Seq(Seen) /\ Len(t) = Len(s) + 1 /\ Len(s) \in Nat
    BY <1>2, <1>3, AppendProperties, LenProperties
  <2>2. \A i \in 1..Len(t) : t[i] \in Seen
    BY <2>1, ElementOfSeq
  <2> QED
    BY <2>1, <2>2 DEF Seen
<1>8. Len(t) >= N
  <2>1. CASE entry = None
    <3>1. Counted(r, k).count = 1
      BY <2>1 DEF Counted
    <3>2. N <= 1
      BY <1>1, <1>2, <3>1 DEF Reached
    <3> QED
      BY <1>2, <1>7, <3>2
  <2>2. CASE entry # None
    <3>1. Counted(r, k) = [entry EXCEPT !.count = @ + 1] /\ entry \in Entries
      BY <1>1, <2>2 DEF Counted, TypeOK
    <3>2. Counted(r, k).count = entry.count + 1
          /\ Counted(r, k).firstSeen = entry.firstSeen
      BY <3>1 DEF Entries
    <3>3. clock - entry.firstSeen <= W /\ entry.count + 1 >= N
      BY <1>1, <1>2, <1>5, <2>2, <3>2 DEF Reached, Expired
    <3>4. Len(s) - entry.count + 1 \in 1..Len(s)
      BY <1>4, <2>2, <3>3 DEF CountsSeen
    <3> HIDE DEF t, s, N, entry
    <3> QED
      BY <1>2, <1>5, <1>7, <2>2, <3>3, <3>4
  <2> QED
    BY <2>1, <2>2
<1> HIDE DEF t, s, W, N, entry
<1>9. ASSUME NEW i \in 1..Len(t), NEW j \in 1..Len(t)
      PROVE  t[i].at - t[j].at <= W + MaxDelay
  <2>1. t[i].at <= t[i].handled /\ t[i].handled <= clock
    BY <1>6 DEF InOrder
  <2>2. clock - t[j].handled <= W /\ t[j].handled - t[j].at <= MaxDelay
    BY <1>6 DEF InOrder
  <2>3. /\ t[i].at \in Int /\ t[i].handled \in Int
        /\ t[j].at \in Int /\ t[j].handled \in Int
    BY <1>7
  <2> DEFINE ai == t[i].at
             hi == t[i].handled
             aj == t[j].at
             hj == t[j].handled
  <2> HIDE DEF ai, hi, aj, hj
  <2>4. /\ ai \in Int /\ hi \in Int /\ aj \in Int /\ hj \in Int
        /\ ai <= hi /\ hi <= clock /\ clock - hj <= W /\ hj - aj <= MaxDelay
    BY <2>1, <2>2, <2>3 DEF ai, hi, aj, hj
  <2>5. ai - aj <= W + MaxDelay
    BY <1>2, <2>4
  <2> QED
    BY <2>5 DEF ai, aj
<1> QED
  BY <1>1, <1>8, <1>9 DEF t, s, W, N

(* An alert of a threshold rule rests on as many events of one group as the  *)
(* rule asks for, unused by earlier alerts and inside its window, give or    *)
(* take the delay of their delivery (RuleEngine.AlertJustified;              *)
(* ruleMatcher.js:91-115).                                                   *)
THEOREM AlertsJustified == Spec => []AlertJustified
<1>1. Init => AlertJustified
  BY DEF Init, AlertJustified
<1>2. TypeOK /\ Orderly /\ AlertJustified /\ [Next]_vars => AlertJustified'
  <2> SUFFICES ASSUME TypeOK, Orderly, AlertJustified, [Next]_vars
               PROVE  AlertJustified'
    OBVIOUS
  <2>1. CASE triggered' = None
    BY <2>1 DEF AlertJustified
  <2>2. CASE UNCHANGED vars
    BY <2>2 DEF vars, AlertJustified
  <2> QED
    BY <2>1, <2>2, Justified DEF Next, LoadRules, Restart, Tick
<1> QED
  BY <1>1, <1>2, TypeInit, TypeNext, OrderlyInit, OrderlyNext, PTL DEF Spec

-----------------------------------------------------------------------------
LEMMA OneMoreSince ==
  ASSUME NEW s \in Seq(Seen), NEW x \in Seen, NEW time \in Int, NEW n \in Nat,
         AtMostSince(s, time, n)
  PROVE  AtMostSince(Append(s, x), time, n + 1)
<1> DEFINE t == Append(s, x)
<1>1. /\ Len(s) \in Nat /\ Len(t) = Len(s) + 1
      /\ \A i \in 1..Len(s) : t[i] = s[i]
  BY OneMore
<1> HIDE DEF t
<1>2. ASSUME NEW i \in 1..Len(t), t[i].handled >= time
      PROVE  Len(t) - i + 1 <= n + 1
  <2>1. CASE i \in 1..Len(s)
    <3>1. Len(s) - i + 1 <= n
      BY <1>1, <1>2, <2>1 DEF AtMostSince
    <3> QED
      BY <1>1, <2>1, <3>1
  <2>2. CASE i = Len(s) + 1
    BY <1>1, <2>2
  <2> QED
    BY <1>1, <2>1, <2>2
<1>3. \A i \in 1..Len(t) : t[i].handled >= time => Len(t) - i + 1 <= n + 1
  BY <1>2
<1> QED
  BY <1>3 DEF AtMostSince, t

LEMMA LaterSince ==
  ASSUME NEW s \in Seq(Seen), NEW t, NEW later, NEW window, NEW d \in 0..Len(s),
         Rest(s, t, d, later, window), NEW time, NEW n, AtMostSince(s, time, n)
  PROVE  AtMostSince(t, time, n)
<1>1. /\ Len(s) \in Nat /\ Len(t) = Len(s) - d
      /\ \A i \in 1..Len(t) : t[i] = s[i + d]
  BY LenProperties DEF Rest
<1>2. ASSUME NEW i \in 1..Len(t), t[i].handled >= time
      PROVE  Len(t) - i + 1 <= n
  <2> DEFINE j == i + d
  <2>1. j \in 1..Len(s) /\ t[i] = s[j] /\ Len(t) - i + 1 = Len(s) - j + 1
    BY <1>1
  <2> HIDE DEF j
  <2>2. Len(s) - j + 1 <= n
    BY <1>2, <2>1 DEF AtMostSince
  <2> QED
    BY <2>1, <2>2
<1>3. \A i \in 1..Len(t) : t[i].handled >= time => Len(t) - i + 1 <= n
  BY <1>2
<1> QED
  BY <1>3 DEF AtMostSince

(* An event opens a window: what the last one counted is older.              *)
LEMMA OpensMissesNothing ==
  ASSUME NEW s \in Seq(Seen), NEW x \in Seen, NEW now \in Int, NEW window \in Nat,
         NEW count \in Nat \ {0}, NEW entry, NEW after, x.handled = now,
         entry # None => /\ entry.count \in Nat \ {0} /\ entry.firstSeen \in Int
                         /\ count # 1 => entry.count < count,
         after # None, InOrder(s, now, window),
         MissesNothing(s, entry, now, count, window), Opens(entry, after, now, count, window)
  PROVE  MissesNothing(Append(s, x), after, now, count, window)
<1> DEFINE t == Append(s, x)
<1>1. /\ Len(s) \in Nat /\ Len(t) = Len(s) + 1
      /\ \A i \in 1..Len(s) : t[i] = s[i] /\ s[i].handled \in Int
      /\ t[Len(s) + 1] = x
  BY OneMore
<1> HIDE DEF t
<1>2. after.count = 1 /\ after.firstSeen = now /\ count # 1
  BY DEF Opens, MissesNothing
<1>3. ASSUME NEW i \in 1..Len(s)
      PROVE  /\ s[i].handled < now
             /\ s[i].handled >= now - window => Len(s) - i + 1 <= count - 2
  <2>1. s # <<>> /\ Len(s) \in 1..Len(s)
    BY <1>1, <1>3
  <2>2. /\ entry # None /\ now - entry.firstSeen > window
        /\ entry.count \in Nat \ {0} /\ entry.firstSeen \in Int /\ entry.count < count
    BY <1>2, <2>1 DEF MissesNothing, Opens
  <2>3. s[i].handled <= s[Len(s)].handled /\ s[Len(s)].handled <= entry.firstSeen + window
    BY <1>1, <2>1, <2>2 DEF MissesNothing, InOrder
  <2>4. s[i].handled < now
    <3> DEFINE hi == s[i].handled
               hl == s[Len(s)].handled
    <3>1. hi \in Int /\ hl \in Int
      BY <1>1, <2>1
    <3>2. hi <= hl /\ hl <= entry.firstSeen + window
      BY <2>3
    <3> HIDE DEF hi, hl
    <3>3. hi < now
      BY <2>2, <3>1, <3>2
    <3> QED
      BY <3>3 DEF hi
  <2>5. s[i].handled >= entry.firstSeen + 1 => Len(s) - i + 1 <= entry.count - 1
    BY <2>2 DEF MissesNothing, AtMostSince
  <2> DEFINE h == s[i].handled
             n == Len(s) - i + 1
  <2> HIDE DEF h, n
  <2>6. h \in Int /\ n \in Int
    BY <1>1 DEF h, n
  <2>7. h >= entry.firstSeen + 1 => n <= entry.count - 1
    BY <2>5 DEF h, n
  <2>8. h >= now - window => n <= count - 2
    BY <2>2, <2>6, <2>7
  <2> QED
    BY <2>4, <2>8 DEF h, n
<1>4. \A i \in 1..Len(t) : i \in 1..Len(s) \/ (i = Len(s) + 1 /\ t[i].handled = now)
  BY <1>1
<1>5. AtMostSince(t, now, 1)
  <2>1. ASSUME NEW i \in 1..Len(t), t[i].handled >= now
        PROVE  Len(t) - i + 1 <= 1
    BY <1>1, <1>3, <1>4, <2>1, SMTT(30)
  <2> QED
    BY <2>1 DEF AtMostSince
<1>6. AtMostSince(t, now + 1, 0)
  <2>1. ASSUME NEW i \in 1..Len(t), t[i].handled >= now + 1
        PROVE  FALSE
    BY <1>1, <1>3, <1>4, <2>1
  <2> QED
    BY <2>1 DEF AtMostSince
<1>7. AtMostSince(t, now - window, count - 1)
  <2>1. ASSUME NEW i \in 1..Len(t), t[i].handled >= now - window
        PROVE  Len(t) - i + 1 <= count - 1
    <3>1. CASE i \in 1..Len(s)
      <4>1. Len(s) - i + 1 <= count - 2
        BY <1>1, <1>3, <2>1, <3>1
      <4> QED
        BY <1>1, <3>1, <4>1
    <3>2. CASE i = Len(s) + 1
      BY <1>1, <1>2, <3>2
    <3> QED
      BY <1>4, <3>1, <3>2
  <2> QED
    BY <2>1 DEF AtMostSince
<1>8. t[Len(t)].handled = now
  BY <1>1
<1>9. /\ after.count - 1 = 0 /\ after.firstSeen + 1 = now + 1
      /\ after.firstSeen - window = now - window
      /\ after.count + count - 2 = count - 1
      /\ now <= now + window
  BY <1>2
<1> QED
  BY <1>2, <1>5, <1>6, <1>7, <1>8, <1>9 DEF MissesNothing, t

(* An event joins a window.                                                  *)
LEMMA JoinsMissesNothing ==
  ASSUME NEW s \in Seq(Seen), NEW x \in Seen, NEW now \in Int, NEW window \in Nat,
         NEW count \in Nat \ {0}, NEW entry, NEW after, x.handled = now,
         entry # None => entry.count \in Nat \ {0} /\ entry.firstSeen \in Int,
         after # None,
         MissesNothing(s, entry, now, count, window), Joins(entry, after, now, window)
  PROVE  MissesNothing(Append(s, x), after, now, count, window)
<1> DEFINE t == Append(s, x)
           n == entry.count
           f == entry.firstSeen
<1>1. Len(s) \in Nat /\ Len(t) = Len(s) + 1 /\ t[Len(s) + 1] = x
  BY OneMore
<1>2. /\ entry # None /\ after.count = n + 1 /\ after.firstSeen = f
      /\ n \in Nat \ {0} /\ f \in Int /\ now - f <= window
  BY DEF Joins
<1>3. /\ count # 1 /\ f <= now /\ AtMostSince(s, f, n) /\ AtMostSince(s, f + 1, n - 1)
      /\ AtMostSince(s, f - window, n + count - 2)
  BY <1>2 DEF MissesNothing
<1> HIDE DEF n, f
<1>4. n - 1 \in Nat /\ n + count - 2 \in Nat /\ f + 1 \in Int /\ f - window \in Int
  BY <1>2, <1>3
<1>5. /\ AtMostSince(t, f, n + 1) /\ AtMostSince(t, f + 1, (n - 1) + 1)
      /\ AtMostSince(t, f - window, (n + count - 2) + 1)
  BY <1>2, <1>3, <1>4, OneMoreSince
<1>6. (n - 1) + 1 = after.count - 1 /\ (n + count - 2) + 1 = after.count + count - 2
  BY <1>2
<1>7. f <= t[Len(t)].handled /\ t[Len(t)].handled <= f + window
  BY <1>1, <1>2, <1>3, SMTT(30)
<1> HIDE DEF t
<1> QED
  BY <1>2, <1>3, <1>5, <1>6, <1>7 DEF MissesNothing, t

LEMMA LaterMissesNothing ==
  ASSUME NEW s \in Seq(Seen), NEW t, NEW now \in Int, NEW later \in Int, later = now + 1,
         NEW window \in Nat, NEW count, NEW entry, entry # None => entry.firstSeen \in Int,
         NEW d \in 0..Len(s), Rest(s, t, d, later, window),
         MissesNothing(s, entry, now, count, window)
  PROVE  MissesNothing(t, entry, later, count, window)
<1>1. /\ Len(s) \in Nat /\ t \in Seq(Seen) /\ Len(t) = Len(s) - d
      /\ \A i \in 1..Len(t) : t[i] = s[i + d]
  BY LenProperties DEF Rest
<1>2. CASE entry = None
  <2>1. s = <<>>
    BY <1>2 DEF MissesNothing
  <2>2. Len(t) = 0
    BY <1>1, <2>1
  <2>3. t = <<>>
    BY <1>1, <2>2, EmptySeq
  <2> QED
    BY <1>2, <2>3 DEF MissesNothing
<1>3. CASE entry # None
  <2>1. /\ AtMostSince(t, entry.firstSeen, entry.count)
        /\ AtMostSince(t, entry.firstSeen + 1, entry.count - 1)
        /\ AtMostSince(t, entry.firstSeen - window, entry.count + count - 2)
    BY <1>3, LaterSince DEF MissesNothing
  <2>2. count # 1 /\ entry.firstSeen <= later
    BY <1>3 DEF MissesNothing
  <2>3. ASSUME t # <<>>
        PROVE  /\ entry.firstSeen <= t[Len(t)].handled
               /\ t[Len(t)].handled <= entry.firstSeen + window
    <3>1. Len(t) \in 1..Len(t) /\ Len(t) + d = Len(s) /\ s # <<>>
      BY <1>1, <2>3, EmptySeq
    <3>2. t[Len(t)] = s[Len(s)]
      BY <1>1, <3>1
    <3> QED
      BY <1>3, <3>1, <3>2 DEF MissesNothing
  <2> QED
    BY <1>3, <2>1, <2>2, <2>3 DEF MissesNothing
<1> QED
  BY <1>2, <1>3

-----------------------------------------------------------------------------
LEMMA NothingMissed == \A now, count, window : MissesNothing(<<>>, None, now, count, window)
BY DEF MissesNothing

LEMMA CompleteInit == Init => Complete
<1> SUFFICES ASSUME Init, NEW r \in Rules, NEW k \in Keys
             PROVE  MissesNothing(seen[r][k], thresholdCache[r][k], clock,
                                  Threshold[r].count, Threshold[r].window)
  BY DEF Complete
<1>1. seen[r][k] = <<>> /\ thresholdCache[r][k] = None
  BY DEF Init
<1> QED
  BY <1>1, NothingMissed

LEMMA CompleteNext == TypeOK /\ Orderly /\ Complete /\ [Next]_vars => Complete'
<1> SUFFICES ASSUME TypeOK, Orderly, Complete, [Next]_vars,
                    NEW r \in Rules, NEW k \in Keys, Threshold[r] # None, Unshadowed(r)
             PROVE  MissesNothing(seen'[r][k], thresholdCache'[r][k], clock',
                                  Threshold[r].count, Threshold[r].window)
  BY DEF Complete, Unshadowed
<1> DEFINE s == seen[r][k]
           entry == thresholdCache[r][k]
           N == Threshold[r].count
           W == Threshold[r].window
           Goal == MissesNothing(seen'[r][k], thresholdCache'[r][k], clock', N, W)
<1>1. MissesNothing(s, entry, clock, N, W)
  BY DEF Complete
<1>2. /\ N \in Nat \ {0} /\ W \in Nat /\ clock \in Int /\ s \in Seq(Seen)
      /\ InOrder(s, clock, W)
  BY ThresholdType, RuleEngineAssumption DEF TypeOK, Orderly
<1>3. entry # None => /\ entry.count \in Nat \ {0} /\ entry.firstSeen \in Int
                      /\ N # 1 => entry.count < N
  BY EntryOK
<1>4. ASSUME NEW e \in Events, NEW at \in (clock - MaxDelay)..clock, Evaluate(e, at)
      PROVE  Goal
  <2> DEFINE x == [at |-> at, handled |-> clock]
  <2>1. clock' = clock
    BY <1>4 DEF Evaluate
  <2>2. x \in Seen /\ x.handled = clock
    BY <1>2, RuleEngineAssumption DEF Seen
  <2>3. CASE seen'[r][k] = s /\ thresholdCache'[r][k] = entry
    BY <1>1, <2>1, <2>3
  <2>4. CASE seen'[r][k] = <<>> /\ thresholdCache'[r][k] = None
    BY <2>4, NothingMissed
  <2>5. CASE /\ seen'[r][k] = Append(s, x) /\ thresholdCache'[r][k] = EntryAfter(r, k)
             /\ ~ Reached(r, k)
    <3> DEFINE after == EntryAfter(r, k)
    <3>1. after # None /\ (Opens(entry, after, clock, N, W) \/ Joins(entry, after, clock, W))
      BY <2>5, EntryCases
    <3> HIDE DEF after, s, entry, N, W, x
    <3>2. MissesNothing(Append(s, x), after, clock, N, W)
      BY <1>1, <1>2, <1>3, <2>2, <3>1, OpensMissesNothing, JoinsMissesNothing
    <3> QED
      BY <2>1, <2>5, <3>2 DEF after, N, W
  <2> QED
    BY <1>4, <2>3, <2>4, <2>5, EvaluateCases
<1>5. ASSUME NEW list \in RuleLists, LoadRules(list)
      PROVE  Goal
  BY <1>1, <1>5 DEF LoadRules
<1>6. CASE Restart
  <2>1. seen'[r][k] = <<>> /\ thresholdCache'[r][k] = None
    BY <1>6 DEF Restart
  <2> QED
    BY <2>1, NothingMissed
<1>7. CASE Tick
  <2> DEFINE t == seen'[r][k]
             later == clock + 1
  <2>1. clock' = later /\ thresholdCache'[r][k] = entry
    BY <1>7 DEF Tick
  <2>2. PICK d \in 0..Len(s) : Rest(s, t, d, later, W)
    BY <1>2, <1>7, TickCases
  <2>3. later \in Int /\ later = clock + 1
    BY <1>2
  <2> HIDE DEF s, t, entry, N, W, later
  <2>4. MissesNothing(t, entry, later, N, W)
    BY <1>1, <1>2, <1>3, <2>2, <2>3, LaterMissesNothing
  <2> QED
    BY <2>1, <2>4 DEF t, N, W
<1>8. CASE UNCHANGED vars
  BY <1>1, <1>8 DEF vars
<1> QED
  BY <1>4, <1>5, <1>6, <1>7, <1>8 DEF Next

(* A counter that misses nothing leaves no room for a burst: of the events   *)
(* of one window, no more belong to the last counter and the window before   *)
(* it than 2 * count - 3.                                                    *)
LEMMA NoBurst == TypeOK /\ Complete => BurstDetected
<1> SUFFICES ASSUME TypeOK, Complete,
                    NEW r \in Rules, NEW k \in Keys, Threshold[r] # None, Unshadowed(r),
                    Burst(r, k)
             PROVE  FALSE
  BY DEF BurstDetected
<1> DEFINE s == seen[r][k]
           entry == thresholdCache[r][k]
           N == Threshold[r].count
           W == Threshold[r].window
<1>1. MissesNothing(s, entry, clock, N, W) /\ N \in Nat \ {0} /\ W \in Nat
  BY ThresholdType DEF Complete
<1>2. /\ s \in Seq(Seen) /\ Len(s) \in Nat
      /\ \A i \in 1..Len(s) : s[i].handled \in Int
  <2>1. s \in Seq(Seen)
    BY DEF TypeOK
  <2>2. \A i \in 1..Len(s) : s[i] \in Seen
    BY <2>1, ElementOfSeq
  <2> QED
    BY <2>1, <2>2, LenProperties DEF Seen
<1>3. PICK i \in 1..Len(s) :
        /\ Len(s) - i + 1 >= IF N = 1 THEN 1 ELSE 2 * N - 2
        /\ s[Len(s)].handled - s[i].handled <= W
  BY DEF Burst
<1>4. entry # None => entry.count \in Nat /\ entry.firstSeen \in Int /\ (N # 1 => entry.count < N)
  BY EntryOK
<1> HIDE DEF s, entry, N, W
<1>5. s # <<>> /\ Len(s) \in 1..Len(s)
  BY <1>2, <1>3
<1>6. /\ entry # None /\ N # 1 /\ entry.firstSeen <= s[Len(s)].handled
      /\ s[i].handled >= entry.firstSeen - W => Len(s) - i + 1 <= entry.count + N - 2
  BY <1>1, <1>5 DEF MissesNothing, AtMostSince
<1>7. s[i].handled >= entry.firstSeen - W
  <2> DEFINE hi == s[i].handled
             hl == s[Len(s)].handled
  <2>1. hi \in Int /\ hl \in Int
    BY <1>2, <1>5
  <2>2. hl - hi <= W /\ entry.firstSeen <= hl /\ entry.firstSeen \in Int
    BY <1>3, <1>4, <1>6
  <2> HIDE DEF hi, hl
  <2>3. hi >= entry.firstSeen - W
    BY <1>1, <2>1, <2>2
  <2> QED
    BY <2>3 DEF hi
<1> DEFINE n == Len(s) - i + 1
<1>8. n \in Int /\ n >= 2 * N - 2 /\ n <= entry.count + N - 2
  BY <1>2, <1>3, <1>6, <1>7
<1> HIDE DEF n
<1> QED
  BY <1>1, <1>4, <1>6, <1>8

(* No burst of 2 * count - 2 events in a window goes by without an alert of  *)
(* a rule that no earlier rule shadows, whatever rules come and go and       *)
(* however often the worker restarts (RuleEngine.BurstDetected;              *)
(* ruleMatcher.js:104-115).                                                  *)
THEOREM BurstsDetected == Spec => []BurstDetected
<1> QED
  BY TypeInit, TypeNext, OrderlyInit, OrderlyNext, CompleteInit, CompleteNext,
     NoBurst,
     PTL DEF Spec
=============================================================================
