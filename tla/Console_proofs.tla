--------------------------- MODULE Console_proofs ---------------------------
(* Proofs about Pipeline and Console, for any connections, agents, batches, *)
(* users and pages, and any capacity of the websocket.                      *)
EXTENDS Console, SequenceTheorems, FiniteSetTheorems, TLAPS

(* The item a connection is at, if it is in a batch; what the stages say of *)
(* it.                                                                      *)
AtItem ==
  \A c \in Conns :
    /\ stage[c] \in {"idle", "decrypt"} => rec[c] = 1 /\ pos[c] = 1
    /\ stage[c] \notin {"idle", "done"} =>
         rec[c] <= Len(batch[c]) /\ pos[c] <= Len(Record(c).items)
Hand(c) ==
  /\ stage[c] \in {"alert", "name"} =>
       Item(c) \in stored /\ Alert[Item(c)] # "none" /\ Message("AGENT_LOG", c, Item(c)) \in sent
  /\ stage[c] = "name" => Item(c) \in alerted
InHand == \A c \in Conns : Hand(c)

(* An item has an alert, and is announced, only once it is in hand.         *)
Begun(c, r, i, stages) ==
  Passed(c, r, i) \/ (r = rec[c] /\ i = pos[c] /\ stage[c] \in stages)
InTurn(c, r, i) ==
  LET item == batch[c][r].items[i]
  IN  /\ item \in alerted => Begun(c, r, i, {"name"})
      /\ \A m \in sent : m.item = item =>
           \/ m.type = "AGENT_LOG" /\ Begun(c, r, i, {"alert", "name"})
           \/ m.type = "RULE_ALERT" /\ Begun(c, r, i, {"log", "alert", "name"})
NotAhead ==
  \A c \in Conns : \A r \in DOMAIN batch[c] : \A i \in DOMAIN batch[c][r].items : InTurn(c, r, i)

(* An item that was passed without being announced had one before it in its *)
(* list whose alert is not saved.                                           *)
Excused(c, r, i) ==
  LET items == batch[c][r].items
  IN  \/ Message("AGENT_LOG", c, items[i]) \in sent
      \/ /\ batch[c][r].software
         /\ \E j \in 1..(i - 1) : Alert[items[j]] # "none" /\ items[j] \notin alerted
NoneSkipped ==
  \A c \in Conns : \A r \in DOMAIN batch[c] : \A i \in DOMAIN batch[c][r].items :
    Passed(c, r, i) => Excused(c, r, i)

(* Every announcement is in one place: lost, on the websocket, in a task, or *)
(* for each page shown on it or missed.                                     *)
IsNews(m) == m.type # "UPDATE_LAST_ACTIVE"
Handled(ts) == {m \in {ts[i].msg : i \in 1..Len(ts)} : IsNews(m)}
Once(s) == \A i, j \in 1..Len(s) : IsNews(s[i]) /\ s[i] = s[j] => i = j
OnceHandled(ts) ==
  \A i, j \in 1..Len(ts) : IsNews(ts[i].msg) /\ ts[i].msg = ts[j].msg => i = j
Split(all, a, b, c, d, e) ==
  /\ all = a \cup b \cup c \cup d \cup e
  /\ a \cap (b \cup c \cup d \cup e) = {} /\ b \cap (c \cup d \cup e) = {}
  /\ c \cap (d \cup e) = {} /\ d \cap e = {}
OnePlace ==
  /\ Once(toMaster) /\ OnceHandled(tasks)
  /\ News(toMaster) \cup Handled(tasks) \subseteq sent
  /\ News(toMaster) \cap Handled(tasks) = {}
  /\ \A p \in Pages : Split(sent, unsent, News(toMaster), Handled(tasks), shown[p], missed[p])
Own == \A p \in Pages : \A m \in shown[p] : Owns(p, m.agent)

-----------------------------------------------------------------------------
(* What a batch is made of, and what a connection has in hand.              *)
LEMMA BatchIs ==
  ASSUME PipelineTypeOK, NEW c \in Conns
  PROVE  /\ batch[c] \in Seq(Records) /\ Len(batch[c]) \in Nat
         /\ DOMAIN batch[c] = 1..Len(batch[c])
         /\ \A r \in DOMAIN batch[c] :
              /\ batch[c][r].software \in BOOLEAN
              /\ batch[c][r].items \in Seq(Items) /\ Len(batch[c][r].items) \in Nat \ {0}
              /\ DOMAIN batch[c][r].items = 1..Len(batch[c][r].items)
              /\ \A i \in DOMAIN batch[c][r].items : batch[c][r].items[i] \in Items
              /\ ~ batch[c][r].software => Len(batch[c][r].items) = 1
<1>1. batch \in Batches /\ batch[c] \in Seq(Records)
  BY PipelineAssumption DEF PipelineTypeOK
<1>2. Len(batch[c]) \in Nat /\ DOMAIN batch[c] = 1..Len(batch[c])
  BY <1>1, LenProperties
<1>3. ASSUME NEW r \in DOMAIN batch[c]
      PROVE  /\ batch[c][r].software \in BOOLEAN
             /\ batch[c][r].items \in Seq(Items) /\ Len(batch[c][r].items) \in Nat \ {0}
             /\ DOMAIN batch[c][r].items = 1..Len(batch[c][r].items)
             /\ \A i \in DOMAIN batch[c][r].items : batch[c][r].items[i] \in Items
             /\ ~ batch[c][r].software => Len(batch[c][r].items) = 1
  <2>1. batch[c][r] \in Records
    BY <1>1, <1>2, ElementOfSeq
  <2>2. batch[c][r].software \in BOOLEAN /\ batch[c][r].items \in Seq(Items)
    BY <2>1 DEF Records
  <2>3. batch[c][r].items # <<>> /\ (~ batch[c][r].software => Len(batch[c][r].items) = 1)
    BY <1>1, PipelineAssumption
  <2> DEFINE items == batch[c][r].items
  <2>4. items \in Seq(Items) /\ items # <<>>
    BY <2>2, <2>3
  <2> HIDE DEF items
  <2>5. /\ Len(items) \in Nat \ {0} /\ DOMAIN items = 1..Len(items)
        /\ \A i \in 1..Len(items) : items[i] \in Items
    BY <2>4, LenProperties, EmptySeq, ElementOfSeq
  <2> QED
    BY <2>2, <2>3, <2>5 DEF items
<1> QED
  BY <1>1, <1>2, <1>3

LEMMA ItemIs ==
  ASSUME PipelineTypeOK, AtItem, NEW c \in Conns, stage[c] \notin {"idle", "done"}
  PROVE  /\ rec[c] \in DOMAIN batch[c] /\ pos[c] \in DOMAIN Record(c).items
         /\ Item(c) \in Items /\ Record(c).software \in BOOLEAN
         /\ Len(Record(c).items) \in Nat \ {0}
         /\ ~ Record(c).software => Len(Record(c).items) = 1
<1>1. rec[c] \in Nat \ {0} /\ pos[c] \in Nat \ {0}
  BY DEF PipelineTypeOK
<1>2. rec[c] <= Len(batch[c]) /\ pos[c] <= Len(Record(c).items)
  BY DEF AtItem
<1>3. rec[c] \in DOMAIN batch[c]
  BY <1>1, <1>2, BatchIs
<1>4. /\ Len(Record(c).items) \in Nat \ {0} /\ Record(c).software \in BOOLEAN
      /\ DOMAIN Record(c).items = 1..Len(Record(c).items)
      /\ \A i \in DOMAIN Record(c).items : Record(c).items[i] \in Items
      /\ ~ Record(c).software => Len(Record(c).items) = 1
  BY <1>3, BatchIs DEF Record
<1>5. pos[c] \in DOMAIN Record(c).items
  BY <1>1, <1>2, <1>4
<1> QED
  BY <1>3, <1>4, <1>5 DEF Item

(* Where a connection is, and that it is in its batch, while it handles it. *)
Standing ==
  /\ batch \in Batches
  /\ rec \in [Conns -> Nat \ {0}] /\ \A c \in Conns : rec[c] <= Len(batch[c]) + 1
  /\ pos \in [Conns -> Nat \ {0}]
  /\ stage \in [Conns -> {"idle", "decrypt", "next", "log", "alert", "name", "done"}]
  /\ AtItem

Elsewhere(c) ==
  /\ batch' = batch
  /\ \A d \in Conns : d # c => rec'[d] = rec[d] /\ pos'[d] = pos[d] /\ stage'[d] = stage[d]

LEMMA Goes ==
  ASSUME PipelineTypeOK, AtItem, NEW c \in Conns,
         NEW r \in Nat \ {0}, NEW p \in Nat \ {0}, GoTo(c, r, p),
         r <= Len(batch[c]) + 1, r <= Len(batch[c]) => p <= Len(batch[c][r].items)
  PROVE  /\ Standing' /\ Elsewhere(c)
         /\ rec'[c] = r /\ pos'[c] = p /\ stage'[c] \in {"next", "done"}
<1>1. /\ rec' = [rec EXCEPT ![c] = r] /\ pos' = [pos EXCEPT ![c] = p] /\ batch' = batch
      /\ stage' = [stage EXCEPT ![c] = IF r > Len(batch[c]) THEN "done" ELSE "next"]
  BY DEF GoTo
<1>2. /\ rec'[c] = r /\ pos'[c] = p /\ stage'[c] \in {"next", "done"}
      /\ stage'[c] # "done" => ~ (r > Len(batch[c]))
  BY <1>1 DEF PipelineTypeOK
<1>3. Elsewhere(c)
  BY <1>1 DEF Elsewhere, PipelineTypeOK
<1>4. Len(batch[c]) \in Nat
  BY BatchIs
<1>5. /\ batch' \in Batches /\ rec' \in [Conns -> Nat \ {0}] /\ pos' \in [Conns -> Nat \ {0}]
      /\ stage' \in [Conns -> {"idle", "decrypt", "next", "log", "alert", "name", "done"}]
  BY <1>1 DEF PipelineTypeOK
<1>6. ASSUME NEW d \in Conns
      PROVE  /\ rec'[d] <= Len(batch'[d]) + 1
             /\ stage'[d] \in {"idle", "decrypt"} => rec'[d] = 1 /\ pos'[d] = 1
             /\ stage'[d] \notin {"idle", "done"} =>
                  rec'[d] <= Len(batch'[d]) /\ pos'[d] <= Len(Record(d)'.items)
  <2>1. CASE d = c
    <3>1. stage'[c] # "done" => r <= Len(batch[c])
      BY <1>2, <1>4
    <3> QED
      BY <1>1, <1>2, <2>1, <3>1 DEF Record
  <2>2. CASE d # c
    BY <1>3, <2>2 DEF Elsewhere, AtItem, PipelineTypeOK, Record
  <2> QED
    BY <2>1, <2>2
<1> QED
  BY <1>2, <1>3, <1>5, <1>6 DEF Standing, AtItem

LEMMA Waits ==
  ASSUME PipelineTypeOK, AtItem, NEW c \in Conns,
         NEW query \in {"decrypt", "log", "alert", "name"}, Await(c, query),
         \/ stage[c] \notin {"idle", "decrypt", "done"} /\ query # "decrypt"
         \/ stage[c] = "idle" /\ batch[c] # <<>>
  PROVE  /\ Standing' /\ Elsewhere(c) /\ UNCHANGED <<rec, pos, batch>> /\ stage'[c] = query
<1>1. UNCHANGED <<rec, pos, batch>> /\ stage' = [stage EXCEPT ![c] = query]
  BY DEF Await
<1>2. stage'[c] = query /\ Elsewhere(c)
  BY <1>1 DEF Elsewhere, PipelineTypeOK
<1>3. ASSUME stage[c] = "idle", batch[c] # <<>>
      PROVE  rec[c] = 1 /\ pos[c] = 1 /\ 1 <= Len(batch[c]) /\ 1 <= Len(Record(c).items)
  <2>1. rec[c] = 1 /\ pos[c] = 1
    BY <1>3 DEF AtItem
  <2>2. Len(batch[c]) \in Nat \ {0} /\ 1 \in DOMAIN batch[c]
    BY <1>3, BatchIs, EmptySeq
  <2> QED
    BY <2>1, <2>2, BatchIs DEF Record
<1>4. ASSUME NEW d \in Conns
      PROVE  /\ stage'[d] \in {"idle", "decrypt"} => rec'[d] = 1 /\ pos'[d] = 1
             /\ stage'[d] \notin {"idle", "done"} =>
                  rec'[d] <= Len(batch'[d]) /\ pos'[d] <= Len(Record(d)'.items)
  <2>1. Record(d)' = Record(d)
    BY <1>1 DEF Record
  <2>2. CASE d = c
    BY <1>1, <1>2, <1>3, <2>1, <2>2 DEF AtItem
  <2>3. CASE d # c
    BY <1>1, <1>2, <2>1, <2>3 DEF Elsewhere, AtItem
  <2> QED
    BY <2>2, <2>3
<1>5. AtItem'
  BY <1>4 DEF AtItem
<1> QED
  BY <1>1, <1>2, <1>5 DEF Standing, PipelineTypeOK

(* The item that was in hand is passed, and after an exception those behind *)
(* it in the record.                                                        *)
Advances(c) ==
  /\ Standing' /\ Elsewhere(c) /\ stage'[c] \in {"next", "done"}
  /\ \A r \in DOMAIN batch[c] : \A i \in DOMAIN batch[c][r].items :
       /\ Passed(c, r, i) \/ (r = rec[c] /\ i = pos[c]) => Passed(c, r, i)'
       /\ Passed(c, r, i)' => Passed(c, r, i) \/ (r = rec[c] /\ i >= pos[c])

LEMMA NextItemIs ==
  ASSUME PipelineTypeOK, AtItem, NEW c \in Conns, stage[c] \notin {"idle", "done"},
         NextItem(c) \/ Throws(c)
  PROVE  /\ Advances(c)
         /\ NextItem(c) => \A r \in DOMAIN batch[c] : \A i \in DOMAIN batch[c][r].items :
              Passed(c, r, i)' => Passed(c, r, i) \/ (r = rec[c] /\ i = pos[c])
<1>1. /\ rec[c] \in Nat \ {0} /\ pos[c] \in Nat \ {0} /\ Len(batch[c]) \in Nat
      /\ Len(Record(c).items) \in Nat \ {0}
      /\ rec[c] <= Len(batch[c]) /\ pos[c] <= Len(Record(c).items)
  BY ItemIs, BatchIs DEF PipelineTypeOK, AtItem
<1>2. \A r \in DOMAIN batch[c] : \A i \in DOMAIN batch[c][r].items :
        /\ r \in Nat /\ i \in Nat /\ r <= Len(batch[c])
        /\ r = rec[c] => i <= Len(Record(c).items)
  BY BatchIs DEF Record
<1>3. CASE pos[c] < Len(Record(c).items) /\ GoTo(c, rec[c], pos[c] + 1)
  <2>1. /\ Standing' /\ Elsewhere(c)
        /\ rec'[c] = rec[c] /\ pos'[c] = pos[c] + 1 /\ stage'[c] \in {"next", "done"}
    BY <1>1, <1>3, Goes DEF Record
  <2>2. \A r \in DOMAIN batch[c] : \A i \in DOMAIN batch[c][r].items :
          Passed(c, r, i)' <=> Passed(c, r, i) \/ (r = rec[c] /\ i = pos[c])
    BY <1>1, <1>2, <2>1 DEF Passed
  <2>3. \A r \in DOMAIN batch[c] : \A i \in DOMAIN batch[c][r].items : i = pos[c] => i >= pos[c]
    BY <1>1
  <2> QED
    BY <2>1, <2>2, <2>3 DEF Advances
<1>4. CASE GoTo(c, rec[c] + 1, 1)
  <2>1. rec[c] + 1 <= Len(batch[c]) => 1 <= Len(batch[c][rec[c] + 1].items)
    BY <1>1, BatchIs
  <2>2. /\ Standing' /\ Elsewhere(c)
        /\ rec'[c] = rec[c] + 1 /\ pos'[c] = 1 /\ stage'[c] \in {"next", "done"}
    <3>1. rec[c] + 1 \in Nat \ {0} /\ 1 \in Nat \ {0} /\ rec[c] + 1 <= Len(batch[c]) + 1
      BY <1>1
    <3> QED
      BY <1>4, <2>1, <3>1, Goes
  <2>3. \A r \in DOMAIN batch[c] : \A i \in DOMAIN batch[c][r].items : i >= 1
    BY BatchIs
  <2>4. \A r \in DOMAIN batch[c] : \A i \in DOMAIN batch[c][r].items :
          /\ Passed(c, r, i)' <=> r <= rec[c]
          /\ Passed(c, r, i) \/ (r = rec[c] /\ i >= pos[c]) <=> r <= rec[c]
    BY <1>1, <1>2, <2>2, <2>3 DEF Passed
  <2>5. Advances(c)
    <3>1. \A i : i = pos[c] => i >= pos[c]
      BY <1>1
    <3> QED
      BY <2>2, <2>4, <3>1 DEF Advances
  <2>6. NextItem(c) => pos[c] = Len(Record(c).items)
    <3>1. GoTo(c, rec[c], pos[c] + 1) => rec'[c] = rec[c]
      BY DEF GoTo, PipelineTypeOK
    <3> QED
      BY <1>1, <2>2, <3>1 DEF NextItem
  <2>7. ASSUME NextItem(c), NEW r \in DOMAIN batch[c], NEW i \in DOMAIN batch[c][r].items,
               Passed(c, r, i)'
        PROVE  Passed(c, r, i) \/ (r = rec[c] /\ i = pos[c])
    <3>1. Passed(c, r, i) \/ (r = rec[c] /\ i >= pos[c])
      BY <2>4, <2>7
    <3>2. r = rec[c] /\ i >= pos[c] => i = pos[c]
      BY <1>1, <1>2, <2>6, <2>7
    <3> QED
      BY <3>1, <3>2
  <2> QED
    BY <2>5, <2>7
<1> QED
  BY <1>3, <1>4 DEF NextItem, Throws

-----------------------------------------------------------------------------
(* What sendToMaster, a read and the end of the websocket do to a queue.    *)
LEMMA NewsOf ==
  ASSUME NEW S, NEW s \in Seq(S)
  PROVE  News(s) = {m \in {s[i] : i \in 1..Len(s)} : IsNews(m)}
<1>1. DOMAIN s = 1..Len(s)
  BY LenProperties
<1> QED
  BY <1>1 DEF News, ToSet, IsNews

NewsIs(m) == IF IsNews(m) THEN {m} ELSE {}

LEMMA NewsOfFew ==
  ASSUME NEW m \in Messages
  PROVE  News(<<>>) = {} /\ News(<<m>>) = NewsIs(m)
<1>1. <<>> \in Seq(Messages) /\ <<m>> \in Seq(Messages) /\ Len(<<>>) = 0 /\ Len(<<m>>) = 1
      /\ <<m>>[1] = m
  BY EmptySeq
<1>2. News(<<>>) = {}
  <2>1. News(<<>>) = {x \in {<<>>[i] : i \in 1..Len(<<>>)} : IsNews(x)}
    BY <1>1, NewsOf
  <2>2. {<<>>[i] : i \in 1..Len(<<>>)} = {}
    BY <1>1
  <2> QED
    BY <2>1, <2>2
<1>3. News(<<m>>) = {x \in {<<m>>[i] : i \in 1..Len(<<m>>)} : IsNews(x)}
  BY <1>1, NewsOf
<1>4. {<<m>>[i] : i \in 1..Len(<<m>>)} = {m}
  BY <1>1
<1> QED
  BY <1>2, <1>3, <1>4 DEF NewsIs

Gains(t, s, m) ==
  /\ News(t) = News(s) \cup NewsIs(m)
  /\ Once(s) /\ m \notin News(s) => Once(t)

LEMMA Queued ==
  ASSUME NEW s \in Seq(Messages), NEW m \in Messages
  PROVE  /\ s \o <<m>> \in Seq(Messages) /\ Len(s \o <<m>>) = Len(s) + 1 /\ Len(s) \in Nat
         /\ Gains(s \o <<m>>, s, m)
<1> DEFINE t == s \o <<m>>
<1>1. /\ t \in Seq(Messages) /\ Len(t) = Len(s) + 1 /\ Len(s) \in Nat
      /\ \A i \in 1..Len(s) : t[i] = s[i]
      /\ t[Len(s) + 1] = m
  <2>1. t = Append(s, m)
    BY DEF t
  <2> QED
    BY <2>1, AppendProperties, LenProperties
<1> HIDE DEF t
<1>2. \A i : i \in 1..Len(t) <=> i \in 1..Len(s) \/ i = Len(s) + 1
  BY <1>1
<1>3. {t[i] : i \in 1..Len(t)} = {s[i] : i \in 1..Len(s)} \cup {m}
  BY <1>1, <1>2
<1>4. /\ News(t) = {x \in {t[i] : i \in 1..Len(t)} : IsNews(x)}
      /\ News(s) = {x \in {s[i] : i \in 1..Len(s)} : IsNews(x)}
  BY <1>1, NewsOf
<1>5. News(t) = News(s) \cup NewsIs(m)
  BY <1>3, <1>4 DEF NewsIs
<1>6. ASSUME Once(s), m \notin News(s)
      PROVE  Once(t)
  <2> SUFFICES ASSUME NEW i \in 1..Len(t), NEW j \in 1..Len(t), IsNews(t[i]), t[i] = t[j]
               PROVE  i = j
    BY DEF Once
  <2>1. \A k \in 1..Len(s) : IsNews(s[k]) => s[k] # m
    BY <1>4, <1>6
  <2>2. i \in 1..Len(s) <=> j \in 1..Len(s)
    BY <1>1, <1>2, <2>1
  <2>3. CASE i \in 1..Len(s)
    BY <1>1, <1>6, <2>2, <2>3 DEF Once
  <2>4. CASE i \notin 1..Len(s)
    BY <1>2, <2>2, <2>4
  <2> QED
    BY <2>3, <2>4
<1> QED
  BY <1>1, <1>5, <1>6 DEF t, Gains

LEMMA Dequeued ==
  ASSUME NEW s \in Seq(Messages), s # <<>>
  PROVE  /\ Tail(s) \in Seq(Messages) /\ Len(Tail(s)) = Len(s) - 1 /\ Len(s) \in Nat
         /\ Head(s) \in Messages
         /\ News(s) = News(Tail(s)) \cup NewsIs(Head(s))
         /\ Once(s) => Once(Tail(s)) /\ Head(s) \notin News(Tail(s))
<1> DEFINE t == Tail(s)
           h == Head(s)
<1>1. /\ t \in Seq(Messages) /\ Len(t) = Len(s) - 1 /\ Len(s) \in Nat \ {0}
      /\ h = s[1] /\ h \in Messages
      /\ \A i \in 1..Len(t) : t[i] = s[i + 1]
  BY HeadTailProperties, EmptySeq, LenProperties
<1> HIDE DEF t, h
<1>2. /\ \A i \in 1..Len(t) : i + 1 \in 1..Len(s) /\ i + 1 # 1 /\ t[i] = s[i + 1]
      /\ \A i \in 1..Len(s) : i # 1 => i - 1 \in 1..Len(t) /\ t[i - 1] = s[i]
      /\ 1 \in 1..Len(s)
  BY <1>1
<1>3. /\ News(t) = {x \in {t[i] : i \in 1..Len(t)} : IsNews(x)}
      /\ News(s) = {x \in {s[i] : i \in 1..Len(s)} : IsNews(x)}
  BY <1>1, NewsOf
<1>4. ASSUME NEW x \in News(s)
      PROVE  x \in News(t) \cup NewsIs(h)
  <2>1. PICK i \in 1..Len(s) : x = s[i] /\ IsNews(x)
    BY <1>3
  <2>2. CASE i = 1
    BY <1>1, <2>1, <2>2 DEF NewsIs
  <2>3. CASE i # 1
    BY <1>2, <1>3, <2>1, <2>3
  <2> QED
    BY <2>2, <2>3
<1>5. ASSUME NEW x \in News(t) \cup NewsIs(h)
      PROVE  x \in News(s)
  <2>1. CASE x \in News(t)
    <3>1. PICK i \in 1..Len(t) : x = t[i] /\ IsNews(x)
      BY <1>3, <2>1
    <3>2. i + 1 \in 1..Len(s) /\ x = s[i + 1]
      BY <1>2, <3>1
    <3> QED
      BY <1>3, <3>1, <3>2
  <2>2. CASE x \in NewsIs(h)
    BY <1>1, <1>2, <1>3, <2>2 DEF NewsIs
  <2> QED
    BY <2>1, <2>2
<1>6. ASSUME Once(s)
      PROVE  Once(t) /\ h \notin News(t)
  <2>1. Once(t)
    <3> SUFFICES ASSUME NEW i \in 1..Len(t), NEW j \in 1..Len(t), IsNews(t[i]), t[i] = t[j]
                 PROVE  i = j
      BY DEF Once
    <3>1. i + 1 = j + 1
      BY <1>2, <1>6 DEF Once
    <3> QED
      BY <3>1
  <2>2. h \notin News(t)
    <3> SUFFICES ASSUME NEW i \in 1..Len(t), h = t[i], IsNews(h)
                 PROVE  FALSE
      BY <1>3
    <3>1. i + 1 = 1
      BY <1>1, <1>2, <1>6 DEF Once
    <3> QED
      BY <1>2, <3>1
  <2> QED
    BY <2>1, <2>2
<1> QED
  BY <1>1, <1>4, <1>5, <1>6 DEF t, h

Parts(s, a, b) ==
  /\ News(s) = News(a) \cup News(b)
  /\ Once(s) => Once(a) /\ News(a) \cap News(b) = {}

LEMMA Cut ==
  ASSUME NEW s \in Seq(Messages), NEW k \in 0..Len(s)
  PROVE  /\ SubSeq(s, 1, k) \in Seq(Messages) /\ Len(SubSeq(s, 1, k)) <= Len(s) /\ Len(s) \in Nat
         /\ News(SubSeq(s, k + 1, Len(s))) \subseteq Messages
         /\ Parts(s, SubSeq(s, 1, k), SubSeq(s, k + 1, Len(s)))
<1> DEFINE a == SubSeq(s, 1, k)
           b == SubSeq(s, k + 1, Len(s))
<1>1. Len(s) \in Nat /\ k \in Nat /\ \A i \in 1..Len(s) : s[i] \in Messages
  BY LenProperties, ElementOfSeq
<1>2. (\A i \in 1..k : s[i] \in Messages) /\ (\A i \in (k + 1)..Len(s) : s[i] \in Messages)
  BY <1>1
<1>3. /\ a \in Seq(Messages) /\ Len(a) = (IF 1 <= k THEN k - 1 + 1 ELSE 0)
      /\ \A i \in 1..(k - 1 + 1) : a[i] = s[1 + i - 1]
  BY <1>1, <1>2, SubSeqProperties
<1>4. /\ b \in Seq(Messages)
      /\ Len(b) = (IF k + 1 <= Len(s) THEN Len(s) - (k + 1) + 1 ELSE 0)
      /\ \A i \in 1..(Len(s) - (k + 1) + 1) : b[i] = s[(k + 1) + i - 1]
  BY <1>1, <1>2, SubSeqProperties
<1> HIDE DEF a, b
<1>5. /\ Len(a) = k /\ \A i \in 1..k : a[i] = s[i] /\ i \in 1..Len(s)
      /\ Len(b) = Len(s) - k /\ \A i \in 1..Len(b) : b[i] = s[k + i] /\ k + i \in 1..Len(s)
      /\ \A i \in 1..Len(s) : i \notin 1..k => i - k \in 1..Len(b) /\ b[i - k] = s[i]
  BY <1>1, <1>3, <1>4
<1>6. /\ News(a) = {x \in {a[i] : i \in 1..Len(a)} : IsNews(x)}
      /\ News(b) = {x \in {b[i] : i \in 1..Len(b)} : IsNews(x)}
      /\ News(s) = {x \in {s[i] : i \in 1..Len(s)} : IsNews(x)}
  BY <1>3, <1>4, NewsOf
<1>7. ASSUME NEW x \in News(s)
      PROVE  x \in News(a) \cup News(b)
  BY <1>5, <1>6
<1>8. ASSUME NEW x \in News(a) \cup News(b)
      PROVE  x \in News(s)
  <2>1. CASE x \in News(a)
    BY <1>5, <1>6, <2>1
  <2>2. CASE x \in News(b)
    <3>1. PICK i \in 1..Len(b) : x = b[i] /\ IsNews(x)
      BY <1>6, <2>2
    <3> QED
      BY <1>5, <1>6, <3>1
  <2> QED
    BY <2>1, <2>2
<1>9. ASSUME Once(s)
      PROVE  Once(a) /\ News(a) \cap News(b) = {}
  <2>1. Once(a)
    BY <1>5, <1>9 DEF Once
  <2>2. ASSUME NEW x \in News(a), x \in News(b)
        PROVE  FALSE
    <3>1. PICK i \in 1..k : x = s[i] /\ IsNews(x) /\ i \in 1..Len(s)
      BY <1>5, <1>6
    <3>2. PICK j \in 1..Len(b) : x = s[k + j] /\ k + j \in 1..Len(s)
      BY <1>5, <1>6, <2>2
    <3>3. i = k + j
      BY <1>9, <3>1, <3>2 DEF Once
    <3> QED
      BY <1>1, <1>5, <3>3
  <2> QED
    BY <2>1, <2>2
<1>10. News(b) \subseteq Messages
  BY <1>4, <1>6, ElementOfSeq
<1> QED
  BY <1>1, <1>3, <1>5, <1>7, <1>8, <1>9, <1>10 DEF a, b, Parts
-----------------------------------------------------------------------------
(* sendToMaster with one message or none.                                   *)
LinkTyped ==
  /\ sent \subseteq Messages /\ unsent \subseteq Messages
  /\ link \in {"up", "down"}
  /\ toMaster \in Seq(Messages) /\ Len(toMaster) <= MaxQueue

LEMMA Sends ==
  ASSUME PipelineTypeOK, NEW m \in Messages, sendToMaster(<<m>>)
  PROVE  /\ LinkTyped' /\ sent' = sent \cup NewsIs(m)
         /\ \/ /\ Gains(toMaster', toMaster, m) /\ UNCHANGED unsent
            \/ /\ UNCHANGED toMaster /\ unsent' = unsent \cup NewsIs(m)
<1>1. /\ Len(toMaster) + Len(<<m>>) <= MaxQueue /\ link' = link
      /\ sent' = sent \cup News(<<m>>)
      /\ \/ toMaster' = toMaster \o <<m>> /\ UNCHANGED unsent
         \/ unsent' = unsent \cup News(<<m>>) /\ UNCHANGED toMaster
  BY DEF sendToMaster
<1>2. /\ sent \subseteq Messages /\ unsent \subseteq Messages /\ link \in {"up", "down"}
      /\ toMaster \in Seq(Messages) /\ Len(toMaster) <= MaxQueue /\ MaxQueue \in Nat
  BY PipelineAssumption DEF PipelineTypeOK
<1>3. /\ toMaster \o <<m>> \in Seq(Messages) /\ Len(toMaster \o <<m>>) = Len(toMaster) + 1
      /\ Len(toMaster) \in Nat /\ Gains(toMaster \o <<m>>, toMaster, m)
  BY <1>2, Queued
<1>4. News(<<m>>) = NewsIs(m) /\ NewsIs(m) \subseteq Messages
  BY NewsOfFew DEF NewsIs
<1>5. Len(<<m>>) = 1
  OBVIOUS
<1>6. toMaster' \in Seq(Messages) /\ Len(toMaster') <= MaxQueue
  <2>1. Len(toMaster) + 1 <= MaxQueue
    BY <1>1, <1>5
  <2>2. toMaster' = toMaster \o <<m>> \/ toMaster' = toMaster
    BY <1>1
  <2> QED
    BY <1>2, <1>3, <2>1, <2>2
<1>7. sent' \subseteq Messages /\ unsent' \subseteq Messages /\ link' \in {"up", "down"}
  BY <1>1, <1>2, <1>4
<1> QED
  BY <1>1, <1>3, <1>4, <1>6, <1>7 DEF LinkTyped

LEMMA SendsNothing ==
  ASSUME PipelineTypeOK, sendToMaster(<<>>)
  PROVE  LinkTyped' /\ UNCHANGED <<sent, toMaster, unsent>>
<1>1. News(<<>>) = {}
  <2>1. Len(<<>>) = 0 /\ <<>> \in Seq(Messages)
    BY EmptySeq
  <2>2. News(<<>>) = {x \in {<<>>[i] : i \in 1..Len(<<>>)} : IsNews(x)}
    BY <2>1, NewsOf
  <2>3. {<<>>[i] : i \in 1..Len(<<>>)} = {}
    BY <2>1
  <2> QED
    BY <2>2, <2>3
<1>2. toMaster \in Seq(Messages) /\ toMaster \o <<>> = toMaster
  BY ConcatEmptySeq DEF PipelineTypeOK
<1>3. UNCHANGED <<sent, toMaster, unsent, link>>
  BY <1>1, <1>2 DEF sendToMaster
<1> QED
  BY <1>3 DEF LinkTyped, PipelineTypeOK

LEMMA MessageIs ==
  ASSUME NEW c \in Conns, NEW type \in MessageTypes, NEW item \in Items \cup {None}
  PROVE  /\ Message(type, c, item) \in Messages
         /\ Message(type, c, item).type = type /\ Message(type, c, item).item = item
BY PipelineAssumption DEF Message, Messages

-----------------------------------------------------------------------------
Counted == faults \in 0..MaxFaults /\ signs \in 0..MaxSigns
RowsTyped == stored \subseteq Items /\ alerted \subseteq Items /\ told \subseteq Items

LEMMA PipelineTypeIs ==
  PipelineTypeOK /\ AtItem <=> Standing /\ RowsTyped /\ LinkTyped /\ Counted
BY DEF PipelineTypeOK, Standing, RowsTyped, LinkTyped, Counted

LEMMA PipelineTypeInit == PipelineInit => PipelineTypeOK /\ AtItem
<1> SUFFICES ASSUME PipelineInit
             PROVE  Standing /\ RowsTyped /\ LinkTyped /\ Counted
  BY PipelineTypeIs
<1>1. \A c \in Conns : Len(batch[c]) \in Nat
  BY PipelineAssumption, LenProperties DEF PipelineInit
<1>2. Standing
  BY <1>1 DEF Standing, AtItem, PipelineInit
<1>3. <<>> \in Seq(Messages) /\ Len(<<>>) = 0 /\ MaxQueue \in Nat /\ MaxFaults \in Nat
      /\ MaxSigns \in Nat
  BY EmptySeq, PipelineAssumption
<1>4. LinkTyped /\ Counted /\ RowsTyped
  BY <1>3 DEF LinkTyped, Counted, RowsTyped, PipelineInit
<1> QED
  BY <1>2, <1>4

LEMMA Faulty == Counted /\ Fault => faults' \in 0..MaxFaults
BY PipelineAssumption DEF Counted, Fault

(* The steps of a connection, with what each does to the item in hand.      *)
LEMMA PipelineTypeNext ==
  PipelineTypeOK /\ AtItem /\ PipelineNext => PipelineTypeOK' /\ AtItem'
<1> SUFFICES ASSUME PipelineTypeOK, AtItem, PipelineNext
             PROVE  Standing' /\ RowsTyped' /\ LinkTyped' /\ Counted'
  BY DEF PipelineTypeOK, Standing, RowsTyped, LinkTyped, Counted
<1> USE DEF workerVars, linkVars
<1>1. Standing /\ RowsTyped /\ LinkTyped /\ Counted
  BY PipelineTypeIs
<1>2. ASSUME UNCHANGED <<batch, rec, pos, stage>>
      PROVE  Standing'
  BY <1>1, <1>2 DEF Standing, AtItem, Record
<1>3. ASSUME UNCHANGED <<sent, link, toMaster, unsent>>
      PROVE  LinkTyped'
  BY <1>1, <1>3 DEF LinkTyped
<1>4. ASSUME UNCHANGED <<stored, alerted, told>>
      PROVE  RowsTyped'
  BY <1>1, <1>4 DEF RowsTyped
<1>5. ASSUME UNCHANGED <<faults, signs>>
      PROVE  Counted'
  BY <1>1, <1>5 DEF Counted
<1>6. ASSUME NEW c \in Conns, stage[c] \notin {"idle", "decrypt", "done"}
      PROVE  /\ Item(c) \in Items
             /\ Await(c, "log") \/ Await(c, "alert") \/ Await(c, "name") => Standing'
             /\ NextItem(c) \/ Throws(c) => Standing'
  BY <1>6, ItemIs, Waits, NextItemIs DEF Advances
<1>7. ASSUME NEW c \in Conns, ReceiveBatch(c)
      PROVE  Standing' /\ RowsTyped' /\ LinkTyped' /\ Counted'
  <2>1. Standing'
    BY <1>7, Waits DEF ReceiveBatch
  <2>2. LinkTyped'
    BY <1>7, Sends, MessageIs DEF ReceiveBatch, MessageTypes
  <2> QED
    BY <1>4, <1>5, <1>7, <2>1, <2>2 DEF ReceiveBatch
<1>8. ASSUME NEW c \in Conns, Decrypted(c)
      PROVE  Standing' /\ RowsTyped' /\ LinkTyped' /\ Counted'
  <2>1. rec[c] = 1 /\ pos[c] = 1 /\ stage[c] \notin {"idle", "done"}
    BY <1>8 DEF Decrypted, AtItem
  <2>2. 1 <= Len(batch[c]) + 1 /\ (1 <= Len(batch[c]) => 1 <= Len(batch[c][1].items))
    BY <2>1 DEF AtItem, Record, PipelineTypeOK
  <2>3. Standing'
    <3>1. GoTo(c, 1, 1) /\ 1 \in Nat \ {0}
      BY <1>8 DEF Decrypted
    <3> QED
      BY <2>2, <3>1, Goes
  <2> QED
    BY <1>3, <1>4, <1>5, <1>8, <2>3 DEF Decrypted
<1>9. ASSUME NEW c \in Conns, Evaluate(c)
      PROVE  Standing' /\ RowsTyped' /\ LinkTyped' /\ Counted'
  <2>1. Item(c) \in Items /\ Standing'
    BY <1>6, <1>9 DEF Evaluate
  <2>2. LinkTyped'
    BY <1>9, <2>1, Sends, SendsNothing, MessageIs DEF Evaluate, MessageTypes
  <2> QED
    BY <1>4, <1>5, <1>9, <2>1, <2>2 DEF Evaluate
<1>10. ASSUME NEW c \in Conns, LogWritten(c)
       PROVE  Standing' /\ RowsTyped' /\ LinkTyped' /\ Counted'
  <2>1. Item(c) \in Items /\ Standing'
    BY <1>6, <1>10 DEF LogWritten
  <2>2. LinkTyped'
    BY <1>10, <2>1, Sends, MessageIs DEF LogWritten, MessageTypes
  <2>3. RowsTyped'
    BY <1>1, <1>10, <2>1 DEF LogWritten, RowsTyped
  <2> QED
    BY <1>5, <1>10, <2>1, <2>2, <2>3 DEF LogWritten
<1>11. ASSUME NEW c \in Conns, LogFails(c)
       PROVE  Standing' /\ RowsTyped' /\ LinkTyped' /\ Counted'
  <2>1. Item(c) \in Items /\ Standing'
    BY <1>6, <1>11 DEF LogFails, WithoutRow
  <2>2. LinkTyped'
    BY <1>11, <2>1, Sends, MessageIs DEF LogFails, MessageTypes
  <2>3. RowsTyped'
    BY <1>1, <1>11, <2>1 DEF LogFails, RowsTyped
  <2>4. Counted'
    BY <1>1, <1>11, Faulty DEF LogFails, Counted
  <2> QED
    BY <2>1, <2>2, <2>3, <2>4
<1>12. ASSUME NEW c \in Conns, AlertWritten(c)
       PROVE  Standing' /\ RowsTyped' /\ LinkTyped' /\ Counted'
  <2>1. Item(c) \in Items /\ Standing'
    BY <1>6, <1>12 DEF AlertWritten
  <2>2. RowsTyped'
    BY <1>1, <1>12, <2>1 DEF AlertWritten, RowsTyped
  <2> QED
    BY <1>3, <1>5, <1>12, <2>1, <2>2 DEF AlertWritten
<1>13. ASSUME NEW c \in Conns, AlertFails(c)
       PROVE  Standing' /\ RowsTyped' /\ LinkTyped' /\ Counted'
  <2>1. Standing'
    BY <1>6, <1>13 DEF AlertFails
  <2>2. Counted'
    BY <1>1, <1>13, Faulty DEF AlertFails, Counted
  <2> QED
    BY <1>3, <1>4, <1>13, <2>1, <2>2 DEF AlertFails
<1>14. ASSUME NEW c \in Conns, NameRead(c)
       PROVE  Standing' /\ RowsTyped' /\ LinkTyped' /\ Counted'
  <2>1. Item(c) \in Items /\ Standing'
    BY <1>6, <1>14 DEF NameRead
  <2>2. RowsTyped'
    BY <1>1, <1>14, <2>1 DEF NameRead, RowsTyped
  <2> QED
    BY <1>3, <1>5, <1>14, <2>1, <2>2 DEF NameRead
<1>15. ASSUME NEW c \in Conns, Ping(c)
       PROVE  Standing' /\ RowsTyped' /\ LinkTyped' /\ Counted'
  <2>1. LinkTyped'
    BY <1>15, Sends, MessageIs DEF Ping, MessageTypes
  <2>2. Counted'
    BY <1>1, <1>15, PipelineAssumption DEF Ping, Sign, Counted
  <2> QED
    BY <1>2, <1>4, <1>15, <2>1, <2>2 DEF Ping
<1>16. CASE LinkFails
  <2>1. PICK k \in 0..Len(toMaster) :
          /\ toMaster' = SubSeq(toMaster, 1, k)
          /\ unsent' = unsent \cup News(SubSeq(toMaster, k + 1, Len(toMaster)))
    BY <1>16 DEF LinkFails
  <2>2. /\ toMaster' \in Seq(Messages) /\ Len(toMaster') <= Len(toMaster)
        /\ Len(toMaster) \in Nat /\ Len(toMaster') \in Nat
        /\ News(SubSeq(toMaster, k + 1, Len(toMaster))) \subseteq Messages
    BY <1>1, <2>1, Cut, LenProperties DEF LinkTyped
  <2>3. Len(toMaster') <= MaxQueue
    BY <1>1, <2>2, PipelineAssumption DEF LinkTyped
  <2>4. LinkTyped'
    BY <1>1, <1>16, <2>1, <2>2, <2>3 DEF LinkFails, LinkTyped
  <2>5. Counted'
    BY <1>1, <1>16, Faulty DEF LinkFails, Counted
  <2> QED
    BY <1>2, <1>4, <1>16, <2>4, <2>5 DEF LinkFails
<1>17. CASE LinkUp
  <2>1. LinkTyped'
    BY <1>1, <1>17 DEF LinkUp, LinkTyped
  <2> QED
    BY <1>2, <1>4, <1>5, <1>17, <2>1 DEF LinkUp
<1> QED
  BY <1>7, <1>8, <1>9, <1>10, <1>11, <1>12, <1>13, <1>14, <1>15, <1>16, <1>17
     DEF PipelineNext

-----------------------------------------------------------------------------
LEMMA Distinct ==
  ASSUME PipelineTypeOK, NEW c \in Conns, NEW d \in Conns,
         NEW r \in DOMAIN batch[c], NEW s \in DOMAIN batch[d],
         NEW i \in DOMAIN batch[c][r].items, NEW j \in DOMAIN batch[d][s].items,
         batch[c][r].items[i] = batch[d][s].items[j]
  PROVE  c = d /\ r = s /\ i = j
BY PipelineAssumption DEF PipelineTypeOK

(* A step of a connection: what it does with its place and with the item in *)
(* hand.                                                                    *)
Steps ==
  {<<"idle", "decrypt">>, <<"decrypt", "next">>, <<"decrypt", "done">>, <<"next", "log">>,
   <<"log", "alert">>, <<"alert", "name">>}
Announces(d) ==
  \/ sent' = sent
  \/ \E m \in Messages :
       /\ sent' = sent \cup {m} /\ m.item = Item(d)
       /\ \/ m.type = "RULE_ALERT" /\ stage[d] = "next" /\ stage'[d] = "log"
          \/ m.type = "AGENT_LOG" /\ stage[d] = "log" /\ stage'[d] # "log"
Alerts(d) ==
  \/ alerted' = alerted
  \/ alerted' = alerted \cup {Item(d)} /\ stage[d] = "alert" /\ stage'[d] = "name"
Stays(d) == rec'[d] = rec[d] /\ pos'[d] = pos[d] /\ <<stage[d], stage'[d]>> \in Steps
Leaves(d) ==
  /\ Advances(d) /\ stage[d] \in {"log", "alert", "name"}
  /\ Message("AGENT_LOG", d, Item(d)) \in sent' /\ alerted' = alerted
  /\ \A r \in DOMAIN batch[d] : \A i \in DOMAIN batch[d][r].items :
       Passed(d, r, i)' => \/ Passed(d, r, i) \/ (r = rec[d] /\ i = pos[d])
                           \/ /\ r = rec[d] /\ i > pos[d] /\ Record(d).software
                              /\ Alert[Item(d)] # "none" /\ stage[d] # "name"
Moves(d) ==
  /\ Elsewhere(d) /\ stored \subseteq stored' /\ Announces(d) /\ Alerts(d)
  /\ Stays(d) \/ Leaves(d)
  /\ Hand(d)'
  /\ told' \subseteq told \cup (IF stage[d] = "name" THEN {Item(d)} ELSE {})
  /\ alerted' \subseteq alerted \cup stored

LEMMA EveryLeave ==
  ASSUME PipelineTypeOK, AtItem, NEW d \in Conns, stage[d] \in {"log", "alert", "name"},
         Message("AGENT_LOG", d, Item(d)) \in sent', alerted' = alerted,
         \/ NextItem(d)
         \/ Throws(d) /\ Alert[Item(d)] # "none" /\ stage[d] # "name"
  PROVE  Leaves(d) /\ Elsewhere(d) /\ Hand(d)'
<1>1. Advances(d)
  BY NextItemIs
<1>2. CASE NextItem(d)
  <2>1. \A r \in DOMAIN batch[d] : \A i \in DOMAIN batch[d][r].items :
          Passed(d, r, i)' => Passed(d, r, i) \/ (r = rec[d] /\ i = pos[d])
    BY <1>2, NextItemIs
  <2> QED
    BY <1>1, <2>1 DEF Leaves, Advances, Hand
<1>3. CASE Throws(d) /\ Alert[Item(d)] # "none" /\ stage[d] # "name"
  <2>1. ASSUME NEW r \in DOMAIN batch[d], NEW i \in DOMAIN batch[d][r].items, Passed(d, r, i)'
        PROVE  \/ Passed(d, r, i) \/ (r = rec[d] /\ i = pos[d])
               \/ r = rec[d] /\ i > pos[d] /\ Record(d).software
    <3>1. Passed(d, r, i) \/ (r = rec[d] /\ i >= pos[d])
      BY <1>1, <2>1 DEF Advances
    <3>2. CASE r = rec[d] /\ i >= pos[d]
      <4>1. i \in Nat \ {0} /\ i <= Len(Record(d).items)
        BY <3>2, BatchIs DEF Record
      <4>2. /\ pos[d] \in Nat \ {0} /\ Record(d).software \in BOOLEAN
            /\ ~ Record(d).software => Len(Record(d).items) = 1
        BY ItemIs DEF PipelineTypeOK
      <4>3. i = pos[d] \/ i > pos[d]
        BY <3>2, <4>1, <4>2
      <4>4. ASSUME i > pos[d], Len(Record(d).items) = 1
            PROVE  FALSE
        <5>1. pos[d] \in Nat \ {0}
          BY <4>2
        <5> QED
          BY <4>1, <4>4, <5>1
      <4> QED
        BY <3>2, <4>2, <4>3, <4>4
    <3> QED
      BY <3>1, <3>2
  <2> QED
    BY <1>1, <1>3, <2>1 DEF Leaves, Advances, Hand
<1> QED
  BY <1>1, <1>2, <1>3 DEF Advances

LEMMA EveryMove ==
  ASSUME PipelineTypeOK, AtItem, InHand, PipelineNext
  PROVE  (\E d \in Conns : Moves(d)) \/ UNCHANGED workerVars
<1> USE DEF workerVars, linkVars
<1>1. ASSUME NEW d \in Conns, NEW query \in {"decrypt", "log", "alert", "name"},
             Await(d, query), <<stage[d], query>> \in Steps,
             stage[d] # "idle" \/ batch[d] # <<>>
      PROVE  /\ Elsewhere(d) /\ Stays(d) /\ stage'[d] = query
             /\ Item(d)' = Item(d)
  <2>1. /\ Elsewhere(d) /\ UNCHANGED <<rec, pos, batch>> /\ stage'[d] = query
    <3>1. \/ stage[d] \notin {"idle", "decrypt", "done"} /\ query # "decrypt"
          \/ stage[d] = "idle" /\ batch[d] # <<>>
      BY <1>1 DEF Steps
    <3> QED
      BY <1>1, <3>1, Waits
  <2> QED
    BY <1>1, <2>1 DEF Stays, Item, Record
<1>2. ASSUME NEW d \in Conns, NEW type \in {"AGENT_LOG", "RULE_ALERT"},
             stage[d] \notin {"idle", "done"}, sendToMaster(<<Message(type, d, Item(d))>>)
      PROVE  \E m \in Messages : /\ m = Message(type, d, Item(d)) /\ m.item = Item(d)
                                 /\ m.type = type /\ sent' = sent \cup {m}
  <2>1. Item(d) \in Items
    BY <1>2, ItemIs
  <2>2. PICK m \in Messages : m = Message(type, d, Item(d)) /\ m.type = type /\ m.item = Item(d)
    BY <2>1, MessageIs DEF MessageTypes
  <2>3. sent' = sent \cup NewsIs(m)
    BY <1>2, <2>2, Sends
  <2> QED
    BY <2>2, <2>3 DEF NewsIs, IsNews
<1>3. ASSUME NEW d \in Conns, sendToMaster(<<Message("UPDATE_LAST_ACTIVE", d, None)>>)
      PROVE  sent' = sent
  <2>1. PICK m \in Messages : /\ m = Message("UPDATE_LAST_ACTIVE", d, None)
                              /\ m.type = "UPDATE_LAST_ACTIVE"
    BY MessageIs DEF MessageTypes
  <2>2. sent' = sent \cup NewsIs(m)
    BY <1>3, <2>1, Sends
  <2> QED
    BY <2>1, <2>2 DEF NewsIs, IsNews
<1>4. ASSUME NEW d \in Conns, ReceiveBatch(d)
      PROVE  Moves(d)
  <2>1. Elsewhere(d) /\ Stays(d) /\ stage'[d] = "decrypt"
    BY <1>1, <1>4 DEF ReceiveBatch, Steps
  <2> QED
    BY <1>3, <1>4, <2>1 DEF ReceiveBatch, Moves, Announces, Alerts, Hand
<1>5. ASSUME NEW d \in Conns, Decrypted(d)
      PROVE  Moves(d)
  <2>1. rec[d] = 1 /\ pos[d] = 1 /\ GoTo(d, 1, 1) /\ 1 \in Nat \ {0}
    BY <1>5 DEF Decrypted, AtItem
  <2>2. 1 <= Len(batch[d]) + 1 /\ (1 <= Len(batch[d]) => 1 <= Len(batch[d][1].items))
    BY <1>5, <2>1 DEF AtItem, Record, PipelineTypeOK, Decrypted
  <2>3. Elsewhere(d) /\ rec'[d] = 1 /\ pos'[d] = 1 /\ stage'[d] \in {"next", "done"}
    BY <2>1, <2>2, Goes
  <2> QED
    BY <1>5, <2>1, <2>3 DEF Decrypted, Moves, Announces, Alerts, Hand, Stays, Steps
<1>6. ASSUME NEW d \in Conns, Evaluate(d)
      PROVE  Moves(d)
  <2>1. Elsewhere(d) /\ Stays(d) /\ stage'[d] = "log"
    BY <1>1, <1>6 DEF Evaluate, Steps
  <2>2. Announces(d)
    <3>1. CASE Alert[Item(d)] = "high"
      BY <1>2, <1>6, <2>1, <3>1 DEF Evaluate, Announces
    <3>2. CASE Alert[Item(d)] # "high"
      BY <1>6, <3>2, SendsNothing DEF Evaluate, Announces
    <3> QED
      BY <3>1, <3>2
  <2> QED
    BY <1>6, <2>1, <2>2 DEF Evaluate, Moves, Alerts, Hand
<1>7. ASSUME NEW d \in Conns, LogWritten(d)
      PROVE  Moves(d)
  <2>1. /\ stage[d] = "log" /\ stored' = stored \cup {Item(d)} /\ UNCHANGED <<alerted, told>>
        /\ IF Alert[Item(d)] = "none" THEN NextItem(d) ELSE Await(d, "alert")
    BY <1>7 DEF LogWritten
  <2>2. PICK m \in Messages : /\ m = Message("AGENT_LOG", d, Item(d)) /\ m.item = Item(d)
                              /\ m.type = "AGENT_LOG" /\ sent' = sent \cup {m}
    BY <1>2, <1>7 DEF LogWritten
  <2>3. CASE Alert[Item(d)] = "none"
    <3>1. Leaves(d) /\ Elsewhere(d) /\ Hand(d)'
      BY <2>1, <2>2, <2>3, EveryLeave
    <3>2. Announces(d)
      BY <2>1, <2>2, <3>1 DEF Announces, Leaves, Advances
    <3> QED
      BY <2>1, <3>1, <3>2 DEF Moves, Alerts
  <2>4. CASE Alert[Item(d)] # "none"
    <3>1. Elsewhere(d) /\ Stays(d) /\ stage'[d] = "alert" /\ Item(d)' = Item(d)
      BY <1>1, <2>1, <2>4 DEF Steps
    <3>2. Announces(d)
      BY <2>1, <2>2, <3>1 DEF Announces
    <3>3. Hand(d)'
      BY <2>1, <2>2, <2>4, <3>1 DEF Hand, Message
    <3> QED
      BY <2>1, <3>1, <3>2, <3>3 DEF Moves, Alerts
  <2> QED
    BY <2>3, <2>4
<1>8. ASSUME NEW d \in Conns, LogFails(d)
      PROVE  Moves(d)
  <2>1. /\ stage[d] = "log" /\ stored \subseteq stored' /\ UNCHANGED <<alerted, told>>
        /\ NextItem(d) \/ (Throws(d) /\ Alert[Item(d)] # "none")
    BY <1>8 DEF LogFails, WithoutRow
  <2>2. PICK m \in Messages : /\ m = Message("AGENT_LOG", d, Item(d)) /\ m.item = Item(d)
                              /\ m.type = "AGENT_LOG" /\ sent' = sent \cup {m}
    BY <1>2, <1>8 DEF LogFails
  <2>3. Leaves(d) /\ Elsewhere(d) /\ Hand(d)'
    BY <2>1, <2>2, EveryLeave
  <2>4. Announces(d)
    BY <2>1, <2>2, <2>3 DEF Announces, Leaves, Advances
  <2> QED
    BY <2>1, <2>3, <2>4 DEF Moves, Alerts
<1>9. ASSUME NEW d \in Conns, AlertWritten(d)
      PROVE  Moves(d)
  <2>1. /\ stage[d] = "alert" /\ alerted' = alerted \cup {Item(d)} /\ Await(d, "name")
        /\ UNCHANGED <<stored, told, sent>>
    BY <1>9 DEF AlertWritten
  <2>2. Elsewhere(d) /\ Stays(d) /\ stage'[d] = "name" /\ Item(d)' = Item(d)
    BY <1>1, <2>1 DEF Steps
  <2>3. Hand(d)
    BY DEF InHand
  <2>4. Hand(d)'
    BY <2>1, <2>2, <2>3 DEF Hand, Message
  <2>5. Item(d) \in stored
    BY <2>1, <2>3 DEF Hand
  <2> QED
    BY <2>1, <2>2, <2>4, <2>5 DEF Moves, Announces, Alerts
<1>10. ASSUME NEW d \in Conns, AlertFails(d)
       PROVE  Moves(d)
  <2>1. stage[d] = "alert" /\ Throws(d) /\ UNCHANGED <<stored, alerted, told, sent>>
    BY <1>10 DEF AlertFails
  <2>2. Alert[Item(d)] # "none" /\ Message("AGENT_LOG", d, Item(d)) \in sent
    BY <2>1 DEF InHand, Hand
  <2>3. Leaves(d) /\ Elsewhere(d) /\ Hand(d)'
    BY <2>1, <2>2, EveryLeave
  <2> QED
    BY <2>1, <2>3 DEF Moves, Announces, Alerts
<1>11. ASSUME NEW d \in Conns, NameRead(d)
       PROVE  Moves(d)
  <2>1. /\ stage[d] = "name" /\ NextItem(d) /\ UNCHANGED <<stored, alerted, sent>>
        /\ told' \subseteq told \cup {Item(d)}
    BY <1>11 DEF NameRead
  <2>2. Message("AGENT_LOG", d, Item(d)) \in sent
    BY <2>1 DEF InHand, Hand
  <2>3. Leaves(d) /\ Elsewhere(d) /\ Hand(d)'
    BY <2>1, <2>2, EveryLeave
  <2> QED
    BY <2>1, <2>3 DEF Moves, Announces, Alerts
<1>12. ASSUME NEW d \in Conns, Ping(d)
       PROVE  UNCHANGED workerVars
  BY <1>3, <1>12 DEF Ping
<1>13. LinkFails \/ LinkUp => UNCHANGED workerVars
  BY DEF LinkFails, LinkUp
<1> QED
  BY <1>4, <1>5, <1>6, <1>7, <1>8, <1>9, <1>10, <1>11, <1>12, <1>13 DEF PipelineNext

-----------------------------------------------------------------------------
Orderly == InHand /\ ToldOfStored /\ NotAhead /\ NoneSkipped

LEMMA NotPassed ==
  ASSUME PipelineTypeOK, NEW c \in Conns
  PROVE  ~ Passed(c, rec[c], pos[c])
BY DEF Passed, PipelineTypeOK

LEMMA HandsNext ==
  ASSUME PipelineTypeOK, AtItem, InHand, ToldOfStored, NEW d \in Conns, Moves(d)
  PROVE  InHand' /\ ToldOfStored'
<1>1. /\ Elsewhere(d) /\ stored \subseteq stored'
      /\ alerted \subseteq alerted' /\ sent \subseteq sent'
  BY DEF Moves, Alerts, Announces
<1>2. ASSUME NEW c \in Conns
      PROVE  Hand(c)'
  <2>1. CASE c = d
    BY <2>1 DEF Moves
  <2>2. CASE c # d
    <3>1. rec'[c] = rec[c] /\ pos'[c] = pos[c] /\ stage'[c] = stage[c] /\ Item(c)' = Item(c)
      BY <1>1, <2>2 DEF Elsewhere, Item, Record
    <3> QED
      BY <1>1, <3>1 DEF InHand, Hand, Message
  <2> QED
    BY <2>1, <2>2
<1>3. alerted' \subseteq alerted \cup stored
  BY DEF Moves
<1>4. ASSUME NEW x \in told'
      PROVE  x \in alerted'
  <2>1. x \in told \/ (x = Item(d) /\ stage[d] = "name")
    BY DEF Moves
  <2> QED
    BY <1>1, <2>1 DEF InHand, Hand, ToldOfStored
<1> QED
  BY <1>1, <1>2, <1>3, <1>4 DEF InHand, ToldOfStored

(* What is passed stays passed, and what is in hand is passed when it is left. *)
LEMMA BegunStays ==
  ASSUME PipelineTypeOK, AtItem, NEW d \in Conns, Moves(d), NEW c \in Conns,
         NEW r \in DOMAIN batch[c], NEW i \in DOMAIN batch[c][r].items
  PROVE  /\ Passed(c, r, i) => Passed(c, r, i)'
         /\ \A stages \in {{"name"}, {"alert", "name"}, {"log", "alert", "name"}} :
              Begun(c, r, i, stages) => Begun(c, r, i, stages)'
<1>1. CASE c # d
  <2>1. rec'[c] = rec[c] /\ pos'[c] = pos[c] /\ stage'[c] = stage[c]
    BY <1>1 DEF Moves, Elsewhere
  <2> QED
    BY <2>1 DEF Passed, Begun
<1>2. CASE c = d /\ Stays(d)
  <2>1. /\ rec'[c] = rec[c] /\ pos'[c] = pos[c]
        /\ stage[c] \in {"log", "alert"} => stage'[c] \in {"alert", "name"}
        /\ stage[c] = "alert" => stage'[c] = "name"
        /\ stage[c] # "name"
    BY <1>2 DEF Stays, Steps
  <2>2. Passed(c, r, i)' <=> Passed(c, r, i)
    BY <2>1 DEF Passed
  <2> QED
    BY <2>1, <2>2 DEF Begun
<1>3. CASE c = d /\ Leaves(d)
  <2>1. Passed(c, r, i) \/ (r = rec[c] /\ i = pos[c]) => Passed(c, r, i)'
    BY <1>3 DEF Leaves, Advances
  <2> QED
    BY <2>1 DEF Begun
<1> QED
  BY <1>1, <1>2, <1>3 DEF Moves

LEMMA NotAheadNext ==
  ASSUME PipelineTypeOK, AtItem, NotAhead, NEW d \in Conns, Moves(d)
  PROVE  NotAhead'
<1>1. batch' = batch
  BY DEF Moves, Elsewhere
<1> SUFFICES ASSUME NEW c \in Conns, NEW r \in DOMAIN batch[c], NEW i \in DOMAIN batch[c][r].items
             PROVE  InTurn(c, r, i)'
  BY <1>1 DEF NotAhead
<1> DEFINE item == batch[c][r].items[i]
<1>2. /\ item \in alerted => Begun(c, r, i, {"name"})
      /\ \A m \in sent : m.item = item =>
           \/ m.type = "AGENT_LOG" /\ Begun(c, r, i, {"alert", "name"})
           \/ m.type = "RULE_ALERT" /\ Begun(c, r, i, {"log", "alert", "name"})
  BY DEF NotAhead, InTurn
<1>3. /\ Begun(c, r, i, {"name"}) => Begun(c, r, i, {"name"})'
      /\ Begun(c, r, i, {"alert", "name"}) => Begun(c, r, i, {"alert", "name"})'
      /\ Begun(c, r, i, {"log", "alert", "name"}) => Begun(c, r, i, {"log", "alert", "name"})'
  BY BegunStays
<1>4. ASSUME item = Item(d), stage[d] \notin {"idle", "done"}
      PROVE  c = d /\ r = rec[d] /\ i = pos[d]
  <2>1. rec[d] \in DOMAIN batch[d] /\ pos[d] \in DOMAIN batch[d][rec[d]].items
    BY <1>4, ItemIs DEF Record
  <2> QED
    BY <1>4, <2>1, Distinct DEF Item, Record
<1> HIDE DEF item
<1>5. ASSUME item = Item(d), stage[d] \in {"next", "log", "alert", "name"}
      PROVE  /\ stage[d] = "log" /\ stage'[d] # "log" => Begun(c, r, i, {"alert", "name"})'
             /\ Stays(d) => \A stages : stage'[d] \in stages => Begun(c, r, i, stages)'
  <2>1. c = d /\ r = rec[d] /\ i = pos[d]
    BY <1>4, <1>5
  <2>2. Stays(d) => rec'[d] = rec[d] /\ pos'[d] = pos[d]
    BY DEF Stays
  <2>3. Stays(d) => \A stages : stage'[d] \in stages => Begun(c, r, i, stages)'
    BY <2>1, <2>2 DEF Begun
  <2>4. Leaves(d) => Passed(c, r, i)'
    BY <2>1 DEF Leaves, Advances
  <2>5. stage[d] = "log" /\ Stays(d) => stage'[d] = "alert"
    BY DEF Stays, Steps
  <2> QED
    BY <2>3, <2>4, <2>5 DEF Begun, Moves
<1>6. ASSUME item \in alerted'
      PROVE  Begun(c, r, i, {"name"})'
  <2>1. CASE item \in alerted
    BY <1>2, <1>3, <2>1
  <2>2. CASE item \notin alerted
    <3>1. item = Item(d) /\ stage[d] = "alert" /\ stage'[d] = "name"
      BY <1>6, <2>2 DEF Moves, Alerts
    <3>2. Stays(d)
      BY <3>1 DEF Moves, Leaves, Advances
    <3> QED
      BY <1>5, <3>1, <3>2
  <2> QED
    BY <2>1, <2>2
<1>7. ASSUME NEW m \in sent', m.item = item
      PROVE  \/ m.type = "AGENT_LOG" /\ Begun(c, r, i, {"alert", "name"})'
             \/ m.type = "RULE_ALERT" /\ Begun(c, r, i, {"log", "alert", "name"})'
  <2>1. CASE m \in sent
    BY <1>2, <1>3, <1>7, <2>1
  <2>2. CASE m \notin sent
    <3>1. /\ item = Item(d)
          /\ \/ m.type = "RULE_ALERT" /\ stage[d] = "next" /\ stage'[d] = "log"
             \/ m.type = "AGENT_LOG" /\ stage[d] = "log" /\ stage'[d] # "log"
      BY <1>7, <2>2 DEF Moves, Announces
    <3>2. stage[d] = "next" => Stays(d)
      BY DEF Moves, Leaves
    <3> QED
      BY <1>5, <3>1, <3>2
  <2> QED
    BY <2>1, <2>2
<1> QED
  BY <1>1, <1>6, <1>7 DEF InTurn, item

LEMMA NoneSkippedNext ==
  ASSUME PipelineTypeOK, AtItem, InHand, NotAhead, NoneSkipped, NEW d \in Conns, Moves(d)
  PROVE  NoneSkipped'
<1>1. batch' = batch /\ sent \subseteq sent'
  BY DEF Moves, Elsewhere, Announces
<1> SUFFICES ASSUME NEW c \in Conns, NEW r \in DOMAIN batch[c], NEW i \in DOMAIN batch[c][r].items,
                    Passed(c, r, i)'
             PROVE  Excused(c, r, i)'
  BY <1>1 DEF NoneSkipped
<1> DEFINE items == batch[c][r].items
<1>2. /\ DOMAIN items = 1..Len(items) /\ Len(items) \in Nat \ {0} /\ i \in 1..Len(items)
      /\ rec[c] \in Nat \ {0} /\ pos[c] \in Nat \ {0} /\ r \in Nat
  <2>1. DOMAIN items = 1..Len(items) /\ Len(items) \in Nat \ {0}
    BY BatchIs
  <2>2. r \in Nat
    BY BatchIs
  <2>3. rec[c] \in Nat \ {0} /\ pos[c] \in Nat \ {0}
    BY DEF PipelineTypeOK
  <2> QED
    BY <2>1, <2>2, <2>3
<1>3. Excused(c, r, i)' <=>
        \/ Message("AGENT_LOG", c, items[i]) \in sent'
        \/ /\ batch[c][r].software
           /\ \E j \in 1..(i - 1) : Alert[items[j]] # "none" /\ items[j] \notin alerted'
  BY <1>1 DEF Excused, Message
<1>4. Excused(c, r, i) <=>
        \/ Message("AGENT_LOG", c, items[i]) \in sent
        \/ /\ batch[c][r].software
           /\ \E j \in 1..(i - 1) : Alert[items[j]] # "none" /\ items[j] \notin alerted
  BY DEF Excused
<1> HIDE DEF items
(* A row of an item that is passed is not written any more.                 *)
<1>5. ASSUME NEW j \in 1..(i - 1), items[j] \notin alerted, Passed(c, r, i)
      PROVE  items[j] \notin alerted'
  <2>1. j \in DOMAIN items /\ j \in Nat /\ i \in Nat /\ j < i
    BY <1>2
  <2>2. Passed(c, r, j)
    BY <1>2, <1>5, <2>1 DEF Passed
  <2>3. SUFFICES ASSUME items[j] = Item(d), stage[d] = "alert"
                 PROVE  FALSE
    BY <1>5 DEF Moves, Alerts
  <2>4. rec[d] \in DOMAIN batch[d] /\ pos[d] \in DOMAIN batch[d][rec[d]].items
    BY <2>3, ItemIs DEF Record
  <2>5. c = d /\ r = rec[d] /\ j = pos[d]
    BY <2>1, <2>3, <2>4, Distinct DEF Item, Record, items
  <2> QED
    BY <2>2, <2>5, NotPassed
<1>6. CASE Passed(c, r, i)
  <2>1. Excused(c, r, i)
    BY <1>6 DEF NoneSkipped
  <2> QED
    BY <1>1, <1>3, <1>4, <1>5, <1>6, <2>1
<1>7. CASE ~ Passed(c, r, i)
  <2>1. c = d /\ Leaves(d)
    <3>1. c # d => Passed(c, r, i)' = Passed(c, r, i)
      BY DEF Moves, Elsewhere, Passed
    <3>2. c = d /\ Stays(d) => Passed(c, r, i)' = Passed(c, r, i)
      BY DEF Stays, Passed
    <3> QED
      BY <1>7, <3>1, <3>2 DEF Moves
  <2>2. /\ stage[d] \in {"log", "alert", "name"} /\ alerted' = alerted
        /\ Message("AGENT_LOG", d, Item(d)) \in sent'
        /\ \/ r = rec[d] /\ i = pos[d]
           \/ /\ r = rec[d] /\ i > pos[d] /\ Record(d).software
              /\ Alert[Item(d)] # "none" /\ stage[d] # "name"
    BY <1>7, <2>1 DEF Leaves
  <2>3. CASE r = rec[d] /\ i = pos[d]
    BY <1>3, <2>1, <2>2, <2>3 DEF Item, Record, items
  <2>4. CASE /\ r = rec[d] /\ i > pos[d] /\ Record(d).software
             /\ Alert[Item(d)] # "none" /\ stage[d] # "name"
    <3>1. pos[d] \in 1..(i - 1) /\ rec[d] \in DOMAIN batch[d]
      BY <1>2, <2>1, <2>4
    <3>2. pos[d] \in DOMAIN batch[d][rec[d]].items
      BY <2>2, ItemIs DEF Record
    <3>3. Item(d) \in alerted => Begun(d, rec[d], pos[d], {"name"})
      BY <3>1, <3>2 DEF NotAhead, InTurn, Item, Record
    <3>4. Item(d) \notin alerted
      BY <2>4, <3>3, NotPassed DEF Begun
    <3>5. Item(d) = items[pos[d]] /\ batch[c][r].software
      BY <2>1, <2>4 DEF Item, Record, items
    <3> QED
      BY <1>3, <2>2, <2>4, <3>1, <3>4, <3>5
  <2> QED
    BY <2>2, <2>3, <2>4
<1> QED
  BY <1>6, <1>7

LEMMA OrderlyInit == PipelineInit => Orderly
<1> SUFFICES ASSUME PipelineInit
             PROVE  Orderly
  OBVIOUS
<1>1. /\ stored = {} /\ alerted = {} /\ told = {} /\ sent = {}
      /\ \A c \in Conns : rec[c] = 1 /\ pos[c] = 1 /\ stage[c] = "idle"
  BY DEF PipelineInit
<1>2. PipelineTypeOK
  BY PipelineTypeInit
<1>3. InHand /\ ToldOfStored
  BY <1>1 DEF InHand, Hand, ToldOfStored
<1>4. NotAhead
  BY <1>1 DEF NotAhead, InTurn
<1>5. ASSUME NEW c \in Conns, NEW r \in DOMAIN batch[c], NEW i \in DOMAIN batch[c][r].items
      PROVE  ~ Passed(c, r, i)
  <2>1. r \in Nat \ {0} /\ i \in Nat \ {0}
    BY <1>2, BatchIs
  <2> QED
    BY <1>1, <2>1 DEF Passed
<1> QED
  BY <1>3, <1>4, <1>5 DEF Orderly, NoneSkipped

LEMMA OrderlyNext ==
  ASSUME PipelineTypeOK, AtItem, Orderly, PipelineNext \/ UNCHANGED workerVars
  PROVE  Orderly'
<1>1. CASE UNCHANGED workerVars
  BY <1>1 DEF Orderly, workerVars, InHand, Hand, ToldOfStored, NotAhead, InTurn,
     NoneSkipped,
              Excused, Begun, Passed, Item, Record, Message
<1>2. ASSUME NEW d \in Conns, Moves(d)
      PROVE  Orderly'
  BY <1>2, HandsNext, NotAheadNext, NoneSkippedNext DEF Orderly
<1> QED
  BY <1>1, <1>2, EveryMove DEF Orderly

-----------------------------------------------------------------------------
(* What the master does to the list of its tasks.                           *)
LEMMA HandledIs ==
  ASSUME NEW ts \in Seq(Tasks), NEW m
  PROVE  m \in Handled(ts) <=> IsNews(m) /\ \E i \in 1..Len(ts) : m = ts[i].msg
BY DEF Handled

TaskAdded(us, ts, m) ==
  /\ Handled(us) = Handled(ts) \cup NewsIs(m)
  /\ OnceHandled(ts) /\ m \notin Handled(ts) => OnceHandled(us)

LEMMA Adds ==
  ASSUME NEW ts \in Seq(Tasks), NEW t \in Tasks
  PROVE  /\ Append(ts, t) \in Seq(Tasks) /\ Len(Append(ts, t)) = Len(ts) + 1
         /\ TaskAdded(Append(ts, t), ts, t.msg)
<1> DEFINE us == Append(ts, t)
<1>1. /\ us \in Seq(Tasks) /\ Len(us) = Len(ts) + 1 /\ Len(ts) \in Nat
      /\ \A i \in 1..Len(ts) : us[i] = ts[i]
      /\ us[Len(ts) + 1] = t
  BY AppendProperties, LenProperties
<1> HIDE DEF us
<1>2. \A i : i \in 1..Len(us) <=> i \in 1..Len(ts) \/ i = Len(ts) + 1
  BY <1>1
<1>3. {us[i].msg : i \in 1..Len(us)} = {ts[i].msg : i \in 1..Len(ts)} \cup {t.msg}
  BY <1>1, <1>2
<1>4. Handled(us) = Handled(ts) \cup NewsIs(t.msg)
  BY <1>3 DEF Handled, NewsIs
<1>5. ASSUME OnceHandled(ts), t.msg \notin Handled(ts)
      PROVE  OnceHandled(us)
  <2> SUFFICES ASSUME NEW i \in 1..Len(us), NEW j \in 1..Len(us),
                      IsNews(us[i].msg), us[i].msg = us[j].msg
               PROVE  i = j
    BY DEF OnceHandled
  <2>1. \A k \in 1..Len(ts) : IsNews(ts[k].msg) => ts[k].msg # t.msg
    BY <1>5, HandledIs
  <2>2. i \in 1..Len(ts) <=> j \in 1..Len(ts)
    BY <1>1, <1>2, <2>1
  <2>3. CASE i \in 1..Len(ts)
    BY <1>1, <1>5, <2>2, <2>3 DEF OnceHandled
  <2>4. CASE i \notin 1..Len(ts)
    BY <1>2, <2>2, <2>4
  <2> QED
    BY <2>3, <2>4
<1> QED
  BY <1>1, <1>4, <1>5 DEF us, TaskAdded

TaskRemoved(us, ts, m) ==
  /\ Handled(ts) = Handled(us) \cup NewsIs(m)
  /\ OnceHandled(ts) => OnceHandled(us) /\ m \notin Handled(us)

LEMMA Removes ==
  ASSUME NEW ts \in Seq(Tasks), NEW i \in 1..Len(ts)
  PROVE  /\ RemoveAt(ts, i) \in Seq(Tasks) /\ Len(RemoveAt(ts, i)) = Len(ts) - 1
         /\ TaskRemoved(RemoveAt(ts, i), ts, ts[i].msg)
<1> DEFINE a == SubSeq(ts, 1, i - 1)
           b == SubSeq(ts, i + 1, Len(ts))
           us == RemoveAt(ts, i)
           m == ts[i].msg
<1>1. Len(ts) \in Nat /\ i \in Nat /\ \A j \in 1..Len(ts) : ts[j] \in Tasks
  BY LenProperties, ElementOfSeq
<1>2. (\A j \in 1..(i - 1) : ts[j] \in Tasks) /\ (\A j \in (i + 1)..Len(ts) : ts[j] \in Tasks)
  BY <1>1
<1>3. /\ a \in Seq(Tasks) /\ Len(a) = (IF 1 <= i - 1 THEN (i - 1) - 1 + 1 ELSE 0)
      /\ \A j \in 1..((i - 1) - 1 + 1) : a[j] = ts[1 + j - 1]
  BY <1>1, <1>2, SubSeqProperties
<1>4. /\ b \in Seq(Tasks)
      /\ Len(b) = (IF i + 1 <= Len(ts) THEN Len(ts) - (i + 1) + 1 ELSE 0)
      /\ \A j \in 1..(Len(ts) - (i + 1) + 1) : b[j] = ts[(i + 1) + j - 1]
  BY <1>1, <1>2, SubSeqProperties
<1>5. us = a \o b
  BY DEF RemoveAt
<1> HIDE DEF a, b, us
<1>6. /\ us \in Seq(Tasks) /\ Len(us) = Len(a) + Len(b) /\ Len(a) = i - 1
      /\ Len(b) = Len(ts) - i
      /\ \A j \in 1..Len(us) : us[j] = IF j <= Len(a) THEN a[j] ELSE b[j - Len(a)]
  <2>1. Len(a) = i - 1 /\ Len(b) = Len(ts) - i
    BY <1>1, <1>3, <1>4
  <2>2. /\ a \o b \in Seq(Tasks) /\ Len(a \o b) = Len(a) + Len(b)
        /\ \A j \in 1..Len(a) + Len(b) : (a \o b)[j] = IF j <= Len(a) THEN a[j] ELSE b[j - Len(a)]
    <3>1. a \in Seq(Tasks) /\ b \in Seq(Tasks)
      BY <1>3, <1>4
    <3> QED
      BY <3>1, ConcatProperties
  <2> QED
    BY <1>5, <2>1, <2>2
<1>7. /\ Len(us) = Len(ts) - 1
      /\ \A j \in 1..Len(us) : j < i => us[j] = ts[j] /\ j \in 1..Len(ts)
      /\ \A j \in 1..Len(us) : ~ (j < i) => us[j] = ts[j + 1] /\ j + 1 \in 1..Len(ts)
  <2>1. Len(us) = Len(ts) - 1
    BY <1>1, <1>6
  <2>2. ASSUME NEW j \in 1..Len(us), j < i
        PROVE  us[j] = ts[j] /\ j \in 1..Len(ts)
    <3>1. j \in 1..(i - 1) /\ j <= Len(a) /\ j \in 1..Len(ts)
      BY <1>1, <1>6, <2>1, <2>2
    <3>2. us[j] = a[j]
      BY <1>6, <3>1
    <3>3. a[j] = ts[j]
      BY <1>1, <1>3, <3>1
    <3> QED
      BY <3>1, <3>2, <3>3
  <2>3. ASSUME NEW j \in 1..Len(us), ~ (j < i)
        PROVE  us[j] = ts[j + 1] /\ j + 1 \in 1..Len(ts)
    <3>1. ~ (j <= Len(a)) /\ j - Len(a) \in 1..(Len(ts) - (i + 1) + 1) /\ j + 1 \in 1..Len(ts)
          /\ (i + 1) + (j - Len(a)) - 1 = j + 1
      <4>1. Len(a) = i - 1 /\ Len(us) = Len(ts) - 1 /\ Len(ts) \in Nat /\ i \in 1..Len(ts)
        BY <1>1, <1>6, <2>1
      <4>2. j \in Nat /\ j <= Len(ts) - 1 /\ j >= i
        BY <2>3, <4>1
      <4> QED
        BY <4>1, <4>2
    <3>2. us[j] = b[j - Len(a)]
      BY <1>6, <3>1
    <3> QED
      BY <1>4, <3>1, <3>2
  <2> QED
    BY <2>1, <2>2, <2>3
<1>8. \A j \in 1..Len(ts) : /\ j < i => j \in 1..Len(us) /\ us[j] = ts[j]
                            /\ j > i => j - 1 \in 1..Len(us) /\ us[j - 1] = ts[j]
                            /\ j < i \/ j = i \/ j > i
  BY <1>1, <1>7
<1>9. ASSUME NEW x \in Handled(ts)
      PROVE  x \in Handled(us) \/ x = m
  <2>1. PICK j \in 1..Len(ts) : x = ts[j].msg /\ IsNews(x)
    BY HandledIs
  <2>2. CASE j < i
    BY <1>6, <1>8, <2>1, <2>2, HandledIs
  <2>3. CASE j > i
    BY <1>6, <1>8, <2>1, <2>3, HandledIs
  <2> QED
    BY <1>8, <2>1, <2>2, <2>3
<1>10. ASSUME NEW x, x \in Handled(us)
       PROVE  x \in Handled(ts)
  <2>1. PICK j \in 1..Len(us) : x = us[j].msg /\ IsNews(x)
    BY <1>10 DEF Handled
  <2>2. CASE j < i
    BY <1>7, <2>1, <2>2, HandledIs
  <2>3. CASE ~ (j < i)
    BY <1>7, <2>1, <2>3, HandledIs
  <2> QED
    BY <2>2, <2>3
<1>11. \A x \in Handled(ts) : IsNews(x)
  BY HandledIs
<1>12. IsNews(m) => m \in Handled(ts)
  BY HandledIs
<1>13. Handled(ts) = Handled(us) \cup NewsIs(m)
  BY <1>9, <1>10, <1>11, <1>12 DEF NewsIs
<1>14. ASSUME OnceHandled(ts)
       PROVE  OnceHandled(us) /\ m \notin Handled(us)
  <2>1. OnceHandled(us)
    <3> SUFFICES ASSUME NEW j \in 1..Len(us), NEW k \in 1..Len(us),
                        IsNews(us[j].msg), us[j].msg = us[k].msg
                 PROVE  j = k
      BY DEF OnceHandled
    <3>1. PICK jj \in 1..Len(ts) : us[j] = ts[jj] /\ jj = (IF j < i THEN j ELSE j + 1)
      BY <1>7
    <3>2. PICK kk \in 1..Len(ts) : us[k] = ts[kk] /\ kk = (IF k < i THEN k ELSE k + 1)
      BY <1>7
    <3>3. jj = kk
      BY <1>14, <3>1, <3>2 DEF OnceHandled
    <3> QED
      BY <1>1, <3>1, <3>2, <3>3
  <2>2. ASSUME m \in Handled(us)
        PROVE  FALSE
    <3>1. PICK j \in 1..Len(us) : m = us[j].msg /\ IsNews(m)
      BY <1>6, <2>2, HandledIs
    <3>2. PICK jj \in 1..Len(ts) : us[j] = ts[jj] /\ jj = (IF j < i THEN j ELSE j + 1)
      BY <1>7
    <3>3. jj = i
      BY <1>14, <3>1, <3>2 DEF OnceHandled
    <3> QED
      BY <1>1, <3>2, <3>3
  <2> QED
    BY <2>1, <2>2
<1> QED
  BY <1>6, <1>7, <1>13, <1>14 DEF us, TaskRemoved

TaskAsked(us, ts) ==
  Handled(us) = Handled(ts) /\ (OnceHandled(ts) => OnceHandled(us))

LEMMA Asks ==
  ASSUME NEW ts \in Seq(Tasks), NEW i \in 1..Len(ts), NEW us,
         us = [ts EXCEPT ![i].query = "owner"]
  PROVE  /\ us \in Seq(Tasks) /\ Len(us) = Len(ts)
         /\ TaskAsked(us, ts)
<1>1. Len(ts) \in Nat /\ ts \in [1..Len(ts) -> Tasks]
  BY LenProperties
<1>2. ts[i] \in Tasks /\ [ts[i] EXCEPT !.query = "owner"] \in Tasks
      /\ [ts[i] EXCEPT !.query = "owner"].msg = ts[i].msg
  BY <1>1 DEF Tasks
<1>3. us = [ts EXCEPT ![i] = [ts[i] EXCEPT !.query = "owner"]]
  OBVIOUS
<1>4. us \in [1..Len(ts) -> Tasks]
  BY <1>1, <1>2, <1>3
<1>5. us \in Seq(Tasks) /\ Len(us) = Len(ts)
  BY <1>1, <1>4, SeqDef, LenProperties
<1>6. \A j \in 1..Len(ts) : us[j].msg = ts[j].msg
  BY <1>1, <1>2, <1>3
<1> QED
  BY <1>5, <1>6 DEF Handled, OnceHandled, TaskAsked

-----------------------------------------------------------------------------
MasterTyped ==
  /\ owner \in Owners /\ status \in [Agents -> Statuses] /\ recent \subseteq Agents
  /\ tasks \in Seq(Tasks) /\ Len(tasks) <= MaxTasks /\ swept \subseteq Agents
PageTyped ==
  /\ ws \in [Pages -> {"none", "open", "registered"}] /\ ghost \in BOOLEAN
  /\ loaded \in [Pages -> [Agents -> Statuses] \cup {None}]
ShownTyped ==
  /\ statuses \in [Pages -> [Agents -> Statuses \cup {None}]]
  /\ shown \in [Pages -> SUBSET Messages]
  /\ missed \in [Pages -> SUBSET Messages]
  /\ outdated \in [Pages -> SUBSET Agents]

LEMMA TypeIs ==
  TypeOK /\ AtItem <=>
    /\ Standing /\ RowsTyped /\ LinkTyped /\ Counted
    /\ MasterTyped /\ PageTyped /\ ShownTyped
BY PipelineTypeIs DEF TypeOK, MasterTyped, PageTyped, ShownTyped

LEMMA TypeInit == Init => TypeOK /\ AtItem
<1> SUFFICES ASSUME Init
             PROVE  TypeOK /\ AtItem
  OBVIOUS
<1>1. PipelineTypeOK /\ AtItem
  BY PipelineTypeInit DEF Init
<1>2. <<>> \in Seq(Tasks) /\ Len(<<>>) = 0 /\ MaxTasks \in Nat
  BY EmptySeq, ConsoleAssumption
<1>3. MasterTyped
  BY <1>2 DEF Init, MasterTyped, Statuses
<1>4. PageTyped /\ ShownTyped
  BY DEF Init, PageTyped, ShownTyped
<1> QED
  BY <1>1, <1>3, <1>4 DEF TypeOK, MasterTyped, PageTyped, ShownTyped

LEMMA AnnouncesStatus ==
  ASSUME ShownTyped, NEW R, NEW A \in SUBSET Agents, NEW s \in Statuses, AnnounceStatus(R, A, s)
  PROVE  ShownTyped' /\ UNCHANGED <<shown, missed>>
<1>1. statuses' \in [Pages -> [Agents -> Statuses \cup {None}]]
  BY DEF AnnounceStatus, ShownTyped
<1>2. outdated' \in [Pages -> SUBSET Agents]
  BY DEF AnnounceStatus, ShownTyped
<1> QED
  BY <1>1, <1>2 DEF AnnounceStatus, ShownTyped

(* A log or an alert comes to the pages it is for, and passes by the others. *)
Passes(R, msg) ==
  \A p \in Pages :
    /\ shown'[p] = shown[p] \cup (IF p \in R THEN NewsIs(msg) ELSE {})
    /\ missed'[p] = missed[p] \cup (IF p \in R THEN {} ELSE NewsIs(msg))

LEMMA AnnouncesAny ==
  ASSUME ShownTyped, NEW R, NEW msg \in Messages, Announce(R, msg)
  PROVE  ShownTyped' /\ Passes(R, msg)
<1>1. CASE msg.type = "UPDATE_LAST_ACTIVE"
  <2>1. AnnounceStatus(R, {msg.agent}, "online") /\ {msg.agent} \in SUBSET Agents
    BY <1>1 DEF Announce, Messages
  <2>2. ShownTyped' /\ UNCHANGED <<shown, missed>>
    BY <2>1, AnnouncesStatus DEF Statuses
  <2> QED
    BY <1>1, <2>2 DEF Passes, NewsIs, IsNews
<1>2. CASE msg.type # "UPDATE_LAST_ACTIVE"
  <2>1. /\ shown' = [p \in Pages |-> IF p \in R THEN shown[p] \cup {msg} ELSE shown[p]]
        /\ missed' = [p \in Pages |-> IF p \in R THEN missed[p] ELSE missed[p] \cup {msg}]
        /\ UNCHANGED <<statuses, outdated>>
    BY <1>2 DEF Announce, AnnounceItem
  <2>2. ShownTyped'
    BY <2>1 DEF ShownTyped
  <2> QED
    BY <1>2, <2>1, <2>2 DEF Passes, NewsIs, IsNews
<1> QED
  BY <1>1, <1>2

LEMMA TypeNext == TypeOK /\ AtItem /\ [Next]_vars => TypeOK' /\ AtItem'
<1> SUFFICES ASSUME TypeOK, AtItem, [Next]_vars
             PROVE  /\ Standing' /\ RowsTyped' /\ LinkTyped' /\ Counted'
                    /\ MasterTyped' /\ PageTyped' /\ ShownTyped'
  BY DEF TypeOK, PipelineTypeOK, Standing, RowsTyped, LinkTyped, Counted,
     MasterTyped,
         PageTyped, ShownTyped
<1> DEFINE All == /\ Standing' /\ RowsTyped' /\ LinkTyped' /\ Counted'
                  /\ MasterTyped' /\ PageTyped' /\ ShownTyped'
<1> USE DEF workerVars, linkVars, masterVars, pageVars
<1>1. /\ Standing /\ RowsTyped /\ LinkTyped /\ Counted
      /\ MasterTyped /\ PageTyped /\ ShownTyped
  BY TypeIs
<1>2. ASSUME UNCHANGED workerVars
      PROVE  Standing' /\ RowsTyped'
  BY <1>1, <1>2 DEF Standing, RowsTyped, AtItem, Record
<1>3. ASSUME UNCHANGED <<sent, linkVars>>
      PROVE  LinkTyped'
  BY <1>1, <1>3 DEF LinkTyped
<1>4. ASSUME UNCHANGED <<faults, signs>>
      PROVE  Counted'
  BY <1>1, <1>4 DEF Counted
<1>5. ASSUME Fault, UNCHANGED signs
      PROVE  Counted'
  BY <1>1, <1>5, Faulty DEF Counted
<1>6. ASSUME UNCHANGED masterVars
      PROVE  MasterTyped'
  BY <1>1, <1>6 DEF MasterTyped
<1>7. ASSUME UNCHANGED <<ws, ghost, loaded>>
      PROVE  PageTyped'
  BY <1>1, <1>7 DEF PageTyped
<1>8. ASSUME UNCHANGED <<statuses, shown, missed, outdated>>
      PROVE  ShownTyped'
  BY <1>1, <1>8 DEF ShownTyped
<1>9. /\ Len(tasks) \in Nat /\ DOMAIN tasks = 1..Len(tasks) /\ MaxTasks \in Nat
      /\ \A i \in 1..Len(tasks) : /\ tasks[i] \in Tasks /\ tasks[i].msg \in Messages
                                  /\ tasks[i].msg.agent \in Agents
  <2>1. tasks \in Seq(Tasks) /\ MaxTasks \in Nat
    BY <1>1, ConsoleAssumption DEF MasterTyped
  <2>2. Len(tasks) \in Nat /\ DOMAIN tasks = 1..Len(tasks)
    BY <2>1, LenProperties
  <2>3. \A i \in 1..Len(tasks) : tasks[i] \in Tasks
    BY <2>1, ElementOfSeq
  <2>4. \A t \in Tasks : t.msg \in Messages /\ t.msg.agent \in Agents
    BY DEF Tasks, Messages
  <2> QED
    BY <2>1, <2>2, <2>3, <2>4
<1>10. ASSUME NEW i \in 1..Len(tasks), tasks' = RemoveAt(tasks, i)
       PROVE  tasks' \in Seq(Tasks) /\ Len(tasks') <= MaxTasks
  BY <1>1, <1>9, <1>10, Removes DEF MasterTyped
<1>11. CASE PipelineNext /\ UNCHANGED <<masterVars, pageVars>>
  <2>1. PipelineTypeOK' /\ AtItem'
    BY <1>11, PipelineTypeNext DEF TypeOK
  <2>2. Standing' /\ RowsTyped' /\ LinkTyped' /\ Counted'
    BY <2>1 DEF PipelineTypeOK, Standing, RowsTyped, LinkTyped, Counted
  <2> QED
    BY <1>6, <1>7, <1>8, <1>11, <2>2
<1>12. CASE ReadMessage
  <2> DEFINE m == Head(toMaster)
  <2>1. /\ toMaster \in Seq(Messages) /\ toMaster # <<>> /\ Len(tasks) < MaxTasks
        /\ toMaster' = Tail(toMaster) /\ UNCHANGED <<sent, link, unsent>>
    BY <1>1, <1>12 DEF ReadMessage, LinkTyped
  <2>2. /\ m \in Messages /\ toMaster' \in Seq(Messages) /\ Len(toMaster') = Len(toMaster) - 1
        /\ Len(toMaster) \in Nat
    BY <2>1, Dequeued
  <2>3. Len(toMaster') <= MaxQueue
    BY <1>1, <2>2, PipelineAssumption DEF LinkTyped
  <2>4. LinkTyped'
    BY <1>1, <2>1, <2>2, <2>3 DEF LinkTyped
  <2> HIDE DEF m
  <2>5. \/ /\ \/ tasks' = Append(tasks, [msg |-> m, query |-> "update"])
              \/ tasks' = Append(tasks, [msg |-> m, query |-> "owner"])
           /\ UNCHANGED <<statuses, outdated, shown, missed>>
        \/ Announce({}, m) /\ UNCHANGED tasks
    BY <1>12 DEF ReadMessage, m
  <2>6. tasks' \in Seq(Tasks) /\ Len(tasks') <= MaxTasks
    <3>1. \A q \in {"update", "owner"} : [msg |-> m, query |-> q] \in Tasks
      BY <2>2 DEF Tasks
    <3>2. \A q \in {"update", "owner"} :
            /\ Append(tasks, [msg |-> m, query |-> q]) \in Seq(Tasks)
            /\ Len(Append(tasks, [msg |-> m, query |-> q])) = Len(tasks) + 1
      BY <1>1, <3>1, Adds DEF MasterTyped
    <3>3. Len(tasks) + 1 <= MaxTasks
      BY <1>9, <2>1
    <3>4. CASE UNCHANGED tasks
      BY <1>1, <3>4 DEF MasterTyped
    <3> QED
      BY <2>5, <3>2, <3>3, <3>4
  <2>7. MasterTyped'
    BY <1>1, <1>12, <2>6 DEF ReadMessage, MasterTyped
  <2>8. ShownTyped'
    BY <1>1, <1>8, <2>2, <2>5, AnnouncesAny
  <2> QED
    BY <1>2, <1>4, <1>7, <1>12, <2>4, <2>7, <2>8 DEF ReadMessage
<1>13. ASSUME NEW i, Updated(i)
       PROVE  All
  <2>1. i \in 1..Len(tasks) /\ tasks[i].query = "update"
    BY <1>9, <1>13 DEF Updated
  <2>2. PICK a \in Agents : /\ a = tasks[i].msg.agent
                            /\ status' = [status EXCEPT ![a] = "online"]
                            /\ recent' = recent \cup {a}
    BY <1>9, <1>13, <2>1 DEF Updated
  <2>3. \/ /\ tasks' = [tasks EXCEPT ![i].query = "owner"]
           /\ UNCHANGED <<statuses, outdated, shown, missed>>
        \/ tasks' = RemoveAt(tasks, i) /\ Announce({}, tasks[i].msg)
    BY <1>13 DEF Updated
  <2>4. tasks' \in Seq(Tasks) /\ Len(tasks') <= MaxTasks
    BY <1>1, <1>10, <2>1, <2>3, Asks DEF MasterTyped
  <2>5. MasterTyped'
    BY <1>1, <1>13, <2>2, <2>4 DEF Updated, MasterTyped, Statuses
  <2>6. ShownTyped'
    BY <1>1, <1>8, <1>9, <2>1, <2>3, AnnouncesAny
  <2> QED
    BY <1>2, <1>3, <1>4, <1>7, <1>13, <2>5, <2>6 DEF Updated
<1>14. ASSUME NEW i, Forward(i)
       PROVE  All
  <2>1. i \in 1..Len(tasks) /\ tasks' = RemoveAt(tasks, i)
        /\ Announce(Receivers(tasks[i].msg.agent), tasks[i].msg)
    BY <1>9, <1>14 DEF Forward
  <2>2. MasterTyped'
    BY <1>1, <1>10, <1>14, <2>1 DEF Forward, MasterTyped
  <2>3. ShownTyped'
    BY <1>1, <1>9, <2>1, AnnouncesAny
  <2> QED
    BY <1>2, <1>3, <1>4, <1>7, <1>14, <2>2, <2>3 DEF Forward
<1>15. ASSUME NEW i, QueryFails(i)
       PROVE  All
  <2>1. i \in 1..Len(tasks) /\ tasks' = RemoveAt(tasks, i) /\ Fault
    BY <1>9, <1>15 DEF QueryFails
  <2>2. /\ tasks[i].msg.agent \in Agents
        /\ \/ UNCHANGED <<status, recent>>
           \/ /\ status' = [status EXCEPT ![tasks[i].msg.agent] = "online"]
              /\ recent' = recent \cup {tasks[i].msg.agent}
    BY <1>9, <1>15, <2>1 DEF QueryFails
  <2>3. MasterTyped'
    BY <1>1, <1>10, <1>15, <2>1, <2>2 DEF QueryFails, MasterTyped, Statuses
  <2>4. ShownTyped'
    BY <1>1, <1>8, <1>9, <1>15, <2>1, AnnouncesAny DEF QueryFails
  <2> QED
    BY <1>2, <1>3, <1>5, <1>7, <1>15, <2>1, <2>3, <2>4 DEF QueryFails
<1>16. ASSUME NEW a \in Agents, Handshake(a)
       PROVE  All
  <2>1. Counted'
    BY <1>1, <1>16, PipelineAssumption DEF Handshake, Sign, Counted
  <2>2. MasterTyped'
    BY <1>1, <1>16 DEF Handshake, MasterTyped, Statuses
  <2> QED
    BY <1>2, <1>3, <1>7, <1>8, <1>16, <2>1, <2>2 DEF Handshake
<1>17. ASSUME NEW a \in Agents, Ages(a)
       PROVE  All
  <2>1. MasterTyped'
    BY <1>1, <1>17 DEF Ages, MasterTyped
  <2> QED
    BY <1>2, <1>3, <1>4, <1>7, <1>8, <1>17, <2>1 DEF Ages
<1>18. CASE Sweep
  <2>1. MasterTyped'
    BY <1>1, <1>18 DEF Sweep, MasterTyped, Statuses, SweptStatus, Silent
  <2> QED
    BY <1>2, <1>3, <1>4, <1>7, <1>8, <1>18, <2>1 DEF Sweep
<1>19. CASE SweepAnnounced
  <2>1. MasterTyped'
    BY <1>1, <1>19 DEF SweepAnnounced, MasterTyped
  <2>2. ShownTyped'
    <3>1. AnnounceStatus(activeUIs, swept, "offline") /\ swept \in SUBSET Agents
      BY <1>1, <1>19 DEF SweepAnnounced, AnnounceSwept, MasterTyped
    <3> QED
      BY <1>1, <3>1, AnnouncesStatus DEF Statuses
  <2> QED
    BY <1>2, <1>3, <1>4, <1>7, <1>19, <2>1, <2>2 DEF SweepAnnounced
<1>20. CASE GhostCloses
  <2>1. PageTyped'
    BY <1>1, <1>20 DEF GhostCloses, PageTyped
  <2> QED
    BY <1>2, <1>3, <1>4, <1>6, <1>8, <1>20, <2>1 DEF GhostCloses
<1>21. ASSUME NEW p \in Pages, PageConnects(p) \/ Registers(p)
       PROVE  All
  <2>1. PageTyped'
    BY <1>1, <1>21 DEF PageConnects, Registers, PageTyped
  <2> QED
    BY <1>2, <1>3, <1>4, <1>6, <1>8, <1>21, <2>1 DEF PageConnects, Registers
<1>22. ASSUME NEW p \in Pages, PageLoads(p)
       PROVE  All
  <2>1. PageTyped'
    BY <1>1, <1>22 DEF PageLoads, PageTyped, MasterTyped
  <2> QED
    BY <1>2, <1>3, <1>4, <1>6, <1>8, <1>22, <2>1 DEF PageLoads
<1>23. ASSUME NEW p \in Pages, PageDisconnects(p)
       PROVE  All
  <2>1. ghost' \in BOOLEAN
    BY <1>1, <1>23 DEF PageDisconnects, PageTyped
  <2>2. PageTyped'
    BY <1>1, <1>23, <2>1 DEF PageDisconnects, PageTyped
  <2> QED
    BY <1>2, <1>3, <1>5, <1>6, <1>8, <1>23, <2>2 DEF PageDisconnects
<1>24. ASSUME NEW p \in Pages, PageReloads(p)
       PROVE  All
  <2>1. ghost' \in BOOLEAN
    BY <1>1, <1>24 DEF PageReloads, PageTyped
  <2>2. PageTyped'
    BY <1>1, <1>24, <2>1 DEF PageReloads, PageTyped
  <2>3. ShownTyped'
    BY <1>1, <1>24 DEF PageReloads, ShownTyped
  <2> QED
    BY <1>2, <1>3, <1>5, <1>6, <1>24, <2>2, <2>3 DEF PageReloads
<1>25. CASE UNCHANGED vars
  BY <1>2, <1>3, <1>4, <1>6, <1>7, <1>8, <1>25 DEF vars
<1> QED
  BY <1>11, <1>12, <1>13, <1>14, <1>15, <1>16, <1>17, <1>18, <1>19, <1>20, <1>21,
     <1>22,
     <1>23, <1>24, <1>25 DEF Next

-----------------------------------------------------------------------------
(* What a page is to be served is split over five places: what moves from   *)
(* one to another leaves it split.                                          *)
LEMMA Arrives ==
  ASSUME NEW all, NEW a, NEW b, NEW c, NEW d, NEW e, NEW x,
         Split(all, a, b, c, d, e), x \cap all = {}
  PROVE  Split(all \cup x, a \cup x, b, c, d, e) /\ Split(all \cup x, a, b \cup x, c, d, e)
BY DEF Split

LEMMA Proceeds ==
  ASSUME NEW all, NEW a, NEW b, NEW c, NEW d, NEW e, NEW x,
         Split(all, a, b \cup x, c, d, e), x \cap b = {}
  PROVE  /\ Split(all, a \cup x, b, c, d, e) /\ Split(all, a, b, c \cup x, d, e)
         /\ Split(all, a, b, c, d, e \cup x)
BY DEF Split

LEMMA Concludes ==
  ASSUME NEW all, NEW a, NEW b, NEW c, NEW d, NEW e, NEW x,
         Split(all, a, b, c \cup x, d, e), x \cap c = {}
  PROVE  Split(all, a, b, c, d \cup x, e) /\ Split(all, a, b, c, d, e \cup x)
BY DEF Split

LEMMA Forgets ==
  ASSUME NEW all, NEW a, NEW b, NEW c, NEW d, NEW e, Split(all, a, b, c, d, e)
  PROVE  Split(all, a, b, c, {}, e \cup d)
BY DEF Split

(* What a step of the worker does to what it announces: nothing, a message  *)
(* more that was never sent before, or the websocket loses its last part.   *)
Fresh(m) ==
  /\ NewsIs(m) \cap sent = {} /\ sent' = sent \cup NewsIs(m)
  /\ \/ Gains(toMaster', toMaster, m) /\ UNCHANGED unsent
     \/ UNCHANGED toMaster /\ unsent' = unsent \cup NewsIs(m)
Loses(rest) ==
  UNCHANGED sent /\ unsent' = unsent \cup News(rest) /\ Parts(toMaster, toMaster', rest)
LinkMoves ==
  \/ UNCHANGED <<sent, unsent, toMaster>>
  \/ \E m \in Messages : Fresh(m)
  \/ \E rest : Loses(rest)

LEMMA EveryLinkMove ==
  ASSUME PipelineTypeOK, AtItem, NotAhead, PipelineNext
  PROVE  LinkMoves
<1> USE DEF workerVars, linkVars
<1>1. ASSUME NEW c \in Conns, sendToMaster(<<Message("UPDATE_LAST_ACTIVE", c, None)>>)
      PROVE  LinkMoves
  <2>1. PICK m \in Messages : /\ m = Message("UPDATE_LAST_ACTIVE", c, None)
                              /\ m.type = "UPDATE_LAST_ACTIVE"
    BY MessageIs DEF MessageTypes
  <2>2. NewsIs(m) \cap sent = {}
    BY <2>1 DEF NewsIs, IsNews
  <2>3. Fresh(m)
    BY <1>1, <2>1, <2>2, Sends DEF Fresh
  <2> QED
    BY <2>3 DEF LinkMoves
<1>2. ASSUME NEW c \in Conns, NEW type \in {"AGENT_LOG", "RULE_ALERT"},
             \/ stage[c] = "next" /\ type = "RULE_ALERT"
             \/ stage[c] = "log" /\ type = "AGENT_LOG",
             sendToMaster(<<Message(type, c, Item(c))>>)
      PROVE  LinkMoves
  <2>1. /\ Item(c) \in Items /\ rec[c] \in DOMAIN batch[c]
        /\ pos[c] \in DOMAIN batch[c][rec[c]].items
    BY <1>2, ItemIs DEF Record
  <2>2. PICK m \in Messages : m = Message(type, c, Item(c)) /\ m.type = type /\ m.item = Item(c)
    BY <2>1, MessageIs DEF MessageTypes
  <2>3. ASSUME m \in sent
        PROVE  FALSE
    <3>1. \/ m.type = "AGENT_LOG" /\ Begun(c, rec[c], pos[c], {"alert", "name"})
          \/ m.type = "RULE_ALERT" /\ Begun(c, rec[c], pos[c], {"log", "alert", "name"})
      BY <2>1, <2>2, <2>3 DEF NotAhead, InTurn, Item, Record
    <3> QED
      BY <1>2, <2>2, <3>1, NotPassed DEF Begun
  <2>4. NewsIs(m) \cap sent = {}
    BY <2>3 DEF NewsIs
  <2>5. Fresh(m)
    BY <1>2, <2>2, <2>4, Sends DEF Fresh
  <2> QED
    BY <2>5 DEF LinkMoves
<1>3. ASSUME NEW c \in Conns, ReceiveBatch(c) \/ Ping(c)
      PROVE  LinkMoves
  BY <1>1, <1>3 DEF ReceiveBatch, Ping
<1>4. ASSUME NEW c \in Conns, Evaluate(c)
      PROVE  LinkMoves
  <2>1. CASE Alert[Item(c)] = "high"
    BY <1>2, <1>4, <2>1 DEF Evaluate
  <2>2. CASE Alert[Item(c)] # "high"
    BY <1>4, <2>2, SendsNothing DEF Evaluate, LinkMoves
  <2> QED
    BY <2>1, <2>2
<1>5. ASSUME NEW c \in Conns, LogWritten(c) \/ LogFails(c)
      PROVE  LinkMoves
  BY <1>2, <1>5 DEF LogWritten, LogFails
<1>6. ASSUME NEW c \in Conns,
             Decrypted(c) \/ AlertWritten(c) \/ AlertFails(c) \/ NameRead(c)
      PROVE  LinkMoves
  BY <1>6 DEF Decrypted, AlertWritten, AlertFails, NameRead, LinkMoves
<1>7. CASE LinkFails
  <2>1. PICK k \in 0..Len(toMaster) :
          /\ toMaster' = SubSeq(toMaster, 1, k)
          /\ unsent' = unsent \cup News(SubSeq(toMaster, k + 1, Len(toMaster)))
    BY <1>7 DEF LinkFails
  <2>2. Loses(SubSeq(toMaster, k + 1, Len(toMaster)))
    BY <1>7, <2>1, Cut DEF Loses, LinkFails, PipelineTypeOK
  <2> QED
    BY <2>2 DEF LinkMoves
<1>8. CASE LinkUp
  BY <1>8 DEF LinkUp, LinkMoves
<1> QED
  BY <1>3, <1>4, <1>5, <1>6, <1>7, <1>8 DEF PipelineNext

LEMMA OnePlaceLink ==
  ASSUME OnePlace, LinkMoves, UNCHANGED <<tasks, shown, missed>>
  PROVE  OnePlace'
<1> DEFINE b == News(toMaster)
           c == Handled(tasks)
<1>1. /\ Once(toMaster) /\ OnceHandled(tasks) /\ b \cup c \subseteq sent /\ b \cap c = {}
      /\ \A p \in Pages : Split(sent, unsent, b, c, shown[p], missed[p])
  BY DEF OnePlace
<1>2. /\ c' = c /\ OnceHandled(tasks)'
      /\ \A p \in Pages : shown'[p] = shown[p] /\ missed'[p] = missed[p]
  BY <1>1
<1>3. CASE UNCHANGED <<sent, unsent, toMaster>>
  BY <1>3 DEF OnePlace
<1>4. ASSUME NEW m, Fresh(m)
      PROVE  OnePlace'
  <2>1. /\ NewsIs(m) \cap sent = {} /\ sent' = sent \cup NewsIs(m)
        /\ \/ Gains(toMaster', toMaster, m) /\ UNCHANGED unsent
           \/ UNCHANGED toMaster /\ unsent' = unsent \cup NewsIs(m)
    BY <1>4 DEF Fresh
  <2>2. CASE Gains(toMaster', toMaster, m) /\ UNCHANGED unsent
    <3>1. b' = b \cup NewsIs(m)
      BY <2>2 DEF Gains
    <3>2. Once(toMaster)'
      <4>1. CASE IsNews(m)
        BY <1>1, <2>1, <2>2, <4>1 DEF Gains, NewsIs
      <4>2. CASE ~ IsNews(m)
        BY <1>1, <2>2, <4>2 DEF Gains, News, IsNews
      <4> QED
        BY <4>1, <4>2
    <3> HIDE DEF b, c
    <3>3. ASSUME NEW p \in Pages
          PROVE  Split(sent', unsent', b', c', shown'[p], missed'[p])
      BY <1>1, <1>2, <2>1, <2>2, <3>1, Arrives
    <3>4. b' \cup c' \subseteq sent' /\ b' \cap c' = {}
      BY <1>1, <1>2, <2>1, <3>1
    <3> QED
      BY <1>2, <3>2, <3>3, <3>4 DEF OnePlace, b, c
  <2>3. CASE UNCHANGED toMaster /\ unsent' = unsent \cup NewsIs(m)
    <3>1. b' = b /\ Once(toMaster)'
      BY <1>1, <2>3
    <3> HIDE DEF b, c
    <3>2. ASSUME NEW p \in Pages
          PROVE  Split(sent', unsent', b', c', shown'[p], missed'[p])
      BY <1>1, <1>2, <2>1, <2>3, <3>1, Arrives
    <3>3. b' \cup c' \subseteq sent' /\ b' \cap c' = {}
      BY <1>1, <1>2, <2>1, <3>1
    <3> QED
      BY <1>2, <3>1, <3>2, <3>3 DEF OnePlace, b, c
  <2> QED
    BY <2>1, <2>2, <2>3
<1>5. ASSUME NEW rest, Loses(rest)
      PROVE  OnePlace'
  <2>1. /\ sent' = sent /\ unsent' = unsent \cup News(rest)
        /\ b = b' \cup News(rest) /\ News(rest) \cap b' = {} /\ Once(toMaster)'
    BY <1>1, <1>5 DEF Loses, Parts
  <2> HIDE DEF b, c
  <2>2. ASSUME NEW p \in Pages
        PROVE  Split(sent', unsent', b', c', shown'[p], missed'[p])
    <3>1. Split(sent, unsent, b' \cup News(rest), c, shown[p], missed[p])
      BY <1>1, <2>1
    <3> QED
      BY <1>2, <2>1, <3>1, Proceeds
  <2>3. b' \cup c' \subseteq sent' /\ b' \cap c' = {}
    BY <1>1, <1>2, <2>1
  <2> QED
    BY <1>2, <2>1, <2>2, <2>3 DEF OnePlace, b, c
<1> QED
  BY <1>3, <1>4, <1>5 DEF LinkMoves

(* A message is read from the websocket: a task more, or nobody is there.   *)
LEMMA OnePlaceRead ==
  ASSUME OnePlace, toMaster \in Seq(Messages), toMaster # <<>>, toMaster' = Tail(toMaster),
         UNCHANGED <<sent, unsent>>,
         \/ TaskAdded(tasks', tasks, Head(toMaster)) /\ UNCHANGED <<shown, missed>>
         \/ UNCHANGED tasks /\ Passes({}, Head(toMaster))
  PROVE  OnePlace'
<1> DEFINE b == News(toMaster)
           c == Handled(tasks)
           m == Head(toMaster)
           x == NewsIs(m)
<1>1. /\ Once(toMaster) /\ OnceHandled(tasks) /\ b \cup c \subseteq sent /\ b \cap c = {}
      /\ \A p \in Pages : Split(sent, unsent, b, c, shown[p], missed[p])
  BY DEF OnePlace
<1>2. b = b' \cup x /\ x \cap b' = {} /\ Once(toMaster)'
  BY <1>1, Dequeued DEF NewsIs
<1>3. CASE TaskAdded(tasks', tasks, m) /\ UNCHANGED <<shown, missed>>
  <2>1. c' = c \cup x
    BY <1>3 DEF TaskAdded
  <2>2. OnceHandled(tasks)'
    <3>1. m \notin c
      BY <1>1, <1>2 DEF NewsIs, Handled
    <3> QED
      BY <1>1, <1>3, <3>1 DEF TaskAdded
  <2>3. /\ UNCHANGED <<sent, unsent>>
        /\ \A p \in Pages : shown'[p] = shown[p] /\ missed'[p] = missed[p]
    BY <1>3
  <2> HIDE DEF b, c, x, m
  <2>4. ASSUME NEW p \in Pages
        PROVE  Split(sent', unsent', b', c', shown'[p], missed'[p])
    <3>1. Split(sent, unsent, b' \cup x, c, shown[p], missed[p])
      BY <1>1, <1>2
    <3> QED
      BY <1>2, <2>1, <2>3, <3>1, Proceeds
  <2>5. b' \cup c' \subseteq sent' /\ b' \cap c' = {}
    BY <1>1, <1>2, <2>1, <2>3
  <2> QED
    BY <1>2, <2>2, <2>4, <2>5 DEF OnePlace, b, c
<1>4. CASE UNCHANGED tasks /\ Passes({}, m)
  <2>1. c' = c /\ OnceHandled(tasks)' /\ UNCHANGED <<sent, unsent>>
    BY <1>1, <1>4
  <2>2. \A p \in Pages : shown'[p] = shown[p] /\ missed'[p] = missed[p] \cup x
    BY <1>4 DEF Passes
  <2> HIDE DEF b, c, x, m
  <2>3. ASSUME NEW p \in Pages
        PROVE  Split(sent', unsent', b', c', shown'[p], missed'[p])
    <3>1. Split(sent, unsent, b' \cup x, c, shown[p], missed[p])
      BY <1>1, <1>2
    <3>2. Split(sent, unsent, b', c, shown[p], missed[p] \cup x)
      BY <1>2, <3>1, Proceeds
    <3> QED
      BY <2>1, <2>2, <3>2
  <2>4. b' \cup c' \subseteq sent' /\ b' \cap c' = {}
    BY <1>1, <1>2, <2>1
  <2> QED
    BY <1>2, <2>1, <2>3, <2>4 DEF OnePlace, b, c
<1> QED
  BY <1>3, <1>4 DEF m

(* A task ends, with its message on the pages it is for.                    *)
LEMMA OnePlaceDone ==
  ASSUME OnePlace, UNCHANGED <<sent, unsent, toMaster>>, NEW m, NEW R,
         TaskRemoved(tasks', tasks, m), Passes(R, m)
  PROVE  OnePlace'
<1> DEFINE b == News(toMaster)
           c == Handled(tasks)
           x == NewsIs(m)
<1>1. /\ Once(toMaster) /\ OnceHandled(tasks) /\ b \cup c \subseteq sent /\ b \cap c = {}
      /\ \A p \in Pages : Split(sent, unsent, b, c, shown[p], missed[p])
  BY DEF OnePlace
<1>2. c = c' \cup x /\ x \cap c' = {} /\ OnceHandled(tasks)'
  BY <1>1 DEF TaskRemoved, NewsIs
<1>3. UNCHANGED <<sent, unsent>> /\ b' = b /\ Once(toMaster)'
  BY <1>1
<1> HIDE DEF b, c, x
<1>4. ASSUME NEW p \in Pages
      PROVE  Split(sent', unsent', b', c', shown'[p], missed'[p])
  <2>1. Split(sent, unsent, b, c' \cup x, shown[p], missed[p])
    BY <1>1, <1>2
  <2>2. CASE p \in R
    <3>1. shown'[p] = shown[p] \cup x /\ missed'[p] = missed[p]
      BY <2>2 DEF Passes, x
    <3>2. Split(sent, unsent, b, c', shown[p] \cup x, missed[p])
      BY <1>2, <2>1, Concludes
    <3> QED
      BY <1>3, <3>1, <3>2
  <2>3. CASE p \notin R
    <3>1. shown'[p] = shown[p] /\ missed'[p] = missed[p] \cup x
      BY <2>3 DEF Passes, x
    <3>2. Split(sent, unsent, b, c', shown[p], missed[p] \cup x)
      BY <1>2, <2>1, Concludes
    <3> QED
      BY <1>3, <3>1, <3>2
  <2> QED
    BY <2>2, <2>3
<1>5. b' \cup c' \subseteq sent' /\ b' \cap c' = {}
  BY <1>1, <1>2, <1>3
<1> QED
  BY <1>2, <1>3, <1>4, <1>5 DEF OnePlace, b, c

LEMMA OnePlaceReload ==
  ASSUME OnePlace, ShownTyped, NEW p \in Pages, PageReloads(p)
  PROVE  OnePlace' /\ (Own => Own')
<1>1. /\ shown' = [shown EXCEPT ![p] = {}]
      /\ missed' = [missed EXCEPT ![p] = missed[p] \cup shown[p]]
      /\ UNCHANGED <<sent, unsent, toMaster, tasks, owner>>
  BY DEF PageReloads, workerVars, linkVars, masterVars
<1>2. \A q \in Pages : \/ q # p /\ shown'[q] = shown[q] /\ missed'[q] = missed[q]
                       \/ q = p /\ shown'[q] = {} /\ missed'[q] = missed[q] \cup shown[q]
  BY <1>1 DEF ShownTyped
<1>3. ASSUME NEW q \in Pages
      PROVE  Split(sent, unsent, News(toMaster), Handled(tasks), shown'[q], missed'[q])
  BY <1>2, Forgets DEF OnePlace
<1>4. OnePlace'
  BY <1>1, <1>3 DEF OnePlace
<1>5. Own => Own'
  BY <1>1, <1>2 DEF Own, Owns
<1> QED
  BY <1>4, <1>5

Delivery == OnePlace /\ Own

LEMMA DeliveryInit == Init => Delivery
<1> SUFFICES ASSUME Init
             PROVE  Delivery
  OBVIOUS
<1>1. /\ toMaster = <<>> /\ tasks = <<>> /\ sent = {} /\ unsent = {}
      /\ \A p \in Pages : shown[p] = {} /\ missed[p] = {}
  BY DEF Init, PipelineInit
<1>2. 1..Len(<<>>) = {} /\ <<>> \in Seq(Messages)
  BY EmptySeq
<1>3. News(toMaster) = {} /\ Once(toMaster)
  <2>1. News(<<>>) = {m \in {<<>>[i] : i \in 1..Len(<<>>)} : IsNews(m)}
    BY <1>2, NewsOf
  <2>2. {<<>>[i] : i \in 1..Len(<<>>)} = {}
    BY <1>2
  <2> QED
    BY <1>1, <1>2, <2>1, <2>2 DEF Once
<1>4. Handled(tasks) = {} /\ OnceHandled(tasks)
  <2>1. {<<>>[i].msg : i \in 1..Len(<<>>)} = {}
    BY <1>2
  <2> QED
    BY <1>1, <1>2, <2>1 DEF Handled, OnceHandled
<1>5. \A p \in Pages : Split(sent, unsent, News(toMaster), Handled(tasks), shown[p], missed[p])
  BY <1>1, <1>3, <1>4 DEF Split
<1> QED
  BY <1>1, <1>3, <1>4, <1>5 DEF Delivery, OnePlace, Own

(* Who is passed a message owns its agent.                                  *)
LEMMA OwnPasses ==
  ASSUME Own, UNCHANGED owner, NEW m, NEW R, Passes(R, m), \A p \in R : Owns(p, m.agent)
  PROVE  Own'
BY DEF Own, Owns, Passes, NewsIs

LEMMA OwnStays ==
  ASSUME Own, UNCHANGED <<owner, shown>>
  PROVE  Own'
BY DEF Own, Owns

LEMMA DeliveryNext ==
  TypeOK /\ AtItem /\ NotAhead /\ Delivery /\ [Next]_vars => Delivery'
<1> SUFFICES ASSUME TypeOK, AtItem, NotAhead, Delivery, [Next]_vars
             PROVE  Delivery'
  OBVIOUS
<1> USE DEF workerVars, linkVars, masterVars, pageVars
<1>1. /\ OnePlace /\ Own /\ PipelineTypeOK /\ ShownTyped
      /\ toMaster \in Seq(Messages) /\ tasks \in Seq(Tasks)
      /\ Len(tasks) \in Nat /\ DOMAIN tasks = 1..Len(tasks)
  <2>1. ShownTyped /\ tasks \in Seq(Tasks) /\ toMaster \in Seq(Messages) /\ PipelineTypeOK
    BY DEF TypeOK, ShownTyped, PipelineTypeOK
  <2> QED
    BY <2>1, LenProperties DEF Delivery
<1>2. ASSUME UNCHANGED <<sent, unsent, toMaster, tasks, shown, missed, owner>>
      PROVE  Delivery'
  BY <1>1, <1>2, OwnStays DEF Delivery, OnePlace
<1>3. ASSUME NEW i \in 1..Len(tasks)
      PROVE  tasks[i] \in Tasks /\ tasks[i].msg \in Messages
  <2>1. tasks[i] \in Tasks
    BY <1>1, ElementOfSeq
  <2> QED
    BY <2>1 DEF Tasks
<1>4. ASSUME NEW i \in 1..Len(tasks), NEW R, Passes(R, tasks[i].msg),
             tasks' = RemoveAt(tasks, i), UNCHANGED <<sent, unsent, toMaster, owner>>,
             \A p \in R : Owns(p, tasks[i].msg.agent)
      PROVE  Delivery'
  <2>1. TaskRemoved(tasks', tasks, tasks[i].msg)
    BY <1>1, <1>4, Removes
  <2> QED
    BY <1>1, <1>4, <2>1, OnePlaceDone, OwnPasses DEF Delivery
<1>5. CASE PipelineNext /\ UNCHANGED <<masterVars, pageVars>>
  <2>1. LinkMoves
    BY <1>1, <1>5, EveryLinkMove
  <2> QED
    BY <1>1, <1>5, <2>1, OnePlaceLink, OwnStays DEF Delivery
<1>6. CASE ReadMessage
  <2> DEFINE m == Head(toMaster)
  <2>1. /\ toMaster # <<>> /\ toMaster' = Tail(toMaster) /\ UNCHANGED <<sent, unsent, owner>>
        /\ \/ /\ \/ tasks' = Append(tasks, [msg |-> m, query |-> "update"])
                 \/ tasks' = Append(tasks, [msg |-> m, query |-> "owner"])
              /\ UNCHANGED <<shown, missed>>
           \/ Announce({}, m) /\ UNCHANGED tasks
    BY <1>6 DEF ReadMessage
  <2>2. m \in Messages
    BY <1>1, <2>1, Dequeued
  <2> HIDE DEF m
  <2>3. CASE /\ \/ tasks' = Append(tasks, [msg |-> m, query |-> "update"])
                \/ tasks' = Append(tasks, [msg |-> m, query |-> "owner"])
             /\ UNCHANGED <<shown, missed>>
    <3>1. \A q \in {"update", "owner"} :
            [msg |-> m, query |-> q] \in Tasks /\ [msg |-> m, query |-> q].msg = m
      BY <2>2 DEF Tasks
    <3>2. TaskAdded(tasks', tasks, m)
      BY <1>1, <2>3, <3>1, Adds
    <3> QED
      BY <1>1, <2>1, <2>3, <3>2, OnePlaceRead, OwnStays DEF Delivery, m
  <2>4. CASE Announce({}, m) /\ UNCHANGED tasks
    <3>1. Passes({}, m)
      BY <1>1, <2>2, <2>4, AnnouncesAny
    <3>2. OnePlace'
      BY <1>1, <2>1, <2>4, <3>1, OnePlaceRead DEF m
    <3>3. Own'
      <4>1. \A p \in {} : Owns(p, m.agent)
        OBVIOUS
      <4> QED
        BY <1>1, <2>1, <3>1, <4>1, OwnPasses
    <3> QED
      BY <3>2, <3>3 DEF Delivery
  <2> QED
    BY <2>1, <2>3, <2>4
<1>7. ASSUME NEW i, Updated(i)
      PROVE  Delivery'
  <2>1. /\ i \in 1..Len(tasks) /\ UNCHANGED <<sent, unsent, toMaster, owner>>
        /\ \/ /\ tasks' = [tasks EXCEPT ![i].query = "owner"] /\ UNCHANGED <<shown, missed>>
           \/ tasks' = RemoveAt(tasks, i) /\ Announce({}, tasks[i].msg)
    BY <1>1, <1>7 DEF Updated
  <2>2. CASE tasks' = [tasks EXCEPT ![i].query = "owner"] /\ UNCHANGED <<shown, missed>>
    <3>1. Handled(tasks') = Handled(tasks) /\ OnceHandled(tasks')
      <4>1. TaskAsked(tasks', tasks) /\ OnceHandled(tasks)
        BY <1>1, <2>1, <2>2, Asks DEF OnePlace
      <4> QED
        BY <4>1 DEF TaskAsked
    <3> QED
      BY <1>1, <2>1, <2>2, <3>1, OwnStays DEF Delivery, OnePlace
  <2>3. CASE tasks' = RemoveAt(tasks, i) /\ Announce({}, tasks[i].msg)
    <3>1. Passes({}, tasks[i].msg)
      BY <1>1, <1>3, <2>1, <2>3, AnnouncesAny
    <3>2. \A p \in {} : Owns(p, tasks[i].msg.agent)
      OBVIOUS
    <3> QED
      BY <1>4, <2>1, <2>3, <3>1, <3>2
  <2> QED
    BY <2>1, <2>2, <2>3
<1>8. ASSUME NEW i, Forward(i)
      PROVE  Delivery'
  <2>1. /\ i \in 1..Len(tasks) /\ UNCHANGED <<sent, unsent, toMaster, owner>>
        /\ tasks' = RemoveAt(tasks, i)
        /\ Announce(Receivers(tasks[i].msg.agent), tasks[i].msg)
    BY <1>1, <1>8 DEF Forward
  <2>2. \A p \in Receivers(tasks[i].msg.agent) : Owns(p, tasks[i].msg.agent)
    BY DEF Receivers
  <2> QED
    BY <1>1, <1>3, <1>4, <2>1, <2>2, AnnouncesAny
<1>9. ASSUME NEW i, QueryFails(i)
      PROVE  Delivery'
  <2>1. /\ i \in 1..Len(tasks) /\ UNCHANGED <<sent, unsent, toMaster, owner>>
        /\ tasks' = RemoveAt(tasks, i)
        /\ \/ ~ IsNews(tasks[i].msg) /\ UNCHANGED <<shown, missed>>
           \/ Announce({}, tasks[i].msg)
    BY <1>1, <1>9 DEF QueryFails, IsNews
  <2>2. Passes({}, tasks[i].msg)
    <3>1. CASE ~ IsNews(tasks[i].msg) /\ UNCHANGED <<shown, missed>>
      BY <3>1 DEF Passes, NewsIs
    <3>2. CASE Announce({}, tasks[i].msg)
      BY <1>1, <1>3, <2>1, <3>2, AnnouncesAny
    <3> QED
      BY <2>1, <3>1, <3>2
  <2> QED
    BY <1>4, <2>1, <2>2
<1>10. ASSUME NEW a \in Agents, Handshake(a) \/ Ages(a)
       PROVE  Delivery'
  BY <1>2, <1>10 DEF Handshake, Ages
<1>11. CASE Sweep \/ GhostCloses
  BY <1>2, <1>11 DEF Sweep, GhostCloses
<1>12. CASE SweepAnnounced
  BY <1>2, <1>12 DEF SweepAnnounced, AnnounceSwept, AnnounceStatus
<1>13. ASSUME NEW p \in Pages,
              PageConnects(p) \/ Registers(p) \/ PageLoads(p) \/ PageDisconnects(p)
       PROVE  Delivery'
  BY <1>2, <1>13 DEF PageConnects, Registers, PageLoads, PageDisconnects
<1>14. ASSUME NEW p \in Pages, PageReloads(p)
       PROVE  Delivery'
  BY <1>1, <1>14, OnePlaceReload DEF Delivery
<1>15. CASE UNCHANGED vars
  BY <1>2, <1>15 DEF vars
<1> QED
  BY <1>5, <1>6, <1>7, <1>8, <1>9, <1>10, <1>11, <1>12, <1>13, <1>14, <1>15 DEF Next

-----------------------------------------------------------------------------
(* The four words of EveryPageServed, and that one of them holds.           *)
Where(msg, p, w) ==
  \/ w = "unsent" /\ msg \in unsent
  \/ w = "on its way" /\ msg \in InFlight
  \/ w = "shown" /\ msg \in shown[p]
  \/ w = "missed" /\ msg \in missed[p]

LEMMA Served == TypeOK /\ Delivery => EveryPageServed
<1> SUFFICES ASSUME TypeOK, Delivery, NEW msg \in sent, IsNews(msg), NEW p \in Pages
             PROVE  IF Owns(p, msg.agent)
                    THEN Cardinality({w \in {"unsent", "on its way", "shown", "missed"} :
                                        Where(msg, p, w)}) = 1
                    ELSE msg \notin shown[p]
  BY DEF EveryPageServed, IsNews, Where
<1>1. CASE ~ Owns(p, msg.agent)
  BY <1>1 DEF Delivery, Own
<1>2. CASE Owns(p, msg.agent)
  <2> DEFINE W == {w \in {"unsent", "on its way", "shown", "missed"} : Where(msg, p, w)}
             b == News(toMaster)
             c == Handled(tasks)
  <2>1. msg \in InFlight <=> msg \in b \cup c
    <3>1. tasks \in Seq(Tasks)
      BY DEF TypeOK
    <3>2. DOMAIN tasks = 1..Len(tasks)
      BY <3>1, LenProperties
    <3>3. msg \in ToSet(toMaster) <=> msg \in b
      BY DEF News, IsNews
    <3>4. msg \in {tasks[i].msg : i \in DOMAIN tasks} <=> msg \in c
      BY <3>2 DEF Handled
    <3> QED
      BY <3>3, <3>4 DEF InFlight
  <2>2. Split(sent, unsent, b, c, shown[p], missed[p])
    BY DEF Delivery, OnePlace
  <2> HIDE DEF b, c
  <2>3. \/ msg \in unsent /\ msg \notin b \cup c /\ msg \notin shown[p] /\ msg \notin missed[p]
        \/ msg \notin unsent /\ msg \in b \cup c /\ msg \notin shown[p] /\ msg \notin missed[p]
        \/ msg \notin unsent /\ msg \notin b \cup c /\ msg \in shown[p] /\ msg \notin missed[p]
        \/ msg \notin unsent /\ msg \notin b \cup c /\ msg \notin shown[p] /\ msg \in missed[p]
    BY <2>2 DEF Split
  <2>4. W = {"unsent"} \/ W = {"on its way"} \/ W = {"shown"} \/ W = {"missed"}
    BY <2>1, <2>3 DEF Where
  <2>5. \A w : Cardinality({w}) = 1
    BY FS_Singleton
  <2> QED
    BY <1>2, <2>4, <2>5
<1> QED
  BY <1>1, <1>2

-----------------------------------------------------------------------------
(* What the master and the pages do leaves the worker's records alone.      *)
LEMMA WorkerAlone == [Next]_vars => PipelineNext \/ UNCHANGED workerVars
BY DEF Next, ReadMessage, Updated, Forward, QueryFails, Handshake, Ages, Sweep,
   SweepAnnounced,
       GhostCloses, PageConnects, Registers, PageLoads, PageDisconnects, PageReloads, vars

(* Everything above, together, is what the steps of the system preserve.    *)
Inductive == TypeOK /\ AtItem /\ Orderly /\ Delivery

LEMMA AlwaysInductive == Spec => []Inductive
<1>1. Init => Inductive
  BY TypeInit, OrderlyInit, DeliveryInit DEF Inductive, Init
<1>2. Inductive /\ [Next]_vars => Inductive'
  <2> SUFFICES ASSUME Inductive, [Next]_vars
               PROVE  Inductive'
    OBVIOUS
  <2>1. TypeOK' /\ AtItem'
    BY TypeNext DEF Inductive
  <2>2. Orderly'
    <3>1. PipelineTypeOK /\ AtItem /\ Orderly
      BY DEF Inductive, TypeOK
    <3> QED
      BY <3>1, WorkerAlone, OrderlyNext
  <2>3. Delivery'
    BY DeliveryNext DEF Inductive, Orderly
  <2> QED
    BY <2>1, <2>2, <2>3 DEF Inductive
<1> QED
  BY <1>1, <1>2, PTL DEF Spec

(* The variables of worker, master and pages keep their types: no queue or  *)
(* table of tasks outgrows its bound, and a connection is never behind the  *)
(* record after its last (tcpReceiver.js:150-167).                          *)
THEOREM ConsoleTyped == Spec => []TypeOK
<1>1. Inductive => TypeOK
  BY DEF Inductive
<1> QED
  BY <1>1, AlwaysInductive, PTL

(* What an agent is told of was saved as an alert before, and that alert    *)
(* only after its record, however the connections take turns and whichever  *)
(* query fails (handleAgentRule.js:24-27, 142-145, dbWriter.js:134-172).    *)
THEOREM AlertsStored == Spec => []ToldOfStored
<1>1. Inductive => ToldOfStored
  BY DEF Inductive, Orderly
<1> QED
  BY <1>1, AlwaysInductive, PTL

(* An item that a connection has passed was announced to the master, unless *)
(* it follows, in the same software list, a package whose alert could not be *)
(* saved: a failure of one record costs no other (tcpReceiver.js:150-167,   *)
(* handleAgentRule.js:144, 159).                                            *)
THEOREM FailuresContained == Spec => []OneFailureOneRecord
<1>1. Inductive => OneFailureOneRecord
  BY DEF Inductive, Orderly, NoneSkipped, Excused, OneFailureOneRecord
<1> QED
  BY <1>1, AlwaysInductive, PTL

(* What a worker announced is, for each page of the agent's owner, in       *)
(* exactly one place: lost with the worker's websocket, on its way, shown or *)
(* missed; and on no page of anyone else (workerHandler.js:84-110, 142-172), *)
(* for any number of pages, failures and messages on their way.             *)
THEOREM PagesServed == Spec => []EveryPageServed
<1>1. Inductive => EveryPageServed
  BY Served DEF Inductive
<1> QED
  BY <1>1, AlwaysInductive, PTL
=============================================================================
