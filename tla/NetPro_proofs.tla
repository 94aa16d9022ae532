--------------------------- MODULE NetPro_proofs ---------------------------
(* Proofs about NetPro, for any CPUs, objects and calls, and any sizes of   *)
(* ring buffer, pipe, socket buffer and channel.                            *)
EXTENDS NetPro, SequenceTheorems, FiniteSetTheorems, TLAPS

(* The records of one object are in the order of its calls.                 *)
Ordered(s) ==
  \A i, j \in 1..Len(s) : i < j /\ s[i][1] = s[j][1] => s[i][2] < s[j][2]

Ids(r) == [i \in DOMAIN r |-> r[i].id]
Reservations == [id : Records, submitted : BOOLEAN]
Held == IF line = None THEN <<>> ELSE <<line>>

(* Every observed call is on the path, dropped or lost.                     *)
InOnePlace ==
  /\ Ordered(Path)
  /\ Observed = Range(Path) \cup dropped \cup lost
  /\ Range(Path) \cap (dropped \cup lost) = {} /\ dropped \cap lost = {}

-----------------------------------------------------------------------------
(* Sequences.                                                               *)
(* A path without a part of it.                                             *)
LEMMA CutOut ==
  ASSUME NEW a \in Seq(Records), NEW b \in Seq(Records), NEW c \in Seq(Records),
         Ordered(a \o (b \o c)), \A id \in Records : id[2] \in Nat
  PROVE  /\ Ordered(a \o c)
         /\ Range(a \o (b \o c)) = Range(a \o c) \cup Range(b)
         /\ Range(a \o c) \cap Range(b) = {}
<1> DEFINE w == a \o (b \o c)
           v == a \o c
<1>1. /\ w \in Seq(Records) /\ v \in Seq(Records)
      /\ Len(a) \in Nat /\ Len(b) \in Nat /\ Len(c) \in Nat
      /\ Len(w) = Len(a) + Len(b) + Len(c) /\ Len(v) = Len(a) + Len(c)
  BY ConcatProperties, LenProperties
<1>2. /\ \A i \in 1..Len(a) : w[i] = a[i] /\ v[i] = a[i]
      /\ \A i \in 1..Len(b) : Len(a) + i \in 1..Len(w) /\ w[Len(a) + i] = b[i]
      /\ \A i \in (Len(a) + 1)..Len(v) : i + Len(b) \in 1..Len(w) /\ w[i + Len(b)] = v[i]
  <2>1. \A i \in 1..(Len(b) + Len(c)) :
          (b \o c)[i] = IF i <= Len(b) THEN b[i] ELSE c[i - Len(b)]
    BY ConcatProperties
  <2>2. b \o c \in Seq(Records) /\ Len(b \o c) = Len(b) + Len(c)
    BY ConcatProperties
  <2>3. \A i \in 1..(Len(a) + (Len(b) + Len(c))) :
          w[i] = IF i <= Len(a) THEN a[i] ELSE (b \o c)[i - Len(a)]
    BY <2>2, ConcatProperties
  <2>4. \A i \in 1..(Len(a) + Len(c)) : v[i] = IF i <= Len(a) THEN a[i] ELSE c[i - Len(a)]
    BY ConcatProperties
  <2> HIDE DEF w, v
  <2>5. ASSUME NEW i \in 1..Len(b)
        PROVE  Len(a) + i \in 1..Len(w) /\ w[Len(a) + i] = b[i]
    BY SMTT(30), <1>1, <2>1, <2>3
  <2>6. ASSUME NEW i \in (Len(a) + 1)..Len(v)
        PROVE  i + Len(b) \in 1..Len(w) /\ w[i + Len(b)] = v[i]
    <3>1. v[i] = c[i - Len(a)]
      BY <1>1, <2>4
    <3>2. w[i + Len(b)] = (b \o c)[i + Len(b) - Len(a)]
      BY SMTT(30), <1>1, <2>3
    <3>3. (b \o c)[i + Len(b) - Len(a)] = c[i - Len(a)]
      BY <1>1, <2>1
    <3> QED
      BY <1>1, <3>1, <3>2, <3>3
  <2> QED
    BY <1>1, <2>3, <2>4, <2>5, <2>6
<1> HIDE DEF w, v
<1> DEFINE at(i) == IF i <= Len(a) THEN i ELSE i + Len(b)
<1>3. \A i \in 1..Len(v) : at(i) \in 1..Len(w) /\ w[at(i)] = v[i]
  BY <1>1, <1>2
<1>4. \A i, j \in 1..Len(v) : i < j => at(i) < at(j)
  BY <1>1
<1>5. Ordered(v)
  <2>1. Ordered(w)
    BY DEF w
  <2> SUFFICES ASSUME NEW i \in 1..Len(v), NEW j \in 1..Len(v), i < j, v[i][1] = v[j][1]
               PROVE  v[i][2] < v[j][2]
    BY DEF Ordered
  <2> HIDE DEF at
  <2> QED
    BY <1>3, <1>4, <2>1 DEF Ordered
<1>6. Range(w) = Range(v) \cup Range(b)
  <2> DEFINE t == b \o c
  <2>1. t \in Seq(Records) /\ Range(t) = Range(b) \cup Range(c)
    BY ConcatProperties, RangeConcatenation
  <2>2. w = a \o t
    BY DEF w
  <2>3. Range(v) = Range(a) \cup Range(c)
    BY RangeConcatenation DEF v
  <2> HIDE DEF t
  <2>4. Range(a \o t) = Range(a) \cup Range(t)
    BY <2>1, RangeConcatenation
  <2> QED
    BY <2>1, <2>2, <2>3, <2>4
<1>7. Range(v) \cap Range(b) = {}
  <2> SUFFICES ASSUME NEW id \in Range(v), id \in Range(b)
               PROVE  FALSE
    OBVIOUS
  <2>1. PICK i \in 1..Len(v) : id = v[i]
    BY <1>1, RangeEquality
  <2>2. PICK j \in 1..Len(b) : id = b[j]
    BY RangeEquality
  <2>3. w[at(i)] = id /\ w[Len(a) + j] = id /\ at(i) \in 1..Len(w) /\ Len(a) + j \in 1..Len(w)
    BY <1>2, <1>3, <2>1, <2>2
  <2>4. at(i) < Len(a) + j \/ Len(a) + j < at(i)
    BY <1>1
  <2>5. id[2] \in Nat
    BY <1>1, <2>1, ElementOfSeq
  <2>6. id[2] < id[2]
    <3> HIDE DEF at
    <3> QED
      BY <2>3, <2>4 DEF Ordered, w
  <2> QED
    BY <2>5, <2>6
<1> QED
  BY <1>5, <1>6, <1>7 DEF w, v

LEMMA OrderedOnce ==
  ASSUME NEW s \in Seq(Records), Ordered(s), \A id \in Records : id[2] \in Nat
  PROVE  IsInjective(s)
<1>1. DOMAIN s = 1..Len(s) /\ Len(s) \in Nat /\ \A i \in 1..Len(s) : s[i][2] \in Nat
  BY LenProperties, ElementOfSeq
<1> SUFFICES ASSUME NEW i \in 1..Len(s), NEW j \in 1..Len(s), s[i] = s[j]
             PROVE  i = j
  BY <1>1 DEF IsInjective
<1>2. ~ (i < j) /\ ~ (j < i)
  BY <1>1 DEF Ordered
<1> QED
  BY <1>1, <1>2

-----------------------------------------------------------------------------
(* What a record is. *)
LEMMA RecordIs ==
  /\ \A o \in Objects, script \in Scripts : \A n \in DOMAIN script[o] : <<o, n>> \in Records
  /\ \A id \in Records : id[1] \in Objects /\ id[2] \in Nat /\ id = <<id[1], id[2]>>
  /\ None \notin Records
<1>1. \A o \in Objects, script \in Scripts :
        DOMAIN script[o] = 1..Len(script[o]) /\ Len(script[o]) \in Nat
  BY NetProAssumption, LenProperties
<1>2. ASSUME NEW o \in Objects, NEW script \in Scripts, NEW n \in DOMAIN script[o]
      PROVE  <<o, n>> \in Records
  <2> DEFINE F == {{q} \X DOMAIN t[q] : q \in Objects, t \in Scripts}
             s == {o} \X DOMAIN script[o]
  <2>1. <<o, n>> \in s
    OBVIOUS
  <2>2. s \in F
    OBVIOUS
  <2>3. Records = UNION F
    BY DEF Records
  <2> HIDE DEF F, s
  <2> QED
    BY <2>1, <2>2, <2>3
<1>3. ASSUME NEW id \in Records
      PROVE  id[1] \in Objects /\ id[2] \in Nat /\ id = <<id[1], id[2]>>
  <2>1. PICK o \in Objects, script \in Scripts : id \in {o} \X DOMAIN script[o]
    BY DEF Records
  <2>2. id[1] = o /\ id[2] \in 1..Len(script[o]) /\ id = <<id[1], id[2]>>
    BY <1>1, <2>1
  <2> QED
    BY <1>1, <2>2
<1>4. None \notin Records
  <2> SUFFICES ASSUME None \in Records
               PROVE  FALSE
    OBVIOUS
  <2>1. None \in Objects \X Nat
    BY <1>3
  <2> QED
    BY <2>1, NetProAssumption
<1> QED
  BY <1>2, <1>3, <1>4

LEMMA CallsType ==
  ASSUME calls \in Scripts, NEW o \in Objects
  PROVE  DOMAIN calls[o] = 1..Len(calls[o]) /\ Len(calls[o]) \in Nat
BY NetProAssumption, LenProperties

LEMMA IdsType ==
  ASSUME NEW r \in Seq(Reservations)
  PROVE  /\ Ids(r) \in Seq(Records) /\ Len(Ids(r)) = Len(r) /\ DOMAIN Ids(r) = 1..Len(r)
         /\ Len(r) \in Nat /\ \A i \in 1..Len(r) : Ids(r)[i] = r[i].id /\ r[i] \in Reservations
<1>1. DOMAIN r = 1..Len(r) /\ Len(r) \in Nat
  BY LenProperties
<1>2. \A i \in 1..Len(r) : r[i] \in Reservations
  BY ElementOfSeq
<1>3. \A i \in 1..Len(r) : r[i].id \in Records
  BY <1>2 DEF Reservations
<1>4. Ids(r) = [i \in 1..Len(r) |-> r[i].id]
  BY <1>1 DEF Ids
<1>5. Ids(r) \in [1..Len(r) -> Records]
  BY <1>3, <1>4
<1>6. Ids(r) \in Seq(Records)
  BY <1>1, <1>5, SeqDef
<1> QED
  BY <1>1, <1>2, <1>4, <1>5, <1>6, LenProperties

(* A record more, or one less, in the ring. *)
LEMMA IdsMove ==
  ASSUME NEW r \in Seq(Reservations)
  PROVE  /\ \A x \in Reservations : Ids(Append(r, x)) = Append(Ids(r), x.id)
         /\ r # <<>> => /\ Ids(r) # <<>> /\ Head(Ids(r)) = Head(r).id
                        /\ Ids(Tail(r)) = Tail(Ids(r))
<1>1. /\ Ids(r) \in Seq(Records) /\ Len(Ids(r)) = Len(r) /\ Len(r) \in Nat
      /\ \A i \in 1..Len(r) : Ids(r)[i] = r[i].id
  BY IdsType
<1>2. ASSUME NEW x \in Reservations
      PROVE  Ids(Append(r, x)) = Append(Ids(r), x.id)
  <2> DEFINE l == Ids(Append(r, x))
             m == Append(Ids(r), x.id)
  <2>1. /\ Append(r, x) \in Seq(Reservations) /\ Len(Append(r, x)) = Len(r) + 1
        /\ \A i \in 1..Len(r) : Append(r, x)[i] = r[i]
        /\ Append(r, x)[Len(r) + 1] = x
    BY AppendProperties
  <2>2. x.id \in Records
    BY DEF Reservations
  <2>3. /\ l \in Seq(Records) /\ Len(l) = Len(r) + 1
        /\ \A i \in 1..(Len(r) + 1) : l[i] = Append(r, x)[i].id
    BY <2>1, IdsType
  <2>4. /\ m \in Seq(Records) /\ Len(m) = Len(r) + 1
        /\ \A i \in 1..Len(r) : m[i] = Ids(r)[i]
        /\ m[Len(r) + 1] = x.id
    BY <1>1, <2>2, AppendProperties
  <2> HIDE DEF l, m
  <2>5. \A i \in 1..Len(l) : l[i] = m[i]
    <3> SUFFICES ASSUME NEW i \in 1..Len(l)
                 PROVE  l[i] = m[i]
      OBVIOUS
    <3>1. CASE i \in 1..Len(r)
      BY <1>1, <2>1, <2>3, <2>4, <3>1
    <3>2. CASE i = Len(r) + 1
      BY <1>1, <2>1, <2>3, <2>4, <3>2
    <3> QED
      BY <1>1, <2>3, <3>1, <3>2
  <2>6. l = m
    BY <2>3, <2>4, <2>5, SeqEqual
  <2> QED
    BY <2>6 DEF l, m
<1>3. ASSUME r # <<>>
      PROVE  /\ Ids(r) # <<>> /\ Head(Ids(r)) = Head(r).id
             /\ Ids(Tail(r)) = Tail(Ids(r))
  <2>1. Len(r) # 0 /\ Ids(r) # <<>>
    BY <1>1, <1>3, EmptySeq
  <2>2. /\ Tail(r) \in Seq(Reservations) /\ Len(Tail(r)) = Len(r) - 1
        /\ \A i \in 1..Len(Tail(r)) : Tail(r)[i] = r[i + 1]
    BY <1>3, HeadTailProperties
  <2>3. /\ Tail(Ids(r)) \in Seq(Records) /\ Len(Tail(Ids(r))) = Len(r) - 1
        /\ \A i \in 1..Len(Tail(Ids(r))) : Tail(Ids(r))[i] = Ids(r)[i + 1]
    BY <1>1, <2>1, HeadTailProperties
  <2>4. /\ Ids(Tail(r)) \in Seq(Records) /\ Len(Ids(Tail(r))) = Len(r) - 1
        /\ \A i \in 1..(Len(r) - 1) : Ids(Tail(r))[i] = Tail(r)[i].id
    BY <2>2, IdsType
  <2>5. \A i \in 1..(Len(r) - 1) : Ids(Tail(r))[i] = Tail(Ids(r))[i]
    BY <1>1, <2>2, <2>3, <2>4
  <2>6. Ids(Tail(r)) = Tail(Ids(r))
    BY <2>3, <2>4, <2>5, SeqEqual
  <2> QED
    BY <1>1, <2>1, <2>6
<1> QED
  BY <1>2, <1>3

-----------------------------------------------------------------------------
LEMMA Sizes ==
  /\ <<>> \in Seq(Records) /\ <<>> \in Seq(Reservations) /\ Len(<<>>) = 0
  /\ Slots \in Nat /\ PipeSize \in Nat /\ BufSize \in Nat /\ ChanSize \in Nat
  /\ MaxStops \in Nat
<1>1. \A n \in {Slots, PipeSize, BufSize, ChanSize} : n \in Nat
  BY NetProAssumption
<1>2. MaxStops \in Nat
  BY NetProAssumption
<1>3. <<>> \in Seq(Records) /\ <<>> \in Seq(Reservations) /\ Len(<<>>) = 0
  BY EmptySeq
<1> QED
  BY <1>1, <1>2, <1>3

LEMMA TypeInit == Init => TypeOK
<1> SUFFICES ASSUME Init
             PROVE  TypeOK
  OBVIOUS
<1>2. \A o \in Objects : made[o] \in 0..Len(calls[o])
  BY CallsType DEF Init
<1> QED
  BY Sizes, <1>2 DEF Init, TypeOK, Reservations

LEMMA TypeNext == TypeOK /\ [Next]_vars => TypeOK'
<1> SUFFICES ASSUME TypeOK, [Next]_vars
             PROVE  TypeOK'
  OBVIOUS
<1> USE DEF kernelVars, collectorVars, agentVars
<1>0. /\ <<>> \in Seq(Records) /\ <<>> \in Seq(Reservations) /\ Len(<<>>) = 0
      /\ Slots \in Nat /\ PipeSize \in Nat /\ BufSize \in Nat /\ ChanSize \in Nat
      /\ MaxStops \in Nat /\ None \notin Records
  BY Sizes, RecordIs
<1>1. ASSUME NEW c \in Cpus, NEW o \in Objects, Called(c, o)
      PROVE  /\ <<o, made[o] + 1>> \in Records
             /\ made' \in [Objects -> Nat] /\ \A q \in Objects : made'[q] <= Len(calls[q])
  <2>1. made[o] + 1 \in 1..Len(calls[o])
    BY <1>1, CallsType DEF Called, TypeOK
  <2> QED
    BY SMTT(30), <1>1, <2>1, CallsType, RecordIs DEF Called, TypeOK
<1>2. ASSUME NEW c \in Cpus, NEW o \in Objects, Skipped(c, o)
      PROVE  TypeOK'
  BY <1>1, <1>2 DEF Skipped, TypeOK
<1>3. ASSUME NEW c \in Cpus, NEW o \in Objects, NoRoom(c, o)
      PROVE  TypeOK'
  BY <1>1, <1>3 DEF NoRoom, TypeOK
<1>4. ASSUME NEW c \in Cpus, NEW o \in Objects, Reserve(c, o)
      PROVE  TypeOK'
  <2>1. [id |-> <<o, made[o] + 1>>, submitted |-> FALSE] \in Reservations
    BY <1>1, <1>4 DEF Reserve, Reservations
  <2>2. ring' \in Seq(Reservations) /\ Len(ring') <= Slots
    BY <1>0, <1>4, <2>1, AppendProperties, LenProperties
       DEF Reserve, RingFull, TypeOK, Reservations
  <2> QED
    BY <1>1, <1>4, <2>2 DEF Reserve, TypeOK, Reservations
<1>5. ASSUME NEW c \in Cpus, Submit(c)
      PROVE  TypeOK'
  <2>1. /\ ring \in Seq(Reservations) /\ DOMAIN ring = 1..Len(ring) /\ Len(ring) \in Nat
        /\ \A i \in 1..Len(ring) : ring[i] \in Reservations
    BY LenProperties, ElementOfSeq DEF TypeOK, Reservations
  <2>2. ring' \in [1..Len(ring) -> Reservations]
    BY <1>5, <2>1 DEF Submit, Reservations
  <2>3. ring' \in Seq(Reservations) /\ Len(ring') = Len(ring)
    BY <2>1, <2>2, SeqDef, LenProperties
  <2> QED
    BY <1>5, <2>3 DEF Submit, TypeOK, Reservations
<1>6. CASE EcliPrint
  <2>1. Head(ring) \in Reservations /\ Tail(ring) \in Seq(Reservations)
        /\ Len(Tail(ring)) = Len(ring) - 1 /\ Len(ring) \in Nat
    BY <1>6, HeadTailProperties, LenProperties DEF EcliPrint, TypeOK, Reservations
  <2>2. Head(ring).id \in Records
    BY <2>1 DEF Reservations
  <2>3. pipe' \in Seq(Records) /\ Len(pipe') <= PipeSize
    BY <1>0, <1>6, <2>2, AppendProperties, LenProperties DEF EcliPrint, TypeOK
  <2> QED
    BY <1>0, <1>6, <2>1, <2>3 DEF EcliPrint, TypeOK, Reservations
<1>7. CASE EcliEnds
  <2>1. ring \in Seq(Reservations)
    BY DEF TypeOK, Reservations
  <2>2. \A i \in DOMAIN ring : ring[i].id \in Records
    <3>1. DOMAIN ring = 1..Len(ring)
      BY <2>1, LenProperties
    <3>2. \A i \in 1..Len(ring) : ring[i] \in Reservations
      BY <2>1, ElementOfSeq
    <3> QED
      BY <3>1, <3>2 DEF Reservations
  <2> QED
    BY <1>0, <1>7, <2>2 DEF EcliEnds, TypeOK, Reservations
<1>8. CASE Start
  BY <1>8 DEF Start, TypeOK
<1>9. CASE Scan
  <2>1. Head(pipe) \in Records /\ Tail(pipe) \in Seq(Records) /\ Len(Tail(pipe)) <= PipeSize
    BY <1>0, <1>9, HeadTailProperties, LenProperties DEF Scan, TypeOK
  <2> QED
    BY <1>0, <1>9, <2>1 DEF Scan, TypeOK
<1>10. CASE ScanEnds
  BY <1>10 DEF ScanEnds, TypeOK
<1>11. CASE Write
  <2>1. line \in Records
    BY <1>11 DEF Write, TypeOK
  <2>2. buffer' \in Seq(Records) /\ Len(buffer') <= BufSize
    BY <1>0, <1>11, <2>1, AppendProperties, LenProperties DEF Write, TypeOK
  <2> QED
    BY <1>0, <1>11, <2>2 DEF Write, TypeOK
<1>12. CASE WriteFails
  BY <1>12 DEF WriteFails, TypeOK
<1>13. CASE Redial
  BY <1>13 DEF Redial, SendAgain, TypeOK
<1>14. CASE ReadLine
  <2>1. Head(buffer) \in Records /\ Tail(buffer) \in Seq(Records) /\ Len(Tail(buffer)) <= BufSize
    BY <1>0, <1>14, HeadTailProperties, LenProperties DEF ReadLine, TypeOK
  <2>2. dataCh' \in Seq(Records) /\ Len(dataCh') <= ChanSize
    BY <1>0, <1>14, <2>1, AppendProperties, LenProperties DEF ReadLine, TypeOK
  <2> QED
    BY <1>14, <2>1, <2>2 DEF ReadLine, TypeOK
<1>15. CASE Gather
  <2>1. Head(dataCh) \in Records /\ Tail(dataCh) \in Seq(Records) /\ Len(Tail(dataCh)) <= ChanSize
    BY <1>0, <1>15, HeadTailProperties, LenProperties DEF Gather, TypeOK
  <2>2. batch' \in Seq(Records)
    BY <1>15, <2>1, AppendProperties DEF Gather, TypeOK
  <2> QED
    BY <1>15, <2>1, <2>2 DEF Gather, TypeOK
<1>16. CASE HandOver
  <2>1. handed' \in Seq(Records)
    BY <1>16, ConcatProperties DEF HandOver, TypeOK
  <2> QED
    BY <1>0, <1>16, <2>1 DEF HandOver, TypeOK
<1>17. CASE AgentStops
  <2>1. ToSet(buffer) \subseteq Records /\ ToSet(dataCh) \subseteq Records
        /\ ToSet(batch) \subseteq Records
    BY LenProperties, ElementOfSeq DEF TypeOK, ToSet
  <2> QED
    BY <1>0, <1>17, <2>1 DEF AgentStops, TypeOK
<1>18. CASE AgentStarts
  BY <1>18 DEF AgentStarts, TypeOK
<1>19. CASE UNCHANGED vars
  BY <1>19 DEF vars, TypeOK
<1> QED
  BY <1>2, <1>3, <1>4, <1>5, <1>6, <1>7, <1>8, <1>9, <1>10, <1>11, <1>12, <1>13,
     <1>14,
     <1>15, <1>16, <1>17, <1>18, <1>19 DEF Next

(* Every buffer keeps its bound, and only records are in them               *)
(* (NetPro.TypeOK; netpro.bpf.c:35, agentCollector/main.go:109-118).        *)
THEOREM TypeCorrect == Spec => []TypeOK
<1> QED
  BY TypeInit, TypeNext, PTL DEF Spec

-----------------------------------------------------------------------------
(* `\o` as an operator of its own: the provers take its laws, not its       *)
(* definition, when they rearrange the path of the records.                 *)
x ++ y == x \o y

(* That path, place by place.                                               *)
Way(h, b, d, u, l, p, r) == h ++ (((((b ++ d) ++ u) ++ l) ++ p) ++ r)

LEMMA PathIs ==
  /\ Path = Way(handed, batch, dataCh, buffer, Held, pipe, Ids(ring))
  /\ Path' = Way(handed', batch', dataCh', buffer', Held', pipe', Ids(ring'))
BY DEF Path, OnTheWay, Way, Held, Ids, ++

(* The facts about sequences, for records. *)
LEMMA Joining ==
  /\ \A x, y \in Seq(Records) : x ++ y \in Seq(Records)
  /\ \A x, y, z \in Seq(Records) : (x ++ y) ++ z = x ++ (y ++ z)
  /\ \A x, y, z \in Seq(Records) :
       z # <<>> => (x ++ Append(y, Head(z))) ++ Tail(z) = (x ++ y) ++ z
  /\ \A x, y \in Seq(Records) : \A id \in Records : x ++ Append(y, id) = Append(x ++ y, id)
  /\ <<>> \in Seq(Records) /\ \A x \in Seq(Records) : x ++ <<>> = x /\ <<>> ++ x = x
<1>1. \A x, y \in Seq(Records) : x ++ y \in Seq(Records)
  BY ConcatProperties DEF ++
<1>2. ASSUME NEW x \in Seq(Records), NEW y \in Seq(Records), NEW z \in Seq(Records)
      PROVE  (x ++ y) ++ z = x ++ (y ++ z)
  BY ConcatAssociative DEF ++
<1>3. ASSUME NEW x \in Seq(Records), NEW y \in Seq(Records), NEW z \in Seq(Records),
             z # <<>>
      PROVE  (x ++ Append(y, Head(z))) ++ Tail(z) = (x ++ y) ++ z
  <2>1. Head(z) \in Records /\ Tail(z) \in Seq(Records) /\ <<Head(z)>> \in Seq(Records)
    BY <1>3, HeadTailProperties
  <2>2. z = <<Head(z)>> \o Tail(z)
    <3>1. /\ Len(<<Head(z)>>) = 1 /\ <<Head(z)>>[1] = Head(z) /\ Head(z) = z[1]
          /\ Len(z) \in Nat \ {0}
      BY <1>3, EmptySeq
    <3>2. /\ <<Head(z)>> \o Tail(z) \in Seq(Records)
          /\ Len(<<Head(z)>> \o Tail(z)) = 1 + Len(Tail(z))
          /\ \A i \in 1..(1 + Len(Tail(z))) : (<<Head(z)>> \o Tail(z))[i] =
               IF i <= 1 THEN <<Head(z)>>[i] ELSE Tail(z)[i - 1]
      BY <2>1, <3>1, ConcatProperties
    <3>3. Len(Tail(z)) = Len(z) - 1 /\ \A i \in 1..Len(Tail(z)) : Tail(z)[i] = z[i + 1]
      BY <1>3, HeadTailProperties
    <3>4. \A i \in 1..Len(z) : z[i] = (<<Head(z)>> \o Tail(z))[i]
      BY <3>1, <3>2, <3>3
    <3> QED
      BY <3>1, <3>2, <3>3, <3>4, SeqEqual
  <2>3. Append(y, Head(z)) = y \o <<Head(z)>>
    BY <2>1, AppendIsConcat
  <2>4. x \o y \in Seq(Records)
    BY ConcatProperties
  <2>5. x \o (y \o <<Head(z)>>) = (x \o y) \o <<Head(z)>>
    BY <2>1, ConcatAssociative
  <2>6. ((x \o y) \o <<Head(z)>>) \o Tail(z) = (x \o y) \o (<<Head(z)>> \o Tail(z))
    BY SMTT(30), <2>1, <2>4, ConcatAssociative
  <2> QED
    BY <2>2, <2>3, <2>5, <2>6 DEF ++
<1>4. ASSUME NEW x \in Seq(Records), NEW y \in Seq(Records), NEW id \in Records
      PROVE  x ++ Append(y, id) = Append(x ++ y, id)
  <2>1. Append(y, id) = y \o <<id>> /\ <<id>> \in Seq(Records)
    BY AppendIsConcat
  <2>2. x \o y \in Seq(Records) /\ x \o (y \o <<id>>) = (x \o y) \o <<id>>
    BY <2>1, ConcatProperties, ConcatAssociative
  <2>3. Append(x \o y, id) = (x \o y) \o <<id>>
    BY <2>2, AppendIsConcat
  <2> QED
    BY <2>1, <2>2, <2>3 DEF ++
<1>5. <<>> \in Seq(Records) /\ \A x \in Seq(Records) : x ++ <<>> = x /\ <<>> ++ x = x
  BY ConcatEmptySeq, EmptySeq DEF ++
<1> QED
  BY <1>1, <1>2, <1>3, <1>4, <1>5

(* A record that goes from one place to the next keeps its place on it.     *)
Movable(h, b, d, u, l, p, r) ==
  /\ Way(h, b, d, u, l, p, r) \in Seq(Records)
  /\ r # <<>> => Way(h, b, d, u, l, Append(p, Head(r)), Tail(r))
                   = Way(h, b, d, u, l, p, r)
  /\ p # <<>> => Way(h, b, d, u, <<Head(p)>>, Tail(p), r)
                   = Way(h, b, d, u, <<>>, p, r)
  /\ u # <<>> => Way(h, b, Append(d, Head(u)), Tail(u), l, p, r)
                   = Way(h, b, d, u, l, p, r)
  /\ d # <<>> => Way(h, Append(b, Head(d)), Tail(d), u, l, p, r)
                   = Way(h, b, d, u, l, p, r)
  /\ \A x \in Records : Way(h, b, d, Append(u, x), <<>>, p, r)
                          = Way(h, b, d, u, <<x>>, p, r)
  /\ \A x \in Records : Way(h, b, d, u, l, p, Append(r, x))
                          = Append(Way(h, b, d, u, l, p, r), x)

LEMMA Along ==
  ASSUME NEW h \in Seq(Records), NEW b \in Seq(Records), NEW d \in Seq(Records),
         NEW u \in Seq(Records), NEW l \in Seq(Records), NEW p \in Seq(Records),
         NEW r \in Seq(Records)
  PROVE  Movable(h, b, d, u, l, p, r)
<1>1. /\ b ++ d \in Seq(Records) /\ (b ++ d) ++ u \in Seq(Records)
      /\ ((b ++ d) ++ u) ++ l \in Seq(Records) /\ (((b ++ d) ++ u) ++ l) ++ p \in Seq(Records)
  <2>1. b ++ d \in Seq(Records)
    BY Joining
  <2>2. (b ++ d) ++ u \in Seq(Records)
    BY <2>1, Joining
  <2>3. ((b ++ d) ++ u) ++ l \in Seq(Records)
    BY <2>2, Joining
  <2>4. (((b ++ d) ++ u) ++ l) ++ p \in Seq(Records)
    BY <2>3, Joining
  <2> QED
    BY <2>1, <2>2, <2>3, <2>4
<1>2. (((((b ++ d) ++ u) ++ l) ++ p) ++ r) \in Seq(Records)
  BY <1>1, Joining
<1>3. Way(h, b, d, u, l, p, r) \in Seq(Records)
  BY <1>2, Joining DEF Way
<1>4. ASSUME r # <<>>
      PROVE  Way(h, b, d, u, l, Append(p, Head(r)), Tail(r)) = Way(h, b, d, u, l, p, r)
  <2>1. ((((b ++ d) ++ u) ++ l) ++ Append(p, Head(r))) ++ Tail(r)
          = ((((b ++ d) ++ u) ++ l) ++ p) ++ r
    BY <1>1, <1>4, Joining
  <2> QED
    BY <2>1 DEF Way
<1>5. ASSUME p # <<>>
      PROVE  Way(h, b, d, u, <<Head(p)>>, Tail(p), r) = Way(h, b, d, u, <<>>, p, r)
  <2> DEFINE x == (b ++ d) ++ u
  <2>1. Append(<<>>, Head(p)) = <<Head(p)>>
    OBVIOUS
  <2>2. \A y \in Seq(Records) : (x ++ Append(y, Head(p))) ++ Tail(p) = (x ++ y) ++ p
    BY <1>1, <1>5, Joining
  <2>3. (x ++ Append(<<>>, Head(p))) ++ Tail(p) = (x ++ <<>>) ++ p
    BY <2>2, Joining
  <2>4. (x ++ <<Head(p)>>) ++ Tail(p) = (x ++ <<>>) ++ p
    BY <2>1, <2>3
  <2> QED
    BY <2>4 DEF Way
<1>6. ASSUME u # <<>>
      PROVE  Way(h, b, Append(d, Head(u)), Tail(u), l, p, r) = Way(h, b, d, u, l, p, r)
  <2>1. (b ++ Append(d, Head(u))) ++ Tail(u) = (b ++ d) ++ u
    BY <1>6, Joining
  <2> QED
    BY <2>1 DEF Way
<1>7. ASSUME d # <<>>
      PROVE  Way(h, Append(b, Head(d)), Tail(d), u, l, p, r) = Way(h, b, d, u, l, p, r)
  <2>1. Append(b, Head(d)) \in Seq(Records)
    BY <1>7, HeadTailProperties, AppendProperties
  <2>2. \A x \in Seq(Records) : (x ++ Append(b, Head(d))) ++ Tail(d) = (x ++ b) ++ d
    BY <1>7, Joining
  <2>3. <<>> ++ Append(b, Head(d)) = Append(b, Head(d)) /\ <<>> ++ b = b
    BY <2>1, Joining
  <2>4. Append(b, Head(d)) ++ Tail(d) = b ++ d
    <3>1. (<<>> ++ Append(b, Head(d))) ++ Tail(d) = (<<>> ++ b) ++ d
      BY <2>2, Joining
    <3> QED
      BY <2>3, <3>1
  <2> QED
    BY <2>4 DEF Way
<1>8. ASSUME NEW x \in Records
      PROVE  Way(h, b, d, Append(u, x), <<>>, p, r) = Way(h, b, d, u, <<x>>, p, r)
  <2>1. <<x>> \in Seq(Records) /\ <<x>> # <<>> /\ Head(<<x>>) = x /\ Tail(<<x>>) = <<>>
    OBVIOUS
  <2> DEFINE z == <<x>>
  <2>2. ((b ++ d) ++ Append(u, x)) ++ <<>> = ((b ++ d) ++ u) ++ z
    <3> HIDE DEF z
    <3>1. z \in Seq(Records) /\ z # <<>> /\ Head(z) = x /\ Tail(z) = <<>>
      BY <2>1 DEF z
    <3>2. \A y \in Seq(Records) : (y ++ Append(u, x)) ++ <<>> = (y ++ u) ++ z
      <4>1. \A y \in Seq(Records) : (y ++ Append(u, Head(z))) ++ Tail(z) = (y ++ u) ++ z
        BY <3>1, Joining
      <4> QED
        BY <3>1, <4>1
    <3> QED
      BY <1>1, <3>2
  <2> QED
    BY <2>2 DEF Way
<1>9. ASSUME NEW x \in Records
      PROVE  Way(h, b, d, u, l, p, Append(r, x)) = Append(Way(h, b, d, u, l, p, r), x)
  <2> DEFINE w == (((b ++ d) ++ u) ++ l) ++ p
  <2>1. w ++ Append(r, x) = Append(w ++ r, x)
    <3>1. w \in Seq(Records)
      BY <1>1
    <3> HIDE DEF w
    <3> QED
      BY <3>1, Joining
  <2>2. h ++ Append(w ++ r, x) = Append(h ++ (w ++ r), x)
    BY <1>2, Joining
  <2> QED
    BY <2>1, <2>2 DEF Way
<1> QED
  BY <1>3, <1>4, <1>5, <1>6, <1>7, <1>8, <1>9 DEF Movable

(* The batch is handed over; ecli ends; agentCollector stops.               *)
Separable(h, b, d, u, l, p, r) ==
  /\ Way(h ++ b, <<>>, d, u, l, p, r) = Way(h, b, d, u, l, p, r)
  /\ \E a \in Seq(Records) : /\ Way(h, b, d, u, l, p, r) = a ++ (r ++ <<>>)
                             /\ Way(h, b, d, u, l, p, <<>>) = a ++ <<>>
  /\ \E c \in Seq(Records) :
       /\ Way(h, b, d, u, l, p, r) = h ++ (((b ++ d) ++ u) ++ c)
       /\ Way(h, <<>>, <<>>, <<>>, l, p, r) = h ++ c

LEMMA Parts ==
  ASSUME NEW h \in Seq(Records), NEW b \in Seq(Records), NEW d \in Seq(Records),
         NEW u \in Seq(Records), NEW l \in Seq(Records), NEW p \in Seq(Records),
         NEW r \in Seq(Records)
  PROVE  Separable(h, b, d, u, l, p, r)
<1> DEFINE bd == b ++ d
           bdu == bd ++ u
           du == d ++ u
           dul == du ++ l
           dulp == dul ++ p
           dulpr == dulp ++ r
           bdul == bdu ++ l
           bdulp == bdul ++ p
           lp == l ++ p
           lpr == lp ++ r
<1>1. /\ bd \in Seq(Records) /\ du \in Seq(Records) /\ lp \in Seq(Records)
      /\ <<>> \in Seq(Records) /\ h ++ b \in Seq(Records)
  BY Joining, EmptySeq
<1>a. bdu \in Seq(Records) /\ dul \in Seq(Records) /\ lpr \in Seq(Records)
  <2> HIDE DEF bd, du, lp
  <2> QED
    BY <1>1, Joining
<1>b. bdul \in Seq(Records) /\ dulp \in Seq(Records)
  <2> HIDE DEF bdu, dul
  <2> QED
    BY <1>a, Joining
<1>c. bdulp \in Seq(Records) /\ dulpr \in Seq(Records)
  <2> HIDE DEF bdul, dulp
  <2> QED
    BY <1>b, Joining
<1>2. Way(h, b, d, u, l, p, r) = h ++ (bdulp ++ r)
  BY DEF Way
<1>3. bdu = b ++ du
  BY Joining
<1>4. bdul = b ++ dul
  <2> HIDE DEF bdu, du
  <2>1. (b ++ du) ++ l = b ++ (du ++ l)
    BY <1>1, Joining
  <2> QED
    BY <1>3, <2>1
<1>5. bdulp = b ++ dulp
  <2> HIDE DEF bdul, dul
  <2>1. (b ++ dul) ++ p = b ++ (dul ++ p)
    BY <1>a, Joining
  <2> QED
    BY <1>4, <2>1
<1>6. bdulp ++ r = b ++ dulpr
  <2> HIDE DEF bdulp, dulp
  <2>1. (b ++ dulp) ++ r = b ++ (dulp ++ r)
    BY <1>b, Joining
  <2> QED
    BY <1>5, <2>1
<1>7. Way(h ++ b, <<>>, d, u, l, p, r) = Way(h, b, d, u, l, p, r)
  <2>1. Way(h ++ b, <<>>, d, u, l, p, r) = (h ++ b) ++ dulpr
    <3>1. <<>> ++ d = d
      BY Joining
    <3> QED
      BY <3>1 DEF Way
  <2> HIDE DEF dulpr, bdulp
  <2>2. (h ++ b) ++ dulpr = h ++ (b ++ dulpr)
    BY <1>c, Joining
  <2> QED
    BY <1>2, <1>6, <2>1, <2>2
<1>8. \E a \in Seq(Records) : /\ Way(h, b, d, u, l, p, r) = a ++ (r ++ <<>>)
                              /\ Way(h, b, d, u, l, p, <<>>) = a ++ <<>>
  <2>1. Way(h, b, d, u, l, p, <<>>) = h ++ (bdulp ++ <<>>)
    BY DEF Way
  <2> HIDE DEF bdulp
  <2>2. h ++ bdulp \in Seq(Records) /\ r ++ <<>> = r
    BY <1>c, Joining, Joining
  <2>3. h ++ (bdulp ++ r) = (h ++ bdulp) ++ r
    BY <1>c, Joining
  <2>4. h ++ (bdulp ++ <<>>) = (h ++ bdulp) ++ <<>>
    BY <1>1, <1>c, Joining
  <2> QED
    BY <1>2, <2>1, <2>2, <2>3, <2>4
<1>9. \E c \in Seq(Records) :
        /\ Way(h, b, d, u, l, p, r) = h ++ (((b ++ d) ++ u) ++ c)
        /\ Way(h, <<>>, <<>>, <<>>, l, p, r) = h ++ c
  <2>1. Way(h, <<>>, <<>>, <<>>, l, p, r) = h ++ lpr
    <3>1. <<>> ++ <<>> = <<>> /\ <<>> ++ l = l
      BY <1>1, Joining
    <3> QED
      BY <3>1 DEF Way
  <2>2. bdulp ++ r = bdu ++ lpr
    <3> HIDE DEF bdu
    <3>1. (bdu ++ l) ++ p = bdu ++ lp
      BY <1>a, Joining
    <3> HIDE DEF lp
    <3>2. (bdu ++ lp) ++ r = bdu ++ (lp ++ r)
      BY <1>1, <1>a, Joining
    <3> QED
      BY <3>1, <3>2
  <2> HIDE DEF lpr
  <2> QED
    BY <1>2, <1>a, <2>1, <2>2
<1> QED
  BY <1>7, <1>8, <1>9 DEF Separable

-----------------------------------------------------------------------------
LEMMA PathType ==
  ASSUME TypeOK
  PROVE  /\ handed \in Seq(Records) /\ batch \in Seq(Records) /\ dataCh \in Seq(Records)
         /\ buffer \in Seq(Records) /\ Held \in Seq(Records) /\ pipe \in Seq(Records)
         /\ Ids(ring) \in Seq(Records) /\ Path \in Seq(Records)
<1>1. Held \in Seq(Records)
  BY DEF TypeOK, Held
<1>2. Ids(ring) \in Seq(Records)
  <2>1. ring \in Seq(Reservations)
    BY DEF TypeOK, Reservations
  <2> QED
    BY <2>1, IdsType
<1>3. /\ handed \in Seq(Records) /\ batch \in Seq(Records) /\ dataCh \in Seq(Records)
      /\ buffer \in Seq(Records) /\ pipe \in Seq(Records)
  BY DEF TypeOK
<1> QED
  BY <1>1, <1>2, <1>3, PathIs, Along DEF Movable

(* No call is made, and the records stay where they are on the path.        *)
LEMMA Kept ==
  ASSUME InOnePlace, UNCHANGED <<calls, made, dropped, lost>>, Path' = Path
  PROVE  InOnePlace'
<1>1. Observed' = Observed
  BY DEF Observed, CallOf
<1> QED
  BY <1>1 DEF InOnePlace

(* Part of the path is lost.                                                *)
LEMMA CutLoses ==
  ASSUME InOnePlace, UNCHANGED <<calls, made, dropped>>,
         NEW a \in Seq(Records), NEW b \in Seq(Records), NEW c \in Seq(Records),
         Path = a \o (b \o c), Path' = a \o c, lost' = lost \cup Range(b)
  PROVE  InOnePlace'
<1>1. Observed' = Observed
  BY DEF Observed, CallOf
<1>2. /\ Ordered(Path') /\ Range(Path) = Range(Path') \cup Range(b)
      /\ Range(Path') \cap Range(b) = {}
  <2>1. Ordered(a \o (b \o c))
    BY DEF InOnePlace
  <2>2. \A id \in Records : id[2] \in Nat
    BY RecordIs
  <2>3. /\ Ordered(a \o c)
        /\ Range(a \o (b \o c)) = Range(a \o c) \cup Range(b)
        /\ Range(a \o c) \cap Range(b) = {}
    BY <2>1, <2>2, CutOut
  <2> QED
    BY <2>3
<1>3. /\ Observed = (Range(Path') \cup Range(b)) \cup dropped \cup lost
      /\ (Range(Path') \cup Range(b)) \cap (dropped \cup lost) = {} /\ dropped \cap lost = {}
  BY <1>2 DEF InOnePlace
<1>4. (Ordered(Path))' <=> Ordered(Path')
  BY DEF Ordered
<1> QED
  BY <1>1, <1>2, <1>3, <1>4 DEF InOnePlace

(* A call is made: if a program reports it, one more is observed.           *)
LEMMA OneMore ==
  ASSUME TypeOK, NEW c \in Cpus, NEW o \in Objects, Called(c, o), UNCHANGED calls
  PROVE  /\ <<o, made[o] + 1>> \in Records /\ <<o, made[o] + 1>> \notin Observed
         /\ \A id \in Observed : id[1] = o => id[2] < made[o] + 1
         /\ Observed' = IF Traced(calls[o][made[o] + 1])
                        THEN Observed \cup {<<o, made[o] + 1>>} ELSE Observed
<1> DEFINE new == <<o, made[o] + 1>>
<1>1. made[o] \in Nat /\ made' = [made EXCEPT ![o] = made[o] + 1] /\ made \in [Objects -> Nat]
  BY DEF TypeOK, Called
<1>2. new \in Records
  <2>1. made[o] + 1 \in 1..Len(calls[o])
    BY CallsType DEF Called, TypeOK
  <2> QED
    BY <2>1, CallsType, RecordIs DEF TypeOK
<1>3. \A id \in Records : id[1] \in Objects /\ id[2] \in Nat /\ id = <<id[1], id[2]>>
  BY RecordIs
<1>4. \A id \in Observed : id \in Records /\ id[2] <= made[id[1]]
  BY DEF Observed
<1>5. \A id \in Observed : id[1] = o => id[2] < made[o] + 1
  BY <1>1, <1>3, <1>4
<1>6. new \notin Observed
  <2>1. new[1] = o /\ new[2] = made[o] + 1
    OBVIOUS
  <2> HIDE DEF new
  <2> QED
    BY <1>1, <1>5, <2>1
<1>7. \A id \in Records : (id[2] <= made'[id[1]]) <=> (id[2] <= made[id[1]] \/ id = new)
  <2> SUFFICES ASSUME NEW id \in Records
               PROVE  (id[2] <= made'[id[1]]) <=> (id[2] <= made[id[1]] \/ id = new)
    OBVIOUS
  <2>1. CASE id[1] = o
    <3>1. id = new <=> id[2] = made[o] + 1
      BY <1>3, <2>1
    <3> HIDE DEF new
    <3> QED
      BY <1>1, <1>3, <2>1, <3>1
  <2>2. CASE id[1] # o
    BY <1>1, <1>3, <2>2
  <2> QED
    BY <2>1, <2>2
<1>8. CallOf(new) = calls[o][made[o] + 1]
  BY DEF CallOf
<1>9. Observed' = {id \in Records : id[2] <= made'[id[1]] /\ Traced(CallOf(id))}
  BY DEF Observed, CallOf
<1>10. Observed' = IF Traced(CallOf(new)) THEN Observed \cup {new} ELSE Observed
  <2> HIDE DEF new
  <2>1. \A id : id \in Observed' <=>
          id \in Observed \/ (id = new /\ Traced(CallOf(new)))
    BY <1>2, <1>7, <1>9 DEF Observed
  <2> QED
    BY <2>1
<1> QED
  BY <1>2, <1>5, <1>6, <1>8, <1>10

LEMMA PlaceInit == Init => InOnePlace
<1> SUFFICES ASSUME Init
             PROVE  InOnePlace
  OBVIOUS
<1>1. Path = <<>>
  <2>1. Ids(ring) = <<>>
    <3>1. IF ring = <<>> THEN TRUE ELSE FALSE
      BY DEF Init
    <3>2. ring \in Seq(Reservations) /\ Len(ring) = 0
      BY <3>1, Sizes
    <3> QED
      BY <3>2, IdsType, EmptySeq
  <2>2. Held = <<>>
    BY DEF Held, Init
  <2>3. <<>> ++ <<>> = <<>>
    BY Joining
  <2> QED
    BY <2>1, <2>2, <2>3, PathIs DEF Init, Way
<1>2. Observed = {}
  <2>1. ASSUME NEW id \in Observed
        PROVE  FALSE
    <3>1. PICK o \in Objects, script \in Scripts : id \in {o} \X DOMAIN script[o]
      BY DEF Observed, Records
    <3>2. DOMAIN script[o] = 1..Len(script[o]) /\ Len(script[o]) \in Nat
      BY NetProAssumption, LenProperties
    <3>3. id[1] = o /\ id[2] \in 1..Len(script[o])
      BY <3>1, <3>2
    <3>4. id[2] <= 0
      BY <3>3 DEF Observed, Init
    <3> QED
      BY <3>2, <3>3, <3>4
  <2> QED
    BY <2>1
<1>3. Len(<<>>) = 0 /\ Range(<<>>) = {}
  BY DEF Range
<1>4. Ordered(<<>>)
  BY <1>3 DEF Ordered
<1> QED
  BY <1>1, <1>2, <1>3, <1>4 DEF InOnePlace, Init

LEMMA PlaceNext == TypeOK /\ TypeOK' /\ InOnePlace /\ [Next]_vars => InOnePlace'
<1> SUFFICES ASSUME TypeOK, TypeOK', InOnePlace, [Next]_vars
             PROVE  InOnePlace'
  OBVIOUS
<1> USE DEF kernelVars, collectorVars, agentVars
<1>1. /\ handed \in Seq(Records) /\ batch \in Seq(Records) /\ dataCh \in Seq(Records)
      /\ buffer \in Seq(Records) /\ Held \in Seq(Records) /\ pipe \in Seq(Records)
      /\ Ids(ring) \in Seq(Records) /\ Path \in Seq(Records) /\ ring \in Seq(Reservations)
  BY PathType DEF TypeOK, Reservations
<1>a. Movable(handed, batch, dataCh, buffer, Held, pipe, Ids(ring))
  BY <1>1, Along
<1>b. Separable(handed, batch, dataCh, buffer, Held, pipe, Ids(ring))
  BY <1>1, Parts
<1>2. ASSUME NEW c \in Cpus, NEW o \in Objects, Skipped(c, o)
      PROVE  InOnePlace'
  <2>1. Observed' = Observed
    BY <1>2, OneMore DEF Skipped
  <2>2. Path' = Path
    BY <1>2, PathIs DEF Skipped, Held
  <2> QED
    BY <1>2, <2>1, <2>2 DEF Skipped, InOnePlace
<1>3. ASSUME NEW c \in Cpus, NEW o \in Objects, NoRoom(c, o)
      PROVE  InOnePlace'
  <2> DEFINE new == <<o, made[o] + 1>>
  <2>1. Observed' = Observed \cup {new} /\ new \notin Observed /\ dropped' = dropped \cup {new}
    BY <1>3, OneMore DEF NoRoom
  <2>2. Path' = Path
    BY <1>3, PathIs DEF NoRoom, Held
  <2>3. lost' = lost
    BY <1>3 DEF NoRoom
  <2> HIDE DEF new
  <2> QED
    BY <2>1, <2>2, <2>3 DEF InOnePlace
<1>4. ASSUME NEW c \in Cpus, NEW o \in Objects, Reserve(c, o)
      PROVE  InOnePlace'
  <2> DEFINE new == <<o, made[o] + 1>>
             x == [id |-> new, submitted |-> FALSE]
  <2>1. /\ Observed' = Observed \cup {new} /\ new \notin Observed /\ new \in Records
        /\ \A id \in Observed : id[1] = o => id[2] < made[o] + 1
    BY <1>4, OneMore DEF Reserve
  <2>2. new[1] = o /\ new[2] = made[o] + 1
    OBVIOUS
  <2>3. Ids(ring') = Append(Ids(ring), new)
    <3>1. x \in Reservations /\ x.id = new
      BY <2>1 DEF Reservations
    <3>2. ring' = Append(ring, x)
      BY <1>4 DEF Reserve
    <3> HIDE DEF x, new
    <3> QED
      BY <1>1, <3>1, <3>2, IdsMove
  <2>4. Path' = Append(Path, new)
    <3>1. /\ handed' = handed /\ batch' = batch /\ dataCh' = dataCh /\ buffer' = buffer
          /\ Held' = Held /\ pipe' = pipe
      BY <1>4 DEF Reserve, Held
    <3> HIDE DEF new
    <3> QED
      BY <1>a, <2>1, <2>3, <3>1, PathIs DEF Movable
  <2>5. dropped' = dropped /\ lost' = lost
    BY <1>4 DEF Reserve
  <2> HIDE DEF new, x
  <2>6. /\ Len(Path') = Len(Path) + 1 /\ Path'[Len(Path) + 1] = new /\ Len(Path) \in Nat
        /\ \A i \in 1..Len(Path) : Path'[i] = Path[i]
    BY <1>1, <2>1, <2>4, AppendProperties, LenProperties
  <2>7. Range(Path') = Range(Path) \cup {new}
    <3>1. /\ DOMAIN Path = 1..Len(Path) /\ DOMAIN Path' = 1..(Len(Path) + 1)
      BY <1>1, <2>1, <2>4, AppendProperties, LenProperties
    <3>2. \A i \in 1..(Len(Path) + 1) : i = Len(Path) + 1 \/ i \in 1..Len(Path)
      BY <2>6
    <3>3. \A i \in 1..Len(Path) : i \in 1..(Len(Path) + 1)
      BY <2>6
    <3>4. Len(Path) + 1 \in 1..(Len(Path) + 1)
      BY <2>6
    <3> QED
      BY <2>6, <3>1, <3>2, <3>3, <3>4 DEF Range
  <2>8. (Ordered(Path))'
    <3>1. \A i \in 1..Len(Path) : Path[i] \in Observed
      BY <1>1, RangeEquality DEF InOnePlace
    <3> SUFFICES ASSUME NEW i \in 1..Len(Path'), NEW j \in 1..Len(Path'), i < j,
                        Path'[i][1] = Path'[j][1]
                 PROVE  Path'[i][2] < Path'[j][2]
      BY DEF Ordered
    <3>2. CASE j \in 1..Len(Path)
      <4>1. i \in 1..Len(Path) /\ Path'[i] = Path[i] /\ Path'[j] = Path[j]
        BY <2>6, <3>2
      <4>2. Ordered(Path)
        BY DEF InOnePlace
      <4> QED
        BY <4>1, <4>2, <3>2 DEF Ordered
    <3>3. CASE j = Len(Path) + 1
      <4>1. i \in 1..Len(Path) /\ Path'[i] = Path[i] /\ Path'[j] = new
        BY <2>6, <3>3
      <4> QED
        BY <2>1, <2>2, <3>1, <4>1
    <3> QED
      BY <2>6, <3>2, <3>3
  <2> QED
    BY <2>1, <2>5, <2>7, <2>8 DEF InOnePlace
<1>5. ASSUME NEW c \in Cpus, Submit(c)
      PROVE  InOnePlace'
  <2>1. Ids(ring') = Ids(ring)
    <3>1. DOMAIN ring' = DOMAIN ring /\ \A i \in DOMAIN ring : ring'[i].id = ring[i].id
      <4>1. \A i \in DOMAIN ring : ring[i] \in Reservations
        BY <1>1, ElementOfSeq, LenProperties
      <4> QED
        BY <1>5, <4>1 DEF Submit, Reservations
    <3> QED
      BY <3>1 DEF Ids
  <2>2. Path' = Path
    BY <1>5, <2>1, PathIs DEF Submit, Held
  <2> QED
    BY <1>5, <2>2, Kept DEF Submit
<1>6. CASE EcliPrint
  <2>1. Ids(ring) # <<>> /\ Head(Ids(ring)) = Head(ring).id /\ Ids(ring') = Tail(Ids(ring))
    BY <1>1, <1>6, IdsMove DEF EcliPrint
  <2>2. pipe' = Append(pipe, Head(Ids(ring)))
    BY <1>6, <2>1 DEF EcliPrint
  <2>3. /\ handed' = handed /\ batch' = batch /\ dataCh' = dataCh /\ buffer' = buffer
        /\ Held' = Held
    BY <1>6 DEF EcliPrint, Held
  <2>4. Path' = Path
    BY <1>a, <2>1, <2>2, <2>3, PathIs DEF Movable
  <2> QED
    BY <1>6, <2>4, Kept DEF EcliPrint
<1>7. CASE EcliEnds
  <2>1. Ids(ring') = <<>>
    <3>1. ring' = <<>>
      BY <1>7 DEF EcliEnds
    <3>2. ring' \in Seq(Reservations) /\ Len(ring') = 0
      BY <3>1, Sizes
    <3> QED
      BY <3>2, IdsType, EmptySeq
  <2>2. /\ handed' = handed /\ batch' = batch /\ dataCh' = dataCh /\ buffer' = buffer
        /\ Held' = Held /\ pipe' = pipe
    BY <1>7 DEF EcliEnds, Held
  <2>3. PICK a \in Seq(Records) : Path = a \o (Ids(ring) \o <<>>) /\ Path' = a \o <<>>
    <3>1. \E a \in Seq(Records) :
            /\ Way(handed, batch, dataCh, buffer, Held, pipe, Ids(ring)) = a ++ (Ids(ring) ++ <<>>)
            /\ Way(handed, batch, dataCh, buffer, Held, pipe, <<>>) = a ++ <<>>
      BY <1>b DEF Separable
    <3>2. \E a \in Seq(Records) : Path = a ++ (Ids(ring) ++ <<>>) /\ Path' = a ++ <<>>
      BY <2>1, <2>2, <3>1, PathIs
    <3> QED
      BY <3>2 DEF ++
  <2>4. lost' = lost \cup Range(Ids(ring))
    <3>1. Range(Ids(ring)) = {ring[i].id : i \in DOMAIN ring}
      BY DEF Range, Ids
    <3> QED
      BY <1>7, <3>1 DEF EcliEnds
  <2>5. <<>> \in Seq(Records) /\ UNCHANGED <<calls, made, dropped>>
    BY <1>7, Sizes DEF EcliEnds
  <2> QED
    BY <1>1, <2>3, <2>4, <2>5, CutLoses
<1>8. CASE Start
  <2>1. Path' = Path
    BY <1>8, PathIs DEF Start, Held
  <2> QED
    BY <1>8, <2>1, Kept DEF Start
<1>9. CASE Scan
  <2>1. Held = <<>> /\ Held' = <<Head(pipe)>> /\ pipe' = Tail(pipe) /\ pipe # <<>>
    <3>1. Head(pipe) \in Records
      BY <1>1, <1>9, HeadTailProperties DEF Scan
    <3>2. line = None
      BY <1>9 DEF Scan, TypeOK
    <3> QED
      BY <1>9, <3>1, <3>2, RecordIs DEF Scan, Held
  <2>2. /\ handed' = handed /\ batch' = batch /\ dataCh' = dataCh /\ buffer' = buffer
        /\ Ids(ring') = Ids(ring)
    BY <1>9 DEF Scan
  <2>3. Path' = Path
    BY <1>a, <2>1, <2>2, PathIs DEF Movable
  <2> QED
    BY <1>9, <2>3, Kept DEF Scan
<1>10. CASE ScanEnds
  <2>1. Path' = Path
    BY <1>10, PathIs DEF ScanEnds, Held
  <2> QED
    BY <1>10, <2>1, Kept DEF ScanEnds
<1>11. CASE Write
  <2>1. Held = <<line>> /\ Held' = <<>> /\ buffer' = Append(buffer, line) /\ line \in Records
    BY <1>11 DEF Write, TypeOK, Held
  <2>2. /\ handed' = handed /\ batch' = batch /\ dataCh' = dataCh /\ pipe' = pipe
        /\ Ids(ring') = Ids(ring)
    BY <1>11 DEF Write
  <2>3. Path' = Path
    BY <1>a, <2>1, <2>2, PathIs DEF Movable
  <2> QED
    BY <1>11, <2>3, Kept DEF Write
<1>12. CASE WriteFails
  <2>1. Path' = Path
    BY <1>12, PathIs DEF WriteFails, Held
  <2> QED
    BY <1>12, <2>1, Kept DEF WriteFails
<1>13. CASE Redial
  <2>1. Path' = Path
    BY <1>13, PathIs DEF Redial, SendAgain, Held
  <2> QED
    BY <1>13, <2>1, Kept DEF Redial
<1>14. CASE ReadLine
  <2>1. dataCh' = Append(dataCh, Head(buffer)) /\ buffer' = Tail(buffer) /\ buffer # <<>>
    BY <1>14 DEF ReadLine
  <2>2. /\ handed' = handed /\ batch' = batch /\ Held' = Held /\ pipe' = pipe
        /\ Ids(ring') = Ids(ring)
    BY <1>14 DEF ReadLine, Held
  <2>3. Path' = Path
    BY <1>a, <2>1, <2>2, PathIs DEF Movable
  <2> QED
    BY <1>14, <2>3, Kept DEF ReadLine
<1>15. CASE Gather
  <2>1. batch' = Append(batch, Head(dataCh)) /\ dataCh' = Tail(dataCh) /\ dataCh # <<>>
    BY <1>15 DEF Gather
  <2>2. /\ handed' = handed /\ buffer' = buffer /\ Held' = Held /\ pipe' = pipe
        /\ Ids(ring') = Ids(ring)
    BY <1>15 DEF Gather, Held
  <2>3. Path' = Path
    BY <1>a, <2>1, <2>2, PathIs DEF Movable
  <2> QED
    BY <1>15, <2>3, Kept DEF Gather
<1>16. CASE HandOver
  <2>1. handed' = handed ++ batch /\ batch' = <<>>
    BY <1>16 DEF HandOver, ++
  <2>2. /\ dataCh' = dataCh /\ buffer' = buffer /\ Held' = Held /\ pipe' = pipe
        /\ Ids(ring') = Ids(ring)
    BY <1>16 DEF HandOver, Held
  <2>3. Path' = Path
    BY <1>b, <2>1, <2>2, PathIs DEF Separable
  <2> QED
    BY <1>16, <2>3, Kept DEF HandOver
<1>17. CASE AgentStops
  <2> DEFINE b == (batch \o dataCh) \o buffer
  <2>1. batch' = <<>> /\ dataCh' = <<>> /\ buffer' = <<>>
    BY <1>17 DEF AgentStops
  <2>2. handed' = handed /\ Held' = Held /\ pipe' = pipe /\ Ids(ring') = Ids(ring)
    BY <1>17 DEF AgentStops, Held
  <2>3. PICK c \in Seq(Records) : Path = handed \o (b \o c) /\ Path' = handed \o c
    <3>1. \E c \in Seq(Records) :
            /\ Way(handed, batch, dataCh, buffer, Held, pipe, Ids(ring))
                 = handed ++ (((batch ++ dataCh) ++ buffer) ++ c)
            /\ Way(handed, <<>>, <<>>, <<>>, Held, pipe, Ids(ring)) = handed ++ c
      BY <1>b DEF Separable
    <3>2. \E c \in Seq(Records) : /\ Path = handed ++ (((batch ++ dataCh) ++ buffer) ++ c)
                                  /\ Path' = handed ++ c
      BY <2>1, <2>2, <3>1, PathIs
    <3> QED
      BY <3>2 DEF ++
  <2>4. b \in Seq(Records) /\ lost' = lost \cup Range(b)
    <3>1. batch \o dataCh \in Seq(Records)
      BY <1>1, ConcatProperties
    <3>2. Range(batch \o dataCh) = Range(batch) \cup Range(dataCh)
      BY <1>1, RangeConcatenation
    <3> DEFINE bd == batch \o dataCh
    <3> HIDE DEF bd
    <3>3. bd \in Seq(Records) /\ Range(bd) = Range(batch) \cup Range(dataCh)
      BY <3>1, <3>2 DEF bd
    <3>4. bd \o buffer \in Seq(Records) /\ Range(bd \o buffer) = Range(bd) \cup Range(buffer)
      BY <1>1, <3>3, ConcatProperties, RangeConcatenation
    <3>5. b = bd \o buffer
      BY DEF bd
    <3>6. lost' = lost \cup Range(buffer) \cup Range(dataCh) \cup Range(batch)
      BY <1>17 DEF AgentStops, ToSet, Range
    <3> HIDE DEF b
    <3> QED
      BY <3>3, <3>4, <3>5, <3>6
  <2>5. UNCHANGED <<calls, made, dropped>>
    BY <1>17 DEF AgentStops
  <2> HIDE DEF b
  <2> QED
    BY <1>1, <2>3, <2>4, <2>5, CutLoses
<1>18. CASE AgentStarts
  <2>1. Path' = Path
    BY <1>18, PathIs DEF AgentStarts, Held
  <2> QED
    BY <1>18, <2>1, Kept DEF AgentStarts
<1>19. CASE UNCHANGED vars
  <2>1. Path' = Path
    BY <1>19, PathIs DEF vars, Held
  <2> QED
    BY <1>19, <2>1, Kept DEF vars
<1> QED
  BY <1>2, <1>3, <1>4, <1>5, <1>6, <1>7, <1>8, <1>9, <1>10, <1>11, <1>12, <1>13,
     <1>14,
     <1>15, <1>16, <1>17, <1>18, <1>19 DEF Next

LEMMA PlaceAlways == Spec => [](TypeOK /\ InOnePlace)
<1>1. Init => TypeOK /\ InOnePlace
  BY TypeInit, PlaceInit
<1>2. TypeOK /\ InOnePlace /\ [Next]_vars => TypeOK' /\ InOnePlace'
  BY TypeNext, PlaceNext
<1> QED
  BY <1>1, <1>2, PTL DEF Spec

(* Back pressure loses nothing and no retry doubles a record: each observed *)
(* call is in one place of the way, or was refused by a full ring, or was   *)
(* lost with a process (NetPro.Conserved; netpro.bpf.c:35-36,               *)
(* NetProCollector/main.go:192-209, agentCollector/main.go:221-261).        *)
THEOREM PathConserved == Spec => []Conserved
<1>1. TypeOK /\ InOnePlace => Conserved
  <2> SUFFICES ASSUME TypeOK, InOnePlace
               PROVE  Conserved
    OBVIOUS
  <2>1. IsInjective(Path)
    BY PathType, RecordIs, OrderedOnce DEF InOnePlace
  <2>2. ToSet(Path) = Range(Path)
    BY DEF ToSet, Range
  <2> QED
    BY <2>1, <2>2 DEF Conserved, InOnePlace
<1> QED
  BY <1>1, PlaceAlways, PTL

(* The records of one socket or process are in the order of its calls,      *)
(* whatever CPUs made them, and across outages and retries                  *)
(* (NetPro.InKernelOrder; netpro.bpf.c:33-40, main.go:192-209).             *)
THEOREM CallsInOrder == Spec => []InKernelOrder
<1>1. TypeOK /\ InOnePlace => InKernelOrder
  <2> SUFFICES ASSUME TypeOK, InOnePlace
               PROVE  InKernelOrder
    OBVIOUS
  <2>1. DOMAIN Path = 1..Len(Path)
    BY PathType, LenProperties
  <2> QED
    BY <2>1 DEF InOnePlace, Ordered, InKernelOrder
<1> QED
  BY <1>1, PlaceAlways, PTL
-----------------------------------------------------------------------------
(* What a record contains.                                                  *)
Hooks == {"tcp_set_state", "tcp_connect", "inet_csk_accept", "udp_sendmsg", "udp_recvmsg",
          "sched_process_fork", "sys_enter_execve", "sched_process_exit"}
EventName(hook) ==
  CASE hook = "tcp_set_state" -> "TCP_STATE"
    [] hook = "tcp_connect" -> "TCP_CONNECT"
    [] hook = "inet_csk_accept" -> "TCP_ACCEPT"
    [] hook = "udp_sendmsg" -> "UDP_SEND"
    [] hook = "udp_recvmsg" -> "UDP_RECV"
    [] hook = "sched_process_fork" -> "PROC_FORK"
    [] hook = "sys_enter_execve" -> "PROC_EXEC"
    [] hook = "sched_process_exit" -> "PROC_EXIT"

(* The record e says what the call says.                                    *)
Tells(e, call) ==
  /\ EventNames[e.type + 1] = EventName(call.hook)
  /\ e.comm = IF "comm" \in DOMAIN call THEN call.comm ELSE ""
  /\ e.filename = IF "filename" \in DOMAIN call THEN call.filename ELSE ""
  /\ e.daddr = IF AboutASocket(call) THEN Load32(call.sk.daddr) ELSE 0
  /\ call.hook = "tcp_set_state" => e.state = call.newstate

LEMMA CallIs ==
  ASSUME NEW call \in Call, Traced(call)
  PROVE  /\ call.hook \in Hooks
         /\ AboutASocket(call) <=> call.hook \in {"tcp_set_state", "tcp_connect",
              "inet_csk_accept", "udp_sendmsg", "udp_recvmsg"}
         /\ AboutASocket(call) => call.sk \in Sock
         /\ call.hook = "tcp_set_state" => call.newstate \in 1..12
         /\ "comm" \in DOMAIN call <=> call.hook \in {"sched_process_fork",
              "sys_enter_execve", "sched_process_exit"}
         /\ "filename" \in DOMAIN call <=> call.hook = "sys_enter_execve"
BY DEF Call, Hooks, Traced, AboutASocket

LEMMA EventTells ==
  ASSUME NEW call \in Call, Traced(call)
  PROVE  Tells(Event(call), call)
<1> DEFINE e == Event(call)
<1>0. /\ EventNames[0 + 1] = "TCP_CONNECT" /\ EventNames[1 + 1] = "TCP_ACCEPT"
      /\ EventNames[2 + 1] = "TCP_STATE" /\ EventNames[3 + 1] = "UDP_SEND"
      /\ EventNames[4 + 1] = "UDP_RECV" /\ EventNames[5 + 1] = "PROC_FORK"
      /\ EventNames[6 + 1] = "PROC_EXEC" /\ EventNames[7 + 1] = "PROC_EXIT"
  BY DEF EventNames
<1>1. CASE call.hook = "tcp_set_state"
  <2>1. e = [Zeroed EXCEPT !.type = 2, !.protocol = 6, !.state = call.newstate,
                           !.family = call.sk.family, !.saddr = Load32(call.sk.rcv_saddr),
                           !.daddr = Load32(call.sk.daddr)]
    BY <1>1 DEF Event, NetRecord, fill_net_info, event_type, Zeroed
  <2>2. /\ e.type = 2 /\ e.comm = "" /\ e.filename = ""
        /\ e.daddr = Load32(call.sk.daddr) /\ e.state = call.newstate
    BY <2>1 DEF Zeroed
  <2>3. EventName(call.hook) = "TCP_STATE"
    BY <1>1 DEF EventName
  <2> HIDE DEF e
  <2>4. Tells(e, call)
    BY <1>0, <1>1, <2>2, <2>3, CallIs DEF Tells
  <2> QED
    BY <2>4 DEF e
<1>2. CASE call.hook = "tcp_connect"
  <2>1. e = [Zeroed EXCEPT !.type = 0, !.protocol = 6, !.state = 2,
                           !.family = call.sk.family, !.saddr = Load32(call.sk.rcv_saddr),
                           !.daddr = Load32(call.sk.daddr)]
    BY <1>2 DEF Event, NetRecord, fill_net_info, event_type, Zeroed
  <2>2. /\ e.type = 0 /\ e.comm = "" /\ e.filename = ""
        /\ e.daddr = Load32(call.sk.daddr)
    BY <2>1 DEF Zeroed
  <2>3. EventName(call.hook) = "TCP_CONNECT"
    BY <1>2 DEF EventName
  <2> HIDE DEF e
  <2>4. Tells(e, call)
    BY <1>0, <1>2, <2>2, <2>3, CallIs DEF Tells
  <2> QED
    BY <2>4 DEF e
<1>3. CASE call.hook = "inet_csk_accept"
  <2>1. e = [Zeroed EXCEPT !.type = 1, !.protocol = 6, !.state = 1,
                           !.family = call.sk.family, !.saddr = Load32(call.sk.rcv_saddr),
                           !.daddr = Load32(call.sk.daddr)]
    BY <1>3 DEF Event, NetRecord, fill_net_info, event_type, Zeroed
  <2>2. /\ e.type = 1 /\ e.comm = "" /\ e.filename = ""
        /\ e.daddr = Load32(call.sk.daddr)
    BY <2>1 DEF Zeroed
  <2>3. EventName(call.hook) = "TCP_ACCEPT"
    BY <1>3 DEF EventName
  <2> HIDE DEF e
  <2>4. Tells(e, call)
    BY <1>0, <1>3, <2>2, <2>3, CallIs DEF Tells
  <2> QED
    BY <2>4 DEF e
<1>4. CASE call.hook = "udp_sendmsg"
  <2>1. e = [Zeroed EXCEPT !.type = 3, !.protocol = 17, !.state = 0,
                           !.family = call.sk.family, !.saddr = Load32(call.sk.rcv_saddr),
                           !.daddr = Load32(call.sk.daddr)]
    BY <1>4 DEF Event, NetRecord, fill_net_info, event_type, Zeroed
  <2>2. /\ e.type = 3 /\ e.comm = "" /\ e.filename = ""
        /\ e.daddr = Load32(call.sk.daddr)
    BY <2>1 DEF Zeroed
  <2>3. EventName(call.hook) = "UDP_SEND"
    BY <1>4 DEF EventName
  <2> HIDE DEF e
  <2>4. Tells(e, call)
    BY <1>0, <1>4, <2>2, <2>3, CallIs DEF Tells
  <2> QED
    BY <2>4 DEF e
<1>5. CASE call.hook = "udp_recvmsg"
  <2>1. e = [Zeroed EXCEPT !.type = 4, !.protocol = 17, !.state = 0,
                           !.family = call.sk.family, !.saddr = Load32(call.sk.rcv_saddr),
                           !.daddr = Load32(call.sk.daddr)]
    BY <1>5 DEF Event, NetRecord, fill_net_info, event_type, Zeroed
  <2>2. /\ e.type = 4 /\ e.comm = "" /\ e.filename = ""
        /\ e.daddr = Load32(call.sk.daddr)
    BY <2>1 DEF Zeroed
  <2>3. EventName(call.hook) = "UDP_RECV"
    BY <1>5 DEF EventName
  <2> HIDE DEF e
  <2>4. Tells(e, call)
    BY <1>0, <1>5, <2>2, <2>3, CallIs DEF Tells
  <2> QED
    BY <2>4 DEF e
<1>6. CASE call.hook = "sched_process_fork"
  <2>1. e = [Zeroed EXCEPT !.type = 5, !.comm = call.comm]
    BY <1>6 DEF Event, event_type
  <2>2. /\ e.type = 5 /\ e.comm = call.comm /\ e.filename = ""
        /\ e.daddr = 0
    BY <2>1 DEF Zeroed
  <2>3. EventName(call.hook) = "PROC_FORK"
    BY <1>6 DEF EventName
  <2> HIDE DEF e
  <2>4. Tells(e, call)
    BY <1>0, <1>6, <2>2, <2>3, CallIs DEF Tells
  <2> QED
    BY <2>4 DEF e
<1>7. CASE call.hook = "sys_enter_execve"
  <2>1. e = [Zeroed EXCEPT !.type = 6, !.comm = call.comm, !.filename = call.filename]
    BY <1>7 DEF Event, event_type
  <2>2. /\ e.type = 6 /\ e.comm = call.comm /\ e.filename = call.filename
        /\ e.daddr = 0
    BY <2>1 DEF Zeroed
  <2>3. EventName(call.hook) = "PROC_EXEC"
    BY <1>7 DEF EventName
  <2> HIDE DEF e
  <2>4. Tells(e, call)
    BY <1>0, <1>7, <2>2, <2>3, CallIs DEF Tells
  <2> QED
    BY <2>4 DEF e
<1>8. CASE call.hook = "sched_process_exit"
  <2>1. e = [Zeroed EXCEPT !.type = 7, !.comm = call.comm]
    BY <1>8 DEF Event, event_type
  <2>2. /\ e.type = 7 /\ e.comm = call.comm /\ e.filename = ""
        /\ e.daddr = 0
    BY <2>1 DEF Zeroed
  <2>3. EventName(call.hook) = "PROC_EXIT"
    BY <1>8 DEF EventName
  <2> HIDE DEF e
  <2>4. Tells(e, call)
    BY <1>0, <1>8, <2>2, <2>3, CallIs DEF Tells
  <2> QED
    BY <2>4 DEF e
<1> QED
  BY <1>1, <1>2, <1>3, <1>4, <1>5, <1>6, <1>7, <1>8, CallIs DEF Hooks

(* Which fields the collector sends.                                        *)
LEMMA MetadataIs ==
  ASSUME NEW e
  PROVE  /\ Metadata(e).event = EventNames[e.type + 1]
         /\ "comm" \in DOMAIN Metadata(e) <=> e.comm # ""
         /\ "comm" \in DOMAIN Metadata(e) => Metadata(e).comm = e.comm
         /\ "filename" \in DOMAIN Metadata(e) <=> e.filename # ""
         /\ "filename" \in DOMAIN Metadata(e) => Metadata(e).filename = e.filename
         /\ "dst_ip" \in DOMAIN Metadata(e) <=> e.daddr # 0
         /\ "dst_ip" \in DOMAIN Metadata(e) => Metadata(e).dst_ip = PutUint32(e.daddr)
         /\ "state" \in DOMAIN Metadata(e) <=> HasState(e)
         /\ "state" \in DOMAIN Metadata(e) => Metadata(e).state = StateNames[e.state]
<1> DEFINE all == [event    |-> EventNames[e.type + 1],
                   protocol |-> IF e.protocol = 6 THEN "TCP" ELSE "UDP",
                   family   |-> IF e.family = 2 THEN "IPv4" ELSE "IPv6",
                   state    |-> IF e.state \in 1..12 THEN StateNames[e.state] ELSE "",
                   src_ip   |-> PutUint32(e.saddr),
                   dst_ip   |-> PutUint32(e.daddr),
                   comm     |-> e.comm,
                   filename |-> e.filename]
           absent == {f \in DOMAIN all :
                        \/ f = "protocol" /\ e.protocol \notin {6, 17}
                        \/ f = "family" /\ e.family \notin {2, 10}
                        \/ f = "state" /\ ~ HasState(e)
                        \/ f = "src_ip" /\ e.saddr = 0
                        \/ f = "dst_ip" /\ e.daddr = 0
                        \/ f = "comm" /\ e.comm = ""
                        \/ f = "filename" /\ e.filename = ""}
<1>1. Metadata(e) = [f \in DOMAIN all \ absent |-> all[f]]
  BY DEF Metadata
<1>2. /\ DOMAIN all = {"event", "protocol", "family", "state", "src_ip", "dst_ip", "comm",
                       "filename"}
      /\ all["event"] = EventNames[e.type + 1] /\ all["comm"] = e.comm
      /\ all["filename"] = e.filename /\ all["dst_ip"] = PutUint32(e.daddr)
      /\ e.state \in 1..12 => all["state"] = StateNames[e.state]
  <2> HIDE DEF HasState
  <2> QED
    OBVIOUS
<1>3. /\ "event" \notin absent /\ ("comm" \in absent <=> e.comm = "")
      /\ ("filename" \in absent <=> e.filename = "") /\ ("dst_ip" \in absent <=> e.daddr = 0)
      /\ ("state" \in absent <=> ~ HasState(e))
  BY <1>2
<1> HIDE DEF all, absent
<1>4. /\ DOMAIN Metadata(e) = DOMAIN all \ absent
      /\ \A f \in DOMAIN all \ absent : Metadata(e)[f] = all[f]
  BY <1>1
<1>5. HasState(e) => e.state \in 1..12
  BY DEF HasState
<1> QED
  BY <1>2, <1>3, <1>4, <1>5

(* The four bytes of an address, read by a little-endian machine and        *)
(* written big-endian.                                                      *)
LEMMA Bytes ==
  ASSUME NEW b \in [1..4 -> Byte]
  PROVE  /\ PutUint32(Load32(b)) = Reverse(b)
         /\ Load32(b) = 0 <=> b = <<0, 0, 0, 0>>
<1>1. b[1] \in Byte /\ b[2] \in Byte /\ b[3] \in Byte /\ b[4] \in Byte
  OBVIOUS
<1>2. b \in Seq(Byte) /\ Len(b) = 4
  <2>1. b \in Seq(Byte)
    BY SeqDef
  <2>2. DOMAIN b = 1..Len(b) /\ Len(b) \in Nat /\ DOMAIN b = 1..4
    BY <2>1, LenProperties
  <2>3. \A k : k \in 1..Len(b) <=> k \in 1..4
    BY <2>2
  <2>4. 4 \in 1..Len(b) /\ Len(b) + 1 \notin 1..4
    <3>1. 4 \in 1..4 /\ Len(b) + 1 \notin 1..Len(b)
      BY <2>2
    <3> QED
      BY <2>3, <3>1
  <2> QED
    BY <2>1, <2>2, <2>4
<1> DEFINE w == b[1]
           x == b[2]
           y == b[3]
           z == b[4]
           n == w + 256 * x + 65536 * y + 16777216 * z
<1>3. w \in 0..255 /\ x \in 0..255 /\ y \in 0..255 /\ z \in 0..255 /\ Load32(b) = n
  BY <1>1 DEF Byte, Load32
<1>4. /\ n \div 16777216 = z /\ (n \div 65536) % 256 = y
      /\ (n \div 256) % 256 = x /\ n % 256 = w
  <2> HIDE DEF w, x, y, z
  <2>1. n \div 16777216 = z
    BY <1>3
  <2>2. n \div 65536 = y + 256 * z
    BY <1>3
  <2>3. n \div 256 = x + 256 * y + 65536 * z
    BY <1>3
  <2>4. (y + 256 * z) % 256 = y
    BY <1>3
  <2>5. (x + 256 * y + 65536 * z) % 256 = x
    BY <1>3
  <2>6. n % 256 = w
    BY <1>3
  <2> QED
    BY <2>1, <2>2, <2>3, <2>4, <2>5, <2>6
<1>5. PutUint32(Load32(b)) = <<b[4], b[3], b[2], b[1]>>
  BY <1>3, <1>4 DEF PutUint32
<1>6. Reverse(b) = <<b[4], b[3], b[2], b[1]>>
  <2>1. Reverse(b) = [i \in 1..4 |-> b[(4 - i) + 1]]
    BY <1>2 DEF Reverse
  <2>2. Reverse(b) \in [1..4 -> Byte] /\ Reverse(b)[1] = b[4] /\ Reverse(b)[2] = b[3]
        /\ Reverse(b)[3] = b[2] /\ Reverse(b)[4] = b[1]
    BY <2>1
  <2> HIDE DEF w, x, y, z, n
  <2> QED
    BY <2>2
<1>7. Load32(b) = 0 <=> b = <<0, 0, 0, 0>>
  <2>1. n = 0 <=> w = 0 /\ x = 0 /\ y = 0 /\ z = 0
    <3> HIDE DEF w, x, y, z
    <3> QED
      BY <1>3
  <2>2. b = <<0, 0, 0, 0>> <=> b[1] = 0 /\ b[2] = 0 /\ b[3] = 0 /\ b[4] = 0
    OBVIOUS
  <2> QED
    BY <1>3, <2>1, <2>2
<1> QED
  BY <1>5, <1>6, <1>7

LEMMA MetadataDescribes ==
  ASSUME NEW call \in Call, Traced(call)
  PROVE  Describes(Metadata(Event(call)), call)
<1> DEFINE e == Event(call)
           m == Metadata(e)
<1>1. Tells(e, call)
  BY EventTells
<1> HIDE DEF e
<1>2. /\ m.event = EventName(call.hook)
      /\ "comm" \in DOMAIN m <=> e.comm # ""
      /\ "comm" \in DOMAIN m => m.comm = e.comm
      /\ "filename" \in DOMAIN m <=> e.filename # ""
      /\ "filename" \in DOMAIN m => m.filename = e.filename
      /\ "dst_ip" \in DOMAIN m <=> e.daddr # 0
      /\ "dst_ip" \in DOMAIN m => m.dst_ip = PutUint32(e.daddr)
  BY <1>1, MetadataIs DEF Tells
<1> HIDE DEF m
<1>3. /\ "dst_ip" \in DOMAIN m <=> AboutASocket(call) /\ call.sk.daddr # <<0, 0, 0, 0>>
      /\ "dst_ip" \in DOMAIN m => m.dst_ip = Reverse(call.sk.daddr)
  <2>1. CASE AboutASocket(call)
    <3>1. call.sk.daddr \in [1..4 -> Byte]
      BY <2>1, CallIs DEF Sock
    <3>2. e.daddr = Load32(call.sk.daddr)
      BY <1>1, <2>1 DEF Tells
    <3> QED
      BY <1>2, <2>1, <3>1, <3>2, Bytes
  <2>2. CASE ~ AboutASocket(call)
    BY <1>1, <1>2, <2>2 DEF Tells
  <2> QED
    BY <2>1, <2>2
<1>4. /\ "comm" \in DOMAIN m <=> "comm" \in DOMAIN call /\ call.comm # ""
      /\ "comm" \in DOMAIN m => m.comm = call.comm
      /\ "filename" \in DOMAIN m <=> "filename" \in DOMAIN call /\ call.filename # ""
      /\ "filename" \in DOMAIN m => m.filename = call.filename
  BY <1>1, <1>2 DEF Tells
<1>5. m.event =
       CASE call.hook = "tcp_set_state" -> "TCP_STATE"
         [] call.hook = "tcp_connect" -> "TCP_CONNECT"
         [] call.hook = "inet_csk_accept" -> "TCP_ACCEPT"
         [] call.hook = "udp_sendmsg" -> "UDP_SEND"
         [] call.hook = "udp_recvmsg" -> "UDP_RECV"
         [] call.hook = "sched_process_fork" -> "PROC_FORK"
         [] call.hook = "sys_enter_execve" -> "PROC_EXEC"
         [] call.hook = "sched_process_exit" -> "PROC_EXIT"
  BY <1>2 DEF EventName
<1>6. Describes(m, call)
  BY <1>3, <1>4, <1>5 DEF Describes
<1> QED
  BY <1>6 DEF m, e

LEMMA MetadataCounts ==
  ASSUME NEW call \in Call, Traced(call)
  PROVE  /\ Counts3001(Metadata(Event(call))) =>
              call.hook = "tcp_set_state" /\ call.newstate = 2
         /\ Counts3002(Metadata(Event(call))) => call.hook = "tcp_connect"
<1> DEFINE e == Event(call)
           m == Metadata(e)
<1>1. Tells(e, call) /\ call.hook \in Hooks
      /\ (call.hook = "tcp_set_state" => call.newstate \in 1..12)
  BY EventTells, CallIs
<1> HIDE DEF e
<1>2. /\ m.event = EventName(call.hook) /\ EventNames[e.type + 1] = EventName(call.hook)
      /\ "state" \in DOMAIN m <=> HasState(e)
      /\ "state" \in DOMAIN m => m.state = StateNames[e.state]
  BY <1>1, MetadataIs DEF Tells
<1> HIDE DEF m
<1>3. ASSUME Counts3002(m)
      PROVE  call.hook = "tcp_connect"
  BY <1>1, <1>2, <1>3 DEF Counts3002, EventName, Hooks
<1>4. ASSUME Counts3001(m)
      PROVE  call.hook = "tcp_set_state" /\ call.newstate = 2
  <2>1. EventName(call.hook) = "TCP_STATE" /\ StateNames[e.state] = "SYN_SENT"
    BY <1>2, <1>4 DEF Counts3001, HasState
  <2>2. call.hook = "tcp_set_state"
    BY <1>1, <2>1 DEF EventName, Hooks
  <2>3. e.state = call.newstate /\ call.newstate \in 1..12
    BY <1>1, <2>2 DEF Tells
  <2>4. call.newstate = 2
    BY <2>1, <2>3 DEF StateNames
  <2> QED
    BY <2>2, <2>4
<1> QED
  BY <1>3, <1>4 DEF m, e

(* What is handed over was observed.                                        *)
LEMMA HandedIs ==
  ASSUME TypeOK, InOnePlace, NEW i \in DOMAIN handed
  PROVE  /\ handed[i] \in Records /\ handed[i][2] \in 1..made[handed[i][1]]
         /\ CallOf(handed[i]) \in Call /\ Traced(CallOf(handed[i]))
         /\ i \in DOMAIN Path /\ Path[i] = handed[i]
<1>1. /\ handed \in Seq(Records) /\ Path \in Seq(Records)
      /\ DOMAIN handed = 1..Len(handed) /\ Len(handed) \in Nat /\ DOMAIN Path = 1..Len(Path)
  BY PathType, LenProperties
<1>2. i \in DOMAIN Path /\ Path[i] = handed[i]
  <2> DEFINE rest == OnTheWay
  <2>1. rest \in Seq(Records)
    <3>1. rest = ((((batch ++ dataCh) ++ buffer) ++ Held) ++ pipe) ++ Ids(ring)
      BY DEF OnTheWay, Held, Ids, ++
    <3>2. (batch ++ dataCh) \in Seq(Records)
      BY PathType, Joining
    <3>3. ((batch ++ dataCh) ++ buffer) \in Seq(Records)
      BY <3>2, PathType, Joining
    <3>4. (((batch ++ dataCh) ++ buffer) ++ Held) \in Seq(Records)
      BY <3>3, PathType, Joining
    <3>5. ((((batch ++ dataCh) ++ buffer) ++ Held) ++ pipe) \in Seq(Records)
      BY <3>4, PathType, Joining
    <3> QED
      BY <3>1, <3>5, PathType, Joining
  <2>2. Path = handed \o rest
    BY DEF Path
  <2> HIDE DEF rest
  <2>3. Len(handed \o rest) = Len(handed) + Len(rest) /\ Len(rest) \in Nat
    BY <1>1, <2>1, ConcatProperties, LenProperties
  <2>4. \A j \in 1..(Len(handed) + Len(rest)) :
          (handed \o rest)[j] = IF j <= Len(handed) THEN handed[j] ELSE rest[j - Len(handed)]
    BY <1>1, <2>1, ConcatProperties
  <2>5. i \in 1..(Len(handed) + Len(rest)) /\ i <= Len(handed)
    BY <1>1, <2>3
  <2> QED
    BY <1>1, <2>2, <2>3, <2>4, <2>5
<1>3. handed[i] \in Observed
  <2>1. Path[i] \in Range(Path)
    BY <1>2 DEF Range
  <2> QED
    BY <1>2, <2>1 DEF InOnePlace
<1>4. handed[i][1] \in Objects /\ handed[i][2] \in Nat /\ handed[i] \in Records
  BY <1>3, RecordIs DEF Observed
<1>5. handed[i][2] <= made[handed[i][1]] /\ Traced(CallOf(handed[i]))
  BY <1>3 DEF Observed
<1>6. handed[i][2] # 0
  <2>1. PICK o \in Objects, script \in Scripts : handed[i] \in {o} \X DOMAIN script[o]
    BY <1>4 DEF Records
  <2>2. DOMAIN script[o] = 1..Len(script[o])
    BY NetProAssumption, LenProperties
  <2> QED
    BY <2>1, <2>2
<1>7. handed[i][2] \in 1..made[handed[i][1]]
  BY <1>4, <1>5, <1>6 DEF TypeOK
<1>8. CallOf(handed[i]) \in Call
  <2>1. calls[handed[i][1]] \in Seq(Call)
    BY <1>4, NetProAssumption DEF TypeOK
  <2>2. handed[i][2] \in 1..Len(calls[handed[i][1]])
    BY <1>4, <1>7, CallsType DEF TypeOK
  <2> QED
    BY <2>1, <2>2, ElementOfSeq DEF CallOf
<1> QED
  BY <1>2, <1>4, <1>5, <1>7, <1>8

(* A record says what its own call said, with the bytes of the address in   *)
(* reverse order (NetPro.RecordsTruthful; netpro.bpf.c:37, main.go:156-168).*)
THEOREM RecordsAsCalled == Spec => []RecordsTruthful
<1>1. TypeOK /\ InOnePlace => RecordsTruthful
  BY HandedIs, MetadataDescribes DEF RecordsTruthful, MetadataOf
<1> QED
  BY <1>1, PlaceAlways, PTL

(* The rules 3001 and 3002 count a connection attempt at most once each     *)
(* (NetPro.AttemptCountedOnce; main.go:121-153, demo_rule.json).            *)
THEOREM AttemptsCounted == Spec => []AttemptCountedOnce
<1>1. TypeOK /\ InOnePlace => AttemptCountedOnce
  <2> SUFFICES ASSUME TypeOK, InOnePlace, NEW o \in Objects
               PROVE  LET sent == {i \in DOMAIN handed : handed[i][1] = o}
                          by3001 == {i \in sent : Counts3001(MetadataOf(handed[i]))}
                          by3002 == {i \in sent : Counts3002(MetadataOf(handed[i]))}
                          opened == {n \in 1..made[o] :
                                       calls[o][n].hook = "tcp_set_state"
                                       /\ calls[o][n].newstate = 2}
                          attempts == {n \in 1..made[o] : calls[o][n].hook = "tcp_connect"}
                      IN  /\ Cardinality(by3001) <= Cardinality(opened)
                          /\ Cardinality(by3002) <= Cardinality(attempts)
    BY DEF AttemptCountedOnce
  <2> DEFINE sent == {i \in DOMAIN handed : handed[i][1] = o}
             by3001 == {i \in sent : Counts3001(MetadataOf(handed[i]))}
             by3002 == {i \in sent : Counts3002(MetadataOf(handed[i]))}
             opened == {n \in 1..made[o] :
                          calls[o][n].hook = "tcp_set_state" /\ calls[o][n].newstate = 2}
             attempts == {n \in 1..made[o] : calls[o][n].hook = "tcp_connect"}
  <2>1. \A i \in sent : /\ handed[i][2] \in 1..made[o] /\ CallOf(handed[i]) = calls[o][handed[i][2]]
                        /\ CallOf(handed[i]) \in Call /\ Traced(CallOf(handed[i]))
    BY HandedIs DEF CallOf
  <2>2. \A i, j \in sent : handed[i][2] = handed[j][2] => i = j
    <3> SUFFICES ASSUME NEW i \in sent, NEW j \in sent, handed[i][2] = handed[j][2]
                 PROVE  i = j
      OBVIOUS
    <3>1. /\ i \in DOMAIN Path /\ Path[i] = handed[i] /\ j \in DOMAIN Path /\ Path[j] = handed[j]
          /\ handed[i][2] \in Nat
      BY HandedIs, RecordIs
    <3>2. DOMAIN Path = 1..Len(Path) /\ Len(Path) \in Nat
      BY PathType, LenProperties
    <3>3. ~ (i < j) /\ ~ (j < i)
      BY <3>1, <3>2 DEF InOnePlace, Ordered
    <3> QED
      BY <3>1, <3>2, <3>3
  <2>3. \A i \in by3001 : handed[i][2] \in opened
    BY <2>1, MetadataCounts DEF MetadataOf
  <2>4. \A i \in by3002 : handed[i][2] \in attempts
    BY <2>1, MetadataCounts DEF MetadataOf
  <2>5. IsFiniteSet(opened) /\ IsFiniteSet(attempts)
    <3>1. made[o] \in Nat
      BY DEF TypeOK
    <3>2. IsFiniteSet(1..made[o])
      BY <3>1, FS_Interval
    <3>3. opened \in SUBSET (1..made[o]) /\ attempts \in SUBSET (1..made[o])
      OBVIOUS
    <3> QED
      BY <3>2, <3>3, FS_Subset
  <2>6. \A i \in by3001 \cup by3002 : i \in sent
    OBVIOUS
  <2> HIDE DEF sent, by3001, by3002, opened, attempts
  <2>7. Cardinality(by3001) <= Cardinality(opened)
    <3> DEFINE f == [i \in by3001 |-> handed[i][2]]
    <3>1. f \in Injection(by3001, opened)
      BY <2>2, <2>3, <2>6 DEF Injection, IsInjective
    <3> HIDE DEF f
    <3> QED
      BY <2>5, <3>1, FS_Injection
  <2>8. Cardinality(by3002) <= Cardinality(attempts)
    <3> DEFINE f == [i \in by3002 |-> handed[i][2]]
    <3>1. f \in Injection(by3002, attempts)
      BY <2>2, <2>4, <2>6 DEF Injection, IsInjective
    <3> HIDE DEF f
    <3> QED
      BY <2>5, <3>1, FS_Injection
  <2> QED
    BY <2>7, <2>8 DEF sent, by3001, by3002, opened, attempts
<1> QED
  BY <1>1, PlaceAlways, PTL
=============================================================================
