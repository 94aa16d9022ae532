------------------------ MODULE LogCollector_proofs ------------------------
(* Proofs about LogCollector, for any log files, any capacities of logChan  *)
(* and of the connection, and any lines.                                    *)
EXTENDS LogCollector, SequenceTheorems, TLAPS

(* What is at a place, and what comes before what: a line before the later  *)
(* ones of its file, the head of a line before its tail.                    *)
Of(s) == {s[i] : i \in 1..Len(s)}
One(e) == {e} \ {None}
Earlier(x, y) ==
  x.line[1] = y.line[1] =>
    \/ x.line[2] < y.line[2]
    \/ x.line[2] = y.line[2] /\ x.part = "head" /\ y.part = "tail"
Ahead(S, T) == \A x \in S, y \in T : Earlier(x, y)
InRow(s) == \A i, j \in 1..Len(s) : i < j => Earlier(s[i], s[j])

(* The places a line passes, from agentCollector back to its file.          *)
AtPeer == received \cup Of(pipe)
AtMain == AtPeer \cup One(data)
Beyond == AtMain \cup Of(logChan)
OutOf(f) == Beyond \cup One(out[f])
All(f) == OutOf(f) \cup Of(unread[f])

OfItsFile(f) ==
  /\ \A x \in One(out[f]) : x.line[1] = f
  /\ \A x \in Of(unread[f]) : x.line[1] = f
Queues(f) == Ahead(Beyond, One(out[f])) /\ Ahead(OutOf(f), Of(unread[f])) /\ InRow(unread[f])
InLine ==
  /\ InRow(pipe) /\ InRow(logChan)
  /\ Ahead(received, Of(pipe))
  /\ Ahead(AtPeer, One(data))
  /\ Ahead(AtMain, Of(logChan))
  /\ \A f \in Logs : OfItsFile(f) /\ Queues(f)

(* Nothing is newer than the last line of the file, of which only the head  *)
(* is anywhere while it is not complete.                                    *)
Begun == \A f \in Logs : half[f] => written[f] > 0
UpTo(f, x) ==
  x.line[1] = f => /\ x.line[2] <= written[f]
                   /\ half[f] /\ x.line[2] = written[f] => x.part = "head"
NotNewer == \A f \in Logs : \A x \in All(f) : UpTo(f, x)
Settled(f, n) ==
  \/ <<f, n>> \in lost
  \/ n = written[f] /\ half[f]
  \/ \E x \in All(f) : x.line = <<f, n>> /\ x.part # "head"
NoneMissing == \A f \in Logs : \A n \in 1..written[f] : Settled(f, n)

-----------------------------------------------------------------------------
LEMMA LineIs ==
  ASSUME LogCollectorAssumption
  PROVE  /\ \A l \in Lines : l[1] \in Logs /\ l[2] \in Nat /\ l = <<l[1], l[2]>>
         /\ \A f \in Logs : \A n \in 1..MaxLines[f] : <<f, n>> \in Lines
BY DEF Lines, LogCollectorAssumption

LEMMA EntryIs ==
  /\ \A x \in Pieces : x.line \in Lines /\ x.part \in {"whole", "head", "tail"}
  /\ \A x \in Entries : x \in Pieces /\ x.line \in Lines /\ x.part # "head"
  /\ \A x \in Pieces : x.part # "head" => [line |-> x.line, part |-> x.part] \in Entries
                                            /\ [line |-> x.line, part |-> "whole"] \in Entries
BY DEF Pieces, Entries

LEMMA NothingOf == Of(<<>>) = {} /\ InRow(<<>>)
BY EmptySeq DEF Of, InRow

Longer(t, s, x) ==
  /\ Of(t) = Of(s) \cup {x}
  /\ InRow(s) /\ Ahead(Of(s), {x}) => InRow(t)

LEMMA OneMore ==
  ASSUME NEW S, NEW s \in Seq(S), NEW x \in S
  PROVE  /\ Append(s, x) \in Seq(S) /\ Len(Append(s, x)) = Len(s) + 1
         /\ Longer(Append(s, x), s, x)
<1> DEFINE t == Append(s, x)
<1>1. /\ t \in Seq(S) /\ Len(t) = Len(s) + 1 /\ Len(s) \in Nat
      /\ \A i \in 1..Len(s) : t[i] = s[i]
      /\ t[Len(s) + 1] = x
  BY AppendProperties, LenProperties
<1> HIDE DEF t
<1>2. \A i : i \in 1..Len(t) <=> i \in 1..Len(s) \/ i = Len(s) + 1
  BY <1>1
<1>3. Of(t) = Of(s) \cup {x}
  BY <1>1, <1>2 DEF Of
<1>4. ASSUME InRow(s), Ahead(Of(s), {x})
      PROVE  InRow(t)
  <2> SUFFICES ASSUME NEW i \in 1..Len(t), NEW j \in 1..Len(t), i < j
               PROVE  Earlier(t[i], t[j])
    BY DEF InRow
  <2>1. i \in 1..Len(s) /\ t[i] = s[i]
    BY <1>1, <1>2
  <2>2. CASE j \in 1..Len(s)
    BY <1>1, <1>4, <2>1, <2>2 DEF InRow
  <2>3. CASE j = Len(s) + 1
    BY <1>1, <1>4, <2>1, <2>3 DEF Ahead, Of
  <2> QED
    BY <1>2, <2>2, <2>3
<1> QED
  BY <1>1, <1>3, <1>4 DEF t, Longer

(* What is left of a sequence after its i-th element.                       *)
Later(s, i) == {s[j] : j \in (i + 1)..Len(s)}

LEMMA After ==
  ASSUME NEW S, NEW s \in Seq(S), NEW i \in 1..Len(s)
  PROVE  /\ Rest(s, i) \in Seq(S) /\ Len(Rest(s, i)) <= Len(s)
         /\ Of(Rest(s, i)) = Later(s, i)
         /\ s[i] \in S /\ s[i] \in Of(s) /\ Of(Rest(s, i)) \subseteq Of(s)
         /\ InRow(s) => InRow(Rest(s, i)) /\ Ahead({s[i]}, Of(Rest(s, i)))
<1> DEFINE t == Rest(s, i)
<1>1. Len(s) \in Nat /\ i \in Nat /\ \A j \in 1..Len(s) : s[j] \in S
  BY LenProperties, ElementOfSeq
<1>2. \A j \in (i + 1)..Len(s) : s[j] \in S
  BY <1>1
<1>3. /\ t \in Seq(S)
      /\ Len(t) = IF i + 1 <= Len(s) THEN Len(s) - (i + 1) + 1 ELSE 0
      /\ \A j \in 1..(Len(s) - (i + 1) + 1) : t[j] = s[(i + 1) + j - 1]
  BY <1>1, <1>2, SubSeqProperties DEF Rest
<1> HIDE DEF t
<1>4. Len(t) = Len(s) - i /\ \A j \in 1..Len(t) : t[j] = s[i + j] /\ i + j \in (i + 1)..Len(s)
  BY <1>1, <1>3
<1>5. \A k \in (i + 1)..Len(s) : k - i \in 1..Len(t) /\ t[k - i] = s[k]
  BY <1>1, <1>4
<1>6. Of(t) = Later(s, i)
  BY <1>4, <1>5 DEF Of, Later
<1>7. Of(t) \subseteq Of(s) /\ s[i] \in Of(s)
  BY <1>1, <1>6 DEF Of, Later
<1>8. ASSUME InRow(s)
      PROVE  InRow(t) /\ Ahead({s[i]}, Of(t))
  <2>1. InRow(t)
    <3> SUFFICES ASSUME NEW j \in 1..Len(t), NEW k \in 1..Len(t), j < k
                 PROVE  Earlier(t[j], t[k])
      BY DEF InRow
    <3>1. i + j \in 1..Len(s) /\ i + k \in 1..Len(s) /\ i + j < i + k
      BY <1>1, <1>4
    <3> QED
      BY <1>4, <1>8, <3>1 DEF InRow
  <2>2. \A k \in (i + 1)..Len(s) : k \in 1..Len(s) /\ i < k
    BY <1>1
  <2>3. Ahead({s[i]}, Of(t))
    BY <1>6, <1>8, <2>2 DEF InRow, Ahead, Later
  <2> QED
    BY <2>1, <2>3
<1>9. Len(t) <= Len(s)
  BY <1>1, <1>4
<1> QED
  BY <1>1, <1>3, <1>6, <1>7, <1>8, <1>9 DEF t

LEMMA OneLess ==
  ASSUME NEW S, NEW s \in Seq(S), s # <<>>
  PROVE  /\ Head(s) \in S /\ Tail(s) \in Seq(S) /\ Len(Tail(s)) = Len(s) - 1
         /\ Of(s) = {Head(s)} \cup Of(Tail(s))
         /\ InRow(s) => InRow(Tail(s)) /\ Ahead({Head(s)}, Of(Tail(s)))
<1> DEFINE t == Tail(s)
<1>1. /\ t \in Seq(S) /\ Len(t) = Len(s) - 1 /\ Len(s) \in Nat \ {0}
      /\ Head(s) = s[1] /\ Head(s) \in S
      /\ \A i \in 1..Len(t) : t[i] = s[i + 1]
  BY HeadTailProperties, EmptySeq, LenProperties
<1> HIDE DEF t
<1>2. \A i \in 1..Len(t) : i + 1 \in 1..Len(s) /\ 1 < i + 1 /\ t[i] = s[i + 1]
  BY <1>1
<1>3. \A i \in 1..Len(s) : i # 1 => i - 1 \in 1..Len(t) /\ t[i - 1] = s[i]
  BY <1>1
<1>4. 1 \in 1..Len(s)
  BY <1>1
<1>5. Of(s) = {s[1]} \cup Of(t)
  <2>1. ASSUME NEW x \in Of(s)
        PROVE  x = s[1] \/ x \in Of(t)
    BY <1>3, <2>1 DEF Of
  <2>2. s[1] \in Of(s)
    BY <1>4 DEF Of
  <2>3. ASSUME NEW x \in Of(t)
        PROVE  x \in Of(s)
    <3>1. PICK i \in 1..Len(t) : x = t[i]
      BY DEF Of
    <3>2. i + 1 \in 1..Len(s) /\ x = s[i + 1]
      BY <1>2, <3>1
    <3> QED
      BY <3>2 DEF Of
  <2> QED
    BY <2>1, <2>2, <2>3
<1>6. ASSUME InRow(s)
      PROVE  InRow(t) /\ Ahead({s[1]}, Of(t))
  <2>1. InRow(t)
    <3> SUFFICES ASSUME NEW j \in 1..Len(t), NEW k \in 1..Len(t), j < k
                 PROVE  Earlier(t[j], t[k])
      BY DEF InRow
    <3>1. j + 1 < k + 1
      BY <1>1
    <3> QED
      BY <1>2, <1>6, <3>1 DEF InRow
  <2>2. Ahead({s[1]}, Of(t))
    BY <1>2, <1>4, <1>6 DEF InRow, Ahead, Of
  <2> QED
    BY <2>1, <2>2
<1> QED
  BY <1>1, <1>5, <1>6 DEF t

Both(u, s, t) ==
  /\ Of(u) = Of(s) \cup Of(t)
  /\ InRow(s) /\ InRow(t) /\ Ahead(Of(s), Of(t)) => InRow(u)

LEMMA Joined ==
  ASSUME NEW S, NEW s \in Seq(S), NEW t \in Seq(S)
  PROVE  s \o t \in Seq(S) /\ Both(s \o t, s, t)
<1> DEFINE u == s \o t
<1>1. /\ u \in Seq(S) /\ Len(u) = Len(s) + Len(t) /\ Len(s) \in Nat /\ Len(t) \in Nat
      /\ \A i \in 1..Len(u) : u[i] = IF i <= Len(s) THEN s[i] ELSE t[i - Len(s)]
  BY ConcatProperties, LenProperties
<1> HIDE DEF u
<1>2. \A i \in 1..Len(s) : i \in 1..Len(u) /\ u[i] = s[i]
  BY <1>1
<1>3. \A i \in 1..Len(t) : Len(s) + i \in 1..Len(u) /\ u[Len(s) + i] = t[i]
  <2> SUFFICES ASSUME NEW i \in 1..Len(t)
               PROVE  Len(s) + i \in 1..Len(u) /\ u[Len(s) + i] = t[i]
    OBVIOUS
  <2>1. /\ Len(s) + i \in 1..Len(u) /\ ~ (Len(s) + i <= Len(s))
        /\ (Len(s) + i) - Len(s) = i
    BY <1>1
  <2> QED
    BY <1>1, <2>1
<1>4. \A i \in 1..Len(u) : i \notin 1..Len(s) => i - Len(s) \in 1..Len(t) /\ u[i] = t[i - Len(s)]
  BY <1>1
<1>5. Of(u) = Of(s) \cup Of(t)
  <2>1. ASSUME NEW x \in Of(u)
        PROVE  x \in Of(s) \/ x \in Of(t)
    BY <1>2, <1>4 DEF Of
  <2>2. ASSUME NEW x \in Of(s)
        PROVE  x \in Of(u)
    BY <1>2 DEF Of
  <2>3. ASSUME NEW x \in Of(t)
        PROVE  x \in Of(u)
    <3>1. PICK i \in 1..Len(t) : x = t[i]
      BY DEF Of
    <3>2. Len(s) + i \in 1..Len(u) /\ x = u[Len(s) + i]
      BY <1>3, <3>1
    <3> QED
      BY <3>2 DEF Of
  <2> QED
    BY <2>1, <2>2, <2>3
<1>6. ASSUME InRow(s), InRow(t), Ahead(Of(s), Of(t))
      PROVE  InRow(u)
  <2> SUFFICES ASSUME NEW i \in 1..Len(u), NEW j \in 1..Len(u), i < j
               PROVE  Earlier(u[i], u[j])
    BY DEF InRow
  <2>1. CASE i \in 1..Len(s) /\ j \in 1..Len(s)
    BY <1>2, <1>6, <2>1 DEF InRow
  <2>2. CASE i \in 1..Len(s) /\ j \notin 1..Len(s)
    BY <1>2, <1>4, <1>6, <2>2 DEF Ahead, Of
  <2>3. CASE i \notin 1..Len(s)
    <3>1. j \notin 1..Len(s) /\ i - Len(s) < j - Len(s)
      BY <1>1, <2>3
    <3> QED
      BY <1>4, <1>6, <2>3, <3>1 DEF InRow
  <2> QED
    BY <2>1, <2>2, <2>3
<1> QED
  BY <1>1, <1>5, <1>6 DEF u, Both

-----------------------------------------------------------------------------
LEMMA LogTypeInit ==
  ASSUME LogCollectorAssumption, Init
  PROVE  TypeOK
<1>1. /\ <<>> \in Seq(Pieces) /\ <<>> \in Seq(Entries) /\ Len(<<>>) = 0
      /\ ChanCap \in Nat /\ PipeCap \in Nat /\ MaxFaults \in Nat
      /\ \A f \in Logs : MaxLines[f] \in Nat
  BY EmptySeq DEF LogCollectorAssumption
<1>2. /\ written \in [Logs -> Nat] /\ (\A f \in Logs : written[f] <= MaxLines[f])
      /\ half \in [Logs -> BOOLEAN] /\ unread \in [Logs -> Seq(Pieces)]
  BY <1>1 DEF Init
<1>3. /\ file \in [Logs -> {"closed", "current", "renamed"}]
      /\ out \in [Logs -> Entries \cup {None}]
  BY DEF Init
<1>4. /\ logChan \in Seq(Entries) /\ Len(logChan) <= ChanCap
      /\ pipe \in Seq(Entries) /\ Len(pipe) <= PipeCap /\ faults \in 0..MaxFaults
  BY <1>1 DEF Init
<1>5. /\ conn \in {"none", "open", "broken"} /\ data \in Entries \cup {None}
      /\ up \in BOOLEAN /\ received \subseteq Entries /\ lost \subseteq Lines
  BY DEF Init
<1> QED
  BY <1>2, <1>3, <1>4, <1>5 DEF TypeOK

(* What a program appends is a piece of a line of the file.                 *)
LEMMA Wrote ==
  ASSUME LogCollectorAssumption, TypeOK, NEW f \in Logs, NEW n \in 1..MaxLines[f],
         NEW part \in {"whole", "head", "tail"}, Appended(f, n, part)
  PROVE  /\ [line |-> <<f, n>>, part |-> part] \in Pieces
         /\ unread' \in [Logs -> Seq(Pieces)] /\ lost' \subseteq Lines
<1> DEFINE x == [line |-> <<f, n>>, part |-> part]
<1>1. <<f, n>> \in Lines
  BY LineIs
<1>2. x \in Pieces
  BY <1>1 DEF Pieces
<1>3. /\ unread' = unread \/ unread' = [unread EXCEPT ![f] = Append(@, x)]
      /\ lost' = lost \/ lost' = lost \cup {<<f, n>>}
  BY DEF Appended
<1>4. unread[f] \in Seq(Pieces) /\ unread \in [Logs -> Seq(Pieces)] /\ lost \subseteq Lines
  BY DEF TypeOK
<1> HIDE DEF x
<1>5. Append(unread[f], x) \in Seq(Pieces)
  BY <1>2, <1>4, OneMore
<1>6. unread' \in [Logs -> Seq(Pieces)]
  BY <1>3, <1>4, <1>5
<1> QED
  BY <1>1, <1>2, <1>3, <1>4, <1>6 DEF x

(* What a goroutine reads is an entry, and what it leaves is what follows.  *)
LEMMA ReadsIs ==
  ASSUME LogCollectorAssumption, TypeOK, NEW f \in Logs, ReadLine(f)
  PROVE  \E i \in 1..Len(unread[f]) : \E e \in Entries :
           /\ unread[f][i].part # "head" /\ e.line = unread[f][i].line
           /\ \A j \in 1..(i - 1) : unread[f][j].part = "head"
           /\ out' = [out EXCEPT ![f] = e]
           /\ unread' = [unread EXCEPT ![f] = Rest(unread[f], i)]
<1>1. unread \in [Logs -> Seq(Pieces)] /\ unread[f] \in Seq(Pieces)
  BY DEF TypeOK
<1>2. PICK i \in 1..Len(unread[f]) :
        /\ unread[f][i].part # "head"
        /\ \A j \in 1..(i - 1) : unread[f][j].part = "head"
        /\ out' = [out EXCEPT ![f] =
             [line |-> unread[f][i].line,
              part |-> IF i = 1 THEN unread[f][i].part ELSE "whole"]]
        /\ unread' = [unread EXCEPT ![f] = Rest(unread[f], i)]
  BY <1>1 DEF ReadLine
<1>3. unread[f][i] \in Pieces
  BY <1>1, ElementOfSeq
<1> DEFINE e == [line |-> unread[f][i].line,
                 part |-> IF i = 1 THEN unread[f][i].part ELSE "whole"]
<1>4. e \in Entries
  BY <1>2, <1>3, EntryIs
<1> QED
  BY <1>2, <1>4

LEMMA LogTypeNext ==
  LogCollectorAssumption /\ TypeOK /\ Begun /\ [Next]_vars => TypeOK' /\ Begun'
<1> SUFFICES ASSUME LogCollectorAssumption, TypeOK, Begun, [Next]_vars
             PROVE  TypeOK' /\ Begun'
  OBVIOUS
<1> USE DEF fileVars, mainVars, peerVars
<1>1. /\ ChanCap \in Nat /\ PipeCap \in Nat /\ MaxFaults \in Nat
      /\ \A f \in Logs : MaxLines[f] \in Nat /\ written[f] \in Nat
      /\ logChan \in Seq(Entries) /\ pipe \in Seq(Entries)
      /\ Len(logChan) \in Nat /\ Len(pipe) \in Nat
      /\ <<>> \in Seq(Pieces) /\ <<>> \in Seq(Entries) /\ Len(<<>>) = 0
  BY EmptySeq, LenProperties DEF LogCollectorAssumption, TypeOK
<1>2. Fault => faults' \in 0..MaxFaults
  BY <1>1 DEF Fault, TypeOK
<1>3. ASSUME NEW f \in Logs, Write(f)
      PROVE  TypeOK' /\ Begun'
  <2>1. PICK part \in {"whole", "head"} :
          /\ half' = [half EXCEPT ![f] = (part = "head")]
          /\ Appended(f, written[f] + 1, part)
    BY <1>3 DEF Write
  <2>2. /\ written[f] < MaxLines[f] /\ written' = [written EXCEPT ![f] = @ + 1]
        /\ UNCHANGED <<file, out, logChan, mainVars, peerVars, faults>>
    BY <1>3 DEF Write
  <2>3. written[f] + 1 \in 1..MaxLines[f]
    BY <1>1, <2>2
  <2>4. unread' \in [Logs -> Seq(Pieces)] /\ lost' \subseteq Lines
    BY <2>1, <2>3, Wrote
  <2>5. written' \in [Logs -> Nat] /\ \A g \in Logs : written'[g] <= MaxLines[g]
    BY <1>1, <2>2, <2>3 DEF TypeOK
  <2>6. half' \in [Logs -> BOOLEAN]
    BY <2>1 DEF TypeOK
  <2>7. TypeOK'
    BY <2>2, <2>4, <2>5, <2>6 DEF TypeOK
  <2>8. \A g \in Logs : written'[g] = (IF g = f THEN written[f] + 1 ELSE written[g])
    BY <2>2 DEF TypeOK
  <2>9. \A g \in Logs : g # f => half'[g] = half[g]
    BY <2>1 DEF TypeOK
  <2> QED
    BY <1>1, <2>7, <2>8, <2>9 DEF Begun
<1>4. ASSUME NEW f \in Logs, WriteRest(f)
      PROVE  TypeOK' /\ Begun'
  <2>1. written[f] \in 1..MaxLines[f] /\ Appended(f, written[f], "tail")
    BY <1>1, <1>4 DEF WriteRest, TypeOK, Begun
  <2>2. unread' \in [Logs -> Seq(Pieces)] /\ lost' \subseteq Lines
    BY <2>1, Wrote
  <2> QED
    BY <1>4, <2>2 DEF WriteRest, TypeOK, Begun
<1>5. ASSUME NEW f \in Logs, Rotate(f)
      PROVE  TypeOK' /\ Begun'
  BY <1>2, <1>5 DEF Rotate, TypeOK, Begun
<1>6. ASSUME NEW f \in Logs, Open(f)
      PROVE  TypeOK' /\ Begun'
  BY <1>6 DEF Open, TypeOK, Begun
<1>7. ASSUME NEW f \in Logs, ReadLine(f)
      PROVE  TypeOK' /\ Begun'
  <2>1. PICK i \in 1..Len(unread[f]) : \E e \in Entries :
          out' = [out EXCEPT ![f] = e] /\ unread' = [unread EXCEPT ![f] = Rest(unread[f], i)]
    BY <1>7, ReadsIs
  <2>2. unread[f] \in Seq(Pieces)
    BY DEF TypeOK
  <2>3. Rest(unread[f], i) \in Seq(Pieces)
    BY <2>2, After
  <2>4. out' \in [Logs -> Entries \cup {None}] /\ unread' \in [Logs -> Seq(Pieces)]
    BY <2>1, <2>3 DEF TypeOK
  <2> QED
    BY <1>7, <2>4 DEF ReadLine, TypeOK, Begun
<1>8. ASSUME NEW f \in Logs, ReadEOF(f)
      PROVE  TypeOK' /\ Begun'
  <2>1. unread' \in [Logs -> Seq(Pieces)]
    BY <1>1, <1>8 DEF ReadEOF, TypeOK
  <2> QED
    BY <1>8, <2>1 DEF ReadEOF, TypeOK, Begun
<1>9. ASSUME NEW f \in Logs, ReadError(f)
      PROVE  TypeOK' /\ Begun'
  <2>1. unread' \in [Logs -> Seq(Pieces)] /\ file' \in [Logs -> {"closed", "current", "renamed"}]
    BY <1>1, <1>9 DEF ReadError, TypeOK
  <2>2. UnreadLines(f) \subseteq Lines
    <3>1. unread[f] \in Seq(Pieces)
      BY DEF TypeOK
    <3>2. \A i \in 1..Len(unread[f]) : unread[f][i] \in Pieces
      BY <3>1, ElementOfSeq
    <3> QED
      BY <3>2, EntryIs DEF UnreadLines
  <2>3. lost' \subseteq Lines
    BY <1>9, <2>2 DEF ReadError, TypeOK
  <2> QED
    BY <1>2, <1>9, <2>1, <2>3 DEF ReadError, TypeOK, Begun
<1>10. ASSUME NEW f \in Logs, Put(f)
       PROVE  TypeOK' /\ Begun'
  <2>1. out[f] \in Entries /\ Len(logChan) < ChanCap /\ logChan' = Append(logChan, out[f])
    BY <1>10 DEF Put, TypeOK
  <2>2. logChan' \in Seq(Entries) /\ Len(logChan') = Len(logChan) + 1
    BY <1>1, <2>1, OneMore
  <2>3. Len(logChan') <= ChanCap
    BY <1>1, <2>1, <2>2
  <2> QED
    BY <1>10, <2>2, <2>3 DEF Put, TypeOK, Begun
<1>11. CASE Dial
  BY <1>11 DEF Dial, TypeOK, Begun
<1>12. CASE Take
  <2>1. Head(logChan) \in Entries /\ Tail(logChan) \in Seq(Entries)
        /\ Len(Tail(logChan)) = Len(logChan) - 1
    BY <1>1, <1>12, OneLess DEF Take
  <2>2. Len(Tail(logChan)) <= ChanCap
    BY <1>1, <2>1 DEF TypeOK
  <2> QED
    BY <1>12, <2>1, <2>2 DEF Take, TypeOK, Begun
<1>13. CASE Sent
  <2>1. data \in Entries /\ Len(pipe) < PipeCap /\ pipe' = Append(pipe, data)
    BY <1>13 DEF Sent, TypeOK
  <2>2. pipe' \in Seq(Entries) /\ Len(pipe') = Len(pipe) + 1
    BY <1>1, <2>1, OneMore
  <2>3. Len(pipe') <= PipeCap
    BY <1>1, <2>1, <2>2
  <2> QED
    BY <1>13, <2>2, <2>3 DEF Sent, TypeOK, Begun
<1>14. CASE SendFails
  <2>1. data \in Entries
    BY <1>14 DEF SendFails, TypeOK
  <2>2. lost' \subseteq Lines
    BY <1>14, <2>1, EntryIs DEF SendFails, TypeOK
  <2> QED
    BY <1>14, <2>2 DEF SendFails, AfterFailure, TypeOK, Begun
<1>15. CASE Receive
  <2>1. Head(pipe) \in Entries /\ Tail(pipe) \in Seq(Entries) /\ Len(Tail(pipe)) = Len(pipe) - 1
    BY <1>1, <1>15, OneLess DEF Receive
  <2>2. Len(Tail(pipe)) <= PipeCap
    BY <1>1, <2>1 DEF TypeOK
  <2> QED
    BY <1>15, <2>1, <2>2 DEF Receive, TypeOK, Begun
<1>16. CASE Stop
  <2>1. conn' \in {"none", "open", "broken"} /\ up' \in BOOLEAN
    BY <1>16 DEF Stop, TypeOK
  <2>2. pipe' = <<>> /\ lost' = lost \cup {pipe[i].line : i \in 1..Len(pipe)}
        /\ UNCHANGED <<fileVars, out, logChan, data, received>>
    BY <1>16 DEF Stop
  <2>3. lost' \subseteq Lines
    <3>1. \A i \in 1..Len(pipe) : pipe[i] \in Entries
      BY <1>1, ElementOfSeq
    <3> QED
      BY <2>2, <3>1, EntryIs DEF TypeOK
  <2>4. pipe' \in Seq(Entries) /\ Len(pipe') <= PipeCap
    BY <1>1, <2>2
  <2>5. faults' \in 0..MaxFaults
    BY <1>2, <1>16 DEF Stop
  <2> QED
    BY <2>1, <2>2, <2>3, <2>4, <2>5 DEF TypeOK, Begun
<1>17. CASE Start
  BY <1>17 DEF Start, TypeOK, Begun
<1>18. CASE UNCHANGED vars
  BY <1>18 DEF vars, TypeOK, Begun
<1> QED
  BY <1>3, <1>4, <1>5, <1>6, <1>7, <1>8, <1>9, <1>10, <1>11, <1>12, <1>13, <1>14,
     <1>15, <1>16,
     <1>17, <1>18 DEF Next

-----------------------------------------------------------------------------
(* What a read leaves behind, and what a piece more does.                   *)
LEMMA Elements ==
  ASSUME TypeOK
  PROVE  /\ pipe \in Seq(Entries) /\ logChan \in Seq(Entries)
         /\ \A f \in Logs : unread[f] \in Seq(Pieces) /\ Of(unread[f]) \subseteq Pieces
         /\ Beyond \subseteq Entries /\ \A f \in Logs : OutOf(f) \subseteq Entries
         /\ \A f \in Logs : One(out[f]) \subseteq Entries
<1>1. /\ pipe \in Seq(Entries) /\ logChan \in Seq(Entries)
      /\ \A f \in Logs : unread[f] \in Seq(Pieces)
  BY DEF TypeOK
<1>2. Of(pipe) \subseteq Entries /\ Of(logChan) \subseteq Entries
  BY <1>1, ElementOfSeq DEF Of
<1>3. \A f \in Logs : Of(unread[f]) \subseteq Pieces
  BY <1>1, ElementOfSeq DEF Of
<1>4. One(data) \subseteq Entries /\ \A f \in Logs : One(out[f]) \subseteq Entries
  BY DEF One, TypeOK
<1>5. Beyond \subseteq Entries
  BY <1>2, <1>4 DEF Beyond, AtMain, AtPeer, TypeOK
<1> QED
  BY <1>1, <1>3, <1>4, <1>5 DEF OutOf

LEMMA InLineInit == Init => InLine
<1> SUFFICES ASSUME Init
             PROVE  InLine
  OBVIOUS
<1>1. /\ pipe = <<>> /\ logChan = <<>> /\ data = None /\ received = {}
      /\ \A f \in Logs : unread[f] = <<>> /\ out[f] = None
  BY DEF Init
<1>2. InRow(pipe) /\ InRow(logChan) /\ Of(pipe) = {} /\ Of(logChan) = {} /\ One(data) = {}
  BY <1>1, NothingOf DEF One
<1>3. \A f \in Logs : InRow(unread[f]) /\ Of(unread[f]) = {} /\ One(out[f]) = {}
  BY <1>1, NothingOf DEF One
<1> QED
  BY <1>1, <1>2, <1>3 DEF InLine, OfItsFile, Queues, Ahead

(* A piece appended to a file is behind all that is on its way.             *)
LEMMA InLineMore ==
  ASSUME TypeOK, InLine, NEW f \in Logs, NEW x \in Pieces, x.line[1] = f,
         Ahead(All(f), {x}), unread' = [unread EXCEPT ![f] = Append(unread[f], x)],
         UNCHANGED <<received, pipe, data, logChan, out>>
  PROVE  InLine'
<1>1. /\ Of(unread'[f]) = Of(unread[f]) \cup {x}
      /\ InRow(unread[f]) /\ Ahead(Of(unread[f]), {x}) => InRow(unread'[f])
  <2>1. unread[f] \in Seq(Pieces) /\ unread'[f] = Append(unread[f], x)
    BY DEF TypeOK
  <2>2. Longer(Append(unread[f], x), unread[f], x)
    BY <2>1, OneMore
  <2> QED
    BY <2>1, <2>2 DEF Longer
<1>2. \A g \in Logs : g # f => unread'[g] = unread[g]
  BY DEF TypeOK
<1>3. /\ Beyond' = Beyond /\ AtPeer' = AtPeer /\ AtMain' = AtMain
      /\ \A g \in Logs : OutOf(g)' = OutOf(g)
  BY DEF OutOf, Beyond, AtMain, AtPeer
<1>4. OfItsFile(f)' /\ Queues(f)'
  BY <1>1, <1>3 DEF InLine, OfItsFile, Queues, Ahead, All
<1>5. \A g \in Logs : g # f => OfItsFile(g)' /\ Queues(g)'
  BY <1>2, <1>3 DEF InLine, OfItsFile, Queues
<1> QED
  BY <1>3, <1>4, <1>5 DEF InLine

(* What is left of the pieces of a file, after an entry was read of it or   *)
(* none, keeps its place.                                                   *)
LEMMA InLineLess ==
  ASSUME TypeOK, InLine, NEW f \in Logs, NEW r \in Seq(Pieces),
         unread' = [unread EXCEPT ![f] = r], Of(r) \subseteq Of(unread[f]), InRow(r),
         UNCHANGED <<received, pipe, data, logChan>>,
         \/ out' = out
         \/ /\ \A x \in One(out'[f]) : x.line[1] = f
            /\ Ahead(Beyond, One(out'[f])) /\ Ahead(One(out'[f]), Of(r))
            /\ \A g \in Logs : g # f => out'[g] = out[g]
  PROVE  InLine'
<1>1. unread'[f] = r /\ \A g \in Logs : g # f => unread'[g] = unread[g] /\ out'[g] = out[g]
  BY DEF TypeOK
<1>2. Beyond' = Beyond /\ AtPeer' = AtPeer /\ AtMain' = AtMain
  BY DEF Beyond, AtMain, AtPeer
<1>3. Ahead(Beyond, Of(unread[f])) /\ Ahead(One(out[f]), Of(unread[f]))
  BY DEF InLine, Queues, OutOf, Ahead
<1>4. /\ \A x \in One(out'[f]) : x.line[1] = f
      /\ Ahead(Beyond, One(out'[f])) /\ Ahead(One(out'[f]), Of(r))
  BY <1>3 DEF InLine, OfItsFile, Queues, Ahead
<1>5. OutOf(f)' = Beyond \cup One(out'[f])
  BY <1>2 DEF OutOf
<1>6. OfItsFile(f)'
  BY <1>1, <1>4 DEF InLine, OfItsFile
<1>7. Queues(f)'
  BY <1>1, <1>2, <1>3, <1>4, <1>5 DEF Queues, Ahead
<1>8. \A g \in Logs : g # f => OfItsFile(g)' /\ Queues(g)'
  BY <1>1, <1>2 DEF InLine, OfItsFile, Queues, OutOf
<1> QED
  BY <1>2, <1>6, <1>7, <1>8 DEF InLine

LEMMA InLineNext ==
  LogCollectorAssumption /\ TypeOK /\ Begun /\ InLine /\ NotNewer /\ [Next]_vars => InLine'
<1> SUFFICES ASSUME LogCollectorAssumption, TypeOK, Begun, InLine, NotNewer, [Next]_vars
             PROVE  InLine'
  OBVIOUS
<1> USE DEF fileVars, mainVars, peerVars
<1>1. ASSUME UNCHANGED <<received, pipe, data, logChan, out, unread>>
      PROVE  InLine'
  BY <1>1 DEF InLine, OfItsFile, Queues, OutOf, Beyond, AtMain, AtPeer
<1>2. ASSUME NEW f \in Logs, NEW n \in 1..MaxLines[f], NEW part \in {"whole", "head", "tail"},
             Appended(f, n, part), UNCHANGED <<received, pipe, data, logChan, out>>,
             \A y \in All(f) : y.line[1] = f =>
               y.line[2] < n \/ (y.line[2] = n /\ y.part = "head" /\ part = "tail")
      PROVE  InLine'
  <2> DEFINE x == [line |-> <<f, n>>, part |-> part]
  <2>1. x \in Pieces
    BY <1>2, Wrote
  <2>2. x.line = <<f, n>> /\ x.line[1] = f /\ x.line[2] = n /\ x.part = part
    OBVIOUS
  <2>3. unread' = unread \/ unread' = [unread EXCEPT ![f] = Append(unread[f], x)]
    BY <1>2 DEF Appended, TypeOK
  <2> HIDE DEF x
  <2>4. Ahead(All(f), {x})
    BY <1>2, <2>2 DEF Ahead, Earlier
  <2>5. CASE unread' = unread
    BY <1>1, <1>2, <2>5
  <2>6. CASE unread' = [unread EXCEPT ![f] = Append(unread[f], x)]
    BY <1>2, <2>1, <2>2, <2>4, <2>6, InLineMore
  <2> QED
    BY <2>3, <2>5, <2>6
<1>3. ASSUME NEW f \in Logs, NEW y \in All(f), y.line[1] = f
      PROVE  /\ y.line[2] \in Nat /\ written[f] \in Nat /\ MaxLines[f] \in Nat
             /\ y.line[2] <= written[f]
             /\ half[f] /\ y.line[2] = written[f] => y.part = "head"
  <2>1. y \in Pieces
    BY Elements, EntryIs DEF All
  <2>2. y.line[2] \in Nat
    BY <2>1, EntryIs, LineIs
  <2> QED
    BY <1>3, <2>2 DEF NotNewer, UpTo, TypeOK, LogCollectorAssumption
<1>4. ASSUME NEW f \in Logs, Write(f)
      PROVE  InLine'
  <2>1. PICK part \in {"whole", "head"} : Appended(f, written[f] + 1, part)
    BY <1>4 DEF Write
  <2>2. written[f] + 1 \in 1..MaxLines[f]
    BY <1>4 DEF Write, TypeOK, LogCollectorAssumption
  <2>3. \A y \in All(f) : y.line[1] = f => y.line[2] < written[f] + 1
    BY <1>3
  <2>4. UNCHANGED <<received, pipe, data, logChan, out>>
    BY <1>4 DEF Write
  <2> QED
    BY <1>2, <2>1, <2>2, <2>3, <2>4
<1>5. ASSUME NEW f \in Logs, WriteRest(f)
      PROVE  InLine'
  <2>1. Appended(f, written[f], "tail") /\ half[f]
    BY <1>5 DEF WriteRest
  <2>2. written[f] \in 1..MaxLines[f]
    BY <2>1 DEF Begun, TypeOK, LogCollectorAssumption
  <2>3. \A y \in All(f) : y.line[1] = f =>
          y.line[2] < written[f] \/ (y.line[2] = written[f] /\ y.part = "head")
    BY <1>3, <2>1
  <2>4. UNCHANGED <<received, pipe, data, logChan, out>>
    BY <1>5 DEF WriteRest
  <2> QED
    BY <1>2, <2>1, <2>2, <2>3, <2>4
<1>6. ASSUME NEW f \in Logs, Rotate(f)
      PROVE  InLine'
  BY <1>1, <1>6 DEF Rotate
<1>7. ASSUME NEW f \in Logs, Open(f)
      PROVE  InLine'
  BY <1>1, <1>7 DEF Open
<1>8. ASSUME NEW f \in Logs, ReadLine(f)
      PROVE  InLine'
  <2>1. PICK i \in 1..Len(unread[f]), e \in Entries :
          /\ unread[f][i].part # "head" /\ e.line = unread[f][i].line
          /\ out' = [out EXCEPT ![f] = e]
          /\ unread' = [unread EXCEPT ![f] = Rest(unread[f], i)]
    BY <1>8, ReadsIs
  <2> DEFINE x == unread[f][i]
             r == Rest(unread[f], i)
  <2>2. unread[f] \in Seq(Pieces) /\ InRow(unread[f])
    BY DEF TypeOK, InLine, Queues
  <2>3. /\ r \in Seq(Pieces) /\ InRow(r) /\ Ahead({x}, Of(r))
        /\ x \in Pieces /\ x \in Of(unread[f]) /\ Of(r) \subseteq Of(unread[f])
    BY <2>2, After
  <2>4. out'[f] = e /\ (\A g \in Logs : g # f => out'[g] = out[g]) /\ One(out'[f]) = {e}
    BY <2>1 DEF TypeOK, One, LogCollectorAssumption
  <2>5. Beyond \subseteq Entries /\ Ahead(Beyond, {x}) /\ x.line[1] = f
    BY <2>3, Elements DEF InLine, Queues, OfItsFile, OutOf, Ahead
  <2> HIDE DEF x, r
  <2>6. x.part # "head" /\ e.line = x.line /\ \A y \in Beyond : y.part # "head"
    BY <2>1, <2>5, EntryIs DEF x
  <2>7. Ahead(Beyond, {e})
    BY <2>5, <2>6 DEF Ahead, Earlier
  <2>8. Ahead({e}, Of(r))
    BY <2>3, <2>6 DEF Ahead, Earlier
  <2>9. unread' = [unread EXCEPT ![f] = r] /\ UNCHANGED <<received, pipe, data, logChan>>
    BY <1>8, <2>1 DEF ReadLine, r
  <2>10. \A y \in One(out'[f]) : y.line[1] = f
    BY <2>4, <2>5, <2>6
  <2> QED
    BY <2>3, <2>4, <2>7, <2>8, <2>9, <2>10, InLineLess
<1>9. ASSUME NEW f \in Logs, unread' = [unread EXCEPT ![f] = <<>>],
             UNCHANGED <<received, pipe, data, logChan, out>>
      PROVE  InLine'
  <2>1. <<>> \in Seq(Pieces) /\ Of(<<>>) \subseteq Of(unread[f]) /\ InRow(<<>>)
    BY EmptySeq, NothingOf
  <2> QED
    BY <1>9, <2>1, InLineLess
<1>10. ASSUME NEW f \in Logs, ReadEOF(f)
       PROVE  InLine'
  BY <1>9, <1>10 DEF ReadEOF
<1>11. ASSUME NEW f \in Logs, ReadError(f)
       PROVE  InLine'
  BY <1>9, <1>11 DEF ReadError
<1>12. ASSUME NEW f \in Logs, Put(f)
       PROVE  InLine'
  <2>1. /\ out[f] # None /\ logChan' = Append(logChan, out[f])
        /\ out' = [out EXCEPT ![f] = None] /\ out[f] \in Entries
        /\ UNCHANGED <<received, pipe, data, unread>>
    BY <1>12 DEF Put, TypeOK
  <2> DEFINE o == out[f]
  <2>2. One(out[f]) = {o} /\ o.line[1] = f
    BY <2>1 DEF One, InLine, OfItsFile
  <2>3. out'[f] = None /\ One(out'[f]) = {} /\ \A g \in Logs : g # f => out'[g] = out[g]
    BY <2>1 DEF One, TypeOK
  <2>4. /\ Ahead(Beyond, {o}) /\ Ahead(AtMain, {o}) /\ Ahead(Of(logChan), {o})
        /\ Ahead({o}, Of(unread[f]))
    BY <2>2 DEF InLine, Queues, OutOf, Beyond, Ahead
  <2>5. Of(logChan') = Of(logChan) \cup {o} /\ InRow(logChan')
    <3>1. Longer(Append(logChan, o), logChan, o)
      BY <2>1, Elements, OneMore
    <3> QED
      BY <2>1, <2>4, <3>1 DEF InLine, Longer
  <2> HIDE DEF o
  <2>6. AtPeer' = AtPeer /\ AtMain' = AtMain /\ Beyond' = Beyond \cup {o}
    BY <2>1, <2>5 DEF Beyond, AtMain, AtPeer
  <2>7. Ahead(AtMain', Of(logChan'))
    BY <2>4, <2>5, <2>6 DEF InLine, Ahead
  <2>8. OfItsFile(f)' /\ Queues(f)'
    <3>1. OutOf(f)' = OutOf(f)
      BY <2>2, <2>3, <2>6 DEF OutOf
    <3> QED
      BY <2>1, <2>3, <3>1 DEF InLine, OfItsFile, Queues, Ahead
  <2>9. ASSUME NEW g \in Logs, g # f
        PROVE  OfItsFile(g)' /\ Queues(g)'
    <3>1. out'[g] = out[g] /\ unread' = unread
      BY <2>1, <2>3, <2>9
    <3>2. OfItsFile(g) /\ Queues(g)
      BY DEF InLine
    <3>3. OfItsFile(g)'
      BY <3>1, <3>2 DEF OfItsFile
    <3>4. Ahead({o}, One(out[g])) /\ Ahead({o}, Of(unread[g]))
      BY <2>2, <2>9, <3>2 DEF OfItsFile, Ahead, Earlier
    <3>5. OutOf(g)' = OutOf(g) \cup {o}
      BY <2>6, <3>1 DEF OutOf
    <3>6. Queues(g)'
      BY <2>6, <3>1, <3>2, <3>4, <3>5 DEF Queues, Ahead
    <3> QED
      BY <3>3, <3>6
  <2> QED
    BY <2>1, <2>5, <2>6, <2>7, <2>8, <2>9 DEF InLine
(* A step of the shared part keeps the files behind it.                     *)
<1>13. ASSUME Beyond' \subseteq Beyond, UNCHANGED <<out, unread>>,
              InRow(pipe'), InRow(logChan'), Ahead(received', Of(pipe')),
              Ahead(AtPeer', One(data')), Ahead(AtMain', Of(logChan'))
       PROVE  InLine'
  <2>1. \A f \in Logs : OfItsFile(f) /\ Queues(f)
    BY DEF InLine
  <2>2. \A f \in Logs : OfItsFile(f)'
    BY <1>13, <2>1 DEF OfItsFile
  <2>3. \A f \in Logs : OutOf(f)' \subseteq OutOf(f)
    BY <1>13 DEF OutOf
  <2>4. \A f \in Logs : Queues(f)'
    BY <1>13, <2>1, <2>3 DEF Queues, Ahead
  <2> QED
    BY <1>13, <2>2, <2>4 DEF InLine
<1>14. CASE Dial
  BY <1>1, <1>14 DEF Dial
<1>15. CASE Take
  <2>1. /\ data = None /\ logChan # <<>> /\ data' = Head(logChan) /\ logChan' = Tail(logChan)
        /\ UNCHANGED <<received, pipe, out, unread>>
    BY <1>15 DEF Take
  <2> DEFINE x == Head(logChan)
  <2>2. /\ Of(logChan) = {x} \cup Of(logChan') /\ x \in Entries
        /\ InRow(logChan') /\ Ahead({x}, Of(logChan'))
    BY <2>1, Elements, OneLess DEF InLine
  <2> HIDE DEF x
  <2>3. One(data) = {} /\ One(data') = {x}
    BY <2>1, <2>2 DEF One, LogCollectorAssumption, x
  <2>4. AtPeer' = AtPeer /\ AtMain = AtPeer /\ AtMain' = AtPeer \cup {x} /\ Beyond' = Beyond
    BY <2>1, <2>2, <2>3 DEF Beyond, AtMain, AtPeer
  <2>5. Ahead(AtPeer', One(data')) /\ Ahead(AtMain', Of(logChan'))
    BY <2>2, <2>3, <2>4 DEF InLine, Ahead
  <2>6. InRow(pipe') /\ Ahead(received', Of(pipe'))
    BY <2>1 DEF InLine
  <2> QED
    BY <1>13, <2>1, <2>2, <2>4, <2>5, <2>6
<1>16. CASE Sent
  <2>1. /\ data # None /\ data \in Entries /\ pipe' = Append(pipe, data) /\ data' = None
        /\ UNCHANGED <<received, logChan, out, unread>>
    BY <1>16 DEF Sent, TypeOK
  <2>2. One(data) = {data} /\ One(data') = {}
    BY <2>1 DEF One
  <2>3. Ahead(received, {data}) /\ Ahead(Of(pipe), {data})
    BY <2>2 DEF InLine, AtPeer, Ahead
  <2>4. Of(pipe') = Of(pipe) \cup {data} /\ InRow(pipe')
    <3>1. Longer(Append(pipe, data), pipe, data)
      BY <2>1, Elements, OneMore
    <3> QED
      BY <2>1, <2>3, <3>1 DEF InLine, Longer
  <2>5. AtMain' = AtMain /\ Beyond' = Beyond
    BY <2>1, <2>2, <2>4 DEF Beyond, AtMain, AtPeer
  <2>6. Ahead(received', Of(pipe'))
    BY <2>1, <2>3, <2>4 DEF InLine, Ahead
  <2>7. Ahead(AtPeer', One(data')) /\ Ahead(AtMain', Of(logChan')) /\ InRow(logChan')
    BY <2>1, <2>2, <2>5 DEF InLine, Ahead
  <2> QED
    BY <1>13, <2>1, <2>4, <2>5, <2>6, <2>7
<1>17. CASE SendFails
  <2>1. data' = None /\ UNCHANGED <<received, pipe, logChan, out, unread>>
    BY <1>17 DEF SendFails, AfterFailure
  <2>2. One(data') = {}
    BY <2>1 DEF One
  <2>3. AtPeer' = AtPeer /\ AtMain' \subseteq AtMain /\ Beyond' \subseteq Beyond
    BY <2>1, <2>2 DEF Beyond, AtMain, AtPeer
  <2>4. /\ Ahead(AtPeer', One(data')) /\ Ahead(AtMain', Of(logChan'))
        /\ Ahead(received', Of(pipe')) /\ InRow(pipe') /\ InRow(logChan')
    BY <2>1, <2>2, <2>3 DEF InLine, Ahead
  <2> QED
    BY <1>13, <2>1, <2>3, <2>4
<1>18. CASE Receive
  <2>1. /\ pipe # <<>> /\ received' = received \cup {Head(pipe)} /\ pipe' = Tail(pipe)
        /\ UNCHANGED <<data, logChan, out, unread>>
    BY <1>18 DEF Receive
  <2> DEFINE x == Head(pipe)
  <2>2. /\ Of(pipe) = {x} \cup Of(pipe') /\ InRow(pipe') /\ Ahead({x}, Of(pipe'))
    BY <2>1, Elements, OneLess DEF InLine
  <2>3. received' = received \cup {x}
    BY <2>1
  <2> HIDE DEF x
  <2>4. AtPeer' = AtPeer /\ AtMain' = AtMain /\ Beyond' = Beyond
    BY <2>1, <2>2, <2>3 DEF Beyond, AtMain, AtPeer
  <2>5. Ahead(received', Of(pipe'))
    BY <2>2, <2>3 DEF InLine, Ahead
  <2>6. Ahead(AtPeer', One(data')) /\ Ahead(AtMain', Of(logChan')) /\ InRow(logChan')
    BY <2>1, <2>4 DEF InLine
  <2> QED
    BY <1>13, <2>1, <2>2, <2>4, <2>5, <2>6
<1>19. CASE Stop
  <2>1. pipe' = <<>> /\ UNCHANGED <<received, data, logChan, out, unread>>
    BY <1>19 DEF Stop
  <2>2. Of(pipe') = {} /\ InRow(pipe')
    BY <2>1, NothingOf
  <2>3. AtPeer' \subseteq AtPeer /\ AtMain' \subseteq AtMain /\ Beyond' \subseteq Beyond
    BY <2>1, <2>2 DEF Beyond, AtMain, AtPeer
  <2>4. /\ Ahead(AtPeer', One(data')) /\ Ahead(AtMain', Of(logChan'))
        /\ Ahead(received', Of(pipe')) /\ InRow(logChan')
    BY <2>1, <2>2, <2>3 DEF InLine, Ahead
  <2> QED
    BY <1>13, <2>1, <2>2, <2>3, <2>4
<1>20. CASE Start
  BY <1>1, <1>20 DEF Start
<1>21. CASE UNCHANGED vars
  BY <1>1, <1>21 DEF vars
<1> QED
  BY <1>4, <1>5, <1>6, <1>7, <1>8, <1>10, <1>11, <1>12, <1>14, <1>15, <1>16, <1>17,
     <1>18,
     <1>19, <1>20, <1>21 DEF Next

-----------------------------------------------------------------------------
(* A step that brings no piece of a newer line of a file, and of no line    *)
(* the end that was not there, nor takes an end away that it does not lose. *)
Keeps(f) ==
  /\ written'[f] = written[f] /\ half'[f] = half[f] /\ lost \subseteq lost'
  /\ \A x \in All(f)' : x.line[1] = f =>
       \E y \in All(f) : y.line = x.line /\ (y.part = "head" => x.part = "head")
  /\ \A x \in All(f) : x.line[1] = f /\ x.part # "head" =>
       x.line \in lost' \/ \E y \in All(f)' : y.line = x.line /\ y.part # "head"

LEMMA KeepsMeans ==
  ASSUME NEW f \in Logs, Keeps(f), \A x \in All(f) : UpTo(f, x),
         \A n \in 1..written[f] : Settled(f, n)
  PROVE  /\ \A x \in All(f)' : UpTo(f, x)'
         /\ \A n \in 1..written'[f] : Settled(f, n)'
<1>1. ASSUME NEW x \in All(f)'
      PROVE  UpTo(f, x)'
  <2> SUFFICES ASSUME x.line[1] = f
               PROVE  /\ x.line[2] <= written'[f]
                      /\ half'[f] /\ x.line[2] = written'[f] => x.part = "head"
    BY DEF UpTo
  <2>1. PICK y \in All(f) : y.line = x.line /\ (y.part = "head" => x.part = "head")
    BY DEF Keeps
  <2> QED
    BY <2>1 DEF UpTo, Keeps
<1>2. ASSUME NEW n \in 1..written'[f]
      PROVE  Settled(f, n)'
  <2>1. n \in 1..written[f] /\ Settled(f, n)
    BY DEF Keeps
  <2>2. CASE <<f, n>> \in lost \/ (n = written[f] /\ half[f])
    BY <2>2 DEF Keeps, Settled
  <2>3. CASE \E x \in All(f) : x.line = <<f, n>> /\ x.part # "head"
    <3>1. PICK x \in All(f) : x.line = <<f, n>> /\ x.part # "head"
      BY <2>3
    <3>2. x.line[1] = f
      BY <3>1
    <3>3. x.line \in lost' \/ \E y \in All(f)' : y.line = x.line /\ y.part # "head"
      BY <3>1, <3>2 DEF Keeps
    <3> QED
      BY <3>1, <3>3 DEF Settled
  <2> QED
    BY <2>1, <2>2, <2>3 DEF Settled
<1> QED
  BY <1>1, <1>2

(* Of every file but one that a program writes to.                          *)
LEMMA Kept ==
  ASSUME LogCollectorAssumption, TypeOK, InLine, [Next]_vars, NEW f \in Logs
  PROVE  Keeps(f) \/ Write(f) \/ WriteRest(f)
<1> USE DEF fileVars, mainVars, peerVars
<1>1. ASSUME All(f)' = All(f), written'[f] = written[f], half'[f] = half[f], lost \subseteq lost'
      PROVE  Keeps(f)
  BY <1>1 DEF Keeps
<1>2. ASSUME UNCHANGED <<received, pipe, data, logChan, out, unread>>, UNCHANGED <<written, half>>,
             lost \subseteq lost'
      PROVE  Keeps(f)
  <2>1. All(f)' = All(f)
    BY <1>2 DEF All, OutOf, Beyond, AtMain, AtPeer
  <2> QED
    BY <1>1, <1>2, <2>1
<1>3. ASSUME NEW g \in Logs, Write(g) \/ WriteRest(g), g # f
      PROVE  Keeps(f)
  <2>1. \A n, part : Appended(g, n, part) => unread'[f] = unread[f] /\ lost \subseteq lost'
    BY <1>3 DEF Appended, TypeOK
  <2>2. unread'[f] = unread[f] /\ lost \subseteq lost'
    BY <1>3, <2>1 DEF Write, WriteRest
  <2>3. written'[f] = written[f] /\ half'[f] = half[f]
    BY <1>3 DEF Write, WriteRest, TypeOK
  <2>4. UNCHANGED <<received, pipe, data, logChan, out>>
    BY <1>3 DEF Write, WriteRest
  <2>5. All(f)' = All(f)
    BY <2>2, <2>4 DEF All, OutOf, Beyond, AtMain, AtPeer
  <2> QED
    BY <1>1, <2>2, <2>3, <2>5
<1>4. ASSUME NEW g \in Logs, ReadLine(g)
      PROVE  Keeps(f)
  <2>1. PICK i \in 1..Len(unread[g]), e \in Entries :
          /\ unread[g][i].part # "head" /\ e.line = unread[g][i].line
          /\ \A j \in 1..(i - 1) : unread[g][j].part = "head"
          /\ out' = [out EXCEPT ![g] = e]
          /\ unread' = [unread EXCEPT ![g] = Rest(unread[g], i)]
    BY <1>4, ReadsIs
  <2>2. UNCHANGED <<received, pipe, data, logChan>> /\ UNCHANGED <<written, half, lost>>
        /\ out[g] = None
    BY <1>4 DEF ReadLine
  <2>3. Beyond' = Beyond
    BY <2>2 DEF Beyond, AtMain, AtPeer
  <2>4. CASE g # f
    <3>1. out'[f] = out[f] /\ unread'[f] = unread[f]
      BY <2>1, <2>4 DEF TypeOK
    <3>2. All(f)' = All(f)
      BY <2>3, <3>1 DEF All, OutOf
    <3> QED
      BY <1>1, <2>2, <3>2
  <2>5. CASE g = f
    <3> DEFINE x == unread[f][i]
               r == Rest(unread[f], i)
    <3>1. unread[f] \in Seq(Pieces) /\ Len(unread[f]) \in Nat /\ i \in Nat
      BY <2>5, LenProperties DEF TypeOK
    <3>2. /\ x \in Of(unread[f]) /\ Of(r) \subseteq Of(unread[f])
          /\ Of(r) = Later(unread[f], i)
      <4>1. i \in 1..Len(unread[f])
        BY <2>5
      <4> QED
        BY <3>1, <4>1, After
    <3>3. out'[f] = e /\ unread'[f] = r
      BY <2>1, <2>5 DEF TypeOK
    <3>4. One(out[f]) = {} /\ One(out'[f]) = {e}
      BY <2>2, <2>5, <3>3 DEF One, LogCollectorAssumption
    <3>5. ASSUME NEW y \in Of(unread[f]), y.part # "head"
          PROVE  y = x \/ y \in Of(r)
      <4>1. PICK j \in 1..Len(unread[f]) : y = unread[f][j]
        BY DEF Of
      <4>2. j \notin 1..(i - 1)
        BY <2>1, <2>5, <3>5, <4>1
      <4>3. j = i \/ j \in (i + 1)..Len(unread[f])
        BY <3>1, <4>1, <4>2
      <4> QED
        BY <3>2, <4>1, <4>3 DEF Later
    <3>6. x.part # "head" /\ e.line = x.line /\ e.part # "head"
      BY <2>1, <2>5, EntryIs
    <3> HIDE DEF x, r
    <3>7. All(f) = Beyond \cup Of(unread[f]) /\ All(f)' = Beyond \cup {e} \cup Of(r)
      BY <2>3, <3>3, <3>4 DEF All, OutOf
    <3>8. \A y \in All(f)' :
            \E z \in All(f) : z.line = y.line /\ (z.part = "head" => y.part = "head")
      BY <3>2, <3>6, <3>7
    <3>9. \A y \in All(f) : y.part # "head" =>
            \E z \in All(f)' : z.line = y.line /\ z.part # "head"
      BY <3>5, <3>6, <3>7
    <3> QED
      BY <2>2, <3>8, <3>9 DEF Keeps
  <2> QED
    BY <2>4, <2>5
<1>5. ASSUME NEW g \in Logs, UNCHANGED <<received, pipe, data, logChan, out, written, half>>,
             unread' = [unread EXCEPT ![g] = <<>>], lost \subseteq lost',
             \A y \in Of(unread[g]) : y.part = "head" \/ y.line \in lost'
      PROVE  Keeps(f)
  <2>1. CASE g # f
    <3>1. unread'[f] = unread[f]
      BY <1>5, <2>1 DEF TypeOK
    <3>2. All(f)' = All(f)
      BY <1>5, <3>1 DEF All, OutOf, Beyond, AtMain, AtPeer
    <3> QED
      BY <1>1, <1>5, <3>2
  <2>2. CASE g = f
    <3>1. Of(unread'[f]) = {}
      BY <1>5, <2>2, NothingOf DEF TypeOK
    <3>2. All(f) = OutOf(f) \cup Of(unread[f]) /\ All(f)' = OutOf(f)
      BY <1>5, <3>1 DEF All, OutOf, Beyond, AtMain, AtPeer
    <3> QED
      BY <1>5, <2>2, <3>2 DEF Keeps
  <2> QED
    BY <2>1, <2>2
<1>6. ASSUME NEW g \in Logs, ReadEOF(g)
      PROVE  Keeps(f)
  BY <1>5, <1>6 DEF ReadEOF, Of
<1>7. ASSUME NEW g \in Logs, ReadError(g)
      PROVE  Keeps(f)
  <2>1. \A y \in Of(unread[g]) : y.line \in UnreadLines(g)
    BY DEF Of, UnreadLines
  <2> QED
    BY <1>5, <1>7, <2>1 DEF ReadError
<1>8. ASSUME NEW g \in Logs, Put(g)
      PROVE  Keeps(f)
  <2>1. /\ out[g] # None /\ logChan' = Append(logChan, out[g])
        /\ out' = [out EXCEPT ![g] = None] /\ out[g] \in Entries
        /\ UNCHANGED <<received, pipe, data, unread, written, half, lost>>
    BY <1>8 DEF Put, TypeOK
  <2>2. Of(logChan') = Of(logChan) \cup {out[g]}
    <3>1. Longer(Append(logChan, out[g]), logChan, out[g])
      BY <2>1, Elements, OneMore
    <3> QED
      BY <2>1, <3>1 DEF Longer
  <2>3. Beyond' = Beyond \cup {out[g]}
    BY <2>1, <2>2 DEF Beyond, AtMain, AtPeer
  <2>4. CASE g = f
    <3>1. One(out[f]) = {out[g]} /\ One(out'[f]) = {}
      BY <2>1, <2>4 DEF One, TypeOK
    <3>2. All(f)' = All(f)
      BY <2>1, <2>3, <3>1 DEF All, OutOf
    <3> QED
      BY <1>1, <2>1, <3>2
  <2>5. CASE g # f
    <3>1. out'[f] = out[f] /\ out[g].line[1] # f
      BY <2>1, <2>5 DEF InLine, OfItsFile, One, TypeOK
    <3>2. All(f)' = All(f) \cup {out[g]}
      BY <2>1, <2>3, <3>1 DEF All, OutOf
    <3> QED
      BY <2>1, <3>1, <3>2 DEF Keeps
  <2> QED
    BY <2>4, <2>5
(* A step of the shared part.                                               *)
<1>9. ASSUME UNCHANGED <<out, unread, written, half>>, lost \subseteq lost',
             Beyond' \subseteq Beyond, \A x \in Beyond : x \in Beyond' \/ x.line \in lost'
      PROVE  Keeps(f)
  <2>1. /\ All(f) = Beyond \cup (One(out[f]) \cup Of(unread[f]))
        /\ All(f)' = Beyond' \cup (One(out[f]) \cup Of(unread[f]))
    BY <1>9 DEF All, OutOf
  <2> QED
    BY <1>9, <2>1 DEF Keeps
<1>10. CASE Take
  <2>1. /\ data = None /\ logChan # <<>> /\ data' = Head(logChan) /\ logChan' = Tail(logChan)
        /\ UNCHANGED <<received, pipe, out, unread, written, half, lost>>
    BY <1>10 DEF Take
  <2>2. Of(logChan) = {Head(logChan)} \cup Of(logChan') /\ Head(logChan) \in Entries
    BY <2>1, Elements, OneLess
  <2>3. One(data) = {} /\ One(data') = {Head(logChan)}
    BY <2>1, <2>2 DEF One, LogCollectorAssumption
  <2>4. Beyond' = Beyond
    BY <2>1, <2>2, <2>3 DEF Beyond, AtMain, AtPeer
  <2> QED
    BY <1>9, <2>1, <2>4
<1>11. CASE Sent
  <2>1. /\ data # None /\ data \in Entries /\ pipe' = Append(pipe, data) /\ data' = None
        /\ UNCHANGED <<received, logChan, out, unread, written, half, lost>>
    BY <1>11 DEF Sent, TypeOK
  <2>2. One(data) = {data} /\ One(data') = {}
    BY <2>1 DEF One
  <2>3. Of(pipe') = Of(pipe) \cup {data}
    <3>1. Longer(Append(pipe, data), pipe, data)
      BY <2>1, Elements, OneMore
    <3> QED
      BY <2>1, <3>1 DEF Longer
  <2>4. Beyond' = Beyond
    BY <2>1, <2>2, <2>3 DEF Beyond, AtMain, AtPeer
  <2> QED
    BY <1>9, <2>1, <2>4
<1>12. CASE SendFails
  <2>1. /\ data # None /\ data' = None /\ lost' = lost \cup {data.line}
        /\ UNCHANGED <<received, pipe, logChan, out, unread, written, half>>
    BY <1>12 DEF SendFails, AfterFailure
  <2>2. One(data) = {data} /\ One(data') = {}
    BY <2>1 DEF One
  <2>3. Beyond = Beyond' \cup {data}
    BY <2>1, <2>2 DEF Beyond, AtMain, AtPeer
  <2> QED
    BY <1>9, <2>1, <2>3
<1>13. CASE Receive
  <2>1. /\ pipe # <<>> /\ received' = received \cup {Head(pipe)} /\ pipe' = Tail(pipe)
        /\ UNCHANGED <<data, logChan, out, unread, written, half, lost>>
    BY <1>13 DEF Receive
  <2>2. Of(pipe) = {Head(pipe)} \cup Of(pipe')
    BY <2>1, Elements, OneLess
  <2>3. Beyond' = Beyond
    BY <2>1, <2>2 DEF Beyond, AtMain, AtPeer
  <2> QED
    BY <1>9, <2>1, <2>3
<1>14. CASE Stop
  <2>1. /\ pipe' = <<>> /\ lost' = lost \cup {pipe[i].line : i \in 1..Len(pipe)}
        /\ UNCHANGED <<received, data, logChan, out, unread, written, half>>
    BY <1>14 DEF Stop
  <2>2. Of(pipe') = {} /\ \A x \in Of(pipe) : x.line \in lost'
    BY <2>1, NothingOf DEF Of
  <2>3. Beyond = Beyond' \cup Of(pipe)
    BY <2>1, <2>2 DEF Beyond, AtMain, AtPeer
  <2> QED
    BY <1>9, <2>1, <2>2, <2>3
<1>15. ASSUME NEW g \in Logs, Rotate(g) \/ Open(g)
       PROVE  Keeps(f)
  BY <1>2, <1>15 DEF Rotate, Open
<1>16. CASE Dial \/ Start \/ UNCHANGED vars
  BY <1>2, <1>16 DEF Dial, Start, vars
<1> QED
  BY <1>3, <1>4, <1>6, <1>7, <1>8, <1>10, <1>11, <1>12, <1>13, <1>14, <1>15, <1>16
     DEF Next

(* What a program writes is added to what there is of the file, or is lost. *)
LEMMA Added ==
  ASSUME LogCollectorAssumption, TypeOK, NEW f \in Logs, NEW n \in 1..MaxLines[f],
         NEW part \in {"whole", "head", "tail"}, Appended(f, n, part),
         UNCHANGED <<received, pipe, data, logChan, out>>, NEW x,
         x = [line |-> <<f, n>>, part |-> part]
  PROVE  /\ lost \subseteq lost' /\ All(f) \subseteq All(f)'
         /\ \A y \in All(f)' : y \in All(f) \/ y = x
         /\ <<f, n>> \in lost' \/ x \in All(f)'
<1>1. x \in Pieces
  BY Wrote
<1>2. OutOf(f)' = OutOf(f)
  BY DEF OutOf, Beyond, AtMain, AtPeer
<1>3. All(f) = OutOf(f) \cup Of(unread[f]) /\ All(f)' = OutOf(f) \cup Of(unread'[f])
  BY <1>2 DEF All
<1>4. unread[f] \in Seq(Pieces)
  BY DEF TypeOK
<1>5. CASE file[f] = "current"
  <2>1. unread'[f] = Append(unread[f], x) /\ lost' = lost
    BY <1>5 DEF Appended, TypeOK
  <2>2. Longer(Append(unread[f], x), unread[f], x)
    BY <1>1, <1>4, OneMore
  <2> QED
    BY <1>3, <2>1, <2>2 DEF Longer
<1>6. CASE file[f] # "current"
  <2>1. unread' = unread /\ lost' = lost \cup {<<f, n>>}
    BY <1>6 DEF Appended
  <2> QED
    BY <1>3, <2>1
<1> QED
  BY <1>5, <1>6

LEMMA Newest ==
  ASSUME LogCollectorAssumption, TypeOK, Begun, NEW f \in Logs, Write(f) \/ WriteRest(f),
         \A x \in All(f) : UpTo(f, x), \A n \in 1..written[f] : Settled(f, n)
  PROVE  /\ \A x \in All(f)' : UpTo(f, x)'
         /\ \A n \in 1..written'[f] : Settled(f, n)'
<1>1. written[f] \in Nat /\ half[f] \in BOOLEAN /\ MaxLines[f] \in Nat
  BY DEF TypeOK, LogCollectorAssumption
<1>2. CASE Write(f)
  <2>1. PICK part \in {"whole", "head"} :
          half' = [half EXCEPT ![f] = (part = "head")] /\ Appended(f, written[f] + 1, part)
    BY <1>2 DEF Write
  <2>2. ~ half[f] /\ written'[f] = written[f] + 1 /\ (half'[f] <=> part = "head")
    BY <1>2, <2>1 DEF Write, TypeOK
  <2>3. UNCHANGED <<received, pipe, data, logChan, out>>
    BY <1>2 DEF Write, mainVars, peerVars
  <2>4. written[f] + 1 \in 1..MaxLines[f] /\ written[f] + 1 # written[f]
    BY <1>1, <1>2 DEF Write
  <2>5. PICK n \in 1..MaxLines[f] : n = written[f] + 1
    BY <2>4
  <2>6. PICK x : x = [line |-> <<f, n>>, part |-> part]
    OBVIOUS
  <2>7. /\ lost \subseteq lost' /\ All(f) \subseteq All(f)'
        /\ \A y \in All(f)' : y \in All(f) \/ y = x
        /\ <<f, n>> \in lost' \/ x \in All(f)'
    BY <2>1, <2>3, <2>5, <2>6, Added
  <2>8. x.line = <<f, n>> /\ x.line[1] = f /\ x.line[2] = n /\ x.part = part
    BY <2>6
  <2>9. ASSUME NEW y \in All(f)', y.line[1] = f
        PROVE  y.line[2] <= written'[f] /\ (half'[f] /\ y.line[2] = written'[f] => y.part = "head")
    <3>1. CASE y = x
      BY <1>1, <2>2, <2>5, <2>8, <3>1
    <3>2. CASE y \in All(f)
      <4>1. y \in Pieces
        BY <3>2, Elements, EntryIs DEF All
      <4>2. y.line[2] \in Nat
        BY <4>1, EntryIs, LineIs
      <4>3. y.line[2] <= written[f]
        BY <2>9, <3>2 DEF UpTo
      <4> QED
        BY <1>1, <2>2, <4>2, <4>3
    <3> QED
      BY <2>7, <3>1, <3>2
  <2>10. ASSUME NEW m \in 1..written'[f]
         PROVE  Settled(f, m)'
    <3>1. m \in 1..written[f] \/ m = n
      BY <1>1, <2>2, <2>5
    <3>2. CASE m = n
      <4>1. part = "head" => m = written'[f] /\ half'[f]
        BY <2>2, <2>5, <3>2
      <4> QED
        BY <2>7, <2>8, <3>2, <4>1 DEF Settled
    <3>3. CASE m \in 1..written[f]
      BY <2>2, <2>7, <3>3 DEF Settled
    <3> QED
      BY <3>1, <3>2, <3>3
  <2> QED
    BY <2>9, <2>10 DEF UpTo
<1>3. CASE WriteRest(f)
  <2>1. /\ half[f] /\ ~ half'[f] /\ written' = written /\ Appended(f, written[f], "tail")
        /\ UNCHANGED <<received, pipe, data, logChan, out>>
    BY <1>3 DEF WriteRest, TypeOK, mainVars, peerVars
  <2>2. written[f] \in 1..MaxLines[f]
    BY <1>1, <2>1 DEF Begun, TypeOK
  <2>3. PICK n \in 1..MaxLines[f] : n = written[f]
    BY <2>2
  <2>4. PICK x : x = [line |-> <<f, n>>, part |-> "tail"]
    OBVIOUS
  <2>5. /\ lost \subseteq lost' /\ All(f) \subseteq All(f)'
        /\ \A y \in All(f)' : y \in All(f) \/ y = x
        /\ <<f, n>> \in lost' \/ x \in All(f)'
    BY <2>1, <2>3, <2>4, Added
  <2>6. x.line = <<f, n>> /\ x.line[1] = f /\ x.line[2] = n /\ x.part = "tail"
    BY <2>4
  <2>7. ASSUME NEW y \in All(f)'
        PROVE  UpTo(f, y)'
    BY <1>1, <2>1, <2>3, <2>5, <2>6 DEF UpTo
  <2>8. ASSUME NEW m \in 1..written'[f]
        PROVE  Settled(f, m)'
    <3>1. CASE m = written[f]
      BY <2>3, <2>5, <2>6, <3>1 DEF Settled
    <3>2. CASE m # written[f]
      BY <2>1, <2>5, <3>2 DEF Settled
    <3> QED
      BY <3>1, <3>2
  <2> QED
    BY <2>7, <2>8
<1> QED
  BY <1>2, <1>3

LEMMA NotNewerNext ==
  ASSUME LogCollectorAssumption, TypeOK, Begun, InLine, NotNewer, NoneMissing, [Next]_vars
  PROVE  NotNewer' /\ NoneMissing'
<1> SUFFICES ASSUME NEW f \in Logs
             PROVE  /\ \A x \in All(f)' : UpTo(f, x)'
                    /\ \A n \in 1..written'[f] : Settled(f, n)'
  BY DEF NotNewer, NoneMissing
<1>1. /\ \A x \in All(f) : UpTo(f, x)
      /\ \A n \in 1..written[f] : Settled(f, n)
  BY DEF NotNewer, NoneMissing
<1>2. Keeps(f) \/ Write(f) \/ WriteRest(f)
  BY Kept
<1> QED
  BY <1>1, <1>2, KeepsMeans, Newest

LEMMA NotNewerInit == Init => Begun /\ NotNewer /\ NoneMissing
<1> SUFFICES ASSUME Init
             PROVE  Begun /\ NotNewer /\ NoneMissing
  OBVIOUS
<1>1. /\ pipe = <<>> /\ logChan = <<>> /\ data = None /\ received = {}
      /\ \A f \in Logs : /\ unread[f] = <<>> /\ out[f] = None
                         /\ written[f] = 0 /\ ~ half[f]
  BY DEF Init
<1>2. \A f \in Logs : All(f) = {}
  BY <1>1, NothingOf DEF All, OutOf, Beyond, AtMain, AtPeer, One
<1> QED
  BY <1>1, <1>2 DEF Begun, NotNewer, NoneMissing

-----------------------------------------------------------------------------
(* What is under way is in line behind what has arrived, and with it is all *)
(* there is.                                                                *)
LEMMA InRowTaken ==
  ASSUME NEW e \in Entries \cup {None}, LogCollectorAssumption
  PROVE  Taken(e) \in Seq(Pieces) /\ Of(Taken(e)) = One(e) /\ InRow(Taken(e))
<1>1. CASE e = None
  BY <1>1, NothingOf, EmptySeq DEF Taken, One
<1>2. CASE e # None
  <2>1. Taken(e) = <<e>> /\ e \in Pieces /\ One(e) = {e}
    BY <1>2, EntryIs DEF Taken, One
  <2>2. <<e>> \in Seq(Pieces) /\ Len(<<e>>) = 1 /\ <<e>>[1] = e
    BY <2>1
  <2> QED
    BY <2>1, <2>2 DEF Of, InRow
<1> QED
  BY <1>1, <1>2

LEMMA FlowIs ==
  ASSUME LogCollectorAssumption, TypeOK, InLine, NEW f \in Logs
  PROVE  /\ Flow(f) \in Seq(Pieces) /\ InRow(Flow(f))
         /\ All(f) = received \cup Of(Flow(f)) /\ Ahead(received, Of(Flow(f)))
<1> DEFINE a == pipe \o Taken(data)
           b == a \o logChan
           c == b \o Taken(out[f])
<1>1. Entries \subseteq Pieces
  BY EntryIs
<1>2. pipe \in Seq(Pieces) /\ logChan \in Seq(Pieces) /\ unread[f] \in Seq(Pieces)
  BY <1>1 DEF TypeOK
<1>3. /\ Taken(data) \in Seq(Pieces) /\ Of(Taken(data)) = One(data) /\ InRow(Taken(data))
  BY InRowTaken DEF TypeOK
<1>4. /\ Taken(out[f]) \in Seq(Pieces) /\ Of(Taken(out[f])) = One(out[f])
      /\ InRow(Taken(out[f]))
  <2>1. out[f] \in Entries \cup {None}
    BY DEF TypeOK
  <2> QED
    BY <2>1, InRowTaken
<1>5. /\ InRow(pipe) /\ InRow(logChan) /\ InRow(unread[f])
      /\ Ahead(received, Of(pipe)) /\ Ahead(AtPeer, One(data)) /\ Ahead(AtMain, Of(logChan))
      /\ Ahead(Beyond, One(out[f])) /\ Ahead(OutOf(f), Of(unread[f]))
  BY DEF InLine, Queues
<1>6. a \in Seq(Pieces) /\ Of(a) = Of(pipe) \cup One(data) /\ InRow(a)
  <2>1. Ahead(Of(pipe), Of(Taken(data)))
    BY <1>3, <1>5 DEF AtPeer, Ahead
  <2>2. pipe \o Taken(data) \in Seq(Pieces) /\ Both(pipe \o Taken(data), pipe, Taken(data))
    BY <1>2, <1>3, Joined
  <2> QED
    BY <1>2, <1>3, <1>5, <2>1, <2>2 DEF Both
<1> HIDE DEF a
<1>7. b \in Seq(Pieces) /\ Of(b) = Of(a) \cup Of(logChan) /\ InRow(b)
  <2>1. Ahead(Of(a), Of(logChan))
    BY <1>5, <1>6 DEF AtMain, AtPeer, Ahead
  <2>2. a \o logChan \in Seq(Pieces) /\ Both(a \o logChan, a, logChan)
    BY <1>2, <1>6, Joined
  <2> QED
    BY <1>2, <1>5, <1>6, <2>1, <2>2 DEF Both
<1> HIDE DEF b
<1>8. c \in Seq(Pieces) /\ Of(c) = Of(b) \cup One(out[f]) /\ InRow(c)
  <2>1. Ahead(Of(b), Of(Taken(out[f])))
    BY <1>4, <1>5, <1>6, <1>7 DEF Beyond, AtMain, AtPeer, Ahead
  <2>2. b \o Taken(out[f]) \in Seq(Pieces) /\ Both(b \o Taken(out[f]), b, Taken(out[f]))
    BY <1>4, <1>7, Joined
  <2> QED
    BY <1>4, <1>7, <2>1, <2>2 DEF Both
<1> HIDE DEF c
<1>9. OutOf(f) = received \cup Of(c)
  BY <1>6, <1>7, <1>8 DEF OutOf, Beyond, AtMain, AtPeer
<1>10. /\ c \o unread[f] \in Seq(Pieces) /\ Of(c \o unread[f]) = Of(c) \cup Of(unread[f])
       /\ InRow(c \o unread[f])
  <2>1. Ahead(Of(c), Of(unread[f]))
    BY <1>5, <1>9 DEF Ahead
  <2>2. c \o unread[f] \in Seq(Pieces) /\ Both(c \o unread[f], c, unread[f])
    BY <1>2, <1>8, Joined
  <2> QED
    BY <1>2, <1>5, <1>8, <2>1, <2>2 DEF Both
<1>11. Flow(f) = c \o unread[f]
  BY DEF Flow, a, b, c
<1>12. All(f) = received \cup Of(Flow(f))
  BY <1>9, <1>10, <1>11 DEF All
<1>13. Ahead(received, Of(Flow(f)))
  BY <1>5, <1>6, <1>7, <1>8, <1>10, <1>11 DEF OutOf, Beyond, AtMain, AtPeer, Ahead
<1> QED
  BY <1>10, <1>11, <1>12, <1>13

LEMMA Shows ==
  ASSUME LogCollectorAssumption, TypeOK, InLine, NoneMissing
  PROVE  InOrder /\ AccountedFor
<1>1. ASSUME NEW f \in Logs
      PROVE  /\ \A i, j \in Ends(f) : i < j => Flow(f)[i].line[2] < Flow(f)[j].line[2]
             /\ \A n \in ReceivedOf(f), i \in OfFile(f) : n < Flow(f)[i].line[2]
  <2>1. InRow(Flow(f)) /\ Ahead(received, Of(Flow(f)))
    BY FlowIs
  <2>2. ASSUME NEW i \in Ends(f), NEW j \in Ends(f), i < j
        PROVE  Flow(f)[i].line[2] < Flow(f)[j].line[2]
    <3>1. /\ i \in 1..Len(Flow(f)) /\ j \in 1..Len(Flow(f))
          /\ Flow(f)[i].line[1] = f /\ Flow(f)[j].line[1] = f /\ Flow(f)[i].part # "head"
      BY DEF Ends, OfFile
    <3>2. Earlier(Flow(f)[i], Flow(f)[j])
      BY <2>1, <2>2, <3>1 DEF InRow
    <3> QED
      BY <3>1, <3>2 DEF Earlier
  <2>3. ASSUME NEW n \in ReceivedOf(f), NEW i \in OfFile(f)
        PROVE  n < Flow(f)[i].line[2]
    <3>1. PICK e \in received : e.line[1] = f /\ n = e.line[2]
      BY DEF ReceivedOf
    <3>2. Flow(f)[i] \in Of(Flow(f)) /\ Flow(f)[i].line[1] = f
      BY DEF OfFile, Of
    <3>3. Earlier(e, Flow(f)[i]) /\ e.part # "head"
      BY <2>1, <3>2, EntryIs DEF Ahead, TypeOK
    <3> QED
      BY <3>1, <3>2, <3>3 DEF Earlier
  <2> QED
    BY <2>2, <2>3
<1>2. ASSUME NEW f \in Logs, NEW n \in Started(f),
             NEW x \in All(f), x.line = <<f, n>>, x.part # "head"
      PROVE  n \in ReceivedOf(f) \/ \E i \in Ends(f) : Flow(f)[i].line[2] = n
  <2>1. x.line[1] = f /\ x.line[2] = n
    BY <1>2
  <2>2. All(f) = received \cup Of(Flow(f))
    BY FlowIs
  <2>3. CASE x \in received
    BY <2>1, <2>3 DEF ReceivedOf
  <2>4. CASE x \in Of(Flow(f))
    BY <1>2, <2>1, <2>4 DEF Of, Ends, OfFile
  <2> QED
    BY <2>2, <2>3, <2>4
<1>3. ASSUME NEW f \in Logs, NEW n \in Started(f)
      PROVE  \/ <<f, n>> \in lost
             \/ n = written[f] /\ half[f]
             \/ n \in ReceivedOf(f)
             \/ \E i \in Ends(f) : Flow(f)[i].line[2] = n
  <2>1. Settled(f, n)
    BY DEF NoneMissing, Started
  <2> QED
    BY <1>2, <2>1 DEF Settled
<1> QED
  BY <1>1, <1>3 DEF InOrder, AccountedFor

-----------------------------------------------------------------------------
LEMMA LogAlways ==
  ASSUME LogCollectorAssumption
  PROVE  Spec => []((TypeOK /\ Begun) /\ (InLine /\ NotNewer /\ NoneMissing))
<1>1. Init => (TypeOK /\ Begun) /\ (InLine /\ NotNewer /\ NoneMissing)
  BY LogTypeInit, InLineInit, NotNewerInit
<1>2. ASSUME TypeOK, Begun, InLine, NotNewer, NoneMissing, [Next]_vars
      PROVE  (TypeOK /\ Begun)' /\ (InLine /\ NotNewer /\ NoneMissing)'
  BY <1>2, LogTypeNext, InLineNext, NotNewerNext
<1> QED
  BY <1>1, <1>2, PTL DEF Spec

(* The channel holds no more records than it was made for, the connection no *)
(* more than the kernel buffers, and each is a line or the tail of one       *)
(* (LogCollector.TypeOK; LogCollector/main.go:263-294).                  *)
THEOREM LogsTyped ==
  ASSUME LogCollectorAssumption
  PROVE  Spec => []TypeOK
<1> QED
  BY LogAlways, PTL

(* The lines of a file come to agentCollector in their order and each once,  *)
(* whatever breaks: what has arrived is older than all that is under way     *)
(* (InOrder; LogCollector/main.go:263-285, 312-317).                          *)
THEOREM LinesInOrder ==
  ASSUME LogCollectorAssumption
  PROVE  Spec => []InOrder
<1>1. TypeOK /\ Begun /\ InLine /\ NotNewer /\ NoneMissing => InOrder
  BY Shows
<1> QED
  BY <1>1, LogAlways, PTL

(* No line is gone without a failure that cost it: a complete line has       *)
(* arrived or is under way (AccountedFor; LogCollector/main.go:263-317).       *)
THEOREM LinesKept ==
  ASSUME LogCollectorAssumption
  PROVE  Spec => []AccountedFor
<1>1. TypeOK /\ Begun /\ InLine /\ NotNewer /\ NoneMissing => AccountedFor
  BY Shows
<1> QED
  BY <1>1, LogAlways, PTL
=============================================================================
