----------------------- MODULE FileCollector_proofs -----------------------
(* Proofs about FileCollector, for any files and directories and any sizes  *)
(* of the inotify queue and of eventChan.                                   *)
EXTENDS FileCollector, SequenceTheorems, FiniteSetTheorems, TLAPS

(* The events that are not dealt with: those of the buffer from the one the *)
(* goroutine is at, then those the kernel still has.                        *)
Window(b, k, q) ==
  [i \in 1..((Len(b) - k) + Len(q)) |->
     IF i <= Len(b) - k THEN b[k + i] ELSE q[i - (Len(b) - k)]]
Done == IF out = None THEN offset ELSE offset + 1
Left == Window(buf, Done, kernel)

(* Where the goroutine is in its loop, and when the queue holds an overflow.*)
Reading ==
  /\ Len(kernel) = QueueCap + 1 => kernel[Len(kernel)] = Overflow
  /\ out # None => offset < Len(buf) /\ buf[offset + 1] # Overflow
  /\ looked => offset < Len(buf) /\ IsNewDir(buf[offset + 1])

(* The newest event of a path says whether it exists.                       *)
On(s, p) == \E i \in 1..Len(s) : s[i].path = p
Newest(s, p, i) == s[i].path = p /\ \A j \in 1..Len(s) : i < j => s[j].path # p
Follows(s, p, v) ==
  \A i \in 1..Len(s) : Newest(s, p, i) => (s[i].type = "DELETED" <=> v = None)
Noticed ==
  \A p \in Paths \ unseen :
    Follows(Left, p, files[p]) /\ (On(Left, p) \/ baseline[p] = files[p])

(* A directory is watched, or will be; once it was looked at, the event the *)
(* goroutine is at does not count any more.                                 *)
Created(d) == [path |-> d, type |-> "ADDED"]
Comes(s, e, k) == \E i \in 1..Len(s) : i > k /\ s[i] = e
Watching(d, k) ==
  files[d] # None => d \in watched \/ d \in unseen \/ Comes(Left, Created(d), k)
Sighted ==
  /\ \A d \in Dirs : Watching(d, 0)
  /\ looked /\ out = None => Watching(buf[offset + 1].path, 1)

(* The places a report can be in: in the goroutine's hands, in eventChan,   *)
(* in main's, in those of a goroutine that puts it back, or delivered.      *)
Holds(s, n) == \E i \in 1..Len(s) : s[i].n = n
Distinct(s) == \A i, j \in 1..Len(s) : s[i].n = s[j].n => i = j
AtOut(n) == out # None /\ out.n = n
AtChan(n) == Holds(chan, n)
AtMain(n) == sending # None /\ sending.n = n
AtRequeue(n) == \E r \in requeue : r.n = n
AtEnd(n) == \E r \in delivered : r.n = n
OneOf(a, b, c, d, e) ==
  \/ a /\ ~ b /\ ~ c /\ ~ d /\ ~ e
  \/ ~ a /\ b /\ ~ c /\ ~ d /\ ~ e
  \/ ~ a /\ ~ b /\ c /\ ~ d /\ ~ e
  \/ ~ a /\ ~ b /\ ~ c /\ d /\ ~ e
  \/ ~ a /\ ~ b /\ ~ c /\ ~ d /\ e
NoneOf(a, b, c, d, e) == ~ a /\ ~ b /\ ~ c /\ ~ d /\ ~ e
Placed(n) ==
  /\ n < made => OneOf(AtOut(n), AtChan(n), AtMain(n), AtRequeue(n), AtEnd(n))
  /\ ~ (n < made) => NoneOf(AtOut(n), AtChan(n), AtMain(n), AtRequeue(n), AtEnd(n))
OnePlaceEach ==
  /\ Distinct(chan)
  /\ \A q, r \in requeue : q.n = r.n => q = r
  /\ \A n \in Nat : Placed(n)

-----------------------------------------------------------------------------
LEMMA EventIs ==
  ASSUME NEW e \in KernelEvents
  PROVE  /\ e # Overflow => e.path \in Paths /\ e.type \in Types
         /\ e # Overflow /\ e.type = "ADDED" => e = Created(e.path)
         /\ Overflow.path = None /\ Overflow.path \notin Paths
         /\ Overflow.type # "ADDED" /\ Overflow.type # "DELETED"
<1>1. None \notin Paths
  BY FileCollectorAssumption
<1> QED
  BY <1>1 DEF KernelEvents, Overflow, Created, Types

Joined(w, b, k, q) ==
  /\ w \in Seq(KernelEvents)
  /\ Len(w) = (Len(b) - k) + Len(q)
  /\ Len(b) \in Nat /\ Len(q) \in Nat
  /\ \A i \in 1..(Len(b) - k) : w[i] = b[k + i]
  /\ \A i \in 1..Len(q) : w[(Len(b) - k) + i] = q[i]

LEMMA WindowIs ==
  ASSUME NEW b \in Seq(KernelEvents), NEW k \in 0..Len(b), NEW q \in Seq(KernelEvents)
  PROVE  Joined(Window(b, k, q), b, k, q)
<1> DEFINE n == Len(b) - k
           w == Window(b, k, q)
<1>1. Len(b) \in Nat /\ Len(q) \in Nat /\ n \in Nat /\ n + Len(q) \in Nat
  BY LenProperties
<1>2. w = [i \in 1..(n + Len(q)) |-> IF i <= n THEN b[k + i] ELSE q[i - n]]
  BY DEF Window
<1>3. \A i \in 1..(n + Len(q)) : i <= n => b[k + i] \in KernelEvents
  <2> SUFFICES ASSUME NEW i \in 1..(n + Len(q)), i <= n
               PROVE  b[k + i] \in KernelEvents
    OBVIOUS
  <2>1. k + i \in 1..Len(b)
    BY <1>1
  <2> QED
    BY <2>1, ElementOfSeq
<1>4. \A i \in 1..(n + Len(q)) : ~ (i <= n) => q[i - n] \in KernelEvents
  <2> SUFFICES ASSUME NEW i \in 1..(n + Len(q)), ~ (i <= n)
               PROVE  q[i - n] \in KernelEvents
    OBVIOUS
  <2>1. i - n \in 1..Len(q)
    BY <1>1
  <2> QED
    BY <2>1, ElementOfSeq
<1> HIDE DEF n, w
<1>5. w \in [1..(n + Len(q)) -> KernelEvents]
  BY <1>2, <1>3, <1>4
<1>6. w \in Seq(KernelEvents) /\ Len(w) = n + Len(q)
  <2>1. w \in Seq(KernelEvents)
    BY <1>1, <1>5, SeqDef
  <2> QED
    BY <1>1, <1>5, <2>1, LenProperties
<1>7. \A i \in 1..n : w[i] = b[k + i]
  BY <1>1, <1>2
<1>8. \A i \in 1..Len(q) : w[n + i] = q[i]
  <2> SUFFICES ASSUME NEW i \in 1..Len(q)
               PROVE  w[n + i] = q[i]
    OBVIOUS
  <2>1. n + i \in 1..(n + Len(q)) /\ ~ (n + i <= n) /\ (n + i) - n = i
    BY <1>1
  <2> QED
    BY <1>2, <2>1
<1> QED
  BY <1>1, <1>6, <1>7, <1>8 DEF n, w, Joined

(* An event more from the kernel; an event dealt with; a read.              *)
LEMMA Halves ==
  ASSUME NEW q \in Seq(KernelEvents), NEW m \in 1..Len(q)
  PROVE  /\ SubSeq(q, 1, m) \in Seq(KernelEvents) /\ Len(SubSeq(q, 1, m)) = m
         /\ \A i \in 1..m : SubSeq(q, 1, m)[i] = q[i]
         /\ SubSeq(q, m + 1, Len(q)) \in Seq(KernelEvents)
         /\ Len(SubSeq(q, m + 1, Len(q))) = Len(q) - m
         /\ \A i \in 1..(Len(q) - m) : SubSeq(q, m + 1, Len(q))[i] = q[m + i]
<1>1. Len(q) \in Nat
  BY LenProperties
<1> QED
  BY <1>1, SubSeqProperties

LEMMA WindowMoves ==
  ASSUME NEW b \in Seq(KernelEvents), NEW k \in 0..Len(b), NEW q \in Seq(KernelEvents)
  PROVE  /\ \A x \in KernelEvents : Window(b, k, Append(q, x)) = Append(Window(b, k, q), x)
         /\ k < Len(b) => /\ Window(b, k, q) # <<>> /\ Window(b, k, q)[1] = b[k + 1]
                          /\ Window(b, k + 1, q) = Tail(Window(b, k, q))
         /\ k = Len(b) => \A m \in 1..Len(q) :
              Window(SubSeq(q, 1, m), 0, SubSeq(q, m + 1, Len(q))) = Window(b, k, q)
<1> DEFINE n == Len(b) - k
           w == Window(b, k, q)
<1>1. /\ w \in Seq(KernelEvents) /\ Len(w) = n + Len(q)
      /\ Len(b) \in Nat /\ Len(q) \in Nat /\ n \in Nat
      /\ \A i \in 1..n : w[i] = b[k + i]
      /\ \A i \in 1..Len(q) : w[n + i] = q[i]
  <2>1. Joined(w, b, k, q)
    BY WindowIs
  <2> QED
    BY <2>1, LenProperties DEF Joined
<1>2. ASSUME NEW x \in KernelEvents
      PROVE  Window(b, k, Append(q, x)) = Append(w, x)
  <2> DEFINE v == Window(b, k, Append(q, x))
             u == Append(w, x)
  <2>1. /\ Append(q, x) \in Seq(KernelEvents) /\ Len(Append(q, x)) = Len(q) + 1
        /\ \A i \in 1..Len(q) : Append(q, x)[i] = q[i]
        /\ Append(q, x)[Len(q) + 1] = x
    BY AppendProperties
  <2>2. /\ v \in Seq(KernelEvents) /\ Len(v) = n + (Len(q) + 1)
        /\ \A i \in 1..n : v[i] = b[k + i]
        /\ \A i \in 1..(Len(q) + 1) : v[n + i] = Append(q, x)[i]
    <3> DEFINE z == Append(q, x)
    <3>1. z \in Seq(KernelEvents)
      BY <2>1
    <3> HIDE DEF z
    <3>2. Joined(Window(b, k, z), b, k, z)
      BY <3>1, WindowIs
    <3> QED
      BY <2>1, <3>2 DEF Joined, z
  <2>3. /\ u \in Seq(KernelEvents) /\ Len(u) = Len(w) + 1
        /\ \A i \in 1..Len(w) : u[i] = w[i]
        /\ u[Len(w) + 1] = x
    BY <1>1, AppendProperties
  <2> HIDE DEF n, w, v, u
  <2>4. \A i \in 1..Len(v) : v[i] = u[i]
    <3> SUFFICES ASSUME NEW i \in 1..Len(v)
                 PROVE  v[i] = u[i]
      OBVIOUS
    <3>1. CASE i \in 1..n
      <4>1. i \in 1..Len(w)
        BY <1>1, <3>1
      <4> QED
        BY <1>1, <2>2, <2>3, <3>1, <4>1
    <3>2. CASE i \notin 1..n
      <4> DEFINE j == i - n
      <4>1. j \in 1..(Len(q) + 1) /\ i = n + j
        BY <1>1, <2>2, <3>2
      <4> HIDE DEF j
      <4>2. v[i] = Append(q, x)[j]
        BY <2>2, <4>1
      <4>3. CASE j \in 1..Len(q)
        <5>1. i \in 1..Len(w) /\ w[i] = q[j]
          BY <1>1, <4>1, <4>3
        <5> QED
          BY <2>1, <2>3, <4>2, <4>3, <5>1
      <4>4. CASE j = Len(q) + 1
        <5>1. i = Len(w) + 1
          BY <1>1, <4>1, <4>4
        <5> QED
          BY <2>1, <2>3, <4>2, <4>4, <5>1
      <4> QED
        BY <1>1, <4>1, <4>3, <4>4
    <3> QED
      BY <3>1, <3>2
  <2>5. Len(v) = Len(u)
    BY <1>1, <2>2, <2>3
  <2>6. v = u
    BY <2>2, <2>3, <2>4, <2>5, SeqEqual
  <2> QED
    BY <2>6 DEF v, u
<1>3. ASSUME k < Len(b)
      PROVE  /\ w # <<>> /\ w[1] = b[k + 1]
             /\ Window(b, k + 1, q) = Tail(w)
  <2> DEFINE v == Window(b, k + 1, q)
  <2>1. k + 1 \in 0..Len(b) /\ 1 \in 1..n /\ Len(w) # 0
    BY <1>1, <1>3
  <2>2. /\ v \in Seq(KernelEvents) /\ Len(v) = (Len(b) - (k + 1)) + Len(q)
        /\ \A i \in 1..(Len(b) - (k + 1)) : v[i] = b[(k + 1) + i]
        /\ \A i \in 1..Len(q) : v[(Len(b) - (k + 1)) + i] = q[i]
    <3>1. Joined(v, b, k + 1, q)
      BY <2>1, WindowIs
    <3> QED
      BY <3>1 DEF Joined
  <2>3. w # <<>>
    BY <1>1, <2>1, EmptySeq
  <2>4. /\ Tail(w) \in Seq(KernelEvents) /\ Len(Tail(w)) = Len(w) - 1
        /\ \A i \in 1..Len(Tail(w)) : Tail(w)[i] = w[i + 1]
    BY <1>1, <2>3, HeadTailProperties
  <2>5. Len(v) = Len(Tail(w))
    BY <1>1, <2>2, <2>4
  <2> HIDE DEF w, v
  <2>6. \A i \in 1..Len(v) : v[i] = Tail(w)[i]
    <3> SUFFICES ASSUME NEW i \in 1..Len(v)
                 PROVE  v[i] = w[i + 1]
      BY <2>4, <2>5
    <3>1. CASE i + 1 \in 1..n
      <4>1. v[i] = b[(k + 1) + i] /\ (k + 1) + i = k + (i + 1)
        BY <1>1, <2>2, <3>1
      <4> QED
        BY <1>1, <3>1, <4>1
    <3>2. CASE i + 1 \notin 1..n
      <4> DEFINE j == (i + 1) - n
      <4>1. j \in 1..Len(q) /\ i = (Len(b) - (k + 1)) + j /\ i + 1 = n + j
        BY <1>1, <2>2, <3>2
      <4> HIDE DEF j, n
      <4> QED
        BY <1>1, <2>2, <4>1
    <3> QED
      BY <3>1, <3>2
  <2>7. v = Tail(w)
    BY <2>2, <2>4, <2>5, <2>6, SeqEqual
  <2>8. w[1] = b[k + 1]
    BY <1>1, <2>1
  <2> QED
    BY <2>3, <2>7, <2>8 DEF v
<1>4. ASSUME k = Len(b), NEW m \in 1..Len(q)
      PROVE  Window(SubSeq(q, 1, m), 0, SubSeq(q, m + 1, Len(q))) = w
  <2> DEFINE x == SubSeq(q, 1, m)
             y == SubSeq(q, m + 1, Len(q))
             v == Window(x, 0, y)
  <2>1. /\ x \in Seq(KernelEvents) /\ Len(x) = m
        /\ \A i \in 1..m : x[i] = q[i]
    BY Halves
  <2>2. /\ y \in Seq(KernelEvents) /\ Len(y) = Len(q) - m
        /\ \A i \in 1..(Len(q) - m) : y[i] = q[m + i]
    BY Halves
  <2> HIDE DEF x, y
  <2>3. /\ v \in Seq(KernelEvents) /\ Len(v) = (Len(x) - 0) + Len(y)
        /\ \A i \in 1..(Len(x) - 0) : v[i] = x[0 + i]
        /\ \A i \in 1..Len(y) : v[(Len(x) - 0) + i] = y[i]
    <3>1. 0 \in 0..Len(x)
      BY <1>1, <2>1
    <3>2. Joined(v, x, 0, y)
      BY <2>1, <2>2, <3>1, WindowIs
    <3> QED
      BY <3>2 DEF Joined
  <2>4. Len(v) = Len(w) /\ n = 0 /\ Len(v) = Len(q)
    BY <1>1, <1>4, <2>1, <2>2, <2>3
  <2> HIDE DEF v, w, n
  <2>5. \A i \in 1..Len(v) : v[i] = w[i]
    <3> SUFFICES ASSUME NEW i \in 1..Len(q)
                 PROVE  v[i] = q[i] /\ w[i] = q[i]
      BY <2>4
    <3>1. w[i] = q[i]
      BY <1>1, <2>4
    <3>2. CASE i \in 1..m
      BY <1>1, <2>1, <2>3, <3>1, <3>2
    <3>3. CASE i \notin 1..m
      <4> DEFINE j == i - m
      <4>1. j \in 1..(Len(q) - m) /\ i = m + j
        BY <1>1, <3>3
      <4> HIDE DEF j
      <4>2. v[i] = y[j]
        BY <1>1, <2>1, <2>2, <2>3, <4>1
      <4> QED
        BY <2>2, <3>1, <4>1, <4>2
    <3> QED
      BY <3>2, <3>3
  <2>6. v = w
    BY <1>1, <2>3, <2>4, <2>5, SeqEqual
  <2> QED
    BY <2>6 DEF v, x, y
<1> QED
  BY <1>2, <1>3, <1>4

-----------------------------------------------------------------------------
(* An event of another path does not matter; one of this path is the newest;*)
(* of the events that stay, the newest is the same.                         *)
LEMMA FollowsMore ==
  ASSUME NEW s \in Seq(KernelEvents), NEW x \in KernelEvents, NEW p, NEW v, x.path # p
  PROVE  /\ Follows(s, p, v) => Follows(Append(s, x), p, v)
         /\ On(s, p) => On(Append(s, x), p)
<1> DEFINE t == Append(s, x)
<1>1. /\ t \in Seq(KernelEvents) /\ Len(t) = Len(s) + 1 /\ Len(s) \in Nat
      /\ \A i \in 1..Len(s) : t[i] = s[i]
      /\ t[Len(s) + 1] = x
  BY AppendProperties, LenProperties
<1> HIDE DEF t
<1>2. ASSUME Follows(s, p, v)
      PROVE  Follows(t, p, v)
  <2> SUFFICES ASSUME NEW i \in 1..Len(t), Newest(t, p, i)
               PROVE  t[i].type = "DELETED" <=> v = None
    BY DEF Follows
  <2>1. i # Len(s) + 1
    BY <1>1 DEF Newest
  <2>2. i \in 1..Len(s) /\ t[i] = s[i]
    BY <1>1, <2>1
  <2>3. \A j \in 1..Len(s) : i < j => s[j].path # p
    <3>1. \A j \in 1..Len(s) : j \in 1..Len(t)
      BY <1>1
    <3> QED
      BY <1>1, <3>1 DEF Newest
  <2>4. Newest(s, p, i)
    BY <2>2, <2>3 DEF Newest
  <2> QED
    BY <1>2, <2>2, <2>4 DEF Follows
<1>3. ASSUME On(s, p)
      PROVE  On(t, p)
  <2>1. PICK i \in 1..Len(s) : s[i].path = p
    BY <1>3 DEF On
  <2>2. i \in 1..Len(t) /\ t[i] = s[i]
    BY <1>1, <2>1
  <2> QED
    BY <2>1, <2>2 DEF On
<1> QED
  BY <1>2, <1>3 DEF t

LEMMA FollowsLast ==
  ASSUME NEW s \in Seq(KernelEvents), s # <<>>, NEW p, NEW v, s[Len(s)].path = p,
         s[Len(s)].type = "DELETED" <=> v = None
  PROVE  Follows(s, p, v) /\ On(s, p)
<1>1. Len(s) \in 1..Len(s) /\ Len(s) \in Nat
  BY EmptySeq, LenProperties
<1>2. \A i \in 1..Len(s) : Newest(s, p, i) => i = Len(s)
  BY <1>1 DEF Newest
<1> QED
  BY <1>1, <1>2 DEF Follows, On

LEMMA FollowsTail ==
  ASSUME NEW s \in Seq(KernelEvents), s # <<>>, NEW p, NEW v, Follows(s, p, v)
  PROVE  /\ Follows(Tail(s), p, v)
         /\ On(s, p) /\ s[1].path # p => On(Tail(s), p)
         /\ s[1].path = p /\ ~ On(Tail(s), p) => (s[1].type = "DELETED" <=> v = None)
<1> DEFINE t == Tail(s)
<1>1. /\ t \in Seq(KernelEvents) /\ Len(t) = Len(s) - 1 /\ Len(s) \in Nat \ {0}
      /\ \A i \in 1..Len(t) : t[i] = s[i + 1]
  BY HeadTailProperties, EmptySeq, LenProperties
<1> HIDE DEF t
<1>2. \A i \in 1..Len(s) : i # 1 => i - 1 \in 1..Len(t) /\ t[i - 1] = s[i]
  BY <1>1
<1>3. Follows(t, p, v)
  <2> SUFFICES ASSUME NEW i \in 1..Len(t), Newest(t, p, i)
               PROVE  t[i].type = "DELETED" <=> v = None
    BY DEF Follows
  <2>1. i + 1 \in 1..Len(s) /\ t[i] = s[i + 1]
    BY <1>1
  <2>2. \A j \in 1..Len(s) : i + 1 < j => s[j].path # p
    <3> SUFFICES ASSUME NEW j \in 1..Len(s), i + 1 < j
                 PROVE  s[j].path # p
      OBVIOUS
    <3>1. j - 1 \in 1..Len(t) /\ t[j - 1] = s[j] /\ i < j - 1
      BY <1>1, <1>2
    <3> QED
      BY <3>1 DEF Newest
  <2>3. Newest(s, p, i + 1)
    BY <2>1, <2>2 DEF Newest
  <2> QED
    BY <2>1, <2>3 DEF Follows
<1>4. ASSUME On(s, p), s[1].path # p
      PROVE  On(t, p)
  <2>1. PICK i \in 1..Len(s) : s[i].path = p
    BY <1>4 DEF On
  <2> QED
    BY <1>2, <1>4, <2>1 DEF On
<1>5. ASSUME s[1].path = p, ~ On(t, p)
      PROVE  s[1].type = "DELETED" <=> v = None
  <2>1. 1 \in 1..Len(s) /\ \A j \in 1..Len(s) : 1 < j => s[j].path # p
    BY <1>1, <1>2, <1>5 DEF On
  <2>2. Newest(s, p, 1)
    BY <1>5, <2>1 DEF Newest
  <2> QED
    BY <2>1, <2>2 DEF Follows
<1> QED
  BY <1>3, <1>4, <1>5 DEF t

LEMMA ComesStill ==
  ASSUME NEW s \in Seq(KernelEvents), NEW e \in KernelEvents
  PROVE  /\ \A x \in KernelEvents, k \in Nat : Comes(s, e, k) => Comes(Append(s, x), e, k)
         /\ \A k \in Nat : k < Len(s) /\ s[Len(s)] = e => Comes(s, e, k)
         /\ s # <<>> => /\ Comes(s, e, 1) => Comes(Tail(s), e, 0)
                        /\ Comes(s, e, 0) /\ s[1] # e => Comes(s, e, 1)
<1>0. Len(s) \in Nat
  BY LenProperties
<1>1. ASSUME NEW x \in KernelEvents, NEW k \in Nat, Comes(s, e, k)
      PROVE  Comes(Append(s, x), e, k)
  <2> DEFINE t == Append(s, x)
  <2>1. Len(t) = Len(s) + 1 /\ \A i \in 1..Len(s) : t[i] = s[i]
    BY AppendProperties
  <2>2. \A i \in 1..Len(s) : i \in 1..Len(t)
    BY <1>0, <2>1
  <2> HIDE DEF t
  <2>3. Comes(t, e, k)
    BY <1>1, <2>1, <2>2 DEF Comes
  <2> QED
    BY <2>3 DEF t
<1>2. \A k \in Nat : k < Len(s) /\ s[Len(s)] = e => Comes(s, e, k)
  BY <1>0 DEF Comes
<1>3. ASSUME s # <<>>, Comes(s, e, 1)
      PROVE  Comes(Tail(s), e, 0)
  <2> DEFINE t == Tail(s)
  <2>1. Len(t) = Len(s) - 1 /\ \A i \in 1..Len(t) : t[i] = s[i + 1]
    BY <1>3, HeadTailProperties
  <2> HIDE DEF t
  <2>2. PICK i \in 1..Len(s) : i > 1 /\ s[i] = e
    BY <1>3 DEF Comes
  <2>3. i - 1 \in 1..Len(t) /\ i - 1 > 0 /\ t[i - 1] = s[(i - 1) + 1] /\ (i - 1) + 1 = i
    BY <1>0, <2>1, <2>2
  <2>4. Comes(t, e, 0)
    BY <2>2, <2>3 DEF Comes
  <2> QED
    BY <2>4 DEF t
<1>4. ASSUME Comes(s, e, 0), s[1] # e
      PROVE  Comes(s, e, 1)
  <2>1. PICK i \in 1..Len(s) : s[i] = e
    BY <1>4 DEF Comes
  <2>2. i > 1
    BY <1>0, <1>4, <2>1
  <2> QED
    BY <2>1, <2>2 DEF Comes
<1> QED
  BY <1>1, <1>2, <1>3, <1>4

-----------------------------------------------------------------------------
(* What a change does to the queue.                                         *)
LEMMA QueuedIs ==
  ASSUME TypeOK, Reading, NEW p \in Paths, NEW t \in Types
  PROVE  /\ [path |-> p, type |-> t] \in KernelEvents /\ Overflow \in KernelEvents
         /\ Queued(p, t) \in Seq(KernelEvents) /\ Len(Queued(p, t)) <= QueueCap + 1
         /\ Len(Queued(p, t)) = QueueCap + 1 => Queued(p, t)[Len(Queued(p, t))] = Overflow
         /\ Queued(p, t) = kernel \/ Queued(p, t) = Append(kernel, Overflow)
              \/ Queued(p, t) = Append(kernel, [path |-> p, type |-> t])
         /\ Heard(p) =>
              \/ Queued(p, t) = Append(kernel, [path |-> p, type |-> t])
              \/ Queued(p, t) = kernel /\ kernel # <<>>
                   /\ kernel[Len(kernel)] = [path |-> p, type |-> t]
         /\ ~ Heard(p) => Queued(p, t) = kernel \/ Queued(p, t) = Append(kernel, Overflow)
<1> DEFINE e == [path |-> p, type |-> t]
<1>1. e \in KernelEvents /\ Overflow \in KernelEvents
  BY DEF KernelEvents
<1>2. kernel \in Seq(KernelEvents) /\ Len(kernel) \in Nat /\ QueueCap \in Nat
  BY LenProperties, FileCollectorAssumption DEF TypeOK
<1>3. \A x \in KernelEvents :
        /\ Append(kernel, x) \in Seq(KernelEvents) /\ Len(Append(kernel, x)) = Len(kernel) + 1
        /\ Append(kernel, x)[Len(kernel) + 1] = x
  BY <1>2, AppendProperties
<1>4. Queued(p, t) =
        IF Heard(p)
        THEN IF kernel # <<>> /\ kernel[Len(kernel)] = e THEN kernel ELSE Append(kernel, e)
        ELSE IF Len(kernel) < QueueCap \/ \E i \in 1..Len(kernel) : kernel[i] = Overflow
        THEN kernel ELSE Append(kernel, Overflow)
  BY DEF Queued
<1>5. Len(kernel) = QueueCap + 1 =>
        kernel[Len(kernel)] = Overflow /\ \E i \in 1..Len(kernel) : kernel[i] = Overflow
  BY <1>2 DEF Reading
<1>6. Heard(p) => Len(kernel) < QueueCap
  BY DEF Heard
<1>7. Len(kernel) <= QueueCap + 1
  BY DEF TypeOK
<1> DEFINE k == Queued(p, t)
<1> HIDE DEF e, k
<1>8. CASE Heard(p)
  <2>1. \/ k = kernel /\ kernel # <<>> /\ kernel[Len(kernel)] = e
        \/ k = Append(kernel, e)
    BY <1>4, <1>8 DEF k
  <2>2. k \in Seq(KernelEvents) /\ Len(k) <= QueueCap
    BY <1>1, <1>2, <1>3, <1>6, <1>8, <2>1
  <2> QED
    BY <1>1, <1>2, <1>8, <2>1, <2>2 DEF k, e
<1>9. CASE ~ Heard(p)
  <2>1. CASE k = kernel
    BY <1>1, <1>2, <1>5, <1>7, <1>9, <2>1 DEF k, e
  <2>2. CASE k # kernel
    <3>1. k = Append(kernel, Overflow) /\ Len(kernel) <= QueueCap
      BY <1>2, <1>4, <1>5, <1>7, <1>9, <2>2 DEF k
    <3>2. k \in Seq(KernelEvents) /\ Len(k) = Len(kernel) + 1 /\ k[Len(k)] = Overflow
      BY <1>1, <1>2, <1>3, <3>1
    <3> QED
      BY <1>1, <1>2, <1>9, <3>1, <3>2 DEF k, e
  <2> QED
    BY <2>1, <2>2
<1> QED
  BY <1>8, <1>9

LEMMA TypeInit == Init => TypeOK /\ Reading
<1> SUFFICES ASSUME Init
             PROVE  TypeOK /\ Reading
  OBVIOUS
<1>1. /\ <<>> \in Seq(KernelEvents) /\ <<>> \in Seq(Reports) /\ Len(<<>>) = 0
      /\ QueueCap \in Nat /\ ChanCap \in Nat /\ MaxChanges \in Nat /\ MaxFails \in Nat
  BY EmptySeq, FileCollectorAssumption
<1>2. \A p \in Paths : files[p] \in Versions \cup {None}
  BY <1>1 DEF Init, Versions
<1>3. files \in [Paths -> Versions \cup {None}] /\ baseline \in [Paths -> Versions \cup {None}]
  BY <1>2 DEF Init
<1>4. TypeOK
  <2>1. /\ changes \in Versions /\ recent \in [Paths -> BOOLEAN]
        /\ watched \subseteq Dirs /\ unseen \subseteq Paths
    BY <1>1 DEF Init, Versions
  <2>2. /\ kernel \in Seq(KernelEvents) /\ Len(kernel) <= QueueCap + 1
        /\ buf \in Seq(KernelEvents) /\ offset \in 0..Len(buf)
        /\ chan \in Seq(Reports) /\ Len(chan) <= ChanCap
    BY <1>1 DEF Init
  <2>3. /\ out \in Reports \cup {None} /\ sending \in Reports \cup {None}
        /\ requeue \subseteq Reports /\ delivered \subseteq Reports
    BY DEF Init
  <2>4. made \in Nat /\ fails \in 0..MaxFails
    BY <1>1 DEF Init
  <2>5. looked \in BOOLEAN /\ conn \in BOOLEAN
    BY DEF Init
  <2> QED
    BY <1>3, <2>1, <2>2, <2>3, <2>4, <2>5 DEF TypeOK
<1>5. Reading
  BY <1>1 DEF Init, Reading
<1> QED
  BY <1>4, <1>5

LEMMA TypeNext == TypeOK /\ Reading /\ [Next]_vars => TypeOK' /\ Reading'
<1> SUFFICES ASSUME TypeOK, Reading, [Next]_vars
             PROVE  TypeOK' /\ Reading'
  OBVIOUS
<1> USE DEF diskVars, readerVars, senderVars
<1>1. /\ QueueCap \in Nat /\ ChanCap \in Nat /\ MaxChanges \in Nat /\ MaxFails \in Nat
      /\ None \notin Nat /\ kernel \in Seq(KernelEvents) /\ buf \in Seq(KernelEvents)
      /\ Len(kernel) \in Nat /\ Len(buf) \in Nat /\ Len(chan) \in Nat /\ offset \in 0..Len(buf)
  BY FileCollectorAssumption, LenProperties DEF TypeOK
<1>2. ASSUME NEW p \in Paths, NEW t \in Types, NEW v \in Versions \cup {None}, Happens(p, t, v)
      PROVE  TypeOK' /\ Reading'
  <2>1. /\ kernel' \in Seq(KernelEvents) /\ Len(kernel') <= QueueCap + 1
        /\ Len(kernel') = QueueCap + 1 => kernel'[Len(kernel')] = Overflow
    BY <1>2, QueuedIs DEF Happens
  <2>2. files' \in [Paths -> Versions \cup {None}] /\ changes' \in Versions
    BY <1>1, <1>2 DEF Happens, TypeOK, Versions
  <2>3. watched' \subseteq Dirs /\ unseen' \subseteq Paths
    BY <1>2 DEF Happens, TypeOK
  <2>4. TypeOK'
    BY <1>2, <2>1, <2>2, <2>3 DEF Happens, TypeOK
  <2>5. Reading'
    BY <1>2, <2>1 DEF Happens, Reading
  <2> QED
    BY <2>4, <2>5
<1>3. ASSUME NEW p \in Paths, Change(p)
      PROVE  TypeOK' /\ Reading'
  <2>1. PICK t \in Types, v \in (Versions \cup {None}) : Happens(p, t, v)
    <3>1. \A t \in Types : \A v : Happens(p, t, v) => changes + 1 \in Versions
      BY <1>1 DEF Happens, TypeOK, Versions
    <3>2. "MODIFIED" \in Types /\ "ADDED" \in Types /\ "DELETED" \in Types
      BY DEF Types
    <3>3. \/ Happens(p, "MODIFIED", changes + 1) \/ Happens(p, "ADDED", changes + 1)
          \/ Happens(p, "DELETED", None)
      BY <1>3 DEF Change
    <3> QED
      BY <3>1, <3>2, <3>3
  <2> QED
    BY <1>2, <2>1
<1>4. ASSUME NEW p \in Paths, DebounceOver(p)
      PROVE  TypeOK' /\ Reading'
  BY <1>4 DEF DebounceOver, TypeOK, Reading
<1>5. CASE Read
  <2>1. PICK k \in 1..Len(kernel) : /\ buf' = SubSeq(kernel, 1, k)
                                    /\ kernel' = SubSeq(kernel, k + 1, Len(kernel))
    BY <1>5 DEF Read
  <2>2. /\ buf' \in Seq(KernelEvents) /\ Len(buf') = k
        /\ kernel' \in Seq(KernelEvents) /\ Len(kernel') = Len(kernel) - k
    BY <1>1, <2>1, Halves
  <2>3. Len(kernel) <= QueueCap + 1 /\ Len(kernel') < QueueCap + 1 /\ out = None /\ ~ looked
    BY <1>1, <1>5, <2>2 DEF TypeOK, Read, Reading
  <2>4. offset' \in 0..Len(buf')
    BY <1>5, <2>2 DEF Read
  <2>5. TypeOK'
    BY <1>1, <1>5, <2>2, <2>3, <2>4 DEF Read, TypeOK
  <2>6. Reading'
    <3>1. out' = None /\ looked' = FALSE
      BY <1>5, <2>3 DEF Read, TypeOK
    <3> QED
      BY <2>3, <3>1 DEF Reading
  <2> QED
    BY <2>5, <2>6
<1>6. CASE SkipOverflow
  <2>1. offset' \in 0..Len(buf)
    BY <1>1, <1>6 DEF SkipOverflow, NextOffset
  <2>2. out = None /\ ~ looked
    <3>1. ~ IsNewDir(Overflow)
      BY DEF IsNewDir, Overflow
    <3> QED
      BY <1>6, <3>1 DEF SkipOverflow, Reading
  <2> QED
    BY <1>6, <2>1, <2>2 DEF SkipOverflow, TypeOK, Reading
<1>7. CASE Look
  BY <1>7 DEF Look, TypeOK, Reading, MayBeWatched
<1>8. CASE Handle
  <2> DEFINE e == buf[offset + 1]
  <2>1. e \in KernelEvents /\ e # Overflow /\ offset < Len(buf)
    <3>1. offset + 1 \in 1..Len(buf)
      BY <1>1, <1>8 DEF Handle
    <3> QED
      BY <1>1, <1>8, <3>1, ElementOfSeq DEF Handle
  <2>2. e.path \in Paths /\ e.type \in Types
    BY <2>1, EventIs
  <2>3. /\ recent' = [recent EXCEPT ![e.path] = TRUE]
        /\ baseline' = [baseline EXCEPT ![e.path] = BaselineAfter(e)]
        /\ made' = made + 1
        /\ out' = [n |-> made, path |-> e.path, event |-> e.type,
                   version |-> IF e.type = "DELETED" THEN None ELSE files[e.path]]
        /\ UNCHANGED <<diskVars, buf, offset, looked, chan, requeue, senderVars>>
    BY <1>8 DEF Handle
  <2> HIDE DEF e
  <2>4. out' \in Reports
    BY <2>2, <2>3 DEF Reports, TypeOK
  <2>5. BaselineAfter(e) \in Versions \cup {None}
    BY <2>2 DEF BaselineAfter, TypeOK
  <2>6. TypeOK'
    BY <2>2, <2>3, <2>4, <2>5 DEF TypeOK
  <2>7. Reading'
    BY <2>1, <2>3 DEF Reading, e
  <2> QED
    BY <2>6, <2>7
<1>9. CASE Put
  <2>1. offset' \in 0..Len(buf) /\ out \in Reports
    BY <1>1, <1>9 DEF Put, NextOffset, Reading, TypeOK
  <2>2. chan' \in Seq(Reports) /\ Len(chan') <= ChanCap
    BY <1>1, <1>9, <2>1, AppendProperties DEF Put, TypeOK
  <2> QED
    BY <1>9, <2>1, <2>2 DEF Put, TypeOK, Reading
<1>10. CASE Dial
  BY <1>10 DEF Dial, TypeOK, Reading
<1>11. CASE Take
  <2>1. Head(chan) \in Reports /\ Tail(chan) \in Seq(Reports) /\ Len(Tail(chan)) <= ChanCap
    BY <1>1, <1>11, HeadTailProperties DEF Take, TypeOK
  <2> QED
    BY <1>11, <2>1 DEF Take, TypeOK, Reading
<1>12. CASE Send
  BY <1>12 DEF Send, TypeOK, Reading
<1>13. CASE SendFails
  <2>1. fails' \in 0..MaxFails
    BY <1>1, <1>13 DEF SendFails, TypeOK
  <2>2. requeue' \subseteq Reports /\ sending' = None
    BY <1>13 DEF SendFails, Kept, NoReport, TypeOK
  <2> QED
    BY <1>13, <2>1, <2>2 DEF SendFails, TypeOK, Reading
<1>14. ASSUME NEW r \in requeue, Requeue(r)
       PROVE  TypeOK' /\ Reading'
  <2>1. chan' \in Seq(Reports) /\ Len(chan') <= ChanCap
    BY <1>1, <1>14, AppendProperties DEF Requeue, TypeOK
  <2> QED
    BY <1>14, <2>1 DEF Requeue, TypeOK, Reading
<1>15. CASE UNCHANGED vars
  BY <1>15 DEF vars, TypeOK, Reading
<1> QED
  BY <1>3, <1>4, <1>5, <1>6, <1>7, <1>8, <1>9, <1>10, <1>11, <1>12, <1>13, <1>14,
     <1>15
     DEF Next

LEMMA TypeAlways == Spec => [](TypeOK /\ Reading)
BY TypeInit, TypeNext, PTL DEF Spec

(* Both queues keep their bounds: a full inotify queue takes one event of   *)
(* overflow more, and eventChan never more than its capacity                *)
(* (FileCollector.TypeOK; FileCollector/main.go:219-338).                   *)
THEOREM TypeCorrect == Spec => []TypeOK
<1> QED
  BY TypeAlways, PTL

-----------------------------------------------------------------------------
LEMMA LeftType ==
  ASSUME TypeOK, Reading
  PROVE  /\ Left \in Seq(KernelEvents) /\ Done \in 0..Len(buf) /\ Len(Left) \in Nat
         /\ offset < Len(buf) /\ out = None =>
              /\ Left # <<>> /\ Left[1] = buf[offset + 1] /\ buf[offset + 1] \in KernelEvents
              /\ Len(Left) # 0 /\ Window(buf, offset + 1, kernel) = Tail(Left)
         /\ kernel # <<>> => Left # <<>> /\ Left[Len(Left)] = kernel[Len(kernel)]
         /\ kernel # <<>> /\ offset < Len(buf) /\ out = None => 1 < Len(Left)
<1>1. /\ buf \in Seq(KernelEvents) /\ kernel \in Seq(KernelEvents) /\ Len(buf) \in Nat
      /\ Len(kernel) \in Nat /\ offset \in 0..Len(buf) /\ Done \in 0..Len(buf)
  BY LenProperties DEF TypeOK, Reading, Done
<1>2. Joined(Left, buf, Done, kernel)
  BY <1>1, WindowIs DEF Left
<1>3. Left \in Seq(KernelEvents) /\ Len(Left) = (Len(buf) - Done) + Len(kernel)
  BY <1>2 DEF Joined
<1>4. ASSUME offset < Len(buf), out = None
      PROVE  /\ Left # <<>> /\ Left[1] = buf[offset + 1] /\ buf[offset + 1] \in KernelEvents
             /\ Len(Left) # 0 /\ Window(buf, offset + 1, kernel) = Tail(Left)
  <2>1. Done = offset /\ offset + 1 \in 1..Len(buf) /\ Len(Left) # 0
    BY <1>1, <1>3, <1>4 DEF Done
  <2>2. Window(buf, Done, kernel) # <<>> /\ Window(buf, Done, kernel)[1] = buf[Done + 1]
        /\ Window(buf, Done + 1, kernel) = Tail(Window(buf, Done, kernel))
    BY <1>1, <1>4, <2>1, WindowMoves
  <2> QED
    BY <1>1, <2>1, <2>2, ElementOfSeq DEF Left
<1>5. ASSUME kernel # <<>>
      PROVE  Left # <<>> /\ Left[Len(Left)] = kernel[Len(kernel)]
  <2>1. Len(kernel) # 0
    BY <1>1, <1>5, EmptySeq
  <2>2. Len(kernel) \in 1..Len(kernel) /\ Len(Left) # 0
    BY <1>1, <1>3, <2>1
  <2>3. Left[(Len(buf) - Done) + Len(kernel)] = kernel[Len(kernel)]
    BY <1>2, <2>2 DEF Joined
  <2> QED
    BY <1>3, <2>2, <2>3, EmptySeq
<1>6. ASSUME kernel # <<>>, offset < Len(buf), out = None
      PROVE  1 < Len(Left)
  <2>1. Len(kernel) # 0 /\ Done = offset
    BY <1>1, <1>6, EmptySeq DEF Done
  <2> QED
    BY <1>1, <1>3, <1>6, <2>1
<1> QED
  BY <1>1, <1>3, <1>4, <1>5, <1>6, LenProperties

LEMMA LeftAfter ==
  ASSUME TypeOK', Reading'
  PROVE  /\ Left' \in Seq(KernelEvents) /\ Len(Left') \in Nat
         /\ kernel' # <<>> => Left' # <<>> /\ Left'[Len(Left')] = kernel'[Len(kernel')]
         /\ kernel' # <<>> /\ offset' < Len(buf') /\ out' = None => 1 < Len(Left')
<1>1. /\ buf' \in Seq(KernelEvents) /\ kernel' \in Seq(KernelEvents) /\ Done' \in 0..Len(buf')
      /\ Len(kernel') \in Nat /\ Len(buf') \in Nat
  <2>1. buf' \in Seq(KernelEvents) /\ kernel' \in Seq(KernelEvents)
    BY DEF TypeOK
  <2>2. Len(kernel') \in Nat /\ Len(buf') \in Nat
    BY <2>1, LenProperties
  <2>3. offset' \in 0..Len(buf') /\ (out' # None => offset' < Len(buf'))
    BY DEF TypeOK, Reading
  <2>4. Done' \in 0..Len(buf')
    <3>1. Done' = IF out' = None THEN offset' ELSE offset' + 1
      BY DEF Done
    <3>2. CASE out' = None
      BY <2>3, <3>1, <3>2
    <3>3. CASE out' # None
      <4>1. Done' = offset' + 1 /\ offset' < Len(buf') /\ offset' \in 0..Len(buf')
        BY <2>3, <3>1, <3>3
      <4>2. \A o \in Nat, l \in Nat : o < l => o + 1 \in 0..l
        OBVIOUS
      <4>3. offset' \in Nat
        BY <2>2, <4>1
      <4>4. offset' + 1 \in 0..Len(buf')
        BY <2>2, <4>1, <4>2, <4>3
      <4> QED
        BY <4>1, <4>4
    <3> QED
      BY <3>2, <3>3
  <2> QED
    BY <2>1, <2>2, <2>4
<1>2. Joined(Left', buf', Done', kernel')
  BY <1>1, WindowIs DEF Left
<1>3. Left' \in Seq(KernelEvents) /\ Len(Left') = (Len(buf') - Done') + Len(kernel')
  BY <1>2 DEF Joined
<1>4. ASSUME kernel' # <<>>
      PROVE  Left' # <<>> /\ Left'[Len(Left')] = kernel'[Len(kernel')]
  <2>1. Len(kernel') # 0
    BY <1>1, <1>4, EmptySeq
  <2>2. Len(kernel') \in 1..Len(kernel') /\ Len(Left') # 0
    BY <1>1, <1>3, <2>1
  <2>3. Left'[(Len(buf') - Done') + Len(kernel')] = kernel'[Len(kernel')]
    BY <1>2, <2>2 DEF Joined
  <2> QED
    BY <1>3, <2>2, <2>3, EmptySeq
<1>5. ASSUME kernel' # <<>>, offset' < Len(buf'), out' = None
      PROVE  1 < Len(Left')
  <2>1. Len(kernel') # 0 /\ Done' = offset'
    BY <1>1, <1>5, EmptySeq DEF Done
  <2> QED
    BY <1>1, <1>3, <1>5, <2>1
<1> QED
  BY <1>1, <1>3, <1>4, <1>5, LenProperties

LEMMA HandleReports ==
  ASSUME TypeOK, Handle
  PROVE  out' \in Reports /\ out' # None /\ out'.n = made
<1> DEFINE e == buf[offset + 1]
<1>1. made \in Nat /\ buf \in Seq(KernelEvents) /\ Len(buf) \in Nat
  BY LenProperties DEF TypeOK
<1>2. offset + 1 \in 1..Len(buf)
  BY <1>1 DEF Handle, TypeOK
<1>3. e \in KernelEvents /\ e # Overflow
  BY <1>1, <1>2, ElementOfSeq DEF Handle
<1>4. e.path \in Paths /\ e.type \in Types
  BY <1>3, EventIs
<1>5. out' = [n |-> made, path |-> e.path, event |-> e.type,
              version |-> IF e.type = "DELETED" THEN None ELSE files[e.path]]
  BY DEF Handle
<1> HIDE DEF e
<1>6. out' \in Reports
  BY <1>1, <1>4, <1>5 DEF Reports, TypeOK
<1> QED
  BY <1>5, <1>6, NoReportAssumption

(* What a step does to the events that are left.                            *)
LEMMA LeftMoves ==
  ASSUME TypeOK, Reading
  PROVE  /\ UNCHANGED <<buf, offset, out, kernel>> => Left' = Left
         /\ \A x \in KernelEvents :
              UNCHANGED <<buf, offset, out>> /\ kernel' = Append(kernel, x)
                => Left' = Append(Left, x)
         /\ Read => Left' = Left
         /\ SkipOverflow => Left' = Tail(Left)
         /\ Handle => Left' = Tail(Left)
         /\ Put => Left' = Left
<1>1. /\ buf \in Seq(KernelEvents) /\ kernel \in Seq(KernelEvents) /\ Len(buf) \in Nat
      /\ offset \in 0..Len(buf) /\ Done \in 0..Len(buf)
  BY LenProperties, LeftType DEF TypeOK
<1>2. Left' = Window(buf', Done', kernel')
  BY DEF Left
<1>3. ASSUME UNCHANGED <<buf, offset, out, kernel>>
      PROVE  Left' = Left
  BY <1>3 DEF Left, Done, Window
<1>4. ASSUME NEW x \in KernelEvents, UNCHANGED <<buf, offset, out>>, kernel' = Append(kernel, x)
      PROVE  Left' = Append(Left, x)
  <2>1. Done' = Done
    BY <1>4 DEF Done
  <2>2. Window(buf, Done, Append(kernel, x)) = Append(Window(buf, Done, kernel), x)
    BY <1>1, WindowMoves
  <2> QED
    BY <1>2, <1>4, <2>1, <2>2 DEF Left
<1>5. ASSUME Read
      PROVE  Left' = Left
  <2>1. PICK k \in 1..Len(kernel) : /\ buf' = SubSeq(kernel, 1, k)
                                    /\ kernel' = SubSeq(kernel, k + 1, Len(kernel))
    BY <1>5 DEF Read
  <2>2. out = None /\ out' = None /\ Done = Len(buf) /\ Done' = 0
    BY <1>1, <1>5 DEF Read, Reading, Done
  <2>3. Window(SubSeq(kernel, 1, k), 0, SubSeq(kernel, k + 1, Len(kernel)))
          = Window(buf, Done, kernel)
    BY <1>1, <2>2, WindowMoves
  <2> QED
    BY <1>2, <2>1, <2>2, <2>3 DEF Left
<1>6. ASSUME SkipOverflow
      PROVE  Left' = Tail(Left)
  <2>1. out = None /\ out' = None /\ offset < Len(buf) /\ Done' = offset + 1
        /\ buf' = buf /\ kernel' = kernel
    BY <1>6 DEF SkipOverflow, NextOffset, Reading, Done, diskVars
  <2> QED
    BY <1>2, <2>1, LeftType
<1>7. ASSUME Handle
      PROVE  Left' = Tail(Left)
  <2>1. out' # None
    BY <1>7, HandleReports
  <2>2. out = None /\ offset < Len(buf) /\ Done' = offset + 1
        /\ buf' = buf /\ kernel' = kernel
    BY <1>7, <2>1 DEF Handle, Done, diskVars
  <2> QED
    BY <1>2, <2>2, LeftType
<1>8. ASSUME Put
      PROVE  Left' = Left
  <2>1. Done' = Done /\ buf' = buf /\ kernel' = kernel
    BY <1>8 DEF Put, NextOffset, Done, diskVars
  <2> QED
    BY <1>2, <2>1 DEF Left
<1> QED
  BY <1>3, <1>4, <1>5, <1>6, <1>7, <1>8

-----------------------------------------------------------------------------
(* The parts of the state the queues do not depend on.                      *)
LEMMA NoticedKept ==
  ASSUME Noticed, Left' = Left, UNCHANGED <<files, unseen, baseline>>
  PROVE  Noticed'
BY DEF Noticed, Follows, Newest, On

LEMMA NoticedInit == Init => Noticed
<1> SUFFICES ASSUME Init
             PROVE  Noticed
  OBVIOUS
<1>1. Len(Left) = 0
  <2>1. TypeOK /\ Reading /\ Done = 0
    BY TypeInit DEF Init, Done
  <2>2. Joined(Left, buf, 0, kernel)
    <3>1. buf \in Seq(KernelEvents) /\ kernel \in Seq(KernelEvents) /\ 0 \in 0..Len(buf)
      BY <2>1, LeftType DEF TypeOK
    <3> QED
      BY <2>1, <3>1, WindowIs DEF Left
  <2>3. Len(buf) = 0 /\ Len(kernel) = 0
    BY EmptySeq DEF Init
  <2> QED
    BY <2>2, <2>3 DEF Joined
<1> QED
  BY <1>1 DEF Init, Noticed, Follows

LEMMA NoticedChange ==
  ASSUME TypeOK, Reading, Noticed, NEW p \in Paths, NEW t \in Types,
         NEW v \in Versions \cup {None}, t = "DELETED" <=> v = None, Happens(p, t, v),
         TypeOK', Reading'
  PROVE  Noticed'
<1> DEFINE e == [path |-> p, type |-> t]
<1>1. /\ kernel' = Queued(p, t) /\ files' = [files EXCEPT ![p] = v]
      /\ unseen' = IF Heard(p) THEN unseen \ {p} ELSE unseen \cup {p}
      /\ UNCHANGED <<buf, offset, out, baseline>>
  BY DEF Happens, readerVars
<1>2. /\ e \in KernelEvents /\ Overflow \in KernelEvents /\ Overflow.path \notin Paths
      /\ e.path = p /\ e.type = t
      /\ kernel' = kernel \/ kernel' = Append(kernel, Overflow) \/ kernel' = Append(kernel, e)
      /\ Heard(p) =>
           \/ kernel' = Append(kernel, e)
           \/ kernel' = kernel /\ kernel # <<>> /\ kernel[Len(kernel)] = e
  <2>1. Overflow \in KernelEvents /\ Overflow.path \notin Paths
    BY FileCollectorAssumption DEF KernelEvents, Overflow
  <2>2. e \in KernelEvents
    BY QueuedIs
  <2>3. Queued(p, t) = kernel \/ Queued(p, t) = Append(kernel, Overflow)
          \/ Queued(p, t) = Append(kernel, e)
    BY QueuedIs
  <2>4. Heard(p) =>
          \/ Queued(p, t) = Append(kernel, e)
          \/ Queued(p, t) = kernel /\ kernel # <<>> /\ kernel[Len(kernel)] = e
    BY DEF Queued
  <2>5. e.path = p /\ e.type = t
    OBVIOUS
  <2> HIDE DEF e
  <2> QED
    BY <1>1, <2>1, <2>2, <2>3, <2>4, <2>5
<1> HIDE DEF e
<1>3. Left \in Seq(KernelEvents) /\ Left' \in Seq(KernelEvents)
  BY LeftType, LeftAfter
<1>4. Left' = Left \/ Left' = Append(Left, Overflow) \/ Left' = Append(Left, e)
  BY <1>1, <1>2, LeftMoves
<1>5. ASSUME NEW q \in Paths, q # p, q \notin unseen'
      PROVE  Follows(Left', q, files'[q]) /\ (On(Left', q) \/ baseline'[q] = files'[q])
  <2>1. q \notin unseen /\ files'[q] = files[q] /\ baseline'[q] = baseline[q]
    BY <1>1, <1>5 DEF TypeOK
  <2>2. Follows(Left, q, files[q]) /\ (On(Left, q) \/ baseline[q] = files[q])
    BY <2>1 DEF Noticed
  <2>3. e.path # q /\ Overflow.path # q
    BY <1>2, <1>5
  <2>4. CASE Left' = Left
    BY <2>1, <2>2, <2>4 DEF Follows, Newest, On
  <2>5. CASE Left' = Append(Left, Overflow)
    BY <1>2, <1>3, <2>1, <2>2, <2>3, <2>5, FollowsMore
  <2>6. CASE Left' = Append(Left, e)
    BY <1>2, <1>3, <2>1, <2>2, <2>3, <2>6, FollowsMore
  <2> QED
    BY <1>4, <2>4, <2>5, <2>6
<1>6. ASSUME p \notin unseen'
      PROVE  Follows(Left', p, files'[p]) /\ On(Left', p)
  <2>1. Heard(p) /\ files'[p] = v
    BY <1>1, <1>6 DEF TypeOK
  <2>2. kernel' # <<>> /\ kernel'[Len(kernel')] = e
    <3>1. CASE kernel' = kernel /\ kernel # <<>> /\ kernel[Len(kernel)] = e
      BY <3>1
    <3>2. CASE kernel' = Append(kernel, e)
      <4>1. kernel \in Seq(KernelEvents)
        BY DEF TypeOK
      <4> QED
        BY <1>2, <3>2, <4>1, AppendProperties, LenProperties, EmptySeq
    <3> QED
      BY <1>2, <2>1, <3>1, <3>2
  <2>3. Left' # <<>> /\ Left'[Len(Left')] = e
    BY <2>2, LeftAfter
  <2> QED
    BY <1>2, <1>3, <2>1, <2>3, FollowsLast
<1> QED
  BY <1>5, <1>6 DEF Noticed

LEMMA NoticedNext ==
  TypeOK /\ Reading /\ TypeOK' /\ Reading' /\ Noticed /\ [Next]_vars => Noticed'
<1> SUFFICES ASSUME TypeOK, Reading, TypeOK', Reading', Noticed, [Next]_vars
             PROVE  Noticed'
  OBVIOUS
<1> USE DEF diskVars, readerVars, senderVars
<1>1. ASSUME NEW p \in Paths, Change(p)
      PROVE  Noticed'
  <2>1. None \notin Nat /\ changes \in Nat /\ MaxChanges \in Nat
    BY FileCollectorAssumption DEF TypeOK, Versions
  <2>2. PICK t \in Types, v \in (Versions \cup {None}) :
          Happens(p, t, v) /\ (t = "DELETED" <=> v = None)
    <3>1. \A t \in Types : \A v : Happens(p, t, v) => changes + 1 \in Versions
      BY <2>1 DEF Happens, TypeOK, Versions
    <3>2. "MODIFIED" \in Types /\ "ADDED" \in Types /\ "DELETED" \in Types
      BY DEF Types
    <3>3. \/ Happens(p, "MODIFIED", changes + 1) \/ Happens(p, "ADDED", changes + 1)
          \/ Happens(p, "DELETED", None)
      BY <1>1 DEF Change
    <3>4. changes + 1 # None
      BY <2>1
    <3> QED
      BY <3>1, <3>2, <3>3, <3>4
  <2> QED
    BY <2>2, NoticedChange
<1>2. ASSUME NEW p \in Paths, DebounceOver(p)
      PROVE  Noticed'
  BY <1>2, LeftMoves, NoticedKept DEF DebounceOver
<1>3. CASE Read
  <2>1. UNCHANGED <<files, unseen, baseline>>
    BY <1>3 DEF Read
  <2> QED
    BY <1>3, <2>1, LeftMoves, NoticedKept
<1>4. CASE SkipOverflow
  <2>1. /\ Left' = Tail(Left) /\ out = None /\ offset < Len(buf)
        /\ buf[offset + 1] = Overflow /\ UNCHANGED <<files, unseen, baseline>>
    <3>1. ~ IsNewDir(Overflow)
      BY DEF IsNewDir, Overflow
    <3> QED
      BY <1>4, <3>1, LeftMoves DEF SkipOverflow, Reading
  <2>2. Left \in Seq(KernelEvents) /\ Left # <<>> /\ Left[1] = Overflow
        /\ Overflow.path \notin Paths
    BY <2>1, LeftType, EventIs
  <2> SUFFICES ASSUME NEW q \in Paths, q \notin unseen
               PROVE  Follows(Left', q, files[q]) /\ (On(Left', q) \/ baseline[q] = files[q])
    BY <2>1 DEF Noticed
  <2>3. Follows(Left, q, files[q]) /\ (On(Left, q) \/ baseline[q] = files[q])
    BY DEF Noticed
  <2>4. Left[1].path # q
    BY <2>2
  <2> QED
    BY <2>1, <2>2, <2>3, <2>4, FollowsTail
<1>5. CASE Look
  <2>1. UNCHANGED <<buf, offset, out, kernel>> /\ UNCHANGED <<files, unseen, baseline>>
    BY <1>5 DEF Look
  <2> QED
    BY <2>1, LeftMoves, NoticedKept
<1>6. CASE Handle
  <2> DEFINE e == buf[offset + 1]
  <2>1. /\ Left' = Tail(Left) /\ out = None /\ offset < Len(buf) /\ e # Overflow
        /\ baseline' = [baseline EXCEPT ![e.path] = BaselineAfter(e)]
        /\ UNCHANGED <<files, unseen>>
    BY <1>6, LeftMoves DEF Handle
  <2>2. /\ Left \in Seq(KernelEvents) /\ Left # <<>> /\ Left[1] = e
        /\ e \in KernelEvents /\ e.path \in Paths
    BY <2>1, LeftType, EventIs
  <2> HIDE DEF e
  <2> SUFFICES ASSUME NEW q \in Paths, q \notin unseen
               PROVE  Follows(Left', q, files[q]) /\ (On(Left', q) \/ baseline'[q] = files[q])
    BY <2>1 DEF Noticed
  <2>3. Follows(Left, q, files[q]) /\ (On(Left, q) \/ baseline[q] = files[q])
    BY DEF Noticed
  <2>4. /\ Follows(Tail(Left), q, files[q])
        /\ On(Left, q) /\ e.path # q => On(Tail(Left), q)
        /\ e.path = q /\ ~ On(Tail(Left), q) => (e.type = "DELETED" <=> files[q] = None)
    BY <2>2, <2>3, FollowsTail
  <2>5. CASE e.path = q
    <3>1. baseline'[q] = BaselineAfter(e)
      BY <2>1, <2>5 DEF TypeOK
    <3>2. (e.type = "DELETED" <=> files[q] = None) => BaselineAfter(e) = files[q]
      BY <2>5 DEF BaselineAfter
    <3> QED
      BY <2>1, <2>4, <2>5, <3>1, <3>2
  <2>6. CASE e.path # q
    <3>1. baseline'[q] = baseline[q]
      BY <2>1, <2>6 DEF TypeOK
    <3> QED
      BY <2>1, <2>3, <2>4, <2>6, <3>1
  <2> QED
    BY <2>5, <2>6
<1>7. CASE Put
  <2>1. UNCHANGED <<files, unseen, baseline>>
    BY <1>7 DEF Put
  <2> QED
    BY <1>7, <2>1, LeftMoves, NoticedKept
<1>8. ASSUME UNCHANGED <<buf, offset, out, kernel>>, UNCHANGED <<files, unseen, baseline>>
      PROVE  Noticed'
  BY <1>8, LeftMoves, NoticedKept
<1>9. CASE Dial
  BY <1>8, <1>9 DEF Dial
<1>10. CASE Take
  BY <1>8, <1>10 DEF Take
<1>11. CASE Send
  BY <1>8, <1>11 DEF Send
<1>12. CASE SendFails
  BY <1>8, <1>12 DEF SendFails
<1>13. ASSUME NEW r \in requeue, Requeue(r)
       PROVE  Noticed'
  BY <1>8, <1>13 DEF Requeue
<1>14. CASE UNCHANGED vars
  BY <1>8, <1>14 DEF vars
<1> QED
  BY <1>1, <1>2, <1>3, <1>4, <1>5, <1>6, <1>7, <1>9, <1>10, <1>11, <1>12, <1>13,
     <1>14
     DEF Next

(* An event that is left is where PendingOn and CreationPending look for it.*)
LEMMA LeftWhere ==
  ASSUME TypeOK, Reading, NEW i \in 1..Len(Left)
  PROVE  \/ \E j \in 1..Len(kernel) : kernel[j] = Left[i]
         \/ \E j \in 1..Len(buf) : j > Done /\ buf[j] = Left[i]
<1> DEFINE n == Len(buf) - Done
<1>1. /\ buf \in Seq(KernelEvents) /\ kernel \in Seq(KernelEvents) /\ Len(buf) \in Nat
      /\ Len(kernel) \in Nat /\ Done \in 0..Len(buf) /\ n \in Nat
  BY LeftType, LenProperties DEF TypeOK
<1>2. Joined(Left, buf, Done, kernel)
  BY <1>1, WindowIs DEF Left
<1>3. /\ Len(Left) = n + Len(kernel)
      /\ \A m \in 1..n : Left[m] = buf[Done + m]
      /\ \A m \in 1..Len(kernel) : Left[n + m] = kernel[m]
  BY <1>2 DEF Joined
<1>4. CASE i \in 1..n
  <2>1. Done + i \in 1..Len(buf) /\ Done + i > Done
    BY <1>1, <1>4
  <2> QED
    BY <1>3, <1>4, <2>1
<1>5. CASE i \notin 1..n
  <2> HIDE DEF n
  <2>1. i - n \in 1..Len(kernel) /\ n + (i - n) = i
    BY <1>1, <1>3, <1>5
  <2> QED
    BY <1>3, <2>1
<1> QED
  BY <1>4, <1>5

LEMMA NoticedShows == TypeOK /\ Reading /\ Noticed => NoUnnoticedChange
<1> SUFFICES ASSUME TypeOK, Reading, Noticed, NEW p \in Paths, baseline[p] # files[p],
                    p \notin unseen
             PROVE  PendingOn(p)
  BY DEF NoUnnoticedChange
<1>1. PICK i \in 1..Len(Left) : Left[i].path = p
  BY DEF Noticed, On
<1>2. \/ \E j \in 1..Len(kernel) : kernel[j] = Left[i]
      \/ \E j \in 1..Len(buf) : j > Done /\ buf[j] = Left[i]
  BY LeftWhere
<1> QED
  BY <1>1, <1>2 DEF PendingOn, Done

LEMMA NoticedAlways == Spec => [](TypeOK /\ Reading /\ Noticed)
<1>1. Init => Noticed
  BY NoticedInit
<1>2. TypeOK /\ Reading /\ TypeOK' /\ Reading' /\ Noticed /\ [Next]_vars => Noticed'
  BY NoticedNext
<1> QED
  BY <1>1, <1>2, TypeAlways, PTL DEF Spec

(* The baseline differs from the disk only while an event of the file is    *)
(* pending or the kernel kept none, for any number of changes and readings  *)
(* (FileCollector.NoUnnoticedChange; FileCollector/main.go:219-299).        *)
THEOREM ChangesNoticed == Spec => []NoUnnoticedChange
<1>1. TypeOK /\ Reading /\ Noticed => NoUnnoticedChange
  BY NoticedShows
<1> QED
  BY <1>1, NoticedAlways, PTL

-----------------------------------------------------------------------------
LEMMA SightedInit == Init => Sighted
BY DEF Init, Sighted, Watching

LEMMA CreatedIs ==
  ASSUME NEW d \in Dirs
  PROVE  /\ Created(d) \in KernelEvents /\ Created(d) # Overflow
         /\ Created(d).path = d /\ IsNewDir(Created(d))
<1>1. d \in Paths /\ None \notin Paths
  BY FileCollectorAssumption
<1>2. Overflow.path = None /\ Created(d).path = d /\ Created(d).type = "ADDED"
  BY DEF Overflow, Created
<1>3. Created(d) \in KernelEvents
  BY <1>1 DEF Created, KernelEvents, Types
<1> QED
  BY <1>1, <1>2, <1>3 DEF IsNewDir

(* A change of the disk: another directory keeps what shows it, a created   *)
(* one raises its event, behind the one the goroutine is at, or is unseen.  *)
LEMMA WatchingChange ==
  ASSUME TypeOK, Reading, TypeOK', Reading', NEW p \in Paths, Change(p),
         NEW d \in Dirs, NEW k \in {0, 1}, Watching(d, k),
         k = 1 => offset < Len(buf) /\ out = None
  PROVE  Watching(d, k)'
<1>1. \A t \in Types : \A v : Happens(p, t, v) =>
        /\ kernel' = Queued(p, t) /\ files' = [files EXCEPT ![p] = v]
        /\ unseen' = IF Heard(p) THEN unseen \ {p} ELSE unseen \cup {p}
        /\ watched' = IF t = "DELETED" THEN watched \ {p} ELSE watched
        /\ UNCHANGED <<buf, offset, out>>
  BY DEF Happens, readerVars
<1>2. PICK t \in Types : \E v : Happens(p, t, v) /\ (t = "MODIFIED" => p \notin Dirs)
                                 /\ (t = "DELETED" => v = None)
  <2>1. "MODIFIED" \in Types /\ "ADDED" \in Types /\ "DELETED" \in Types
    BY DEF Types
  <2> QED
    BY <2>1 DEF Change
<1>3. PICK v : Happens(p, t, v) /\ (t = "MODIFIED" => p \notin Dirs)
               /\ (t = "DELETED" => v = None)
  BY <1>2
<1>4. /\ kernel' = Queued(p, t) /\ files' = [files EXCEPT ![p] = v]
      /\ unseen' = IF Heard(p) THEN unseen \ {p} ELSE unseen \cup {p}
      /\ watched' = IF t = "DELETED" THEN watched \ {p} ELSE watched
      /\ UNCHANGED <<buf, offset, out>>
  BY <1>1, <1>3
<1> DEFINE e == [path |-> p, type |-> t]
<1>5. /\ e \in KernelEvents /\ Overflow \in KernelEvents
      /\ kernel' = kernel \/ kernel' = Append(kernel, Overflow) \/ kernel' = Append(kernel, e)
  BY <1>4, QueuedIs
<1>6. Heard(p) => kernel' = Append(kernel, e)
                    \/ (kernel' = kernel /\ kernel # <<>> /\ kernel[Len(kernel)] = e)
  BY <1>4 DEF Queued
<1> HIDE DEF e
<1>7. Left \in Seq(KernelEvents) /\ Created(d) \in KernelEvents
  BY LeftType, CreatedIs
<1>8. Left' = Left \/ Left' = Append(Left, Overflow) \/ Left' = Append(Left, e)
  BY <1>4, <1>5, LeftMoves
<1>9. Comes(Left, Created(d), k) => Comes(Left', Created(d), k)
  BY <1>5, <1>7, <1>8, ComesStill
<1>10. d \in Paths
  BY FileCollectorAssumption
<1>11. CASE d # p
  <2>1. files'[d] = files[d] /\ (d \in watched => d \in watched') /\ (d \in unseen => d \in unseen')
    BY <1>4, <1>10, <1>11 DEF TypeOK
  <2> QED
    BY <1>9, <2>1 DEF Watching
<1>12. CASE d = p /\ t = "DELETED"
  <2>1. files'[d] = None
    BY <1>3, <1>4, <1>10, <1>12 DEF TypeOK
  <2> QED
    BY <2>1 DEF Watching
<1>13. CASE d = p /\ t = "ADDED" /\ ~ Heard(p)
  BY <1>4, <1>13 DEF Watching
<1>14. CASE d = p /\ t = "ADDED" /\ Heard(p)
  <2>1. kernel' # <<>> /\ kernel'[Len(kernel')] = e
    <3>1. CASE kernel' = kernel /\ kernel # <<>> /\ kernel[Len(kernel)] = e
      BY <3>1
    <3>2. CASE kernel' = Append(kernel, e)
      <4>1. kernel \in Seq(KernelEvents)
        BY DEF TypeOK
      <4> QED
        BY <1>5, <3>2, <4>1, AppendProperties, LenProperties, EmptySeq
    <3> QED
      BY <1>6, <1>14, <3>1, <3>2
  <2>2. e = Created(d)
    BY <1>14 DEF e, Created
  <2>3. /\ Left' \in Seq(KernelEvents) /\ Left' # <<>> /\ Left'[Len(Left')] = e
        /\ k < Len(Left')
    <3>1. Left' \in Seq(KernelEvents) /\ Left' # <<>> /\ Left'[Len(Left')] = e
          /\ Len(Left') \in Nat \ {0}
      BY <2>1, LeftAfter, EmptySeq
    <3>2. k = 1 => 1 < Len(Left')
      <4>1. k = 1 => offset' < Len(buf') /\ out' = None
        BY <1>4
      <4> QED
        BY <2>1, <4>1, LeftAfter
    <3> QED
      BY <3>1, <3>2
  <2>4. Comes(Left', Created(d), k)
    BY <1>7, <2>2, <2>3, ComesStill
  <2> QED
    BY <2>4 DEF Watching
<1>15. t \in {"ADDED", "DELETED"} \/ d # p
  BY <1>3 DEF Types
<1> QED
  BY <1>11, <1>12, <1>13, <1>14, <1>15

LEMMA SightedNext ==
  TypeOK /\ Reading /\ TypeOK' /\ Reading' /\ Sighted /\ [Next]_vars => Sighted'
<1> SUFFICES ASSUME TypeOK, Reading, TypeOK', Reading', Sighted, [Next]_vars
             PROVE  Sighted'
  OBVIOUS
<1> USE DEF diskVars, readerVars, senderVars
<1>1. ASSUME NEW p \in Paths, Change(p)
      PROVE  Sighted'
  <2>1. UNCHANGED <<buf, offset, out, looked>>
    BY <1>1 DEF Change, Happens
  <2>2. ASSUME NEW d \in Dirs
        PROVE  Watching(d, 0)'
    <3>1. Watching(d, 0)
      BY DEF Sighted
    <3> QED
      BY <1>1, <3>1, WatchingChange
  <2>3. ASSUME looked, out = None
        PROVE  Watching(buf[offset + 1].path, 1)'
    <3>1. buf[offset + 1].path \in Dirs /\ offset < Len(buf)
      BY <2>3 DEF Reading, IsNewDir
    <3>2. PICK d \in Dirs : d = buf[offset + 1].path
      BY <3>1
    <3>3. Watching(d, 1)
      BY <2>3, <3>2 DEF Sighted
    <3>4. Watching(d, 1)'
      BY <1>1, <2>3, <3>1, <3>3, WatchingChange
    <3> QED
      BY <2>1, <3>2, <3>4 DEF Watching
  <2> QED
    BY <2>1, <2>2, <2>3 DEF Sighted, Watching
<1>2. ASSUME UNCHANGED <<files, watched, unseen>>, Left' = Left,
             ~ looked' \/ UNCHANGED <<looked, out, buf, offset>>
      PROVE  Sighted'
  BY <1>2 DEF Sighted, Watching, Comes
<1>3. ASSUME UNCHANGED <<files, watched, unseen>>, UNCHANGED <<buf, offset, out, kernel, looked>>
      PROVE  Sighted'
  BY <1>2, <1>3, LeftMoves
<1>4. ASSUME NEW p \in Paths, DebounceOver(p)
      PROVE  Sighted'
  BY <1>3, <1>4 DEF DebounceOver
<1>5. CASE Read
  <2>1. ~ looked'
    BY <1>5 DEF Read, Reading, TypeOK
  <2>2. UNCHANGED <<files, watched, unseen>>
    BY <1>5 DEF Read
  <2> QED
    BY <1>2, <1>5, <2>1, <2>2, LeftMoves
(* The event at the head is dealt with: it is not the creation of d, or d   *)
(* was looked at.                                                           *)
<1>6. ASSUME NEW d \in Dirs, offset < Len(buf), out = None,
             buf[offset + 1] = Created(d) => looked
      PROVE  files[d] # None => d \in watched \/ d \in unseen \/ Comes(Tail(Left), Created(d), 0)
  <2>1. /\ Left \in Seq(KernelEvents) /\ Left # <<>> /\ Left[1] = buf[offset + 1]
        /\ Created(d) \in KernelEvents /\ Created(d).path = d
    BY <1>6, LeftType, CreatedIs
  <2>2. Watching(d, 0) /\ (Left[1] = Created(d) => Watching(d, 1))
    BY <1>6, <2>1 DEF Sighted
  <2>3. /\ Comes(Left, Created(d), 1) => Comes(Tail(Left), Created(d), 0)
        /\ Comes(Left, Created(d), 0) /\ Left[1] # Created(d) => Comes(Left, Created(d), 1)
    BY <2>1, ComesStill
  <2> QED
    BY <2>2, <2>3 DEF Watching
<1>7. CASE SkipOverflow
  <2>1. /\ Left' = Tail(Left) /\ out = None /\ offset < Len(buf) /\ ~ looked'
        /\ buf[offset + 1] = Overflow /\ UNCHANGED <<files, watched, unseen>>
    <3>1. ~ IsNewDir(Overflow)
      BY DEF IsNewDir, Overflow
    <3> QED
      BY <1>7, <3>1, LeftMoves DEF SkipOverflow, Reading
  <2>2. ASSUME NEW d \in Dirs
        PROVE  Watching(d, 0)'
    <3>1. buf[offset + 1] # Created(d)
      BY <2>1, CreatedIs
    <3> QED
      BY <1>6, <2>1, <3>1 DEF Watching
  <2> QED
    BY <2>1, <2>2 DEF Sighted
<1>8. CASE Look
  <2> DEFINE e == buf[offset + 1]
  <2>1. /\ UNCHANGED <<buf, offset, out, kernel>> /\ UNCHANGED <<files, unseen>>
        /\ watched' = watched \cup ({d \in Dirs : files[d] # None} \cap {e.path})
        /\ e.path \in Dirs
    BY <1>8 DEF Look, MayBeWatched, IsNewDir
  <2>2. Left' = Left
    BY <2>1, LeftMoves
  <2>3. ASSUME NEW d \in Dirs
        PROVE  Watching(d, 0)'
    <3>1. Watching(d, 0)
      BY DEF Sighted
    <3> QED
      BY <2>1, <2>2, <3>1 DEF Watching, Comes
  <2>4. Watching(e.path, 1)'
    BY <2>1 DEF Watching
  <2> QED
    BY <2>1, <2>3, <2>4 DEF Sighted
<1>9. CASE Handle
  <2>1. /\ Left' = Tail(Left) /\ out = None /\ offset < Len(buf)
        /\ IsNewDir(buf[offset + 1]) => looked
        /\ UNCHANGED <<files, watched, unseen>>
    BY <1>9, LeftMoves DEF Handle
  <2>2. ASSUME NEW d \in Dirs
        PROVE  Watching(d, 0)'
    <3>1. buf[offset + 1] = Created(d) => looked
      BY <2>1, CreatedIs
    <3> QED
      BY <1>6, <2>1, <3>1 DEF Watching
  <2>3. out' # None
    BY <1>9, HandleReports
  <2> QED
    BY <2>2, <2>3 DEF Sighted
<1>10. CASE Put
  <2>1. ~ looked' /\ UNCHANGED <<files, watched, unseen>>
    BY <1>10 DEF Put
  <2> QED
    BY <1>2, <1>10, <2>1, LeftMoves
<1>11. CASE Dial
  BY <1>3, <1>11 DEF Dial
<1>12. CASE Take
  BY <1>3, <1>12 DEF Take
<1>13. CASE Send
  BY <1>3, <1>13 DEF Send
<1>14. CASE SendFails
  BY <1>3, <1>14 DEF SendFails
<1>15. ASSUME NEW r \in requeue, Requeue(r)
       PROVE  Sighted'
  BY <1>3, <1>15 DEF Requeue
<1>16. CASE UNCHANGED vars
  BY <1>3, <1>16 DEF vars
<1> QED
  BY <1>1, <1>4, <1>5, <1>7, <1>8, <1>9, <1>10, <1>11, <1>12, <1>13, <1>14, <1>15,
     <1>16
     DEF Next

LEMMA SightedShows == TypeOK /\ Reading /\ Sighted => NoBlindDirectory
<1> SUFFICES ASSUME TypeOK, Reading, Sighted, NEW d \in Dirs, files[d] # None,
                    d \notin watched, d \notin unseen
             PROVE  CreationPending(d)
  BY DEF NoBlindDirectory
<1>1. PICK i \in 1..Len(Left) : Left[i] = Created(d)
  BY DEF Sighted, Watching, Comes
<1>2. \/ \E j \in 1..Len(kernel) : kernel[j] = Left[i]
      \/ \E j \in 1..Len(buf) : j > Done /\ buf[j] = Left[i]
  BY LeftWhere
<1>3. CASE \E j \in 1..Len(kernel) : kernel[j] = Left[i]
  BY <1>1, <1>3 DEF CreationPending, Created
<1>4. CASE \E j \in 1..Len(buf) : j > Done /\ buf[j] = Left[i]
  <2>1. PICK j \in 1..Len(buf) : j > Done /\ buf[j] = Created(d)
    BY <1>1, <1>4
  <2>2. Len(buf) \in Nat /\ offset \in Nat
    BY LenProperties DEF TypeOK
  <2>3. j \in (offset + 1)..Len(buf) /\ (j > offset + 1 \/ out = None)
    BY <2>1, <2>2 DEF Done
  <2> QED
    BY <2>1, <2>3 DEF CreationPending, Created
<1> QED
  BY <1>2, <1>3, <1>4

(* A directory that exists is watched, its creation is still to be handled, *)
(* or the kernel kept no event of it, however often it is removed and made  *)
(* again (FileCollector.NoBlindDirectory; FileCollector/main.go:223-229).   *)
THEOREM DirectoriesWatched == Spec => []NoBlindDirectory
<1>1. Init => Sighted
  BY SightedInit
<1>2. TypeOK /\ Reading /\ TypeOK' /\ Reading' /\ Sighted /\ [Next]_vars => Sighted'
  BY SightedNext
<1>3. TypeOK /\ Reading /\ Sighted => NoBlindDirectory
  BY SightedShows
<1> QED
  BY <1>1, <1>2, <1>3, TypeAlways, PTL DEF Spec

-----------------------------------------------------------------------------
LEMMA HoldsMore ==
  ASSUME NEW s \in Seq(Reports), NEW x \in Reports
  PROVE  /\ \A n : Holds(Append(s, x), n) <=> Holds(s, n) \/ x.n = n
         /\ Distinct(s) /\ ~ Holds(s, x.n) => Distinct(Append(s, x))
<1> DEFINE t == Append(s, x)
<1>1. /\ Len(t) = Len(s) + 1 /\ Len(s) \in Nat
      /\ \A i \in 1..Len(s) : t[i] = s[i]
      /\ t[Len(s) + 1] = x
  BY AppendProperties, LenProperties
<1> HIDE DEF t
<1>2. \A i : i \in 1..Len(t) <=> i \in 1..Len(s) \/ i = Len(s) + 1
  BY <1>1
<1>3. \A n : Holds(t, n) <=> Holds(s, n) \/ x.n = n
  BY <1>1, <1>2 DEF Holds
<1>4. ASSUME Distinct(s), ~ Holds(s, x.n)
      PROVE  Distinct(t)
  BY <1>1, <1>2, <1>4 DEF Holds, Distinct
<1> QED
  BY <1>3, <1>4 DEF t

LEMMA HoldsLess ==
  ASSUME NEW s \in Seq(Reports), s # <<>>, Distinct(s)
  PROVE  /\ Head(s) \in Reports /\ Holds(s, Head(s).n) /\ Distinct(Tail(s))
         /\ \A n : Holds(Tail(s), n) <=> Holds(s, n) /\ n # Head(s).n
<1> DEFINE t == Tail(s)
<1>1. /\ Len(t) = Len(s) - 1 /\ Len(s) \in Nat \ {0} /\ Head(s) = s[1] /\ Head(s) \in Reports
      /\ \A i \in 1..Len(t) : t[i] = s[i + 1]
  BY HeadTailProperties, EmptySeq, LenProperties
<1> HIDE DEF t
<1>2. \A i \in 1..Len(t) : i + 1 \in 1..Len(s) /\ i + 1 # 1 /\ t[i] = s[i + 1]
  BY <1>1
<1>3. \A i \in 1..Len(s) : i # 1 => i - 1 \in 1..Len(t) /\ t[i - 1] = s[i]
  BY <1>1
<1>4. 1 \in 1..Len(s)
  BY <1>1
<1>5. Holds(s, Head(s).n)
  BY <1>1, <1>4 DEF Holds
<1>6. Distinct(t)
  <2> SUFFICES ASSUME NEW i \in 1..Len(t), NEW j \in 1..Len(t), t[i].n = t[j].n
               PROVE  i = j
    BY DEF Distinct
  <2>1. i + 1 = j + 1
    BY <1>2 DEF Distinct
  <2> QED
    BY <1>1, <2>1
<1>7. ASSUME NEW n, Holds(t, n)
      PROVE  Holds(s, n) /\ n # Head(s).n
  <2>1. PICK i \in 1..Len(t) : t[i].n = n
    BY <1>7 DEF Holds
  <2>2. s[i + 1].n = n /\ i + 1 \in 1..Len(s) /\ i + 1 # 1
    BY <1>2, <2>1
  <2> QED
    BY <1>1, <1>4, <2>2 DEF Holds, Distinct
<1>8. ASSUME NEW n, Holds(s, n), n # Head(s).n
      PROVE  Holds(t, n)
  <2>1. PICK i \in 1..Len(s) : s[i].n = n
    BY <1>8 DEF Holds
  <2>2. i # 1
    BY <1>1, <1>8, <2>1
  <2> QED
    BY <1>3, <2>1, <2>2 DEF Holds
<1> QED
  BY <1>1, <1>5, <1>6, <1>7, <1>8 DEF t

LEMMA PlacesInit == Init => OnePlaceEach
<1> SUFFICES ASSUME Init
             PROVE  OnePlaceEach
  OBVIOUS
<1>1. made = 0 /\ out = None /\ sending = None /\ requeue = {} /\ delivered = {} /\ chan = <<>>
  BY DEF Init
<1>2. Len(chan) = 0
  BY <1>1, EmptySeq
<1>3. Distinct(chan) /\ \A n : ~ AtChan(n)
  BY <1>2 DEF Distinct, AtChan, Holds
<1>4. \A n \in Nat : ~ (n < made)
  BY <1>1
<1> QED
  BY <1>1, <1>3, <1>4 DEF OnePlaceEach, Placed, NoneOf, AtOut, AtMain, AtRequeue,
     AtEnd

(* A report that is somewhere is nowhere else.                              *)
LEMMA PlacedOnce ==
  ASSUME OnePlaceEach, NEW n \in Nat
  PROVE  /\ AtOut(n) \/ AtMain(n) \/ AtRequeue(n) \/ AtChan(n) \/ AtEnd(n) => n < made
         /\ AtOut(n) \/ AtMain(n) \/ AtRequeue(n) => ~ AtChan(n)
         /\ AtMain(n) => ~ AtRequeue(n)
BY DEF OnePlaceEach, Placed, OneOf, NoneOf

LEMMA PlacesNext == TypeOK /\ OnePlaceEach /\ [Next]_vars => OnePlaceEach'
<1> SUFFICES ASSUME TypeOK, OnePlaceEach, [Next]_vars
             PROVE  OnePlaceEach'
  OBVIOUS
<1> USE DEF diskVars, readerVars, senderVars
<1>1. /\ chan \in Seq(Reports) /\ Distinct(chan) /\ made \in Nat
      /\ out # None => out \in Reports /\ out.n \in Nat
      /\ sending # None => sending \in Reports /\ sending.n \in Nat
      /\ \A r \in requeue : r \in Reports /\ r.n \in Nat
      /\ \A q, r \in requeue : q.n = r.n => q = r
      /\ \A n \in Nat : Placed(n)
  BY DEF TypeOK, OnePlaceEach, Reports
<1>2. ASSUME UNCHANGED <<made, out, chan, sending, requeue, delivered>>
      PROVE  OnePlaceEach'
  BY <1>1, <1>2 DEF OnePlaceEach, Placed, AtOut, AtChan, AtMain, AtRequeue, AtEnd
<1>3. ASSUME NEW p \in Paths, Change(p)
      PROVE  OnePlaceEach'
  BY <1>2, <1>3 DEF Change, Happens
<1>4. ASSUME NEW p \in Paths, DebounceOver(p)
      PROVE  OnePlaceEach'
  BY <1>2, <1>4 DEF DebounceOver
<1>5. CASE Read
  BY <1>2, <1>5 DEF Read
<1>6. CASE SkipOverflow
  BY <1>2, <1>6 DEF SkipOverflow
<1>7. CASE Look
  BY <1>2, <1>7 DEF Look
<1>8. CASE Handle
  <2>1. out = None /\ out' # None /\ out'.n = made /\ made' = made + 1
        /\ UNCHANGED <<chan, sending, requeue, delivered>>
    BY <1>8, HandleReports DEF Handle
  <2>2. ASSUME NEW n \in Nat
        PROVE  Placed(n)'
    <3>1. Placed(n) /\ Placed(made)
      BY <1>1
    <3>2. (AtOut(n)' <=> n = made) /\ ~ AtOut(n)
      BY <2>1 DEF AtOut
    <3>3. /\ AtChan(n)' <=> AtChan(n)
          /\ AtMain(n)' <=> AtMain(n)
          /\ AtRequeue(n)' <=> AtRequeue(n)
          /\ AtEnd(n)' <=> AtEnd(n)
      BY <2>1 DEF AtChan, AtMain, AtRequeue, AtEnd
    <3>4. (n < made' <=> n < made \/ n = made) /\ ~ (made < made)
      BY <1>1, <2>1
    <3> QED
      BY <3>1, <3>2, <3>3, <3>4 DEF Placed, OneOf, NoneOf
  <2> QED
    BY <1>1, <2>1, <2>2 DEF OnePlaceEach
<1>9. CASE Put
  <2>1. out # None /\ out' = None /\ chan' = Append(chan, out) /\ out \in Reports
        /\ UNCHANGED <<made, sending, requeue, delivered>>
    BY <1>1, <1>9 DEF Put
  <2>2. out.n \in Nat /\ AtOut(out.n) /\ ~ AtChan(out.n)
    BY <1>1, <2>1, PlacedOnce DEF AtOut
  <2>3. Distinct(chan') /\ \A n : AtChan(n)' <=> AtChan(n) \/ out.n = n
    BY <1>1, <2>1, <2>2, HoldsMore DEF AtChan
  <2>4. ASSUME NEW n \in Nat
        PROVE  Placed(n)'
    <3>1. Placed(n)
      BY <1>1
    <3>2. (AtOut(n) <=> n = out.n) /\ ~ AtOut(n)'
      BY <2>1 DEF AtOut
    <3>3. /\ AtMain(n)' <=> AtMain(n)
          /\ AtRequeue(n)' <=> AtRequeue(n)
          /\ AtEnd(n)' <=> AtEnd(n)
      BY <2>1 DEF AtMain, AtRequeue, AtEnd
    <3>4. AtChan(n)' <=> AtChan(n) \/ AtOut(n)
      BY <2>3, <3>2
    <3>5. made' = made
      BY <2>1
    <3> QED
      BY <3>1, <3>2, <3>3, <3>4, <3>5 DEF Placed, OneOf, NoneOf
  <2> QED
    BY <1>1, <2>1, <2>3, <2>4 DEF OnePlaceEach
<1>10. CASE Take
  <2>1. /\ sending = None /\ chan # <<>> /\ sending' = Head(chan) /\ chan' = Tail(chan)
        /\ UNCHANGED <<made, out, requeue, delivered>>
    BY <1>10 DEF Take
  <2> DEFINE x == Head(chan)
  <2>2. /\ x \in Reports /\ AtChan(x.n) /\ Distinct(chan')
        /\ \A n : AtChan(n)' <=> AtChan(n) /\ n # x.n
    BY <1>1, <2>1, HoldsLess DEF AtChan
  <2>3. sending' = x /\ sending' # None
    BY <2>1, <2>2, NoReportAssumption
  <2> HIDE DEF x
  <2>4. ASSUME NEW n \in Nat
        PROVE  Placed(n)'
    <3>1. Placed(n)
      BY <1>1
    <3>2. ~ AtMain(n) /\ (AtMain(n)' <=> n = x.n)
      BY <2>1, <2>3 DEF AtMain
    <3>3. /\ AtOut(n)' <=> AtOut(n)
          /\ AtRequeue(n)' <=> AtRequeue(n)
          /\ AtEnd(n)' <=> AtEnd(n)
      BY <2>1 DEF AtOut, AtRequeue, AtEnd
    <3>4. /\ AtChan(n)' <=> AtChan(n) /\ ~ AtMain(n)'
          /\ AtMain(n)' => AtChan(n)
      BY <2>2, <3>2
    <3>5. made' = made
      BY <2>1
    <3> QED
      BY <3>1, <3>2, <3>3, <3>4, <3>5 DEF Placed, OneOf, NoneOf
  <2> QED
    BY <1>1, <2>1, <2>2, <2>4 DEF OnePlaceEach
<1>11. CASE Send
  <2>1. /\ sending # None /\ sending' = None /\ delivered' = delivered \cup {sending}
        /\ UNCHANGED <<made, out, chan, requeue>>
    BY <1>11 DEF Send
  <2>2. ASSUME NEW n \in Nat
        PROVE  Placed(n)'
    <3>1. Placed(n)
      BY <1>1
    <3>2. (AtEnd(n)' <=> AtEnd(n) \/ AtMain(n)) /\ ~ AtMain(n)'
      BY <2>1 DEF AtMain, AtEnd
    <3>3. /\ AtOut(n)' <=> AtOut(n)
          /\ AtChan(n)' <=> AtChan(n)
          /\ AtRequeue(n)' <=> AtRequeue(n)
      BY <2>1 DEF AtOut, AtChan, AtRequeue
    <3>4. made' = made
      BY <2>1
    <3> QED
      BY <3>1, <3>2, <3>3, <3>4 DEF Placed, OneOf, NoneOf
  <2> QED
    BY <1>1, <2>1, <2>2 DEF OnePlaceEach
<1>12. CASE SendFails
  <2>1. /\ sending # None /\ sending' = None /\ requeue' = requeue \cup {sending}
        /\ UNCHANGED <<made, out, chan, delivered>>
    BY <1>12 DEF SendFails, Kept, NoReport
  <2>2. sending.n \in Nat /\ AtMain(sending.n) /\ ~ AtRequeue(sending.n)
    BY <1>1, <2>1, PlacedOnce DEF AtMain
  <2>3. \A q, r \in requeue' : q.n = r.n => q = r
    BY <1>1, <2>1, <2>2 DEF AtRequeue
  <2>4. ASSUME NEW n \in Nat
        PROVE  Placed(n)'
    <3>1. Placed(n)
      BY <1>1
    <3>2. (AtRequeue(n)' <=> AtRequeue(n) \/ AtMain(n)) /\ ~ AtMain(n)'
      BY <2>1 DEF AtMain, AtRequeue
    <3>3. /\ AtOut(n)' <=> AtOut(n)
          /\ AtChan(n)' <=> AtChan(n)
          /\ AtEnd(n)' <=> AtEnd(n)
      BY <2>1 DEF AtOut, AtChan, AtEnd
    <3>4. made' = made
      BY <2>1
    <3> QED
      BY <3>1, <3>2, <3>3, <3>4 DEF Placed, OneOf, NoneOf
  <2> QED
    BY <1>1, <2>1, <2>3, <2>4 DEF OnePlaceEach
<1>13. ASSUME NEW r \in requeue, Requeue(r)
       PROVE  OnePlaceEach'
  <2>1. /\ chan' = Append(chan, r) /\ requeue' = requeue \ {r} /\ r \in Reports
        /\ UNCHANGED <<made, out, sending, delivered>>
    BY <1>1, <1>13 DEF Requeue
  <2>2. r.n \in Nat /\ AtRequeue(r.n) /\ ~ AtChan(r.n)
    BY <1>1, <1>13, PlacedOnce DEF AtRequeue
  <2>3. Distinct(chan') /\ \A n : AtChan(n)' <=> AtChan(n) \/ r.n = n
    BY <1>1, <2>1, <2>2, HoldsMore DEF AtChan
  <2>4. \A q, s \in requeue' : q.n = s.n => q = s
    BY <1>1, <2>1
  <2>5. ASSUME NEW n \in Nat
        PROVE  Placed(n)'
    <3>1. Placed(n)
      BY <1>1
    <3>2. AtRequeue(n)' <=> AtRequeue(n) /\ n # r.n
      BY <1>1, <1>13, <2>1 DEF AtRequeue
    <3>3. /\ AtOut(n)' <=> AtOut(n)
          /\ AtMain(n)' <=> AtMain(n)
          /\ AtEnd(n)' <=> AtEnd(n)
      BY <2>1 DEF AtOut, AtMain, AtEnd
    <3>4. n = r.n => AtRequeue(n) /\ ~ AtChan(n)
      BY <2>2
    <3>5. made' = made
      BY <2>1
    <3> QED
      BY <2>3, <3>1, <3>2, <3>3, <3>4, <3>5 DEF Placed, OneOf, NoneOf
  <2> QED
    BY <1>1, <2>1, <2>3, <2>4, <2>5 DEF OnePlaceEach
<1>14. CASE Dial
  BY <1>2, <1>14 DEF Dial
<1>15. CASE UNCHANGED vars
  BY <1>2, <1>15 DEF vars
<1> QED
  BY <1>3, <1>4, <1>5, <1>6, <1>7, <1>8, <1>9, <1>10, <1>11, <1>12, <1>13, <1>14,
     <1>15
     DEF Next

LEMMA PlacesShow == TypeOK /\ OnePlaceEach => ReportsAccountedFor
<1> SUFFICES ASSUME TypeOK, OnePlaceEach, NEW n \in 0..(made - 1)
             PROVE  Cardinality(Held(n)) = 1
  BY DEF ReportsAccountedFor
<1> DEFINE a == IF out # None /\ out.n = n THEN {<<"out", 1>>} ELSE {}
           b == {<<"chan", i>> : i \in {i \in 1..Len(chan) : chan[i].n = n}}
           c == IF sending # None /\ sending.n = n THEN {<<"sending", 1>>} ELSE {}
           d == {<<"requeue", 1>> : r \in {r \in requeue : r.n = n}}
           e == {<<"delivered", 1>> : r \in {r \in delivered : r.n = n}}
<1>1. Held(n) = a \cup b \cup c \cup d \cup e
  BY DEF Held
<1>2. n \in Nat /\ n < made
  BY DEF TypeOK
<1>3. OneOf(AtOut(n), AtChan(n), AtMain(n), AtRequeue(n), AtEnd(n)) /\ Distinct(chan)
  BY <1>2 DEF OnePlaceEach, Placed
<1>4. (AtOut(n) => a = {<<"out", 1>>}) /\ (~ AtOut(n) => a = {})
  BY DEF AtOut
<1>5. (AtMain(n) => c = {<<"sending", 1>>}) /\ (~ AtMain(n) => c = {})
  BY DEF AtMain
<1>6. (AtRequeue(n) => d = {<<"requeue", 1>>}) /\ (~ AtRequeue(n) => d = {})
  BY DEF AtRequeue
<1>7. (AtEnd(n) => e = {<<"delivered", 1>>}) /\ (~ AtEnd(n) => e = {})
  BY DEF AtEnd
<1>8. ~ AtChan(n) => b = {}
  BY DEF AtChan, Holds
<1>9. AtChan(n) => \E x : b = {x}
  <2> SUFFICES ASSUME AtChan(n)
               PROVE  \E x : b = {x}
    OBVIOUS
  <2>1. PICK i \in 1..Len(chan) : chan[i].n = n
    BY DEF AtChan, Holds
  <2>2. {j \in 1..Len(chan) : chan[j].n = n} = {i}
    BY <1>3, <2>1 DEF Distinct
  <2>3. b = {<<"chan", i>>}
    BY <2>2
  <2> QED
    BY <2>3
<1> HIDE DEF a, b, c, d, e
<1>10. \E x : Held(n) = {x}
  <2>1. CASE AtOut(n)
    BY <1>1, <1>3, <1>4, <1>5, <1>6, <1>7, <1>8, <2>1 DEF OneOf
  <2>2. CASE AtChan(n)
    <3>1. Held(n) = b
      BY <1>1, <1>3, <1>4, <1>5, <1>6, <1>7, <2>2 DEF OneOf
    <3> QED
      BY <1>9, <2>2, <3>1
  <2>3. CASE AtMain(n)
    BY <1>1, <1>3, <1>4, <1>5, <1>6, <1>7, <1>8, <2>3 DEF OneOf
  <2>4. CASE AtRequeue(n)
    BY <1>1, <1>3, <1>4, <1>5, <1>6, <1>7, <1>8, <2>4 DEF OneOf
  <2>5. CASE AtEnd(n)
    BY <1>1, <1>3, <1>4, <1>5, <1>6, <1>7, <1>8, <2>5 DEF OneOf
  <2> QED
    BY <1>3, <2>1, <2>2, <2>3, <2>4, <2>5 DEF OneOf
<1> QED
  BY <1>10, FS_Singleton

(* Until it is delivered every report is in exactly one place, for any      *)
(* number of failures and any capacity of eventChan                         *)
(* (FileCollector.ReportsAccountedFor; FileCollector/main.go:301-338).      *)
THEOREM ReportsKept == Spec => []ReportsAccountedFor
<1>1. Init => OnePlaceEach
  BY PlacesInit
<1>2. TypeOK /\ OnePlaceEach /\ [Next]_vars => OnePlaceEach'
  BY PlacesNext
<1>3. TypeOK /\ OnePlaceEach => ReportsAccountedFor
  BY PlacesShow
<1> QED
  BY <1>1, <1>2, <1>3, TypeAlways, PTL DEF Spec
=============================================================================
