---------------------------- MODULE RWLockProofs ----------------------------
(***************************************************************************)
(* Theorems about AsyncRWLock, for any finite set of tasks.                *)
(***************************************************************************)
EXTENDS RWLock, SequenceTheorems, FiniteSetTheorems, NaturalsInduction, WellFoundedInduction, TLAPS

InQueue(q, p) == \E i \in 1..Len(q) : q[i] = p

\* The counters, the queue and the grants fit together.
LockInv(r, w, q, m, g) ==
    /\ r = Cardinality({p \in Procs : g[p] /\ m[p] = "read"})
    /\ w <=> \E p \in Procs : g[p] /\ m[p] = "write"
    /\ \A p1, p2 \in Procs :
          (p1 # p2 /\ g[p1] /\ g[p2]) => m[p1] = "read" /\ m[p2] = "read"
    /\ \A i \in 1..Len(q) : ~g[q[i]]
    /\ \A i, j \in 1..Len(q) : q[i] = q[j] => i = j

\* A lock that is free has no queue.
Busy(r, w, q) == q # <<>> => (w \/ r > 0)

\* How a task's place in the code goes with its grant and its future.
TaskInv ==
    \A p \in Procs :
        /\ pc[p] \in {"inside", "leaving"} => granted[p]
        /\ pc[p] = "idle" => ~granted[p]
        /\ (pc[p] = "waiting" /\ wake[p] = "result") => granted[p]
        /\ (pc[p] = "waiting" /\ wake[p] = "none") => ~granted[p]
        /\ (pc[p] = "waiting" /\ ~granted[p]) <=> InQueue(waiters, p)

IInv ==
    /\ TypeOK
    /\ LockInv(readers, writer, waiters, mode, granted)
    /\ Busy(readers, writer, waiters)
    /\ TaskInv

-----------------------------------------------------------------------------
(* The queue *)

\* Every nonempty set of positions of the queue has a first one.
LEMMA FirstPosition ==
    ASSUME NEW T, T \subseteq Nat, T # {}
    PROVE  \E x \in T : \A y \in T : x <= y
<1>1. PICK x \in T : \A y \in T : ~(<<y, x>> \in OpToRel(<, Nat))
  BY NatLessThanWellFounded, WFMin, Zenon
<1>2. \A y \in T : ~(y < x)
  BY <1>1, Zenon DEF OpToRel
<1> QED
  BY <1>2

\* LeadingReads is a run of read requests that no further read request extends.
LEMMA LeadingReadsRun ==
    ASSUME NEW q \in Seq(Procs), NEW m \in [Procs -> Modes]
    PROVE  LET n == LeadingReads(q, m)
           IN  /\ n \in 0..Len(q)
               /\ \A i \in 1..n : m[q[i]] = "read"
               /\ n < Len(q) => m[q[n + 1]] = "write"
<1> DEFINE W == {i \in 1..Len(q) : m[q[i]] = "write"}
           Run(n) == /\ \A i \in 1..n : m[q[i]] = "read"
                     /\ n < Len(q) => m[q[n + 1]] = "write"
<1>1. \A i \in 1..Len(q) : m[q[i]] \in {"read", "write"}
  BY DEF Modes
<1>2. \E n \in 0..Len(q) : Run(n)
  <2>1. CASE W = {}
    <3>1. Run(Len(q))
      BY <1>1, <2>1
    <3> QED
      BY <3>1
  <2>2. CASE W # {}
    <3>1. PICK x \in W : \A y \in W : x <= y
      <4>1. W \subseteq Nat
        OBVIOUS
      <4> HIDE DEF W
      <4> QED
        BY <4>1, <2>2, FirstPosition
    <3>2. x - 1 \in 0..Len(q) /\ (x - 1) + 1 = x
      BY <3>1
    <3>3. Run(x - 1)
      BY <1>1, <3>1, <3>2
    <3> QED
      BY <3>2, <3>3
  <2> QED
    BY <2>1, <2>2
<1> QED
  BY <1>2 DEF LeadingReads

\* What _wake_next makes, as s, of a lock whose queue is q and whose waiters
\* have modes m, grants g and futures f.
HandedOver(q, m, g, f, s) ==
    /\ s.readers \in Nat /\ s.writer \in BOOLEAN /\ s.waiters \in Seq(Procs)
    /\ s.granted \in [Procs -> BOOLEAN]
    /\ s.wake \in [Procs -> {"none", "result", "cancel"}]
    /\ LockInv(s.readers, s.writer, s.waiters, m, s.granted)
    /\ Busy(s.readers, s.writer, s.waiters)
    /\ \A p \in Procs :
         /\ s.granted[p] => g[p] \/ InQueue(q, p)
         /\ g[p] => s.granted[p]
         /\ InQueue(s.waiters, p) <=> InQueue(q, p) /\ ~s.granted[p]
         /\ s.wake[p] = IF s.granted[p] /\ ~g[p] /\ f[p] = "none"
                        THEN "result" ELSE f[p]

\* _wake_next keeps a consistent lock consistent.
LEMMA WakeNextHandsOver ==
    ASSUME NEW r \in Nat, NEW w \in BOOLEAN, NEW q \in Seq(Procs),
           NEW m \in [Procs -> Modes], NEW g \in [Procs -> BOOLEAN],
           NEW f \in [Procs -> {"none", "result", "cancel"}],
           LockInv(r, w, q, m, g)
    PROVE  HandedOver(q, m, g, f, WakeNext(r, w, q, m, g, f))
<1> DEFINE s == WakeNext(r, w, q, m, g, f)
           n == Admitted(r, w, q, m)
           A == {q[i] : i \in 1..n}
           R(h) == {p \in Procs : h[p] /\ m[p] = "read"}
<1>1. /\ Len(q) \in Nat /\ \A i \in 1..Len(q) : q[i] \in Procs
      /\ \A p \in Procs : m[p] \in {"read", "write"}
  BY DEF Modes
<1>2. /\ s.waiters = SubSeq(q, n + 1, Len(q))
      /\ s.granted = [p \in Procs |-> g[p] \/ p \in A]
      /\ s.readers = r + Cardinality({p \in A : m[p] = "read"})
      /\ s.writer = (w \/ \E p \in A : m[p] = "write")
      /\ s.wake = [p \in Procs |-> IF p \in A /\ f[p] = "none"
                                  THEN "result" ELSE f[p]]
  BY DEF WakeNext
<1> HIDE DEF s
<1>3. /\ n \in 0..Len(q)
      /\ n > 0 => ~w /\ r = 0 /\ q # <<>>
      /\ n = 0 => w \/ r > 0 \/ q = <<>>
      /\ \/ \A i \in 1..n : m[q[i]] = "read"
         \/ n = 1 /\ m[q[1]] = "write"
  <2>1. CASE w \/ r > 0 \/ q = <<>>
    BY <1>1, <2>1 DEF Admitted
  <2>2. CASE ~(w \/ r > 0 \/ q = <<>>)
    <3>1. Len(q) \in Nat \ {0} /\ Head(q) = q[1]
      BY <2>2, <1>1
    <3>2. CASE m[Head(q)] = "write"
      BY <2>2, <3>1, <3>2 DEF Admitted
    <3>3. CASE m[Head(q)] # "write"
      <4>1. n = LeadingReads(q, m)
        BY <2>2, <3>3 DEF Admitted
      <4>2. /\ n \in 0..Len(q) /\ \A i \in 1..n : m[q[i]] = "read"
            /\ n < Len(q) => m[q[n + 1]] = "write"
        BY <4>1, LeadingReadsRun
      <4> QED
        BY <2>2, <3>1, <3>3, <4>2
    <3> QED
      BY <3>2, <3>3
  <2> QED
    BY <2>1, <2>2
<1> HIDE DEF n
<1>4. A \subseteq Procs /\ \A p \in A : ~g[p] /\ InQueue(q, p)
  BY <1>1, <1>3 DEF LockInv, InQueue
<1>5. /\ s.waiters \in Seq(Procs) /\ Len(s.waiters) = Len(q) - n
      /\ \A i \in 1..(Len(q) - n) : s.waiters[i] = q[n + i]
  <2>1. \A i \in (n + 1)..Len(q) : q[i] \in Procs
    BY <1>1, <1>3
  <2>2. /\ SubSeq(q, n + 1, Len(q)) \in Seq(Procs)
        /\ Len(SubSeq(q, n + 1, Len(q))) = IF n + 1 <= Len(q) THEN Len(q) - (n + 1) + 1 ELSE 0
        /\ \A i \in 1..(Len(q) - (n + 1) + 1) : SubSeq(q, n + 1, Len(q))[i] = q[(n + 1) + i - 1]
    BY <2>1, <1>1, <1>3, SubSeqProperties
  <2> QED
    BY <2>2, <1>1, <1>2, <1>3
<1>6. /\ s.granted \in [Procs -> BOOLEAN]
      /\ s.wake \in [Procs -> {"none", "result", "cancel"}]
      /\ \A p \in Procs : s.granted[p] <=> (g[p] \/ p \in A)
      /\ \A p \in Procs : s.wake[p] = IF p \in A /\ f[p] = "none" THEN "result" ELSE f[p]
  BY <1>2
<1>7. /\ \A i \in 1..Len(s.waiters) : s.waiters[i] \in Procs /\ ~s.granted[s.waiters[i]]
      /\ \A i, j \in 1..Len(s.waiters) : s.waiters[i] = s.waiters[j] => i = j
  <2>1. ASSUME NEW i \in 1..Len(s.waiters)
        PROVE  /\ n + i \in 1..Len(q) /\ n + i > n
               /\ s.waiters[i] = q[n + i] /\ s.waiters[i] \in Procs
    BY <2>1, <1>1, <1>3, <1>5
  <2>2. ASSUME NEW i \in 1..Len(s.waiters)
        PROVE  ~s.granted[s.waiters[i]]
    <3>1. ~g[q[n + i]]
      BY <2>1 DEF LockInv
    <3>2. ASSUME q[n + i] \in A PROVE FALSE
      <4>1. PICK j \in 1..n : q[j] = q[n + i]
        BY <3>2
      <4>2. j \in 1..Len(q) /\ j # n + i
        BY <2>1, <1>1, <1>3
      <4> QED
        BY <4>1, <4>2, <2>1 DEF LockInv
    <3> QED
      BY <3>1, <3>2, <2>1, <1>6
  <2>3. ASSUME NEW i \in 1..Len(s.waiters), NEW j \in 1..Len(s.waiters),
               s.waiters[i] = s.waiters[j]
        PROVE  i = j
    <3>1. n + i = n + j
      BY <2>1, <2>3 DEF LockInv
    <3> QED
      BY <3>1, <1>1, <1>3, <1>5
  <2> QED
    BY <2>1, <2>2, <2>3
<1>8. \A p \in Procs : InQueue(s.waiters, p) <=> InQueue(q, p) /\ ~s.granted[p]
  <2>1. ASSUME NEW p \in Procs, InQueue(s.waiters, p)
        PROVE  InQueue(q, p) /\ ~s.granted[p]
    BY <2>1, <1>1, <1>3, <1>5, <1>7 DEF InQueue
  <2>2. ASSUME NEW p \in Procs, InQueue(q, p), ~s.granted[p]
        PROVE  InQueue(s.waiters, p)
    <3>1. PICK i \in 1..Len(q) : q[i] = p
      BY <2>2 DEF InQueue
    <3>2. i > n
      BY <3>1, <2>2, <1>3, <1>6
    <3>3. i - n \in 1..Len(s.waiters) /\ s.waiters[i - n] = p
      BY <3>1, <3>2, <1>1, <1>3, <1>5
    <3> QED
      BY <3>3 DEF InQueue
  <2> QED
    BY <2>1, <2>2
<1>9. \A S \in SUBSET Procs : IsFiniteSet(S) /\ Cardinality(S) \in Nat /\ (Cardinality(S) = 0 <=> S = {})
  BY ProcsAssumption, FS_Subset, FS_CardinalityType, FS_EmptySet
<1>10. /\ s.readers \in Nat /\ s.writer \in BOOLEAN
       /\ s.readers = Cardinality(R(s.granted))
       /\ s.writer <=> \E p \in Procs : s.granted[p] /\ m[p] = "write"
       /\ \A p1, p2 \in Procs :
             (p1 # p2 /\ s.granted[p1] /\ s.granted[p2]) => m[p1] = "read" /\ m[p2] = "read"
       /\ Busy(s.readers, s.writer, s.waiters)
  <2>1. CASE n = 0
    <3>1. A = {} /\ s.granted = g /\ {p \in A : m[p] = "read"} = {}
      BY <2>1, <1>2, <1>6
    <3>2. s.readers = r /\ s.writer = w
      <4>1. Cardinality({p \in A : m[p] = "read"}) = 0
        BY <3>1, FS_EmptySet
      <4>2. s.readers = r
        BY <4>1, <1>2
      <4>3. s.writer = w
        BY <3>1, <1>2, Zenon
      <4> QED
        BY <4>2, <4>3
    <3>3. s.waiters # <<>> => q # <<>>
      BY <2>1, <1>1, <1>5
    <3> QED
      BY <3>1, <3>2, <3>3, <2>1, <1>3 DEF LockInv, Busy
  <2>2. ASSUME n > 0
        PROVE  \A p \in Procs : ~g[p]
    <3>1. r = 0 /\ ~w
      BY <2>2, <1>3
    <3>2. R(g) = {}
      <4>1. R(g) \in SUBSET Procs /\ Cardinality(R(g)) = 0
        BY <3>1 DEF LockInv
      <4> QED
        BY <4>1, <1>9
    <3> QED
      BY <3>1, <3>2, <1>1 DEF LockInv
  <2>3. CASE n > 0 /\ \A i \in 1..n : m[q[i]] = "read"
    <3>1. /\ R(s.granted) = A /\ {p \in A : m[p] = "read"} = A
          /\ \A p \in Procs : s.granted[p] => m[p] = "read"
      BY <2>2, <2>3, <1>4, <1>6
    <3>2. q[1] \in A
      BY <2>3, <1>3
    <3>3. s.readers = Cardinality(A) /\ s.readers \in Nat /\ s.readers > 0
      <4>1. r = 0 /\ Cardinality(A) \in Nat /\ Cardinality(A) # 0
        BY <3>2, <2>3, <1>3, <1>4, <1>9
      <4>2. s.readers = 0 + Cardinality(A)
        BY <4>1, <3>1, <1>2
      <4> QED
        BY <4>1, <4>2
    <3>4. s.writer = FALSE
      BY <2>3, <1>2, <1>3
    <3> QED
      BY <3>1, <3>3, <3>4 DEF Busy
  <2>4. CASE n = 1 /\ m[q[1]] = "write"
    <3>1. A = {q[1]} /\ q[1] \in Procs
      BY <2>4, <1>4
    <3>2. {p \in A : m[p] = "read"} = {} /\ R(s.granted) = {}
      BY <3>1, <2>2, <2>4, <1>6
    <3>3. s.readers = 0 /\ s.writer = TRUE
      <4>1. Cardinality({p \in A : m[p] = "read"}) = 0
        BY <3>2, FS_EmptySet, Zenon
      <4>2. r = 0
        BY <2>4, <1>3
      <4>3. s.readers = 0
        BY <4>1, <4>2, <1>2
      <4>4. \E p \in A : m[p] = "write"
        BY <3>1, <2>4
      <4>5. s.writer = TRUE
        BY <4>4, <1>2, Zenon
      <4> QED
        BY <4>3, <4>5
    <3>4. \A p \in Procs : s.granted[p] <=> p = q[1]
      BY <3>1, <2>2, <2>4, <1>6
    <3>5. s.readers = Cardinality(R(s.granted))
      BY <3>2, <3>3, FS_EmptySet, Zenon
    <3>6. s.writer <=> \E p \in Procs : s.granted[p] /\ m[p] = "write"
      BY <3>1, <3>3, <3>4, <2>4
    <3>7. s.writer \in BOOLEAN /\ Busy(s.readers, s.writer, s.waiters)
      BY <3>3, Zenon DEF Busy
    <3> QED
      BY <3>3, <3>4, <3>5, <3>6, <3>7
  <2> QED
    BY <2>1, <2>3, <2>4, <1>3
<1>11. LockInv(s.readers, s.writer, s.waiters, m, s.granted)
  BY <1>7, <1>10 DEF LockInv
<1>12. \A p \in Procs :
         /\ s.granted[p] => g[p] \/ InQueue(q, p)
         /\ g[p] => s.granted[p]
         /\ s.wake[p] = IF s.granted[p] /\ ~g[p] /\ f[p] = "none" THEN "result" ELSE f[p]
  BY <1>4, <1>6
<1> QED
  BY <1>5, <1>6, <1>8, <1>10, <1>11, <1>12 DEF HandedOver, s

-----------------------------------------------------------------------------
(* The steps *)

LEMMA FiniteOwners ==
    ASSUME NEW S \in SUBSET Procs
    PROVE  IsFiniteSet(S) /\ Cardinality(S) \in Nat /\ (Cardinality(S) = 0 <=> S = {})
BY ProcsAssumption, FS_Subset, FS_CardinalityType, FS_EmptySet

LEMMA InitIInv == Init => IInv
<1> SUFFICES ASSUME Init PROVE IInv
  OBVIOUS
<1>1. TypeOK
  <2>1. <<>> \in Seq(Procs)
    BY EmptySeq
  <2> QED
    BY <2>1 DEF Init, TypeOK, Modes
<1>2. LockInv(readers, writer, waiters, mode, granted)
  <2>1. {p \in Procs : granted[p] /\ mode[p] = "read"} = {}
    BY DEF Init
  <2>2. readers = Cardinality({p \in Procs : granted[p] /\ mode[p] = "read"})
    BY <2>1, FS_EmptySet DEF Init
  <2> QED
    BY <2>2 DEF Init, LockInv
<1>3. Busy(readers, writer, waiters) /\ TaskInv
  BY DEF Init, Busy, TaskInv, InQueue
<1> QED
  BY <1>1, <1>2, <1>3 DEF IInv

\* Before handing over, a step makes q, g and f of the queue q0, the grants g0
\* and the futures f0, and it leaves p at v: p is idle, or its new request is
\* queued and it goes on inside if the handover grants it.  Nobody else changes.
Prepared(p, q, g, f, s, v, q0, g0, f0) ==
    /\ \A x \in Procs : x # p => /\ g[x] = g0[x] /\ f[x] = f0[x]
                                 /\ InQueue(q, x) <=> InQueue(q0, x)
    /\ ~g[p]
    /\ \/ v = "idle" /\ ~InQueue(q, p)
       \/ /\ InQueue(q, p) /\ f[p] = "none"
          /\ v = IF s.granted[p] THEN "inside" ELSE "waiting"

LEMMA HandOverKeepsIInv ==
    ASSUME IInv, NEW p \in Procs,
           NEW q, NEW g, NEW f, NEW s, NEW v,
           mode' \in [Procs -> Modes],
           Prepared(p, q, g, f, s, v, waiters, granted, wake),
           HandedOver(q, mode', g, f, s),
           readers' = s.readers, writer' = s.writer, waiters' = s.waiters,
           granted' = s.granted, wake' = s.wake,
           pc' = [pc EXCEPT ![p] = v]
    PROVE  IInv'
<1>1. /\ readers' \in Nat /\ writer' \in BOOLEAN /\ waiters' \in Seq(Procs)
      /\ granted' \in [Procs -> BOOLEAN]
      /\ wake' \in [Procs -> {"none", "result", "cancel"}]
      /\ LockInv(readers', writer', waiters', mode', granted')
      /\ Busy(readers', writer', waiters')
      /\ \A x \in Procs :
           /\ granted'[x] => g[x] \/ InQueue(q, x)
           /\ g[x] => granted'[x]
           /\ InQueue(waiters', x) <=> InQueue(q, x) /\ ~granted'[x]
           /\ wake'[x] = IF granted'[x] /\ ~g[x] /\ f[x] = "none"
                         THEN "result" ELSE f[x]
  BY DEF HandedOver
<1>2. TypeOK'
  BY <1>1 DEF IInv, TypeOK, Prepared
<1>3. ASSUME NEW x \in Procs
      PROVE  /\ pc'[x] \in {"inside", "leaving"} => granted'[x]
             /\ pc'[x] = "idle" => ~granted'[x]
             /\ (pc'[x] = "waiting" /\ wake'[x] = "result") => granted'[x]
             /\ (pc'[x] = "waiting" /\ wake'[x] = "none") => ~granted'[x]
             /\ (pc'[x] = "waiting" /\ ~granted'[x]) <=> InQueue(waiters', x)
  <2>1. CASE x = p
    BY <2>1, <1>1 DEF IInv, TypeOK, Prepared
  <2>2. CASE x # p
    <3>1. pc'[x] = pc[x]
      BY <2>2 DEF IInv, TypeOK
    <3>2. /\ g[x] = granted[x] /\ f[x] = wake[x]
          /\ InQueue(q, x) <=> InQueue(waiters, x)
      BY <2>2 DEF Prepared
    <3> QED
      BY <3>1, <3>2, <1>1 DEF IInv, TypeOK, TaskInv
  <2> QED
    BY <2>1, <2>2
<1> QED
  BY <1>1, <1>2, <1>3 DEF IInv, TaskInv

\* A request that arrives is the last of the queue, and the only one of its task.
LEMMA Arrival ==
    ASSUME IInv, NEW p \in Procs, pc[p] = "idle"
    PROVE  LET q == Append(waiters, p)
           IN  /\ q \in Seq(Procs) /\ Len(q) = Len(waiters) + 1 /\ q[Len(waiters) + 1] = p
               /\ \A i \in 1..Len(waiters) : q[i] = waiters[i]
               /\ Len(waiters) \in Nat
               /\ \A i, j \in 1..Len(q) : q[i] = q[j] => i = j
<1> DEFINE q == Append(waiters, p)
<1>1. /\ q \in Seq(Procs) /\ Len(q) = Len(waiters) + 1 /\ q[Len(waiters) + 1] = p
      /\ \A i \in 1..Len(waiters) : q[i] = waiters[i]
      /\ Len(waiters) \in Nat
  BY AppendProperties DEF IInv, TypeOK
<1>2. ~InQueue(waiters, p)
  BY DEF IInv, TaskInv
<1>3. \A i, j \in 1..Len(q) : q[i] = q[j] => i = j
  BY <1>1, <1>2 DEF IInv, LockInv, InQueue
<1> QED
  BY <1>1, <1>3

LEMMA AcquireKeepsIInv ==
    ASSUME IInv, NEW p \in Procs, NEW m \in Modes, Acquire(p, m)
    PROVE  IInv'
<1> DEFINE R == {x \in Procs : granted[x] /\ mode[x] = "read"}
<1>1. /\ pc[p] = "idle" /\ ~granted[p] /\ ~InQueue(waiters, p)
      /\ mode' = [mode EXCEPT ![p] = m] /\ mode' \in [Procs -> Modes] /\ mode'[p] = m
      /\ \A x \in Procs : x # p => mode'[x] = mode[x]
      /\ pc' = [pc EXCEPT ![p] = IF granted'[p] THEN "inside" ELSE "waiting"]
  BY DEF Acquire, IInv, TypeOK, TaskInv
<1>2. readers = Cardinality(R)
  BY DEF IInv, LockInv
<1>3. CASE JoinsReaders(m)
  <2>1. /\ granted' = [granted EXCEPT ![p] = TRUE] /\ readers' = readers + 1
        /\ wake' = [wake EXCEPT ![p] = "result"] /\ writer' = writer /\ waiters' = waiters
        /\ m = "read" /\ readers > 0 /\ waiters = <<>>
    BY <1>3 DEF Acquire, JoinsReaders
  <2>2. TypeOK'
    BY <1>1, <2>1 DEF IInv, TypeOK
  <2>3. readers' = Cardinality({x \in Procs : granted'[x] /\ mode'[x] = "read"})
    <3>1. {x \in Procs : granted'[x] /\ mode'[x] = "read"} = R \cup {p}
      BY <1>1, <2>1 DEF IInv, TypeOK
    <3>2. IsFiniteSet(R) /\ p \notin R
      BY <1>1, FiniteOwners
    <3>3. Cardinality(R \cup {p}) = Cardinality(R) + 1
      BY <3>2, FS_AddElement
    <3> QED
      BY <3>1, <3>3, <1>2, <2>1
  <2>4. \A x \in Procs : granted[x] => mode[x] = "read"
    <3>1. R # {}
      BY <2>1, <1>2, FiniteOwners
    <3>2. PICK y \in Procs : granted[y] /\ mode[y] = "read"
      BY <3>1
    <3> QED
      BY <3>2 DEF IInv, LockInv
  <2>5. LockInv(readers', writer', waiters', mode', granted')
    <3>1. \A x \in Procs : granted'[x] => mode'[x] = "read"
      BY <1>1, <2>1, <2>4 DEF IInv, TypeOK
    <3>2. writer' <=> \E x \in Procs : granted'[x] /\ mode'[x] = "write"
      BY <2>1, <2>4, <3>1 DEF IInv, LockInv
    <3> QED
      BY <2>1, <2>3, <3>1, <3>2, EmptySeq DEF LockInv
  <2>6. TaskInv'
    BY <1>1, <2>1 DEF IInv, TypeOK, TaskInv, InQueue
  <2>7. Busy(readers', writer', waiters')
    BY <2>1 DEF Busy
  <2> QED
    BY <2>2, <2>5, <2>6, <2>7 DEF IInv
<1>4. CASE ~JoinsReaders(m)
  <2> DEFINE q == Append(waiters, p)
             f == [wake EXCEPT ![p] = "none"]
             s == WakeNext(readers, writer, q, mode', granted, f)
  <2>1. /\ readers' = s.readers /\ writer' = s.writer /\ waiters' = s.waiters
        /\ granted' = s.granted /\ wake' = s.wake
    <3>1. Becomes(s)
      BY <1>4 DEF Acquire
    <3> HIDE DEF s
    <3> QED
      BY <3>1 DEF Becomes
  <2>2. /\ q \in Seq(Procs) /\ Len(q) = Len(waiters) + 1 /\ q[Len(waiters) + 1] = p
        /\ \A i \in 1..Len(waiters) : q[i] = waiters[i]
        /\ Len(waiters) \in Nat
        /\ \A i, j \in 1..Len(q) : q[i] = q[j] => i = j
    BY <1>1, Arrival
  <2>3. InQueue(q, p) /\ \A x \in Procs : x # p => (InQueue(q, x) <=> InQueue(waiters, x))
    BY <2>2 DEF InQueue
  <2>4. {x \in Procs : granted[x] /\ mode'[x] = "read"} = R
    BY <1>1
  <2>5. \A i \in 1..Len(q) : ~granted[q[i]]
    BY <1>1, <2>2 DEF IInv, LockInv
  <2>7. LockInv(readers, writer, q, mode', granted)
    BY <1>1, <2>2, <2>4, <2>5 DEF IInv, LockInv
  <2>8. /\ f \in [Procs -> {"none", "result", "cancel"}] /\ f[p] = "none"
        /\ \A x \in Procs : x # p => f[x] = wake[x]
    BY DEF IInv, TypeOK
  <2>9. HandedOver(q, mode', granted, f, s)
    <3> HIDE DEF q, f
    <3>1. readers \in Nat /\ writer \in BOOLEAN /\ granted \in [Procs -> BOOLEAN]
      BY DEF IInv, TypeOK
    <3> QED
      BY <1>1, <2>2, <2>7, <2>8, <3>1, WakeNextHandsOver
  <2> DEFINE v == IF s.granted[p] THEN "inside" ELSE "waiting"
  <2> HIDE DEF q, f, s
  <2>10. pc' = [pc EXCEPT ![p] = v]
    BY <1>1, <2>1
  <2>11. Prepared(p, q, granted, f, s, v, waiters, granted, wake)
    BY <1>1, <2>3, <2>8 DEF Prepared
  <2>12. mode' \in [Procs -> Modes]
    BY <1>1
  <2> HIDE DEF v
  <2> QED
    BY <2>1, <2>9, <2>10, <2>11, <2>12, HandOverKeepsIInv
<1> QED
  BY <1>3, <1>4

\* Giving back an owned lock leaves a consistent lock to hand over.
LEMMA ReleaseOwnedKeepsIInv ==
    ASSUME IInv, NEW p \in Procs, granted[p], ReleaseOwned(p),
           pc' = [pc EXCEPT ![p] = "idle"], mode' = mode
    PROVE  IInv'
<1> DEFINE R == {x \in Procs : granted[x] /\ mode[x] = "read"}
           r == readers - (IF mode[p] = "read" THEN 1 ELSE 0)
           w == writer /\ mode[p] = "read"
           g == [granted EXCEPT ![p] = FALSE]
           f == [wake EXCEPT ![p] = "none"]
           s == WakeNext(r, w, waiters, mode, g, f)
<1>1. /\ ~g[p] /\ g \in [Procs -> BOOLEAN]
      /\ \A x \in Procs : x # p => g[x] = granted[x] /\ f[x] = wake[x]
      /\ f \in [Procs -> {"none", "result", "cancel"}]
      /\ mode \in [Procs -> Modes] /\ mode[p] \in {"read", "write"}
      /\ w \in BOOLEAN /\ waiters \in Seq(Procs)
  BY DEF IInv, TypeOK, Modes
<1>2. ~InQueue(waiters, p)
  BY DEF IInv, TaskInv
<1>3. /\ r \in Nat
      /\ r = Cardinality({x \in Procs : g[x] /\ mode[x] = "read"})
  <2>1. readers = Cardinality(R) /\ readers \in Nat /\ IsFiniteSet(R)
    BY FiniteOwners DEF IInv, LockInv
  <2>2. {x \in Procs : g[x] /\ mode[x] = "read"} = R \ {p}
    BY <1>1
  <2>3. Cardinality(R \ {p}) = IF p \in R THEN Cardinality(R) - 1 ELSE Cardinality(R)
    BY <2>1, FS_RemoveElement
  <2>4. p \in R <=> mode[p] = "read"
    OBVIOUS
  <2>5. r = Cardinality({x \in Procs : g[x] /\ mode[x] = "read"})
    BY <2>1, <2>2, <2>3, <2>4
  <2> QED
    BY <2>5, FiniteOwners
<1>4. w <=> \E x \in Procs : g[x] /\ mode[x] = "write"
  BY <1>1 DEF IInv, LockInv
<1>5. LockInv(r, w, waiters, mode, g)
  BY <1>1, <1>2, <1>3, <1>4 DEF IInv, LockInv, InQueue
<1>6. /\ readers' = s.readers /\ writer' = s.writer /\ waiters' = s.waiters
      /\ granted' = s.granted /\ wake' = s.wake
  <2>1. Becomes(s)
    BY DEF ReleaseOwned
  <2> HIDE DEF s
  <2> QED
    BY <2>1 DEF Becomes
<1> HIDE DEF r, w, g, f
<1>7. HandedOver(waiters, mode', g, f, s)
  BY <1>1, <1>3, <1>5, WakeNextHandsOver
<1> HIDE DEF s
<1>8. Prepared(p, waiters, g, f, s, "idle", waiters, granted, wake)
  BY <1>1, <1>2 DEF Prepared
<1>9. mode' \in [Procs -> Modes]
  BY <1>1
<1> QED
  BY <1>6, <1>7, <1>8, <1>9, HandOverKeepsIInv

\* Leaving the queue leaves a consistent lock to hand over.
LEMMA ForgetWaiterKeepsIInv ==
    ASSUME IInv, NEW p \in Procs, ~granted[p], ForgetWaiter(p),
           pc' = [pc EXCEPT ![p] = "idle"], mode' = mode
    PROVE  IInv'
<1> DEFINE f == [wake EXCEPT ![p] = "none"]
<1>1. PICK k \in 1..Len(waiters) :
         /\ waiters[k] = p
         /\ Becomes(WakeNext(readers, writer, Without(waiters, k), mode, granted, f))
  BY DEF ForgetWaiter
<1> DEFINE q == Without(waiters, k)
           s == WakeNext(readers, writer, q, mode, granted, f)
<1>2. /\ waiters \in Seq(Procs) /\ Len(waiters) \in Nat
      /\ \A i \in 1..Len(waiters) : waiters[i] \in Procs
  BY DEF IInv, TypeOK
<1>3. /\ q \in Seq(Procs) /\ Len(q) = Len(waiters) - 1
      /\ \A i \in 1..(Len(waiters) - 1) : q[i] = IF i < k THEN waiters[i] ELSE waiters[i + 1]
  <2> DEFINE front == SubSeq(waiters, 1, k - 1)
             back == SubSeq(waiters, k + 1, Len(waiters))
  <2>1. /\ front \in Seq(Procs) /\ Len(front) = k - 1
        /\ \A i \in 1..(k - 1) : front[i] = waiters[i]
    <3>1. \A i \in 1..(k - 1) : waiters[i] \in Procs
      BY <1>2
    <3>2. /\ front \in Seq(Procs) /\ Len(front) = IF 1 <= k - 1 THEN (k - 1) - 1 + 1 ELSE 0
          /\ \A i \in 1..((k - 1) - 1 + 1) : front[i] = waiters[1 + i - 1]
      BY <3>1, SubSeqProperties
    <3> QED
      BY <3>2, <1>2
  <2>2. /\ back \in Seq(Procs) /\ Len(back) = Len(waiters) - k
        /\ \A i \in 1..(Len(waiters) - k) : back[i] = waiters[k + i]
    <3>1. \A i \in (k + 1)..Len(waiters) : waiters[i] \in Procs
      BY <1>2
    <3>2. /\ back \in Seq(Procs)
          /\ Len(back) = IF k + 1 <= Len(waiters) THEN Len(waiters) - (k + 1) + 1 ELSE 0
          /\ \A i \in 1..(Len(waiters) - (k + 1) + 1) : back[i] = waiters[(k + 1) + i - 1]
      BY <3>1, <1>2, SubSeqProperties
    <3> QED
      BY <3>2, <1>2
  <2> HIDE DEF front, back
  <2>3. /\ front \o back \in Seq(Procs) /\ Len(front \o back) = Len(front) + Len(back)
        /\ \A i \in 1..(Len(front) + Len(back)) :
              (front \o back)[i] = IF i <= Len(front) THEN front[i] ELSE back[i - Len(front)]
    BY <2>1, <2>2, ConcatProperties
  <2>4. q = front \o back
    BY DEF Without, front, back
  <2>5. Len(front \o back) = Len(waiters) - 1
    BY <2>1, <2>2, <2>3, <1>2
  <2>6. ASSUME NEW i \in 1..(Len(waiters) - 1)
        PROVE  (front \o back)[i] = IF i < k THEN waiters[i] ELSE waiters[i + 1]
    <3>1. (front \o back)[i] = IF i <= Len(front) THEN front[i] ELSE back[i - Len(front)]
      BY <2>1, <2>2, <2>3, <1>2
    <3>2. CASE i < k
      BY <3>1, <3>2, <2>1
    <3>3. CASE ~(i < k)
      <4>1. i - (k - 1) \in 1..(Len(waiters) - k) /\ k + (i - (k - 1)) = i + 1
        BY <3>3, <1>2
      <4> QED
        BY <3>1, <3>3, <4>1, <2>1, <2>2
    <3> QED
      BY <3>2, <3>3
  <2> QED
    BY <2>3, <2>4, <2>5, <2>6
<1> HIDE DEF q
<1>4. \A i, j \in 1..Len(q) : q[i] = q[j] => i = j
  BY <1>2, <1>3 DEF IInv, LockInv
<1>5. ~InQueue(q, p)
  BY <1>1, <1>2, <1>3 DEF IInv, LockInv, InQueue
<1>6. \A x \in Procs : x # p => (InQueue(q, x) <=> InQueue(waiters, x))
  <2>1. ASSUME NEW x \in Procs, x # p, InQueue(waiters, x)
        PROVE  InQueue(q, x)
    <3>1. PICK i \in 1..Len(waiters) : waiters[i] = x
      BY <2>1 DEF InQueue
    <3>2. CASE i < k
      BY <3>1, <3>2, <1>2, <1>3 DEF InQueue
    <3>3. CASE i > k
      <4>1. i - 1 \in 1..Len(q) /\ q[i - 1] = x
        BY <3>1, <3>3, <1>2, <1>3
      <4> QED
        BY <4>1 DEF InQueue
    <3> QED
      BY <3>1, <3>2, <3>3, <2>1, <1>1
  <2>2. ASSUME NEW x \in Procs, InQueue(q, x)
        PROVE  InQueue(waiters, x)
    BY <2>2, <1>2, <1>3 DEF InQueue
  <2> QED
    BY <2>1, <2>2
<1>7. \A i \in 1..Len(q) : ~granted[q[i]]
  BY <1>2, <1>3 DEF IInv, LockInv
<1>8. LockInv(readers, writer, q, mode, granted)
  BY <1>4, <1>7 DEF IInv, LockInv
<1>9. /\ f \in [Procs -> {"none", "result", "cancel"}]
      /\ \A x \in Procs : x # p => f[x] = wake[x]
      /\ readers \in Nat /\ writer \in BOOLEAN
      /\ granted \in [Procs -> BOOLEAN] /\ mode \in [Procs -> Modes]
  BY DEF IInv, TypeOK
<1>10. /\ readers' = s.readers /\ writer' = s.writer /\ waiters' = s.waiters
       /\ granted' = s.granted /\ wake' = s.wake
  <2>1. Becomes(s)
    BY <1>1 DEF q
  <2> HIDE DEF s
  <2> QED
    BY <2>1 DEF Becomes
<1> HIDE DEF f
<1>11. HandedOver(q, mode', granted, f, s)
  BY <1>3, <1>8, <1>9, WakeNextHandsOver
<1> HIDE DEF s
<1>12. Prepared(p, q, granted, f, s, "idle", waiters, granted, wake)
  BY <1>5, <1>6, <1>9 DEF Prepared
<1> QED
  BY <1>9, <1>10, <1>11, <1>12, HandOverKeepsIInv

\* Every step keeps the inductive invariant.
LEMMA NextKeepsIInv == IInv /\ [Next]_vars => IInv'
<1> SUFFICES ASSUME IInv, [Next]_vars PROVE IInv'
  OBVIOUS
<1>1. CASE UNCHANGED vars
  BY <1>1 DEF vars, IInv, TypeOK, LockInv, Busy, TaskInv, InQueue
<1>2. ASSUME NEW p \in Procs, NEW m \in Modes, Acquire(p, m) PROVE IInv'
  BY <1>2, AcquireKeepsIInv
<1>3. ASSUME NEW p \in Procs, Resume(p) PROVE IInv'
  BY <1>3 DEF Resume, IInv, TypeOK, LockInv, Busy, TaskInv, InQueue
<1>4. ASSUME NEW p \in Procs, Cancel(p) PROVE IInv'
  BY <1>4 DEF Cancel, IInv, TypeOK, LockInv, Busy, TaskInv, InQueue
<1>5. ASSUME NEW p \in Procs, CancelHandler(p) PROVE IInv'
  BY <1>5, ReleaseOwnedKeepsIInv, ForgetWaiterKeepsIInv DEF CancelHandler
<1>6. ASSUME NEW p \in Procs, Leave(p) PROVE IInv'
  BY <1>6 DEF Leave, IInv, TypeOK, LockInv, Busy, TaskInv, InQueue
<1>7. ASSUME NEW p \in Procs, Release(p) PROVE IInv'
  BY <1>7, ReleaseOwnedKeepsIInv DEF Release, IInv, TaskInv
<1> QED
  BY <1>1, <1>2, <1>3, <1>4, <1>5, <1>6, <1>7 DEF Next

-----------------------------------------------------------------------------
(* The results *)

LEMMA Invariance == Spec => []IInv
BY InitIInv, NextKeepsIInv, PTL DEF Spec

\* Every variable keeps its type: the counters of _wake_next never go negative.
THEOREM TypeCorrect == Spec => []TypeOK
<1>1. IInv => TypeOK
  BY DEF IInv
<1> QED
  BY <1>1, Invariance, PTL

\* _readers and _writer agree with the waiters that own the lock, whatever
\* cancellations race the grants: the lock is never leaked or given back twice.
THEOREM OwnershipIsExact == Spec => []OwnershipExact
<1>1. ASSUME IInv PROVE OwnershipExact
  <2>1. readers = Cardinality(Owners("read"))
    BY <1>1 DEF IInv, LockInv, Owners
  <2>2. CASE writer
    <3>1. PICK p \in Procs : granted[p] /\ mode[p] = "write"
      BY <1>1, <2>2 DEF IInv, LockInv
    <3>2. Owners("write") = {p}
      BY <1>1, <3>1 DEF IInv, LockInv, Owners
    <3>3. Cardinality(Owners("write")) = 1
      BY <3>2, FS_Singleton
    <3> QED
      BY <1>1, <2>1, <2>2, <3>3 DEF OwnershipExact, IInv, TaskInv
  <2>3. CASE ~writer
    <3>1. Owners("write") = {}
      BY <1>1, <2>3 DEF IInv, LockInv, Owners
    <3>2. Cardinality(Owners("write")) = 0
      BY <3>1, FS_EmptySet
    <3> QED
      BY <1>1, <2>1, <2>3, <3>2 DEF OwnershipExact, IInv, TaskInv
  <2> QED
    BY <2>2, <2>3
<1> QED
  BY <1>1, Invariance, PTL

\* Two tasks that own the lock at once are both readers.
THEOREM OwnersExclude == Spec => []MutualExclusion
<1>1. IInv => MutualExclusion
  BY DEF IInv, LockInv, MutualExclusion
<1> QED
  BY <1>1, Invariance, PTL

\* A request that is neither granted nor resolved is queued, and a queue never
\* stands before a free lock.
THEOREM NoWakeupIsLost == Spec => []NoLostWakeup
<1>1. IInv => NoLostWakeup
  BY DEF IInv, Busy, TaskInv, InQueue, NoLostWakeup, Queued
<1> QED
  BY <1>1, Invariance, PTL

\* A step that starts or ends the request of p, and admits whoever it admits, is
\* a step of the shared/exclusive lock.
LEMMA RequestStepRefines ==
    ASSUME IInv, IInv', NEW p \in Procs,
           \A x \in Procs : x # p => /\ pc[x] = "idle" <=> pc'[x] = "idle"
                                     /\ mode'[x] = mode[x]
                                     /\ granted[x] => granted'[x],
           pc[p] = "idle" <=> pc'[p] # "idle"
    PROVE  Promise!Next
<1> DEFINE want == [x \in Procs |-> IF pc[x] = "idle" THEN "none" ELSE mode[x]]
           have == [x \in Procs |-> IF granted[x] THEN mode[x] ELSE "none"]
           want1 == [x \in Procs |-> IF pc'[x] = "idle" THEN "none" ELSE mode'[x]]
           have1 == [x \in Procs |-> IF granted'[x] THEN mode'[x] ELSE "none"]
           admitted == {x \in Procs : granted'[x] /\ ~granted[x]}
<1>0. \A x \in Procs : x # p => /\ pc[x] = "idle" <=> pc'[x] = "idle"
                                /\ mode'[x] = mode[x]
                                /\ granted[x] => granted'[x]
  OBVIOUS
<1>1. \A x \in Procs : mode[x] \in {"read", "write"} /\ mode'[x] \in {"read", "write"}
  BY DEF IInv, TypeOK, Modes
<1>2. \A x \in Procs : /\ granted[x] => pc[x] # "idle"
                       /\ granted'[x] => pc'[x] # "idle"
  BY DEF IInv, TaskInv
<1>3. Promise!Compatible(have1)
  BY <1>1 DEF IInv, LockInv, Promise!Compatible
<1>4. \A x \in admitted : want1[x] # "none" /\ have[x] = "none"
  BY <1>1, <1>2
<1>5. have1 = [x \in Procs |-> IF x \in admitted THEN want1[x]
                              ELSE IF x = p /\ want1[p] = "none" THEN "none"
                              ELSE have[x]]
  <2> SUFFICES ASSUME NEW x \in Procs
               PROVE  have1[x] = IF x \in admitted THEN want1[x]
                                 ELSE IF x = p /\ want1[p] = "none" THEN "none"
                                 ELSE have[x]
    BY Zenon
  <2>1. CASE x = p
    BY <2>1, <1>1, <1>2
  <2>2. CASE x # p
    BY <2>2, <1>0, <1>1, <1>2
  <2> QED
    BY <2>1, <2>2
<1>6. PICK a \in SUBSET Procs : a = admitted
  OBVIOUS
<1>7. Promise!Admit(p, a)
  BY <1>3, <1>4, <1>5, <1>6 DEF Promise!Admit
<1>8. CASE pc[p] = "idle"
  <2>1. want[p] = "none"
    BY <1>8
  <2>2. want1 = [want EXCEPT ![p] = mode'[p]]
    <3> SUFFICES ASSUME NEW x \in Procs
                 PROVE  want1[x] = IF x = p THEN mode'[p] ELSE want[x]
      BY Zenon
    <3>1. CASE x = p
      BY <1>8, <3>1
    <3>2. CASE x # p
      BY <1>0, <3>2
    <3> QED
      BY <3>1, <3>2
  <2>3. PICK m \in Promise!Modes : m = mode'[p]
    BY <1>1 DEF Promise!Modes
  <2>4. Promise!Ask(p, m, a)
    BY <1>7, <2>1, <2>2, <2>3 DEF Promise!Ask
  <2> QED
    BY <2>4 DEF Promise!Next
<1>9. CASE pc[p] # "idle"
  <2>1. want[p] # "none"
    BY <1>1, <1>9
  <2>2. want1 = [want EXCEPT ![p] = "none"]
    <3> SUFFICES ASSUME NEW x \in Procs
                 PROVE  want1[x] = IF x = p THEN "none" ELSE want[x]
      BY Zenon
    <3>1. CASE x = p
      BY <1>9, <3>1
    <3>2. CASE x # p
      BY <1>0, <3>2
    <3> QED
      BY <3>1, <3>2
  <2>3. Promise!Drop(p, a)
    BY <1>7, <2>1, <2>2 DEF Promise!Drop
  <2> QED
    BY <2>3 DEF Promise!Next
<1> QED
  BY <1>8, <1>9

LEMMA InitRefines == Init => Promise!Init
<1> SUFFICES ASSUME Init PROVE Promise!Init
  OBVIOUS
<1>1. [x \in Procs |-> IF pc[x] = "idle" THEN "none" ELSE mode[x]] = [x \in Procs |-> "none"]
  BY DEF Init
<1>2. [x \in Procs |-> IF granted[x] THEN mode[x] ELSE "none"] = [x \in Procs |-> "none"]
  BY DEF Init
<1> QED
  BY <1>1, <1>2 DEF Promise!Init

\* _wake_next grants nobody who is not in the queue.
LEMMA GrantedWereQueued ==
    ASSUME NEW r, NEW w, NEW q \in Seq(Procs), NEW m \in [Procs -> Modes],
           NEW g, NEW f, NEW x \in Procs, ~g[x],
           WakeNext(r, w, q, m, g, f).granted[x]
    PROVE  InQueue(q, x)
<1> DEFINE n == Admitted(r, w, q, m)
<1>1. n \in 0..Len(q)
  <2>1. q # <<>> => Len(q) \in Nat \ {0}
    BY EmptySeq
  <2>2. LeadingReads(q, m) \in 0..Len(q) /\ Len(q) \in Nat
    BY LeadingReadsRun
  <2> QED
    BY <2>1, <2>2 DEF Admitted
<1>2. x \in {q[j] : j \in 1..n}
  BY DEF WakeNext
<1> HIDE DEF n
<1> QED
  BY <1>1, <1>2 DEF InQueue

\* _wake_next takes no grant away.
LEMMA WakeNextKeepsGrants ==
    ASSUME NEW r, NEW w, NEW q, NEW m, NEW g, NEW f, NEW x \in Procs, g[x]
    PROVE  WakeNext(r, w, q, m, g, f).granted[x]
BY DEF WakeNext

\* What the step of a task p does to another task.
LEMMA StepsLeaveOthersAlone ==
    ASSUME IInv, NEW p \in Procs, NEW x \in Procs, x # p,
           \/ \E m \in Modes : Acquire(p, m)
           \/ CancelHandler(p)
           \/ Release(p)
    PROVE  (pc[x] = "idle" <=> pc'[x] = "idle") /\ mode'[x] = mode[x] /\ (granted[x] => granted'[x])
<1>1. pc'[x] = pc[x] /\ mode'[x] = mode[x]
  BY DEF IInv, TypeOK, Acquire, CancelHandler, Release
<1>2. ASSUME granted[x], ReleaseOwned(p) PROVE granted'[x]
  <2>1. [granted EXCEPT ![p] = FALSE][x]
    BY <1>2 DEF IInv, TypeOK
  <2> QED
    BY <1>2, <2>1, WakeNextKeepsGrants DEF ReleaseOwned, Becomes
<1>3. ASSUME granted[x], ForgetWaiter(p) PROVE granted'[x]
  BY <1>3, WakeNextKeepsGrants DEF ForgetWaiter, Becomes
<1>4. ASSUME granted[x], NEW m \in Modes, Acquire(p, m) PROVE granted'[x]
  <2>1. CASE JoinsReaders(m)
    BY <1>4, <2>1 DEF Acquire, IInv, TypeOK
  <2>2. CASE ~JoinsReaders(m)
    BY <1>4, <2>2, WakeNextKeepsGrants DEF Acquire, Becomes
  <2> QED
    BY <2>1, <2>2
<1> QED
  BY <1>1, <1>2, <1>3, <1>4 DEF CancelHandler, Release

\* AsyncRWLock implements the shared/exclusive lock that its users rely on.
THEOREM Refinement == Spec => ImplementsSharedExclusive
<1>1. ASSUME IInv, IInv', [Next]_vars
      PROVE  [Promise!Next]_<<
                 [p \in Procs |-> IF pc[p] = "idle" THEN "none" ELSE mode[p]],
                 [p \in Procs |-> IF granted[p] THEN mode[p] ELSE "none"]>>
  <2>1. CASE UNCHANGED vars
    BY <2>1 DEF vars
  <2>2. ASSUME NEW p \in Procs, NEW m \in Modes, Acquire(p, m) PROVE Promise!Next
    <3>1. pc[p] = "idle" /\ pc'[p] # "idle"
      BY <1>1, <2>2 DEF Acquire, IInv, TypeOK
    <3>2. \A x \in Procs : x # p =>
             /\ pc[x] = "idle" <=> pc'[x] = "idle"
             /\ mode'[x] = mode[x]
             /\ granted[x] => granted'[x]
      BY <1>1, <2>2, StepsLeaveOthersAlone
    <3> QED
      BY <1>1, <3>1, <3>2, RequestStepRefines
  <2>3. ASSUME NEW p \in Procs, CancelHandler(p) \/ Release(p) PROVE Promise!Next
    <3>1. pc[p] # "idle" /\ pc'[p] = "idle"
      BY <1>1, <2>3 DEF CancelHandler, Release, IInv, TypeOK
    <3>2. \A x \in Procs : x # p =>
             /\ pc[x] = "idle" <=> pc'[x] = "idle"
             /\ mode'[x] = mode[x]
             /\ granted[x] => granted'[x]
      BY <1>1, <2>3, StepsLeaveOthersAlone
    <3> QED
      BY <1>1, <3>1, <3>2, RequestStepRefines
  <2>4. ASSUME NEW p \in Procs, Resume(p) \/ Cancel(p) \/ Leave(p)
        PROVE  UNCHANGED <<
                 [x \in Procs |-> IF pc[x] = "idle" THEN "none" ELSE mode[x]],
                 [x \in Procs |-> IF granted[x] THEN mode[x] ELSE "none"]>>
    <3>1. mode' = mode /\ granted' = granted
      BY <2>4 DEF Resume, Cancel, Leave
    <3>2. \A x \in Procs : pc'[x] = "idle" <=> pc[x] = "idle"
      BY <1>1, <2>4 DEF Resume, Cancel, Leave, IInv, TypeOK
    <3> QED
      BY <3>1, <3>2
  <2> QED
    BY <1>1, <2>1, <2>2, <2>3, <2>4 DEF Next
<1> QED
  BY <1>1, InitRefines, InitIInv, NextKeepsIInv, PTL
     DEF Spec, ImplementsSharedExclusive, Promise!Spec

\* _wake_next admits a prefix of a queue that holds each task once.
LEMMA WakeNextIsFifo ==
    ASSUME NEW r, NEW w, NEW q \in Seq(Procs), NEW m \in [Procs -> Modes],
           NEW g, NEW f,
           \A i, j \in 1..Len(q) : q[i] = q[j] => i = j,
           NEW k \in 1..Len(q), NEW i \in 1..k, ~g[q[k]],
           WakeNext(r, w, q, m, g, f).granted[q[k]]
    PROVE  ~InQueue(WakeNext(r, w, q, m, g, f).waiters, q[i])
<1> DEFINE n == Admitted(r, w, q, m)
           t == SubSeq(q, n + 1, Len(q))
<1>1. /\ Len(q) \in Nat /\ \A j \in 1..Len(q) : q[j] \in Procs
      /\ i \in 1..Len(q)
  OBVIOUS
<1>2. n \in 0..Len(q)
  <2>1. q # <<>> => Len(q) \in Nat \ {0}
    BY EmptySeq
  <2>2. LeadingReads(q, m) \in 0..Len(q)
    BY LeadingReadsRun
  <2> QED
    BY <1>1, <2>1, <2>2 DEF Admitted
<1>3. WakeNext(r, w, q, m, g, f).waiters = t
  BY DEF WakeNext
<1>4. PICK j \in 1..n : q[j] = q[k]
  BY <1>1 DEF WakeNext
<1>5. i <= n
  BY <1>1, <1>2, <1>4
<1>6. Len(t) = Len(q) - n /\ \A l \in 1..(Len(q) - n) : t[l] = q[n + l]
  <2> HIDE DEF n
  <2>1. \A l \in (n + 1)..Len(q) : q[l] \in Procs
    BY <1>1, <1>2
  <2>2. /\ Len(t) = IF n + 1 <= Len(q) THEN Len(q) - (n + 1) + 1 ELSE 0
        /\ \A l \in 1..(Len(q) - (n + 1) + 1) : t[l] = q[(n + 1) + l - 1]
    BY <2>1, <1>1, <1>2, SubSeqProperties
  <2> QED
    BY <2>2, <1>1, <1>2
<1> HIDE DEF n, t
<1>7. ASSUME NEW l \in 1..Len(t) PROVE t[l] # q[i]
  <2>1. /\ l \in 1..(Len(q) - n) /\ t[l] = q[n + l]
        /\ n + l \in 1..Len(q) /\ n + l # i
    BY <1>1, <1>2, <1>5, <1>6
  <2> QED
    BY <2>1, <1>1
<1> QED
  BY <1>3, <1>7 DEF InQueue

\* A step admits nobody past a request that was queued before.
THEOREM AdmissionIsFifo == Spec => FifoAdmission
<1>1. ASSUME IInv, [Next]_vars,
             NEW x \in Procs, ~granted[x], granted'[x],
             NEW i \in 1..Len(waiters), \A j \in 1..i : waiters[j] # x
      PROVE  ~InQueue(waiters', waiters[i])
  <2>1. /\ Len(waiters) \in Nat /\ waiters \in Seq(Procs)
        /\ \A j \in 1..Len(waiters) : waiters[j] \in Procs
        /\ granted \in [Procs -> BOOLEAN] /\ mode \in [Procs -> Modes]
        /\ \A j, k \in 1..Len(waiters) : waiters[j] = waiters[k] => j = k
    BY <1>1 DEF IInv, TypeOK, LockInv
  <2>2. ASSUME NEW p \in Procs, NEW m \in Modes, Acquire(p, m)
        PROVE  ~InQueue(waiters', waiters[i])
    <3> DEFINE q == Append(waiters, p)
               f == [wake EXCEPT ![p] = "none"]
    <3>1. ~JoinsReaders(m)
      BY <2>1, <2>2 DEF JoinsReaders
    <3>2. /\ waiters' = WakeNext(readers, writer, q, mode', granted, f).waiters
          /\ granted' = WakeNext(readers, writer, q, mode', granted, f).granted
          /\ mode' = [mode EXCEPT ![p] = m] /\ pc[p] = "idle"
      BY <2>2, <3>1 DEF Acquire, Becomes
    <3>3. mode' \in [Procs -> Modes]
      BY <2>1, <3>2
    <3>4. /\ q \in Seq(Procs) /\ Len(q) = Len(waiters) + 1 /\ q[Len(waiters) + 1] = p
          /\ \A j \in 1..Len(waiters) : q[j] = waiters[j]
          /\ \A j, k \in 1..Len(q) : q[j] = q[k] => j = k
      BY <1>1, <3>2, Arrival
    <3> HIDE DEF q, f
    <3>5. x = p \/ InQueue(waiters, x)
      <4>1. InQueue(q, x)
        BY <1>1, <3>2, <3>3, <3>4, GrantedWereQueued
      <4> QED
        BY <4>1, <2>1, <3>4 DEF InQueue
    <3>6. PICK k \in 1..Len(q) : q[k] = x /\ i \in 1..k
      BY <1>1, <2>1, <3>4, <3>5 DEF InQueue
    <3>7. ~InQueue(waiters', q[i])
      BY <1>1, <3>2, <3>3, <3>4, <3>6, WakeNextIsFifo
    <3> QED
      BY <2>1, <3>4, <3>7
  <2>3. ASSUME NEW p \in Procs, ReleaseOwned(p)
        PROVE  ~InQueue(waiters', waiters[i])
    <3> DEFINE g == [granted EXCEPT ![p] = FALSE]
               f == [wake EXCEPT ![p] = "none"]
               r == readers - (IF mode[p] = "read" THEN 1 ELSE 0)
               w == writer /\ mode[p] = "read"
    <3>1. /\ waiters' = WakeNext(r, w, waiters, mode, g, f).waiters
          /\ granted' = WakeNext(r, w, waiters, mode, g, f).granted
      BY <2>3 DEF ReleaseOwned, Becomes
    <3>2. ~g[x]
      BY <1>1, <2>1
    <3> HIDE DEF g, f, r, w
    <3>3. InQueue(waiters, x)
      BY <1>1, <2>1, <3>1, <3>2, GrantedWereQueued
    <3>4. PICK k \in 1..Len(waiters) : waiters[k] = x /\ i \in 1..k
      BY <1>1, <2>1, <3>3 DEF InQueue
    <3> QED
      BY <1>1, <2>1, <3>1, <3>2, <3>4, WakeNextIsFifo
  <2>4. ASSUME NEW p \in Procs, ForgetWaiter(p) PROVE FALSE
    <3>1. PICK k \in 1..Len(waiters) :
             Becomes(WakeNext(readers, writer, Without(waiters, k), mode, granted,
                              [wake EXCEPT ![p] = "none"]))
      BY <2>4 DEF ForgetWaiter
    <3>2. writer \/ readers > 0
      BY <1>1, <2>1, EmptySeq DEF IInv, Busy
    <3>3. Admitted(readers, writer, Without(waiters, k), mode) = 0
      BY <3>2 DEF Admitted
    <3>4. granted' = [y \in Procs |-> granted[y] \/ y \in {Without(waiters, k)[j] : j \in 1..0}]
      BY <3>1, <3>3 DEF Becomes, WakeNext
    <3>5. {Without(waiters, k)[j] : j \in 1..0} = {}
      OBVIOUS
    <3>6. granted'[x] <=> granted[x]
      BY <3>4, <3>5, Zenon
    <3> QED
      BY <1>1, <3>6
  <2>5. CASE granted' = granted
    BY <1>1, <2>5
  <2> QED
    BY <1>1, <2>2, <2>3, <2>4, <2>5
       DEF Next, vars, Resume, Cancel, CancelHandler, Leave, Release
<1>2. IInv /\ [Next]_vars =>
        \A p \in Procs :
          (~granted[p] /\ granted'[p]) =>
             \A i \in 1..Len(waiters) :
                 (\A j \in 1..i : waiters[j] # p) =>
                     \A k \in 1..Len(waiters') : waiters'[k] # waiters[i]
  BY <1>1 DEF InQueue
<1> QED
  BY <1>2, Invariance, PTL DEF Spec, FifoAdmission
=============================================================================
