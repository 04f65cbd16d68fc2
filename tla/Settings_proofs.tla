--------------------------- MODULE Settings_proofs ---------------------------
(***************************************************************************)
(* What is proved of Settings, for every set of tasks, keys, names and     *)
(* requests and every bound: its type invariant, that the live copy        *)
(* follows the store, that an operation on one item keeps the others, that *)
(* no name is there twice, that a request changes the store at most once,  *)
(* and what the audit log may miss.                                        *)
(*                                                                         *)
(* The argument rests on the lock of a key: a task that has read the value *)
(* under it is at its head until it leaves, and only the head writes.      *)
(***************************************************************************)
EXTENDS Settings, TLAPS, FiniteSetTheorems, SequenceTheorems, WellFoundedInduction

-----------------------------------------------------------------------------
(* Induction over the positions of a sequence *)

\* A non-empty set of numbers has a least element.
LEMMA LeastNumber ==
  ASSUME NEW T \in SUBSET Nat, T # {}
  PROVE  \E m \in T : \A j \in T : m <= j
<1>1. PICK m \in T : \A j \in T : ~(<<j, m>> \in OpToRel(<, Nat))
  BY WFMin, NatLessThanWellFounded, Zenon
<1>2. \A j \in T : j \in Nat /\ m \in Nat
  OBVIOUS
<1>3. \A j \in T : ~(j < m)
  BY <1>1, <1>2, Zenon DEF OpToRel
<1> QED
  BY <1>2, <1>3

\* A set of positions that has 0 and, with every i below n, i + 1, has all.
LEMMA UpTo ==
  ASSUME NEW n \in Nat, NEW S, 0 \in S,
         \A i \in 0..n : i < n /\ i \in S => i + 1 \in S
  PROVE  \A i \in 0..n : i \in S
<1> DEFINE T == {i \in 0..n : i \notin S}
<1> SUFFICES ASSUME T # {} PROVE FALSE
  OBVIOUS
<1>1. T \in SUBSET Nat
  OBVIOUS
<1> HIDE DEF T
<1>2. PICK m \in T : \A j \in T : m <= j
  BY <1>1, LeastNumber
<1>3. m \in 1..n /\ m \notin S
  BY <1>2 DEF T
<1>4. m - 1 \notin T
  BY <1>2, <1>3
<1> QED
  BY <1>3, <1>4 DEF T

-----------------------------------------------------------------------------
(* Kept: the recursive function exists, and what it makes of a sequence *)

\* The equation that defines KeptUpTo, up to position n.
KeptEq(f, s, P, n) ==
  f = [i \in 0..n |-> IF i = 0 THEN <<>>
                      ELSE IF i \in P THEN Append(f[i - 1], s[i]) ELSE f[i - 1]]

LEMMA KeptExists ==
  ASSUME NEW s, NEW P, NEW n \in Nat
  PROVE  \E f : KeptEq(f, s, P, n)
<1> DEFINE S == {i \in 0..n : \E f : KeptEq(f, s, P, i)}
<1>1. 0 \in S
  <2> DEFINE f == [i \in 0..0 |-> <<>>]
  <2>1. KeptEq(f, s, P, 0)
    BY DEF KeptEq
  <2> QED
    BY <2>1
<1>2. ASSUME NEW j \in 0..n, j < n, j \in S PROVE j + 1 \in S
  <2>1. PICK f : KeptEq(f, s, P, j)
    BY <1>2
  <2> DEFINE g == [i \in 0..(j + 1) |->
                     IF i <= j THEN f[i]
                     ELSE IF j + 1 \in P THEN Append(f[j], s[j + 1]) ELSE f[j]]
  <2>2. DOMAIN g = 0..(j + 1)
    OBVIOUS
  <2>3. ASSUME NEW i \in 0..(j + 1)
        PROVE  g[i] = IF i = 0 THEN <<>>
                      ELSE IF i \in P THEN Append(g[i - 1], s[i]) ELSE g[i - 1]
    <3>1. CASE i = j + 1
      <4>1. j \in 0..(j + 1) /\ ~(j + 1 <= j) /\ j <= j /\ (j + 1) - 1 = j /\ i # 0
        BY <3>1
      <4>2. g[j] = f[j]
        BY <4>1
      <4>3. g[i] = IF j + 1 \in P THEN Append(f[j], s[j + 1]) ELSE f[j]
        BY <4>1, <3>1
      <4> QED
        BY <4>1, <4>2, <4>3, <3>1
    <3>2. CASE i = 0
      BY <2>1, <3>2 DEF KeptEq
    <3>3. CASE i \in 1..j
      <4>1. i - 1 \in 0..j /\ i \in 0..j /\ i - 1 \in 0..(j + 1) /\ i # 0
        BY <3>3
      <4>2. g[i] = f[i] /\ g[i - 1] = f[i - 1]
        BY <4>1
      <4>3. f[i] = IF i \in P THEN Append(f[i - 1], s[i]) ELSE f[i - 1]
        BY <2>1, <4>1 DEF KeptEq
      <4> HIDE DEF g
      <4> QED
        BY <4>1, <4>2, <4>3
    <3> QED
      BY <3>1, <3>2, <3>3
  <2>4. g = [i \in 0..(j + 1) |-> g[i]]
    OBVIOUS
  <2> HIDE DEF g
  <2>5. KeptEq(g, s, P, j + 1)
    BY <2>3, <2>4 DEF KeptEq
  <2> QED
    BY <1>2, <2>5
<1> HIDE DEF S
<1>3. \A i \in 0..n : i \in S
  BY <1>1, <1>2, UpTo
<1> QED
  BY <1>3 DEF S

\* KeptUpTo satisfies its own definition.
LEMMA KeptUpToEq ==
  ASSUME NEW s, NEW P, Len(s) \in Nat
  PROVE  /\ KeptUpTo(s, P)[0] = <<>>
         /\ \A i \in 1..Len(s) :
              KeptUpTo(s, P)[i] = IF i \in P THEN Append(KeptUpTo(s, P)[i - 1], s[i])
                                  ELSE KeptUpTo(s, P)[i - 1]
<1> DEFINE k == KeptUpTo(s, P)
<1>1. k = CHOOSE f : KeptEq(f, s, P, Len(s))
  BY DEF KeptUpTo, KeptEq
<1>2. \E f : KeptEq(f, s, P, Len(s))
  BY KeptExists
<1> HIDE DEF k
<1>3. KeptEq(k, s, P, Len(s))
  BY <1>1, <1>2
<1>4. k[0] = <<>>
  BY <1>3 DEF KeptEq
<1>5. ASSUME NEW i \in 1..Len(s)
      PROVE  k[i] = IF i \in P THEN Append(k[i - 1], s[i]) ELSE k[i - 1]
  <2>1. i \in 0..Len(s) /\ i # 0
    OBVIOUS
  <2> QED
    BY <1>3, <2>1, Zenon DEF KeptEq
<1> QED
  BY <1>4, <1>5 DEF k

\* Every prefix kept is a sequence of the elements at the positions P.
LEMMA KeptUpToType ==
  ASSUME NEW E, NEW s \in Seq(E), NEW P
  PROVE  \A i \in 0..Len(s) :
           /\ KeptUpTo(s, P)[i] \in Seq(E)
           /\ \A a \in 1..Len(KeptUpTo(s, P)[i]) :
                \E j \in 1..i : j \in P /\ KeptUpTo(s, P)[i][a] = s[j]
<1> DEFINE k == KeptUpTo(s, P)
           S == {i \in 0..Len(s) :
                   /\ k[i] \in Seq(E)
                   /\ \A a \in 1..Len(k[i]) : \E j \in 1..i : j \in P /\ k[i][a] = s[j]}
<1>1. /\ Len(s) \in Nat /\ k[0] = <<>>
      /\ \A i \in 1..Len(s) : k[i] = IF i \in P THEN Append(k[i - 1], s[i]) ELSE k[i - 1]
  BY KeptUpToEq
<1> HIDE DEF k
<1>2. 0 \in S
  <2>1. 0 \in 0..Len(s) /\ k[0] \in Seq(E) /\ 1..Len(k[0]) = {}
    BY <1>1
  <2> QED
    BY <2>1
<1>3. ASSUME NEW i \in 0..Len(s), i < Len(s), i \in S PROVE i + 1 \in S
  <2>1. i + 1 \in 1..Len(s) /\ (i + 1) - 1 = i
    BY <1>1, <1>3
  <2>2. k[i] \in Seq(E) /\ \A a \in 1..Len(k[i]) : \E j \in 1..i : j \in P /\ k[i][a] = s[j]
    BY <1>3
  <2>3. CASE i + 1 \in P
    <3>1. k[i + 1] = Append(k[i], s[i + 1]) /\ s[i + 1] \in E
      <4>1. k[i + 1] = Append(k[(i + 1) - 1], s[i + 1])
        BY <1>1, <2>1, <2>3, Zenon
      <4> QED
        BY <2>1, <4>1
    <3>2. k[i + 1] \in Seq(E) /\ Len(k[i + 1]) = Len(k[i]) + 1
      BY <2>2, <3>1
    <3>3. ASSUME NEW a \in 1..Len(k[i + 1])
          PROVE  \E j \in 1..(i + 1) : j \in P /\ k[i + 1][a] = s[j]
      <4>1. CASE a \in 1..Len(k[i])
        <5>1. k[i + 1][a] = k[i][a]
          BY <4>1, <3>1, <2>2
        <5>2. PICK j \in 1..i : j \in P /\ k[i][a] = s[j]
          BY <4>1, <2>2
        <5> QED
          BY <5>1, <5>2
      <4>2. CASE a = Len(k[i]) + 1
        <5>1. k[i + 1][a] = s[i + 1]
          BY <4>2, <3>1, <2>2
        <5> QED
          BY <5>1, <2>1, <2>3
      <4> QED
        BY <4>1, <4>2, <3>2, <2>2
    <3> QED
      BY <2>1, <3>2, <3>3
  <2>4. CASE i + 1 \notin P
    <3>1. k[i + 1] = k[i]
      BY <1>1, <2>1, <2>4
    <3>2. \A a \in 1..Len(k[i]) : \E j \in 1..(i + 1) : j \in P /\ k[i][a] = s[j]
      BY <2>2
    <3> QED
      <4>1. /\ k[i + 1] \in Seq(E)
            /\ \A a \in 1..Len(k[i + 1]) : \E j \in 1..(i + 1) : j \in P /\ k[i + 1][a] = s[j]
        BY <2>2, <3>1, <3>2
      <4> QED
        BY <2>1, <4>1
  <2> QED
    BY <2>3, <2>4
<1> HIDE DEF S
<1>4. \A i \in 0..Len(s) : i \in S
  BY <1>1, <1>2, <1>3, UpTo
<1> QED
  BY <1>4 DEF S, k

LEMMA KeptType ==
  ASSUME NEW E, NEW s \in Seq(E), NEW P
  PROVE  /\ Kept(s, P) \in Seq(E)
         /\ \A a \in 1..Len(Kept(s, P)) : \E j \in 1..Len(s) : j \in P /\ Kept(s, P)[a] = s[j]
<1>1. Len(s) \in 0..Len(s)
  OBVIOUS
<1> QED
  BY <1>1, KeptUpToType DEF Kept

\* Where two sequences agree on what is kept, the same is kept.
LEMMA KeptSame ==
  ASSUME NEW E, NEW s \in Seq(E), NEW t \in Seq(E), NEW P, NEW Q,
         NEW m \in Nat, m <= Len(s), m <= Len(t),
         \A i \in 1..m : (i \in P <=> i \in Q) /\ (i \in P => s[i] = t[i])
  PROVE  KeptUpTo(s, P)[m] = KeptUpTo(t, Q)[m]
<1> DEFINE k == KeptUpTo(s, P)
           l == KeptUpTo(t, Q)
           S == {i \in 0..m : k[i] = l[i]}
<1>1. /\ Len(s) \in Nat /\ k[0] = <<>>
      /\ \A i \in 1..Len(s) : k[i] = IF i \in P THEN Append(k[i - 1], s[i]) ELSE k[i - 1]
  BY KeptUpToEq
<1>2. /\ Len(t) \in Nat /\ l[0] = <<>>
      /\ \A i \in 1..Len(t) : l[i] = IF i \in Q THEN Append(l[i - 1], t[i]) ELSE l[i - 1]
  BY KeptUpToEq
<1> HIDE DEF k, l
<1>3. 0 \in S
  BY <1>1, <1>2
<1>4. ASSUME NEW i \in 0..m, i < m, i \in S PROVE i + 1 \in S
  <2>1. i + 1 \in 1..m /\ i + 1 \in 1..Len(s) /\ i + 1 \in 1..Len(t) /\ (i + 1) - 1 = i
    BY <1>1, <1>2, <1>4
  <2>2. k[i + 1] = l[i + 1]
    BY <1>1, <1>2, <1>4, <2>1
  <2> QED
    BY <2>1, <2>2
<1> HIDE DEF S
<1>5. \A i \in 0..m : i \in S
  BY <1>3, <1>4, UpTo
<1> QED
  BY <1>5 DEF S, k, l

\* If every position is kept the sequence stays as it is.
LEMMA KeptAll ==
  ASSUME NEW E, NEW s \in Seq(E), NEW P, \A i \in 1..Len(s) : i \in P
  PROVE  Kept(s, P) = s
<1> DEFINE k == KeptUpTo(s, P)
           S == {i \in 0..Len(s) : k[i] = SubSeq(s, 1, i)}
<1>1. /\ Len(s) \in Nat /\ k[0] = <<>>
      /\ \A i \in 1..Len(s) : k[i] = IF i \in P THEN Append(k[i - 1], s[i]) ELSE k[i - 1]
  BY KeptUpToEq
<1> HIDE DEF k
<1>2. 0 \in S
  <2>1. SubSeq(s, 1, 0) = <<>>
    OBVIOUS
  <2> QED
    BY <1>1, <2>1, 0 \in 0..Len(s)
<1>3. ASSUME NEW i \in 0..Len(s), i < Len(s), i \in S PROVE i + 1 \in S
  <2>1. i + 1 \in 1..Len(s) /\ (i + 1) - 1 = i
    BY <1>1, <1>3
  <2>2. k[i + 1] = Append(SubSeq(s, 1, i), s[i + 1])
    BY <1>1, <1>3, <2>1
  <2>3. SubSeq(s, 1, i + 1) = Append(SubSeq(s, 1, i), s[i + 1])
    BY <2>1, <1>1
  <2> QED
    BY <2>1, <2>2, <2>3
<1> HIDE DEF S
<1>4. \A i \in 0..Len(s) : i \in S
  BY <1>1, <1>2, <1>3, UpTo
<1>5. k[Len(s)] = SubSeq(s, 1, Len(s))
  BY <1>1, <1>4 DEF S
<1>6. SubSeq(s, 1, Len(s)) = s
  BY <1>1
<1> QED
  BY <1>5, <1>6 DEF Kept, k

\* A first element that is kept stays the first.
LEMMA KeptHead ==
  ASSUME NEW E, NEW s \in Seq(E), s # <<>>, NEW P, 1 \in P
  PROVE  Kept(s, P) # <<>> /\ Head(Kept(s, P)) = Head(s)
<1> DEFINE k == KeptUpTo(s, P)
           S == {i \in 0..Len(s) : i > 0 => k[i] # <<>> /\ Head(k[i]) = s[1]}
<1>1. /\ Len(s) \in Nat /\ k[0] = <<>>
      /\ \A i \in 1..Len(s) : k[i] = IF i \in P THEN Append(k[i - 1], s[i]) ELSE k[i - 1]
  BY KeptUpToEq
<1>2. \A i \in 0..Len(s) : k[i] \in Seq(E)
  BY KeptUpToType
<1> HIDE DEF k
<1>3. 0 \in S
  BY <1>1
<1>4. ASSUME NEW i \in 0..Len(s), i < Len(s), i \in S PROVE i + 1 \in S
  <2>1. i + 1 \in 1..Len(s) /\ (i + 1) - 1 = i /\ s[i + 1] \in E
    BY <1>1, <1>4
  <2>2. CASE i = 0
    <3>1. k[1] = Append(<<>>, s[1])
      <4>1. 1 \in 1..Len(s) /\ 1 - 1 = 0
        BY <2>1, <2>2
      <4> QED
        BY <1>1, <4>1, Zenon
    <3>2. k[1] # <<>> /\ Head(k[1]) = s[1]
      BY <3>1, <2>1, <2>2
    <3> QED
      BY <2>1, <2>2, <3>2
  <2>3. CASE i > 0
    <3>1. k[i] \in Seq(E) /\ k[i] # <<>> /\ Head(k[i]) = s[1]
      BY <1>2, <1>4, <2>3
    <3>2. Append(k[i], s[i + 1]) # <<>> /\ Head(Append(k[i], s[i + 1])) = s[1]
      BY <2>1, <3>1
    <3>3. k[i + 1] = Append(k[i], s[i + 1]) \/ k[i + 1] = k[i]
      BY <1>1, <2>1
    <3>4. k[i + 1] # <<>> /\ Head(k[i + 1]) = s[1]
      BY <3>1, <3>2, <3>3, Zenon
    <3>5. i + 1 \in 0..Len(s)
      BY <1>1, <2>1
    <3> QED
      BY <3>4, <3>5
  <2> QED
    BY <2>2, <2>3, <1>1
<1> HIDE DEF S
<1>5. \A i \in 0..Len(s) : i \in S
  BY <1>1, <1>3, <1>4, UpTo
<1>6. Len(s) > 0 /\ Head(s) = s[1]
  OBVIOUS
<1>7. Len(s) \in 0..Len(s)
  BY <1>1
<1> QED
  BY <1>5, <1>6, <1>7 DEF S, k, Kept

-----------------------------------------------------------------------------
(* What a request makes of a value *)

\* No two entries of v have the same name.
UniqueIn(v) == \A i, j \in DOMAIN v : v[i].name = v[j].name => i = j

LEMMA KeptUnique ==
  ASSUME NEW s \in Seq(Entries), UniqueIn(s), NEW P
  PROVE  UniqueIn(Kept(s, P))
<1> DEFINE k == KeptUpTo(s, P)
           S == {i \in 0..Len(s) : \A a, b \in 1..Len(k[i]) : k[i][a].name = k[i][b].name => a = b}
<1>1. /\ Len(s) \in Nat /\ k[0] = <<>>
      /\ \A i \in 1..Len(s) : k[i] = IF i \in P THEN Append(k[i - 1], s[i]) ELSE k[i - 1]
  BY KeptUpToEq
<1>2. \A i \in 0..Len(s) :
        /\ k[i] \in Seq(Entries)
        /\ \A a \in 1..Len(k[i]) : \E j \in 1..i : j \in P /\ k[i][a] = s[j]
  BY KeptUpToType
<1> HIDE DEF k
<1>3. 0 \in S
  <2>1. 0 \in 0..Len(s) /\ 1..Len(k[0]) = {}
    BY <1>1
  <2> QED
    BY <2>1
<1>4. ASSUME NEW i \in 0..Len(s), i < Len(s), i \in S PROVE i + 1 \in S
  <2>1. i + 1 \in 1..Len(s) /\ i + 1 \in 0..Len(s) /\ (i + 1) - 1 = i /\ s[i + 1] \in Entries
    BY <1>1, <1>4
  <2>2. k[i] \in Seq(Entries) /\ \A a, b \in 1..Len(k[i]) : k[i][a].name = k[i][b].name => a = b
    BY <1>2, <1>4
  <2>3. CASE k[i + 1] = k[i]
    BY <2>1, <2>2, <2>3
  <2>4. CASE k[i + 1] = Append(k[i], s[i + 1])
    <3>1. Len(k[i + 1]) = Len(k[i]) + 1 /\ Len(k[i]) \in Nat
      BY <2>1, <2>2, <2>4
    <3>2. /\ \A a \in 1..Len(k[i]) : k[i + 1][a] = k[i][a]
          /\ k[i + 1][Len(k[i]) + 1] = s[i + 1]
      BY <2>1, <2>2, <2>4
    <3>3. ASSUME NEW a \in 1..Len(k[i]) PROVE k[i][a].name # s[i + 1].name
      <4>1. PICK j \in 1..i : k[i][a] = s[j]
        BY <1>2
      <4>2. j \in DOMAIN s /\ i + 1 \in DOMAIN s /\ j # i + 1
        BY <2>1
      <4> QED
        BY <4>1, <4>2 DEF UniqueIn
    <3>4. ASSUME NEW a \in 1..Len(k[i + 1]), NEW b \in 1..Len(k[i + 1]),
                 k[i + 1][a].name = k[i + 1][b].name
          PROVE  a = b
      <4>1. a \in 1..Len(k[i]) \/ a = Len(k[i]) + 1
        BY <3>1
      <4>2. b \in 1..Len(k[i]) \/ b = Len(k[i]) + 1
        BY <3>1
      <4> QED
        BY <4>1, <4>2, <3>2, <3>3, <3>4, <2>2
    <3> QED
      BY <2>1, <3>4
  <2>5. k[i + 1] = Append(k[i], s[i + 1]) \/ k[i + 1] = k[i]
    BY <1>1, <2>1
  <2> QED
    BY <2>3, <2>4, <2>5
<1> HIDE DEF S
<1>5. \A i \in 0..Len(s) : i \in S
  BY <1>1, <1>3, <1>4, UpTo
<1>6. Len(s) \in 0..Len(s) /\ k[Len(s)] \in Seq(Entries)
  BY <1>1, <1>2
<1>7. \A a, b \in 1..Len(k[Len(s)]) : k[Len(s)][a].name = k[Len(s)][b].name => a = b
  BY <1>5, <1>6 DEF S
<1>8. DOMAIN k[Len(s)] = 1..Len(k[Len(s)])
  BY <1>6
<1>9. Kept(s, P) = k[Len(s)]
  BY DEF k, Kept
<1> QED
  BY <1>7, <1>8, <1>9, Zenon DEF UniqueIn

\* What a request the service accepts makes of a value is of the right type.
LEMMA AppliedType ==
  ASSUME NEW v \in Seq(Entries), NEW r \in Requests, Accepted(v, r)
  PROVE  Applied(v, r) \in Seq(Entries)
<1>1. Entry(r) \in Entries
  BY DEF Entry, Entries, Requests
<1>2. DOMAIN v = 1..Len(v) /\ Len(v) \in Nat /\ Append(v, Entry(r)) \in Seq(Entries)
  BY <1>1
<1>3. CASE r.op = "set" \/ r.op = "append"
  BY <1>1, <1>2, <1>3 DEF Applied
<1>4. CASE r.op = "update"
  <2> DEFINE f == CHOOSE i \in Named(v, r.name) : \A j \in Named(v, r.name) : i <= j
  <2>1. Named(v, r.name) # {} /\ Named(v, r.name) \in SUBSET Nat
    BY <1>2, <1>4 DEF Accepted, Named
  <2>2. f \in Named(v, r.name)
    BY <2>1, LeastNumber
  <2>3. f \in 1..Len(v)
    BY <2>2, <1>2 DEF Named
  <2> HIDE DEF f
  <2>4. [v EXCEPT ![f] = Entry(r)] \in Seq(Entries)
    BY <1>1, <2>3
  <2> QED
    BY <1>4, <2>4 DEF Applied, Updated, f
<1>5. CASE r.op = "delete"
  <2>1. Without(v, r.name) \in Seq(Entries)
    BY KeptType DEF Without
  <2> QED
    BY <1>5, <2>1 DEF Applied
<1>6. CASE r.op = "merge"
  <2>1. [i \in DOMAIN v |-> IF v[i].name = r.name THEN Entry(r) ELSE v[i]] \in Seq(Entries)
    BY <1>1, <1>2
  <2> QED
    BY <1>2, <1>6, <2>1 DEF Applied, Merged
<1>7. r.op \in Ops
  BY DEF Requests
<1> QED
  BY <1>3, <1>4, <1>5, <1>6, <1>7 DEF Ops

\* What it makes of a value of a Unique list has no name twice if the value had
\* none before.
LEMMA AppliedUnique ==
  ASSUME NEW v \in Seq(Entries), UniqueIn(v), NEW r \in Requests, r.key \in Unique,
         Accepted(v, r)
  PROVE  UniqueIn(Applied(v, r))
<1>1. Entry(r) \in Entries /\ Entry(r).name = r.name
  BY DEF Entry, Entries, Requests
<1>2. \A a \in Seq(Entries) : DOMAIN a = 1..Len(a) /\ Len(a) \in Nat
                              /\ \A i \in 1..Len(a) : a[i] \in Entries
  OBVIOUS
<1>3. ASSUME Named(v, r.name) = {}
      PROVE  Append(v, Entry(r)) \in Seq(Entries) /\ UniqueIn(Append(v, Entry(r)))
  <2>1. /\ Append(v, Entry(r)) \in Seq(Entries)
        /\ Len(Append(v, Entry(r))) = Len(v) + 1
        /\ \A i \in 1..Len(v) : Append(v, Entry(r))[i] = v[i]
        /\ Append(v, Entry(r))[Len(v) + 1] = Entry(r)
    BY <1>1
  <2>2. \A i \in 1..Len(v) : v[i].name # r.name
    BY <1>2, <1>3 DEF Named
  <2> QED
    BY <1>1, <1>2, <2>1, <2>2 DEF UniqueIn
<1>4. CASE r.op = "set"
  <2>1. <<Entry(r)>> \in Seq(Entries) /\ UniqueIn(<<Entry(r)>>)
    BY <1>1 DEF UniqueIn
  <2> QED
    BY <1>4, <2>1 DEF Applied
<1>5. CASE r.op = "append"
  BY <1>3, <1>5 DEF Applied, Accepted
<1>6. CASE r.op = "update"
  <2> DEFINE f == CHOOSE i \in Named(v, r.name) : \A j \in Named(v, r.name) : i <= j
             u == [v EXCEPT ![f] = Entry(r)]
  <2>1. Named(v, r.name) # {} /\ Named(v, r.name) \in SUBSET Nat
    BY <1>2, <1>6 DEF Accepted, Named
  <2>2. f \in Named(v, r.name)
    BY <2>1, LeastNumber
  <2>3. f \in 1..Len(v) /\ v[f].name = r.name
    BY <2>2, <1>2 DEF Named
  <2> HIDE DEF f
  <2>4. u \in Seq(Entries) /\ Len(u) = Len(v)
    BY <1>1, <2>3
  <2>5. \A i \in 1..Len(v) : u[i].name = v[i].name
    BY <1>1, <1>2, <2>3
  <2>6. UniqueIn(u)
    BY <1>2, <2>4, <2>5 DEF UniqueIn
  <2> QED
    BY <1>6, <2>4, <2>6 DEF Applied, Updated, f
<1>7. CASE r.op = "delete"
  <2>1. Without(v, r.name) \in Seq(Entries) /\ UniqueIn(Without(v, r.name))
    BY KeptType, KeptUnique DEF Without
  <2> QED
    BY <1>7, <2>1 DEF Applied
<1>8. CASE r.op = "merge"
  <2>1. CASE Named(v, r.name) = {}
    BY <1>3, <1>8, <2>1 DEF Applied, Merged
  <2>2. CASE Named(v, r.name) # {}
    <3> DEFINE u == [i \in DOMAIN v |-> IF v[i].name = r.name THEN Entry(r) ELSE v[i]]
    <3>1. u \in Seq(Entries) /\ Len(u) = Len(v)
      BY <1>1, <1>2
    <3>2. \A i \in 1..Len(v) : u[i].name = v[i].name
      BY <1>1, <1>2
    <3>3. UniqueIn(u)
      <4> HIDE DEF u
      <4>1. DOMAIN u = DOMAIN v /\ DOMAIN v = 1..Len(v)
        BY <1>1, <3>1
      <4> QED
        BY <1>2, <3>1, <3>2, <4>1 DEF UniqueIn
    <3> QED
      BY <1>8, <2>2, <3>1, <3>3 DEF Applied, Merged
  <2> QED
    BY <2>1, <2>2
<1>9. r.op \in Ops
  BY DEF Requests
<1> QED
  BY <1>4, <1>5, <1>6, <1>7, <1>8, <1>9 DEF Ops

\* An item that is appended, updated or deleted leaves the others alone.
LEMMA AppliedKeepsOthers ==
  ASSUME NEW v \in Seq(Entries), NEW r \in Requests, Accepted(v, r),
         r.op \in {"append", "update", "delete"}
  PROVE  Without(Applied(v, r), r.name) = Without(v, r.name)
<1> DEFINE n == r.name
           Others(u) == {i \in DOMAIN u : u[i].name # n}
<1>1. Entry(r) \in Entries /\ Entry(r).name = n
  BY DEF Entry, Entries, Requests
<1>2. \A a \in Seq(Entries) : DOMAIN a = 1..Len(a) /\ Len(a) \in Nat
  OBVIOUS
<1>3. CASE r.op = "append"
  <2> DEFINE u == Append(v, Entry(r))
  <2>1. /\ u \in Seq(Entries) /\ Len(u) = Len(v) + 1
        /\ \A i \in 1..Len(v) : u[i] = v[i]
        /\ u[Len(v) + 1] = Entry(r)
    BY <1>1
  <2> HIDE DEF u
  <2>2. /\ Len(v) + 1 \notin Others(u)
        /\ \A i \in 1..Len(v) : (i \in Others(u) <=> i \in Others(v)) /\ (i \in Others(u) => u[i] = v[i])
    BY <1>1, <1>2, <2>1
  <2> HIDE DEF Others
  <2>3. Len(v) + 1 \in 1..Len(u) /\ (Len(v) + 1) - 1 = Len(v) /\ Len(u) \in Nat
        /\ Len(v) \in Nat /\ Len(v) <= Len(u) /\ Len(v) <= Len(v)
    BY <1>2, <2>1
  <2>4. KeptUpTo(u, Others(u))[Len(v) + 1] = KeptUpTo(u, Others(u))[(Len(v) + 1) - 1]
    <3>1. \A i \in 1..Len(u) : KeptUpTo(u, Others(u))[i] =
            IF i \in Others(u) THEN Append(KeptUpTo(u, Others(u))[i - 1], u[i])
            ELSE KeptUpTo(u, Others(u))[i - 1]
      BY <2>3, KeptUpToEq
    <3> QED
      BY <2>2, <2>3, <3>1, Zenon
  <2>5. KeptUpTo(u, Others(u))[Len(v)] = KeptUpTo(v, Others(v))[Len(v)]
    BY <2>1, <2>2, <2>3, KeptSame
  <2>6. Kept(u, Others(u)) = Kept(v, Others(v))
    BY <2>1, <2>3, <2>4, <2>5 DEF Kept
  <2> QED
    BY <1>3, <2>6 DEF Applied, Without, Others, u
<1>4. CASE r.op = "update"
  <2> DEFINE f == CHOOSE i \in Named(v, n) : \A j \in Named(v, n) : i <= j
             u == [v EXCEPT ![f] = Entry(r)]
  <2>1. Named(v, n) # {} /\ Named(v, n) \in SUBSET Nat
    BY <1>2, <1>4 DEF Accepted, Named
  <2>2. f \in Named(v, n)
    BY <2>1, LeastNumber
  <2>3. f \in 1..Len(v) /\ v[f].name = n
    BY <2>2, <1>2 DEF Named
  <2> HIDE DEF f
  <2>4. u \in Seq(Entries) /\ Len(u) = Len(v)
    BY <1>1, <2>3
  <2>5. \A i \in 1..Len(v) : IF i = f THEN u[i] = Entry(r) ELSE u[i] = v[i]
    BY <1>2, <2>3
  <2> HIDE DEF u
  <2>6. \A i \in 1..Len(v) : (i \in Others(u) <=> i \in Others(v)) /\ (i \in Others(u) => u[i] = v[i])
    BY <1>1, <1>2, <2>3, <2>4, <2>5
  <2> HIDE DEF Others
  <2>7. Len(v) \in Nat /\ Len(v) <= Len(u) /\ Len(v) <= Len(v)
    BY <1>2, <2>4
  <2>8. KeptUpTo(u, Others(u))[Len(v)] = KeptUpTo(v, Others(v))[Len(v)]
    BY <2>4, <2>6, <2>7, KeptSame
  <2>9. Kept(u, Others(u)) = Kept(v, Others(v))
    BY <2>4, <2>8 DEF Kept
  <2> QED
    BY <1>4, <2>9 DEF Applied, Updated, Without, Others, u, f
<1>5. CASE r.op = "delete"
  <2> DEFINE P == Others(v)
             u == Kept(v, P)
  <2> HIDE DEF P
  <2>1. u \in Seq(Entries) /\ \A a \in 1..Len(u) : \E j \in 1..Len(v) : j \in P /\ u[a] = v[j]
    BY KeptType
  <2> HIDE DEF u
  <2>2. \A a \in 1..Len(u) : a \in Others(u)
    BY <1>2, <2>1 DEF P
  <2> HIDE DEF Others
  <2>3. Kept(u, Others(u)) = u
    BY <2>1, <2>2, KeptAll
  <2> QED
    BY <1>5, <2>3 DEF Applied, Without, Others, u, P
<1> QED
  BY <1>3, <1>4, <1>5

-----------------------------------------------------------------------------
(* What a Merging reloader makes of the live copy *)

LEMMA OverlaidType ==
  ASSUME NEW old \in Seq(Entries), NEW new \in Seq(Entries)
  PROVE  /\ Overlaid(old, new) \in Seq(Entries)
         /\ Items(new) \subseteq Items(Overlaid(old, new))
         /\ \A e \in Items(Overlaid(old, new)) \ Items(new) :
              e.name \in Sticky /\ Named(new, e.name) = {}
<1> DEFINE P == {i \in DOMAIN old : old[i].name \in Sticky /\ Named(new, old[i].name) = {}}
           kept == Kept(old, P)
           o == kept \o new
<1> HIDE DEF P
<1>1. kept \in Seq(Entries) /\ \A a \in 1..Len(kept) : \E j \in 1..Len(old) : j \in P /\ kept[a] = old[j]
  BY KeptType
<1>2. \A a \in 1..Len(kept) : kept[a].name \in Sticky /\ Named(new, kept[a].name) = {}
  BY <1>1 DEF P
<1> HIDE DEF kept
<1>3. /\ o \in Seq(Entries) /\ Len(o) = Len(kept) + Len(new)
      /\ \A i \in 1..Len(kept) : o[i] = kept[i]
      /\ \A i \in 1..Len(new) : o[Len(kept) + i] = new[i]
  BY <1>1
<1>4. Len(kept) \in Nat /\ Len(new) \in Nat /\ DOMAIN new = 1..Len(new) /\ DOMAIN o = 1..Len(o)
  BY <1>1, <1>3
<1> HIDE DEF o
<1>5. Items(new) \subseteq Items(o)
  <2> SUFFICES ASSUME NEW i \in 1..Len(new) PROVE new[i] \in Items(o)
    BY <1>4 DEF Items
  <2>1. Len(kept) + i \in 1..Len(o) /\ o[Len(kept) + i] = new[i]
    BY <1>3, <1>4
  <2> QED
    BY <1>4, <2>1 DEF Items
<1>6. ASSUME NEW i \in 1..Len(o), o[i] \notin Items(new)
      PROVE  o[i].name \in Sticky /\ Named(new, o[i].name) = {}
  <2>1. i \in 1..Len(kept)
    <3> SUFFICES ASSUME i \notin 1..Len(kept) PROVE FALSE
      OBVIOUS
    <3>1. i - Len(kept) \in 1..Len(new) /\ Len(kept) + (i - Len(kept)) = i
      BY <1>3, <1>4
    <3>2. o[i] = new[i - Len(kept)]
      BY <1>3, <3>1
    <3> QED
      BY <1>4, <1>6, <3>1, <3>2 DEF Items
  <2> QED
    BY <1>2, <1>3, <2>1
<1>7. \A e \in Items(o) \ Items(new) : e.name \in Sticky /\ Named(new, e.name) = {}
  BY <1>4, <1>6 DEF Items
<1>8. Overlaid(old, new) = o
  BY DEF Overlaid, o, kept, P
<1> QED
  BY <1>3, <1>5, <1>7, <1>8

LEMMA ReloadedType ==
  ASSUME TypeOK, NEW k \in Keys, NEW w \in Writers
  PROVE  Reloaded(k, val[w]) \in Seq(Entries)
<1>1. live[k] \in Seq(Entries) /\ store[k] \in Seq(Entries) /\ val[w] \in Seq(Entries)
  BY DEF TypeOK
<1>2. Overlaid(live[k], val[w]) \in Seq(Entries)
  BY <1>1, OverlaidType
<1> QED
  BY <1>1, <1>2 DEF Reloaded

-----------------------------------------------------------------------------
(* Types *)

\* What a task is going to write to a Unique list has no name twice; nor has
\* what an idle task is left with, whatever it runs next.
Fits(w) == at[w] = "idle" \/ req[w].key \in Unique => UniqueIn(val[w])

\* A task that is not idle runs a request, and no value of a Unique list, stored
\* or about to be, has a name twice.
ValuesOK ==
  /\ \A w \in Writers : at[w] # "idle" => req[w] \in Requests
  /\ \A k \in Unique : UniqueIn(store[k])
  /\ \A w \in Writers : Fits(w)

LEMMA EmptyUnique == UniqueIn(<<>>) /\ \A E : <<>> \in Seq(E)
  BY DEF UniqueIn

LEMMA LeaveType ==
  ASSUME TypeOK, ValuesOK, NEW w \in Writers, at[w] # "idle", Leave(w)
  PROVE  /\ lock' \in [Keys -> Seq(Writers)] /\ at' \in [Writers -> Statuses]
         /\ req' \in [Writers -> Requests \cup {NoRequest}]
         /\ val' \in [Writers -> Seq(Entries)] /\ log' \in [Writers -> Seq(Numbers)]
         /\ \A x \in Writers : at'[x] # "idle" => req'[x] \in Requests
         /\ \A x \in Writers : Fits(x)'
<1>1. req[w].key \in Keys /\ lock[req[w].key] \in Seq(Writers)
  BY DEF TypeOK, ValuesOK, Requests
<1> DEFINE q == lock[req[w].key]
           P == {i \in DOMAIN q : q[i] # w}
<1> HIDE DEF P
<1>2. Kept(q, P) \in Seq(Writers)
  BY <1>1, KeptType
<1>3. lock' = [lock EXCEPT ![req[w].key] = Kept(q, P)]
  BY <1>1 DEF Leave, P, TypeOK
<1> HIDE DEF q
<1>4. lock' \in [Keys -> Seq(Writers)]
  BY <1>2, <1>3 DEF TypeOK
<1>5. at' \in [Writers -> Statuses] /\ req' \in [Writers -> Requests \cup {NoRequest}]
  BY DEF TypeOK, Leave, Statuses
<1>6. val' \in [Writers -> Seq(Entries)] /\ log' \in [Writers -> Seq(Numbers)]
  BY DEF TypeOK, Leave
<1>7. \A x \in Writers : at'[x] # "idle" => req'[x] \in Requests
  BY DEF TypeOK, ValuesOK, Leave
<1>8. \A x \in Writers : Fits(x)'
  <2>1. val'[w] = <<>>
    BY DEF TypeOK, Leave
  <2>2. \A x \in Writers : x # w => at'[x] = at[x] /\ req'[x] = req[x] /\ val'[x] = val[x]
    BY DEF TypeOK, Leave
  <2> QED
    BY <2>1, <2>2, EmptyUnique DEF ValuesOK, Fits
<1> QED
  BY <1>4, <1>5, <1>6, <1>7, <1>8

LEMMA EnterType ==
  ASSUME TypeOK, ValuesOK, NEW w \in Writers, NEW r \in Requests, Enter(w, r),
         \A x \in Writers : x # w => val'[x] = val[x],
         r.key \in Unique => UniqueIn(val'[w])
  PROVE  /\ lock' \in [Keys -> Seq(Writers)] /\ at' \in [Writers -> Statuses]
         /\ req' \in [Writers -> Requests \cup {NoRequest}]
         /\ \A x \in Writers : at'[x] # "idle" => req'[x] \in Requests
         /\ \A x \in Writers : Fits(x)'
<1>1. r.key \in Keys /\ Append(lock[r.key], w) \in Seq(Writers)
  BY DEF TypeOK, Requests
<1>2. lock' \in [Keys -> Seq(Writers)]
  BY <1>1 DEF Enter, TypeOK
<1>3. at' \in [Writers -> Statuses] /\ req' \in [Writers -> Requests \cup {NoRequest}]
  BY DEF TypeOK, Enter, Statuses
<1>4. \A x \in Writers : at'[x] # "idle" => req'[x] \in Requests
  BY DEF TypeOK, ValuesOK, Enter
<1>5. at'[w] # "idle" /\ req'[w] = r
  BY DEF TypeOK, Enter
<1>6. \A x \in Writers : x # w => at'[x] = at[x] /\ req'[x] = req[x]
  BY DEF TypeOK, Enter
<1>7. \A x \in Writers : Fits(x)'
  BY <1>5, <1>6 DEF ValuesOK, Fits
<1> QED
  BY <1>2, <1>3, <1>4, <1>7

LEMMA LastOfType ==
  ASSUME NEW E, NEW s \in Seq(E), NEW n \in Nat
  PROVE  LastOf(s, n) \in Seq(E) /\ Len(LastOf(s, n)) <= n
                                 /\ (Len(s) <= n => LastOf(s, n) = s)
                                 /\ (Len(s) >= n => Len(LastOf(s, n)) = n)
<1>1. CASE Len(s) > n
  <2>1. LastOf(s, n) = SubSeq(s, Len(s) - n + 1, Len(s))
    BY <1>1 DEF LastOf
  <2> DEFINE m == Len(s) - n + 1
  <2>2. m \in Int /\ Len(s) \in Int /\ m > 1 /\ Len(s) - m + 1 = n /\ (m > Len(s) => n = 0)
    BY <1>1
  <2>3. \A i \in m..Len(s) : s[i] \in E
    BY <2>2
  <2> HIDE DEF m
  <2>4. /\ SubSeq(s, m, Len(s)) \in Seq(E)
        /\ Len(SubSeq(s, m, Len(s))) = IF m <= Len(s) THEN Len(s) - m + 1 ELSE 0
    BY <2>2, <2>3, SubSeqProperties
  <2>5. LastOf(s, n) \in Seq(E) /\ Len(LastOf(s, n)) = n
    BY <2>1, <2>2, <2>4 DEF m
  <2> QED
    BY <1>1, <2>5
<1>2. CASE Len(s) <= n
  <2>1. LastOf(s, n) = SubSeq(s, 1, Len(s))
    <3>1. ~(Len(s) > n)
      BY <1>2
    <3> QED
      BY <3>1, Zenon DEF LastOf
  <2>2. LastOf(s, n) = s
    <3>1. SubSeq(s, 1, Len(s)) = s
      BY SubSeqFull
    <3> QED
      BY <2>1, <3>1, Zenon
  <2> QED
    BY <1>2, <2>2
<1> QED
  BY <1>1, <1>2

LEMMA InitTypes == Init => TypeOK /\ ValuesOK
<1> SUFFICES ASSUME Init PROVE TypeOK /\ ValuesOK
  OBVIOUS
<1>1. AuditMax \in Nat /\ MaxRequests \in Nat /\ MaxFaults \in Nat
  BY SettingsAssumption
<1>2. TypeOK
  <2>1. /\ store \in [Keys -> Seq(Entries)] /\ live \in [Keys -> Seq(Entries)]
        /\ lock \in [Keys -> Seq(Writers)]
        /\ val \in [Writers -> Seq(Entries)] /\ log \in [Writers -> Seq(Numbers)]
    BY EmptyUnique DEF Init
  <2>2. audit \in Seq(Numbers) /\ Len(audit) <= AuditMax
    BY <1>1 DEF Init
  <2>3. at \in [Writers -> Statuses] /\ req \in [Writers -> Requests \cup {NoRequest}]
    BY DEF Init, Statuses
  <2>4. ran \in [Numbers -> Nat] /\ asked \in 0..MaxRequests /\ faults \in 0..MaxFaults
    BY <1>1 DEF Init
  <2>5. pending \subseteq Requests /\ behind \subseteq Keys /\ cut \subseteq Numbers /\ torn \in BOOLEAN
    BY DEF Init
  <2> QED
    BY <2>1, <2>2, <2>3, <2>4, <2>5 DEF TypeOK
<1>3. ValuesOK
  BY EmptyUnique, SettingsAssumption DEF Init, ValuesOK, Fits, Keys
<1> QED
  BY <1>2, <1>3

\* The steps that read a setting outside the lock.
LEMMA CheckedTypes ==
  ASSUME TypeOK, ValuesOK, NEW w \in Writers,
         NEW v \in Seq(Entries), req[w].key \in Unique => UniqueIn(v),
         Checked(w, v), faults' \in 0..MaxFaults
  PROVE  TypeOK' /\ ValuesOK'
<1>1. at[w] = "check" /\ req[w] \in Requests
  BY DEF Checked, ValuesOK
<1>2. UNCHANGED <<store, live, behind, audit, torn, cut, pending, asked, ran>>
  BY DEF Checked, liveVars, auditVars, askVars
<1>3. CASE Leave(w)
  BY <1>1, <1>2, <1>3, LeaveType DEF TypeOK, ValuesOK
<1>4. CASE Enter(w, req[w]) /\ UNCHANGED <<val, log>>
  <2>1. req[w].key \in Unique => UniqueIn(val'[w])
    BY <1>4 DEF ValuesOK, Fits
  <2> QED
    BY <1>1, <1>2, <1>4, <2>1, EnterType DEF TypeOK, ValuesOK
<1>5. CASE Enter(w, req[w]) /\ val' = [val EXCEPT ![w] = v] /\ UNCHANGED log
  <2>1. /\ val' \in [Writers -> Seq(Entries)] /\ val'[w] = v
        /\ \A x \in Writers : x # w => val'[x] = val[x]
    BY <1>5 DEF TypeOK
  <2> QED
    BY <1>1, <1>2, <1>5, <2>1, EnterType DEF TypeOK, ValuesOK
<1> QED
  BY <1>3, <1>4, <1>5 DEF Checked

LEMMA TypeStep ==
  ASSUME TypeOK, ValuesOK, Next
  PROVE  TypeOK' /\ ValuesOK'
<1>1. PICK w \in Writers :
        \/ \E a \in Asks : Ask(w, Request(asked + 1, a))
        \/ \E r \in pending : Resolve(w, r)
        \/ Proceed(w) \/ Fail(w)
  BY DEF Next
<1> USE DEF liveVars, auditVars, askVars, taskVars
<1>0. AuditMax \in Nat /\ MaxRequests \in Nat /\ MaxFaults \in Nat
  BY SettingsAssumption
<1>2. ASSUME NEW a \in Asks, Ask(w, Request(asked + 1, a)) PROVE TypeOK' /\ ValuesOK'
  <2> DEFINE r == Request(asked + 1, a)
  <2>1. r \in Requests /\ asked' \in 0..MaxRequests
    BY <1>0, <1>2, SettingsAssumption DEF Ask, Request, Requests, TypeOK, Numbers
  <2> HIDE DEF r
  <2>2. UNCHANGED <<store, liveVars, auditVars, ran, faults>>
    BY <1>2 DEF Ask
  <2>3. CASE pending' = pending \cup {r} /\ UNCHANGED <<lock, taskVars>>
    BY <2>1, <2>2, <2>3 DEF TypeOK, ValuesOK, Fits
  <2>4. CASE at' = [at EXCEPT ![w] = "check"] /\ req' = [req EXCEPT ![w] = r]
             /\ UNCHANGED <<lock, val, log, pending>>
    <3>1. UniqueIn(val[w])
      BY <1>2 DEF Ask, ValuesOK, Fits
    <3>2. \A x \in Writers : x # w => at'[x] = at[x] /\ req'[x] = req[x]
      BY <2>4 DEF TypeOK
    <3>3. \A x \in Writers : Fits(x)'
      BY <2>4, <3>1, <3>2 DEF ValuesOK, Fits
    <3> QED
      BY <2>1, <2>2, <2>4, <3>3 DEF TypeOK, ValuesOK, Statuses
  <2>5. CASE Enter(w, r) /\ UNCHANGED <<val, log, pending>>
    <3>1. UniqueIn(val'[w])
      BY <1>2, <2>5 DEF Ask, ValuesOK, Fits
    <3> QED
      BY <2>1, <2>2, <2>5, <3>1, EnterType DEF TypeOK, ValuesOK
  <2> QED
    BY <1>2, <2>3, <2>4, <2>5 DEF Ask, r
<1>3. ASSUME NEW r \in pending, Resolve(w, r) PROVE TypeOK' /\ ValuesOK'
  <2>1. r \in Requests
    BY DEF TypeOK
  <2>2. UniqueIn(val'[w])
    BY <1>3 DEF Resolve, ValuesOK, Fits
  <2> QED
    BY <1>3, <2>1, <2>2, EnterType DEF Resolve, TypeOK, ValuesOK
<1>4. CASE Check(w)
  <2>1. req[w] \in Requests /\ req[w].key \in Keys
    BY <1>4 DEF Check, ValuesOK, Requests
  <2>2. /\ store[req[w].key] \in Seq(Entries)
        /\ req[w].key \in Unique => UniqueIn(store[req[w].key])
    BY <2>1 DEF TypeOK, ValuesOK
  <2>3. faults' \in 0..MaxFaults /\ Checked(w, store[req[w].key])
    BY <1>4 DEF Check, TypeOK
  <2> QED
    BY <2>2, <2>3, CheckedTypes
<1>5. CASE CheckFails(w)
  <2>1. faults' \in 0..MaxFaults /\ Checked(w, <<>>)
    BY <1>0, <1>5 DEF CheckFails, TypeOK
  <2>2. <<>> \in Seq(Entries) /\ UniqueIn(<<>>)
    BY EmptyUnique
  <2> QED
    BY <2>1, <2>2, CheckedTypes
<1>6. CASE Get(w)
  <2> DEFINE r == req[w]
             v == IF r.op = "merge" THEN val[w] ELSE store[r.key]
  <2>1. r \in Requests /\ r.key \in Keys /\ at[w] # "idle"
    BY <1>6 DEF Get, ValuesOK, Requests
  <2>2. v \in Seq(Entries) /\ (r.key \in Unique => UniqueIn(v))
    BY <2>1 DEF TypeOK, ValuesOK, Fits
  <2>3. UNCHANGED <<store, liveVars, auditVars, askVars, ran, faults>>
    BY <1>6 DEF Get
  <2>4. \/ Leave(w)
        \/ /\ Accepted(v, r)
           /\ at' = [at EXCEPT ![w] = "put"]
           /\ val' = [val EXCEPT ![w] = Applied(v, r)]
           /\ UNCHANGED <<req, log, lock>>
    BY <1>6 DEF Get
  <2> HIDE DEF v
  <2>5. CASE Leave(w)
    BY <2>1, <2>3, <2>5, LeaveType DEF TypeOK, ValuesOK
  <2>6. CASE /\ Accepted(v, r)
             /\ at' = [at EXCEPT ![w] = "put"]
             /\ val' = [val EXCEPT ![w] = Applied(v, r)]
             /\ UNCHANGED <<req, log, lock>>
    <3>1. Applied(v, r) \in Seq(Entries) /\ (r.key \in Unique => UniqueIn(Applied(v, r)))
      BY <2>1, <2>2, <2>6, AppliedType, AppliedUnique
    <3>2. val' \in [Writers -> Seq(Entries)] /\ \A x \in Writers : Fits(x)'
      <4>1. at'[w] = "put" /\ val'[w] = Applied(v, r)
        BY <2>6 DEF TypeOK
      <4>2. \A x \in Writers : x # w => at'[x] = at[x] /\ val'[x] = val[x]
        BY <2>6 DEF TypeOK
      <4>3. val' \in [Writers -> Seq(Entries)]
        BY <2>6, <3>1 DEF TypeOK
      <4> QED
        BY <2>6, <3>1, <4>1, <4>2, <4>3 DEF ValuesOK, Fits
    <3>3. at' \in [Writers -> Statuses] /\ \A x \in Writers : at'[x] # "idle" => req'[x] \in Requests
      BY <2>1, <2>6 DEF TypeOK, ValuesOK, Statuses
    <3> QED
      BY <2>3, <2>6, <3>2, <3>3 DEF TypeOK, ValuesOK
  <2> QED
    BY <2>4, <2>5, <2>6
<1>7. CASE Put(w)
  <2> DEFINE r == req[w]
             v == IF r.key \in Secrets /\ r.op = "set" THEN <<Entry(r)>> ELSE val[w]
  <2>1. r \in Requests /\ r.key \in Keys /\ r.no \in Numbers /\ at[w] # "idle"
    BY <1>7 DEF Put, ValuesOK, Requests
  <2>2. v \in Seq(Entries) /\ (r.key \in Unique => UniqueIn(v))
    <3>1. Entry(r) \in Entries
      BY <2>1 DEF Entry, Entries, Requests
    <3>2. <<Entry(r)>> \in Seq(Entries) /\ UniqueIn(<<Entry(r)>>)
      BY <3>1 DEF UniqueIn
    <3> QED
      BY <3>2 DEF TypeOK, ValuesOK, Fits
  <2>3. /\ store' = [store EXCEPT ![r.key] = v] /\ val' = [val EXCEPT ![w] = v]
        /\ ran' = [ran EXCEPT ![r.no] = @ + 1] /\ at' = [at EXCEPT ![w] = "audit"]
        /\ UNCHANGED <<req, log, lock, liveVars, auditVars, askVars, faults>>
    BY <1>7 DEF Put
  <2> HIDE DEF v
  <2>4. /\ store' \in [Keys -> Seq(Entries)] /\ \A k \in Unique : UniqueIn(store'[k])
        /\ val' \in [Writers -> Seq(Entries)] /\ \A x \in Writers : Fits(x)'
    <3>1. store' \in [Keys -> Seq(Entries)] /\ val' \in [Writers -> Seq(Entries)]
      BY <2>1, <2>2, <2>3 DEF TypeOK
    <3>2. Unique \subseteq Keys
      BY SettingsAssumption DEF Keys
    <3>3. \A k \in Unique : UniqueIn(store'[k])
      BY <2>1, <2>2, <2>3, <3>2 DEF TypeOK, ValuesOK
    <3>4. at'[w] = "audit" /\ val'[w] = v
      BY <2>3 DEF TypeOK
    <3>5. \A x \in Writers : x # w => at'[x] = at[x] /\ val'[x] = val[x]
      BY <2>3 DEF TypeOK
    <3>6. \A x \in Writers : Fits(x)'
      BY <2>2, <2>3, <3>4, <3>5 DEF ValuesOK, Fits
    <3> QED
      BY <3>1, <3>3, <3>6
  <2>5. ran' \in [Numbers -> Nat] /\ at' \in [Writers -> Statuses]
    BY <2>1, <2>3 DEF TypeOK, Statuses
  <2>6. \A x \in Writers : at'[x] # "idle" => req'[x] \in Requests
    BY <2>1, <2>3 DEF TypeOK, ValuesOK
  <2> QED
    BY <2>3, <2>4, <2>5, <2>6 DEF TypeOK, ValuesOK
<1>8. CASE PutFails(w)
  BY <1>0, <1>8, LeaveType DEF PutFails, TypeOK, ValuesOK
<1>9. CASE Audit(w)
  BY <1>9 DEF Audit, TypeOK, ValuesOK, Fits, Statuses
<1>10. CASE AuditFails(w)
  BY <1>0, <1>10, EmptyUnique DEF AuditFails, TypeOK, ValuesOK, Fits, Statuses
<1>11. CASE Record(w)
  <2>1. Append(log[w], req[w].no) \in Seq(Numbers)
    BY <1>11 DEF Record, TypeOK, ValuesOK, Requests
  <2>2. audit' \in Seq(Numbers) /\ Len(audit') <= AuditMax
    BY <1>0, <1>11, <2>1, LastOfType DEF Record
  <2>3. at' \in [Writers -> Statuses] /\ torn' \in BOOLEAN
    BY <1>11 DEF Record, TypeOK, Statuses
  <2> QED
    BY <1>11, <2>2, <2>3 DEF Record, TypeOK, ValuesOK, Fits
<1>12. CASE RecordFails(w)
  <2>1. at' \in [Writers -> Statuses] /\ torn' \in BOOLEAN /\ at' = [at EXCEPT ![w] = at'[w]]
    BY <1>12 DEF RecordFails, TypeOK, Statuses
  <2>2. Append(log[w], req[w].no) \in Seq(Numbers)
    BY <1>12 DEF RecordFails, TypeOK, ValuesOK, Requests
  <2> QED
    BY <1>0, <1>12, <2>1, <2>2 DEF RecordFails, TypeOK, ValuesOK, Fits
<1>13. CASE Reload(w)
  <2>1. req[w] \in Requests /\ req[w].key \in Keys /\ at[w] # "idle"
    BY <1>13 DEF Reload, ValuesOK, Requests
  <2>2. Reloaded(req[w].key, val[w]) \in Seq(Entries)
    BY <2>1, ReloadedType
  <2>3. live' \in [Keys -> Seq(Entries)] /\ behind' \subseteq Keys
    BY <1>13, <2>1, <2>2 DEF Reload, TypeOK
  <2> QED
    BY <1>13, <2>1, <2>3, LeaveType DEF Reload, TypeOK, ValuesOK
<1>14. CASE ReloadFails(w)
  <2>1. req[w] \in Requests /\ req[w].key \in Keys /\ at[w] # "idle"
    BY <1>14 DEF ReloadFails, ValuesOK, Requests
  <2>2. behind' \subseteq Keys /\ faults' \in 0..MaxFaults
    BY <1>0, <1>14, <2>1 DEF ReloadFails, TypeOK
  <2> QED
    BY <1>14, <2>1, <2>2, LeaveType DEF ReloadFails, TypeOK, ValuesOK
<1>15. CASE Cancel(w)
  <2>1. req[w] \in Requests /\ req[w].key \in Keys /\ req[w].no \in Numbers /\ at[w] # "idle"
    BY <1>15 DEF Cancel, ValuesOK, Requests
  <2>2. behind' \subseteq Keys /\ cut' \subseteq Numbers /\ faults' \in 0..MaxFaults
    BY <1>0, <1>15, <2>1 DEF Cancel, TypeOK
  <2> QED
    BY <1>15, <2>1, <2>2, LeaveType DEF Cancel, TypeOK, ValuesOK
<1> QED
  BY <1>1, <1>2, <1>3, <1>4, <1>5, <1>6, <1>7, <1>8, <1>9, <1>10, <1>11, <1>12,
     <1>13, <1>14, <1>15 DEF Proceed, Fail

LEMMA TypesHold == Spec => [](TypeOK /\ ValuesOK)
<1>1. TypeOK /\ ValuesOK /\ UNCHANGED vars => (TypeOK /\ ValuesOK)'
  BY DEF vars, liveVars, auditVars, askVars, taskVars, TypeOK, ValuesOK, Fits
<1>2. TypeOK /\ ValuesOK /\ [Next]_vars => (TypeOK /\ ValuesOK)'
  BY <1>1, TypeStep
<1> QED
  BY <1>2, InitTypes, PTL DEF Spec

\* Every variable keeps its type, for any tasks, keys and requests: in
\* particular the audit log keeps to ActionHandler._AUDIT_MAX.
THEOREM TypeCorrect == Spec => []TypeOK
  BY TypesHold, PTL

\* No list whose validation rejects duplicates (mcp_servers, skill_markets) gets
\* two entries of one name, whoever appends, updates or replaces at the same
\* time, and whatever the UI had read before it asked.
THEOREM NamesUnique == Spec => []UniqueNames
<1>1. TypeOK /\ ValuesOK => UniqueNames
  <2> SUFFICES ASSUME TypeOK, ValuesOK, NEW k \in Unique, NEW n \in Names
               PROVE  Cardinality(Named(store[k], n)) <= 1
    BY DEF UniqueNames
  <2>1. UniqueIn(store[k])
    BY DEF ValuesOK
  <2>2. Named(store[k], n) = {} \/ \E i \in Named(store[k], n) : Named(store[k], n) = {i}
    BY <2>1 DEF Named, UniqueIn
  <2>3. Named(store[k], n) = {} => Cardinality(Named(store[k], n)) = 0
    BY FS_EmptySet, Zenon
  <2>4. ASSUME NEW i, Named(store[k], n) = {i} PROVE Cardinality(Named(store[k], n)) = 1
    BY <2>4, FS_Singleton, Zenon
  <2> HIDE DEF Named
  <2> QED
    BY <2>2, <2>3, <2>4
<1> QED
  BY <1>1, TypesHold, PTL

-----------------------------------------------------------------------------
(* The lock of a key *)

\* The tasks that have the lock of their key: they have read under it what
\* they are going to write, or written it.
UnderLock(w) ==
  \/ at[w] \in {"audit", "record", "reload"}
  \/ at[w] = "put" /\ ~(req[w].key \in Secrets /\ req[w].op = "set")

\* Such a task is at the head of the queue; what it is going to write is what
\* its request makes of the stored value, what it has written is still stored.
LockOK ==
  \A w \in Writers :
    /\ UnderLock(w) => Holds(w)
    /\ at[w] \in {"audit", "record", "reload"} => val[w] = store[req[w].key]
    /\ at[w] = "put" /\ req[w].op \in {"append", "update", "delete"} =>
         /\ Accepted(store[req[w].key], req[w])
         /\ val[w] = Applied(store[req[w].key], req[w])

LEMMA InitLock == Init => LockOK
  BY DEF Init, LockOK, UnderLock

\* Whoever leaves, the head of another task's queue stays.
LEMMA LeaveKeepsHead ==
  ASSUME TypeOK, ValuesOK, NEW w \in Writers, at[w] # "idle", Leave(w),
         NEW x \in Writers, x # w, req[x] \in Requests, Holds(x)
  PROVE  Holds(x)'
<1> DEFINE k == req[w].key
           q == lock[k]
           P == {i \in DOMAIN q : q[i] # w}
<1>1. k \in Keys /\ q \in Seq(Writers) /\ req[x].key \in Keys
  BY DEF TypeOK, ValuesOK, Requests
<1>2. lock' = [lock EXCEPT ![k] = Kept(q, P)] /\ req'[x] = req[x]
  BY <1>1 DEF Leave, TypeOK
<1>3. CASE req[x].key = k
  <2>1. q # <<>> /\ Head(q) = x
    BY <1>3 DEF Holds
  <2>2. 1 \in P
    BY <1>1, <2>1
  <2> HIDE DEF P, q
  <2>3. Kept(q, P) # <<>> /\ Head(Kept(q, P)) = x
    BY <1>1, <2>1, <2>2, KeptHead
  <2>4. lock'[k] = Kept(q, P)
    BY <1>1, <1>2 DEF TypeOK
  <2> QED
    BY <1>2, <1>3, <2>3, <2>4 DEF Holds
<1>4. CASE req[x].key # k
  <2>1. lock'[req[x].key] = lock[req[x].key]
    BY <1>1, <1>2, <1>4 DEF TypeOK
  <2> QED
    BY <1>2, <2>1 DEF Holds
<1> QED
  BY <1>3, <1>4

LEMMA EnterKeepsHead ==
  ASSUME TypeOK, NEW w \in Writers, NEW r \in Requests, Enter(w, r),
         NEW x \in Writers, x # w, req[x] \in Requests, Holds(x)
  PROVE  Holds(x)'
<1> DEFINE q == lock[r.key]
<1>1. r.key \in Keys /\ q \in Seq(Writers) /\ req[x].key \in Keys
  BY DEF TypeOK, Requests
<1>2. lock' = [lock EXCEPT ![r.key] = Append(q, w)] /\ req'[x] = req[x]
  BY <1>1 DEF Enter, TypeOK
<1>3. CASE req[x].key = r.key
  <2>1. q # <<>> /\ Head(q) = x
    BY <1>3 DEF Holds
  <2>2. Append(q, w) # <<>> /\ Head(Append(q, w)) = x
    BY <1>1, <2>1
  <2>3. lock'[r.key] = Append(q, w)
    BY <1>1, <1>2 DEF TypeOK
  <2> QED
    BY <1>2, <1>3, <2>2, <2>3 DEF Holds
<1>4. CASE req[x].key # r.key
  <2>1. lock'[req[x].key] = lock[req[x].key]
    BY <1>1, <1>2, <1>4 DEF TypeOK
  <2> QED
    BY <1>2, <2>1 DEF Holds
<1> QED
  BY <1>3, <1>4

LEMMA LeaveKeepsLock ==
  ASSUME TypeOK, ValuesOK, LockOK, NEW w \in Writers, at[w] # "idle", Leave(w), UNCHANGED store
  PROVE  LockOK'
<1>1. at'[w] = "idle"
  BY DEF Leave, TypeOK
<1>2. ASSUME NEW x \in Writers, x # w
      PROVE  at'[x] = at[x] /\ req'[x] = req[x] /\ val'[x] = val[x]
  BY <1>2 DEF Leave, TypeOK
<1>3. ASSUME NEW x \in Writers, x # w, UnderLock(x) PROVE Holds(x)'
  <2>1. req[x] \in Requests
    BY <1>3 DEF UnderLock, ValuesOK
  <2> QED
    BY <1>3, <2>1, LeaveKeepsHead DEF LockOK
<1> QED
  BY <1>1, <1>2, <1>3 DEF LockOK, UnderLock

LEMMA EnterKeepsLock ==
  ASSUME TypeOK, ValuesOK, LockOK, NEW w \in Writers, NEW r \in Requests, Enter(w, r),
         UNCHANGED store, \A x \in Writers : x # w => val'[x] = val[x]
  PROVE  LockOK'
<1>1. /\ at'[w] = IF r.key \in Secrets /\ r.op = "set" THEN "put" ELSE "get"
      /\ req'[w] = r
  BY DEF Enter, TypeOK
<1>2. ASSUME NEW x \in Writers, x # w
      PROVE  at'[x] = at[x] /\ req'[x] = req[x] /\ val'[x] = val[x]
  BY <1>2 DEF Enter, TypeOK
<1>3. ASSUME NEW x \in Writers, x # w, UnderLock(x) PROVE Holds(x)'
  <2>1. req[x] \in Requests
    BY <1>3 DEF UnderLock, ValuesOK
  <2> QED
    BY <1>3, <2>1, EnterKeepsHead DEF LockOK
<1> QED
  BY <1>1, <1>2, <1>3 DEF LockOK, UnderLock

\* A step of a task under the lock that changes neither the store, the lock nor
\* what the task is going to write.
LEMMA OnwardKeepsLock ==
  ASSUME TypeOK, LockOK, NEW w \in Writers, at[w] \in {"audit", "record"},
         NEW c \in {"record", "reload"}, at' = [at EXCEPT ![w] = c],
         UNCHANGED <<store, lock, req, val>>
  PROVE  LockOK'
<1>1. \A x \in Writers : at'[x] = IF x = w THEN c ELSE at[x]
  BY DEF TypeOK
<1> QED
  BY <1>1 DEF LockOK, UnderLock, Holds

LEMMA LockStep ==
  ASSUME TypeOK, ValuesOK, LockOK, Next
  PROVE  LockOK'
<1>1. PICK w \in Writers :
        \/ \E a \in Asks : Ask(w, Request(asked + 1, a))
        \/ \E r \in pending : Resolve(w, r)
        \/ Proceed(w) \/ Fail(w)
  BY DEF Next
<1> USE DEF liveVars, auditVars, askVars, taskVars
<1>2. ASSUME NEW a \in Asks, Ask(w, Request(asked + 1, a)) PROVE LockOK'
  <2> DEFINE r == Request(asked + 1, a)
  <2>1. r \in Requests
    BY <1>2, SettingsAssumption DEF Ask, Request, Requests, TypeOK, Numbers
  <2> HIDE DEF r
  <2>2. at[w] = "idle" /\ UNCHANGED store
    BY <1>2 DEF Ask
  <2>3. CASE UNCHANGED <<lock, taskVars>>
    BY <2>2, <2>3 DEF LockOK, UnderLock, Holds
  <2>4. CASE at' = [at EXCEPT ![w] = "check"] /\ req' = [req EXCEPT ![w] = r]
             /\ UNCHANGED <<lock, val>>
    <3>1. at'[w] = "check" /\ \A x \in Writers : x # w => at'[x] = at[x] /\ req'[x] = req[x]
      BY <2>4 DEF TypeOK
    <3> QED
      BY <2>2, <2>4, <3>1 DEF LockOK, UnderLock, Holds
  <2>5. CASE Enter(w, r) /\ UNCHANGED val
    BY <2>1, <2>2, <2>5, EnterKeepsLock
  <2> QED
    BY <1>2, <2>3, <2>4, <2>5 DEF Ask, r
<1>3. ASSUME NEW r \in pending, Resolve(w, r) PROVE LockOK'
  <2>1. r \in Requests
    BY DEF TypeOK
  <2> QED
    BY <1>3, <2>1, EnterKeepsLock DEF Resolve
<1>4. ASSUME NEW v, Checked(w, v) PROVE LockOK'
  <2>1. at[w] = "check" /\ req[w] \in Requests /\ UNCHANGED store
    BY <1>4 DEF Checked, ValuesOK
  <2>2. CASE Leave(w)
    BY <2>1, <2>2, LeaveKeepsLock
  <2>3. CASE Enter(w, req[w]) /\ \A x \in Writers : x # w => val'[x] = val[x]
    BY <2>1, <2>3, EnterKeepsLock
  <2>4. \/ Leave(w)
        \/ Enter(w, req[w]) /\ \A x \in Writers : x # w => val'[x] = val[x]
    BY <1>4 DEF Checked, TypeOK
  <2> QED
    BY <2>2, <2>3, <2>4
<1>5. CASE Get(w)
  <2> DEFINE r == req[w]
             v == IF r.op = "merge" THEN val[w] ELSE store[r.key]
  <2>1. r \in Requests /\ at[w] = "get" /\ Holds(w) /\ UNCHANGED store
    BY <1>5 DEF Get, ValuesOK
  <2>2. \/ Leave(w)
        \/ /\ Accepted(v, r)
           /\ at' = [at EXCEPT ![w] = "put"]
           /\ val' = [val EXCEPT ![w] = Applied(v, r)]
           /\ UNCHANGED <<req, log, lock>>
    BY <1>5 DEF Get
  <2>3. CASE Leave(w)
    BY <2>1, <2>3, LeaveKeepsLock
  <2>4. CASE /\ Accepted(v, r)
             /\ at' = [at EXCEPT ![w] = "put"]
             /\ val' = [val EXCEPT ![w] = Applied(v, r)]
             /\ UNCHANGED <<req, log, lock>>
    <3>1. /\ at'[w] = "put" /\ val'[w] = Applied(v, r)
          /\ \A x \in Writers : x # w => at'[x] = at[x] /\ val'[x] = val[x]
      BY <2>4 DEF TypeOK
    <3>2. r.op \in {"append", "update", "delete"} => v = store[r.key]
      OBVIOUS
    <3> HIDE DEF v
    <3> QED
      BY <2>1, <2>4, <3>1, <3>2 DEF LockOK, UnderLock, Holds
  <2> QED
    BY <2>2, <2>3, <2>4
<1>6. CASE Put(w)
  <2> DEFINE r == req[w]
             v == IF r.key \in Secrets /\ r.op = "set" THEN <<Entry(r)>> ELSE val[w]
  <2>1. r \in Requests /\ r.key \in Keys /\ at[w] = "put" /\ Holds(w)
    BY <1>6 DEF Put, ValuesOK, Requests
  <2>2. /\ store' = [store EXCEPT ![r.key] = v] /\ val' = [val EXCEPT ![w] = v]
        /\ at' = [at EXCEPT ![w] = "audit"] /\ UNCHANGED <<req, lock>>
    BY <1>6 DEF Put
  <2> HIDE DEF v
  <2>3. /\ at'[w] = "audit" /\ val'[w] = v /\ store'[r.key] = v
        /\ \A x \in Writers : x # w => at'[x] = at[x] /\ val'[x] = val[x]
    BY <2>1, <2>2 DEF TypeOK
  <2>4. ASSUME NEW x \in Writers, x # w, UnderLock(x)
        PROVE  Holds(x) /\ store'[req[x].key] = store[req[x].key]
    <3>1. Holds(x) /\ req[x] \in Requests
      BY <2>4 DEF LockOK, ValuesOK, UnderLock
    <3>2. req[x].key \in Keys /\ req[x].key # r.key
      BY <2>1, <2>4, <3>1 DEF Holds, Requests
    <3> QED
      BY <2>2, <3>1, <3>2 DEF TypeOK
  <2>5. ASSUME NEW x \in Writers, x # w
        PROVE  /\ UnderLock(x)' => Holds(x)'
               /\ at'[x] \in {"audit", "record", "reload"} => val'[x] = store'[req'[x].key]
               /\ at'[x] = "put" /\ req'[x].op \in {"append", "update", "delete"} =>
                    /\ Accepted(store'[req'[x].key], req'[x])
                    /\ val'[x] = Applied(store'[req'[x].key], req'[x])
    <3>1. at'[x] = at[x] /\ val'[x] = val[x] /\ req'[x] = req[x] /\ (Holds(x)' <=> Holds(x))
      BY <2>2, <2>3, <2>5 DEF Holds
    <3>2. UnderLock(x)' <=> UnderLock(x)
      BY <3>1 DEF UnderLock
    <3>3. at[x] = "put" /\ req[x].op \in {"append", "update", "delete"} => UnderLock(x)
      BY DEF UnderLock
    <3>4. at[x] \in {"audit", "record", "reload"} => UnderLock(x)
      BY DEF UnderLock
    <3> QED
      BY <2>4, <2>5, <3>1, <3>2, <3>3, <3>4 DEF LockOK
  <2>6. UnderLock(w)' /\ Holds(w)' /\ val'[w] = store'[req'[w].key]
    BY <2>1, <2>2, <2>3 DEF UnderLock, Holds
  <2> QED
    BY <2>3, <2>5, <2>6 DEF LockOK
<1>7. CASE at[w] # "idle" /\ Leave(w) /\ UNCHANGED store
  BY <1>7, LeaveKeepsLock
<1>8. CASE Audit(w) \/ AuditFails(w)
  BY <1>8, OnwardKeepsLock DEF Audit, AuditFails
<1>9. CASE Record(w) \/ RecordFails(w)
  BY <1>9, OnwardKeepsLock DEF Record, RecordFails
<1>10. PutFails(w) \/ Reload(w) \/ ReloadFails(w) \/ Cancel(w) =>
         at[w] # "idle" /\ Leave(w) /\ UNCHANGED store
  BY DEF PutFails, Reload, ReloadFails, Cancel
<1>11. Check(w) \/ CheckFails(w) => \E v : Checked(w, v)
  BY DEF Check, CheckFails
<1> QED
  BY <1>1, <1>2, <1>3, <1>4, <1>5, <1>6, <1>7, <1>8, <1>9, <1>10, <1>11 DEF Proceed, Fail

LEMMA LockHolds == Spec => [](TypeOK /\ ValuesOK /\ LockOK)
<1>1. LockOK /\ UNCHANGED vars => LockOK'
  BY DEF vars, liveVars, auditVars, askVars, taskVars, LockOK, UnderLock, Holds
<1>2. TypeOK /\ ValuesOK /\ LockOK /\ [Next]_vars => LockOK'
  BY <1>1, LockStep
<1> QED
  BY <1>2, InitLock, TypesHold, PTL DEF Spec

\* Only Put takes a task from writing to auditing.
LEMMA OnlyPutWrites ==
  ASSUME TypeOK, Next, NEW w \in Writers, at[w] = "put", at'[w] = "audit"
  PROVE  Put(w)
<1>1. PICK x \in Writers :
        \/ \E a \in Asks : Ask(x, Request(asked + 1, a))
        \/ \E r \in pending : Resolve(x, r)
        \/ Proceed(x) \/ Fail(x)
  BY DEF Next
<1> USE DEF taskVars
<1>2. CASE at' = at
  BY <1>2
<1>3. ASSUME NEW c, c # "audit", at' = [at EXCEPT ![x] = c] PROVE FALSE
  BY <1>3 DEF TypeOK
<1>4. CASE Put(x)
  BY <1>4 DEF Put, TypeOK
<1>5. Leave(x) => at' = [at EXCEPT ![x] = "idle"]
  BY DEF Leave
<1>6. ASSUME NEW r, Enter(x, r) PROVE FALSE
  <2>1. at' = [at EXCEPT ![x] = "put"] \/ at' = [at EXCEPT ![x] = "get"]
    BY <1>6 DEF Enter
  <2> QED
    BY <1>3, <2>1
<1>7. ASSUME NEW a \in Asks, Ask(x, Request(asked + 1, a)) PROVE FALSE
  <2>1. \/ at' = at
        \/ at' = [at EXCEPT ![x] = "check"]
        \/ Enter(x, Request(asked + 1, a))
    BY <1>7 DEF Ask
  <2> QED
    BY <1>2, <1>3, <1>6, <2>1
<1>8. ASSUME NEW r \in pending, Resolve(x, r) PROVE FALSE
  BY <1>6, <1>8 DEF Resolve
<1>9. ASSUME NEW v, Checked(x, v) PROVE FALSE
  BY <1>3, <1>5, <1>6, <1>9 DEF Checked
<1>10. Check(x) \/ CheckFails(x) => \E v : Checked(x, v)
  BY DEF Check, CheckFails
<1>11. Get(x) => Leave(x) \/ at' = [at EXCEPT ![x] = "put"]
  BY DEF Get
<1>12. Audit(x) \/ AuditFails(x) => at' = [at EXCEPT ![x] = "record"]
  BY DEF Audit, AuditFails
<1>13. Record(x) \/ RecordFails(x) => at' = [at EXCEPT ![x] = "reload"]
  BY DEF Record, RecordFails
<1>14. PutFails(x) \/ Reload(x) \/ ReloadFails(x) \/ Cancel(x) => Leave(x)
  BY DEF PutFails, Reload, ReloadFails, Cancel
<1> QED
  BY <1>1, <1>3, <1>4, <1>5, <1>7, <1>8, <1>9, <1>10, <1>11, <1>12, <1>13, <1>14
     DEF Proceed, Fail

\* append_item, update_item and delete_item of SettingsService write a list in
\* which every other item is as it is stored at that moment, whoever changed it
\* between the request and the write.
THEOREM OthersAreKept == Spec => OthersKept
<1> DEFINE Kept1(w) == (at[w] = "put" /\ at'[w] = "audit" /\ req[w].op \in {"append", "update", "delete"}) =>
                         Without(store'[req[w].key], req[w].name) = Without(store[req[w].key], req[w].name)
<1>1. ASSUME TypeOK, ValuesOK, LockOK, Next, NEW w \in Writers PROVE Kept1(w)
  <2> DEFINE r == req[w]
  <2> SUFFICES ASSUME at[w] = "put", at'[w] = "audit", r.op \in {"append", "update", "delete"}
               PROVE  Without(store'[r.key], r.name) = Without(store[r.key], r.name)
    OBVIOUS
  <2>1. Put(w)
    BY <1>1, OnlyPutWrites
  <2>2. r \in Requests /\ r.key \in Keys
    BY <1>1 DEF ValuesOK, Requests
  <2>3. store'[r.key] = val[w]
    BY <1>1, <2>1, <2>2 DEF Put, TypeOK
  <2>4. /\ store[r.key] \in Seq(Entries) /\ Accepted(store[r.key], r)
        /\ val[w] = Applied(store[r.key], r)
    BY <1>1, <2>2 DEF LockOK, TypeOK
  <2>5. Without(Applied(store[r.key], r), r.name) = Without(store[r.key], r.name)
    BY <2>2, <2>4, AppliedKeepsOthers
  <2> QED
    BY <2>3, <2>4, <2>5
<1>2. TypeOK /\ ValuesOK /\ LockOK /\ [Next]_vars => [\A w \in Writers : Kept1(w)]_vars
  BY <1>1
<1>3. Spec => [][\A w \in Writers : Kept1(w)]_vars
  BY <1>2, LockHolds, PTL DEF Spec
<1> QED
  BY <1>3 DEF OthersKept

-----------------------------------------------------------------------------
(* The live copy *)

\* A step that changes neither copy, and after which a task that was changing a
\* key still is, or its reload counts as cut off.
LEMMA LiveKept ==
  ASSUME LiveFollowsStore, UNCHANGED <<store, live>>, behind \subseteq behind',
         \A x \in Writers : at[x] \in {"audit", "record", "reload"} =>
           \/ at'[x] \in {"audit", "record", "reload"} /\ req'[x] = req[x]
           \/ req[x].key \in behind'
  PROVE  LiveFollowsStore'
<1>1. ASSUME NEW k \in Keys, Changing(k) # {} PROVE Changing(k)' # {} \/ k \in behind'
  BY <1>1 DEF Changing
<1>2. \A k \in Keys : Agrees(k) => Agrees(k)'
  BY DEF Agrees
<1> QED
  BY <1>1, <1>2 DEF LiveFollowsStore

\* What a task that is not at a change does to the tasks that are: nothing.
LEMMA OthersStay ==
  ASSUME TypeOK, NEW w \in Writers, at[w] \notin {"audit", "record", "reload"},
         Leave(w) \/ \E r : Enter(w, r)
  PROVE  \A x \in Writers : at[x] \in {"audit", "record", "reload"} =>
           at'[x] = at[x] /\ req'[x] = req[x]
  BY DEF TypeOK, Leave, Enter

LEMMA LiveStep ==
  ASSUME TypeOK, ValuesOK, LockOK, LiveFollowsStore, Next
  PROVE  LiveFollowsStore'
<1>1. PICK w \in Writers :
        \/ \E a \in Asks : Ask(w, Request(asked + 1, a))
        \/ \E r \in pending : Resolve(w, r)
        \/ Proceed(w) \/ Fail(w)
  BY DEF Next
<1> USE DEF liveVars, auditVars, askVars, taskVars
<1> DEFINE Busy == {"audit", "record", "reload"}
<1>2. ASSUME at[w] \notin Busy, Leave(w) \/ \E r : Enter(w, r), UNCHANGED <<store, liveVars>>
      PROVE  LiveFollowsStore'
  BY <1>2, OthersStay, LiveKept
<1>3. ASSUME NEW a \in Asks, Ask(w, Request(asked + 1, a)) PROVE LiveFollowsStore'
  <2>1. at[w] = "idle" /\ UNCHANGED <<store, liveVars>>
    BY <1>3 DEF Ask
  <2>2. CASE UNCHANGED taskVars
    BY <2>1, <2>2, LiveKept
  <2>3. CASE \E r : at' = [at EXCEPT ![w] = "check"] /\ req' = [req EXCEPT ![w] = r]
    <3>1. \A x \in Writers : at[x] \in Busy => at'[x] = at[x] /\ req'[x] = req[x]
      BY <2>1, <2>3 DEF TypeOK
    <3> QED
      BY <2>1, <3>1, LiveKept
  <2>4. CASE \E r : Enter(w, r)
    BY <1>2, <2>1, <2>4
  <2> QED
    BY <1>3, <2>2, <2>3, <2>4 DEF Ask
<1>4. ASSUME NEW r \in pending, Resolve(w, r) PROVE LiveFollowsStore'
  BY <1>2, <1>4 DEF Resolve
<1>5. ASSUME NEW v, Checked(w, v) PROVE LiveFollowsStore'
  BY <1>2, <1>5 DEF Checked
<1>6. CASE Get(w)
  <2>1. at[w] = "get" /\ UNCHANGED <<store, liveVars>>
    BY <1>6 DEF Get
  <2>2. CASE Leave(w)
    BY <1>2, <2>1, <2>2
  <2>3. CASE at' = [at EXCEPT ![w] = "put"] /\ UNCHANGED req
    <3>1. \A x \in Writers : at[x] \in Busy => at'[x] = at[x] /\ req'[x] = req[x]
      BY <2>1, <2>3 DEF TypeOK
    <3> QED
      BY <2>1, <3>1, LiveKept
  <2> QED
    BY <1>6, <2>2, <2>3 DEF Get
<1>7. CASE Put(w)
  <2>1. req[w] \in Requests /\ req[w].key \in Keys
    BY <1>7 DEF Put, ValuesOK, Requests
  <2>2. UNCHANGED <<liveVars, req>> /\ at' = [at EXCEPT ![w] = "audit"]
        /\ \A k \in Keys : k # req[w].key => store'[k] = store[k]
    BY <1>7, <2>1 DEF Put, TypeOK
  <2>3. w \in Changing(req[w].key)'
    BY <2>2 DEF Changing, TypeOK
  <2>4. ASSUME NEW k \in Keys, Changing(k) # {} PROVE Changing(k)' # {}
    <3>1. PICK x \in Writers : at[x] \in Busy /\ req[x].key = k
      BY <2>4 DEF Changing
    <3>2. at'[x] \in Busy
      BY <2>2, <3>1 DEF TypeOK
    <3> QED
      BY <2>2, <3>1, <3>2 DEF Changing
  <2>5. \A k \in Keys : k # req[w].key /\ Agrees(k) => Agrees(k)'
    BY <2>2 DEF Agrees
  <2>6. \A k \in Keys : k # req[w].key => (store'[k] = <<>> <=> store[k] = <<>>)
    BY <2>2
  <2> QED
    BY <2>2, <2>3, <2>4, <2>5, <2>6 DEF LiveFollowsStore
<1>8. CASE PutFails(w)
  BY <1>2, <1>8 DEF PutFails
<1>9. CASE Audit(w) \/ AuditFails(w) \/ Record(w) \/ RecordFails(w)
  <2>1. /\ UNCHANGED <<store, liveVars, req>>
        /\ at' = [at EXCEPT ![w] = "record"] \/ at' = [at EXCEPT ![w] = "reload"]
    BY <1>9 DEF Audit, AuditFails, Record, RecordFails
  <2>2. \A x \in Writers : at[x] \in Busy => at'[x] \in Busy
    BY <2>1 DEF TypeOK
  <2> QED
    BY <2>1, <2>2, LiveKept
<1>10. CASE Reload(w)
  <2>0. PICK k \in Keys : k = req[w].key
    BY <1>10 DEF Reload, ValuesOK, Requests
  <2>1. k \in Keys /\ at[w] = "reload" /\ val[w] = store[k]
    BY <1>10, <2>0 DEF Reload, LockOK
  <2>2. /\ live' = [live EXCEPT ![k] = Reloaded(k, store[k])]
        /\ behind' = behind \ {k} /\ Leave(w) /\ UNCHANGED store
    BY <1>10, <2>0, <2>1 DEF Reload
  <2>3. k \in Ignored \/ Agrees(k)' \/ (k \in Secrets /\ store[k] = <<>>)
    <3>1. live'[k] = Reloaded(k, store[k])
      BY <2>1, <2>2 DEF TypeOK
    <3>2. CASE k \in Merging /\ k \notin Ignored
      <4>1. live'[k] = Overlaid(live[k], store[k])
        BY <3>1, <3>2 DEF Reloaded
      <4>2. live[k] \in Seq(Entries) /\ store[k] \in Seq(Entries)
        BY <2>1 DEF TypeOK
      <4> QED
        BY <2>2, <3>2, <4>1, <4>2, OverlaidType DEF Agrees
    <3>3. CASE k \notin Merging /\ k \notin Ignored
      BY <2>2, <3>1, <3>3 DEF Reloaded, Agrees
    <3> QED
      BY <3>2, <3>3
  <2>4. ASSUME NEW l \in Keys, l # k
        PROVE  /\ live'[l] = live[l] /\ (l \in behind => l \in behind')
               /\ Changing(l) # {} => Changing(l)' # {}
    <3>1. live'[l] = live[l] /\ (l \in behind => l \in behind')
      BY <2>1, <2>2, <2>4 DEF TypeOK
    <3>2. ASSUME NEW x \in Changing(l) PROVE x \in Changing(l)'
      <4>1. x \in Writers /\ x # w
        BY <2>0, <2>4, <3>2 DEF Changing
      <4>2. at'[x] = at[x] /\ req'[x] = req[x]
        BY <2>2, <4>1 DEF Leave, TypeOK
      <4> QED
        BY <3>2, <4>1, <4>2 DEF Changing
    <3> QED
      BY <3>1, <3>2
  <2>5. \A l \in Keys : l # k /\ Agrees(l) => Agrees(l)'
    BY <2>2, <2>4 DEF Agrees
  <2> QED
    BY <2>2, <2>3, <2>4, <2>5 DEF LiveFollowsStore
<1>11. CASE ReloadFails(w) \/ Cancel(w)
  <2>1. /\ UNCHANGED <<store, live>> /\ behind \subseteq behind' /\ Leave(w)
        /\ at[w] \in Busy => req[w].key \in behind'
    BY <1>11 DEF ReloadFails, Cancel
  <2>2. \A x \in Writers : x # w => at'[x] = at[x] /\ req'[x] = req[x]
    BY <2>1 DEF Leave, TypeOK
  <2> QED
    BY <2>1, <2>2, LiveKept
<1>12. Check(w) \/ CheckFails(w) => \E v : Checked(w, v)
  BY DEF Check, CheckFails
<1> QED
  BY <1>1, <1>3, <1>4, <1>5, <1>6, <1>7, <1>8, <1>9, <1>10, <1>11, <1>12 DEF Proceed, Fail

\* What runs is what is stored, for any number of concurrent changes, unless a
\* change is under way or a reload failed or was cut off: exactly, for a key
\* whose reloader replaces; up to admin_users or llm fields that the new dict
\* leaves out, for one whose reloader merges; nothing is said of the keys whose
\* reloader does nothing.
THEOREM LiveIsStored == Spec => []LiveFollowsStore
<1>1. Init => LiveFollowsStore
  BY DEF Init, LiveFollowsStore, Agrees
<1>2. LiveFollowsStore /\ UNCHANGED vars => LiveFollowsStore'
  BY DEF vars, liveVars, auditVars, askVars, taskVars, LiveFollowsStore, Agrees, Changing
<1>3. TypeOK /\ ValuesOK /\ LockOK /\ LiveFollowsStore /\ [Next]_vars => LiveFollowsStore'
  BY <1>2, LiveStep
<1> QED
  BY <1>1, <1>3, LockHolds, PTL DEF Spec

-----------------------------------------------------------------------------
(* The numbers of requests *)

\* A number belongs to one request, waiting or running, and has run only if its
\* request has written.
NumbersOK ==
  /\ \A n \in Numbers : ran[n] <= 1 /\ (n > asked => ran[n] = 0)
  /\ \A r \in pending : r.no <= asked /\ ran[r.no] = 0
  /\ \A r, q \in pending : r.no = q.no => r = q
  /\ \A w \in Writers : at[w] # "idle" =>
       /\ req[w].no <= asked
       /\ at[w] \in {"check", "get", "put"} => ran[req[w].no] = 0
       /\ \A x \in Writers : at[x] # "idle" /\ req[x].no = req[w].no => x = w
       /\ \A r \in pending : r.no # req[w].no

LEMMA InitNumbers == Init => NumbersOK
  BY DEF Init, NumbersOK

\* A request that begins, either a new one or one taken from the queue.
Begins(w, r) ==
  /\ at[w] = "idle" /\ at' = [at EXCEPT ![w] = at'[w]] /\ at'[w] \in {"check", "get", "put"}
  /\ req' = [req EXCEPT ![w] = r]
  /\ UNCHANGED ran

\* A request that ends, or goes on without writing.
GoesOn(w) ==
  /\ at[w] # "idle" /\ UNCHANGED <<ran, pending, asked>>
  /\ \/ at' = [at EXCEPT ![w] = "idle"] /\ req' = [req EXCEPT ![w] = NoRequest]
     \/ /\ at' = [at EXCEPT ![w] = at'[w]] /\ UNCHANGED req
        /\ at'[w] \in {"check", "get", "put"} => at[w] \in {"check", "get", "put"}

LEMMA BeginsKeepsNumbers ==
  ASSUME TypeOK, ValuesOK, NumbersOK, NEW w \in Writers, NEW r \in Requests, Begins(w, r),
         \/ r.no = asked + 1 /\ asked' = asked + 1 /\ pending' = pending
         \/ r \in pending /\ asked' = asked /\ pending' = pending \ {r}
  PROVE  NumbersOK'
<1>1. asked \in Nat /\ asked' \in Nat /\ asked <= asked' /\ \A n \in Numbers : n \in Nat
  BY SettingsAssumption DEF TypeOK, Numbers
<1>2. /\ at'[w] \in {"check", "get", "put"} /\ req'[w] = r
      /\ \A x \in Writers : x # w => at'[x] = at[x] /\ req'[x] = req[x]
  BY DEF Begins, TypeOK
<1>3. r.no \in Numbers /\ r.no <= asked' /\ ran[r.no] = 0 /\ pending' \subseteq pending
  BY <1>1 DEF NumbersOK, Requests
<1>4. \A q \in pending' : q \in Requests /\ q.no \in Numbers /\ q.no # r.no
  BY <1>1, <1>3 DEF NumbersOK, TypeOK, Requests
<1>5. \A x \in Writers : x # w /\ at[x] # "idle" => req[x].no \in Numbers /\ req[x].no # r.no
  BY <1>1, <1>3 DEF NumbersOK, ValuesOK, Requests
<1>6. \A n \in Numbers : ran'[n] <= 1 /\ (n > asked' => ran'[n] = 0)
  BY <1>1 DEF NumbersOK, Begins
<1>7. \A q \in pending' : q.no <= asked' /\ ran'[q.no] = 0
  BY <1>1, <1>3, <1>4 DEF NumbersOK, Begins
<1>8. \A q, t \in pending' : q.no = t.no => q = t
  BY <1>3 DEF NumbersOK
<1>9. ASSUME NEW x \in Writers, at'[x] # "idle"
      PROVE  /\ req'[x].no <= asked'
             /\ at'[x] \in {"check", "get", "put"} => ran'[req'[x].no] = 0
             /\ \A y \in Writers : at'[y] # "idle" /\ req'[y].no = req'[x].no => y = x
             /\ \A q \in pending' : q.no # req'[x].no
  <2>1. CASE x = w
    BY <1>2, <1>3, <1>4, <1>5, <2>1 DEF Begins
  <2>2. CASE x # w
    <3>1. at[x] # "idle" /\ req'[x] = req[x] /\ at'[x] = at[x] /\ req[x].no \in Numbers /\ req[x].no # r.no
      BY <1>2, <1>5, <1>9, <2>2
    <3>2. req'[x].no <= asked'
      BY <1>1, <3>1 DEF NumbersOK
    <3>3. at'[x] \in {"check", "get", "put"} => ran'[req'[x].no] = 0
      BY <3>1 DEF NumbersOK, Begins
    <3>4. \A y \in Writers : at'[y] # "idle" /\ req'[y].no = req'[x].no => y = x
      BY <1>2, <3>1 DEF NumbersOK
    <3>5. \A q \in pending' : q.no # req'[x].no
      BY <1>3, <3>1 DEF NumbersOK
    <3> QED
      BY <3>2, <3>3, <3>4, <3>5
  <2> QED
    BY <2>1, <2>2
<1> QED
  BY <1>6, <1>7, <1>8, <1>9 DEF NumbersOK

LEMMA GoesOnKeepsNumbers ==
  ASSUME TypeOK, NumbersOK, NEW w \in Writers, GoesOn(w)
  PROVE  NumbersOK'
<1>1. \A x \in Writers : at'[x] # "idle" =>
        /\ at[x] # "idle" /\ req'[x] = req[x]
        /\ at'[x] \in {"check", "get", "put"} => at[x] \in {"check", "get", "put"}
  BY DEF GoesOn, TypeOK
<1> QED
  BY <1>1 DEF NumbersOK, GoesOn

LEMMA NumbersStep ==
  ASSUME TypeOK, ValuesOK, NumbersOK, Next
  PROVE  NumbersOK'
<1>1. PICK w \in Writers :
        \/ \E a \in Asks : Ask(w, Request(asked + 1, a))
        \/ \E r \in pending : Resolve(w, r)
        \/ Proceed(w) \/ Fail(w)
  BY DEF Next
<1> USE DEF liveVars, auditVars, askVars, taskVars
<1>2. ASSUME NEW a \in Asks, Ask(w, Request(asked + 1, a)) PROVE NumbersOK'
  <2> DEFINE r == Request(asked + 1, a)
  <2>1. r \in Requests /\ r.no = asked + 1
    BY <1>2, SettingsAssumption DEF Ask, Request, Requests, TypeOK, Numbers
  <2>2. at[w] = "idle" /\ asked' = asked + 1 /\ UNCHANGED ran
    BY <1>2 DEF Ask
  <2>3. \/ pending' = pending \cup {r} /\ UNCHANGED taskVars
        \/ pending' = pending /\ Begins(w, r)
    BY <1>2 DEF Ask, Begins, Enter, TypeOK
  <2> HIDE DEF r
  <2>4. CASE pending' = pending \cup {r} /\ UNCHANGED taskVars
    <3>1. asked \in Nat /\ \A n \in Numbers : n \in Nat
      BY DEF TypeOK, Numbers
    <3>2. \A q \in pending : q.no \in Numbers /\ q.no # r.no
      BY <2>1, <3>1 DEF NumbersOK, TypeOK, Requests
    <3>3. r.no \in Numbers /\ ran[r.no] = 0
      BY <2>1, <3>1 DEF NumbersOK, Requests
    <3>4. \A x \in Writers : at[x] # "idle" => req[x].no \in Numbers /\ req[x].no # r.no
      BY <2>1, <3>1 DEF NumbersOK, ValuesOK, Requests
    <3>5. \A n \in Numbers : ran'[n] <= 1 /\ (n > asked' => ran'[n] = 0)
      BY <2>2, <3>1 DEF NumbersOK
    <3>6. \A q \in pending' : q.no <= asked' /\ ran'[q.no] = 0
      BY <2>1, <2>2, <2>4, <3>1, <3>2, <3>3 DEF NumbersOK
    <3>7. \A q, t \in pending' : q.no = t.no => q = t
      BY <2>4, <3>2 DEF NumbersOK
    <3>8. \A x \in Writers : at'[x] # "idle" =>
            /\ req'[x].no <= asked'
            /\ at'[x] \in {"check", "get", "put"} => ran'[req'[x].no] = 0
            /\ \A y \in Writers : at'[y] # "idle" /\ req'[y].no = req'[x].no => y = x
            /\ \A q \in pending' : q.no # req'[x].no
      BY <2>2, <2>4, <3>1, <3>4 DEF NumbersOK
    <3> QED
      BY <3>5, <3>6, <3>7, <3>8 DEF NumbersOK
  <2>5. CASE pending' = pending /\ Begins(w, r)
    BY <2>1, <2>2, <2>5, BeginsKeepsNumbers
  <2> QED
    BY <2>3, <2>4, <2>5
<1>3. ASSUME NEW r \in pending, Resolve(w, r) PROVE NumbersOK'
  <2>1. r \in Requests /\ Begins(w, r)
    BY <1>3 DEF Resolve, Begins, Enter, TypeOK
  <2>2. asked' = asked /\ pending' = pending \ {r}
    BY <1>3 DEF Resolve
  <2> QED
    BY <2>1, <2>2, BeginsKeepsNumbers
<1>4. CASE Put(w)
  <2>1. at[w] = "put" /\ req[w] \in Requests /\ req[w].no \in Numbers
    BY <1>4 DEF Put, ValuesOK, Requests
  <2>2. /\ ran' = [ran EXCEPT ![req[w].no] = @ + 1] /\ at' = [at EXCEPT ![w] = "audit"]
        /\ UNCHANGED <<req, pending, asked>>
    BY <1>4 DEF Put
  <2>3. /\ \A n \in Numbers : ran'[n] = IF n = req[w].no THEN ran[n] + 1 ELSE ran[n]
        /\ at'[w] = "audit" /\ \A x \in Writers : x # w => at'[x] = at[x]
    BY <2>1, <2>2 DEF TypeOK
  <2>4. ran[req[w].no] = 0 /\ req[w].no <= asked /\ asked \in Nat /\ \A n \in Numbers : n \in Nat
    BY <2>1 DEF NumbersOK, TypeOK, Numbers
  <2>5. \A n \in Numbers : ran'[n] <= 1 /\ (n > asked' => ran'[n] = 0)
    BY <2>1, <2>2, <2>3, <2>4 DEF NumbersOK
  <2>6. \A r \in pending : r.no \in Numbers /\ r.no # req[w].no
    BY <2>1 DEF NumbersOK, TypeOK, Requests
  <2>7. \A x \in Writers : x # w /\ at[x] # "idle" => req[x].no \in Numbers /\ req[x].no # req[w].no
    BY <2>1 DEF NumbersOK, ValuesOK, Requests
  <2>8. \A r \in pending' : r.no <= asked' /\ ran'[r.no] = 0
    BY <2>2, <2>3, <2>6 DEF NumbersOK
  <2>9. \A x \in Writers : at'[x] # "idle" =>
          /\ req'[x].no <= asked'
          /\ at'[x] \in {"check", "get", "put"} => ran'[req'[x].no] = 0
          /\ \A y \in Writers : at'[y] # "idle" /\ req'[y].no = req'[x].no => y = x
          /\ \A r \in pending' : r.no # req'[x].no
    BY <2>1, <2>2, <2>3, <2>6, <2>7 DEF NumbersOK
  <2> QED
    BY <2>2, <2>5, <2>8, <2>9 DEF NumbersOK
<1>5. ASSUME NEW v, Checked(w, v) PROVE GoesOn(w)
  BY <1>5 DEF Checked, GoesOn, Leave, Enter, TypeOK
<1>6. Check(w) \/ CheckFails(w) => \E v : Checked(w, v)
  BY DEF Check, CheckFails
<1>7. Get(w) => GoesOn(w)
  BY DEF Get, GoesOn, Leave, TypeOK
<1>8. Audit(w) \/ AuditFails(w) => GoesOn(w)
  BY DEF Audit, AuditFails, GoesOn, TypeOK
<1>9. Record(w) \/ RecordFails(w) => GoesOn(w)
  BY DEF Record, RecordFails, GoesOn, TypeOK
<1>10. PutFails(w) \/ Reload(w) \/ ReloadFails(w) \/ Cancel(w) => GoesOn(w)
  BY DEF PutFails, Reload, ReloadFails, Cancel, GoesOn, Leave
<1> QED
  BY <1>1, <1>2, <1>3, <1>4, <1>5, <1>6, <1>7, <1>8, <1>9, <1>10, GoesOnKeepsNumbers
     DEF Proceed, Fail

\* "execute the original intent exactly once" (settings/approval_queue.py): a
\* request changes the store at most once and not before it is approved.
THEOREM RunsOnce == Spec => []ApprovedOnce
<1>1. NumbersOK /\ UNCHANGED vars => NumbersOK'
  BY DEF vars, liveVars, auditVars, askVars, taskVars, NumbersOK
<1>2. TypeOK /\ ValuesOK /\ NumbersOK /\ [Next]_vars => NumbersOK'
  BY <1>1, NumbersStep
<1>3. NumbersOK => ApprovedOnce
  BY DEF NumbersOK, ApprovedOnce
<1> QED
  BY <1>2, <1>3, InitNumbers, TypesHold, PTL DEF Spec

-----------------------------------------------------------------------------
(* The audit log *)

\* A step that leaves the log and the store alone, and after which a task that
\* was auditing still is, or its audit counts as cut off.
LEMMA AuditKept ==
  ASSUME AuditTells, UNCHANGED <<audit, torn, ran>>, cut \subseteq cut',
         \A x \in Writers : at[x] \in {"audit", "record"} =>
           \/ at'[x] \in {"audit", "record"} /\ req'[x] = req[x]
           \/ req[x].no \in cut'
  PROVE  AuditTells'
  BY DEF AuditTells

LEMMA AuditStep ==
  ASSUME TypeOK, ValuesOK, AuditTells, Next
  PROVE  AuditTells'
<1>1. PICK w \in Writers :
        \/ \E a \in Asks : Ask(w, Request(asked + 1, a))
        \/ \E r \in pending : Resolve(w, r)
        \/ Proceed(w) \/ Fail(w)
  BY DEF Next
<1> USE DEF liveVars, auditVars, askVars, taskVars
<1>2. ASSUME at[w] \notin {"audit", "record"}, UNCHANGED <<audit, torn, cut, ran>>,
             UNCHANGED <<at, req>> \/ \E c, r : at' = [at EXCEPT ![w] = c] /\ req' = [req EXCEPT ![w] = r]
      PROVE  AuditTells'
  <2>1. \A x \in Writers : at[x] \in {"audit", "record"} => at'[x] = at[x] /\ req'[x] = req[x]
    BY <1>2 DEF TypeOK
  <2> QED
    BY <1>2, <2>1, AuditKept
<1>3. ASSUME NEW a \in Asks, Ask(w, Request(asked + 1, a)) PROVE AuditTells'
  BY <1>2, <1>3 DEF Ask, Enter
<1>4. ASSUME NEW r \in pending, Resolve(w, r) PROVE AuditTells'
  BY <1>2, <1>4 DEF Resolve, Enter
<1>5. ASSUME NEW v, Checked(w, v) PROVE AuditTells'
  BY <1>2, <1>5 DEF Checked, Enter, Leave
<1>6. CASE Get(w)
  <2>0. at[w] = "get" /\ UNCHANGED <<audit, torn, cut, ran>>
    BY <1>6 DEF Get
  <2>1. Leave(w) \/ (at' = [at EXCEPT ![w] = "put"] /\ UNCHANGED req)
    BY <1>6 DEF Get
  <2>2. \A x \in Writers : at[x] \in {"audit", "record"} => at'[x] = at[x] /\ req'[x] = req[x]
    BY <2>0, <2>1 DEF TypeOK, Leave
  <2> QED
    BY <2>0, <2>2, AuditKept
<1>7. CASE Put(w)
  <2>1. req[w] \in Requests /\ req[w].no \in Numbers
    BY <1>7 DEF Put, ValuesOK, Requests
  <2>2. UNCHANGED <<req, audit, torn, cut>> /\ at' = [at EXCEPT ![w] = "audit"]
        /\ \A n \in Numbers : n # req[w].no => ran'[n] = ran[n]
    BY <1>7, <2>1 DEF Put, TypeOK
  <2>3. at'[w] = "audit" /\ \A x \in Writers : at[x] \in {"audit", "record"} => at'[x] \in {"audit", "record"}
    BY <2>2 DEF TypeOK
  <2> QED
    BY <2>2, <2>3 DEF AuditTells
<1>8. CASE Audit(w) \/ AuditFails(w)
  <2>1. UNCHANGED <<req, audit, torn, cut, ran>> /\ at' = [at EXCEPT ![w] = "record"]
    BY <1>8 DEF Audit, AuditFails
  <2>2. \A x \in Writers : at[x] \in {"audit", "record"} => at'[x] \in {"audit", "record"}
    BY <2>1 DEF TypeOK
  <2> QED
    BY <2>1, <2>2, AuditKept
<1>9. CASE Record(w)
  <2> SUFFICES ASSUME ~torn', Len(audit') # AuditMax, NEW n \in Numbers, ran'[n] > 0
               PROVE  \/ n \in cut' \/ \E i \in DOMAIN audit' : audit'[i] = n
                      \/ \E x \in Writers : req'[x].no = n /\ at'[x] \in {"audit", "record"}
    BY DEF AuditTells
  <2>1. ~torn /\ audit = log[w] /\ req[w].no \in Numbers /\ AuditMax \in Nat
        /\ UNCHANGED <<req, cut, ran>> /\ at' = [at EXCEPT ![w] = "reload"]
    BY <1>9, SettingsAssumption DEF Record, ValuesOK, Requests
  <2> DEFINE t == Append(audit, req[w].no)
  <2>2. t \in Seq(Numbers) /\ Len(t) = Len(audit) + 1 /\ Len(audit) \in Nat
        /\ t[Len(audit) + 1] = req[w].no /\ \A i \in 1..Len(audit) : t[i] = audit[i]
    BY <2>1 DEF TypeOK
  <2>3. audit' = LastOf(t, AuditMax)
    BY <1>9, <2>1 DEF Record
  <2> HIDE DEF t
  <2>4. Len(t) < AuditMax /\ audit' = t
    BY <2>1, <2>2, <2>3, LastOfType
  <2>5. \/ n \in cut \/ \E i \in DOMAIN audit : audit[i] = n
        \/ \E x \in Writers : req[x].no = n /\ at[x] \in {"audit", "record"}
    BY <2>1, <2>2, <2>4 DEF AuditTells
  <2>6. CASE n \in cut
    BY <2>1, <2>6
  <2>7. ASSUME NEW i \in DOMAIN audit, audit[i] = n PROVE \E j \in DOMAIN audit' : audit'[j] = n
    <3>0. DOMAIN audit = 1..Len(audit) /\ DOMAIN t = 1..Len(t)
      BY <2>2 DEF TypeOK
    <3>1. i \in 1..Len(audit) /\ i \in DOMAIN t /\ t[i] = n
      BY <2>2, <2>7, <3>0
    <3> QED
      BY <2>4, <3>1
  <2>8. ASSUME NEW x \in Writers, req[x].no = n, at[x] \in {"audit", "record"}
        PROVE  \/ \E j \in DOMAIN audit' : audit'[j] = n
               \/ \E y \in Writers : req'[y].no = n /\ at'[y] \in {"audit", "record"}
    <3>1. CASE x = w
      <4>1. Len(audit) + 1 \in DOMAIN t /\ t[Len(audit) + 1] = n
        BY <2>2, <2>8, <3>1
      <4> QED
        BY <2>4, <4>1
    <3>2. CASE x # w
      BY <2>1, <2>8, <3>2 DEF TypeOK
    <3> QED
      BY <3>1, <3>2
  <2> QED
    BY <2>5, <2>6, <2>7, <2>8
<1>10. CASE RecordFails(w)
  <2>1. UNCHANGED <<req, audit, torn, ran>> /\ at' = [at EXCEPT ![w] = "reload"]
        /\ cut' = cut \cup {req[w].no}
    BY <1>10 DEF RecordFails
  <2>2. \A x \in Writers : x # w => at'[x] = at[x]
    BY <2>1 DEF TypeOK
  <2> QED
    BY <2>1, <2>2, AuditKept
<1>11. CASE PutFails(w) \/ Reload(w) \/ ReloadFails(w)
  <2>1. at[w] \notin {"audit", "record"} /\ UNCHANGED <<audit, torn, cut, ran>> /\ Leave(w)
    BY <1>11 DEF PutFails, Reload, ReloadFails
  <2> QED
    BY <1>2, <2>1 DEF Leave
<1>12. CASE Cancel(w)
  <2>1. /\ UNCHANGED <<audit, torn, ran>> /\ cut \subseteq cut' /\ Leave(w)
        /\ at[w] \in {"audit", "record"} => req[w].no \in cut'
    BY <1>12 DEF Cancel
  <2>2. \A x \in Writers : x # w => at'[x] = at[x] /\ req'[x] = req[x]
    BY <2>1 DEF Leave, TypeOK
  <2> QED
    BY <2>1, <2>2, AuditKept
<1>13. Check(w) \/ CheckFails(w) => \E v : Checked(w, v)
  BY DEF Check, CheckFails
<1> QED
  BY <1>1, <1>3, <1>4, <1>5, <1>6, <1>7, <1>8, <1>9, <1>10, <1>11, <1>12, <1>13 DEF Proceed, Fail

\* ActionHandler._record_audit() and SettingsService lose the record of a change
\* only where two audits overlap, a statement fails, the request is cut off or
\* the log is full.
THEOREM ChangesAreAudited == Spec => []AuditTells
<1>1. Init => AuditTells
  BY DEF Init, AuditTells
<1>2. AuditTells /\ UNCHANGED vars => AuditTells'
  BY DEF vars, liveVars, auditVars, askVars, taskVars, AuditTells
<1>3. TypeOK /\ ValuesOK /\ AuditTells /\ [Next]_vars => AuditTells'
  BY <1>2, AuditStep
<1> QED
  BY <1>1, <1>3, TypesHold, PTL DEF Spec

==============================================================================
