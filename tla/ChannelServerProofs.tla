------------------------ MODULE ChannelServerProofs ------------------------
(***************************************************************************)
(* Proofs about one channel of the TCP channel server, for every size of   *)
(* the pools and every number of connections.                              *)
(*                                                                         *)
(* The first half is about the circular lists of zy_mempool.c. The model   *)
(* walks them as the code does; the proofs need to name what a walk meets. *)
(* Listed writes both lists down as sequences without repetition, and the  *)
(* operations of the pool change these witnesses. The walk is a function   *)
(* defined by recursion, about which UpTo gives induction over a set of    *)
(* numbers.                                                                *)
(*                                                                         *)
(* The second half is the server. IInv adds to its properties who is       *)
(* registered, which events of a batch are stale, and the path of peers    *)
(* that a broadcast in progress still has before it.                       *)
(***************************************************************************)
EXTENDS ChannelServer, Integers, WellFoundedInduction, FiniteSetTheorems,
        FunctionTheorems, SequenceTheorems, TLAPS

-----------------------------------------------------------------------------
(* Sets of numbers.                                                        *)

(* A nonempty set of natural numbers has a least element. *)
LEMMA LeastOf ==
  ASSUME NEW S, S \subseteq Nat, S # {}
  PROVE  \E m \in S : \A k \in S : m <= k
<1> DEFINE Less == {ss \in Nat \X Nat : ss[1] < ss[2]}
<1>1. IsWellFoundedOn(Less, Nat)
  BY NatLessThanWellFounded DEF OpToRel
<1>2. PICK x \in S : \A y \in S : ~(<<y, x>> \in Less)
  <2> HIDE DEF Less
  <2> QED BY <1>1, WFMin, Zenon
<1>3. ASSUME NEW y \in S PROVE x <= y
  <2>1. x \in Nat /\ y \in Nat /\ <<y, x>> \in Nat \X Nat
    OBVIOUS
  <2>2. <<y, x>>[1] = y /\ <<y, x>>[2] = x
    OBVIOUS
  <2>3. y < x => <<y, x>> \in Less
    BY <2>1, <2>2
  <2> QED BY <1>2, <2>1, <2>3
<1> QED BY <1>3

(* Induction up to a bound. *)
LEMMA UpTo ==
  ASSUME NEW n \in Nat, NEW S, 0 \in S,
         \A i \in 0 .. n : i < n /\ i \in S => i + 1 \in S
  PROVE  \A i \in 0 .. n : i \in S
<1> DEFINE Out == {i \in 0 .. n : i \notin S}
<1> SUFFICES ASSUME Out # {} PROVE FALSE
  OBVIOUS
<1>1. Out \subseteq Nat
  OBVIOUS
<1>2. PICK m \in Out : \A k \in Out : m <= k
  <2> HIDE DEF Out
  <2> QED BY <1>1, LeastOf
<1>3. m \in 0 .. n /\ m \notin S /\ m # 0
  BY <1>2
<1>4. m - 1 \in 0 .. n /\ m - 1 < n /\ m - 1 + 1 = m /\ ~(m <= m - 1)
  BY <1>3
<1>5. m - 1 \in S
  BY <1>2, <1>4
<1> QED BY <1>3, <1>4, <1>5

(* The walk the code makes along next is the one and only. *)
Steps(p, h, n, f) ==
  /\ f \in [0 .. n -> PoolNodes]
  /\ f[0] = h
  /\ \A i \in 1 .. n : f[i] = p.next[f[i - 1]]

(* The walk along next exists for any number of steps. *)
LEMMA StepsExist ==
  ASSUME NEW p, p.next \in [PoolNodes -> PoolNodes], NEW h \in PoolNodes, NEW n \in Nat
  PROVE  \E f : Steps(p, h, n, f)
<1> DEFINE Good == {i \in 0 .. n : \E f : Steps(p, h, i, f)}
<1>1. 0 \in Good
  <2>1. Steps(p, h, 0, [i \in 0 .. 0 |-> h])
    BY DEF Steps
  <2> QED BY <2>1
<1>2. ASSUME NEW i \in 0 .. n, i < n, i \in Good PROVE i + 1 \in Good
  <2>1. PICK f : Steps(p, h, i, f)
    BY <1>2
  <2> DEFINE g == [j \in 0 .. i + 1 |-> IF j = i + 1 THEN p.next[f[i]] ELSE f[j]]
  <2>2. f \in [0 .. i -> PoolNodes] /\ f[0] = h /\ \A j \in 1 .. i : f[j] = p.next[f[j - 1]]
    BY <2>1 DEF Steps
  <2>3. f[i] \in PoolNodes /\ p.next[f[i]] \in PoolNodes
    BY <2>2
  <2>4. g \in [0 .. i + 1 -> PoolNodes] /\ g[0] = h
    BY <2>2, <2>3
  <2>5. ASSUME NEW j \in 1 .. i + 1 PROVE g[j] = p.next[g[j - 1]]
    <3>1. CASE j = i + 1
      <4>1. j - 1 = i /\ j - 1 \in 0 .. i + 1 /\ i # i + 1 /\ j \in 0 .. i + 1
        BY <3>1
      <4>2. g[j] = p.next[f[i]] /\ g[j - 1] = f[i]
        BY <3>1, <4>1
      <4> QED BY <4>2
    <3>2. CASE j # i + 1
      <4>1. j \in 1 .. i /\ j - 1 \in 0 .. i /\ j - 1 # i + 1
        BY <3>2
      <4>2. g[j] = f[j] /\ g[j - 1] = f[j - 1]
        BY <3>2, <4>1
      <4> QED BY <2>2, <4>1, <4>2
    <3> QED BY <3>1, <3>2
  <2>6. Steps(p, h, i + 1, g)
    BY <2>4, <2>5 DEF Steps
  <2>7. i + 1 \in 0 .. n
    BY <1>2
  <2> HIDE DEF g
  <2> QED BY <2>6, <2>7
<1>3. n \in Good
  <2> HIDE DEF Good
  <2>1. \A i \in 0 .. n : i \in Good
    BY <1>1, <1>2, UpTo
  <2> QED BY <2>1
<1> QED BY <1>3

(* w is a path of k nodes along next. *)
Path(p, k, w) ==
  /\ p.next \in [PoolNodes -> PoolNodes]
  /\ k \in 1 .. PoolSize /\ w \in [1 .. k -> PoolNodes]
  /\ \A i \in 1 .. k - 1 : p.next[w[i]] = w[i + 1]

(* A walk of k steps meets the members of a path of that length, and only them. *)
LEMMA WalkMeets ==
  ASSUME NEW p, NEW k, NEW w, Path(p, k, w)
  PROVE  Walk(p, w[1], k) = {w[i] : i \in 1 .. k}
<1> USE ZyMempoolAssumption
<1>1. /\ p.next \in [PoolNodes -> PoolNodes]
      /\ k \in 1 .. PoolSize /\ w \in [1 .. k -> PoolNodes]
      /\ \A i \in 1 .. k - 1 : p.next[w[i]] = w[i + 1]
  BY DEF Path
<1> USE <1>1
<1> DEFINE h == w[1]
           Orbit == CHOOSE f : f = [i \in 0 .. PoolSize |->
                                     IF i = 0 THEN h ELSE p.next[f[i - 1]]]
<1>2. h \in PoolNodes
  OBVIOUS
<1>3. PICK f : Steps(p, h, PoolSize, f)
  BY <1>2, StepsExist
<1>4. f = [i \in 0 .. PoolSize |-> IF i = 0 THEN h ELSE p.next[f[i - 1]]]
  BY <1>3 DEF Steps
<1>5. Orbit = [i \in 0 .. PoolSize |-> IF i = 0 THEN h ELSE p.next[Orbit[i - 1]]]
  BY <1>4
<1> HIDE DEF Orbit
<1>6. /\ Orbit[0] = h
       /\ \A i \in 0 .. PoolSize : i # 0 => Orbit[i] = p.next[Orbit[i - 1]]
  <2>1. 0 \in 0 .. PoolSize
    OBVIOUS
  <2> DEFINE Value(i) == IF i = 0 THEN h ELSE p.next[Orbit[i - 1]]
  <2>2. Orbit = [i \in 0 .. PoolSize |-> Value(i)]
    BY <1>5
  <2> HIDE DEF Value
  <2>3. \A i \in 0 .. PoolSize : Orbit[i] = Value(i)
    BY <2>2
  <2> QED BY <2>1, <2>3 DEF Value
<1> DEFINE Agree == {i \in 0 .. k - 1 : Orbit[i] = w[i + 1]}
<1>7. 0 \in Agree
  BY <1>6
<1>8. ASSUME NEW i \in 0 .. k - 1, i < k - 1, i \in Agree PROVE i + 1 \in Agree
  <2>1. i + 1 \in 0 .. PoolSize /\ i + 1 # 0 /\ i + 1 - 1 = i /\ i + 1 \in 1 .. k - 1
    BY <1>8
  <2>2. Orbit[i + 1] = p.next[Orbit[i]]
    BY <1>6, <2>1
  <2> QED BY <1>8, <2>1, <2>2
<1>9. \A i \in 0 .. k - 1 : Orbit[i] = w[i + 1]
  <2>1. k - 1 \in Nat
    OBVIOUS
  <2> HIDE DEF Agree
  <2>2. \A i \in 0 .. k - 1 : i \in Agree
    BY <1>7, <1>8, <2>1, UpTo
  <2> QED BY <2>2 DEF Agree
<1>10. Walk(p, h, k) = {Orbit[i] : i \in 0 .. k - 1}
  BY DEF Walk, Orbit
<1>11. {Orbit[i] : i \in 0 .. k - 1} = {w[i] : i \in 1 .. k}
  <2>1. ASSUME NEW i \in 0 .. k - 1 PROVE i + 1 \in 1 .. k /\ Orbit[i] = w[i + 1]
    BY <1>9
  <2>2. ASSUME NEW i \in 1 .. k PROVE i - 1 \in 0 .. k - 1 /\ w[i] = Orbit[i - 1]
    BY <1>9
  <2>3. ASSUME NEW x \in {Orbit[i] : i \in 0 .. k - 1} PROVE x \in {w[i] : i \in 1 .. k}
    BY <2>1
  <2>4. ASSUME NEW x \in {w[i] : i \in 1 .. k} PROVE x \in {Orbit[i] : i \in 0 .. k - 1}
    BY <2>2
  <2> QED BY <2>3, <2>4
<1> QED BY <1>10, <1>11

-----------------------------------------------------------------------------
(* Circles.                                                                *)

(* the nodes at the first k places *)
Members(w, k) == {w[i] : i \in 1 .. k}

(* w is the circle along nx, and along lt backwards, without repetition.   *)
Ring(nx, lt, k, w) ==
  /\ w \in [1 .. k -> PoolNodes]
  /\ \A i, j \in 1 .. k : w[i] = w[j] => i = j
  /\ \A i \in 1 .. k - 1 : nx[w[i]] = w[i + 1] /\ lt[w[i + 1]] = w[i]
  /\ k > 0 => nx[w[k]] = w[1] /\ lt[w[1]] = w[k]

(* w without its j-th place, and w with n in front *)
Without(w, k, j) == [i \in 1 .. k - 1 |-> IF i < j THEN w[i] ELSE w[i + 1]]
With(w, k, n)    == [i \in 1 .. k + 1 |-> IF i = 1 THEN n ELSE w[i - 1]]

(* Links elsewhere do not matter to a circle. *)
LEMMA RingElsewhere ==
  ASSUME NEW k \in Nat, NEW w, NEW nx, NEW lt, NEW nx2, NEW lt2,
         Ring(nx, lt, k, w),
         \A i \in 1 .. k : nx2[w[i]] = nx[w[i]] /\ lt2[w[i]] = lt[w[i]]
  PROVE  Ring(nx2, lt2, k, w)
<1>1. ASSUME NEW i \in 1 .. k - 1 PROVE i \in 1 .. k /\ i + 1 \in 1 .. k
  OBVIOUS
<1>2. k > 0 => 1 \in 1 .. k /\ k \in 1 .. k
  OBVIOUS
<1> QED BY <1>1, <1>2 DEF Ring

(* A sequence without its j-th place has the members but that one, still   *)
(* without repetition.                                                     *)
LEMMA WithoutMembers ==
  ASSUME NEW k \in Nat, NEW j \in 1 .. k, NEW w \in [1 .. k -> PoolNodes],
         \A a, b \in 1 .. k : w[a] = w[b] => a = b
  PROVE  /\ Without(w, k, j) \in [1 .. k - 1 -> PoolNodes]
         /\ \A a, b \in 1 .. k - 1 : Without(w, k, j)[a] = Without(w, k, j)[b] => a = b
         /\ Members(Without(w, k, j), k - 1) = Members(w, k) \ {w[j]}
<1> DEFINE v == Without(w, k, j)
           of(i) == IF i < j THEN i ELSE i + 1
<1>1. ASSUME NEW i \in 1 .. k - 1
      PROVE  of(i) \in 1 .. k /\ of(i) # j /\ v[i] = w[of(i)]
  BY DEF Without
<1>2. v \in [1 .. k - 1 -> PoolNodes]
  <2>1. v = [i \in 1 .. k - 1 |-> w[of(i)]]
    BY DEF Without
  <2> HIDE DEF v, of
  <2> QED BY <1>1, <2>1
<1>3. ASSUME NEW a \in 1 .. k - 1, NEW b \in 1 .. k - 1, v[a] = v[b] PROVE a = b
  <2>1. of(a) = of(b)
    <3> HIDE DEF v, of
    <3> QED BY <1>1, <1>3
  <2> QED BY <2>1
<1>4. ASSUME NEW m \in 1 .. k, m # j PROVE \E i \in 1 .. k - 1 : v[i] = w[m]
  <2> DEFINE i == IF m < j THEN m ELSE m - 1
  <2>1. i \in 1 .. k - 1 /\ of(i) = m
    BY <1>4
  <2> HIDE DEF v, of, i
  <2> QED BY <1>1, <2>1
<1> HIDE DEF v, of
<1>5. Members(v, k - 1) = Members(w, k) \ {w[j]}
  <2>1. ASSUME NEW x \in Members(v, k - 1) PROVE x \in Members(w, k) /\ x # w[j]
    <3>1. PICK i \in 1 .. k - 1 : x = v[i]
      BY DEF Members
    <3> QED BY <1>1, <3>1 DEF Members
  <2>2. ASSUME NEW x \in Members(w, k), x # w[j] PROVE x \in Members(v, k - 1)
    <3>1. PICK m \in 1 .. k : x = w[m]
      BY DEF Members
    <3> QED BY <1>4, <2>2, <3>1 DEF Members
  <2> QED BY <2>1, <2>2
<1> QED BY <1>2, <1>3, <1>5 DEF v

(* A sequence with a new node in front has that node besides its members,  *)
(* still without repetition.                                               *)
LEMMA WithMembers ==
  ASSUME NEW k \in Nat, NEW n \in PoolNodes, NEW w \in [1 .. k -> PoolNodes],
         n \notin Members(w, k),
         \A a, b \in 1 .. k : w[a] = w[b] => a = b
  PROVE  /\ With(w, k, n) \in [1 .. k + 1 -> PoolNodes]
         /\ \A a, b \in 1 .. k + 1 : With(w, k, n)[a] = With(w, k, n)[b] => a = b
         /\ Members(With(w, k, n), k + 1) = Members(w, k) \cup {n}
<1> DEFINE v == With(w, k, n)
<1>1. v[1] = n /\ \A i \in 2 .. k + 1 : i - 1 \in 1 .. k /\ v[i] = w[i - 1]
  BY DEF With
<1>2. v \in [1 .. k + 1 -> PoolNodes]
  BY DEF With
<1>3. \A i \in 1 .. k + 1 : i = 1 \/ i \in 2 .. k + 1
  OBVIOUS
<1>4. \A i \in 1 .. k : i + 1 \in 2 .. k + 1 /\ i + 1 - 1 = i
  OBVIOUS
<1> HIDE DEF v
<1>5. ASSUME NEW a \in 1 .. k + 1, NEW b \in 1 .. k + 1, v[a] = v[b] PROVE a = b
  <2>1. CASE a = 1 /\ b = 1
    BY <2>1
  <2>2. CASE a # 1 /\ b # 1
    BY <1>1, <1>3, <1>5, <2>2
  <2>3. CASE (a = 1) # (b = 1)
    BY <1>1, <1>3, <1>5, <2>3 DEF Members
  <2> QED BY <2>1, <2>2, <2>3
<1>6. Members(v, k + 1) = Members(w, k) \cup {n}
  <2>1. ASSUME NEW x \in Members(v, k + 1) PROVE x \in Members(w, k) \cup {n}
    BY <1>1, <1>3 DEF Members
  <2>2. n \in Members(v, k + 1)
    BY <1>1 DEF Members
  <2>3. ASSUME NEW x \in Members(w, k) PROVE x \in Members(v, k + 1)
    <3>1. PICK i \in 1 .. k : x = w[i]
      BY DEF Members
    <3>2. i + 1 \in 2 .. k + 1 /\ v[i + 1] = x /\ i + 1 \in 1 .. k + 1
      BY <1>1, <1>4, <3>1
    <3> QED BY <3>2 DEF Members
  <2> QED BY <2>1, <2>2, <2>3
<1> QED BY <1>2, <1>5, <1>6 DEF v

(* The place behind i in a circle of k places, and the one before it. *)
Behind(i, k) == IF i = k THEN 1 ELSE i + 1
Before(i, k) == IF i = 1 THEN k ELSE i - 1

(* A circle, said place by place: next leads to the place behind, last to  *)
(* the one before.                                                         *)
LEMMA RingByPlaces ==
  ASSUME NEW k \in Nat, NEW w \in [1 .. k -> PoolNodes], NEW nx, NEW lt
  PROVE  Ring(nx, lt, k, w)
           <=> /\ \A i, j \in 1 .. k : w[i] = w[j] => i = j
               /\ \A i \in 1 .. k : /\ nx[w[i]] = w[Behind(i, k)]
                                   /\ lt[w[i]] = w[Before(i, k)]
<1> DEFINE Links == /\ \A i \in 1 .. k - 1 : nx[w[i]] = w[i + 1] /\ lt[w[i + 1]] = w[i]
                    /\ k > 0 => nx[w[k]] = w[1] /\ lt[w[1]] = w[k]
           Places == \A i \in 1 .. k : /\ nx[w[i]] = w[Behind(i, k)]
                                     /\ lt[w[i]] = w[Before(i, k)]
<1>1. ASSUME Links PROVE Places
  <2>1. ASSUME NEW i \in 1 .. k PROVE nx[w[i]] = w[Behind(i, k)]
    <3>1. i = k \/ i \in 1 .. k - 1
      OBVIOUS
    <3> QED BY <1>1, <3>1 DEF Behind
  <2>2. ASSUME NEW i \in 1 .. k PROVE lt[w[i]] = w[Before(i, k)]
    <3>1. i = 1 \/ (i - 1 \in 1 .. k - 1 /\ i - 1 + 1 = i)
      OBVIOUS
    <3> QED BY <1>1, <3>1 DEF Before
  <2> QED BY <2>1, <2>2
<1>2. ASSUME Places PROVE Links
  <2>1. ASSUME NEW i \in 1 .. k - 1 PROVE nx[w[i]] = w[i + 1] /\ lt[w[i + 1]] = w[i]
    <3>1. /\ i \in 1 .. k /\ i + 1 \in 1 .. k
          /\ Behind(i, k) = i + 1 /\ Before(i + 1, k) = i
      BY DEF Behind, Before
    <3> QED BY <1>2, <3>1
  <2>2. ASSUME k > 0 PROVE nx[w[k]] = w[1] /\ lt[w[1]] = w[k]
    <3>1. 1 \in 1 .. k /\ k \in 1 .. k /\ Behind(k, k) = 1 /\ Before(1, k) = k
      BY <2>2 DEF Behind, Before
    <3> QED BY <1>2, <3>1
  <2> QED BY <2>1, <2>2
<1> QED BY <1>1, <1>2 DEF Ring

(* zy_mempool unlinks a node from a circle of several. *)
LEMMA TakeOut ==
  ASSUME NEW k \in Nat, k >= 2, NEW j \in 1 .. k, NEW w,
         NEW nx \in [PoolNodes -> PoolNodes], NEW lt \in [PoolNodes -> PoolNodes],
         Ring(nx, lt, k, w)
  PROVE  Ring([nx EXCEPT ![lt[w[j]]] = nx[w[j]]], [lt EXCEPT ![nx[w[j]]] = lt[w[j]]],
              k - 1, Without(w, k, j))
<1> DEFINE n == w[j]
           nx1 == [nx EXCEPT ![lt[n]] = nx[n]]
           lt1 == [lt EXCEPT ![nx[n]] = lt[n]]
           v == Without(w, k, j)
           of(i) == IF i < j THEN i ELSE i + 1
<1>1. w \in [1 .. k -> PoolNodes] /\ \A a, b \in 1 .. k : w[a] = w[b] => a = b
  BY DEF Ring
<1>2. \A i \in 1 .. k : nx[w[i]] = w[Behind(i, k)] /\ lt[w[i]] = w[Before(i, k)]
  BY <1>1, RingByPlaces
<1>3. \A i \in 1 .. k : Behind(i, k) \in 1 .. k /\ Before(i, k) \in 1 .. k
  BY DEF Behind, Before
<1>4. ASSUME NEW i \in 1 .. k, i # j
      PROVE  /\ nx1[w[i]] = IF i = Before(j, k) THEN w[Behind(j, k)] ELSE w[Behind(i, k)]
             /\ lt1[w[i]] = IF i = Behind(j, k) THEN w[Before(j, k)] ELSE w[Before(i, k)]
  <2>1. lt[n] = w[Before(j, k)] /\ nx[n] = w[Behind(j, k)]
    BY <1>2
  <2>2. /\ w[i] = lt[n] <=> i = Before(j, k)
        /\ w[i] = nx[n] <=> i = Behind(j, k)
    BY <1>1, <1>3, <2>1
  <2> QED BY <1>1, <1>2, <2>1, <2>2
<1>5. ASSUME NEW i \in 1 .. k - 1
      PROVE  of(i) \in 1 .. k /\ of(i) # j /\ v[i] = w[of(i)]
  BY DEF Without
<1>6. ASSUME NEW i \in 1 .. k - 1
      PROVE  /\ Behind(i, k - 1) \in 1 .. k - 1 /\ Before(i, k - 1) \in 1 .. k - 1
             /\ of(Behind(i, k - 1)) = IF of(i) = Before(j, k) THEN Behind(j, k)
                                                             ELSE Behind(of(i), k)
             /\ of(Before(i, k - 1)) = IF of(i) = Behind(j, k) THEN Before(j, k)
                                                             ELSE Before(of(i), k)
  BY DEF Behind, Before
<1>7. /\ v \in [1 .. k - 1 -> PoolNodes]
      /\ \A a, b \in 1 .. k - 1 : v[a] = v[b] => a = b
  BY <1>1, WithoutMembers
<1> HIDE DEF v, nx1, lt1, of
<1>8. ASSUME NEW i \in 1 .. k - 1
      PROVE  /\ nx1[v[i]] = v[Behind(i, k - 1)]
             /\ lt1[v[i]] = v[Before(i, k - 1)]
  BY <1>4, <1>5, <1>6
<1>9. k - 1 \in Nat
  OBVIOUS
<1>10. Ring(nx1, lt1, k - 1, v)
  BY <1>7, <1>8, <1>9, RingByPlaces
<1> QED BY <1>10 DEF nx1, lt1, v

(* A node put in before the first of a circle becomes the first. *)
LEMMA PutFirst ==
  ASSUME NEW k \in Nat, k >= 1, NEW n \in PoolNodes, NEW w,
         NEW nx \in [PoolNodes -> PoolNodes], NEW lt \in [PoolNodes -> PoolNodes],
         Ring(nx, lt, k, w), n \notin Members(w, k)
  PROVE  Ring([nx EXCEPT ![lt[w[1]]] = n, ![n] = w[1]],
              [lt EXCEPT ![w[1]] = n, ![n] = lt[w[1]]], k + 1, With(w, k, n))
<1> DEFINE nx1 == [nx EXCEPT ![lt[w[1]]] = n, ![n] = w[1]]
           lt1 == [lt EXCEPT ![w[1]] = n, ![n] = lt[w[1]]]
           v == With(w, k, n)
<1>1. w \in [1 .. k -> PoolNodes] /\ \A a, b \in 1 .. k : w[a] = w[b] => a = b
  BY DEF Ring
<1>2. /\ \A i \in 1 .. k - 1 : nx[w[i]] = w[i + 1] /\ lt[w[i + 1]] = w[i]
      /\ nx[w[k]] = w[1] /\ lt[w[1]] = w[k]
  BY DEF Ring
<1>3. 1 \in 1 .. k /\ k \in 1 .. k /\ \A i \in 1 .. k : w[i] # n /\ w[i] \in PoolNodes
  BY <1>1 DEF Members
<1>4. nx1[n] = w[1] /\ nx1[w[k]] = n /\ lt1[n] = w[k] /\ lt1[w[1]] = n
  BY <1>2, <1>3
<1>5. ASSUME NEW i \in 1 .. k - 1
      PROVE  nx1[w[i]] = w[i + 1] /\ lt1[w[i + 1]] = w[i]
  <2>1. i \in 1 .. k /\ i + 1 \in 1 .. k /\ i # k /\ i + 1 # 1
    OBVIOUS
  <2>2. w[i] # w[k] /\ w[i + 1] # w[1]
    BY <1>1, <1>3, <2>1
  <2> QED BY <1>2, <1>3, <2>1, <2>2
<1>6. v[1] = n /\ \A i \in 2 .. k + 1 : v[i] = w[i - 1]
  BY DEF With
<1>7. /\ v \in [1 .. k + 1 -> PoolNodes]
      /\ \A a, b \in 1 .. k + 1 : v[a] = v[b] => a = b
  BY <1>1, WithMembers
<1> HIDE DEF v, nx1, lt1
<1>8. ASSUME NEW i \in 1 .. k + 1 - 1 PROVE nx1[v[i]] = v[i + 1] /\ lt1[v[i + 1]] = v[i]
  <2>1. CASE i = 1
    <3>1. v[i + 1] = w[1]
      BY <1>6, <2>1
    <3> QED BY <1>4, <1>6, <2>1, <3>1
  <2>2. CASE i # 1
    <3>1. i - 1 \in 1 .. k - 1 /\ i - 1 + 1 = i /\ i \in 2 .. k + 1 /\ i + 1 \in 2 .. k + 1
          /\ i + 1 - 1 = i
      BY <2>2
    <3>2. v[i] = w[i - 1] /\ v[i + 1] = w[i]
      BY <1>6, <3>1
    <3> QED BY <1>5, <3>1, <3>2
  <2> QED BY <2>1, <2>2
<1>9. nx1[v[k + 1]] = v[1] /\ lt1[v[1]] = v[k + 1]
  <2>1. v[k + 1] = w[k]
    <3>1. k + 1 \in 2 .. k + 1 /\ k + 1 - 1 = k
      OBVIOUS
    <3> QED BY <1>6, <3>1
  <2> QED BY <1>4, <1>6, <2>1
<1>10. Ring(nx1, lt1, k + 1, v)
  BY <1>7, <1>8, <1>9 DEF Ring
<1> QED BY <1>10 DEF nx1, lt1, v

(* A node that is linked to itself is a circle of one. *)
LEMMA PutAlone ==
  ASSUME NEW n \in PoolNodes, NEW w \in [1 .. 0 -> PoolNodes],
         NEW nx \in [PoolNodes -> PoolNodes], NEW lt \in [PoolNodes -> PoolNodes]
  PROVE  Ring([nx EXCEPT ![n] = n], [lt EXCEPT ![n] = n], 1, With(w, 0, n))
<1>1. With(w, 0, n) \in [1 .. 1 -> PoolNodes] /\ With(w, 0, n)[1] = n
  BY DEF With
<1> HIDE DEF With
<1> QED BY <1>1 DEF Ring

(* In a circle both links lead to members, and each undoes the other. *)
LEMMA RingLinks ==
  ASSUME NEW k \in Nat, NEW w, NEW nx, NEW lt, Ring(nx, lt, k, w)
  PROVE  \A x \in Members(w, k) :
           /\ x \in PoolNodes
           /\ nx[x] \in Members(w, k) /\ lt[x] \in Members(w, k)
           /\ lt[nx[x]] = x /\ nx[lt[x]] = x
<1>1. w \in [1 .. k -> PoolNodes]
  BY DEF Ring
<1>2. \A i \in 1 .. k : nx[w[i]] = w[Behind(i, k)] /\ lt[w[i]] = w[Before(i, k)]
  BY <1>1, RingByPlaces
<1>3. \A i \in 1 .. k : /\ Behind(i, k) \in 1 .. k /\ Before(i, k) \in 1 .. k
                      /\ Before(Behind(i, k), k) = i /\ Behind(Before(i, k), k) = i
  BY DEF Behind, Before
<1>4. ASSUME NEW i \in 1 .. k
      PROVE  /\ w[i] \in PoolNodes
             /\ nx[w[i]] \in Members(w, k) /\ lt[w[i]] \in Members(w, k)
             /\ lt[nx[w[i]]] = w[i] /\ nx[lt[w[i]]] = w[i]
  BY <1>1, <1>2, <1>3 DEF Members
<1> QED BY <1>4 DEF Members

(* The links after a node was taken out of a circle of a nodes, and after  *)
(* it was put in before h, the first of b.                                 *)
NextOut(nx, lt, a, n) == IF a = 1 THEN nx ELSE [nx EXCEPT ![lt[n]] = nx[n]]
LastOut(nx, lt, a, n) == IF a = 1 THEN lt ELSE [lt EXCEPT ![nx[n]] = lt[n]]
NextIn(nx, lt, b, n, h) ==
  IF b = 0 THEN [nx EXCEPT ![n] = n] ELSE [nx EXCEPT ![lt[h]] = n, ![n] = h]
LastIn(nx, lt, b, n, h) ==
  IF b = 0 THEN [lt EXCEPT ![n] = n] ELSE [lt EXCEPT ![h] = n, ![n] = lt[h]]

(* Node j of circle f goes to the front of circle u, which is what get and *)
(* return have in common: the links before, in between and behind.         *)
Moving(nx, lt, a, b, f, u, j, nx1, lt1, nx2, lt2) ==
  /\ a \in Nat /\ b \in Nat /\ j \in 1 .. a
  /\ nx \in [PoolNodes -> PoolNodes] /\ lt \in [PoolNodes -> PoolNodes]
  /\ Ring(nx, lt, a, f) /\ Ring(nx, lt, b, u)
  /\ Members(f, a) \cap Members(u, b) = {}
  /\ nx1 = NextOut(nx, lt, a, f[j]) /\ lt1 = LastOut(nx, lt, a, f[j])
  /\ nx2 = NextIn(nx1, lt1, b, f[j], u[1]) /\ lt2 = LastIn(nx1, lt1, b, f[j], u[1])

(* Both are circles afterwards, and the links between those that stay in   *)
(* the first one stay.                                                     *)
LEMMA Move ==
  ASSUME NEW a, NEW b, NEW f, NEW u, NEW j, NEW nx, NEW lt,
         NEW nx1, NEW lt1, NEW nx2, NEW lt2,
         Moving(nx, lt, a, b, f, u, j, nx1, lt1, nx2, lt2)
  PROVE  /\ nx2 \in [PoolNodes -> PoolNodes] /\ lt2 \in [PoolNodes -> PoolNodes]
         /\ Ring(nx2, lt2, a - 1, Without(f, a, j))
         /\ Ring(nx2, lt2, b + 1, With(u, b, f[j]))
         /\ \A x \in Members(f, a) : x # f[j] /\ nx[x] # f[j] => nx2[x] = nx[x]
         /\ b # 0 => u[1] \in PoolNodes \ {f[j]} /\ lt1[u[1]] # f[j]
<1>1. /\ a \in Nat /\ b \in Nat /\ j \in 1 .. a
      /\ nx \in [PoolNodes -> PoolNodes] /\ lt \in [PoolNodes -> PoolNodes]
      /\ Ring(nx, lt, a, f) /\ Ring(nx, lt, b, u)
      /\ Members(f, a) \cap Members(u, b) = {}
      /\ nx1 = NextOut(nx, lt, a, f[j]) /\ lt1 = LastOut(nx, lt, a, f[j])
      /\ nx2 = NextIn(nx1, lt1, b, f[j], u[1]) /\ lt2 = LastIn(nx1, lt1, b, f[j], u[1])
  BY DEF Moving
<1> USE <1>1
<1> DEFINE n == f[j]
           g == Without(f, a, j)
<1>2. /\ f \in [1 .. a -> PoolNodes] /\ u \in [1 .. b -> PoolNodes]
      /\ \A x, y \in 1 .. a : f[x] = f[y] => x = y
      /\ \A x, y \in 1 .. b : u[x] = u[y] => x = y
  BY DEF Ring
<1>3. /\ n \in PoolNodes /\ n \in Members(f, a) /\ n \notin Members(u, b)
      /\ \A i \in 1 .. b : u[i] \in Members(u, b)
  BY <1>2 DEF Members
<1>4. \A x \in Members(f, a) : x \in PoolNodes /\ nx[x] \in Members(f, a)
                               /\ lt[x] \in Members(f, a) /\ lt[nx[x]] = x /\ nx[lt[x]] = x
  BY RingLinks
<1>5. nx1 \in [PoolNodes -> PoolNodes] /\ lt1 \in [PoolNodes -> PoolNodes]
  BY <1>3, <1>4 DEF NextOut, LastOut
<1>6. /\ Ring(nx1, lt1, a - 1, g) /\ g \in [1 .. a - 1 -> PoolNodes]
      /\ Members(g, a - 1) = Members(f, a) \ {n}
  <2>1. /\ g \in [1 .. a - 1 -> PoolNodes] /\ Members(g, a - 1) = Members(f, a) \ {n}
        /\ \A x, y \in 1 .. a - 1 : g[x] = g[y] => x = y
    BY <1>2, WithoutMembers
  <2>2. CASE a = 1
    <3>1. 1 .. a - 1 = {} /\ ~(a - 1 > 0) /\ 1 .. a - 1 - 1 = {}
      BY <2>2
    <3> HIDE DEF g
    <3> QED BY <2>1, <3>1 DEF Ring
  <2>3. CASE a # 1
    <3>1. a >= 2
      BY <2>3
    <3>2. Ring([nx EXCEPT ![lt[f[j]]] = nx[f[j]]], [lt EXCEPT ![nx[f[j]]] = lt[f[j]]],
               a - 1, Without(f, a, j))
      BY <3>1, TakeOut
    <3> QED BY <2>1, <2>3, <3>2 DEF NextOut, LastOut
  <2> QED BY <2>2, <2>3
<1>7. \A x \in PoolNodes \ Members(f, a) : nx1[x] = nx[x] /\ lt1[x] = lt[x]
  BY <1>3, <1>4 DEF NextOut, LastOut
<1>8. Ring(nx1, lt1, b, u)
  <2>1. \A i \in 1 .. b : u[i] \in PoolNodes \ Members(f, a)
    BY <1>2, <1>3
  <2>2. \A i \in 1 .. b : nx1[u[i]] = nx[u[i]] /\ lt1[u[i]] = lt[u[i]]
    BY <1>7, <2>1
  <2> QED BY <2>2, RingElsewhere
<1>9. b > 0 => u[1] \in Members(u, b) /\ u[1] \in PoolNodes
               /\ lt1[u[1]] \in Members(u, b) /\ lt1[u[1]] \in PoolNodes
  <2>1. b > 0 => 1 \in 1 .. b /\ b \in 1 .. b /\ lt1[u[1]] = u[b]
    BY <1>8 DEF Ring
  <2> QED BY <1>2, <1>3, <2>1
<1> HIDE DEF g
<1>10. nx2 \in [PoolNodes -> PoolNodes] /\ lt2 \in [PoolNodes -> PoolNodes]
  <2>1. CASE b = 0
    BY <1>3, <1>5, <2>1 DEF NextIn, LastIn
  <2>2. CASE b # 0
    <3>1. u[1] \in PoolNodes /\ lt1[u[1]] \in PoolNodes
      BY <1>9, <2>2
    <3> QED BY <1>3, <1>5, <2>2, <3>1 DEF NextIn, LastIn
  <2> QED BY <2>1, <2>2
<1>11. \A x \in Members(f, a) \ {n} : nx2[x] = nx1[x] /\ lt2[x] = lt1[x]
  BY <1>3, <1>4, <1>5, <1>9 DEF NextIn, LastIn
<1>12. Ring(nx2, lt2, a - 1, g)
  <2>1. \A i \in 1 .. a - 1 : g[i] \in Members(f, a) \ {n}
    BY <1>6 DEF Members
  <2>2. \A i \in 1 .. a - 1 : nx2[g[i]] = nx1[g[i]] /\ lt2[g[i]] = lt1[g[i]]
    BY <1>11, <2>1
  <2>3. a - 1 \in Nat
    OBVIOUS
  <2> QED BY <1>6, <2>2, <2>3, RingElsewhere
<1>13. Ring(nx2, lt2, b + 1, With(u, b, n))
  <2>1. CASE b = 0
    <3>1. nx2 = [nx1 EXCEPT ![n] = n] /\ lt2 = [lt1 EXCEPT ![n] = n] /\ b + 1 = 1
      BY <2>1 DEF NextIn, LastIn
    <3>2. u \in [1 .. 0 -> PoolNodes]
      BY <1>2, <2>1
    <3> HIDE DEF n
    <3>3. Ring([nx1 EXCEPT ![n] = n], [lt1 EXCEPT ![n] = n], 1, With(u, 0, n))
      BY <1>3, <1>5, <3>2, PutAlone
    <3> QED BY <2>1, <3>1, <3>3
  <2>2. CASE b # 0
    <3>1. b >= 1
      BY <2>2
    <3>2. /\ nx2 = [nx1 EXCEPT ![lt1[u[1]]] = n, ![n] = u[1]]
          /\ lt2 = [lt1 EXCEPT ![u[1]] = n, ![n] = lt1[u[1]]]
      BY <2>2 DEF NextIn, LastIn
    <3> HIDE DEF n
    <3>3. Ring([nx1 EXCEPT ![lt1[u[1]]] = n, ![n] = u[1]],
               [lt1 EXCEPT ![u[1]] = n, ![n] = lt1[u[1]]], b + 1, With(u, b, n))
      BY <1>3, <1>5, <1>8, <3>1, PutFirst
    <3> QED BY <3>2, <3>3
  <2> QED BY <2>1, <2>2
<1>14. ASSUME NEW x \in Members(f, a), x # n, nx[x] # n PROVE nx2[x] = nx[x]
  <2>1. nx2[x] = nx1[x]
    BY <1>11, <1>14
  <2>2. x # lt[n]
    BY <1>3, <1>4, <1>14
  <2> QED BY <1>3, <1>4, <2>1, <2>2 DEF NextOut
<1>15. b # 0 => u[1] \in PoolNodes \ {n} /\ lt1[u[1]] # n
  BY <1>3, <1>9
<1> QED BY <1>10, <1>12, <1>13, <1>14, <1>15 DEF g

-----------------------------------------------------------------------------
(* The pool: f and u are its lists.                                        *)

Listed(p, f, u) ==
  /\ p \in PoolType
  /\ Ring(p.next, p.last, p.freecount, f)
  /\ Ring(p.next, p.last, p.usecount, u)
  /\ p.freelist = (IF p.freecount = 0 THEN NULL ELSE f[1])
  /\ p.uselist = (IF p.usecount = 0 THEN NULL ELSE u[1])
  /\ Members(f, p.freecount) \cap Members(u, p.usecount) = {}
  /\ Members(f, p.freecount) \cup Members(u, p.usecount) = PoolNodes

(* A circle has as many members as places. *)
LEMMA RingCount ==
  ASSUME NEW k \in Nat, NEW w, NEW nx, NEW lt, Ring(nx, lt, k, w)
  PROVE  Cardinality(Members(w, k)) = k /\ IsFiniteSet(Members(w, k))
<1>1. w \in [1 .. k -> Members(w, k)] /\ \A i, j \in 1 .. k : w[i] = w[j] => i = j
  <2>1. w \in [1 .. k -> PoolNodes] /\ \A i, j \in 1 .. k : w[i] = w[j] => i = j
    BY DEF Ring
  <2> QED BY <2>1 DEF Members
<1>2. \A x \in Members(w, k) : \E i \in 1 .. k : w[i] = x
  BY DEF Members
<1>3. w \in Bijection(1 .. k, Members(w, k))
  BY <1>1, <1>2 DEF Bijection, Injection, Surjection, IsInjective
<1>4. ExistsBijection(1 .. k, Members(w, k))
  BY <1>3 DEF ExistsBijection
<1> QED BY <1>4, FS_CountingElements, FS_NatBijection

(* A walk of as many steps as a circle has places meets its members.       *)
LEMMA RingWalk ==
  ASSUME NEW p, p.next \in [PoolNodes -> PoolNodes], NEW k \in 1 .. PoolSize, NEW w,
         Ring(p.next, p.last, k, w)
  PROVE  Walk(p, w[1], k) = Members(w, k)
<1>1. Path(p, k, w)
  BY DEF Ring, Path
<1>2. Walk(p, w[1], k) = {w[i] : i \in 1 .. k}
  BY <1>1, WalkMeets
<1> QED BY <1>2 DEF Members

(* The free and the used nodes, as the walks of the model see them, are    *)
(* the members of the two circles.                                         *)
LEMMA ListedNodes ==
  ASSUME NEW p, NEW f, NEW u, Listed(p, f, u)
  PROVE  FreeNodes(p) = Members(f, p.freecount) /\ UsedNodes(p) = Members(u, p.usecount)
<1>1. /\ p.next \in [PoolNodes -> PoolNodes]
      /\ p.freecount \in 0 .. PoolSize /\ p.usecount \in 0 .. PoolSize
  BY DEF Listed, PoolType
<1>2. Ring(p.next, p.last, p.freecount, f) /\ Ring(p.next, p.last, p.usecount, u)
  BY DEF Listed
<1>3. FreeNodes(p) = Members(f, p.freecount)
  <2>1. CASE p.freecount = 0
    BY <2>1 DEF FreeNodes, Members
  <2>2. CASE p.freecount # 0
    <3>1. p.freecount \in 1 .. PoolSize /\ p.freelist = f[1]
      BY <1>1, <2>2, ZyMempoolAssumption DEF Listed
    <3> QED BY <1>1, <1>2, <2>2, <3>1, RingWalk DEF FreeNodes
  <2> QED BY <2>1, <2>2
<1>4. UsedNodes(p) = Members(u, p.usecount)
  <2>1. CASE p.usecount = 0
    BY <2>1 DEF UsedNodes, Members
  <2>2. CASE p.usecount # 0
    <3>1. p.usecount \in 1 .. PoolSize /\ p.uselist = u[1]
      BY <1>1, <2>2, ZyMempoolAssumption DEF Listed
    <3> QED BY <1>1, <1>2, <2>2, <3>1, RingWalk DEF UsedNodes
  <2> QED BY <2>1, <2>2
<1> QED BY <1>3, <1>4

(* A pool whose lists can be written down is sound. *)
LEMMA ListedSound ==
  ASSUME NEW p, NEW f, NEW u, Listed(p, f, u)
  PROVE  PoolSound(p)
<1>1. FreeNodes(p) = Members(f, p.freecount) /\ UsedNodes(p) = Members(u, p.usecount)
  BY ListedNodes
<1>2. p.freecount \in Nat /\ p.usecount \in Nat
  BY ZyMempoolAssumption DEF Listed, PoolType
<1>3. ASSUME NEW k \in Nat, NEW h, NEW w, Ring(p.next, p.last, k, w),
             h = IF k = 0 THEN NULL ELSE w[1]
      PROVE  Circle(p, h, k, Members(w, k))
  <2>1. k = 0 <=> h = NULL
    <3>1. k # 0 => w[1] \in PoolNodes
      BY <1>3 DEF Ring
    <3> QED BY <1>3, <3>1, ZyMempoolAssumption DEF PoolNodes
  <2> QED BY <1>3, <2>1, RingCount, RingLinks DEF Circle
<1>4. Circle(p, p.freelist, p.freecount, Members(f, p.freecount))
  BY <1>2, <1>3 DEF Listed
<1>5. Circle(p, p.uselist, p.usecount, Members(u, p.usecount))
  BY <1>2, <1>3 DEF Listed
<1> QED BY <1>1, <1>4, <1>5 DEF PoolSound, Listed

(* zy_mempool_create: all nodes are free, in the order of their numbers. *)
LEMMA NewPoolListed ==
  Listed(NewPool, [i \in PoolNodes |-> i], [i \in 1 .. 0 |-> 1])
<1> USE ZyMempoolAssumption
<1> DEFINE f == [i \in PoolNodes |-> i]
           u == [i \in 1 .. 0 |-> 1]
<1>1. NewPool \in PoolType
  BY DEF NewPool, PoolType, PoolNodes
<1>2. Ring(NewPool.next, NewPool.last, PoolSize, f)
  BY DEF NewPool, Ring, PoolNodes
<1>3. Ring(NewPool.next, NewPool.last, 0, u)
  BY DEF Ring
<1>4. Members(f, PoolSize) = PoolNodes /\ Members(u, 0) = {}
  BY DEF Members, PoolNodes
<1>5. f[1] = 1
  BY DEF PoolNodes
<1>6. /\ NewPool.freecount = PoolSize /\ NewPool.usecount = 0
      /\ NewPool.freelist = 1 /\ NewPool.uselist = NULL
  BY DEF NewPool
<1> HIDE DEF f, u
<1>7. Listed(NewPool, f, u)
  BY <1>1, <1>2, <1>3, <1>4, <1>5, <1>6 DEF Listed
<1> QED BY <1>7 DEF f, u

(* What the assignments to one list's head and count change. *)
Counts == 0 .. PoolSize
SetFree(p, h, k) == [p EXCEPT !.freecount = k, !.freelist = h]
SetUsed(p, h, k) == [p EXCEPT !.usecount = k, !.uselist = h]

(* Writing the free list and its count leaves the rest of the pool alone. *)
LEMMA FreeFields ==
  ASSUME NEW p \in PoolType, NEW h \in PoolNodes \cup {NULL}, NEW k \in Counts,
         NEW q, q = SetFree(p, h, k)
  PROVE  /\ q \in PoolType
         /\ q.freecount = k /\ q.freelist = h /\ q.next = p.next /\ q.last = p.last
         /\ q.usecount = p.usecount /\ q.uselist = p.uselist
BY DEF SetFree, Counts, PoolType

(* Writing the use list and its count leaves the rest of the pool alone. *)
LEMMA UsedFields ==
  ASSUME NEW p \in PoolType, NEW h \in PoolNodes \cup {NULL}, NEW k \in Counts,
         NEW q, q = SetUsed(p, h, k)
  PROVE  /\ q \in PoolType
         /\ q.usecount = k /\ q.uselist = h /\ q.next = p.next /\ q.last = p.last
         /\ q.freecount = p.freecount /\ q.freelist = p.freelist
BY DEF SetUsed, Counts, PoolType

(* Unlinking a node writes the two links that led to it and no other       *)
(* field.                                                                  *)
LEMMA UnlinkFields ==
  ASSUME NEW p \in PoolType, NEW n \in PoolNodes, NEW q, q = Unlink(p, n)
  PROVE  /\ q \in PoolType
         /\ q.next = [p.next EXCEPT ![p.last[n]] = p.next[n]]
         /\ q.last = [p.last EXCEPT ![p.next[n]] = p.last[n]]
         /\ q.freecount = p.freecount /\ q.freelist = p.freelist
         /\ q.usecount = p.usecount /\ q.uselist = p.uselist
BY DEF Unlink, PoolType

(* A node put in before the first of a list of b nodes. *)
Place(p, b, n, h) == IF b = 0 THEN Alone(p, n) ELSE InsertBefore(p, n, h)

(* Putting a node into a list of b nodes with head h writes the links of   *)
(* PutFirst, or of PutAlone if the list was empty.                         *)
LEMMA PlaceFields ==
  ASSUME NEW p \in PoolType, NEW n \in PoolNodes, NEW h, NEW b \in Nat,
         b # 0 => h \in PoolNodes \ {n} /\ p.last[h] # n,
         NEW q, q = Place(p, b, n, h)
  PROVE  /\ q \in PoolType
         /\ q.next = NextIn(p.next, p.last, b, n, h)
         /\ q.last = LastIn(p.next, p.last, b, n, h)
         /\ q.freecount = p.freecount /\ q.freelist = p.freelist
         /\ q.usecount = p.usecount /\ q.uselist = p.uselist
BY DEF Place, Alone, InsertBefore, NextIn, LastIn, PoolType

(* The fields of a pool after get and return. *)
LEMMA GetFields ==
  ASSUME NEW p \in PoolType, p.freecount >= 1, p.usecount < PoolSize,
         NEW n \in PoolNodes, p.freelist = n,
         NEW nx, nx = NextOut(p.next, p.last, p.freecount, n),
         NEW lt, lt = LastOut(p.next, p.last, p.freecount, n),
         p.usecount # 0 => p.uselist \in PoolNodes \ {n} /\ lt[p.uselist] # n,
         NEW q, q = GetNode(p)
  PROVE  /\ q \in PoolType
         /\ q.next = NextIn(nx, lt, p.usecount, n, p.uselist)
         /\ q.last = LastIn(nx, lt, p.usecount, n, p.uselist)
         /\ q.freecount = p.freecount - 1 /\ q.usecount = p.usecount + 1
         /\ q.freelist = (IF p.freecount = 1 THEN NULL ELSE p.next[n])
         /\ q.uselist = n
<1> USE ZyMempoolAssumption
<1> DEFINE out == Unlink(p, n)
           from == IF p.freecount = 1 THEN p ELSE out
           rest == IF p.freecount = 1 THEN NULL ELSE p.next[n]
           less == IF p.freecount = 1 THEN 0 ELSE out.freecount - 1
           taken == SetFree(from, rest, less)
           placed == Place(taken, p.usecount, n, p.uselist)
           more == placed.usecount + 1
<1>1. q = SetUsed(placed, n, more)
  BY DEF GetNode, Place, SetFree, SetUsed
<1>2. /\ p.next \in [PoolNodes -> PoolNodes]
      /\ p.freecount \in 0 .. PoolSize /\ p.usecount \in 0 .. PoolSize
  BY DEF PoolType
<1>3. /\ out \in PoolType
      /\ out.next = [p.next EXCEPT ![p.last[n]] = p.next[n]]
      /\ out.last = [p.last EXCEPT ![p.next[n]] = p.last[n]]
      /\ out.freecount = p.freecount
      /\ out.usecount = p.usecount /\ out.uselist = p.uselist
  BY UnlinkFields
<1> HIDE DEF out
<1>4. /\ from \in PoolType /\ from.next = nx /\ from.last = lt
      /\ from.usecount = p.usecount /\ from.uselist = p.uselist
      /\ rest \in PoolNodes \cup {NULL}
      /\ less = p.freecount - 1 /\ less \in Counts
  BY <1>2, <1>3 DEF NextOut, LastOut, Counts
<1> HIDE DEF from, less
<1>5. /\ taken \in PoolType /\ taken.next = nx /\ taken.last = lt
      /\ taken.freecount = p.freecount - 1 /\ taken.freelist = rest
      /\ taken.usecount = p.usecount /\ taken.uselist = p.uselist
  BY <1>4, FreeFields
<1> HIDE DEF taken, rest
<1>6. /\ placed \in PoolType
      /\ placed.next = NextIn(nx, lt, p.usecount, n, p.uselist)
      /\ placed.last = LastIn(nx, lt, p.usecount, n, p.uselist)
      /\ placed.freecount = p.freecount - 1 /\ placed.freelist = rest
      /\ placed.usecount = p.usecount
  BY <1>2, <1>5, PlaceFields
<1> HIDE DEF placed
<1>7. more = p.usecount + 1 /\ more \in Counts
  BY <1>2, <1>6 DEF Counts
<1> HIDE DEF more
<1> QED BY <1>1, <1>6, <1>7, UsedFields DEF rest

(* The fields of the pool after zy_mempool_return_node. *)
LEMMA ReturnFields ==
  ASSUME NEW p \in PoolType, p.usecount >= 1, p.freecount < PoolSize,
         NEW n \in PoolNodes,
         NEW nx, nx = NextOut(p.next, p.last, p.usecount, n),
         NEW lt, lt = LastOut(p.next, p.last, p.usecount, n),
         p.freecount # 0 => p.freelist \in PoolNodes \ {n} /\ lt[p.freelist] # n,
         NEW q, q = ReturnNode(p, n)
  PROVE  /\ q \in PoolType
         /\ q.next = NextIn(nx, lt, p.freecount, n, p.freelist)
         /\ q.last = LastIn(nx, lt, p.freecount, n, p.freelist)
         /\ q.usecount = p.usecount - 1 /\ q.freecount = p.freecount + 1
         /\ q.uselist = (IF p.usecount = 1 THEN NULL
                         ELSE IF p.uselist = n THEN p.next[n] ELSE p.uselist)
         /\ q.freelist = n
<1> USE ZyMempoolAssumption
<1> DEFINE out == Unlink(p, n)
           from == IF p.usecount = 1 THEN p ELSE out
           rest == IF p.usecount = 1 THEN NULL
                   ELSE IF out.uselist = n THEN p.next[n] ELSE out.uselist
           less == IF p.usecount = 1 THEN 0 ELSE out.usecount - 1
           taken == SetUsed(from, rest, less)
           placed == Place(taken, p.freecount, n, p.freelist)
           more == placed.freecount + 1
<1>1. q = SetFree(placed, n, more)
  BY DEF ReturnNode, Place, SetFree, SetUsed
<1>2. /\ p.next \in [PoolNodes -> PoolNodes] /\ p.uselist \in PoolNodes \cup {NULL}
      /\ p.freecount \in 0 .. PoolSize /\ p.usecount \in 0 .. PoolSize
  BY DEF PoolType
<1>3. /\ out \in PoolType
      /\ out.next = [p.next EXCEPT ![p.last[n]] = p.next[n]]
      /\ out.last = [p.last EXCEPT ![p.next[n]] = p.last[n]]
      /\ out.freecount = p.freecount /\ out.freelist = p.freelist
      /\ out.usecount = p.usecount /\ out.uselist = p.uselist
  BY UnlinkFields
<1> HIDE DEF out
<1>4. /\ from \in PoolType /\ from.next = nx /\ from.last = lt
      /\ from.freecount = p.freecount /\ from.freelist = p.freelist
  BY <1>2, <1>3 DEF NextOut, LastOut
<1>5. /\ rest = (IF p.usecount = 1 THEN NULL
                  ELSE IF p.uselist = n THEN p.next[n] ELSE p.uselist)
       /\ rest \in PoolNodes \cup {NULL}
  BY <1>2, <1>3
<1>6. less = p.usecount - 1 /\ less \in Counts
  BY <1>2, <1>3 DEF Counts
<1> HIDE DEF from, less, rest
<1>7. /\ taken \in PoolType /\ taken.next = nx /\ taken.last = lt
      /\ taken.usecount = p.usecount - 1 /\ taken.uselist = rest
      /\ taken.freecount = p.freecount /\ taken.freelist = p.freelist
  <2>1. from \in PoolType /\ rest \in PoolNodes \cup {NULL} /\ less \in Counts
    BY <1>4, <1>5, <1>6
  <2>2. /\ taken \in PoolType /\ taken.next = from.next /\ taken.last = from.last
        /\ taken.usecount = less /\ taken.uselist = rest
        /\ taken.freecount = from.freecount /\ taken.freelist = from.freelist
    BY <2>1, UsedFields
  <2> HIDE DEF taken
  <2> QED BY <1>4, <1>6, <2>2
<1> HIDE DEF taken
<1>8. /\ placed \in PoolType
      /\ placed.next = NextIn(nx, lt, p.freecount, n, p.freelist)
      /\ placed.last = LastIn(nx, lt, p.freecount, n, p.freelist)
      /\ placed.usecount = p.usecount - 1 /\ placed.uselist = rest
      /\ placed.freecount = p.freecount
  BY <1>2, <1>7, PlaceFields
<1> HIDE DEF placed
<1>9. more = p.freecount + 1 /\ more \in Counts
  BY <1>2, <1>8 DEF Counts
<1> HIDE DEF more
<1> QED BY <1>1, <1>5, <1>8, <1>9, FreeFields

(* Every node is counted in one of the two counts. *)
LEMMA AllCounted ==
  ASSUME NEW p, NEW f, NEW u, Listed(p, f, u)
  PROVE  /\ p.freecount \in 0 .. PoolSize /\ p.usecount \in 0 .. PoolSize
         /\ p.freecount + p.usecount = PoolSize
<1> USE ZyMempoolAssumption
<1> DEFINE F == Members(f, p.freecount)
           U == Members(u, p.usecount)
<1>1. p.freecount \in 0 .. PoolSize /\ p.usecount \in 0 .. PoolSize
  BY DEF Listed, PoolType
<1>2. /\ Cardinality(F) = p.freecount /\ IsFiniteSet(F)
      /\ Cardinality(U) = p.usecount /\ IsFiniteSet(U)
  BY <1>1, RingCount DEF Listed
<1>3. F \cap U = {} /\ F \cup U = PoolNodes
  BY DEF Listed
<1>4. Cardinality(PoolNodes) = PoolSize
  BY FS_Interval DEF PoolNodes
<1> HIDE DEF F, U
<1>5. Cardinality(F \cup U) = Cardinality(F) + Cardinality(U) - Cardinality(F \cap U)
  BY <1>2, FS_Union
<1>6. Cardinality(F \cap U) = 0
  BY <1>3, FS_EmptySet
<1>7. PoolSize = Cardinality(F) + Cardinality(U) - Cardinality(F \cap U)
  BY <1>3, <1>4, <1>5
<1>8. PoolSize = p.freecount + p.usecount - 0
  BY <1>2, <1>6, <1>7
<1> QED BY <1>1, <1>8

(* zy_mempool_get_node moves the head of the free list to the use list. *)
LEMMA GetListed ==
  ASSUME NEW p, NEW f, NEW u, Listed(p, f, u), p.freecount >= 1
  PROVE  /\ p.freelist \in Members(f, p.freecount)
         /\ Listed(GetNode(p), Without(f, p.freecount, 1), With(u, p.usecount, p.freelist))
         /\ GetNode(p).freecount = p.freecount - 1
         /\ GetNode(p).usecount = p.usecount + 1
         /\ Members(Without(f, p.freecount, 1), p.freecount - 1)
              = Members(f, p.freecount) \ {p.freelist}
         /\ Members(With(u, p.usecount, p.freelist), p.usecount + 1)
              = Members(u, p.usecount) \cup {p.freelist}
<1> DEFINE a == p.freecount
           b == p.usecount
           n == f[1]
           g == Without(f, a, 1)
           v == With(u, b, n)
           q == GetNode(p)
<1>1. a \in Nat /\ b \in Nat /\ b < PoolSize /\ 1 \in 1 .. a /\ b + 1 # 0
  BY AllCounted, ZyMempoolAssumption
<1>2. /\ p \in PoolType
      /\ p.next \in [PoolNodes -> PoolNodes] /\ p.last \in [PoolNodes -> PoolNodes]
      /\ Ring(p.next, p.last, a, f) /\ Ring(p.next, p.last, b, u)
      /\ p.freelist = n
      /\ p.uselist = (IF b = 0 THEN NULL ELSE u[1])
      /\ Members(f, a) \cap Members(u, b) = {}
      /\ Members(f, a) \cup Members(u, b) = PoolNodes
  BY <1>1 DEF Listed, PoolType
<1>3. /\ f \in [1 .. a -> PoolNodes] /\ u \in [1 .. b -> PoolNodes]
      /\ \A x, y \in 1 .. a : f[x] = f[y] => x = y
      /\ \A x, y \in 1 .. b : u[x] = u[y] => x = y
  BY <1>2 DEF Ring
<1>4. n \in PoolNodes /\ n \in Members(f, a) /\ n \notin Members(u, b)
  BY <1>1, <1>2, <1>3 DEF Members
<1>5. /\ Members(g, a - 1) = Members(f, a) \ {n}
      /\ Members(v, b + 1) = Members(u, b) \cup {n}
  BY <1>1, <1>3, <1>4, WithoutMembers, WithMembers
<1>6. b = 0 \/ p.uselist = u[1]
  BY <1>2
<1>7. PICK nx1, lt1 : /\ nx1 = NextOut(p.next, p.last, a, f[1])
                      /\ lt1 = LastOut(p.next, p.last, a, f[1])
  OBVIOUS
<1>8. PICK nx2, lt2 : /\ nx2 = NextIn(nx1, lt1, b, f[1], u[1])
                      /\ lt2 = LastIn(nx1, lt1, b, f[1], u[1])
  OBVIOUS
<1>9. /\ Ring(nx2, lt2, a - 1, g) /\ Ring(nx2, lt2, b + 1, v)
      /\ b # 0 => u[1] \in PoolNodes \ {n} /\ lt1[u[1]] # n
  <2>1. Moving(p.next, p.last, a, b, f, u, 1, nx1, lt1, nx2, lt2)
    BY <1>1, <1>2, <1>7, <1>8 DEF Moving
  <2> HIDE DEF a, b
  <2> QED BY <2>1, Move
<1>10. /\ nx2 = NextIn(nx1, lt1, b, n, p.uselist)
       /\ lt2 = LastIn(nx1, lt1, b, n, p.uselist)
  BY <1>6, <1>7, <1>8 DEF NextIn, LastIn
<1>11. /\ q \in PoolType /\ q.next = nx2 /\ q.last = lt2
       /\ q.freecount = a - 1 /\ q.usecount = b + 1
       /\ q.freelist = (IF a = 1 THEN NULL ELSE p.next[n])
       /\ q.uselist = n
  BY <1>1, <1>2, <1>4, <1>6, <1>7, <1>9, <1>10, GetFields
<1>12. a # 1 => g[1] = p.next[n]
  <2>1. a # 1 => 1 \in 1 .. a - 1 /\ g[1] = f[2] /\ p.next[f[1]] = f[1 + 1]
    BY <1>1, <1>2 DEF Without, Ring
  <2> QED BY <2>1
<1>13. v[1] = n
  BY <1>1 DEF With
<1> HIDE DEF a, b, g, v, q
<1>14. Listed(q, g, v)
  <2>1. (a - 1 = 0) = (a = 1)
    BY <1>1
  <2>2. q.freelist = (IF q.freecount = 0 THEN NULL ELSE g[1])
    BY <1>11, <1>12, <2>1
  <2>3. q.uselist = (IF q.usecount = 0 THEN NULL ELSE v[1])
    BY <1>1, <1>11, <1>13
  <2>4. /\ Members(g, a - 1) \cap Members(v, b + 1) = {}
        /\ Members(g, a - 1) \cup Members(v, b + 1) = PoolNodes
    BY <1>2, <1>4, <1>5
  <2> QED BY <1>9, <1>11, <2>2, <2>3, <2>4 DEF Listed
<1> QED BY <1>2, <1>4, <1>5, <1>11, <1>14 DEF a, b, g, v, q

(* zy_mempool_return_node moves a used node to the head of the free list;  *)
(* the links between the other used nodes stay.                            *)
LEMMA ReturnListed ==
  ASSUME NEW p, NEW f, NEW u, Listed(p, f, u), NEW j \in 1 .. p.usecount
  PROVE  /\ u[j] \in PoolNodes /\ u[j] \notin Members(f, p.freecount)
         /\ Listed(ReturnNode(p, u[j]), With(f, p.freecount, u[j]), Without(u, p.usecount, j))
         /\ ReturnNode(p, u[j]).freecount = p.freecount + 1
         /\ ReturnNode(p, u[j]).usecount = p.usecount - 1
         /\ Members(With(f, p.freecount, u[j]), p.freecount + 1)
              = Members(f, p.freecount) \cup {u[j]}
         /\ Members(Without(u, p.usecount, j), p.usecount - 1)
              = Members(u, p.usecount) \ {u[j]}
         /\ \A x \in Members(u, p.usecount) :
              x # u[j] /\ p.next[x] # u[j] => ReturnNode(p, u[j]).next[x] = p.next[x]
<1> DEFINE a == p.usecount
           b == p.freecount
           n == u[j]
           g == Without(u, a, j)
           v == With(f, b, n)
           q == ReturnNode(p, n)
<1>1. a \in Nat /\ b \in Nat /\ b < PoolSize /\ j \in 1 .. a /\ b + 1 # 0 /\ a >= 1
  BY AllCounted, ZyMempoolAssumption
<1>2. /\ p \in PoolType
      /\ p.next \in [PoolNodes -> PoolNodes] /\ p.last \in [PoolNodes -> PoolNodes]
      /\ Ring(p.next, p.last, a, u) /\ Ring(p.next, p.last, b, f)
      /\ p.uselist = u[1]
      /\ p.freelist = (IF b = 0 THEN NULL ELSE f[1])
      /\ Members(f, b) \cap Members(u, a) = {}
      /\ Members(f, b) \cup Members(u, a) = PoolNodes
  BY <1>1 DEF Listed, PoolType
<1>3. /\ u \in [1 .. a -> PoolNodes] /\ f \in [1 .. b -> PoolNodes]
      /\ \A x, y \in 1 .. a : u[x] = u[y] => x = y
      /\ \A x, y \in 1 .. b : f[x] = f[y] => x = y
  BY <1>2 DEF Ring
<1>4. n \in PoolNodes /\ n \in Members(u, a) /\ n \notin Members(f, b)
  <2>1. n \in PoolNodes
    BY <1>1, <1>3
  <2>2. n \in Members(u, a)
    BY <1>1 DEF Members
  <2> QED BY <1>2, <2>1, <2>2
<1>5. /\ Members(g, a - 1) = Members(u, a) \ {n}
      /\ Members(v, b + 1) = Members(f, b) \cup {n}
  BY <1>1, <1>3, <1>4, WithoutMembers, WithMembers
<1>6. b = 0 \/ p.freelist = f[1]
  BY <1>2
<1>7. PICK nx1, lt1 : /\ nx1 = NextOut(p.next, p.last, a, u[j])
                      /\ lt1 = LastOut(p.next, p.last, a, u[j])
  OBVIOUS
<1>8. PICK nx2, lt2 : /\ nx2 = NextIn(nx1, lt1, b, u[j], f[1])
                      /\ lt2 = LastIn(nx1, lt1, b, u[j], f[1])
  OBVIOUS
<1>9. /\ Ring(nx2, lt2, a - 1, g) /\ Ring(nx2, lt2, b + 1, v)
      /\ b # 0 => f[1] \in PoolNodes \ {n} /\ lt1[f[1]] # n
      /\ \A x \in Members(u, a) : x # n /\ p.next[x] # n => nx2[x] = p.next[x]
  <2>1. Moving(p.next, p.last, a, b, u, f, j, nx1, lt1, nx2, lt2)
    BY <1>1, <1>2, <1>7, <1>8 DEF Moving
  <2> HIDE DEF a, b
  <2> QED BY <2>1, Move
<1>10. /\ nx2 = NextIn(nx1, lt1, b, n, p.freelist)
       /\ lt2 = LastIn(nx1, lt1, b, n, p.freelist)
  BY <1>6, <1>7, <1>8 DEF NextIn, LastIn
<1>11. /\ q \in PoolType /\ q.next = nx2 /\ q.last = lt2
       /\ q.usecount = a - 1 /\ q.freecount = b + 1
       /\ q.uselist = (IF a = 1 THEN NULL
                       ELSE IF p.uselist = n THEN p.next[n] ELSE p.uselist)
       /\ q.freelist = n
  BY <1>1, <1>2, <1>4, <1>6, <1>7, <1>9, <1>10, ReturnFields
<1>12. a # 1 => g[1] = IF p.uselist = n THEN p.next[n] ELSE p.uselist
  <2> SUFFICES ASSUME a # 1 PROVE g[1] = IF p.uselist = n THEN p.next[n] ELSE p.uselist
    OBVIOUS
  <2>1. 1 \in 1 .. a /\ 1 \in 1 .. a - 1 /\ g[1] = (IF 1 < j THEN u[1] ELSE u[1 + 1])
    BY <1>1 DEF Without
  <2>2. p.next[u[1]] = u[1 + 1]
    BY <1>2, <2>1 DEF Ring
  <2>3. 1 < j \/ 1 = j
    BY <1>1
  <2>4. u[1] = n <=> 1 = j
    BY <1>1, <1>3, <2>1
  <2> QED BY <1>2, <2>1, <2>2, <2>3, <2>4
<1>13. v[1] = n
  BY <1>1 DEF With
<1> HIDE DEF a, b, g, v, q
<1>14. Listed(q, v, g)
  <2>1. (a - 1 = 0) = (a = 1)
    BY <1>1
  <2>2. q.uselist = (IF q.usecount = 0 THEN NULL ELSE g[1])
    BY <1>11, <1>12, <2>1
  <2>3. q.freelist = (IF q.freecount = 0 THEN NULL ELSE v[1])
    BY <1>1, <1>11, <1>13
  <2>4. /\ Members(v, b + 1) \cap Members(g, a - 1) = {}
        /\ Members(v, b + 1) \cup Members(g, a - 1) = PoolNodes
    BY <1>2, <1>4, <1>5
  <2> QED BY <1>9, <1>11, <2>2, <2>3, <2>4 DEF Listed
<1> QED BY <1>2, <1>4, <1>5, <1>9, <1>11, <1>14 DEF a, b, g, v, q

-----------------------------------------------------------------------------
(* What the users of a pool need to know of it. *)

Lists(p) == \E f, u : Listed(p, f, u)

(* What the callers of a pool rely on: its lists are sound and each node   *)
(* is in exactly one of them.                                              *)
LEMMA PoolFacts ==
  ASSUME NEW p, Lists(p)
  PROVE  /\ p \in PoolType /\ PoolSound(p)
         /\ FreeNodes(p) \cap UsedNodes(p) = {}
         /\ FreeNodes(p) \cup UsedNodes(p) = PoolNodes
         /\ p.freecount = 0 => FreeNodes(p) = {}
<1>1. PICK f, u : Listed(p, f, u)
  BY DEF Lists
<1> QED BY <1>1, ListedNodes, ListedSound DEF Listed, FreeNodes

(* In a new pool every node is free. *)
LEMMA NewPoolFacts ==
  Lists(NewPool) /\ FreeNodes(NewPool) = PoolNodes /\ UsedNodes(NewPool) = {}
<1>1. Lists(NewPool)
  BY NewPoolListed DEF Lists
<1>2. UsedNodes(NewPool) = {}
  BY DEF UsedNodes, NewPool
<1> QED BY <1>1, <1>2, PoolFacts

(* zy_mempool_get_node moves one node, the head of the free list, to the   *)
(* used ones.                                                              *)
LEMMA GetFacts ==
  ASSUME NEW p, Lists(p), p.freecount >= 1
  PROVE  /\ Lists(GetNode(p)) /\ p.freelist \in FreeNodes(p)
         /\ FreeNodes(GetNode(p)) = FreeNodes(p) \ {p.freelist}
         /\ UsedNodes(GetNode(p)) = UsedNodes(p) \cup {p.freelist}
<1>1. PICK f, u : Listed(p, f, u)
  BY DEF Lists
<1>2. FreeNodes(p) = Members(f, p.freecount) /\ UsedNodes(p) = Members(u, p.usecount)
  BY <1>1, ListedNodes
<1> DEFINE q == GetNode(p)
           g == Without(f, p.freecount, 1)
           v == With(u, p.usecount, p.freelist)
<1>3. /\ p.freelist \in Members(f, p.freecount)
      /\ Listed(q, g, v)
      /\ q.freecount = p.freecount - 1 /\ q.usecount = p.usecount + 1
      /\ Members(g, p.freecount - 1) = Members(f, p.freecount) \ {p.freelist}
      /\ Members(v, p.usecount + 1) = Members(u, p.usecount) \cup {p.freelist}
  BY <1>1, GetListed
<1> HIDE DEF q, g, v
<1>4. FreeNodes(q) = Members(g, q.freecount) /\ UsedNodes(q) = Members(v, q.usecount)
  BY <1>3, ListedNodes
<1>5. Lists(q)
  BY <1>3 DEF Lists
<1> QED BY <1>2, <1>3, <1>4, <1>5 DEF q

(* zy_mempool_return_node moves the node from the used to the free ones,   *)
(* and the links between the other used nodes that do not lead to it stay. *)
LEMMA ReturnFacts ==
  ASSUME NEW p, Lists(p), NEW n \in UsedNodes(p)
  PROVE  /\ Lists(ReturnNode(p, n))
         /\ FreeNodes(ReturnNode(p, n)) = FreeNodes(p) \cup {n}
         /\ UsedNodes(ReturnNode(p, n)) = UsedNodes(p) \ {n}
         /\ \A x \in UsedNodes(p) :
              x # n /\ p.next[x] # n => ReturnNode(p, n).next[x] = p.next[x]
<1>1. PICK f, u : Listed(p, f, u)
  BY DEF Lists
<1>2. FreeNodes(p) = Members(f, p.freecount) /\ UsedNodes(p) = Members(u, p.usecount)
  BY <1>1, ListedNodes
<1>3. PICK j \in 1 .. p.usecount : n = u[j]
  BY <1>2 DEF Members
<1> DEFINE q == ReturnNode(p, n)
           g == With(f, p.freecount, n)
           v == Without(u, p.usecount, j)
<1>4. /\ Listed(q, g, v)
      /\ q.freecount = p.freecount + 1 /\ q.usecount = p.usecount - 1
      /\ Members(g, p.freecount + 1) = Members(f, p.freecount) \cup {n}
      /\ Members(v, p.usecount - 1) = Members(u, p.usecount) \ {n}
      /\ \A x \in Members(u, p.usecount) :
           x # n /\ p.next[x] # n => q.next[x] = p.next[x]
  BY <1>1, <1>3, ReturnListed
<1> HIDE DEF q, g, v
<1>5. FreeNodes(q) = Members(g, q.freecount) /\ UsedNodes(q) = Members(v, q.usecount)
  BY <1>4, ListedNodes
<1>6. Lists(q)
  BY <1>4 DEF Lists
<1> QED BY <1>2, <1>4, <1>5, <1>6 DEF q

(* The use list from its head on. *)
LEMMA UsedPath ==
  ASSUME NEW p, Lists(p), p.usecount > 0
  PROVE  \E w : /\ w \in [1 .. p.usecount -> PoolNodes]
                /\ \A i, j \in 1 .. p.usecount : w[i] = w[j] => i = j
                /\ \A i \in 1 .. p.usecount - 1 : p.next[w[i]] = w[i + 1]
                /\ w[1] = p.uselist
                /\ UsedNodes(p) = Members(w, p.usecount)
<1>1. PICK f, u : Listed(p, f, u)
  BY DEF Lists
<1>2. UsedNodes(p) = Members(u, p.usecount)
  BY <1>1, ListedNodes
<1>3. u[1] = p.uselist /\ Ring(p.next, p.last, p.usecount, u)
  BY <1>1 DEF Listed
<1> QED BY <1>2, <1>3 DEF Ring

-----------------------------------------------------------------------------
(* The channel server.                                                     *)

(* The sockets of the nodes in use are one to one with the open            *)
(* connections; a node that is not in use has none or one long closed.     *)
NodeInv ==
  /\ \A s \in Servers : \A n \in UsedNodes(pool[s]) :
       socket_fd[s][n] \in Conns /\ at[socket_fd[s][n]] = "open"
  /\ \A s, t \in Servers : \A n \in UsedNodes(pool[s]), m \in UsedNodes(pool[t]) :
       socket_fd[s][n] = socket_fd[t][m] => s = t /\ n = m
  /\ \A c \in Conns : at[c] = "open" =>
       \E s \in Servers : \E n \in UsedNodes(pool[s]) : socket_fd[s][n] = c
  /\ \A s \in Servers : \A n \in PoolNodes \ UsedNodes(pool[s]) :
       socket_fd[s][n] # NULL => at[socket_fd[s][n]] = "closed"

ListsInv == \A s \in Servers : Lists(pool[s])

WatchInv == \A c \in watched : at[c] = "open"

(* Each connection that waits does so in one place of one backlog. *)
BacklogInv ==
  \A s \in Servers : \A i \in 1 .. Len(backlog[s]) :
    /\ at[backlog[s][i]] = "backlog"
    /\ \A t \in Servers : \A j \in 1 .. Len(backlog[t]) :
         backlog[s][i] = backlog[t][j] => s = t /\ i = j

(* A peer has at most one event in a batch, and it is for a node in use,   *)
(* unless the broadcast has given the node back.                           *)
EventInv ==
  \A s \in Servers, n \in PoolNodes, h \in BOOLEAN : Event(s, n, h) \in batch =>
    /\ socket_fd[s][n] = NULL \/ n \in UsedNodes(pool[s])
    /\ \A g \in BOOLEAN : Event(s, n, g) \in batch => g = h

(* w: the k peers from node h on that are still to be written to, through  *)
(* the connections cs.                                                     *)
Remaining(w, k, p, fd, h, cs) ==
  /\ w \in [1 .. k -> UsedNodes(p)]
  /\ \A i, j \in 1 .. k : w[i] = w[j] => i = j
  /\ \A i \in 1 .. k - 1 : p.next[w[i]] = w[i + 1]
  /\ k > 0 => h = w[1]
  /\ cs = {fd[w[i]] : i \in 1 .. k}

CastInv == \E w : Remaining(w, left, pool["send"], socket_fd["send"], peer, unwritten)

IInv == /\ TypeOK /\ ListsInv /\ NodeInv /\ WatchInv /\ BacklogInv /\ EventInv
        /\ CastInv

(* What TypeOK says of one server and one node. *)
LEMMA TypeFacts ==
  ASSUME TypeOK
  PROVE  /\ \A s \in Servers : pool[s] \in PoolType /\ backlog[s] \in Seq(Conns)
         /\ \A s \in Servers, n \in PoolNodes : socket_fd[s][n] \in Conns \cup {NULL}
         /\ NULL \notin Conns /\ NULL \notin PoolNodes /\ Listener \notin PoolNodes
BY ZyMempoolAssumption, ChannelAssumption DEF TypeOK, PoolNodes, Conns, Listener

(* The nodes in use are nodes of the pool. *)
LEMMA UsedAreNodes ==
  ASSUME ListsInv
  PROVE  \A s \in Servers : UsedNodes(pool[s]) \subseteq PoolNodes
BY PoolFacts DEF ListsInv

-----------------------------------------------------------------------------
(* The initial states. *)

(* tcp_server_init leaves two pools of free nodes, no peers and nothing    *)
(* waiting.                                                                *)
LEMMA InitIInv == Init => IInv
<1> SUFFICES ASSUME Init PROVE IInv
  OBVIOUS
<1> USE DEF Init
<1>1. \A s \in Servers : pool[s] = NewPool
  OBVIOUS
<1>2. ListsInv
  BY <1>1, NewPoolFacts DEF ListsInv
<1>3. TypeOK
  <2>1. NewPool \in PoolType
    BY NewPoolFacts, PoolFacts
  <2>2. 0 \in 0 .. PoolSize
    BY ZyMempoolAssumption
  <2>3. backlog \in [Servers -> Seq(Conns)]
    OBVIOUS
  <2> QED BY <2>1, <2>2, <2>3 DEF TypeOK
<1>4. \A s \in Servers : UsedNodes(pool[s]) = {}
  BY <1>1, NewPoolFacts
<1>5. NodeInv
  BY <1>4 DEF NodeInv
<1>6. WatchInv /\ EventInv /\ BacklogInv
  BY DEF WatchInv, EventInv, BacklogInv
<1>7. CastInv
  <2> DEFINE w == [i \in 1 .. 0 |-> 0]
  <2>1. 1 .. 0 = {} /\ 1 .. 0 - 1 = {} /\ ~(0 > 0)
    OBVIOUS
  <2>2. w \in [1 .. 0 -> UsedNodes(pool["send"])]
    BY <2>1
  <2> HIDE DEF w
  <2>3. Remaining(w, 0, pool["send"], socket_fd["send"], peer, {})
    BY <2>1, <2>2 DEF Remaining
  <2> QED BY <2>3 DEF CastInv
<1> QED BY <1>2, <1>3, <1>5, <1>6, <1>7 DEF IInv

-----------------------------------------------------------------------------
(* The broadcast.                                                          *)

(* No two nodes in use have the same descriptor. *)
OneToOne(p, fd) == \A x, y \in UsedNodes(p) : fd[x] = fd[y] => x = y

(* All nodes in use but h stay in use, with their descriptors, and with    *)
(* their links except to h.                                                *)
OthersKept(p, fd, h, p2, fd2) ==
  \A x \in UsedNodes(p) : x # h =>
    /\ x \in UsedNodes(p2) /\ fd2[x] = fd[x]
    /\ p.next[x] # h => p2.next[x] = p.next[x]

(* Without its first peer the walk goes on from the next, whatever happens *)
(* to the links of the first.                                              *)
LEMMA WalkOn ==
  ASSUME NEW k \in Nat, k > 0, NEW p, NEW fd, NEW h, NEW cs, NEW w,
         Remaining(w, k, p, fd, h, cs),
         NEW p2, NEW fd2, OneToOne(p, fd), OthersKept(p, fd, h, p2, fd2)
  PROVE  \E v : Remaining(v, k - 1, p2, fd2, IF k = 1 THEN NULL ELSE p.next[h],
                          cs \ {fd[h]})
<1> USE DEF OneToOne, OthersKept
<1> DEFINE v == [i \in 1 .. k - 1 |-> w[i + 1]]
           d == IF k = 1 THEN NULL ELSE p.next[h]
           ds == cs \ {fd[h]}
<1>1. /\ w \in [1 .. k -> UsedNodes(p)] /\ h = w[1]
      /\ \A i, j \in 1 .. k : w[i] = w[j] => i = j
      /\ \A i \in 1 .. k - 1 : p.next[w[i]] = w[i + 1]
      /\ cs = {fd[w[i]] : i \in 1 .. k}
  BY DEF Remaining
<1>2. \A i \in 1 .. k - 1 : /\ i + 1 \in 1 .. k /\ i + 1 # 1 /\ i \in 1 .. k
                          /\ v[i] = w[i + 1] /\ w[i + 1] # h
                          /\ w[i + 1] \in UsedNodes(p)
  BY <1>1
<1>3. v \in [1 .. k - 1 -> UsedNodes(p2)]
  BY <1>2
<1> HIDE DEF v
<1>4. \A i, j \in 1 .. k - 1 : v[i] = v[j] => i = j
  BY <1>1, <1>2
<1>5. ASSUME NEW i \in 1 .. k - 1 - 1 PROVE p2.next[v[i]] = v[i + 1]
  <2>1. i \in 1 .. k - 1 /\ i + 1 \in 1 .. k - 1
    OBVIOUS
  <2>2. v[i] = w[i + 1] /\ v[i + 1] = w[i + 1 + 1] /\ p.next[w[i + 1]] = w[i + 1 + 1]
    BY <1>1, <1>2, <2>1
  <2>3. v[i] # h /\ v[i] \in UsedNodes(p) /\ p.next[v[i]] # h
    BY <1>2, <2>1, <2>2
  <2> QED BY <2>2, <2>3
<1>6. k - 1 > 0 => d = v[1]
  <2>1. k - 1 > 0 => 1 \in 1 .. k - 1 /\ k # 1 /\ 1 + 1 = 2
    OBVIOUS
  <2> QED BY <1>1, <1>2, <2>1
<1>7. ds = {fd2[v[i]] : i \in 1 .. k - 1}
  <2>1. 1 \in 1 .. k /\ \A i \in 1 .. k : i # 1 => i - 1 \in 1 .. k - 1 /\ i - 1 + 1 = i
    OBVIOUS
  <2>2. ASSUME NEW c \in ds PROVE c \in {fd2[v[i]] : i \in 1 .. k - 1}
    <3>1. PICK i \in 1 .. k : c = fd[w[i]]
      BY <1>1
    <3>2. i # 1 /\ fd2[w[i]] = fd[w[i]]
      BY <1>1, <2>1, <2>2, <3>1
    <3>3. i - 1 \in 1 .. k - 1 /\ v[i - 1] = w[i]
      BY <1>2, <2>1, <3>2
    <3> QED BY <3>1, <3>2, <3>3
  <2>3. ASSUME NEW i \in 1 .. k - 1 PROVE fd2[v[i]] \in ds
    <3>1. /\ i + 1 \in 1 .. k /\ v[i] = w[i + 1] /\ w[i + 1] # h
          /\ w[i + 1] \in UsedNodes(p) /\ h \in UsedNodes(p)
      BY <1>1, <1>2, <2>1
    <3>2. fd2[v[i]] = fd[w[i + 1]] /\ fd[w[i + 1]] # fd[h]
      BY <3>1
    <3> QED BY <1>1, <3>1, <3>2
  <2> QED BY <2>2, <2>3
<1>8. Remaining(v, k - 1, p2, fd2, d, ds)
  BY <1>3, <1>4, <1>5, <1>6, <1>7 DEF Remaining
<1> QED BY <1>8

(* A step that changes neither the pools nor the broadcast keeps what the  *)
(* broadcast relies on.                                                    *)
LEMMA CastKept ==
  ASSUME CastInv, UNCHANGED poolVars, UNCHANGED castVars
  PROVE  CastInv'
BY DEF CastInv, poolVars, castVars

(* Between broadcasts nothing is left to be written. *)
LEMMA CastIdle ==
  ASSUME CastInv, left = 0
  PROVE  unwritten = {}
<1>1. PICK w : Remaining(w, left, pool["send"], socket_fd["send"], peer, unwritten)
  BY DEF CastInv
<1> QED BY <1>1 DEF Remaining

(* A step that ends the broadcast, or leaves none in progress, has nothing *)
(* left to write.                                                          *)
LEMMA CastDone ==
  ASSUME left' = 0, unwritten' = {}
  PROVE  CastInv'
<1> DEFINE w == [i \in 1 .. 0 |-> 0]
<1>1. 1 .. 0 = {} /\ 1 .. 0 - 1 = {} /\ ~(0 > 0)
  OBVIOUS
<1>2. w \in [1 .. 0 -> UsedNodes(pool'["send"])]
  BY <1>1
<1> HIDE DEF w
<1>3. Remaining(w, 0, pool'["send"], socket_fd'["send"], peer', {})
  BY <1>1, <1>2 DEF Remaining
<1> QED BY <1>3 DEF CastInv

-----------------------------------------------------------------------------
(* The network. *)

(* A client connects: its connection goes to the end of one backlog. *)
LEMMA ConnectStep ==
  ASSUME IInv, NEW c \in Conns, NEW s \in Servers, Connect(c, s)
  PROVE  IInv'
<1> USE DEF poolVars, castVars
<1>1. /\ at[c] = "none" /\ at' = [at EXCEPT ![c] = "backlog"]
      /\ backlog' = [backlog EXCEPT ![s] = Append(@, c)]
      /\ UNCHANGED <<life, data, watched, ready, pool, socket_fd, batch, left, peer,
                     unwritten, wild, ended>>
      /\ knocked' = knocked \cup {s}
  BY DEF Connect
<1>2. at \in [Conns -> {"none", "backlog", "open", "closed"}]
  BY DEF IInv, TypeOK
<1>3. \A d \in Conns : at'[d] = IF d = c THEN "backlog" ELSE at[d]
  BY <1>1, <1>2
<1>4. /\ \A t \in Servers : backlog[t] \in Seq(Conns)
      /\ backlog'[s] = Append(backlog[s], c)
      /\ \A t \in Servers \ {s} : backlog'[t] = backlog[t]
  BY <1>1 DEF IInv, TypeOK
<1>5. TypeOK'
  <2>1. at' \in [Conns -> {"none", "backlog", "open", "closed"}]
    BY <1>1, <1>2
  <2>2. Append(backlog[s], c) \in Seq(Conns)
    BY <1>4
  <2>3. backlog' \in [Servers -> Seq(Conns)]
    BY <1>1, <2>2 DEF IInv, TypeOK
  <2> QED BY <1>1, <2>1, <2>3 DEF IInv, TypeOK
<1>6. ListsInv' /\ EventInv'
  BY <1>1 DEF IInv, ListsInv, EventInv
<1>7. NodeInv'
  <2>1. \A t \in Servers, n \in PoolNodes : socket_fd[t][n] \in Conns \cup {NULL}
    BY TypeFacts DEF IInv
  <2> QED BY <1>1, <1>3, <2>1 DEF IInv, NodeInv
<1>8. WatchInv'
  BY <1>1, <1>3 DEF IInv, WatchInv, TypeOK
<1>9. BacklogInv'
  <2>1. /\ Len(backlog'[s]) = Len(backlog[s]) + 1 /\ Len(backlog[s]) \in Nat
        /\ \A i \in 1 .. Len(backlog[s]) : backlog'[s][i] = backlog[s][i]
        /\ backlog'[s][Len(backlog[s]) + 1] = c
    BY <1>4, AppendProperties
  <2>2. \A t \in Servers : \A i \in 1 .. Len(backlog[t]) :
          backlog[t][i] \in Conns /\ backlog[t][i] # c
    BY <1>1, <1>4 DEF IInv, BacklogInv
  <2>3. ASSUME NEW t \in Servers, NEW i \in 1 .. Len(backlog'[t])
        PROVE  \/ i \in 1 .. Len(backlog[t]) /\ backlog'[t][i] = backlog[t][i]
               \/ t = s /\ i = Len(backlog[s]) + 1 /\ backlog'[t][i] = c
    BY <1>4, <2>1
  <2>4. ASSUME NEW t \in Servers, NEW i \in 1 .. Len(backlog'[t])
        PROVE  at'[backlog'[t][i]] = "backlog"
    BY <1>3, <2>2, <2>3 DEF IInv, BacklogInv
  <2>5. ASSUME NEW t \in Servers, NEW i \in 1 .. Len(backlog'[t]),
               NEW r \in Servers, NEW j \in 1 .. Len(backlog'[r]),
               backlog'[t][i] = backlog'[r][j]
        PROVE  t = r /\ i = j
    BY <2>2, <2>3, <2>5 DEF IInv, BacklogInv
  <2> QED BY <2>4, <2>5 DEF BacklogInv
<1>10. CastInv'
  BY <1>1, CastKept DEF IInv
<1> QED BY <1>5, <1>6, <1>7, <1>8, <1>9, <1>10 DEF IInv

(* Data and ends change nothing the server keeps. *)
LEMMA TrafficStep ==
  ASSUME IInv, NEW c \in Conns,
         DataComes(c) \/ \E how \in {"fin", "reset"} : ConnectionEnds(c, how)
  PROVE  IInv'
<1> USE DEF poolVars, castVars
<1>1. UNCHANGED <<at, watched, backlog, knocked, pool, socket_fd, batch, left, peer,
                  unwritten, wild, ended>>
  BY DEF DataComes, ConnectionEnds
<1>2. /\ data' \in [Conns -> BOOLEAN] /\ life' \in [Conns -> {"up", "fin", "reset"}]
      /\ ready' \subseteq watched
  BY DEF DataComes, ConnectionEnds, Edge, IInv, TypeOK
<1>3. TypeOK'
  BY <1>1, <1>2 DEF IInv, TypeOK
<1>4. ListsInv' /\ EventInv' /\ NodeInv' /\ WatchInv' /\ BacklogInv'
  BY <1>1 DEF IInv, ListsInv, EventInv, NodeInv, WatchInv, BacklogInv
<1>5. CastInv'
  BY <1>1, CastKept DEF IInv
<1> QED BY <1>3, <1>4, <1>5 DEF IInv

-----------------------------------------------------------------------------
(* The thread. *)

(* A node whose connection is open, or not yet accepted, is in use. *)
LEMMA OpenInUse ==
  ASSUME IInv, NEW s \in Servers, NEW n \in PoolNodes, socket_fd[s][n] \in Conns,
         at[socket_fd[s][n]] # "closed"
  PROVE  n \in UsedNodes(pool[s])
BY TypeFacts DEF IInv, NodeInv

(* A batch has at most one event for a node, and only for one that is      *)
(* registered, so that its connection is open.                             *)
LEMMA EpollWaitStep ==
  ASSUME IInv, EpollWait
  PROVE  IInv'
<1> USE DEF poolVars, castVars
<1>1. UNCHANGED <<at, life, data, watched, backlog, pool, socket_fd, left, peer,
                  unwritten, wild, ended>> /\ ready' = {} /\ knocked' = {}
  BY DEF EpollWait
<1> DEFINE peers == {x \in Servers \X PoolNodes :
                       \E c \in ready : socket_fd[x[1]][x[2]] = c /\ Readable(c)}
<1>2. batch' = {Event(s, Listener, FALSE) : s \in {t \in knocked : backlog[t] # <<>>}}
                 \cup {Event(x[1], x[2], life[socket_fd[x[1]][x[2]]] = "reset") : x \in peers}
  BY DEF EpollWait, Reported
<1>3. ASSUME NEW s \in Servers, NEW n \in PoolNodes, NEW h \in BOOLEAN,
             Event(s, n, h) \in batch'
      PROVE  /\ socket_fd[s][n] \in ready
             /\ h = (life[socket_fd[s][n]] = "reset")
  <2>1. Event(s, n, h) \notin {Event(t, Listener, FALSE) : t \in {t \in knocked : backlog[t] # <<>>}}
    BY TypeFacts DEF Event, IInv
  <2>2. PICK x \in peers : Event(s, n, h) = Event(x[1], x[2], life[socket_fd[x[1]][x[2]]] = "reset")
    BY <1>2, <1>3, <2>1
  <2>3. x[1] = s /\ x[2] = n /\ h = (life[socket_fd[s][n]] = "reset")
    BY <2>2 DEF Event
  <2> QED BY <2>2, <2>3
<1>4. batch' \subseteq Servers \X (PoolNodes \cup {Listener}) \X BOOLEAN
  <2> SUFFICES ASSUME NEW e \in batch'
               PROVE  e \in Servers \X (PoolNodes \cup {Listener}) \X BOOLEAN
    OBVIOUS
  <2>1. CASE e \in {Event(s, Listener, FALSE) : s \in {t \in knocked : backlog[t] # <<>>}}
    <3>1. PICK s \in knocked : e = <<s, Listener, FALSE>>
      BY <2>1 DEF Event
    <3>2. s \in Servers
      BY DEF IInv, TypeOK
    <3> QED BY <3>1, <3>2
  <2>2. CASE e \in {Event(x[1], x[2], life[socket_fd[x[1]][x[2]]] = "reset") : x \in peers}
    <3>1. PICK x \in peers : e = <<x[1], x[2], life[socket_fd[x[1]][x[2]]] = "reset">>
      BY <2>2 DEF Event
    <3>2. x[1] \in Servers /\ x[2] \in PoolNodes
      OBVIOUS
    <3> QED BY <3>1, <3>2
  <2> QED BY <1>2, <2>1, <2>2
<1> HIDE DEF peers
<1>5. TypeOK'
  BY <1>1, <1>4 DEF IInv, TypeOK
<1>6. ListsInv' /\ NodeInv' /\ WatchInv' /\ BacklogInv'
  BY <1>1 DEF IInv, ListsInv, NodeInv, WatchInv, BacklogInv
<1>7. EventInv'
  <2>1. ASSUME NEW s \in Servers, NEW n \in PoolNodes, NEW h \in BOOLEAN,
               Event(s, n, h) \in batch'
        PROVE  n \in UsedNodes(pool[s])
    <3>1. socket_fd[s][n] \in watched
      BY <1>3, <2>1 DEF IInv, TypeOK
    <3> QED BY <3>1, OpenInUse DEF IInv, TypeOK, WatchInv
  <2> QED BY <1>1, <1>3, <2>1 DEF EventInv
<1>8. CastInv'
  BY <1>1, CastKept DEF IInv
<1> QED BY <1>5, <1>6, <1>7, <1>8 DEF IInv

(* Steps that at most take an event from the batch or end the server. *)
LEMMA IgnoredStep ==
  ASSUME IInv, UNCHANGED <<netVars, poolVars, castVars>>,
         wild' \in [Servers -> BOOLEAN], ended' \in BOOLEAN, batch' \subseteq batch
  PROVE  IInv'
<1> USE DEF netVars, poolVars, castVars
<1>1. TypeOK'
  BY DEF IInv, TypeOK
<1>2. ListsInv' /\ NodeInv' /\ WatchInv' /\ BacklogInv'
  BY DEF IInv, ListsInv, NodeInv, WatchInv, BacklogInv
<1>3. EventInv'
  BY DEF IInv, EventInv
<1>4. CastInv'
  BY CastKept DEF IInv
<1> QED BY <1>1, <1>2, <1>3, <1>4 DEF IInv

(* zy_tcpserver_accept: the first connection of the backlog and the node   *)
(* at the head of the free list become a peer.                             *)
LEMMA AcceptStep ==
  ASSUME IInv, NEW s \in Servers, Accept(s)
  PROVE  IInv'
<1> USE DEF castVars
<1> DEFINE c == Head(backlog[s])
           n == pool[s].freelist
<1>1. /\ left = 0 /\ batch' \subseteq batch /\ backlog[s] # <<>> /\ pool[s].freecount >= 1
      /\ backlog' = [backlog EXCEPT ![s] = Tail(@)]
      /\ at' = [at EXCEPT ![c] = "open"]
      /\ pool' = [pool EXCEPT ![s] = GetNode(@)]
      /\ socket_fd' = [socket_fd EXCEPT ![s][n] = c]
      /\ watched' \in {watched, watched \cup {c}}
      /\ ready' \in {ready, ready \cup {c}}
      /\ ready' # ready => watched' = watched \cup {c}
      /\ UNCHANGED <<life, data, knocked, left, peer, unwritten, wild, ended>>
  BY DEF Accept, Handling
<1>2. /\ at \in [Conns -> {"none", "backlog", "open", "closed"}]
      /\ backlog \in [Servers -> Seq(Conns)]
      /\ pool \in [Servers -> PoolType]
      /\ socket_fd \in [Servers -> [PoolNodes -> Conns \cup {NULL}]]
      /\ watched \subseteq Conns /\ ready \subseteq watched
      /\ NULL \notin Conns
  BY TypeFacts DEF IInv, TypeOK
<1>3. /\ Lists(pool[s]) /\ Lists(GetNode(pool[s]))
      /\ n \in FreeNodes(pool[s]) /\ n \in PoolNodes /\ n \notin UsedNodes(pool[s])
      /\ UsedNodes(GetNode(pool[s])) = UsedNodes(pool[s]) \cup {n}
  <2>1. Lists(pool[s])
    BY DEF IInv, ListsInv
  <2> QED BY <1>1, <2>1, GetFacts, PoolFacts
<1>4. /\ c \in Conns /\ at[c] = "backlog" /\ c = backlog[s][1]
      /\ Len(backlog[s]) \in Nat /\ 1 \in 1 .. Len(backlog[s])
      /\ Tail(backlog[s]) \in Seq(Conns) /\ Len(Tail(backlog[s])) = Len(backlog[s]) - 1
      /\ \A i \in 1 .. Len(Tail(backlog[s])) : Tail(backlog[s])[i] = backlog[s][i + 1]
  <2>1. /\ backlog[s] \in Seq(Conns) /\ backlog[s] # <<>>
    BY <1>1, <1>2
  <2>2. /\ c \in Conns /\ c = backlog[s][1]
        /\ Len(backlog[s]) \in Nat /\ 1 \in 1 .. Len(backlog[s])
    BY <2>1
  <2>3. at[c] = "backlog"
    BY <2>2 DEF IInv, BacklogInv
  <2> QED BY <2>1, <2>2, <2>3, HeadTailProperties
<1>5. /\ \A t \in Servers : Lists(pool'[t])
      /\ \A t \in Servers : UsedNodes(pool'[t]) =
           IF t = s THEN UsedNodes(pool[s]) \cup {n} ELSE UsedNodes(pool[t])
  BY <1>1, <1>2, <1>3 DEF IInv, ListsInv
<1>6. /\ \A t \in Servers, m \in PoolNodes : socket_fd'[t][m] =
           IF t = s /\ m = n THEN c ELSE socket_fd[t][m]
      /\ socket_fd' \in [Servers -> [PoolNodes -> Conns \cup {NULL}]]
  <2> HIDE DEF c, n
  <2> QED BY <1>1, <1>2, <1>3, <1>4
<1>7. \A d \in Conns : at'[d] = IF d = c THEN "open" ELSE at[d]
  BY <1>1, <1>2
<1>8. \A t \in Servers : UsedNodes(pool[t]) \subseteq PoolNodes
  BY UsedAreNodes DEF IInv
<1> HIDE DEF c, n
<1>9. TypeOK'
  <2>1. pool' \in [Servers -> PoolType]
    <3>1. GetNode(pool[s]) \in PoolType
      BY <1>3, PoolFacts
    <3> QED BY <1>1, <1>2, <3>1
  <2>2. at' \in [Conns -> {"none", "backlog", "open", "closed"}]
    BY <1>1, <1>2
  <2>3. backlog' \in [Servers -> Seq(Conns)]
    BY <1>1, <1>2, <1>4
  <2>4. watched' \subseteq Conns /\ ready' \subseteq watched'
    <3>1. watched \subseteq watched' /\ watched' \subseteq Conns
      BY <1>1, <1>2, <1>4
    <3>2. ready' = ready \/ (ready' = ready \cup {c} /\ c \in watched')
      BY <1>1
    <3> QED BY <1>2, <3>1, <3>2
  <2> QED BY <1>1, <1>6, <2>1, <2>2, <2>3, <2>4 DEF IInv, TypeOK
<1>10. ListsInv'
  BY <1>5 DEF ListsInv
<1>11. NodeInv'
  <2>1. ASSUME NEW t \in Servers, NEW m \in UsedNodes(pool'[t])
        PROVE  \/ t = s /\ m = n /\ socket_fd'[t][m] = c
               \/ /\ m \in UsedNodes(pool[t]) /\ socket_fd'[t][m] = socket_fd[t][m]
                  /\ socket_fd[t][m] \in Conns /\ at[socket_fd[t][m]] = "open"
                  /\ socket_fd[t][m] # c
    <3>1. (t = s /\ m = n) \/ (m \in UsedNodes(pool[t]) /\ ~(t = s /\ m = n))
      BY <1>3, <1>5
    <3> QED BY <1>3, <1>4, <1>6, <1>8, <3>1 DEF IInv, NodeInv
  <2>2. \A t \in Servers : \A m \in UsedNodes(pool'[t]) :
          socket_fd'[t][m] \in Conns /\ at'[socket_fd'[t][m]] = "open"
    BY <1>4, <1>7, <2>1
  <2>3. \A t, r \in Servers : \A m \in UsedNodes(pool'[t]), l \in UsedNodes(pool'[r]) :
          socket_fd'[t][m] = socket_fd'[r][l] => t = r /\ m = l
    BY <2>1 DEF IInv, NodeInv
  <2>4. ASSUME NEW d \in Conns, at'[d] = "open"
        PROVE  \E t \in Servers : \E m \in UsedNodes(pool'[t]) : socket_fd'[t][m] = d
    <3>1. CASE d = c
      BY <1>3, <1>5, <1>6, <3>1
    <3>2. CASE d # c
      <4>1. PICK t \in Servers : \E m \in UsedNodes(pool[t]) : socket_fd[t][m] = d
        BY <1>7, <2>4, <3>2 DEF IInv, NodeInv
      <4>2. PICK m \in UsedNodes(pool[t]) : socket_fd[t][m] = d
        BY <4>1
      <4>3. m \in PoolNodes /\ m \in UsedNodes(pool'[t]) /\ ~(t = s /\ m = n)
        BY <1>3, <1>5, <1>8
      <4>4. socket_fd'[t][m] = d
        BY <1>6, <4>2, <4>3
      <4> QED BY <4>3, <4>4
    <3> QED BY <3>1, <3>2
  <2>5. ASSUME NEW t \in Servers, NEW m \in PoolNodes \ UsedNodes(pool'[t]),
               socket_fd'[t][m] # NULL
        PROVE  at'[socket_fd'[t][m]] = "closed"
    <3>1. m \notin UsedNodes(pool[t]) /\ ~(t = s /\ m = n)
      BY <1>5, <2>5
    <3>2. socket_fd'[t][m] = socket_fd[t][m]
      BY <1>6, <3>1
    <3>3. at[socket_fd[t][m]] = "closed" /\ socket_fd[t][m] \in Conns
      BY <1>2, <2>5, <3>1, <3>2 DEF IInv, NodeInv
    <3> QED BY <1>4, <1>7, <3>2, <3>3
  <2> QED BY <2>2, <2>3, <2>4, <2>5 DEF NodeInv
<1>12. WatchInv'
  <2>1. ASSUME NEW d \in watched' PROVE at'[d] = "open"
    <3>1. d = c \/ (d \in watched /\ d \in Conns /\ at[d] = "open")
      BY <1>1, <1>2 DEF IInv, WatchInv
    <3> QED BY <1>4, <1>7, <3>1
  <2> QED BY <2>1 DEF WatchInv
<1>13. BacklogInv'
  <2>1. ASSUME NEW t \in Servers, NEW i \in 1 .. Len(backlog'[t])
        PROVE  /\ at'[backlog'[t][i]] = "backlog"
               /\ IF t = s THEN /\ i + 1 \in 1 .. Len(backlog[t])
                                /\ backlog'[t][i] = backlog[t][i + 1]
                           ELSE /\ i \in 1 .. Len(backlog[t])
                                /\ backlog'[t][i] = backlog[t][i]
    <3>1. /\ backlog'[s] = Tail(backlog[s])
          /\ \A r \in Servers : r # s => backlog'[r] = backlog[r]
      BY <1>1, <1>2
    <3>2. CASE t = s
      <4>1. i \in 1 .. Len(Tail(backlog[s]))
        BY <3>1, <3>2
      <4>2. i + 1 \in 1 .. Len(backlog[s]) /\ backlog'[s][i] = backlog[s][i + 1] /\ i + 1 # 1
        BY <1>4, <3>1, <4>1
      <4>3. /\ at[backlog[s][i + 1]] = "backlog"
            /\ backlog[s][i + 1] = backlog[s][1] => i + 1 = 1
        BY <1>4, <4>2 DEF IInv, BacklogInv
      <4>4. backlog[s][i + 1] \in Conns
        BY <1>2, <4>2
      <4> QED BY <1>4, <1>7, <3>2, <4>2, <4>3, <4>4
    <3>3. CASE t # s
      <4>1. i \in 1 .. Len(backlog[t]) /\ backlog'[t][i] = backlog[t][i]
        BY <3>1, <3>3
      <4>2. at[backlog[t][i]] = "backlog" /\ backlog[t][i] # backlog[s][1]
        BY <1>4, <3>3, <4>1 DEF IInv, BacklogInv
      <4>3. backlog[t][i] \in Conns
        BY <1>2, <4>1
      <4> QED BY <1>4, <1>7, <3>3, <4>1, <4>2, <4>3
    <3> QED BY <3>2, <3>3
  <2>2. ASSUME NEW t \in Servers, NEW i \in 1 .. Len(backlog'[t]),
               NEW r \in Servers, NEW j \in 1 .. Len(backlog'[r]),
               backlog'[t][i] = backlog'[r][j]
        PROVE  t = r /\ i = j
    <3>1. PICK a \in 1 .. Len(backlog[t]) :
            a = (IF t = s THEN i + 1 ELSE i) /\ backlog'[t][i] = backlog[t][a]
      BY <2>1
    <3>2. PICK b \in 1 .. Len(backlog[r]) :
            b = (IF r = s THEN j + 1 ELSE j) /\ backlog'[r][j] = backlog[r][b]
      BY <2>1
    <3>3. backlog[t][a] = backlog[r][b]
      BY <2>2, <3>1, <3>2
    <3>4. t = r /\ a = b
      BY <3>3 DEF IInv, BacklogInv
    <3> QED BY <3>1, <3>2, <3>4
  <2> QED BY <2>1, <2>2 DEF BacklogInv
<1>14. EventInv'
  BY <1>1, <1>5, <1>6 DEF IInv, EventInv
<1>15. CastInv'
  BY <1>1, CastIdle, CastDone DEF IInv
<1> QED BY <1>9, <1>10, <1>11, <1>12, <1>13, <1>14, <1>15 DEF IInv

(* zy_tcpserver_msg_handle with data: on the receiving side the broadcast  *)
(* starts at the head of the use list of the sending side, with all of its *)
(* peers to go.                                                            *)
LEMMA MsgDataStep ==
  ASSUME IInv, NEW s \in Servers, NEW n \in PoolNodes, NEW h \in BOOLEAN, MsgData(s, n, h)
  PROVE  IInv'
<1> USE DEF poolVars
<1> DEFINE c == socket_fd[s][n]
           send == pool["send"]
           cast == s = "rcv" /\ data[c] /\ send.usecount > 0
<1>1. /\ batch' \subseteq batch /\ c # NULL
      /\ data' = [data EXCEPT ![c] = FALSE]
      /\ left' = (IF cast THEN send.usecount ELSE 0)
      /\ peer' = (IF cast THEN send.uselist ELSE NULL)
      /\ unwritten' = (IF cast THEN {socket_fd["send"][m] : m \in UsedNodes(send)} ELSE {})
      /\ UNCHANGED <<at, life, watched, backlog, ready, knocked, pool, socket_fd, wild, ended>>
  BY DEF MsgData, Handling
<1>2. /\ Lists(send) /\ send \in PoolType
      /\ \A m \in UsedNodes(send) : socket_fd["send"][m] \in Conns
  <2>1. "send" \in Servers
    BY DEF Servers
  <2> QED BY <2>1, PoolFacts DEF IInv, ListsInv, NodeInv
<1>3. /\ send.usecount \in 0 .. PoolSize /\ send.uselist \in PoolNodes \cup {NULL}
      /\ 0 \in 0 .. PoolSize
  BY <1>2, ZyMempoolAssumption DEF PoolType
<1> HIDE DEF c, send, cast
<1>4. TypeOK'
  <2>1. unwritten' \subseteq Conns
    BY <1>1, <1>2
  <2>2. left' \in 0 .. PoolSize /\ peer' \in PoolNodes \cup {NULL}
    BY <1>1, <1>3
  <2>3. data' \in [Conns -> BOOLEAN] /\ batch' \subseteq batch
    BY <1>1 DEF IInv, TypeOK
  <2> QED BY <1>1, <2>1, <2>2, <2>3 DEF IInv, TypeOK
<1>5. ListsInv' /\ NodeInv' /\ WatchInv' /\ BacklogInv'
  BY <1>1 DEF IInv, ListsInv, NodeInv, WatchInv, BacklogInv
<1>6. EventInv'
  BY <1>1 DEF IInv, EventInv
<1>7. CastInv'
  <2>1. CASE ~cast
    BY <1>1, <2>1, CastDone
  <2>2. CASE cast
    <3>1. send.usecount > 0
      BY <2>2 DEF cast
    <3>2. PICK w : /\ w \in [1 .. send.usecount -> PoolNodes]
                   /\ \A i, j \in 1 .. send.usecount : w[i] = w[j] => i = j
                   /\ \A i \in 1 .. send.usecount - 1 : send.next[w[i]] = w[i + 1]
                   /\ w[1] = send.uselist
                   /\ UsedNodes(send) = Members(w, send.usecount)
      BY <1>2, <3>1, UsedPath
    <3>3. w \in [1 .. send.usecount -> UsedNodes(send)]
      BY <3>2 DEF Members
    <3>4. unwritten' = {socket_fd["send"][w[i]] : i \in 1 .. send.usecount}
      <4>1. unwritten' = {socket_fd["send"][m] : m \in UsedNodes(send)}
        BY <1>1, <2>2
      <4> QED BY <3>2, <4>1 DEF Members
    <3>5. Remaining(w, left', send, socket_fd["send"], peer', unwritten')
      <4>1. left' = send.usecount /\ peer' = send.uselist
        BY <1>1, <2>2
      <4> QED BY <3>2, <3>3, <3>4, <4>1 DEF Remaining
    <3> QED BY <1>1, <3>5 DEF CastInv, send
  <2> QED BY <2>1, <2>2
<1> QED BY <1>4, <1>5, <1>6, <1>7 DEF IInv

(* A node in use is given back and its connection closed, with or without  *)
(* forgetting the descriptor: everything but the broadcast.                *)
GiveBack(s, n) ==
  /\ Close(socket_fd[s][n])
  /\ pool' = [pool EXCEPT ![s] = ReturnNode(@, n)]
  /\ socket_fd' \in {socket_fd, [socket_fd EXCEPT ![s][n] = NULL]}
  /\ UNCHANGED <<life, backlog, knocked, wild, ended>>

(* The close of a connection and the return of its node keep all but the   *)
(* invariant of the broadcast, if its descriptor is forgotten or the rest  *)
(* of the batch has no event for that node.                                *)
LEMMA GiveBackKeeps ==
  ASSUME IInv, NEW s \in Servers, NEW n \in UsedNodes(pool[s]), GiveBack(s, n),
         batch' \subseteq batch,
         socket_fd'[s][n] = NULL \/ \A h \in BOOLEAN : Event(s, n, h) \notin batch',
         left' \in 0 .. PoolSize, peer' \in PoolNodes \cup {NULL}, unwritten' \subseteq Conns
  PROVE  TypeOK' /\ ListsInv' /\ NodeInv' /\ WatchInv' /\ BacklogInv' /\ EventInv'
<1> DEFINE c == socket_fd[s][n]
<1>1. /\ at' = [at EXCEPT ![c] = "closed"]
      /\ watched' = watched \ {c} /\ ready' = ready \ {c}
      /\ data' = [data EXCEPT ![c] = FALSE]
      /\ pool' = [pool EXCEPT ![s] = ReturnNode(@, n)]
      /\ socket_fd' \in {socket_fd, [socket_fd EXCEPT ![s][n] = NULL]}
      /\ UNCHANGED <<life, backlog, knocked, wild, ended>>
  BY DEF GiveBack, Close
<1>2. /\ at \in [Conns -> {"none", "backlog", "open", "closed"}]
      /\ data \in [Conns -> BOOLEAN]
      /\ backlog \in [Servers -> Seq(Conns)]
      /\ pool \in [Servers -> PoolType]
      /\ socket_fd \in [Servers -> [PoolNodes -> Conns \cup {NULL}]]
      /\ watched \subseteq Conns /\ ready \subseteq watched
      /\ NULL \notin Conns
  BY TypeFacts DEF IInv, TypeOK
<1>3. /\ Lists(pool[s]) /\ Lists(ReturnNode(pool[s], n)) /\ ReturnNode(pool[s], n) \in PoolType
      /\ UsedNodes(ReturnNode(pool[s], n)) = UsedNodes(pool[s]) \ {n}
  <2>1. Lists(pool[s])
    BY DEF IInv, ListsInv
  <2> QED BY <2>1, ReturnFacts, PoolFacts
<1>4. /\ c \in Conns /\ at[c] = "open" /\ n \in PoolNodes
      /\ \A t \in Servers : \A m \in UsedNodes(pool[t]) :
           socket_fd[t][m] = c => t = s /\ m = n
      /\ \A t \in Servers : UsedNodes(pool[t]) \subseteq PoolNodes
  BY UsedAreNodes DEF IInv, NodeInv
<1>5. /\ \A t \in Servers : Lists(pool'[t])
      /\ \A t \in Servers : UsedNodes(pool'[t]) =
           IF t = s THEN UsedNodes(pool[s]) \ {n} ELSE UsedNodes(pool[t])
  BY <1>1, <1>2, <1>3 DEF IInv, ListsInv
<1>6. /\ \A t \in Servers, m \in PoolNodes :
           \/ socket_fd'[t][m] = socket_fd[t][m]
           \/ t = s /\ m = n /\ socket_fd'[t][m] = NULL
      /\ socket_fd' \in [Servers -> [PoolNodes -> Conns \cup {NULL}]]
  <2>1. CASE socket_fd' = socket_fd
    BY <1>2, <2>1
  <2>2. CASE socket_fd' = [socket_fd EXCEPT ![s][n] = NULL]
    BY <1>2, <1>4, <2>2
  <2> QED BY <1>1, <2>1, <2>2
<1>7. \A d \in Conns : at'[d] = IF d = c THEN "closed" ELSE at[d]
  BY <1>1, <1>2
<1> HIDE DEF c
<1>8. TypeOK'
  <2>1. pool' \in [Servers -> PoolType]
    BY <1>1, <1>2, <1>3
  <2>2. /\ at' \in [Conns -> {"none", "backlog", "open", "closed"}]
        /\ data' \in [Conns -> BOOLEAN]
        /\ watched' \subseteq Conns /\ ready' \subseteq watched'
    BY <1>1, <1>2
  <2> QED BY <1>1, <1>6, <2>1, <2>2 DEF IInv, TypeOK
<1>9. ListsInv'
  BY <1>5 DEF ListsInv
<1>10. NodeInv'
  <2>1. ASSUME NEW t \in Servers, NEW m \in UsedNodes(pool'[t])
        PROVE  /\ m \in UsedNodes(pool[t]) /\ socket_fd'[t][m] = socket_fd[t][m]
               /\ socket_fd[t][m] \in Conns /\ at[socket_fd[t][m]] = "open"
               /\ socket_fd[t][m] # c
    <3>1. m \in UsedNodes(pool[t]) /\ ~(t = s /\ m = n) /\ m \in PoolNodes
      BY <1>4, <1>5
    <3> QED BY <1>4, <1>6, <3>1 DEF IInv, NodeInv
  <2>2. \A t \in Servers : \A m \in UsedNodes(pool'[t]) :
          socket_fd'[t][m] \in Conns /\ at'[socket_fd'[t][m]] = "open"
    BY <1>7, <2>1
  <2>3. \A t, r \in Servers : \A m \in UsedNodes(pool'[t]), l \in UsedNodes(pool'[r]) :
          socket_fd'[t][m] = socket_fd'[r][l] => t = r /\ m = l
    BY <2>1 DEF IInv, NodeInv
  <2>4. ASSUME NEW d \in Conns, at'[d] = "open"
        PROVE  \E t \in Servers : \E m \in UsedNodes(pool'[t]) : socket_fd'[t][m] = d
    <3>1. d # c /\ at[d] = "open"
      BY <1>7, <2>4
    <3>2. PICK t \in Servers : \E m \in UsedNodes(pool[t]) : socket_fd[t][m] = d
      BY <3>1 DEF IInv, NodeInv
    <3>3. PICK m \in UsedNodes(pool[t]) : socket_fd[t][m] = d
      BY <3>2
    <3>4. ~(t = s /\ m = n) /\ m \in PoolNodes
      BY <1>4, <3>1, <3>3 DEF c
    <3>5. m \in UsedNodes(pool'[t]) /\ socket_fd'[t][m] = d
      BY <1>5, <1>6, <3>3, <3>4
    <3> QED BY <3>5
  <2>5. ASSUME NEW t \in Servers, NEW m \in PoolNodes \ UsedNodes(pool'[t]),
               socket_fd'[t][m] # NULL
        PROVE  at'[socket_fd'[t][m]] = "closed"
    <3>1. socket_fd'[t][m] = socket_fd[t][m] /\ socket_fd[t][m] \in Conns
      BY <1>2, <1>6, <2>5
    <3>2. CASE t = s /\ m = n
      BY <1>7, <3>1, <3>2 DEF c
    <3>3. CASE ~(t = s /\ m = n)
      <4>1. m \notin UsedNodes(pool[t])
        BY <1>5, <2>5, <3>3
      <4>2. at[socket_fd[t][m]] = "closed"
        BY <2>5, <3>1, <4>1 DEF IInv, NodeInv
      <4> QED BY <1>7, <3>1, <4>2
    <3> QED BY <3>2, <3>3
  <2> QED BY <2>2, <2>3, <2>4, <2>5 DEF NodeInv
<1>11. WatchInv'
  BY <1>1, <1>2, <1>7 DEF IInv, WatchInv
<1>12. BacklogInv'
  <2>1. ASSUME NEW t \in Servers, NEW i \in 1 .. Len(backlog[t])
        PROVE  at'[backlog[t][i]] = "backlog"
    <3>1. backlog[t][i] \in Conns /\ at[backlog[t][i]] = "backlog"
      BY <1>2 DEF IInv, BacklogInv
    <3> QED BY <1>4, <1>7, <3>1
  <2> QED BY <1>1, <2>1 DEF IInv, BacklogInv
<1>13. EventInv'
  <2>1. ASSUME NEW t \in Servers, NEW m \in PoolNodes, NEW h \in BOOLEAN,
               Event(t, m, h) \in batch'
        PROVE  /\ socket_fd'[t][m] = NULL \/ m \in UsedNodes(pool'[t])
               /\ \A g \in BOOLEAN : Event(t, m, g) \in batch' => g = h
    <3>1. /\ socket_fd[t][m] = NULL \/ m \in UsedNodes(pool[t])
          /\ \A g \in BOOLEAN : Event(t, m, g) \in batch' => g = h
      BY <2>1 DEF IInv, EventInv
    <3>2. CASE t = s /\ m = n
      BY <2>1, <3>1, <3>2
    <3>3. CASE ~(t = s /\ m = n)
      BY <1>5, <1>6, <3>1, <3>3
    <3> QED BY <3>1, <3>2, <3>3
  <2> QED BY <2>1 DEF EventInv
<1> QED BY <1>8, <1>9, <1>10, <1>11, <1>12, <1>13

(* The node of an event that is still about a connection is in use, and    *)
(* this was its last event.                                                *)
LEMMA LastEvent ==
  ASSUME IInv, NEW s \in Servers, NEW n \in PoolNodes, NEW h \in BOOLEAN,
         Event(s, n, h) \in batch, batch' = batch \ {Event(s, n, h)},
         socket_fd[s][n] # NULL
  PROVE  n \in UsedNodes(pool[s]) /\ \A g \in BOOLEAN : Event(s, n, g) \notin batch'
BY DEF IInv, EventInv

(* zy_tcpserver_msg_handle at the end of the stream closes the connection  *)
(* and returns the node of this event.                                     *)
LEMMA MsgEndStep ==
  ASSUME IInv, NEW s \in Servers, NEW n \in PoolNodes, NEW h \in BOOLEAN, MsgEnd(s, n, h)
  PROVE  IInv'
<1> USE DEF castVars
<1> DEFINE c == socket_fd[s][n]
<1>1. /\ left = 0 /\ Event(s, n, h) \in batch /\ batch' = batch \ {Event(s, n, h)}
      /\ c # NULL
      /\ UNCHANGED <<life, backlog, knocked, socket_fd, left, peer, unwritten, wild, ended>>
  BY DEF MsgEnd, Handling
<1>2. n \in UsedNodes(pool[s]) /\ \A g \in BOOLEAN : Event(s, n, g) \notin batch'
  BY <1>1, LastEvent
<1>3. left \in 0 .. PoolSize /\ peer \in PoolNodes \cup {NULL} /\ unwritten \subseteq Conns
  BY DEF IInv, TypeOK
<1>4. CastInv'
  BY <1>1, CastIdle, CastDone DEF IInv
<1>5. CASE c \in watched
  <2>1. GiveBack(s, n)
    BY <1>1, <1>5 DEF MsgEnd, GiveBack
  <2>2. TypeOK' /\ ListsInv' /\ NodeInv' /\ WatchInv' /\ BacklogInv' /\ EventInv'
    BY <1>1, <1>2, <1>3, <2>1, GiveBackKeeps
  <2> QED BY <1>4, <2>2 DEF IInv
<1>6. CASE c \notin watched
  <2>1. /\ data' = [data EXCEPT ![c] = FALSE] /\ UNCHANGED <<at, watched, ready, pool>>
        /\ batch' \subseteq batch
    BY <1>1, <1>6 DEF MsgEnd
  <2>2. TypeOK'
    BY <1>1, <2>1 DEF IInv, TypeOK
  <2>3. ListsInv' /\ NodeInv' /\ WatchInv' /\ BacklogInv' /\ EventInv'
    BY <1>1, <2>1 DEF IInv, ListsInv, NodeInv, WatchInv, BacklogInv, EventInv
  <2> QED BY <1>4, <2>2, <2>3 DEF IInv
<1> QED BY <1>5, <1>6

(* The peer whose turn it is, and what is left after it. *)
LEMMA CastFacts ==
  ASSUME IInv, left > 0
  PROVE  /\ left \in Nat /\ left - 1 \in 0 .. PoolSize
         /\ peer \in UsedNodes(pool["send"]) /\ Lists(pool["send"])
         /\ pool["send"].next[peer] \in PoolNodes
         /\ "send" \in Servers
         /\ OneToOne(pool["send"], socket_fd["send"])
<1>1. "send" \in Servers
  BY DEF Servers
<1>2. left \in 0 .. PoolSize /\ PoolSize \in Nat
  BY ZyMempoolAssumption DEF IInv, TypeOK
<1>3. left \in Nat /\ left - 1 \in 0 .. PoolSize /\ 1 \in 1 .. left
  BY <1>2
<1>4. PICK w : Remaining(w, left, pool["send"], socket_fd["send"], peer, unwritten)
  BY DEF IInv, CastInv
<1>5. peer \in UsedNodes(pool["send"])
  BY <1>3, <1>4 DEF Remaining
<1>6. Lists(pool["send"]) /\ peer \in PoolNodes
  BY <1>1, <1>5, UsedAreNodes DEF IInv, ListsInv
<1>7. pool["send"].next[peer] \in PoolNodes
  <2>1. pool["send"] \in PoolType
    BY <1>6, PoolFacts
  <2> QED BY <1>6, <2>1 DEF PoolType
<1>8. OneToOne(pool["send"], socket_fd["send"])
  BY <1>1 DEF IInv, NodeInv, OneToOne
<1> QED BY <1>1, <1>3, <1>5, <1>6, <1>7, <1>8

(* The variables of the broadcast keep their types from peer to peer. *)
LEMMA NextPeerType ==
  ASSUME IInv, left > 0, NextPeer
  PROVE  left' \in 0 .. PoolSize /\ peer' \in PoolNodes \cup {NULL} /\ unwritten' \subseteq Conns
BY CastFacts DEF NextPeer, IInv, TypeOK

(* The broadcast goes on to the next peer with the others still to go,     *)
(* whether the node of this one stays in use or not.                       *)
LEMMA NextPeerCast ==
  ASSUME IInv, left > 0, NextPeer,
         OthersKept(pool["send"], socket_fd["send"], peer, pool'["send"], socket_fd'["send"])
  PROVE  CastInv'
<1>1. PICK w : Remaining(w, left, pool["send"], socket_fd["send"], peer, unwritten)
  BY DEF IInv, CastInv
<1>2. left \in Nat /\ OneToOne(pool["send"], socket_fd["send"])
  BY CastFacts
<1>3. PICK v : Remaining(v, left - 1, pool'["send"], socket_fd'["send"],
                         IF left = 1 THEN NULL ELSE pool["send"].next[peer],
                         unwritten \ {socket_fd["send"][peer]})
  BY <1>1, <1>2, WalkOn
<1>4. Remaining(v, left', pool'["send"], socket_fd'["send"], peer', unwritten')
  BY <1>3 DEF NextPeer
<1> QED BY <1>4 DEF CastInv

(* A write of the broadcast that succeeds. *)
LEMMA CastWriteStep ==
  ASSUME IInv, CastWrite
  PROVE  IInv'
<1> USE DEF netVars, poolVars
<1>1. /\ left > 0 /\ NextPeer
      /\ UNCHANGED <<at, life, data, watched, backlog, ready, knocked, pool, socket_fd,
                     batch, wild, ended>>
  BY DEF CastWrite
<1>2. TypeOK'
  BY <1>1, NextPeerType DEF IInv, TypeOK
<1>3. ListsInv' /\ NodeInv' /\ WatchInv' /\ BacklogInv' /\ EventInv'
  BY <1>1 DEF IInv, ListsInv, NodeInv, WatchInv, BacklogInv, EventInv
<1>4. CastInv'
  <2>1. OthersKept(pool["send"], socket_fd["send"], peer, pool["send"], socket_fd["send"])
    BY DEF OthersKept
  <2> QED BY <1>1, <2>1, NextPeerCast
<1> QED BY <1>2, <1>3, <1>4 DEF IInv

(* A write that fails: the peer is closed and taken out of the list under  *)
(* the walk.                                                               *)
LEMMA CastFailsStep ==
  ASSUME IInv, CastFails
  PROVE  IInv'
<1> DEFINE p == pool["send"]
<1>1. /\ left > 0 /\ NextPeer /\ Close(socket_fd["send"][peer])
      /\ socket_fd' = [socket_fd EXCEPT !["send"][peer] = NULL]
      /\ pool' = [pool EXCEPT !["send"] = ReturnNode(@, peer)]
      /\ UNCHANGED <<life, backlog, knocked, batch, wild, ended>>
  BY DEF CastFails
<1>2. /\ peer \in UsedNodes(p) /\ peer \in PoolNodes /\ Lists(p) /\ "send" \in Servers
      /\ UsedNodes(p) \subseteq PoolNodes
  BY <1>1, CastFacts, UsedAreNodes DEF IInv
<1>3. /\ socket_fd \in [Servers -> [PoolNodes -> Conns \cup {NULL}]]
      /\ pool \in [Servers -> PoolType]
  BY DEF IInv, TypeOK
<1>4. GiveBack("send", peer) /\ socket_fd'["send"][peer] = NULL
  BY <1>1, <1>2, <1>3 DEF GiveBack
<1>5. TypeOK' /\ ListsInv' /\ NodeInv' /\ WatchInv' /\ BacklogInv' /\ EventInv'
  BY <1>1, <1>2, <1>4, NextPeerType, GiveBackKeeps
<1>6. CastInv'
  <2>1. ASSUME NEW x \in UsedNodes(p), x # peer
        PROVE  /\ x \in UsedNodes(pool'["send"])
               /\ socket_fd'["send"][x] = socket_fd["send"][x]
               /\ p.next[x] # peer => pool'["send"].next[x] = p.next[x]
    <3>1. pool'["send"] = ReturnNode(p, peer)
      BY <1>1, <1>2, <1>3
    <3>2. /\ UsedNodes(ReturnNode(p, peer)) = UsedNodes(p) \ {peer}
          /\ \A y \in UsedNodes(p) :
               y # peer /\ p.next[y] # peer => ReturnNode(p, peer).next[y] = p.next[y]
      BY <1>2, ReturnFacts
    <3>3. socket_fd'["send"][x] = socket_fd["send"][x]
      BY <1>1, <1>2, <1>3, <2>1
    <3> QED BY <2>1, <3>1, <3>2, <3>3
  <2>2. OthersKept(p, socket_fd["send"], peer, pool'["send"], socket_fd'["send"])
    BY <2>1 DEF OthersKept
  <2> QED BY <1>1, <2>2, NextPeerCast
<1> QED BY <1>5, <1>6 DEF IInv

-----------------------------------------------------------------------------
(* Every step is one of these. *)
LEMMA HandledEvent ==
  ASSUME IInv, NEW e \in batch, Handle(e[1], e[2], e[3])
  PROVE  \E s \in Servers, n \in PoolNodes, h \in BOOLEAN : Handle(s, n, h)
<1>1. /\ e[1] \in Servers /\ e[2] \in PoolNodes \cup {Listener} /\ e[3] \in BOOLEAN
  BY DEF IInv, TypeOK
<1>2. e[2] # Listener
  BY DEF Handle, MsgIgnored, MsgEnd, MsgData
<1> QED BY <1>1, <1>2

(* Every step of the server and of its clients keeps the invariant. *)
LEMMA StepIInv == IInv /\ [Next]_vars => IInv'
<1> SUFFICES ASSUME IInv, [Next]_vars PROVE IInv'
  OBVIOUS
<1>1. wild \in [Servers -> BOOLEAN] /\ ended \in BOOLEAN
  BY DEF IInv, TypeOK
<1>2. CASE Network
  BY <1>2, ConnectStep, TrafficStep DEF Network
<1>3. CASE EpollWait
  BY <1>3, EpollWaitStep
<1>4. ASSUME NEW s \in Servers, AcceptFails(s) \/ AcceptWild(s) PROVE IInv'
  <2>1. UNCHANGED <<netVars, poolVars, castVars>> /\ batch' \subseteq batch
    BY <1>4 DEF AcceptFails, AcceptWild, Handling
  <2>2. wild' \in [Servers -> BOOLEAN] /\ ended' \in BOOLEAN
    BY <1>1, <1>4 DEF AcceptFails, AcceptWild
  <2> QED BY <2>1, <2>2, IgnoredStep
<1>5. ASSUME NEW s \in Servers, Accept(s) PROVE IInv'
  BY <1>5, AcceptStep
<1>6. ASSUME NEW e \in batch, Handle(e[1], e[2], e[3]) PROVE IInv'
  <2>1. PICK s \in Servers, n \in PoolNodes, h \in BOOLEAN : Handle(s, n, h)
    BY <1>6, HandledEvent
  <2>2. CASE MsgIgnored(s, n, h)
    <3>1. UNCHANGED <<netVars, poolVars, castVars, wild, ended>> /\ batch' \subseteq batch
      BY <2>2 DEF MsgIgnored, Handling
    <3> QED BY <1>1, <3>1, IgnoredStep
  <2>3. CASE MsgEnd(s, n, h)
    BY <2>3, MsgEndStep
  <2>4. CASE MsgData(s, n, h)
    BY <2>4, MsgDataStep
  <2> QED BY <2>1, <2>2, <2>3, <2>4 DEF Handle
<1>7. CASE CastWrite
  BY <1>7, CastWriteStep
<1>8. CASE CastFails
  BY <1>8, CastFailsStep
<1>9. CASE UNCHANGED vars
  BY <1>1, <1>9, IgnoredStep DEF vars
<1>10. CASE EpollFails
  BY <1>1, <1>10, IgnoredStep DEF EpollFails
<1> QED BY <1>2, <1>3, <1>4, <1>5, <1>6, <1>7, <1>8, <1>9, <1>10 DEF Next, ServerStep

(* In every reachable state of the channel the lists of both pools can be  *)
(* written down as circles, nodes and connections match, each event of a   *)
(* batch is for a node in use or for one whose descriptor is gone, and a   *)
(* broadcast has exactly its remaining peers before it.                    *)
THEOREM Invariance == Spec => []IInv
BY InitIInv, StepIInv, PTL DEF Spec

-----------------------------------------------------------------------------
(* What the server promises. *)

(* Every variable of the channel server keeps its type. *)
THEOREM TypeCorrect == Spec => []TypeOK
<1>1. IInv => TypeOK
  BY DEF IInv
<1> QED BY Invariance, <1>1, PTL

(* However accepts, closes and failed broadcasts interleave, the walks     *)
(* along the free and the use list of both pools meet every node once and  *)
(* come back to their heads (zy_mempool.c).                                *)
THEOREM ListsAlwaysSound == Spec => []ListsSound
<1>1. IInv => ListsSound
  BY PoolFacts DEF IInv, ListsInv, ListsSound
<1> QED BY Invariance, <1>1, PTL

(* NodePerConnection follows from the invariant. *)
LEMMA NodesMatch == IInv => NodePerConnection
<1> SUFFICES ASSUME IInv PROVE NodePerConnection
  OBVIOUS
<1> DEFINE used == {x \in Servers \X PoolNodes : x[2] \in UsedNodes(pool[x[1]])}
<1>1. \A s \in Servers : UsedNodes(pool[s]) \subseteq PoolNodes
  BY UsedAreNodes DEF IInv
<1>2. ASSUME NEW x \in used
      PROVE  /\ socket_fd[x[1]][x[2]] \in Conns
             /\ at[socket_fd[x[1]][x[2]]] = "open"
  BY DEF IInv, NodeInv
<1>3. ASSUME NEW c \in Conns, at[c] = "open"
      PROVE  \E x \in used : /\ socket_fd[x[1]][x[2]] = c
                             /\ \A y \in used \ {x} : socket_fd[y[1]][y[2]] # c
  <2>1. PICK s \in Servers : \E n \in UsedNodes(pool[s]) : socket_fd[s][n] = c
    BY <1>3 DEF IInv, NodeInv
  <2>2. PICK n \in UsedNodes(pool[s]) : socket_fd[s][n] = c
    BY <2>1
  <2>3. <<s, n>> \in used
    BY <1>1
  <2>4. ASSUME NEW y \in used, socket_fd[y[1]][y[2]] = c PROVE y = <<s, n>>
    <3>1. y[1] \in Servers /\ y[2] \in UsedNodes(pool[y[1]]) /\ y = <<y[1], y[2]>>
      OBVIOUS
    <3>2. y[1] = s /\ y[2] = n
      BY <2>2, <2>4, <3>1 DEF IInv, NodeInv
    <3> QED BY <3>1, <3>2
  <2> HIDE DEF used
  <2>5. socket_fd[<<s, n>>[1]][<<s, n>>[2]] = c
    BY <2>2
  <2> QED BY <2>3, <2>4, <2>5
<1> QED BY <1>2, <1>3 DEF NodePerConnection

(* A node in use and an open connection always come in pairs: no node      *)
(* leaks when its connection closes, none is shared by two, and no event   *)
(* given out before reaches the wrong one (zy_tcpserver.c,                 *)
(* zy_protocol.c:44).                                                      *)
THEOREM NodesAndConnections == Spec => []NodePerConnection
BY Invariance, NodesMatch, PTL

(* BroadcastReachesAll follows from the invariant. *)
LEMMA CastReaches == IInv => BroadcastReachesAll
<1> SUFFICES ASSUME IInv PROVE BroadcastReachesAll
  OBVIOUS
<1>1. PICK w : Remaining(w, left, pool["send"], socket_fd["send"], peer, unwritten)
  BY DEF IInv, CastInv
<1>2. /\ w \in [1 .. left -> UsedNodes(pool["send"])]
      /\ \A i, j \in 1 .. left : w[i] = w[j] => i = j
      /\ left > 0 => peer = w[1]
      /\ unwritten = {socket_fd["send"][w[i]] : i \in 1 .. left}
  BY <1>1 DEF Remaining
<1>3. left \in Nat
  BY ZyMempoolAssumption DEF IInv, TypeOK
<1>4. \A x, y \in UsedNodes(pool["send"]) :
        socket_fd["send"][x] = socket_fd["send"][y] => x = y
  BY DEF IInv, NodeInv, Servers
<1>5. left = Cardinality(unwritten)
  <2> DEFINE g == [i \in 1 .. left |-> socket_fd["send"][w[i]]]
  <2>1. \A i, j \in 1 .. left : g[i] = g[j] => i = j
    BY <1>2, <1>4
  <2>2. g \in [1 .. left -> unwritten] /\ \A c \in unwritten : \E i \in 1 .. left : g[i] = c
    BY <1>2
  <2> HIDE DEF g
  <2>3. g \in Bijection(1 .. left, unwritten)
    BY <2>1, <2>2 DEF Bijection, Injection, Surjection, IsInjective
  <2>4. ExistsBijection(1 .. left, unwritten)
    BY <2>3 DEF ExistsBijection
  <2> QED BY <1>3, <2>4, FS_CountingElements, FS_NatBijection
<1>6. left > 0 => /\ peer \in UsedNodes(pool["send"])
                  /\ socket_fd["send"][peer] \in unwritten
  <2>1. left > 0 => 1 \in 1 .. left
    BY <1>3
  <2> QED BY <1>2, <2>1
<1> QED BY <1>5, <1>6 DEF BroadcastReachesAll

(* While a broadcast walks the use list, from which it takes the peers it  *)
(* fails to write to, the peers before it are exactly those that have not  *)
(* been written to (zy_protocol.c:36).                                     *)
THEOREM BroadcastsReach == Spec => []BroadcastReachesAll
BY Invariance, CastReaches, PTL

-----------------------------------------------------------------------------
(* The refinement. *)

(* What a step does to the nodes of one server: nothing, or one of the     *)
(* three things a pool does.                                               *)
Handed(s) == \E n \in FreeNodes(pool[s]) :
  /\ FreeNodes(pool'[s]) = FreeNodes(pool[s]) \ {n}
  /\ UsedNodes(pool'[s]) = UsedNodes(pool[s]) \cup {n}
  /\ wild[s] = FALSE /\ wild'[s] = wild[s]
TakenBack(s) == \E n \in UsedNodes(pool[s]) :
  /\ FreeNodes(pool'[s]) = FreeNodes(pool[s]) \cup {n}
  /\ UsedNodes(pool'[s]) = UsedNodes(pool[s]) \ {n}
  /\ wild'[s] = wild[s]
Denied(s) ==
  /\ FreeNodes(pool[s]) = {} /\ wild'[s] = TRUE
  /\ FreeNodes(pool'[s]) = FreeNodes(pool[s]) /\ UsedNodes(pool'[s]) = UsedNodes(pool[s])
Same(s) ==
  /\ FreeNodes(pool'[s]) = FreeNodes(pool[s]) /\ UsedNodes(pool'[s]) = UsedNodes(pool[s])
  /\ wild'[s] = wild[s]

(* Each step does to the pool of a server one of the things NodePool       *)
(* allows, or nothing.                                                     *)
LEMMA PoolStep ==
  ASSUME IInv, [Next]_vars, NEW s \in Servers
  PROVE  Same(s) \/ Handed(s) \/ TakenBack(s) \/ Denied(s)
<1> USE DEF netVars, poolVars, castVars
<1>1. /\ pool \in [Servers -> PoolType] /\ wild \in [Servers -> BOOLEAN]
      /\ \A t \in Servers : Lists(pool[t])
  BY DEF IInv, TypeOK, ListsInv
<1>2. CASE UNCHANGED <<pool, wild>>
  BY <1>2 DEF Same
<1>3. ASSUME NEW t \in Servers, Accept(t) PROVE Same(s) \/ Handed(s)
  <2>1. /\ pool' = [pool EXCEPT ![t] = GetNode(@)] /\ wild' = wild /\ ~wild[t]
        /\ pool[t].freecount >= 1
    BY <1>3 DEF Accept, Handling, Running
  <2>2. CASE s = t
    <3>1. pool'[s] = GetNode(pool[s]) /\ wild[s] = FALSE
      BY <1>1, <2>1, <2>2
    <3>2. /\ pool[s].freelist \in FreeNodes(pool[s])
          /\ FreeNodes(GetNode(pool[s])) = FreeNodes(pool[s]) \ {pool[s].freelist}
          /\ UsedNodes(GetNode(pool[s])) = UsedNodes(pool[s]) \cup {pool[s].freelist}
      BY <1>1, <2>1, <2>2, GetFacts
    <3> QED BY <2>1, <3>1, <3>2 DEF Handed
  <2>3. CASE s # t
    BY <1>1, <2>1, <2>3 DEF Same
  <2> QED BY <2>2, <2>3
<1>4. ASSUME NEW t \in Servers, AcceptWild(t) PROVE Same(s) \/ Denied(s)
  <2>1. pool' = pool /\ wild' = [wild EXCEPT ![t] = TRUE] /\ pool[t].freecount = 0
    BY <1>4 DEF AcceptWild
  <2>2. s = t => FreeNodes(pool[s]) = {}
    BY <1>1, <2>1, PoolFacts
  <2> QED BY <1>1, <2>1, <2>2 DEF Same, Denied
<1>5. ASSUME NEW t \in Servers, NEW n \in UsedNodes(pool[t]),
             pool' = [pool EXCEPT ![t] = ReturnNode(@, n)], wild' = wild
      PROVE  Same(s) \/ TakenBack(s)
  <2>1. CASE s = t
    <3>1. pool'[s] = ReturnNode(pool[s], n)
      BY <1>1, <1>5, <2>1
    <3>2. /\ FreeNodes(ReturnNode(pool[s], n)) = FreeNodes(pool[s]) \cup {n}
          /\ UsedNodes(ReturnNode(pool[s], n)) = UsedNodes(pool[s]) \ {n}
      BY <1>1, <2>1, ReturnFacts
    <3> QED BY <1>5, <2>1, <3>1, <3>2 DEF TakenBack
  <2>2. CASE s # t
    BY <1>1, <1>5, <2>2 DEF Same
  <2> QED BY <2>1, <2>2
<1>6. ASSUME NEW e \in batch, Handle(e[1], e[2], e[3]) PROVE Same(s) \/ TakenBack(s)
  <2>1. PICK t \in Servers, n \in PoolNodes, h \in BOOLEAN : Handle(t, n, h)
    BY <1>6, HandledEvent
  <2>2. CASE UNCHANGED <<pool, wild>>
    BY <2>2 DEF Same
  <2>3. CASE MsgEnd(t, n, h) /\ pool' # pool
    <3>1. /\ Event(t, n, h) \in batch /\ batch' = batch \ {Event(t, n, h)}
          /\ socket_fd[t][n] # NULL /\ wild' = wild
          /\ pool' = [pool EXCEPT ![t] = ReturnNode(@, n)]
      BY <2>3 DEF MsgEnd, Handling
    <3> QED BY <1>5, <3>1, LastEvent
  <2> QED BY <2>1, <2>2, <2>3 DEF Handle, MsgIgnored, MsgEnd, MsgData
<1>7. CASE CastFails
  <2>1. /\ pool' = [pool EXCEPT !["send"] = ReturnNode(@, peer)] /\ wild' = wild
        /\ left > 0
    BY <1>7 DEF CastFails
  <2> QED BY <1>5, <2>1, CastFacts
<1>8. CASE Network \/ EpollWait \/ EpollFails \/ CastWrite \/ UNCHANGED vars
           \/ \E t \in Servers : AcceptFails(t)
  BY <1>2, <1>8 DEF Network, Connect, DataComes, ConnectionEnds, EpollWait, EpollFails, CastWrite,
     vars, AcceptFails
<1> QED BY <1>3, <1>4, <1>6, <1>7, <1>8 DEF Next, ServerStep

(* The initial states of the channel are initial states of both abstract   *)
(* pools.                                                                  *)
LEMMA InitPools == Init => RcvPool!Init /\ SendPool!Init
<1> SUFFICES ASSUME Init PROVE RcvPool!Init /\ SendPool!Init
  OBVIOUS
<1>1. \A s \in Servers : pool[s] = NewPool /\ wild[s] = FALSE
  BY DEF Init
<1>2. "rcv" \in Servers /\ "send" \in Servers
  BY DEF Servers
<1> QED BY <1>1, <1>2, NewPoolFacts DEF RcvPool!Init, SendPool!Init

(* Every step is one of NodePool for the receiving side, or a stutter. *)
LEMMA RcvStep ==
  ASSUME IInv, [Next]_vars
  PROVE  [RcvPool!Next]_(RcvPool!poolState)
<1>1. Same("rcv") \/ Handed("rcv") \/ TakenBack("rcv") \/ Denied("rcv")
  BY PoolStep DEF Servers
<1>2. CASE Same("rcv")
  BY <1>2 DEF Same, RcvPool!poolState
<1>3. CASE Handed("rcv")
  <2>1. RcvPool!Acquire("rcv")
    BY <1>3 DEF Handed, RcvPool!Acquire
  <2> QED BY <2>1 DEF RcvPool!Next
<1>4. CASE TakenBack("rcv")
  <2>1. RcvPool!Release("rcv")
    BY <1>4 DEF TakenBack, RcvPool!Release
  <2> QED BY <2>1 DEF RcvPool!Next
<1>5. CASE Denied("rcv")
  <2>1. RcvPool!Refuse("rcv")
    BY <1>5 DEF Denied, RcvPool!Refuse
  <2> QED BY <2>1 DEF RcvPool!Next
<1> QED BY <1>1, <1>2, <1>3, <1>4, <1>5

(* Every step is one of NodePool for the sending side, or a stutter. *)
LEMMA SendStep ==
  ASSUME IInv, [Next]_vars
  PROVE  [SendPool!Next]_(SendPool!poolState)
<1>1. Same("send") \/ Handed("send") \/ TakenBack("send") \/ Denied("send")
  BY PoolStep DEF Servers
<1>2. CASE Same("send")
  BY <1>2 DEF Same, SendPool!poolState
<1>3. CASE Handed("send")
  <2>1. SendPool!Acquire("send")
    BY <1>3 DEF Handed, SendPool!Acquire
  <2> QED BY <2>1 DEF SendPool!Next
<1>4. CASE TakenBack("send")
  <2>1. SendPool!Release("send")
    BY <1>4 DEF TakenBack, SendPool!Release
  <2> QED BY <2>1 DEF SendPool!Next
<1>5. CASE Denied("send")
  <2>1. SendPool!Refuse("send")
    BY <1>5 DEF Denied, SendPool!Refuse
  <2> QED BY <2>1 DEF SendPool!Next
<1> QED BY <1>1, <1>2, <1>3, <1>4, <1>5

(* Both circular lists implement NodePool, each with its server as the     *)
(* client: a node is in use or available and never handed out or taken     *)
(* back twice, and accept gets no node only when none is available.        *)
THEOREM PoolsImplemented == Spec => ImplementsPools
<1>1. Init => RcvPool!Init /\ SendPool!Init
  BY InitPools
<1>2. IInv /\ [Next]_vars =>
        [RcvPool!Next]_(RcvPool!poolState) /\ [SendPool!Next]_(SendPool!poolState)
  BY RcvStep, SendStep
<1> QED
  BY Invariance, <1>1, <1>2, PTL DEF Spec, ImplementsPools, RcvPool!Spec, SendPool!Spec

=============================================================================
