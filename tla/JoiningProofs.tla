---------------------------- MODULE JoiningProofs ----------------------------
(***************************************************************************)
(* Proofs about how a device comes in, for any devices, codes, tasks,      *)
(* attempts, blinkers and bounds.  The commissioning session: its cards,   *)
(* naming line and radio agree, and a running card is its worker's.  The   *)
(* attempt and its tracker: what is shown is of the attempt that is shown. *)
(* The blinking: one device, and the front of the naming line.             *)
(***************************************************************************)
EXTENDS MCJoining, FiniteSetTheorems, SequenceTheorems, WellFoundedInduction, TLAPS

----------------------------------------
(* The session: what is kept of a sequence (Sifted), its entries and their *)
(* order, and what a step-by-step function ends in. *)

LEMMA LeastOf ==
    ASSUME NEW S \in SUBSET Nat, S # {}
    PROVE  \E x \in S : \A y \in S : x <= y
<1>1. PICK x \in S : \A y \in S : ~(<<y, x>> \in OpToRel(<, Nat)) BY NatLessThanWellFounded, WFMin
<1>2. \A y \in S : x <= y
  <2> TAKE y \in S
  <2>1. y \in Nat /\ x \in Nat OBVIOUS
  <2>2. ~(y < x) BY <1>1, <2>1 DEF OpToRel
  <2> QED BY <2>1, <2>2
<1> QED BY <1>2

LEMMA Upward ==
    ASSUME NEW n \in Nat, NEW good \in SUBSET (0..n), 0 \in good,
           \A i \in 1..n : i - 1 \in good => i \in good
    PROVE  \A i \in 0..n : i \in good
<1> SUFFICES ASSUME (0..n) \ good # {} PROVE FALSE OBVIOUS
<1> DEFINE bad == (0..n) \ good
<1>1. PICK x \in bad : \A y \in bad : x <= y
  <2>1. bad \in SUBSET Nat /\ bad # {} OBVIOUS
  <2> QED BY ONLY <2>1, LeastOf
<1>2. x \in 1..n /\ x - 1 \in 0..n /\ x - 1 < x BY <1>1
<1> QED BY <1>1, <1>2

(* f starts at x and takes the steps. *)
Climbs(n, x, step, f) == f[0] = x /\ \A i \in 1..n : f[i] = step[i][f[i - 1]]

(* A function that is defined step by step exists. *)
LEMMA StepByStep ==
    ASSUME NEW n \in Nat, NEW X, NEW x \in X, NEW step \in [1..n -> [X -> X]]
    PROVE  \E f \in [0..n -> X] : Climbs(n, x, step, f)
<1> DEFINE Up(m, f) == f[0] = x /\ \A i \in 1..m : f[i] = step[i][f[i - 1]]
           good == {m \in 0..n : \E f \in [0..m -> X] : Up(m, f)}
<1>1. 0 \in good
  <2>1. [i \in 0..0 |-> x] \in [0..0 -> X] /\ Up(0, [i \in 0..0 |-> x]) OBVIOUS
  <2> HIDE DEF Up
  <2>2. \E f \in [0..0 -> X] : Up(0, f) BY <2>1
  <2> QED BY <2>2
<1>2. ASSUME NEW m \in 1..n, m - 1 \in good PROVE m \in good
  <2>1. PICK f \in [0..(m - 1) -> X] : Up(m - 1, f) BY <1>2
  <2> DEFINE v == step[m][f[m - 1]]
             g == [i \in 0..m |-> IF i = m THEN v ELSE f[i]]
  <2>2. m \in Nat /\ m >= 1 /\ m - 1 \in 0..(m - 1) /\ 0 \in 0..(m - 1) OBVIOUS
  <2>3. v \in X BY <2>2
  <2>4. \A i \in 0..m : i # m => i \in 0..(m - 1) BY <2>2
  <2>5. g \in [0..m -> X] BY <2>3, <2>4
  <2>6. \A i \in 0..(m - 1) : g[i] = f[i] BY <2>2
  <2>7. g[0] = x BY <2>1, <2>2, <2>6
  <2>8. ASSUME NEW i \in 1..m PROVE g[i] = step[i][g[i - 1]]
    <3>1. i - 1 \in 0..(m - 1) /\ i \in 0..m BY <2>2
    <3>2. CASE i = m BY <2>6, <3>1, <3>2
    <3>3. CASE i # m
      <4>1. i \in 1..(m - 1) /\ i \in 0..(m - 1) BY <2>2, <3>3
      <4> QED BY <2>1, <2>6, <3>1, <4>1
    <3> QED BY <3>2, <3>3
  <2> HIDE DEF g
  <2>9. Up(m, g) BY <2>7, <2>8
  <2> HIDE DEF Up
  <2>10. \E h \in [0..m -> X] : Up(m, h) BY <2>5, <2>9
  <2> QED BY <2>10
<1>3. good \subseteq 0..n OBVIOUS
<1> HIDE DEF good
<1>4. \A i \in 0..n : i \in good BY ONLY <1>1, <1>2, <1>3, Upward, n \in Nat
<1>5. n \in good BY <1>4
<1> QED BY <1>5 DEF good, Climbs

NoDups(s) == \A i, j \in 1..Len(s) : s[i] = s[j] => i = j

(* r are the entries among the first n of seq that are in keep, in their order. *)
Sifting(seq, n, keep, r) ==
    /\ \A i \in 1..Len(r) : r[i] \in keep /\ \E j \in 1..n : seq[j] = r[i]
    /\ \A j \in 1..n : seq[j] \in keep => \E i \in 1..Len(r) : r[i] = seq[j]
    /\ NoDups(seq) => NoDups(r)
    /\ n > 0 /\ seq[1] \in keep => r # <<>> /\ r[1] = seq[1]

LEMMA SiftStep ==
    ASSUME NEW S, NEW seq \in Seq(S), NEW keep, NEW m \in 1..Len(seq),
           NEW q \in Seq(S), Sifting(seq, m - 1, keep, q)
    PROVE  Sifting(seq, m, keep, IF seq[m] \in keep THEN Append(q, seq[m]) ELSE q)
<1>0. m \in Nat /\ m - 1 \in Nat /\ m > 0 /\ Len(q) \in Nat /\ Len(seq) \in Nat /\ m <= Len(seq)
  OBVIOUS
<1>a. \A j \in 1..m : j \in 1..(m - 1) \/ j = m
  BY <1>0
<1>b. \A j \in 1..(m - 1) : j \in 1..m /\ j \in 1..Len(seq) /\ j # m
  BY <1>0
<1>1. CASE seq[m] \notin keep
  <2>1. m > 1 \/ seq[1] \notin keep BY <1>0, <1>1
  <2>2. m > 1 => m - 1 > 0 BY <1>0
  <2> QED BY <1>a, <1>b, <1>1, <2>1, <2>2 DEF Sifting
<1>2. CASE seq[m] \in keep
  <2> DEFINE r == Append(q, seq[m])
  <2>1. Len(r) = Len(q) + 1 /\ r[Len(q) + 1] = seq[m] /\ \A i \in 1..Len(q) : r[i] = q[i] BY <1>0
  <2>2. r # <<>>
    <3>1. Len(r) # 0 BY <1>0, <2>1
    <3> QED BY <3>1
  <2>a. \A i \in 1..Len(r) : i \in 1..Len(q) \/ i = Len(q) + 1
    BY <1>0, <2>1
  <2>b. \A i \in 1..Len(q) : i \in 1..Len(r)
    BY <1>0, <2>1
  <2>c. Len(q) + 1 \in 1..Len(r)
    BY <1>0, <2>1
  <2> HIDE DEF r
  <2>3. \A i \in 1..Len(r) : r[i] \in keep /\ \E j \in 1..m : seq[j] = r[i]
    <3> SUFFICES ASSUME NEW i \in 1..Len(r) PROVE r[i] \in keep /\ \E j \in 1..m : seq[j] = r[i]
      OBVIOUS
    <3>1. CASE i = Len(q) + 1
      <4>1. m \in 1..m BY <1>0
      <4> QED BY <1>2, <2>1, <3>1, <4>1
    <3>2. CASE i \in 1..Len(q)
      <4>1. q[i] \in keep /\ r[i] = q[i] BY <2>1, <3>2 DEF Sifting
      <4>2. PICK j \in 1..(m - 1) : seq[j] = q[i] BY <3>2 DEF Sifting
      <4> QED BY <1>b, <4>1, <4>2
    <3> QED BY <2>a, <3>1, <3>2
  <2>4. \A j \in 1..m : seq[j] \in keep => \E i \in 1..Len(r) : r[i] = seq[j]
    <3> SUFFICES ASSUME NEW j \in 1..m, seq[j] \in keep PROVE \E i \in 1..Len(r) : r[i] = seq[j]
      OBVIOUS
    <3>1. CASE j = m BY <2>1, <2>c, <3>1
    <3>2. CASE j # m BY <1>a, <2>1, <2>b, <3>2 DEF Sifting
    <3> QED BY <3>1, <3>2
  <2>5. NoDups(seq) => NoDups(r)
    <3> SUFFICES ASSUME NoDups(seq), NEW i \in 1..Len(r), NEW k \in 1..Len(r), r[i] = r[k] PROVE i = k
      BY DEF NoDups
    <3>1. NoDups(q) BY DEF Sifting
    <3>2. \A l \in 1..Len(q) : r[l] # seq[m]
      <4> SUFFICES ASSUME NEW l \in 1..Len(q), r[l] = seq[m] PROVE FALSE OBVIOUS
      <4>1. PICK j \in 1..(m - 1) : seq[j] = q[l] BY DEF Sifting
      <4>2. j \in 1..Len(seq) /\ j # m /\ seq[j] = seq[m] BY <1>b, <2>1, <4>1
      <4> QED BY <4>2 DEF NoDups
    <3>3. CASE i = Len(q) + 1 \/ k = Len(q) + 1 BY <2>1, <2>a, <3>2, <3>3
    <3>4. CASE i \in 1..Len(q) /\ k \in 1..Len(q) BY <2>1, <3>1, <3>4 DEF NoDups
    <3> QED BY <2>a, <3>3, <3>4
  <2>6. ASSUME seq[1] \in keep PROVE r[1] = seq[1]
    <3>1. CASE m = 1
      <4>1. Len(q) = 0
        <5> SUFFICES ASSUME Len(q) # 0 PROVE FALSE OBVIOUS
        <5>1. 1 \in 1..Len(q) BY <1>0
        <5>2. PICK j \in 1..(m - 1) : TRUE BY <5>1 DEF Sifting
        <5> QED BY <3>1, <5>2
      <4> QED BY <2>1, <3>1, <4>1
    <3>2. CASE m # 1
      <4>1. m - 1 > 0 BY <1>0, <3>2
      <4>2. q # <<>> /\ q[1] = seq[1] BY <2>6, <4>1 DEF Sifting
      <4>3. 1 \in 1..Len(q) BY <1>0, <4>2
      <4> QED BY <2>1, <4>2, <4>3
    <3> QED BY <3>1, <3>2
  <2>7. Sifting(seq, m, keep, r) BY <2>2, <2>3, <2>4, <2>5, <2>6 DEF Sifting
  <2> QED BY <1>2, <2>7 DEF r
<1> QED BY <1>1, <1>2

LEMMA SiftedFacts ==
    ASSUME NEW S, NEW seq \in Seq(S), NEW keep
    PROVE  Sifted(seq, keep) \in Seq(S) /\ Sifting(seq, Len(seq), keep, Sifted(seq, keep))
<1> DEFINE n == Len(seq)
           upTo[i \in 0..n] ==
             IF i = 0 THEN <<>>
             ELSE IF seq[i] \in keep THEN Append(upTo[i - 1], seq[i]) ELSE upTo[i - 1]
           step == [i \in 1..n |-> [q \in Seq(S) |->
                      IF seq[i] \in keep THEN Append(q, seq[i]) ELSE q]]
<1>1. n \in Nat /\ \A i \in 1..n : seq[i] \in S OBVIOUS
<1>2. step \in [1..n -> [Seq(S) -> Seq(S)]] /\ <<>> \in Seq(S) BY <1>1
<1>3. PICK f \in [0..n -> Seq(S)] : f[0] = <<>> /\ \A i \in 1..n : f[i] = step[i][f[i - 1]]
  <2> DEFINE Q == Seq(S)
             e == <<>>
  <2>1. n \in Nat /\ e \in Q /\ step \in [1..n -> [Q -> Q]] BY <1>1, <1>2
  <2> HIDE DEF step, n, Q, e
  <2>2. \E f \in [0..n -> Q] : Climbs(n, e, step, f) BY <2>1, StepByStep
  <2> QED BY <2>2 DEF Q, e, Climbs
<1>4. ASSUME NEW i \in 1..n
      PROVE  /\ i \in 0..n /\ i - 1 \in 0..n /\ f[i - 1] \in Seq(S)
             /\ f[i] = IF seq[i] \in keep THEN Append(f[i - 1], seq[i]) ELSE f[i - 1]
  <2>1. i \in 0..n /\ i - 1 \in 0..n BY <1>1
  <2>2. f[i - 1] \in Seq(S) /\ f[i] = step[i][f[i - 1]] BY <1>3, <2>1
  <2> HIDE DEF n
  <2>3. step[i][f[i - 1]] = IF seq[i] \in keep THEN Append(f[i - 1], seq[i]) ELSE f[i - 1]
    BY ONLY <2>2, i \in 1..n DEF step
  <2> QED BY <2>1, <2>2, <2>3
<1>5. f = [i \in 0..n |-> IF i = 0 THEN <<>>
             ELSE IF seq[i] \in keep THEN Append(f[i - 1], seq[i]) ELSE f[i - 1]]
  <2>1. \A i \in 0..n : f[i] = IF i = 0 THEN <<>>
             ELSE IF seq[i] \in keep THEN Append(f[i - 1], seq[i]) ELSE f[i - 1]
    <3>1. \A i \in 0..n : i # 0 => i \in 1..n BY <1>1
    <3> QED BY <1>3, <1>4, <3>1
  <2> QED BY <1>3, <2>1
<1>6. upTo = [i \in 0..n |-> IF i = 0 THEN <<>>
             ELSE IF seq[i] \in keep THEN Append(upTo[i - 1], seq[i]) ELSE upTo[i - 1]]
  BY <1>5
<1>7. Sifted(seq, keep) = upTo[n] BY DEF Sifted
<1>8. upTo[0] = <<>> /\ \A i \in 1..n : upTo[i] = IF seq[i] \in keep THEN Append(upTo[i - 1], seq[i]) ELSE upTo[i - 1]
  <2> HIDE DEF upTo
  <2>1. 0 \in 0..n /\ \A i \in 1..n : i \in 0..n /\ i # 0 BY <1>1
  <2> QED BY ONLY <1>6, <2>1
<1> HIDE DEF upTo
<1> DEFINE good == {m \in 0..n : upTo[m] \in Seq(S) /\ Sifting(seq, m, keep, upTo[m])}
<1>9. 0 \in good
  <2>1. Sifting(seq, 0, keep, <<>>) BY DEF Sifting, NoDups
  <2>2. 0 \in 0..n /\ <<>> \in Seq(S) BY <1>1
  <2> QED BY <1>8, <2>1, <2>2
<1>10. ASSUME NEW m \in 1..n, m - 1 \in good PROVE m \in good
  <2>1. upTo[m - 1] \in Seq(S) /\ Sifting(seq, m - 1, keep, upTo[m - 1]) BY <1>10
  <2>2. Sifting(seq, m, keep, upTo[m]) BY <1>8, <2>1, SiftStep
  <2>3. upTo[m] \in Seq(S) /\ m \in 0..n
    <3>1. seq[m] \in S /\ m \in 0..n BY <1>1
    <3>2. Append(upTo[m - 1], seq[m]) \in Seq(S) BY <2>1, <3>1
    <3> QED BY <1>8, <2>1, <3>1, <3>2
  <2> QED BY <2>2, <2>3
<1>11. good \in SUBSET (0..n) OBVIOUS
<1> HIDE DEF good
<1>12. n \in good
  <2>1. \A i \in 0..n : i \in good BY ONLY <1>1, <1>9, <1>10, <1>11, Upward
  <2> QED BY <1>1, <2>1
<1> QED BY <1>7, <1>12 DEF good

Occurs(x, s) == \E i \in 1..Len(s) : s[i] = x
HeadKept(s, r) == s # <<>> => r # <<>> /\ Head(r) = Head(s)

LEMMA SiftedOccurs ==
    ASSUME NEW S, NEW seq \in Seq(S), NEW keep
    PROVE  /\ Sifted(seq, keep) \in Seq(S)
           /\ NoDups(seq) => NoDups(Sifted(seq, keep))
           /\ \A x : Occurs(x, Sifted(seq, keep)) <=> Occurs(x, seq) /\ x \in keep
           /\ seq # <<>> /\ Head(seq) \in keep => HeadKept(seq, Sifted(seq, keep))
<1> DEFINE r == Sifted(seq, keep)
<1>1. r \in Seq(S) /\ Sifting(seq, Len(seq), keep, r) BY SiftedFacts
<1> HIDE DEF r
<1>2. \A x : Occurs(x, r) => Occurs(x, seq) /\ x \in keep BY <1>1 DEF Sifting, Occurs
<1>3. \A x : Occurs(x, seq) /\ x \in keep => Occurs(x, r) BY <1>1 DEF Sifting, Occurs
<1>4. ASSUME seq # <<>>, Head(seq) \in keep PROVE r # <<>> /\ Head(r) = Head(seq)
  <2>1. Len(seq) > 0 /\ Head(seq) = seq[1] BY <1>4
  <2>2. r # <<>> /\ r[1] = seq[1] BY <1>1, <1>4, <2>1 DEF Sifting
  <2> QED BY <1>1, <2>1, <2>2
<1>5. NoDups(seq) => NoDups(r) BY <1>1 DEF Sifting
<1> QED BY <1>1, <1>2, <1>3, <1>4, <1>5 DEF r, HeadKept

LEMMA AppendOccurs ==
    ASSUME NEW S, NEW q \in Seq(S), NEW v \in S
    PROVE  /\ Append(q, v) \in Seq(S)
           /\ \A x : Occurs(x, Append(q, v)) <=> Occurs(x, q) \/ x = v
           /\ NoDups(q) /\ ~Occurs(v, q) => NoDups(Append(q, v))
           /\ HeadKept(q, Append(q, v)) /\ Append(q, v) # <<>>
<1> DEFINE r == Append(q, v)
<1>1. r \in Seq(S) /\ Len(q) \in Nat /\ Len(r) = Len(q) + 1 OBVIOUS
<1>2. r[Len(q) + 1] = v /\ \A i \in 1..Len(q) : r[i] = q[i] BY <1>1
<1>3. \A i \in 1..Len(r) : i \in 1..Len(q) \/ i = Len(q) + 1 BY <1>1
<1>4. Len(q) + 1 \in 1..Len(r) /\ \A i \in 1..Len(q) : i \in 1..Len(r) BY <1>1
<1> HIDE DEF r
<1>5. \A x : Occurs(x, r) => Occurs(x, q) \/ x = v BY <1>2, <1>3 DEF Occurs
<1>6. \A x : Occurs(x, q) => Occurs(x, r) BY <1>2, <1>4 DEF Occurs
<1>7. Occurs(v, r) BY <1>2, <1>4 DEF Occurs
<1>8. ASSUME NoDups(q), ~Occurs(v, q) PROVE NoDups(r)
  <2> SUFFICES ASSUME NEW i \in 1..Len(r), NEW k \in 1..Len(r), r[i] = r[k] PROVE i = k
    BY DEF NoDups
  <2>1. CASE i = Len(q) + 1 \/ k = Len(q) + 1 BY <1>2, <1>3, <1>8, <2>1 DEF Occurs
  <2>2. CASE i \in 1..Len(q) /\ k \in 1..Len(q) BY <1>2, <1>8, <2>2 DEF NoDups
  <2> QED BY <1>3, <2>1, <2>2
<1>9. r # <<>> BY <1>1
<1>10. q # <<>> => Head(r) = Head(q)
  <2> SUFFICES ASSUME q # <<>> PROVE Head(r) = Head(q) OBVIOUS
  <2>1. 1 \in 1..Len(q) /\ Head(q) = q[1] /\ Head(r) = r[1] BY <1>1, <1>9
  <2> QED BY <1>2, <2>1
<1>11. HeadKept(q, r) BY <1>9, <1>10 DEF HeadKept
<1> QED BY ONLY <1>1, <1>5, <1>6, <1>7, <1>8, <1>9, <1>11 DEF r

LEMMA TailOccurs ==
    ASSUME NEW S, NEW q \in Seq(S), q # <<>>, NoDups(q)
    PROVE  /\ Tail(q) \in Seq(S) /\ NoDups(Tail(q))
           /\ Head(q) \in S /\ Occurs(Head(q), q)
           /\ \A x : Occurs(x, Tail(q)) <=> Occurs(x, q) /\ x # Head(q)
<1> DEFINE r == Tail(q)
<1>1. r \in Seq(S) /\ Len(q) \in Nat /\ Len(q) > 0 /\ Len(r) = Len(q) - 1 /\ Head(q) = q[1] /\ 1 \in 1..Len(q)
  OBVIOUS
<1>2. \A i \in 1..Len(r) : r[i] = q[i + 1] /\ i + 1 \in 1..Len(q) /\ i + 1 # 1 BY <1>1
<1>3. \A i \in 1..Len(q) : i # 1 => i - 1 \in 1..Len(r) /\ r[i - 1] = q[i] BY <1>1
<1> HIDE DEF r
<1>4. Head(q) \in S /\ Occurs(Head(q), q) BY <1>1 DEF Occurs
<1>5. NoDups(r)
  <2> SUFFICES ASSUME NEW i \in 1..Len(r), NEW k \in 1..Len(r), r[i] = r[k] PROVE i = k
    BY DEF NoDups
  <2>1. i + 1 = k + 1 BY <1>2 DEF NoDups
  <2> QED BY <1>1, <2>1
<1>6. ASSUME NEW x, Occurs(x, r) PROVE Occurs(x, q) /\ x # Head(q)
  <2>1. PICK i \in 1..Len(r) : r[i] = x BY <1>6 DEF Occurs
  <2>2. i + 1 \in 1..Len(q) /\ q[i + 1] = x /\ i + 1 # 1 BY <1>2, <2>1
  <2>3. x # q[1] BY <1>1, <2>2 DEF NoDups
  <2> QED BY <1>1, <2>2, <2>3 DEF Occurs
<1>7. ASSUME NEW x, Occurs(x, q), x # Head(q) PROVE Occurs(x, r)
  <2>1. PICK i \in 1..Len(q) : q[i] = x BY <1>7 DEF Occurs
  <2>2. i # 1 BY <1>1, <1>7, <2>1
  <2> QED BY <1>3, <2>1, <2>2 DEF Occurs
<1> QED BY ONLY <1>1, <1>4, <1>5, <1>6, <1>7 DEF r

LEMMA RestOccurs ==
    ASSUME NEW S, NEW q \in Seq(S), q # <<>>, NEW x, Occurs(x, q), x # Head(q)
    PROVE  Tail(q) \in Seq(S) /\ Occurs(x, Tail(q))
<1> DEFINE r == Tail(q)
<1>1. r \in Seq(S) /\ Len(q) \in Nat /\ Len(r) = Len(q) - 1 /\ Head(q) = q[1] OBVIOUS
<1>2. \A i \in 1..Len(q) : i # 1 => i - 1 \in 1..Len(r) /\ r[i - 1] = q[i] BY <1>1
<1>3. PICK i \in 1..Len(q) : q[i] = x BY DEF Occurs
<1>4. i # 1 BY <1>1, <1>3
<1> HIDE DEF r
<1>5. Occurs(x, r) BY <1>2, <1>3, <1>4 DEF Occurs
<1> QED BY <1>1, <1>5 DEF r

LEMMA ConcatOccurs ==
    ASSUME NEW S, NEW q \in Seq(S), NEW p \in Seq(S)
    PROVE  /\ q \o p \in Seq(S)
           /\ \A x : Occurs(x, q \o p) <=> Occurs(x, q) \/ Occurs(x, p)
           /\ NoDups(q) /\ NoDups(p) /\ (\A x : ~(Occurs(x, q) /\ Occurs(x, p))) => NoDups(q \o p)
           /\ HeadKept(q, q \o p)
<1> DEFINE r == q \o p
           n == Len(q)
<1>1. r \in Seq(S) /\ n \in Nat /\ Len(p) \in Nat /\ Len(r) = n + Len(p) OBVIOUS
<1>2. \A i \in 1..n : i \in 1..Len(r) /\ r[i] = q[i] BY <1>1
<1>3. \A j \in 1..Len(p) : j + n \in 1..Len(r) /\ r[j + n] = p[j] BY <1>1
<1>4. \A i \in 1..Len(r) : i \notin 1..n => i - n \in 1..Len(p) /\ r[i] = p[i - n] BY <1>1
<1>5. q # <<>> => r # <<>> /\ Head(r) = Head(q)
  <2> SUFFICES ASSUME q # <<>> PROVE r # <<>> /\ Head(r) = Head(q) OBVIOUS
  <2>1. 1 \in 1..n /\ Head(q) = q[1] BY <1>1
  <2>2. Len(r) # 0 /\ r[1] = q[1] BY <1>1, <1>2, <2>1
  <2> QED BY <1>1, <2>1, <2>2
<1> HIDE DEF r
<1>6. ASSUME NEW x, Occurs(x, r) PROVE Occurs(x, q) \/ Occurs(x, p)
  <2>1. PICK i \in 1..Len(r) : r[i] = x BY <1>6 DEF Occurs
  <2>2. CASE i \in 1..n BY <1>2, <2>1, <2>2 DEF Occurs
  <2>3. CASE i \notin 1..n BY <1>4, <2>1, <2>3 DEF Occurs
  <2> QED BY <2>2, <2>3
<1>7. ASSUME NEW x, Occurs(x, q) \/ Occurs(x, p) PROVE Occurs(x, r)
  <2>1. CASE Occurs(x, q) BY <1>2, <2>1 DEF Occurs
  <2>2. CASE Occurs(x, p) BY <1>3, <2>2 DEF Occurs
  <2> QED BY <1>7, <2>1, <2>2
<1>8. ASSUME NoDups(q), NoDups(p), \A x : ~(Occurs(x, q) /\ Occurs(x, p)) PROVE NoDups(r)
  <2> SUFFICES ASSUME NEW i \in 1..Len(r), NEW k \in 1..Len(r), r[i] = r[k] PROVE i = k
    BY DEF NoDups
  <2>1. CASE i \in 1..n /\ k \in 1..n BY <1>2, <1>8, <2>1 DEF NoDups
  <2>2. CASE i \notin 1..n /\ k \notin 1..n
    <3>1. i - n \in 1..Len(p) /\ k - n \in 1..Len(p) /\ p[i - n] = p[k - n] BY <1>4, <2>2
    <3>2. i - n = k - n BY <1>8, <3>1 DEF NoDups
    <3> QED BY <1>1, <3>2
  <2>3. CASE i \in 1..n /\ k \notin 1..n
    <3>1. Occurs(r[i], q) BY <1>2, <2>3 DEF Occurs
    <3>2. Occurs(r[i], p) BY <1>4, <2>3 DEF Occurs
    <3> QED BY <1>8, <3>1, <3>2
  <2>4. CASE i \notin 1..n /\ k \in 1..n
    <3>1. Occurs(r[k], q) BY <1>2, <2>4 DEF Occurs
    <3>2. Occurs(r[k], p) BY <1>4, <2>4 DEF Occurs
    <3> QED BY <1>8, <3>1, <3>2
  <2> QED BY <2>1, <2>2, <2>3, <2>4
<1> QED BY ONLY <1>1, <1>5, <1>6, <1>7, <1>8 DEF r, HeadKept
----------------------------------------
(* The session: what a snapshot of adverts does to the board of cards. *)

Card == [state : States, at : Devices \cup {None}, code : Codes \cup {None}, forced : BOOLEAN]
Boards == [cards : [Ids -> Card], queue : Seq(Ids), works : BOOLEAN]

LEMMA NoCardIsCard == NoCard \in Card
  BY SessionAssumption DEF NoCard, Card, States

(* The cards of a board that must have a code have one, and the queue holds *)
(* queued cards, each once. *)
BoardOK(b) ==
    /\ \A c \in Ids : b.cards[c].state \in {"ready", "queued", "not_nearby"} => b.cards[c].code # None
    /\ \A c \in Ids : Occurs(c, b.queue) => b.cards[c].state = "queued"
    /\ NoDups(b.queue)

(* The cards that nobody need come to. *)
Left(q) == \A c \in Ids : Occurs(c, q) => c \in forgotten

AllQueued(b) == \A c \in Ids \ forgotten : b.cards[c].state = "queued" => Occurs(c, b.queue)

Served(b) == AllQueued(b) /\ (b.works \/ Left(b.queue))

(* What a snapshot may do to a card. *)
CardMoves(x, y) ==
    \/ y = x
    \/ /\ x.state \in {"found", "not_nearby"}
       /\ y = NoCard \/ (y.state \in {"ready", "queued"} /\ y.code # None)

BoardMoves(b, d) ==
    /\ d \in Boards /\ BoardOK(d) /\ (Served(b) => Served(d)) /\ (b.works => d.works)
    /\ \A c \in Ids : CardMoves(b.cards[c], d.cards[c])
    /\ HeadKept(b.queue, d.queue)

LEMMA StartableIs == ASSUME NEW b PROVE Startable(b) \in {"ready", "queued"}
  BY DEF Startable

(* Two boards agree on all cards but c, which is y on the second. *)
Alters(b, c, y, m) == m.cards[c] = y /\ \A e \in Ids : e # c => m.cards[e] = b.cards[e]

(* A card gets a new place: it was not queued before. *)
LEMMA PlaceCard ==
    ASSUME NEW b \in Boards, BoardOK(b), NEW c \in Ids, NEW y \in Card,
           b.cards[c].state # "queued", y.state \in {"ready", "queued", "not_nearby"} => y.code # None,
           NEW m \in Boards, Alters(b, c, y, m), m.queue = b.queue, m.works = b.works
    PROVE  /\ Enqueued(m, c) \in Boards /\ BoardOK(Enqueued(m, c))
           /\ (Served(b) => Served(Enqueued(m, c))) /\ (b.works => Enqueued(m, c).works)
           /\ Enqueued(m, c).cards = m.cards
           /\ HeadKept(b.queue, Enqueued(m, c).queue)
           /\ y.state # "queued" => Enqueued(m, c).queue = b.queue
           /\ y.state = "queued" => Enqueued(m, c).queue = Append(b.queue, c)
<1> DEFINE d == Enqueued(m, c)
           q == b.queue
<1>0. d = Enqueued(m, c) OBVIOUS
<1> HIDE DEF d
<1>1. b.cards \in [Ids -> Card] /\ q \in Seq(Ids) BY DEF Boards
<1>2. m.queue = q /\ m.cards \in [Ids -> Card] /\ m \in Boards BY <1>1 DEF Boards
<1>3. m.cards[c] = y /\ \A e \in Ids : e # c => m.cards[e] = b.cards[e] BY DEF Alters
<1>4. ~Occurs(c, q) /\ c \notin ToSet(q)
  <2>1. ~Occurs(c, q) BY DEF BoardOK
  <2> QED BY <1>1, <2>1 DEF ToSet, Occurs
<1>5. CASE y.state = "queued"
  <2>1. d = [m EXCEPT !.queue = Append(q, c), !.works = @ \/ Append(q, c) # <<>>]
    BY <1>0, <1>2, <1>3, <1>4, <1>5 DEF Enqueued
  <2>a. /\ Append(q, c) \in Seq(Ids) /\ HeadKept(q, Append(q, c)) /\ NoDups(Append(q, c))
        /\ \A x : Occurs(x, Append(q, c)) <=> Occurs(x, q) \/ x = c
    <3>1. NoDups(q) BY DEF BoardOK
    <3> QED BY ONLY <1>1, <1>4, <3>1, AppendOccurs, c \in Ids
  <2>b. Append(q, c) # <<>> BY ONLY <1>1, c \in Ids
  <2>2. d.cards = m.cards /\ d.queue = Append(q, c) /\ d \in Boards /\ d.works
    <3>1. d = [m EXCEPT !.queue = Append(q, c), !.works = TRUE] BY <2>1, <2>b
    <3> HIDE DEF q
    <3> QED BY ONLY <1>2, <2>a, <3>1 DEF Boards
  <2>3. /\ \A x : Occurs(x, d.queue) <=> Occurs(x, q) \/ x = c
        /\ NoDups(d.queue) /\ HeadKept(q, d.queue)
    BY ONLY <2>a, <2>2
  <2>4. BoardOK(d) BY <1>2, <1>3, <1>5, <2>2, <2>3 DEF BoardOK
  <2>5. Served(b) => Served(d)
    <3> SUFFICES ASSUME AllQueued(b), NEW e \in Ids \ forgotten, d.cards[e].state = "queued"
                 PROVE  Occurs(e, d.queue)
      BY <2>2 DEF Served, AllQueued
    <3>1. e # c => Occurs(e, q) BY <1>3, <2>2 DEF AllQueued
    <3> QED BY <2>3, <3>1
  <2> QED BY <1>2, <1>5, <2>2, <2>3, <2>4, <2>5, <1>0
<1>6. CASE y.state # "queued"
  <2>1. d = [m EXCEPT !.queue = q, !.works = @ \/ q # <<>>] BY <1>0, <1>2, <1>3, <1>6 DEF Enqueued
  <2>2. /\ d.cards = m.cards /\ d.queue = q /\ d \in Boards
        /\ d.works <=> m.works \/ q # <<>>
    <3>1. (m.works \/ q # <<>>) \in BOOLEAN OBVIOUS
    <3> HIDE DEF q
    <3> QED BY ONLY <1>1, <1>2, <2>1, <3>1 DEF Boards
  <2>4. BoardOK(d) BY <1>2, <1>3, <1>6, <1>4, <2>2 DEF BoardOK
  <2>5. Served(b) => Served(d) BY <1>2, <1>3, <1>6, <2>2 DEF Served, AllQueued, Left
  <2>6. HeadKept(q, q) BY DEF HeadKept
  <2> QED BY <1>2, <1>6, <2>2, <2>4, <2>5, <2>6, <1>0
<1> QED BY <1>5, <1>6

(* A card that is not queued leaves the board. *)
LEMMA DroppedIs ==
    ASSUME NEW b \in Boards, NEW c \in Ids
    PROVE  /\ Dropped(b, c).cards = [b.cards EXCEPT ![c] = NoCard]
           /\ Dropped(b, c).queue = Without(b.queue, c)
           /\ Dropped(b, c).works = b.works /\ Dropped(b, c) \in Boards
<1> DEFINE d == Dropped(b, c)
<1>1. b.cards \in [Ids -> Card] /\ b.queue \in Seq(Ids) BY DEF Boards
<1>2. /\ d.cards = [b.cards EXCEPT ![c] = NoCard] /\ d.queue = Without(b.queue, c)
      /\ d.works = b.works
  BY DEF Dropped, Boards
<1>3. d.queue \in Seq(Ids) BY <1>1, <1>2, SiftedOccurs DEF Without
<1>4. d \in Boards BY <1>1, <1>2, <1>3, NoCardIsCard DEF Boards, Dropped
<1> QED BY <1>2, <1>4

LEMMA DropCard ==
    ASSUME NEW b \in Boards, BoardOK(b), NEW c \in Ids, b.cards[c].state # "queued"
    PROVE  /\ Dropped(b, c) \in Boards /\ BoardOK(Dropped(b, c))
           /\ Dropped(b, c).cards = [b.cards EXCEPT ![c] = NoCard]
           /\ Dropped(b, c).works = b.works /\ (Served(b) => Served(Dropped(b, c)))
           /\ HeadKept(b.queue, Dropped(b, c).queue)
<1> DEFINE d == Dropped(b, c)
<1>1. b.cards \in [Ids -> Card] /\ b.queue \in Seq(Ids) BY DEF Boards
<1>2. /\ d.cards = [b.cards EXCEPT ![c] = NoCard] /\ d.queue = Sifted(b.queue, Ids \ {c})
      /\ d.works = b.works
  BY DroppedIs DEF Without
<1>3. /\ d.queue \in Seq(Ids)
      /\ NoDups(b.queue) => NoDups(d.queue)
      /\ \A x : Occurs(x, d.queue) <=> Occurs(x, b.queue) /\ x \in Ids \ {c}
      /\ b.queue # <<>> /\ Head(b.queue) \in Ids \ {c} => HeadKept(b.queue, d.queue)
  BY <1>1, <1>2, SiftedOccurs
<1>4. d \in Boards BY DroppedIs
<1>5. d.cards[c] = NoCard /\ \A e \in Ids : e # c => d.cards[e] = b.cards[e] BY <1>1, <1>2
<1>6. NoCard.state = "none" BY DEF NoCard
<1>7. ~Occurs(c, b.queue) BY DEF BoardOK
<1>8. b.queue # <<>> => Head(b.queue) \in Ids \ {c} BY <1>1, <1>7, TailOccurs DEF BoardOK
<1> HIDE DEF d
<1>9. HeadKept(b.queue, d.queue) BY <1>3, <1>8 DEF HeadKept
<1>10. BoardOK(d) BY <1>3, <1>5, <1>6 DEF BoardOK
<1>11. Served(b) => Served(d) BY <1>2, <1>3, <1>5, <1>6 DEF Served, AllQueued, Left
<1> QED BY <1>2, <1>4, <1>9, <1>10, <1>11 DEF d

LEMMA MovesTransitively ==
    ASSUME NEW b \in Boards, NEW d \in Boards, NEW e \in Boards, BoardMoves(b, d), BoardMoves(d, e)
    PROVE  BoardMoves(b, e)
<1>1. \A c \in Ids : CardMoves(b.cards[c], e.cards[c])
  <2> TAKE c \in Ids
  <2>1. CardMoves(b.cards[c], d.cards[c]) /\ CardMoves(d.cards[c], e.cards[c]) BY DEF BoardMoves
  <2>2. NoCard.state = "none" BY DEF NoCard
  <2> QED BY <2>1, <2>2 DEF CardMoves
<1>2. HeadKept(b.queue, e.queue) BY DEF BoardMoves, HeadKept
<1> QED BY <1>1, <1>2 DEF BoardMoves

LEMMA RematchedMoves ==
    ASSUME NEW b \in Boards, BoardOK(b), NEW c \in Ids, NEW seen
    PROVE  BoardMoves(b, Rematched(b, c, seen))
<1> DEFINE card == b.cards[c]
           found == Matching(b, card.code, seen)
           f == CHOOSE f \in found : TRUE
<1>0. BoardMoves(b, b) BY DEF BoardMoves, CardMoves, HeadKept
<1>1. CASE card.state # "not_nearby" BY <1>0, <1>1 DEF Rematched
<1>2. ASSUME card.state = "not_nearby", card.at # None PROVE BoardMoves(b, Rematched(b, c, seen))
  <2>1. CASE card.at \notin seen BY <1>0, <1>2, <2>1 DEF Rematched
  <2>2. CASE card.at \in seen
    <3> DEFINE y == [card EXCEPT !.state = Startable(b)]
    <3>1. b.cards \in [Ids -> Card] /\ card \in Card BY DEF Boards
    <3>2. y \in Card /\ y.state \in {"ready", "queued"} /\ y.code = card.code /\ y.code # None
      BY <1>2, <3>1, StartableIs DEF Card, States, BoardOK
    <3> DEFINE m == [b EXCEPT !.cards[c].state = Startable(b)]
    <3>3. m \in Boards /\ Alters(b, c, y, m) /\ m.queue = b.queue /\ m.works = b.works
      BY <3>1, <3>2 DEF Boards, Alters
    <3>4. Rematched(b, c, seen) = Enqueued(m, c) BY <1>2, <2>2 DEF Rematched
    <3> HIDE DEF y, m
    <3> DEFINE d == Enqueued(m, c)
    <3>5. /\ d \in Boards /\ BoardOK(d) /\ (Served(b) => Served(d)) /\ (b.works => d.works)
          /\ d.cards = m.cards /\ HeadKept(b.queue, d.queue)
      BY <1>2, <3>2, <3>3, PlaceCard
    <3> HIDE DEF d
    <3>6. \A e \in Ids : CardMoves(b.cards[e], d.cards[e])
      BY <1>2, <3>1, <3>2, <3>3, <3>5 DEF CardMoves, Alters
    <3> QED BY <3>4, <3>5, <3>6 DEF BoardMoves, d
  <2> QED BY <2>1, <2>2
<1>3. ASSUME card.state = "not_nearby", card.at = None PROVE BoardMoves(b, Rematched(b, c, seen))
  <2>1. CASE Cardinality(found) # 1 BY <1>0, <1>3, <2>1 DEF Rematched
  <2>2. CASE Cardinality(found) = 1
    <3>1. b.cards \in [Ids -> Card] /\ card \in Card BY DEF Boards
    <3>2. f \in Ids /\ b.cards[f].state = "found" /\ f # c
      <4>1. found # {} BY <2>2, FS_EmptySet
      <4>2. f \in found BY <4>1
      <4> QED BY <1>3, <4>2 DEF Matching
    <3> DEFINE y == [b.cards[f] EXCEPT !.state = Startable(b), !.code = card.code]
               m == [b EXCEPT !.cards[f].state = Startable(b), !.cards[f].code = card.code]
               d == Dropped(m, c)
               e == Enqueued(d, f)
               d0 == Dropped(b, c)
    <3>3. y \in Card /\ y.state \in {"ready", "queued"} /\ y.code = card.code /\ y.code # None
      BY <1>3, <3>1, <3>2, StartableIs DEF Card, States, BoardOK
    <3>4. Rematched(b, c, seen) = e BY <1>3, <2>2 DEF Rematched
    <3>5. /\ m.queue = b.queue /\ m.works = b.works /\ m.cards = [b.cards EXCEPT ![f] = y]
          /\ m \in Boards
      <4> HIDE DEF f
      <4>1. b = [cards |-> b.cards, queue |-> b.queue, works |-> b.works] BY DEF Boards
      <4>2. m.queue = b.queue /\ m.works = b.works /\ m.cards = [b.cards EXCEPT ![f] = y]
        BY <3>1, <3>2, <4>1 DEF Boards
      <4>3. m.cards \in [Ids -> Card] BY <3>1, <3>2, <3>3, <4>2
      <4>4. m \in Boards BY <3>1, <3>2, <4>1, <4>2, <4>3 DEF Boards
      <4> QED BY <4>2, <4>4
    <3> HIDE DEF f, y, m
    (* The drop and the placing are independent of each other. *)
    <3>6. /\ d0 \in Boards /\ BoardOK(d0) /\ d0.cards = [b.cards EXCEPT ![c] = NoCard]
          /\ (Served(b) => Served(d0)) /\ d0.works = b.works /\ HeadKept(b.queue, d0.queue)
      BY <1>3, DropCard
    <3>7. /\ d.cards = [m.cards EXCEPT ![c] = NoCard] /\ d.queue = d0.queue /\ d.works = d0.works
          /\ d \in Boards
      <4>1. /\ d.cards = [m.cards EXCEPT ![c] = NoCard] /\ d.queue = Without(m.queue, c)
            /\ d.works = m.works /\ d \in Boards
        BY <3>5, DroppedIs
      <4>2. d0.queue = Without(b.queue, c) BY DroppedIs
      <4> QED BY ONLY <3>5, <3>6, <4>1, <4>2
    <3> HIDE DEF d, d0
    <3>8. d0.cards[f] = b.cards[f] /\ d0.cards[f].state # "queued" /\ Alters(d0, f, y, d)
      BY <3>1, <3>2, <3>5, <3>6, <3>7 DEF Alters
    <3>9. /\ e \in Boards /\ BoardOK(e) /\ (Served(d0) => Served(e)) /\ (d0.works => e.works)
          /\ e.cards = d.cards /\ HeadKept(d0.queue, e.queue)
      <4>1. d0 \in Boards /\ BoardOK(d0) /\ f \in Ids /\ y \in Card /\ d0.cards[f].state # "queued"
        BY <3>2, <3>3, <3>6, <3>8
      <4>2. y.state \in {"ready", "queued", "not_nearby"} => y.code # None BY <3>3
      <4>3. d \in Boards /\ Alters(d0, f, y, d) /\ d.queue = d0.queue /\ d.works = d0.works
        BY <3>7, <3>8
      <4> QED BY ONLY <4>1, <4>2, <4>3, PlaceCard
    <3> HIDE DEF e
    <3>10. \A i \in Ids : CardMoves(b.cards[i], e.cards[i])
      BY <1>3, <3>1, <3>2, <3>3, <3>6, <3>8, <3>9 DEF CardMoves, Alters
    <3>11. HeadKept(b.queue, e.queue) BY <3>6, <3>9 DEF HeadKept
    <3> QED BY <3>4, <3>6, <3>9, <3>10, <3>11 DEF BoardMoves
  <2> QED BY <2>1, <2>2
<1> QED BY <1>1, <1>2, <1>3

LEMMA SnapshotMoves ==
    ASSUME NEW seen, Board \in Boards, BoardOK(Board)
    PROVE  BoardMoves(Board, AfterSnapshot(seen))
<1> DEFINE unseen == {c \in Ids : cards[c].state = "found" /\ cards[c].at \notin seen}
           kept == [Board EXCEPT !.cards = [e \in Ids |-> IF e \in unseen THEN NoCard ELSE @[e]]]
           X == {d \in Boards : BoardMoves(Board, d)}
           upTo[c \in 0..MaxCards] == IF c = 0 THEN kept ELSE Rematched(upTo[c - 1], c, seen)
           step == [c \in 1..MaxCards |-> [d \in X |-> Rematched(d, c, seen)]]
<1>1. cards \in [Ids -> Card] /\ queue \in Seq(Ids) /\ Board.cards = cards /\ Board.queue = queue
  BY DEF Board, Boards
<1>a. WorkerActive \in BOOLEAN /\ Board.works = WorkerActive BY DEF Board, WorkerActive
<1>2. kept \in X
  <2> DEFINE g == [e \in Ids |-> IF e \in unseen THEN NoCard ELSE cards[e]]
  <2>1. kept.cards = g /\ kept.queue = queue /\ kept.works = WorkerActive BY <1>1 DEF Board
  <2>2. g \in [Ids -> Card] BY <1>1, NoCardIsCard
  <2>3. kept \in Boards BY <1>1, <1>a, <2>1, <2>2 DEF Boards, Board
  <2>4. \A e \in Ids : IF e \in unseen THEN cards[e].state = "found" /\ kept.cards[e] = NoCard
                                       ELSE kept.cards[e] = cards[e]
    BY <1>1, <2>1
  <2>5. NoCard.state = "none" BY DEF NoCard
  <2> HIDE DEF kept, unseen
  <2>6. BoardOK(kept) BY <1>1, <2>1, <2>4, <2>5 DEF BoardOK
  <2>7. (Served(Board) => Served(kept)) /\ (Board.works => kept.works)
    BY <1>1, <1>a, <2>1, <2>4, <2>5 DEF Served, AllQueued
  <2>8. \A c \in Ids : CardMoves(Board.cards[c], kept.cards[c]) BY <1>1, <2>4 DEF CardMoves
  <2>9. HeadKept(Board.queue, kept.queue) BY <1>1, <2>1 DEF HeadKept
  <2> QED BY <2>3, <2>6, <2>7, <2>8, <2>9 DEF BoardMoves
<1> HIDE DEF kept, unseen
<1>3. step \in [1..MaxCards -> [X -> X]]
  <2> SUFFICES ASSUME NEW c \in 1..MaxCards, NEW d \in X PROVE Rematched(d, c, seen) \in X OBVIOUS
  <2>1. d \in Boards /\ BoardOK(d) /\ BoardMoves(Board, d) /\ c \in Ids BY DEF BoardMoves, Ids
  <2>2. BoardMoves(d, Rematched(d, c, seen)) BY <2>1, RematchedMoves
  <2>3. Rematched(d, c, seen) \in Boards BY <2>2 DEF BoardMoves
  <2> QED BY <2>1, <2>2, <2>3, MovesTransitively
<1>4. MaxCards \in Nat BY SessionAssumption
<1>5. PICK f \in [0..MaxCards -> X] : Climbs(MaxCards, kept, step, f)
  <2> HIDE DEF X, step
  <2> QED BY <1>2, <1>3, <1>4, StepByStep
<1>6. f = [c \in 0..MaxCards |-> IF c = 0 THEN kept ELSE Rematched(f[c - 1], c, seen)]
  <2>1. \A c \in 1..MaxCards : f[c] = Rematched(f[c - 1], c, seen)
    <3> TAKE c \in 1..MaxCards
    <3>1. c - 1 \in 0..MaxCards BY <1>4
    <3>2. f[c - 1] \in X BY <3>1
    <3>3. f[c] = step[c][f[c - 1]] BY <1>5 DEF Climbs
    <3> HIDE DEF X
    <3> QED BY <3>2, <3>3
  <2>2. \A c \in 0..MaxCards : c # 0 => c \in 1..MaxCards BY <1>4
  <2>3. f[0] = kept BY <1>5 DEF Climbs
  <2> HIDE DEF X
  <2>4. \A c \in 0..MaxCards : f[c] = IF c = 0 THEN kept ELSE Rematched(f[c - 1], c, seen)
    BY <2>1, <2>2, <2>3
  <2> QED BY <2>4
<1>7. upTo = [c \in 0..MaxCards |-> IF c = 0 THEN kept ELSE Rematched(upTo[c - 1], c, seen)]
  BY <1>6
<1>8. AfterSnapshot(seen) = upTo[MaxCards] BY DEF AfterSnapshot, kept, unseen
<1>9. upTo[0] = kept /\ \A c \in 1..MaxCards : upTo[c] = Rematched(upTo[c - 1], c, seen)
  <2> HIDE DEF upTo
  <2>1. 0 \in 0..MaxCards /\ \A c \in 1..MaxCards : c \in 0..MaxCards /\ c # 0 BY <1>4
  <2> QED BY ONLY <1>7, <2>1
<1> HIDE DEF upTo
<1> DEFINE good == {c \in 0..MaxCards : upTo[c] \in X}
<1>10. 0 \in good BY <1>2, <1>4, <1>9
<1>11. ASSUME NEW c \in 1..MaxCards, c - 1 \in good PROVE c \in good
  <2>1. step[c][upTo[c - 1]] \in X /\ c \in 0..MaxCards BY <1>3, <1>4, <1>11
  <2> QED BY <1>9, <1>11, <2>1
<1>12. good \in SUBSET (0..MaxCards) OBVIOUS
<1>13. MaxCards \in good
  <2> HIDE DEF good
  <2>1. \A i \in 0..MaxCards : i \in good BY ONLY <1>4, <1>10, <1>11, <1>12, Upward
  <2> QED BY <1>4, <2>1
<1> QED BY <1>8, <1>13
----------------------------------------
(* The session: the inductive invariant. *)

RadioStages == {"scanning", "taking", "looking", "warning"}

(* The worker has its next card, and has not begun to commission it. *)
Picked == stage["work"] \in RadioStages /\ ~work.again

PreRun == stage["work"] = "radio" \/ Picked

(* The worker commissions its card, or scans between the two attempts. *)
Running == stage["work"] = "commission" \/ (stage["work"] \in RadioStages /\ work.again)

Typed ==
    /\ cards \in [Ids -> Card] /\ created \in 0..MaxCards
    /\ queue \in Seq(Ids) /\ naming \in Seq(Ids)
    /\ latest \subseteq Devices /\ dismissed \subseteq Devices
    /\ radio \in Scanners \cup {"free"} /\ forgotten \subseteq Ids
    /\ stage \in [Tasks -> Stages]
    /\ todo \in [Tasks -> SUBSET Devices]
    /\ look \in [Tasks -> Devices \cup {None}]
    /\ work \in [card : 0..MaxCards, at : Devices \cup {None},
                code : Codes \cup {None}, again : BOOLEAN]
    /\ adding \in [Adders -> [code : Codes \cup {None}, ran : BOOLEAN, startable : BOOLEAN]]
    /\ up \in BOOLEAN /\ removals \in 0..MaxRemovals /\ drops \in 0..MaxDrops

LEMMA TypedIsTypeOK == TypeOK <=> Typed /\ results \in Seq(Scanners) /\ loop \in Tasks \cup {None}
  BY DEF TypeOK, Typed, Card

CardsInv ==
    /\ \A c \in Ids : (c > created => cards[c] = NoCard) /\ (cards[c].state = "none" => cards[c] = NoCard)
    /\ BoardOK(Board)

NamingInv ==
    /\ \A c \in Ids : Occurs(c, naming) <=> cards[c].state = "naming"
    /\ NoDups(naming)

StagesInv ==
    /\ \A a \in Adders : /\ stage[a] \in {"off", "looking", "label"}
                         /\ stage[a] # "off" => adding[a].code \in Codes
    /\ \A s \in Scans : stage[s] \in RadioStages \cup {"off"}
    /\ stage["work"] # "label"

WorkInv ==
    /\ PreRun => /\ work.card \in 1..created
                 /\ \/ cards[work.card].state = "none"
                    \/ cards[work.card].state = "queued" /\ queue # <<>> /\ Head(queue) = work.card
    /\ Running => work.card \in 1..created /\ cards[work.card].state = "running"
    /\ \A c \in Ids : cards[c].state = "running" => Running /\ c = work.card

(* Every queued card is in the queue, and the queue has a worker, but for the *)
(* forgotten ones; and a card the worker scans for had a code. *)
ServedInv == Served(Board) /\ (Picked => work.code # None)

SessionInv ==
    /\ Typed /\ CardsInv /\ NamingInv /\ StagesInv /\ WorkInv /\ RadioHeldByWork
    /\ FoundOnce /\ ServedInv

RunningStep ==
    \A c \in Ids : cards[c].state = "running" /\ cards'[c] # cards[c]
                   => c = work.card /\ stage["work"] # stage'["work"]

Keeps == SessionInv' /\ RunningStep

LEMMA SessionInit == Init => SessionInv
<1> SUFFICES ASSUME Init PROVE SessionInv OBVIOUS
<1> USE SessionAssumption DEF Init
<1>0. MaxCards \in Nat /\ MaxRemovals \in Nat /\ MaxDrops \in Nat /\ \A c \in Ids : cards[c] = NoCard /\ NoCard.state = "none"
  BY DEF NoCard
<1>1. Typed
  <2>1. cards \in [Ids -> Card] /\ created \in 0..MaxCards /\ queue \in Seq(Ids) /\ naming \in Seq(Ids)
    BY <1>0, NoCardIsCard
  <2>2. work \in [card : 0..MaxCards, at : Devices \cup {None}, code : Codes \cup {None}, again : BOOLEAN]
    BY <1>0 DEF NoWork
  <2>3. adding \in [Adders -> [code : Codes \cup {None}, ran : BOOLEAN, startable : BOOLEAN]]
    BY DEF NoAdd
  <2>4. up \in BOOLEAN /\ removals \in 0..MaxRemovals /\ drops \in 0..MaxDrops BY <1>0
  <2> QED BY <2>1, <2>2, <2>3, <2>4 DEF Typed, Stages, Scanners
<1>2. CardsInv /\ NamingInv BY <1>0 DEF CardsInv, NamingInv, BoardOK, Board, Occurs, NoDups
<1>3. \A t \in Tasks : stage[t] = "off" OBVIOUS
<1>4. Scans \subseteq Tasks /\ "work" \in Tasks /\ Adders \subseteq Tasks
      /\ "free" \notin Scans
  BY DEF Tasks, Scanners
<1>5. ~PreRun /\ ~Picked /\ ~Running BY <1>3, <1>4 DEF PreRun, Picked, Running, RadioStages
<1>6. StagesInv /\ WorkInv /\ RadioHeldByWork
  BY <1>0, <1>3, <1>4, <1>5 DEF StagesInv, WorkInv, RadioHeldByWork
<1>7. FoundOnce /\ ServedInv
  <2>1. \A c \in Ids : ~Occurs(c, queue) BY DEF Occurs
  <2> QED BY <1>0, <1>5, <2>1 DEF FoundOnce, ServedInv, Served, AllQueued, Left, Board
<1> QED BY <1>1, <1>2, <1>6, <1>7 DEF SessionInv

LEMMA TaskNames ==
    /\ Scans \subseteq Tasks /\ "work" \in Tasks /\ Adders \subseteq Tasks
    /\ Scanners \subseteq Tasks /\ "work" \in Scanners /\ Scans \subseteq Scanners
    /\ \A s \in Scans : s # "work" /\ s # "free" /\ s \notin Adders
    /\ \A a \in Adders : a \notin Scans /\ a # "work" /\ a \in Tasks
    /\ \A t \in Tasks : t \in Scans \/ t = "work" \/ t \in Adders
    /\ MaxCards \in Nat /\ MaxRemovals \in Nat /\ MaxDrops \in Nat
    /\ None \notin Devices /\ None \notin Codes /\ None \notin Tasks
  BY SessionAssumption DEF Tasks, Scanners

LEMMA CardFields ==
    ASSUME Typed
    PROVE  /\ cards \in [Ids -> Card] /\ \A c \in Ids : cards[c] \in Card
           /\ Board \in Boards /\ Board.cards = cards /\ Board.queue = queue
           /\ Board.works = WorkerActive
           /\ 1..created \subseteq Ids /\ created \in 0..MaxCards
           /\ NoCard.state = "none" /\ NoCard.code = None /\ NoCard.at = None
<1>1. cards \in [Ids -> Card] /\ queue \in Seq(Ids) /\ created \in 0..MaxCards BY DEF Typed
<1>2. /\ Board \in Boards /\ Board.cards = cards /\ Board.queue = queue
      /\ Board.works = WorkerActive
  BY <1>1 DEF Board, Boards, WorkerActive
<1>3. NoCard.state = "none" /\ NoCard.code = None /\ NoCard.at = None BY DEF NoCard
<1>4. 1..created \subseteq Ids BY <1>1, SessionAssumption DEF Ids
<1>5. \A c \in Ids : cards[c] \in Card BY <1>1
<1> QED BY <1>1, <1>2, <1>3, <1>4, <1>5

(* The worker stays where it is, or goes on without a card or with the same one. *)
WorkerKeeps ==
    \/ stage'["work"] = stage["work"]
    \/ stage["work"] = "off" /\ stage'["work"] = "loop"
    \/ stage["work"] = "loop" /\ stage'["work"] = "off"
    \/ stage["work"] \in RadioStages /\ stage'["work"] \in RadioStages
    \/ stage["work"] \in RadioStages /\ stage'["work"] = "commission" /\ work.again

Waits(c) == \/ cards[c].state = "none"
            \/ cards[c].state = "queued" /\ queue # <<>> /\ Head(queue) = c

LEMMA SamePlace ==
    ASSUME WorkerKeeps, work' = work
    PROVE  (PreRun' => PreRun) /\ (Picked' => Picked) /\ (Running' <=> Running)
  BY DEF WorkerKeeps, PreRun, Picked, Running, RadioStages

(* Steps that leave the running card alone, and the worker with its card. *)
LEMMA CardsChange ==
    ASSUME SessionInv, Typed', CardsInv', NamingInv', StagesInv', RadioHeldByWork', FoundOnce',
           ServedInv', work' = work, 1..created \subseteq 1..created', WorkerKeeps,
           PreRun => Waits(work.card)',
           \A c \in Ids : cards[c].state = "running" \/ cards'[c].state = "running"
                           => cards'[c] = cards[c]
    PROVE  Keeps
<1>1. (PreRun' => PreRun) /\ (Running' <=> Running) BY SamePlace
<1>2. /\ PreRun => work.card \in 1..created
      /\ Running => work.card \in 1..created /\ cards[work.card].state = "running"
      /\ \A c \in Ids : cards[c].state = "running" => Running /\ c = work.card
  BY DEF SessionInv, WorkInv
<1>3. 1..created \subseteq Ids BY CardFields DEF SessionInv
<1>4. PreRun' => work'.card \in 1..created' /\ Waits(work.card)' BY <1>1, <1>2
<1>5. Running' => work'.card \in 1..created' /\ cards'[work'.card].state = "running"
  <2> SUFFICES ASSUME Running' PROVE work'.card \in 1..created' /\ cards'[work'.card].state = "running"
    OBVIOUS
  <2>1. Running /\ work.card \in 1..created /\ cards[work.card].state = "running" /\ work.card \in Ids
    BY <1>1, <1>2, <1>3
  <2> QED BY <2>1
<1>6. \A c \in Ids : cards'[c].state = "running" => Running' /\ c = work'.card BY <1>1, <1>2
<1>7. WorkInv' BY <1>4, <1>5, <1>6 DEF WorkInv, Waits
<1>8. RunningStep BY DEF RunningStep
<1> QED BY <1>7, <1>8 DEF SessionInv, Keeps

(* Steps that touch neither cards nor lines. *)
LEMMA BoardStands ==
    ASSUME SessionInv, Typed', StagesInv', RadioHeldByWork', WorkerKeeps,
           UNCHANGED <<cards, created, queue, naming, work, forgotten>>,
           stage'["work"] = "off" /\ stage["work"] # "off" => queue = <<>>
    PROVE  Keeps
<1>1. CardsInv' /\ NamingInv' /\ FoundOnce'
  BY DEF SessionInv, CardsInv, NamingInv, FoundOnce, BoardOK, Board
<1>2. PreRun => Waits(work.card)' BY DEF SessionInv, WorkInv, Waits
<1>3. Picked' => Picked BY SamePlace
<1>4. ServedInv'
  <2>1. queue = <<>> => \A c \in Ids : ~Occurs(c, queue) BY DEF Occurs
  <2> QED BY <1>3, <2>1 DEF SessionInv, ServedInv, Served, AllQueued, Left, Board, WorkerActive
<1>5. 1..created \subseteq 1..created' OBVIOUS
<1>6. \A c \in Ids : cards[c].state = "running" \/ cards'[c].state = "running" => cards'[c] = cards[c]
  OBVIOUS
<1>7. work' = work OBVIOUS
<1> QED BY ONLY <1>1, <1>2, <1>4, <1>5, <1>6, <1>7, CardsChange, SessionInv, Typed', StagesInv',
                RadioHeldByWork', WorkerKeeps

(* Steps that put cards into the queue, at its end, or give them to the user. *)
LEMMA QueueGrows ==
    ASSUME SessionInv, Typed', NamingInv', StagesInv', RadioHeldByWork', FoundOnce',
           work' = work, 1..created \subseteq 1..created', WorkerKeeps,
           \A c \in Ids : c > created' \/ cards'[c].state = "none" => cards'[c] = NoCard,
           BoardOK(Board)', Served(Board)', HeadKept(queue, queue'),
           \A c \in 1..created : cards[c].state = "none" => cards'[c].state = "none",
           \A c \in Ids : cards[c].state = "queued" => cards'[c].state = "queued",
           \A c \in Ids : cards[c].state = "running" \/ cards'[c].state = "running"
                           => cards'[c] = cards[c]
    PROVE  Keeps
<1>1. CardsInv' BY DEF CardsInv
<1>2. /\ PreRun => work.card \in 1..created /\ Waits(work.card)
      /\ 1..created \subseteq Ids
  BY CardFields DEF SessionInv, WorkInv, Waits
<1>3. PreRun => Waits(work.card)' BY <1>2 DEF Waits, HeadKept
<1>4. Picked' => Picked BY SamePlace
<1>5. ServedInv' BY <1>4 DEF SessionInv, ServedInv
<1> QED BY <1>1, <1>3, <1>5, CardsChange
----------------------------------------
(* The session: scans and labels that leave the cards alone. *)

(* One task goes to another stage. *)
LEMMA StageMoves ==
    ASSUME Typed, StagesInv, NEW t \in Tasks, NEW s \in Stages, stage' = [stage EXCEPT ![t] = s]
    PROVE  /\ stage' \in [Tasks -> Stages] /\ stage'[t] = s
           /\ \A u \in Tasks : u # t => stage'[u] = stage[u]
  BY DEF Typed

LEMMA StagesStand ==
    ASSUME SessionInv, NEW t \in Tasks, NEW s \in Stages, stage' = [stage EXCEPT ![t] = s],
           t \in Adders => /\ s \in {"off", "looking", "label"}
                           /\ s # "off" => adding'[t].code \in Codes,
           t \in Scans => s \in RadioStages \cup {"off"}, t = "work" => s # "label",
           \A a \in Adders : a # t => adding'[a] = adding[a]
    PROVE  StagesInv'
<1>1. stage'[t] = s /\ \A u \in Tasks : u # t => stage'[u] = stage[u] BY DEF SessionInv, Typed
<1>2. \A a \in Adders : /\ stage'[a] \in {"off", "looking", "label"}
                        /\ stage'[a] # "off" => adding'[a].code \in Codes
  <2> TAKE a \in Adders
  <2>1. CASE a = t BY <1>1, <2>1
  <2>2. CASE a # t
    <3>1. stage'[a] = stage[a] /\ adding'[a] = adding[a] BY <1>1, <2>2, TaskNames
    <3> QED BY <3>1 DEF SessionInv, StagesInv
  <2> QED BY <2>1, <2>2
<1>3. /\ \A u \in Scans : stage'[u] \in RadioStages \cup {"off"}
      /\ stage'["work"] # "label"
  BY <1>1, TaskNames DEF SessionInv, StagesInv
<1> QED BY <1>2, <1>3 DEF StagesInv

LEMMA ScanKeeps == ASSUME SessionInv, NEW s \in Scans, Scan(s) PROVE Keeps
<1> USE DEF Scan
<1>1. stage'[s] = "scanning" /\ \A t \in Tasks : t # s => stage'[t] = stage[t]
  BY TaskNames DEF SessionInv, Typed
<1>2. Typed' BY TaskNames DEF SessionInv, Typed, Stages
<1>3. StagesInv' BY TaskNames, StagesStand DEF RadioStages, Stages
<1>4. RadioHeldByWork' BY <1>1, TaskNames DEF SessionInv, RadioHeldByWork
<1>5. WorkerKeeps BY <1>1, TaskNames DEF WorkerKeeps
<1>6. stage'["work"] = stage["work"] BY <1>1, TaskNames
<1> QED BY <1>2, <1>3, <1>4, <1>5, <1>6, BoardStands

LEMMA ScanFailsKeeps == ASSUME SessionInv, NEW t \in Tasks, ScanFails(t) PROVE Keeps
<1> USE DEF ScanFails
<1> DEFINE s == IF t \in Scans THEN "off" ELSE "warning"
<1>0. s \in Stages /\ t \notin Adders BY DEF Stages, SessionInv, StagesInv
<1>1. stage'[t] = s /\ \A u \in Tasks : u # t => stage'[u] = stage[u] BY DEF SessionInv, Typed
<1>2. t \in Scans \/ t = "work" BY <1>0, TaskNames
<1>3. Typed' BY <1>0 DEF SessionInv, Typed
<1>4. StagesInv' BY <1>0, <1>2, StagesStand DEF RadioStages
<1>5. RadioHeldByWork' BY <1>1, <1>2, TaskNames DEF SessionInv, RadioHeldByWork
<1>6. WorkerKeeps /\ (stage'["work"] = "off" => stage["work"] = "off")
  BY <1>1, <1>2, TaskNames DEF WorkerKeeps, RadioStages
<1> QED BY <1>3, <1>4, <1>5, <1>6, BoardStands

LEMMA TakeSnapshotKeeps == ASSUME SessionInv, NEW t \in Tasks, TakeSnapshot(t) PROVE Keeps
<1> USE DEF TakeSnapshot
<1>0. "looking" \in Stages /\ t \notin Adders BY DEF Stages, SessionInv, StagesInv
<1>1. stage'[t] = "looking" /\ \A u \in Tasks : u # t => stage'[u] = stage[u]
  BY DEF SessionInv, Typed
<1>2. t \in Scans \/ t = "work" BY <1>0, TaskNames
<1>3. Typed'
  <2>2. latest' \subseteq Devices /\ dismissed' \subseteq Devices BY DEF SessionInv, Typed
  <2>3. stage' \in [Tasks -> Stages] BY <1>0 DEF SessionInv, Typed
  <2> QED BY <2>2, <2>3 DEF SessionInv, Typed
<1>4. StagesInv' BY <1>0, <1>2, StagesStand DEF RadioStages
<1>5. RadioHeldByWork' BY <1>1, <1>2, TaskNames DEF SessionInv, RadioHeldByWork
<1>7. WorkerKeeps BY <1>1, <1>2, TaskNames DEF WorkerKeeps, RadioStages
<1> QED BY <1>3, <1>4, <1>5, <1>7, BoardStands

LEMMA TakeAdvertKeeps ==
    ASSUME SessionInv, NEW t \in Tasks, NEW d \in Devices, TakeAdvert(t, d) PROVE Keeps
<1> USE DEF TakeAdvert
<1>1. Typed'
  <2>1. todo' \in [Tasks -> SUBSET Devices] /\ look' \in [Tasks -> Devices \cup {None}]
    BY DEF SessionInv, Typed
  <2>2. dismissed' \subseteq Devices BY DEF SessionInv, Typed
  <2> QED BY <2>1, <2>2 DEF SessionInv, Typed
<1>2. StagesInv' /\ RadioHeldByWork' BY DEF SessionInv, StagesInv, RadioHeldByWork
<1>3. WorkerKeeps BY DEF WorkerKeeps
<1> QED BY <1>1, <1>2, <1>3, BoardStands

LEMMA ScanDoneKeeps == ASSUME SessionInv, NEW s \in Scans, ScanDone(s) PROVE Keeps
<1> USE DEF ScanDone
<1>1. stage'[s] = "off" /\ \A u \in Tasks : u # s => stage'[u] = stage[u]
  BY TaskNames DEF SessionInv, Typed
<1>2. Typed' BY TaskNames DEF SessionInv, Typed, Stages
<1>3. StagesInv' BY TaskNames, StagesStand DEF Stages
<1>4. RadioHeldByWork' BY <1>1, TaskNames DEF SessionInv, RadioHeldByWork
<1>5. WorkerKeeps /\ stage'["work"] = stage["work"] BY <1>1, TaskNames DEF WorkerKeeps
<1> QED BY <1>2, <1>3, <1>4, <1>5, BoardStands

LEMMA RestoreRaisesKeeps == ASSUME SessionInv, NEW a \in Adders, RestoreRaises(a) PROVE Keeps
<1> USE DEF RestoreRaises
<1>1. a \in Tasks /\ a \notin Scans /\ a # "work" /\ stage'[a] = "off" /\ \A u \in Tasks : u # a => stage'[u] = stage[u]
  BY TaskNames DEF SessionInv, Typed
<1>2. Typed'
  <2>1. NoAdd \in [code : Codes \cup {None}, ran : BOOLEAN, startable : BOOLEAN] BY DEF NoAdd
  <2>2. stage' \in [Tasks -> Stages] /\ todo' \in [Tasks -> SUBSET Devices]
    BY <1>1 DEF SessionInv, Typed, Stages
  <2>3. adding' \in [Adders -> [code : Codes \cup {None}, ran : BOOLEAN, startable : BOOLEAN]]
    BY <2>1 DEF SessionInv, Typed
  <2> QED BY <2>2, <2>3 DEF SessionInv, Typed
<1>3. \A b \in Adders : b # a => adding'[b] = adding[b] BY DEF SessionInv, Typed
<1>4. StagesInv' BY <1>1, <1>3, StagesStand DEF Stages
<1>5. RadioHeldByWork' BY <1>1, TaskNames DEF SessionInv, RadioHeldByWork
<1>6. WorkerKeeps /\ stage'["work"] = stage["work"] BY <1>1, TaskNames DEF WorkerKeeps
<1> QED BY <1>2, <1>4, <1>5, <1>6, BoardStands

LEMMA LinkKeeps == ASSUME SessionInv, LinkDrops \/ LinkReturns PROVE Keeps
<1>1. /\ UNCHANGED <<cards, created, queue, naming, latest, dismissed, radio, results, stage,
                     todo, look, work, adding, removals, forgotten>>
      /\ up' \in BOOLEAN
  BY DEF LinkDrops, LinkReturns
<1>2. drops' \in 0..MaxDrops BY TaskNames DEF SessionInv, Typed, LinkDrops, LinkReturns
<1>3. Typed' /\ StagesInv' /\ RadioHeldByWork' /\ WorkerKeeps
  BY <1>1, <1>2 DEF SessionInv, Typed, StagesInv, RadioHeldByWork, WorkerKeeps
<1> QED BY <1>1, <1>3, BoardStands

LEMMA TryAgainKeeps == ASSUME SessionInv, TryAgain PROVE Keeps
<1> USE DEF TryAgain
<1>1. stage'["work"] = "commission" /\ \A u \in Tasks : u # "work" => stage'[u] = stage[u]
  BY TaskNames DEF SessionInv, Typed
<1>2. Typed' BY TaskNames DEF SessionInv, Typed, Stages
<1>3. StagesInv' BY TaskNames, StagesStand DEF Stages
<1>4. RadioHeldByWork' BY <1>1, TaskNames DEF SessionInv, RadioHeldByWork
<1>5. WorkerKeeps BY <1>1, TaskNames DEF WorkerKeeps, RadioStages
<1> QED BY <1>1, <1>2, <1>3, <1>4, <1>5, BoardStands

LEMMA WorkerEndsKeeps == ASSUME SessionInv, WorkerEnds PROVE Keeps
<1> USE DEF WorkerEnds
<1>1. stage'["work"] = "off" /\ \A u \in Tasks : u # "work" => stage'[u] = stage[u]
  BY TaskNames DEF SessionInv, Typed
<1>2. Typed' BY TaskNames DEF SessionInv, Typed, Stages
<1>3. StagesInv' BY TaskNames, StagesStand DEF Stages
<1>4. RadioHeldByWork' BY <1>1, TaskNames DEF SessionInv, RadioHeldByWork
<1>5. WorkerKeeps BY <1>1, TaskNames DEF WorkerKeeps, RadioStages
<1> QED BY <1>1, <1>2, <1>3, <1>4, <1>5, BoardStands
----------------------------------------
(* The session: a snapshot and a label change cards. *)

LEMMA QuietStages ==
    ASSUME SessionInv, stage' = stage, radio' = radio, adding' = adding
    PROVE  StagesInv' /\ RadioHeldByWork' /\ WorkerKeeps
  BY DEF SessionInv, StagesInv, RadioHeldByWork, WorkerKeeps

LEMMA NamingStands ==
    ASSUME SessionInv, naming' = naming,
           \A c \in Ids : cards'[c].state = "naming" <=> cards[c].state = "naming"
    PROVE  NamingInv'
  BY DEF SessionInv, NamingInv

(* What the cards of the board are like. *)
LEMMA CardFacts ==
    ASSUME SessionInv
    PROVE  /\ \A c \in Ids : c > created \/ cards[c].state = "none" => cards[c] = NoCard
           /\ \A c \in Ids : Occurs(c, queue) => cards[c].state = "queued"
           /\ BoardOK(Board) /\ NoDups(queue) /\ Served(Board)
           /\ \A c \in Ids \ forgotten : cards[c].state = "queued" => Occurs(c, queue)
           /\ stage["work"] # "off" \/ Left(queue)
  BY CardFields DEF SessionInv, CardsInv, BoardOK, ServedInv, Served, AllQueued, WorkerActive

(* What stays served. *)
LEMMA ServedStays ==
    ASSUME SessionInv, forgotten' = forgotten,
           \A c \in Ids : cards'[c].state = "queued" =>
               Occurs(c, queue') \/ (cards[c].state = "queued" /\ ~Occurs(c, queue)),
           stage'["work"] # "off" \/ /\ stage["work"] = "off"
                                     /\ \A c \in Ids : Occurs(c, queue') => Occurs(c, queue)
    PROVE  Served(Board)'
<1>1. Board'.cards = cards' /\ Board'.queue = queue' /\ (Board'.works <=> stage'["work"] # "off")
  BY DEF Board, WorkerActive
<1>2. AllQueued(Board)' BY <1>1, CardFacts DEF AllQueued
<1>3. stage'["work"] # "off" \/ Left(queue') BY CardFacts DEF Left
<1> QED BY <1>1, <1>2, <1>3 DEF Served, Left

(* The snapshot is taken. *)
LEMMA MovesKeep ==
    ASSUME SessionInv, Typed', StagesInv', RadioHeldByWork', WorkerKeeps, BoardMoves(Board, Board'),
           UNCHANGED <<created, naming, work, forgotten>>
    PROVE  Keeps
<1>1. /\ \A c \in Ids : CardMoves(cards[c], cards'[c])
      /\ BoardOK(Board)' /\ Served(Board)' /\ HeadKept(queue, queue')
  <2>1. Board.cards = cards /\ Board.queue = queue /\ Board'.cards = cards' /\ Board'.queue = queue'
    BY DEF Board
  <2> QED BY <2>1, CardFacts DEF BoardMoves, BoardOK, Served, AllQueued, Left
<1>2. NoCard.state = "none" BY CardFields DEF SessionInv
<1>3. \A c \in Ids : /\ cards'[c].state = "naming" <=> cards[c].state = "naming"
                     /\ cards'[c].state = "found" => cards'[c] = cards[c]
                     /\ cards[c].state = "none" => cards'[c] = cards[c]
                     /\ cards[c].state = "queued" => cards'[c] = cards[c]
                     /\ cards[c].state = "running" \/ cards'[c].state = "running" => cards'[c] = cards[c]
                     /\ cards'[c].state = "none" => cards'[c] = NoCard \/ cards'[c] = cards[c]
  BY <1>1, <1>2 DEF CardMoves
<1>4. NamingInv' BY <1>3, NamingStands
<1>5. FoundOnce' BY <1>3 DEF SessionInv, FoundOnce
<1>6. \A c \in Ids : c > created' \/ cards'[c].state = "none" => cards'[c] = NoCard
  BY <1>2, <1>3, CardFacts
<1>7. 1..created \subseteq 1..created' /\ work' = work OBVIOUS
<1>8. \A c \in 1..created : cards[c].state = "none" => cards'[c].state = "none"
  BY <1>3, CardFields DEF SessionInv
<1>9. \A c \in Ids : cards[c].state = "queued" => cards'[c].state = "queued" BY <1>3
<1>10. \A c \in Ids : cards[c].state = "running" \/ cards'[c].state = "running" => cards'[c] = cards[c]
  BY <1>3
<1> QED BY ONLY SessionInv, Typed', StagesInv', RadioHeldByWork', WorkerKeeps, QueueGrows,
                <1>1, <1>4, <1>5, <1>6, <1>7, <1>8, <1>9, <1>10

LEMMA WorkerForIs ==
    ASSUME SessionInv, NEW q
    PROVE  /\ WorkerFor(q) \in Stages /\ WorkerFor(q) # "label"
           /\ q # <<>> => WorkerFor(q) # "off"
           /\ WorkerFor(q) = stage["work"] \/ (stage["work"] = "off" /\ WorkerFor(q) = "loop")
  BY TaskNames DEF SessionInv, StagesInv, Typed, WorkerFor, Stages

LEMMA SnapshotTakenKeeps == ASSUME SessionInv, NEW t \in Tasks, SnapshotTaken(t) PROVE Keeps
<1> DEFINE after == AfterSnapshot(latest)
           starts == ~(t = "work" \/ WorkerActive \/ ~after.works)
<1>1. /\ t \in Scanners /\ stage[t] = "looking" /\ cards' = after.cards /\ queue' = after.queue
      /\ stage' = IF ~starts THEN [stage EXCEPT ![t] = "warning"]
                  ELSE [stage EXCEPT ![t] = "warning", !["work"] = "loop"]
      /\ UNCHANGED <<created, naming, latest, dismissed, radio, todo, look, work, adding, up,
                     removals, drops, forgotten>>
  BY DEF SnapshotTaken
<1>2. BoardMoves(Board, after) BY SnapshotMoves, CardFields, CardFacts DEF SessionInv
<1>a. Board.works = WorkerActive BY CardFields DEF SessionInv
<1> HIDE DEF after
<1>3. after \in Boards /\ (WorkerActive => after.works) BY <1>2, <1>a DEF BoardMoves
<1>b. starts <=> t # "work" /\ ~WorkerActive /\ after.works OBVIOUS
<1> HIDE DEF starts
<1>4. cards' \in [Ids -> Card] /\ queue' \in Seq(Ids) BY <1>1, <1>3 DEF Boards
<1>6. stage \in [Tasks -> Stages] BY DEF SessionInv, Typed
<1>7. /\ stage' \in [Tasks -> Stages] /\ \A a \in Adders : stage'[a] = stage[a]
      /\ stage'[t] = "warning" /\ \A u \in Scans : u # t => stage'[u] = stage[u]
      /\ t # "work" => stage'["work"] = IF starts THEN "loop" ELSE stage["work"]
  BY <1>1, <1>b, <1>6, TaskNames DEF Stages, Scanners
<1>8. Typed' BY <1>1, <1>4, <1>7 DEF SessionInv, Typed
<1>9. StagesInv'
  <2>1. \A u \in Scans : stage'[u] \in RadioStages \cup {"off"}
    BY <1>7 DEF SessionInv, StagesInv, RadioStages
  <2>2. stage'["work"] # "label" BY <1>7 DEF SessionInv, StagesInv
  <2> QED BY <1>1, <1>7, <2>1, <2>2 DEF SessionInv, StagesInv
<1>10. RadioHeldByWork'
  <2>1. \A u \in Scans : radio' = u <=> stage'[u] = "scanning"
    BY <1>1, <1>7 DEF SessionInv, RadioHeldByWork
  <2>2. radio' = "work" <=> stage'["work"] \notin {"off", "loop", "radio"}
    BY <1>1, <1>7, <1>b DEF SessionInv, RadioHeldByWork, WorkerActive
  <2> QED BY <2>1, <2>2 DEF RadioHeldByWork
<1>11. WorkerKeeps BY <1>1, <1>7, <1>b DEF WorkerKeeps, RadioStages, WorkerActive
<1>12. BoardMoves(Board, Board')
  <2>1. after.works = (stage'["work"] # "off")
    <3>1. after.works \in BOOLEAN BY <1>3 DEF Boards
    <3>2. after.works <=> stage'["work"] # "off" BY <1>1, <1>3, <1>7, <1>b DEF WorkerActive
    <3> QED BY <3>1, <3>2
  <2>2. after = [cards |-> after.cards, queue |-> after.queue, works |-> after.works]
    BY <1>3 DEF Boards
  <2>3. Board' = [cards |-> cards', queue |-> queue', works |-> stage'["work"] # "off"]
    BY DEF Board, WorkerActive
  <2> QED BY <1>1, <1>2, <2>1, <2>2, <2>3
<1>13. UNCHANGED <<created, naming, work, forgotten>> BY <1>1
<1> QED BY ONLY SessionInv, <1>8, <1>9, <1>10, <1>11, <1>12, <1>13, MovesKeep

LEMMA LabelKeeps == ASSUME SessionInv, NEW t \in Tasks, Label(t) PROVE Keeps
<1> DEFINE y == [state |-> "found", at |-> look[t], code |-> None, forced |-> FALSE]
           n == created + 1
<1>1. /\ look[t] # None /\ look' = [look EXCEPT ![t] = None]
      /\ UNCHANGED <<queue, naming, latest, dismissed, radio, results, stage, todo, work,
                     adding, up, removals, drops, forgotten>>
  BY DEF Label
<1>2. look' \in [Tasks -> Devices \cup {None}] BY <1>1 DEF SessionInv, Typed
<1>3. StagesInv' /\ RadioHeldByWork' /\ WorkerKeeps BY <1>1, QuietStages
<1>4. CASE UNCHANGED <<cards, created>>
  <2>1. Typed' BY <1>1, <1>2, <1>4 DEF SessionInv, Typed
  <2>2. UNCHANGED <<cards, created, queue, naming, work, forgotten>> BY <1>1, <1>4
  <2>3. stage'["work"] = "off" /\ stage["work"] # "off" => queue = <<>> BY <1>1
  <2> QED BY ONLY SessionInv, <1>3, <2>1, <2>2, <2>3, BoardStands
<1>5. CASE /\ ~Known(look[t]) /\ created # MaxCards /\ created' = n
           /\ cards' = [cards EXCEPT ![n] = y]
  <2>1. n \in Ids /\ n > created /\ n \notin 1..created /\ created' \in 0..MaxCards
    BY <1>5, CardFields, TaskNames DEF SessionInv, Ids
  <2>2. y \in Card BY <1>1 DEF SessionInv, Typed, Card, States
  <2>3. cards' \in [Ids -> Card] /\ cards'[n] = y /\ \A c \in Ids : c # n => cards'[c] = cards[c]
    BY <1>5, <2>1, <2>2, CardFields DEF SessionInv
  <2>4. y.state = "found" /\ y.at = look[t] OBVIOUS
  <2>5. cards[n] = NoCard /\ cards[n].state = "none" BY <2>1, CardFacts, CardFields DEF SessionInv
  <2> HIDE DEF n, y
  <2>6. Typed' BY <1>1, <1>2, <2>1, <2>3 DEF SessionInv, Typed
  <2>7. NamingInv' BY <1>1, <2>3, <2>4, <2>5, NamingStands
  <2>8. FoundOnce'
    <3>1. \A c \in Ids : cards[c].at # y.at BY <1>5, <2>4 DEF Known
    <3> QED BY <2>3, <3>1 DEF SessionInv, FoundOnce
  <2>9. ~Occurs(n, queue) BY <2>1, <2>5, CardFacts
  <2>10. BoardOK(Board)' /\ Served(Board)'
    <3>1. BoardOK(Board)' BY <1>1, <2>3, <2>4, <2>9 DEF SessionInv, CardsInv, BoardOK, Board
    <3>2. Served(Board)' BY <1>1, <2>3, <2>4, ServedStays
    <3> QED BY <3>1, <3>2
  <2>11. HeadKept(queue, queue') /\ work' = work BY <1>1 DEF HeadKept
  <2>12. \A c \in Ids : c > created' \/ cards'[c].state = "none" => cards'[c] = NoCard
    <3>1. \A c \in Ids : c > created' => c > created /\ c # n
      BY <1>5, <2>1, CardFields DEF SessionInv, n, Ids
    <3> QED BY <2>3, <2>4, <3>1, CardFacts
  <2>13. 1..created \subseteq 1..created' BY <1>5, CardFields DEF SessionInv, n
  <2>14. /\ \A c \in 1..created : cards[c].state = "none" => cards'[c].state = "none"
         /\ \A c \in Ids : cards[c].state = "queued" => cards'[c].state = "queued"
         /\ \A c \in Ids : cards[c].state = "running" \/ cards'[c].state = "running" => cards'[c] = cards[c]
    BY <2>1, <2>3, <2>4, <2>5, CardFields DEF SessionInv
  <2> QED BY ONLY SessionInv, <1>3, <2>6, <2>7, <2>8, <2>10, <2>11, <2>12, <2>13, <2>14, QueueGrows
<1> QED BY <1>4, <1>5 DEF Label
----------------------------------------
(* The session: a card is placed. *)

(* A code on card c, or a click that puts it into the queue. *)
LEMMA PlacedKeeps ==
    ASSUME SessionInv, NEW c \in Ids, c <= created', NEW y \in Card,
           cards[c].state \in {"found", "none", "not_nearby", "failed"}, cards[c].state = "none" => c > created,
           y.state \in {"queued", "ready", "not_nearby"}, y.code # None,
           cards' = [cards EXCEPT ![c] = y],
           queue' = IF y.state = "queued" THEN Append(queue, c) ELSE queue,
           created' \in 0..MaxCards, created <= created', naming' = naming, work' = work,
           Typed', StagesInv', RadioHeldByWork', WorkerKeeps,
           y.state = "queued" => stage'["work"] # "off", stage'["work"] = "off" => stage["work"] = "off",
           forgotten' = forgotten
    PROVE  Keeps
<1>0. Typed BY DEF SessionInv
<1>1. 1..created \subseteq 1..created' /\ created \in 0..MaxCards BY <1>0, CardFields, TaskNames
<1>2. cards'[c] = y /\ \A e \in Ids : e # c => cards'[e] = cards[e]
  BY <1>1, CardFields DEF SessionInv
<1>3. ~Occurs(c, queue) BY <1>1, CardFacts
<1>4. queue \in Seq(Ids) /\ NoDups(queue)
  <2>1. queue \in Seq(Ids) BY <1>0 DEF Typed
  <2> QED BY <2>1, CardFacts
<1>5. /\ y.state = "queued" => /\ \A x : Occurs(x, queue') <=> Occurs(x, queue) \/ x = c
                               /\ NoDups(queue')
      /\ y.state # "queued" => queue' = queue
      /\ HeadKept(queue, queue')
  <2>1. CASE y.state = "queued"
    <3>1. queue' = Append(queue, c) BY <2>1
    <3> QED BY ONLY <1>1, <1>3, <1>4, <2>1, <3>1, AppendOccurs
  <2>2. CASE y.state # "queued" BY <2>2 DEF HeadKept
  <2> QED BY <2>1, <2>2
<1>6. BoardOK(Board)'
  <2>1. \A e \in Ids : cards'[e].state \in {"ready", "queued", "not_nearby"} => cards'[e].code # None
    BY <1>2 DEF SessionInv, CardsInv, BoardOK, Board
  <2>2. \A e \in Ids : Occurs(e, queue') => cards'[e].state = "queued"
    BY <1>2, <1>3, <1>5, CardFacts
  <2>3. NoDups(queue') BY <1>4, <1>5
  <2> QED BY <2>1, <2>2, <2>3 DEF BoardOK, Board
<1>7. Served(Board)' BY <1>2, <1>5, ServedStays
<1>8. NamingInv' BY <1>2, NamingStands
<1>9. FoundOnce' BY <1>2 DEF SessionInv, FoundOnce
<1>10. \A e \in Ids : e > created' \/ cards'[e].state = "none" => cards'[e] = NoCard
  <2>1. \A e \in Ids : e > created' => e > created /\ e # c BY <1>1, TaskNames DEF Ids
  <2> QED BY <1>2, <2>1, CardFacts
<1>11. \A e \in 1..created : cards[e].state = "none" => cards'[e].state = "none"
  <2>1. \A e \in 1..created : e \in Ids /\ ~(e > created) BY <1>1, CardFields DEF SessionInv
  <2> QED BY <1>2, <2>1
<1>12. \A e \in Ids : cards[e].state = "queued" => cards'[e].state = "queued" BY <1>2
<1>13. \A e \in Ids : cards[e].state = "running" \/ cards'[e].state = "running" => cards'[e] = cards[e]
  BY <1>2
<1> QED BY <1>1, <1>5, <1>6, <1>7, <1>8, <1>9, <1>10, <1>11, <1>12, <1>13, QueueGrows

(* The card's code makes its way onto the board, and the request is over. *)
LEMMA CodeCardKeeps ==
    ASSUME SessionInv, NEW a \in Adders, NEW k \in Codes, NEW c \in Ids, c <= created',
           NEW s \in {"queued", "ready", "not_nearby"}, NEW d \in Devices \cup {None},
           cards[c].state \in {"found", "none"}, cards[c].state = "none" => c > created,
           CodeCard(a, k, c, s, d),
           created' \in 0..MaxCards, created <= created', todo' \in [Tasks -> SUBSET Devices],
           UNCHANGED <<naming, latest, dismissed, radio, results, look, work, up, removals, drops, forgotten>>
    PROVE  Keeps
<1> DEFINE y == [state |-> s, at |-> d, code |-> k, forced |-> FALSE]
           b == [Board EXCEPT !.cards[c] = y]
<1>0. Typed /\ BoardOK(Board) BY CardFacts DEF SessionInv
<1>1. cards \in [Ids -> Card] /\ queue \in Seq(Ids) /\ Board.cards = cards /\ Board.queue = queue /\ Board \in Boards
  <2>1. queue \in Seq(Ids) BY <1>0 DEF Typed
  <2> QED BY <1>0, <2>1, CardFields
<1>2. y \in Card /\ y.state = s /\ y.code = k /\ k # None BY TaskNames DEF Card, States
<1>3. b.cards = [cards EXCEPT ![c] = y] /\ b.queue = queue BY <1>1 DEF Board
<1>4. /\ cards' = b.cards /\ queue' = Enqueued(b, c).queue
      /\ stage' = [stage EXCEPT ![a] = "off", !["work"] = IF s = "queued" THEN WorkerFor(queue') ELSE @]
      /\ adding' = [adding EXCEPT ![a] = NoAdd]
  BY DEF CodeCard
<1>5. b \in Boards /\ Alters(Board, c, y, b) /\ b.queue = Board.queue /\ b.works = Board.works
  BY <1>1, <1>2, <1>3 DEF Alters, Boards
<1>a. Board.cards[c].state # "queued"
  BY <1>1
<1>6. queue' = IF y.state = "queued" THEN Append(queue, c) ELSE queue
  <2> HIDE DEF b, y
  <2> QED BY <1>0, <1>1, <1>2, <1>4, <1>5, <1>a, PlaceCard
<1>7. cards' = [cards EXCEPT ![c] = y] BY <1>3, <1>4
<1>8. cards' \in [Ids -> Card] /\ queue' \in Seq(Ids)
  <2>1. cards' \in [Ids -> Card] BY <1>1, <1>2, <1>7
  <2>2. Append(queue, c) \in Seq(Ids) BY <1>1
  <2> QED BY <1>1, <1>6, <2>1, <2>2
<1> HIDE DEF y, b
<1>9. WorkerFor(queue') \in Stages /\ WorkerFor(queue') # "label"
      /\ (queue' # <<>> => WorkerFor(queue') # "off")
      /\ (WorkerFor(queue') = stage["work"] \/ (stage["work"] = "off" /\ WorkerFor(queue') = "loop"))
  BY WorkerForIs
<1>10. stage \in [Tasks -> Stages] /\ stage["work"] # "label" BY DEF SessionInv, Typed, StagesInv
<1>11. /\ stage' \in [Tasks -> Stages]
       /\ stage'[a] = "off" /\ \A e \in Adders : e # a => stage'[e] = stage[e]
       /\ \A u \in Scans : stage'[u] = stage[u]
       /\ stage'["work"] = IF s = "queued" THEN WorkerFor(queue') ELSE stage["work"]
  <2>1. a \in Tasks /\ a \notin Scans /\ a # "work" /\ "work" \in Tasks /\ Scans \subseteq Tasks
        /\ "work" \notin Scans /\ \A e \in Adders : e \in Tasks /\ e # "work"
    BY TaskNames
  <2>2. "off" \in Stages BY DEF Stages
  <2> QED BY ONLY <1>4, <1>9, <1>10, <2>1, <2>2
<1>12. adding' \in [Adders -> [code : Codes \cup {None}, ran : BOOLEAN, startable : BOOLEAN]]
       /\ \A e \in Adders : e # a => adding'[e] = adding[e]
  <2>1. NoAdd \in [code : Codes \cup {None}, ran : BOOLEAN, startable : BOOLEAN] BY DEF NoAdd
  <2>2. adding \in [Adders -> [code : Codes \cup {None}, ran : BOOLEAN, startable : BOOLEAN]]
    BY DEF SessionInv, Typed
  <2> QED BY ONLY <1>4, <2>1, <2>2
<1>13. Typed' BY <1>8, <1>11, <1>12 DEF SessionInv, Typed
<1>14. StagesInv'
  <2>1. \A e \in Adders : /\ stage'[e] \in {"off", "looking", "label"}
                          /\ stage'[e] # "off" => adding'[e].code \in Codes
    BY <1>11, <1>12 DEF SessionInv, StagesInv
  <2>2. (\A u \in Scans : stage'[u] \in RadioStages \cup {"off"}) /\ stage'["work"] # "label"
    BY <1>9, <1>11 DEF SessionInv, StagesInv
  <2> QED BY <2>1, <2>2 DEF StagesInv
<1>15. RadioHeldByWork' BY <1>9, <1>11 DEF SessionInv, RadioHeldByWork
<1>16. WorkerKeeps BY <1>9, <1>11 DEF WorkerKeeps
<1>17. queue' # <<>> \/ y.state # "queued" BY <1>1, <1>6, AppendOccurs
<1>18. y.state = "queued" => stage'["work"] # "off" BY <1>2, <1>9, <1>11, <1>17
<1>19. stage'["work"] = "off" => stage["work"] = "off" BY <1>9, <1>11
<1>20. /\ cards[c].state \in {"found", "none", "not_nearby", "failed"}
       /\ y.state \in {"queued", "ready", "not_nearby"} /\ y.code # None
  BY <1>2
<1>21. naming' = naming /\ work' = work /\ created <= created' /\ created' \in 0..MaxCards
       /\ forgotten' = forgotten
  OBVIOUS
<1>22. cards[c].state = "none" => c > created OBVIOUS
<1> QED BY ONLY SessionInv, c \in Ids, c <= created', <1>2, <1>6, <1>7, <1>13, <1>14, <1>15, <1>16, <1>18, <1>19, <1>20,
                <1>21, <1>22, PlacedKeeps
----------------------------------------
(* The session: codes that are added, and cards that are forced. *)

(* A code that waits for its label. *)
LEMMA WaitsForLabel ==
    ASSUME SessionInv, NEW a \in Adders, NEW s \in {"looking", "label"}, NEW add,
           add \in [code : Codes \cup {None}, ran : BOOLEAN, startable : BOOLEAN], add.code \in Codes,
           adding' = [adding EXCEPT ![a] = add], stage' = [stage EXCEPT ![a] = s],
           todo' \in [Tasks -> SUBSET Devices],
           UNCHANGED <<cards, queue, created, naming, latest, dismissed, radio, results, look, work,
                       up, removals, drops, forgotten>>
    PROVE  Keeps
<1>1. a \in Tasks /\ a \notin Scans /\ a # "work" /\ s \in Stages BY TaskNames DEF Stages
<1>2. stage' \in [Tasks -> Stages] /\ stage'[a] = s /\ \A u \in Tasks : u # a => stage'[u] = stage[u]
  BY <1>1 DEF SessionInv, Typed
<1>3. adding' \in [Adders -> [code : Codes \cup {None}, ran : BOOLEAN, startable : BOOLEAN]]
      /\ adding'[a] = add /\ \A b \in Adders : b # a => adding'[b] = adding[b]
  <2>1. adding \in [Adders -> [code : Codes \cup {None}, ran : BOOLEAN, startable : BOOLEAN]]
    BY DEF SessionInv, Typed
  <2> QED BY <2>1
<1>4. Typed' BY <1>2, <1>3 DEF SessionInv, Typed
<1>5. StagesInv' BY <1>1, <1>3, StagesStand
<1>6. RadioHeldByWork' BY <1>1, <1>2, TaskNames DEF SessionInv, RadioHeldByWork
<1>7. stage'["work"] = stage["work"] /\ WorkerKeeps BY <1>1, <1>2, TaskNames DEF WorkerKeeps
<1>8. UNCHANGED <<cards, created, queue, naming, work, forgotten>> OBVIOUS
<1>9. stage'["work"] = "off" /\ stage["work"] # "off" => queue = <<>> BY <1>7
<1> QED BY ONLY SessionInv, <1>4, <1>5, <1>6, <1>7, <1>8, <1>9, BoardStands

LEMMA ResolveKeeps ==
    ASSUME SessionInv, NEW a \in Adders, NEW k \in Codes, NEW ran \in BOOLEAN, Resolve(a, k, ran),
           todo' \in [Tasks -> SUBSET Devices],
           UNCHANGED <<created, naming, latest, dismissed, radio, results, look, work, up, removals, drops, forgotten>>
    PROVE  Keeps
<1> DEFINE found == Matching(Board, k, latest)
<1>0. Typed /\ created \in 0..MaxCards BY DEF SessionInv, Typed
<1>1. \A c \in found : c \in Ids /\ cards[c].state = "found" BY DEF Matching, Board
<1>2. CASE Cardinality(found) = 1
  <2>1. PICK c \in found : CodeCard(a, k, c, Startable(Board), cards[c].at) BY <1>2 DEF Resolve
  <2>2. c \in Ids /\ cards[c].state = "found" /\ cards[c] \in Card BY <1>0, <1>1, CardFields
  <2>3. cards[c].at \in Devices \cup {None} BY <2>2 DEF Card
  <2>4. c <= created'
    <3>1. NoCard.state = "none" BY DEF NoCard
    <3>2. ~(c > created) BY <2>2, <3>1, CardFacts
    <3> QED BY <1>0, <2>2, <3>2, TaskNames DEF Ids
  <2>5. Startable(Board) \in {"queued", "ready", "not_nearby"} BY StartableIs
  <2>6. created' \in 0..MaxCards /\ created <= created' BY <1>0, TaskNames
  <2>7. UNCHANGED <<naming, latest, dismissed, radio, results, look, work, up, removals, drops, forgotten>>
    OBVIOUS
  <2>8. cards[c].state \in {"found", "none"} /\ (cards[c].state = "none" => c > created) BY <2>2
  <2> QED BY ONLY SessionInv, a \in Adders, k \in Codes, todo' \in [Tasks -> SUBSET Devices], <2>1, <2>2,
                  <2>3, <2>4, <2>5, <2>6, <2>7, <2>8, CodeCardKeeps
<1>3. CASE Cardinality(found) # 1
  <2> DEFINE add == [code |-> k, ran |-> ran, startable |-> found # {} \/ k \in OnNetwork]
  <2>1. /\ adding' = [adding EXCEPT ![a] = add] /\ stage' = [stage EXCEPT ![a] = "label"]
        /\ UNCHANGED <<cards, queue>>
    BY <1>3 DEF Resolve
  <2>2. add \in [code : Codes \cup {None}, ran : BOOLEAN, startable : BOOLEAN] /\ add.code \in Codes
    <3>1. (found # {} \/ k \in OnNetwork) \in BOOLEAN OBVIOUS
    <3> HIDE DEF found
    <3> QED BY <3>1
  <2> HIDE DEF add
  <2> QED BY <2>1, <2>2, WaitsForLabel
<1> QED BY <1>2, <1>3

LEMMA AddCodeKeeps == ASSUME SessionInv, NEW a \in Adders, NEW k \in Codes, AddCode(a, k) PROVE Keeps
<1> DEFINE back == {d \in dismissed : d \in Fits[k]}
           add == [NoAdd EXCEPT !.code = k, !.ran = WorkerActive]
<1>1. /\ todo' = [todo EXCEPT ![a] = back]
      /\ UNCHANGED <<created, naming, latest, dismissed, radio, results, look, work, up, removals, drops, forgotten>>
  BY DEF AddCode
<1>2. todo' \in [Tasks -> SUBSET Devices]
  <2>1. todo \in [Tasks -> SUBSET Devices] /\ back \subseteq Devices BY DEF SessionInv, Typed
  <2> QED BY <1>1, <2>1
<1>3. WorkerActive \in BOOLEAN BY DEF WorkerActive
<1>4. CASE back = {}
  <2>1. Resolve(a, k, WorkerActive) BY <1>4 DEF AddCode
  <2> QED BY <1>1, <1>2, <1>3, <2>1, ResolveKeeps
<1>5. CASE back # {}
  <2>1. /\ adding' = [adding EXCEPT ![a] = add] /\ stage' = [stage EXCEPT ![a] = "looking"]
        /\ UNCHANGED <<cards, queue>>
    BY <1>5 DEF AddCode
  <2>2. add \in [code : Codes \cup {None}, ran : BOOLEAN, startable : BOOLEAN] /\ add.code \in Codes
    BY <1>3 DEF NoAdd
  <2> HIDE DEF add
  <2> QED BY <1>1, <1>2, <2>1, <2>2, WaitsForLabel
<1> QED BY <1>4, <1>5

LEMMA RestoredKeeps == ASSUME SessionInv, NEW a \in Adders, RestoredCard(a) PROVE Keeps
<1>1. adding[a].code \in Codes /\ adding[a].ran \in BOOLEAN /\ todo \in [Tasks -> SUBSET Devices]
  BY DEF RestoredCard, SessionInv, StagesInv, Typed
<1>2. /\ Resolve(a, adding[a].code, adding[a].ran)
      /\ UNCHANGED <<created, naming, latest, dismissed, radio, results, todo, look, work, up, removals, drops, forgotten>>
  BY DEF RestoredCard
<1> QED BY <1>1, <1>2, ResolveKeeps

LEMMA NewCodeCardKeeps == ASSUME SessionInv, NEW a \in Adders, NewCodeCard(a) PROVE Keeps
<1> DEFINE add == adding[a]
           s == IF ~add.startable THEN "not_nearby" ELSE IF add.ran THEN "queued" ELSE Startable(Board)
           c == created + 1
<1>1. /\ stage[a] = "label" /\ created < MaxCards /\ created' = c
      /\ CodeCard(a, add.code, c, s, None)
      /\ UNCHANGED <<naming, latest, dismissed, radio, results, todo, look, work, up, removals, drops, forgotten>>
  BY DEF NewCodeCard
<1>2. s \in {"queued", "ready", "not_nearby"} BY StartableIs
<1>3. add.code \in Codes BY <1>1 DEF SessionInv, StagesInv
<1>4. created \in 0..MaxCards /\ todo' \in [Tasks -> SUBSET Devices] BY <1>1 DEF SessionInv, Typed
<1>5. c \in Ids /\ c <= created' /\ c > created /\ created' \in 0..MaxCards /\ created <= created'
  BY <1>1, <1>4, TaskNames DEF Ids
<1>6. cards[c].state \in {"found", "none"} /\ (cards[c].state = "none" => c > created)
  <2>1. NoCard.state = "none" BY DEF NoCard
  <2> HIDE DEF c
  <2> QED BY <1>5, <2>1, CardFacts
<1>7. UNCHANGED <<naming, latest, dismissed, radio, results, look, work, up, removals, drops, forgotten>>
  BY <1>1
<1>8. CodeCard(a, add.code, c, s, None) /\ None \in Devices \cup {None} BY <1>1
<1> QED BY ONLY SessionInv, a \in Adders, <1>2, <1>3, <1>4, <1>5, <1>6, <1>7, <1>8, CodeCardKeeps

LEMMA ForceKeeps == ASSUME SessionInv, NEW c \in Ids, ForceCard(c) PROVE Keeps
<1> DEFINE y == [cards[c] EXCEPT !.state = "queued", !.forced = TRUE]
<1>0. Typed /\ cards \in [Ids -> Card] /\ cards[c] \in Card /\ created \in 0..MaxCards /\ queue \in Seq(Ids)
  BY CardFields DEF SessionInv, Typed
<1>1. /\ cards[c].state \in {"not_nearby", "failed"} /\ cards[c].code # None
      /\ queue' = Append(queue, c) /\ stage' = [stage EXCEPT !["work"] = WorkerFor(queue')]
      /\ UNCHANGED <<created, naming, latest, dismissed, radio, results, todo, look, work,
                     adding, up, removals, drops, forgotten>>
  BY DEF ForceCard
<1>2. cards' = [cards EXCEPT ![c] = y] BY <1>0 DEF ForceCard
<1>3. y \in Card /\ y.state = "queued" /\ y.code = cards[c].code BY <1>0 DEF Card, States
<1> HIDE DEF y
<1>4. queue' \in Seq(Ids) /\ queue' # <<>> /\ cards' \in [Ids -> Card]
  BY <1>0, <1>1, <1>2, <1>3, AppendOccurs
<1>5. WorkerFor(queue') \in Stages /\ WorkerFor(queue') # "label"
      /\ (queue' # <<>> => WorkerFor(queue') # "off")
      /\ (WorkerFor(queue') = stage["work"] \/ (stage["work"] = "off" /\ WorkerFor(queue') = "loop"))
  BY WorkerForIs
<1>6. stage' \in [Tasks -> Stages] /\ stage'["work"] = WorkerFor(queue')
      /\ \A u \in Tasks : u # "work" => stage'[u] = stage[u]
  BY <1>1, <1>5, TaskNames DEF SessionInv, Typed
<1>7. Typed' BY <1>1, <1>4, <1>6 DEF SessionInv, Typed
<1>8. StagesInv' BY <1>1, <1>5, TaskNames, StagesStand
<1>9. RadioHeldByWork' BY <1>1, <1>5, <1>6, TaskNames DEF SessionInv, RadioHeldByWork
<1>10. WorkerKeeps /\ stage'["work"] # "off" BY <1>4, <1>5, <1>6 DEF WorkerKeeps
<1>11. c <= created' /\ created' \in 0..MaxCards /\ created <= created'
  <2>1. NoCard.state = "none" BY DEF NoCard
  <2>2. ~(c > created) BY <1>1, <2>1, CardFacts
  <2> QED BY <1>0, <1>1, <2>2, TaskNames DEF Ids
<1>12. /\ cards[c].state \in {"found", "none", "not_nearby", "failed"}
       /\ cards[c].state = "none" => c > created
       /\ y.state \in {"queued", "ready", "not_nearby"} /\ y.code # None
       /\ y.state = "queued" => stage'["work"] # "off"
       /\ stage'["work"] = "off" => stage["work"] = "off"
       /\ naming' = naming /\ work' = work /\ forgotten' = forgotten
       /\ queue' = IF y.state = "queued" THEN Append(queue, c) ELSE queue
  BY <1>1, <1>3, <1>10
<1> QED BY ONLY SessionInv, c \in Ids, <1>2, <1>3, <1>7, <1>8, <1>9, <1>10, <1>11, <1>12, PlacedKeeps
----------------------------------------
(* The session: cards that are started, named and removed, and scans that end. *)

LEMMA StartKeeps == ASSUME SessionInv, Start PROVE Keeps
<1> DEFINE all == [i \in Ids |-> i]
           R == {c \in Ids : cards[c].state = "ready"}
           ready == Sifted(all, R)
<1>0. Typed /\ cards \in [Ids -> Card] /\ queue \in Seq(Ids) /\ created \in 0..MaxCards
  BY CardFields DEF SessionInv, Typed
<1>1. /\ cards' = [c \in Ids |-> IF cards[c].state = "ready"
                                 THEN [cards[c] EXCEPT !.state = "queued"] ELSE cards[c]]
      /\ queue' = queue \o ready /\ stage' = [stage EXCEPT !["work"] = WorkerFor(queue')]
      /\ UNCHANGED <<created, naming, latest, dismissed, radio, results, todo, look, work,
                     adding, up, removals, drops, forgotten>>
  BY DEF Start
<1>2. all \in Seq(Ids) /\ NoDups(all) /\ \A c : Occurs(c, all) <=> c \in Ids
  <2>1. all \in Seq(Ids) /\ Len(all) = MaxCards BY TaskNames DEF Ids
  <2>2. \A i \in 1..Len(all) : i \in Ids /\ all[i] = i BY <2>1, TaskNames DEF Ids
  <2> HIDE DEF all
  <2>3. 1..Len(all) = Ids BY <2>1 DEF Ids
  <2> QED BY <2>1, <2>2, <2>3 DEF NoDups, Occurs
<1> HIDE DEF all
<1>3. ready \in Seq(Ids) /\ NoDups(ready) /\ \A c : Occurs(c, ready) <=> c \in R
  BY <1>2, SiftedOccurs
<1> HIDE DEF ready
<1>4. \A c \in Ids : /\ c \in R <=> cards[c].state = "ready"
                     /\ cards[c].state # "ready" => cards'[c] = cards[c]
                     /\ cards[c].state = "ready" => cards'[c].state = "queued" /\ cards'[c].code = cards[c].code
  <2> TAKE c \in Ids
  <2>1. cards'[c] = IF cards[c].state = "ready" THEN [cards[c] EXCEPT !.state = "queued"] ELSE cards[c]
    BY <1>1
  <2>2. cards[c] \in Card BY <1>0
  <2> QED BY <2>1, <2>2 DEF Card
<1>5. cards' \in [Ids -> Card]
  <2>1. \A c \in Ids : [cards[c] EXCEPT !.state = "queued"] \in Card BY <1>0 DEF Card, States
  <2> QED BY <1>0, <1>1, <2>1
<1>6. /\ queue' \in Seq(Ids) /\ HeadKept(queue, queue') /\ NoDups(queue')
      /\ \A c : Occurs(c, queue') <=> Occurs(c, queue) \/ c \in R
  <2>1. \A c : ~(Occurs(c, queue) /\ Occurs(c, ready)) BY <1>3, <1>4, CardFacts
  <2>2. NoDups(queue) BY CardFacts
  <2> QED BY ONLY <1>0, <1>1, <1>3, <2>1, <2>2, ConcatOccurs
<1> HIDE DEF R
<1>7. WorkerFor(queue') \in Stages /\ WorkerFor(queue') # "label"
      /\ (queue' # <<>> => WorkerFor(queue') # "off")
      /\ (WorkerFor(queue') = stage["work"] \/ (stage["work"] = "off" /\ WorkerFor(queue') = "loop"))
  BY WorkerForIs
<1>8. stage' \in [Tasks -> Stages] /\ stage'["work"] = WorkerFor(queue')
      /\ \A u \in Tasks : u # "work" => stage'[u] = stage[u]
  BY <1>1, <1>7, TaskNames DEF SessionInv, Typed
<1>9. Typed' BY <1>1, <1>5, <1>6, <1>8 DEF SessionInv, Typed
<1>10. StagesInv' BY <1>1, <1>7, TaskNames, StagesStand
<1>11. RadioHeldByWork' BY <1>1, <1>7, <1>8, TaskNames DEF SessionInv, RadioHeldByWork
<1>12. WorkerKeeps /\ (queue' # <<>> => stage'["work"] # "off") BY <1>7, <1>8 DEF WorkerKeeps
<1>13. NamingInv' BY <1>1, <1>4, NamingStands
<1>14. FoundOnce' BY <1>4 DEF SessionInv, FoundOnce
<1>15. BoardOK(Board)' /\ Served(Board)'
  <2>1. \A c \in Ids : cards'[c].state \in {"ready", "queued", "not_nearby"} => cards'[c].code # None
    BY <1>4 DEF SessionInv, CardsInv, BoardOK, Board
  <2>2. \A c \in Ids : Occurs(c, queue') => cards'[c].state = "queued" BY <1>4, <1>6, CardFacts
  <2>3. BoardOK(Board)' BY <1>6, <2>1, <2>2 DEF BoardOK, Board
  <2>4. stage'["work"] # "off" \/ /\ stage["work"] = "off"
                                  /\ \A c \in Ids : Occurs(c, queue') => Occurs(c, queue)
    <3>1. queue' = <<>> => \A c \in Ids : ~Occurs(c, queue') BY DEF Occurs
    <3> QED BY <1>7, <1>8, <1>12, <3>1
  <2>5. Served(Board)' BY <1>1, <1>4, <1>6, <2>4, ServedStays
  <2> QED BY <2>3, <2>5
<1>16. \A c \in Ids : c > created' \/ cards'[c].state = "none" => cards'[c] = NoCard
  <2>1. NoCard.state = "none" BY DEF NoCard
  <2> QED BY <1>1, <1>4, <2>1, CardFacts
<1>17. 1..created \subseteq 1..created' /\ work' = work BY <1>1
<1>18. \A c \in 1..created : cards[c].state = "none" => cards'[c].state = "none"
  BY <1>0, <1>4, CardFields
<1>19. \A c \in Ids : cards[c].state = "queued" => cards'[c].state = "queued" BY <1>4
<1>20. \A c \in Ids : cards[c].state = "running" \/ cards'[c].state = "running" => cards'[c] = cards[c]
  BY <1>4
<1> QED BY ONLY SessionInv, <1>6, <1>9, <1>10, <1>11, <1>12, <1>13, <1>14, <1>15, <1>16, <1>17, <1>18,
                <1>19, <1>20, QueueGrows

LEMMA LeaveNamingKeeps == ASSUME SessionInv, NEW c \in Ids, LeaveNaming(c) PROVE Keeps
<1>0. Typed /\ cards \in [Ids -> Card] /\ naming \in Seq(Ids) /\ queue \in Seq(Ids)
  BY CardFields DEF SessionInv, Typed
<1>1. /\ cards[c].state = "naming" /\ naming' = Sifted(naming, Ids \ {c})
      /\ cards' = [cards EXCEPT ![c].state = "done", ![c].code = None]
      /\ UNCHANGED <<created, queue, latest, dismissed, radio, results, stage, todo, look,
                     work, adding, up, removals, drops, forgotten>>
  BY DEF LeaveNaming, Without
<1>2. cards' \in [Ids -> Card] /\ cards'[c].state = "done" /\ \A e \in Ids : e # c => cards'[e] = cards[e]
  <2> DEFINE y == [cards[c] EXCEPT !.state = "done", !.code = None]
  <2>1. cards' = [cards EXCEPT ![c] = y] BY <1>0, <1>1
  <2>2. y \in Card /\ y.state = "done" BY <1>0 DEF Card, States
  <2> HIDE DEF y
  <2> QED BY <1>0, <2>1, <2>2
<1>3. /\ naming' \in Seq(Ids) /\ (NoDups(naming) => NoDups(naming'))
      /\ \A x : Occurs(x, naming') <=> Occurs(x, naming) /\ x \in Ids \ {c}
  BY <1>0, <1>1, SiftedOccurs
<1>4. Typed' BY <1>1, <1>2, <1>3 DEF SessionInv, Typed
<1>5. NamingInv' BY <1>2, <1>3 DEF SessionInv, NamingInv
<1>6. StagesInv' /\ RadioHeldByWork' /\ WorkerKeeps BY <1>1, QuietStages
<1>7. FoundOnce' BY <1>2 DEF SessionInv, FoundOnce
<1>8. BoardOK(Board)' /\ Served(Board)'
  <2>1. BoardOK(Board)' BY <1>1, <1>2 DEF SessionInv, CardsInv, BoardOK, Board
  <2>2. Served(Board)' BY <1>1, <1>2, ServedStays
  <2> QED BY <2>1, <2>2
<1>9. \A e \in Ids : e > created' \/ cards'[e].state = "none" => cards'[e] = NoCard
  <2>1. NoCard.state = "none" BY DEF NoCard
  <2> QED BY <1>1, <1>2, <2>1, CardFacts
<1>10. HeadKept(queue, queue') /\ work' = work /\ 1..created \subseteq 1..created'
  BY <1>1 DEF HeadKept
<1>12. /\ \A e \in Ids : cards[e].state = "none" => cards'[e].state = "none"
       /\ \A e \in Ids : cards[e].state = "queued" => cards'[e].state = "queued"
       /\ \A e \in Ids : cards[e].state = "running" \/ cards'[e].state = "running" => cards'[e] = cards[e]
  BY <1>1, <1>2
<1>13. \A e \in 1..created : cards[e].state = "none" => cards'[e].state = "none"
  BY <1>0, <1>12, CardFields
<1> QED BY ONLY SessionInv, <1>4, <1>5, <1>6, <1>7, <1>8, <1>9, <1>10, <1>12, <1>13, QueueGrows

LEMMA RemoveCardsKeeps == ASSUME SessionInv, NEW gone \in SUBSET Removable, RemoveCards(gone) PROVE Keeps
<1>0. Typed /\ cards \in [Ids -> Card] /\ naming \in Seq(Ids) /\ queue \in Seq(Ids)
  BY CardFields DEF SessionInv, Typed
<1>1. /\ cards' = [c \in Ids |-> IF c \in gone THEN NoCard ELSE cards[c]]
      /\ queue' = Sifted(queue, Ids \ gone) /\ naming' = Sifted(naming, Ids \ gone)
      /\ UNCHANGED <<created, latest, radio, results, stage, todo, look, work, adding, up, drops, forgotten>>
  BY DEF RemoveCards
<1>2. removals < MaxRemovals /\ removals' = removals + 1 /\ removals \in 0..MaxRemovals
  BY DEF RemoveCards, SessionInv, Typed
<1>3. removals' \in 0..MaxRemovals BY <1>2, TaskNames
<1>4. dismissed' \subseteq Devices
  <2>1. dismissed \subseteq Devices /\ \A c \in Ids : cards[c].at \in Devices \cup {None}
    BY <1>0 DEF Typed, Card
  <2>2. gone \subseteq Ids BY DEF Removable
  <2>3. dismissed' = dismissed \cup
           {cards[c].at : c \in {c \in gone : /\ cards[c].at # None
                                              /\ cards[c].state \notin {"naming", "done"}}}
    BY DEF RemoveCards
  <2> QED BY <2>1, <2>2, <2>3
<1>5. cards' \in [Ids -> Card] /\ \A c \in Ids : cards'[c] = IF c \in gone THEN NoCard ELSE cards[c]
  BY <1>0, <1>1, NoCardIsCard
<1>6. \A c \in gone : c \in Ids /\ cards[c].state # "running" BY DEF Removable
<1>7. /\ queue' \in Seq(Ids) /\ (NoDups(queue) => NoDups(queue'))
      /\ \A x : Occurs(x, queue') <=> Occurs(x, queue) /\ x \in Ids \ gone
      /\ queue # <<>> /\ Head(queue) \in Ids \ gone => HeadKept(queue, queue')
  BY <1>0, <1>1, SiftedOccurs
<1>8. /\ naming' \in Seq(Ids) /\ (NoDups(naming) => NoDups(naming'))
      /\ \A x : Occurs(x, naming') <=> Occurs(x, naming) /\ x \in Ids \ gone
  BY <1>0, <1>1, SiftedOccurs
<1>a. NoCard.state = "none"
  BY DEF NoCard
<1>9. Typed' BY <1>1, <1>3, <1>4, <1>5, <1>7, <1>8 DEF SessionInv, Typed
<1>10. NamingInv'
  <2>1. \A c \in Ids : Occurs(c, naming') <=> cards'[c].state = "naming"
    BY <1>5, <1>8, <1>a DEF SessionInv, NamingInv
  <2> QED BY <1>8, <2>1 DEF SessionInv, NamingInv
<1>11. StagesInv' /\ RadioHeldByWork' /\ WorkerKeeps BY <1>1, QuietStages
<1>12. FoundOnce' BY <1>5, <1>a DEF SessionInv, FoundOnce
<1>13. BoardOK(Board)'
  <2>1. \A c \in Ids : cards'[c].state \in {"ready", "queued", "not_nearby"} => cards'[c].code # None
    BY <1>5, <1>a DEF SessionInv, CardsInv, BoardOK, Board
  <2>2. \A c \in Ids : Occurs(c, queue') => cards'[c].state = "queued" BY <1>5, <1>7, CardFacts
  <2>3. NoDups(queue') BY <1>7, CardFacts
  <2> QED BY <2>1, <2>2, <2>3 DEF BoardOK, Board
<1>14. CardsInv'
  <2>1. \A e \in Ids : (e > created' => cards'[e] = NoCard) /\ (cards'[e].state = "none" => cards'[e] = NoCard)
    BY <1>1, <1>5, CardFacts
  <2> QED BY <1>13, <2>1 DEF CardsInv
<1>15. ServedInv'
  <2>1. Served(Board)' BY <1>1, <1>5, <1>7, <1>a, ServedStays
  <2>2. Picked' <=> Picked BY <1>1 DEF Picked
  <2> QED BY <1>1, <2>1, <2>2 DEF SessionInv, ServedInv
<1>16. \A c \in Ids : cards[c].state = "running" \/ cards'[c].state = "running" => cards'[c] = cards[c]
  BY <1>5, <1>6, <1>a
<1>17. PreRun => Waits(work.card)'
  <2> SUFFICES ASSUME PreRun PROVE Waits(work.card)' OBVIOUS
  <2>1. work.card \in Ids /\ Waits(work.card) /\ work' = work
    BY <1>0, <1>1, CardFields DEF SessionInv, WorkInv, Waits
  <2>2. CASE work.card \in gone BY <1>5, <1>a, <2>1, <2>2 DEF Waits
  <2>3. CASE work.card \notin gone
    <3>1. cards'[work.card] = cards[work.card] BY <1>5, <2>1, <2>3
    <3>2. queue # <<>> /\ Head(queue) = work.card => queue' # <<>> /\ Head(queue') = work.card
      BY <1>7, <2>1, <2>3 DEF HeadKept
    <3> QED BY <2>1, <3>1, <3>2 DEF Waits
  <2> QED BY <2>2, <2>3
<1>18. 1..created \subseteq 1..created' /\ work' = work BY <1>1
<1> QED BY ONLY SessionInv, <1>9, <1>10, <1>11, <1>12, <1>14, <1>15, <1>16, <1>17, <1>18, CardsChange

LEMMA ScanEndsKeeps ==
    ASSUME SessionInv, NEW t \in Tasks, NEW seen \in SUBSET Devices, ScanEnds(t, seen) PROVE Keeps
<1>0. Typed /\ cards \in [Ids -> Card] /\ created \in 0..MaxCards
  BY CardFields DEF SessionInv, Typed
<1>1. /\ stage[t] = "scanning" /\ stage' = [stage EXCEPT ![t] = "taking"] /\ todo' = [todo EXCEPT ![t] = seen]
      /\ UNCHANGED <<created, queue, naming, latest, dismissed, look, adding, up, removals, drops, forgotten>>
  BY DEF ScanEnds
<1>2. t \notin Adders /\ (t \in Scans \/ t = "work")
  <2>1. t \notin Adders BY <1>1 DEF SessionInv, StagesInv
  <2> QED BY <2>1, TaskNames
<1>3. stage' \in [Tasks -> Stages] /\ stage'[t] = "taking" /\ \A u \in Tasks : u # t => stage'[u] = stage[u]
  BY <1>1 DEF SessionInv, Typed, Stages
<1>4. todo' \in [Tasks -> SUBSET Devices] BY <1>1 DEF SessionInv, Typed
<1>5. StagesInv' BY <1>1, <1>2, StagesStand DEF RadioStages, Stages
<1>6. CASE t \in Scans
  <2>1. radio' = "free" /\ UNCHANGED <<cards, work>> BY <1>6 DEF ScanEnds
  <2>2. Typed' BY <1>1, <1>3, <1>4, <2>1 DEF SessionInv, Typed
  <2>3. RadioHeldByWork' BY <1>1, <1>3, <1>6, <2>1, TaskNames DEF SessionInv, RadioHeldByWork
  <2>4. stage'["work"] = stage["work"] /\ WorkerKeeps BY <1>3, <1>6, TaskNames DEF WorkerKeeps
  <2>5. UNCHANGED <<cards, created, queue, naming, work, forgotten>> BY <1>1, <2>1
  <2>6. stage'["work"] = "off" /\ stage["work"] # "off" => queue = <<>> BY <2>4
  <2> QED BY ONLY SessionInv, <1>5, <2>2, <2>3, <2>4, <2>5, <2>6, BoardStands
<1>7. CASE t = "work"
  <2> DEFINE at == Followed(seen)
             c == work.card
             w == [work EXCEPT !.at = at]
             y == [cards[c] EXCEPT !.at = at]
  <2>1. /\ work' = w
        /\ cards' = IF cards[c].state = "none" THEN cards ELSE [cards EXCEPT ![c].at = at]
        /\ UNCHANGED radio
    BY <1>7, TaskNames DEF ScanEnds
  <2>2. work.at \in Devices \cup {None} /\ work \in [card : 0..MaxCards, at : Devices \cup {None},
              code : Codes \cup {None}, again : BOOLEAN]
    BY DEF SessionInv, Typed
  <2>3. at \in Devices \cup {None}
    <3> DEFINE fit == {d \in seen : d \in Fits[work.code]}
    <3>1. Cardinality(fit) = 1 => fit # {} BY FS_EmptySet
    <3>2. Cardinality(fit) = 1 => (CHOOSE d \in fit : TRUE) \in fit BY <3>1
    <3>3. fit \subseteq Devices OBVIOUS
    <3>4. at = work.at \/ (Cardinality(fit) = 1 /\ at = CHOOSE d \in fit : TRUE) BY DEF Followed
    <3> HIDE DEF fit, at
    <3> QED BY <2>2, <3>2, <3>3, <3>4
  <2> HIDE DEF at
  <2>4. /\ w \in [card : 0..MaxCards, at : Devices \cup {None}, code : Codes \cup {None}, again : BOOLEAN]
        /\ w.card = c /\ w.again = work.again /\ w.code = work.code
    BY <2>2, <2>3
  <2> HIDE DEF w
  <2>5. PreRun \/ Running BY <1>1, <1>7 DEF PreRun, Picked, Running, RadioStages
  <2>6. /\ c \in 1..created /\ c \in Ids
        /\ PreRun => Waits(c)
        /\ Running => cards[c].state = "running"
        /\ \A e \in Ids : cards[e].state = "running" => Running /\ e = c
    BY <1>0, <2>5, CardFields DEF SessionInv, WorkInv, Waits
  <2>7. cards[c] \in Card /\ y \in Card /\ y.state = cards[c].state /\ y.code = cards[c].code
    BY <1>0, <2>3, <2>6 DEF Card
  <2>8. cards' = IF cards[c].state = "none" THEN cards ELSE [cards EXCEPT ![c] = y]
    BY <1>0, <2>1, <2>6
  <2> HIDE DEF y, c
  <2>9. cards' \in [Ids -> Card]
        /\ \A e \in Ids : /\ cards'[e].state = cards[e].state /\ cards'[e].code = cards[e].code
                          /\ e # c \/ cards[e].state = "none" => cards'[e] = cards[e]
    BY <1>0, <2>6, <2>7, <2>8
  <2>10. cards[c].state # "found" BY <2>5, <2>6 DEF Waits
  <2>11. Typed' BY <1>1, <1>3, <1>4, <2>1, <2>4, <2>9 DEF SessionInv, Typed
  <2>12. RadioHeldByWork' BY <1>1, <1>3, <1>7, <2>1, TaskNames DEF SessionInv, RadioHeldByWork
  <2>13. (PreRun' <=> PreRun) /\ (Picked' <=> Picked) /\ (Running' <=> Running)
    BY <1>1, <1>3, <1>7, <2>1, <2>4 DEF PreRun, Picked, Running, RadioStages
  <2>14. NamingInv' BY <1>1, <2>9, NamingStands
  <2>15. FoundOnce' BY <2>6, <2>9, <2>10 DEF SessionInv, FoundOnce
  <2>16. BoardOK(Board)' BY <1>1, <2>9 DEF SessionInv, CardsInv, BoardOK, Board
  <2>17. CardsInv'
    <3>1. NoCard.state = "none" BY DEF NoCard
    <3>2. \A e \in Ids : (e > created' => cards'[e] = NoCard) /\ (cards'[e].state = "none" => cards'[e] = NoCard)
      BY <1>1, <2>9, <3>1, CardFacts
    <3> QED BY <2>16, <3>2 DEF CardsInv
  <2>18. WorkInv'
    <3>1. work'.card = c /\ created' = created /\ queue' = queue /\ cards'[c].state = cards[c].state
      BY <1>1, <2>1, <2>4, <2>6, <2>9
    <3> QED BY <2>6, <2>9, <2>13, <3>1 DEF WorkInv, Waits
  <2>19. ServedInv'
    <3>1. stage'["work"] = "taking" /\ work'.code = work.code BY <1>1, <1>3, <1>7, <2>1, <2>4
    <3>2. Served(Board)' BY <1>1, <2>9, <3>1, CardFacts, ServedStays
    <3> QED BY <2>13, <3>1, <3>2 DEF SessionInv, ServedInv
  <2>20. RunningStep BY <1>1, <1>3, <1>7, <2>6 DEF RunningStep, c
  <2> QED BY <1>5, <2>11, <2>12, <2>14, <2>15, <2>17, <2>18, <2>19, <2>20 DEF Keeps, SessionInv
<1> QED BY <1>2, <1>6, <1>7
----------------------------------------
(* The session: the worker and the queue. *)

WorkType == [card : 0..MaxCards, at : Devices \cup {None}, code : Codes \cup {None}, again : BOOLEAN]

(* The worker goes to stage s, and no card was running. *)
LEMMA WorkerMoves ==
    ASSUME SessionInv, NEW s \in Stages, s # "label", stage' = [stage EXCEPT !["work"] = s],
           ~Running, work' \in WorkType, cards' \in [Ids -> Card], queue' \in Seq(Ids),
           CardsInv', NamingInv', FoundOnce', WorkInv', ServedInv',
           IF s \in {"off", "loop", "radio"} THEN radio' # "work" ELSE radio' = "work",
           radio \notin Scans \/ radio' = radio, radio' \in {"free", "work"} \/ radio' = radio,
           forgotten' \subseteq Ids,
           UNCHANGED <<created, naming, latest, dismissed, results, todo, look, adding, up, removals, drops>>
    PROVE  Keeps
<1>1. /\ stage' \in [Tasks -> Stages] /\ stage'["work"] = s
      /\ \A u \in Scans : stage'[u] = stage[u] /\ (radio' = u <=> radio = u)
      /\ radio' \in Scanners \cup {"free"}
  BY TaskNames DEF SessionInv, Typed
<1>2. Typed' BY <1>1 DEF SessionInv, Typed, WorkType
<1>3. StagesInv' BY TaskNames, StagesStand
<1>4. RadioHeldByWork' BY <1>1 DEF SessionInv, RadioHeldByWork
<1>5. RunningStep BY DEF SessionInv, WorkInv, RunningStep
<1> QED BY <1>2, <1>3, <1>4, <1>5 DEF SessionInv, Keeps

LEMMA HeadIsQueued ==
    ASSUME SessionInv, queue # <<>>
    PROVE  /\ Head(queue) \in Ids /\ Head(queue) \in 1..created
           /\ cards[Head(queue)].state = "queued" /\ cards[Head(queue)].code # None
           /\ cards[Head(queue)] \in Card /\ Waits(Head(queue))
           /\ Tail(queue) \in Seq(Ids) /\ NoDups(Tail(queue))
           /\ \A x : Occurs(x, Tail(queue)) <=> Occurs(x, queue) /\ x # Head(queue)
<1>0. Typed /\ queue \in Seq(Ids) /\ created \in 0..MaxCards BY DEF SessionInv, Typed
<1>1. NoDups(queue) BY CardFacts
<1>2. /\ Tail(queue) \in Seq(Ids) /\ NoDups(Tail(queue))
      /\ Head(queue) \in Ids /\ Occurs(Head(queue), queue)
      /\ \A x : Occurs(x, Tail(queue)) <=> Occurs(x, queue) /\ x # Head(queue)
  BY ONLY <1>0, <1>1, TailOccurs, queue # <<>>
<1> DEFINE c == Head(queue)
<1>3. cards[c].state = "queued" /\ cards[c] \in Card BY <1>0, <1>2, CardFacts, CardFields
<1>4. cards[c].code # None BY <1>2, <1>3 DEF SessionInv, CardsInv, BoardOK, Board
<1> HIDE DEF c
<1>5. c \in 1..created
  <2>1. NoCard.state = "none" BY DEF NoCard
  <2>2. ~(c > created) BY <1>2, <1>3, <2>1, CardFacts DEF c
  <2> QED BY <1>0, <1>2, <2>2, TaskNames DEF Ids, c
<1> QED BY <1>2, <1>3, <1>4, <1>5 DEF c, Waits

LEMMA HeadTaken ==
    ASSUME SessionInv, queue # <<>>, NEW y \in Card, y.state \in {"not_nearby", "running"}, y.code # None,
           cards' = [cards EXCEPT ![Head(queue)] = y], queue' = Tail(queue),
           created' = created, naming' = naming, forgotten' = forgotten
    PROVE  /\ cards' \in [Ids -> Card] /\ queue' \in Seq(Ids) /\ CardsInv' /\ NamingInv' /\ FoundOnce'
           /\ AllQueued(Board)' /\ \A x : Occurs(x, queue') => Occurs(x, queue)
           /\ cards'[Head(queue)] = y /\ \A e \in Ids : e # Head(queue) => cards'[e] = cards[e]
<1> DEFINE c == Head(queue)
<1>0. cards \in [Ids -> Card] BY DEF SessionInv, Typed
<1>1. /\ c \in Ids /\ c \in 1..created /\ cards[c].state = "queued"
      /\ Tail(queue) \in Seq(Ids) /\ NoDups(Tail(queue))
      /\ \A x : Occurs(x, Tail(queue)) <=> Occurs(x, queue) /\ x # c
  BY HeadIsQueued
<1> HIDE DEF c
<1>2. cards' \in [Ids -> Card] /\ cards'[c] = y /\ \A e \in Ids : e # c => cards'[e] = cards[e]
  BY <1>0, <1>1 DEF c
<1>3. BoardOK(Board)'
  <2>1. \A e \in Ids : cards'[e].state \in {"ready", "queued", "not_nearby"} => cards'[e].code # None
    BY <1>2 DEF SessionInv, CardsInv, BoardOK, Board
  <2>2. \A e \in Ids : Occurs(e, queue') => cards'[e].state = "queued" BY <1>1, <1>2, CardFacts
  <2>3. NoDups(queue') BY <1>1
  <2> QED BY <2>1, <2>2, <2>3 DEF BoardOK, Board
<1>4. CardsInv'
  <2>1. c > created => cards[c] = NoCard BY <1>1, CardFacts
  <2>2. NoCard.state = "none" BY DEF NoCard
  <2>3. \A e \in Ids : (e > created' => cards'[e] = NoCard) /\ (cards'[e].state = "none" => cards'[e] = NoCard)
    BY <1>1, <1>2, <2>1, <2>2, CardFacts
  <2> QED BY <1>3, <2>3 DEF CardsInv
<1>5. NamingInv' BY <1>1, <1>2, NamingStands
<1>6. FoundOnce' BY <1>1, <1>2 DEF SessionInv, FoundOnce
<1>7. AllQueued(Board)' BY <1>1, <1>2, CardFacts DEF AllQueued, Board
<1> QED BY <1>1, <1>2, <1>4, <1>5, <1>6, <1>7 DEF c

(* A queue that lost its head, or nothing, while the cards stay. *)
LEMMA CardsStand ==
    ASSUME SessionInv, queue' = queue \/ (queue # <<>> /\ queue' = Tail(queue)),
           UNCHANGED <<cards, created, naming>>
    PROVE  /\ cards' \in [Ids -> Card] /\ queue' \in Seq(Ids) /\ CardsInv' /\ NamingInv' /\ FoundOnce'
<1>1. cards' \in [Ids -> Card] /\ NamingInv' /\ FoundOnce'
  BY DEF SessionInv, Typed, NamingInv, FoundOnce
<1>2. queue' \in Seq(Ids) /\ NoDups(queue') /\ \A x : Occurs(x, queue') => Occurs(x, queue)
  <2>1. CASE queue' = queue
    <3>1. queue \in Seq(Ids) BY DEF SessionInv, Typed
    <3> QED BY <2>1, <3>1, CardFacts
  <2>2. CASE queue # <<>> /\ queue' = Tail(queue) BY <2>2, HeadIsQueued
  <2> QED BY <2>1, <2>2
<1>3. CardsInv' BY <1>2 DEF SessionInv, CardsInv, BoardOK, Board
<1> QED BY <1>1, <1>2, <1>3

LEMMA SkipKeeps == ASSUME SessionInv, Skip PROVE Keeps
<1> DEFINE c == Head(queue)
           y == [cards[c] EXCEPT !.state = "not_nearby"]
<1>1. /\ stage["work"] = "loop" /\ queue # <<>> /\ queue' = Tail(queue)
      /\ cards' = IF Runnable(c) THEN [cards EXCEPT ![c].state = "not_nearby"] ELSE cards
      /\ UNCHANGED <<created, naming, latest, dismissed, radio, results, stage, todo, look,
                     work, adding, up, removals, drops, forgotten>>
  BY DEF Skip
<1>2. /\ c \in Ids /\ cards[c].state = "queued" /\ cards[c].code # None /\ cards[c] \in Card
  BY <1>1, HeadIsQueued
<1>3. cards' = [cards EXCEPT ![c] = y]
  <2>1. cards \in [Ids -> Card] BY DEF SessionInv, Typed
  <2> QED BY <1>1, <1>2, <2>1 DEF Runnable
<1>4. y \in Card /\ y.state = "not_nearby" /\ y.code # None BY <1>2 DEF Card, States
<1> HIDE DEF y
<1>5. /\ cards' \in [Ids -> Card] /\ queue' \in Seq(Ids) /\ CardsInv' /\ NamingInv' /\ FoundOnce'
      /\ AllQueued(Board)' /\ \A x : Occurs(x, queue') => Occurs(x, queue)
      /\ cards'[c] = y /\ \A e \in Ids : e # c => cards'[e] = cards[e]
  BY <1>1, <1>3, <1>4, HeadTaken
<1> HIDE DEF c
<1>6. ~PreRun /\ ~Running /\ ~PreRun' /\ ~Picked' /\ ~Running'
  BY <1>1 DEF PreRun, Picked, Running, RadioStages
<1>7. \A e \in Ids : cards'[e].state # "running" BY <1>4, <1>5, <1>6 DEF SessionInv, WorkInv
<1>8. WorkInv' BY <1>6, <1>7 DEF WorkInv
<1>9. ServedInv' BY <1>1, <1>5, <1>6 DEF ServedInv, Served, Board, WorkerActive
<1>10. Typed' BY <1>1, <1>5 DEF SessionInv, Typed
<1>11. StagesInv' /\ RadioHeldByWork' BY <1>1, QuietStages
<1>12. RunningStep BY <1>6 DEF SessionInv, WorkInv, RunningStep
<1> QED BY <1>5, <1>8, <1>9, <1>10, <1>11, <1>12 DEF SessionInv, Keeps

LEMMA NoWorkIsWork == NoWork \in WorkType
  BY TaskNames DEF NoWork, WorkType

(* The worker lets go of its card, without a card running. *)
LEMMA Releases ==
    ASSUME SessionInv, ~Running, NEW s \in {"off", "loop"}, ReleaseTo(s), radio \notin Scans,
           cards' \in [Ids -> Card], queue' \in Seq(Ids), CardsInv', NamingInv', FoundOnce',
           \A e \in Ids : cards'[e].state # "running",
           AllQueued(Board)', s = "off" => Left(queue)', forgotten' \subseteq Ids,
           UNCHANGED <<created, naming, latest, dismissed, results, todo, look, adding, up, removals, drops>>
    PROVE  Keeps
<1>1. radio' = "free" /\ stage' = [stage EXCEPT !["work"] = s] /\ work' = NoWork BY DEF ReleaseTo
<1>2. stage'["work"] = s /\ s \in Stages /\ s # "label"
  BY <1>1, TaskNames DEF SessionInv, Typed, Stages
<1>3. ~PreRun' /\ ~Picked' /\ ~Running' BY <1>2 DEF PreRun, Picked, Running, RadioStages
<1>4. WorkInv' BY <1>3 DEF WorkInv
<1>5. ServedInv'
  <2>1. WorkerActive' \/ Left(queue)' BY <1>2 DEF WorkerActive
  <2> QED BY <1>3, <2>1 DEF ServedInv, Served, Board, Left
<1>6. work' \in WorkType BY <1>1, NoWorkIsWork
<1>7. /\ IF s \in {"off", "loop", "radio"} THEN radio' # "work" ELSE radio' = "work"
      /\ radio \notin Scans \/ radio' = radio
      /\ radio' \in {"free", "work"} \/ radio' = radio
  BY <1>1
<1> QED BY <1>1, <1>2, <1>4, <1>5, <1>6, <1>7, WorkerMoves

(* The cards that are lost with card c, if it was removed before its turn. *)
Lost(c, at) ==
    IF cards[c].state # "none" \/ queue = <<>> THEN {}
    ELSE IF Unseen(c, at) THEN {Head(queue)} ELSE ToSet(queue)

LEMMA LostAreQueued ==
    ASSUME SessionInv, NEW c, NEW at, forgotten' = forgotten \cup Lost(c, at)
    PROVE  /\ forgotten' \subseteq Ids
           /\ Lost(c, at) = {} => forgotten' = forgotten
           /\ Lost(c, at) = {Head(queue)} => Head(queue) \in forgotten'
           /\ Lost(c, at) = ToSet(queue) => \A e \in Ids : Occurs(e, queue) => e \in forgotten'
<1>1. queue \in Seq(Ids) /\ forgotten \subseteq Ids BY DEF SessionInv, Typed
<1>2. \A x : x \in ToSet(queue) <=> Occurs(x, queue) BY <1>1 DEF ToSet, Occurs
<1>3. \A x : Occurs(x, queue) => x \in Ids BY <1>1 DEF Occurs
<1>4. queue # <<>> => Head(queue) \in Ids BY HeadIsQueued
<1>5. Lost(c, at) \subseteq Ids BY <1>2, <1>3, <1>4 DEF Lost
<1> QED BY <1>1, <1>2, <1>5

LEMMA RunOrSkipKeeps ==
    ASSUME SessionInv, ~Running, radio \notin Scans, NEW c \in 1..created, Waits(c),
           NEW at \in Devices \cup {None}, RunOrSkip(c, at), forgotten' = forgotten \cup Lost(c, at),
           UNCHANGED <<created, naming, latest, dismissed, results, todo, look, adding, up, removals, drops>>
    PROVE  Keeps
<1> DEFINE card == cards[c]
           unseen == Unseen(c, at)
<1>0. Typed /\ cards \in [Ids -> Card] /\ queue \in Seq(Ids) /\ created \in 0..MaxCards
  BY CardFields DEF SessionInv, Typed
<1>1. c \in Ids /\ card \in Card /\ (card.state = "none" => card.code = None)
  BY <1>0, CardFields, CardFacts
<1>2. \A e \in Ids : cards[e].state # "running" BY DEF SessionInv, WorkInv
<1>3. queue' = IF queue = <<>> THEN queue ELSE Tail(queue) BY DEF RunOrSkip
<1>4. /\ forgotten' \subseteq Ids
      /\ card.state # "none" => forgotten' = forgotten
      /\ card.state = "none" /\ queue # <<>> =>
           IF unseen THEN Head(queue) \in forgotten'
           ELSE \A e \in Ids : Occurs(e, queue) => e \in forgotten'
  <2> HIDE DEF unseen
  <2>1. Lost(c, at) = IF card.state # "none" \/ queue = <<>> THEN {}
                      ELSE IF unseen THEN {Head(queue)} ELSE ToSet(queue)
    BY DEF Lost, unseen
  <2> QED BY <2>1, LostAreQueued
<1>a. forgotten \subseteq forgotten' OBVIOUS
<1>b. \A x : queue = <<>> => ~Occurs(x, queue) BY DEF Occurs
<1> HIDE DEF unseen
<1>5. CASE cards' = cards /\ (queue = <<>> \/ (~unseen /\ card.code = None)) /\ ReleaseTo("off")
  <2>1. cards' \in [Ids -> Card] /\ queue' \in Seq(Ids) /\ CardsInv' /\ NamingInv' /\ FoundOnce'
    BY <1>3, <1>5, CardsStand
  <2>2. queue # <<>> => card.state = "none" BY <1>5, HeadIsQueued DEF Waits
  <2>3. \A e \in Ids : Occurs(e, queue) => e \in forgotten' BY <1>4, <1>5, <1>b, <2>2
  <2>4. AllQueued(Board)' BY <1>5, <1>a, <2>3, CardFacts DEF AllQueued, Board
  <2>5. Left(queue)'
    <3>1. \A e \in Ids : Occurs(e, queue') => Occurs(e, queue) BY <1>3, HeadIsQueued
    <3> QED BY <2>3, <3>1 DEF Left
  <2> QED BY <1>2, <1>4, <1>5, <2>1, <2>4, <2>5, Releases
<1>6. CASE /\ queue # <<>> /\ unseen /\ ReleaseTo("loop")
           /\ cards' = IF card.state = "none" THEN cards ELSE [cards EXCEPT ![c].state = "not_nearby"]
  <2>1. CASE card.state = "none"
    <3>1. cards' = cards BY <1>6, <2>1
    <3>2. cards' \in [Ids -> Card] /\ queue' \in Seq(Ids) /\ CardsInv' /\ NamingInv' /\ FoundOnce'
      BY <1>3, <3>1, CardsStand, <1>6
    <3>3. AllQueued(Board)'
      <4> SUFFICES ASSUME NEW e \in Ids, e \notin forgotten', cards[e].state = "queued"
                   PROVE  Occurs(e, queue')
        BY <3>1 DEF AllQueued, Board
      <4>1. Occurs(e, queue) /\ e # Head(queue) BY <1>4, <1>6, <1>a, <2>1, CardFacts
      <4> QED BY <1>3, <1>6, <4>1, HeadIsQueued
    <3> QED BY <1>2, <1>4, <1>6, <3>1, <3>2, <3>3, Releases
  <2>2. CASE card.state # "none"
    <3> DEFINE y == [card EXCEPT !.state = "not_nearby"]
    <3>1. Head(queue) = c /\ card.code # None BY <1>6, <2>2, HeadIsQueued DEF Waits
    <3>2. y \in Card /\ y.state = "not_nearby" /\ y.code # None BY <1>1, <3>1 DEF Card, States
    <3>3. cards' = [cards EXCEPT ![Head(queue)] = y] /\ queue' = Tail(queue)
      BY <1>0, <1>1, <1>3, <1>6, <2>2, <3>1
    <3> HIDE DEF y
    <3>4. /\ cards' \in [Ids -> Card] /\ queue' \in Seq(Ids) /\ CardsInv' /\ NamingInv' /\ FoundOnce'
          /\ AllQueued(Board)'
          /\ cards'[Head(queue)] = y /\ \A e \in Ids : e # Head(queue) => cards'[e] = cards[e]
      BY <1>4, <1>6, <2>2, <3>2, <3>3, HeadTaken
    <3>5. \A e \in Ids : cards'[e].state # "running" BY <1>2, <3>2, <3>4
    <3> QED BY <1>4, <1>6, <3>4, <3>5, Releases
  <2> QED BY <2>1, <2>2
<1>7. CASE /\ queue # <<>> /\ card.code # None /\ radio' = "work"
           /\ work' = [card |-> c, at |-> at, code |-> card.code, again |-> FALSE]
           /\ stage' = [stage EXCEPT !["work"] = "commission"]
           /\ cards' = [cards EXCEPT ![c].state = "running", ![c].forced = FALSE]
  <2> DEFINE y == [card EXCEPT !.state = "running", !.forced = FALSE]
  <2>1. card.state # "none" /\ Head(queue) = c BY <1>1, <1>7 DEF Waits
  <2>2. y \in Card /\ y.state = "running" /\ y.code # None BY <1>1, <1>7 DEF Card, States
  <2>3. cards' = [cards EXCEPT ![Head(queue)] = y] /\ queue' = Tail(queue)
    BY <1>0, <1>1, <1>3, <1>7, <2>1
  <2> HIDE DEF y
  <2>4. /\ cards' \in [Ids -> Card] /\ queue' \in Seq(Ids) /\ CardsInv' /\ NamingInv' /\ FoundOnce'
        /\ AllQueued(Board)'
        /\ cards'[c] = y /\ \A e \in Ids : e # c => cards'[e] = cards[e]
    BY <1>4, <1>7, <2>1, <2>2, <2>3, HeadTaken
  <2>5. work' \in WorkType /\ work'.card = c /\ ~work'.again
    <3>1. card.code \in Codes \cup {None} /\ c \in 0..MaxCards
      BY <1>0, <1>1, TaskNames DEF Card, Ids
    <3> QED BY <1>7, <3>1 DEF WorkType
  <2>6. stage'["work"] = "commission" /\ "commission" \in Stages
    BY <1>7, TaskNames DEF SessionInv, Typed, Stages
  <2>7. ~PreRun' /\ ~Picked' /\ Running' BY <2>6 DEF PreRun, Picked, Running, RadioStages
  <2>8. WorkInv' BY <1>2, <2>2, <2>4, <2>5, <2>7 DEF WorkInv
  <2>9. ServedInv' BY <2>4, <2>6, <2>7 DEF ServedInv, Served, Board, WorkerActive
  <2> QED BY <1>4, <1>7, <2>4, <2>5, <2>6, <2>8, <2>9, WorkerMoves
<1> QED BY <1>5, <1>6, <1>7 DEF RunOrSkip, unseen

LEMMA ClaimKeeps ==
    ASSUME SessionInv, ~Running, radio \notin Scans, NEW c \in 1..created,
           queue # <<>>, Head(queue) = c, Claim(c), forgotten' = forgotten,
           UNCHANGED <<created, naming, latest, dismissed, results, todo, look, adding, up, removals, drops>>
    PROVE  Keeps
<1>0. Typed /\ cards \in [Ids -> Card] /\ created \in 0..MaxCards
  BY CardFields DEF SessionInv, Typed
<1>1. c \in Ids /\ cards[c] \in Card /\ cards[c].at \in Devices \cup {None}
      /\ cards[c].state = "queued" /\ cards[c].code # None /\ Waits(c)
  BY <1>0, CardFields, HeadIsQueued DEF Card
<1>2. CASE RunOrSkip(c, cards[c].at)
  <2>1. Lost(c, cards[c].at) = {} BY <1>1 DEF Lost
  <2> QED BY <1>1, <1>2, <2>1, RunOrSkipKeeps
<1>3. CASE /\ radio' = "work"
           /\ work' = [card |-> c, at |-> cards[c].at, code |-> cards[c].code, again |-> FALSE]
           /\ stage' = [stage EXCEPT !["work"] = "scanning"]
           /\ UNCHANGED <<cards, queue>>
  <2>1. cards' \in [Ids -> Card] /\ queue' \in Seq(Ids) /\ CardsInv' /\ NamingInv' /\ FoundOnce'
    BY <1>3, CardsStand
  <2>2. work' \in WorkType /\ work'.card = c /\ ~work'.again /\ work'.code # None
    <3>1. cards[c].code \in Codes \cup {None} /\ c \in 0..MaxCards
      BY <1>0, <1>1, TaskNames DEF Card, Ids
    <3> QED BY <1>1, <1>3, <3>1 DEF WorkType
  <2>3. stage'["work"] = "scanning" /\ "scanning" \in Stages
    BY <1>3, TaskNames DEF SessionInv, Typed, Stages
  <2>4. PreRun' /\ ~Running' BY <2>2, <2>3 DEF PreRun, Picked, Running, RadioStages
  <2>5. \A e \in Ids : cards[e].state # "running" BY DEF SessionInv, WorkInv
  <2>6. WorkInv' BY <1>1, <1>3, <2>2, <2>4, <2>5 DEF WorkInv, Waits
  <2>7. ServedInv'
    <3>1. Served(Board)' BY <1>3, <2>3, CardFacts, ServedStays
    <3> QED BY <2>2, <3>1 DEF ServedInv
  <2>8. forgotten' \subseteq Ids BY DEF SessionInv, Typed
  <2> QED BY <1>3, <2>1, <2>2, <2>3, <2>6, <2>7, <2>8, WorkerMoves
<1> QED BY <1>2, <1>3 DEF Claim

LEMMA TurnKeeps == ASSUME SessionInv, Turn PROVE Keeps
<1> DEFINE c == Head(queue)
<1>1. /\ stage["work"] = "loop" /\ queue # <<>>
      /\ UNCHANGED <<created, naming, latest, dismissed, results, todo, look, adding, up, removals, drops, forgotten>>
  BY DEF Turn
<1>2. c \in 1..created /\ c \in Ids /\ Waits(c) /\ cards[c].state = "queued" BY <1>1, HeadIsQueued
<1>3. ~Running /\ ~PreRun BY <1>1 DEF PreRun, Picked, Running, RadioStages
<1>4. CASE radio = "free"
  <2>1. Claim(c) /\ radio \notin Scans /\ Head(queue) = c BY <1>4, TaskNames DEF Turn
  <2> HIDE DEF c
  <2> QED BY <1>1, <1>2, <1>3, <2>1, ClaimKeeps
<1>5. CASE radio # "free"
  <2>1. /\ stage' = [stage EXCEPT !["work"] = "radio"] /\ work' = [NoWork EXCEPT !.card = c]
        /\ UNCHANGED <<cards, queue, radio>>
    BY <1>5 DEF Turn
  <2> HIDE DEF c
  <2>2. cards' \in [Ids -> Card] /\ queue' \in Seq(Ids) /\ CardsInv' /\ NamingInv' /\ FoundOnce'
    BY <1>1, <2>1, CardsStand
  <2>3. work' \in WorkType /\ work'.card = c /\ ~work'.again
    <3>1. c \in 0..MaxCards BY <1>2, TaskNames DEF Ids
    <3> QED BY <2>1, <3>1 DEF WorkType, NoWork
  <2>4. stage'["work"] = "radio" /\ "radio" \in Stages
    BY <2>1, TaskNames DEF SessionInv, Typed, Stages
  <2>5. PreRun' /\ ~Picked' /\ ~Running' BY <2>4 DEF PreRun, Picked, Running, RadioStages
  <2>6. WorkInv' BY <1>1, <1>2, <1>3, <2>1, <2>3, <2>5 DEF SessionInv, WorkInv, Waits
  <2>7. ServedInv'
    <3>1. Served(Board)' BY <1>1, <2>1, <2>4, CardFacts, ServedStays
    <3> QED BY <2>5, <3>1 DEF ServedInv
  <2>8. radio # "work" /\ forgotten' \subseteq Ids BY <1>1 DEF SessionInv, RadioHeldByWork, Typed
  <2> QED BY <1>1, <1>3, <2>1, <2>2, <2>3, <2>4, <2>6, <2>7, <2>8, WorkerMoves
<1> QED BY <1>4, <1>5

LEMMA GetRadioKeeps == ASSUME SessionInv, GetRadio PROVE Keeps
<1> DEFINE c == work.card
<1>1. /\ stage["work"] = "radio" /\ radio = "free"
      /\ UNCHANGED <<created, naming, latest, dismissed, results, todo, look, adding, up, removals, drops, forgotten>>
  BY DEF GetRadio
<1>2. PreRun /\ ~Running BY <1>1 DEF PreRun, Running, RadioStages
<1>3. c \in 1..created /\ radio \notin Scans BY <1>1, <1>2, TaskNames DEF SessionInv, WorkInv
<1>4. CASE Claim(c) /\ queue # <<>> /\ Head(queue) = c
  <2> HIDE DEF c
  <2> QED BY <1>1, <1>2, <1>3, <1>4, ClaimKeeps
<1>5. CASE ReleaseTo("loop") /\ UNCHANGED <<cards, queue>>
  <2>1. cards' \in [Ids -> Card] /\ queue' \in Seq(Ids) /\ CardsInv' /\ NamingInv' /\ FoundOnce'
    BY <1>1, <1>5, CardsStand
  <2>2. \A e \in Ids : cards'[e].state # "running" BY <1>2, <1>5 DEF SessionInv, WorkInv
  <2>3. AllQueued(Board)' BY <1>1, <1>5, CardFacts DEF AllQueued, Board
  <2>4. forgotten' \subseteq Ids BY <1>1 DEF SessionInv, Typed
  <2> QED BY <1>1, <1>2, <1>3, <1>5, <2>1, <2>2, <2>3, <2>4, Releases
<1> QED BY <1>4, <1>5 DEF GetRadio

LEMMA RefreshedKeeps == ASSUME SessionInv, Refreshed PROVE Keeps
<1>1. /\ stage["work"] = "warning" /\ ~work.again /\ RunOrSkip(work.card, work.at)
      /\ forgotten' = forgotten \cup Displaced
      /\ UNCHANGED <<created, naming, latest, dismissed, results, todo, look, adding, up, removals, drops>>
  BY DEF Refreshed
<1>2. Picked /\ PreRun /\ ~Running BY <1>1 DEF PreRun, Picked, Running, RadioStages
<1>3. work.card \in 1..created /\ Waits(work.card) /\ work.code # None
  BY <1>2 DEF SessionInv, WorkInv, Waits, ServedInv
<1>4. radio \notin Scans /\ work.at \in Devices \cup {None}
  BY <1>1, TaskNames DEF SessionInv, RadioHeldByWork, Typed
<1>5. Displaced = Lost(work.card, work.at) BY <1>3 DEF Displaced, Lost
<1> QED BY <1>1, <1>2, <1>3, <1>4, <1>5, RunOrSkipKeeps

LEMMA EndedKeeps == ASSUME SessionInv, RunEnded PROVE Keeps
<1>1. /\ stage["work"] = "ending" /\ ReleaseTo("loop") /\ UNCHANGED <<cards, queue, forgotten>>
      /\ UNCHANGED <<created, naming, latest, dismissed, results, todo, look, adding, up, removals, drops>>
  BY DEF RunEnded
<1>2. ~Running /\ radio \notin Scans
  BY <1>1, TaskNames DEF Running, RadioStages, SessionInv, RadioHeldByWork
<1>3. cards' \in [Ids -> Card] /\ queue' \in Seq(Ids) /\ CardsInv' /\ NamingInv' /\ FoundOnce'
  BY <1>1, CardsStand
<1>4. \A e \in Ids : cards'[e].state # "running" BY <1>1, <1>2 DEF SessionInv, WorkInv
<1>5. AllQueued(Board)' BY <1>1, CardFacts DEF AllQueued, Board
<1>6. forgotten' \subseteq Ids BY <1>1 DEF SessionInv, Typed
<1> QED BY <1>1, <1>2, <1>3, <1>4, <1>5, <1>6, Releases
----------------------------------------
(* The session: a commissioning ends, and every step together. *)

LEMMA CommissionFacts ==
    ASSUME SessionInv, stage["work"] = "commission"
    PROVE  /\ Running /\ ~PreRun /\ work.card \in 1..created /\ work.card \in Ids
           /\ cards[work.card].state = "running" /\ cards[work.card] \in Card
           /\ \A e \in Ids : cards[e].state = "running" => e = work.card
           /\ ~Occurs(work.card, queue) /\ ~Occurs(work.card, naming)
           /\ \A e \in Ids : e > created => e # work.card
<1>1. Running /\ ~PreRun BY DEF PreRun, Picked, Running, RadioStages
<1>2. /\ work.card \in 1..created /\ cards[work.card].state = "running"
      /\ \A e \in Ids : cards[e].state = "running" => e = work.card
  BY <1>1 DEF SessionInv, WorkInv
<1>3. work.card \in Ids /\ cards[work.card] \in Card /\ created \in 0..MaxCards
  BY <1>2, CardFields DEF SessionInv
<1>4. ~Occurs(work.card, queue) /\ ~Occurs(work.card, naming)
  BY <1>2, <1>3, CardFacts DEF SessionInv, NamingInv
<1>5. \A e \in Ids : e > created => e # work.card BY <1>2, <1>3, TaskNames DEF Ids
<1> QED BY <1>1, <1>2, <1>3, <1>4, <1>5

LEMMA ConnectionLostKeeps == ASSUME SessionInv, ConnectionLost PROVE Keeps
<1>1. /\ stage["work"] = "commission" /\ work' = [work EXCEPT !.again = TRUE]
      /\ stage' = [stage EXCEPT !["work"] = "scanning"]
      /\ UNCHANGED <<cards, created, queue, naming, latest, dismissed, radio, results, todo,
                     look, adding, up, removals, drops, forgotten>>
  BY DEF ConnectionLost
<1>2. /\ stage' \in [Tasks -> Stages] /\ stage'["work"] = "scanning"
      /\ \A u \in Scans : stage'[u] = stage[u]
  BY <1>1, TaskNames DEF SessionInv, Typed, Stages
<1>3. /\ work' \in [card : 0..MaxCards, at : Devices \cup {None}, code : Codes \cup {None}, again : BOOLEAN]
      /\ work'.card = work.card /\ work'.again
  BY <1>1 DEF SessionInv, Typed
<1>4. Typed' BY <1>1, <1>2, <1>3 DEF SessionInv, Typed
<1>5. StagesInv' BY <1>1, TaskNames, StagesStand DEF Stages
<1>6. RadioHeldByWork' BY <1>1, <1>2 DEF SessionInv, RadioHeldByWork
<1>7. CardsInv' /\ NamingInv' /\ FoundOnce' BY <1>1, CardsStand
<1>8. Running' /\ ~PreRun' /\ ~Picked' BY <1>2, <1>3 DEF PreRun, Picked, Running, RadioStages
<1>9. WorkInv' BY <1>1, <1>3, <1>8, CommissionFacts DEF WorkInv
<1>10. ServedInv'
  <2>1. Served(Board)' BY <1>1, <1>2, CardFacts, ServedStays
  <2> QED BY <1>8, <2>1 DEF ServedInv
<1> QED BY <1>1, <1>4, <1>5, <1>6, <1>7, <1>9, <1>10 DEF SessionInv, Keeps, RunningStep

(* The running card ends, and the queue is as it was. *)
LEMMA CardEnds ==
    ASSUME SessionInv, stage["work"] = "commission", stage' = [stage EXCEPT !["work"] = "ending"],
           cards' \in [Ids -> Card], naming' \in Seq(Ids), NamingInv',
           \A e \in Ids : e # work.card => cards'[e] = cards[e] \/ (cards[e].state = "found" /\ cards'[e] = NoCard),
           cards'[work.card].state \in {"failed", "done", "naming"},
           UNCHANGED <<created, queue, latest, dismissed, radio, results, todo, look,
                       work, adding, up, removals, drops, forgotten>>
    PROVE  Keeps
<1>1. /\ stage' \in [Tasks -> Stages] /\ stage'["work"] = "ending"
      /\ \A u \in Scans : stage'[u] = stage[u]
  BY TaskNames DEF SessionInv, Typed, Stages
<1>2. Typed' BY <1>1 DEF SessionInv, Typed
<1>3. StagesInv' BY TaskNames, StagesStand DEF Stages
<1>4. RadioHeldByWork' BY <1>1 DEF SessionInv, RadioHeldByWork
<1>5. ~PreRun' /\ ~Picked' /\ ~Running' BY <1>1 DEF PreRun, Picked, Running, RadioStages
<1>6. NoCard.state = "none" BY DEF NoCard
<1>7. BoardOK(Board)'
  <2>1. \A e \in Ids : cards'[e].state \in {"ready", "queued", "not_nearby"} => cards'[e].code # None
    BY <1>6 DEF SessionInv, CardsInv, BoardOK, Board
  <2>2. \A e \in Ids : Occurs(e, queue') => cards'[e].state = "queued"
    <3> SUFFICES ASSUME NEW e \in Ids, Occurs(e, queue) PROVE cards'[e].state = "queued" OBVIOUS
    <3>1. cards[e].state = "queued" /\ e # work.card BY CardFacts, CommissionFacts
    <3> QED BY <3>1
  <2>3. NoDups(queue') BY CardFacts
  <2> QED BY <2>1, <2>2, <2>3 DEF BoardOK, Board
<1>8. CardsInv'
  <2>1. \A e \in Ids : (e > created' => cards'[e] = NoCard) /\ (cards'[e].state = "none" => cards'[e] = NoCard)
    <3> TAKE e \in Ids
    <3>1. CASE e = work.card BY <3>1, CommissionFacts
    <3>2. CASE e # work.card BY <3>2, CardFacts
    <3> QED BY <3>1, <3>2
  <2> QED BY <1>7, <2>1 DEF CardsInv
<1>9. FoundOnce'
  <2>1. \A e \in Ids : cards'[e].state = "found" => cards[e].state = "found" /\ cards'[e] = cards[e]
    BY <1>6
  <2> QED BY <2>1 DEF SessionInv, FoundOnce
<1>10. \A e \in Ids : cards'[e].state # "running"
  <2> TAKE e \in Ids
  <2>1. CASE e = work.card BY <2>1
  <2>2. CASE e # work.card BY <1>6, <2>2, CommissionFacts
  <2> QED BY <2>1, <2>2
<1>11. WorkInv' BY <1>5, <1>10 DEF WorkInv
<1>12. ServedInv'
  <2>1. \A e \in Ids : cards'[e].state = "queued" => cards[e].state = "queued" BY <1>6
  <2>2. Served(Board)' BY <1>1, <2>1, CardFacts, ServedStays
  <2> QED BY <1>5, <2>2 DEF ServedInv
<1>13. RunningStep BY <1>1, CommissionFacts DEF RunningStep
<1> QED BY <1>2, <1>3, <1>4, <1>8, <1>9, <1>11, <1>12, <1>13 DEF SessionInv, Keeps

LEMMA CommissionFailsKeeps == ASSUME SessionInv, CommissionFails PROVE Keeps
<1> DEFINE y == [cards[work.card] EXCEPT !.state = "failed"]
<1>1. /\ stage["work"] = "commission" /\ cards' = [cards EXCEPT ![work.card].state = "failed"]
      /\ stage' = [stage EXCEPT !["work"] = "ending"]
      /\ UNCHANGED <<created, queue, naming, latest, dismissed, radio, results, todo, look,
                     work, adding, up, removals, drops, forgotten>>
  BY DEF CommissionFails
<1>2. work.card \in Ids /\ cards[work.card] \in Card /\ cards[work.card].state = "running"
  BY <1>1, CommissionFacts
<1>3. cards \in [Ids -> Card] /\ naming \in Seq(Ids) BY DEF SessionInv, Typed
<1>4. y \in Card /\ y.state = "failed" BY <1>2 DEF Card, States
<1>5. cards' = [cards EXCEPT ![work.card] = y] BY <1>1, <1>2, <1>3
<1> HIDE DEF y
<1>6. cards' \in [Ids -> Card] /\ cards'[work.card] = y /\ \A e \in Ids : e # work.card => cards'[e] = cards[e]
  BY <1>2, <1>3, <1>4, <1>5
<1>7. NamingInv' BY <1>1, <1>2, <1>4, <1>6, NamingStands
<1> QED BY <1>1, <1>3, <1>4, <1>6, <1>7, CardEnds

LEMMA CommissionedKeeps == ASSUME SessionInv, Commissioned PROVE Keeps
<1> DEFINE c == work.card
           twins == {f \in Ids : cards[f].state = "found" /\ cards[c].at = None}
<1>1. stage["work"] = "commission" BY DEF Commissioned
<1>2. PICK gone \in {{}} \cup {{f} : f \in twins}, named \in BOOLEAN :
           /\ cards' = [i \in Ids |->
                          IF i \in gone THEN NoCard
                          ELSE IF i # c THEN cards[i]
                          ELSE IF named THEN [cards[c] EXCEPT !.state = "done", !.code = None]
                          ELSE [cards[c] EXCEPT !.state = "naming"]]
           /\ naming' = IF named THEN naming ELSE Append(naming, c)
  BY DEF Commissioned
<1>3. /\ stage' = [stage EXCEPT !["work"] = "ending"]
      /\ UNCHANGED <<created, queue, latest, dismissed, radio, results, todo, look, work,
                     adding, up, removals, drops, forgotten>>
  BY DEF Commissioned
<1>4. /\ c \in Ids /\ cards[c] \in Card /\ cards[c].state = "running" /\ ~Occurs(c, naming)
  BY <1>1, CommissionFacts
<1>5. \A e \in gone : e \in Ids /\ cards[e].state = "found" /\ e # c BY <1>2, <1>4
<1>6. cards \in [Ids -> Card] /\ naming \in Seq(Ids) /\ NoDups(naming)
      /\ \A e \in Ids : Occurs(e, naming) <=> cards[e].state = "naming"
  BY DEF SessionInv, Typed, NamingInv
<1> DEFINE y == IF named THEN [cards[c] EXCEPT !.state = "done", !.code = None]
                ELSE [cards[c] EXCEPT !.state = "naming"]
<1>7. y \in Card /\ y.state = IF named THEN "done" ELSE "naming" BY <1>4 DEF Card, States
<1>8. cards' = [i \in Ids |-> IF i \in gone THEN NoCard ELSE IF i # c THEN cards[i] ELSE y]
  BY <1>2
<1> HIDE DEF y, c, twins
<1>9. /\ cards' \in [Ids -> Card]
      /\ \A e \in Ids : cards'[e] = IF e \in gone THEN NoCard ELSE IF e # c THEN cards[e] ELSE y
  BY <1>6, <1>7, <1>8, NoCardIsCard
<1>10. NoCard.state = "none" BY DEF NoCard
<1>11. /\ \A e \in Ids : e # c => cards'[e] = cards[e] \/ (cards[e].state = "found" /\ cards'[e] = NoCard)
       /\ cards'[c] = y
  BY <1>4, <1>5, <1>9
<1>12. naming' \in Seq(Ids) /\ NamingInv'
  <2>1. CASE named
    <3>1. naming' = naming /\ y.state = "done" BY <1>2, <1>7, <2>1
    <3>2. \A e \in Ids : Occurs(e, naming') <=> cards'[e].state = "naming"
      BY <1>4, <1>6, <1>10, <1>11, <3>1
    <3> QED BY <1>6, <3>1, <3>2 DEF NamingInv
  <2>2. CASE ~named
    <3>1. naming' = Append(naming, c) /\ y.state = "naming" BY <1>2, <1>7, <2>2 DEF c
    <3>2. naming' \in Seq(Ids) /\ NoDups(naming') /\ \A x : Occurs(x, naming') <=> Occurs(x, naming) \/ x = c
      BY ONLY <1>4, <1>6, <3>1, AppendOccurs
    <3>3. \A e \in Ids : Occurs(e, naming') <=> cards'[e].state = "naming"
      BY <1>4, <1>6, <1>10, <1>11, <3>1, <3>2
    <3> QED BY <3>2, <3>3 DEF NamingInv
  <2> QED BY <2>1, <2>2
<1>13. cards'[c].state \in {"failed", "done", "naming"} BY <1>7, <1>11
<1> QED BY <1>1, <1>3, <1>9, <1>11, <1>12, <1>13, CardEnds DEF c

LEMMA SessionKeeps == ASSUME SessionInv, Next PROVE Keeps
<1>1. ASSUME NEW t \in Tasks, TaskStep(t) PROVE Keeps
  <2>1. ASSUME NEW seen \in SUBSET Devices, ScanEnds(t, seen) PROVE Keeps BY <2>1, ScanEndsKeeps
  <2>2. ASSUME NEW d \in Devices, TakeAdvert(t, d) PROVE Keeps BY <2>2, TakeAdvertKeeps
  <2> QED BY <1>1, <2>1, <2>2, ScanFailsKeeps, TakeSnapshotKeeps, LabelKeeps, SnapshotTakenKeeps DEF TaskStep
<1>2. ASSUME NEW t \in Scans, ScanStep(t) PROVE Keeps
  BY <1>1, <1>2, TaskNames, ScanDoneKeeps DEF ScanStep
<1>3. CASE WorkerStep
  BY <1>1, <1>3, TaskNames, WorkerEndsKeeps, SkipKeeps, TurnKeeps, GetRadioKeeps, RefreshedKeeps, TryAgainKeeps,
     ConnectionLostKeeps, CommissionFailsKeeps, CommissionedKeeps, EndedKeeps DEF WorkerStep
<1>4. ASSUME NEW a \in Adders, AdderStep(a) PROVE Keeps
  BY <1>1, <1>4, TaskNames, RestoredKeeps, RestoreRaisesKeeps, NewCodeCardKeeps DEF AdderStep
<1>5. CASE UserStep
  <2>1. CASE RemoveOne
    <3>1. PICK c \in Removable : RemoveCards({c}) BY <2>1 DEF RemoveOne
    <3> QED BY <3>1, RemoveCardsKeeps
  <2>2. CASE Clear BY <2>2, RemoveCardsKeeps DEF Clear
  <2> QED BY <1>5, <2>1, <2>2, ScanKeeps, StartKeeps, ForceKeeps, LeaveNamingKeeps, AddCodeKeeps DEF UserStep
<1> QED BY <1>2, <1>3, <1>4, <1>5, LinkKeeps DEF Next, LinkGoes, LinkComes

(* The tasks that wait for the results or take them stand in line, and the *)
(* one that takes them is the first. *)
ResultsInv ==
    /\ results \in Seq(Scanners)
    /\ \A t \in Scanners : /\ stage[t] \in {"taking", "looking"} => Occurs(t, results)
                           /\ stage[t] = "looking" => Head(results) = t

LEMMA ResultsStands ==
    ASSUME ResultsInv, results' = results,
           \A t \in Scanners : stage'[t] \in {"taking", "looking"} => stage'[t] = stage[t]
    PROVE  ResultsInv'
  BY DEF ResultsInv

(* One task goes to a stage without the results, and the worker may begin. *)
LEMMA ResultsLeft ==
    ASSUME SessionInv, ResultsInv, results' = results, NEW t \in Tasks, NEW s, NEW w,
           t \in Adders \/ s \notin {"taking", "looking"},
           w = stage["work"] \/ w = "loop",
           stage' = [stage EXCEPT ![t] = s] \/ stage' = [stage EXCEPT ![t] = s, !["work"] = w]
    PROVE  ResultsInv'
<1>1. stage \in [Tasks -> Stages] BY DEF SessionInv, Typed
<1>2. \A u \in Scanners : stage'[u] \in {"taking", "looking"} => stage'[u] = stage[u]
  BY <1>1, TaskNames DEF Scanners
<1> QED BY <1>2, ResultsStands

LEMMA ResultsGrows ==
    ASSUME SessionInv, ResultsInv, NEW t \in Tasks, NEW seen \in SUBSET Devices, ScanEnds(t, seen)
    PROVE  ResultsInv'
<1>1. /\ stage[t] = "scanning" /\ stage' = [stage EXCEPT ![t] = "taking"]
      /\ results' = Append(results, t)
  BY DEF ScanEnds
<1>2. t \in Scanners /\ stage'[t] = "taking" /\ \A u \in Tasks : u # t => stage'[u] = stage[u]
  BY <1>1, TaskNames DEF SessionInv, StagesInv, Typed, Scanners
<1>3. /\ results' \in Seq(Scanners) /\ HeadKept(results, results')
      /\ \A x : Occurs(x, results') <=> Occurs(x, results) \/ x = t
  BY ONLY <1>1, <1>2, ResultsInv, AppendOccurs DEF ResultsInv
<1>4. ASSUME NEW u \in Scanners, stage'[u] \in {"taking", "looking"} PROVE Occurs(u, results')
  <2>1. u = t \/ stage[u] \in {"taking", "looking"} BY <1>2, <1>4, TaskNames
  <2> QED BY <1>3, <2>1 DEF ResultsInv
<1>5. ASSUME NEW u \in Scanners, stage'[u] = "looking" PROVE Head(results') = u
  <2>1. stage[u] = "looking" BY <1>2, <1>5, TaskNames
  <2>2. Occurs(u, results) /\ Head(results) = u BY <2>1 DEF ResultsInv
  <2>3. results # <<>> BY <2>2 DEF Occurs
  <2> QED BY <1>3, <2>2, <2>3 DEF HeadKept
<1> QED BY <1>3, <1>4, <1>5 DEF ResultsInv

LEMMA ResultsTaken ==
    ASSUME SessionInv, ResultsInv, NEW t \in Tasks, TakeSnapshot(t)
    PROVE  ResultsInv'
<1>1. /\ stage[t] = "taking" /\ Head(results) = t /\ results' = results
      /\ stage' = [stage EXCEPT ![t] = "looking"]
  BY DEF TakeSnapshot
<1>2. stage'[t] = "looking" /\ \A u \in Tasks : u # t => stage'[u] = stage[u]
  BY <1>1 DEF SessionInv, Typed
<1> QED BY <1>1, <1>2, TaskNames DEF ResultsInv

LEMMA ResultsGoesOn ==
    ASSUME SessionInv, ResultsInv, NEW t \in Tasks, SnapshotTaken(t)
    PROVE  ResultsInv'
<1>1. /\ t \in Scanners /\ stage[t] = "looking" /\ results' = Tail(results)
      /\ \/ stage' = [stage EXCEPT ![t] = "warning"]
         \/ stage' = [stage EXCEPT ![t] = "warning", !["work"] = "loop"]
  BY DEF SnapshotTaken
<1>2. results \in Seq(Scanners) /\ Occurs(t, results) /\ Head(results) = t BY <1>1 DEF ResultsInv
<1>3. results # <<>> BY <1>2 DEF Occurs
<1>4. Tail(results) \in Seq(Scanners) BY <1>2, <1>3
<1>5. \A x : Occurs(x, results) /\ x # t => Occurs(x, Tail(results))
  BY ONLY <1>2, <1>3, RestOccurs
<1>6. \A u \in Scanners : stage'[u] \in {"taking", "looking"} => stage'[u] = stage[u] /\ u # t
  BY <1>1, TaskNames DEF SessionInv, Typed
<1> QED BY <1>1, <1>2, <1>4, <1>5, <1>6 DEF ResultsInv

LEMMA ResultsKeeps == ASSUME SessionInv, ResultsInv, Next PROVE ResultsInv'
<1>1. ASSUME NEW t \in Tasks, TaskStep(t) PROVE ResultsInv'
  <2>1. ASSUME NEW d \in Devices, TakeAdvert(t, d) PROVE ResultsInv'
    BY <2>1, ResultsStands DEF TakeAdvert
  <2>2. CASE ScanFails(t)
    <3>1. (IF t \in Scans THEN "off" ELSE "warning") \notin {"taking", "looking"} OBVIOUS
    <3> QED BY <2>2, <3>1, ResultsLeft DEF ScanFails
  <2>3. CASE Label(t) BY <2>3, ResultsStands DEF Label
  <2> QED BY <1>1, <2>1, <2>2, <2>3, ResultsGrows, ResultsTaken, ResultsGoesOn DEF TaskStep
<1>2. ASSUME NEW t \in Scans, ScanStep(t) PROVE ResultsInv'
  <2>1. CASE ScanDone(t)
    <3>1. t \in Tasks /\ results' = results /\ stage' = [stage EXCEPT ![t] = "off"]
      BY <2>1, TaskNames DEF ScanDone
    <3>2. "off" \notin {"taking", "looking"} OBVIOUS
    <3> QED BY <3>1, <3>2, ResultsLeft
  <2> QED BY <1>1, <1>2, <2>1, TaskNames DEF ScanStep
<1>3. ASSUME NEW a \in Adders, NEW k, NEW ran, Resolve(a, k, ran), results' = results
      PROVE  ResultsInv'
  <2>1. a \in Tasks /\ \A q : WorkerFor(q) = stage["work"] \/ WorkerFor(q) = "loop"
    BY TaskNames DEF WorkerFor
  <2>2. CASE \E c, d : CodeCard(a, k, c, Startable(Board), d)
    <3> DEFINE w == IF Startable(Board) = "queued" THEN WorkerFor(queue') ELSE stage["work"]
    <3>1. stage' = [stage EXCEPT ![a] = "off", !["work"] = w]
      BY <2>2, TaskNames DEF CodeCard, SessionInv, Typed
    <3>2. w = stage["work"] \/ w = "loop" BY <2>1
    <3> HIDE DEF w
    <3> QED BY <1>3, <2>1, <3>1, <3>2, ResultsLeft
  <2>3. CASE stage' = [stage EXCEPT ![a] = "label"] BY <1>3, <2>1, <2>3, ResultsLeft
  <2> QED BY <1>3, <2>2, <2>3 DEF Resolve
<1>4. ASSUME NEW a \in Adders, AdderStep(a) PROVE ResultsInv'
  <2>1. a \in Tasks BY TaskNames
  <2>2. CASE RestoredCard(a) BY <1>3, <2>2 DEF RestoredCard
  <2>3. CASE RestoreRaises(a) BY <2>1, <2>3, ResultsLeft DEF RestoreRaises
  <2>4. CASE NewCodeCard(a)
    <3>1. results' = results BY <2>4 DEF NewCodeCard
    <3>2. PICK c, k, s, d : CodeCard(a, k, c, s, d) BY <2>4 DEF NewCodeCard
    <3> DEFINE w == IF s = "queued" THEN WorkerFor(queue') ELSE stage["work"]
    <3>3. stage' = [stage EXCEPT ![a] = "off", !["work"] = w]
      BY <3>2, TaskNames DEF CodeCard, SessionInv, Typed
    <3>4. w = stage["work"] \/ w = "loop" BY DEF WorkerFor
    <3> HIDE DEF w
    <3> QED BY <2>1, <3>1, <3>3, <3>4, ResultsLeft
  <2> QED BY <1>1, <1>4, <2>1, <2>2, <2>3, <2>4 DEF AdderStep
<1>5. ASSUME NEW c, NEW at, RunOrSkip(c, at), results' = results PROVE ResultsInv'
  <2>1. \E s \in {"off", "loop", "commission"} : stage' = [stage EXCEPT !["work"] = s]
    BY <1>5 DEF RunOrSkip, ReleaseTo
  <2> QED BY <1>5, <2>1, TaskNames, ResultsLeft
<1>7. ASSUME results' = results,
             \E s \in {"off", "loop", "radio", "scanning", "commission", "ending"} :
                 stage' = [stage EXCEPT !["work"] = s]
      PROVE  ResultsInv'
  BY <1>7, TaskNames, ResultsLeft
<1>6. ASSUME NEW c, Claim(c), results' = results PROVE ResultsInv'
  <2>1. CASE stage' = [stage EXCEPT !["work"] = "scanning"] BY <1>6, <1>7, <2>1
  <2> QED BY <1>5, <1>6, <2>1 DEF Claim
<1>8. CASE WorkerStep
  <2>1. CASE WorkerEnds BY <1>7, <2>1 DEF WorkerEnds
  <2>2. CASE Skip BY <2>2, ResultsStands DEF Skip
  <2>3. CASE Turn BY <1>6, <1>7, <2>3 DEF Turn
  <2>4. CASE GetRadio BY <1>6, <1>7, <2>4 DEF GetRadio, ReleaseTo
  <2>5. CASE Refreshed BY <1>5, <2>5 DEF Refreshed
  <2>6. CASE TryAgain \/ ConnectionLost BY <1>7, <2>6 DEF TryAgain, ConnectionLost
  <2>7. CASE CommissionFails BY <1>7, <2>7 DEF CommissionFails
  <2>8. CASE Commissioned BY <1>7, <2>8 DEF Commissioned
  <2>9. CASE RunEnded BY <1>7, <2>9 DEF RunEnded, ReleaseTo
  <2> QED BY <1>1, <1>8, TaskNames, <2>1, <2>2, <2>3, <2>4, <2>5, <2>6, <2>7, <2>8, <2>9 DEF WorkerStep
<1>9. CASE UserStep
  <2>1. ASSUME NEW t \in Scans, Scan(t) PROVE ResultsInv'
    <3>1. t \in Tasks /\ results' = results /\ stage' = [stage EXCEPT ![t] = "scanning"]
      BY <2>1, TaskNames DEF Scan
    <3>2. "scanning" \notin {"taking", "looking"} OBVIOUS
    <3> QED BY <3>1, <3>2, ResultsLeft
  <2>2. ASSUME results' = results, stage' = [stage EXCEPT !["work"] = WorkerFor(queue')]
        PROVE  ResultsInv'
    <3>1. WorkerFor(queue') = stage["work"] \/ WorkerFor(queue') = "loop" BY DEF WorkerFor
    <3>2. stage \in [Tasks -> Stages] BY DEF SessionInv, Typed
    <3>3. \A u \in Scanners : stage'[u] \in {"taking", "looking"} => stage'[u] = stage[u]
      BY <2>2, <3>1, <3>2, TaskNames
    <3> QED BY <2>2, <3>3, ResultsStands
  <2>3. CASE Start BY <2>2, <2>3 DEF Start
  <2>4. ASSUME NEW c \in Ids, ForceCard(c) PROVE ResultsInv' BY <2>2, <2>4 DEF ForceCard
  <2>5. ASSUME NEW c \in Ids, LeaveNaming(c) PROVE ResultsInv' BY <2>5, ResultsStands DEF LeaveNaming
  <2>6. CASE RemoveOne \/ Clear BY <2>6, ResultsStands DEF RemoveOne, Clear, RemoveCards
  <2>7. ASSUME NEW a \in Adders, NEW k \in Codes, AddCode(a, k) PROVE ResultsInv'
    <3>1. a \in Tasks /\ results' = results BY <2>7, TaskNames DEF AddCode
    <3>2. CASE stage' = [stage EXCEPT ![a] = "looking"] BY <3>1, <3>2, ResultsLeft
    <3> QED BY <1>3, <2>7, <3>1, <3>2 DEF AddCode
  <2> QED BY <1>9, <2>1, <2>3, <2>4, <2>5, <2>6, <2>7 DEF UserStep
<1>10. CASE LinkGoes \/ LinkComes
  BY <1>10, ResultsStands DEF LinkGoes, LinkComes, LinkDrops, LinkReturns
<1> QED BY <1>2, <1>4, <1>8, <1>9, <1>10 DEF Next

LEMMA LoopKeeps == ASSUME loop \in Tasks \cup {None}, Next PROVE loop' \in Tasks \cup {None}
<1>1. ASSUME NEW t \in Tasks, Goes(t) PROVE loop' \in Tasks \cup {None} BY <1>1 DEF Goes
<1>2. AtRest => loop' \in Tasks \cup {None} BY DEF AtRest
<1>3. ASSUME NEW t \in Tasks, TaskStep(t) PROVE loop' \in Tasks \cup {None}
  BY <1>1, <1>3 DEF TaskStep
<1>4. ASSUME NEW t \in Scans, ScanStep(t) PROVE loop' \in Tasks \cup {None}
  BY <1>1, <1>3, <1>4, TaskNames DEF ScanStep
<1>5. CASE WorkerStep BY <1>1, <1>3, <1>5, TaskNames DEF WorkerStep
<1>6. ASSUME NEW a \in Adders, AdderStep(a) PROVE loop' \in Tasks \cup {None}
  BY <1>1, <1>3, <1>6, TaskNames DEF AdderStep
<1>7. CASE UserStep BY <1>1, <1>2, <1>7, TaskNames DEF UserStep
<1> QED BY <1>2, <1>4, <1>5, <1>6, <1>7 DEF Next, LinkGoes, LinkComes

(* The line has as many entries as it has different ones. *)
LEMMA NoDupsCounts ==
    ASSUME NEW q \in Seq(Ids), NoDups(q)
    PROVE  Cardinality(ToSet(q)) = Len(q)
<1>1. Len(q) \in Nat /\ DOMAIN q = 1..Len(q) OBVIOUS
<1>2. ToSet(q) = {q[i] : i \in 1..Len(q)} BY <1>1 DEF ToSet
<1> DEFINE D == 1..Len(q)
           T == ToSet(q)
<1>3. q \in [D -> T] /\ \A t \in T : \E i \in D : q[i] = t BY <1>1, <1>2
<1>a. \A i, j \in D : q[i] = q[j] => i = j
  BY DEF NoDups
<1> HIDE DEF D, T
<1>4. q \in Bijection(D, T)
  <2>1. DOMAIN q = D BY <1>3
  <2>2. IsInjective(q) BY <1>a, <2>1 DEF IsInjective
  <2> QED BY <1>3, <2>2 DEF Bijection, Injection, Surjection
<1>b. ExistsBijection(D, T)
  BY <1>4 DEF ExistsBijection
<1>5. IsFiniteSet(1..Len(q)) /\ Cardinality(1..Len(q)) = Len(q) BY <1>1, FS_Interval
<1> QED BY <1>b, <1>5, FS_Bijection DEF D, T

LEMMA SessionIsSafe ==
    ASSUME SessionInv, ResultsInv, loop \in Tasks \cup {None}
    PROVE  SessionSafe /\ CardsAreServed
<1>0. naming \in Seq(Ids) /\ queue \in Seq(Ids) BY DEF SessionInv, Typed
<1>1. NamingLineExact
  <2>1. \A x : x \in ToSet(naming) <=> Occurs(x, naming) BY <1>0 DEF ToSet, Occurs
  <2>2. \A x : Occurs(x, naming) => x \in Ids BY <1>0 DEF Occurs
  <2>3. ToSet(naming) = {c \in Ids : cards[c].state = "naming"}
    BY <2>1, <2>2 DEF SessionInv, NamingInv
  <2>4. Cardinality(ToSet(naming)) = Len(naming) BY <1>0, NoDupsCounts DEF SessionInv, NamingInv
  <2> QED BY <2>3, <2>4 DEF NamingLineExact
<1>2. SessionSafe BY <1>1, TypedIsTypeOK DEF SessionInv, ResultsInv, SessionSafe
<1>3. CardsAreServed
  <2> SUFFICES ASSUME NEW c \in Ids \ forgotten, cards[c].state = "queued"
               PROVE  c \in ToSet(queue) /\ WorkerActive
    BY DEF CardsAreServed
  <2>1. Occurs(c, queue) BY CardFacts
  <2>2. c \in ToSet(queue) BY <1>0, <2>1 DEF ToSet, Occurs
  <2>3. ~Left(queue) BY <2>1 DEF Left
  <2> QED BY <2>2, <2>3, CardFacts DEF WorkerActive
<1> QED BY <1>2, <1>3
----------------------------------------
(* The attempt: the inductive invariant. *)

RequestType == [at : {"waits", "fetches", "hands", "commissions", "registers", "answered"},
                known : BOOLEAN, missing : BOOLEAN, answer : Reasons \cup {"done", NoReason}]
AttemptType == [phase : {"searching", "found", "connected", "joined", "done", "failed"},
                reason : Reasons \cup {NoReason}, known : BOOLEAN, matched : BOOLEAN,
                scanned : BOOLEAN, stuck : {"no", "since", "now"}]

AttemptTyped ==
    /\ request \in [Attempts -> RequestType] /\ attempt \in [Attempts -> AttemptType]
    /\ sampler \in [Attempts -> {"off", "sleeps", "asks"}]
    /\ own \in [Attempts -> SUBSET {"found", "connected", "joined"}]
    /\ shown \in Attempts \cup {NoAttempt}
    /\ alone \subseteq Attempts /\ misjudged \subseteq Attempts

(* What holds of every request and its attempt. *)
OwnInv(a) ==
    /\ sampler[a] # "off" <=> At(a, "commissions")
    /\ At(a, "commissions") => /\ attempt[a].known = request[a].known
                               /\ attempt[a].matched <=> "found" \in own[a]
    /\ "connected" \in own[a] => "found" \in own[a]
    /\ own[a] # {} => At(a, "commissions") \/ At(a, "registers")
    /\ attempt[a].phase \in EndPhases => At(a, "answered")
    /\ a \in misjudged => At(a, "answered") /\ a \notin alone
    /\ a \in alone => request[a].at \in {"commissions", "registers", "answered"}

(* What holds of the one that is shown. *)
ShownInv(a) ==
    /\ request[a].at \in {"commissions", "registers", "answered"}
    /\ "found" \in own[a] => attempt[a].phase # "searching"
    /\ attempt[a].stuck # "no" => attempt[a].known /\ attempt[a].scanned /\ own[a] \subseteq {"joined"}
    /\ At(a, "answered") =>
         IF request[a].answer = "done"
         THEN attempt[a].phase = "done" /\ attempt[a].reason = NoReason
         ELSE attempt[a].phase = "failed" /\ attempt[a].reason = request[a].answer

(* What holds of one that is under way without another. *)
AloneInv(a) ==
    At(a, "commissions") => /\ shown = a /\ attempt[a].phase = OwnReached(a)
                            /\ \A b \in Attempts : At(b, "commissions") => b = a

AttemptInv ==
    /\ AttemptTyped
    /\ \A a \in Attempts : OwnInv(a)
    /\ shown # NoAttempt => ShownInv(shown)
    /\ \A a \in alone : AloneInv(a)
----------------------------------------
(* The attempt: phases rise, and what a sample changes. *)

(* Two attempts differ in their phase at most. *)
SameBut(u, t) ==
    /\ u.reason = t.reason /\ u.known = t.known /\ u.matched = t.matched
    /\ u.stuck = t.stuck /\ u.scanned = t.scanned

LEMMA AdvancedIs ==
    ASSUME NEW t \in AttemptType
    PROVE  /\ Advanced(t, "searching") = t
           /\ \A p \in {"found", "connected", "joined"} :
                Advanced(t, p) \in AttemptType /\ SameBut(Advanced(t, p), t)
           /\ Advanced(t, "found").phase = IF t.phase = "searching" THEN "found" ELSE t.phase
           /\ Advanced(t, "connected").phase =
                IF t.phase \in {"searching", "found"} THEN "connected" ELSE t.phase
           /\ Advanced(t, "joined").phase = IF t.phase \in EndPhases THEN t.phase ELSE "joined"
<1>1. /\ PhaseOrder["searching"] = 0 /\ PhaseOrder["found"] = 1
      /\ PhaseOrder["connected"] = 2 /\ PhaseOrder["joined"] = 3
  BY DEF PhaseOrder
<1>2. t.phase \in {"searching", "found", "connected", "joined", "done", "failed"}
  BY DEF AttemptType
<1>3. t \in AttemptType /\ SameBut(t, t) BY DEF SameBut
<1>4. \A p \in {"found", "connected", "joined"} :
         LET u == [t EXCEPT !.phase = p] IN u \in AttemptType /\ u.phase = p /\ SameBut(u, t)
  BY DEF AttemptType, SameBut
<1>5. Advanced(t, "searching") = t BY <1>1, <1>2 DEF Advanced, EndPhases
<1>6. Advanced(t, "found") = IF t.phase = "searching" THEN [t EXCEPT !.phase = "found"] ELSE t
  BY <1>1, <1>2 DEF Advanced, EndPhases
<1>7. Advanced(t, "connected") = IF t.phase \in {"searching", "found"} THEN [t EXCEPT !.phase = "connected"] ELSE t
  BY <1>1, <1>2 DEF Advanced, EndPhases
<1>8. Advanced(t, "joined") = IF t.phase \in EndPhases \cup {"joined"} THEN t ELSE [t EXCEPT !.phase = "joined"]
  BY <1>1, <1>2 DEF Advanced, EndPhases
<1>9. /\ Advanced(t, "found") \in AttemptType /\ SameBut(Advanced(t, "found"), t)
      /\ Advanced(t, "found").phase = IF t.phase = "searching" THEN "found" ELSE t.phase
  BY <1>3, <1>4, <1>6
<1>10. /\ Advanced(t, "connected") \in AttemptType /\ SameBut(Advanced(t, "connected"), t)
       /\ Advanced(t, "connected").phase =
              IF t.phase \in {"searching", "found"} THEN "connected" ELSE t.phase
  BY <1>3, <1>4, <1>7
<1>11. /\ Advanced(t, "joined") \in AttemptType /\ SameBut(Advanced(t, "joined"), t)
       /\ Advanced(t, "joined").phase = IF t.phase \in EndPhases THEN t.phase ELSE "joined"
  BY <1>3, <1>4, <1>8
<1> QED BY ONLY <1>5, <1>9, <1>10, <1>11

Raised(p, found, linked) ==
    IF linked /\ p \in {"searching", "found"} THEN "connected"
    ELSE IF found /\ p = "searching" THEN "found" ELSE p

(* What a sample does to each attempt. *)
SampleMoves(a, near, linked, r) ==
    /\ r \in [Attempts -> AttemptType]
    /\ \A b \in Attempts :
         /\ r[b].reason = attempt[b].reason /\ r[b].known = attempt[b].known
         /\ r[b].matched = (attempt[b].matched \/ (b = a /\ attempt[a].known /\ near))
         /\ r[b].phase = IF b = shown
                         THEN Raised(attempt[b].phase, attempt[a].known /\ near /\ ~attempt[a].matched,
                                     attempt[a].known /\ near /\ linked)
                         ELSE attempt[b].phase
         /\ b # a => r[b].stuck = attempt[b].stuck /\ r[b].scanned = attempt[b].scanned
         /\ b = a /\ r[b].stuck # "no" => r[b].phase = "searching" /\ r[b].known /\ r[b].scanned

LEMMA SampledMoves ==
    ASSUME AttemptTyped, NEW a \in Attempts, NEW near \in BOOLEAN, NEW linked \in BOOLEAN,
           NEW long \in BOOLEAN, NEW adapter \in {"none", "scans", "idle"}
    PROVE  SampleMoves(a, near, linked, Sampled(a, near, linked, adapter, long))
<1> DEFINE matching == attempt[a].known /\ near
           first == matching /\ ~attempt[a].matched
           noted == [attempt EXCEPT ![a].matched = @ \/ matching]
           climb(t) == Advanced(Advanced(t, IF first THEN "found" ELSE "searching"),
                             IF matching /\ linked THEN "connected" ELSE "searching")
           told == [noted EXCEPT ![shown] = climb(@)]
           r == [told EXCEPT ![a] = StuckSeen(@, adapter, long)]
<1>0. Sampled(a, near, linked, adapter, long) = r BY DEF Sampled
<1>1. attempt \in [Attempts -> AttemptType] BY DEF AttemptTyped
<1>2. /\ noted \in [Attempts -> AttemptType]
      /\ \A b \in Attempts : b # a => noted[b] = attempt[b]
      /\ noted[a].reason = attempt[a].reason /\ noted[a].known = attempt[a].known
      /\ noted[a].matched = (attempt[a].matched \/ matching) /\ noted[a].phase = attempt[a].phase
      /\ noted[a].stuck = attempt[a].stuck /\ noted[a].scanned = attempt[a].scanned
  BY <1>1 DEF AttemptType
<1>3. ASSUME NEW t \in AttemptType
      PROVE  /\ climb(t) \in AttemptType /\ climb(t).phase = Raised(t.phase, first, matching /\ linked)
             /\ climb(t).reason = t.reason /\ climb(t).known = t.known /\ climb(t).matched = t.matched
             /\ climb(t).stuck = t.stuck /\ climb(t).scanned = t.scanned
  <2> DEFINE m == Advanced(t, IF first THEN "found" ELSE "searching")
  <2>1. m \in AttemptType /\ SameBut(m, t)
        /\ m.phase = IF first /\ t.phase = "searching" THEN "found" ELSE t.phase
    <3>1. SameBut(t, t) BY DEF SameBut
    <3>2. CASE first BY <3>2, AdvancedIs
    <3>3. CASE ~first BY <3>1, <3>3, AdvancedIs
    <3> QED BY <3>2, <3>3
  <2>2. climb(t) = Advanced(m, IF matching /\ linked THEN "connected" ELSE "searching") OBVIOUS
  <2> HIDE DEF m, climb
  <2>3. climb(t) \in AttemptType /\ SameBut(climb(t), m)
        /\ climb(t).phase = IF matching /\ linked /\ m.phase \in {"searching", "found"} THEN "connected" ELSE m.phase
    <3>1. SameBut(m, m) BY DEF SameBut
    <3>2. CASE matching /\ linked BY <2>1, <2>2, <3>2, AdvancedIs
    <3>3. CASE ~(matching /\ linked) BY <2>1, <2>2, <3>1, <3>3, AdvancedIs
    <3> QED BY <3>2, <3>3
  <2>4. climb(t).phase = Raised(t.phase, first, matching /\ linked) BY <2>1, <2>3 DEF Raised
  <2> QED BY <2>1, <2>3, <2>4 DEF SameBut
<1>4. /\ told \in [Attempts -> AttemptType]
      /\ \A b \in Attempts : told[b] = IF b = shown THEN climb(noted[b]) ELSE noted[b]
  <2> HIDE DEF noted, climb
  <2> QED BY <1>2, <1>3
<1>5. ASSUME NEW t \in AttemptType
      PROVE  LET u == StuckSeen(t, adapter, long)
             IN  /\ u \in AttemptType /\ u.phase = t.phase
                 /\ u.reason = t.reason /\ u.known = t.known /\ u.matched = t.matched
                 /\ u.stuck # "no" => u.phase = "searching" /\ u.known /\ u.scanned
  <2> DEFINE scanned == t.scanned \/ adapter = "scans"
             idle == t.phase = "searching" /\ t.known /\ scanned /\ adapter = "idle"
             stuck == IF ~idle THEN "no"
                      ELSE IF t.stuck = "no" \/ (t.stuck = "since" /\ ~long) THEN "since" ELSE "now"
  <2>1. StuckSeen(t, adapter, long) = [t EXCEPT !.scanned = scanned, !.stuck = stuck]
    BY DEF StuckSeen
  <2>2. stuck \in {"no", "since", "now"} /\ (stuck # "no" => idle)
    <3> HIDE DEF idle
    <3> QED OBVIOUS
  <2>3. scanned \in BOOLEAN BY DEF AttemptType
  <2>4. idle => t.phase = "searching" /\ t.known /\ scanned OBVIOUS
  <2> HIDE DEF scanned, stuck, idle
  <2> QED BY <2>1, <2>2, <2>3, <2>4 DEF AttemptType
<1> HIDE DEF told, climb, noted
<1>6. /\ r \in [Attempts -> AttemptType]
      /\ \A b \in Attempts : b # a => r[b] = told[b]
      /\ r[a] = StuckSeen(told[a], adapter, long)
  BY <1>4, <1>5
<1> HIDE DEF r
<1>7. \A b \in Attempts : /\ noted[b] \in AttemptType /\ told[b] \in AttemptType BY <1>2, <1>4
<1>8. \A b \in Attempts :
        /\ told[b].reason = attempt[b].reason /\ told[b].known = attempt[b].known
        /\ told[b].matched = (attempt[b].matched \/ (b = a /\ matching))
        /\ told[b].phase = IF b = shown THEN Raised(attempt[b].phase, first, matching /\ linked) ELSE attempt[b].phase
        /\ told[b].stuck = attempt[b].stuck /\ told[b].scanned = attempt[b].scanned
  <2> TAKE b \in Attempts
  <2>1. /\ noted[b].reason = attempt[b].reason /\ noted[b].known = attempt[b].known
        /\ noted[b].matched = (attempt[b].matched \/ (b = a /\ matching)) /\ noted[b].phase = attempt[b].phase
        /\ noted[b].stuck = attempt[b].stuck /\ noted[b].scanned = attempt[b].scanned
    <3>1. attempt[b].matched \in BOOLEAN BY <1>1 DEF AttemptType
    <3> QED BY <1>2, <3>1
  <2> HIDE DEF first, matching
  <2> QED BY <1>3, <1>4, <1>7, <2>1
<1>9. /\ r[a].phase = told[a].phase /\ r[a].reason = told[a].reason /\ r[a].known = told[a].known
      /\ r[a].matched = told[a].matched
      /\ r[a].stuck # "no" => r[a].phase = "searching" /\ r[a].known /\ r[a].scanned
  BY <1>5, <1>6, <1>7
<1>10. SampleMoves(a, near, linked, r)
  <2> SUFFICES ASSUME NEW b \in Attempts
               PROVE  /\ r[b].reason = attempt[b].reason /\ r[b].known = attempt[b].known
                      /\ r[b].matched = (attempt[b].matched \/ (b = a /\ attempt[a].known /\ near))
                      /\ r[b].phase = IF b = shown
                                      THEN Raised(attempt[b].phase, attempt[a].known /\ near /\ ~attempt[a].matched,
                                                  attempt[a].known /\ near /\ linked)
                                      ELSE attempt[b].phase
                      /\ b # a => r[b].stuck = attempt[b].stuck /\ r[b].scanned = attempt[b].scanned
                      /\ b = a /\ r[b].stuck # "no" => r[b].phase = "searching" /\ r[b].known /\ r[b].scanned
    BY <1>6 DEF SampleMoves
  <2> QED BY <1>6, <1>8, <1>9
<1> QED BY <1>0, <1>10
----------------------------------------
(* The attempt: it begins and is sampled. *)

LEMMA AttemptsBegin == AttemptInit => AttemptInv
<1> SUFFICES ASSUME AttemptInit PROVE AttemptInv OBVIOUS
<1> USE AttemptAssumption DEF AttemptInit
<1>1. NewRequest \in RequestType /\ NewRequest.at = "waits" BY DEF NewRequest, RequestType
<1>2. NewAttempt(FALSE) \in AttemptType /\ NewAttempt(FALSE).phase = "searching"
  BY DEF NewAttempt, AttemptType
<1>3. AttemptTyped BY <1>1, <1>2 DEF AttemptTyped
<1>4. \A a \in Attempts : OwnInv(a) BY <1>1, <1>2 DEF OwnInv, At, EndPhases
<1> QED BY <1>3, <1>4 DEF AttemptInv

LEMMA AttemptFields ==
    ASSUME AttemptTyped, NEW a \in Attempts
    PROVE  /\ request[a].at \in {"waits", "fetches", "hands", "commissions", "registers", "answered"}
           /\ request[a].known \in BOOLEAN /\ request[a].missing \in BOOLEAN
           /\ attempt[a].phase \in {"searching", "found", "connected", "joined", "done", "failed"}
           /\ attempt[a].known \in BOOLEAN /\ attempt[a].matched \in BOOLEAN /\ attempt[a].scanned \in BOOLEAN
           /\ own[a] \subseteq {"found", "connected", "joined"}
           /\ request[a] \in RequestType /\ attempt[a] \in AttemptType
           /\ NoAttempt \notin Attempts
  BY AttemptAssumption DEF AttemptTyped, RequestType, AttemptType

(* Steps of the sampling task that see nothing. *)
LEMMA SamplerKeeps == ASSUME AttemptInv, NEW a \in Attempts, SampleBegins(a) \/ SampleFails(a) PROVE AttemptInv'
<1>1. /\ UNCHANGED <<request, attempt, shown, own, alone, misjudged>>
      /\ sampler[a] # "off" /\ \E s \in {"sleeps", "asks"} : sampler' = [sampler EXCEPT ![a] = s]
  BY DEF SampleBegins, SampleFails
<1>2. sampler' \in [Attempts -> {"off", "sleeps", "asks"}]
      /\ \A b \in Attempts : sampler'[b] # "off" <=> sampler[b] # "off"
  BY <1>1 DEF AttemptInv, AttemptTyped
<1>3. AttemptTyped' BY <1>1, <1>2 DEF AttemptInv, AttemptTyped
<1>4. \A b \in Attempts : OwnInv(b)' BY <1>1, <1>2 DEF AttemptInv, OwnInv, At
<1>5. (shown # NoAttempt => ShownInv(shown))' /\ (\A b \in alone : AloneInv(b))'
  BY <1>1 DEF AttemptInv, ShownInv, AloneInv, At, OwnReached
<1> QED BY <1>3, <1>4, <1>5 DEF AttemptInv

LEMMA SampleAnsweredKeeps == ASSUME AttemptInv, NEW a \in Attempts, SampleAnswered(a) PROVE AttemptInv'
<1>1. /\ sampler[a] = "asks" /\ sampler' = [sampler EXCEPT ![a] = "sleeps"]
      /\ UNCHANGED <<request, shown, alone, misjudged>>
  BY DEF SampleAnswered
<1>2. PICK near \in BOOLEAN, linked \in BOOLEAN, long \in BOOLEAN, adapter \in {"none", "scans", "idle"} :
       /\ linked => near
       /\ attempt' = Sampled(a, near, linked, adapter, long)
       /\ own' = [own EXCEPT ![a] = @ \cup
                    (IF request[a].known /\ near THEN {"found"} ELSE {}) \cup
                    (IF request[a].known /\ linked THEN {"connected"} ELSE {})]
  BY DEF SampleAnswered
<1>3. AttemptTyped /\ OwnInv(a) /\ At(a, "commissions") BY <1>1 DEF AttemptInv, OwnInv
<1>4. SampleMoves(a, near, linked, attempt') BY <1>2, <1>3, SampledMoves
<1> DEFINE k == attempt[a].known
           o == own[a] \cup (IF k /\ near THEN {"found"} ELSE {}) \cup (IF k /\ linked THEN {"connected"} ELSE {})
<1>5. request[a].known = k /\ (attempt[a].matched <=> "found" \in own[a]) /\ k \in BOOLEAN
  BY <1>3, AttemptFields DEF OwnInv
<1>6. own' \in [Attempts -> SUBSET {"found", "connected", "joined"}] /\ own'[a] = o
      /\ \A b \in Attempts : b # a => own'[b] = own[b]
  BY <1>2, <1>3, <1>5 DEF AttemptTyped
<1>7. /\ "found" \in o <=> "found" \in own[a] \/ (k /\ near)
      /\ "connected" \in o <=> "connected" \in own[a] \/ (k /\ linked)
      /\ "joined" \in o <=> "joined" \in own[a]
  OBVIOUS
<1> HIDE DEF o
<1>8. sampler' \in [Attempts -> {"off", "sleeps", "asks"}]
      /\ \A b \in Attempts : sampler'[b] # "off" <=> sampler[b] # "off"
  BY <1>1, <1>3 DEF AttemptTyped
<1>9. attempt' \in [Attempts -> AttemptType] BY <1>4 DEF SampleMoves
<1>10. AttemptTyped' BY <1>1, <1>3, <1>6, <1>8, <1>9 DEF AttemptTyped
<1> DEFINE first == k /\ near /\ ~attempt[a].matched
           second == k /\ near /\ linked
<1>11. \A b \in Attempts :
         /\ attempt'[b].reason = attempt[b].reason /\ attempt'[b].known = attempt[b].known
         /\ attempt'[b].matched = (attempt[b].matched \/ (b = a /\ k /\ near))
         /\ attempt'[b].phase = IF b = shown THEN Raised(attempt[b].phase, first, second) ELSE attempt[b].phase
         /\ b # a => attempt'[b].stuck = attempt[b].stuck /\ attempt'[b].scanned = attempt[b].scanned
         /\ b = a /\ attempt'[b].stuck # "no" => attempt'[b].phase = "searching" /\ attempt'[b].known /\ attempt'[b].scanned
  BY <1>4 DEF SampleMoves
<1>0. second <=> k /\ linked BY <1>2
<1>12. \A b \in Attempts : attempt'[b].phase \in EndPhases <=> attempt[b].phase \in EndPhases
  BY <1>11, AttemptFields, <1>3 DEF Raised, EndPhases
<1>13. \A b \in Attempts : OwnInv(b)'
  <2> SUFFICES ASSUME NEW b \in Attempts PROVE OwnInv(b)' OBVIOUS
  <2>1. OwnInv(b) /\ attempt[b].matched \in BOOLEAN BY <1>3, AttemptFields DEF AttemptInv
  <2>2. At(b, "commissions") => attempt'[b].known = request[b].known /\ (attempt'[b].matched <=> "found" \in own'[b])
    <3>1. CASE b = a BY <1>5, <1>6, <1>7, <1>11, <3>1
    <3>2. CASE b # a BY <1>6, <1>11, <2>1, <3>2 DEF OwnInv
    <3> QED BY <3>1, <3>2
  <2>3. "connected" \in own'[b] => "found" \in own'[b] BY <1>2, <1>3, <1>6, <1>7, <2>1 DEF OwnInv
  <2>4. own'[b] # {} => At(b, "commissions") \/ At(b, "registers") BY <1>3, <1>6, <2>1 DEF OwnInv
  <2> QED BY <1>1, <1>8, <1>12, <2>1, <2>2, <2>3, <2>4 DEF OwnInv, At
<1>14. (shown # NoAttempt => ShownInv(shown))'
  <2> SUFFICES ASSUME shown # NoAttempt PROVE ShownInv(shown)' BY <1>1
  <2> DEFINE s == shown
  <2>1. s \in Attempts /\ ShownInv(s) BY <1>3 DEF AttemptInv, AttemptTyped
  <2>2. attempt'[s].phase = Raised(attempt[s].phase, first, second) BY <1>11, <2>1
  <2>3. "found" \in own'[s] => attempt'[s].phase # "searching"
    <3>1. attempt[s].phase # "searching" => attempt'[s].phase # "searching" BY <2>2 DEF Raised
    <3>2. CASE s = a BY <1>0, <1>5, <1>6, <1>7, <2>1, <2>2, <3>1, <3>2 DEF ShownInv, Raised
    <3>3. CASE s # a BY <1>6, <2>1, <3>1, <3>3 DEF ShownInv
    <3> QED BY <3>2, <3>3
  <2>4. attempt'[s].stuck # "no" => attempt'[s].known /\ attempt'[s].scanned /\ own'[s] \subseteq {"joined"}
    <3>1. CASE s = a
      <4> SUFFICES ASSUME attempt'[s].stuck # "no"
                   PROVE  attempt'[s].known /\ attempt'[s].scanned /\ own'[s] \subseteq {"joined"}
        OBVIOUS
      <4>1. attempt'[s].phase = "searching" /\ attempt'[s].known /\ attempt'[s].scanned
        BY <1>11, <3>1
      <4>2. "found" \notin own'[s] BY <2>3, <4>1
      <4>3. "connected" \notin own'[s] BY <1>13, <2>1, <4>2 DEF OwnInv
      <4>4. own'[s] \subseteq {"found", "connected", "joined"} BY <1>6, <2>1
      <4> QED BY <4>1, <4>2, <4>3, <4>4
    <3>2. CASE s # a BY <1>6, <1>11, <2>1, <3>2 DEF ShownInv
    <3> QED BY <3>1, <3>2
  <2>5. At(s, "answered") =>
       IF request[s].answer = "done"
       THEN attempt'[s].phase = "done" /\ attempt'[s].reason = NoReason
       ELSE attempt'[s].phase = "failed" /\ attempt'[s].reason = request[s].answer
    BY <1>11, <2>1, <2>2 DEF ShownInv, Raised
  <2> HIDE DEF s
  <2>6. ShownInv(s)' BY <1>1, <2>1, <2>3, <2>4, <2>5 DEF ShownInv, At, s
  <2> QED BY <2>6 DEF s
<1>15. (\A b \in alone : AloneInv(b))'
  <2> SUFFICES ASSUME NEW b \in alone, At(b, "commissions")
               PROVE  /\ shown = b /\ attempt'[b].phase = OwnReached(b)'
                      /\ \A c \in Attempts : At(c, "commissions") => c = b
    BY <1>1 DEF AloneInv, At
  <2>1. /\ b \in Attempts /\ shown = b /\ attempt[b].phase = OwnReached(b)
        /\ \A c \in Attempts : At(c, "commissions") => c = b
    BY <1>3 DEF AttemptInv, AttemptTyped, AloneInv
  <2>2. b = a BY <1>3, <2>1
  <2>3. attempt'[b].phase = Raised(attempt[b].phase, first, second) BY <1>11, <2>1
  <2>4. first <=> k /\ near /\ "found" \notin own[b] BY <1>5, <2>2
  <2>5. "connected" \in own[b] => "found" \in own[b] BY <1>3, <2>2 DEF OwnInv
  <2> HIDE DEF first, second, k
  <2>6. attempt'[b].phase = OwnReached(b)'
    BY <1>0, <1>2, <1>6, <1>7, <2>1, <2>2, <2>3, <2>4, <2>5 DEF OwnReached, Raised
  <2> QED BY <2>1, <2>6
<1> QED BY <1>10, <1>13, <1>14, <1>15 DEF AttemptInv

(* A request goes on before its call. *)
LEMMA NotBegunKeeps ==
    ASSUME AttemptInv, NEW a \in Attempts, request[a].at \in {"waits", "fetches", "hands"},
           NEW req \in RequestType, req.at \in {"fetches", "hands", "answered"},
           request' = [request EXCEPT ![a] = req], NotBegun
    PROVE  AttemptInv'
<1>1. AttemptTyped /\ OwnInv(a) BY DEF AttemptInv
<1>2. request' \in [Attempts -> RequestType] /\ request'[a] = req /\ \A b \in Attempts : b # a => request'[b] = request[b]
  BY <1>1 DEF AttemptTyped
<1>3. AttemptTyped' BY <1>1, <1>2 DEF AttemptTyped, NotBegun
<1>4. \A b \in Attempts : OwnInv(b)'
  <2> TAKE b \in Attempts
  <2>1. OwnInv(b) BY DEF AttemptInv
  <2>2. CASE b = a BY <1>1, <1>2, <2>1, <2>2 DEF OwnInv, At, NotBegun
  <2>3. CASE b # a BY <1>2, <2>1, <2>3 DEF OwnInv, At, NotBegun
  <2> QED BY <2>2, <2>3
<1>5. shown # NoAttempt => shown \in Attempts /\ shown # a /\ ShownInv(shown)
  BY <1>1 DEF AttemptInv, AttemptTyped, ShownInv, At
<1>6. (shown # NoAttempt => ShownInv(shown))' BY <1>2, <1>5 DEF ShownInv, At, NotBegun
<1>7. (\A b \in alone : AloneInv(b))'
  <2> SUFFICES ASSUME NEW b \in alone PROVE AloneInv(b)' BY DEF NotBegun
  <2>1. AloneInv(b) /\ b \in Attempts BY <1>1 DEF AttemptInv, AttemptTyped
  <2>2. \A c \in Attempts : request'[c].at = "commissions" => request[c].at = "commissions"
    BY <1>2
  <2> QED BY <2>1, <2>2 DEF AloneInv, At, NotBegun, OwnReached
<1> QED BY <1>3, <1>4, <1>6, <1>7 DEF AttemptInv

LEMMA BeginsKeeps ==
    ASSUME AttemptInv, NEW a \in Attempts, request[a].at \in {"waits", "fetches", "hands"},
           NEW req \in RequestType, Begins(a, req)
    PROVE  AttemptInv'
<1>1. AttemptTyped /\ OwnInv(a) BY DEF AttemptInv
<1> DEFINE q == [req EXCEPT !.at = "commissions"]
<1>2. /\ request' = [request EXCEPT ![a] = q]
      /\ attempt' = [b \in Attempts |-> IF b \in UnderWay THEN attempt[b]
                                        ELSE NewAttempt(b = a /\ req.known)]
      /\ shown' = a /\ sampler' = [sampler EXCEPT ![a] = "sleeps"]
      /\ alone' = (alone \ UnderWay) \cup (IF Commissioning = {} THEN {a} ELSE {})
      /\ UNCHANGED <<own, misjudged>>
  BY DEF Begins
<1>3. q \in RequestType /\ q.at = "commissions" /\ q.known = req.known /\ req.known \in BOOLEAN
  BY DEF RequestType
<1> HIDE DEF q
<1>4. request' \in [Attempts -> RequestType] /\ request'[a] = q /\ \A b \in Attempts : b # a => request'[b] = request[b]
  BY <1>1, <1>2, <1>3 DEF AttemptTyped
<1>5. \A k \in BOOLEAN : /\ NewAttempt(k) \in AttemptType /\ NewAttempt(k).phase = "searching"
                         /\ NewAttempt(k).known = k /\ NewAttempt(k).matched = FALSE /\ NewAttempt(k).stuck = "no"
  BY DEF NewAttempt, AttemptType
<1>6. /\ attempt' \in [Attempts -> AttemptType]
      /\ \A b \in Attempts : IF b \in UnderWay THEN attempt'[b] = attempt[b]
                             ELSE attempt'[b].phase = "searching" /\ attempt'[b].matched = FALSE /\ attempt'[b].stuck = "no"
      /\ attempt'[a].known = req.known
  <2>1. a \notin UnderWay BY DEF UnderWay, Commissioning, At
  <2>2. \A b \in Attempts : (b = a /\ req.known) \in BOOLEAN OBVIOUS
  <2> HIDE DEF UnderWay
  <2> QED BY <1>1, <1>2, <1>3, <1>5, <2>1, <2>2 DEF AttemptTyped
<1>7. sampler' \in [Attempts -> {"off", "sleeps", "asks"}] /\ sampler'[a] = "sleeps"
      /\ \A b \in Attempts : b # a => sampler'[b] = sampler[b]
  BY <1>1, <1>2 DEF AttemptTyped
<1>8. AttemptTyped' BY <1>1, <1>2, <1>4, <1>6, <1>7 DEF AttemptTyped
<1>9. own[a] = {} /\ a \notin misjudged BY <1>1 DEF OwnInv, At
<1>10. \A b \in Attempts : b \in UnderWay <=> At(b, "commissions") \/ At(b, "registers")
  BY DEF UnderWay, Commissioning
<1>11. \A b \in Attempts : OwnInv(b)'
  <2> TAKE b \in Attempts
  <2>1. OwnInv(b) BY DEF AttemptInv
  <2>2. CASE b = a BY <1>2, <1>3, <1>4, <1>6, <1>7, <1>9, <1>10, <2>2 DEF OwnInv, At, EndPhases
  <2>3. CASE b # a
    <3>1. request'[b] = request[b] /\ sampler'[b] = sampler[b] /\ own'[b] = own[b]
          /\ (b \in misjudged' <=> b \in misjudged) /\ (b \in alone' => b \in alone)
      BY <1>2, <1>4, <1>7, <2>3
    <3>2. CASE b \in UnderWay BY <1>6, <2>1, <3>1, <3>2 DEF OwnInv, At
    <3>3. CASE b \notin UnderWay BY <1>6, <1>10, <2>1, <3>1, <3>3 DEF OwnInv, At, EndPhases
    <3> QED BY <3>2, <3>3
  <2> QED BY <2>2, <2>3
<1>12. (shown # NoAttempt => ShownInv(shown))'
  <2>1. ShownInv(a)'
    <3>1. a \notin UnderWay BY <1>10 DEF At
    <3> QED BY <1>2, <1>3, <1>4, <1>6, <1>9, <3>1 DEF ShownInv, At
  <2> QED BY <1>2, <2>1
<1>13. (\A b \in alone : AloneInv(b))'
  <2> SUFFICES ASSUME NEW b \in alone', At(b, "commissions")' PROVE AloneInv(b)' BY DEF AloneInv
  <2>1. b = a \/ b \in alone \ UnderWay BY <1>2
  <2>2. b = a BY <1>1, <1>4, <1>10, <2>1 DEF At, AttemptTyped
  <2>3. Commissioning = {}
    <3>1. a \notin alone BY <1>1 DEF OwnInv
    <3> QED BY <1>2, <2>2, <3>1
  <2>4. \A c \in Attempts : At(c, "commissions")' => c = a BY <1>4, <2>3 DEF Commissioning, At
  <2>5. attempt'[a].phase = OwnReached(a)'
    <3>1. a \notin UnderWay BY <1>10 DEF At
    <3> QED BY <1>2, <1>6, <1>9, <3>1 DEF OwnReached
  <2> QED BY <1>2, <2>2, <2>4, <2>5 DEF AloneInv
<1> QED BY <1>8, <1>11, <1>12, <1>13 DEF AttemptInv
----------------------------------------
(* The attempt: it goes on, ends, and every step together. *)

LEMMA GoesToKeeps ==
    ASSUME AttemptInv, NEW a \in Attempts, request[a].at \in {"waits", "fetches", "hands"},
           NEW req \in RequestType, NEW step \in {"fetches", "hands"}, GoesTo(a, req, step)
    PROVE  AttemptInv'
<1> DEFINE q == [req EXCEPT !.at = step]
<1>1. q \in RequestType /\ q.at = step BY DEF RequestType
<1>2. request' = [request EXCEPT ![a] = q] /\ NotBegun BY DEF GoesTo
<1> HIDE DEF q
<1> QED BY <1>1, <1>2, NotBegunKeeps

LEMMA AnswerIs ==
    ASSUME NEW reason \in Reasons \cup {"done"}
    PROVE  LET q == [NewRequest EXCEPT !.at = "answered", !.answer = reason]
           IN  q \in RequestType /\ q.at = "answered" /\ q.answer = reason
  BY DEF NewRequest, RequestType

LEMMA RefusedKeeps ==
    ASSUME AttemptInv, NEW a \in Attempts, request[a].at \in {"waits", "fetches", "hands"},
           NEW reason \in Reasons, Refused(a, reason)
    PROVE  AttemptInv'
<1> DEFINE q == [NewRequest EXCEPT !.at = "answered", !.answer = reason]
<1>1. q \in RequestType /\ q.at = "answered" BY AnswerIs
<1>2. request' = [request EXCEPT ![a] = q] /\ NotBegun BY DEF Refused, Answer
<1> HIDE DEF q
<1> QED BY <1>1, <1>2, NotBegunKeeps

LEMMA RequestedKeeps == ASSUME AttemptInv, NEW a \in Attempts, Requested(a) PROVE AttemptInv'
<1>1. request[a].at \in {"waits", "fetches", "hands"} BY DEF Requested, At
<1>2. PICK known \in BOOLEAN :
        LET req == [request[a] EXCEPT !.known = known]
        IN Refused(a, "other") \/ GoesTo(a, req, "hands") \/ Begins(a, req) \/ GoesTo(a, req, "fetches")
  BY DEF Requested
<1> DEFINE req == [request[a] EXCEPT !.known = known]
<1>3. req \in RequestType BY DEF AttemptInv, AttemptTyped, RequestType
<1>4. Refused(a, "other") \/ GoesTo(a, req, "hands") \/ Begins(a, req) \/ GoesTo(a, req, "fetches")
  BY <1>2
<1>5. "other" \in Reasons BY DEF Reasons
<1> HIDE DEF req
<1> QED BY <1>1, <1>3, <1>4, <1>5, RefusedKeeps, GoesToKeeps, BeginsKeeps

LEMMA FetchedKeeps == ASSUME AttemptInv, NEW a \in Attempts, Fetched(a) PROVE AttemptInv'
<1>1. request[a].at \in {"waits", "fetches", "hands"} BY DEF Fetched, At
<1> DEFINE req == [request[a] EXCEPT !.missing = TRUE]
<1>2. request[a] \in RequestType /\ req \in RequestType
  BY DEF AttemptInv, AttemptTyped, RequestType
<1>3. GoesTo(a, request[a], "hands") \/ Begins(a, req) BY DEF Fetched
<1> HIDE DEF req
<1> QED BY <1>1, <1>2, <1>3, GoesToKeeps, BeginsKeeps

LEMMA HandsKeeps == ASSUME AttemptInv, NEW a \in Attempts, HandedOver(a) \/ HandOverFails(a) PROVE AttemptInv'
<1>1. request[a].at \in {"waits", "fetches", "hands"} BY DEF HandedOver, HandOverFails, At
<1>2. request[a] \in RequestType BY DEF AttemptInv, AttemptTyped
<1>3. "other" \in Reasons /\ "matter_server_unreachable" \in Reasons BY DEF Reasons
<1> QED BY <1>1, <1>2, <1>3, RefusedKeeps, BeginsKeeps DEF HandedOver, HandOverFails

(* What the news of a node does to the attempt that is shown. *)
LEMMA AnnouncedMoves ==
    ASSUME AttemptInv, Announced, shown \in Commissioning
    PROVE  /\ shown \in Attempts /\ At(shown, "commissions")
           /\ attempt' \in [Attempts -> AttemptType]
           /\ \A b \in Attempts : b # shown => attempt'[b] = attempt[b]
           /\ SameBut(attempt'[shown], attempt[shown])
           /\ attempt'[shown].phase = "joined" /\ attempt[shown].phase \notin EndPhases
<1>1. shown \in Attempts /\ At(shown, "commissions") /\ AttemptTyped /\ OwnInv(shown)
  BY DEF AttemptInv, Commissioning
<1>2. attempt' = [attempt EXCEPT ![shown] = Advanced(@, "joined")] BY DEF Announced
<1>3. attempt[shown].phase \notin EndPhases /\ attempt[shown] \in AttemptType
  BY <1>1 DEF OwnInv, AttemptTyped, At
<1>4. /\ Advanced(attempt[shown], "joined") \in AttemptType
      /\ SameBut(Advanced(attempt[shown], "joined"), attempt[shown])
      /\ Advanced(attempt[shown], "joined").phase = "joined"
  BY <1>3, AdvancedIs
<1>5. /\ attempt'[shown] = Advanced(attempt[shown], "joined")
      /\ \A b \in Attempts : b # shown => attempt'[b] = attempt[b]
      /\ attempt' \in [Attempts -> AttemptType]
  BY <1>1, <1>2, <1>4 DEF AttemptTyped
<1> QED BY <1>1, <1>3, <1>4, <1>5

(* The news of a node, or none, with what is noted of the request it belongs to. *)
LEMMA NewsKeeps ==
    ASSUME AttemptInv, Announced, UNCHANGED <<request, shown, sampler, misjudged>>,
           alone' \subseteq alone,
           own' \in [Attempts -> SUBSET {"found", "connected", "joined"}],
           \A b \in Attempts : /\ own[b] \subseteq own'[b] /\ own'[b] \subseteq own[b] \cup {"joined"}
                               /\ "joined" \in own'[b] => "joined" \in own[b] \/ At(b, "commissions"),
           \A b \in alone' : At(b, "commissions") => "joined" \in own'[b]
                                               \/ (shown \notin Commissioning /\ own'[b] = own[b])
    PROVE  AttemptInv'
<1>1. AttemptTyped BY DEF AttemptInv
<1>2. /\ attempt' \in [Attempts -> AttemptType]
      /\ \A b \in Attempts : /\ SameBut(attempt'[b], attempt[b])
                             /\ attempt'[b].phase = IF b = shown /\ shown \in Commissioning THEN "joined" ELSE attempt[b].phase
                             /\ attempt'[b].phase \in EndPhases <=> attempt[b].phase \in EndPhases
  <2>1. CASE shown \in Commissioning BY <2>1, AnnouncedMoves DEF SameBut, EndPhases
  <2>2. CASE shown \notin Commissioning
    <3>1. attempt' = attempt BY <2>2 DEF Announced
    <3> QED BY <1>1, <2>2, <3>1 DEF AttemptTyped, SameBut
  <2> QED BY <2>1, <2>2
<1>3. AttemptTyped' BY <1>1, <1>2 DEF AttemptTyped
<1>4. \A b \in Attempts : OwnInv(b)'
  <2> TAKE b \in Attempts
  <2>1. OwnInv(b) BY DEF AttemptInv
  <2>2. "found" \in own'[b] <=> "found" \in own[b] OBVIOUS
  <2>3. "connected" \in own'[b] <=> "connected" \in own[b] OBVIOUS
  <2>4. own'[b] # {} => own[b] # {} \/ At(b, "commissions") OBVIOUS
  <2>5. b \in alone' => b \in alone OBVIOUS
  <2> QED BY <1>2, <2>1, <2>2, <2>3, <2>4, <2>5 DEF OwnInv, At, SameBut
<1>5. (shown # NoAttempt => ShownInv(shown))'
  <2> SUFFICES ASSUME shown # NoAttempt PROVE ShownInv(shown)' OBVIOUS
  <2>1. shown \in Attempts /\ ShownInv(shown) BY <1>1 DEF AttemptInv, AttemptTyped
  <2>2. "found" \in own'[shown] <=> "found" \in own[shown] BY <2>1
  <2>3. own[shown] \subseteq {"joined"} => own'[shown] \subseteq {"joined"} BY <2>1
  <2>4. SameBut(attempt'[shown], attempt[shown]) BY <1>2, <2>1
  <2>5. attempt'[shown].phase = IF shown \in Commissioning THEN "joined" ELSE attempt[shown].phase
    BY <1>2, <2>1
  <2>6. At(shown, "answered") => shown \notin Commissioning BY DEF At, Commissioning
  <2> QED BY <2>1, <2>2, <2>3, <2>4, <2>5, <2>6 DEF ShownInv, At, SameBut
<1>6. (\A b \in alone : AloneInv(b))'
  <2> SUFFICES ASSUME NEW b \in alone', At(b, "commissions") PROVE AloneInv(b)'
    BY DEF AloneInv, At
  <2>1. AloneInv(b) /\ b \in Attempts BY <1>1 DEF AttemptInv, AttemptTyped
  <2>2. shown = b /\ attempt[b].phase = OwnReached(b) /\ \A c \in Attempts : At(c, "commissions") => c = b
    BY <2>1 DEF AloneInv
  <2>3. shown \in Commissioning BY <2>1, <2>2 DEF Commissioning
  <2>4. attempt'[b].phase = "joined" /\ "joined" \in own'[b] BY <1>2, <2>1, <2>2, <2>3
  <2> QED BY <2>2, <2>4 DEF AloneInv, At, OwnReached
<1> QED BY <1>3, <1>4, <1>5, <1>6 DEF AttemptInv

LEMMA NodeAddedKeeps == ASSUME AttemptInv, NEW a \in Attempts, NodeAdded(a) PROVE AttemptInv'
<1>1. /\ At(a, "commissions") /\ Announced /\ own' = [own EXCEPT ![a] = @ \cup {"joined"}]
      /\ UNCHANGED <<request, shown, sampler, alone, misjudged>>
  BY DEF NodeAdded
<1>2. AttemptTyped /\ \A b \in alone : AloneInv(b) BY DEF AttemptInv
<1>3. own' \in [Attempts -> SUBSET {"found", "connected", "joined"}] /\ own'[a] = own[a] \cup {"joined"}
      /\ \A b \in Attempts : b # a => own'[b] = own[b]
  BY <1>1, <1>2 DEF AttemptTyped
<1>4. \A b \in Attempts : /\ own[b] \subseteq own'[b] /\ own'[b] \subseteq own[b] \cup {"joined"}
                          /\ "joined" \in own'[b] => "joined" \in own[b] \/ At(b, "commissions")
  BY <1>1, <1>3
<1>5. \A b \in alone : At(b, "commissions") => "joined" \in own'[b]
  <2> SUFFICES ASSUME NEW b \in alone, At(b, "commissions") PROVE b = a BY <1>3
  <2>1. AloneInv(b) BY <1>2
  <2> QED BY <1>1, <2>1 DEF AloneInv
<1> QED BY <1>1, <1>3, <1>4, <1>5, NewsKeeps

LEMMA StrangerAddedKeeps == ASSUME AttemptInv, StrangerAdded PROVE AttemptInv'
<1>1. /\ shown \in Commissioning /\ Announced /\ alone' = alone \ {shown}
      /\ UNCHANGED <<request, shown, sampler, own, misjudged>>
  BY DEF StrangerAdded
<1>2. AttemptTyped /\ \A b \in alone : AloneInv(b) BY DEF AttemptInv
<1>3. own' \in [Attempts -> SUBSET {"found", "connected", "joined"}]
  BY <1>1, <1>2 DEF AttemptTyped
<1>4. \A b \in alone' : ~At(b, "commissions")
  <2> SUFFICES ASSUME NEW b \in alone, At(b, "commissions") PROVE b = shown BY <1>1
  <2>1. AloneInv(b) BY <1>2
  <2> QED BY <2>1 DEF AloneInv
<1>5. \A b \in Attempts : /\ own[b] \subseteq own'[b] /\ own'[b] \subseteq own[b] \cup {"joined"}
                          /\ "joined" \in own'[b] => "joined" \in own[b] \/ At(b, "commissions")
  BY <1>1
<1> QED BY <1>1, <1>3, <1>4, <1>5, NewsKeeps

(* What the end of a request does to its attempt. *)
LEMMA FinishMoves ==
    ASSUME AttemptTyped, NEW a \in Attempts, NEW reason \in Reasons \cup {NoReason}, Finish(a, reason)
    PROVE  /\ attempt' \in [Attempts -> AttemptType]
           /\ \A b \in Attempts : b # shown \/ b # a => attempt'[b] = attempt[b]
           /\ shown = a /\ attempt[a].phase \notin EndPhases =>
                /\ attempt'[a].reason = reason /\ attempt'[a].known = attempt[a].known
                /\ attempt'[a].matched = attempt[a].matched /\ attempt'[a].scanned = attempt[a].scanned
                /\ attempt'[a].stuck = attempt[a].stuck
                /\ attempt'[a].phase = IF reason = NoReason THEN "done" ELSE "failed"
<1> DEFINE t == attempt[a]
           u == [t EXCEPT !.reason = reason, !.phase = IF reason = NoReason THEN "done" ELSE "failed"]
<1>1. attempt \in [Attempts -> AttemptType] /\ t \in AttemptType BY DEF AttemptTyped
<1>2. /\ u \in AttemptType
      /\ u.reason = reason /\ u.known = t.known /\ u.matched = t.matched /\ u.scanned = t.scanned
      /\ u.stuck = t.stuck /\ u.phase = IF reason = NoReason THEN "done" ELSE "failed"
  BY <1>1 DEF AttemptType
<1>3. Finished(t, reason) = IF t.phase \in EndPhases THEN t ELSE u BY DEF Finished
<1> HIDE DEF u
<1>4. Finished(t, reason) \in AttemptType BY <1>1, <1>2, <1>3
<1>5. CASE shown = a
  <2>1. attempt' = [attempt EXCEPT ![a] = Finished(t, reason)] BY <1>5 DEF Finish
  <2>2. attempt' \in [Attempts -> AttemptType] /\ attempt'[a] = Finished(t, reason)
        /\ \A b \in Attempts : b # a => attempt'[b] = attempt[b]
    BY <1>1, <1>4, <2>1
  <2> QED BY <1>2, <1>3, <1>5, <2>2
<1>6. CASE shown # a BY <1>1, <1>6 DEF Finish
<1> QED BY <1>5, <1>6

(* The end of a request: its answer, and what is shown of it. *)
LEMMA EndKeeps ==
    ASSUME AttemptInv, NEW a \in Attempts, request[a].at \in {"commissions", "registers"},
           NEW reason \in Reasons \cup {NoReason}, NEW answer,
           answer = IF reason = NoReason THEN "done" ELSE reason,
           Finish(a, reason), Answer(a, answer),
           sampler' = [sampler EXCEPT ![a] = "off"] \/ (UNCHANGED sampler /\ sampler[a] = "off"),
           own' = [own EXCEPT ![a] = {}], UNCHANGED <<shown, alone>>,
           misjudged' = misjudged \/ (a \notin alone /\ misjudged' = misjudged \cup {a})
    PROVE  AttemptInv'
<1> DEFINE q == [NewRequest EXCEPT !.at = "answered", !.answer = answer]
<1>1. AttemptTyped /\ OwnInv(a) BY DEF AttemptInv
<1>2. q \in RequestType /\ q.at = "answered" /\ q.answer = answer BY AnswerIs
<1>3. request' = [request EXCEPT ![a] = q] BY DEF Answer
<1> HIDE DEF q
<1>4. request' \in [Attempts -> RequestType] /\ request'[a] = q /\ \A b \in Attempts : b # a => request'[b] = request[b]
  BY <1>1, <1>2, <1>3 DEF AttemptTyped
<1>5. sampler' \in [Attempts -> {"off", "sleeps", "asks"}] /\ sampler'[a] = "off"
      /\ \A b \in Attempts : b # a => sampler'[b] = sampler[b]
  BY <1>1 DEF AttemptTyped
<1>6. own' \in [Attempts -> SUBSET {"found", "connected", "joined"}] /\ own'[a] = {}
      /\ \A b \in Attempts : b # a => own'[b] = own[b]
  BY <1>1 DEF AttemptTyped
<1>7. /\ attempt' \in [Attempts -> AttemptType]
      /\ \A b \in Attempts : b # a => attempt'[b] = attempt[b]
  BY <1>1, FinishMoves
<1>8. misjudged' \subseteq Attempts BY <1>1 DEF AttemptTyped
<1>9. AttemptTyped' BY <1>1, <1>4, <1>5, <1>6, <1>7, <1>8 DEF AttemptTyped
<1>10. \A b \in Attempts : OwnInv(b)'
  <2> TAKE b \in Attempts
  <2>1. OwnInv(b) BY DEF AttemptInv
  <2>2. CASE b = a BY <1>1, <1>2, <1>4, <1>5, <1>6, <2>2 DEF OwnInv, At
  <2>3. CASE b # a
    <3>1. b \in misjudged' => b \in misjudged BY <2>3
    <3> QED BY <1>4, <1>5, <1>6, <1>7, <2>1, <2>3, <3>1 DEF OwnInv, At
  <2> QED BY <2>2, <2>3
<1>11. (shown # NoAttempt => ShownInv(shown))'
  <2> SUFFICES ASSUME shown # NoAttempt PROVE ShownInv(shown)' OBVIOUS
  <2>1. shown \in Attempts /\ ShownInv(shown) BY <1>1 DEF AttemptInv, AttemptTyped
  <2>2. CASE shown = a
    <3>1. attempt[a].phase \notin EndPhases BY <1>1 DEF OwnInv, At
    <3>2. /\ attempt'[a].reason = reason /\ attempt'[a].known = attempt[a].known
          /\ attempt'[a].scanned = attempt[a].scanned /\ attempt'[a].stuck = attempt[a].stuck
          /\ attempt'[a].phase = IF reason = NoReason THEN "done" ELSE "failed"
      BY <1>1, <2>2, <3>1, FinishMoves
    <3>3. answer = "done" <=> reason = NoReason BY DEF Reasons
    <3> QED BY <1>2, <1>4, <1>6, <2>1, <2>2, <3>2, <3>3 DEF ShownInv, At
  <2>3. CASE shown # a BY <1>4, <1>6, <1>7, <2>1, <2>3 DEF ShownInv, At
  <2> QED BY <2>2, <2>3
<1>12. (\A b \in alone : AloneInv(b))'
  <2> SUFFICES ASSUME NEW b \in alone, At(b, "commissions")' PROVE AloneInv(b)' BY DEF AloneInv
  <2>1. AloneInv(b) /\ b \in Attempts BY <1>1 DEF AttemptInv, AttemptTyped
  <2>2. b # a /\ At(b, "commissions") BY <1>2, <1>4, <2>1 DEF At
  <2>3. \A c \in Attempts : At(c, "commissions")' => At(c, "commissions") BY <1>2, <1>4 DEF At
  <2> QED BY <1>6, <1>7, <2>1, <2>2, <2>3 DEF AloneInv, OwnReached
<1> QED BY <1>9, <1>10, <1>11, <1>12 DEF AttemptInv

(* The reason given to a request that is alone is its own. *)
LEMMA ReasonIsOwnAlone ==
    ASSUME AttemptInv, NEW a \in alone, At(a, "commissions"), NEW text \in {"lost", "not_found", "plain"}
    PROVE  ReasonOf(a, text) = OwnReason(a, text)
<1>1. a \in Attempts /\ OwnInv(a) /\ AloneInv(a) BY DEF AttemptInv, AttemptTyped
<1>2. shown = a /\ attempt[a].phase = OwnReached(a) /\ attempt[a].matched = ("found" \in own[a])
  <2>1. attempt[a].matched \in BOOLEAN BY <1>1 DEF AttemptInv, AttemptTyped, AttemptType
  <2> QED BY <1>1, <2>1 DEF OwnInv, AloneInv
<1> QED BY <1>2 DEF ReasonOf, OwnReason, Classify

LEMMA ReasonIs ==
    ASSUME NEW a \in Attempts, NEW text
    PROVE  ReasonOf(a, text) \in Reasons
  BY DEF ReasonOf, Classify, Reasons

LEMMA RejectedKeeps == ASSUME AttemptInv, NEW a \in Attempts, Rejected(a) PROVE AttemptInv'
<1>1. At(a, "commissions") BY DEF Rejected
<1>2. PICK text \in {"lost", "not_found", "plain"} :
       /\ FailsWith(a, ReasonOf(a, text))
       /\ misjudged' = IF ReasonOf(a, text) = OwnReason(a, text) THEN misjudged
                       ELSE misjudged \cup {a}
  BY DEF Rejected
<1> DEFINE reason == ReasonOf(a, text)
<1>3. reason \in Reasons /\ reason # NoReason BY ReasonIs, AttemptAssumption
<1>4. misjudged' = misjudged \/ (a \notin alone /\ misjudged' = misjudged \cup {a})
  BY <1>1, <1>2, ReasonIsOwnAlone
<1>5. FailsWith(a, reason) BY <1>2
<1> HIDE DEF reason
<1> QED BY <1>1, <1>3, <1>4, <1>5, EndKeeps DEF FailsWith, At

LEMMA CallBreaksKeeps == ASSUME AttemptInv, NEW a \in Attempts, CallBreaks(a) PROVE AttemptInv'
<1>1. At(a, "commissions") /\ misjudged' = misjudged BY DEF CallBreaks
<1>2. PICK reason \in {"matter_server_unreachable", "other"} : FailsWith(a, reason)
  BY DEF CallBreaks
<1>3. reason \in Reasons /\ reason # NoReason BY AttemptAssumption DEF Reasons
<1> QED BY <1>1, <1>2, <1>3, EndKeeps DEF FailsWith, At

LEMMA RegisteredKeeps == ASSUME AttemptInv, NEW a \in Attempts, Registered(a) PROVE AttemptInv'
<1>1. At(a, "registers") /\ own' = [own EXCEPT ![a] = {}] /\ UNCHANGED <<shown, sampler, alone, misjudged>>
  BY DEF Registered
<1>2. sampler[a] = "off" BY <1>1 DEF AttemptInv, OwnInv, At
<1>3. "other" \in Reasons /\ "other" # NoReason BY AttemptAssumption DEF Reasons
<1>4. CASE Answer(a, "done") /\ Finish(a, NoReason) BY <1>1, <1>2, <1>4, EndKeeps DEF At
<1>5. CASE Answer(a, "other") /\ Finish(a, "other") BY <1>1, <1>2, <1>3, <1>5, EndKeeps DEF At
<1> QED BY <1>4, <1>5 DEF Registered

LEMMA NodeCommissionedKeeps == ASSUME AttemptInv, NEW a \in Attempts, NodeCommissioned(a) PROVE AttemptInv'
<1>1. /\ At(a, "commissions") /\ request' = [request EXCEPT ![a].at = "registers"]
      /\ sampler' = [sampler EXCEPT ![a] = "off"]
      /\ UNCHANGED <<attempt, shown, own, alone, misjudged>>
  BY DEF NodeCommissioned
<1> DEFINE q == [request[a] EXCEPT !.at = "registers"]
<1>2. AttemptTyped /\ OwnInv(a) BY DEF AttemptInv
<1>3. q \in RequestType /\ q.at = "registers" BY <1>2 DEF AttemptTyped, RequestType
<1>4. request' = [request EXCEPT ![a] = q] BY <1>1
<1> HIDE DEF q
<1>5. request' \in [Attempts -> RequestType] /\ request'[a] = q /\ \A b \in Attempts : b # a => request'[b] = request[b]
  BY <1>2, <1>3, <1>4 DEF AttemptTyped
<1>6. sampler' \in [Attempts -> {"off", "sleeps", "asks"}] /\ sampler'[a] = "off"
      /\ \A b \in Attempts : b # a => sampler'[b] = sampler[b]
  BY <1>1, <1>2 DEF AttemptTyped
<1>7. AttemptTyped' BY <1>1, <1>2, <1>5, <1>6 DEF AttemptTyped
<1>8. \A b \in Attempts : OwnInv(b)'
  <2> TAKE b \in Attempts
  <2>1. OwnInv(b) BY DEF AttemptInv
  <2>2. CASE b = a BY <1>1, <1>2, <1>3, <1>5, <1>6, <2>2 DEF OwnInv, At
  <2>3. CASE b # a BY <1>1, <1>5, <1>6, <2>1, <2>3 DEF OwnInv, At
  <2> QED BY <2>2, <2>3
<1>9. (shown # NoAttempt => ShownInv(shown))'
  <2> SUFFICES ASSUME shown # NoAttempt PROVE ShownInv(shown)' BY <1>1
  <2>1. shown \in Attempts /\ ShownInv(shown) BY <1>2 DEF AttemptInv, AttemptTyped
  <2>2. CASE shown = a BY <1>1, <1>3, <1>5, <2>1, <2>2 DEF ShownInv, At
  <2>3. CASE shown # a BY <1>1, <1>5, <2>1, <2>3 DEF ShownInv, At
  <2> QED BY <2>2, <2>3
<1>10. (\A b \in alone : AloneInv(b))'
  <2> SUFFICES ASSUME NEW b \in alone, At(b, "commissions")' PROVE AloneInv(b)'
    BY <1>1 DEF AloneInv
  <2>1. AloneInv(b) /\ b \in Attempts BY <1>2 DEF AttemptInv, AttemptTyped
  <2>2. b # a /\ At(b, "commissions") BY <1>3, <1>5, <2>1 DEF At
  <2>3. \A c \in Attempts : At(c, "commissions")' => At(c, "commissions") BY <1>3, <1>5 DEF At
  <2> QED BY <1>1, <2>1, <2>2, <2>3 DEF AloneInv, OwnReached
<1> QED BY <1>7, <1>8, <1>9, <1>10 DEF AttemptInv

LEMMA AttemptKeeps == AttemptInv /\ [AttemptNext]_attemptVars => AttemptInv'
<1> SUFFICES ASSUME AttemptInv, [AttemptNext]_attemptVars PROVE AttemptInv' OBVIOUS
<1>1. CASE StrangerAdded BY <1>1, StrangerAddedKeeps
<1>2. ASSUME NEW a \in Attempts, SampleBegins(a) \/ SampleFails(a) PROVE AttemptInv'
  BY <1>2, SamplerKeeps
<1>3. ASSUME NEW a \in Attempts, SampleAnswered(a) PROVE AttemptInv' BY <1>3, SampleAnsweredKeeps
<1>4. ASSUME NEW a \in Attempts, Requested(a) \/ Fetched(a) PROVE AttemptInv'
  BY <1>4, RequestedKeeps, FetchedKeeps
<1>5. ASSUME NEW a \in Attempts, HandedOver(a) \/ HandOverFails(a) PROVE AttemptInv'
  BY <1>5, HandsKeeps
<1>6. ASSUME NEW a \in Attempts, NodeAdded(a) \/ NodeCommissioned(a) PROVE AttemptInv'
  BY <1>6, NodeAddedKeeps, NodeCommissionedKeeps
<1>7. ASSUME NEW a \in Attempts, Rejected(a) \/ CallBreaks(a) \/ Registered(a) PROVE AttemptInv'
  BY <1>7, RejectedKeeps, CallBreaksKeeps, RegisteredKeeps
<1>8. CASE UNCHANGED attemptVars
  BY <1>8 DEF attemptVars, AttemptInv, AttemptTyped, OwnInv, ShownInv, AloneInv, At, OwnReached
<1> QED BY <1>1, <1>2, <1>3, <1>4, <1>5, <1>6, <1>7, <1>8 DEF AttemptNext

LEMMA AttemptIsSafe == AttemptInv => AttemptSafe
<1> SUFFICES ASSUME AttemptInv PROVE AttemptSafe OBVIOUS
<1>1. AttemptTyped /\ \A a \in Attempts : OwnInv(a) BY DEF AttemptInv
<1>2. AttemptTypeOK
  <2>1. DOMAIN PhaseOrder \cup EndPhases = {"searching", "found", "connected", "joined", "done", "failed"}
    BY DEF PhaseOrder, EndPhases
  <2>2. \A a \in Attempts : attempt[a].phase \in DOMAIN PhaseOrder \cup EndPhases
    BY <1>1, <2>1, AttemptFields
  <2>3. \A a \in Attempts : sampler[a] # "off" <=> At(a, "commissions") BY <1>1 DEF OwnInv
  <2> QED BY <1>1, <2>2, <2>3 DEF AttemptTypeOK, AttemptTyped
<1>3. AnswerIsShown BY DEF AttemptInv, ShownInv, AnswerIsShown
<1>4. AloneIsOwn
  <2>1. alone \cap misjudged = {} BY <1>1 DEF OwnInv, AttemptTyped
  <2>2. \A a \in alone : PhaseIsOwnOf(a) BY DEF AttemptInv, AloneInv, PhaseIsOwnOf
  <2> QED BY <2>1, <2>2 DEF AloneIsOwn
<1>5. StuckIsNotFound BY DEF AttemptInv, ShownInv, StuckIsNotFound
<1> QED BY <1>2, <1>3, <1>4, <1>5 DEF AttemptSafe
----------------------------------------
(* The blinking: the inductive invariant. *)

CallType == [op : {"start", "stop", "idle"}, dev : Blinkers \cup {Nobody}, renews : BOOLEAN,
             by : {"worker", "stopper", "starter", "press"}, at : {"waits", "stops", "lights"},
             last : Blinkers \cup {Nobody}, late : BOOLEAN]
KeeperType == [dev : Blinkers \cup {Nobody}, renews : BOOLEAN, left : Nat,
               at : {"none", "sleeps", "calls"}, took : BOOLEAN, late : BOOLEAN]
CoordType == [blinking : Blinkers \cup {Nobody}, keeper : KeeperType, calls : Seq(CallType)]

GoodCall(q) ==
    /\ q.op = "stop" <=> q.dev = Nobody
    /\ q.renews => q.op = "start"
    /\ q.by = "stopper" => q.op = "stop"
    /\ q.by = "starter" => q.op = "start"

Free(c) == c.calls = <<>> \/ c.calls[1].at = "waits"

KeeperFits(c) ==
    /\ c.blinking = c.keeper.dev
    /\ c.keeper.at = "none" <=> c.blinking = Nobody
    /\ c.keeper.renews => c.blinking # Nobody
    /\ c.keeper.at = "calls" => c.keeper.renews

QueueInv(c) ==
    /\ c \in CoordType
    /\ \A i \in DOMAIN c.calls : /\ GoodCall(c.calls[i]) /\ (i > 1 => c.calls[i].at = "waits")
                                 /\ c.calls[i].at = "stops" => c.calls[i].last # Nobody
                                 /\ c.calls[i].at = "lights" => c.calls[i].op # "stop"
    /\ ~Free(c) => c.blinking = Nobody
    /\ KeeperFits(c)

Shining(c, d) ==
    \/ d = c.blinking
    \/ /\ c.calls # <<>>
       /\ \/ c.calls[1].at = "stops" /\ d = c.calls[1].last
          \/ c.calls[1].at = "lights" /\ d = c.calls[1].dev

GlowInv(c, g, s) == \A d \in Blinkers \ s : g[d] > 0 => Shining(c, d)

KeptInv(c, g, u, lit) ==
    c.blinking # Nobody =>
        /\ lit <= g[c.blinking]
        /\ c.keeper.renews =>
             /\ c.keeper.left <= 1 /\ (u <= 1 => g[c.blinking] + u + 1 >= BlinkTicks + c.keeper.left)
             /\ c.keeper.at = "calls" /\ ~c.keeper.late =>
                  c.keeper.left = 1 /\ (c.keeper.took => g[c.blinking] = BlinkTicks)
        /\ ~c.keeper.renews => g[c.blinking] <= c.keeper.left

TurnType == [dev : Blinkers, first : BOOLEAN]
ByTurn(q) == q.by \in {"stopper", "starter"}
TurnsInv(c, lv) ==
    /\ \A i, k \in DOMAIN c.calls : ByTurn(c.calls[i]) /\ ByTurn(c.calls[k]) => i = k
    /\ \A i \in DOMAIN c.calls : ByTurn(c.calls[i]) => lv # <<>>

LineInv(ln, lv, cm) ==
    /\ ln \in Seq(Blinkers) /\ lv \in Seq(TurnType) /\ cm \subseteq Blinkers
    /\ \A i, k \in DOMAIN ln : ln[i] = ln[k] => i = k
    /\ \A i \in DOMAIN ln : ln[i] \notin cm
    /\ \A j \in DOMAIN lv : lv[j].dev \notin cm /\ \A i \in DOMAIN ln : ln[i] # lv[j].dev

Foremost(ln, d) == ln # <<>> /\ d = ln[1]

StartsFront(q, ln) == q.op = "start" /\ q.renews /\ Foremost(ln, q.dev)
IdleAfter(c, i) == \A k \in DOMAIN c.calls : k > i => c.calls[k].op = "idle"

(* A turn that is still to be handed on, a start of the front that comes, or *)
(* the front that blinks. *)
TurnComes(c, lv) ==
    \E j \in DOMAIN lv : lv[j].first /\ (j = 1 => \A i \in DOMAIN c.calls : c.calls[i].by # "starter")
StartComes(c, ln, n) == \E i \in DOMAIN c.calls : i > n /\ StartsFront(c.calls[i], ln) /\ IdleAfter(c, i)
FrontGlows(c, ln, n) == Foremost(ln, c.blinking) /\ c.keeper.renews /\ IdleAfter(c, n)

FrontInv(c, ln, lv) == TurnComes(c, lv) \/ StartComes(c, ln, 0) \/ FrontGlows(c, ln, 0)

AskedInv(c, ln, ms) ==
    \A i \in DOMAIN c.calls : c.calls[i].renews =>
       \/ Foremost(ln, c.calls[i].dev) \/ c.calls[i].dev \in ms
       \/ \E k \in DOMAIN c.calls : k > i /\ c.calls[k].op = "start"

RenewedInv(c, ln, lv, ms) ==
    c.keeper.renews =>
       \/ Foremost(ln, c.blinking) \/ c.blinking \in ms
       \/ \E k \in DOMAIN c.calls : c.calls[k].op # "idle"
       \/ \E j \in DOMAIN lv : lv[j].dev = c.blinking

CoordInv(c, ln, lv, ms, aw) ==
    /\ QueueInv(c) /\ TurnsInv(c, lv)
    /\ ln # <<>> /\ ~aw => FrontInv(c, ln, lv)
    /\ AskedInv(c, ln, ms) /\ RenewedInv(c, ln, lv, ms)

LightInv(c, g, s, u, lit) == GlowInv(c, g, s) /\ KeptInv(c, g, u, lit)

IdentifyTyped ==
    /\ glow \in [Blinkers -> 0..BlinkTicks] /\ litFor \in 0..BlinkTicks /\ unanswered \in Nat
    /\ away \in BOOLEAN

IdentifyInv ==
    /\ IdentifyTyped /\ LineInv(line, leaving, coming)
    /\ CoordInv(coord, line, leaving, missed, away)
    /\ LightInv(coord, glow, stray, unanswered, litFor)
----------------------------------------
(* The blinking: a call enters the queue of the lock. *)

LEMMA FirstChanged ==
    ASSUME NEW T, NEW s \in Seq(T), s # <<>>, NEW x \in T
    PROVE  LET t == [s EXCEPT ![1] = x]
           IN  /\ t \in Seq(T) /\ t # <<>> /\ DOMAIN t = DOMAIN s /\ Len(t) = Len(s) /\ 1 \in DOMAIN t
               /\ t[1] = x /\ \A i \in DOMAIN s : i # 1 => t[i] = s[i]
<1>1. Len(s) \in Nat /\ Len(s) > 0 /\ DOMAIN s = 1..Len(s) OBVIOUS
<1> DEFINE t == [s EXCEPT ![1] = x]
<1>2. t \in Seq(T) /\ DOMAIN t = DOMAIN s /\ t[1] = x /\ \A i \in DOMAIN s : i # 1 => t[i] = s[i]
  BY <1>1
<1>3. Len(t) = Len(s) /\ 1 \in DOMAIN t /\ t # <<>> BY <1>1, <1>2
<1> QED BY <1>2, <1>3

LEMMA LastAdded ==
    ASSUME NEW T, NEW s \in Seq(T), NEW x \in T
    PROVE  LET t == Append(s, x)
           IN  /\ t \in Seq(T) /\ t # <<>> /\ Len(t) = Len(s) + 1 /\ DOMAIN t = 1..(Len(s) + 1)
               /\ t[Len(s) + 1] = x /\ \A i \in DOMAIN s : t[i] = s[i]
<1>1. Len(s) \in Nat /\ DOMAIN s = 1..Len(s) OBVIOUS
<1> DEFINE t == Append(s, x)
<1>2. t \in Seq(T) /\ Len(t) = Len(s) + 1 /\ t[Len(s) + 1] = x /\ \A i \in DOMAIN s : t[i] = s[i]
  BY <1>1
<1>3. DOMAIN t = 1..(Len(s) + 1) /\ t # <<>> BY <1>1, <1>2
<1> QED BY <1>2, <1>3

LEMMA TailIs ==
    ASSUME NEW T, NEW s \in Seq(T), s # <<>>
    PROVE  /\ Tail(s) \in Seq(T) /\ Len(Tail(s)) = Len(s) - 1 /\ Len(s) \in Nat \ {0} /\ DOMAIN s = 1..Len(s)
           /\ DOMAIN Tail(s) = 1..(Len(s) - 1) /\ \A i \in 1..(Len(s) - 1) : Tail(s)[i] = s[i + 1]
           /\ Head(s) = s[1] /\ s[1] \in T
<1>1. Len(s) \in Nat \ {0} /\ DOMAIN s = 1..Len(s) OBVIOUS
<1> QED BY <1>1

(* Two calls that ask for the same. *)
SameCall(q, r) == q.op = r.op /\ q.dev = r.dev /\ q.renews = r.renews /\ q.by = r.by

BegunAt(c, call) == IF c.blinking \notin {Nobody, call.dev} THEN "stops" ELSE "lights"

(* The holder of the lock has begun. *)
IsBegun(c, r) ==
    /\ r \in CoordType /\ r.blinking = Nobody /\ r.keeper = NoKeeper
    /\ r.calls # <<>> /\ Len(r.calls) = Len(c.calls) /\ DOMAIN r.calls = DOMAIN c.calls
    /\ \A i \in DOMAIN c.calls : i # 1 => r.calls[i] = c.calls[i]
    /\ SameCall(r.calls[1], c.calls[1]) /\ r.calls[1].at = BegunAt(c, c.calls[1]) /\ r.calls[1].last = c.blinking

LEMMA NoKeeperIs ==
    NoKeeper \in KeeperType /\ NoKeeper.dev = Nobody /\ NoKeeper.at = "none" /\ ~NoKeeper.renews
  BY DEF NoKeeper, KeeperType

LEMMA BegunIs ==
    ASSUME NEW c \in CoordType, c.calls # <<>>
    PROVE  IsBegun(c, Begun(c))
<1>1. c.calls \in Seq(CallType) /\ c.blinking \in Blinkers \cup {Nobody} /\ c.keeper \in KeeperType
  BY DEF CoordType
<1>2. c.calls[1] \in CallType /\ Head(c.calls) = c.calls[1] BY <1>1, TailIs
<1> DEFINE q == c.calls[1]
           x == [q EXCEPT !.at = BegunAt(c, q), !.last = c.blinking]
           t == [c.calls EXCEPT ![1] = x]
<1>3. BegunAt(c, q) \in {"waits", "stops", "lights"} BY DEF BegunAt
<1>4. /\ x \in CallType /\ SameCall(x, q) /\ x.at = BegunAt(c, q) /\ x.last = c.blinking
  BY <1>1, <1>2, <1>3 DEF CallType, SameCall
<1>5. Begun(c) = [blinking |-> Nobody, keeper |-> NoKeeper, calls |-> t]
  BY <1>2 DEF Begun, BegunAt
<1> HIDE DEF x
<1>6. /\ t \in Seq(CallType) /\ t # <<>> /\ DOMAIN t = DOMAIN c.calls /\ Len(t) = Len(c.calls)
      /\ t[1] = x /\ \A i \in DOMAIN c.calls : i # 1 => t[i] = c.calls[i]
  BY <1>1, <1>4, FirstChanged
<1> HIDE DEF t
<1> QED BY <1>4, <1>5, <1>6, NoKeeperIs DEF IsBegun, CoordType

(* A call has come last. *)
IsQueued(c, r, q) ==
    /\ r \in CoordType /\ r.calls # <<>> /\ Len(r.calls) = Len(c.calls) + 1
    /\ DOMAIN r.calls = 1..(Len(c.calls) + 1)
    /\ \A i \in DOMAIN c.calls : r.calls[i] = c.calls[i]
    /\ SameCall(r.calls[Len(c.calls) + 1], q)

(* What happens to a call that comes. *)
IsEntered(c, r, q) ==
    IF c.calls # <<>>
    THEN /\ IsQueued(c, r, q) /\ r.blinking = c.blinking /\ r.keeper = c.keeper
         /\ r.calls[Len(c.calls) + 1] = q
    ELSE IF NothingToDo(c, q) THEN r = c
    ELSE /\ IsQueued(c, r, q) /\ r.blinking = Nobody /\ r.keeper = NoKeeper
         /\ r.calls[1].at = BegunAt(c, q) /\ r.calls[1].last = c.blinking

LEMMA EnteredIs ==
    ASSUME NEW c \in CoordType, NEW q \in CallType
    PROVE  IsEntered(c, Entered(c, q), q)
<1>1. c.calls \in Seq(CallType) /\ c.blinking \in Blinkers \cup {Nobody} /\ c.keeper \in KeeperType
      /\ Len(c.calls) \in Nat
  BY DEF CoordType
<1>2. CASE c.calls # <<>>
  <2> DEFINE t == Append(c.calls, q)
             r == [c EXCEPT !.calls = t]
  <2>1. Entered(c, q) = r BY <1>2 DEF Entered
  <2>2. /\ t \in Seq(CallType) /\ t # <<>> /\ Len(t) = Len(c.calls) + 1 /\ DOMAIN t = 1..(Len(c.calls) + 1)
        /\ t[Len(c.calls) + 1] = q /\ \A i \in DOMAIN c.calls : t[i] = c.calls[i]
    BY <1>1, LastAdded
  <2> HIDE DEF t
  <2>3. r \in CoordType /\ r.blinking = c.blinking /\ r.keeper = c.keeper /\ r.calls = t
    BY <2>2 DEF CoordType
  <2> HIDE DEF r
  <2> QED BY <1>2, <2>1, <2>2, <2>3 DEF IsEntered, IsQueued, SameCall
<1>3. CASE c.calls = <<>> /\ NothingToDo(c, q) BY <1>3 DEF Entered, IsEntered
<1>4. CASE c.calls = <<>> /\ ~NothingToDo(c, q)
  <2> DEFINE b == [c EXCEPT !.calls = <<q>>]
  <2>1. Entered(c, q) = Begun(b) BY <1>4 DEF Entered
  <2>2. <<q>> \in Seq(CallType) /\ Len(<<q>>) = 1 /\ <<q>> # <<>> /\ DOMAIN <<q>> = 1..1 /\ <<q>>[1] = q
    OBVIOUS
  <2>3. b \in CoordType /\ b.blinking = c.blinking /\ b.calls = <<q>> BY <2>2 DEF CoordType
  <2> HIDE DEF b
  <2>4. IsBegun(b, Begun(b)) BY <2>2, <2>3, BegunIs
  <2>5. Len(c.calls) = 0 /\ DOMAIN c.calls = {} BY <1>4
  <2> DEFINE r == Begun(b)
  <2>6. /\ r \in CoordType /\ r.blinking = Nobody /\ r.keeper = NoKeeper
        /\ r.calls # <<>> /\ Len(r.calls) = 1 /\ DOMAIN r.calls = 1..1
        /\ SameCall(r.calls[1], q) /\ r.calls[1].at = BegunAt(b, q) /\ r.calls[1].last = c.blinking
    BY <2>2, <2>3, <2>4 DEF IsBegun
  <2>7. BegunAt(b, q) = BegunAt(c, q) BY <2>3 DEF BegunAt
  <2> HIDE DEF r
  <2>8. IsEntered(c, r, q) BY <1>4, <2>5, <2>6, <2>7 DEF IsEntered, IsQueued
  <2> QED BY <2>1, <2>8 DEF r
<1> QED BY <1>2, <1>3, <1>4

(* The calls that are made. *)
LEMMA BlinkCallIs ==
    ASSUME NEW op \in {"start", "stop", "idle"}, NEW d \in Blinkers \cup {Nobody}, NEW renews \in BOOLEAN,
           NEW by \in {"worker", "stopper", "starter", "press"}
    PROVE  LET q == BlinkCall(op, d, renews, by)
           IN  /\ q \in CallType /\ q.op = op /\ q.dev = d /\ q.renews = renews /\ q.by = by
               /\ q.at = "waits" /\ ~q.late
  BY DEF BlinkCall, CallType

----------------------------------------
(* What a coordinator with its keeper and its callers keeps. *)

LEMMA EnteredQueue ==
    ASSUME NEW c, NEW q \in CallType, NEW r, QueueInv(c), GoodCall(q), q.at = "waits", IsEntered(c, r, q)
    PROVE  /\ QueueInv(r)
           /\ \A d \in Blinkers : Shining(c, d) => Shining(r, d)
           /\ (r.keeper = c.keeper /\ r.blinking = c.blinking) \/ (r.keeper = NoKeeper /\ r.blinking = Nobody)
<1>1. /\ c \in CoordType /\ c.calls \in Seq(CallType) /\ Len(c.calls) \in Nat /\ DOMAIN c.calls = 1..Len(c.calls)
      /\ c.blinking \in Blinkers \cup {Nobody}
  BY DEF QueueInv, CoordType
<1>2. CASE c.calls # <<>>
  <2>1. /\ IsQueued(c, r, q) /\ r.blinking = c.blinking /\ r.keeper = c.keeper
        /\ r.calls[Len(c.calls) + 1] = q
    BY <1>2 DEF IsEntered
  <2>2. 1 \in DOMAIN c.calls /\ r.calls[1] = c.calls[1] BY <1>1, <1>2, <2>1 DEF IsQueued
  <2>3. ASSUME NEW i \in DOMAIN r.calls
        PROVE  /\ GoodCall(r.calls[i]) /\ (i > 1 => r.calls[i].at = "waits")
               /\ r.calls[i].at = "stops" => r.calls[i].last # Nobody
               /\ r.calls[i].at = "lights" => r.calls[i].op # "stop"
    <3>1. i \in DOMAIN c.calls \/ i = Len(c.calls) + 1 BY <1>1, <2>1 DEF IsQueued
    <3> QED BY <2>1, <3>1 DEF IsQueued, QueueInv
  <2>4. QueueInv(r) BY <1>2, <2>1, <2>2, <2>3 DEF QueueInv, IsQueued, Free, KeeperFits
  <2>5. \A d \in Blinkers : Shining(c, d) => Shining(r, d)
    BY <1>2, <2>1, <2>2 DEF Shining, IsQueued
  <2> QED BY <2>1, <2>4, <2>5
<1>3. CASE c.calls = <<>> /\ NothingToDo(c, q) BY <1>3 DEF IsEntered
<1>4. CASE c.calls = <<>> /\ ~NothingToDo(c, q)
  <2>1. /\ IsQueued(c, r, q) /\ r.blinking = Nobody /\ r.keeper = NoKeeper
        /\ r.calls[1].at = BegunAt(c, q) /\ r.calls[1].last = c.blinking
    BY <1>4 DEF IsEntered
  <2>2. Len(c.calls) = 0 BY <1>4
  <2>3. /\ r \in CoordType /\ r.calls # <<>> /\ DOMAIN r.calls = 1..1 /\ SameCall(r.calls[1], q)
    BY <2>1, <2>2 DEF IsQueued
  <2>4. GoodCall(r.calls[1]) BY <2>3 DEF GoodCall, SameCall
  <2>5. r.calls[1].at = "stops" => r.calls[1].last # Nobody BY <2>1 DEF BegunAt
  <2>6. r.calls[1].at = "lights" => r.calls[1].op # "stop"
    BY <1>4, <2>1, <2>3 DEF BegunAt, NothingToDo, SameCall, GoodCall
  <2>7. QueueInv(r) BY <2>1, <2>3, <2>4, <2>5, <2>6, NoKeeperIs DEF QueueInv, Free, KeeperFits
  <2>8. ASSUME NEW d \in Blinkers, Shining(c, d) PROVE Shining(r, d)
    <3>1. d = c.blinking BY <1>4, <2>8 DEF Shining
    <3> QED BY <2>1, <2>3, <3>1, IdentifyAssumption DEF Shining, BegunAt, SameCall
  <2> QED BY <2>1, <2>7, <2>8
<1> QED BY <1>2, <1>3, <1>4
----------------------------------------
(* The blinking: what a call that enters leaves of the promises. *)

(* The calls ask for the same. *)
SameCalls(c, r) ==
    DOMAIN r.calls = DOMAIN c.calls /\ \A i \in DOMAIN c.calls : SameCall(r.calls[i], c.calls[i])

LEMMA SameCallsKeep ==
    ASSUME NEW c, NEW r, SameCalls(c, r)
    PROVE  /\ \A lv : TurnsInv(c, lv) => TurnsInv(r, lv)
           /\ \A lv : TurnComes(c, lv) => TurnComes(r, lv)
           /\ \A ln : StartComes(c, ln, 0) => StartComes(r, ln, 0)
           /\ \A n : IdleAfter(c, n) => IdleAfter(r, n)
           /\ \A ln, ms : AskedInv(c, ln, ms) => AskedInv(r, ln, ms)
<1>1. \A i \in DOMAIN c.calls : /\ r.calls[i].op = c.calls[i].op /\ r.calls[i].dev = c.calls[i].dev
                                /\ r.calls[i].renews = c.calls[i].renews /\ r.calls[i].by = c.calls[i].by
  BY DEF SameCalls, SameCall
<1>2. DOMAIN r.calls = DOMAIN c.calls BY DEF SameCalls
<1>3. \A lv : TurnsInv(c, lv) => TurnsInv(r, lv) BY <1>1, <1>2 DEF TurnsInv, ByTurn
<1>4. \A lv : TurnComes(c, lv) => TurnComes(r, lv) BY <1>1, <1>2 DEF TurnComes
<1>5. \A n : IdleAfter(c, n) => IdleAfter(r, n) BY <1>1, <1>2 DEF IdleAfter
<1>6. \A ln : StartComes(c, ln, 0) => StartComes(r, ln, 0)
  BY <1>1, <1>2, <1>5 DEF StartComes, StartsFront
<1>7. ASSUME NEW ln, NEW ms, AskedInv(c, ln, ms) PROVE AskedInv(r, ln, ms)
  BY <1>1, <1>2, <1>7 DEF AskedInv
<1> QED BY <1>3, <1>4, <1>5, <1>6, <1>7

(* A call that comes, and what is promised to the front. *)
LEMMA EnteredTurns ==
    ASSUME NEW c \in CoordType, NEW q, NEW r, IsEntered(c, r, q), NEW lv, TurnsInv(c, lv),
           ByTurn(q) => lv # <<>> /\ \A i \in DOMAIN c.calls : ~ByTurn(c.calls[i])
    PROVE  TurnsInv(r, lv)
<1>1. Len(c.calls) \in Nat /\ DOMAIN c.calls = 1..Len(c.calls) BY DEF CoordType
<1>2. CASE r = c BY <1>2
<1>3. CASE IsQueued(c, r, q)
  <2> DEFINE n == Len(c.calls) + 1
  <2>1. \A i \in DOMAIN r.calls : i \in DOMAIN c.calls \/ i = n BY <1>1, <1>3 DEF IsQueued
  <2>2. \A i \in DOMAIN c.calls : r.calls[i] = c.calls[i] BY <1>3 DEF IsQueued
  <2>3. ByTurn(r.calls[n]) <=> ByTurn(q) BY <1>3 DEF IsQueued, SameCall, ByTurn
  <2> HIDE DEF n
  <2> QED BY <2>1, <2>2, <2>3 DEF TurnsInv
<1> QED BY <1>2, <1>3 DEF IsEntered

LEMMA EnteredAsked ==
    ASSUME NEW c \in CoordType, NEW q, NEW r, IsEntered(c, r, q), NEW ln, NEW ms, NEW ns, AskedInv(c, ln, ms),
           q.renews => Foremost(ln, q.dev), q.op = "start" \/ ms \subseteq ns
    PROVE  AskedInv(r, ln, ns)
<1>1. Len(c.calls) \in Nat /\ DOMAIN c.calls = 1..Len(c.calls) BY DEF CoordType
<1>2. CASE r = c /\ NothingToDo(c, q)
  <2>1. ms \subseteq ns BY <1>2 DEF NothingToDo
  <2> QED BY <1>2, <2>1 DEF AskedInv
<1>3. CASE IsQueued(c, r, q)
  <2> DEFINE n == Len(c.calls) + 1
  <2>1. \A i \in DOMAIN r.calls : i \in DOMAIN c.calls \/ i = n BY <1>1, <1>3 DEF IsQueued
  <2>2. \A i \in DOMAIN c.calls : r.calls[i] = c.calls[i] /\ i \in DOMAIN r.calls /\ n > i
    BY <1>1, <1>3 DEF IsQueued
  <2>3. r.calls[n].op = q.op /\ r.calls[n].dev = q.dev /\ r.calls[n].renews = q.renews /\ n \in DOMAIN r.calls
    BY <1>1, <1>3 DEF IsQueued, SameCall
  <2> HIDE DEF n
  <2> SUFFICES ASSUME NEW i \in DOMAIN r.calls, r.calls[i].renews
               PROVE  \/ Foremost(ln, r.calls[i].dev) \/ r.calls[i].dev \in ns
                      \/ \E k \in DOMAIN r.calls : k > i /\ r.calls[k].op = "start"
    BY DEF AskedInv
  <2>4. CASE i = n BY <2>3, <2>4
  <2>5. CASE i \in DOMAIN c.calls
    <3>1. \/ Foremost(ln, c.calls[i].dev) \/ c.calls[i].dev \in ms
          \/ \E k \in DOMAIN c.calls : k > i /\ c.calls[k].op = "start"
      BY <2>2, <2>5 DEF AskedInv
    <3>2. CASE q.op = "start" BY <2>2, <2>3, <2>5, <3>2
    <3>3. CASE ms \subseteq ns BY <2>2, <2>5, <3>1, <3>3
    <3> QED BY <3>2, <3>3
  <2> QED BY <2>1, <2>4, <2>5
<1> QED BY <1>2, <1>3 DEF IsEntered

LEMMA EnteredRenewed ==
    ASSUME NEW c \in CoordType, NEW q, NEW r, IsEntered(c, r, q), NEW ln, NEW lv, NEW ms, NEW ns,
           RenewedInv(c, ln, lv, ms), q.op = "start" \/ ms \subseteq ns
    PROVE  RenewedInv(r, ln, lv, ns)
<1>1. Len(c.calls) \in Nat /\ DOMAIN c.calls = 1..Len(c.calls) BY DEF CoordType
<1>2. CASE r = c /\ NothingToDo(c, q)
  <2>1. ms \subseteq ns BY <1>2 DEF NothingToDo
  <2> QED BY <1>2, <2>1 DEF RenewedInv
<1>3. CASE r.keeper = NoKeeper BY <1>3, NoKeeperIs DEF RenewedInv
<1>4. CASE IsQueued(c, r, q) /\ r.blinking = c.blinking /\ r.keeper = c.keeper
  <2> DEFINE n == Len(c.calls) + 1
  <2>1. \A i \in DOMAIN c.calls : r.calls[i] = c.calls[i] /\ i \in DOMAIN r.calls
    BY <1>1, <1>4 DEF IsQueued
  <2>2. r.calls[n].op = q.op /\ n \in DOMAIN r.calls BY <1>1, <1>4 DEF IsQueued, SameCall
  <2> HIDE DEF n
  <2>3. CASE q.op = "start" BY <2>2, <2>3 DEF RenewedInv
  <2>4. CASE ms \subseteq ns BY <1>4, <2>1, <2>4 DEF RenewedInv
  <2> QED BY <2>3, <2>4
<1> QED BY <1>2, <1>3, <1>4 DEF IsEntered

LEMMA EnteredFront ==
    ASSUME NEW c, QueueInv(c), NEW q, NEW r, IsEntered(c, r, q), NEW ln, NEW lv
    PROVE  /\ q.by # "starter" /\ TurnComes(c, lv) => TurnComes(r, lv)
           /\ StartsFront(q, ln) => StartComes(r, ln, 0)
           /\ q.op = "idle" /\ StartComes(c, ln, 0) => StartComes(r, ln, 0)
           /\ q.op = "idle" /\ FrontGlows(c, ln, 0) /\ ln \in Seq(Blinkers) => FrontGlows(r, ln, 0)
<1>1. Len(c.calls) \in Nat /\ DOMAIN c.calls = 1..Len(c.calls) /\ c.calls \in Seq(CallType)
  BY DEF QueueInv, CoordType
<1> DEFINE n == Len(c.calls) + 1
<1>2. CASE r = c /\ NothingToDo(c, q) /\ c.calls = <<>>
  <2>1. q.op # "start" BY <1>2 DEF NothingToDo
  <2>2. ~StartsFront(q, ln) BY <2>1 DEF StartsFront
  <2> QED BY <1>2, <2>2
<1>3. CASE IsQueued(c, r, q)
  <2>1. \A i \in DOMAIN r.calls : i \in DOMAIN c.calls \/ i = n BY <1>1, <1>3 DEF IsQueued
  <2>2. \A i \in DOMAIN c.calls : r.calls[i] = c.calls[i] /\ i \in DOMAIN r.calls /\ n > i
    BY <1>1, <1>3 DEF IsQueued
  <2>3. /\ r.calls[n].op = q.op /\ r.calls[n].dev = q.dev /\ r.calls[n].renews = q.renews /\ r.calls[n].by = q.by
        /\ n \in DOMAIN r.calls
    BY <1>1, <1>3 DEF IsQueued, SameCall
  <2>4. q.by # "starter" /\ TurnComes(c, lv) => TurnComes(r, lv)
    <3> HIDE DEF n
    <3> QED BY <2>1, <2>2, <2>3 DEF TurnComes
  <2>5. StartsFront(q, ln) => StartComes(r, ln, 0)
    <3>1. \A k \in DOMAIN r.calls : ~(k > n) BY <1>1, <2>1
    <3>2. StartsFront(q, ln) => StartsFront(r.calls[n], ln) BY <2>3 DEF StartsFront
    <3>3. n > 0 BY <1>1
    <3> HIDE DEF n
    <3> QED BY <2>3, <3>1, <3>2, <3>3 DEF StartComes, IdleAfter
  <2>6. ASSUME q.op = "idle", NEW m, IdleAfter(c, m) PROVE IdleAfter(r, m)
    <3> HIDE DEF n
    <3> QED BY <2>1, <2>2, <2>3, <2>6 DEF IdleAfter
  <2>7. q.op = "idle" /\ StartComes(c, ln, 0) => StartComes(r, ln, 0)
    <3> HIDE DEF n
    <3> QED BY <2>2, <2>6 DEF StartComes
  <2>8. q.op = "idle" /\ FrontGlows(c, ln, 0) /\ ln \in Seq(Blinkers) => FrontGlows(r, ln, 0)
    <3> SUFFICES ASSUME q.op = "idle", FrontGlows(c, ln, 0), ln \in Seq(Blinkers) PROVE FrontGlows(r, ln, 0)
      OBVIOUS
    <3>1. c.blinking = ln[1] /\ ln # <<>> BY DEF FrontGlows, Foremost
    <3>2. c.blinking # Nobody BY <3>1, TailIs, IdentifyAssumption
    <3>3. NothingToDo(c, q) BY <3>2 DEF NothingToDo
    <3>4. c.calls # <<>> \/ r = c BY <3>3 DEF IsEntered
    <3>5. r.blinking = c.blinking /\ r.keeper = c.keeper BY <3>4 DEF IsEntered
    <3> QED BY <2>6, <3>5 DEF FrontGlows
  <2> QED BY <2>4, <2>5, <2>7, <2>8
<1> QED BY <1>2, <1>3 DEF IsEntered
----------------------------------------
(* The blinking: a call leaves the queue. *)

(* The first call is over. *)
IsRest(c, r) ==
    /\ r \in CoordType /\ r.blinking = c.blinking /\ r.keeper = c.keeper
    /\ c.calls # <<>> /\ Len(c.calls) \in Nat \ {0} /\ DOMAIN c.calls = 1..Len(c.calls)
    /\ DOMAIN r.calls = 1..(Len(c.calls) - 1)
    /\ \A i \in DOMAIN r.calls : r.calls[i] = c.calls[i + 1]

LEMMA RestIs ==
    ASSUME NEW c \in CoordType, c.calls # <<>>
    PROVE  IsRest(c, [c EXCEPT !.calls = Tail(@)])
<1> DEFINE t == Tail(c.calls)
           r == [c EXCEPT !.calls = t]
<1>1. c.calls \in Seq(CallType) BY DEF CoordType
<1>2. /\ t \in Seq(CallType) /\ Len(c.calls) \in Nat \ {0} /\ DOMAIN c.calls = 1..Len(c.calls)
      /\ DOMAIN t = 1..(Len(c.calls) - 1) /\ \A i \in 1..(Len(c.calls) - 1) : t[i] = c.calls[i + 1]
  BY <1>1, TailIs
<1> HIDE DEF t
<1>3. r \in CoordType /\ r.blinking = c.blinking /\ r.keeper = c.keeper /\ r.calls = t
  BY <1>2 DEF CoordType
<1> HIDE DEF r
<1>4. IsRest(c, r) BY <1>2, <1>3 DEF IsRest
<1> QED BY <1>4 DEF r, t

LEMMA RestShifts ==
    ASSUME NEW c, NEW r, IsRest(c, r)
    PROVE  /\ \A i \in DOMAIN r.calls : i + 1 \in DOMAIN c.calls /\ r.calls[i] = c.calls[i + 1] /\ i \in Nat /\ i > 0
           /\ \A k \in DOMAIN c.calls : k > 1 => k - 1 \in DOMAIN r.calls /\ r.calls[k - 1] = c.calls[k]
           /\ 1 \in DOMAIN c.calls /\ \A k \in DOMAIN c.calls : k \in Nat /\ k >= 1
<1>1. \A i \in DOMAIN r.calls : i + 1 \in DOMAIN c.calls /\ r.calls[i] = c.calls[i + 1] /\ i \in Nat /\ i > 0
  BY DEF IsRest
<1>2. \A k \in DOMAIN c.calls : k > 1 => k - 1 \in DOMAIN r.calls /\ (k - 1) + 1 = k BY DEF IsRest
<1>3. \A k \in DOMAIN c.calls : k > 1 => r.calls[k - 1] = c.calls[k] BY <1>1, <1>2
<1>4. 1 \in DOMAIN c.calls /\ \A k \in DOMAIN c.calls : k \in Nat /\ k >= 1 BY DEF IsRest
<1> QED BY <1>1, <1>2, <1>3, <1>4

(* A coordinator whose first call is over, whatever that did to the blink. *)
IsDone(c) ==
    /\ c \in CoordType /\ KeeperFits(c)
    /\ \A i \in DOMAIN c.calls : GoodCall(c.calls[i]) /\ (i > 1 => c.calls[i].at = "waits")

LEMMA RestQueue ==
    ASSUME NEW c, IsDone(c), NEW r, IsRest(c, r)
    PROVE  /\ QueueInv(r)
           /\ \A d : d = c.blinking => Shining(r, d)
<1>1. \A i \in DOMAIN r.calls : GoodCall(r.calls[i]) /\ r.calls[i].at = "waits"
  BY RestShifts DEF IsDone
<1>2. Free(r)
  <2>1. r.calls # <<>> => 1 \in DOMAIN r.calls BY DEF IsRest, CoordType
  <2> QED BY <1>1, <2>1 DEF Free
<1>3. KeeperFits(r) BY DEF IsDone, IsRest, KeeperFits
<1>4. r \in CoordType BY DEF IsRest
<1>5. QueueInv(r) BY ONLY <1>1, <1>2, <1>3, <1>4 DEF QueueInv
<1> QED BY <1>5 DEF Shining, IsRest

LEMMA RestTurns ==
    ASSUME NEW c, NEW r, IsRest(c, r), NEW lv, TurnsInv(c, lv)
    PROVE  /\ TurnsInv(r, lv)
           /\ ByTurn(c.calls[1]) => /\ \A i \in DOMAIN r.calls : ~ByTurn(r.calls[i])
                                  /\ \A lw : TurnsInv(r, lw)
<1>1. TurnsInv(r, lv)
  <2>1. \A i, k \in DOMAIN r.calls : ByTurn(r.calls[i]) /\ ByTurn(r.calls[k]) => i + 1 = k + 1
    BY RestShifts DEF TurnsInv
  <2>2. \A i, k \in DOMAIN r.calls : i + 1 = k + 1 => i = k BY RestShifts
  <2>3. \A i \in DOMAIN r.calls : ByTurn(r.calls[i]) => lv # <<>> BY RestShifts DEF TurnsInv
  <2> QED BY <2>1, <2>2, <2>3 DEF TurnsInv
<1>2. ASSUME ByTurn(c.calls[1]), NEW i \in DOMAIN r.calls, ByTurn(r.calls[i]) PROVE FALSE
  <2>1. i + 1 = 1 BY <1>2, RestShifts DEF TurnsInv
  <2> QED BY <2>1, RestShifts
<1>3. ASSUME \A i \in DOMAIN r.calls : ~ByTurn(r.calls[i]), NEW lw PROVE TurnsInv(r, lw)
  BY <1>3 DEF TurnsInv
<1> QED BY <1>1, <1>2, <1>3

LEMMA RestAsked ==
    ASSUME NEW c, NEW r, IsRest(c, r), NEW ln, NEW ms, AskedInv(c, ln, ms)
    PROVE  AskedInv(r, ln, ms)
<1> SUFFICES ASSUME NEW i \in DOMAIN r.calls, r.calls[i].renews
             PROVE  \/ Foremost(ln, r.calls[i].dev) \/ r.calls[i].dev \in ms
                    \/ \E k \in DOMAIN r.calls : k > i /\ r.calls[k].op = "start"
  BY DEF AskedInv
<1>1. i + 1 \in DOMAIN c.calls /\ r.calls[i] = c.calls[i + 1] /\ i \in Nat BY RestShifts
<1>2. \/ Foremost(ln, c.calls[i + 1].dev) \/ c.calls[i + 1].dev \in ms
      \/ \E k \in DOMAIN c.calls : k > i + 1 /\ c.calls[k].op = "start"
  BY <1>1 DEF AskedInv
<1>3. ASSUME NEW k \in DOMAIN c.calls, k > i + 1, c.calls[k].op = "start"
      PROVE  k - 1 \in DOMAIN r.calls /\ k - 1 > i /\ r.calls[k - 1].op = "start"
  BY <1>1, <1>3, RestShifts
<1> QED BY <1>1, <1>2, <1>3

LEMMA RestFront ==
    ASSUME NEW c, NEW r, IsRest(c, r), NEW ln, NEW lv
    PROVE  /\ StartComes(c, ln, 1) => StartComes(r, ln, 0)
           /\ FrontGlows(c, ln, 1) => FrontGlows(r, ln, 0)
           /\ TurnComes(c, lv) => TurnComes(r, lv)
<1>1. ASSUME NEW n \in Nat, IdleAfter(c, n + 1) PROVE IdleAfter(r, n)
  <2> SUFFICES ASSUME NEW k \in DOMAIN r.calls, k > n PROVE r.calls[k].op = "idle"
    BY DEF IdleAfter
  <2>1. k + 1 \in DOMAIN c.calls /\ k + 1 > n + 1 /\ r.calls[k] = c.calls[k + 1] BY RestShifts
  <2> QED BY <1>1, <2>1 DEF IdleAfter
<1>2. ASSUME StartComes(c, ln, 1) PROVE StartComes(r, ln, 0)
  <2>1. PICK i \in DOMAIN c.calls : i > 1 /\ StartsFront(c.calls[i], ln) /\ IdleAfter(c, i)
    BY <1>2 DEF StartComes
  <2>2. i - 1 \in DOMAIN r.calls /\ r.calls[i - 1] = c.calls[i] /\ i - 1 \in Nat /\ (i - 1) + 1 = i /\ i - 1 > 0
    BY <2>1, RestShifts
  <2>3. IdleAfter(r, i - 1) BY <1>1, <2>1, <2>2
  <2> QED BY <2>1, <2>2, <2>3 DEF StartComes
<1>3. FrontGlows(c, ln, 1) => FrontGlows(r, ln, 0)
  <2>1. IdleAfter(c, 1) => IdleAfter(r, 0) BY <1>1
  <2> QED BY <2>1 DEF FrontGlows, IsRest
<1>4. TurnComes(c, lv) => TurnComes(r, lv) BY RestShifts DEF TurnComes
<1> QED BY <1>2, <1>3, <1>4

LEMMA RestTurnComes ==
    ASSUME NEW c, NEW r, IsRest(c, r), NEW lv \in Seq(TurnType), TurnsInv(c, lv), TurnComes(c, lv),
           ByTurn(c.calls[1]), c.calls[1].by = "starter" \/ ~lv[1].first
    PROVE  TurnComes(r, Tail(lv))
<1>1. PICK j \in DOMAIN lv : lv[j].first /\ (j = 1 => \A i \in DOMAIN c.calls : c.calls[i].by # "starter")
  BY DEF TurnComes
<1>2. 1 \in DOMAIN c.calls BY RestShifts
<1>3. j # 1 BY <1>1, <1>2
<1>4. lv # <<>> BY <1>2 DEF TurnsInv
<1>5. j - 1 \in DOMAIN Tail(lv) /\ Tail(lv)[j - 1] = lv[j]
  <2>1. j \in Nat /\ j > 1 /\ j - 1 \in 1..(Len(lv) - 1) /\ (j - 1) + 1 = j BY <1>3, <1>4, TailIs
  <2> QED BY <1>4, <2>1, TailIs
<1>6. \A i \in DOMAIN r.calls : r.calls[i].by # "starter" BY RestTurns DEF ByTurn
<1> QED BY <1>1, <1>5, <1>6 DEF TurnComes
----------------------------------------
(* The blinking: who is lit, and a call that returns. *)

LEMMA EnteredLight ==
    ASSUME NEW c, NEW q \in CallType, NEW r, QueueInv(c), GoodCall(q), q.at = "waits", IsEntered(c, r, q),
           NEW g, NEW s, NEW u, NEW lit, LightInv(c, g, s, u, lit)
    PROVE  LightInv(r, g, s, u, lit)
<1>1. /\ \A d \in Blinkers : Shining(c, d) => Shining(r, d)
      /\ (r.keeper = c.keeper /\ r.blinking = c.blinking) \/ (r.keeper = NoKeeper /\ r.blinking = Nobody)
  BY EnteredQueue
<1>2. GlowInv(r, g, s) BY <1>1 DEF LightInv, GlowInv
<1>3. KeptInv(r, g, u, lit) BY <1>1 DEF LightInv, KeptInv
<1> QED BY <1>2, <1>3 DEF LightInv

(* The naming line whose front stays, or gets a front. *)
LEMMA LineMoves ==
    ASSUME NEW c, NEW ln, NEW lm, NEW lv, NEW ms, \A d : Foremost(ln, d) => Foremost(lm, d)
    PROVE  /\ AskedInv(c, ln, ms) => AskedInv(c, lm, ms)
           /\ RenewedInv(c, ln, lv, ms) => RenewedInv(c, lm, lv, ms)
           /\ FrontInv(c, ln, lv) => FrontInv(c, lm, lv)
<1>1. AskedInv(c, ln, ms) => AskedInv(c, lm, ms) BY DEF AskedInv
<1>2. RenewedInv(c, ln, lv, ms) => RenewedInv(c, lm, lv, ms) BY DEF RenewedInv
<1>3. FrontInv(c, ln, lv) => FrontInv(c, lm, lv)
  BY DEF FrontInv, StartComes, StartsFront, FrontGlows
<1> QED BY <1>1, <1>2, <1>3

LEMMA TurnIsOver ==
    ASSUME NEW ln, NEW lv, NEW cm, LineInv(ln, lv, cm), lv # <<>>
    PROVE  LineInv(ln, Tail(lv), cm) /\ Head(lv) = lv[1] /\ lv[1] \in TurnType
<1>1. lv \in Seq(TurnType) BY DEF LineInv
<1>2. /\ Tail(lv) \in Seq(TurnType) /\ Len(lv) \in Nat \ {0} /\ DOMAIN lv = 1..Len(lv)
      /\ DOMAIN Tail(lv) = 1..(Len(lv) - 1) /\ \A i \in 1..(Len(lv) - 1) : Tail(lv)[i] = lv[i + 1]
      /\ Head(lv) = lv[1] /\ lv[1] \in TurnType
  BY <1>1, TailIs
<1>3. \A j \in DOMAIN Tail(lv) : Tail(lv)[j] = lv[j + 1] /\ j + 1 \in DOMAIN lv BY <1>2
<1>4. \A j \in DOMAIN Tail(lv) : Tail(lv)[j].dev \notin cm /\ \A i \in DOMAIN ln : ln[i] # Tail(lv)[j].dev
  BY <1>3 DEF LineInv
<1> QED BY <1>2, <1>4 DEF LineInv

LEMMA StarterIs ==
    ASSUME NEW ln \in Seq(Blinkers), ln # <<>>
    PROVE  LET q == BlinkCall("start", Head(ln), TRUE, "starter")
           IN  /\ q \in CallType /\ GoodCall(q) /\ q.at = "waits" /\ q.op = "start" /\ q.by = "starter"
               /\ StartsFront(q, ln) /\ Foremost(ln, q.dev) /\ ByTurn(q)
<1>1. Head(ln) \in Blinkers /\ Head(ln) = ln[1] BY TailIs
<1> DEFINE q == BlinkCall("start", Head(ln), TRUE, "starter")
<1>2. /\ q \in CallType /\ q.op = "start" /\ q.dev = Head(ln) /\ q.renews /\ q.by = "starter" /\ q.at = "waits"
  BY <1>1 DEF BlinkCall, CallType
<1> HIDE DEF q
<1>3. q.dev = ln[1] /\ q.dev # Nobody BY <1>1, <1>2, IdentifyAssumption
<1>4. Foremost(ln, q.dev) BY <1>3 DEF Foremost
<1>5. GoodCall(q) /\ StartsFront(q, ln) /\ ByTurn(q)
  BY <1>2, <1>3, <1>4 DEF GoodCall, StartsFront, ByTurn
<1> QED BY <1>2, <1>4, <1>5 DEF q

(* What is left when a call returns, before its caller goes on. *)
LeftInv(c) ==
    /\ c.keeper.renews =>
          \/ Foremost(line, c.blinking) \/ c.blinking \in missed
          \/ \E k \in DOMAIN c.calls : k > 1 /\ c.calls[k].op # "idle"
          \/ ~ByTurn(c.calls[1]) /\ \E j \in DOMAIN leaving : leaving[j].dev = c.blinking
    /\ line # <<>> /\ ~away' => TurnComes(c, leaving) \/ StartComes(c, line, 1) \/ FrontGlows(c, line, 1)

LEMMA ReturnsKeeps ==
    ASSUME LineInv(line, leaving, coming), NEW c, IsDone(c), c.calls = coord.calls, c.calls # <<>>,
           TurnsInv(c, leaving), AskedInv(c, line, missed), LeftInv(c), Returns(c),
           UNCHANGED <<line, missed, coming>>,
           \A d \in Blinkers \ stray' : glow'[d] > 0 => d = c.blinking,
           KeptInv(c, glow', unanswered', litFor')
    PROVE  /\ LineInv(line, leaving, coming)' /\ CoordInv(coord, line, leaving, missed, away)'
           /\ LightInv(coord, glow, stray, unanswered, litFor)'
<1> DEFINE rest == [c EXCEPT !.calls = Tail(@)]
           q == BlinkCall("start", Head(line), TRUE, "starter")
           f == c.calls[1]
           handsOn == f.by = "stopper" /\ Head(leaving).first /\ line # <<>>
<1>1. c \in CoordType /\ c.calls \in Seq(CallType) /\ First = f /\ leaving \in Seq(TurnType) /\ line \in Seq(Blinkers)
  <2>1. c \in CoordType /\ c.calls \in Seq(CallType) BY DEF IsDone, CoordType
  <2>2. First = f BY <2>1, TailIs DEF First
  <2> QED BY <2>1, <2>2 DEF LineInv
<1>2. IsRest(c, rest) BY <1>1, RestIs
<1>3. IF handsOn THEN coord' = Entered(rest, q) /\ leaving' = leaving
      ELSE coord' = rest /\ leaving' = IF f.by \in {"stopper", "starter"} THEN Tail(leaving) ELSE leaving
  BY <1>1 DEF Returns
<1> HIDE DEF rest
<1>4. /\ QueueInv(rest) /\ \A d \in Blinkers : d = c.blinking => Shining(rest, d)
  BY <1>2, RestQueue
<1>5. LightInv(rest, glow', stray', unanswered', litFor')
  <2>1. GlowInv(rest, glow', stray') BY <1>4 DEF GlowInv
  <2>2. KeptInv(rest, glow', unanswered', litFor') BY <1>2 DEF KeptInv, IsRest
  <2> QED BY <2>1, <2>2 DEF LightInv
<1>6. /\ AskedInv(rest, line, missed) /\ TurnsInv(rest, leaving)
      /\ ByTurn(f) => /\ \A i \in DOMAIN rest.calls : ~ByTurn(rest.calls[i])
                    /\ TurnsInv(rest, Tail(leaving))
  BY <1>2, RestAsked, RestTurns
<1>7. 1 \in DOMAIN c.calls BY <1>2, RestShifts
<1>8. ByTurn(f) => leaving # <<>> /\ Head(leaving) = leaving[1] BY <1>7, TurnIsOver DEF TurnsInv
<1>10. ASSUME NEW lv, ByTurn(f) \/ lv = leaving PROVE RenewedInv(rest, line, lv, missed)
  <2> SUFFICES ASSUME rest.keeper.renews
               PROVE  \/ Foremost(line, rest.blinking) \/ rest.blinking \in missed
                      \/ \E k \in DOMAIN rest.calls : rest.calls[k].op # "idle"
                      \/ \E j \in DOMAIN lv : lv[j].dev = rest.blinking
    BY DEF RenewedInv
  <2>1. rest.keeper = c.keeper /\ rest.blinking = c.blinking BY <1>2 DEF IsRest
  <2>2. \/ Foremost(line, c.blinking) \/ c.blinking \in missed
        \/ \E k \in DOMAIN c.calls : k > 1 /\ c.calls[k].op # "idle"
        \/ ~ByTurn(c.calls[1]) /\ \E j \in DOMAIN leaving : leaving[j].dev = c.blinking
    BY <2>1 DEF LeftInv
  <2>3. ASSUME NEW k \in DOMAIN c.calls, k > 1, c.calls[k].op # "idle"
        PROVE  k - 1 \in DOMAIN rest.calls /\ rest.calls[k - 1].op # "idle"
    BY <1>2, <2>3, RestShifts
  <2> QED BY <1>10, <2>1, <2>2, <2>3
<1>11. CASE handsOn
  <2>1. coord' = Entered(rest, q) /\ leaving' = leaving /\ ByTurn(f) BY <1>3, <1>11 DEF ByTurn
  <2>2. /\ q \in CallType /\ GoodCall(q) /\ q.at = "waits" /\ q.op = "start"
        /\ StartsFront(q, line) /\ Foremost(line, q.dev)
    BY <1>1, <1>11, StarterIs
  <2> HIDE DEF q
  <2>3. rest \in CoordType BY <1>2 DEF IsRest
  <2>4. IsEntered(rest, coord', q) BY <2>1, <2>2, <2>3, EnteredIs
  <2>5. QueueInv(coord') BY <1>4, <2>2, <2>4, EnteredQueue
  <2>6. LightInv(coord', glow', stray', unanswered', litFor')
    BY <1>4, <1>5, <2>2, <2>4, EnteredLight
  <2>7. TurnsInv(coord', leaving) BY <1>6, <1>8, <2>1, <2>3, <2>4, EnteredTurns
  <2>8. AskedInv(coord', line, missed) BY <1>6, <2>2, <2>3, <2>4, EnteredAsked
  <2>9. RenewedInv(coord', line, leaving, missed)
    <3>1. RenewedInv(rest, line, leaving, missed) BY <1>10
    <3> QED BY <2>2, <2>3, <2>4, <3>1, EnteredRenewed
  <2>10. FrontInv(coord', line, leaving) BY <1>4, <2>2, <2>4, EnteredFront DEF FrontInv
  <2> QED BY <2>1, <2>5, <2>6, <2>7, <2>8, <2>9, <2>10 DEF CoordInv
<1>12. CASE ~handsOn
  <2>1. coord' = rest /\ leaving' = IF ByTurn(f) THEN Tail(leaving) ELSE leaving
    BY <1>3, <1>12 DEF ByTurn
  <2>2. LineInv(line, leaving', coming) BY <1>8, <2>1, TurnIsOver
  <2>3. TurnsInv(rest, leaving') /\ RenewedInv(rest, line, leaving', missed) BY <1>6, <1>10, <2>1
  <2>4. ASSUME line # <<>>, ~away' PROVE FrontInv(rest, line, leaving')
    <3>1. TurnComes(c, leaving) \/ StartComes(c, line, 1) \/ FrontGlows(c, line, 1)
      BY <2>4 DEF LeftInv
    <3>2. CASE StartComes(c, line, 1) \/ FrontGlows(c, line, 1)
      BY <1>2, <3>2, RestFront DEF FrontInv
    <3>3. CASE TurnComes(c, leaving) /\ ~ByTurn(f) BY <1>2, <2>1, <3>3, RestFront DEF FrontInv
    <3>4. CASE TurnComes(c, leaving) /\ ByTurn(f)
      <4>1. f.by = "starter" \/ ~leaving[1].first BY <1>8, <1>12, <2>4, <3>4 DEF ByTurn
      <4>2. TurnComes(rest, Tail(leaving)) BY <1>1, <1>2, <3>4, <4>1, RestTurnComes
      <4> QED BY <2>1, <3>4, <4>2 DEF FrontInv
    <3> QED BY <3>1, <3>2, <3>3, <3>4
  <2> QED BY <1>4, <1>5, <1>6, <2>1, <2>2, <2>3, <2>4 DEF CoordInv
<1> QED BY <1>11, <1>12
----------------------------------------
(* The blinking: whoever has the lock acts. *)

LEMMA FirstIs ==
    ASSUME IdentifyInv, coord.calls # <<>>
    PROVE  /\ First = coord.calls[1] /\ 1 \in DOMAIN coord.calls /\ First \in CallType /\ GoodCall(First)
           /\ IsDone(coord) /\ coord \in CoordType /\ coord.calls \in Seq(CallType)
           /\ Len(coord.calls) \in Nat /\ DOMAIN coord.calls = 1..Len(coord.calls)
           /\ First.at = "stops" => First.last \in Blinkers
           /\ First.at = "lights" => First.op # "stop" /\ First.dev \in Blinkers
           /\ First.at # "waits" => coord.blinking = Nobody /\ ~coord.keeper.renews
           /\ \A d \in Blinkers \ stray : glow[d] > 0 =>
                \/ d = coord.blinking \/ (First.at = "stops" /\ d = First.last)
                \/ (First.at = "lights" /\ d = First.dev)
<1>1. QueueInv(coord) /\ GlowInv(coord, glow, stray) BY DEF IdentifyInv, CoordInv, LightInv
<1>2. coord \in CoordType /\ coord.calls \in Seq(CallType) BY <1>1 DEF QueueInv, CoordType
<1>3. /\ First = coord.calls[1] /\ 1 \in DOMAIN coord.calls /\ First \in CallType
      /\ Len(coord.calls) \in Nat /\ DOMAIN coord.calls = 1..Len(coord.calls)
  BY <1>2, TailIs DEF First
<1>4. IsDone(coord) BY <1>1 DEF QueueInv, IsDone
<1>5. First.at = "stops" => First.last # Nobody BY <1>1, <1>3 DEF QueueInv
<1>6. First.at = "stops" => First.last \in Blinkers BY <1>3, <1>5 DEF CallType
<1>7. First.at = "lights" => First.op # "stop" BY <1>1, <1>3 DEF QueueInv
<1>12. GoodCall(First) BY <1>1, <1>3 DEF QueueInv
<1>8. First.at = "lights" => First.dev \in Blinkers BY <1>3, <1>7, <1>12 DEF GoodCall, CallType
<1>9. First.at # "waits" => coord.blinking = Nobody BY <1>1, <1>3 DEF QueueInv, Free
<1>10. coord.keeper.renews => coord.blinking # Nobody BY <1>1 DEF QueueInv, KeeperFits
<1>11. \A d \in Blinkers \ stray : glow[d] > 0 =>
              \/ d = coord.blinking \/ (First.at = "stops" /\ d = First.last)
              \/ (First.at = "lights" /\ d = First.dev)
  BY <1>1, <1>3 DEF GlowInv, Shining
<1> QED BY ONLY <1>2, <1>3, <1>4, <1>6, <1>7, <1>8, <1>9, <1>10, <1>11, <1>12

LEMMA InvParts ==
    ASSUME IdentifyInv
    PROVE  /\ IdentifyTyped /\ LineInv(line, leaving, coming) /\ QueueInv(coord) /\ TurnsInv(coord, leaving)
           /\ AskedInv(coord, line, missed) /\ RenewedInv(coord, line, leaving, missed)
           /\ line # <<>> /\ ~away => FrontInv(coord, line, leaving)
           /\ GlowInv(coord, glow, stray) /\ KeptInv(coord, glow, unanswered, litFor)
           /\ LightInv(coord, glow, stray, unanswered, litFor)
  BY DEF IdentifyInv, CoordInv, LightInv

(* What is promised to the front when the first call was no start. *)
LEMMA FrontLeft ==
    ASSUME NEW c, NEW ln, NEW lv, c.calls[1].op # "start", FrontInv(c, ln, lv), 1 \in DOMAIN c.calls,
           \A k \in DOMAIN c.calls : k \in Nat /\ k >= 1
    PROVE  TurnComes(c, lv) \/ StartComes(c, ln, 1) \/ FrontGlows(c, ln, 1)
<1>1. StartComes(c, ln, 0) => StartComes(c, ln, 1)
  <2> SUFFICES ASSUME NEW i \in DOMAIN c.calls, StartsFront(c.calls[i], ln), IdleAfter(c, i)
               PROVE  StartComes(c, ln, 1)
    BY DEF StartComes
  <2>1. i # 1 /\ i \in Nat /\ i >= 1 BY DEF StartsFront
  <2>2. i > 1 BY <2>1
  <2> QED BY <2>2 DEF StartComes
<1>2. FrontGlows(c, ln, 0) => FrontGlows(c, ln, 1)
  <2>1. IdleAfter(c, 0) => IdleAfter(c, 1) BY DEF IdleAfter
  <2> QED BY <2>1 DEF FrontGlows
<1> QED BY <1>1, <1>2 DEF FrontInv

LEMMA FirstReturns ==
    ASSUME IdentifyInv, coord.calls # <<>>, Returns(coord), First.op # "start",
           UNCHANGED <<line, missed, coming>>, away' = away,
           coord.keeper.renews => First.op = "idle",
           \A d \in Blinkers \ stray' : glow'[d] > 0 => d = coord.blinking,
           KeptInv(coord, glow', unanswered', litFor'), IdentifyTyped'
    PROVE  IdentifyInv'
<1>1. /\ First = coord.calls[1] /\ 1 \in DOMAIN coord.calls /\ GoodCall(First) /\ IsDone(coord)
      /\ Len(coord.calls) \in Nat /\ DOMAIN coord.calls = 1..Len(coord.calls)
  BY FirstIs
<1>2. \A k \in DOMAIN coord.calls : k \in Nat /\ k >= 1 BY <1>1
<1>3. LeftInv(coord)
  <2>1. ASSUME line # <<>>, ~away'
        PROVE  TurnComes(coord, leaving) \/ StartComes(coord, line, 1) \/ FrontGlows(coord, line, 1)
    BY <1>1, <1>2, <2>1, InvParts, FrontLeft
  <2>2. ASSUME coord.keeper.renews
        PROVE  \/ Foremost(line, coord.blinking) \/ coord.blinking \in missed
               \/ \E k \in DOMAIN coord.calls : k > 1 /\ coord.calls[k].op # "idle"
               \/ ~ByTurn(coord.calls[1]) /\ \E j \in DOMAIN leaving : leaving[j].dev = coord.blinking
    <3>1. First.op = "idle" /\ ~ByTurn(First) BY <1>1, <2>2 DEF GoodCall, ByTurn
    <3>2. \A k \in DOMAIN coord.calls : coord.calls[k].op # "idle" => k > 1 BY <1>1, <1>2, <3>1
    <3> QED BY <1>1, <2>2, <3>1, <3>2, InvParts DEF RenewedInv
  <2> QED BY <2>1, <2>2 DEF LeftInv
<1>4. /\ LineInv(line, leaving, coming)' /\ CoordInv(coord, line, leaving, missed, away)'
      /\ LightInv(coord, glow, stray, unanswered, litFor)'
  BY <1>1, <1>3, InvParts, ReturnsKeeps
<1> QED BY <1>4 DEF IdentifyInv

LEMMA LockTurnKeeps == ASSUME IdentifyInv, LockTurn PROVE IdentifyInv'
<1>1. /\ coord.calls # <<>> /\ First.at = "waits"
      /\ UNCHANGED <<litFor, line, coming, glow, unanswered, stray, missed, away>>
  BY DEF LockTurn, Stage
<1>2. IdentifyTyped' BY <1>1, InvParts DEF IdentifyTyped
<1>3. /\ First = coord.calls[1] /\ 1 \in DOMAIN coord.calls /\ GoodCall(First) /\ First \in CallType
      /\ coord \in CoordType
      /\ \A d \in Blinkers \ stray : glow[d] > 0 => d = coord.blinking
  BY <1>1, FirstIs
<1>4. CASE NothingToDo(coord, First)
  <2>1. Returns(coord) BY <1>4 DEF LockTurn
  <2>2. First.op # "start" /\ (coord.keeper.renews => First.op = "idle")
    BY <1>4, InvParts DEF NothingToDo, QueueInv, KeeperFits
  <2>3. KeptInv(coord, glow', unanswered', litFor') BY <1>1, InvParts
  <2> QED BY <1>1, <1>2, <1>3, <2>1, <2>2, <2>3, FirstReturns
<1>5. CASE ~NothingToDo(coord, First)
  <2>1. coord' = Begun(coord) /\ leaving' = leaving BY <1>5 DEF LockTurn
  <2>2. IsBegun(coord, coord') BY <1>1, <1>3, <2>1, BegunIs
  <2>3. SameCalls(coord, coord') BY <1>3, <2>2 DEF IsBegun, SameCalls, SameCall
  <2>4. \A i \in DOMAIN coord'.calls : GoodCall(coord'.calls[i])
    <3>1. \A i \in DOMAIN coord.calls : GoodCall(coord.calls[i]) BY InvParts DEF QueueInv
    <3> QED BY <2>3, <3>1 DEF SameCalls, SameCall, GoodCall
  <2>5. \A i \in DOMAIN coord'.calls : i > 1 => coord'.calls[i].at = "waits"
    BY <2>2, InvParts DEF QueueInv, IsBegun
  <2>6. coord'.calls[1].at = "stops" => coord'.calls[1].last # Nobody BY <2>2 DEF IsBegun, BegunAt
  <2>7. coord'.calls[1].at = "lights" => coord'.calls[1].op # "stop"
    BY <1>3, <1>5, <2>2 DEF IsBegun, BegunAt, SameCall, NothingToDo, GoodCall
  <2>8. QueueInv(coord')
    <3>1. \A i \in DOMAIN coord'.calls : i = 1 \/ i > 1
      <4>1. Len(coord.calls) \in Nat /\ DOMAIN coord.calls = 1..Len(coord.calls) BY <1>1, FirstIs
      <4> QED BY <2>3, <4>1 DEF SameCalls
    <3>2. \A i \in DOMAIN coord'.calls : i > 1 => coord'.calls[i].at \notin {"stops", "lights"}
      BY <2>5
    <3>3. /\ coord'.calls[1].at = "stops" => coord'.calls[1].last # Nobody
          /\ coord'.calls[1].at = "lights" => coord'.calls[1].op # "stop"
      BY <2>6, <2>7
    <3>4. KeeperFits(coord') /\ coord' \in CoordType /\ coord'.blinking = Nobody
      BY <2>2, NoKeeperIs DEF IsBegun, KeeperFits
    <3>5. \A i \in DOMAIN coord'.calls :
            /\ coord'.calls[i].at = "stops" => coord'.calls[i].last # Nobody
            /\ coord'.calls[i].at = "lights" => coord'.calls[i].op # "stop"
      BY <3>1, <3>2, <3>3
    <3> QED BY <2>4, <2>5, <3>4, <3>5 DEF QueueInv
  <2>9. LightInv(coord', glow, stray, unanswered, litFor)
    <3>1. \A d \in Blinkers : d = coord.blinking => Shining(coord', d)
      BY <2>2, IdentifyAssumption DEF IsBegun, BegunAt, Shining, SameCall
    <3>2. GlowInv(coord', glow, stray) BY <1>3, <3>1 DEF GlowInv
    <3>3. KeptInv(coord', glow, unanswered, litFor) BY <2>2 DEF IsBegun, KeptInv
    <3> QED BY <3>2, <3>3 DEF LightInv
  <2>10. ~FrontGlows(coord, line, 0)
    <3> SUFFICES ASSUME FrontGlows(coord, line, 0) PROVE FALSE OBVIOUS
    <3>1. coord.keeper.renews /\ IdleAfter(coord, 0) BY DEF FrontGlows
    <3>2. First.op = "idle" /\ coord.blinking # Nobody
      BY <1>3, <3>1, InvParts DEF IdleAfter, QueueInv, KeeperFits
    <3> QED BY <1>5, <3>2 DEF NothingToDo
  <2>11. line # <<>> /\ ~away => FrontInv(coord', line, leaving)
    BY <2>3, <2>10, InvParts, SameCallsKeep DEF FrontInv
  <2>12. TurnsInv(coord', leaving) /\ AskedInv(coord', line, missed)
    BY <2>3, InvParts, SameCallsKeep
  <2>13. RenewedInv(coord', line, leaving, missed) BY <2>2, NoKeeperIs DEF IsBegun, RenewedInv
  <2>14. CoordInv(coord', line, leaving, missed, away) BY <2>8, <2>11, <2>12, <2>13 DEF CoordInv
  <2> QED BY <1>1, <1>2, <2>1, <2>9, <2>14, InvParts DEF IdentifyInv
<1> QED BY <1>4, <1>5
----------------------------------------
(* The blinking: a stop and a start are answered, or are not. *)

(* The device that blinked was told to stop. *)
LEMMA StoppedKeeps ==
    ASSUME IdentifyInv, Stage("stops"), Stopped, IdentifyTyped',
           UNCHANGED <<line, missed, coming, away, litFor, unanswered>>,
           \A d \in Blinkers \ stray' : ~(glow'[d] > 0)
    PROVE  IdentifyInv'
<1>1. /\ First = coord.calls[1] /\ 1 \in DOMAIN coord.calls /\ GoodCall(First) /\ First \in CallType
      /\ coord \in CoordType /\ coord.calls \in Seq(CallType)
      /\ coord.calls # <<>> /\ First.at = "stops" /\ coord.blinking = Nobody /\ ~coord.keeper.renews
      /\ Len(coord.calls) \in Nat /\ DOMAIN coord.calls = 1..Len(coord.calls)
  BY FirstIs DEF Stage
<1>2. CASE First.op = "stop"
  <2>1. Returns(coord) BY <1>2 DEF Stopped
  <2>2. KeptInv(coord, glow', unanswered', litFor') BY <1>1 DEF KeptInv
  <2> QED BY <1>1, <1>2, <2>1, <2>2, FirstReturns
<1>3. CASE First.op # "stop"
  <2> DEFINE x == [First EXCEPT !.at = "lights", !.late = FALSE]
             t == [coord.calls EXCEPT ![1] = x]
             r == [coord EXCEPT !.calls = t]
  <2>1. x \in CallType /\ SameCall(x, First) /\ x.at = "lights" BY <1>1 DEF CallType, SameCall
  <2>2. coord' = [coord EXCEPT !.calls[1].at = "lights", !.calls[1].late = FALSE] /\ leaving' = leaving
    BY <1>3 DEF Stopped
  <2>3. coord' = r BY <1>1, <2>2
  <2> HIDE DEF x
  <2>4. /\ t \in Seq(CallType) /\ t # <<>> /\ DOMAIN t = DOMAIN coord.calls
        /\ t[1] = x /\ \A i \in DOMAIN coord.calls : i # 1 => t[i] = coord.calls[i]
    BY <1>1, <2>1, FirstChanged
  <2> HIDE DEF t
  <2>5. r \in CoordType /\ r.blinking = Nobody /\ r.keeper = coord.keeper /\ r.calls = t
    BY <1>1, <2>4 DEF CoordType
  <2> HIDE DEF r
  <2>6. SameCalls(coord, r)
    <3>1. \A i \in DOMAIN coord.calls : SameCall(coord.calls[i], coord.calls[i]) BY DEF SameCall
    <3> QED BY <1>1, <2>1, <2>4, <2>5, <3>1 DEF SameCalls
  <2>7. QueueInv(r)
    <3>1. \A i \in DOMAIN r.calls : GoodCall(r.calls[i])
      <4>1. \A i \in DOMAIN coord.calls : GoodCall(coord.calls[i]) BY InvParts DEF QueueInv
      <4> QED BY <2>6, <4>1 DEF SameCalls, SameCall, GoodCall
    <3>2. \A i \in DOMAIN r.calls : i > 1 => r.calls[i].at = "waits"
      BY <2>4, <2>5, InvParts DEF QueueInv
    <3>3. \A i \in DOMAIN r.calls : i = 1 \/ i > 1 BY <1>1, <2>4, <2>5
    <3>4. r.calls[1].at = "lights" /\ r.calls[1].op # "stop"
      BY <1>3, <2>1, <2>4, <2>5 DEF SameCall
    <3>5. KeeperFits(r) BY <1>1, <2>5, InvParts DEF QueueInv, KeeperFits
    <3>6. \A i \in DOMAIN r.calls : /\ r.calls[i].at = "stops" => r.calls[i].last # Nobody
                                    /\ r.calls[i].at = "lights" => r.calls[i].op # "stop"
      BY <3>2, <3>3, <3>4
    <3> QED BY <2>5, <3>1, <3>2, <3>5, <3>6 DEF QueueInv
  <2>8. LightInv(r, glow', stray', unanswered', litFor') BY <2>5 DEF LightInv, GlowInv, KeptInv
  <2>9. ~FrontGlows(coord, line, 0) BY <1>1 DEF FrontGlows
  <2>10. line # <<>> /\ ~away => FrontInv(r, line, leaving)
    BY <2>6, <2>9, InvParts, SameCallsKeep DEF FrontInv
  <2>11. TurnsInv(r, leaving) /\ AskedInv(r, line, missed) BY <2>6, InvParts, SameCallsKeep
  <2>12. RenewedInv(r, line, leaving, missed) BY <1>1, <2>5 DEF RenewedInv
  <2>13. CoordInv(r, line, leaving, missed, away) BY <2>7, <2>10, <2>11, <2>12 DEF CoordInv
  <2> QED BY <2>2, <2>3, <2>8, <2>13, InvParts DEF IdentifyInv
<1> QED BY <1>2, <1>3

LEMMA StopKeeps == ASSUME IdentifyInv, StopAnswered \/ StopFails PROVE IdentifyInv'
<1>1. /\ Stage("stops") /\ Stopped
      /\ UNCHANGED <<line, missed, coming, away, litFor, unanswered>>
      /\ \/ glow' = [glow EXCEPT ![First.last] = 0] /\ stray' = stray \ {First.last}
         \/ glow' = glow /\ stray' = IF glow[First.last] > 0 THEN stray \cup {First.last} ELSE stray
  BY DEF StopAnswered, StopFails
<1>2. /\ First.at = "stops" /\ First.last \in Blinkers /\ coord.blinking = Nobody
      /\ \A d \in Blinkers \ stray : glow[d] > 0 => d = coord.blinking \/ d = First.last
  BY <1>1, FirstIs DEF Stage
<1>3. glow \in [Blinkers -> 0..BlinkTicks] BY InvParts DEF IdentifyTyped
<1>4. glow' \in [Blinkers -> 0..BlinkTicks] BY <1>1, <1>2, <1>3, IdentifyAssumption
<1>5. IdentifyTyped' BY <1>1, <1>4, InvParts DEF IdentifyTyped
<1>6. \A d \in Blinkers \ stray' : ~(glow'[d] > 0)
  <2> SUFFICES ASSUME NEW d \in Blinkers \ stray', glow'[d] > 0 PROVE FALSE OBVIOUS
  <2>1. d # Nobody BY IdentifyAssumption
  <2>2. CASE glow' = [glow EXCEPT ![First.last] = 0] /\ stray' = stray \ {First.last}
    <3>1. d # First.last BY <1>2, <1>3, <2>2
    <3> QED BY <1>2, <1>3, <2>1, <2>2, <3>1
  <2>3. CASE glow' = glow /\ stray' = IF glow[First.last] > 0 THEN stray \cup {First.last} ELSE stray
    BY <1>2, <2>1, <2>3
  <2> QED BY <1>1, <2>2, <2>3
<1> QED BY <1>1, <1>5, <1>6, StoppedKeeps

LEMMA LengthIs ==
    ASSUME NEW q
    PROVE  Length(q) \in 1..BlinkTicks /\ (q.op = "start" => Length(q) = BlinkTicks)
  BY IdentifyAssumption DEF Length

LEMMA LightAnsweredKeeps == ASSUME IdentifyInv, LightAnswered PROVE IdentifyInv'
<1> DEFINE n == Length(First)
           left == IF First.renews THEN 1 ELSE n
           k == [NoKeeper EXCEPT !.dev = First.dev, !.at = "sleeps", !.renews = First.renews, !.left = left]
           c == [coord EXCEPT !.blinking = First.dev, !.keeper = k]
<1>1. /\ Stage("lights") /\ glow' = [glow EXCEPT ![First.dev] = n] /\ litFor' = n /\ Returns(c)
      /\ unanswered' = 0 /\ stray' = stray \ {First.dev}
      /\ UNCHANGED <<line, coming, missed, away, blinkFaults, presses>>
  BY DEF LightAnswered
<1>2. /\ First = coord.calls[1] /\ 1 \in DOMAIN coord.calls /\ GoodCall(First) /\ First \in CallType
      /\ coord \in CoordType /\ coord.calls \in Seq(CallType) /\ IsDone(coord)
      /\ coord.calls # <<>> /\ First.at = "lights" /\ coord.blinking = Nobody /\ ~coord.keeper.renews
      /\ First.dev \in Blinkers /\ First.op # "stop"
      /\ Len(coord.calls) \in Nat /\ DOMAIN coord.calls = 1..Len(coord.calls)
      /\ \A d \in Blinkers \ stray : glow[d] > 0 => d = coord.blinking \/ d = First.dev
  BY <1>1, FirstIs DEF Stage
<1>3. n \in 1..BlinkTicks /\ (First.renews => n = BlinkTicks) /\ left \in Nat /\ First.renews \in BOOLEAN
  <2>1. n \in 1..BlinkTicks /\ (First.renews => n = BlinkTicks) BY <1>2, LengthIs DEF GoodCall
  <2>2. First.renews \in BOOLEAN BY <1>2 DEF CallType
  <2> HIDE DEF n
  <2> QED BY <2>1, <2>2, IdentifyAssumption
<1>4. First.renews => left = 1 OBVIOUS
<1>5. ~First.renews => left = n OBVIOUS
<1> HIDE DEF n, left
<1>6. /\ k \in KeeperType /\ k.dev = First.dev /\ k.at = "sleeps" /\ (k.renews <=> First.renews) /\ k.left = left
  BY <1>2, <1>3 DEF NoKeeper, KeeperType
<1> HIDE DEF k
<1>7. c \in CoordType /\ c.blinking = First.dev /\ c.keeper = k /\ c.calls = coord.calls
  BY <1>2, <1>6 DEF CoordType
<1> HIDE DEF c
<1>8. First.dev # Nobody BY <1>2, IdentifyAssumption
<1>9. IsDone(c)
  <2>1. KeeperFits(c) BY <1>6, <1>7, <1>8 DEF KeeperFits
  <2> QED BY <1>2, <1>7, <2>1 DEF IsDone
<1>10. glow \in [Blinkers -> 0..BlinkTicks] /\ unanswered \in Nat /\ litFor \in 0..BlinkTicks
  BY InvParts DEF IdentifyTyped
<1>11. glow' \in [Blinkers -> 0..BlinkTicks] /\ glow'[First.dev] = n
       /\ \A d \in Blinkers : d # First.dev => glow'[d] = glow[d]
  <2>1. n \in 0..BlinkTicks BY <1>3
  <2> QED BY <1>1, <1>2, <1>10, <2>1
<1>12. IdentifyTyped'
  <2>1. n \in 0..BlinkTicks BY <1>3
  <2> QED BY <1>1, <1>11, <2>1, InvParts DEF IdentifyTyped
<1>13. KeptInv(c, glow', unanswered', litFor')
  BY <1>1, <1>3, <1>4, <1>5, <1>6, <1>7, <1>11, IdentifyAssumption DEF KeptInv
<1>14. \A d \in Blinkers \ stray' : glow'[d] > 0 => d = c.blinking
  BY <1>1, <1>2, <1>7, <1>11, IdentifyAssumption
<1>15. TurnsInv(c, leaving) /\ AskedInv(c, line, missed) BY <1>7, InvParts DEF TurnsInv, AskedInv
<1>16. \A i \in DOMAIN coord.calls : i = 1 \/ i > 1 BY <1>2
<1>17. LeftInv(c)
  <2>1. ASSUME c.keeper.renews
        PROVE  \/ Foremost(line, c.blinking) \/ c.blinking \in missed
               \/ \E j \in DOMAIN c.calls : j > 1 /\ c.calls[j].op # "idle"
    BY <1>2, <1>6, <1>7, <1>15, <2>1 DEF AskedInv
  <2>2. ASSUME line # <<>>, ~away'
        PROVE  TurnComes(c, leaving) \/ StartComes(c, line, 1) \/ FrontGlows(c, line, 1)
    <3>1. FrontInv(coord, line, leaving) BY <1>1, <2>2, InvParts
    <3>2. ~FrontGlows(coord, line, 0) BY <1>2 DEF FrontGlows
    <3>3. TurnComes(coord, leaving) => TurnComes(c, leaving) BY <1>7 DEF TurnComes
    <3>4. ASSUME StartComes(coord, line, 0) PROVE StartComes(c, line, 1) \/ FrontGlows(c, line, 1)
      <4>1. PICK i \in DOMAIN coord.calls : StartsFront(coord.calls[i], line) /\ IdleAfter(coord, i)
        BY <3>4 DEF StartComes
      <4>2. IdleAfter(c, i) BY <1>7, <4>1 DEF IdleAfter
      <4>3. CASE i = 1 BY <1>2, <1>6, <1>7, <4>1, <4>2, <4>3 DEF FrontGlows, StartsFront
      <4>4. CASE i > 1 BY <1>7, <4>1, <4>2, <4>4 DEF StartComes
      <4> QED BY <1>16, <4>3, <4>4
    <3> QED BY <3>1, <3>2, <3>3, <3>4 DEF FrontInv
  <2> QED BY <2>1, <2>2 DEF LeftInv
<1>18. /\ LineInv(line, leaving, coming)' /\ CoordInv(coord, line, leaving, missed, away)'
       /\ LightInv(coord, glow, stray, unanswered, litFor)'
  <2>1. Returns(c) /\ c.calls = coord.calls /\ c.calls # <<>> /\ UNCHANGED <<line, missed, coming>>
    BY <1>1, <1>2, <1>7
  <2> QED BY <1>9, <1>13, <1>14, <1>15, <1>17, <2>1, InvParts, ReturnsKeeps
<1> QED BY <1>12, <1>18 DEF IdentifyInv

LEMMA LightFailsKeeps == ASSUME IdentifyInv, LightFails PROVE IdentifyInv'
<1>1. /\ Stage("lights")
      /\ glow' \in {glow, [glow EXCEPT ![First.dev] = Length(First)]}
      /\ stray' = IF glow'[First.dev] > 0 THEN stray \cup {First.dev} ELSE stray
      /\ away' = TRUE /\ Returns(coord)
      /\ UNCHANGED <<litFor, line, coming, unanswered, missed, presses>>
  BY DEF LightFails
<1>2. /\ First = coord.calls[1] /\ 1 \in DOMAIN coord.calls /\ IsDone(coord)
      /\ coord.calls # <<>> /\ First.at = "lights" /\ coord.blinking = Nobody /\ ~coord.keeper.renews
      /\ First.dev \in Blinkers
      /\ \A d \in Blinkers \ stray : glow[d] > 0 => d = coord.blinking \/ d = First.dev
  BY <1>1, FirstIs DEF Stage
<1>3. glow \in [Blinkers -> 0..BlinkTicks] /\ Length(First) \in 0..BlinkTicks
  BY LengthIs, InvParts DEF IdentifyTyped
<1>4. glow' \in [Blinkers -> 0..BlinkTicks] /\ \A d \in Blinkers : d # First.dev => glow'[d] = glow[d]
  BY <1>1, <1>2, <1>3
<1>5. IdentifyTyped' BY <1>1, <1>4, InvParts DEF IdentifyTyped
<1>6. \A d \in Blinkers \ stray' : glow'[d] > 0 => d = coord.blinking BY <1>1, <1>2, <1>4
<1>7. KeptInv(coord, glow', unanswered', litFor') BY <1>2 DEF KeptInv
<1>8. LeftInv(coord) BY <1>1, <1>2 DEF LeftInv
<1>9. /\ LineInv(line, leaving, coming)' /\ CoordInv(coord, line, leaving, missed, away)'
      /\ LightInv(coord, glow, stray, unanswered, litFor)'
  BY <1>1, <1>2, <1>6, <1>7, <1>8, InvParts, ReturnsKeeps
<1> QED BY <1>5, <1>9 DEF IdentifyInv
----------------------------------------
(* The blinking: the keeper renews. *)

(* A coordinator that asks for the same, and looks after the same device. *)
LEMMA CoordMoves ==
    ASSUME NEW c, NEW ln, NEW lv, NEW ms, NEW aw, CoordInv(c, ln, lv, ms, aw),
           NEW r \in CoordType, r.blinking = c.blinking, r.keeper.dev = c.keeper.dev,
           r.keeper.renews <=> c.keeper.renews, r.keeper.at = "none" <=> c.keeper.at = "none",
           r.keeper.at = "calls" => r.keeper.renews, SameCalls(c, r),
           \A i \in DOMAIN c.calls : r.calls[i].at = c.calls[i].at /\ r.calls[i].last = c.calls[i].last
    PROVE  /\ CoordInv(r, ln, lv, ms, aw)
           /\ \A d \in Blinkers : Shining(c, d) => Shining(r, d)
<1>1. /\ QueueInv(c) /\ TurnsInv(c, lv) /\ AskedInv(c, ln, ms) /\ RenewedInv(c, ln, lv, ms)
      /\ ln # <<>> /\ ~aw => FrontInv(c, ln, lv)
  BY DEF CoordInv
<1>2. \A i \in DOMAIN c.calls : r.calls[i].op = c.calls[i].op /\ r.calls[i].dev = c.calls[i].dev
  BY DEF SameCalls, SameCall
<1>3. DOMAIN r.calls = DOMAIN c.calls /\ c.calls \in Seq(CallType) /\ r.calls \in Seq(CallType)
  BY <1>1 DEF SameCalls, QueueInv, CoordType
<1>4. /\ r.calls = <<>> <=> c.calls = <<>>
      /\ c.calls # <<>> => 1 \in DOMAIN c.calls
  <2>1. Len(r.calls) = Len(c.calls) BY <1>3
  <2> QED BY <1>3, <2>1
<1>5. Free(r) <=> Free(c) BY <1>4 DEF Free
<1>6. \A i \in DOMAIN r.calls : GoodCall(r.calls[i])
  <2>1. \A i \in DOMAIN c.calls : GoodCall(c.calls[i]) BY <1>1 DEF QueueInv
  <2> QED BY <2>1 DEF SameCalls, SameCall, GoodCall
<1>7. KeeperFits(r) BY <1>1 DEF QueueInv, KeeperFits
<1>8. QueueInv(r) BY <1>1, <1>2, <1>3, <1>5, <1>6, <1>7 DEF QueueInv
<1>9. TurnsInv(r, lv) /\ AskedInv(r, ln, ms) BY <1>1, SameCallsKeep
<1>10. RenewedInv(r, ln, lv, ms) BY <1>1, <1>2, <1>3 DEF RenewedInv
<1>11. FrontGlows(c, ln, 0) => FrontGlows(r, ln, 0) BY SameCallsKeep DEF FrontGlows
<1>12. ln # <<>> /\ ~aw => FrontInv(r, ln, lv) BY <1>1, <1>11, SameCallsKeep DEF FrontInv
<1>13. \A d \in Blinkers : Shining(c, d) => Shining(r, d) BY <1>2, <1>4 DEF Shining
<1> QED BY <1>8, <1>9, <1>10, <1>12, <1>13 DEF CoordInv

(* The keeper goes on. *)
LEMMA KeeperGoesOn ==
    ASSUME IdentifyInv, NEW f \in KeeperType, KeeperSets(f), f.dev = coord.keeper.dev,
           f.renews <=> coord.keeper.renews, f.at # "none", coord.keeper.at # "none", coord.keeper.renews,
           UNCHANGED <<line, leaving, coming, missed, away, stray>>, IdentifyTyped',
           \A d \in Blinkers : d # coord.keeper.dev => glow'[d] = glow[d],
           KeptInv([coord EXCEPT !.keeper = f], glow', unanswered', litFor')
    PROVE  IdentifyInv'
<1> DEFINE r == [coord EXCEPT !.keeper = f]
<1>1. coord' = r /\ coord \in CoordType BY InvParts DEF KeeperSets, QueueInv
<1>2. r \in CoordType /\ r.blinking = coord.blinking /\ r.keeper = f /\ r.calls = coord.calls
  BY <1>1 DEF CoordType
<1>3. KeptInv(r, glow', unanswered', litFor') OBVIOUS
<1> HIDE DEF r
<1>4. SameCalls(coord, r) BY <1>2 DEF SameCalls, SameCall
<1>5. CoordInv(coord, line, leaving, missed, away) BY DEF IdentifyInv
<1>6. /\ CoordInv(r, line, leaving, missed, away)
      /\ \A d \in Blinkers : Shining(coord, d) => Shining(r, d)
  BY <1>2, <1>4, <1>5, CoordMoves
<1>7. coord.blinking = coord.keeper.dev BY InvParts DEF QueueInv, KeeperFits
<1>8. GlowInv(r, glow', stray)
  <2> SUFFICES ASSUME NEW d \in Blinkers \ stray, glow'[d] > 0 PROVE Shining(r, d) BY DEF GlowInv
  <2>1. CASE d = coord.keeper.dev BY <1>2, <1>7, <2>1 DEF Shining
  <2>2. CASE d # coord.keeper.dev BY <1>6, <2>2, InvParts DEF GlowInv
  <2> QED BY <2>1, <2>2
<1> QED BY <1>1, <1>3, <1>6, <1>8, InvParts DEF IdentifyInv, LightInv

LEMMA KeeperIs ==
    ASSUME IdentifyInv, coord.keeper.at # "none"
    PROVE  /\ coord.keeper \in KeeperType /\ coord.blinking \in Blinkers /\ coord.keeper.dev = coord.blinking
           /\ coord \in CoordType
           /\ coord.keeper.at = "calls" => coord.keeper.renews
           /\ glow \in [Blinkers -> 0..BlinkTicks] /\ unanswered \in Nat /\ litFor \in 0..BlinkTicks
           /\ litFor <= glow[coord.blinking]
           /\ coord.keeper.renews =>
                /\ coord.keeper.left <= 1
                /\ unanswered <= 1 => glow[coord.blinking] + unanswered + 1 >= BlinkTicks + coord.keeper.left
                /\ coord.keeper.at = "calls" /\ ~coord.keeper.late => coord.keeper.left = 1
                /\ coord.keeper.at = "calls" /\ ~coord.keeper.late /\ coord.keeper.took
                     => glow[coord.blinking] = BlinkTicks
           /\ ~coord.keeper.renews => glow[coord.blinking] <= coord.keeper.left
<1>1. QueueInv(coord) /\ KeptInv(coord, glow, unanswered, litFor) /\ IdentifyTyped BY InvParts
<1>2. coord \in CoordType /\ coord.keeper \in KeeperType /\ coord.blinking \in Blinkers \cup {Nobody}
  BY <1>1 DEF QueueInv, CoordType
<1>3. coord.keeper.dev = coord.blinking /\ coord.blinking # Nobody /\ (coord.keeper.at = "calls" => coord.keeper.renews)
  BY <1>1 DEF QueueInv, KeeperFits
<1> QED BY <1>1, <1>2, <1>3 DEF IdentifyTyped, KeptInv

LEMMA RenewsKeeps == ASSUME IdentifyInv, KeeperRenews PROVE IdentifyInv'
<1> DEFINE k == coord.keeper
<1>1. PICK took \in BOOLEAN :
       /\ KeeperSets(RenewalSent(k, took))
       /\ glow' = IF took THEN [glow EXCEPT ![k.dev] = BlinkTicks] ELSE glow
  BY DEF KeeperRenews
<1>2. /\ k.at = "sleeps" /\ k.renews /\ k.left = 0 /\ unanswered' = unanswered + 1
      /\ UNCHANGED <<litFor, line, leaving, coming, stray, missed, away>>
  BY DEF KeeperRenews
<1> DEFINE f == RenewalSent(k, took)
<1>3. /\ k \in KeeperType /\ coord.blinking \in Blinkers /\ k.dev = coord.blinking /\ coord \in CoordType
      /\ glow \in [Blinkers -> 0..BlinkTicks] /\ unanswered \in Nat /\ litFor \in 0..BlinkTicks
      /\ litFor <= glow[coord.blinking]
      /\ unanswered <= 1 => glow[coord.blinking] + unanswered + 1 >= BlinkTicks
  <2>1. k.at # "none" BY <1>2
  <2> HIDE DEF k
  <2>2. unanswered <= 1 => glow[coord.blinking] + unanswered + 1 >= BlinkTicks + k.left
    BY <1>2, <2>1, KeeperIs DEF k
  <2> QED BY <1>2, <2>1, <2>2, KeeperIs, IdentifyAssumption DEF k
<1>4. f \in KeeperType /\ f.dev = k.dev /\ f.renews = k.renews /\ f.at = "calls" /\ f.left = 1 /\ f.took = took
      /\ f.late = k.late
  BY <1>3 DEF RenewalSent, KeeperType
<1> DEFINE r == [coord EXCEPT !.keeper = f]
<1> HIDE DEF f
<1>5. r.blinking = coord.blinking /\ r.keeper = f BY <1>3, <1>4 DEF CoordType
<1>6. /\ glow' \in [Blinkers -> 0..BlinkTicks] /\ glow'[coord.blinking] \in 0..BlinkTicks
      /\ glow'[coord.blinking] >= glow[coord.blinking] /\ (took => glow'[coord.blinking] = BlinkTicks)
      /\ \A d \in Blinkers : d # k.dev => glow'[d] = glow[d]
  BY <1>1, <1>3, IdentifyAssumption
<1>7. IdentifyTyped' BY <1>2, <1>3, <1>6, InvParts DEF IdentifyTyped
<1> HIDE DEF r, k
<1>8. unanswered' <= 1 => glow'[coord.blinking] + unanswered' + 1 >= BlinkTicks + 1
  BY <1>2, <1>3, <1>6, IdentifyAssumption
<1>9. litFor' <= glow'[coord.blinking] BY <1>2, <1>3, <1>6, IdentifyAssumption
<1>10. KeptInv(r, glow', unanswered', litFor')
  <2>1. f.renews /\ (f.took => glow'[coord.blinking] = BlinkTicks) /\ f.left <= 1
    BY <1>2, <1>4, <1>6
  <2> QED BY <1>4, <1>5, <1>8, <1>9, <2>1 DEF KeptInv
<1> QED BY <1>1, <1>2, <1>4, <1>6, <1>7, <1>10, KeeperGoesOn DEF f, r, k

LEMMA RenewalOverIs ==
    ASSUME NEW k \in KeeperType
    PROVE  LET f == RenewalOver(k)
           IN  /\ f \in KeeperType /\ f.dev = k.dev /\ f.renews = k.renews /\ f.at = "sleeps" /\ f.left = k.left
  BY DEF RenewalOver, KeeperType

LEMMA RenewalKeeps == ASSUME IdentifyInv, RenewalAnswered \/ RenewalFails PROVE IdentifyInv'
<1> DEFINE k == coord.keeper
           f == RenewalOver(k)
           r == [coord EXCEPT !.keeper = f]
<1>1. /\ k.at = "calls" /\ KeeperSets(f)
      /\ UNCHANGED <<line, leaving, coming, glow, stray, missed, away>>
      /\ \/ k.took /\ ~k.late /\ litFor' = BlinkTicks /\ unanswered' = 0
         \/ litFor' = litFor /\ unanswered' = unanswered
  BY DEF RenewalAnswered, RenewalFails
<1>2. /\ k \in KeeperType /\ coord.blinking \in Blinkers /\ k.dev = coord.blinking /\ coord \in CoordType /\ k.renews
      /\ glow \in [Blinkers -> 0..BlinkTicks] /\ unanswered \in Nat /\ litFor \in 0..BlinkTicks
      /\ litFor <= glow[coord.blinking] /\ k.left <= 1 /\ k.left \in Nat
      /\ unanswered <= 1 => glow[coord.blinking] + unanswered + 1 >= BlinkTicks + k.left
      /\ ~k.late /\ k.took => glow[coord.blinking] = BlinkTicks
  <2>1. k.at # "none" BY <1>1
  <2>2. k \in KeeperType => k.left \in Nat BY DEF KeeperType
  <2> HIDE DEF k
  <2> QED BY <1>1, <2>1, <2>2, KeeperIs DEF k
<1>3. f \in KeeperType /\ f.dev = k.dev /\ f.renews = k.renews /\ f.at = "sleeps" /\ f.left = k.left
  BY <1>2, RenewalOverIs
<1> HIDE DEF f
<1>4. r.blinking = coord.blinking /\ r.keeper = f BY <1>2, <1>3 DEF CoordType
<1>5. IdentifyTyped' BY <1>1, <1>2, InvParts, IdentifyAssumption DEF IdentifyTyped
<1> HIDE DEF r, k
<1>6. unanswered' <= 1 => glow[coord.blinking] + unanswered' + 1 >= BlinkTicks + k.left
  BY <1>1, <1>2, IdentifyAssumption
<1>7. litFor' <= glow[coord.blinking] BY <1>1, <1>2, IdentifyAssumption
<1>8. KeptInv(r, glow', unanswered', litFor') BY <1>1, <1>2, <1>3, <1>4, <1>6, <1>7 DEF KeptInv
<1> QED BY <1>1, <1>2, <1>3, <1>5, <1>8, KeeperGoesOn DEF f, r, k

LEMMA KeeperEndsKeeps == ASSUME IdentifyInv, KeeperEnds PROVE IdentifyInv'
<1>1. /\ coord.keeper.at = "sleeps" /\ ~coord.keeper.renews /\ coord.keeper.left = 0
      /\ coord' = [coord EXCEPT !.keeper = NoKeeper,
                 !.blinking = IF @ = coord.keeper.dev THEN Nobody ELSE @]
      /\ UNCHANGED <<litFor, line, leaving, coming, glow, unanswered, stray, missed, away>>
  BY DEF KeeperEnds
<1>2. /\ coord \in CoordType /\ coord.blinking \in Blinkers /\ coord.keeper.dev = coord.blinking
      /\ glow \in [Blinkers -> 0..BlinkTicks] /\ glow[coord.blinking] <= 0
  BY <1>1, KeeperIs
<1>3. coord' \in CoordType /\ coord'.blinking = Nobody /\ coord'.keeper = NoKeeper /\ coord'.calls = coord.calls
  BY <1>1, <1>2, NoKeeperIs DEF CoordType
<1>4. Free(coord) BY <1>2, InvParts, IdentifyAssumption DEF QueueInv
<1>5. KeeperFits(coord') BY <1>3, NoKeeperIs DEF KeeperFits
<1>6. QueueInv(coord') BY <1>3, <1>4, <1>5, InvParts DEF QueueInv
<1>7. GlowInv(coord', glow, stray)
  <2> SUFFICES ASSUME NEW d \in Blinkers \ stray, glow[d] > 0 PROVE FALSE BY DEF GlowInv
  <2>1. d = coord.blinking BY <1>4, InvParts DEF GlowInv, Shining, Free
  <2> QED BY <1>2, <2>1
<1>8. TurnsInv(coord', leaving) /\ AskedInv(coord', line, missed)
  BY <1>3, InvParts DEF TurnsInv, AskedInv
<1>9. line # <<>> /\ ~away => FrontInv(coord', line, leaving)
  <2>1. ~FrontGlows(coord, line, 0) BY <1>1 DEF FrontGlows
  <2>2. TurnComes(coord, leaving) => TurnComes(coord', leaving) BY <1>3 DEF TurnComes
  <2>3. StartComes(coord, line, 0) => StartComes(coord', line, 0)
    BY <1>3 DEF StartComes, IdleAfter
  <2> QED BY <2>1, <2>2, <2>3, InvParts DEF FrontInv
<1>10. RenewedInv(coord', line, leaving, missed) /\ KeptInv(coord', glow, unanswered, litFor)
  BY <1>3, NoKeeperIs DEF RenewedInv, KeptInv
<1>11. CoordInv(coord', line, leaving, missed, away) /\ LightInv(coord', glow, stray, unanswered, litFor)
  BY <1>6, <1>7, <1>8, <1>9, <1>10 DEF CoordInv, LightInv
<1>12. IdentifyTyped' BY <1>1, InvParts DEF IdentifyTyped
<1> QED BY <1>1, <1>11, <1>12, InvParts DEF IdentifyInv
----------------------------------------
(* The blinking: time passes, devices come, and a page clicks. *)

LEMMA TickKeeps == ASSUME IdentifyInv, Tick PROVE IdentifyInv'
<1> DEFINE k == coord.keeper
           f == Older(k)
           t == IF coord.calls = <<>> THEN coord.calls ELSE [coord.calls EXCEPT ![1].late = TRUE]
           r == [coord EXCEPT !.keeper = f, !.calls = t]
<1>1. /\ ~k.late /\ (k.at = "sleeps" => k.left > 0)
      /\ glow' = [d \in Blinkers |-> Less(glow[d])] /\ litFor' = Less(litFor)
      /\ stray' = {d \in stray : glow'[d] > 0} /\ coord' = r
      /\ UNCHANGED <<line, leaving, coming, unanswered, missed, away>>
  BY DEF Tick
<1>2. coord \in CoordType /\ coord.calls \in Seq(CallType) /\ k \in KeeperType
  BY InvParts DEF QueueInv, CoordType
<1>3. IdentifyTyped BY InvParts
<1>4. /\ f \in KeeperType /\ f.dev = k.dev /\ f.renews = k.renews /\ f.at = k.at /\ f.left = Less(k.left)
      /\ f.late <=> k.at = "calls"
  <2> DEFINE n == Less(k.left)
             lt == k.at = "calls"
  <2>1. f = [k EXCEPT !.left = n, !.late = lt] BY DEF Older
  <2>2. n \in Nat /\ lt \in BOOLEAN BY <1>2 DEF KeeperType, Less
  <2> HIDE DEF n, f, k
  <2>3. f \in KeeperType /\ f.dev = k.dev /\ f.renews = k.renews /\ f.at = k.at /\ f.left = n /\ f.late = lt
    BY <1>2, <2>1, <2>2 DEF KeeperType
  <2> QED BY <2>3 DEF n
<1>5. /\ t \in Seq(CallType) /\ DOMAIN t = DOMAIN coord.calls
      /\ \A i \in DOMAIN coord.calls : /\ SameCall(t[i], coord.calls[i])
                                       /\ t[i].at = coord.calls[i].at /\ t[i].last = coord.calls[i].last
  <2>1. CASE coord.calls = <<>> BY <1>2, <2>1
  <2>2. CASE coord.calls # <<>>
    <3> DEFINE q == coord.calls[1]
               x == [q EXCEPT !.late = TRUE]
               u == [coord.calls EXCEPT ![1] = x]
    <3>1. q \in CallType BY <1>2, <2>2, TailIs
    <3>2. x \in CallType /\ SameCall(x, q) /\ x.at = q.at /\ x.last = q.last
      BY <3>1 DEF CallType, SameCall
    <3>3. t = u BY <2>2
    <3> HIDE DEF x
    <3>4. /\ u \in Seq(CallType) /\ DOMAIN u = DOMAIN coord.calls /\ u[1] = x
          /\ \A i \in DOMAIN coord.calls : i # 1 => u[i] = coord.calls[i]
      BY <1>2, <2>2, <3>2, FirstChanged
    <3> HIDE DEF u
    <3>5. \A i \in DOMAIN coord.calls : SameCall(coord.calls[i], coord.calls[i]) BY DEF SameCall
    <3> HIDE DEF t
    <3> QED BY <3>2, <3>3, <3>4, <3>5
  <2> QED BY <2>1, <2>2
<1> HIDE DEF f, t
<1>6. r \in CoordType /\ r.blinking = coord.blinking /\ r.keeper = f /\ r.calls = t
  BY <1>2, <1>4, <1>5 DEF CoordType
<1> HIDE DEF r
<1>7. SameCalls(coord, r) BY <1>5, <1>6 DEF SameCalls
<1>8. CoordInv(coord, line, leaving, missed, away) BY DEF IdentifyInv
<1>9. k.at = "calls" => k.renews BY InvParts DEF QueueInv, KeeperFits
<1>10. /\ CoordInv(r, line, leaving, missed, away)
       /\ \A d \in Blinkers : Shining(coord, d) => Shining(r, d)
  BY <1>4, <1>5, <1>6, <1>7, <1>8, <1>9, CoordMoves
<1>11. /\ glow' \in [Blinkers -> 0..BlinkTicks] /\ \A d \in Blinkers : glow'[d] = Less(glow[d])
       /\ litFor' \in 0..BlinkTicks
  BY <1>1, <1>3, IdentifyAssumption DEF IdentifyTyped, Less
<1>12. IdentifyTyped' BY <1>1, <1>3, <1>11 DEF IdentifyTyped
<1>13. GlowInv(r, glow', stray')
  <2> SUFFICES ASSUME NEW d \in Blinkers \ stray', glow'[d] > 0 PROVE Shining(r, d) BY DEF GlowInv
  <2>1. d \notin stray BY <1>1
  <2>2. glow[d] > 0 BY <1>3, <1>11 DEF IdentifyTyped, Less
  <2> QED BY <1>10, <2>1, <2>2, InvParts DEF GlowInv
<1>14. KeptInv(r, glow', unanswered', litFor')
  <2> SUFFICES ASSUME coord.blinking # Nobody PROVE KeptInv(r, glow', unanswered', litFor')
    BY <1>6 DEF KeptInv
  <2>1. k.at # "none" BY InvParts DEF QueueInv, KeeperFits
  <2> DEFINE b == coord.blinking
             g == glow[b]
  <2>2. /\ b \in Blinkers /\ g \in Nat /\ litFor \in Nat /\ litFor <= g /\ unanswered \in Nat /\ k.left \in Nat
        /\ k.renews => /\ k.left <= 1 /\ k.at \in {"sleeps", "calls"}
                       /\ unanswered <= 1 => g + unanswered + 1 >= BlinkTicks + k.left
                       /\ k.at = "calls" => k.left = 1
        /\ ~k.renews => g <= k.left
    <3>1. k.left \in Nat /\ k.at \in {"none", "sleeps", "calls"} BY <1>2 DEF KeeperType
    <3> HIDE DEF k
    <3>2. b \in Blinkers /\ litFor <= g /\ unanswered \in Nat /\ litFor \in 0..BlinkTicks /\ g \in 0..BlinkTicks
      BY <2>1, KeeperIs DEF k
    <3>3. k.renews => /\ k.left <= 1
                      /\ unanswered <= 1 => g + unanswered + 1 >= BlinkTicks + k.left
                      /\ k.at = "calls" => k.left = 1
      BY <1>1, <2>1, KeeperIs DEF k
    <3>4. ~k.renews => g <= k.left BY <2>1, KeeperIs DEF k
    <3> QED BY <2>1, <3>1, <3>2, <3>3, <3>4, IdentifyAssumption
  <2>3. r.blinking = b /\ r.keeper = f /\ glow'[b] = Less(g) /\ litFor' = Less(litFor) /\ unanswered' = unanswered
    BY <1>1, <1>6, <1>11, <2>2
  <2> HIDE DEF b, g, k
  <2>4. Less(litFor) <= Less(g) /\ (~k.renews => Less(g) <= Less(k.left)) BY <2>2 DEF Less
  <2>5. k.renews => /\ k.left = 1 /\ Less(k.left) = 0
                    /\ unanswered <= 1 => Less(g) + unanswered + 1 >= BlinkTicks + 0
    <3>1. k.renews => k.left = 1 BY <1>1, <2>2
    <3> QED BY <2>2, <3>1, IdentifyAssumption DEF Less
  <2>6. f.at = "calls" => f.late BY <1>4
  <2>7. (f.renews <=> k.renews) /\ f.left = Less(k.left) BY <1>4
  <2> QED BY <2>3, <2>4, <2>5, <2>6, <2>7 DEF KeptInv
<1> QED BY <1>1, <1>10, <1>12, <1>13, <1>14, InvParts DEF IdentifyInv, LightInv

(* A call that comes, with all that is said of the coordinator. *)
LEMMA ComesKeeps ==
    ASSUME IdentifyInv, NEW q \in CallType, GoodCall(q), q.at = "waits", coord' = Entered(coord, q),
           UNCHANGED <<litFor, glow, unanswered, stray>>, away' \in BOOLEAN,
           LineInv(line, leaving, coming)', \A d : Foremost(line, d) => Foremost(line', d),
           leaving' = leaving, q.op = "start" \/ missed \subseteq missed',
           q.renews => Foremost(line', q.dev),
           ByTurn(q) => leaving # <<>> /\ \A i \in DOMAIN coord.calls : ~ByTurn(coord.calls[i]),
           line' # <<>> /\ ~away' => \/ StartsFront(q, line')
                                     \/ q.op = "idle" /\ line # <<>> /\ ~away
                                     \/ TurnComes(coord, leaving) /\ q.by # "starter"
    PROVE  IdentifyInv'
<1>1. /\ QueueInv(coord) /\ TurnsInv(coord, leaving) /\ coord \in CoordType
      /\ AskedInv(coord, line', missed) /\ RenewedInv(coord, line', leaving, missed)
  BY InvParts, LineMoves DEF QueueInv
<1>2. IsEntered(coord, coord', q) BY <1>1, EnteredIs
<1>3. QueueInv(coord') BY <1>1, <1>2, EnteredQueue
<1>4. LightInv(coord', glow, stray, unanswered, litFor) BY <1>1, <1>2, InvParts, EnteredLight
<1>5. TurnsInv(coord', leaving) BY <1>1, <1>2, EnteredTurns
<1>6. AskedInv(coord', line', missed') BY <1>1, <1>2, EnteredAsked
<1>7. RenewedInv(coord', line', leaving, missed') BY <1>1, <1>2, EnteredRenewed
<1>8. line' # <<>> /\ ~away' => FrontInv(coord', line', leaving)
  <2> SUFFICES ASSUME line' # <<>>, ~away' PROVE FrontInv(coord', line', leaving) OBVIOUS
  <2>1. CASE StartsFront(q, line') BY <1>1, <1>2, <2>1, EnteredFront DEF FrontInv
  <2>2. CASE q.op = "idle" /\ line # <<>> /\ ~away
    <3>1. FrontInv(coord, line', leaving) BY <2>2, InvParts, LineMoves
    <3>2. line' \in Seq(Blinkers) /\ q.by # "starter" BY <2>2 DEF LineInv, GoodCall
    <3> QED BY <1>1, <1>2, <2>2, <3>1, <3>2, EnteredFront DEF FrontInv
  <2>3. CASE TurnComes(coord, leaving) /\ q.by # "starter"
    BY <1>1, <1>2, <2>3, EnteredFront DEF FrontInv
  <2> QED BY <2>1, <2>2, <2>3
<1>9. IdentifyTyped' BY InvParts DEF IdentifyTyped
<1>10. CoordInv(coord', line', leaving, missed', away')
  BY <1>3, <1>5, <1>6, <1>7, <1>8 DEF CoordInv
<1> QED BY <1>4, <1>9, <1>10 DEF IdentifyInv

LEMMA LineFacts ==
    ASSUME IdentifyInv
    PROVE  /\ line \in Seq(Blinkers) /\ leaving \in Seq(TurnType) /\ coming \subseteq Blinkers
           /\ \A d : AtFront(d) <=> Foremost(line, d)
           /\ \A d : Foremost(line, d) => d \in Blinkers /\ d # Nobody /\ 1 \in DOMAIN line
           /\ leaving # <<>> => Head(leaving) = leaving[1] /\ 1 \in DOMAIN leaving /\ leaving[1] \in TurnType
           /\ away \in BOOLEAN
<1>1. line \in Seq(Blinkers) /\ leaving \in Seq(TurnType) /\ coming \subseteq Blinkers
  BY InvParts DEF LineInv
<1>2. line # <<>> => Head(line) = line[1] /\ line[1] \in Blinkers /\ 1 \in DOMAIN line
  BY <1>1, TailIs
<1>3. leaving # <<>> => Head(leaving) = leaving[1] /\ 1 \in DOMAIN leaving /\ leaving[1] \in TurnType
  BY <1>1, TailIs
<1>4. away \in BOOLEAN BY InvParts DEF IdentifyTyped
<1> QED BY <1>1, <1>2, <1>3, <1>4, IdentifyAssumption DEF AtFront, Foremost

LEMMA FinishedNamedKeeps == ASSUME IdentifyInv, NEW d \in Blinkers, FinishedNamed(d) PROVE IdentifyInv'
<1> DEFINE q == BlinkCall("idle", d, FALSE, "worker")
<1>1. /\ coming' = coming \ {d} /\ coord' = Entered(coord, q)
      /\ UNCHANGED <<litFor, line, leaving, glow, unanswered, stray, missed, away>>
  BY DEF FinishedNamed
<1>2. /\ q \in CallType /\ q.op = "idle" /\ q.dev = d /\ ~q.renews /\ q.by = "worker" /\ q.at = "waits"
  BY DEF BlinkCall, CallType
<1> HIDE DEF q
<1>3. GoodCall(q) /\ ~ByTurn(q) BY <1>2, IdentifyAssumption DEF GoodCall, ByTurn
<1>4. LineInv(line, leaving, coming') BY <1>1, InvParts DEF LineInv
<1> QED BY <1>1, <1>2, <1>3, <1>4, LineFacts, ComesKeeps

LEMMA LineGrows ==
    ASSUME NEW ln, NEW lv, NEW cm, LineInv(ln, lv, cm), NEW d \in cm
    PROVE  /\ LineInv(Append(ln, d), lv, cm \ {d})
           /\ \A e : Foremost(ln, e) => Foremost(Append(ln, d), e)
           /\ ln = <<>> => Foremost(Append(ln, d), d)
<1> DEFINE t == Append(ln, d)
           n == Len(ln) + 1
<1>1. ln \in Seq(Blinkers) /\ d \in Blinkers BY DEF LineInv
<1>2. /\ t \in Seq(Blinkers) /\ t # <<>> /\ DOMAIN t = 1..n /\ t[n] = d
      /\ \A i \in DOMAIN ln : t[i] = ln[i]
      /\ Len(ln) \in Nat /\ DOMAIN ln = 1..Len(ln)
  BY <1>1, LastAdded
<1> HIDE DEF t
<1>3. \A i \in DOMAIN t : i = n \/ (i \in DOMAIN ln /\ t[i] = ln[i]) BY <1>2
<1>4. n \notin DOMAIN ln BY <1>2
<1> HIDE DEF n
<1>5. \A i \in DOMAIN ln : ln[i] # d BY DEF LineInv
<1>6. \A i, k \in DOMAIN t : t[i] = t[k] => i = k
  <2>1. \A i, k \in DOMAIN ln : ln[i] = ln[k] => i = k BY DEF LineInv
  <2> QED BY <1>2, <1>3, <1>5, <2>1
<1>7. \A i \in DOMAIN t : t[i] \notin cm \ {d} BY <1>2, <1>3 DEF LineInv
<1>8. \A j \in DOMAIN lv : lv[j].dev \notin cm \ {d} /\ \A i \in DOMAIN t : t[i] # lv[j].dev
  BY <1>2, <1>3 DEF LineInv
<1>9. LineInv(t, lv, cm \ {d}) BY <1>2, <1>6, <1>7, <1>8 DEF LineInv
<1>10. \A e : Foremost(ln, e) => Foremost(t, e)
  <2>1. ln # <<>> => 1 \in DOMAIN ln BY <1>1, TailIs
  <2> QED BY <1>2, <2>1 DEF Foremost
<1>11. ln = <<>> => Foremost(t, d) BY <1>2 DEF Foremost, n
<1> QED BY <1>9, <1>10, <1>11 DEF t

LEMMA FinishedUnnamedKeeps == ASSUME IdentifyInv, NEW d \in Blinkers, FinishedUnnamed(d) PROVE IdentifyInv'
<1> DEFINE q == BlinkCall("start", d, TRUE, "worker")
<1>1. /\ d \in coming /\ coming' = coming \ {d} /\ line' = Append(line, d)
      /\ IF line = <<>> THEN coord' = Entered(coord, q) /\ away' = FALSE ELSE UNCHANGED <<coord, away>>
      /\ UNCHANGED <<litFor, leaving, glow, unanswered, stray, missed>>
  BY DEF FinishedUnnamed
<1>2. /\ q \in CallType /\ q.op = "start" /\ q.dev = d /\ q.renews /\ q.by = "worker" /\ q.at = "waits"
  BY DEF BlinkCall, CallType
<1> HIDE DEF q
<1>3. GoodCall(q) /\ ~ByTurn(q) BY <1>2, IdentifyAssumption DEF GoodCall, ByTurn
<1>4. /\ LineInv(line', leaving, coming')
      /\ \A e : Foremost(line, e) => Foremost(line', e)
      /\ line = <<>> => Foremost(line', d)
  BY <1>1, InvParts, LineGrows
<1>5. CASE line = <<>>
  <2>1. StartsFront(q, line') BY <1>2, <1>4, <1>5 DEF StartsFront
  <2> QED BY <1>1, <1>2, <1>3, <1>4, <1>5, <2>1, ComesKeeps
<1>6. CASE line # <<>>
  <2>1. CoordInv(coord, line', leaving, missed, away)
    BY <1>4, <1>6, InvParts, LineMoves DEF CoordInv
  <2>2. IdentifyTyped' BY <1>1, <1>6, InvParts DEF IdentifyTyped
  <2> QED BY <1>1, <1>4, <1>6, <2>1, <2>2, InvParts DEF IdentifyInv
<1> QED BY <1>5, <1>6

LEMMA PressKeeps == ASSUME IdentifyInv, NEW d \in Blinkers, PressOff(d) \/ \E onCard \in BOOLEAN : PressOn(d, onCard) PROVE IdentifyInv'
<1>1. CASE PressOff(d)
  <2> DEFINE q == BlinkCall("stop", Nobody, FALSE, "press")
  <2>1. /\ away' = TRUE /\ coord' = Entered(coord, q)
        /\ UNCHANGED <<litFor, line, leaving, coming, glow, unanswered, stray, missed>>
    BY <1>1 DEF PressOff
  <2>2. /\ q \in CallType /\ q.op = "stop" /\ q.dev = Nobody /\ ~q.renews /\ q.by = "press" /\ q.at = "waits"
    BY DEF BlinkCall, CallType
  <2> HIDE DEF q
  <2>3. GoodCall(q) /\ ~ByTurn(q) BY <2>2 DEF GoodCall, ByTurn
  <2> QED BY <2>1, <2>2, <2>3, InvParts, ComesKeeps
<1>2. ASSUME NEW onCard \in BOOLEAN, PressOn(d, onCard) PROVE IdentifyInv'
  <2> DEFINE front == onCard /\ AtFront(d)
             q == BlinkCall("start", d, front, "press")
  <2>1. /\ coord' = Entered(coord, q) /\ away' = ~front
        /\ UNCHANGED <<litFor, line, leaving, coming, glow, unanswered, stray>>
    BY <1>2 DEF PressOn
  <2>2. front \in BOOLEAN /\ (front => Foremost(line, d)) BY LineFacts
  <2> HIDE DEF front
  <2>3. /\ q \in CallType /\ q.op = "start" /\ q.dev = d /\ q.renews = front /\ q.by = "press" /\ q.at = "waits"
    BY <2>2 DEF BlinkCall, CallType
  <2> HIDE DEF q
  <2>4. GoodCall(q) /\ ~ByTurn(q) BY <2>3, IdentifyAssumption DEF GoodCall, ByTurn
  <2>5. ~away' => StartsFront(q, line) BY <2>1, <2>2, <2>3 DEF StartsFront
  <2>6. away' \in BOOLEAN BY <2>1, <2>2
  <2> QED BY <2>1, <2>2, <2>3, <2>4, <2>5, <2>6, InvParts, ComesKeeps
<1> QED BY <1>1, <1>2
----------------------------------------
(* The blinking: a device leaves the naming line, and every step together. *)

LEMMA RemovedIs ==
    ASSUME NEW T, NEW s \in Seq(T), NEW i \in DOMAIN s
    PROVE  LET t == RemoveAt(s, i)
           IN  /\ t \in Seq(T) /\ Len(t) = Len(s) - 1 /\ DOMAIN t = 1..(Len(s) - 1)
               /\ \A k \in DOMAIN t : t[k] = IF k < i THEN s[k] ELSE s[k + 1]
<1> DEFINE a == SubSeq(s, 1, i - 1)
           b == SubSeq(s, i + 1, Len(s))
<1>1. Len(s) \in Nat /\ DOMAIN s = 1..Len(s) /\ i \in 1..Len(s) OBVIOUS
<1>2. a \in Seq(T) /\ Len(a) = i - 1 /\ \A k \in 1..(i - 1) : a[k] = s[k] BY <1>1
<1>3. b \in Seq(T) /\ Len(b) = Len(s) - i /\ \A k \in 1..(Len(s) - i) : b[k] = s[i + k] BY <1>1
<1> HIDE DEF a, b
<1> DEFINE t == a \o b
<1>3a. Len(a) \in Nat /\ Len(b) \in Nat /\ Len(a) + Len(b) = Len(s) - 1
  BY <1>1, <1>2, <1>3
<1>3b. /\ t \in Seq(T) /\ Len(t) = Len(a) + Len(b)
       /\ \A k \in 1..(Len(a) + Len(b)) : t[k] = IF k <= Len(a) THEN a[k] ELSE b[k - Len(a)]
  BY ONLY <1>2, <1>3, ConcatProperties
<1>4. /\ t \in Seq(T) /\ Len(t) = Len(s) - 1
      /\ \A k \in 1..Len(t) : t[k] = IF k <= Len(a) THEN a[k] ELSE b[k - Len(a)]
  BY ONLY <1>3a, <1>3b
<1>5. DOMAIN t = 1..(Len(s) - 1)
  <2> HIDE DEF t
  <2> QED BY ONLY <1>4
<1>6. RemoveAt(s, i) = t BY DEF RemoveAt, a, b
<1> HIDE DEF t
<1>7. ASSUME NEW k \in 1..(Len(s) - 1) PROVE t[k] = IF k < i THEN s[k] ELSE s[k + 1]
  <2>1. k \in 1..Len(t) BY <1>4
  <2>2. CASE k < i
    <3>1. t[k] = a[k] /\ k \in 1..(i - 1) BY <1>1, <1>2, <1>4, <2>1, <2>2
    <3> QED BY <1>2, <2>2, <3>1
  <2>3. CASE ~(k < i)
    <3>1. t[k] = b[k - (i - 1)] BY <1>1, <1>2, <1>4, <2>1, <2>3
    <3>2. k - (i - 1) \in 1..(Len(s) - i) /\ i + (k - (i - 1)) = k + 1 BY <1>1, <2>3
    <3> QED BY <1>3, <2>3, <3>1, <3>2
  <2> QED BY <2>2, <2>3
<1> QED BY <1>4, <1>5, <1>6, <1>7

(* A device leaves the naming line. *)
LEMMA LineShrinks ==
    ASSUME NEW ln, NEW lv, NEW cm, LineInv(ln, lv, cm), NEW i \in DOMAIN ln, NEW first \in BOOLEAN
    PROVE  /\ LineInv(RemoveAt(ln, i), Append(lv, [dev |-> ln[i], first |-> first]), cm)
           /\ \A e : Foremost(ln, e) /\ e # ln[i] => Foremost(RemoveAt(ln, i), e)
           /\ ln[i] \in Blinkers /\ ln # <<>>
<1> DEFINE d == ln[i]
           t == RemoveAt(ln, i)
           x == [dev |-> d, first |-> first]
           w == Append(lv, x)
<1>1. ln \in Seq(Blinkers) /\ lv \in Seq(TurnType) /\ d \in Blinkers /\ x \in TurnType /\ x.dev = d
  BY DEF LineInv, TurnType
<1>2. /\ t \in Seq(Blinkers) /\ DOMAIN t = 1..(Len(ln) - 1)
      /\ \A k \in DOMAIN t : t[k] = IF k < i THEN ln[k] ELSE ln[k + 1]
  BY <1>1, RemovedIs
<1>3. Len(ln) \in Nat /\ DOMAIN ln = 1..Len(ln) BY <1>1
<1> HIDE DEF t, x
<1>4. /\ w \in Seq(TurnType) /\ DOMAIN w = 1..(Len(lv) + 1) /\ w[Len(lv) + 1] = x
      /\ \A j \in DOMAIN lv : w[j] = lv[j]
  BY <1>1, LastAdded
<1>5. \A j \in DOMAIN w : w[j] = x \/ (j \in DOMAIN lv /\ w[j] = lv[j]) BY <1>1, <1>4
<1> DEFINE at(k) == IF k < i THEN k ELSE k + 1
<1>6. \A k \in DOMAIN t : at(k) \in DOMAIN ln /\ t[k] = ln[at(k)] /\ at(k) # i BY <1>2, <1>3
<1>7. \A k, m \in DOMAIN t : at(k) = at(m) => k = m BY <1>2, <1>3
<1> HIDE DEF at, w
<1>8. \A k, m \in DOMAIN ln : ln[k] = ln[m] => k = m BY DEF LineInv
<1>9. \A k, m \in DOMAIN t : t[k] = t[m] => k = m BY <1>6, <1>7, <1>8
<1>10. \A k \in DOMAIN t : t[k] \notin cm /\ t[k] # d BY <1>6, <1>8 DEF LineInv
<1>11. \A j \in DOMAIN w : w[j].dev \notin cm /\ \A k \in DOMAIN t : t[k] # w[j].dev
  BY <1>1, <1>5, <1>6, <1>10 DEF LineInv
<1>12. LineInv(t, w, cm) BY <1>2, <1>4, <1>9, <1>10, <1>11 DEF LineInv
<1>13. ASSUME NEW e, Foremost(ln, e), e # d PROVE Foremost(t, e)
  <2>1. i # 1 /\ 1 \in DOMAIN ln /\ e = ln[1] BY <1>3, <1>13 DEF Foremost
  <2>2. 1 \in DOMAIN t /\ 1 < i BY <1>2, <1>3, <2>1
  <2> QED BY <1>2, <2>1, <2>2 DEF Foremost
<1>14. ln # <<>> BY <1>3
<1> QED BY <1>1, <1>12, <1>13, <1>14 DEF t, w, x

LEMMA LeavesLineKeeps == ASSUME IdentifyInv, NEW d \in Blinkers, LeavesLine(d) PROVE IdentifyInv'
<1> DEFINE item == [dev |-> d, first |-> AtFront(d)]
           n == Len(leaving) + 1
<1>1. PICK i \in DOMAIN line : line[i] = d /\ line' = RemoveAt(line, i) BY DEF LeavesLine
<1>2. /\ leaving' = Append(leaving, item)
      /\ missed' = IF Starting(d) THEN missed \cup {d} ELSE missed
      /\ away' = (away /\ ~AtFront(d))
      /\ UNCHANGED <<coord, litFor, coming, glow, unanswered, stray>>
  BY DEF LeavesLine
<1>3. AtFront(d) \in BOOLEAN /\ leaving \in Seq(TurnType) /\ away \in BOOLEAN
  BY LineFacts DEF AtFront
<1>4. item \in TurnType /\ item.dev = d /\ (item.first <=> AtFront(d)) BY <1>3 DEF TurnType
<1>5. /\ LineInv(line', leaving', coming)
      /\ \A e : Foremost(line, e) /\ e # d => Foremost(line', e)
      /\ line # <<>>
  BY <1>1, <1>2, <1>3, InvParts, LineShrinks
<1> HIDE DEF item
<1>6. /\ DOMAIN leaving' = 1..n /\ n \in DOMAIN leaving' /\ leaving'[n] = item
      /\ \A j \in DOMAIN leaving : j \in DOMAIN leaving' /\ leaving'[j] = leaving[j]
      /\ (n = 1 => leaving = <<>>)
  <2>1. Len(leaving) \in Nat /\ DOMAIN leaving = 1..Len(leaving) BY <1>3
  <2> QED BY <1>2, <1>3, <1>4, <2>1, LastAdded
<1> HIDE DEF n
<1>7. missed \subseteq missed' BY <1>2
<1>8. IdentifyTyped' BY <1>2, <1>3, InvParts DEF IdentifyTyped
<1>9. TurnsInv(coord, leaving') BY <1>6, InvParts DEF TurnsInv
<1>10. AskedInv(coord, line', missed')
  <2> SUFFICES ASSUME NEW k \in DOMAIN coord.calls, coord.calls[k].renews
               PROVE  \/ Foremost(line', coord.calls[k].dev) \/ coord.calls[k].dev \in missed'
                      \/ \E m \in DOMAIN coord.calls : m > k /\ coord.calls[m].op = "start"
    BY DEF AskedInv
  <2>1. \/ Foremost(line, coord.calls[k].dev) \/ coord.calls[k].dev \in missed
        \/ \E m \in DOMAIN coord.calls : m > k /\ coord.calls[m].op = "start"
    BY InvParts DEF AskedInv
  <2>2. CASE coord.calls[k].dev = d
    <3>1. coord.calls[k].op = "start" BY InvParts DEF QueueInv, GoodCall
    <3>2. Starting(d) BY <2>2, <3>1 DEF Starting
    <3> QED BY <1>2, <2>2, <3>2
  <2>3. CASE coord.calls[k].dev # d BY <1>5, <1>7, <2>1, <2>3
  <2> QED BY <2>2, <2>3
<1>11. RenewedInv(coord, line', leaving', missed')
  <2> SUFFICES ASSUME coord.keeper.renews
               PROVE  \/ Foremost(line', coord.blinking) \/ coord.blinking \in missed'
                      \/ \E k \in DOMAIN coord.calls : coord.calls[k].op # "idle"
                      \/ \E j \in DOMAIN leaving' : leaving'[j].dev = coord.blinking
    BY DEF RenewedInv
  <2>1. CASE coord.blinking = d BY <1>4, <1>6, <2>1
  <2>2. CASE coord.blinking # d BY <1>5, <1>6, <1>7, <2>2, InvParts DEF RenewedInv
  <2> QED BY <2>1, <2>2
<1>12. ASSUME ~away' PROVE FrontInv(coord, line', leaving')
  <2>1. TurnComes(coord, leaving) => TurnComes(coord, leaving') BY <1>6 DEF TurnComes
  <2>2. CASE AtFront(d)
    <3>1. n = 1 => \A k \in DOMAIN coord.calls : coord.calls[k].by # "starter"
      BY <1>6, InvParts DEF TurnsInv, ByTurn
    <3> QED BY <1>4, <1>6, <2>2, <3>1 DEF FrontInv, TurnComes
  <2>3. CASE ~AtFront(d)
    <3>1. FrontInv(coord, line, leaving) BY <1>2, <1>3, <1>5, <1>12, <2>3, InvParts
    <3>2. \A e : Foremost(line, e) => Foremost(line', e) BY <1>5, <2>3, LineFacts
    <3>3. FrontInv(coord, line', leaving) BY <3>1, <3>2, LineMoves
    <3> QED BY <2>1, <3>3 DEF FrontInv
  <2> QED BY <2>2, <2>3
<1>13. CoordInv(coord, line', leaving', missed', away')
  BY <1>9, <1>10, <1>11, <1>12, InvParts DEF CoordInv
<1> QED BY <1>2, <1>5, <1>8, <1>13, InvParts DEF IdentifyInv

LEMMA HandOnKeeps == ASSUME IdentifyInv, HandOn PROVE IdentifyInv'
<1> DEFINE stop == BlinkCall("stop", Nobody, FALSE, "stopper")
           start == BlinkCall("start", Head(line), TRUE, "starter")
           h == Head(leaving)
<1>1. /\ leaving # <<>> /\ ~InCalls("stopper") /\ ~InCalls("starter")
      /\ IF coord.blinking = h.dev THEN coord' = Entered(coord, stop) /\ leaving' = leaving
         ELSE IF h.first /\ line # <<>> THEN coord' = Entered(coord, start) /\ leaving' = leaving
         ELSE leaving' = Tail(leaving) /\ coord' = coord
      /\ away' = (away \/ StopMayHitAnother)
      /\ UNCHANGED <<litFor, line, coming, glow, unanswered, stray, missed>>
  BY DEF HandOn
<1>2. h = leaving[1] /\ 1 \in DOMAIN leaving /\ h \in TurnType /\ leaving \in Seq(TurnType)
  BY <1>1, LineFacts
<1>3. \A i \in DOMAIN coord.calls : ~ByTurn(coord.calls[i]) /\ coord.calls[i].by # "starter"
  BY <1>1 DEF InCalls, ByTurn
<1>4. away' \in BOOLEAN BY <1>1, LineFacts DEF StopMayHitAnother
<1>5. line' = line /\ LineInv(line, leaving, coming) BY <1>1, InvParts
<1>6. CASE coord.blinking = h.dev
  <2>1. coord' = Entered(coord, stop) /\ leaving' = leaving BY <1>1, <1>6
  <2>2. /\ stop \in CallType /\ stop.op = "stop" /\ stop.dev = Nobody /\ ~stop.renews /\ stop.by = "stopper"
        /\ stop.at = "waits"
    BY DEF BlinkCall, CallType
  <2> HIDE DEF stop
  <2>3. GoodCall(stop) BY <2>2 DEF GoodCall
  <2>4. ASSUME line # <<>>, ~away' PROVE TurnComes(coord, leaving)
    <3>1. CASE h.first BY <1>2, <1>3, <3>1 DEF TurnComes
    <3>2. CASE ~h.first
      <4>1. coord.calls = <<>> /\ ~away BY <1>1, <1>6, <2>4, <3>2 DEF StopMayHitAnother
      <4>2. FrontInv(coord, line, leaving) BY <2>4, <4>1, InvParts
      <4>3. ~StartComes(coord, line, 0) BY <4>1 DEF StartComes
      <4>4. line[1] # leaving[1].dev
        <5>1. 1 \in DOMAIN line BY <2>4, LineFacts DEF Foremost
        <5> QED BY <1>2, <1>5, <5>1 DEF LineInv
      <4>5. ~FrontGlows(coord, line, 0) BY <1>2, <1>6, <4>4 DEF FrontGlows, Foremost
      <4> QED BY <4>2, <4>3, <4>5 DEF FrontInv
    <3> QED BY <3>1, <3>2
  <2>5. UNCHANGED <<litFor, glow, unanswered, stray>> /\ missed \subseteq missed' /\ LineInv(line, leaving, coming)'
    BY <1>1, <1>5, <2>1
  <2>6. \A d : Foremost(line, d) => Foremost(line', d) BY <1>5
  <2> QED BY <1>1, <1>3, <1>4, <1>5, <2>1, <2>2, <2>3, <2>4, <2>5, <2>6, ComesKeeps
<1>7. CASE coord.blinking # h.dev /\ h.first /\ line # <<>>
  <2>1. coord' = Entered(coord, start) /\ leaving' = leaving BY <1>1, <1>7
  <2>2. /\ start \in CallType /\ GoodCall(start) /\ start.at = "waits" /\ start.op = "start"
        /\ StartsFront(start, line) /\ Foremost(line, start.dev)
    BY <1>7, LineFacts, StarterIs
  <2> HIDE DEF start
  <2>3. UNCHANGED <<litFor, glow, unanswered, stray>> /\ LineInv(line, leaving, coming)'
    BY <1>1, <1>5, <2>1
  <2>4. \A d : Foremost(line, d) => Foremost(line', d) BY <1>5
  <2> QED BY <1>1, <1>3, <1>4, <1>5, <2>1, <2>2, <2>3, <2>4, ComesKeeps
<1>8. CASE coord.blinking # h.dev /\ ~(h.first /\ line # <<>>)
  <2>1. leaving' = Tail(leaving) /\ coord' = coord BY <1>1, <1>8
  <2>2. LineInv(line, leaving', coming) BY <1>1, <1>5, <2>1, TurnIsOver
  <2>3. \A j \in DOMAIN leaving : j # 1 => j - 1 \in DOMAIN leaving' /\ leaving'[j - 1] = leaving[j]
    <3> SUFFICES ASSUME NEW j \in DOMAIN leaving, j # 1
                 PROVE  j - 1 \in DOMAIN Tail(leaving) /\ Tail(leaving)[j - 1] = leaving[j]
      BY <2>1
    <3>1. /\ Len(leaving) \in Nat \ {0} /\ DOMAIN leaving = 1..Len(leaving)
          /\ DOMAIN Tail(leaving) = 1..(Len(leaving) - 1)
          /\ \A i \in 1..(Len(leaving) - 1) : Tail(leaving)[i] = leaving[i + 1]
      BY <1>1, <1>2, TailIs
    <3>2. j - 1 \in 1..(Len(leaving) - 1) /\ (j - 1) + 1 = j BY <3>1
    <3> QED BY <3>1, <3>2
  <2>4. TurnsInv(coord, leaving') BY <1>3 DEF TurnsInv
  <2>5. RenewedInv(coord, line, leaving', missed) BY <1>2, <1>8, <2>3, InvParts DEF RenewedInv
  <2>6. ASSUME line # <<>>, ~away' PROVE FrontInv(coord, line, leaving')
    <3>1. FrontInv(coord, line, leaving) /\ ~leaving[1].first BY <1>1, <1>2, <1>8, <2>6, InvParts
    <3>2. TurnComes(coord, leaving) => TurnComes(coord, leaving')
      BY <1>3, <2>3, <3>1 DEF TurnComes
    <3> QED BY <3>1, <3>2 DEF FrontInv
  <2>7. CoordInv(coord, line, leaving', missed, away') BY <2>4, <2>5, <2>6, InvParts DEF CoordInv
  <2>8. IdentifyTyped' BY <1>1, <1>4, InvParts DEF IdentifyTyped
  <2> QED BY <1>1, <2>1, <2>2, <2>7, <2>8, InvParts DEF IdentifyInv
<1> QED BY <1>6, <1>7, <1>8

LEMMA IdentifyBegins == IdentifyInit => IdentifyInv
<1> SUFFICES ASSUME IdentifyInit PROVE IdentifyInv OBVIOUS
<1>1. /\ coord = [blinking |-> Nobody, keeper |-> NoKeeper, calls |-> <<>>]
      /\ litFor = 0 /\ line = <<>> /\ leaving = <<>> /\ coming = Blinkers
      /\ glow = [d \in Blinkers |-> 0] /\ unanswered = 0 /\ stray = {} /\ missed = {} /\ away = FALSE
  BY DEF IdentifyInit
<1>2. <<>> \in Seq(CallType) /\ DOMAIN <<>> = {} /\ <<>> \in Seq(Blinkers) /\ <<>> \in Seq(TurnType)
  OBVIOUS
<1>3. coord \in CoordType /\ coord.calls = <<>> /\ coord.blinking = Nobody /\ coord.keeper = NoKeeper
  BY <1>1, <1>2, NoKeeperIs DEF CoordType
<1>4. QueueInv(coord) BY <1>2, <1>3, NoKeeperIs DEF QueueInv, KeeperFits, Free
<1>5. IdentifyTyped
  <2>1. 0 \in 0..BlinkTicks /\ 0 \in Nat /\ FALSE \in BOOLEAN BY IdentifyAssumption
  <2>2. glow \in [Blinkers -> 0..BlinkTicks] BY ONLY <1>1, <2>1
  <2> QED BY ONLY <1>1, <2>1, <2>2 DEF IdentifyTyped
<1>6. LineInv(line, leaving, coming) BY <1>1, <1>2 DEF LineInv
<1>7. TurnsInv(coord, leaving) /\ AskedInv(coord, line, missed) /\ RenewedInv(coord, line, leaving, missed)
  BY <1>2, <1>3, NoKeeperIs DEF TurnsInv, AskedInv, RenewedInv
<1>8. CoordInv(coord, line, leaving, missed, away) BY <1>1, <1>4, <1>7 DEF CoordInv
<1>9. LightInv(coord, glow, stray, unanswered, litFor)
  BY <1>1, <1>3 DEF LightInv, GlowInv, KeptInv
<1> QED BY <1>5, <1>6, <1>8, <1>9 DEF IdentifyInv

LEMMA IdentifyKeeps == IdentifyInv /\ [IdentifyNext]_identifyVars => IdentifyInv'
<1> SUFFICES ASSUME IdentifyInv, [IdentifyNext]_identifyVars PROVE IdentifyInv' OBVIOUS
<1>1. CASE LockTurn \/ StopAnswered \/ StopFails \/ LightAnswered \/ LightFails
  BY <1>1, LockTurnKeeps, StopKeeps, LightAnsweredKeeps, LightFailsKeeps
<1>2. CASE KeeperRenews \/ RenewalAnswered \/ RenewalFails \/ KeeperEnds
  BY <1>2, RenewsKeeps, RenewalKeeps, KeeperEndsKeeps
<1>3. CASE Tick \/ HandOn BY <1>3, TickKeeps, HandOnKeeps
<1>4. ASSUME NEW d \in Blinkers, FinishedNamed(d) \/ FinishedUnnamed(d) \/ LeavesLine(d) PROVE IdentifyInv'
  BY <1>4, FinishedNamedKeeps, FinishedUnnamedKeeps, LeavesLineKeeps
<1>5. ASSUME NEW d \in Blinkers, PressOff(d) \/ \E onCard \in BOOLEAN : PressOn(d, onCard) PROVE IdentifyInv'
  BY <1>5, PressKeeps
<1>6. CASE UNCHANGED identifyVars
  <2>1. UNCHANGED <<coord, litFor, line, leaving, coming, glow, unanswered, stray, missed, away>>
    BY <1>6 DEF identifyVars
  <2>2. IdentifyTyped' BY <2>1, InvParts DEF IdentifyTyped
  <2> QED BY <2>1, <2>2, InvParts DEF IdentifyInv, CoordInv
<1> QED BY <1>1, <1>2, <1>3, <1>4, <1>5, <1>6 DEF IdentifyNext
----------------------------------------
(* The blinking: what the invariant says. *)

LEMMA OneIsEnough ==
    ASSUME NEW S, \A d, e \in S : d = e
    PROVE  Cardinality(S) <= 1
<1>1. CASE S = {} BY <1>1, FS_EmptySet
<1>2. CASE S # {}
  <2>1. PICK x \in S : TRUE BY <1>2
  <2>2. S = {x} BY <2>1
  <2> QED BY <2>2, FS_Singleton
<1> QED BY <1>1, <1>2

LEMMA IdentifyIsSafe == IdentifyInv => IdentifySafe
<1> SUFFICES ASSUME IdentifyInv PROVE IdentifySafe OBVIOUS
<1>1. /\ IdentifyTyped /\ LineInv(line, leaving, coming) /\ QueueInv(coord) /\ TurnsInv(coord, leaving)
      /\ line # <<>> /\ ~away => FrontInv(coord, line, leaving)
      /\ RenewedInv(coord, line, leaving, missed)
      /\ GlowInv(coord, glow, stray) /\ KeptInv(coord, glow, unanswered, litFor)
  BY DEF IdentifyInv, CoordInv, LightInv
<1>2. /\ coord \in CoordType /\ coord.keeper \in KeeperType /\ coord.calls \in Seq(CallType)
      /\ coord.blinking \in Blinkers \cup {Nobody} /\ KeeperFits(coord)
  BY <1>1 DEF QueueInv, CoordType
<1>3. BlinkTicks \in Nat /\ BlinkTicks >= 3 /\ Nobody \notin Blinkers BY IdentifyAssumption
<1>4. glow \in [Blinkers -> 0..BlinkTicks] /\ litFor \in 0..BlinkTicks /\ unanswered \in Nat
  BY <1>1 DEF IdentifyTyped
<1>5. coord.keeper.left \in Nat BY <1>2 DEF KeeperType
<1>6. IdentifyTypeOK
  <2>1. coord.keeper.at \in {"none", "sleeps", "calls"} BY <1>2 DEF KeeperType
  <2>2. ASSUME NEW i \in DOMAIN coord.calls, i > 1 PROVE coord.calls[i].at = "waits"
    BY <1>1, <2>2 DEF QueueInv
  <2>3. line \in Seq(Blinkers) /\ coming \subseteq Blinkers BY <1>1 DEF LineInv
  <2> QED BY <1>2, <1>4, <2>1, <2>2, <2>3 DEF IdentifyTypeOK
<1>7. OneBlinks
  <2>1. ASSUME NEW d \in {x \in Blinkers \ stray : glow[x] > 0} PROVE Shining(coord, d)
    BY <1>1 DEF GlowInv
  <2>2. ASSUME NEW d \in Blinkers, NEW e \in Blinkers, Shining(coord, d), Shining(coord, e) PROVE d = e
    <3>1. coord.calls # <<>> /\ coord.calls[1].at # "waits" => coord.blinking = Nobody
      BY <1>1 DEF QueueInv, Free
    <3> QED BY <1>3, <2>2, <3>1 DEF Shining
  <2>3. \A d, e \in {x \in Blinkers \ stray : glow[x] > 0} : d = e BY <2>1, <2>2
  <2> QED BY <2>3, OneIsEnough DEF OneBlinks
<1>8. KeeperIsTheBlinkers BY <1>2 DEF KeeperFits, KeeperIsTheBlinkers
<1>9. OneRenewalMayFail
  <2> SUFFICES ASSUME coord.keeper.renews, unanswered <= 1 PROVE glow[coord.keeper.dev] > 0
    BY DEF OneRenewalMayFail
  <2>1. coord.blinking # Nobody /\ coord.keeper.dev = coord.blinking BY <1>2 DEF KeeperFits
  <2>2. glow[coord.blinking] + unanswered + 1 >= BlinkTicks + coord.keeper.left
    BY <1>1, <2>1 DEF KeptInv
  <2>3. glow[coord.blinking] \in Nat BY <1>2, <1>4, <2>1
  <2> QED BY ONLY <1>3, <1>4, <1>5, <2>1, <2>2, <2>3, unanswered <= 1
<1>10. LitIsTrue
  <2> SUFFICES ASSUME coord.blinking # Nobody, litFor > 0 PROVE glow[coord.blinking] > 0
    BY DEF LitIsTrue
  <2>1. litFor <= glow[coord.blinking] BY <1>1 DEF KeptInv
  <2>2. glow[coord.blinking] \in Nat /\ litFor \in Nat BY <1>2, <1>4
  <2> QED BY ONLY <2>1, <2>2, litFor > 0
<1>11. FrontBlinks
  <2> SUFFICES ASSUME coord.calls = <<>>, leaving = <<>>, line # <<>>, ~away
               PROVE  coord.blinking = Head(line) /\ coord.keeper.renews
    BY DEF FrontBlinks, Settled
  <2>1. FrontInv(coord, line, leaving) /\ DOMAIN coord.calls = {} /\ DOMAIN leaving = {} BY <1>1
  <2>2. ~TurnComes(coord, leaving) /\ ~StartComes(coord, line, 0)
    BY <2>1 DEF TurnComes, StartComes
  <2>3. FrontGlows(coord, line, 0) BY <2>1, <2>2 DEF FrontInv
  <2> QED BY <2>3 DEF FrontGlows, Foremost
<1>12. RenewsTheFront
  <2> SUFFICES ASSUME coord.calls = <<>>, leaving = <<>>, coord.keeper.renews, coord.keeper.dev \notin missed
               PROVE  AtFront(coord.keeper.dev)
    BY DEF RenewsTheFront, Settled
  <2>1. DOMAIN coord.calls = {} /\ DOMAIN leaving = {} /\ coord.keeper.dev = coord.blinking
    BY <1>2 DEF KeeperFits
  <2>2. Foremost(line, coord.blinking) BY <1>1, <2>1 DEF RenewedInv
  <2> QED BY <2>1, <2>2 DEF Foremost, AtFront
<1> QED BY <1>6, <1>7, <1>8, <1>9, <1>10, <1>11, <1>12 DEF IdentifySafe

----------------------------------------
(* The three parts side by side. *)

LEMMA SessionRests == ASSUME SessionInv, UNCHANGED vars PROVE SessionInv' /\ RunningStep
<1>1. /\ cards' = cards /\ created' = created /\ queue' = queue /\ naming' = naming
      /\ latest' = latest /\ dismissed' = dismissed /\ radio' = radio /\ results' = results
      /\ stage' = stage /\ todo' = todo /\ look' = look /\ work' = work /\ adding' = adding
      /\ up' = up /\ removals' = removals /\ drops' = drops /\ forgotten' = forgotten
  BY DEF vars
<1>2. Typed' BY <1>1 DEF SessionInv, Typed
<1>3. CardsInv' /\ NamingInv'
  <2>1. Board' = Board BY <1>1 DEF Board, WorkerActive
  <2> QED BY <1>1, <2>1 DEF SessionInv, CardsInv, NamingInv
<1>4. StagesInv' /\ RadioHeldByWork' /\ FoundOnce'
  BY <1>1 DEF SessionInv, StagesInv, RadioHeldByWork, FoundOnce
<1>5. WorkInv' BY <1>1 DEF SessionInv, WorkInv, PreRun, Picked, Running
<1>6. ServedInv'
  BY <1>1 DEF SessionInv, ServedInv, Served, AllQueued, Left, Board, Picked, WorkerActive
<1> QED BY <1>1, <1>2, <1>3, <1>4, <1>5, <1>6 DEF SessionInv, RunningStep

JoinInv == SessionInv /\ ResultsInv /\ loop \in Tasks \cup {None} /\ AttemptInv /\ IdentifyInv

LEMMA JoinBegins == JoinInit => JoinInv
<1> SUFFICES ASSUME JoinInit PROVE JoinInv OBVIOUS
<1>1. Init /\ AttemptInit /\ IdentifyInit BY DEF JoinInit
<1>2. loop \in Tasks \cup {None} BY <1>1 DEF Init
<1>3. ResultsInv BY <1>1, TaskNames DEF Init, ResultsInv
<1> QED BY <1>1, <1>2, <1>3, SessionInit, AttemptsBegin, IdentifyBegins DEF JoinInv

LEMMA JoinKeeps ==
    ASSUME JoinInv, [JoinNext]_joinVars
    PROVE  JoinInv' /\ RunningStep
<1>1. SessionInv /\ ResultsInv /\ loop \in Tasks \cup {None} /\ AttemptInv /\ IdentifyInv
  BY DEF JoinInv
<1>2. Next \/ UNCHANGED vars
  BY DEF JoinNext, SessionRuns, AttemptRuns, IdentifyRuns, Resting, joinVars
<1>3. [AttemptNext]_attemptVars
  BY DEF JoinNext, SessionRuns, AttemptRuns, IdentifyRuns, Resting, joinVars
<1>4. [IdentifyNext]_identifyVars
  BY DEF JoinNext, SessionRuns, AttemptRuns, IdentifyRuns, Resting, joinVars
<1>5. SessionInv' /\ ResultsInv' /\ RunningStep /\ loop' \in Tasks \cup {None}
  <2>1. CASE Next BY <1>1, <2>1, SessionKeeps, ResultsKeeps, LoopKeeps DEF Keeps
  <2>2. CASE UNCHANGED vars
    <3>1. loop' = loop /\ results' = results /\ stage' = stage BY <2>2 DEF vars
    <3>2. ResultsInv' BY <1>1, <3>1, ResultsStands
    <3> QED BY <1>1, <2>2, <3>1, <3>2, SessionRests
  <2> QED BY <1>2, <2>1, <2>2
<1>6. AttemptInv' BY <1>1, <1>3, AttemptKeeps
<1>7. IdentifyInv' BY <1>1, <1>4, IdentifyKeeps
<1> QED BY <1>5, <1>6, <1>7 DEF JoinInv

LEMMA JoinInvHolds == JoinSpec => []JoinInv
<1>1. JoinInv /\ [JoinNext]_joinVars => JoinInv' BY JoinKeeps
<1> QED BY JoinBegins, <1>1, PTL DEF JoinSpec

(* The cards, the naming line, the radio and the codes agree, the tracker *)
(* tells only of the attempt it shows, and one device blinks, the one that *)
(* waits for its name, whatever clicks, scans, failures and lost answers *)
(* come in between (commissioning/session.py, matter/commissioning_progress. *)
(* py and commissioning/identify.py). *)
THEOREM JoiningIsSafe == JoinSpec => []JoiningSafe
<1>1. JoinInv => JoiningSafe
  BY SessionIsSafe, AttemptIsSafe, IdentifyIsSafe DEF JoinInv, JoiningSafe
<1> QED BY JoinInvHolds, <1>1, PTL

(* A card that is being commissioned is changed only by the worker that *)
(* commissions it, at the end of its work (_run_card): neither a click nor a *)
(* scan takes it away from under the worker. *)
THEOREM RunningCardsAreTheWorkers == JoinSpec => RunningIsTheWorkers
<1>1. JoinInv /\ [JoinNext]_joinVars => RunningStep BY JoinKeeps
<1>2. RunningStep => [\A c \in Ids : cards[c].state = "running" /\ cards'[c] # cards[c]
                                     => c = work.card /\ stage["work"] # stage'["work"]]_vars
  BY DEF RunningStep
<1> QED BY JoinInvHolds, <1>1, <1>2, PTL DEF JoinSpec, RunningIsTheWorkers

(* Every queued card has its place in the queue and a worker that comes to *)
(* it (_enqueue, _ensure_worker), whatever is scanned, added, started, forced*)
(* and removed meanwhile; but for the cards that stood in the place of one *)
(* that was removed during the scan before its turn. *)
THEOREM QueuedCardsHaveAWorker == JoinSpec => []CardsAreServed
<1>1. JoinInv => CardsAreServed BY SessionIsSafe DEF JoinInv
<1> QED BY JoinInvHolds, <1>1, PTL
========================================
