------------------------ MODULE DetectionFeed_proofs ------------------------
(***************************************************************************)
(* What the live feed of EventFeed and its consumer of DetectionFeed keep, *)
(* for every number of events, connection threads, hosts and restarts and  *)
(* all sizes of batches and buffers.  The order: sequences and finite      *)
(* sets, the steps of insert_batch, the types, who gave out which number   *)
(* and id, the host buffers, the response, the order of the buffers, and   *)
(* the cursor.                                                             *)
(***************************************************************************)
EXTENDS DetectionFeed, SequenceTheorems, FiniteSetTheorems, WellFoundedInduction,
        NaturalsInduction, TLAPS

(* A set of natural numbers has a least one: what stands in for induction. *)
LEMMA LeastOf ==
  ASSUME NEW S \in SUBSET Nat, S # {}
  PROVE  \E m \in S : \A k \in S : m <= k
<1> DEFINE R == {p \in Nat \X Nat : p[1] < p[2]}
<1>1. IsWellFoundedOn(R, Nat)
  BY NatLessThanWellFounded, Zenon DEF OpToRel
<1>2. PICK m \in S : \A k \in S : <<k, m>> \notin R
  BY <1>1, WFMin
<1>3. \A k \in S : m <= k
  <2> SUFFICES ASSUME NEW k \in S PROVE m <= k
    OBVIOUS
  <2>1. k \in Nat /\ m \in Nat /\ <<k, m>> \notin R
    BY <1>2
  <2> QED
    BY <2>1
<1> QED
  BY <1>3

(* What Those does up to position n: there is one such function.           *)
Sifts(f, q, T, n) ==
  f = [i \in 0..n |-> IF i = 0 THEN <<>>
                      ELSE IF q[i] \in T THEN Append(f[i - 1], q[i]) ELSE f[i - 1]]

LEMMA SiftExists ==
  ASSUME NEW q, NEW T, NEW n \in Nat
  PROVE  \E f : Sifts(f, q, T, n)
<1> DEFINE Bad == {m \in Nat : ~\E f : Sifts(f, q, T, m)}
<1> SUFFICES ASSUME Bad # {} PROVE FALSE
  OBVIOUS
<1>1. PICK m \in Bad : \A k \in Bad : m <= k
  BY LeastOf
<1>2. CASE m = 0
  <2> DEFINE f == [i \in 0..0 |-> <<>>]
  <2>1. Sifts(f, q, T, 0)
    BY DEF Sifts
  <2> QED
    BY <1>1, <1>2, <2>1
<1>3. CASE m # 0
  <2>1. m \in Nat /\ m - 1 \in Nat /\ m - 1 < m
    BY <1>1, <1>3
  <2>2. PICK g : Sifts(g, q, T, m - 1)
    BY <1>1, <2>1
  <2> DEFINE f == [i \in 0..m |-> IF i < m THEN g[i]
                                  ELSE IF q[m] \in T THEN Append(g[m - 1], q[m])
                                                     ELSE g[m - 1]]
  <2>3. \A i \in 0..(m - 1) : f[i] = g[i] /\ i \in 0..m
    BY <2>1
  <2>4. \A i \in 0..(m - 1) :
          g[i] = IF i = 0 THEN <<>>
                 ELSE IF q[i] \in T THEN Append(g[i - 1], q[i]) ELSE g[i - 1]
    BY <2>2 DEF Sifts
  <2>5. \A i \in 0..m :
          f[i] = IF i = 0 THEN <<>>
                 ELSE IF q[i] \in T THEN Append(f[i - 1], q[i]) ELSE f[i - 1]
    <3> SUFFICES ASSUME NEW i \in 0..m
                 PROVE  f[i] = IF i = 0 THEN <<>>
                               ELSE IF q[i] \in T THEN Append(f[i - 1], q[i]) ELSE f[i - 1]
      OBVIOUS
    <3>1. CASE i = m
      <4>1. f[m - 1] = g[m - 1] /\ m \in 0..m
        BY <2>1, <2>3
      <4>2. f[m] = IF q[m] \in T THEN Append(g[m - 1], q[m]) ELSE g[m - 1]
        BY <2>1, <4>1
      <4> HIDE DEF f
      <4> QED
        BY <1>3, <3>1, <4>1, <4>2
    <3>2. CASE i # m
      <4>1. i \in 0..(m - 1) /\ (i # 0 => i - 1 \in 0..(m - 1))
        BY <2>1, <3>2
      <4>2. f[i] = g[i] /\ (i # 0 => f[i - 1] = g[i - 1])
        BY <2>3, <4>1
      <4> HIDE DEF f
      <4> QED
        BY <2>4, <4>1, <4>2
    <3> QED
      BY <3>1, <3>2
  <2>6. f = [i \in 0..m |-> f[i]]
    OBVIOUS
  <2> HIDE DEF f
  <2>7. Sifts(f, q, T, m)
    BY <2>5, <2>6 DEF Sifts
  <2> QED
    BY <1>1, <2>7
<1> QED
  BY <1>2, <1>3

(* r is q without some of its elements, the others in their order.         *)
FirstOf(q, n) == {q[j] : j \in 1..n}
PartOf(r, q, n) ==
  \E g \in [1..Len(r) -> 1..n] :
    /\ \A k \in 1..Len(r) : r[k] = q[g[k]]
    /\ \A j, k \in 1..Len(r) : j < k => g[j] < g[k]

TakesOf(r, q, n, T) == Range(r) = FirstOf(q, n) \cap T
OrSkip(r, x, T) == IF x \in T THEN Append(r, x) ELSE r

LEMMA SiftStep ==
  ASSUME NEW S, NEW q \in Seq(S), NEW T, NEW i \in 1..Len(q), NEW n, n = i - 1,
         NEW r \in Seq(S), PartOf(r, q, n), TakesOf(r, q, n, T),
         NEW s, s = OrSkip(r, q[i], T)
  PROVE  s \in Seq(S) /\ PartOf(s, q, i) /\ TakesOf(s, q, i, T)
<1>1. i \in Nat /\ q[i] \in S /\ 1..i = 1..(i - 1) \cup {i} /\ Len(r) \in Nat
  BY LenProperties, ElementOfSeq
<1>2. PICK g \in [1..Len(r) -> 1..(i - 1)] :
        /\ \A k \in 1..Len(r) : r[k] = q[g[k]]
        /\ \A j, k \in 1..Len(r) : j < k => g[j] < g[k]
  BY DEF PartOf
<1>3. FirstOf(q, i) = FirstOf(q, i - 1) \cup {q[i]}
  BY <1>1 DEF FirstOf
<1>4. CASE q[i] \notin T
  <2>1. g \in [1..Len(r) -> 1..i]
    BY <1>1, <1>2
  <2>2. PartOf(r, q, i)
    BY <1>2, <2>1 DEF PartOf
  <2> QED
    BY <1>3, <1>4, <2>2 DEF OrSkip, TakesOf
<1>5. CASE q[i] \in T
  <2>1. /\ s = Append(r, q[i]) /\ s \in Seq(S) /\ Len(s) = Len(r) + 1
        /\ \A k \in 1..Len(r) : s[k] = r[k]
        /\ s[Len(r) + 1] = q[i]
    BY <1>1, <1>5, AppendProperties DEF OrSkip
  <2> DEFINE h == [k \in 1..(Len(r) + 1) |-> IF k = Len(r) + 1 THEN i ELSE g[k]]
  <2>2. \A k \in 1..(Len(r) + 1) : k # Len(r) + 1 => k \in 1..Len(r)
    BY <1>1
  <2>3. /\ h \in [1..Len(s) -> 1..i] /\ h[Len(r) + 1] = i
        /\ \A k \in 1..Len(r) : h[k] = g[k] /\ g[k] \in 1..(i - 1)
    <3>1. \A k \in 1..Len(r) : g[k] \in 1..(i - 1) /\ g[k] \in 1..i /\ k # Len(r) + 1
      BY <1>1, <1>2
    <3>2. \A k \in 1..(Len(r) + 1) : h[k] \in 1..i
      BY <1>1, <2>2, <3>1
    <3>3. \A k \in 1..Len(r) : k \in 1..(Len(r) + 1)
      BY <1>1
    <3>4. Len(r) + 1 \in 1..(Len(r) + 1)
      BY <1>1
    <3> QED
      BY <2>1, <3>1, <3>2, <3>3, <3>4
  <2> HIDE DEF h
  <2>4. \A k \in 1..Len(s) : s[k] = q[h[k]]
    BY <1>2, <2>1, <2>2, <2>3
  <2>5. \A j, k \in 1..Len(s) : j < k => h[j] < h[k]
    <3> SUFFICES ASSUME NEW j \in 1..Len(s), NEW k \in 1..Len(s), j < k
                 PROVE  h[j] < h[k]
      OBVIOUS
    <3>1. j \in 1..Len(r) /\ h[j] \in 1..(i - 1)
      BY <1>1, <2>1, <2>3
    <3>2. CASE k = Len(r) + 1
      BY <1>1, <2>3, <3>1, <3>2
    <3>3. CASE k # Len(r) + 1
      BY <1>2, <2>1, <2>2, <2>3, <3>1, <3>3
    <3> QED
      BY <3>2, <3>3
  <2>6. PartOf(s, q, i)
    BY <2>3, <2>4, <2>5 DEF PartOf
  <2>7. Range(s) = Range(r) \cup {q[i]}
    <3>1. Range(s) = {s[k] : k \in 1..Len(s)} /\ Range(r) = {r[k] : k \in 1..Len(r)}
      BY <2>1, RangeEquality
    <3>2. 1..Len(s) = 1..Len(r) \cup {Len(r) + 1}
      BY <1>1, <2>1
    <3>3. {s[k] : k \in 1..Len(s)} = {s[k] : k \in 1..Len(r)} \cup {s[Len(r) + 1]}
      BY <3>2
    <3>4. {s[k] : k \in 1..Len(r)} = {r[k] : k \in 1..Len(r)}
      BY <2>1
    <3> QED
      BY <2>1, <3>1, <3>3, <3>4
  <2> QED
    BY <1>3, <1>5, <2>1, <2>6, <2>7 DEF TakesOf
<1> QED
  BY <1>4, <1>5

(* What is sifted out, in its order.                                       *)
LEMMA ThoseAre ==
  ASSUME NEW S, NEW q \in Seq(S), NEW T
  PROVE  /\ Those(q, T) \in Seq(S) /\ Range(Those(q, T)) = Range(q) \cap T
         /\ PartOf(Those(q, T), q, Len(q))
<1> DEFINE f == CHOOSE f : Sifts(f, q, T, Len(q))
           Good(i) == /\ f[i] \in Seq(S) /\ PartOf(f[i], q, i)
                      /\ TakesOf(f[i], q, i, T)
           Bad == {i \in Nat : i \in 0..Len(q) /\ ~Good(i)}
<1>1. Those(q, T) = f[Len(q)]
  BY DEF Those, Sifts
<1>2. Sifts(f, q, T, Len(q)) /\ Len(q) \in Nat
  <2>1. Len(q) \in Nat
    BY LenProperties
  <2> QED
    BY <2>1, SiftExists
<1> HIDE DEF f
<1>3. \A i \in 0..Len(q) :
        f[i] = IF i = 0 THEN <<>>
               ELSE IF q[i] \in T THEN Append(f[i - 1], q[i]) ELSE f[i - 1]
  BY <1>2 DEF Sifts
<1>4. ASSUME Bad # {} PROVE FALSE
  <2>1. PICK m \in Bad : \A k \in Bad : m <= k
    <3> HIDE DEF Bad
    <3>1. Bad \in SUBSET Nat
      BY DEF Bad
    <3> QED
      BY <1>4, <3>1, LeastOf
  <2>2. m \in Nat /\ m \in 0..Len(q) /\ ~Good(m)
    BY <2>1
  <2>3. CASE m = 0
    <3>1. f[0] = <<>>
      BY <1>2, <1>3
    <3>2. /\ <<>> \in Seq(S) /\ Range(<<>>) = {} /\ FirstOf(q, 0) = {}
          /\ Len(<<>>) = 0
      BY EmptySeq DEF Range, FirstOf
    <3>3. PartOf(<<>>, q, 0)
      <4>1. 1..Len(<<>>) = {}
        BY <3>2
      <4>2. [k \in {} |-> k] \in [{} -> 1..0]
        OBVIOUS
      <4> QED
        BY <4>1, <4>2 DEF PartOf
    <3> QED
      BY <2>2, <2>3, <3>1, <3>2, <3>3 DEF TakesOf
  <2>4. CASE m # 0
    <3>1. m \in 1..Len(q) /\ m - 1 \in 0..Len(q) /\ m - 1 \in Nat /\ ~(m <= m - 1)
      BY <1>2, <2>2, <2>4
    <3>2. Good(m - 1)
      BY <2>1, <3>1
    <3>3. f[m] = IF q[m] \in T THEN Append(f[m - 1], q[m]) ELSE f[m - 1]
      BY <1>3, <2>2, <2>4
    <3>4. PICK r : r = f[m - 1]
      OBVIOUS
    <3>5. PICK s : s = f[m]
      OBVIOUS
    <3>9. PICK n : n = m - 1
      OBVIOUS
    <3>6. r \in Seq(S) /\ PartOf(r, q, n) /\ TakesOf(r, q, n, T)
      BY <3>2, <3>4, <3>9
    <3>7. s = OrSkip(r, q[m], T)
      BY <3>3, <3>4, <3>5 DEF OrSkip
    <3>8. s \in Seq(S) /\ PartOf(s, q, m) /\ TakesOf(s, q, m, T)
      <4> HIDE DEF Good, Bad
      <4> QED
        BY <3>1, <3>6, <3>7, <3>9, SiftStep
    <3> QED
      BY <2>2, <3>5, <3>8
  <2> QED
    BY <2>3, <2>4
<1>5. Good(Len(q))
  <2>1. Len(q) \in 0..Len(q)
    BY <1>2
  <2> QED
    BY <1>2, <1>4, <2>1
<1>6. Range(q) = FirstOf(q, Len(q))
  BY RangeEquality DEF FirstOf
<1> QED
  BY <1>1, <1>5, <1>6 DEF TakesOf

-----------------------------------------------------------------------------
(* A finite set of numbers has a greatest one, and Max is it.              *)
Tops(T) == {x \in T : \A y \in T : y <= x}

LEMMA TopExists ==
  ASSUME NEW S \in SUBSET Nat, IsFiniteSet(S), S # {}
  PROVE  Tops(S) # {}
<1> DEFINE Bad == {c \in Nat : \E T \in SUBSET S : /\ IsFiniteSet(T) /\ Cardinality(T) = c
                                                   /\ T # {} /\ Tops(T) = {}}
<1>1. ASSUME Bad # {} PROVE FALSE
  <2>1. PICK m \in Bad : \A k \in Bad : m <= k
    <3> HIDE DEF Bad
    <3>1. Bad \in SUBSET Nat
      BY DEF Bad
    <3> QED
      BY <1>1, <3>1, LeastOf
  <2>2. PICK T \in SUBSET S : /\ IsFiniteSet(T) /\ Cardinality(T) = m
                              /\ T # {} /\ Tops(T) = {}
    BY <2>1
  <2>3. PICK x \in T : TRUE
    BY <2>2
  <2> DEFINE U == T \ {x}
  <2>4. IsFiniteSet(U) /\ Cardinality(U) = m - 1 /\ Cardinality(U) \in Nat /\ U \in SUBSET S
    BY <2>2, <2>3, FS_RemoveElement, FS_CardinalityType
  <2>5. m \in Nat /\ ~(m <= m - 1) /\ m - 1 \notin Bad
    BY <2>1, <2>4
  <2>6. CASE U = {}
    <3>1. x \in Tops(T)
      BY <2>3, <2>6 DEF Tops
    <3> QED
      BY <2>2, <3>1
  <2>7. CASE U # {}
    <3>1. PICK y \in Tops(U) : TRUE
      BY <2>4, <2>5, <2>7
    <3>2. y \in T /\ \A z \in T : z # x => z <= y
      BY <3>1 DEF Tops
    <3>3. x \in Nat /\ y \in Nat
      BY <2>2, <2>3, <3>2
    <3>4. x \in Tops(T) \/ y \in Tops(T)
      <4>1. CASE x <= y
        BY <3>2, <4>1 DEF Tops
      <4>2. CASE y < x
        <5>1. \A z \in T : z \in Nat /\ (z # x => z <= y)
          BY <2>2, <3>2
        <5> QED
          BY <2>3, <3>3, <4>2, <5>1 DEF Tops
      <4> QED
        BY <3>3, <4>1, <4>2
    <3> QED
      BY <2>2, <3>4
  <2> QED
    BY <2>6, <2>7
<1>2. Cardinality(S) \in Nat
  BY FS_CardinalityType
<1> QED
  BY <1>1, <1>2

LEMMA MaxIs ==
  ASSUME NEW S \in SUBSET Nat, IsFiniteSet(S), S # {}
  PROVE  Max(S) \in S /\ \A x \in S : x <= Max(S)
<1>1. PICK x \in S : \A y \in S : y <= x
  BY TopExists DEF Tops
<1>2. \A y \in S : x >= y
  BY <1>1
<1>3. Max(S) \in S /\ \A y \in S : Max(S) >= y
  BY <1>2 DEF Max
<1> QED
  BY <1>3

(* The elements of a sequence, of a concatenation and of an extension.     *)
LEMMA RangeIs ==
  ASSUME NEW S, NEW q \in Seq(S)
  PROVE  /\ Range(q) = {q[i] : i \in 1..Len(q)} /\ Range(q) \subseteq S
         /\ IsFiniteSet(Range(q)) /\ Cardinality(Range(q)) <= Len(q)
<1>1. Len(q) \in Nat /\ Range(q) = {q[i] : i \in 1..Len(q)} /\ q \in [1..Len(q) -> S]
  BY LenProperties, RangeEquality
<1>2. q \in Surjection(1..Len(q), Range(q))
  <2>1. q \in [1..Len(q) -> Range(q)]
    BY <1>1
  <2> QED
    BY <1>1, <2>1 DEF Surjection
<1>3. IsFiniteSet(1..Len(q)) /\ Cardinality(1..Len(q)) = Len(q)
  BY <1>1, FS_Interval
<1>4. IsFiniteSet(Range(q)) /\ Cardinality(Range(q)) <= Len(q)
  BY <1>2, <1>3, FS_Surjection
<1> QED
  BY <1>1, <1>4

LEMMA RangeOfConcat ==
  ASSUME NEW S, NEW q \in Seq(S), NEW r \in Seq(S)
  PROVE  Range(q \o r) = Range(q) \cup Range(r)
<1>1. /\ Len(q) \in Nat /\ Len(r) \in Nat /\ Len(q \o r) = Len(q) + Len(r)
      /\ q \o r \in Seq(S)
      /\ \A i \in 1..Len(q) : (q \o r)[i] = q[i]
      /\ \A i \in 1..Len(r) : (q \o r)[Len(q) + i] = r[i]
  BY ConcatProperties, LenProperties
<1>2. /\ Range(q) = {q[i] : i \in 1..Len(q)} /\ Range(r) = {r[i] : i \in 1..Len(r)}
      /\ Range(q \o r) = {(q \o r)[i] : i \in 1..(Len(q) + Len(r))}
  BY <1>1, RangeIs
<1>3. ASSUME NEW i \in 1..(Len(q) + Len(r)) PROVE (q \o r)[i] \in Range(q) \cup Range(r)
  <2>1. CASE i <= Len(q)
    BY <1>1, <1>2, <2>1
  <2>2. CASE i > Len(q)
    <3>1. PICK j \in 1..Len(r) : i = Len(q) + j
      <4>1. i - Len(q) \in 1..Len(r) /\ i = Len(q) + (i - Len(q))
        BY <1>1, <2>2
      <4> QED
        BY <4>1
    <3> QED
      BY <1>1, <1>2, <3>1
  <2> QED
    BY <1>1, <2>1, <2>2
<1>4. /\ \A i \in 1..Len(q) : i \in 1..(Len(q) + Len(r))
      /\ \A i \in 1..Len(r) : Len(q) + i \in 1..(Len(q) + Len(r))
  BY <1>1
<1> QED
  BY <1>1, <1>2, <1>3, <1>4

LEMMA RangeOfAppend ==
  ASSUME NEW S, NEW q \in Seq(S), NEW x \in S
  PROVE  Range(Append(q, x)) = Range(q) \cup {x}
<1>1. /\ Append(q, x) \in Seq(S) /\ Len(Append(q, x)) = Len(q) + 1 /\ Len(q) \in Nat
      /\ \A i \in 1..Len(q) : Append(q, x)[i] = q[i]
      /\ Append(q, x)[Len(q) + 1] = x
  BY AppendProperties, LenProperties
<1>2. 1..(Len(q) + 1) = 1..Len(q) \cup {Len(q) + 1}
  BY <1>1
<1>3. Range(Append(q, x)) = {Append(q, x)[i] : i \in 1..(Len(q) + 1)}
      /\ Range(q) = {q[i] : i \in 1..Len(q)}
  BY <1>1, RangeIs
<1> QED
  BY <1>1, <1>2, <1>3

LEMMA EmptyIs == Range(<<>>) = {} /\ Len(<<>>) = 0 /\ \A S : <<>> \in Seq(S)
BY EmptySeq DEF Range

(* A full deque keeps the last BufferMax elements, at the same distances.  *)
Kept(p, r, d) ==
  /\ d \in 0..Len(r) /\ Len(p) = Len(r) - d
  /\ \A i \in 1..Len(p) : p[i] = r[i + d]
  /\ (d = 0 /\ Len(r) <= BufferMax) \/ (d = Len(r) - BufferMax /\ Len(r) > BufferMax)

LEMMA PushedIs ==
  ASSUME NEW S, NEW q \in Seq(S), NEW events \in Seq(S)
  PROVE  /\ Pushed(q, events) \in Seq(S) /\ Len(Pushed(q, events)) <= BufferMax
         /\ Range(Pushed(q, events)) \subseteq Range(q) \cup Range(events)
         /\ \E d : Kept(Pushed(q, events), q \o events, d)
<1> DEFINE r == q \o events
           d == IF Len(r) > BufferMax THEN Len(r) - BufferMax ELSE 0
           p == SubSeq(r, 1 + d, Len(r))
<1>1. p = Pushed(q, events)
  BY DEF Pushed
<1>2. r \in Seq(S) /\ Len(r) \in Nat /\ BufferMax \in Nat /\ BufferMax > 0
  BY ConcatProperties, LenProperties, FeedAssumption
<1>3. Range(r) = Range(q) \cup Range(events)
  BY RangeOfConcat
<1> HIDE DEF r
<1>4. d \in 0..Len(r) /\ Len(r) - d <= BufferMax
      /\ ((d = 0 /\ Len(r) <= BufferMax) \/ (d = Len(r) - BufferMax /\ Len(r) > BufferMax))
  BY <1>2
<1> HIDE DEF d
<1>5. \A i \in (1 + d)..Len(r) : r[i] \in S
  BY <1>2, <1>4, ElementOfSeq
<1>6. 1 + d \in Int /\ Len(r) \in Int
  BY <1>2, <1>4
<1>7. /\ p \in Seq(S) /\ Len(p) = (IF 1 + d <= Len(r) THEN Len(r) - (1 + d) + 1 ELSE 0)
      /\ \A i \in 1..(Len(r) - (1 + d) + 1) : p[i] = r[(1 + d) + i - 1]
  BY <1>5, <1>6, SubSeqProperties
<1> HIDE DEF p
<1>8. Len(p) = Len(r) - d
  BY <1>2, <1>4, <1>7
<1>9. \A i \in 1..Len(p) : p[i] = r[i + d] /\ i + d \in 1..Len(r)
  BY <1>2, <1>4, <1>7, <1>8
<1>10. Range(p) \subseteq Range(r)
  BY <1>2, <1>7, <1>9, RangeIs
<1>11. Kept(p, r, d)
  BY <1>4, <1>8, <1>9 DEF Kept
<1> QED
  BY <1>1, <1>3, <1>4, <1>7, <1>8, <1>10, <1>11 DEF r

-----------------------------------------------------------------------------
(* Types.                                                                  *)
FeedTyped ==
  /\ seq \in Nat /\ hot \in Seq(Event) /\ buf \in [Hosts -> Seq(Event)]
  /\ at \in [Threads -> {"ids", "host", "log"}]
  /\ batch \in [Threads -> Seq(Event)]
  /\ \A t \in Threads : at[t] # "ids" => batch[t] # <<>>
  /\ parquet \subseteq Event /\ IsFiniteSet(parquet)
  /\ boots \in 0..MaxBoots /\ count \in 0..MaxEvents
  /\ Len(hot) <= BufferMax /\ \A h \in Hosts : Len(buf[h]) <= BufferMax
  /\ overtaken \in SUBSET Event
EngineTyped ==
  /\ cursor \in Nat /\ snap \in Seq(Event)
  /\ phase \in {"probe", "since", "merge", "analyse"} \cup Supplements
  /\ got \in SUBSET Event /\ seen \in SUBSET Event /\ missed \in SUBSET Event
  /\ IsFiniteSet(got)
  /\ hist \in Seq(0..Window) /\ alerted \in BOOLEAN /\ faults \in 0..MaxFaults
  /\ cut \in SUBSET Event /\ rewound \in BOOLEAN

LEMMA EventIs ==
  ASSUME NEW e \in Event
  PROVE  /\ e.n \in 1..MaxEvents /\ e.id \in Nat /\ e.host \in Hosts /\ e.kind \in Kinds
         /\ e.boot \in 0..MaxBoots
BY DEF Event

LEMMA NumbersAreBounded ==
  /\ MaxEvents \in Nat /\ MaxBatch \in Nat /\ MaxBatch > 0 /\ BufferMax \in Nat /\ BufferMax > 0
  /\ LegacyMax \in Nat /\ MaxBoots \in Nat /\ IsFiniteSet(Hosts) /\ Limit \in Nat
  /\ Cardinality(Hosts) <= Limit /\ Window \in Nat /\ MaxFaults \in Nat
  /\ Threshold \in Nat /\ Threshold > 0
BY FeedAssumption, EngineAssumption

LEMMA IdsOf ==
  ASSUME NEW A \in SUBSET Event, IsFiniteSet(A)
  PROVE  Ids(A) \in SUBSET Nat /\ IsFiniteSet(Ids(A)) /\ (A # {} => Ids(A) # {})
<1>1. \A e \in A : e.id \in Nat
  BY EventIs
<1> DEFINE f == [e \in A |-> e.id]
<1>2. f \in Surjection(A, Ids(A))
  BY DEF Surjection, Ids
<1>3. IsFiniteSet(Ids(A))
  BY <1>2, FS_Surjection
<1> QED
  BY <1>1, <1>3 DEF Ids

(* The newest of some events is one of them.                               *)
LEMMA NewestIs ==
  ASSUME NEW A \in SUBSET Event, IsFiniteSet(A), A # {}
  PROVE  /\ Max(Ids(A)) \in Nat
         /\ \E e \in A : e.id = Max(Ids(A))
         /\ \A e \in A : e.id <= Max(Ids(A))
<1>1. Max(Ids(A)) \in Ids(A) /\ \A x \in Ids(A) : x <= Max(Ids(A))
  BY IdsOf, MaxIs
<1> QED
  BY <1>1, IdsOf DEF Ids

LEMMA SeedIs ==
  ASSUME FeedTyped
  PROVE  /\ Seed \in Nat
         /\ LegacyMax = 0 => \A e \in parquet : e.id <= Seed
<1>1. parquet \in SUBSET Event /\ IsFiniteSet(parquet)
  BY DEF FeedTyped
<1>2. CASE LegacyMax > 0
  BY <1>2, NumbersAreBounded DEF Seed
<1>3. CASE ~(LegacyMax > 0)
  <2>1. Seed = MaxOfParquet
    BY <1>3 DEF Seed
  <2>2. CASE parquet = {}
    BY <2>1, <2>2 DEF MaxOfParquet
  <2>3. CASE parquet # {}
    <3>1. /\ Max(Ids(parquet)) \in Nat
          /\ \A e \in parquet : e.id <= Max(Ids(parquet)) /\ e.id \in Nat
      BY <1>1, <2>3, NewestIs, EventIs
    <3>2. Seed = Max(Ids(parquet)) + 1
      BY <2>1, <2>3 DEF MaxOfParquet
    <3> QED
      BY <3>1, <3>2
  <2> QED
    BY <2>2, <2>3
<1> QED
  BY <1>2, <1>3, NumbersAreBounded

-----------------------------------------------------------------------------
(* The steps of insert_batch, one by one.                                  *)
LEMMA AssignIdIs ==
  ASSUME FeedTyped, NEW t \in Threads, AssignId(t)
  PROVE  \E e \in Event :
           /\ e.n = count + 1 /\ e.id = NextId /\ e.boot = boots
           /\ batch' = [batch EXCEPT ![t] = Append(batch[t], e)]
           /\ at[t] = "ids" /\ Len(batch[t]) < MaxBatch /\ count < MaxEvents
           /\ seq' = NextId /\ seq' \in Nat /\ seq < seq' /\ count' = count + 1
           /\ UNCHANGED <<hot, buf, at, parquet, boots, overtaken>>
<1>1. PICK h \in Hosts, k \in Kinds :
        batch' = [batch EXCEPT ![t] =
                   Append(batch[t], [n |-> count + 1, id |-> NextId, host |-> h,
                                     kind |-> k, boot |-> boots])]
  BY DEF AssignId
<1>2. seq \in Nat /\ boots \in 0..MaxBoots /\ count \in 0..MaxEvents
      /\ MaxEvents \in Nat /\ MaxBoots \in Nat
  BY NumbersAreBounded DEF FeedTyped
<1>3. ClockSeed \in Nat /\ ClockSeed > 0
  BY <1>2 DEF ClockSeed
<1>4. NextId \in Nat /\ seq < NextId
  BY <1>2, <1>3 DEF NextId
<1>5. count + 1 \in 1..MaxEvents
  BY <1>2 DEF AssignId
<1> DEFINE e == [n |-> count + 1, id |-> NextId, host |-> h, kind |-> k, boot |-> boots]
<1>6. e \in Event
  BY <1>2, <1>4, <1>5 DEF Event
<1>7. e.n = count + 1 /\ e.id = NextId /\ e.boot = boots
  OBVIOUS
<1>8. batch' = [batch EXCEPT ![t] = Append(batch[t], e)]
  BY <1>1
<1> HIDE DEF e
<1> QED
  BY <1>4, <1>6, <1>7, <1>8 DEF AssignId

LEMMA BatchIs ==
  ASSUME FeedTyped, NEW t \in Threads
  PROVE  /\ batch[t] \in Seq(Event) /\ Len(batch[t]) \in Nat
         /\ Range(batch[t]) \subseteq Event /\ IsFiniteSet(Range(batch[t]))
<1>1. batch[t] \in Seq(Event)
  BY DEF FeedTyped
<1> QED
  BY <1>1, LenProperties, RangeIs

LEMMA AssignTyped ==
  ASSUME FeedTyped, NEW t \in Threads, AssignId(t)
  PROVE  FeedTyped'
<1>1. PICK e \in Event :
           /\ batch' = [batch EXCEPT ![t] = Append(batch[t], e)]
           /\ at[t] = "ids" /\ count < MaxEvents
           /\ seq' \in Nat /\ count' = count + 1
           /\ UNCHANGED <<hot, buf, at, parquet, boots, overtaken>>
  BY AssignIdIs
<1>2. Append(batch[t], e) \in Seq(Event)
  BY BatchIs, AppendProperties
<1>3. batch' \in [Threads -> Seq(Event)]
  BY <1>1, <1>2 DEF FeedTyped
<1>4. \A u \in Threads : at'[u] # "ids" => batch'[u] # <<>>
  BY <1>1 DEF FeedTyped
<1>5. count' \in 0..MaxEvents
  BY <1>1, NumbersAreBounded DEF FeedTyped
<1> QED
  BY <1>1, <1>3, <1>4, <1>5 DEF FeedTyped

LEMMA PutHotTyped ==
  ASSUME FeedTyped, NEW t \in Threads, PutHot(t)
  PROVE  FeedTyped'
<1>1. Pushed(hot, batch[t]) \in Seq(Event) /\ Len(Pushed(hot, batch[t])) <= BufferMax
  BY BatchIs, PushedIs DEF FeedTyped
<1>2. at' \in [Threads -> {"ids", "host", "log"}]
  BY DEF PutHot, FeedTyped
<1>3. \A u \in Threads : at'[u] # "ids" => batch'[u] # <<>>
  BY DEF PutHot, FeedTyped
<1>4. overtaken' \in SUBSET Event
  BY BatchIs DEF PutHot, Overtaken, FeedTyped
<1> QED
  BY <1>1, <1>2, <1>3, <1>4 DEF PutHot, FeedTyped

(* What the buffer of a host gets of a batch.                              *)
OfHost(t, h) == Those(batch[t], {e \in Range(batch[t]) : BufferOf(e) = h})

LEMMA OfHostIs ==
  ASSUME FeedTyped, NEW t \in Threads, NEW h \in Hosts
  PROVE  /\ OfHost(t, h) \in Seq(Event)
         /\ Range(OfHost(t, h)) = {e \in Range(batch[t]) : e.host = h}
         /\ PartOf(OfHost(t, h), batch[t], Len(batch[t]))
<1>1. batch[t] \in Seq(Event)
  BY BatchIs
<1> DEFINE T == {e \in Range(batch[t]) : BufferOf(e) = h}
<1>2. /\ Those(batch[t], T) \in Seq(Event) /\ Range(Those(batch[t], T)) = Range(batch[t]) \cap T
      /\ PartOf(Those(batch[t], T), batch[t], Len(batch[t]))
  <2> HIDE DEF T
  <2> QED
    BY <1>1, ThoseAre
<1>3. Range(batch[t]) \cap T = {e \in Range(batch[t]) : e.host = h}
  BY DEF BufferOf
<1> QED
  BY <1>2, <1>3 DEF OfHost

LEMMA PutHostIs ==
  ASSUME FeedTyped, NEW t \in Threads, PutHost(t)
  PROVE  /\ at[t] = "host" /\ at' = [at EXCEPT ![t] = "log"]
         /\ \A h \in Hosts : buf'[h] = Pushed(buf[h], OfHost(t, h))
         /\ UNCHANGED <<seq, hot, batch, parquet, boots, count, overtaken>>
BY DEF PutHost, OfHost

LEMMA PutHostTyped ==
  ASSUME FeedTyped, NEW t \in Threads, PutHost(t)
  PROVE  FeedTyped'
<1>1. \A h \in Hosts : Pushed(buf[h], OfHost(t, h)) \in Seq(Event)
                       /\ Len(Pushed(buf[h], OfHost(t, h))) <= BufferMax
  <2> SUFFICES ASSUME NEW h \in Hosts
               PROVE  Pushed(buf[h], OfHost(t, h)) \in Seq(Event)
                      /\ Len(Pushed(buf[h], OfHost(t, h))) <= BufferMax
    OBVIOUS
  <2>1. buf[h] \in Seq(Event) /\ OfHost(t, h) \in Seq(Event)
    BY OfHostIs DEF FeedTyped
  <2> QED
    BY <2>1, PushedIs
<1>2. buf' = [h \in Hosts |-> Pushed(buf[h], OfHost(t, h))]
  BY DEF PutHost, OfHost
<1>3. buf' \in [Hosts -> Seq(Event)] /\ \A h \in Hosts : Len(buf'[h]) <= BufferMax
  BY <1>1, <1>2
<1>4. at' \in [Threads -> {"ids", "host", "log"}]
      /\ \A u \in Threads : at'[u] # "ids" => batch'[u] # <<>>
  BY DEF PutHost, FeedTyped
<1> QED
  BY <1>3, <1>4, PutHostIs DEF FeedTyped

LEMMA PersistTyped ==
  ASSUME FeedTyped, NEW t \in Threads, Persist(t)
  PROVE  FeedTyped'
<1>1. parquet' \subseteq Event /\ IsFiniteSet(parquet')
  BY BatchIs, FS_Union DEF FeedTyped, Persist
<1>2. batch' \in [Threads -> Seq(Event)] /\ at' \in [Threads -> {"ids", "host", "log"}]
      /\ \A u \in Threads : at'[u] # "ids" => batch'[u] # <<>>
  BY EmptyIs DEF FeedTyped, Persist
<1> QED
  BY <1>1, <1>2 DEF FeedTyped, Persist

LEMMA RestartTyped ==
  ASSUME FeedTyped, Restart
  PROVE  FeedTyped'
<1>1. /\ seq' \in Nat /\ hot' = <<>> /\ buf' = [h \in Hosts |-> <<>>]
      /\ at' = [t \in Threads |-> "ids"] /\ batch' = [t \in Threads |-> <<>>]
      /\ parquet' = parquet /\ count' = count /\ overtaken' = {}
  BY SeedIs DEF Restart
<1>2. boots' \in 0..MaxBoots
  BY NumbersAreBounded DEF Restart, FeedTyped
<1> QED
  BY <1>1, <1>2, EmptyIs, NumbersAreBounded DEF FeedTyped

LEMMA InsertTyped ==
  ASSUME FeedTyped, NEW t \in Threads, Insert(t)
  PROVE  FeedTyped'
BY AssignTyped, PutHotTyped, PutHostTyped, PersistTyped DEF Insert

-----------------------------------------------------------------------------
(* The engine's side.                                                      *)
LEMMA SeqOfElements ==
  ASSUME NEW S, NEW T, NEW q \in Seq(S), Range(q) \subseteq T
  PROVE  q \in Seq(T)
<1>1. Len(q) \in Nat /\ Range(q) = {q[i] : i \in 1..Len(q)} /\ q \in [1..Len(q) -> S]
  BY LenProperties, RangeIs
<1>2. q \in [1..Len(q) -> T]
  BY <1>1
<1> QED
  BY <1>1, <1>2

LEMMA FedIsFinite ==
  ASSUME FeedTyped
  PROVE  /\ UNION {Range(buf[h]) : h \in Hosts} \in SUBSET Event
         /\ IsFiniteSet(UNION {Range(buf[h]) : h \in Hosts})
<1>1. \A h \in Hosts : Range(buf[h]) \subseteq Event /\ IsFiniteSet(Range(buf[h]))
  <2> SUFFICES ASSUME NEW h \in Hosts
               PROVE  Range(buf[h]) \subseteq Event /\ IsFiniteSet(Range(buf[h]))
    OBVIOUS
  <2>1. buf[h] \in Seq(Event)
    BY DEF FeedTyped
  <2> QED
    BY <2>1, RangeIs
<1> DEFINE f == [h \in Hosts |-> Range(buf[h])]
           R == {Range(buf[h]) : h \in Hosts}
<1>2. f \in Surjection(Hosts, R)
  BY DEF Surjection
<1>3. IsFiniteSet(R)
  BY <1>2, NumbersAreBounded, FS_Surjection
<1>4. \A A \in R : IsFiniteSet(A)
  BY <1>1
<1>5. UNION R \in SUBSET Event
  BY <1>1
<1> QED
  BY <1>3, <1>4, <1>5, FS_UNION

LEMMA NewerIs ==
  ASSUME FeedTyped, NEW q \in Seq(Event), NEW since
  PROVE  Newer(q, since) \in SUBSET Event /\ IsFiniteSet(Newer(q, since))
<1> DEFINE A == Range(q) \cup UNION {Range(buf[h]) : h \in Hosts}
<1>1. A \in SUBSET Event /\ IsFiniteSet(A)
  BY RangeIs, FedIsFinite, FS_Union
<1>2. Newer(q, since) \in SUBSET A
  BY DEF Newer
<1> HIDE DEF A
<1> QED
  BY <1>1, <1>2, FS_Subset

LEMMA SinceIsNewer ==
  ASSUME NEW q, NEW since
  PROVE  Since(q, since) \subseteq Newer(q, since)
<1> DEFINE A == Newer(q, since)
<1>1. Balanced(A) \subseteq A
  <2> HIDE DEF A
  <2> QED
    BY DEF Balanced, Share, Latest
<1>2. Since(q, since) = Earliest(Limit, IF Cardinality(A) > Limit THEN Balanced(A) ELSE A)
  BY DEF Since, Newer
<1> HIDE DEF A
<1>3. Since(q, since) \subseteq A
  BY <1>1, <1>2 DEF Earliest
<1> QED
  BY <1>3 DEF A

LEMMA SinceTyped ==
  ASSUME FeedTyped, EngineTyped
  PROVE  /\ Since(snap, cursor) \in SUBSET Event /\ IsFiniteSet(Since(snap, cursor))
         /\ Advanced(Since(snap, cursor)) \in Nat
<1>1. Since(snap, cursor) \in SUBSET Event /\ IsFiniteSet(Since(snap, cursor))
  BY NewerIs, SinceIsNewer, FS_Subset DEF EngineTyped
<1>2. Advanced(Since(snap, cursor)) \in Nat
  BY <1>1, NewestIs DEF Advanced, EngineTyped
<1> QED
  BY <1>1, <1>2

LEMMA AgedIs ==
  ASSUME EngineTyped
  PROVE  Aged \in Seq(0..Window)
<1> DEFINE older == [i \in 1..Len(hist) |-> hist[i] + 1]
<1>1. Len(hist) \in Nat /\ \A i \in 1..Len(hist) : hist[i] + 1 \in Nat
  <2>1. hist \in Seq(0..Window) /\ Window \in Nat
    BY NumbersAreBounded DEF EngineTyped
  <2> QED
    BY <2>1, LenProperties
<1>2. older \in Seq(Nat)
  BY <1>1
<1> HIDE DEF older
<1>3. PICK r : r = Those(older, 0..Window)
  OBVIOUS
<1>4. r \in Seq(Nat) /\ Range(r) = Range(older) \cap 0..Window
  BY <1>2, <1>3, ThoseAre
<1>5. PICK T : T = 0..Window
  OBVIOUS
<1>6. r \in Seq(T)
  BY <1>4, <1>5, SeqOfElements
<1> QED
  BY <1>3, <1>5, <1>6 DEF Aged, older

LEMMA CountedIs ==
  ASSUME EngineTyped, NEW m \in 0..Failures
  PROVE  Counted(m) \in Seq(0..Window) /\ Fires(m) \in BOOLEAN
<1>1. Failures \in Nat
  BY FS_Subset, FS_CardinalityType DEF Failures, EngineTyped
<1>2. m \in Nat /\ Len(hist) \in Nat /\ hist \in Seq(0..Window) /\ 0 \in 0..Window
  BY <1>1, LenProperties, NumbersAreBounded DEF EngineTyped
<1>3. \A n \in Nat : [i \in 1..n |-> 0] \in Seq(0..Window)
  BY <1>2
<1>4. Fires(m) \in BOOLEAN
  BY DEF Fires
<1> SUFFICES Counted(m) \in Seq(0..Window)
  BY <1>4
<1>5. CASE Fires(m)
  <2>1. (Len(hist) + m) % Threshold \in Nat
    BY <1>2, NumbersAreBounded
  <2> QED
    BY <1>3, <1>5, <2>1 DEF Counted
<1>6. CASE ~Fires(m)
  <2>1. PICK zeros \in Seq(0..Window) : zeros = [i \in 1..m |-> 0]
    BY <1>2, <1>3
  <2>2. hist \o zeros \in Seq(0..Window)
    BY <1>2, ConcatProperties
  <2>3. Counted(m) = hist \o zeros
    BY <1>6, <2>1 DEF Counted
  <2> QED
    BY <2>2, <2>3
<1> QED
  BY <1>5, <1>6

LEMMA FaultIs ==
  ASSUME EngineTyped, Fault
  PROVE  faults' \in 0..MaxFaults
BY NumbersAreBounded DEF EngineTyped, Fault

EngineFails ==
  ProbeFails \/ FetchFails \/ AnalyseRaises \/ \E k \in Supplements : ExtraFails(k)

LEMMA EngineStepTyped ==
  ASSUME FeedTyped, EngineTyped, EngineStep \/ EngineFails
  PROVE  FeedTyped' /\ EngineTyped'
<1>1. FeedTyped'
  BY DEF FeedTyped, feedVars, EngineStep, EngineFails, Probe, CopyHot, Merge, Extra, Analyse,
         ProbeFails, FetchFails, ExtraFails, AnalyseRaises
<1> SUFFICES EngineTyped'
  BY <1>1
<1>2. CASE Probe \/ ProbeFails
  <2>1. CursorAfterProbe \in Nat
    BY DEF EngineTyped, CursorAfterProbe
  <2>2. hist' \in Seq(0..Window) /\ cursor' \in Nat /\ faults' \in 0..MaxFaults
    BY <1>2, <2>1, AgedIs, FaultIs DEF Probe, ProbeFails, EngineTyped
  <2> QED
    BY <1>2, <2>2 DEF Probe, ProbeFails, EngineTyped
<1>3. CASE CopyHot
  BY <1>3 DEF CopyHot, EngineTyped, FeedTyped
<1>4. CASE Merge
  <2>1. /\ got' = Since(snap, cursor) /\ cursor' = Advanced(Since(snap, cursor))
        /\ cut' \subseteq cut \cup Newer(snap, cursor)
    BY <1>4 DEF Merge
  <2>2. got' \in SUBSET Event /\ IsFiniteSet(got') /\ cursor' \in Nat
    BY <2>1, SinceTyped
  <2>3. cut' \in SUBSET Event
    BY <2>1, NewerIs DEF EngineTyped
  <2> QED
    BY <1>4, <2>2, <2>3, EmptyIs DEF Merge, EngineTyped, Supplements
<1>5. CASE FetchFails
  BY <1>5, FaultIs, EmptyIs DEF FetchFails, EngineTyped, Supplements
<1>6. ASSUME NEW k \in Supplements, Extra(k) \/ ExtraFails(k) PROVE EngineTyped'
  <2>1. PICK more : more = Latest(50, {e \in Range(hot) : e.kind = k})
    OBVIOUS
  <2>2. Range(hot) \in SUBSET Event /\ IsFiniteSet(Range(hot)) /\ more \in SUBSET Range(hot)
    BY <2>1, RangeIs DEF FeedTyped, Latest
  <2>3. got' \in SUBSET (got \cup Range(hot))
    BY <1>6, <2>1, <2>2 DEF Extra, ExtraFails
  <2>4. got \cup Range(hot) \in SUBSET Event /\ IsFiniteSet(got \cup Range(hot))
    BY <2>2, FS_Union DEF EngineTyped
  <2>5. got' \in SUBSET Event /\ IsFiniteSet(got')
    BY <2>3, <2>4, FS_Subset
  <2>6. faults' \in 0..MaxFaults
    BY <1>6, FaultIs DEF Extra, ExtraFails, EngineTyped
  <2>7. phase' \in {"probe", "since", "merge", "analyse"} \cup Supplements
    BY <1>6 DEF Extra, ExtraFails, After, Supplements
  <2> QED
    BY <1>6, <2>5, <2>6, <2>7 DEF Extra, ExtraFails, EngineTyped
<1>7. CASE Analyse \/ AnalyseRaises
  <2>1. hist' \in Seq(0..Window) /\ alerted' \in BOOLEAN
    <3>1. Failures \in 0..Failures
      BY FS_Subset, FS_CardinalityType DEF Failures, EngineTyped
    <3> QED
      BY <1>7, <3>1, CountedIs DEF Analyse, AnalyseRaises, EngineTyped
  <2>2. faults' \in 0..MaxFaults
    BY <1>7, FaultIs DEF Analyse, AnalyseRaises, EngineTyped
  <2>3. got' = {} /\ IsFiniteSet(got')
    BY <1>7, FS_EmptySet DEF Analyse, AnalyseRaises
  <2>4. seen' \in SUBSET Event /\ missed' \in SUBSET Event /\ phase' = "probe"
        /\ UNCHANGED <<cursor, snap, cut, rewound>>
    BY <1>7 DEF Analyse, AnalyseRaises, EngineTyped
  <2> QED
    BY <2>1, <2>2, <2>3, <2>4 DEF EngineTyped
<1> QED
  BY <1>1, <1>2, <1>3, <1>4, <1>5, <1>6, <1>7 DEF EngineStep, EngineFails

LEMMA FeedIsTyped == Spec => [](FeedTyped /\ EngineTyped)
<1>1. Init => FeedTyped /\ EngineTyped
  <2> SUFFICES ASSUME Init PROVE FeedTyped /\ EngineTyped
    OBVIOUS
  <2>1. FeedTyped
    BY EmptyIs, NumbersAreBounded, FS_EmptySet DEF Init, FeedInit, FeedTyped
  <2>2. EngineTyped
    <3>1. /\ snap \in Seq(Event) /\ hist \in Seq(0..Window) /\ IsFiniteSet(got)
          /\ got \in SUBSET Event /\ seen \in SUBSET Event /\ missed \in SUBSET Event
      BY EmptyIs, FS_EmptySet DEF Init
    <3>2. cursor \in Nat /\ phase = "probe" /\ faults \in 0..MaxFaults
          /\ cut \in SUBSET Event
      BY NumbersAreBounded DEF Init
    <3>3. alerted \in BOOLEAN /\ rewound \in BOOLEAN
      BY DEF Init
    <3> QED
      BY <3>1, <3>2, <3>3 DEF EngineTyped
  <2> QED
    BY <2>1, <2>2
<1>2. FeedTyped /\ EngineTyped /\ [Next]_vars => (FeedTyped /\ EngineTyped)'
  <2> SUFFICES ASSUME FeedTyped, EngineTyped, [Next]_vars PROVE FeedTyped' /\ EngineTyped'
    OBVIOUS
  <2>1. CASE UNCHANGED vars
    BY <2>1 DEF vars, feedVars, engineVars, FeedTyped, EngineTyped
  <2>2. ASSUME NEW t \in Threads, ConnectionStep(t) PROVE FeedTyped' /\ EngineTyped'
    <3>1. FeedTyped'
      BY <2>2, InsertTyped DEF ConnectionStep
    <3>2. EngineTyped'
      BY <2>2 DEF ConnectionStep, engineVars, EngineTyped
    <3> QED
      BY <3>1, <3>2
  <2>3. CASE PipelineRestarts
    <3>1. FeedTyped'
      BY <2>3, RestartTyped DEF PipelineRestarts
    <3>2. EngineTyped'
      BY <2>3, EmptyIs DEF PipelineRestarts, EngineTyped, Supplements
    <3> QED
      BY <3>1, <3>2
  <2> QED
    BY <2>1, <2>2, <2>3, EngineStepTyped DEF Next, EngineFails
<1> QED
  BY <1>1, <1>2, PTL DEF Spec

(* Every variable of the feed and of the engine keeps the shape the code   *)
(* gives it: the deques' limits, a batch in every thread that is past the  *)
(* ids, a cursor that is a number.                                         *)
THEOREM DetectionFeedTypeCorrect == Spec => []TypeOK
<1>1. FeedTyped /\ EngineTyped => TypeOK
  BY DEF FeedTyped, EngineTyped, TypeOK
<1> QED
  BY <1>1, FeedIsTyped, PTL

-----------------------------------------------------------------------------
(* Numbers and ids.  Known are the events that the pipeline has, stored or *)
(* in a batch; Current are those of this session.                          *)
Injective(q) == \A i, j \in 1..Len(q) : q[i] = q[j] => i = j

Known == parquet \cup UNION {Range(batch[t]) : t \in Threads}
Current == {e \in Known : e.boot = boots}

Numbered ==
  /\ \A e \in Known : e.n <= count /\ e.boot <= boots
  /\ \A e, f \in Known : e.n = f.n => e = f
  /\ \A t \in Threads : \A e \in Range(batch[t]) : e.boot = boots /\ e \notin parquet
  /\ \A t, u \in Threads : t # u => Range(batch[t]) \cap Range(batch[u]) = {}
  /\ \A t \in Threads : Injective(batch[t]) /\ Len(batch[t]) <= MaxBatch

IdsIn(A) ==
  /\ \A e \in A : e.id >= 1 /\ e.id <= seq
  /\ \A e, f \in A : e.id = f.id => e = f
Ided == IdsIn(Current) /\ (LegacyMax = 0 \/ boots = 0 => IdsIn(Known))

KnownInv == FeedTyped /\ Numbered /\ Ided

LEMMA InjectiveAppend ==
  ASSUME NEW S, NEW q \in Seq(S), NEW x \in S, Injective(q), x \notin Range(q)
  PROVE  Injective(Append(q, x))
<1>1. /\ Append(q, x) \in Seq(S) /\ Len(Append(q, x)) = Len(q) + 1 /\ Len(q) \in Nat
      /\ \A i \in 1..Len(q) : Append(q, x)[i] = q[i] /\ q[i] \in Range(q)
      /\ Append(q, x)[Len(q) + 1] = x
  BY AppendProperties, LenProperties, RangeIs
<1>2. \A i \in 1..(Len(q) + 1) : i # Len(q) + 1 => i \in 1..Len(q)
  BY <1>1
<1> QED
  BY <1>1, <1>2 DEF Injective

LEMMA KnownTyped ==
  ASSUME FeedTyped
  PROVE  Known \subseteq Event /\ Current \subseteq Known
<1>1. \A t \in Threads : Range(batch[t]) \subseteq Event
  BY BatchIs
<1> QED
  BY <1>1 DEF Known, Current, FeedTyped

(* An id was given out: a new event, in one batch.                         *)
LEMMA AssignKnown ==
  ASSUME KnownInv, NEW t \in Threads, AssignId(t)
  PROVE  \E e \in Event :
           /\ e.n = count + 1 /\ e.id = seq' /\ e.boot = boots /\ e \notin Known
           /\ \A f \in Current : f.id < e.id
           /\ batch'[t] = Append(batch[t], e) /\ Range(batch'[t]) = Range(batch[t]) \cup {e}
           /\ \A u \in Threads : u # t => batch'[u] = batch[u]
           /\ Known' = Known \cup {e} /\ Current' = Current \cup {e}
           /\ Injective(batch'[t]) /\ Len(batch'[t]) = Len(batch[t]) + 1
           /\ Len(batch'[t]) <= MaxBatch
           /\ at[t] = "ids" /\ seq' \in Nat /\ seq < seq' /\ count' = count + 1
           /\ UNCHANGED <<hot, buf, at, parquet, boots, overtaken>>
<1>0. FeedTyped /\ Numbered /\ IdsIn(Current) /\ Known \subseteq Event /\ Current \subseteq Known
  BY KnownTyped DEF KnownInv, Ided
<1>1. PICK e \in Event :
           /\ e.n = count + 1 /\ e.id = NextId /\ e.boot = boots
           /\ batch' = [batch EXCEPT ![t] = Append(batch[t], e)]
           /\ at[t] = "ids" /\ Len(batch[t]) < MaxBatch /\ count < MaxEvents
           /\ seq' = NextId /\ seq' \in Nat /\ seq < seq' /\ count' = count + 1
           /\ UNCHANGED <<hot, buf, at, parquet, boots, overtaken>>
  BY <1>0, AssignIdIs
<1>2. batch \in [Threads -> Seq(Event)] /\ batch[t] \in Seq(Event) /\ Len(batch[t]) \in Nat
  BY <1>0, BatchIs DEF FeedTyped
<1>3. batch'[t] = Append(batch[t], e) /\ \A u \in Threads : u # t => batch'[u] = batch[u]
  BY <1>1, <1>2
<1>4. Range(batch'[t]) = Range(batch[t]) \cup {e} /\ Len(batch'[t]) = Len(batch[t]) + 1
  BY <1>2, <1>3, RangeOfAppend, AppendProperties
<1>5. Known' = Known \cup {e}
  <2>1. \A u \in Threads : Range(batch'[u]) = IF u = t THEN Range(batch[t]) \cup {e}
                                                       ELSE Range(batch[u])
    BY <1>3, <1>4
  <2> QED
    BY <1>1, <2>1 DEF Known
<1>6. e \notin Known
  <2>1. count \in Nat /\ \A f \in Known : f.n <= count
    BY <1>0, NumbersAreBounded DEF Numbered, FeedTyped
  <2> QED
    BY <1>1, <2>1
<1>7. Current' = Current \cup {e}
  BY <1>1, <1>5 DEF Current
<1>8. e \notin Range(batch[t])
  BY <1>6 DEF Known
<1>9. Injective(batch[t])
  BY <1>0 DEF Numbered
<1>10. Injective(batch'[t])
  BY <1>2, <1>3, <1>8, <1>9, InjectiveAppend
<1>11. \A f \in Current : f.id < e.id
  <2>1. \A f \in Current : f.id <= seq /\ f.id \in Nat
    BY <1>0, EventIs DEF IdsIn
  <2> QED
    BY <1>0, <1>1, <2>1 DEF FeedTyped
<1>12. Len(batch'[t]) <= MaxBatch
  BY <1>1, <1>2, <1>4, NumbersAreBounded
<1> QED
  BY <1>1, <1>3, <1>4, <1>5, <1>6, <1>7, <1>10, <1>11, <1>12

LEMMA AssignInv ==
  ASSUME KnownInv, NEW t \in Threads, AssignId(t)
  PROVE  KnownInv'
<1>0. FeedTyped /\ Numbered /\ Ided /\ Known \subseteq Event /\ Current \subseteq Known
  BY KnownTyped DEF KnownInv
<1>1. PICK e \in Event :
           /\ e.n = count + 1 /\ e.id = seq' /\ e.boot = boots /\ e \notin Known
           /\ Range(batch'[t]) = Range(batch[t]) \cup {e}
           /\ \A u \in Threads : u # t => batch'[u] = batch[u]
           /\ Known' = Known \cup {e} /\ Current' = Current \cup {e}
           /\ Injective(batch'[t]) /\ Len(batch'[t]) <= MaxBatch
           /\ seq' \in Nat /\ seq < seq' /\ count' = count + 1
           /\ UNCHANGED <<hot, buf, at, parquet, boots, overtaken>>
  BY AssignKnown
<1>2. seq \in Nat /\ count \in Nat /\ boots \in Nat
      /\ \A f \in Known : f.n \in Nat /\ f.id \in Nat /\ f.boot \in Nat
  <2>1. \A f \in Known : f.n \in Nat /\ f.id \in Nat /\ f.boot \in Nat
    BY <1>0, EventIs, NumbersAreBounded
  <2> QED
    BY <1>0, <2>1, NumbersAreBounded DEF FeedTyped
<1>3. FeedTyped'
  BY <1>0, AssignTyped
<1>4. Numbered'
  <2>1. /\ \A f \in Known' : f.n <= count' /\ f.boot <= boots'
        /\ \A f, g \in Known' : f.n = g.n => f = g
    BY <1>0, <1>1, <1>2 DEF Numbered
  <2>2. e \notin parquet /\ \A u \in Threads : e \notin Range(batch[u])
    BY <1>1 DEF Known
  <2>3. \A u \in Threads : \A f \in Range(batch'[u]) : f.boot = boots' /\ f \notin parquet'
    BY <1>0, <1>1, <2>2 DEF Numbered
  <2>4. \A u, v \in Threads : u # v => Range(batch'[u]) \cap Range(batch'[v]) = {}
    BY <1>0, <1>1, <2>2 DEF Numbered
  <2>5. \A u \in Threads : Injective(batch'[u]) /\ Len(batch'[u]) <= MaxBatch
    BY <1>0, <1>1 DEF Numbered
  <2> QED
    BY <2>1, <2>3, <2>4, <2>5 DEF Numbered
<1>5. IdsIn(Current)'
  <2>1. /\ \A f \in Current : f.id >= 1 /\ f.id <= seq
        /\ \A f, g \in Current : f.id = g.id => f = g
    BY <1>0 DEF Ided, IdsIn
  <2> QED
    BY <1>0, <1>1, <1>2, <2>1 DEF IdsIn
<1>6. LegacyMax = 0 \/ boots' = 0 => IdsIn(Known)'
  <2> SUFFICES ASSUME LegacyMax = 0 \/ boots = 0 PROVE IdsIn(Known)'
    BY <1>1
  <2>1. /\ \A f \in Known : f.id >= 1 /\ f.id <= seq
        /\ \A f, g \in Known : f.id = g.id => f = g
    BY <1>0 DEF Ided, IdsIn
  <2> QED
    BY <1>0, <1>1, <1>2, <2>1 DEF IdsIn
<1> QED
  BY <1>3, <1>4, <1>5, <1>6 DEF KnownInv, Ided

LEMMA PutInv ==
  ASSUME KnownInv, NEW t \in Threads, PutHot(t) \/ PutHost(t)
  PROVE  KnownInv'
<1>1. UNCHANGED <<seq, batch, parquet, boots, count>>
  BY DEF PutHot, PutHost
<1>2. FeedTyped'
  BY PutHotTyped, PutHostTyped DEF KnownInv
<1>3. Known' = Known /\ Current' = Current
  BY <1>1 DEF Known, Current
<1>4. Numbered' /\ Ided'
  BY <1>1, <1>3 DEF KnownInv, Numbered, Ided, IdsIn
<1> QED
  BY <1>2, <1>4 DEF KnownInv

(* What Persist moves.                                                     *)
LEMMA PersistKnown ==
  ASSUME KnownInv, NEW t \in Threads, Persist(t)
  PROVE  /\ parquet' = parquet \cup Range(batch[t]) /\ batch'[t] = <<>>
         /\ Range(batch'[t]) = {} /\ Len(batch'[t]) = 0
         /\ \A u \in Threads : u # t => batch'[u] = batch[u]
         /\ Known' = Known /\ Current' = Current
         /\ at[t] = "log" /\ at' = [at EXCEPT ![t] = "ids"]
         /\ UNCHANGED <<seq, hot, buf, boots, count>>
<1>1. /\ parquet' = parquet \cup Range(batch[t]) /\ batch' = [batch EXCEPT ![t] = <<>>]
      /\ at[t] = "log" /\ at' = [at EXCEPT ![t] = "ids"]
      /\ UNCHANGED <<seq, hot, buf, boots, count>>
  BY DEF Persist
<1>2. batch \in [Threads -> Seq(Event)]
  BY DEF KnownInv, FeedTyped
<1>3. /\ batch'[t] = <<>> /\ Range(batch'[t]) = {} /\ Len(batch'[t]) = 0
      /\ \A u \in Threads : u # t => batch'[u] = batch[u]
  BY <1>1, <1>2, EmptyIs
<1>4. Known' = Known
  <2>1. \A u \in Threads : Range(batch'[u]) = IF u = t THEN {} ELSE Range(batch[u])
    BY <1>3
  <2>2. (UNION {Range(batch'[u]) : u \in Threads}) \cup Range(batch[t])
          = UNION {Range(batch[u]) : u \in Threads}
    BY <2>1
  <2> QED
    BY <1>1, <2>2 DEF Known
<1> QED
  BY <1>1, <1>3, <1>4 DEF Current

LEMMA PersistInv ==
  ASSUME KnownInv, NEW t \in Threads, Persist(t)
  PROVE  KnownInv'
<1>1. /\ parquet' = parquet \cup Range(batch[t]) /\ batch'[t] = <<>>
      /\ Range(batch'[t]) = {} /\ Len(batch'[t]) = 0
      /\ \A u \in Threads : u # t => batch'[u] = batch[u]
      /\ Known' = Known /\ Current' = Current
      /\ UNCHANGED <<seq, boots, count>>
  BY PersistKnown
<1>2. FeedTyped'
  BY PersistTyped DEF KnownInv
<1>3. Numbered'
  <2>1. \A u \in Threads : \A f \in Range(batch'[u]) : f.boot = boots' /\ f \notin parquet'
    BY <1>1 DEF KnownInv, Numbered
  <2>2. \A u, v \in Threads : u # v => Range(batch'[u]) \cap Range(batch'[v]) = {}
    BY <1>1 DEF KnownInv, Numbered
  <2>3. \A u \in Threads : Injective(batch'[u]) /\ Len(batch'[u]) <= MaxBatch
    <3> SUFFICES ASSUME NEW u \in Threads PROVE Injective(batch'[u]) /\ Len(batch'[u]) <= MaxBatch
      OBVIOUS
    <3>1. CASE u = t
      BY <1>1, <3>1, NumbersAreBounded DEF Injective
    <3>2. CASE u # t
      BY <1>1, <3>2 DEF KnownInv, Numbered
    <3> QED
      BY <3>1, <3>2
  <2>4. /\ \A e \in Known' : e.n <= count' /\ e.boot <= boots'
        /\ \A e, f \in Known' : e.n = f.n => e = f
    BY <1>1 DEF KnownInv, Numbered
  <2> QED
    BY <2>1, <2>2, <2>3, <2>4 DEF Numbered
<1>4. Ided'
  BY <1>1 DEF KnownInv, Ided, IdsIn
<1> QED
  BY <1>2, <1>3, <1>4 DEF KnownInv

LEMMA RestartInv ==
  ASSUME KnownInv, Restart
  PROVE  KnownInv' /\ Known' = parquet /\ Current' = {}
<1>1. /\ boots' = boots + 1 /\ seq' = Seed /\ batch' = [t \in Threads |-> <<>>]
      /\ parquet' = parquet /\ count' = count /\ boots \in Nat
  BY NumbersAreBounded DEF Restart, KnownInv, FeedTyped
<1>2. FeedTyped'
  BY RestartTyped DEF KnownInv
<1>3. \A t \in Threads : Range(batch'[t]) = {} /\ Len(batch'[t]) = 0
  BY <1>1, EmptyIs
<1>4. Known' = parquet
  BY <1>1, <1>3 DEF Known
<1>5. parquet \subseteq Known /\ \A e \in Known : e.n \in Nat /\ e.id \in Nat /\ e.boot \in Nat
  BY KnownTyped, EventIs, NumbersAreBounded DEF KnownInv, Known
<1>6. Current' = {}
  <2>1. \A e \in Known : e.boot <= boots
    BY DEF KnownInv, Numbered
  <2>2. \A e \in parquet : e.boot # boots + 1
    BY <1>1, <1>5, <2>1
  <2> QED
    BY <1>1, <1>4, <2>2 DEF Current
<1>7. Numbered'
  <2>1. \A t \in Threads : Injective(batch'[t]) /\ Len(batch'[t]) <= MaxBatch
    BY <1>3, NumbersAreBounded DEF Injective
  <2>2. /\ \A e \in Known : e.n <= count /\ e.boot <= boots
        /\ \A e, f \in Known : e.n = f.n => e = f
    BY DEF KnownInv, Numbered
  <2>3. /\ \A e \in Known' : e.n <= count' /\ e.boot <= boots'
        /\ \A e, f \in Known' : e.n = f.n => e = f
    BY <1>1, <1>4, <1>5, <2>2
  <2> QED
    BY <1>3, <2>1, <2>3 DEF Numbered
<1>8. Ided'
  <2>1. IdsIn(Current)'
    BY <1>6 DEF IdsIn
  <2>2. boots' # 0
    BY <1>1
  <2>3. ASSUME LegacyMax = 0 PROVE IdsIn(Known)'
    <3>1. \A e \in parquet : e.id <= Seed
      BY <2>3, SeedIs DEF KnownInv
    <3>2. /\ \A e \in Known : e.id >= 1
          /\ \A e, f \in Known : e.id = f.id => e = f
      BY <2>3 DEF KnownInv, Ided, IdsIn
    <3> QED
      BY <1>1, <1>4, <1>5, <3>1, <3>2 DEF IdsIn
  <2> QED
    BY <2>1, <2>2, <2>3 DEF Ided
<1> QED
  BY <1>2, <1>4, <1>6, <1>7, <1>8 DEF KnownInv

LEMMA InsertInv ==
  ASSUME KnownInv, NEW t \in Threads, Insert(t)
  PROVE  KnownInv'
BY AssignInv, PutInv, PersistInv DEF Insert

LEMMA FeedKept ==
  ASSUME KnownInv, UNCHANGED feedVars
  PROVE  KnownInv' /\ Known' = Known /\ Current' = Current
<1>1. UNCHANGED <<seq, hot, buf, at, batch, parquet, boots, count, overtaken>>
  BY DEF feedVars
<1>2. Known' = Known /\ Current' = Current
  BY <1>1 DEF Known, Current
<1>3. FeedTyped'
  BY <1>1 DEF KnownInv, FeedTyped
<1>4. Numbered' /\ Ided'
  BY <1>1, <1>2 DEF KnownInv, Numbered, Ided, IdsIn
<1> QED
  BY <1>2, <1>3, <1>4 DEF KnownInv

LEMMA EngineKeepsFeed == EngineStep \/ EngineFails => UNCHANGED feedVars
BY DEF EngineStep, EngineFails, Probe, CopyHot, Merge, Extra, Analyse,
       ProbeFails, FetchFails, ExtraFails, AnalyseRaises

LEMMA KnownStart == Init => KnownInv
<1> SUFFICES ASSUME Init PROVE KnownInv
  OBVIOUS
<1>1. FeedTyped
  BY EmptyIs, NumbersAreBounded, FS_EmptySet DEF Init, FeedInit, FeedTyped
<1>2. \A t \in Threads : Range(batch[t]) = {} /\ Len(batch[t]) = 0
  BY EmptyIs DEF Init, FeedInit
<1>3. Known = {} /\ Current = {}
  BY <1>2 DEF Init, FeedInit, Known, Current
<1>4. \A t \in Threads : Injective(batch[t]) /\ Len(batch[t]) <= MaxBatch
  BY <1>2, NumbersAreBounded DEF Injective
<1> QED
  BY <1>1, <1>2, <1>3, <1>4 DEF KnownInv, Numbered, Ided, IdsIn

LEMMA KnownInvariant == Spec => []KnownInv
<1>1. KnownInv /\ [Next]_vars => KnownInv'
  <2> SUFFICES ASSUME KnownInv, [Next]_vars PROVE KnownInv'
    OBVIOUS
  <2>1. CASE UNCHANGED vars
    BY <2>1, FeedKept DEF vars
  <2> QED
    BY <2>1, FeedKept, EngineKeepsFeed, InsertInv, RestartInv
       DEF Next, ConnectionStep, PipelineRestarts, EngineFails
<1> QED
  BY <1>1, KnownStart, PTL DEF Spec

(* Where the ids are seeded from what was stored (no legacy database), or  *)
(* until the first restart, no two stored events have one id, whatever     *)
(* ids the threads took in between and whatever a restart lost.            *)
THEOREM StoredIdsAreUnique == Spec => [](LegacyMax = 0 \/ boots = 0 => StoredIdsUnique)
<1>1. KnownInv => (LegacyMax = 0 \/ boots = 0 => StoredIdsUnique)
  BY DEF KnownInv, Ided, IdsIn, Known, StoredIdsUnique
<1> QED
  BY <1>1, KnownInvariant, PTL

-----------------------------------------------------------------------------
(* The host buffers.  Put are the events of this session that have been    *)
(* put into them.                                                          *)
Put == {e \in parquet : e.boot = boots}
         \cup UNION {Range(batch[t]) : t \in {u \in Threads : at[u] = "log"}}
PutOf(h) == {e \in Put : e.host = h}

HostInv ==
  \A h \in Hosts :
    /\ Range(buf[h]) \subseteq PutOf(h)
    /\ Injective(buf[h])
    /\ PutOf(h) # Range(buf[h]) => Len(buf[h]) = BufferMax

LEMMA InjectiveConcat ==
  ASSUME NEW S, NEW q \in Seq(S), NEW r \in Seq(S), Injective(q), Injective(r),
         \A x \in Range(q) : x \notin Range(r)
  PROVE  Injective(q \o r)
<1>1. /\ Len(q) \in Nat /\ Len(r) \in Nat /\ Len(q \o r) = Len(q) + Len(r)
      /\ \A i \in 1..(Len(q) + Len(r)) :
           (q \o r)[i] = IF i <= Len(q) THEN q[i] ELSE r[i - Len(q)]
  BY ConcatProperties, LenProperties
<1>2. /\ \A i \in 1..Len(q) : q[i] \in Range(q)
      /\ \A i \in 1..Len(r) : r[i] \in Range(r)
  BY RangeIs
<1> SUFFICES ASSUME NEW i \in 1..(Len(q) + Len(r)), NEW j \in 1..(Len(q) + Len(r)),
                    (q \o r)[i] = (q \o r)[j]
             PROVE  i = j
  BY <1>1 DEF Injective
<1>3. CASE i <= Len(q) /\ j <= Len(q)
  BY <1>1, <1>3 DEF Injective
<1>4. CASE i > Len(q) /\ j > Len(q)
  <2>1. i - Len(q) \in 1..Len(r) /\ j - Len(q) \in 1..Len(r)
    BY <1>1, <1>4
  <2>2. r[i - Len(q)] = r[j - Len(q)]
    BY <1>1, <1>4
  <2>3. i - Len(q) = j - Len(q)
    BY <2>1, <2>2 DEF Injective
  <2> QED
    BY <1>1, <2>3
<1>5. CASE i <= Len(q) /\ j > Len(q)
  <2>1. i \in 1..Len(q) /\ j - Len(q) \in 1..Len(r)
    BY <1>1, <1>5
  <2>2. q[i] = r[j - Len(q)]
    BY <1>1, <1>5
  <2> QED
    BY <1>2, <2>1, <2>2
<1>6. CASE i > Len(q) /\ j <= Len(q)
  <2>1. j \in 1..Len(q) /\ i - Len(q) \in 1..Len(r)
    BY <1>1, <1>6
  <2>2. q[j] = r[i - Len(q)]
    BY <1>1, <1>6
  <2> QED
    BY <1>2, <2>1, <2>2
<1> QED
  BY <1>1, <1>3, <1>4, <1>5, <1>6

LEMMA InjectivePart ==
  ASSUME NEW S, NEW r \in Seq(S), NEW q \in Seq(S), PartOf(r, q, Len(q)), Injective(q)
  PROVE  Injective(r)
<1>1. PICK g \in [1..Len(r) -> 1..Len(q)] :
        /\ \A k \in 1..Len(r) : r[k] = q[g[k]]
        /\ \A j, k \in 1..Len(r) : j < k => g[j] < g[k]
  BY DEF PartOf
<1>2. Len(r) \in Nat /\ Len(q) \in Nat
  BY LenProperties
<1> SUFFICES ASSUME NEW i \in 1..Len(r), NEW j \in 1..Len(r), r[i] = r[j], i # j
             PROVE  FALSE
  BY DEF Injective
<1>3. g[i] = g[j] /\ g[i] \in 1..Len(q) /\ g[j] \in 1..Len(q)
  BY <1>1 DEF Injective
<1>4. i < j \/ j < i
  BY <1>2
<1> QED
  BY <1>1, <1>2, <1>3, <1>4

LEMMA PushedInto ==
  ASSUME NEW S, NEW q \in Seq(S), NEW r \in Seq(S), Injective(q), Injective(r),
         \A x \in Range(q) : x \notin Range(r), Len(q) <= BufferMax
  PROVE  /\ Injective(Pushed(q, r))
         /\ Len(Pushed(q, r)) # BufferMax =>
              Len(q) # BufferMax /\ Range(Pushed(q, r)) = Range(q) \cup Range(r)
<1>1. PICK p : p = Pushed(q, r)
  OBVIOUS
<1>2. PICK w : w = q \o r
  OBVIOUS
<1>3. /\ w \in Seq(S) /\ Injective(w) /\ Range(w) = Range(q) \cup Range(r)
      /\ Len(w) = Len(q) + Len(r) /\ Len(w) \in Nat /\ Len(q) \in Nat /\ Len(r) \in Nat
  BY <1>2, InjectiveConcat, ConcatProperties, RangeOfConcat, LenProperties
<1>4. PICK d : Kept(p, w, d)
  BY <1>1, <1>2, PushedIs
<1>5. /\ d \in 0..Len(w) /\ Len(p) = Len(w) - d /\ Len(p) \in Nat
      /\ \A i \in 1..Len(p) : p[i] = w[i + d] /\ i + d \in 1..Len(w)
      /\ (d = 0 /\ Len(w) <= BufferMax) \/ (d = Len(w) - BufferMax /\ Len(w) > BufferMax)
  BY <1>3, <1>4 DEF Kept
<1>6. Injective(p)
  <2> SUFFICES ASSUME NEW i \in 1..Len(p), NEW j \in 1..Len(p), p[i] = p[j]
               PROVE  i = j
    BY DEF Injective
  <2>1. w[i + d] = w[j + d] /\ i + d \in 1..Len(w) /\ j + d \in 1..Len(w)
    BY <1>5
  <2>2. i + d = j + d
    BY <1>3, <2>1 DEF Injective
  <2> QED
    BY <1>3, <1>5, <2>2
<1>7. ASSUME Len(p) # BufferMax PROVE Len(q) # BufferMax /\ Range(p) = Range(w)
  <2>1. BufferMax \in Nat
    BY NumbersAreBounded
  <2>2. d = 0 /\ Len(p) = Len(w)
    BY <1>3, <1>5, <1>7, <2>1
  <2>3. Len(q) # BufferMax
    BY <1>3, <1>5, <1>7, <2>1, <2>2
  <2>4. \A i \in 1..Len(w) : p[i] = w[i]
    BY <1>3, <1>5, <2>2
  <2>5. p \in Seq(S)
    BY <1>1, PushedIs
  <2>6. p = w
    BY <1>3, <2>2, <2>4, <2>5, SeqEqual
  <2> QED
    BY <2>3, <2>6
<1> QED
  BY <1>1, <1>3, <1>6, <1>7

LEMMA HostKept ==
  ASSUME HostInv, Put' = Put, buf' = buf
  PROVE  HostInv'
BY DEF HostInv, PutOf

LEMMA AssignHost ==
  ASSUME KnownInv, HostInv, NEW t \in Threads, AssignId(t)
  PROVE  HostInv' /\ Put' = Put
<1>1. /\ \A u \in Threads : u # t => batch'[u] = batch[u]
      /\ at[t] = "ids" /\ UNCHANGED <<hot, buf, at, parquet, boots, overtaken>>
  BY AssignKnown
<1>2. Put' = Put
  BY <1>1 DEF Put
<1> QED
  BY <1>1, <1>2, HostKept

LEMMA PutHotHost ==
  ASSUME KnownInv, HostInv, NEW t \in Threads, PutHot(t)
  PROVE  HostInv' /\ Put' = Put
<1>1. /\ at[t] = "ids" /\ at' = [at EXCEPT ![t] = "host"]
      /\ UNCHANGED <<buf, batch, parquet, boots>>
      /\ at \in [Threads -> {"ids", "host", "log"}]
  BY DEF PutHot, KnownInv, FeedTyped
<1>2. \A u \in Threads : at'[u] = "log" <=> at[u] = "log"
  BY <1>1
<1>3. Put' = Put
  BY <1>1, <1>2 DEF Put
<1> QED
  BY <1>1, <1>3, HostKept

LEMMA PersistHost ==
  ASSUME KnownInv, HostInv, NEW t \in Threads, Persist(t)
  PROVE  HostInv' /\ Put' = Put
<1>1. /\ parquet' = parquet \cup Range(batch[t])
      /\ \A u \in Threads : u # t => batch'[u] = batch[u]
      /\ at[t] = "log" /\ at' = [at EXCEPT ![t] = "ids"]
      /\ UNCHANGED <<buf, boots>>
      /\ at \in [Threads -> {"ids", "host", "log"}]
  BY PersistKnown DEF KnownInv, FeedTyped
<1>2. \A e \in Range(batch[t]) : e.boot = boots
  BY DEF KnownInv, Numbered
<1>3. {u \in Threads : at'[u] = "log"} = {u \in Threads : at[u] = "log"} \ {t}
  BY <1>1
<1>4. \A u \in {v \in Threads : at[v] = "log"} \ {t} : batch'[u] = batch[u]
  BY <1>1
<1>5. {e \in parquet' : e.boot = boots'} = {e \in parquet : e.boot = boots} \cup Range(batch[t])
  BY <1>1, <1>2
<1>6. Put' = Put
  BY <1>1, <1>3, <1>4, <1>5 DEF Put
<1> QED
  BY <1>1, <1>6, HostKept

(* A batch is put into the buffers for the first time.                     *)
LEMMA PutHostPut ==
  ASSUME KnownInv, NEW t \in Threads, PutHost(t)
  PROVE  Put' = Put \cup Range(batch[t]) /\ \A e \in Put : e \notin Range(batch[t])
<1>1. /\ at[t] = "host" /\ at' = [at EXCEPT ![t] = "log"]
      /\ UNCHANGED <<seq, hot, batch, parquet, boots, count, overtaken>>
      /\ at \in [Threads -> {"ids", "host", "log"}]
  BY PutHostIs DEF KnownInv, FeedTyped
<1>2. {u \in Threads : at'[u] = "log"} = {u \in Threads : at[u] = "log"} \cup {t}
  BY <1>1
<1>3. Put' = Put \cup Range(batch[t])
  BY <1>1, <1>2 DEF Put
<1>4. \A e \in Range(batch[t]) : e \notin parquet
  BY DEF KnownInv, Numbered
<1>5. \A u \in Threads : at[u] = "log" => Range(batch[u]) \cap Range(batch[t]) = {}
  BY <1>1 DEF KnownInv, Numbered
<1> QED
  BY <1>3, <1>4, <1>5 DEF Put

LEMMA PutHostHost ==
  ASSUME KnownInv, HostInv, NEW t \in Threads, PutHost(t)
  PROVE  HostInv'
<1>1. FeedTyped /\ Injective(batch[t]) /\ batch[t] \in Seq(Event)
  BY BatchIs DEF KnownInv, Numbered
<1>2. Put' = Put \cup Range(batch[t]) /\ \A e \in Put : e \notin Range(batch[t])
  BY PutHostPut
<1> SUFFICES ASSUME NEW h \in Hosts
             PROVE  /\ Range(buf'[h]) \subseteq PutOf(h)'
                    /\ Injective(buf'[h])
                    /\ PutOf(h)' # Range(buf'[h]) => Len(buf'[h]) = BufferMax
  BY DEF HostInv
<1>3. PICK q : q = buf[h]
  OBVIOUS
<1>4. PICK r : r = OfHost(t, h)
  OBVIOUS
<1>5. /\ q \in Seq(Event) /\ Injective(q) /\ Range(q) \subseteq PutOf(h) /\ Len(q) <= BufferMax
      /\ PutOf(h) # Range(q) => Len(q) = BufferMax
  BY <1>1, <1>3 DEF HostInv, FeedTyped
<1>6. /\ r \in Seq(Event) /\ Range(r) = {e \in Range(batch[t]) : e.host = h}
      /\ PartOf(r, batch[t], Len(batch[t]))
  BY <1>1, <1>4, OfHostIs
<1>7. Injective(r)
  BY <1>1, <1>6, InjectivePart
<1>8. \A x \in Range(q) : x \notin Range(r)
  BY <1>2, <1>5, <1>6 DEF PutOf
<1>9. buf'[h] = Pushed(q, r)
  BY <1>1, <1>3, <1>4, PutHostIs
<1>10. PutOf(h)' = PutOf(h) \cup Range(r)
  BY <1>2, <1>6 DEF PutOf
<1>11. Range(Pushed(q, r)) \subseteq Range(q) \cup Range(r)
  BY <1>5, <1>6, PushedIs
<1>12. /\ Injective(Pushed(q, r))
       /\ Len(Pushed(q, r)) # BufferMax =>
            Len(q) # BufferMax /\ Range(Pushed(q, r)) = Range(q) \cup Range(r)
  BY <1>5, <1>6, <1>7, <1>8, PushedInto
<1>13. Range(Pushed(q, r)) \subseteq PutOf(h)'
  BY <1>5, <1>10, <1>11
<1>14. PutOf(h)' # Range(Pushed(q, r)) => Len(Pushed(q, r)) = BufferMax
  BY <1>5, <1>10, <1>12
<1> QED
  BY <1>9, <1>12, <1>13, <1>14

LEMMA RestartHost ==
  ASSUME KnownInv, Restart
  PROVE  HostInv' /\ Put' = {}
<1>1. /\ buf' = [h \in Hosts |-> <<>>] /\ at' = [t \in Threads |-> "ids"]
      /\ parquet' = parquet
  BY DEF Restart
<1>2. \A e \in parquet : e.boot # boots'
  <2>1. \A e \in parquet : e \in Known'
    BY <1>1 DEF Known
  <2> QED
    BY <2>1, RestartInv DEF Current
<1>3. Put' = {}
  BY <1>1, <1>2 DEF Put
<1> QED
  BY <1>1, <1>3, EmptyIs DEF HostInv, PutOf, Injective

LEMMA HostInvariant == Spec => []HostInv
<1>1. Init => HostInv
  <2> SUFFICES ASSUME Init PROVE HostInv
    OBVIOUS
  <2>1. Put = {} /\ \A h \in Hosts : buf[h] = <<>>
    BY DEF Init, FeedInit, Put
  <2> QED
    BY <2>1, EmptyIs DEF HostInv, PutOf, Injective
<1>2. KnownInv /\ HostInv /\ [Next]_vars => HostInv'
  <2> SUFFICES ASSUME KnownInv, HostInv, [Next]_vars PROVE HostInv'
    OBVIOUS
  <2>1. CASE UNCHANGED feedVars
    <3>1. Put' = Put /\ buf' = buf
      BY <2>1 DEF feedVars, Put
    <3> QED
      BY <3>1, HostKept
  <2>2. ASSUME NEW t \in Threads, Insert(t) PROVE HostInv'
    BY <2>2, AssignHost, PutHotHost, PutHostHost, PersistHost DEF Insert
  <2> QED
    BY <2>1, <2>2, RestartHost, EngineKeepsFeed
       DEF Next, ConnectionStep, PipelineRestarts, EngineFails, vars
<1> QED
  BY <1>1, <1>2, KnownInvariant, PTL DEF Spec

(* The numbers of the events bound how many there are.                     *)
LEMMA KnownIsFinite ==
  ASSUME KnownInv
  PROVE  IsFiniteSet(Known) /\ Cardinality(Known) <= MaxEvents
<1>1. \A e \in Known : e.n \in 1..MaxEvents
  BY KnownTyped, EventIs DEF KnownInv
<1> DEFINE f == [e \in Known |-> e.n]
<1>2. f \in Injection(Known, 1..MaxEvents)
  <2>1. f \in [Known -> 1..MaxEvents]
    BY <1>1
  <2>2. \A e, g \in Known : f[e] = f[g] => e = g
    BY DEF KnownInv, Numbered
  <2>3. DOMAIN f = Known
    OBVIOUS
  <2> HIDE DEF f
  <2> QED
    BY <2>1, <2>2, <2>3 DEF Injection, IsInjective
<1>3. IsFiniteSet(1..MaxEvents) /\ Cardinality(1..MaxEvents) = MaxEvents
  BY NumbersAreBounded, FS_Interval
<1> QED
  BY <1>2, <1>3, FS_Injection

LEMMA RangeOfInjective ==
  ASSUME NEW S, NEW q \in Seq(S), Injective(q)
  PROVE  IsFiniteSet(Range(q)) /\ Cardinality(Range(q)) = Len(q)
<1>1. Len(q) \in Nat /\ Range(q) = {q[i] : i \in 1..Len(q)} /\ q \in [1..Len(q) -> S]
  BY LenProperties, RangeIs
<1>2. q \in [1..Len(q) -> Range(q)]
  BY <1>1
<1>3. q \in Bijection(1..Len(q), Range(q))
  <2>1. \A i, j \in 1..Len(q) : q[i] = q[j] => i = j
    BY DEF Injective
  <2>2. \A x \in Range(q) : \E i \in 1..Len(q) : q[i] = x
    BY <1>1
  <2>3. q \in Injection(1..Len(q), Range(q))
    BY <1>1, <1>2, <2>1 DEF Injection, IsInjective
  <2>4. q \in Surjection(1..Len(q), Range(q))
    BY <1>2, <2>2 DEF Surjection
  <2> QED
    BY <2>3, <2>4 DEF Bijection
<1>4. ExistsBijection(1..Len(q), Range(q))
  BY <1>3 DEF ExistsBijection
<1>5. IsFiniteSet(1..Len(q)) /\ Cardinality(1..Len(q)) = Len(q)
  BY <1>1, FS_Interval
<1> QED
  BY <1>4, <1>5, FS_Bijection

(* An event leaves the feed only when a full buffer of later ones of its   *)
(* own host has pushed it out, whatever the other hosts send and whatever  *)
(* way the connection threads take turns: HOST_BUFFERS.                    *)
THEOREM OnlyOwnHostEvictsCorrect == Spec => []OnlyOwnHostEvicts
<1>1. KnownInv /\ HostInv => OnlyOwnHostEvicts
  <2> SUFFICES ASSUME KnownInv, HostInv, NEW e \in Put \ Fed
               PROVE  Cardinality({f \in Put : f.host = e.host /\ f # e}) >= BufferMax
    BY DEF OnlyOwnHostEvicts, Put
  <2>1. Put \subseteq Known /\ e \in Event
    <3>1. Put \subseteq Known
      BY DEF Put, Known
    <3> QED
      BY <3>1, KnownTyped DEF KnownInv
  <2>2. PICK h \in Hosts : h = e.host
    BY <2>1, EventIs
  <2>3. /\ buf[h] \in Seq(Event) /\ Injective(buf[h]) /\ Range(buf[h]) \subseteq PutOf(h)
        /\ PutOf(h) # Range(buf[h]) => Len(buf[h]) = BufferMax
    BY DEF HostInv, KnownInv, FeedTyped
  <2>4. e \in PutOf(h) /\ e \notin Range(buf[h])
    BY <2>2 DEF PutOf, Fed
  <2>5. Cardinality(Range(buf[h])) = BufferMax
    BY <2>3, <2>4, RangeOfInjective
  <2> DEFINE others == {f \in Put : f.host = e.host /\ f # e}
  <2>6. Range(buf[h]) \in SUBSET others /\ others \in SUBSET Known
    BY <2>1, <2>2, <2>3, <2>4 DEF PutOf
  <2>7. IsFiniteSet(others)
    BY <2>6, KnownIsFinite, FS_Subset
  <2>8. Cardinality(Range(buf[h])) <= Cardinality(others)
    BY <2>6, <2>7, FS_Subset
  <2> HIDE DEF others
  <2>9. Cardinality(others) \in Nat
    BY <2>7, FS_CardinalityType
  <2>10. Cardinality(others) >= BufferMax
    BY <2>5, <2>8, <2>9, NumbersAreBounded
  <2> QED
    BY <2>10 DEF others
<1> QED
  BY <1>1, KnownInvariant, HostInvariant, PTL

-----------------------------------------------------------------------------
(* What is out: stored by this session, or in a batch that has its ids.    *)
Out == {e \in parquet : e.boot = boots}
         \cup UNION {Range(batch[t]) : t \in {u \in Threads : at[u] # "ids"}}
FedOut == Range(hot) \subseteq Out /\ Range(snap) \subseteq Out

LEMMA OutIs ==
  ASSUME KnownInv
  PROVE  Put \subseteq Out /\ Out \subseteq Current
<1>1. \A u \in Threads : \A e \in Range(batch[u]) : e.boot = boots
  BY DEF KnownInv, Numbered
<1> QED
  BY <1>1 DEF Put, Out, Current, Known

LEMMA AssignOut ==
  ASSUME KnownInv, NEW t \in Threads, AssignId(t)
  PROVE  Out' = Out
<1>1. /\ \A u \in Threads : u # t => batch'[u] = batch[u]
      /\ at[t] = "ids" /\ UNCHANGED <<hot, buf, at, parquet, boots, overtaken>>
  BY AssignKnown
<1> QED
  BY <1>1 DEF Out

LEMMA PutHotOut ==
  ASSUME KnownInv, NEW t \in Threads, PutHot(t)
  PROVE  /\ Out' = Out \cup Range(batch[t])
         /\ \A e \in Out : e \notin Range(batch[t])
<1>1. /\ at[t] = "ids" /\ at' = [at EXCEPT ![t] = "host"]
      /\ UNCHANGED <<buf, batch, parquet, boots>>
      /\ at \in [Threads -> {"ids", "host", "log"}]
  BY DEF PutHot, KnownInv, FeedTyped
<1>2. {u \in Threads : at'[u] # "ids"} = {u \in Threads : at[u] # "ids"} \cup {t}
  BY <1>1
<1>3. Out' = Out \cup Range(batch[t])
  BY <1>1, <1>2 DEF Out
<1>4. \A e \in Range(batch[t]) : e \notin parquet
  BY DEF KnownInv, Numbered
<1>5. \A u \in Threads : at[u] # "ids" => Range(batch[u]) \cap Range(batch[t]) = {}
  BY <1>1 DEF KnownInv, Numbered
<1> QED
  BY <1>3, <1>4, <1>5 DEF Out

LEMMA PutHostOut ==
  ASSUME KnownInv, NEW t \in Threads, PutHost(t)
  PROVE  Out' = Out
<1>1. /\ at[t] = "host" /\ at' = [at EXCEPT ![t] = "log"]
      /\ UNCHANGED <<seq, hot, batch, parquet, boots, count, overtaken>>
      /\ at \in [Threads -> {"ids", "host", "log"}]
  BY PutHostIs DEF KnownInv, FeedTyped
<1>2. \A u \in Threads : at'[u] # "ids" <=> at[u] # "ids"
  BY <1>1
<1> QED
  BY <1>1, <1>2 DEF Out

LEMMA PersistOut ==
  ASSUME KnownInv, NEW t \in Threads, Persist(t)
  PROVE  Out' = Out
<1>1. /\ parquet' = parquet \cup Range(batch[t])
      /\ \A u \in Threads : u # t => batch'[u] = batch[u]
      /\ at[t] = "log" /\ at' = [at EXCEPT ![t] = "ids"]
      /\ UNCHANGED <<buf, boots>>
      /\ at \in [Threads -> {"ids", "host", "log"}]
  BY PersistKnown DEF KnownInv, FeedTyped
<1>2. \A e \in Range(batch[t]) : e.boot = boots
  BY DEF KnownInv, Numbered
<1>3. {u \in Threads : at'[u] # "ids"} = {u \in Threads : at[u] # "ids"} \ {t}
  BY <1>1
<1>4. \A u \in {v \in Threads : at[v] # "ids"} \ {t} : batch'[u] = batch[u]
  BY <1>1
<1>5. {e \in parquet' : e.boot = boots'} = {e \in parquet : e.boot = boots} \cup Range(batch[t])
  BY <1>1, <1>2
<1> QED
  BY <1>1, <1>3, <1>4, <1>5 DEF Out

LEMMA RestartOut ==
  ASSUME KnownInv, Restart
  PROVE  Out' = {}
<1>1. KnownInv' /\ Current' = {}
  BY RestartInv
<1>2. Out' \subseteq Current'
  <2>1. at' = [t \in Threads |-> "ids"]
    BY DEF Restart
  <2> QED
    BY <2>1 DEF Out, Current, Known
<1> QED
  BY <1>1, <1>2

LEMMA PutHotRange ==
  ASSUME FeedTyped, NEW t \in Threads, PutHot(t)
  PROVE  /\ Range(hot') \subseteq Range(hot) \cup Range(batch[t])
         /\ hot' = Pushed(hot, batch[t]) /\ hot' \in Seq(Event)
         /\ at[t] = "ids" /\ at' = [at EXCEPT ![t] = "host"] /\ batch[t] # <<>>
         /\ UNCHANGED <<seq, buf, batch, parquet, boots, count>>
<1>1. hot \in Seq(Event) /\ batch[t] \in Seq(Event)
  BY BatchIs DEF FeedTyped
<1>2. Range(Pushed(hot, batch[t])) \subseteq Range(hot) \cup Range(batch[t])
      /\ Pushed(hot, batch[t]) \in Seq(Event)
  BY <1>1, PushedIs
<1> QED
  BY <1>2 DEF PutHot

LEMMA FedOutInvariant == Spec => []FedOut
<1>1. Init => FedOut
  BY EmptyIs DEF Init, FeedInit, FedOut
<1>2. KnownInv /\ FedOut /\ [Next]_vars => FedOut'
  <2> SUFFICES ASSUME KnownInv, FedOut, [Next]_vars PROVE FedOut'
    OBVIOUS
  <2>0. Range(hot) \subseteq Out /\ Range(snap) \subseteq Out /\ FeedTyped
    BY DEF FedOut, KnownInv
  <2>1. CASE UNCHANGED vars
    <3>1. Out' = Out /\ hot' = hot /\ snap' = snap
      BY <2>1 DEF vars, feedVars, engineVars, Out
    <3> QED
      BY <2>0, <3>1 DEF FedOut
  <2>2. ASSUME NEW t \in Threads, Insert(t), snap' = snap PROVE FedOut'
    <3>1. CASE AssignId(t)
      BY <2>0, <2>2, <3>1, AssignOut, AssignKnown DEF FedOut
    <3>2. CASE PutHot(t)
      BY <2>0, <2>2, <3>2, PutHotOut, PutHotRange DEF FedOut
    <3>3. CASE PutHost(t)
      BY <2>0, <2>2, <3>3, PutHostOut, PutHostIs DEF FedOut
    <3>4. CASE Persist(t)
      BY <2>0, <2>2, <3>4, PersistOut, PersistKnown DEF FedOut
    <3> QED
      BY <2>2, <3>1, <3>2, <3>3, <3>4 DEF Insert
  <2>3. CASE PipelineRestarts
    <3>1. Range(hot') = {} /\ Range(snap') = {}
      BY <2>3, EmptyIs DEF PipelineRestarts, Restart
    <3> QED
      BY <3>1 DEF FedOut
  <2>4. CASE EngineStep \/ EngineFails
    <3>1. Out' = Out /\ hot' = hot
      BY <2>4, EngineKeepsFeed DEF feedVars, Out
    <3>2. snap' = snap \/ snap' = hot \/ snap' = <<>>
      BY <2>4 DEF EngineStep, EngineFails, Probe, CopyHot, Merge, Extra, Analyse,
                  ProbeFails, FetchFails, ExtraFails, AnalyseRaises
    <3> QED
      BY <2>0, <3>1, <3>2, EmptyIs DEF FedOut
  <2> QED
    BY <2>1, <2>2, <2>3, <2>4 DEF Next, ConnectionStep, engineVars, EngineFails
<1> QED
  BY <1>1, <1>2, KnownInvariant, PTL DEF Spec

-----------------------------------------------------------------------------
(* The response.  Where no two events have one id, the latest k are at     *)
(* most k, and the newest is one of them.                                  *)
OneId(A) == \A e, f \in A : e.id = f.id => e = f
Above(A, e) == {f \in A : f.id > e.id}
Below(A, e) == {f \in A : f.id < e.id}

LEMMA LatestAreFew ==
  ASSUME NEW A \in SUBSET Event, IsFiniteSet(A), OneId(A), NEW k \in Nat
  PROVE  /\ IsFiniteSet(Latest(k, A)) /\ Latest(k, A) \subseteq A
         /\ Cardinality(Latest(k, A)) \in Nat /\ Cardinality(Latest(k, A)) <= k
<1> DEFINE L == Latest(k, A)
           rank == [e \in L |-> Cardinality(Above(A, e))]
<1>1. L \subseteq A /\ \A e \in L : Cardinality(Above(A, e)) < k
  BY DEF Latest, Above
<1>2. \A e \in A : Above(A, e) \in SUBSET A /\ IsFiniteSet(Above(A, e))
                   /\ Cardinality(Above(A, e)) \in Nat /\ e.id \in Nat
  <2> SUFFICES ASSUME NEW e \in A
               PROVE  Above(A, e) \in SUBSET A /\ IsFiniteSet(Above(A, e))
                      /\ Cardinality(Above(A, e)) \in Nat /\ e.id \in Nat
    OBVIOUS
  <2>1. Above(A, e) \in SUBSET A
    BY DEF Above
  <2>2. IsFiniteSet(Above(A, e))
    BY <2>1, FS_Subset
  <2> QED
    BY <2>1, <2>2, FS_CardinalityType, EventIs
<1>3. ASSUME NEW e \in A, NEW f \in A, e.id < f.id
      PROVE  Cardinality(Above(A, e)) # Cardinality(Above(A, f))
  <2>0. \A g \in A : g.id \in Nat
    BY EventIs
  <2>1. f \in Above(A, e) /\ f \notin Above(A, f)
    BY <1>3, <2>0 DEF Above
  <2>2. Above(A, f) \in SUBSET Above(A, e)
    BY <1>3, <2>0 DEF Above
  <2> QED
    BY <1>2, <2>1, <2>2, FS_Subset
<1>4. \A e \in L : rank[e] \in 0..(k - 1)
  BY <1>1, <1>2
<1>5. \A e, f \in L : rank[e] = rank[f] => e = f
  <2> SUFFICES ASSUME NEW e \in L, NEW f \in L, rank[e] = rank[f], e # f
               PROVE  FALSE
    OBVIOUS
  <2>1. e \in A /\ f \in A /\ e.id # f.id
    BY <1>1 DEF OneId
  <2>2. e.id < f.id \/ f.id < e.id
    BY <1>2, <2>1
  <2> QED
    BY <1>3, <2>1, <2>2
<1>6. rank \in [L -> 0..(k - 1)] /\ DOMAIN rank = L
  BY <1>4
<1> HIDE DEF L, rank
<1>7. rank \in Injection(L, 0..(k - 1))
  BY <1>5, <1>6 DEF Injection, IsInjective
<1>8. IsFiniteSet(0..(k - 1)) /\ Cardinality(0..(k - 1)) = k
  BY FS_Interval
<1>9. IsFiniteSet(L) /\ Cardinality(L) <= k
  BY <1>7, <1>8, FS_Injection
<1>10. Cardinality(L) \in Nat
  BY <1>9, FS_CardinalityType
<1> QED
  BY <1>1, <1>9, <1>10 DEF L

LEMMA NewestIsLatest ==
  ASSUME NEW A \in SUBSET Event, IsFiniteSet(A), A # {}, NEW k \in Nat, k > 0
  PROVE  Latest(k, A) # {}
<1>1. PICK e \in A : \A f \in A : f.id <= e.id
  BY NewestIs
<1>2. {f \in A : f.id > e.id} = {}
  BY <1>1, EventIs
<1>3. e \in Latest(k, A)
  BY <1>2, FS_EmptySet DEF Latest
<1> QED
  BY <1>3

LEMMA ShareIsFair ==
  ASSUME NEW A \in SUBSET Event, IsFiniteSet(A), OneId(A), NEW quota \in Nat
  PROVE  /\ Share(A, quota) \subseteq A /\ IsFiniteSet(Share(A, quota))
         /\ Cardinality(Share(A, quota)) <= quota
         /\ quota > 0 /\ A # {} => Share(A, quota) # {}
<1> DEFINE H == {e \in A : e.kind = "high"}
           L == {e \in A : e.kind # "high"}
           high == Latest(quota, H)
           low == Latest(quota - Cardinality(high), L)
<1>1. H \in SUBSET A /\ L \in SUBSET A /\ H \cup L = A
  OBVIOUS
<1>2. Share(A, quota) = high \cup low
  BY DEF Share
<1> HIDE DEF H, L
<1>3. /\ IsFiniteSet(H) /\ H \in SUBSET Event /\ OneId(H)
      /\ IsFiniteSet(L) /\ L \in SUBSET Event /\ OneId(L)
  BY <1>1, FS_Subset DEF OneId
<1>4. /\ IsFiniteSet(high) /\ high \subseteq H
      /\ Cardinality(high) \in Nat /\ Cardinality(high) <= quota
  BY <1>3, LatestAreFew
<1>5. PICK k \in Nat : k = quota - Cardinality(high)
  BY <1>4
<1> HIDE DEF high
<1>6. /\ IsFiniteSet(low) /\ low \subseteq L
      /\ Cardinality(low) \in Nat /\ Cardinality(low) <= k
  BY <1>3, <1>5, LatestAreFew
<1>7. ASSUME quota > 0, A # {} PROVE high \cup low # {}
  <2>1. CASE H # {}
    BY <1>3, <1>7, <2>1, NewestIsLatest DEF high
  <2>2. CASE H = {} /\ L # {}
    <3>1. high = {}
      BY <1>4, <2>2
    <3>2. k = quota
      BY <1>5, <3>1, FS_EmptySet
    <3>3. Latest(k, L) # {}
      BY <1>3, <1>7, <2>2, <3>2, NewestIsLatest
    <3> QED
      BY <1>5, <3>3
  <2> QED
    BY <1>1, <1>7, <2>1, <2>2
<1> HIDE DEF low
<1>8. IsFiniteSet(high \cup low) /\ Cardinality(high \cup low) <= quota
  <2>1. /\ IsFiniteSet(high \cup low)
        /\ Cardinality(high \cup low)
             = Cardinality(high) + Cardinality(low) - Cardinality(high \cap low)
    BY <1>4, <1>6, FS_Union
  <2>2. Cardinality(high \cap low) \in Nat
    BY <1>4, FS_Intersection, FS_CardinalityType
  <2> QED
    BY <1>4, <1>5, <1>6, <2>1, <2>2
<1> QED
  BY <1>1, <1>2, <1>4, <1>6, <1>7, <1>8

LEMMA QuotaIs ==
  ASSUME NEW a \in Nat, NEW p \in Nat, p > 0, p <= a
  PROVE  a \div p \in Nat /\ a \div p >= 1 /\ (a \div p) * p <= a
<1>1. a = (a \div p) * p + (a % p)
  BY SMT
<1>2. a % p \in 0..(p - 1)
  BY SMT
<1>3. a \div p \in Int
  BY SMT
<1>4. CASE a \div p <= 0
  <2>1. (a \div p) * p <= 0
    BY <1>3, <1>4, SMT
  <2> QED
    BY <1>1, <1>2, <1>3, <2>1, SMT
<1> QED
  BY <1>1, <1>2, <1>3, <1>4, SMT

(* Sets of at most k elements, one for each element of P.                  *)
LEMMA FewOfEach ==
  ASSUME NEW P, IsFiniteSet(P), NEW k \in Nat, NEW F,
         \A p \in P : IsFiniteSet(F[p]) /\ Cardinality(F[p]) <= k
  PROVE  /\ IsFiniteSet(UNION {F[p] : p \in P})
         /\ Cardinality(UNION {F[p] : p \in P}) <= Cardinality(P) * k
<1> DEFINE U == UNION {F[p] : p \in P}
           of == [x \in U |-> CHOOSE p \in P : x \in F[p]]
           Into(p) == {g \in [F[p] -> 1..k] : IsInjective(g)}
           number == [p \in P |-> CHOOSE g \in Into(p) : TRUE]
           code == [x \in U |-> <<of[x], number[of[x]][x]>>]
<1>1. \A p \in P : Into(p) # {}
  <2> SUFFICES ASSUME NEW p \in P PROVE Into(p) # {}
    OBVIOUS
  <2>1. /\ Cardinality(F[p]) \in Nat /\ Cardinality(F[p]) <= k
        /\ IsFiniteSet(1..Cardinality(F[p])) /\ Cardinality(1..Cardinality(F[p])) = Cardinality(F[p])
    BY FS_CardinalityType, FS_Interval
  <2>2. ExistsBijection(F[p], 1..Cardinality(F[p]))
    BY <2>1, FS_SameCardinalityBij
  <2>3. PICK g \in [F[p] -> 1..Cardinality(F[p])] : IsInjective(g)
    BY <2>2 DEF ExistsBijection, Bijection, Injection
  <2>4. g \in [F[p] -> 1..k]
    BY <2>1, <2>3
  <2> QED
    BY <2>3, <2>4
<1>2. \A p \in P : number[p] \in [F[p] -> 1..k] /\ IsInjective(number[p])
  <2>1. \A p \in P : number[p] \in Into(p)
    BY <1>1
  <2> QED
    BY <2>1
<1>3. \A x \in U : of[x] \in P /\ x \in F[of[x]]
  OBVIOUS
<1> HIDE DEF of, number, Into
<1>4. \A x \in U : code[x] \in P \X (1..k)
  <2> SUFFICES ASSUME NEW x \in U PROVE <<of[x], number[of[x]][x]>> \in P \X (1..k)
    BY DEF code
  <2>1. number[of[x]][x] \in 1..k
    BY <1>2, <1>3
  <2> QED
    BY <1>3, <2>1
<1>5. \A x, y \in U : code[x] = code[y] => x = y
  <2> SUFFICES ASSUME NEW x \in U, NEW y \in U, code[x] = code[y] PROVE x = y
    OBVIOUS
  <2>1. of[x] = of[y] /\ number[of[x]][x] = number[of[y]][y]
    OBVIOUS
  <2>2. PICK p \in P : p = of[x] /\ x \in F[p] /\ y \in F[p]
    BY <1>3, <2>1
  <2>3. number[p][x] = number[p][y] /\ DOMAIN number[p] = F[p]
    BY <1>2, <2>1, <2>2
  <2> QED
    BY <1>2, <2>2, <2>3 DEF IsInjective
<1>6. code \in [U -> P \X (1..k)] /\ DOMAIN code = U
  BY <1>4
<1> HIDE DEF code, U
<1>7. code \in Injection(U, P \X (1..k))
  BY <1>5, <1>6 DEF Injection, IsInjective
<1>8. /\ IsFiniteSet(P \X (1..k))
      /\ Cardinality(P \X (1..k)) = Cardinality(P) * k
  <2>1. IsFiniteSet(1..k) /\ Cardinality(1..k) = k
    BY FS_Interval
  <2> QED
    BY <2>1, FS_Product
<1>9. IsFiniteSet(U) /\ Cardinality(U) <= Cardinality(P \X (1..k))
  BY <1>7, <1>8, FS_Injection
<1> QED
  BY <1>8, <1>9 DEF U

(* What a response has: all there is, or a fair share of each host.        *)
LEMMA BalancedIsFair ==
  ASSUME NEW A \in SUBSET Event, IsFiniteSet(A), OneId(A), A # {}
  PROVE  /\ Balanced(A) \subseteq A /\ IsFiniteSet(Balanced(A))
         /\ Cardinality(Balanced(A)) <= Limit
         /\ \A e \in A : \E f \in Balanced(A) : f.host = e.host
<1> DEFINE P == {e.host : e \in A}
           quota == Limit \div Cardinality(P)
           Of(h) == {e \in A : e.host = h}
           F == [h \in P |-> Share(Of(h), quota)]
<1>1. P \in SUBSET Hosts /\ P # {}
  BY EventIs
<1>2. /\ IsFiniteSet(P) /\ Cardinality(P) \in Nat /\ Cardinality(P) > 0
      /\ Cardinality(P) <= Limit /\ Limit \in Nat
  <2>1. IsFiniteSet(P) /\ Cardinality(P) <= Cardinality(Hosts)
    BY <1>1, NumbersAreBounded, FS_Subset
  <2>2. Cardinality(P) \in Nat /\ Cardinality(P) # 0 /\ Cardinality(Hosts) \in Nat
    BY <1>1, <2>1, NumbersAreBounded, FS_CardinalityType, FS_EmptySet
  <2> QED
    BY <2>1, <2>2, NumbersAreBounded
<1>3. Balanced(A) = UNION {Share(Of(h), quota) : h \in P}
  BY DEF Balanced
<1> HIDE DEF P
<1>4. quota \in Nat /\ quota > 0 /\ quota * Cardinality(P) <= Limit
  BY <1>2, QuotaIs
<1> HIDE DEF quota
<1>5. ASSUME NEW h \in P
      PROVE  /\ Of(h) \in SUBSET Event /\ Of(h) # {} /\ Of(h) \subseteq A
             /\ Share(Of(h), quota) \subseteq Of(h)
             /\ IsFiniteSet(Share(Of(h), quota)) /\ Cardinality(Share(Of(h), quota)) <= quota
             /\ Share(Of(h), quota) # {}
  <2>1. Of(h) \in SUBSET Event /\ Of(h) # {} /\ Of(h) \in SUBSET A /\ OneId(Of(h))
    BY DEF P, OneId
  <2>2. IsFiniteSet(Of(h))
    BY <2>1, FS_Subset
  <2> HIDE DEF Of
  <2> QED
    BY <1>4, <2>1, <2>2, ShareIsFair
<1>6. \A h \in P : IsFiniteSet(F[h]) /\ Cardinality(F[h]) <= quota
  BY <1>5
<1>7. {Share(Of(h), quota) : h \in P} = {F[h] : h \in P}
  OBVIOUS
<1>8. /\ Balanced(A) \subseteq A
      /\ \A e \in A : \E f \in Balanced(A) : f.host = e.host
  <2>1. \A e \in A : e.host \in P
    BY DEF P
  <2>2. \A h \in P : \E f \in Share(Of(h), quota) : f.host = h
    BY <1>5
  <2> HIDE DEF F, Of
  <2>3. \A h \in P : Share(Of(h), quota) \subseteq A
    BY <1>5
  <2>4. Balanced(A) \subseteq A
    BY <1>3, <2>3
  <2>5. ASSUME NEW e \in A PROVE \E f \in Balanced(A) : f.host = e.host
    <3>1. PICK h \in P : h = e.host
      BY <2>1
    <3>2. PICK f \in Share(Of(h), quota) : f.host = h
      BY <2>2
    <3>3. f \in Balanced(A)
      BY <1>3, <3>2
    <3> QED
      BY <3>1, <3>2, <3>3
  <2> QED
    BY <2>4, <2>5
<1> HIDE DEF F, Of
<1>9. /\ IsFiniteSet(UNION {F[h] : h \in P})
      /\ Cardinality(UNION {F[h] : h \in P}) <= Cardinality(P) * quota
  BY <1>2, <1>4, <1>6, FewOfEach
<1>10. Cardinality(P) * quota = quota * Cardinality(P)
  BY <1>2, <1>4
<1>11. Balanced(A) = UNION {F[h] : h \in P}
  BY <1>3, <1>7
<1>12. Cardinality(UNION {F[h] : h \in P}) \in Nat
  BY <1>9, FS_CardinalityType
<1> QED
  <2>1. PICK c \in Nat : c = Cardinality(Balanced(A))
    BY <1>11, <1>12
  <2>2. PICK m \in Nat : m = quota * Cardinality(P)
    BY <1>2, <1>4
  <2>3. c <= m /\ m <= Limit
    BY <1>4, <1>9, <1>10, <1>11, <2>1, <2>2
  <2>4. c <= Limit
    BY <1>2, <2>1, <2>2, <2>3
  <2> QED
    BY <1>8, <1>9, <1>11, <2>1, <2>4

LEMMA EarliestAreAll ==
  ASSUME NEW A \in SUBSET Event, IsFiniteSet(A), Cardinality(A) <= Limit
  PROVE  Earliest(Limit, A) = A
<1> SUFFICES ASSUME NEW e \in A PROVE Cardinality({f \in A : f.id < e.id}) < Limit
  BY DEF Earliest
<1> DEFINE B == {f \in A : f.id < e.id}
<1>1. B \in SUBSET A /\ e \notin B
  BY EventIs
<1>2. IsFiniteSet(B) /\ Cardinality(B) <= Cardinality(A) /\ (Cardinality(A) = Cardinality(B) => A = B)
  BY <1>1, FS_Subset
<1>3. Cardinality(A) \in Nat /\ Cardinality(B) \in Nat
  BY <1>2, FS_CardinalityType
<1> HIDE DEF B
<1>4. Cardinality(B) < Limit
  BY <1>1, <1>2, <1>3, NumbersAreBounded
<1> QED
  BY <1>4 DEF B

(* What could be in a response has different ids: it is of this session.   *)
LEMMA NewerAreCurrent ==
  ASSUME KnownInv, HostInv, FedOut, snap \in Seq(Event), NEW since
  PROVE  /\ Newer(snap, since) \in SUBSET Event /\ IsFiniteSet(Newer(snap, since))
         /\ Newer(snap, since) \subseteq Out /\ OneId(Newer(snap, since))
<1>1. Newer(snap, since) \in SUBSET Event /\ IsFiniteSet(Newer(snap, since))
  BY NewerIs DEF KnownInv
<1>2. \A h \in Hosts : Range(buf[h]) \subseteq Out
  BY OutIs DEF HostInv, PutOf
<1>3. Newer(snap, since) \subseteq Out
  BY <1>2 DEF Newer, FedOut
<1>4. Out \subseteq Current /\ OneId(Current)
  BY OutIs DEF KnownInv, Ided, IdsIn, OneId
<1> QED
  BY <1>1, <1>3, <1>4 DEF OneId

LEMMA MergeServes ==
  ASSUME KnownInv, HostInv, FedOut, EngineTyped, Merge,
         NEW h \in Hosts, NEW e \in Range(buf[h]), e.id > cursor
  PROVE  \E f \in got' : f.host = h
<1> DEFINE A == Newer(snap, cursor)
<1>1. /\ A \in SUBSET Event /\ IsFiniteSet(A) /\ OneId(A)
  BY NewerAreCurrent DEF EngineTyped
<1>2. e \in A /\ e.host = h
  BY DEF HostInv, PutOf, Newer
<1>3. got' = Earliest(Limit, IF Cardinality(A) > Limit THEN Balanced(A) ELSE A)
  BY DEF Merge, Since, Newer
<1> HIDE DEF A
<1>4. Cardinality(A) \in Nat /\ Limit \in Nat
  BY <1>1, FS_CardinalityType, NumbersAreBounded
<1>5. CASE Cardinality(A) > Limit
  <2>1. /\ Balanced(A) \in SUBSET Event /\ IsFiniteSet(Balanced(A))
        /\ Cardinality(Balanced(A)) <= Limit
        /\ \E f \in Balanced(A) : f.host = h
    BY <1>1, <1>2, BalancedIsFair
  <2>2. Earliest(Limit, Balanced(A)) = Balanced(A)
    BY <2>1, EarliestAreAll
  <2> QED
    BY <1>3, <1>5, <2>1, <2>2
<1>6. CASE ~(Cardinality(A) > Limit)
  <2>1. Cardinality(A) <= Limit
    BY <1>4, <1>6
  <2>2. Earliest(Limit, A) = A
    BY <1>1, <2>1, EarliestAreAll
  <2> QED
    BY <1>2, <1>3, <1>6, <2>2
<1> QED
  BY <1>5, <1>6

(* A response has an event of every host that has a newer one, however     *)
(* many events the others have, when the limit leaves a share for each:    *)
(* events_since.                                                           *)
THEOREM EveryHostServedCorrect == Spec => EveryHostServed
<1>1. KnownInv /\ HostInv /\ FedOut /\ FeedTyped /\ EngineTyped /\ [Next]_vars =>
        [phase = "merge" /\ phase' = "tmp" /\ <<faults, boots>>' = <<faults, boots>> =>
           \A h \in Hosts :
             (\E e \in Range(buf[h]) : e.id > cursor) =>
               \E e \in got' : e.host = h]_vars
  <2> SUFFICES ASSUME KnownInv, HostInv, FedOut, FeedTyped, EngineTyped, [Next]_vars,
                      phase = "merge", phase' = "tmp", faults' = faults, boots' = boots,
                      NEW h \in Hosts, NEW e \in Range(buf[h]), e.id > cursor
               PROVE  \E f \in got' : f.host = h
    OBVIOUS
  <2>1. ~UNCHANGED engineVars
    BY DEF engineVars
  <2>2. ~Restart
    BY NumbersAreBounded DEF Restart, FeedTyped
  <2>3. ~Fault
    BY DEF Fault, EngineTyped
  <2>4. Merge
    BY <2>1, <2>2, <2>3 DEF Next, vars, ConnectionStep, PipelineRestarts, EngineStep,
                            Probe, CopyHot, Extra, Analyse, Supplements,
                            ProbeFails, FetchFails, ExtraFails, AnalyseRaises
  <2> QED
    BY <2>4, MergeServes
<1> QED
  BY <1>1, KnownInvariant, HostInvariant, FedOutInvariant, FeedIsTyped, PTL
     DEF Spec, EveryHostServed

-----------------------------------------------------------------------------
(* What the engine was given: of this session, and fetched once.           *)
Once(e) == e.kind \notin Supplements /\ e.boot = boots
HandledInv ==
  /\ \A e \in Handled : e.boot <= boots
  /\ \A e \in Handled : Once(e) => e.id <= cursor \/ rewound

LEMMA OnceKept ==
  ASSUME boots' = boots
  PROVE  \A e : Once(e)' <=> Once(e)
BY DEF Once

LEMMA ProbeIs ==
  ASSUME Probe \/ ProbeFails
  PROVE  /\ Handled' = Handled /\ UNCHANGED <<boots, hot>>
         /\ cursor' = cursor \/ cursor' = CursorAfterProbe
         /\ rewound => rewound'
         /\ cursor' # cursor /\ (\E e \in Handled : Once(e)) => rewound'
         /\ rewound' => rewound \/ (cursor' # cursor /\ \E e \in Handled : Once(e))
<1>1. CASE Probe
  <2>1. Handled' = Handled /\ UNCHANGED <<boots, hot>> /\ cursor' = CursorAfterProbe
    BY <1>1 DEF Probe, feedVars, Handled
  <2>2. rewound' = (rewound \/ (cursor' # cursor /\ \E e \in Handled : Once(e)))
    BY <1>1 DEF Probe, Once
  <2> QED
    BY <2>1, <2>2
<1>2. CASE ProbeFails
  <2>1. Handled' = Handled /\ UNCHANGED <<boots, hot, cursor>>
    BY <1>2 DEF ProbeFails, feedVars, Handled
  <2>2. rewound' = rewound
    BY <1>2 DEF ProbeFails
  <2> QED
    BY <2>1, <2>2
<1> QED
  BY <1>1, <1>2

LEMMA ProbeHandled ==
  ASSUME HandledInv, Probe \/ ProbeFails
  PROVE  HandledInv'
<1>1. /\ Handled' = Handled /\ boots' = boots /\ (rewound => rewound')
      /\ (cursor' # cursor /\ (\E e \in Handled : Once(e)) => rewound')
  BY ProbeIs
<1>2. \A e : Once(e)' <=> Once(e)
  BY <1>1, OnceKept
<1> QED
  BY <1>1, <1>2 DEF HandledInv

LEMMA MergeHandled ==
  ASSUME KnownInv, HostInv, FedOut, EngineTyped, HandledInv, Merge
  PROVE  HandledInv'
<1>1. PICK events : events = Since(snap, cursor)
  OBVIOUS
<1>2. /\ got' = events /\ cursor' = Advanced(events) /\ boots' = boots
      /\ UNCHANGED <<seen, missed, hot, rewound>>
  BY <1>1 DEF Merge, feedVars
<1>3. /\ events \in SUBSET Event /\ IsFiniteSet(events) /\ events \subseteq Out
      /\ \A e \in events : e.id > cursor
  BY <1>1, SinceTyped, SinceIsNewer, NewerAreCurrent DEF KnownInv, EngineTyped, Newer
<1>4. Handled' \subseteq events \cup Handled /\ (\A e : Once(e)' <=> Once(e))
  BY <1>2, OnceKept DEF Handled
<1>5. \A e \in events : e.boot = boots /\ boots <= boots
  BY <1>3, OutIs, NumbersAreBounded DEF Current, KnownInv, FeedTyped
<1>6. cursor <= cursor' /\ (\A e \in events : e.id <= cursor')
  <2>1. CASE events = {}
    BY <1>2, <2>1 DEF Advanced, EngineTyped
  <2>2. CASE events # {}
    <3>1. PICK last \in events : last.id = cursor' /\ \A e \in events : e.id <= cursor'
      BY <1>2, <1>3, <2>2, NewestIs DEF Advanced
    <3> QED
      BY <1>3, <3>1, EventIs DEF EngineTyped
  <2> QED
    BY <2>1, <2>2
<1>7. ASSUME NEW e \in Handled, Once(e) PROVE e.id <= cursor' \/ rewound
  <2>1. e.id <= cursor \/ rewound
    BY <1>7 DEF HandledInv
  <2>2. e.id \in Nat /\ cursor \in Nat /\ cursor' \in Nat
    BY <1>1, <1>2, SinceTyped, EventIs DEF Handled, EngineTyped, KnownInv
  <2> QED
    BY <1>6, <2>1, <2>2
<1>8. \A e \in Handled' : e.boot <= boots'
  BY <1>2, <1>4, <1>5 DEF HandledInv
<1>9. \A e \in Handled' : Once(e)' => e.id <= cursor' \/ rewound'
  BY <1>2, <1>4, <1>6, <1>7
<1> QED
  BY <1>8, <1>9 DEF HandledInv

LEMMA ExtraHandled ==
  ASSUME KnownInv, FedOut, HandledInv, NEW k \in Supplements, Extra(k)
  PROVE  /\ HandledInv'
         /\ \A e \in Handled' : e \in Handled \/ e.kind \in Supplements
<1>1. PICK more : more = Latest(50, {e \in Range(hot) : e.kind = k})
  OBVIOUS
<1>2. \A e \in more : e \in Range(hot) /\ e.kind = k
  BY <1>1 DEF Latest
<1>3. Handled' \subseteq Handled \cup more /\ boots' = boots /\ UNCHANGED <<cursor, rewound>>
  BY <1>1 DEF Extra, feedVars, Handled
<1>4. \A e \in more : e.boot <= boots
  BY <1>2, OutIs, NumbersAreBounded DEF FedOut, Current, KnownInv, FeedTyped
<1>5. \A e : Once(e)' <=> Once(e)
  BY <1>3, OnceKept
<1>6. \A e \in more : ~Once(e)
  BY <1>2 DEF Once
<1>7. \A e \in Handled' : e.boot <= boots'
  BY <1>3, <1>4 DEF HandledInv
<1>8. \A e \in Handled' : Once(e)' => e.id <= cursor' \/ rewound'
  BY <1>3, <1>5, <1>6 DEF HandledInv
<1> QED
  BY <1>2, <1>3, <1>7, <1>8 DEF HandledInv

(* The steps that give the engine nothing and leave the cursor alone.      *)
Idle == CopyHot \/ FetchFails \/ (\E k \in Supplements : ExtraFails(k))
          \/ Analyse \/ AnalyseRaises

LEMMA IdleKeeps ==
  ASSUME Idle
  PROVE  Handled' = Handled /\ UNCHANGED <<feedVars, hot, boots, cursor, rewound, overtaken, cut>>
BY DEF Idle, CopyHot, FetchFails, ExtraFails, Analyse, AnalyseRaises, feedVars, Handled

LEMMA HandledKept ==
  ASSUME HandledInv, Handled' = Handled, UNCHANGED <<boots, cursor, rewound>>
  PROVE  HandledInv'
BY OnceKept DEF HandledInv

LEMMA EngineHandled ==
  ASSUME KnownInv, HostInv, FedOut, EngineTyped, HandledInv, EngineStep \/ EngineFails
  PROVE  HandledInv'
<1>1. CASE Idle
  BY <1>1, IdleKeeps, HandledKept
<1>2. CASE \E k \in Supplements : Extra(k)
  BY <1>2, ExtraHandled
<1> QED
  BY <1>1, <1>2, ProbeHandled, MergeHandled DEF EngineStep, EngineFails, Idle

LEMMA RestartHandled ==
  ASSUME FeedTyped, HandledInv, EngineTyped, PipelineRestarts
  PROVE  HandledInv'
<1>1. Handled' = Handled /\ boots' = boots + 1 /\ boots \in Nat
  BY NumbersAreBounded DEF PipelineRestarts, Restart, Handled, FeedTyped
<1>2. \A e \in Handled : e.boot \in Nat /\ e.boot <= boots
  BY EventIs, NumbersAreBounded DEF HandledInv, Handled, EngineTyped
<1> QED
  BY <1>1, <1>2 DEF HandledInv, Once

LEMMA HandledInvariant == Spec => []HandledInv
<1>1. Init => HandledInv
  BY DEF Init, Handled, HandledInv
<1>2. KnownInv /\ HostInv /\ FedOut /\ FeedTyped /\ EngineTyped /\ HandledInv /\ [Next]_vars
        => HandledInv'
  <2> SUFFICES ASSUME KnownInv, HostInv, FedOut, FeedTyped, EngineTyped, HandledInv, [Next]_vars
               PROVE  HandledInv'
    OBVIOUS
  <2>1. CASE UNCHANGED vars
    <3>1. UNCHANGED <<boots, cursor, got, seen, missed, rewound>>
      BY <2>1 DEF vars, feedVars, engineVars
    <3> QED
      BY <3>1, HandledKept DEF Handled
  <2>2. ASSUME NEW t \in Threads, ConnectionStep(t) PROVE HandledInv'
    <3>1. UNCHANGED <<boots, cursor, got, seen, missed, rewound>>
      BY <2>2 DEF ConnectionStep, engineVars, Insert, AssignId, PutHot, PutHost, Persist
    <3> QED
      BY <3>1, HandledKept DEF Handled
  <2> QED
    BY <2>1, <2>2, EngineHandled, RestartHandled DEF Next, EngineFails
<1> QED
  BY <1>1, <1>2, KnownInvariant, HostInvariant, FedOutInvariant, FeedIsTyped, PTL DEF Spec

(* No event that is fetched once is given to the engine twice, whatever    *)
(* the buffers drop, requests fail and restarts of the pipeline give out   *)
(* again, for every number of connections: _fetch_new.  The exception is a *)
(* probe that took the cursor back although the pipeline had not been      *)
(* restarted.                                                              *)
THEOREM DeliveredOnceCorrect == Spec => DeliveredOnce
<1>1. KnownInv /\ HostInv /\ FedOut /\ EngineTyped /\ HandledInv /\ [Next]_vars =>
        [\A e \in got' \ got :
           e.kind \notin Supplements => e \notin seen \cup missed \/ rewound]_vars
  <2> SUFFICES ASSUME KnownInv, HostInv, FedOut, EngineTyped, HandledInv, [Next]_vars,
                      NEW e \in got' \ got, e.kind \notin Supplements,
                      e \in seen \cup missed, ~rewound
               PROVE  FALSE
    OBVIOUS
  <2>1. ~UNCHANGED got
    OBVIOUS
  <2>2. ASSUME NEW k \in Supplements, Extra(k) PROVE FALSE
    <3>1. e \in Latest(50, {f \in Range(hot) : f.kind = k})
      BY <2>2 DEF Extra
    <3> QED
      BY <3>1 DEF Latest
  <2>3. Merge
    BY <2>1, <2>2 DEF Next, vars, engineVars, ConnectionStep, PipelineRestarts, EngineStep,
                      Probe, CopyHot, Analyse,
                      ProbeFails, FetchFails, ExtraFails, AnalyseRaises
  <2>4. e \in Newer(snap, cursor)
    BY <2>3, SinceIsNewer DEF Merge
  <2>5. e.id > cursor /\ e.boot = boots /\ e \in Event
    BY <2>4, NewerAreCurrent, OutIs DEF Newer, Current, EngineTyped
  <2>6. e.id <= cursor
    BY <2>5 DEF HandledInv, Handled, Once
  <2> QED
    BY <2>5, <2>6, EventIs DEF EngineTyped
<1> QED
  BY <1>1, HandledInvariant, KnownInvariant, HostInvariant, FedOutInvariant, FeedIsTyped, PTL
     DEF Spec, DeliveredOnce

-----------------------------------------------------------------------------
(* One connection.  Its ids leave it in their order; with more of them     *)
(* they need not, and the newest event of the shared buffer may be older   *)
(* than one that has left it.                                              *)
OneThread == \A t, u \in Threads : t = u

Rising(q) == \A i, j \in 1..Len(q) : i < j => q[i].id < q[j].id
Ordered ==
  \A t \in Threads :
    /\ Rising(batch[t])
    /\ \A e \in Current, f \in Range(batch[t]) : e \notin Range(batch[t]) => e.id < f.id
HotNewest == \A e \in Out : \E f \in Range(hot) : e.id <= f.id
AheadInv ==
  /\ ~rewound
  /\ (\E e \in Handled : Once(e)) => \E f \in Range(hot) : cursor <= f.id

CursorInv == Ordered /\ HotNewest /\ AheadInv

LEMMA RisingAppend ==
  ASSUME NEW q \in Seq(Event), NEW x \in Event, Rising(q), \A e \in Range(q) : e.id < x.id
  PROVE  Rising(Append(q, x))
<1>1. /\ Len(Append(q, x)) = Len(q) + 1 /\ Len(q) \in Nat
      /\ \A i \in 1..Len(q) : Append(q, x)[i] = q[i] /\ q[i] \in Range(q)
      /\ Append(q, x)[Len(q) + 1] = x
  BY AppendProperties, LenProperties, RangeIs
<1> SUFFICES ASSUME NEW i \in 1..(Len(q) + 1), NEW j \in 1..(Len(q) + 1), i < j
             PROVE  Append(q, x)[i].id < Append(q, x)[j].id
  BY <1>1 DEF Rising
<1>2. i \in 1..Len(q)
  BY <1>1
<1>3. CASE j = Len(q) + 1
  BY <1>1, <1>2, <1>3
<1>4. CASE j # Len(q) + 1
  <2>1. j \in 1..Len(q)
    BY <1>1, <1>4
  <2> QED
    BY <1>1, <1>2, <2>1 DEF Rising
<1> QED
  BY <1>3, <1>4

(* The last of a batch is its newest, and stays in a deque.                *)
LEMMA LastIsNewest ==
  ASSUME NEW q \in Seq(Event), q # <<>>, Rising(q)
  PROVE  Len(q) \in 1..Len(q) /\ q[Len(q)] \in Range(q)
         /\ \A e \in Range(q) : e.id <= q[Len(q)].id
<1>1. Len(q) \in Nat /\ Len(q) > 0 /\ Range(q) = {q[i] : i \in 1..Len(q)}
      /\ \A i \in 1..Len(q) : q[i] \in Event
  BY EmptySeq, LenProperties, RangeIs, ElementOfSeq
<1>2. Len(q) \in 1..Len(q)
  BY <1>1
<1>3. ASSUME NEW i \in 1..Len(q) PROVE q[i].id <= q[Len(q)].id
  <2>1. q[i].id \in Nat /\ q[Len(q)].id \in Nat
    BY <1>1, <1>2, EventIs
  <2>2. i # Len(q) => q[i].id < q[Len(q)].id
    BY <1>1, <1>2 DEF Rising
  <2> QED
    BY <2>1, <2>2
<1> QED
  BY <1>1, <1>2, <1>3

LEMMA LastIsPushed ==
  ASSUME NEW q \in Seq(Event), NEW r \in Seq(Event), r # <<>>
  PROVE  r[Len(r)] \in Range(Pushed(q, r))
<1>1. PICK p : p = Pushed(q, r)
  OBVIOUS
<1>2. PICK w : w = q \o r
  OBVIOUS
<1>3. /\ Len(w) = Len(q) + Len(r) /\ Len(q) \in Nat /\ Len(r) \in Nat /\ Len(r) > 0
      /\ \A i \in 1..(Len(q) + Len(r)) : w[i] = IF i <= Len(q) THEN q[i] ELSE r[i - Len(q)]
  BY <1>2, ConcatProperties, LenProperties, EmptySeq
<1>4. PICK d : Kept(p, w, d)
  BY <1>1, <1>2, PushedIs
<1>5. /\ d \in 0..Len(w) /\ Len(p) = Len(w) - d
      /\ \A i \in 1..Len(p) : p[i] = w[i + d]
      /\ (d = 0 /\ Len(w) <= BufferMax) \/ (d = Len(w) - BufferMax /\ Len(w) > BufferMax)
  BY <1>4 DEF Kept
<1>6. Len(p) \in 1..Len(p) /\ Len(p) + d = Len(w)
  BY <1>3, <1>5, NumbersAreBounded
<1>7. p[Len(p)] = w[Len(w)]
  BY <1>5, <1>6
<1>8. w[Len(w)] = r[Len(r)]
  <2>1. Len(w) \in 1..(Len(q) + Len(r)) /\ ~(Len(w) <= Len(q)) /\ Len(w) - Len(q) = Len(r)
    BY <1>3
  <2> QED
    BY <1>3, <2>1
<1>9. p \in Seq(Event)
  BY <1>1, PushedIs
<1>10. p[Len(p)] \in Range(p)
  BY <1>6, <1>9, RangeIs
<1> QED
  BY <1>1, <1>7, <1>8, <1>10

LEMMA OrderedKept ==
  ASSUME Ordered, Current' = Current, batch' = batch
  PROVE  Ordered'
BY DEF Ordered, Rising

LEMMA InsertOrdered ==
  ASSUME KnownInv, OneThread, Ordered, NEW t \in Threads, Insert(t)
  PROVE  Ordered'
<1>1. CASE AssignId(t)
  <2>1. PICK e \in Event :
           /\ \A f \in Current : f.id < e.id
           /\ batch'[t] = Append(batch[t], e) /\ Range(batch'[t]) = Range(batch[t]) \cup {e}
           /\ Current' = Current \cup {e}
    BY <1>1, AssignKnown
  <2>2. batch[t] \in Seq(Event)
    BY BatchIs DEF KnownInv
  <2>3. Range(batch[t]) \subseteq Current
    BY DEF KnownInv, Numbered, Current, Known
  <2>4. Rising(batch'[t])
    BY <2>1, <2>2, <2>3, RisingAppend DEF Ordered
  <2>5. \A g \in Current', f \in Range(batch'[t]) : g \notin Range(batch'[t]) => g.id < f.id
    BY <2>1 DEF Ordered
  <2>6. \A u \in Threads : u = t
    BY DEF OneThread
  <2> QED
    BY <2>4, <2>5, <2>6 DEF Ordered
<1>2. CASE PutHot(t) \/ PutHost(t)
  <2>1. UNCHANGED <<batch, parquet, boots>>
    BY <1>2 DEF PutHot, PutHost
  <2>2. Current' = Current
    BY <2>1 DEF Current, Known
  <2> QED
    BY <2>1, <2>2, OrderedKept
<1>3. CASE Persist(t)
  <2>1. Range(batch'[t]) = {} /\ Len(batch'[t]) = 0
    BY <1>3, PersistKnown
  <2>2. \A u \in Threads : u = t
    BY DEF OneThread
  <2>3. Rising(batch'[t])
    BY <2>1 DEF Rising
  <2> QED
    BY <2>1, <2>2, <2>3 DEF Ordered
<1> QED
  BY <1>1, <1>2, <1>3 DEF Insert

(* insert_batch never takes the newest id from the feed.                   *)
LEMMA InsertNewest ==
  ASSUME KnownInv, FedOut, Ordered, HotNewest, NEW t \in Threads, Insert(t)
  PROVE  /\ HotNewest'
         /\ \A e \in Range(hot) : \E f \in Range(hot') : e.id <= f.id
<1>0. \A e \in Out : e.id \in Nat /\ e \in Current
  BY OutIs, KnownTyped, EventIs DEF KnownInv
<1>1. CASE AssignId(t) \/ PutHost(t) \/ Persist(t)
  <2>1. Out' = Out /\ hot' = hot
    BY <1>1, AssignOut, PutHostOut, PersistOut, AssignKnown, PutHostIs, PersistKnown DEF KnownInv
  <2>2. \A e \in Range(hot) : e.id <= e.id
    BY <1>0 DEF FedOut
  <2> QED
    BY <2>1, <2>2 DEF HotNewest
<1>2. CASE PutHot(t)
  <2>1. /\ Out' = Out \cup Range(batch[t])
        /\ \A e \in Out : e \notin Range(batch[t])
        /\ hot' = Pushed(hot, batch[t]) /\ batch[t] # <<>>
        /\ batch[t] \in Seq(Event) /\ Rising(batch[t]) /\ hot \in Seq(Event)
    BY <1>2, PutHotOut, PutHotRange, BatchIs DEF KnownInv, FeedTyped, Ordered
  <2>2. PICK last : last = batch[t][Len(batch[t])]
    OBVIOUS
  <2>3. last \in Range(hot') /\ last \in Range(batch[t]) /\ last \in Event
    BY <2>1, <2>2, LastIsPushed, LastIsNewest, RangeIs
  <2>4. \A e \in Range(batch[t]) : e.id <= last.id
    BY <2>1, <2>2, LastIsNewest
  <2>5. \A e \in Out : e.id <= last.id
    <3>1. \A e \in Out : e.id < last.id
      BY <1>0, <2>1, <2>3 DEF Ordered
    <3> QED
      BY <1>0, <2>3, <3>1, EventIs
  <2> QED
    BY <2>1, <2>3, <2>4, <2>5 DEF HotNewest, FedOut
<1> QED
  BY <1>1, <1>2 DEF Insert

LEMMA NewestOfIs ==
  ASSUME NEW q \in Seq(Event)
  PROVE  NewestOf(q) \in Nat /\ \A e \in Range(q) : e.id <= NewestOf(q)
<1>1. CASE q = <<>>
  BY <1>1, EmptyIs DEF NewestOf
<1>2. CASE q # <<>>
  <2>1. Range(q) \in SUBSET Event /\ IsFiniteSet(Range(q))
    BY RangeIs
  <2>2. Range(q) # {}
    <3>1. Len(q) \in Nat \ {0} /\ Range(q) = {q[i] : i \in 1..Len(q)}
      BY <1>2, EmptySeq, RangeIs
    <3>2. 1 \in 1..Len(q)
      BY <3>1
    <3> QED
      BY <3>1, <3>2
  <2> QED
    BY <1>2, <2>1, <2>2, NewestIs DEF NewestOf
<1> QED
  BY <1>1, <1>2

(* The probe takes the cursor back only if nothing of this session is      *)
(* behind it.                                                              *)
LEMMA ProbeAhead ==
  ASSUME FeedTyped, EngineTyped, AheadInv, Probe \/ ProbeFails
  PROVE  AheadInv'
<1>1. /\ Handled' = Handled /\ boots' = boots /\ hot' = hot
      /\ cursor' = cursor \/ cursor' = CursorAfterProbe
      /\ rewound' => cursor' # cursor /\ \E e \in Handled : Once(e)
  BY ProbeIs DEF AheadInv
<1>2. ASSUME NEW f \in Range(hot), cursor <= f.id PROVE CursorAfterProbe = cursor
  <2>1. NewestOf(hot) \in Nat /\ f.id <= NewestOf(hot) /\ f.id \in Nat
    <3>1. hot \in Seq(Event)
      BY DEF FeedTyped
    <3>2. f \in Event
      BY <3>1, RangeIs
    <3> QED
      BY <3>1, <3>2, NewestOfIs, EventIs
  <2>2. ~(NewestOf(hot) < cursor)
    BY <1>2, <2>1 DEF EngineTyped
  <2> QED
    BY <2>2 DEF CursorAfterProbe
<1>3. (\E e \in Handled : Once(e)) => cursor' = cursor
  BY <1>1, <1>2 DEF AheadInv
<1>4. \A e : Once(e)' <=> Once(e)
  BY <1>1, OnceKept
<1>5. ~rewound'
  BY <1>1, <1>3
<1> QED
  BY <1>1, <1>3, <1>4, <1>5 DEF AheadInv

LEMMA MergeAhead ==
  ASSUME KnownInv, HostInv, FedOut, EngineTyped, HotNewest, AheadInv, Merge
  PROVE  AheadInv'
<1>1. PICK events : events = Since(snap, cursor)
  OBVIOUS
<1>2. /\ got' = events /\ cursor' = Advanced(events) /\ boots' = boots
      /\ UNCHANGED <<seen, missed, hot, rewound>>
  BY <1>1 DEF Merge, feedVars
<1>3. events \in SUBSET Event /\ IsFiniteSet(events) /\ events \subseteq Out
  BY <1>1, SinceTyped, SinceIsNewer, NewerAreCurrent DEF KnownInv, EngineTyped
<1>4. CASE events = {}
  <2>1. cursor' = cursor /\ Handled' \subseteq Handled
    BY <1>2, <1>4 DEF Advanced, Handled
  <2> QED
    BY <1>2, <2>1, OnceKept DEF AheadInv
<1>5. CASE events # {}
  <2>1. PICK last \in events : last.id = cursor'
    BY <1>2, <1>3, <1>5, NewestIs DEF Advanced
  <2>2. \E f \in Range(hot') : cursor' <= f.id
    BY <1>2, <1>3, <2>1 DEF HotNewest
  <2> QED
    BY <1>2, <2>2 DEF AheadInv
<1> QED
  BY <1>4, <1>5

LEMMA AheadKept ==
  ASSUME AheadInv, UNCHANGED <<hot, boots, cursor, rewound>>,
         \A e \in Handled' : e \in Handled \/ e.kind \in Supplements
  PROVE  AheadInv'
<1>1. \A e : Once(e)' <=> Once(e)
  BY OnceKept
<1>2. (\E e \in Handled' : Once(e)') => \E e \in Handled : Once(e)
  BY <1>1 DEF Once
<1> QED
  BY <1>2 DEF AheadInv

LEMMA EngineAhead ==
  ASSUME KnownInv, HostInv, FedOut, EngineTyped, HotNewest, HandledInv, AheadInv,
         EngineStep \/ EngineFails
  PROVE  AheadInv'
<1>1. CASE Idle
  BY <1>1, IdleKeeps, AheadKept
<1>2. ASSUME NEW k \in Supplements, Extra(k) PROVE AheadInv'
  <2>1. UNCHANGED <<hot, boots, cursor, rewound>>
    BY <1>2 DEF Extra, feedVars
  <2> QED
    BY <1>2, <2>1, ExtraHandled, AheadKept
<1> QED
  BY <1>1, <1>2, ProbeAhead, MergeAhead DEF EngineStep, EngineFails, Idle, KnownInv

LEMMA InsertAhead ==
  ASSUME KnownInv, FedOut, Ordered, HotNewest, AheadInv, EngineTyped,
         NEW t \in Threads, Insert(t), UNCHANGED engineVars
  PROVE  AheadInv'
<1>1. Handled' = Handled /\ cursor' = cursor /\ rewound' = rewound
  BY DEF Handled, engineVars
<1>2. boots' = boots
  BY DEF Insert, AssignId, PutHot, PutHost, Persist
<1>3. \A e \in Range(hot) : \E f \in Range(hot') : e.id <= f.id
  BY InsertNewest
<1>4. ASSUME NEW e \in Range(hot), cursor <= e.id PROVE \E f \in Range(hot') : cursor <= f.id
  <2>1. PICK f \in Range(hot') : e.id <= f.id
    BY <1>3
  <2>2. FeedTyped' /\ FeedTyped
    BY InsertTyped DEF KnownInv
  <2>3. e \in Event /\ f \in Event
    BY <2>2, RangeIs DEF FeedTyped
  <2>4. cursor <= f.id
    BY <1>4, <2>1, <2>3, EventIs DEF EngineTyped
  <2> QED
    BY <2>4
<1> QED
  BY <1>1, <1>2, <1>4, OnceKept DEF AheadInv

LEMMA RestartCursor ==
  ASSUME KnownInv, HandledInv, EngineTyped, PipelineRestarts
  PROVE  CursorInv'
<1>1. Handled' = Handled /\ boots' = boots + 1 /\ boots \in Nat /\ rewound' = FALSE
      /\ batch' = [t \in Threads |-> <<>>]
  BY NumbersAreBounded DEF PipelineRestarts, Restart, Handled, KnownInv, FeedTyped
<1>2. Out' = {}
  BY RestartOut DEF PipelineRestarts
<1>3. \A e \in Handled : e.boot \in Nat /\ e.boot <= boots
  BY EventIs, NumbersAreBounded DEF HandledInv, Handled, EngineTyped
<1>4. AheadInv'
  BY <1>1, <1>3 DEF AheadInv, Once
<1>5. Ordered'
  BY <1>1, EmptyIs DEF Ordered, Rising
<1> QED
  BY <1>2, <1>4, <1>5 DEF CursorInv, HotNewest

(* With one connection the newest event of the shared buffer is never      *)
(* behind the cursor but after a restart, so that DeliveredOnce holds      *)
(* without its exception: _fetch_new's "Pipeline restart detected".        *)
THEOREM OneThreadNeverRewinds ==
  ASSUME OneThread
  PROVE  Spec => []NeverRewound
<1>1. Init => CursorInv
  <2> SUFFICES ASSUME Init PROVE CursorInv
    OBVIOUS
  <2>1. Handled = {} /\ Out = {} /\ rewound = FALSE /\ \A t \in Threads : batch[t] = <<>>
    BY DEF Init, FeedInit, Handled, Out
  <2> QED
    BY <2>1, EmptyIs DEF CursorInv, Ordered, Rising, HotNewest, AheadInv
<1>2. KnownInv /\ HostInv /\ FedOut /\ FeedTyped /\ EngineTyped /\ HandledInv /\ CursorInv
        /\ [Next]_vars => CursorInv'
  <2> SUFFICES ASSUME KnownInv, HostInv, FedOut, FeedTyped, EngineTyped, HandledInv, CursorInv,
                      [Next]_vars
               PROVE  CursorInv'
    OBVIOUS
  <2>0. Ordered /\ HotNewest /\ AheadInv
    BY DEF CursorInv
  <2>1. ASSUME UNCHANGED feedVars PROVE Ordered' /\ HotNewest'
    <3>1. Current' = Current /\ batch' = batch
      BY <2>1, FeedKept DEF feedVars
    <3>2. Out' = Out /\ hot' = hot
      BY <2>1 DEF feedVars, Out
    <3> QED
      BY <2>0, <3>1, <3>2, OrderedKept DEF HotNewest
  <2>2. CASE UNCHANGED vars
    <3>1. UNCHANGED <<feedVars, hot, boots, cursor, got, seen, missed, rewound>>
      BY <2>2 DEF vars, feedVars, engineVars
    <3>2. AheadInv'
      BY <2>0, <3>1, AheadKept DEF Handled
    <3> QED
      BY <2>1, <3>1, <3>2 DEF CursorInv
  <2>3. CASE EngineStep \/ EngineFails
    BY <2>0, <2>1, <2>3, EngineKeepsFeed, EngineAhead DEF CursorInv
  <2>4. ASSUME NEW t \in Threads, ConnectionStep(t) PROVE CursorInv'
    BY <2>0, <2>4, InsertOrdered, InsertNewest, InsertAhead DEF ConnectionStep, CursorInv
  <2> QED
    BY <2>2, <2>3, <2>4, RestartCursor DEF Next, EngineFails
<1>3. CursorInv => NeverRewound
  BY DEF CursorInv, AheadInv, NeverRewound
<1> QED
  BY <1>1, <1>2, <1>3, HandledInvariant, KnownInvariant, HostInvariant, FedOutInvariant,
     FeedIsTyped, PTL DEF Spec

-----------------------------------------------------------------------------
(* The two copies of a response.  What newer events of another connection  *)
(* get ahead of is in overtaken; the rest of a batch is in the shared      *)
(* buffer, and in a copy of it, whole or not at all.                       *)
AheadOfNone ==
  \A t \in Threads : at[t] # "log" =>
    \A e \in Range(batch[t]), f \in Out :
      f \notin Range(batch[t]) /\ e.id < f.id => e \in overtaken
WholeInHot ==
  \A t \in Threads : at[t] = "host" => Range(batch[t]) \subseteq Range(hot) \cup overtaken
WholeInCopy ==
  \A t \in Threads : phase = "merge" /\ at[t] = "host" =>
    \A f \in Range(batch[t]) \cap Range(snap) :
      Range(batch[t]) \subseteq Range(snap) \cup overtaken

RaceInv == AheadOfNone /\ WholeInHot /\ WholeInCopy

LEMMA PutHotRace ==
  ASSUME KnownInv, FedOut, RaceInv, NEW t \in Threads, PutHot(t), UNCHANGED engineVars
  PROVE  RaceInv'
<1>1. /\ Out' = Out \cup Range(batch[t]) /\ \A e \in Out : e \notin Range(batch[t])
      /\ hot' = Pushed(hot, batch[t]) /\ at' = [at EXCEPT ![t] = "host"]
      /\ batch' = batch /\ overtaken' = overtaken \cup Overtaken(t)
      /\ snap' = snap /\ phase' = phase /\ at[t] = "ids"
      /\ at \in [Threads -> {"ids", "host", "log"}]
  BY PutHotOut DEF PutHot, engineVars, KnownInv, FeedTyped
<1>2. ASSUME NEW u \in Threads, u # t, at[u] # "log", NEW e \in Range(batch[u])
      PROVE  /\ \A f \in Range(batch[t]) : e.id < f.id => e \in overtaken'
             /\ e \in Range(hot) => e \in Range(hot') \cup overtaken'
  BY <1>1, <1>2 DEF Overtaken
<1>3. Range(batch[t]) \subseteq Range(hot') \cup overtaken'
  BY <1>1 DEF Overtaken
<1>4. AheadOfNone'
  <2> SUFFICES ASSUME NEW u \in Threads, at'[u] # "log", NEW e \in Range(batch[u]),
                      NEW f \in Out', f \notin Range(batch[u]), e.id < f.id
               PROVE  e \in overtaken'
    BY <1>1 DEF AheadOfNone
  <2>1. at[u] # "log"
    BY <1>1
  <2>2. CASE f \in Out
    BY <1>1, <2>1, <2>2 DEF RaceInv, AheadOfNone
  <2>3. CASE f \in Range(batch[t])
    BY <1>2, <2>1, <2>3
  <2> QED
    BY <1>1, <2>2, <2>3
<1>5. WholeInHot'
  <2> SUFFICES ASSUME NEW u \in Threads, at'[u] = "host", NEW e \in Range(batch[u])
               PROVE  e \in Range(hot') \cup overtaken'
    BY <1>1 DEF WholeInHot
  <2>1. CASE u = t
    BY <1>3, <2>1
  <2>2. CASE u # t
    <3>1. at[u] = "host" /\ (e \in Range(hot) \/ e \in overtaken)
      BY <1>1, <2>2 DEF RaceInv, WholeInHot
    <3> QED
      BY <1>1, <1>2, <2>2, <3>1
  <2> QED
    BY <2>1, <2>2
<1>6. WholeInCopy'
  <2> SUFFICES ASSUME NEW u \in Threads, phase' = "merge", at'[u] = "host",
                      NEW f \in Range(batch[u]), f \in Range(snap)
               PROVE  Range(batch[u]) \subseteq Range(snap) \cup overtaken'
    BY <1>1 DEF WholeInCopy
  <2>1. u # t
    BY <1>1 DEF FedOut
  <2>2. at[u] = "host"
    BY <1>1, <2>1
  <2> QED
    BY <1>1, <2>2 DEF RaceInv, WholeInCopy
<1> QED
  BY <1>4, <1>5, <1>6 DEF RaceInv

LEMMA InsertRace ==
  ASSUME KnownInv, FedOut, RaceInv, NEW t \in Threads, Insert(t), UNCHANGED engineVars
  PROVE  RaceInv'
<1>1. snap' = snap /\ phase' = phase
  BY DEF engineVars
<1>2. CASE AssignId(t)
  <2>1. PICK e \in Event :
           /\ \A f \in Current : f.id < e.id
           /\ Range(batch'[t]) = Range(batch[t]) \cup {e}
           /\ \A u \in Threads : u # t => batch'[u] = batch[u]
           /\ at[t] = "ids" /\ UNCHANGED <<hot, at, overtaken>>
    BY <1>2, AssignKnown
  <2>2. Out' = Out /\ Out \subseteq Current /\ \A f \in Out : f.id \in Nat
    BY <1>2, AssignOut, OutIs, KnownTyped, EventIs DEF KnownInv
  <2>3. \A f \in Out : ~(e.id < f.id)
    BY <2>1, <2>2, EventIs
  <2>4. AheadOfNone'
    <3> SUFFICES ASSUME NEW u \in Threads, at[u] # "log", NEW g \in Range(batch'[u]),
                        NEW f \in Out, f \notin Range(batch'[u]), g.id < f.id
                 PROVE  g \in overtaken
      BY <2>1, <2>2 DEF AheadOfNone
    <3>1. g \in Range(batch[u]) /\ f \notin Range(batch[u])
      BY <2>1, <2>3
    <3> QED
      BY <3>1 DEF RaceInv, AheadOfNone
  <2>5. WholeInHot' /\ WholeInCopy'
    BY <1>1, <2>1 DEF RaceInv, WholeInHot, WholeInCopy
  <2> QED
    BY <2>4, <2>5 DEF RaceInv
<1>3. CASE PutHost(t) \/ Persist(t)
  <2>1. /\ Out' = Out /\ hot' = hot /\ overtaken' = overtaken
        /\ \A u \in Threads : u # t => batch'[u] = batch[u] /\ at'[u] = at[u]
        /\ at'[t] # "host" /\ (at'[t] = "log" \/ Range(batch'[t]) = {})
    <3>1. at \in [Threads -> {"ids", "host", "log"}]
      BY DEF KnownInv, FeedTyped
    <3>2. CASE PutHost(t)
      BY <3>1, <3>2, PutHostOut, PutHostIs DEF KnownInv
    <3>3. CASE Persist(t)
      BY <3>1, <3>3, PersistOut, PersistKnown DEF Persist
    <3> QED
      BY <1>3, <3>2, <3>3
  <2> QED
    BY <1>1, <2>1 DEF RaceInv, AheadOfNone, WholeInHot, WholeInCopy
<1> QED
  BY <1>2, <1>3, PutHotRace DEF Insert

LEMMA EngineRace ==
  ASSUME RaceInv, EngineStep \/ EngineFails
  PROVE  RaceInv'
<1>1. UNCHANGED <<at, batch, hot, parquet, boots, overtaken>>
  BY EngineKeepsFeed DEF feedVars
<1>2. AheadOfNone' /\ WholeInHot'
  <2>1. Out' = Out
    BY <1>1 DEF Out
  <2> QED
    BY <1>1, <2>1 DEF RaceInv, AheadOfNone, WholeInHot
<1>3. CASE CopyHot
  <2>1. snap' = hot
    BY <1>3 DEF CopyHot
  <2> QED
    BY <1>1, <1>2, <2>1 DEF RaceInv, WholeInHot, WholeInCopy
<1>4. CASE ~CopyHot
  <2>1. phase' # "merge"
    BY <1>4 DEF EngineStep, EngineFails, Probe, Merge, Extra, Analyse, After,
                ProbeFails, FetchFails, ExtraFails, AnalyseRaises
  <2> QED
    BY <1>2, <2>1 DEF RaceInv, WholeInCopy
<1> QED
  BY <1>3, <1>4

LEMMA RaceInvariant == Spec => []RaceInv
<1>1. Init => RaceInv
  <2> SUFFICES ASSUME Init PROVE RaceInv
    OBVIOUS
  <2>1. \A t \in Threads : at[t] = "ids" /\ Range(batch[t]) = {}
    BY EmptyIs DEF Init, FeedInit
  <2> QED
    BY <2>1 DEF RaceInv, AheadOfNone, WholeInHot, WholeInCopy
<1>2. KnownInv /\ FedOut /\ RaceInv /\ [Next]_vars => RaceInv'
  <2> SUFFICES ASSUME KnownInv, FedOut, RaceInv, [Next]_vars PROVE RaceInv'
    OBVIOUS
  <2>1. CASE UNCHANGED vars
    <3>1. UNCHANGED <<at, batch, hot, parquet, boots, overtaken, phase, snap>>
      BY <2>1 DEF vars, feedVars, engineVars
    <3>2. Out' = Out
      BY <3>1 DEF Out
    <3> QED
      BY <3>1, <3>2 DEF RaceInv, AheadOfNone, WholeInHot, WholeInCopy
  <2>2. CASE PipelineRestarts
    <3>1. \A t \in Threads : at'[t] = "ids" /\ Range(batch'[t]) = {}
      BY <2>2, EmptyIs DEF PipelineRestarts, Restart
    <3> QED
      BY <3>1 DEF RaceInv, AheadOfNone, WholeInHot, WholeInCopy
  <2>3. ASSUME NEW t \in Threads, ConnectionStep(t) PROVE RaceInv'
    BY <2>3, InsertRace DEF ConnectionStep
  <2> QED
    BY <2>1, <2>2, <2>3, EngineRace DEF Next, EngineFails
<1> QED
  BY <1>1, <1>2, KnownInvariant, FedOutInvariant, PTL DEF Spec

-----------------------------------------------------------------------------
(* Before the first restart the cursor passes nothing else.                *)
Accounted == Handled \cup overtaken \cup cut

SkipInv ==
  boots = 0 =>
    /\ \A e \in Waiting : e.id <= cursor => e \in Accounted
    /\ \A t \in Threads : at[t] # "log" =>
         \A e \in Range(batch[t]) : e.id <= cursor => e \in Accounted
    /\ cursor = 0 \/ \E f \in Current : cursor <= f.id
    /\ phase \in {"probe", "since", "merge"} => got = {}

LEMMA WaitingIs ==
  ASSUME KnownInv, HostInv
  PROVE  /\ Waiting \subseteq Put /\ Put \subseteq Out /\ Out \subseteq Current
         /\ Current \subseteq Event
         /\ \A t \in Threads : Range(batch[t]) \subseteq Current
         /\ \A e \in Current : e.id \in Nat /\ e.id >= 1
<1>1. Waiting \subseteq Put
  BY DEF Waiting, HostInv, PutOf
<1>2. \A t \in Threads : Range(batch[t]) \subseteq Current
  BY DEF KnownInv, Numbered, Current, Known
<1>3. Current \subseteq Event /\ \A e \in Current : e.id \in Nat /\ e.id >= 1
  BY KnownTyped, EventIs DEF KnownInv, Ided, IdsIn
<1> QED
  BY <1>1, <1>2, <1>3, OutIs

LEMMA SkipsKept ==
  ASSUME SkipInv, Handled \subseteq Handled', cursor' = cursor,
         overtaken \subseteq overtaken', cut \subseteq cut', boots' = boots,
         phase' \in {"probe", "since", "merge"} => got' = {} \/ (got' = got /\ phase \in {"probe", "since", "merge"}),
         Current \subseteq Current',
         boots = 0 => \A e \in Waiting' : e \in Waiting \/ (e.id <= cursor => e \in Accounted),
         boots = 0 => \A t \in Threads : at'[t] # "log" => \A e \in Range(batch'[t]) :
           \/ at[t] # "log" /\ e \in Range(batch[t])
           \/ e.id <= cursor => e \in Accounted
  PROVE  SkipInv'
<1> SUFFICES ASSUME boots = 0 PROVE SkipInv'
  BY DEF SkipInv
<1>1. Accounted \subseteq Accounted'
  BY DEF Accounted
<1>2. \A e \in Waiting' : e.id <= cursor' => e \in Accounted'
  BY <1>1 DEF SkipInv
<1>3. \A t \in Threads : at'[t] # "log" =>
        \A e \in Range(batch'[t]) : e.id <= cursor' => e \in Accounted'
  BY <1>1 DEF SkipInv
<1>4. cursor' = 0 \/ \E f \in Current' : cursor' <= f.id
  BY DEF SkipInv
<1>5. phase' \in {"probe", "since", "merge"} => got' = {}
  BY DEF SkipInv
<1> QED
  BY <1>2, <1>3, <1>4, <1>5 DEF SkipInv

LEMMA InsertSkips ==
  ASSUME KnownInv, HostInv, EngineTyped, SkipInv,
         NEW t \in Threads, Insert(t), UNCHANGED engineVars
  PROVE  SkipInv'
<1>1. /\ Handled' = Handled /\ UNCHANGED <<cursor, phase, got, cut>> /\ boots' = boots
      /\ cursor \in Nat
  BY DEF Handled, engineVars, Insert, AssignId, PutHot, PutHost, Persist, EngineTyped
<1>2. CASE AssignId(t)
  <2>1. PICK e \in Event :
           /\ e.id = seq' /\ \A f \in Current : f.id < e.id
           /\ Range(batch'[t]) = Range(batch[t]) \cup {e}
           /\ \A u \in Threads : u # t => batch'[u] = batch[u]
           /\ Current' = Current \cup {e} /\ seq' \in Nat /\ seq < seq'
           /\ at[t] = "ids" /\ UNCHANGED <<buf, at, overtaken>>
    BY <1>2, AssignKnown
  <2>2. ASSUME boots = 0 PROVE ~(e.id <= cursor)
    <3>1. e.id \in Nat /\ e.id > 0
      BY <2>1, EventIs DEF KnownInv, FeedTyped
    <3>2. cursor = 0 \/ \E f \in Current : cursor <= f.id
      BY <2>2 DEF SkipInv
    <3>3. ASSUME NEW f \in Current, cursor <= f.id PROVE ~(e.id <= cursor)
      <4>1. f.id < e.id /\ f.id \in Nat
        BY <2>1, WaitingIs
      <4> QED
        BY <1>1, <3>1, <3>3, <4>1
    <3> QED
      BY <3>1, <3>2, <3>3
  <2>3. Waiting' = Waiting
    BY <2>1 DEF Waiting
  <2>4. boots = 0 => \A u \in Threads : at'[u] # "log" => \A g \in Range(batch'[u]) :
          \/ at[u] # "log" /\ g \in Range(batch[u])
          \/ g.id <= cursor => g \in Accounted
    BY <2>1, <2>2
  <2> QED
    BY <1>1, <2>1, <2>3, <2>4, SkipsKept
<1>3. CASE PutHot(t)
  <2>1. /\ UNCHANGED <<buf, batch, parquet>> /\ at' = [at EXCEPT ![t] = "host"] /\ at[t] = "ids"
        /\ overtaken \subseteq overtaken' /\ at \in [Threads -> {"ids", "host", "log"}]
    BY <1>3 DEF PutHot, KnownInv, FeedTyped
  <2>2. Current' = Current /\ Waiting' = Waiting
    BY <1>1, <2>1 DEF Current, Known, Waiting
  <2>3. \A u \in Threads : at'[u] # "log" => at[u] # "log"
    BY <2>1
  <2> QED
    BY <1>1, <2>1, <2>2, <2>3, SkipsKept
<1>4. CASE PutHost(t)
  <2>1. /\ UNCHANGED <<batch, parquet, overtaken>> /\ at' = [at EXCEPT ![t] = "log"]
        /\ at[t] = "host" /\ at \in [Threads -> {"ids", "host", "log"}]
        /\ \A h \in Hosts : buf'[h] = Pushed(buf[h], OfHost(t, h))
    BY <1>4, PutHostIs DEF KnownInv, FeedTyped
  <2>2. Current' = Current
    BY <1>1, <2>1 DEF Current, Known
  <2>3. \A u \in Threads : at'[u] # "log" => at[u] # "log"
    BY <2>1
  <2>4. ASSUME NEW h \in Hosts PROVE Range(buf'[h]) \subseteq Range(buf[h]) \cup Range(batch[t])
    <3>1. buf[h] \in Seq(Event) /\ OfHost(t, h) \in Seq(Event)
          /\ Range(OfHost(t, h)) \subseteq Range(batch[t])
      BY OfHostIs DEF KnownInv, FeedTyped
    <3>2. Range(Pushed(buf[h], OfHost(t, h))) \subseteq Range(buf[h]) \cup Range(OfHost(t, h))
      BY <3>1, PushedIs
    <3> QED
      BY <2>1, <3>1, <3>2
  <2>5. Waiting' \subseteq Waiting \cup Range(batch[t])
    BY <2>4 DEF Waiting
  <2>6. boots = 0 => \A e \in Waiting' : e \in Waiting \/ (e.id <= cursor => e \in Accounted)
    BY <2>1, <2>5 DEF SkipInv
  <2> QED
    BY <1>1, <2>1, <2>2, <2>3, <2>6, SkipsKept
<1>5. CASE Persist(t)
  <2>1. /\ buf' = buf /\ overtaken' = overtaken /\ Range(batch'[t]) = {} /\ Current' = Current
        /\ \A u \in Threads : u # t => batch'[u] = batch[u] /\ at'[u] = at[u]
    <3>1. /\ Range(batch'[t]) = {} /\ Current' = Current /\ buf' = buf
          /\ \A u \in Threads : u # t => batch'[u] = batch[u]
      BY <1>5, PersistKnown
    <3>2. at \in [Threads -> {"ids", "host", "log"}] /\ at' = [at EXCEPT ![t] = "ids"]
          /\ overtaken' = overtaken
      BY <1>5 DEF Persist, KnownInv, FeedTyped
    <3> QED
      BY <3>1, <3>2
  <2>2. Waiting' = Waiting
    BY <2>1 DEF Waiting
  <2>3. \A u \in Threads : at'[u] # "log" => \A g \in Range(batch'[u]) :
          at[u] # "log" /\ g \in Range(batch[u])
    BY <2>1
  <2> QED
    BY <1>1, <2>1, <2>2, <2>3, SkipsKept
<1> QED
  BY <1>2, <1>3, <1>4, <1>5 DEF Insert

LEMMA MergeSkips ==
  ASSUME KnownInv, HostInv, FedOut, EngineTyped, RaceInv, SkipInv, Merge, boots = 0
  PROVE  SkipInv'
<1>0. FeedTyped
  BY DEF KnownInv
<1>1. PICK A : A = Newer(snap, cursor)
  OBVIOUS
<1>2. PICK events : events = Since(snap, cursor)
  OBVIOUS
<1>3. /\ A \in SUBSET Event /\ IsFiniteSet(A) /\ A \subseteq Out /\ events \subseteq A
  BY <1>1, <1>2, NewerAreCurrent, SinceIsNewer DEF EngineTyped
<1>4. /\ got' = events /\ cursor' = Advanced(events) /\ cut' = cut \cup (A \ events)
      /\ phase' = "tmp" /\ got = {} /\ phase = "merge"
      /\ UNCHANGED <<at, batch, buf, boots, parquet, seen, missed, overtaken>>
  BY <1>1, <1>2 DEF Merge, feedVars, SkipInv
<1>5. A \subseteq Accounted' /\ Accounted \subseteq Accounted'
  BY <1>3, <1>4 DEF Accounted, Handled
<1>6. Current' = Current /\ Waiting' = Waiting
  BY <1>4 DEF Current, Known, Waiting
<1>7. CASE events = {}
  <2>1. cursor' = cursor
    BY <1>4, <1>7 DEF Advanced
  <2> QED
    BY <1>4, <1>5, <1>6, <2>1 DEF SkipInv, Supplements
<1>8. CASE events # {}
  <2>1. PICK last \in events : last.id = cursor'
    BY <1>3, <1>4, <1>8, FS_Subset, NewestIs DEF Advanced
  <2>2. last \in A /\ last \in Out /\ last \in Current /\ last.id \in Nat
    BY <1>3, <2>1, WaitingIs
  <2>3. ASSUME NEW e \in Current, ~(e.id <= cursor), e \in Range(snap) \cup Waiting PROVE e \in A
    <3>1. e.id \in Nat /\ cursor \in Nat
      BY WaitingIs DEF EngineTyped
    <3> QED
      BY <1>1, <2>3, <3>1 DEF Newer, Waiting
  <2>4. ASSUME NEW e \in Waiting, e.id <= cursor' PROVE e \in Accounted'
    <3>1. CASE e.id <= cursor
      BY <1>5, <3>1 DEF SkipInv
    <3>2. CASE ~(e.id <= cursor)
      BY <1>5, <2>3, <3>2, WaitingIs
    <3> QED
      BY <3>1, <3>2
  <2>5. ASSUME NEW t \in Threads, at[t] # "log", NEW e \in Range(batch[t]), e.id <= cursor'
        PROVE  e \in Accounted'
    <3>0. e \in Current /\ e.id \in Nat
      BY WaitingIs
    <3>1. CASE e.id <= cursor
      BY <1>5, <2>5, <3>1 DEF SkipInv
    <3>2. CASE last \notin Range(batch[t])
      <4>1. e.id < last.id \/ e.id = last.id
        BY <2>1, <2>2, <2>5, <3>0
      <4>2. e.id # last.id
        BY <2>2, <3>0, <3>2 DEF KnownInv, Ided, IdsIn
      <4>3. e \in overtaken
        BY <2>2, <2>5, <3>2, <4>1, <4>2 DEF RaceInv, AheadOfNone
      <4> QED
        BY <1>4, <4>3 DEF Accounted
    <3>3. CASE last \in Range(batch[t]) /\ ~(e.id <= cursor)
      <4>1. last \notin Put
        <5>1. \A f \in Range(batch[t]) : f \notin parquet
          BY DEF KnownInv, Numbered
        <5>2. \A u \in Threads : at[u] = "log" => Range(batch[u]) \cap Range(batch[t]) = {}
          BY <2>5 DEF KnownInv, Numbered
        <5> QED
          BY <3>3, <5>1, <5>2 DEF Put
      <4>2. last \in Range(snap)
        BY <1>1, <2>2, <4>1, WaitingIs DEF Newer, Waiting
      <4>3. at[t] = "host"
        <5>1. PICK u \in Threads : last \in Range(batch[u]) /\ at[u] # "ids"
          BY <2>2, <4>1 DEF Out, Put
        <5>2. u = t
          BY <3>3, <5>1 DEF KnownInv, Numbered
        <5> QED
          BY <1>0, <2>5, <5>1, <5>2 DEF FeedTyped
      <4>4. e \in Range(snap) \/ e \in overtaken
        BY <1>4, <3>3, <4>2, <4>3 DEF RaceInv, WholeInCopy
      <4>5. e \in Range(snap) => e \in A
        BY <2>3, <3>0, <3>3
      <4> QED
        BY <1>4, <1>5, <4>4, <4>5 DEF Accounted
    <3> QED
      BY <3>1, <3>2, <3>3
  <2>6. \E f \in Current : cursor' <= f.id
    BY <2>1, <2>2
  <2> QED
    BY <1>4, <1>6, <2>4, <2>5, <2>6 DEF SkipInv, Supplements
<1> QED
  BY <1>7, <1>8

LEMMA EngineSkips ==
  ASSUME KnownInv, HostInv, FedOut, EngineTyped, RaceInv, SkipInv, EngineStep \/ EngineFails
  PROVE  SkipInv'
<1>1. /\ UNCHANGED <<at, batch, boots, overtaken>>
      /\ Current' = Current /\ Waiting' = Waiting
  BY EngineKeepsFeed DEF feedVars, Current, Known, Waiting
<1> SUFFICES ASSUME boots = 0 PROVE SkipInv'
  BY <1>1 DEF SkipInv
<1>2. CASE Probe \/ ProbeFails
  <2>1. /\ cursor' = cursor \/ cursor' = 0
        /\ Handled' = Handled /\ got' = got /\ cut' = cut /\ phase = "probe"
    BY <1>2 DEF Probe, ProbeFails, CursorAfterProbe, Handled
  <2>2. CASE cursor' = cursor
    BY <1>1, <2>1, <2>2 DEF SkipInv, Accounted
  <2>3. CASE cursor' = 0
    <3>1. /\ \A e \in Waiting : ~(e.id <= cursor')
          /\ \A t \in Threads : \A e \in Range(batch[t]) : ~(e.id <= cursor')
      <4>1. \A e \in Current : ~(e.id <= cursor')
        BY <2>3, WaitingIs
      <4> QED
        BY <4>1, WaitingIs
    <3> QED
      BY <1>1, <2>1, <2>3, <3>1 DEF SkipInv
  <2> QED
    BY <2>1, <2>2, <2>3
<1>3. CASE Idle
  <2>1. Handled' = Handled /\ cursor' = cursor /\ cut' = cut
    BY <1>3, IdleKeeps
  <2>2. phase' \in {"probe", "since", "merge"} =>
          got' = {} \/ (got' = got /\ phase \in {"probe", "since", "merge"})
    BY <1>3 DEF Idle, CopyHot, FetchFails, ExtraFails, After, Analyse, AnalyseRaises
  <2> QED
    BY <1>1, <2>1, <2>2, SkipsKept
<1>4. ASSUME NEW k \in Supplements, Extra(k) PROVE SkipInv'
  <2>1. Handled \subseteq Handled' /\ cursor' = cursor /\ cut' = cut
    BY <1>4 DEF Extra, Handled
  <2>2. phase' \notin {"probe", "since", "merge"}
    BY <1>4 DEF Extra, After
  <2> QED
    BY <1>1, <2>1, <2>2, SkipsKept
<1> QED
  BY <1>2, <1>3, <1>4, MergeSkips DEF EngineStep, EngineFails, Idle

(* For every number of connections, and whatever the quota cuts: before    *)
(* the first restart the engine is given every event of a host's buffer    *)
(* that the cursor passes, but those that were cut and those that newer    *)
(* events of another connection, or the limit of the shared buffer, got    *)
(* the better of between next_id and the host's buffer: "the single source *)
(* of truth for what gets processed".                                      *)
THEOREM NothingSkippedCorrect == Spec => []NothingSkipped
<1>1. Init => SkipInv
  <2> SUFFICES ASSUME Init PROVE SkipInv
    OBVIOUS
  <2>1. Waiting = {} /\ cursor = 0 /\ got = {} /\ \A t \in Threads : Range(batch[t]) = {}
    BY EmptyIs DEF Init, FeedInit, Waiting
  <2> QED
    BY <2>1 DEF SkipInv
<1>2. /\ KnownInv /\ HostInv /\ FedOut /\ FeedTyped /\ EngineTyped /\ RaceInv
      /\ SkipInv /\ [Next]_vars
      => SkipInv'
  <2> SUFFICES ASSUME KnownInv, HostInv, FedOut, FeedTyped, EngineTyped, RaceInv,
                      SkipInv, [Next]_vars
               PROVE  SkipInv'
    OBVIOUS
  <2>1. CASE UNCHANGED vars
    <3>1. UNCHANGED <<at, batch, buf, parquet, boots, overtaken, cursor, phase, got, seen,
                      missed, cut>>
      BY <2>1 DEF vars, feedVars, engineVars
    <3>2. Current' = Current /\ Waiting' = Waiting /\ Accounted' = Accounted
      BY <3>1 DEF Current, Known, Waiting, Accounted, Handled
    <3> QED
      BY <3>1, <3>2 DEF SkipInv
  <2>2. CASE PipelineRestarts
    <3>1. boots' # 0
      BY <2>2, NumbersAreBounded DEF PipelineRestarts, Restart, FeedTyped
    <3> QED
      BY <3>1 DEF SkipInv
  <2>3. ASSUME NEW t \in Threads, ConnectionStep(t) PROVE SkipInv'
    BY <2>3, InsertSkips DEF ConnectionStep
  <2> QED
    BY <2>1, <2>2, <2>3, EngineSkips DEF Next, EngineFails
<1>3. SkipInv => NothingSkipped
  BY DEF SkipInv, NothingSkipped, Accounted
<1> QED
  BY <1>1, <1>2, <1>3, KnownInvariant, HostInvariant, FedOutInvariant, FeedIsTyped,
     RaceInvariant, PTL DEF Spec
=============================================================================
