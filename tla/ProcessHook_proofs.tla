------------------------ MODULE ProcessHook_proofs ------------------------
(***************************************************************************)
(* ProcessHook implements EventRings, for every size of the rings, every   *)
(* set of events and every bound.                                          *)
(***************************************************************************)
EXTENDS ProcessHook, SequenceTheorems, TLAPS

(* Division with remainder.                                                *)
LEMMA DivMod ==
  ASSUME NEW a \in Int, NEW n \in Nat \ {0}
  PROVE  /\ a \div n \in Int
         /\ a = (a \div n) * n + (a % n)
         /\ a % n \in 0..(n - 1)
<1>1. a = (a \div n) * n + (a % n)
  BY SMT
<1>2. a % n \in 0..(n - 1)
  BY SMT
<1>3. a \div n \in Int
  BY SMT
<1> QED
  BY <1>1, <1>2, <1>3

(* The remainder is the only one.                                          *)
LEMMA ModUnique ==
  ASSUME NEW n \in Nat \ {0}, NEW a \in Int, NEW q \in Int,
         NEW r \in 0..(n - 1), a = q * n + r
  PROVE  a % n = r
<1> DEFINE s == a % n
           p == a \div n
<1>1. p \in Int /\ s \in 0..(n - 1) /\ a = p * n + s
  BY DivMod
<1> HIDE DEF s, p
<1>2. p - q \in Int /\ (p - q) * n = r - s
  BY <1>1, SMT
<1>3. CASE p - q >= 1
  <2>1. (p - q) * n >= n
    BY <1>2, <1>3, SMT
  <2> QED
    BY <2>1, <1>1, <1>2, SMT
<1>4. CASE p - q <= -1
  <2>1. (p - q) * n <= -n
    BY <1>2, <1>4, SMT
  <2> QED
    BY <2>1, <1>1, <1>2, SMT
<1>5. CASE p - q = 0
  <2>1. (p - q) * n = 0
    BY <1>5, SMT
  <2>2. r = s
    BY <2>1, <1>1, <1>2, SMT
  <2> QED
    BY <2>2 DEF s
<1> QED
  BY <1>2, <1>3, <1>4, <1>5, SMT

(* Multiples of the modulus do not matter.                                 *)
LEMMA ModPlus ==
  ASSUME NEW n \in Nat \ {0}, NEW a \in Int, NEW k \in Int
  PROVE  (a + k * n) % n = a % n
<1> DEFINE q == a \div n
           r == a % n
<1>1. q \in Int /\ r \in 0..(n - 1) /\ a = q * n + r
  BY DivMod
<1> HIDE DEF q, r
<1>2. q + k \in Int /\ a + k * n \in Int /\ a + k * n = (q + k) * n + r
  BY <1>1, SMT
<1>3. (a + k * n) % n = r
  BY <1>1, <1>2, ModUnique
<1> QED
  BY <1>3 DEF r

(* Numbers less than n apart have different remainders.                    *)
LEMMA ModApart ==
  ASSUME NEW n \in Nat \ {0}, NEW a \in Int, NEW b \in Int,
         a < b, b < a + n
  PROVE  a % n # b % n
<1> DEFINE p == a \div n
           q == b \div n
           r == a % n
           s == b % n
<1> SUFFICES ASSUME r = s PROVE FALSE
  OBVIOUS
<1>1. /\ p \in Int /\ r \in 0..(n - 1) /\ a = p * n + r
      /\ q \in Int /\ s \in 0..(n - 1) /\ b = q * n + s
  BY DivMod
<1> HIDE DEF p, q, r, s
<1>2. q - p \in Int /\ (q - p) * n = b - a
  BY <1>1, SMT
<1>3. CASE q - p >= 1
  <2>1. (q - p) * n >= n
    BY <1>2, <1>3, SMT
  <2> QED
    BY <2>1, <1>2, SMT
<1>4. CASE q - p <= 0
  <2>1. (q - p) * n <= 0
    BY <1>2, <1>4, SMT
  <2> QED
    BY <2>1, <1>2, SMT
<1> QED
  BY <1>2, <1>3, <1>4, SMT
-----------------------------------------------------------------------------
LEMMA WrapFacts ==
  /\ Slots \in Nat \ {0} /\ Laps \in Nat \ {0, 1}
  /\ Wrap \in Nat \ {0} /\ Wrap > Slots /\ Wrap = Laps * Slots
<1>1. Slots \in Nat \ {0} /\ Laps \in Nat \ {0, 1}
  BY RingAssumption
<1>2. Laps * Slots >= 2 * Slots
  BY <1>1, SMT
<1> QED
  BY <1>1, <1>2, SMT DEF Wrap

(* A number below 2^32 and the same number after a turn of the counter     *)
(* select the same slot, because the capacity divides 2^32.                *)
LEMMA SlotOfWrapped ==
  ASSUME NEW a \in Int, NEW b \in Int, a = b + Wrap
  PROVE  a % Slots = b % Slots
<1>1. Slots \in Nat \ {0} /\ Laps \in Int /\ a = b + Laps * Slots
  BY WrapFacts
<1>2. (b + Laps * Slots) % Slots = b % Slots
  BY <1>1, ModPlus
<1> QED
  BY <1>1, <1>2

(* The number of events in a ring, without the modulus.                    *)
LEMMA UsedCases ==
  ASSUME NEW r \in Rings
  PROVE  /\ Used(r) \in 0..(Wrap - 1)
         /\ r.head \in 0..(Wrap - 1) /\ r.tail \in 0..(Wrap - 1)
         /\ \/ r.tail <= r.head /\ Used(r) = r.head - r.tail
            \/ r.head < r.tail /\ Used(r) = r.head - r.tail + Wrap
<1>1. r.head \in 0..(Wrap - 1) /\ r.tail \in 0..(Wrap - 1)
  BY DEF Rings
<1>2. Wrap \in Nat \ {0}
  BY WrapFacts
<1>3. CASE r.tail <= r.head
  <2>1. r.head - r.tail = 0 * Wrap + (r.head - r.tail)
    BY <1>1, <1>2, SMT
  <2>2. r.head - r.tail \in 0..(Wrap - 1)
    BY <1>1, <1>2, <1>3, SMT
  <2>3. (r.head - r.tail) % Wrap = r.head - r.tail
    BY <1>2, <2>1, <2>2, ModUnique
  <2> QED
    BY <1>1, <1>3, <2>2, <2>3 DEF Used
<1>4. CASE r.head < r.tail
  <2> DEFINE d == r.head - r.tail
  <2>1. d \in Int /\ -1 \in Int /\ d = (-1) * Wrap + (d + Wrap)
    BY <1>1, <1>2, SMT
  <2>2. d + Wrap \in 0..(Wrap - 1)
    BY <1>1, <1>2, <1>4, SMT
  <2> HIDE DEF d
  <2>4. d % Wrap = d + Wrap
    BY <1>2, <2>1, <2>2, ModUnique
  <2>3. (r.head - r.tail) % Wrap = r.head - r.tail + Wrap
    BY <2>4 DEF d
  <2> QED
    BY <1>1, <1>4, <2>2, <2>3 DEF Used, d
<1> QED
  BY <1>1, <1>3, <1>4, SMT

(* A counter after one more event.                                         *)
LEMMA NextCases ==
  ASSUME NEW h \in 0..(Wrap - 1)
  PROVE  /\ (h + 1) % Wrap \in 0..(Wrap - 1)
         /\ \/ h + 1 < Wrap /\ (h + 1) % Wrap = h + 1
            \/ h + 1 = Wrap /\ (h + 1) % Wrap = 0
<1>1. Wrap \in Nat \ {0}
  BY WrapFacts
<1>2. CASE h + 1 < Wrap
  <2>1. h + 1 = 0 * Wrap + (h + 1) /\ h + 1 \in 0..(Wrap - 1)
    BY <1>1, <1>2, SMT
  <2> QED
    BY <1>1, <1>2, <2>1, ModUnique
<1>3. CASE h + 1 = Wrap
  <2>1. h + 1 = 1 * Wrap + 0 /\ 0 \in 0..(Wrap - 1)
    BY <1>1, <1>3, SMT
  <2>2. (h + 1) % Wrap = 0
    BY <1>1, <2>1, ModUnique
  <2> QED
    BY <1>3, <2>1, <2>2
<1> QED
  BY <1>1, <1>2, <1>3, SMT
-----------------------------------------------------------------------------
(* A ring in which every slot between tail and head holds an event.        *)
At(r, i) == r.data[(r.tail + i) % Slots]
GoodRing(r) ==
  /\ r \in Rings /\ Used(r) <= Slots
  /\ \A i \in 0..(Used(r) - 1) : At(r, i) \in Events

LEMMA SlotType ==
  ASSUME NEW a \in Int
  PROVE  a % Slots \in 0..(Slots - 1)
BY WrapFacts, DivMod

LEMMA EmptyRing ==
  GoodRing(RingInit) /\ Used(RingInit) = 0 /\ Contents(RingInit) = <<>>
<1>1. RingInit \in Rings
  BY WrapFacts, SMT DEF RingInit, Rings
<1>2. Used(RingInit) = 0
  BY <1>1, UsedCases DEF RingInit
<1>3. Contents(RingInit) = <<>>
  BY <1>2 DEF Contents
<1> QED
  BY <1>1, <1>2, <1>3, WrapFacts, SMT DEF GoodRing

(* The slots after one step of the tail are those of before, one further.  *)
LEMMA TailShift ==
  ASSUME NEW t \in 0..(Wrap - 1), NEW i \in Nat
  PROVE  (((t + 1) % Wrap) + i) % Slots = (t + (i + 1)) % Slots
<1>1. CASE t + 1 < Wrap /\ (t + 1) % Wrap = t + 1
  <2>1. ((t + 1) % Wrap) + i = t + (i + 1)
    BY <1>1, WrapFacts, SMT
  <2> QED
    BY <2>1
<1>2. CASE t + 1 = Wrap /\ (t + 1) % Wrap = 0
  <2>1. t + (i + 1) = i + Wrap /\ t + (i + 1) \in Int /\ i \in Int
    BY <1>2, WrapFacts, SMT
  <2>2. ((t + 1) % Wrap) + i = i
    BY <1>2, SMT
  <2> QED
    BY <2>1, <2>2, SlotOfWrapped
<1> QED
  BY <1>1, <1>2, NextCases

(* ring_write stores at the slot after the newest event.                   *)
LEMMA HeadSlot ==
  ASSUME NEW r \in Rings
  PROVE  r.head % Slots = (r.tail + Used(r)) % Slots
<1>1. /\ Used(r) \in 0..(Wrap - 1)
      /\ r.head \in 0..(Wrap - 1) /\ r.tail \in 0..(Wrap - 1)
  BY UsedCases
<1>2. CASE r.tail <= r.head /\ Used(r) = r.head - r.tail
  <2>1. r.tail + Used(r) = r.head
    BY <1>1, <1>2, SMT
  <2> QED
    BY <2>1
<1>3. CASE r.head < r.tail /\ Used(r) = r.head - r.tail + Wrap
  <2> DEFINE a == r.tail + Used(r)
             b == r.head
  <2>1. a \in Int /\ b \in Int /\ a = b + Wrap
    BY <1>1, <1>3, WrapFacts, SMT
  <2> HIDE DEF a, b
  <2>2. a % Slots = b % Slots
    BY <2>1, SlotOfWrapped
  <2> QED
    BY <2>2 DEF a, b
<1> QED
  BY <1>2, <1>3, UsedCases

(* How ring_write moves the counters.                                      *)
LEMMA WriteUsed ==
  ASSUME NEW r, GoodRing(r), NEW e \in Events
  PROVE  /\ RingWrite(r, e) \in Rings
         /\ ~IsFull(r) => /\ Used(r) < Slots
                          /\ Used(RingWrite(r, e)) = Used(r) + 1
                          /\ RingWrite(r, e).tail = r.tail
         /\ IsFull(r) => /\ Used(r) = Slots
                         /\ Used(RingWrite(r, e)) = Slots
                         /\ RingWrite(r, e).tail = (r.tail + 1) % Wrap
<1> DEFINE w == RingWrite(r, e)
<1>1. r \in Rings /\ Used(r) <= Slots
  BY DEF GoodRing
<1>2. r.head \in 0..(Wrap - 1) /\ r.tail \in 0..(Wrap - 1) /\ Used(r) \in 0..(Wrap - 1)
  BY <1>1, UsedCases
<1>3. /\ w.head = (r.head + 1) % Wrap
      /\ w.tail = IF IsFull(r) THEN (r.tail + 1) % Wrap ELSE r.tail
      /\ w.data = [r.data EXCEPT ![r.head % Slots] = e]
  BY DEF RingWrite
<1>4. w \in Rings
  <2>1. (r.head + 1) % Wrap \in 0..(Wrap - 1) /\ (r.tail + 1) % Wrap \in 0..(Wrap - 1)
    BY <1>2, NextCases
  <2>2. [r.data EXCEPT ![r.head % Slots] = e] \in [0..(Slots - 1) -> Events \cup {Blank}]
    BY <1>1 DEF Rings
  <2> QED
    BY <1>2, <2>1, <2>2 DEF RingWrite, Rings
<1>5. IsFull(r) <=> Used(r) = Slots
  BY <1>1, <1>2, WrapFacts, SMT DEF IsFull
<1>6. w.head \in 0..(Wrap - 1) /\ w.tail \in 0..(Wrap - 1) /\ Used(w) \in 0..(Wrap - 1)
  BY <1>4, UsedCases
<1>7. \/ w.tail <= w.head /\ Used(w) = w.head - w.tail
      \/ w.head < w.tail /\ Used(w) = w.head - w.tail + Wrap
  BY <1>4, UsedCases
<1>8. \/ r.tail <= r.head /\ Used(r) = r.head - r.tail
      \/ r.head < r.tail /\ Used(r) = r.head - r.tail + Wrap
  BY <1>1, UsedCases
<1>9. \/ r.head + 1 < Wrap /\ w.head = r.head + 1
      \/ r.head + 1 = Wrap /\ w.head = 0
  BY <1>2, <1>3, NextCases
<1>10. CASE ~IsFull(r)
  <2>1. w.tail = r.tail /\ Used(r) < Slots
    BY <1>3, <1>10, <1>5, <1>1, <1>2, WrapFacts, SMT
  <2> HIDE DEF w
  <2>2. Used(w) = Used(r) + 1
    BY <2>1, <1>1, <1>2, <1>6, <1>7, <1>8, <1>9, WrapFacts, SMT
  <2> QED
    BY <1>4, <1>10, <2>1, <2>2 DEF w
<1>11. CASE IsFull(r)
  <2>1. w.tail = (r.tail + 1) % Wrap /\ Used(r) = Slots
    BY <1>3, <1>11, <1>5
  <2>2. \/ r.tail + 1 < Wrap /\ w.tail = r.tail + 1
        \/ r.tail + 1 = Wrap /\ w.tail = 0
    BY <1>2, <2>1, NextCases
  <2> HIDE DEF w
  <2>3. Used(w) = Slots
    BY <2>1, <2>2, <1>2, <1>6, <1>7, <1>8, <1>9, WrapFacts, SMT
  <2> QED
    BY <1>4, <1>11, <2>1, <2>3 DEF w
<1> QED
  BY <1>10, <1>11

(* What ring_write leaves in the slots.                                    *)
LEMMA WriteSlots ==
  ASSUME NEW r, GoodRing(r), NEW e \in Events
  PROVE  /\ ~IsFull(r) =>
              /\ \A i \in 0..(Used(r) - 1) : At(RingWrite(r, e), i) = At(r, i)
              /\ At(RingWrite(r, e), Used(r)) = e
         /\ IsFull(r) =>
              /\ \A i \in 0..(Slots - 2) : At(RingWrite(r, e), i) = At(r, i + 1)
              /\ At(RingWrite(r, e), Slots - 1) = e
<1> DEFINE w == RingWrite(r, e)
           S == Slots
           u == Used(r)
<1>1. /\ r \in Rings /\ u <= S /\ u \in Nat /\ S \in Nat \ {0}
      /\ r.tail \in 0..(Wrap - 1)
      /\ r.data \in [0..(S - 1) -> Events \cup {Blank}]
  BY UsedCases, WrapFacts DEF GoodRing, Rings
<1>2. w.data = [r.data EXCEPT ![r.head % S] = e] /\ r.head % S = (r.tail + u) % S
  BY <1>1, HeadSlot DEF RingWrite
<1>3. \A a \in Int : a % S \in 0..(S - 1)
  BY SlotType
<1>4. w.data[(r.tail + u) % S] = e
  <2>1. r.tail + u \in Int
    BY <1>1, WrapFacts, SMT
  <2>2. (r.tail + u) % S \in 0..(S - 1)
    BY <2>1, <1>3
  <2> QED
    BY <1>1, <1>2, <2>2
<1>5. ASSUME NEW a \in Int, a < r.tail + u, r.tail + u < a + S
      PROVE  w.data[a % S] = r.data[a % S]
  <2>1. a % S # (r.tail + u) % S
    BY <1>1, <1>5, ModApart
  <2> QED
    BY <1>1, <1>2, <1>3, <2>1
<1>6. CASE ~IsFull(r)
  <2>1. w.tail = r.tail /\ u < S
    BY <1>6, WriteUsed
  <2>2. \A i \in 0..(u - 1) : At(w, i) = At(r, i)
    <3> TAKE i \in 0..(u - 1)
    <3>1. r.tail + i \in Int /\ r.tail + i < r.tail + u /\ r.tail + u < (r.tail + i) + S
      BY <1>1, <2>1, SMT
    <3>2. w.data[(r.tail + i) % S] = r.data[(r.tail + i) % S]
      BY <3>1, <1>5
    <3> QED
      BY <3>2, <2>1 DEF At
  <2>3. At(w, u) = e
    BY <2>1, <1>4 DEF At
  <2> QED
    BY <1>6, <2>2, <2>3
<1>7. CASE IsFull(r)
  <2>1. w.tail = (r.tail + 1) % Wrap /\ u = S
    BY <1>7, WriteUsed
  <2>2. \A i \in Nat : (w.tail + i) % S = (r.tail + (i + 1)) % S
    BY <2>1, <1>1, TailShift
  <2>3. \A i \in 0..(S - 2) : At(w, i) = At(r, i + 1)
    <3> TAKE i \in 0..(S - 2)
    <3>1. /\ i \in Nat /\ r.tail + (i + 1) \in Int
          /\ r.tail + (i + 1) < r.tail + u /\ r.tail + u < (r.tail + (i + 1)) + S
      BY <1>1, <2>1, SMT
    <3>2. w.data[(r.tail + (i + 1)) % S] = r.data[(r.tail + (i + 1)) % S]
      BY <3>1, <1>5
    <3> QED
      BY <3>1, <3>2, <2>2 DEF At
  <2>4. At(w, S - 1) = e
    <3>1. S - 1 \in Nat /\ (S - 1) + 1 = u
      BY <1>1, <2>1, SMT
    <3> QED
      BY <3>1, <2>2, <1>4 DEF At
  <2> QED
    BY <1>7, <2>3, <2>4
<1> QED
  BY <1>6, <1>7

LEMMA WriteGood ==
  ASSUME NEW r, GoodRing(r), NEW e \in Events
  PROVE  GoodRing(RingWrite(r, e))
<1> DEFINE w == RingWrite(r, e)
<1>1. Used(r) \in Nat /\ Slots \in Nat \ {0} /\ w \in Rings
  BY UsedCases, WrapFacts, WriteUsed DEF GoodRing
<1>2. \A i \in 0..(Used(r) - 1) : At(r, i) \in Events
  BY DEF GoodRing
<1>3. CASE ~IsFull(r)
  <2>1. Used(w) = Used(r) + 1 /\ Used(w) <= Slots
    BY <1>1, <1>3, WriteUsed, SMT
  <2>2. \A i \in 0..(Used(w) - 1) : i \in 0..(Used(r) - 1) \/ i = Used(r)
    BY <1>1, <2>1, SMT
  <2>3. \A i \in 0..(Used(w) - 1) : At(w, i) \in Events
    BY <1>2, <1>3, <2>2, WriteSlots
  <2> QED
    BY <1>1, <2>1, <2>3 DEF GoodRing
<1>4. CASE IsFull(r)
  <2>1. Used(w) = Slots /\ Used(r) = Slots
    BY <1>4, WriteUsed
  <2>2. \A i \in 0..(Used(w) - 1) : i \in 0..(Slots - 2) \/ i = Slots - 1
    BY <1>1, <2>1, SMT
  <2>3. \A i \in 0..(Slots - 2) : At(r, i + 1) \in Events
    BY <1>1, <1>2, <2>1, SMT
  <2>4. \A i \in 0..(Used(w) - 1) : At(w, i) \in Events
    BY <1>4, <2>2, <2>3, WriteSlots
  <2> QED
    BY <1>1, <2>1, <2>4 DEF GoodRing
<1> QED
  BY <1>3, <1>4

(* ring_read takes the oldest event and moves the others up by one.        *)
LEMMA ReadFacts ==
  ASSUME NEW r, GoodRing(r), Used(r) >= 1
  PROVE  /\ GoodRing(RingRead(r))
         /\ Used(RingRead(r)) = Used(r) - 1
         /\ \A i \in 0..(Used(r) - 2) : At(RingRead(r), i) = At(r, i + 1)
<1> DEFINE w == RingRead(r)
<1>1. /\ r \in Rings /\ Used(r) \in 0..(Wrap - 1) /\ Used(r) <= Slots
      /\ r.head \in 0..(Wrap - 1) /\ r.tail \in 0..(Wrap - 1)
  BY UsedCases DEF GoodRing
<1>2. /\ w.head = r.head /\ w.tail = (r.tail + 1) % Wrap /\ w.data = r.data
      /\ w \in Rings
  <2>1. (r.tail + 1) % Wrap \in 0..(Wrap - 1)
    BY <1>1, NextCases
  <2> QED
    BY <1>1, <2>1 DEF RingRead, Rings
<1>3. \/ r.tail + 1 < Wrap /\ w.tail = r.tail + 1
      \/ r.tail + 1 = Wrap /\ w.tail = 0
  BY <1>1, <1>2, NextCases
<1>4. Used(w) = Used(r) - 1
  <2>1. \/ w.tail <= w.head /\ Used(w) = w.head - w.tail
        \/ w.head < w.tail /\ Used(w) = w.head - w.tail + Wrap
    BY <1>2, UsedCases
  <2>2. \/ r.tail <= r.head /\ Used(r) = r.head - r.tail
        \/ r.head < r.tail /\ Used(r) = r.head - r.tail + Wrap
    BY <1>1, UsedCases
  <2>3. Used(w) \in 0..(Wrap - 1)
    BY <1>2, UsedCases
  <2> HIDE DEF w
  <2> QED
    BY <1>1, <1>2, <1>3, <2>1, <2>2, <2>3, WrapFacts, SMT
<1>5. \A i \in 0..(Used(r) - 2) : At(w, i) = At(r, i + 1)
  <2> TAKE i \in 0..(Used(r) - 2)
  <2>1. i \in Nat
    BY <1>1, SMT
  <2>2. (w.tail + i) % Slots = (r.tail + (i + 1)) % Slots
    BY <1>1, <1>2, <2>1, TailShift
  <2> QED
    BY <1>2, <2>2 DEF At
<1>6. \A i \in 0..(Used(w) - 1) : At(w, i) \in Events
  <2>1. \A i \in 0..(Used(w) - 1) : i \in 0..(Used(r) - 2) /\ i + 1 \in 0..(Used(r) - 1)
    BY <1>1, <1>4, SMT
  <2>2. \A i \in 0..(Used(r) - 1) : At(r, i) \in Events
    BY DEF GoodRing
  <2> QED
    BY <2>1, <2>2, <1>5
<1>7. Used(w) <= Slots
  BY <1>1, <1>4, WrapFacts, SMT
<1> QED
  BY <1>2, <1>4, <1>5, <1>6, <1>7 DEF GoodRing

(* Contents, as the sequence it is.                                        *)
LEMMA ContentsSeq ==
  ASSUME NEW r, GoodRing(r)
  PROVE  /\ Contents(r) \in Seq(Events) /\ Len(Contents(r)) = Used(r)
         /\ Used(r) \in Nat
         /\ \A i \in 1..Used(r) : Contents(r)[i] = At(r, i - 1)
<1>1. /\ Used(r) \in Nat /\ r.tail \in Int
      /\ \A i \in 0..(Used(r) - 1) : At(r, i) \in Events
  BY UsedCases, WrapFacts DEF GoodRing
<1>2. \A i \in 1..Used(r) : r.tail + i - 1 = r.tail + (i - 1) /\ i - 1 \in 0..(Used(r) - 1)
  BY <1>1, SMT
<1>3. Contents(r) = [i \in 1..Used(r) |-> At(r, i - 1)]
  BY <1>2 DEF Contents, At
<1>4. \A i \in 1..Used(r) : At(r, i - 1) \in Events
  BY <1>1, <1>2
<1> HIDE DEF At
<1>5. [i \in 1..Used(r) |-> At(r, i - 1)] \in Seq(Events)
  BY <1>1, <1>4, IsASeq
<1> QED
  BY <1>1, <1>3, <1>5, LenProperties

(* A write into a ring with room appends, a write into a full ring pushes  *)
(* the oldest event out, and a read returns the oldest.                    *)
LEMMA WriteContents ==
  ASSUME NEW r, GoodRing(r), NEW e \in Events
  PROVE  /\ IsFull(r) <=> ~(Len(Contents(r)) < Slots)
         /\ ~IsFull(r) => Contents(RingWrite(r, e)) = Append(Contents(r), e)
         /\ IsFull(r) => Contents(RingWrite(r, e)) = Append(Tail(Contents(r)), e)
<1> DEFINE w == RingWrite(r, e)
           c == Contents(r)
           d == Contents(w)
           u == Used(r)
<1>1. /\ c \in Seq(Events) /\ Len(c) = u /\ u \in Nat
      /\ \A i \in 1..u : c[i] = At(r, i - 1)
  BY ContentsSeq
<1>2. /\ d \in Seq(Events) /\ Len(d) = Used(w) /\ Used(w) \in Nat
      /\ \A i \in 1..Used(w) : d[i] = At(w, i - 1)
  BY WriteGood, ContentsSeq
<1>3. Slots \in Nat \ {0} /\ u <= Slots
  BY WrapFacts DEF GoodRing
<1>4. IsFull(r) <=> ~(Len(c) < Slots)
  BY <1>1, <1>3, SMT DEF IsFull
<1>5. CASE ~IsFull(r)
  <2>1. Used(w) = u + 1
    BY <1>5, WriteUsed
  <2>2. Append(c, e) \in Seq(Events) /\ Len(Append(c, e)) = u + 1
    BY <1>1, AppendProperties
  <2>3. ASSUME NEW i \in 1..(u + 1)
        PROVE  d[i] = Append(c, e)[i]
    <3>1. CASE i = u + 1
      <4>1. d[i] = At(w, u)
        BY <1>1, <1>2, <2>1, <3>1
      <4> QED
        BY <4>1, <3>1, <1>1, <1>5, WriteSlots, AppendProperties
    <3>2. CASE i \in 1..u
      <4>1. i - 1 \in 0..(u - 1) /\ i \in 1..Used(w)
        BY <1>1, <2>1, <3>2, SMT
      <4>2. d[i] = At(w, i - 1) /\ At(w, i - 1) = At(r, i - 1) /\ c[i] = At(r, i - 1)
        BY <4>1, <1>1, <1>2, <1>5, <3>2, WriteSlots
      <4>3. Append(c, e)[i] = c[i]
        BY <1>1, <3>2, AppendProperties
      <4> QED
        BY <4>2, <4>3
    <3> QED
      BY <1>1, <3>1, <3>2, SMT
  <2> HIDE DEF c, d
  <2>4. d = Append(c, e)
    BY <1>1, <1>2, <2>1, <2>2, <2>3, SeqEqual
  <2> QED
    BY <1>4, <1>5, <2>4 DEF c, d
<1>6. CASE IsFull(r)
  <2>1. Used(w) = Slots /\ u = Slots
    BY <1>6, WriteUsed
  <2>2. c # <<>>
    BY <1>1, <1>3, <2>1, EmptySeq
  <2>3. /\ Tail(c) \in Seq(Events) /\ Len(Tail(c)) = u - 1
        /\ \A i \in 1..(u - 1) : Tail(c)[i] = c[i + 1]
    BY <1>1, <2>2, HeadTailProperties
  <2> DEFINE t == Tail(c)
  <2>4. /\ Append(t, e) \in Seq(Events) /\ Len(Append(t, e)) = u
        /\ Append(t, e)[u] = e
        /\ \A i \in 1..(u - 1) : Append(t, e)[i] = t[i]
    <3> HIDE DEF t
    <3>1. t \in Seq(Events) /\ Len(t) = u - 1 /\ u - 1 + 1 = u
      BY <1>1, <2>3, SMT DEF t
    <3> QED
      BY <3>1, AppendProperties
  <2>5. ASSUME NEW i \in 1..u
        PROVE  d[i] = Append(t, e)[i]
    <3>1. CASE i = u
      <4>1. d[i] = At(w, Slots - 1)
        BY <1>1, <1>2, <2>1, <3>1
      <4> QED
        BY <4>1, <3>1, <1>6, <2>4, WriteSlots
    <3>2. CASE i \in 1..(u - 1)
      <4>1. /\ i - 1 \in 0..(Slots - 2) /\ i \in 1..Used(w) /\ i + 1 \in 1..u
            /\ i - 1 + 1 = i /\ i + 1 - 1 = i
        BY <1>1, <2>1, <3>2, SMT
      <4>2. d[i] = At(w, i - 1) /\ At(w, i - 1) = At(r, i)
        BY <4>1, <1>2, <1>6, WriteSlots
      <4>3. c[i + 1] = At(r, i)
        BY <4>1, <1>1
      <4> QED
        BY <4>2, <4>3, <2>3, <2>4, <3>2
    <3> QED
      BY <1>1, <3>1, <3>2, SMT
  <2> HIDE DEF c, d, t
  <2>6. d = Append(t, e)
    BY <1>2, <2>1, <2>4, <2>5, SeqEqual
  <2> QED
    BY <1>4, <1>6, <2>6 DEF c, d, t
<1> QED
  BY <1>5, <1>6

LEMMA ReadContents ==
  ASSUME NEW r, GoodRing(r), Used(r) >= 1
  PROVE  /\ Contents(r) # <<>>
         /\ Contents(RingRead(r)) = Tail(Contents(r))
<1> DEFINE w == RingRead(r)
           c == Contents(r)
           d == Contents(w)
           u == Used(r)
<1>1. /\ c \in Seq(Events) /\ Len(c) = u /\ u \in Nat
      /\ \A i \in 1..u : c[i] = At(r, i - 1)
  BY ContentsSeq
<1>2. /\ d \in Seq(Events) /\ Len(d) = Used(w) /\ Used(w) = u - 1
      /\ \A i \in 1..Used(w) : d[i] = At(w, i - 1)
  BY ReadFacts, ContentsSeq
<1>3. c # <<>>
  BY <1>1, EmptySeq
<1>4. /\ Tail(c) \in Seq(Events) /\ Len(Tail(c)) = u - 1
      /\ \A i \in 1..(u - 1) : Tail(c)[i] = c[i + 1]
  BY <1>1, <1>3, HeadTailProperties
<1>5. ASSUME NEW i \in 1..(u - 1)
      PROVE  d[i] = Tail(c)[i]
  <2>1. i - 1 \in 0..(u - 2) /\ i + 1 \in 1..u /\ i - 1 + 1 = i /\ i + 1 - 1 = i
    BY <1>1, SMT
  <2>2. d[i] = At(w, i - 1) /\ At(w, i - 1) = At(r, i)
    BY <2>1, <1>2, ReadFacts
  <2> QED
    BY <2>1, <2>2, <1>1, <1>4
<1> HIDE DEF c, d
<1>6. d = Tail(c)
  BY <1>2, <1>4, <1>5, SeqEqual
<1> QED
  BY <1>3, <1>6 DEF c, d
-----------------------------------------------------------------------------
(* The inductive invariant: the rings are good; they are destroyed exactly *)
(* while no one has initialised the hook, and empty then; and unless a     *)
(* wait timed out the poll thread is gone by then.                         *)
HookInv ==
  /\ TypeOK
  /\ \A n \in Names : GoodRing(ring[n])
  /\ freed = (owner = "down")
  /\ freed => ring = [n \in Names |-> RingInit]
  /\ owner = "down" /\ timeouts = 0 => poll = "off"
  /\ AllCounted /\ NoStrayWrite

LEMMA PollFacts ==
  /\ PollStates = {"off", "check", "drain critical", "drain standard",
                   "dispatch critical", "dispatch standard"}
  /\ \A n \in Names : Drain(n) \in PollStates /\ Dispatch(n) \in PollStates
  /\ \A n, m \in Names : Drain(n) # Dispatch(m) /\ Drain(n) # "off"
                         /\ Dispatch(n) # "off" /\ Drain(n) # "check"
                         /\ Dispatch(n) # "check"
BY DEF PollStates, Drain, Dispatch, Names

LEMMA InitInv == Init => HookInv
<1> SUFFICES ASSUME Init PROVE HookInv
  OBVIOUS
<1>1. GoodRing(RingInit) /\ Used(RingInit) = 0
  BY EmptyRing
<1>2. RingInit \in Rings
  BY <1>1 DEF GoodRing
<1>3. /\ \A n \in Names : ring[n] = RingInit
      /\ "critical" \in Names /\ "standard" \in Names
  BY DEF Init, Names
<1>4. map \in [Names -> Seq(Events)]
  <2>1. <<>> \in Seq(Events)
    BY EmptySeq
  <2> QED
    BY <2>1 DEF Init
<1>5. TypeOK
  <2>1. ring \in [Names -> Rings]
    BY <1>2 DEF Init
  <2>2. poll \in PollStates
    BY PollFacts DEF Init
  <2> QED
    BY <1>4, <2>1, <2>2 DEF Init, TypeOK
<1>6. InFlight = 0
  BY PollFacts DEF Init, InFlight
<1>7. AllCounted
  BY <1>1, <1>3, <1>6 DEF Init, AllCounted
<1> QED
  BY <1>1, <1>3, <1>5, <1>7 DEF Init, HookInv, NoStrayWrite

(* Steps that touch neither a ring nor a counter.                          *)
Quiet == UNCHANGED <<ring, freed, counters, timeouts, read, discarded, stray>>
LEMMA QuietKeeps ==
  ASSUME HookInv, Quiet, TypeOK', InFlight' = InFlight,
         freed' = (owner' = "down"),
         owner' = "down" /\ timeouts = 0 => poll' = "off"
  PROVE  HookInv'
<1>1. AllCounted' /\ NoStrayWrite'
  BY DEF HookInv, Quiet, AllCounted, NoStrayWrite, counters
<1>2. /\ (\A n \in Names : GoodRing(ring[n]))'
      /\ (freed => ring = [n \in Names |-> RingInit])'
      /\ timeouts' = timeouts
  BY DEF HookInv, Quiet
<1> QED
  BY <1>1, <1>2 DEF HookInv

LEMMA QuietSteps ==
  ASSUME HookInv,
         \/ ShutdownBegins \/ PollChecks
         \/ \E n \in Names, e \in Events : Emit(n, e)
         \/ \E n \in Names : PollFindsEmpty(n)
  PROVE  Quiet /\ HookInv'
<1>1. TypeOK /\ freed = (owner = "down")
  BY DEF HookInv
<1>2. owner = "down" /\ timeouts = 0 => poll = "off"
  BY DEF HookInv
<1>3. CASE ShutdownBegins
  <2>1. Quiet /\ TypeOK'
    BY <1>1, <1>3 DEF ShutdownBegins, TypeOK, Quiet, counters
  <2>2. InFlight' = InFlight
    BY <1>3 DEF ShutdownBegins, InFlight
  <2>3. freed' = (owner' = "down") /\ owner' # "down"
    BY <1>1, <1>3 DEF ShutdownBegins
  <2> QED
    BY <2>1, <2>2, <2>3, QuietKeeps
<1>4. CASE PollChecks
  <2>1. Quiet /\ TypeOK'
    BY <1>1, <1>4 DEF PollChecks, TypeOK, Quiet, counters, PollStates
  <2>2. InFlight' = InFlight
    BY <1>4, PollFacts DEF PollChecks, InFlight, Drain, Dispatch, Names
  <2>3. freed' = (owner' = "down") /\ (owner' = "down" /\ timeouts = 0 => poll' = "off")
    BY <1>1, <1>2, <1>4 DEF PollChecks
  <2> QED
    BY <2>1, <2>2, <2>3, QuietKeeps
<1>5. ASSUME NEW n \in Names, NEW e \in Events, Emit(n, e)
      PROVE  Quiet /\ HookInv'
  <2>1. Quiet
    BY <1>5 DEF Emit, Quiet, counters
  <2>2. map' \in [Names -> Seq(Events)]
    <3>1. Append(map[n], e) \in Seq(Events)
      BY <1>1, AppendProperties DEF TypeOK
    <3> QED
      BY <1>1, <1>5, <3>1 DEF Emit, TypeOK
  <2>3. TypeOK'
    BY <1>1, <1>5, <2>2 DEF Emit, TypeOK, counters
  <2>4. InFlight' = InFlight
    BY <1>5 DEF Emit, InFlight
  <2>5. freed' = (owner' = "down") /\ (owner' = "down" /\ timeouts = 0 => poll' = "off")
    BY <1>1, <1>2, <1>5 DEF Emit
  <2> QED
    BY <2>1, <2>3, <2>4, <2>5, QuietKeeps
<1>6. ASSUME NEW n \in Names, PollFindsEmpty(n)
      PROVE  Quiet /\ HookInv'
  <2>1. Quiet
    BY <1>6 DEF PollFindsEmpty, Quiet, counters
  <2>2. poll' \in {"drain standard", "check"}
    BY <1>6 DEF PollFindsEmpty
  <2>3. TypeOK'
    BY <1>1, <1>6, <2>2 DEF PollFindsEmpty, TypeOK, PollStates, counters
  <2>4. InFlight' = InFlight
    BY <1>6, <2>2, PollFacts DEF PollFindsEmpty, InFlight, Drain, Dispatch, Names
  <2>5. freed' = (owner' = "down") /\ (owner' = "down" /\ timeouts = 0 => poll' = "off")
    BY <1>1, <1>2, <1>6, PollFacts DEF PollFindsEmpty
  <2> QED
    BY <2>1, <2>3, <2>4, <2>5, QuietKeeps
<1> QED
  BY <1>3, <1>4, <1>5, <1>6

LEMMA InitSteps ==
  ASSUME HookInv, HookInit \/ HookInitFails
  PROVE  HookInv' /\ dropped' = dropped
         /\ ring' = [n \in Names |-> RingInit]
<1>1. TypeOK /\ freed = (owner = "down") /\ AllCounted /\ NoStrayWrite
  BY DEF HookInv
<1>2. owner = "down" /\ poll = "off" /\ freed
  BY <1>1 DEF HookInit, HookInitFails, MayInit
<1>3. ring = [n \in Names |-> RingInit]
  BY <1>2 DEF HookInv
<1>4. ring' = ring /\ UNCHANGED <<counters, emitted, timeouts, read, discarded, stray>>
  BY <1>3 DEF HookInit, HookInitFails
<1>5. ring' \in [Names -> Rings] /\ \A n \in Names : GoodRing(ring'[n])
  BY <1>1, <1>4 DEF HookInv, TypeOK
<1>6. InFlight = 0
  BY <1>2, PollFacts DEF InFlight
<1>7. <<>> \in Seq(Events)
  BY EmptySeq
<1>8. CASE HookInit
  <2>1. InFlight' = 0
    BY <1>8, PollFacts DEF HookInit, InFlight
  <2>2. AllCounted' /\ NoStrayWrite'
    BY <1>1, <1>4, <1>6, <2>1 DEF AllCounted, NoStrayWrite, counters
  <2>3. map' \in [Names -> Seq(Events)] /\ poll' \in PollStates
    BY <1>7, <1>8, PollFacts DEF HookInit
  <2>5. links' \in Nat /\ inits' \in Nat
    BY <1>1, <1>8, SMT DEF HookInit, TypeOK
  <2>6. freed' = FALSE /\ running' = TRUE /\ owner' = "up"
    BY <1>8 DEF HookInit
  <2>4. TypeOK'
    BY <1>1, <1>4, <1>5, <2>3, <2>5, <2>6 DEF TypeOK, counters
  <2> QED
    BY <1>3, <1>4, <1>5, <1>8, <2>2, <2>4 DEF HookInit, HookInv, counters
<1>9. CASE HookInitFails
  <2>1. InFlight' = InFlight
    BY <1>9 DEF HookInitFails, InFlight
  <2>2. AllCounted' /\ NoStrayWrite'
    BY <1>1, <1>4, <2>1 DEF AllCounted, NoStrayWrite, counters
  <2>3. links' \in Nat /\ running' \in BOOLEAN
    <3>1. PICK a \in 0..2 : /\ links' = links + a
                            /\ running' \in IF a = 2 THEN {TRUE} ELSE {running}
      BY <1>9 DEF HookInitFails
    <3>2. links' \in Nat
      BY <1>1, <3>1, SMT DEF TypeOK
    <3>3. running' = TRUE \/ running' = running
      BY <3>1
    <3> QED
      BY <1>1, <3>2, <3>3 DEF TypeOK
  <2>4. TypeOK'
    BY <1>1, <1>4, <1>5, <1>9, <2>3 DEF HookInitFails, TypeOK, counters
  <2> QED
    BY <1>2, <1>3, <1>4, <1>5, <1>9, <2>2, <2>4 DEF HookInitFails, HookInv, counters
<1> QED
  BY <1>3, <1>4, <1>8, <1>9 DEF counters

(* The counting of one ring, in terms of its length.                       *)
LEMMA TwoNames ==
  ASSUME NEW n \in Names
  PROVE  n = "critical" \/ n = "standard"
BY DEF Names

LEMMA TakeStep ==
  ASSUME HookInv, NEW n \in Names, PollTakes(n)
  PROVE  /\ HookInv'
         /\ \/ ring' = ring /\ dropped' = dropped
            \/ \E e \in Events :
                 /\ ring' = [ring EXCEPT ![n] = RingWrite(@, e)]
                 /\ dropped' = dropped + (IF IsFull(ring[n]) THEN 1 ELSE 0)
<1> DEFINE e == Head(map[n])
<1>1. TypeOK /\ freed = (owner = "down") /\ AllCounted /\ NoStrayWrite
  BY DEF HookInv
<1>2. poll = Drain(n) /\ map[n] # <<>> /\ poll' = Dispatch(n) /\ map[n] \in Seq(Events)
  BY <1>1 DEF PollTakes, TypeOK
<1>3. e \in Events /\ Tail(map[n]) \in Seq(Events)
  BY <1>2, HeadTailProperties
<1>4. poll' \in PollStates /\ poll # "off"
  BY <1>2, PollFacts
<1>5. InFlight = 0 /\ InFlight' = 1
  BY <1>2, PollFacts DEF InFlight
<1>6. map' \in [Names -> Seq(Events)]
  BY <1>1, <1>3 DEF PollTakes, TypeOK
<1>7. UNCHANGED <<freed, running, owner, links, captured, critical, emitted,
                  inits, timeouts, read, discarded>>
  BY DEF PollTakes
<1>8. CASE freed
  <2>1. timeouts # 0
    BY <1>1, <1>4, <1>8 DEF HookInv
  <2>2. ring' = ring /\ dropped' = dropped /\ stray'
    BY <1>8 DEF PollTakes
  <2>3. TypeOK'
    BY <1>1, <1>4, <1>6, <1>7, <2>2 DEF TypeOK
  <2>4. AllCounted' /\ NoStrayWrite'
    BY <1>7, <2>1 DEF AllCounted, NoStrayWrite
  <2> QED
    BY <1>7, <2>1, <2>2, <2>3, <2>4 DEF HookInv
<1>9. CASE ~freed
  <2> DEFINE w == RingWrite(ring[n], e)
             lost == IF IsFull(ring[n]) THEN 1 ELSE 0
  <2>1. ring' = [ring EXCEPT ![n] = w] /\ dropped' = dropped + lost /\ stray' = stray
    BY <1>9 DEF PollTakes
  <2>2. GoodRing(ring[n]) /\ GoodRing(w)
    BY <1>3, WriteGood DEF HookInv
  <2>3. ring' \in [Names -> Rings]
    BY <1>1, <2>1, <2>2 DEF TypeOK, GoodRing
  <2>4. ring'[n] = w /\ \A m \in Names \ {n} : ring'[m] = ring[m]
    BY <1>1, <2>1 DEF TypeOK
  <2>5. \A m \in Names : GoodRing(ring'[m])
    BY <2>2, <2>4 DEF HookInv
  <2>6. /\ Used(w) + lost = Used(ring[n]) + 1
        /\ Used(w) \in Nat /\ Used(ring[n]) \in Nat
    <3>1. Used(w) \in Nat /\ Used(ring[n]) \in Nat
      BY <2>2, UsedCases, WrapFacts DEF GoodRing
    <3> QED
      BY <1>3, <2>2, <3>1, WriteUsed, WrapFacts
  <2>7. dropped' \in Nat
    BY <1>1, <2>1 DEF TypeOK
  <2>8. TypeOK'
    BY <1>1, <1>4, <1>6, <1>7, <2>1, <2>3, <2>7 DEF TypeOK
  <2>9. AllCounted'
    <3>0. lost \in {0, 1}
      OBVIOUS
    <3> HIDE DEF w, lost
    <3>1. "critical" \in Names /\ "standard" \in Names
      BY DEF Names
    <3>2. Used(ring["critical"]) \in Nat /\ Used(ring["standard"]) \in Nat
      BY <3>1, UsedCases, WrapFacts DEF HookInv, GoodRing
    <3>3. Used(ring'["critical"]) + Used(ring'["standard"]) + lost
            = Used(ring["critical"]) + Used(ring["standard"]) + 1
      <4>1. CASE n = "critical"
        <5>1. ring'["critical"] = w /\ ring'["standard"] = ring["standard"]
          BY <2>4, <3>1, <4>1
        <5> QED
          BY <2>6, <3>0, <3>2, <4>1, <5>1, SMT
      <4>2. CASE n = "standard"
        <5>1. ring'["standard"] = w /\ ring'["critical"] = ring["critical"]
          BY <2>4, <3>1, <4>2
        <5> QED
          BY <2>6, <3>0, <3>2, <4>2, <5>1, SMT
      <4> QED
        BY <4>1, <4>2, TwoNames
    <3>4. Used(ring'["critical"]) \in Nat /\ Used(ring'["standard"]) \in Nat
      BY <2>5, <3>1, UsedCases, WrapFacts DEF GoodRing
    <3> DEFINE c == Used(ring["critical"])
               s == Used(ring["standard"])
               cc == Used(ring'["critical"])
               ss == Used(ring'["standard"])
    <3>5. /\ captured \in Nat /\ read \in Nat /\ dropped \in Nat /\ discarded \in Nat
          /\ lost \in Nat
      BY <1>1, <3>0 DEF TypeOK
    <3>6. timeouts = 0 => captured + 0 = read + dropped + discarded + c + s
      BY <1>1, <1>5 DEF AllCounted
    <3>7. /\ c \in Nat /\ s \in Nat /\ cc \in Nat /\ ss \in Nat
          /\ cc + ss + lost = c + s + 1
      BY <3>2, <3>3, <3>4
    <3> HIDE DEF c, s, cc, ss
    <3>8. timeouts = 0 => captured + 1 = read + (dropped + lost) + discarded + cc + ss
      BY <3>5, <3>6, <3>7
    <3> QED
      BY <1>5, <1>7, <2>1, <3>8 DEF AllCounted, cc, ss
  <2>10. NoStrayWrite'
    BY <1>1, <1>7, <2>1 DEF NoStrayWrite
  <2>11. (freed => ring = [m \in Names |-> RingInit])'
         /\ (owner = "down" /\ timeouts = 0 => poll = "off")'
         /\ (freed = (owner = "down"))'
    BY <1>1, <1>7, <1>9
  <2> QED
    BY <1>3, <2>1, <2>5, <2>8, <2>9, <2>10, <2>11 DEF HookInv
<1> QED
  BY <1>8, <1>9

LEMMA DispatchStep ==
  ASSUME HookInv, NEW n \in Names, PollDispatches(n)
  PROVE  HookInv' /\ ring' = ring /\ dropped' = dropped
<1>1. TypeOK /\ freed = (owner = "down") /\ AllCounted /\ NoStrayWrite
  BY DEF HookInv
<1>2. poll = Dispatch(n) /\ poll' = Drain(n)
  BY DEF PollDispatches
<1>3. /\ UNCHANGED <<ring, freed, map, running, owner, links, dropped, emitted,
                     inits, timeouts, read, discarded, stray>>
      /\ captured' = captured + 1 /\ critical' \in {critical, critical + 1}
  BY <1>1 DEF PollDispatches, TypeOK
<1>4. InFlight = 1 /\ InFlight' = 0 /\ poll # "off" /\ poll' \in PollStates
  BY <1>2, PollFacts DEF InFlight
<1>5. TypeOK'
  BY <1>1, <1>3, <1>4 DEF TypeOK
<1>6. AllCounted'
  BY <1>1, <1>3, <1>4 DEF AllCounted, TypeOK
<1>7. NoStrayWrite'
  BY <1>1, <1>3 DEF NoStrayWrite
<1>8. owner' = "down" => timeouts' # 0
  BY <1>3, <1>4 DEF HookInv
<1> QED
  BY <1>1, <1>3, <1>5, <1>6, <1>7, <1>8 DEF HookInv

LEMMA ReadStep ==
  ASSUME HookInv, NEW n \in Names, Read(n)
  PROVE  /\ HookInv' /\ dropped' = dropped
         /\ Used(ring[n]) >= 1 /\ ring' = [ring EXCEPT ![n] = RingRead(@)]
<1> DEFINE w == RingRead(ring[n])
<1>1. TypeOK /\ freed = (owner = "down") /\ AllCounted /\ NoStrayWrite
  BY DEF HookInv
<1>2. /\ owner # "down" /\ Used(ring[n]) >= 1 /\ read' = read + 1
      /\ ring' = [ring EXCEPT ![n] = w]
      /\ UNCHANGED <<freed, map, running, poll, owner, links, counters,
                     emitted, inits, timeouts, discarded, stray>>
  BY DEF Read
<1>3. GoodRing(ring[n]) /\ GoodRing(w) /\ Used(w) = Used(ring[n]) - 1
  BY <1>2, ReadFacts DEF HookInv
<1>4. ring'[n] = w /\ \A m \in Names \ {n} : ring'[m] = ring[m]
  BY <1>1, <1>2 DEF TypeOK
<1>5. \A m \in Names : GoodRing(ring'[m])
  BY <1>3, <1>4 DEF HookInv
<1>6. TypeOK'
  <2>1. ring' \in [Names -> Rings]
    BY <1>1, <1>2, <1>3 DEF TypeOK, GoodRing
  <2> QED
    BY <1>1, <1>2, <2>1 DEF TypeOK, counters
<1>7. AllCounted'
  <2> HIDE DEF w
  <2>1. "critical" \in Names /\ "standard" \in Names
    BY DEF Names
  <2>2. /\ Used(ring["critical"]) \in Nat /\ Used(ring["standard"]) \in Nat
        /\ Used(ring'["critical"]) \in Nat /\ Used(ring'["standard"]) \in Nat
    BY <1>5, <2>1, UsedCases, WrapFacts DEF HookInv, GoodRing
  <2>3. Used(ring'["critical"]) + Used(ring'["standard"]) + 1
          = Used(ring["critical"]) + Used(ring["standard"])
    <3>1. CASE n = "critical"
      <4>1. ring'["critical"] = w /\ ring'["standard"] = ring["standard"]
        BY <1>4, <2>1, <3>1
      <4> QED
        BY <1>3, <2>2, <3>1, <4>1, SMT
    <3>2. CASE n = "standard"
      <4>1. ring'["standard"] = w /\ ring'["critical"] = ring["critical"]
        BY <1>4, <2>1, <3>2
      <4> QED
        BY <1>3, <2>2, <3>2, <4>1, SMT
    <3> QED
      BY <3>1, <3>2, TwoNames
  <2>4. InFlight' = InFlight
    BY <1>2 DEF InFlight
  <2>5. InFlight \in {0, 1}
    BY DEF InFlight
  <2>6. /\ captured \in Nat /\ read \in Nat /\ dropped \in Nat /\ discarded \in Nat
        /\ read' = read + 1 /\ timeouts' = timeouts /\ captured' = captured
        /\ dropped' = dropped /\ discarded' = discarded
    BY <1>1, <1>2 DEF TypeOK, counters
  <2> QED
    BY <1>1, <2>2, <2>3, <2>4, <2>5, <2>6, SMT DEF AllCounted
<1>8. NoStrayWrite' /\ (freed = (owner = "down"))' /\ ~freed' /\ owner' # "down"
  BY <1>1, <1>2 DEF NoStrayWrite
<1> QED
  BY <1>2, <1>5, <1>6, <1>7, <1>8 DEF HookInv, counters

LEMMA ShutdownStep ==
  ASSUME HookInv, ShutdownEnds
  PROVE  /\ HookInv' /\ dropped' = dropped
         /\ ring' = [n \in Names |-> RingInit]
<1>1. TypeOK /\ AllCounted /\ NoStrayWrite
  BY DEF HookInv
<1>2. /\ owner = "waits" /\ owner' = "down" /\ freed' = TRUE
      /\ discarded' = discarded + Used(ring["critical"]) + Used(ring["standard"])
      /\ ring' = [n \in Names |-> RingInit]
      /\ UNCHANGED <<map, running, poll, links, counters, emitted, inits, read,
                     stray>>
  BY DEF ShutdownEnds
<1>3. \/ poll = "off" /\ timeouts' = timeouts
      \/ poll # "off" /\ timeouts' = timeouts + 1
  BY DEF ShutdownEnds, Waited
<1>4. /\ "critical" \in Names /\ "standard" \in Names
      /\ Used(ring["critical"]) \in Nat /\ Used(ring["standard"]) \in Nat
  <2>1. "critical" \in Names /\ "standard" \in Names
    BY DEF Names
  <2> QED
    BY <2>1, UsedCases, WrapFacts DEF HookInv, GoodRing
<1>5. GoodRing(RingInit) /\ Used(RingInit) = 0 /\ RingInit \in Rings
  BY EmptyRing DEF GoodRing
<1>6. ring'["critical"] = RingInit /\ ring'["standard"] = RingInit
  BY <1>2, <1>4
<1>7. TypeOK'
  <2>1. timeouts' \in Nat
    BY <1>1, <1>3 DEF TypeOK
  <2>2. discarded' \in Nat
    BY <1>1, <1>2, <1>4, SMT DEF TypeOK
  <2>3. ring' \in [Names -> Rings]
    BY <1>2, <1>5
  <2> QED
    BY <1>1, <1>2, <2>1, <2>2, <2>3 DEF TypeOK, counters
<1>8. AllCounted'
  <2>1. InFlight' = InFlight /\ InFlight \in {0, 1}
    BY <1>2 DEF InFlight
  <2>2. Used(ring'["critical"]) = 0 /\ Used(ring'["standard"]) = 0
    BY <1>5, <1>6
  <2>3. timeouts' = 0 => timeouts = 0
    BY <1>1, <1>3 DEF TypeOK
  <2> QED
    BY <1>1, <1>2, <1>4, <2>1, <2>2, <2>3, SMT DEF AllCounted, TypeOK, counters
<1>9. NoStrayWrite' /\ (timeouts' = 0 => poll' = "off")
  BY <1>1, <1>2, <1>3 DEF NoStrayWrite, TypeOK
<1> QED
  BY <1>2, <1>5, <1>7, <1>8, <1>9 DEF HookInv, counters
-----------------------------------------------------------------------------
LEMMA NextInv == HookInv /\ [Next]_vars => HookInv'
<1> SUFFICES ASSUME HookInv, [Next]_vars PROVE HookInv'
  OBVIOUS
<1>1. CASE UNCHANGED vars
  <2>1. Quiet /\ UNCHANGED <<map, running, poll, owner, links, emitted, inits>>
    BY <1>1 DEF vars, Quiet
  <2>2. TypeOK'
    BY <2>1 DEF HookInv, TypeOK, Quiet, counters
  <2>3. InFlight' = InFlight /\ freed' = (owner' = "down")
        /\ (owner' = "down" /\ timeouts = 0 => poll' = "off")
    BY <2>1 DEF HookInv, InFlight, Quiet
  <2> QED
    BY <2>1, <2>2, <2>3, QuietKeeps
<1>2. CASE Next
  <2>1. CASE Poll
    BY <2>1, QuietSteps, TakeStep, DispatchStep DEF Poll
  <2>2. CASE ~Poll
    BY <1>2, <2>2, InitSteps, ShutdownStep, QuietSteps, ReadStep DEF Next
  <2> QED
    BY <2>1, <2>2
<1> QED
  BY <1>1, <1>2

(* The invariant holds, and with it the types, the agreement of the three  *)
(* counts and that no ring is written after it was destroyed.              *)
THEOREM HookInvCorrect == Spec => []HookInv
<1> QED
  BY InitInv, NextInv, PTL DEF Spec

(* process_hook.c's variables keep their types.                            *)
THEOREM HookTypeCorrect == Spec => []TypeOK
<1>1. HookInv => TypeOK
  BY DEF HookInv
<1> QED
  BY <1>1, HookInvCorrect, PTL

(* events_captured, events_dropped and what the readers got agree.         *)
THEOREM AllCountedCorrect == Spec => []AllCounted
<1>1. HookInv => AllCounted
  BY DEF HookInv
<1> QED
  BY <1>1, HookInvCorrect, PTL

(* ring_write never gets a ring that ring_destroy had.                     *)
THEOREM NoStrayWriteCorrect == Spec => []NoStrayWrite
<1>1. HookInv => NoStrayWrite
  BY DEF HookInv
<1> QED
  BY <1>1, HookInvCorrect, PTL
-----------------------------------------------------------------------------
Queue == [n \in Names |-> Contents(ring[n])]

LEMMA QueueOfEmpty ==
  ASSUME ring = [n \in Names |-> RingInit]
  PROVE  Queue = [n \in Names |-> <<>>]
<1>1. \A n \in Names : Contents(ring[n]) = <<>>
  BY EmptyRing
<1> QED
  BY <1>1 DEF Queue

LEMMA QueueOfNextEmpty ==
  ASSUME ring' = [n \in Names |-> RingInit]
  PROVE  Queue' = [n \in Names |-> <<>>]
<1>1. \A n \in Names : Contents(ring'[n]) = <<>>
  BY EmptyRing
<1> QED
  BY <1>1 DEF Queue

LEMMA TakeMaps ==
  ASSUME HookInv, NEW n \in Names, NEW e \in Events,
         ring' = [ring EXCEPT ![n] = RingWrite(@, e)],
         dropped' = dropped + (IF IsFull(ring[n]) THEN 1 ELSE 0)
  PROVE  Queues!Put(n, e)
<1>1. ring \in [Names -> Rings] /\ GoodRing(ring[n]) /\ dropped \in Nat
  BY DEF HookInv, TypeOK
<1> DEFINE c == Contents(ring[n])
           d == Contents(RingWrite(ring[n], e))
<1>2. Queue[n] = c
  BY DEF Queue
<1>3. /\ IsFull(ring[n]) <=> ~(Len(c) < Slots)
      /\ ~IsFull(ring[n]) => d = Append(c, e)
      /\ IsFull(ring[n]) => d = Append(Tail(c), e)
  BY <1>1, WriteContents
<1>4. Queue' = [Queue EXCEPT ![n] = d]
  <2>1. \A m \in Names : ring'[m] = IF m = n THEN RingWrite(ring[n], e) ELSE ring[m]
    BY <1>1
  <2>2. \A m \in Names : Contents(ring'[m]) = IF m = n THEN d ELSE Contents(ring[m])
    BY <2>1
  <2> HIDE DEF d
  <2> QED
    BY <2>2 DEF Queue
<1> HIDE DEF c, d
<1>5. CASE IsFull(ring[n])
  <2>1. /\ Queue' = [Queue EXCEPT ![n] = Append(Tail(@), e)]
        /\ dropped' = dropped + 1 /\ ~(Len(Queue[n]) < Slots)
    BY <1>2, <1>3, <1>4, <1>5
  <2> QED
    BY <2>1 DEF Queue, Queues!Put
<1>6. CASE ~IsFull(ring[n])
  <2>1. /\ Queue' = [Queue EXCEPT ![n] = Append(@, e)]
        /\ dropped' = dropped /\ Len(Queue[n]) < Slots
    <3>1. dropped' = dropped + 0
      BY <1>6
    <3>2. dropped' = dropped
      BY <1>1, <3>1, SMT
    <3> QED
      BY <1>2, <1>3, <1>4, <1>6, <3>2
  <2> QED
    BY <2>1 DEF Queue, Queues!Put
<1> QED
  BY <1>5, <1>6

LEMMA ReadMaps ==
  ASSUME HookInv, NEW n \in Names, Used(ring[n]) >= 1,
         ring' = [ring EXCEPT ![n] = RingRead(@)], dropped' = dropped
  PROVE  Queues!Take(n)
<1>1. ring \in [Names -> Rings] /\ GoodRing(ring[n])
  BY DEF HookInv, TypeOK
<1> DEFINE c == Contents(ring[n])
           d == Contents(RingRead(ring[n]))
<1>2. Queue[n] = c
  BY DEF Queue
<1>3. c # <<>> /\ d = Tail(c)
  BY <1>1, ReadContents
<1>4. Queue' = [Queue EXCEPT ![n] = d]
  <2>1. \A m \in Names : ring'[m] = IF m = n THEN RingRead(ring[n]) ELSE ring[m]
    BY <1>1
  <2>2. \A m \in Names : Contents(ring'[m]) = IF m = n THEN d ELSE Contents(ring[m])
    BY <2>1
  <2> HIDE DEF d
  <2> QED
    BY <2>2 DEF Queue
<1> HIDE DEF c, d
<1>5. Queue[n] # <<>> /\ Queue' = [Queue EXCEPT ![n] = Tail(@)]
  BY <1>2, <1>3, <1>4
<1> QED
  BY <1>5 DEF Queue, Queues!Take

LEMMA StepMaps ==
  ASSUME HookInv, [Next]_vars
  PROVE  [Queues!Next]_<<Queue, dropped>>
<1>1. ASSUME ring' = ring, dropped' = dropped
      PROVE  UNCHANGED <<Queue, dropped>>
  BY <1>1 DEF Queue
<1>2. ASSUME ring' = [n \in Names |-> RingInit], dropped' = dropped
      PROVE  Queues!Discard
  <2>1. Queue' = [n \in Names |-> <<>>]
    BY <1>2, QueueOfNextEmpty
  <2> QED
    BY <1>2, <2>1 DEF Queues!Discard, Queue
<1>3. CASE UNCHANGED vars
  BY <1>1, <1>3 DEF vars, counters
<1>4. CASE HookInit \/ HookInitFails
  BY <1>2, <1>4, InitSteps DEF Queues!Next
<1>5. CASE ShutdownEnds
  BY <1>2, <1>5, ShutdownStep DEF Queues!Next
<1>6. CASE \/ ShutdownBegins \/ PollChecks
           \/ \E n \in Names, e \in Events : Emit(n, e)
           \/ \E n \in Names : PollFindsEmpty(n)
  BY <1>1, <1>6, QuietSteps DEF Quiet, counters
<1>7. ASSUME NEW n \in Names, PollDispatches(n)
      PROVE  UNCHANGED <<Queue, dropped>>
  BY <1>1, <1>7, DispatchStep
<1>8. ASSUME NEW n \in Names, PollTakes(n)
      PROVE  [Queues!Next]_<<Queue, dropped>>
  <2>1. \/ ring' = ring /\ dropped' = dropped
        \/ \E e \in Events :
             /\ ring' = [ring EXCEPT ![n] = RingWrite(@, e)]
             /\ dropped' = dropped + (IF IsFull(ring[n]) THEN 1 ELSE 0)
    BY <1>8, TakeStep
  <2>2. ASSUME NEW e \in Events,
               ring' = [ring EXCEPT ![n] = RingWrite(@, e)],
               dropped' = dropped + (IF IsFull(ring[n]) THEN 1 ELSE 0)
        PROVE  Queues!Next
    BY <2>2, TakeMaps DEF Queues!Next
  <2> QED
    BY <1>1, <2>1, <2>2
<1>9. ASSUME NEW n \in Names, Read(n)
      PROVE  Queues!Next
  BY <1>9, ReadStep, ReadMaps DEF Queues!Next
<1> QED
  BY <1>3, <1>4, <1>5, <1>6, <1>7, <1>8, <1>9 DEF Next, Poll

(* process_hook.c's rings implement EventRings: bounded queues that keep   *)
(* the order and count what they push out, however often the 32-bit        *)
(* counters wrap, and through every initialisation and shutdown.           *)
THEOREM RingsAreQueuesCorrect == Spec => RingsAreQueues
<1>1. Init => Queues!Init
  <2> SUFFICES ASSUME Init PROVE Queues!Init
    OBVIOUS
  <2>1. ring = [n \in Names |-> RingInit] /\ dropped = 0
    BY DEF Init
  <2>2. Queue = [n \in Names |-> <<>>]
    BY <2>1, QueueOfEmpty
  <2> QED
    BY <2>1, <2>2 DEF Queue, Queues!Init
<1>2. HookInv /\ [Next]_vars => [Queues!Next]_<<Queue, dropped>>
  BY StepMaps
<1>3. HookInv /\ [Next]_vars
        => [Queues!Next]_<<[n \in Names |-> Contents(ring[n])], dropped>>
  BY <1>2 DEF Queue
<1> QED
  BY <1>1, <1>3, HookInvCorrect, PTL DEF Spec, RingsAreQueues, Queues!Spec
=============================================================================
