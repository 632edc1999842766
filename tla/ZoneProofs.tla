----------------------------- MODULE ZoneProofs -----------------------------
(***************************************************************************)
(* A zone of shared memory whose bytes are numbered round and round: what  *)
(* lies between the reader's place and the writer's, and what storing a    *)
(* byte behind it and loading one from its front make of it.               *)
(***************************************************************************)
EXTENDS Zone, SequenceTheorems, TLAPS

Place == 0..(ZONE_SIZE - 1)

(* The n bytes of zone z from place r on. *)
Held(z, r, n) == [i \in 1..n |-> z[(r + i - 1) % ZONE_SIZE]]

-----------------------------------------------------------------------------
(* Arithmetic of the indices *)

LEMMA WrapIsIndex ==
  ASSUME NEW x \in Int
  PROVE  x % ZONE_SIZE \in Place
BY ZoneAssumption, SMT DEF Place

(* One turn of the ring is all that an index and a count can make. *)
LEMMA WrapOf ==
  ASSUME NEW i \in Place, NEW n \in 0..ZONE_SIZE
  PROVE  (i + n) % ZONE_SIZE = IF i + n < ZONE_SIZE THEN i + n ELSE i + n - ZONE_SIZE
BY ZoneAssumption, SMT DEF Place

(* Advancing the writer adds a place behind the pending ones. *)
LEMMA WrapAdvance ==
  ASSUME NEW i \in Place, NEW n \in 0..(ZONE_SIZE - 1)
  PROVE  (((i + n) % ZONE_SIZE) + 1) % ZONE_SIZE = (i + (n + 1)) % ZONE_SIZE
<1> DEFINE j == (i + n) % ZONE_SIZE
<1>1. j \in Place
  BY WrapIsIndex, ZoneAssumption DEF Place
<1>2. j = IF i + n < ZONE_SIZE THEN i + n ELSE i + n - ZONE_SIZE
  BY WrapOf, ZoneAssumption
<1>3. (j + 1) % ZONE_SIZE = IF j + 1 < ZONE_SIZE THEN j + 1 ELSE j + 1 - ZONE_SIZE
  <2> HIDE DEF j
  <2>1. 1 \in 0..ZONE_SIZE
    BY ZoneAssumption
  <2>2. QED
    BY <1>1, <2>1, WrapOf
<1>4. (i + (n + 1)) % ZONE_SIZE =
        IF i + (n + 1) < ZONE_SIZE THEN i + (n + 1) ELSE i + (n + 1) - ZONE_SIZE
  <2>1. n + 1 \in 0..ZONE_SIZE
    BY ZoneAssumption
  <2>2. QED
    BY <2>1, WrapOf
<1> HIDE DEF j
<1>5. (j + 1) % ZONE_SIZE = (i + (n + 1)) % ZONE_SIZE
  BY <1>1, <1>2, <1>3, <1>4, ZoneAssumption DEF Place
<1>6. QED
  BY <1>5 DEF j

(* Advancing the reader takes the first of them off. *)
LEMMA WrapConsume ==
  ASSUME NEW i \in Place, NEW n \in 0..(ZONE_SIZE - 1)
  PROVE  (((i + 1) % ZONE_SIZE) + n) % ZONE_SIZE = (i + (n + 1)) % ZONE_SIZE
<1> DEFINE j == (i + 1) % ZONE_SIZE
<1>1. j \in Place
  BY WrapIsIndex, ZoneAssumption DEF Place
<1>2. j = IF i + 1 < ZONE_SIZE THEN i + 1 ELSE i + 1 - ZONE_SIZE
  <2>1. 1 \in 0..ZONE_SIZE
    BY ZoneAssumption
  <2>2. QED
    BY <2>1, WrapOf
<1>3. (j + n) % ZONE_SIZE = IF j + n < ZONE_SIZE THEN j + n ELSE j + n - ZONE_SIZE
  <2> HIDE DEF j
  <2>1. n \in 0..ZONE_SIZE
    BY ZoneAssumption
  <2>2. QED
    BY <1>1, <2>1, WrapOf
<1>4. (i + (n + 1)) % ZONE_SIZE =
        IF i + (n + 1) < ZONE_SIZE THEN i + (n + 1) ELSE i + (n + 1) - ZONE_SIZE
  <2>1. n + 1 \in 0..ZONE_SIZE
    BY ZoneAssumption
  <2>2. QED
    BY <2>1, WrapOf
<1> HIDE DEF j
<1>5. (j + n) % ZONE_SIZE = (i + (n + 1)) % ZONE_SIZE
  BY <1>1, <1>2, <1>3, <1>4, ZoneAssumption DEF Place
<1>6. QED
  BY <1>5 DEF j

(* Two places less than a turn apart are not the same. *)
LEMMA WrapApart ==
  ASSUME NEW i \in Place, NEW m \in 0..(ZONE_SIZE - 1), NEW n \in 0..(ZONE_SIZE - 1),
         m # n
  PROVE  (i + m) % ZONE_SIZE # (i + n) % ZONE_SIZE
<1>1. m \in 0..ZONE_SIZE /\ n \in 0..ZONE_SIZE
  BY ZoneAssumption
<1>2. (i + m) % ZONE_SIZE = IF i + m < ZONE_SIZE THEN i + m ELSE i + m - ZONE_SIZE
  BY <1>1, WrapOf
<1>3. (i + n) % ZONE_SIZE = IF i + n < ZONE_SIZE THEN i + n ELSE i + n - ZONE_SIZE
  BY <1>1, WrapOf
<1>4. QED
  BY <1>2, <1>3, ZoneAssumption DEF Place

-----------------------------------------------------------------------------
(* The bytes between the two places *)

LEMMA HeldFacts ==
  ASSUME NEW z \in [Place -> Byte], NEW r \in Place, NEW n \in 0..ZONE_SIZE
  PROVE  /\ Held(z, r, n) \in Seq(Byte)
         /\ Len(Held(z, r, n)) = n
         /\ \A i \in 1..n : Held(z, r, n)[i] = z[(r + (i - 1)) % ZONE_SIZE]
<1>1. ASSUME NEW i \in 1..n
      PROVE  /\ r + i - 1 = r + (i - 1)
             /\ (r + (i - 1)) % ZONE_SIZE \in Place
  <2>1. r \in Int /\ r + (i - 1) \in Int /\ r + i - 1 = r + (i - 1)
    BY ZoneAssumption DEF Place
  <2>2. QED
    BY <2>1, WrapIsIndex
<1>2. Held(z, r, n) \in [1..n -> Byte]
  BY <1>1 DEF Held
<1>3. n \in Nat
  BY ZoneAssumption
<1>4. Held(z, r, n) \in Seq(Byte)
  BY <1>2, <1>3, SeqDef
<1>5. Len(Held(z, r, n)) = n
  BY <1>3, <1>4, LenProperties DEF Held
<1>6. \A i \in 1..n : Held(z, r, n)[i] = z[(r + (i - 1)) % ZONE_SIZE]
  BY <1>1 DEF Held
<1>7. QED
  BY <1>4, <1>5, <1>6

LEMMA NothingHeld ==
  ASSUME NEW z \in [Place -> Byte], NEW r \in Place
  PROVE  Held(z, r, 0) = << >>
<1>1. 0 \in 0..ZONE_SIZE
  BY ZoneAssumption
<1>2. QED
  BY <1>1, HeldFacts, EmptySeq

(* A byte that is stored behind the others leaves them as they are. *)
LEMMA StoredBehind ==
  ASSUME NEW z \in [Place -> Byte], NEW r \in Place, NEW n \in 0..(ZONE_SIZE - 1),
         NEW b \in Byte
  PROVE  Held([z EXCEPT ![(r + n) % ZONE_SIZE] = b], r, n + 1) = Append(Held(z, r, n), b)
<1> DEFINE w == (r + n) % ZONE_SIZE
           y == [z EXCEPT ![w] = b]
           s == Held(z, r, n)
           t == Held(y, r, n + 1)
<1>1. n \in 0..ZONE_SIZE /\ n + 1 \in 0..ZONE_SIZE /\ r + n \in Int
  BY ZoneAssumption DEF Place
<1>2. w \in Place /\ y \in [Place -> Byte] /\ w = (r + n) % ZONE_SIZE /\ y[w] = b
      /\ \A i \in Place \ {w} : y[i] = z[i]
  BY <1>1, WrapIsIndex
<1>3. /\ s \in Seq(Byte) /\ Len(s) = n
      /\ \A i \in 1..n : s[i] = z[(r + (i - 1)) % ZONE_SIZE]
  BY <1>1, HeldFacts
<1> HIDE DEF w, y
<1>4. /\ t \in Seq(Byte) /\ Len(t) = n + 1
      /\ \A i \in 1..(n + 1) : t[i] = y[(r + (i - 1)) % ZONE_SIZE]
  BY <1>1, <1>2, HeldFacts
<1> HIDE DEF s, t
<1>5. /\ Append(s, b) \in Seq(Byte) /\ Len(Append(s, b)) = n + 1
      /\ \A i \in 1..n : Append(s, b)[i] = s[i]
      /\ Append(s, b)[n + 1] = b
  BY <1>3, AppendProperties
<1>6. ASSUME NEW i \in 1..(n + 1) PROVE t[i] = Append(s, b)[i]
  <2>1. CASE i = n + 1
    BY <1>1, <1>2, <1>4, <1>5, <2>1
  <2>2. CASE i # n + 1
    <3> DEFINE k == i - 1
    <3>1. i \in 1..n /\ k \in 0..(ZONE_SIZE - 1) /\ k # n /\ r + k \in Int
      BY <2>2, ZoneAssumption DEF Place
    <3> HIDE DEF k
    <3>2. (r + k) % ZONE_SIZE # w /\ (r + k) % ZONE_SIZE \in Place
      BY <1>2, <3>1, WrapApart, WrapIsIndex
    <3>3. t[i] = y[(r + k) % ZONE_SIZE] /\ s[i] = z[(r + k) % ZONE_SIZE]
      BY <1>3, <1>4, <3>1 DEF k
    <3>4. QED
      BY <1>2, <1>5, <3>1, <3>2, <3>3
  <2>3. QED
    BY <2>1, <2>2
<1>7. t = Append(s, b)
  BY <1>4, <1>5, <1>6, SeqEqual
<1>8. QED
  BY <1>7 DEF s, t, y, w

(* A byte that is loaded is the first of them. *)
LEMMA LoadedFirst ==
  ASSUME NEW z \in [Place -> Byte], NEW r \in Place, NEW n \in 0..(ZONE_SIZE - 1)
  PROVE  /\ Held(z, r, n + 1) # << >>
         /\ Head(Held(z, r, n + 1)) = z[r]
         /\ Held(z, (r + 1) % ZONE_SIZE, n) = Tail(Held(z, r, n + 1))
<1> DEFINE q == (r + 1) % ZONE_SIZE
           s == Held(z, r, n + 1)
           t == Held(z, q, n)
<1>1. n \in 0..ZONE_SIZE /\ n + 1 \in 0..ZONE_SIZE /\ r + 1 \in Int
  BY ZoneAssumption DEF Place
<1>2. q \in Place
  BY <1>1, WrapIsIndex
<1>3. /\ s \in Seq(Byte) /\ Len(s) = n + 1
      /\ \A i \in 1..(n + 1) : s[i] = z[(r + (i - 1)) % ZONE_SIZE]
  BY <1>1, HeldFacts
<1> HIDE DEF q
<1>4. /\ t \in Seq(Byte) /\ Len(t) = n
      /\ \A i \in 1..n : t[i] = z[(q + (i - 1)) % ZONE_SIZE]
  BY <1>1, <1>2, HeldFacts
<1> HIDE DEF s, t
<1>5. s # << >>
  BY <1>1, <1>3, EmptySeq
<1>6. /\ Tail(s) \in Seq(Byte) /\ Len(Tail(s)) = n
      /\ \A i \in 1..n : Tail(s)[i] = s[i + 1]
  <2>1. /\ Tail(s) \in Seq(Byte) /\ Len(Tail(s)) = Len(s) - 1
        /\ \A i \in 1..Len(Tail(s)) : Tail(s)[i] = s[i + 1]
    BY <1>3, <1>5, HeadTailProperties
  <2>2. Len(Tail(s)) = n
    BY <1>1, <1>3, <2>1
  <2>3. QED
    BY <2>1, <2>2
<1>7. ASSUME NEW i \in 1..n PROVE t[i] = Tail(s)[i]
  <2> DEFINE k == i - 1
  <2>1. k \in 0..(ZONE_SIZE - 1) /\ i + 1 \in 1..(n + 1) /\ (i + 1) - 1 = k + 1
    BY ZoneAssumption
  <2> HIDE DEF k
  <2>2. (q + k) % ZONE_SIZE = (r + (k + 1)) % ZONE_SIZE
    BY <2>1, WrapConsume DEF q
  <2>3. s[i + 1] = z[(r + (k + 1)) % ZONE_SIZE]
    BY <1>3, <2>1
  <2>4. t[i] = z[(q + k) % ZONE_SIZE]
    BY <1>4 DEF k
  <2>5. QED
    BY <1>6, <2>2, <2>3, <2>4
<1>8. t = Tail(s)
  BY <1>4, <1>6, <1>7, SeqEqual
<1>9. Head(s) = z[r]
  <2>1. 1 \in 1..(n + 1) /\ r + (1 - 1) = r
    BY ZoneAssumption DEF Place
  <2>2. r % ZONE_SIZE = r
    BY ZoneAssumption, SMT DEF Place
  <2>3. s[1] = z[r]
    BY <1>3, <2>1, <2>2
  <2>4. QED
    BY <1>3, <1>5, <2>3
<1>10. QED
  BY <1>5, <1>8, <1>9 DEF s, t, q

=============================================================================
