--------------------------- MODULE ReviseFramesProofs ---------------------------
(***************************************************************************)
(* Theorems about the frames the program chooses by itself, for timelines  *)
(* of any length, any frames seen on them and any number asked for.        *)
(***************************************************************************)
EXTENDS ReviseFramesMC, ReviseDatasets, DatasetProtocol, FiniteSetTheorems, FunctionTheorems, NumberFacts, TLAPS

OnTimeline == frameCount \in Nat /\ size \in Nat /\ seen \subseteq Timeline(frameCount)

THEOREM FramesInvariance == Spec => []OnTimeline
  <1>1. Init => OnTimeline
    BY BoundsAssumption DEF Init, OnTimeline
  <1>2. OnTimeline /\ [Next]_vars => OnTimeline'
    BY DEF OnTimeline, Next, Show, vars, Timeline
  <1> QED
    BY <1>1, <1>2, PTL DEF Spec

(* The frames of a timeline that are still to be seen.                       *)
Free(n, old) == Timeline(n) \ old

LEMMA FiniteTimeline ==
  ASSUME NEW n \in Nat, NEW old \in SUBSET Timeline(n)
  PROVE  /\ IsFiniteSet(Timeline(n)) /\ Cardinality(Timeline(n)) = n
         /\ \A S \in SUBSET Timeline(n) : IsFiniteSet(S) /\ Cardinality(S) \in Nat
         /\ Cardinality(Free(n, old)) = n - Cardinality(old)
  <1>1. IsFiniteSet(Timeline(n)) /\ Cardinality(Timeline(n)) = n
    BY FS_Interval DEF Timeline
  <1>2. \A S \in SUBSET Timeline(n) : IsFiniteSet(S) /\ Cardinality(S) \in Nat
    BY <1>1, FS_Subset, FS_CardinalityType
  <1>3. Timeline(n) \cap old = old
    OBVIOUS
  <1>4. Cardinality(Timeline(n) \ old)
          = Cardinality(Timeline(n)) - Cardinality(Timeline(n) \cap old)
    BY <1>1, FS_Difference
  <1> QED
    BY <1>1, <1>2, <1>3, <1>4 DEF Free

-------------------------------------------------------------------------------
(* Rounded quotients, and the samples they place. *)

LEMMA Scaled ==
  ASSUME NEW d \in Nat \ {0}, NEW a \in Int, NEW b \in Int
  PROVE  /\ d * a \in Int /\ d * b \in Int
         /\ d * (a + b) = d * a + d * b /\ d * (a + 1) = d * a + d
         /\ d * a <= d * b <=> a <= b
  <1>1. d * a \in Int /\ d * b \in Int /\ d * (a + b) = d * a + d * b /\ d * (a + 1) = d * a + d
    OBVIOUS
  <1>2. ASSUME NEW c \in Nat PROVE d * c \in Nat /\ (c > 0 => d * c > 0)
    OBVIOUS
  <1>3. ASSUME a <= b PROVE d * a <= d * b
    <2>1. b - a \in Nat /\ d * (b - a) = d * b - d * a
      BY <1>3
    <2> QED
      BY <1>1, <1>2, <2>1
  <1>4. ASSUME ~(a <= b) PROVE ~(d * a <= d * b)
    <2>1. a - b \in Nat /\ a - b > 0 /\ d * (a - b) = d * a - d * b
      BY <1>4
    <2>2. d * (a - b) > 0
      BY <1>2, <2>1
    <2> QED
      BY <1>1, <2>1, <2>2
  <1> QED
    BY <1>1, <1>3, <1>4

LEMMA Euclid ==
  ASSUME NEW n \in Nat, NEW d \in Nat \ {0}
  PROVE  n \div d \in Nat /\ (n % d) \in 0 .. d - 1 /\ n = d * (n \div d) + (n % d)
  OBVIOUS

(* The quotient is rounded by at most a half. *)
LEMMA RoundedByHalf ==
  ASSUME NEW n \in Nat, NEW d \in Nat \ {0}, NEW up \in BOOLEAN
  PROVE  LET r == Rounded(n, d, up)
         IN r \in Nat /\ 2 * n - d <= 2 * (d * r) /\ 2 * (d * r) <= 2 * n + d
  <1> DEFINE q == n \div d
             m == n % d
  <1>1. q \in Nat /\ m \in 0 .. d - 1 /\ n = d * q + m
    BY Euclid
  <1>2. \/ Rounded(n, d, up) = q /\ 2 * m <= d
        \/ Rounded(n, d, up) = q + 1 /\ 2 * m >= d
    BY <1>1 DEF Rounded
  <1> HIDE DEF q, m
  <1>3. d * (q + 1) = d * q + d /\ d * q \in Nat
    BY <1>1
  <1> QED
    BY <1>1, <1>2, <1>3

(* A whole quotient stays. *)
LEMMA Exact ==
  ASSUME NEW a \in Nat, NEW d \in Nat \ {0}, NEW up \in BOOLEAN
  PROVE  Rounded(d * a, d, up) = a
  <1> DEFINE r == Rounded(d * a, d, up)
  <1>0. d * a \in Nat
    OBVIOUS
  <1>1. r \in Nat /\ 2 * (d * a) - d <= 2 * (d * r) /\ 2 * (d * r) <= 2 * (d * a) + d
    BY <1>0, RoundedByHalf
  <1> HIDE DEF r
  <1>2. ~(a + 1 <= r) 
    <2>1. a + 1 <= r => d * a + d <= d * r
      BY <1>1, Scaled
    <2> QED
      BY <1>0, <1>1, <2>1, Scaled
  <1>3. ~(r + 1 <= a)
    <2>1. r + 1 <= a => d * r + d <= d * a
      BY <1>1, Scaled
    <2> QED
      BY <1>0, <1>1, <2>1, Scaled
  <1> QED
    BY <1>1, <1>2, <1>3 DEF r

(* Place i of a sample of d + 1 frames from s to s + L; up tells which halves *)
(* go up.                                                                     *)
Place(s, L, d, up, i) == Rounded(s * d + i * L, d, up[i])

(* The places start and end with the stretch, never go back, are all         *)
(* different on a stretch that has room for them and leave no frame out on   *)
(* one that has not; their steps differ by the rounding alone.               *)
LEMMA Places ==
  ASSUME NEW s \in Nat, NEW L \in Nat, NEW d \in Nat \ {0}, NEW up \in [Nat -> BOOLEAN]
  PROVE  /\ \A i \in 0 .. d : Place(s, L, d, up, i) \in s .. s + L
         /\ Place(s, L, d, up, 0) = s /\ Place(s, L, d, up, d) = s + L
         /\ \A i, j \in 0 .. d : i < j =>
              /\ Place(s, L, d, up, i) <= Place(s, L, d, up, j)
              /\ L >= d => Place(s, L, d, up, i) < Place(s, L, d, up, j)
         /\ \A i \in 0 .. d - 1 :
              L <= d => Place(s, L, d, up, i + 1) <= Place(s, L, d, up, i) + 1
         /\ \A i, j \in 0 .. d - 1 :
              Place(s, L, d, up, i + 1) - Place(s, L, d, up, i)
                <= Place(s, L, d, up, j + 1) - Place(s, L, d, up, j) + 2
  <1> DEFINE N(i) == s * d + i * L
             P(i) == Rounded(N(i), d, up[i])
  <1>0. \A i \in 0 .. d : P(i) = Place(s, L, d, up, i)
    BY DEF Place
  <1>1. s * d \in Nat /\ s * d = d * s
    OBVIOUS
  <1>2. ASSUME NEW i \in Nat
        PROVE  i * L \in Nat /\ N(i) \in Nat /\ N(i + 1) = N(i) + L
    <2>1. i * L \in Nat
      OBVIOUS
    <2>2. (i + 1) * L = i * L + L
      OBVIOUS
    <2> QED
      BY <1>1, <2>1, <2>2
  <1>3. ASSUME NEW i \in Nat
        PROVE  /\ P(i) \in Nat /\ d * P(i) \in Nat
               /\ 2 * N(i) - d <= 2 * (d * P(i)) /\ 2 * (d * P(i)) <= 2 * N(i) + d
    <2>1. N(i) \in Nat
      BY <1>2
    <2> HIDE DEF N
    <2>2. P(i) \in Nat /\ 2 * N(i) - d <= 2 * (d * P(i)) /\ 2 * (d * P(i)) <= 2 * N(i) + d
      BY <2>1, RoundedByHalf
    <2> HIDE DEF P
    <2>3. d * P(i) \in Nat
      BY <2>2
    <2> QED
      BY <2>2, <2>3
  <1>4. ASSUME NEW i \in Nat, NEW j \in Nat, i < j
        PROVE  N(i) <= N(j) /\ N(i) + L <= N(j)
    <2>1. PICK c \in Nat : j = i + 1 + c
      <3>1. j = i + 1 + (j - i - 1) /\ j - i - 1 \in Nat
        BY <1>4
      <3> QED
        BY <3>1
    <2>2. c * L \in Nat /\ j * L = i * L + L + c * L
      BY <2>1
    <2> QED
      BY <1>1, <1>2, <2>2
  <1>5. N(0) = d * s /\ N(d) = d * (s + L)
    OBVIOUS
  <1>6. P(0) = s /\ P(d) = s + L
    BY <1>5, Exact
  <1>70. ASSUME NEW i \in Nat, NEW j \in Nat, i < j, N(i) = N(j)
         PROVE  L = 0 /\ P(i) = s /\ P(j) = s
    <2>1. L = 0
      <3>1. N(i) \in Nat /\ N(i) + L <= N(j)
        BY <1>2, <1>4, <1>70
      <3> HIDE DEF N
      <3> QED
        BY <1>70, <3>1
    <2>2. N(i) = d * s /\ N(j) = d * s
      <3>1. i * 0 = 0 /\ j * 0 = 0
        OBVIOUS
      <3> QED
        BY <1>1, <2>1, <3>1
    <2> HIDE DEF N
    <2>3. up[i] \in BOOLEAN /\ up[j] \in BOOLEAN
      OBVIOUS
    <2> QED
      BY <2>1, <2>2, <2>3, Exact
  <1> HIDE DEF N, P
  <1>7. ASSUME NEW i \in Nat, NEW j \in Nat, i < j
        PROVE  P(i) <= P(j) /\ (L > d => P(i) < P(j))
    <2>1. CASE N(i) = N(j)
      <3>1. L = 0 /\ P(i) = s /\ P(j) = s
        BY <1>7, <1>70, <2>1
      <3> QED
        BY <3>1
    <2>2. CASE N(i) # N(j)
      <3>0. N(i) \in Nat /\ N(j) \in Nat /\ N(i) <= N(j)
        BY <1>2, <1>4, <1>7
      <3>1. N(i) < N(j)
        BY <2>2, <3>0
      <3>2. ~(P(j) + 1 <= P(i))
        <4>1. P(j) + 1 <= P(i) => d * P(j) + d <= d * P(i)
          BY <1>3, Scaled
        <4> QED
          BY <1>2, <1>3, <3>1, <4>1
      <3>3. L > d => ~(P(j) <= P(i))
        <4>1. P(j) <= P(i) => d * P(j) <= d * P(i)
          BY <1>3, Scaled
        <4> QED
          BY <1>2, <1>3, <1>4, <1>7, <4>1
      <3> QED
        BY <1>3, <3>2, <3>3
    <2> QED
      BY <2>1, <2>2
  <1>8. ASSUME L = d, NEW i \in Nat PROVE P(i) = s + i
    <2>1. N(i) = d * (s + i)
      BY <1>8 DEF N
    <2> QED
      BY <2>1, Exact DEF P
  <1>9. ASSUME NEW i \in Nat, L < d PROVE P(i + 1) <= P(i) + 1
    <2>1. P(i) + 1 + 1 <= P(i + 1) => d * P(i) + d + d <= d * P(i + 1)
      <3>1. d * (P(i) + 1 + 1) = d * P(i) + d + d
        BY <1>3, Scaled
      <3> QED
        BY <1>3, <3>1, Scaled
    <2>2. /\ N(i + 1) = N(i) + L /\ N(i) \in Nat
          /\ d * P(i + 1) \in Nat /\ 2 * (d * P(i + 1)) <= 2 * N(i + 1) + d
          /\ d * P(i) \in Nat /\ 2 * N(i) - d <= 2 * (d * P(i))
          /\ P(i) \in Nat /\ P(i + 1) \in Nat
      <3>1. i + 1 \in Nat
        OBVIOUS
      <3> QED
        BY <1>2, <1>3, <3>1
    <2>3. ~(P(i) + 1 + 1 <= P(i + 1))
      BY <1>9, <2>1, <2>2
    <2> QED
      BY <2>2, <2>3
  <1>10. ASSUME NEW i \in Nat, NEW j \in Nat PROVE P(i + 1) - P(i) <= P(j + 1) - P(j) + 2
    <2> DEFINE u == P(i + 1) + P(j)
               v == P(j + 1) + P(i)
    <2>0. u \in Nat /\ v \in Nat
      BY <1>3
    <2>1. d * u = d * P(i + 1) + d * P(j) /\ d * v = d * P(j + 1) + d * P(i)
      BY <1>3, Scaled
    <2>2. d * u <= d * v + d + d
      BY <1>2, <1>3, <2>1
    <2> HIDE DEF u, v
    <2>3. d * (v + 1 + 1) = d * v + d + d
      BY <2>0, Scaled
    <2>4. u <= v + 1 + 1
      BY <2>0, <2>2, <2>3, Scaled
    <2> QED
      BY <1>3, <2>4 DEF u, v
  <1>11. ASSUME NEW i \in 0 .. d PROVE P(i) \in s .. s + L
    <2>1. CASE i = 0
      BY <1>6, <2>1
    <2>2. CASE i = d
      BY <1>6, <2>2
    <2>3. CASE 0 < i /\ i < d
      <3>1. P(0) <= P(i) /\ P(i) <= P(d)
        BY <1>7, <2>3
      <3> QED
        BY <1>3, <1>6, <3>1
    <2> QED
      BY <2>1, <2>2, <2>3
  <1>12. ASSUME NEW i \in 0 .. d, NEW j \in 0 .. d, i < j
         PROVE  P(i) <= P(j) /\ (L >= d => P(i) < P(j))
    <2>1. i \in Nat /\ j \in Nat
      OBVIOUS
    <2>2. L = d => P(i) = s + i /\ P(j) = s + j
      BY <1>8, <2>1
    <2> QED
      BY <1>7, <1>12, <2>1, <2>2
  <1>13. ASSUME NEW i \in 0 .. d - 1, L <= d PROVE P(i + 1) <= P(i) + 1
    <2>1. i \in Nat /\ i + 1 \in Nat
      OBVIOUS
    <2>2. L = d => P(i) = s + i /\ P(i + 1) = s + (i + 1)
      BY <1>8, <2>1
    <2> QED
      BY <1>9, <1>13, <2>1, <2>2
  <1>14. 0 \in 0 .. d /\ d \in 0 .. d /\ \A i \in 0 .. d - 1 : i \in Nat /\ i \in 0 .. d /\ i + 1 \in 0 .. d
    OBVIOUS
  <1>15. \A i, j \in 0 .. d - 1 :
           Place(s, L, d, up, i + 1) - Place(s, L, d, up, i)
             <= Place(s, L, d, up, j + 1) - Place(s, L, d, up, j) + 2
    BY <1>0, <1>10, <1>14
  <1>16. \A i \in 0 .. d - 1 : L <= d => Place(s, L, d, up, i + 1) <= Place(s, L, d, up, i) + 1
    BY <1>0, <1>13, <1>14
  <1> QED
    BY <1>0, <1>6, <1>11, <1>12, <1>14, <1>15, <1>16

(* A sample of d + 1 frames from s to s + L. *)
Spread(s, L, d, up) == {Place(s, L, d, up, i) : i \in 0 .. d}

(* On a stretch with room for every place, neighbours are adjacent places.   *)
LEMMA AdjacentPlaces ==
  ASSUME NEW s \in Nat, NEW L \in Nat, NEW d \in Nat \ {0}, L >= d,
         NEW up \in [Nat -> BOOLEAN], NEW G \in Neighbours(Spread(s, L, d, up))
  PROVE  \E i \in 0 .. d - 1 : G[1] = Place(s, L, d, up, i) /\ G[2] = Place(s, L, d, up, i + 1)
  <1> DEFINE P(i) == Place(s, L, d, up, i)
  <1>1. /\ \A i \in 0 .. d : P(i) \in Int
        /\ \A i, j \in 0 .. d : i < j => P(i) < P(j)
    <2>1. \A i \in 0 .. d : P(i) \in s .. s + L
      BY Places
    <2>2. \A i \in 0 .. d : P(i) \in Int
      BY <2>1
    <2>3. \A i, j \in 0 .. d : i < j => P(i) < P(j)
      BY Places
    <2> QED
      BY <2>2, <2>3
  <1>2. /\ G[1] \in Spread(s, L, d, up) /\ G[2] \in Spread(s, L, d, up) /\ G[1] < G[2]
        /\ \A f \in Spread(s, L, d, up) : f <= G[1] \/ f >= G[2]
    BY DEF Neighbours
  <1>3. PICK i \in 0 .. d : G[1] = P(i)
    BY <1>2 DEF Spread
  <1>4. PICK j \in 0 .. d : G[2] = P(j)
    BY <1>2 DEF Spread
  <1>5. \A m \in 0 .. d : P(m) <= P(i) \/ P(m) >= P(j)
    BY <1>2, <1>3, <1>4 DEF Spread
  <1> HIDE DEF P
  <1>6. i < j
    <2>1. i = j \/ j < i => ~(P(i) < P(j))
      BY <1>1
    <2> QED
      BY <1>2, <1>3, <1>4, <2>1
  <1>7. i + 1 \in 0 .. d /\ i \in 0 .. d - 1
    BY <1>6
  <1>8. i + 1 = j
    <2>1. P(i) < P(i + 1)
      BY <1>1, <1>7
    <2>2. i + 1 < j => P(i + 1) < P(j)
      BY <1>1, <1>7
    <2>3. ~(i + 1 < j)
      BY <1>1, <1>5, <1>7, <2>1, <2>2
    <2> QED
      BY <1>6, <2>3
  <1> QED
    BY <1>3, <1>4, <1>7, <1>8 DEF P

(* On a stretch without, the places are all of it. *)
LEMMA CrowdedPlaces ==
  ASSUME NEW s \in Nat, NEW L \in Nat, NEW d \in Nat \ {0}, L <= d,
         NEW up \in [Nat -> BOOLEAN]
  PROVE  Spread(s, L, d, up) = s .. s + L
  <1> DEFINE P(i) == Place(s, L, d, up, i)
  <1>1. /\ \A i \in 0 .. d : P(i) \in s .. s + L
        /\ P(0) = s /\ P(d) = s + L
        /\ \A i \in 0 .. d - 1 : P(i + 1) <= P(i) + 1
    BY Places
  <1> HIDE DEF P
  <1>2. ASSUME NEW f \in s .. s + L PROVE \E i \in 0 .. d : P(i) = f
    <2> DEFINE A == {i \in 0 .. d : P(i) >= f}
    <2>1. d \in A /\ A \in SUBSET Nat
      BY <1>1
    <2>2. PICK i \in A : \A j \in A : i <= j
      BY <2>1, LeastNumber
    <2>3. CASE i = 0
      <3>1. P(0) >= f /\ f >= s /\ s \in Nat /\ f \in Int
        BY <2>2, <2>3
      <3>2. P(0) = f
        BY <1>1, <3>1
      <3> QED
        BY <3>2, <2>3
    <2>4. CASE i > 0
      <3>1. i - 1 \in 0 .. d - 1 /\ i - 1 \in 0 .. d /\ i - 1 + 1 = i /\ i \in 0 .. d
        BY <2>4
      <3>2. i - 1 \notin A
        BY <2>2, <3>1
      <3>3. P(i - 1) < f /\ P(i - 1) \in Int /\ P(i) \in Int
        BY <1>1, <3>1, <3>2
      <3>4. P(i) <= P(i - 1) + 1
        BY <1>1, <3>1
      <3>5. P(i) = f
        BY <3>3, <3>4
      <3> QED
        BY <3>1, <3>5
    <2>5. i \in 0 .. d
      BY <2>2
    <2> HIDE DEF A
    <2> QED
      BY <2>3, <2>4, <2>5
  <1>3. \A f : f \in Spread(s, L, d, up) <=> f \in s .. s + L
    BY <1>1, <1>2 DEF Spread, P
  <1> QED
    BY <1>3

LEMMA IntervalSize ==
  ASSUME NEW s \in Nat, NEW L \in Nat
  PROVE  IsFiniteSet(s .. s + L) /\ Cardinality(s .. s + L) = L + 1
  <1> DEFINE last == s + L
  <1>1. last \in Int /\ ~(s > last)
    OBVIOUS
  <1> HIDE DEF last
  <1>2. IsFiniteSet(s .. last) /\ Cardinality(s .. last) = IF s > last THEN 0 ELSE last - s + 1
    BY <1>1, FS_Interval
  <1> QED
    BY <1>1, <1>2 DEF last

LEMMA Spreading ==
  ASSUME NEW s \in Nat, NEW L \in Nat, NEW d \in Nat \ {0}, NEW up \in [Nat -> BOOLEAN]
  PROVE  LET sample == Spread(s, L, d, up)
         IN /\ sample \in SUBSET (s .. s + L) /\ {s, s + L} \subseteq sample
            /\ IsFiniteSet(sample) /\ Cardinality(sample) = Least(d + 1, L + 1)
            /\ \A G, H \in Neighbours(sample) : G[2] - G[1] <= H[2] - H[1] + 2
  <1> DEFINE P(i) == Place(s, L, d, up, i)
             sample == Spread(s, L, d, up)
  <1>0. sample = {P(i) : i \in 0 .. d}
    BY DEF Spread
  <1>1. /\ \A i \in 0 .. d : P(i) \in s .. s + L
        /\ P(0) = s /\ P(d) = s + L
        /\ \A i, j \in 0 .. d - 1 : P(i + 1) - P(i) <= P(j + 1) - P(j) + 2
    BY Places
  <1>2. sample \in SUBSET (s .. s + L) /\ {s, s + L} \subseteq sample
    <2>1. 0 \in 0 .. d /\ d \in 0 .. d
      OBVIOUS
    <2> HIDE DEF P, sample
    <2> QED
      BY <1>0, <1>1, <2>1
  <1>3. IsFiniteSet(sample) /\ Cardinality(sample) = Least(d + 1, L + 1)
    <2>1. CASE L <= d
      <3>1. sample = s .. s + L
        BY <2>1, CrowdedPlaces
      <3>2. Least(d + 1, L + 1) = L + 1
        BY <2>1 DEF Least
      <3> QED
        BY <3>1, <3>2, IntervalSize
    <2>2. CASE L > d
      <3> DEFINE f == [i \in 0 .. d |-> P(i)]
      <3>1. \A i, j \in 0 .. d : i < j => P(i) < P(j)
        BY <2>2, Places
      <3>2. ASSUME NEW i \in 0 .. d, NEW j \in 0 .. d, f[i] = f[j] PROVE i = j
        <4>1. P(i) = P(j) /\ P(i) \in Int
          BY <1>1, <3>2
        <4> HIDE DEF P
        <4>2. i < j \/ j < i \/ i = j
          OBVIOUS
        <4> QED
          BY <3>1, <4>1, <4>2
      <3> HIDE DEF P, sample
      <3>3. f \in Bijection(0 .. d, sample)
        BY <1>0, <3>2, Fun_IsBij
      <3>4. IsFiniteSet(0 .. d) /\ Cardinality(0 .. d) = d + 1
        BY IntervalSize
      <3>5. IsFiniteSet(sample)
        BY <1>2, FS_Subset, IntervalSize
      <3>6. ExistsBijection(0 .. d, sample)
        BY <3>3 DEF ExistsBijection
      <3>7. Cardinality(sample) = Cardinality(0 .. d)
        BY <3>4, <3>5, <3>6, FS_Bijection
      <3>8. Least(d + 1, L + 1) = d + 1
        BY <2>2 DEF Least
      <3> QED
        BY <3>4, <3>5, <3>7, <3>8
    <2> QED
      BY <2>1, <2>2
  <1>4. ASSUME NEW G \in Neighbours(sample), NEW H \in Neighbours(sample)
        PROVE  G[2] - G[1] <= H[2] - H[1] + 2
    <2>1. CASE L <= d
      <3>1. sample = s .. s + L
        BY <2>1, CrowdedPlaces
      <3> HIDE DEF sample
      <3>2. \A K \in Neighbours(sample) :
              K[1] \in s .. s + L /\ K[2] \in s .. s + L /\ K[2] = K[1] + 1
        <4> SUFFICES ASSUME NEW K \in Neighbours(sample)
                     PROVE  K[1] \in s .. s + L /\ K[2] \in s .. s + L /\ K[2] = K[1] + 1
          OBVIOUS
        <4>1. /\ K[1] \in s .. s + L /\ K[2] \in s .. s + L /\ K[1] < K[2]
              /\ \A f \in s .. s + L : f <= K[1] \/ f >= K[2]
          BY <3>1 DEF Neighbours
        <4>2. K[1] + 1 \in s .. s + L
          BY <4>1
        <4> QED
          BY <4>1, <4>2
      <3> QED
        BY <3>2
    <2>2. CASE L > d
      <3>1. PICK i \in 0 .. d - 1 : G[1] = P(i) /\ G[2] = P(i + 1)
        BY <2>2, AdjacentPlaces
      <3>2. PICK j \in 0 .. d - 1 : H[1] = P(j) /\ H[2] = P(j + 1)
        BY <2>2, AdjacentPlaces
      <3> QED
        BY <1>1, <3>1, <3>2
    <2> QED
      BY <2>1, <2>2
  <1> QED
    BY <1>2, <1>3, <1>4

(* The uniform sampler, from two frames on.                                  *)
Evens(n, d) == [i \in Nat |-> ((i * n) \div d) % 2 = 1]

LEMMA UniformIsSpread ==
  ASSUME NEW n \in Nat \ {0}, NEW k \in Nat, k >= 2
  PROVE  SampleUniform(n, k) = Spread(0, n - 1, k - 1, Evens(n - 1, k - 1))
  <1> DEFINE up == Evens(n - 1, k - 1)
  <1>1. SampleUniform(n, k) = {RoundHalfEven(i * (n - 1), k - 1) : i \in 0 .. k - 1}
    <2>1. ~(k <= 0) /\ ~(n <= 0) /\ k # 1
      OBVIOUS
    <2> QED
      BY <2>1 DEF SampleUniform
  <1>2. ASSUME NEW i \in 0 .. k - 1
        PROVE  Place(0, n - 1, k - 1, up, i) = RoundHalfEven(i * (n - 1), k - 1)
    <2>1. 0 * (k - 1) + i * (n - 1) = i * (n - 1)
      OBVIOUS
    <2>2. up[i] = (((i * (n - 1)) \div (k - 1)) % 2 = 1)
      BY DEF Evens
    <2> HIDE DEF up
    <2> QED
      BY <2>1, <2>2 DEF Place, RoundHalfEven
  <1> QED
    BY <1>1, <1>2 DEF Spread

LEMMA EvensAre == \A n, d : Evens(n, d) \in [Nat -> BOOLEAN]
  BY DEF Evens

(* A window's sample, whichever halves went up.                              *)
LEMMA WindowIsSpread ==
  ASSUME NEW s \in Nat, NEW end \in Nat, s <= end, NEW k \in Nat, k >= 2,
         NEW window \in SampleWindows(s, end, k)
  PROVE  \E up \in [Nat -> BOOLEAN] : window = Spread(s, end - s, k - 1, up)
  <1>1. ~(k <= 0 \/ end < s) /\ k # 1
    OBVIOUS
  <1>2. PICK ups \in SUBSET HalfWay(s, end, k) :
          window = {Rounded(s * (k - 1) + i * (end - s), k - 1, i \in ups) : i \in 0 .. k - 1}
    BY <1>1 DEF SampleWindows
  <1> DEFINE up == [i \in Nat |-> i \in ups]
  <1>3. up \in [Nat -> BOOLEAN]
    OBVIOUS
  <1>4. ASSUME NEW i \in 0 .. k - 1
        PROVE  Place(s, end - s, k - 1, up, i)
                 = Rounded(s * (k - 1) + i * (end - s), k - 1, i \in ups)
    <2>1. up[i] = (i \in ups)
      OBVIOUS
    <2> HIDE DEF up
    <2> QED
      BY <2>1 DEF Place
  <1> HIDE DEF up
  <1>5. window = Spread(s, end - s, k - 1, up)
    BY <1>2, <1>4 DEF Spread
  <1> QED
    BY <1>3, <1>5

(* Whatever the halves, moving a place by s frames moves it by s, give or    *)
(* take one.                                                                 *)
LEMMA MovedPlace ==
  ASSUME NEW s \in Nat, NEW n \in Nat, NEW d \in Nat \ {0}, NEW u \in BOOLEAN, NEW v \in BOOLEAN
  PROVE  Rounded(s * d + n, d, u) - s \in Rounded(n, d, v) - 1 .. Rounded(n, d, v) + 1
  <1> DEFINE f == Rounded(s * d + n, d, u)
             g == Rounded(n, d, v)
             N == s * d + n
             h == s + g
  <1>1. N \in Nat /\ s * d = d * s /\ d * s \in Nat
    OBVIOUS
  <1>2. g \in Nat /\ 2 * n - d <= 2 * (d * g) /\ 2 * (d * g) <= 2 * n + d
    BY RoundedByHalf
  <1>3. f \in Nat /\ 2 * N - d <= 2 * (d * f) /\ 2 * (d * f) <= 2 * N + d
    <2> HIDE DEF N
    <2>1. LET r == Rounded(N, d, u)
          IN r \in Nat /\ 2 * N - d <= 2 * (d * r) /\ 2 * (d * r) <= 2 * N + d
      BY <1>1, RoundedByHalf
    <2> QED
      BY <2>1 DEF N
  <1> HIDE DEF f, g
  <1>4. h \in Nat /\ d * h = d * s + d * g /\ d * g \in Nat /\ d * f \in Nat
    BY <1>2, <1>3
  <1>5. d * f <= d * h + d /\ d * h <= d * f + d
    BY <1>1, <1>2, <1>3, <1>4
  <1> HIDE DEF h, N
  <1>6. d * (h + 1) = d * h + d /\ d * (f + 1) = d * f + d
    BY <1>3, <1>4, Scaled
  <1>7. f <= h + 1 /\ h <= f + 1
    <2>1. h + 1 \in Int /\ f + 1 \in Int /\ h \in Int /\ f \in Int
      BY <1>3, <1>4
    <2> QED
      BY <1>5, <1>6, <2>1, Scaled
  <1> QED
    BY <1>2, <1>3, <1>7 DEF f, g, h

(* Any size: on the timeline, and as many frames as there can be.            *)
LEMMA UniformSample ==
  ASSUME NEW n \in Nat \ {0}, NEW k \in Nat
  PROVE  LET sample == SampleUniform(n, k)
         IN /\ sample \in SUBSET Timeline(n) /\ IsFiniteSet(sample)
            /\ Cardinality(sample) = Least(k, n)
            /\ k >= 2 => {0, n - 1} \subseteq sample
            /\ \A G, H \in Neighbours(sample) : G[2] - G[1] <= H[2] - H[1] + 2
  <1>1. CASE k = 0
    <2>1. SampleUniform(n, k) = {}
      BY <1>1 DEF SampleUniform
    <2>2. Neighbours({}) = {} /\ Least(0, n) = 0
      BY DEF Neighbours, Least
    <2> QED
      BY <1>1, <2>1, <2>2, FS_EmptySet
  <1>2. CASE k = 1
    <2> DEFINE m == n \div 2
    <2>0. m \in 0 .. n - 1
      OBVIOUS
    <2>1. SampleUniform(n, k) = {m}
      <3>1. ~(k <= 0) /\ ~(n <= 0)
        BY <1>2
      <3> QED
        BY <1>2, <3>1 DEF SampleUniform
    <2> HIDE DEF m
    <2>2. IsFiniteSet({m}) /\ Cardinality({m}) = 1
      BY FS_Singleton
    <2>4. Least(1, n) = 1
      BY DEF Least
    <2>3. Neighbours({m}) = {}
      BY <2>0 DEF Neighbours
    <2> QED
      BY <1>2, <2>0, <2>1, <2>2, <2>3, <2>4 DEF Timeline
  <1>3. CASE k >= 2
    <2> DEFINE d == k - 1
               L == n - 1
    <2>1. d \in Nat \ {0} /\ L \in Nat /\ d + 1 = k /\ L + 1 = n /\ 0 + L = L
      BY <1>3
    <2> DEFINE up == Evens(L, d)
    <2>2. SampleUniform(n, k) = Spread(0, L, d, up) /\ up \in [Nat -> BOOLEAN]
      BY <1>3, UniformIsSpread, EvensAre
    <2>3. Timeline(n) = 0 .. 0 + L
      BY <2>1 DEF Timeline
    <2>4. n - 1 = L
      OBVIOUS
    <2> HIDE DEF d, L, up
    <2>5. LET sample == Spread(0, L, d, up)
          IN /\ sample \in SUBSET (0 .. 0 + L) /\ {0, 0 + L} \subseteq sample
             /\ IsFiniteSet(sample) /\ Cardinality(sample) = Least(d + 1, L + 1)
             /\ \A G, H \in Neighbours(sample) : G[2] - G[1] <= H[2] - H[1] + 2
      BY <2>1, <2>2, Spreading
    <2> QED
      BY <2>1, <2>2, <2>3, <2>4, <2>5
  <1> QED
    BY <1>1, <1>2, <1>3

LEMMA WindowSample ==
  ASSUME NEW s \in Nat, NEW end \in Nat, s <= end, NEW k \in Nat,
         NEW window \in SampleWindows(s, end, k)
  PROVE  /\ window \in SUBSET (s .. end) /\ IsFiniteSet(window)
         /\ Cardinality(window) = Least(k, end - s + 1)
         /\ k >= 2 => {s, end} \subseteq window
         /\ k >= 2 => \A G, H \in Neighbours(window) : G[2] - G[1] <= H[2] - H[1] + 2
  <1>1. CASE k = 0
    <2>1. window = {}
      BY <1>1 DEF SampleWindows
    <2>2. Least(0, end - s + 1) = 0
      BY DEF Least
    <2> QED
      BY <1>1, <2>1, <2>2, FS_EmptySet
  <1>2. CASE k = 1
    <2>1. window = {s}
      <3>1. ~(k <= 0 \/ end < s)
        BY <1>2
      <3> QED
        BY <1>2, <3>1 DEF SampleWindows
    <2>2. IsFiniteSet({s}) /\ Cardinality({s}) = 1
      BY FS_Singleton
    <2>3. Least(1, end - s + 1) = 1
      BY DEF Least
    <2> QED
      BY <1>2, <2>1, <2>2, <2>3
  <1>3. CASE k >= 2
    <2> DEFINE d == k - 1
               L == end - s
    <2>1. d \in Nat \ {0} /\ L \in Nat /\ d + 1 = k /\ s + L = end /\ end - s + 1 = L + 1
      BY <1>3
    <2>2. PICK up \in [Nat -> BOOLEAN] : window = Spread(s, L, d, up)
      BY <1>3, WindowIsSpread
    <2> HIDE DEF d, L
    <2>3. LET sample == Spread(s, L, d, up)
          IN /\ sample \in SUBSET (s .. s + L) /\ {s, s + L} \subseteq sample
             /\ IsFiniteSet(sample) /\ Cardinality(sample) = Least(d + 1, L + 1)
             /\ \A G, H \in Neighbours(sample) : G[2] - G[1] <= H[2] - H[1] + 2
      BY <2>1, Spreading
    <2> QED
      BY <2>1, <2>2, <2>3
  <1> QED
    BY <1>1, <1>2, <1>3

LEMMA WindowNearUniform ==
  ASSUME NEW s \in Nat, NEW n \in Nat \ {0}, NEW k \in Nat, k >= 2,
         NEW window \in SampleWindows(s, s + n - 1, k), NEW f \in window
  PROVE  \E g \in SampleUniform(n, k) : f - s \in g - 1 .. g + 1
  <1> DEFINE L == n - 1
             d == k - 1
             ev == Evens(L, d)
  <1>1. /\ s <= s + n - 1 /\ s + n - 1 \in Nat /\ s + n - 1 - s = L /\ L \in Nat
        /\ d \in Nat \ {0}
    OBVIOUS
  <1>2. PICK up \in [Nat -> BOOLEAN] : window = Spread(s, L, d, up)
    BY <1>1, WindowIsSpread
  <1>3. SampleUniform(n, k) = Spread(0, L, d, ev) /\ ev \in [Nat -> BOOLEAN]
    BY UniformIsSpread, EvensAre
  <1> HIDE DEF L, d, ev
  <1>4. PICK i \in 0 .. d : f = Place(s, L, d, up, i)
    BY <1>2 DEF Spread
  <1> DEFINE m == i * L
  <1>5. /\ i \in Nat /\ m \in Nat /\ 0 * d + m = m
        /\ up[i] \in BOOLEAN /\ ev[i] \in BOOLEAN
    BY <1>1, <1>3
  <1>6. f = Rounded(s * d + m, d, up[i]) /\ Place(0, L, d, ev, i) = Rounded(0 * d + m, d, ev[i])
    BY <1>4 DEF Place
  <1> HIDE DEF m
  <1>7. f - s \in Place(0, L, d, ev, i) - 1 .. Place(0, L, d, ev, i) + 1
    BY <1>1, <1>5, <1>6, MovedPlace
  <1> QED
    BY <1>3, <1>7 DEF Spread

(* On a timeline of any length, a sample of any size lies on it, has as many *)
(* frames as there can be and both ends, and its gaps are even.              *)
THEOREM SamplesAreEven == Spec => []UniformCoversTimeline
  <1>1. ASSUME OnTimeline PROVE UniformCoversTimeline
    <2>1. CASE frameCount > 0
      BY <1>1, <2>1, UniformSample DEF OnTimeline, UniformCoversTimeline
    <2>2. CASE ~(frameCount > 0)
      BY <2>2 DEF UniformCoversTimeline
    <2> QED
      BY <2>1, <2>2
  <1> QED
    BY <1>1, FramesInvariance, PTL

(* Windows of any length, with whatever halves the floating-point step has   *)
(* turned, are sampled as evenly, ends included, and at most one frame away  *)
(* from the uniform sampler.                                                 *)
THEOREM WindowsAreCovered == Spec => []WindowCovered
  <1>1. ASSUME OnTimeline PROVE WindowCovered
    <2> SUFFICES ASSUME NEW start \in 0 .. 2, frameCount > 0, size >= 2,
                        NEW window \in SampleWindows(start, start + frameCount - 1, size)
                 PROVE  /\ window \subseteq start .. start + frameCount - 1
                        /\ {start, start + frameCount - 1} \subseteq window
                        /\ Cardinality(window) = Least(size, frameCount)
                        /\ \A G, H \in Neighbours(window) : G[2] - G[1] <= H[2] - H[1] + 2
                        /\ \A f \in window : \E g \in SampleUniform(frameCount, size) :
                             f - start \in g - 1 .. g + 1
      BY DEF WindowCovered
    <2> DEFINE end == start + frameCount - 1
    <2>1. /\ start \in Nat /\ end \in Nat /\ start <= end /\ end - start + 1 = frameCount
          /\ size \in Nat /\ frameCount \in Nat \ {0}
      BY <1>1 DEF OnTimeline
    <2>2. \A f \in window : \E g \in SampleUniform(frameCount, size) : f - start \in g - 1 .. g + 1
      BY <2>1, WindowNearUniform
    <2>3. window \in SampleWindows(start, end, size)
      OBVIOUS
    <2> HIDE DEF end
    <2>4. /\ window \in SUBSET (start .. end) /\ {start, end} \subseteq window
          /\ Cardinality(window) = Least(size, end - start + 1)
          /\ \A G, H \in Neighbours(window) : G[2] - G[1] <= H[2] - H[1] + 2
      BY <2>1, <2>3, WindowSample
    <2> QED
      BY <2>1, <2>2, <2>4 DEF end
  <1> QED
    BY <1>1, FramesInvariance, PTL

-------------------------------------------------------------------------------
(* The longest gaps. *)

Before(H, gaps) == {J \in gaps : GapBefore(J, H)}
Longest(k, gaps) == {H \in gaps : Cardinality(Before(H, gaps)) < k}

(* The order of the gaps is total: the one before has fewer before it.       *)
LEMMA FewerBefore ==
  ASSUME NEW gaps \in SUBSET (Int \X Int), IsFiniteSet(gaps),
         NEW J \in gaps, NEW H \in gaps, GapBefore(J, H)
  PROVE  /\ Cardinality(Before(J, gaps)) \in Nat /\ Cardinality(Before(H, gaps)) \in Nat
         /\ Cardinality(Before(J, gaps)) < Cardinality(Before(H, gaps))
  <1>1. J[1] \in Int /\ J[2] \in Int /\ H[1] \in Int /\ H[2] \in Int
    OBVIOUS
  <1>2. ASSUME NEW K \in gaps, GapBefore(K, J) PROVE GapBefore(K, H)
    <2>1. K[1] \in Int /\ K[2] \in Int
      OBVIOUS
    <2> QED
      BY <1>1, <1>2, <2>1 DEF GapBefore
  <1>3. ~GapBefore(J, J)
    BY <1>1 DEF GapBefore
  <1>4. Before(J, gaps) \in SUBSET Before(H, gaps) /\ Before(J, gaps) # Before(H, gaps)
    BY <1>2, <1>3 DEF Before
  <1>5. IsFiniteSet(Before(H, gaps)) /\ IsFiniteSet(Before(J, gaps))
    BY FS_Subset DEF Before
  <1>6. /\ Cardinality(Before(J, gaps)) <= Cardinality(Before(H, gaps))
        /\ Cardinality(Before(J, gaps)) # Cardinality(Before(H, gaps))
    BY <1>4, <1>5, FS_Subset
  <1> QED
    BY <1>5, <1>6, FS_CardinalityType

LEMMA OneBefore ==
  ASSUME NEW gaps \in SUBSET (Int \X Int), NEW J \in gaps, NEW H \in gaps, J # H
  PROVE  GapBefore(J, H) \/ GapBefore(H, J)
  <1>1. J[1] \in Int /\ J[2] \in Int /\ H[1] \in Int /\ H[2] \in Int
    OBVIOUS
  <1>2. J[1] # H[1] \/ J[2] # H[2]
    <2>1. J = <<J[1], J[2]>> /\ H = <<H[1], H[2]>>
      OBVIOUS
    <2> QED
      BY <2>1
  <1> QED
    BY <1>1, <1>2 DEF GapBefore

(* There are as many of the k longest as can be.                             *)
LEMMA LongestCount ==
  ASSUME NEW gaps \in SUBSET (Int \X Int), IsFiniteSet(gaps), NEW k \in Nat
  PROVE  /\ IsFiniteSet(Longest(k, gaps)) /\ Longest(k, gaps) \in SUBSET gaps
         /\ Cardinality(Longest(k, gaps)) = Least(k, Cardinality(gaps))
  <1> DEFINE n == Cardinality(gaps)
             N == 0 .. n - 1
             place == [H \in gaps |-> Cardinality(Before(H, gaps))]
  <1>1. n \in Nat
    BY FS_CardinalityType
  <1>2. ASSUME NEW H \in gaps PROVE place[H] \in N
    <2>1. Before(H, gaps) \in SUBSET (gaps \ {H})
      <3>1. H[1] \in Int /\ H[2] \in Int
        OBVIOUS
      <3>2. ~GapBefore(H, H)
        BY <3>1 DEF GapBefore
      <3> QED
        BY <3>2 DEF Before
    <2>2. IsFiniteSet(gaps \ {H}) /\ Cardinality(gaps \ {H}) = n - 1
      BY FS_RemoveElement
    <2>3. Cardinality(Before(H, gaps)) <= n - 1 /\ Cardinality(Before(H, gaps)) \in Nat
      BY <2>1, <2>2, FS_Subset, FS_CardinalityType
    <2> QED
      BY <1>1, <2>3
  <1>3. ASSUME NEW J \in gaps, NEW H \in gaps, place[J] = place[H] PROVE J = H
    <2>1. ~GapBefore(J, H) /\ ~GapBefore(H, J)
      BY <1>3, FewerBefore
    <2> QED
      BY <2>1, OneBefore
  <1>4. place \in Injection(gaps, N)
    BY <1>2, <1>3, Fun_IsInj
  <1>5. IsFiniteSet(N) /\ Cardinality(N) = n
    <2> DEFINE last == n - 1
    <2>0. last \in Int /\ N = 0 .. last
      BY <1>1
    <2> HIDE DEF n, N, last
    <2>1. IsFiniteSet(N) /\ Cardinality(N) = IF 0 > last THEN 0 ELSE last - 0 + 1
      BY <2>0, FS_Interval
    <2> USE DEF last
    <2> QED
      BY <1>1, <2>1
  <1>6. place \in Surjection(gaps, N)
    <2> HIDE DEF N, place
    <2> QED
      BY <1>4, <1>5, FS_Injection
  <1> DEFINE top == Longest(k, gaps)
             first == 0 .. Least(k, n) - 1
             f == [H \in top |-> place[H]]
  <1>7. Least(k, n) \in Nat
    BY <1>1 DEF Least
  <1>8. \A i \in N : i < k <=> i \in first
    BY <1>1 DEF Least
  <1>9. first \subseteq N
    BY <1>1 DEF Least
  <1>10. top \in SUBSET gaps /\ \A H \in gaps : H \in top <=> place[H] < k
    BY DEF Longest
  <1>11. \A i \in N : \E H \in gaps : place[H] = i
    <2> HIDE DEF N, place
    <2> QED
      BY <1>6 DEF Surjection
  <1>12. IsFiniteSet(first) /\ Cardinality(first) = Least(k, n)
    <2> DEFINE last == Least(k, n) - 1
    <2>1. last \in Int
      BY <1>7
    <2> HIDE DEF last
    <2>2. /\ IsFiniteSet(0 .. last)
          /\ Cardinality(0 .. last) = IF 0 > last THEN 0 ELSE last - 0 + 1
      BY <2>1, FS_Interval
    <2>3. first = 0 .. last /\ last = Least(k, n) - 1
      BY DEF last
    <2> QED
      BY <1>7, <2>2, <2>3
  <1> HIDE DEF N, place, top, first
  <1>13. f \in Bijection(top, first)
    <2>1. \A H \in top : f[H] \in first
      BY <1>2, <1>8, <1>10
    <2>2. \A H, J \in top : f[H] = f[J] => H = J
      BY <1>3, <1>10
    <2>3. \A i \in first : \E H \in top : f[H] = i
      BY <1>8, <1>9, <1>10, <1>11
    <2> QED
      BY <2>1, <2>2, <2>3, Fun_IsBij
  <1>14. IsFiniteSet(top)
    BY <1>10, FS_Subset
  <1>15. ExistsBijection(top, first)
    BY <1>13 DEF ExistsBijection
  <1>16. Cardinality(top) = Least(k, n)
    BY <1>12, <1>14, <1>15, FS_Bijection
  <1> QED
    BY <1>10, <1>14, <1>16 DEF top

-------------------------------------------------------------------------------
(* Where the middles lie. *)

Within(G) == G[1] + 1 .. G[2] - 1

LEMMA GapShape ==
  ASSUME NEW n \in Nat, NEW old \in SUBSET Timeline(n)
  PROVE  /\ Gaps(n, old) \in SUBSET (Int \X Int)
         /\ IsFiniteSet(Gaps(n, old))
         /\ \A G \in Gaps(n, old) :
              Middle(G) \in Within(G) /\ Within(G) \subseteq Free(n, old)
         /\ \A G, H \in Gaps(n, old) : Within(G) \cap Within(H) # {} => G = H
  <1> DEFINE anchors == {0, n - 1} \cup (old \cap Timeline(n))
  <1>1. anchors \subseteq Int /\ IsFiniteSet(anchors)
    <2>1. anchors \subseteq Int
      BY DEF Timeline
    <2>2. old \cap Timeline(n) \in SUBSET Timeline(n)
      OBVIOUS
    <2>3. IsFiniteSet(old \cap Timeline(n)) /\ IsFiniteSet({0, n - 1})
      <3>1. IsFiniteSet({0} \cup {n - 1})
        BY FS_Singleton, FS_AddElement
      <3>2. {0, n - 1} = {0} \cup {n - 1}
        OBVIOUS
      <3>3. IsFiniteSet({0, n - 1})
        BY <3>1, <3>2
      <3>4. IsFiniteSet(old \cap Timeline(n))
        BY <2>2, FiniteTimeline
      <3> QED
        BY <3>3, <3>4
    <2> QED
      BY <2>1, <2>3, FS_Union
  <1>2. \A G \in Gaps(n, old) :
          /\ G \in anchors \X anchors /\ G[1] < G[2] /\ G[2] - G[1] > 1
          /\ \A f \in anchors : f <= G[1] \/ f >= G[2]
    BY DEF Gaps, Neighbours
  <1> DEFINE gaps == Gaps(n, old)
  <1>3. gaps \in SUBSET (anchors \X anchors) /\ gaps \in SUBSET (Int \X Int)
    BY <1>1, <1>2
  <1>4. IsFiniteSet(gaps)
    BY <1>1, <1>3, FS_Product, FS_Subset
  <1>5. ASSUME NEW G \in gaps PROVE Middle(G) \in Within(G) /\ Within(G) \subseteq Free(n, old)
    <2>1. /\ G[1] \in anchors /\ G[2] \in anchors /\ G[1] \in Int /\ G[2] \in Int /\ G[2] - G[1] > 1
          /\ \A f \in anchors : f <= G[1] \/ f >= G[2]
      BY <1>1, <1>2, <1>3
    <2>2. Middle(G) \in Within(G)
      BY <2>1 DEF Middle, Within
    <2>3. n > 0
      <3>1. CASE n = 0
        <4>1. old = {}
          BY <3>1 DEF Timeline
        <4>2. anchors \subseteq {0, -1}
          BY <3>1, <4>1
        <4> QED
          BY <2>1, <4>2
      <3> QED
        BY <3>1
    <2>4. \A f \in anchors : f >= 0 /\ f <= n - 1
      BY <2>3 DEF Timeline
    <2>5. ASSUME NEW f \in Within(G) PROVE f \in Free(n, old)
      <3>1. f \in Int /\ f > G[1] /\ f < G[2]
        BY <2>1 DEF Within
      <3>2. f \in Timeline(n)
        BY <2>1, <2>4, <3>1 DEF Timeline
      <3>3. f \notin anchors
        BY <2>1, <3>1
      <3> QED
        BY <3>2, <3>3 DEF Free
    <2> QED
      BY <2>2, <2>5
  <1>6. ASSUME NEW G \in gaps, NEW H \in gaps, NEW f \in Within(G) \cap Within(H) PROVE G = H
    <2> HIDE DEF anchors
    <2>1. /\ G[1] \in anchors /\ G[2] \in anchors /\ H[1] \in anchors /\ H[2] \in anchors
          /\ G[1] \in Int /\ G[2] \in Int /\ H[1] \in Int /\ H[2] \in Int
      BY <1>1, <1>3
    <2>2. /\ H[1] <= G[1] \/ H[1] >= G[2]
          /\ H[2] <= G[1] \/ H[2] >= G[2]
          /\ G[1] <= H[1] \/ G[1] >= H[2]
          /\ G[2] <= H[1] \/ G[2] >= H[2]
      BY <1>2, <2>1
    <2>3. f \in Int /\ f > G[1] /\ f < G[2] /\ f > H[1] /\ f < H[2]
      BY <1>6, <2>1 DEF Within
    <2>4. G[1] = H[1] /\ G[2] = H[2]
      BY <2>1, <2>2, <2>3
    <2>5. G = <<G[1], G[2]>> /\ H = <<H[1], H[2]>>
      BY <1>3
    <2> QED
      BY <2>4, <2>5
  <1> QED
    BY <1>3, <1>4, <1>5, <1>6

(* The middles of the longest gaps are unseen, and one of each.              *)
LEMMA MiddlesCount ==
  ASSUME NEW n \in Nat, NEW old \in SUBSET Timeline(n), NEW k \in Nat
  PROVE  LET gaps == Gaps(n, old)
             middles == MiddlesOfLongest(k, gaps)
         IN  /\ middles = {Middle(G) : G \in Longest(k, gaps)}
             /\ middles \in SUBSET Free(n, old)
             /\ Cardinality(middles) = Least(k, Cardinality(gaps))
             /\ Cardinality(gaps) \in Nat
  <1> DEFINE gaps == Gaps(n, old)
             top == Longest(k, gaps)
             middles == {Middle(G) : G \in top}
             f == [G \in top |-> Middle(G)]
  <1>1. MiddlesOfLongest(k, gaps) = middles
    BY DEF MiddlesOfLongest, Longest, Before
  <1>2. IsFiniteSet(top) /\ top \in SUBSET gaps /\ Cardinality(top) = Least(k, Cardinality(gaps))
    BY GapShape, LongestCount
  <1>3. \A G \in gaps : Middle(G) \in Within(G) /\ Within(G) \subseteq Free(n, old)
    BY GapShape
  <1>4. middles \in SUBSET Free(n, old)
    BY <1>2, <1>3
  <1>5. \A G, H \in top : f[G] = f[H] => G = H
    BY <1>2, <1>3, GapShape
  <1> HIDE DEF gaps, top
  <1>6. f \in Bijection(top, middles)
    BY <1>5, Fun_IsBij
  <1>7. ExistsBijection(top, middles)
    BY <1>6 DEF ExistsBijection
  <1>8. Cardinality(middles) = Cardinality(top)
    BY <1>2, <1>7, FS_Bijection
  <1>9. Cardinality(gaps) \in Nat
    BY GapShape, FS_CardinalityType DEF gaps
  <1> QED
    BY <1>1, <1>2, <1>4, <1>8, <1>9 DEF gaps, top

(* What there is to choose from, when anything is chosen. *)
LEMMA ProposalShape ==
  ASSUME NEW n \in Nat, NEW old \in SUBSET Timeline(n), NEW k \in Nat,
         NEW P \in ProposeCandidates(n, old, k)
  PROVE  \/ /\ P = {} /\ (k = 0 \/ Free(n, old) = {})
         \/ \E fill \in SUBSET (Free(n, old) \ MiddlesOfLongest(k, Gaps(n, old))) :
              LET middles == MiddlesOfLongest(k, Gaps(n, old))
              IN /\ P = middles \cup fill
                 /\ Cardinality(fill) = Least(k - Cardinality(middles),
                                              Cardinality(Free(n, old)) - Cardinality(middles))
  <1> DEFINE middles == MiddlesOfLongest(k, Gaps(n, old))
             remaining == Timeline(n) \ (old \cup middles)
  <1>1. CASE n <= 0 \/ k <= 0 \/ Cardinality(old) >= n
    <2>1. P = {}
      BY <1>1 DEF ProposeCandidates
    <2>2. ASSUME Cardinality(old) >= n PROVE Free(n, old) = {}
      <3>1. Cardinality(old) \in Nat /\ IsFiniteSet(Free(n, old)) /\ Cardinality(Free(n, old)) \in Nat
        BY FiniteTimeline DEF Free
      <3>2. Cardinality(Free(n, old)) = 0
        BY <2>2, <3>1, FiniteTimeline
      <3> QED
        BY <3>1, <3>2, FS_EmptySet
    <2>3. ASSUME n <= 0 PROVE Free(n, old) = {}
      BY <2>3 DEF Free, Timeline
    <2>4. k <= 0 => k = 0
      OBVIOUS
    <2> QED
      BY <1>1, <2>1, <2>2, <2>3, <2>4
  <1>2. CASE ~(n <= 0 \/ k <= 0 \/ Cardinality(old) >= n)
    <2>1. PICK fill \in kSubset(Least(k - Cardinality(middles), Cardinality(remaining)), remaining) :
            P = middles \cup fill
      BY <1>2 DEF ProposeCandidates
    <2>2. remaining = Free(n, old) \ middles
      BY DEF Free
    <2>3. Cardinality(remaining) = Cardinality(Free(n, old)) - Cardinality(middles)
      <3>1. middles \in SUBSET Free(n, old) /\ IsFiniteSet(Free(n, old))
        BY MiddlesCount, FiniteTimeline DEF Free
      <3>2. Free(n, old) \cap middles = middles
        BY <3>1
      <3>3. Cardinality(Free(n, old) \ middles) = Cardinality(Free(n, old)) - Cardinality(Free(n, old) \cap middles)
        BY <3>1, FS_Difference
      <3> QED
        BY <2>2, <3>2, <3>3
    <2> HIDE DEF middles, remaining
    <2>4. fill \in SUBSET (Free(n, old) \ middles)
          /\ Cardinality(fill) = Least(k - Cardinality(middles), Cardinality(Free(n, old)) - Cardinality(middles))
      BY <2>1, <2>2, <2>3 DEF kSubset
    <2> QED
      BY <2>1, <2>4 DEF middles
  <1> QED
    BY <1>1, <1>2

(* The candidates are new and as many as asked for or as there are. *)
LEMMA Proposed ==
  ASSUME NEW n \in Nat, NEW old \in SUBSET Timeline(n), NEW k \in Nat,
         NEW P \in ProposeCandidates(n, old, k)
  PROVE  P \subseteq Free(n, old) /\ Cardinality(P) = Least(k, Cardinality(Free(n, old)))
  <1>0. k \in Nat /\ IsFiniteSet(Free(n, old)) /\ Cardinality(Free(n, old)) \in Nat
    BY FiniteTimeline DEF Free
  <1>1. CASE P = {} /\ (k = 0 \/ Free(n, old) = {})
    <2>1. Cardinality({}) = 0
      BY FS_EmptySet
    <2>2. Least(k, Cardinality(Free(n, old))) = 0
      BY <1>0, <1>1, <2>1 DEF Least
    <2> QED
      BY <1>1, <2>1, <2>2
  <1>2. CASE ~(P = {} /\ (k = 0 \/ Free(n, old) = {}))
    <2> DEFINE gaps == Gaps(n, old)
               middles == MiddlesOfLongest(k, gaps)
    <2>1. PICK fill \in SUBSET (Free(n, old) \ middles) :
            /\ P = middles \cup fill
            /\ Cardinality(fill) = Least(k - Cardinality(middles),
                                         Cardinality(Free(n, old)) - Cardinality(middles))
      BY <1>2, ProposalShape
    <2>2. /\ middles \in SUBSET Free(n, old) /\ Cardinality(middles) = Least(k, Cardinality(gaps))
          /\ Cardinality(gaps) \in Nat
      BY <1>0, MiddlesCount
    <2> HIDE DEF middles, gaps
    <2>3. IsFiniteSet(middles) /\ IsFiniteSet(fill) /\ Cardinality(middles) \in Nat
      BY <1>0, <2>1, <2>2, FS_Subset, FS_CardinalityType
    <2>4. middles \cap fill = {} /\ Cardinality({}) = 0
      BY <2>1, FS_EmptySet
    <2>5. Cardinality(P) = Cardinality(middles) + Cardinality(fill) - Cardinality(middles \cap fill)
      BY <2>1, <2>3, FS_Union
    <2>6. Cardinality(P) = Least(k, Cardinality(Free(n, old)))
      <3>1. Cardinality(P) = Cardinality(middles) + Cardinality(fill) - 0
        BY <2>4, <2>5
      <3> QED
        BY <1>0, <2>1, <2>2, <2>3, <3>1 DEF Least
    <2> QED
      BY <2>1, <2>2, <2>6
  <1> QED
    BY <1>1, <1>2

(* Whatever was seen, the candidates are new frames of the timeline, as many *)
(* as asked for or as are left, and the middle of a gap is always new.       *)
THEOREM CandidatesNew == Spec => []CandidatesAreNew
  <1>1. ASSUME OnTimeline PROVE CandidatesAreNew
    <2>1. \A G \in Gaps(frameCount, seen) : Middle(G) \in Unseen
      BY <1>1, GapShape DEF OnTimeline, Unseen, Free
    <2>2. \A P \in ProposeCandidates(frameCount, seen, size) :
            P \subseteq Unseen /\ Cardinality(P) = Least(size, Cardinality(Unseen))
      BY <1>1, Proposed DEF OnTimeline, Unseen, Free
    <2> QED
      BY <2>1, <2>2 DEF CandidatesAreNew
  <1> QED
    BY <1>1, FramesInvariance, PTL

(* A gap goes without a candidate only when gaps no shorter have taken all.  *)
THEOREM NoBlindStretch == Spec => []CandidatesSplitLongestGaps
  <1>1. ASSUME OnTimeline PROVE CandidatesSplitLongestGaps
    <2> DEFINE gaps == Gaps(frameCount, seen)
               Inside(G) == G[1] + 1 .. G[2] - 1
               top == Longest(size, gaps)
               middles == MiddlesOfLongest(size, gaps)
    <2> SUFFICES ASSUME NEW P \in ProposeCandidates(frameCount, seen, size), NEW G \in gaps,
                        P \cap Inside(G) = {}
                 PROVE  size = Cardinality({H \in gaps : H[2] - H[1] >= G[2] - G[1]
                                                          /\ P \cap Inside(H) # {}})
      BY DEF CandidatesSplitLongestGaps
    <2> DEFINE served == {H \in gaps : H[2] - H[1] >= G[2] - G[1] /\ P \cap Inside(H) # {}}
    <2>0. /\ size \in Nat /\ IsFiniteSet(Unseen) /\ Cardinality(Unseen) \in Nat
          /\ gaps \in SUBSET (Int \X Int) /\ IsFiniteSet(gaps)
          /\ \A H \in gaps : Inside(H) = Within(H)
          /\ \A H \in gaps : Middle(H) \in Within(H) /\ Within(H) \subseteq Unseen
          /\ \A H, J \in gaps : Within(H) \cap Within(J) # {} => H = J
      BY <1>1, FiniteTimeline, GapShape DEF OnTimeline, Unseen, Free, Within
    <2>1. CASE P = {} /\ (size = 0 \/ Unseen = {})
      <3>1. Unseen # {}
        BY <2>0
      <3>2. served = {}
        BY <2>1
      <3> QED
        BY <2>1, <3>1, <3>2, FS_EmptySet
    <2>2. CASE ~(P = {} /\ (size = 0 \/ Unseen = {}))
      <3>1. PICK fill \in SUBSET (Unseen \ middles) :
              /\ P = middles \cup fill
              /\ Cardinality(fill) = Least(size - Cardinality(middles),
                                           Cardinality(Unseen) - Cardinality(middles))
        BY <1>1, <2>2, ProposalShape DEF OnTimeline, Unseen, Free
      <3>2. /\ middles = {Middle(H) : H \in top} /\ middles \in SUBSET Unseen
            /\ Cardinality(middles) = Least(size, Cardinality(gaps)) /\ Cardinality(gaps) \in Nat
        BY <1>1, <2>0, MiddlesCount DEF OnTimeline, Unseen, Free
      <3>3. top \in SUBSET gaps /\ Cardinality(top) = Least(size, Cardinality(gaps))
        BY <2>0, LongestCount
      <3> HIDE DEF gaps, top, middles
      <3>4. G \notin top
        <4>1. ASSUME G \in top PROVE Middle(G) \in P \cap Inside(G)
          BY <2>0, <3>1, <3>2, <4>1
        <4> QED
          BY <4>1
      <3>5. /\ size <= Cardinality(Before(G, gaps)) /\ size <= Cardinality(gaps)
            /\ Cardinality(Before(G, gaps)) \in Nat
        <4>1. Before(G, gaps) \in SUBSET gaps
          BY DEF Before
        <4>2. Cardinality(Before(G, gaps)) \in Nat /\ Cardinality(Before(G, gaps)) <= Cardinality(gaps)
          BY <2>0, <4>1, FS_Subset, FS_CardinalityType
        <4>3. ~(Cardinality(Before(G, gaps)) < size)
          BY <3>4 DEF top, Longest
        <4> QED
          BY <2>0, <3>2, <4>2, <4>3
      <3>6. Cardinality(middles) = size /\ Cardinality(top) = size
        BY <2>0, <3>2, <3>3, <3>5 DEF Least
      <3>7. fill = {}
        <4>1. IsFiniteSet(fill) /\ IsFiniteSet(middles) /\ Cardinality(middles) <= Cardinality(Unseen)
          BY <2>0, <3>1, <3>2, FS_Subset
        <4>2. Cardinality(fill) = 0
          BY <2>0, <3>1, <3>6, <4>1 DEF Least
        <4> QED
          BY <4>1, <4>2, FS_EmptySet
      <3>8. ASSUME NEW H \in top PROVE H \in served
        <4>1. H \in gaps /\ Middle(H) \in P \cap Inside(H)
          BY <2>0, <3>1, <3>2, <3>3
        <4>2. ~GapBefore(G, H)
          <5>1. Cardinality(Before(H, gaps)) < size
            BY DEF top, Longest
          <5>2. GapBefore(G, H) => Cardinality(Before(G, gaps)) < Cardinality(Before(H, gaps))
                                   /\ Cardinality(Before(H, gaps)) \in Nat
            BY <2>0, <4>1, FewerBefore
          <5> QED
            BY <2>0, <3>5, <5>1, <5>2
        <4>3. H[1] \in Int /\ H[2] \in Int /\ G[1] \in Int /\ G[2] \in Int
          BY <2>0, <4>1
        <4>4. H[2] - H[1] >= G[2] - G[1]
          BY <4>2, <4>3 DEF GapBefore
        <4> QED
          BY <4>1, <4>4
      <3>9. ASSUME NEW H \in served PROVE H \in top
        <4>1. PICK f \in P : f \in Inside(H)
          OBVIOUS
        <4>2. PICK J \in top : f = Middle(J)
          BY <3>1, <3>2, <3>7, <4>1
        <4>3. J \in gaps /\ f \in Within(J) /\ f \in Within(H)
          BY <2>0, <3>3, <4>1, <4>2
        <4> QED
          BY <2>0, <4>2, <4>3
      <3>10. served = top
        BY <3>8, <3>9
      <3> QED
        BY <3>6, <3>10
    <2> QED
      BY <2>1, <2>2
  <1> QED
    BY <1>1, FramesInvariance, PTL

-------------------------------------------------------------------------------
(* The intervals. *)

LEMMA IntervalsCover ==
  ASSUME NEW n \in Nat, NEW S \in SUBSET (0 .. n - 1)
  PROVE  Covered(IndicesToIntervals(S)) = S
  <1>1. \A I \in IndicesToIntervals(S) : I[1] .. I[2] \subseteq S
    BY DEF IndicesToIntervals
  <1>2. ASSUME NEW f \in S
        PROVE  \E I \in IndicesToIntervals(S) : f \in I[1] .. I[2]
    <2> DEFINE A == {a \in 0 .. f : a .. f \subseteq S}
               B == {d \in 0 .. n - 1 - f : f .. n - 1 - d \subseteq S}
    <2>0. f \in 0 .. n - 1 /\ f .. f = {f}
      OBVIOUS
    <2>1. f \in A /\ A \in SUBSET Nat
      BY <2>0
    <2>2. n - 1 - f \in B /\ B \in SUBSET Nat
      <3>1. n - 1 - (n - 1 - f) = f /\ n - 1 - f \in 0 .. n - 1 - f
        BY <2>0
      <3>2. f .. n - 1 - (n - 1 - f) \subseteq S
        BY <2>0, <3>1
      <3>3. n - 1 - f \in B
        BY <3>1, <3>2
      <3> QED
        BY <2>0, <3>3
    <2>3. PICK a \in A : \A x \in A : a <= x
      BY <2>1, LeastNumber
    <2>4. PICK d \in B : \A x \in B : d <= x
      BY <2>2, LeastNumber
    <2> DEFINE b == n - 1 - d
    <2>5. /\ a \in 0 .. f /\ a .. f \subseteq S
          /\ d \in 0 .. n - 1 - f /\ f .. b \subseteq S
      OBVIOUS
    <2>6. a - 1 \notin S
      <3> SUFFICES ASSUME a - 1 \in S PROVE FALSE
        OBVIOUS
      <3>1. a - 1 \in 0 .. f
        BY <2>0, <2>5
      <3>2. a - 1 .. f \subseteq S
        <4>1. ASSUME NEW x \in a - 1 .. f PROVE x = a - 1 \/ x \in a .. f
          BY <2>0, <2>5
        <4> QED
          BY <2>5, <4>1
      <3>3. a - 1 \in A
        BY <3>1, <3>2
      <3> QED
        BY <2>0, <2>3, <2>5, <3>3
    <2>7. b + 1 \notin S
      <3> SUFFICES ASSUME b + 1 \in S PROVE FALSE
        OBVIOUS
      <3>1. d - 1 \in 0 .. n - 1 - f /\ n - 1 - (d - 1) = b + 1
        <4>1. b + 1 <= n - 1
          OBVIOUS
        <4> QED
          BY <2>0, <2>5, <4>1
      <3>2. f .. b + 1 \subseteq S
        <4>1. ASSUME NEW x \in f .. b + 1 PROVE x = b + 1 \/ x \in f .. b
          BY <2>0, <2>5
        <4> QED
          BY <2>5, <4>1
      <3>3. d - 1 \in B
        BY <3>1, <3>2
      <3> QED
        BY <2>0, <2>4, <2>5, <3>3
    <2>8. a <= f /\ f <= b /\ a \in Int /\ b \in Int /\ f \in Int
      BY <2>0, <2>5
    <2>9. a \in S /\ b \in S /\ a .. b \subseteq S /\ a <= b
      <3>1. a \in a .. f /\ b \in f .. b /\ a <= b
        BY <2>8
      <3>2. ASSUME NEW x \in a .. b PROVE x \in a .. f \/ x \in f .. b
        BY <2>8
      <3> QED
        BY <2>5, <3>1, <3>2
    <2> HIDE DEF A, B, b
    <2>10. <<a, b>> \in IndicesToIntervals(S)
      BY <2>6, <2>7, <2>9 DEF IndicesToIntervals
    <2>11. f \in <<a, b>>[1] .. <<a, b>>[2]
      BY <2>8
    <2> QED
      BY <2>10, <2>11
  <1> QED
    BY <1>1, <1>2 DEF Covered

LEMMA TwoComputations ==
  ASSUME OnTimeline
  PROVE  UnseenIntervals(frameCount, seen) = IndicesToIntervals(Unseen)
  <1> DEFINE anchors == {-1, frameCount} \cup (seen \cap Timeline(frameCount))
  <1>1. CASE frameCount <= 0
    <2>1. Unseen = {}
      BY <1>1 DEF OnTimeline, Unseen, Timeline
    <2>2. IndicesToIntervals({}) = {}
      BY DEF IndicesToIntervals
    <2> QED
      BY <1>1, <2>1, <2>2 DEF UnseenIntervals
  <1>2. CASE frameCount > 0
    <2>1. UnseenIntervals(frameCount, seen)
            = {<<G[1] + 1, G[2] - 1>> : G \in {H \in Neighbours(anchors) : H[2] - H[1] > 1}}
      <3>1. ~(frameCount <= 0)
        BY <1>2 DEF OnTimeline
      <3> QED
        BY <3>1 DEF UnseenIntervals
    <2>2. /\ frameCount \in Nat /\ anchors \subseteq Int
          /\ \A f \in Int : f \in Unseen <=> f >= 0 /\ f < frameCount /\ f \notin anchors
          /\ Unseen \subseteq Int
          /\ \A f \in anchors : f = -1 \/ f = frameCount \/ (f >= 0 /\ f < frameCount)
      BY DEF OnTimeline, Unseen, Timeline
    <2>3. ASSUME NEW G \in Neighbours(anchors), G[2] - G[1] > 1
          PROVE  <<G[1] + 1, G[2] - 1>> \in IndicesToIntervals(Unseen)
      <3>1. /\ G[1] \in anchors /\ G[2] \in anchors /\ G[1] \in Int /\ G[2] \in Int
            /\ \A f \in anchors : f <= G[1] \/ f >= G[2]
        BY <2>2 DEF Neighbours
      <3> HIDE DEF anchors
      <3>2. G[1] >= -1 /\ G[2] <= frameCount
        BY <2>2, <2>3, <3>1
      <3>3. ASSUME NEW f \in G[1] + 1 .. G[2] - 1 PROVE f \in Unseen
        <4>1. f \in Int /\ f > G[1] /\ f < G[2]
          BY <3>1
        <4>2. f \notin anchors
          BY <3>1, <4>1
        <4> QED
          BY <2>2, <3>1, <3>2, <4>1, <4>2
      <3>4. G[1] \notin Unseen /\ G[2] \notin Unseen
        BY <2>2, <3>1
      <3> DEFINE a == G[1] + 1
                 b == G[2] - 1
      <3>5. a \in Unseen /\ b \in Unseen /\ a .. b \subseteq Unseen /\ a <= b
        BY <2>3, <3>1, <3>3
      <3>6. a - 1 \notin Unseen /\ b + 1 \notin Unseen
        <4>1. a - 1 = G[1] /\ b + 1 = G[2]
          BY <3>1
        <4> QED
          BY <3>4, <4>1
      <3> HIDE DEF a, b
      <3>7. <<a, b>> \in IndicesToIntervals(Unseen)
        BY <3>5, <3>6 DEF IndicesToIntervals
      <3> QED
        BY <3>7 DEF a, b
    <2>4. ASSUME NEW I \in IndicesToIntervals(Unseen)
          PROVE  \E G \in Neighbours(anchors) : G[2] - G[1] > 1 /\ I = <<G[1] + 1, G[2] - 1>>
      <3>1. /\ I[1] \in Unseen /\ I[2] \in Unseen /\ I[1] .. I[2] \subseteq Unseen /\ I[1] <= I[2]
            /\ I[1] - 1 \notin Unseen /\ I[2] + 1 \notin Unseen /\ I = <<I[1], I[2]>>
        BY DEF IndicesToIntervals
      <3>2. I[1] \in Int /\ I[2] \in Int
        BY <2>2, <3>1
      <3> DEFINE a == I[1] - 1
                 b == I[2] + 1
      <3>3. -1 \in anchors /\ frameCount \in anchors
        OBVIOUS
      <3> HIDE DEF anchors
      <3>4. a \in anchors
        <4>1. I[1] >= 0 /\ I[1] < frameCount /\ I[1] - 1 \in Int
          BY <2>2, <3>1, <3>2
        <4>2. I[1] - 1 >= 0 => I[1] - 1 \in anchors
          BY <2>2, <3>1, <4>1
        <4>3. I[1] - 1 >= 0 \/ I[1] - 1 = -1
          BY <3>2, <4>1
        <4> QED
          BY <3>3, <4>2, <4>3
      <3>5. b \in anchors
        <4>1. I[2] >= 0 /\ I[2] < frameCount /\ I[2] + 1 \in Int
          BY <2>2, <3>1, <3>2
        <4>2. I[2] + 1 < frameCount => I[2] + 1 \in anchors
          BY <2>2, <3>1, <4>1
        <4>3. I[2] + 1 < frameCount \/ I[2] + 1 = frameCount
          BY <2>2, <3>2, <4>1
        <4> QED
          BY <3>3, <4>2, <4>3
      <3>6. ASSUME NEW f \in anchors PROVE f <= a \/ f >= b
        <4>1. f \in Int /\ f \notin I[1] .. I[2]
          BY <2>2, <3>1
        <4> QED
          BY <3>2, <4>1
      <3>7. a < b /\ b - a > 1 /\ a + 1 = I[1] /\ b - 1 = I[2]
        BY <3>1, <3>2
      <3> HIDE DEF a, b
      <3>8. <<a, b>> \in Neighbours(anchors)
        BY <3>4, <3>5, <3>6, <3>7 DEF Neighbours
      <3> QED
        BY <3>1, <3>7, <3>8
    <2> HIDE DEF anchors
    <2> QED
      BY <2>1, <2>3, <2>4
  <1> QED
    BY <1>1, <1>2 DEF OnTimeline

(* The unseen intervals of the prompt are exactly the unseen frames, and the *)
(* two ways the program computes intervals agree.                            *)
THEOREM IntervalsAreRight == Spec => []IntervalsAgree
  <1>1. ASSUME OnTimeline PROVE IntervalsAgree
    <2>1. UnseenIntervals(frameCount, seen) = IndicesToIntervals(Unseen)
      BY <1>1, TwoComputations
    <2>2. /\ frameCount \in Nat /\ seen \in SUBSET (0 .. frameCount - 1)
          /\ Unseen \in SUBSET (0 .. frameCount - 1)
      BY <1>1 DEF OnTimeline, Timeline, Unseen
    <2>3. Covered(IndicesToIntervals(Unseen)) = Unseen /\ Covered(IndicesToIntervals(seen)) = seen
      BY <2>2, IntervalsCover
    <2> QED
      BY <2>1, <2>3 DEF IntervalsAgree
  <1> QED
    BY <1>1, FramesInvariance, PTL

-------------------------------------------------------------------------------
(* The adapters. *)

LEMMA SubsetOfSize ==
  ASSUME NEW S, IsFiniteSet(S), NEW m \in Nat, m <= Cardinality(S)
  PROVE  kSubset(m, S) # {}
  <1> DEFINE c == Cardinality(S)
  <1>1. c \in Nat
    BY FS_CardinalityType
  <1>2. PICK f : f \in Bijection(1 .. c, S)
    BY FS_NatBijection, FS_CountingElements, FS_CardinalityType DEF ExistsBijection
  <1> DEFINE T == {f[i] : i \in 1 .. m}
             g == [i \in 1 .. m |-> f[i]]
  <1>3. /\ \A i \in 1 .. c : f[i] \in S
        /\ \A i, j \in 1 .. c : f[i] = f[j] => i = j
    BY <1>2 DEF Bijection, Injection, Surjection, IsInjective
  <1>4. \A i \in 1 .. m : i \in 1 .. c
    BY <1>1
  <1>5. T \in SUBSET S
    BY <1>3, <1>4
  <1>6. \A i, j \in 1 .. m : g[i] = g[j] => i = j
    BY <1>3, <1>4
  <1> HIDE DEF c
  <1>7. g \in Bijection(1 .. m, T)
    BY <1>6, Fun_IsBij
  <1>8. IsFiniteSet(T) /\ IsFiniteSet(1 .. m) /\ Cardinality(1 .. m) = m
    <2>1. IsFiniteSet(T)
      BY <1>5, FS_Subset
    <2>2. IsFiniteSet(1 .. m) /\ Cardinality(1 .. m) = m
      BY FS_Interval
    <2> QED
      BY <2>1, <2>2
  <1> HIDE DEF T, g
  <1>9. ExistsBijection(1 .. m, T)
    BY <1>7 DEF ExistsBijection
  <1>10. Cardinality(T) = m
    BY <1>8, <1>9, FS_Bijection
  <1>11. T \in kSubset(m, S)
    BY <1>5, <1>10 DEF kSubset
  <1> QED
    BY <1>11

(* Something can always be proposed. *)
LEMMA ProposalExists ==
  ASSUME NEW n \in Nat, NEW old \in SUBSET Timeline(n), NEW k \in Nat
  PROVE  ProposeCandidates(n, old, k) # {}
  <1>1. CASE n <= 0 \/ k <= 0 \/ Cardinality(old) >= n
    BY <1>1 DEF ProposeCandidates
  <1>2. CASE ~(n <= 0 \/ k <= 0 \/ Cardinality(old) >= n)
    <2> DEFINE middles == MiddlesOfLongest(k, Gaps(n, old))
               remaining == Timeline(n) \ (old \cup middles)
               need == Least(k - Cardinality(middles), Cardinality(remaining))
    <2>1. IsFiniteSet(remaining) /\ Cardinality(remaining) \in Nat
      BY FiniteTimeline
    <2>2. Cardinality(middles) \in Nat /\ Cardinality(middles) <= k
      <3>1. Cardinality(middles) = Least(k, Cardinality(Gaps(n, old))) /\ Cardinality(Gaps(n, old)) \in Nat
        BY MiddlesCount
      <3> HIDE DEF middles
      <3> QED
        BY <3>1 DEF Least
    <2>3. ProposeCandidates(n, old, k) = {middles \cup fill : fill \in kSubset(need, remaining)}
      BY <1>2 DEF ProposeCandidates
    <2> HIDE DEF middles, remaining
    <2>4. need \in Nat /\ need <= Cardinality(remaining)
      BY <2>1, <2>2 DEF Least
    <2> HIDE DEF need
    <2>5. kSubset(need, remaining) # {}
      BY <2>1, <2>4, SubsetOfSize
    <2> QED
      BY <2>3, <2>5
  <1> QED
    BY <1>1, <1>2

LEMMA UnseenSampled ==
  ASSUME NEW n \in Nat, NEW old, NEW k \in Nat
  PROVE  /\ SampleUnseen(n, old, k) # {}
         /\ \A U \in SampleUnseen(n, old, k) : U \subseteq Timeline(n) \ old /\ Cardinality(U) <= k
  <1> DEFINE unseen == Timeline(n) \ old
             m == Least(k, Cardinality(unseen))
  <1>1. CASE n <= 0 \/ k <= 0
    <2>1. SampleUnseen(n, old, k) = {{}}
      BY <1>1 DEF SampleUnseen
    <2> QED
      BY <2>1, FS_EmptySet
  <1>2. CASE ~(n <= 0 \/ k <= 0)
    <2>1. IsFiniteSet(unseen) /\ Cardinality(unseen) \in Nat
      <3>1. unseen \in SUBSET Timeline(n) /\ {} \in SUBSET Timeline(n)
        OBVIOUS
      <3> HIDE DEF unseen
      <3> QED
        BY <3>1, FiniteTimeline
    <2>2. SampleUnseen(n, old, k) = kSubset(m, unseen)
      BY <1>2 DEF SampleUnseen
    <2> HIDE DEF unseen
    <2>3. m \in Nat /\ m <= k /\ m <= Cardinality(unseen)
      BY <2>1 DEF Least
    <2> HIDE DEF m
    <2>4. kSubset(m, unseen) # {}
      BY <2>1, <2>3, SubsetOfSize
    <2>5. \A U \in kSubset(m, unseen) : U \subseteq unseen /\ Cardinality(U) = m
      BY DEF kSubset
    <2> QED
      BY <2>2, <2>3, <2>4, <2>5 DEF unseen
  <1> QED
    BY <1>1, <1>2

LEMMA ProposedInWindow ==
  ASSUME NEW s \in Nat, NEW end \in Nat, s <= end, NEW old, NEW k \in Nat
  PROVE  /\ ProposeInWindow(s, end, old, k) # {}
         /\ \A P \in ProposeInWindow(s, end, old, k) : P \subseteq (s .. end) \ old
  <1> DEFINE local == {f - s : f \in old \cap (s .. end)}
             n == end - s + 1
  <1>1. n \in Nat
    OBVIOUS
  <1>2. local \in SUBSET Timeline(n)
    BY DEF Timeline
  <1>3. ProposeInWindow(s, end, old, k) = {{f + s : f \in P} : P \in ProposeCandidates(n, local, k)}
    BY DEF ProposeInWindow
  <1>4. ASSUME NEW f \in Free(n, local) PROVE f + s \in (s .. end) \ old
    <2>1. f \in 0 .. n - 1 /\ f \notin local
      BY DEF Free, Timeline
    <2>2. f + s \in s .. end /\ f + s - s = f
      BY <2>1
    <2> QED
      BY <2>1, <2>2
  <1> HIDE DEF local, n
  <1>5. ProposeCandidates(n, local, k) # {}
    BY <1>1, <1>2, ProposalExists
  <1>6. \A P \in ProposeCandidates(n, local, k) : P \subseteq Free(n, local)
    BY <1>1, <1>2, Proposed
  <1>7. ProposeInWindow(s, end, old, k) # {}
    BY <1>3, <1>5
  <1>8. ASSUME NEW P \in ProposeInWindow(s, end, old, k) PROVE P \subseteq (s .. end) \ old
    <2>1. PICK Q \in ProposeCandidates(n, local, k) : P = {f + s : f \in Q}
      BY <1>3
    <2>2. Q \subseteq Free(n, local)
      BY <1>6
    <2> QED
      BY <1>4, <2>1, <2>2
  <1> QED
    BY <1>7, <1>8

(* The window of a question lies on the timeline. *)
LEMMA RangeOnTimeline ==
  ASSUME NEW window \in (Int \X Int) \cup {<< >>}, NEW n \in Nat
  PROVE  LET range == ActiveRange(window, n)
         IN /\ range[1] \in Nat /\ range[2] \in Nat /\ range[1] <= range[2]
            /\ n > 0 => range[2] <= n - 1
            /\ n = 0 => range[2] = 0
  <1>1. CASE window = << >> \/ n <= 0
    <2> DEFINE last == IF n <= 0 THEN 0 ELSE n - 1
    <2>1. ActiveRange(window, n) = <<0, last>>
      BY <1>1 DEF ActiveRange
    <2>2. last \in Nat /\ (n > 0 => last <= n - 1) /\ (n = 0 => last = 0)
      OBVIOUS
    <2> HIDE DEF last
    <2> QED
      BY <2>1, <2>2
  <1>2. CASE ~(window = << >> \/ n <= 0)
    <2> DEFINE lo == Least(window[1], window[2])
               hi == window[1] + window[2] - lo
    <2>1. lo \in Int /\ hi \in Int /\ lo <= hi
      BY <1>2 DEF Least
    <2>2. ActiveRange(window, n) = <<Clip(lo, n), Clip(hi, n)>>
      BY <1>2 DEF ActiveRange
    <2> HIDE DEF lo, hi
    <2>3. /\ Clip(lo, n) \in Nat /\ Clip(hi, n) \in Nat
          /\ Clip(lo, n) <= Clip(hi, n) /\ Clip(hi, n) <= n - 1
      BY <1>2, <2>1 DEF Clip, Least
    <2> QED
      BY <1>2, <2>2, <2>3
  <1> QED
    BY <1>1, <1>2

(* On a timeline of any length, known or not, for any number of candidates   *)
(* and any frames seen, the adapters of NExT-QA, EgoSchema and the local     *)
(* sets give the loop what it relies on.                                     *)
THEOREM ShortAdapterMeetsContract ==
  ASSUME NEW n \in Nat, NEW m \in Nat \ {0}, NEW k \in Nat
  PROVE  DatasetContract(n, m, ShortInitial(n, m), ShortFallback(n),
                         LAMBDA S : ShortPools(n, k, S), LAMBDA S : SampleUnseen(n, S, m))
  <1> DEFINE frames == FramesOf(n, ShortInitial(n, m), ShortFallback(n))
  <1>1. CASE n = 0
    <2>1. ShortInitial(n, m) = 0 .. m - 1 /\ ShortFallback(n) = 0 .. 0
      BY <1>1 DEF ShortInitial, ShortFallback, SampleUniform
    <2>2. IsFiniteSet(0 .. m - 1) /\ Cardinality(0 .. m - 1) = m
      <3>1. m - 1 \in Nat /\ 0 + (m - 1) = m - 1 /\ m - 1 + 1 = m
        OBVIOUS
      <3> QED
        BY <3>1, IntervalSize
    <2>3. IsFiniteSet(0 .. 0) /\ Cardinality(0 .. 0) = 1
      <3>1. 0 .. 0 = {0}
        OBVIOUS
      <3>2. IsFiniteSet({0}) /\ Cardinality({0}) = 1
        BY FS_Singleton
      <3> QED
        BY <3>1, <3>2
    <2>4. OneRound(ShortInitial(n, m), m) /\ OneRound(ShortFallback(n), m)
      BY <2>1, <2>2, <2>3 DEF OneRound
    <2>5. ASSUME NEW S
          PROVE  ShortPools(n, k, S) = {{}} /\ SampleUnseen(n, S, m) = {{}} /\ Cardinality({}) = 0
      BY <1>1, FS_EmptySet DEF ShortPools, ProposeCandidates, SampleUnseen
    <2> HIDE DEF frames
    <2>6. ASSUME NEW S
          PROVE  /\ ShortPools(n, k, S) # {} /\ SampleUnseen(n, S, m) # {}
                 /\ \A P \in ShortPools(n, k, S) : P \subseteq frames \ S
                 /\ \A U \in SampleUnseen(n, S, m) : U \subseteq frames \ S /\ Cardinality(U) <= m
      <3>1. ShortPools(n, k, S) = {{}} /\ SampleUnseen(n, S, m) = {{}}
        BY <2>5
      <3>2. {} \subseteq frames \ S /\ Cardinality({}) <= m
        BY <2>5
      <3> QED
        BY <3>1, <3>2
    <2> QED
      BY <2>4, <2>6 DEF DatasetContract, frames
  <1>2. CASE n > 0
    <2>1. /\ ShortInitial(n, m) \in SUBSET Timeline(n) /\ IsFiniteSet(ShortInitial(n, m))
          /\ Cardinality(ShortInitial(n, m)) = Least(m, n)
      BY <1>2, UniformSample DEF ShortInitial
    <2>2. /\ ShortFallback(n) \in SUBSET Timeline(n) /\ IsFiniteSet(ShortFallback(n))
          /\ Cardinality(ShortFallback(n)) = Least(1, n)
      BY <1>2, UniformSample DEF ShortFallback
    <2>3. OneRound(ShortInitial(n, m), m) /\ OneRound(ShortFallback(n), m)
      BY <2>1, <2>2 DEF OneRound, Least, Timeline
    <2>4. frames = Timeline(n)
      BY <2>1, <2>2 DEF FramesOf, Timeline
    <2> HIDE DEF frames
    <2>5. ASSUME NEW S \in SUBSET frames
          PROVE  /\ ShortPools(n, k, S) # {} /\ SampleUnseen(n, S, m) # {}
                 /\ \A P \in ShortPools(n, k, S) : P \subseteq frames \ S
                 /\ \A U \in SampleUnseen(n, S, m) : U \subseteq frames \ S /\ Cardinality(U) <= m
      <3>1. ShortPools(n, k, S) # {}
        BY <2>4, ProposalExists DEF ShortPools
      <3>2. \A P \in ShortPools(n, k, S) : P \subseteq frames \ S
        BY <2>4, Proposed DEF ShortPools, Free
      <3> QED
        BY <2>4, <3>1, <3>2, UnseenSampled
    <2> QED
      BY <2>3, <2>5 DEF DatasetContract, frames
  <1> QED
    BY <1>1, <1>2

(* So do those of LVBench and Video-MME, whatever the window of the question *)
(* (out of order, off the timeline or missing) and whatever their samples.   *)
THEOREM LongAdapterMeetsContract ==
  ASSUME NEW n \in Nat, NEW m \in Nat \ {0}, NEW k \in Nat,
         NEW window \in (Int \X Int) \cup {<< >>}
  PROVE  LET range == ActiveRange(window, n)
         IN  \A initial \in LongInitials(range[1], range[2], m),
                fallback \in LongFallbacks(range[1], range[2]) :
               DatasetContract(n, m, initial, fallback,
                               LAMBDA S : LongPools(range[1], range[2], k, S),
                               LAMBDA S : SampleUnseen(n, S, m))
  <1> DEFINE s == ActiveRange(window, n)[1]
             end == ActiveRange(window, n)[2]
  <1>1. /\ s \in Nat /\ end \in Nat /\ s <= end
        /\ n > 0 => end <= n - 1
        /\ n = 0 => end = 0
    BY RangeOnTimeline
  <1> SUFFICES ASSUME NEW initial \in LongInitials(s, end, m), NEW fallback \in LongFallbacks(s, end)
               PROVE  DatasetContract(n, m, initial, fallback, LAMBDA S : LongPools(s, end, k, S),
                                      LAMBDA S : SampleUnseen(n, S, m))
    OBVIOUS
  <1> DEFINE frames == FramesOf(n, initial, fallback)
  <1> HIDE DEF s, end
  <1>2. /\ initial \in SUBSET (s .. end) /\ IsFiniteSet(initial)
        /\ Cardinality(initial) = Least(m, end - s + 1)
    BY <1>1, WindowSample DEF LongInitials
  <1>3. /\ fallback = {s}
        /\ IsFiniteSet(fallback) /\ Cardinality(fallback) = 1
    <2>1. fallback = {s}
      BY <1>1 DEF LongFallbacks, SampleWindows
    <2>2. IsFiniteSet({s}) /\ Cardinality({s}) = 1
      BY FS_Singleton
    <2> QED
      BY <2>1, <2>2
  <1>4. OneRound(initial, m) /\ OneRound(fallback, m)
    <2>1. initial \subseteq Nat /\ fallback \subseteq Nat
      BY <1>1, <1>2, <1>3
    <2>2. Least(m, end - s + 1) <= m
      BY <1>1 DEF Least
    <2> QED
      BY <1>2, <1>3, <2>1, <2>2 DEF OneRound
  <1>5. Timeline(n) \subseteq frames /\ s .. end \subseteq frames
    <2>1. CASE n > 0
      BY <1>1, <2>1 DEF FramesOf, Timeline
    <2>2. CASE n = 0
      BY <1>1, <1>3, <2>2 DEF FramesOf, Timeline
    <2> QED
      BY <2>1, <2>2
  <1> HIDE DEF frames
  <1>6. ASSUME NEW S \in SUBSET frames
        PROVE  /\ LongPools(s, end, k, S) # {} /\ SampleUnseen(n, S, m) # {}
               /\ \A P \in LongPools(s, end, k, S) : P \subseteq frames \ S
               /\ \A U \in SampleUnseen(n, S, m) : U \subseteq frames \ S /\ Cardinality(U) <= m
    <2>1. /\ LongPools(s, end, k, S) # {}
          /\ \A P \in LongPools(s, end, k, S) : P \subseteq (s .. end) \ S
      BY <1>1, ProposedInWindow DEF LongPools
    <2> QED
      BY <1>5, <2>1, UnseenSampled
  <1> QED
    BY <1>4, <1>6 DEF DatasetContract, frames
=============================================================================
