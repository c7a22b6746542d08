-------------------------- MODULE AdmissionProofs --------------------------
(***************************************************************************)
(* Theorems about Admission, for any alphabet, list of common passwords,    *)
(* limits and windows.                                                      *)
(***************************************************************************)
EXTENDS Admission, SequenceTheorems, FiniteSetTheorems, WellFoundedInduction, TLAPS

-----------------------------------------------------------------------------
(* The limiter.                                                             *)

(* What the window of a bucket has to do with the calls it admitted, for a  *)
(* window of length w and a limit of m.  While it runs, its first hit is    *)
(* the oldest of the calls it admitted and was admitted; those of the       *)
(* window before lack their first hit, which is too old to be recent.       *)
WindowHolds(w, m, c, l, r) ==
  /\ \A a \in 1..w - 1 : r[a - 1] <= r[a]
  /\ l = 0 => r[0] = 0 /\ r[w - 1] <= m - 1
  /\ l > 0 => /\ r[w - l] <= c /\ r[w - l] <= m
              /\ r[w - 1] - r[w - l] <= m - 1
              /\ IF l = w THEN r[0] >= 1 ELSE r[w - l] - r[w - l - 1] >= 1

WindowsHold ==
  \A b \in Buckets : WindowHolds(Window[b[1]], Limit[b[1]], count[b], left[b], recent[b])

WellFormed == TypeOK /\ WindowsHold

(* What the numbers of a bucket are.                                        *)
WindowTyped(w, m, c, l, r) ==
  /\ c \in 0..m + 1 /\ l \in 0..w /\ (c = 0 <=> l = 0) /\ r \in [0..w - 1 -> Nat]

LEMMA LimitsTyped ==
  ASSUME NEW b \in Buckets
  PROVE  /\ b[1] \in Endpoints
         /\ Window[b[1]] \in Nat \ {0} /\ Limit[b[1]] \in Nat \ {0}
  <1>1. b[1] \in Endpoints
    BY DEF Buckets
  <1>2. Limit \in [Endpoints -> Nat \ {0}] /\ Window \in [Endpoints -> Nat \ {0}]
    BY AdmissionAssumption
  <1>. QED BY <1>1, <1>2

LEMMA BucketTyped ==
  ASSUME TypeOK, NEW b \in Buckets
  PROVE  WindowTyped(Window[b[1]], Limit[b[1]], count[b], left[b], recent[b])
  BY DEF TypeOK, WindowTyped, Ages

LEMMA CountedIs ==
  ASSUME NEW c \in Nat, NEW m \in Nat
  PROVE  Min({c + 1, m + 1}) = IF c <= m THEN c + 1 ELSE m + 1
  BY DEF Min

(* One more call in what is recent, and a tick later.                       *)
Raised(w, r) == [a \in 0..w - 1 |-> r[a] + 1]

Aged(w, r) == [a \in 0..w - 1 |-> IF a = 0 THEN 0 ELSE r[a - 1]]

(* A hit, admitted or not: the first one of a window opens it.              *)
LEMMA HitHolds ==
  ASSUME NEW w \in Nat \ {0}, NEW m \in Nat \ {0}, NEW c, NEW l, NEW r,
         WindowTyped(w, m, c, l, r), WindowHolds(w, m, c, l, r),
         NEW d, d = IF c <= m THEN c + 1 ELSE m + 1,
         NEW k, k = IF c = 0 THEN w ELSE l,
         NEW q, q = IF d <= m THEN Raised(w, r) ELSE r
  PROVE  WindowTyped(w, m, d, k, q) /\ WindowHolds(w, m, d, k, q)
  <1>1. /\ c \in 0..m + 1 /\ l \in 0..w /\ (c = 0 <=> l = 0) /\ r \in [0..w - 1 -> Nat]
    BY DEF WindowTyped
  <1>2. d \in 0..m + 1 /\ k \in 1..w /\ d # 0
    BY <1>1
  <1>3. q \in [0..w - 1 -> Nat]
    <2>1. r \in [0..w - 1 -> Nat]
      BY <1>1
    <2>2. Raised(w, r) \in [0..w - 1 -> Nat]
      BY <2>1 DEF Raised
    <2>. QED BY <2>1, <2>2
  <1>4. WindowTyped(w, m, d, k, q)
    BY <1>2, <1>3 DEF WindowTyped
  <1>5. CASE d <= m
    <2>1. \A a \in 0..w - 1 : q[a] = r[a] + 1 /\ r[a] \in Nat
      BY <1>1, <1>5 DEF Raised
    <2>2. c <= m - 1 /\ d = c + 1
      BY <1>1, <1>5
    <2>3. \A a \in 1..w - 1 : q[a - 1] <= q[a]
      <3>1. ASSUME NEW a \in 1..w - 1  PROVE q[a - 1] <= q[a]
        <4>1. a - 1 \in 0..w - 1 /\ a \in 0..w - 1 /\ r[a - 1] <= r[a]
          BY <3>1 DEF WindowHolds
        <4>. QED BY <2>1, <4>1
      <3>. QED BY <3>1
    <2>4. /\ 0 \in 0..w - 1 /\ w - 1 \in 0..w - 1
          /\ q[0] = r[0] + 1 /\ q[w - 1] = r[w - 1] + 1 /\ r[0] \in Nat /\ r[w - 1] \in Nat
      BY <2>1
    <2>5. CASE c = 0
      <3>1. k = w /\ l = 0
        BY <1>1, <2>5
      <3>2. r[0] = 0 /\ r[w - 1] <= m - 1
        BY <3>1 DEF WindowHolds
      <3>3. q[0] = 1 /\ q[w - 1] - q[0] <= m - 1
        BY <2>4, <3>2
      <3>4. w - k = 0 /\ k # 0 /\ 1 <= d /\ 1 <= m
        BY <1>2, <3>1
      <3>5. q[w - k] = 1 /\ q[w - 1] - q[w - k] <= m - 1 /\ q[0] >= 1
        <4>1. q[w - k] = q[0]
          BY <3>4
        <4>. QED BY <3>3, <4>1
      <3>. QED BY <1>4, <2>3, <3>1, <3>4, <3>5 DEF WindowHolds
    <2>6. CASE c # 0
      <3>1. k = l /\ l > 0 /\ w - l \in 0..w - 1
        BY <1>1, <2>6
      <3>2. q[w - l] = r[w - l] + 1 /\ r[w - l] \in Nat
        BY <2>1, <3>1
      <3>3. r[w - l] <= c /\ r[w - 1] - r[w - l] <= m - 1
        BY <3>1 DEF WindowHolds
      <3>4. q[w - l] <= d /\ q[w - l] <= m /\ q[w - 1] - q[w - l] <= m - 1
        <4>1. c \in Nat /\ m \in Nat
          BY <1>1
        <4>2. q[w - l] <= d /\ q[w - l] <= m
          BY <4>1, <2>2, <3>2, <3>3
        <4>3. q[w - 1] - q[w - l] <= m - 1
          BY <4>1, <2>4, <3>2, <3>3
        <4>. QED BY <4>2, <4>3
      <3>5. l # w => q[w - l] - q[w - l - 1] >= 1
        <4>1. SUFFICES ASSUME l # w  PROVE q[w - l] - q[w - l - 1] >= 1
          OBVIOUS
        <4>2. w - l - 1 \in 0..w - 1
          BY <1>1, <4>1
        <4>3. q[w - l - 1] = r[w - l - 1] + 1 /\ r[w - l - 1] \in Nat
          BY <2>1, <4>2
        <4>4. r[w - l] - r[w - l - 1] >= 1
          BY <3>1, <4>1 DEF WindowHolds
        <4>. QED BY <3>2, <4>3, <4>4
      <3>6. q[0] >= 1 /\ k # 0
        BY <2>4, <3>1, <1>2
      <3>. QED BY <1>4, <2>3, <3>1, <3>4, <3>5, <3>6 DEF WindowHolds
    <2>. QED BY <2>5, <2>6
  <1>6. CASE ~ d <= m
    <2>1. q = r /\ k = l /\ l > 0 /\ c <= d /\ w - l \in 0..w - 1 /\ l # 0
      BY <1>1, <1>6
    <2>2. r[w - l] \in Nat /\ r[w - l] <= c
      BY <1>1, <2>1 DEF WindowHolds
    <2>3. r[w - l] <= d
      BY <1>1, <1>2, <2>1, <2>2
    <2>. QED BY <1>4, <2>1, <2>3 DEF WindowHolds
  <1>. QED BY <1>5, <1>6

(* A tick: with the last of a window, its first hit falls out of what is    *)
(* recent.                                                                  *)
LEMMA TickHolds ==
  ASSUME NEW w \in Nat \ {0}, NEW m \in Nat \ {0}, NEW c, NEW l, NEW r,
         WindowTyped(w, m, c, l, r), WindowHolds(w, m, c, l, r),
         NEW d, d = IF l <= 1 THEN 0 ELSE c,
         NEW k, k = IF l = 0 THEN 0 ELSE l - 1,
         NEW q, q = Aged(w, r)
  PROVE  WindowTyped(w, m, d, k, q) /\ WindowHolds(w, m, d, k, q)
  <1>1. /\ c \in 0..m + 1 /\ l \in 0..w /\ (c = 0 <=> l = 0) /\ r \in [0..w - 1 -> Nat]
    BY DEF WindowTyped
  <1>2. d \in 0..m + 1 /\ k \in 0..w /\ (d = 0 <=> k = 0)
    BY <1>1
  <1>3. q[0] = 0 /\ \A a \in 1..w - 1 : q[a] = r[a - 1] /\ r[a - 1] \in Nat /\ r[a] \in Nat
    BY <1>1 DEF Aged
  <1>4. WindowTyped(w, m, d, k, q)
    <2>1. q \in [0..w - 1 -> Nat]
      BY <1>1 DEF Aged
    <2>. QED BY <1>2, <2>1 DEF WindowTyped
  <1>5. \A a \in 1..w - 1 : q[a - 1] <= q[a]
    <2>1. ASSUME NEW a \in 1..w - 1  PROVE q[a - 1] <= q[a]
      <3>1. q[a] = r[a - 1] /\ r[a - 1] \in Nat
        BY <1>3
      <3>2. CASE a = 1
        BY <1>3, <3>1, <3>2
      <3>3. CASE a # 1
        <4>1. a - 1 \in 1..w - 1
          BY <3>3
        <4>2. q[a - 1] = r[a - 1 - 1] /\ r[a - 1 - 1] <= r[a - 1]
          BY <1>3, <4>1 DEF WindowHolds
        <4>. QED BY <3>1, <4>2
      <3>. QED BY <3>2, <3>3
    <2>. QED BY <2>1
  <1>6. q[w - 1] <= r[w - 1] /\ q[w - 1] \in Nat /\ r[w - 1] \in Nat
    <2>1. w - 1 \in 0..w - 1 /\ r[w - 1] \in Nat
      BY <1>1
    <2>2. CASE w = 1
      BY <1>3, <2>1, <2>2
    <2>3. CASE w # 1
      <3>1. w - 1 \in 1..w - 1
        BY <2>3
      <3>. QED BY <1>3, <3>1 DEF WindowHolds
    <2>. QED BY <2>2, <2>3
  <1>7. CASE l = 0
    <2>1. k = 0
      BY <1>7
    <2>2. r[w - 1] <= m - 1
      BY <1>7 DEF WindowHolds
    <2>3. q[w - 1] <= m - 1
      BY <1>6, <2>2
    <2>. QED BY <1>3, <1>4, <1>5, <2>1, <2>3 DEF WindowHolds
  <1>8. CASE l = 1
    <2>1. k = 0
      BY <1>8
    <2>2. r[w - 1] <= m
      BY <1>8 DEF WindowHolds
    <2>3. q[w - 1] <= m - 1
      <3>1. CASE w = 1
        BY <1>3, <3>1
      <3>2. CASE w # 1
        <4>1. w - 1 \in 1..w - 1
          BY <3>2
        <4>2. q[w - 1] = r[w - 1 - 1] /\ r[w - 1 - 1] \in Nat
          BY <1>3, <4>1
        <4>3. r[w - 1] - r[w - 1 - 1] >= 1
          BY <1>8, <3>2 DEF WindowHolds
        <4>. QED BY <1>6, <2>2, <4>2, <4>3
      <3>. QED BY <3>1, <3>2
    <2>. QED BY <1>3, <1>4, <1>5, <2>1, <2>3 DEF WindowHolds
  <1>9. CASE l > 1
    <2>1. /\ w - l + 1 \in 1..w - 1 /\ k = l - 1 /\ d = c /\ w - k = w - l + 1
          /\ k > 0 /\ k # w /\ w - k - 1 = w - l
      BY <1>1, <1>9
    <2>2. PICK a \in 1..w - 1 : a = w - k
      BY <2>1
    <2>3. a - 1 = w - l
      BY <2>1, <2>2
    <2>4. q[w - k] = r[w - l] /\ r[w - l] \in Nat
      BY <1>3, <2>2, <2>3
    <2>5. r[w - l] <= c /\ r[w - l] <= m /\ r[w - 1] - r[w - l] <= m - 1
      BY <1>1, <1>9 DEF WindowHolds
    <2>6. q[w - 1] - q[w - k] <= m - 1
      BY <1>6, <2>4, <2>5
    <2>7. q[w - k] - q[w - k - 1] >= 1
      <3>1. CASE l = w
        <4>1. w - l = 0 /\ r[0] >= 1
          BY <1>1, <1>9, <3>1 DEF WindowHolds
        <4>2. q[w - k - 1] = 0
          BY <1>3, <2>1, <4>1
        <4>. QED BY <2>4, <4>1, <4>2
      <3>2. CASE l # w
        <4>1. w - l \in 1..w - 1
          BY <1>1, <1>9, <3>2
        <4>2. q[w - l] = r[w - l - 1] /\ r[w - l - 1] \in Nat
          BY <1>3, <4>1
        <4>3. r[w - l] - r[w - l - 1] >= 1
          BY <1>1, <1>9, <3>2 DEF WindowHolds
        <4>. QED BY <2>1, <2>4, <4>2, <4>3
      <3>. QED BY <3>1, <3>2
    <2>8. k # 0 /\ q[w - k] <= d /\ q[w - k] <= m
      BY <1>2, <2>1, <2>4, <2>5
    <2>. QED BY <1>4, <1>5, <2>1, <2>6, <2>7, <2>8 DEF WindowHolds
  <1>. QED BY <1>1, <1>7, <1>8, <1>9

-----------------------------------------------------------------------------

(* A bucket that has not been hit since the process started.                *)
LEMMA UnusedHolds ==
  ASSUME NEW b \in Buckets, NEW r, r = [a \in 0..Window[b[1]] - 1 |-> 0]
  PROVE  /\ WindowTyped(Window[b[1]], Limit[b[1]], 0, 0, r)
         /\ WindowHolds(Window[b[1]], Limit[b[1]], 0, 0, r)
  <1> DEFINE w == Window[b[1]]
             m == Limit[b[1]]
  <1>1. w \in Nat \ {0} /\ m \in Nat \ {0}
    BY LimitsTyped
  <1> HIDE DEF w, m
  <1>2. r = [a \in 0..w - 1 |-> 0]
    BY DEF w
  <1>3. \A a \in 0..w - 1 : r[a] = 0
    BY <1>2
  <1>4. WindowTyped(w, m, 0, 0, r)
    <2>1. r \in [0..w - 1 -> Nat]
      BY <1>2
    <2>2. 0 \in 0..m + 1 /\ 0 \in 0..w
      BY <1>1
    <2>. QED BY <2>1, <2>2 DEF WindowTyped
  <1>5. \A a \in 1..w - 1 : r[a - 1] <= r[a]
    <2>1. ASSUME NEW a \in 1..w - 1  PROVE r[a - 1] <= r[a]
      <3>1. a - 1 \in 0..w - 1 /\ a \in 0..w - 1
        BY <1>1
      <3>2. r[a - 1] = 0 /\ r[a] = 0
        BY <1>3, <3>1
      <3>. QED BY <3>2
    <2>. QED BY <2>1
  <1>6. r[0] = 0 /\ r[w - 1] = 0 /\ 0 <= m - 1
    <2>1. 0 \in 0..w - 1 /\ w - 1 \in 0..w - 1 /\ 0 <= m - 1
      BY <1>1
    <2>. QED BY <1>3, <2>1
  <1>7. WindowHolds(w, m, 0, 0, r)
    <2>1. ~ (0 > 0)
      OBVIOUS
    <2>. QED BY <1>5, <1>6, <2>1, Zenon DEF WindowHolds
  <1>. QED BY <1>4, <1>7 DEF w, m

LimiterTyped ==
  /\ count \in [Buckets -> Nat] /\ left \in [Buckets -> Nat] /\ DOMAIN recent = Buckets
  /\ \A b \in Buckets : WindowTyped(Window[b[1]], Limit[b[1]], count[b], left[b], recent[b])

LimiterHolds == LimiterTyped /\ WindowsHold

Answered == [form : Forms \cup {None}, admitted : BOOLEAN]

LEMMA WellFormedIs ==
  WellFormed <=> /\ up \in BOOLEAN /\ limited \in BOOLEAN /\ judged \in Answered
                 /\ LimiterHolds
  BY DEF WellFormed, TypeOK, LimiterHolds, LimiterTyped, WindowTyped, Ages, Answered

LEMMA FreshHolds == FreshLimiter => LimiterHolds
  <1> SUFFICES ASSUME FreshLimiter  PROVE LimiterHolds
    OBVIOUS
  <1>1. ASSUME NEW b \in Buckets
        PROVE  /\ count[b] = 0 /\ left[b] = 0
               /\ recent[b] = [a \in 0..Window[b[1]] - 1 |-> 0]
    BY DEF FreshLimiter, NothingRecent, Ages
  <1>2. ASSUME NEW b \in Buckets
        PROVE  /\ WindowTyped(Window[b[1]], Limit[b[1]], count[b], left[b], recent[b])
               /\ WindowHolds(Window[b[1]], Limit[b[1]], count[b], left[b], recent[b])
    BY <1>1, UnusedHolds
  <1>3. count \in [Buckets -> Nat] /\ left \in [Buckets -> Nat] /\ DOMAIN recent = Buckets
    BY DEF FreshLimiter, NothingRecent
  <1>. QED BY <1>2, <1>3 DEF LimiterHolds, LimiterTyped, WindowsHold

LEMMA HitKeepsLimiter ==
  ASSUME LimiterHolds, NEW b \in Buckets, NEW admitted \in BOOLEAN, Hit(b, admitted)
  PROVE  LimiterHolds' /\ limited' = limited /\ up' = up
  <1> DEFINE w == Window[b[1]]
             m == Limit[b[1]]
  <1>1. w \in Nat \ {0} /\ m \in Nat \ {0}
    BY LimitsTyped
  <1>2. /\ WindowTyped(w, m, count[b], left[b], recent[b])
        /\ WindowHolds(w, m, count[b], left[b], recent[b])
        /\ count \in [Buckets -> Nat] /\ left \in [Buckets -> Nat] /\ DOMAIN recent = Buckets
    BY DEF LimiterHolds, LimiterTyped, WindowsHold
  <1>3. CASE ~limited
    BY <1>3 DEF Hit, limiterVars, LimiterHolds, LimiterTyped, WindowsHold
  <1>4. CASE limited
    <2>1. Counted(b) = IF count[b] <= m THEN count[b] + 1 ELSE m + 1
      BY <1>1, <1>2, CountedIs DEF Counted
    <2>2. /\ count' = [count EXCEPT ![b] = Counted(b)]
          /\ left' = [left EXCEPT ![b] = WindowOf(b)]
          /\ WindowOf(b) = IF count[b] = 0 THEN w ELSE left[b]
      BY <1>4 DEF Hit, WindowOf
    <2>3. /\ DOMAIN recent' = Buckets
          /\ \A c \in Buckets \ {b} : recent'[c] = recent[c]
          /\ recent'[b] = IF Counted(b) <= m THEN Raised(w, recent[b]) ELSE recent[b]
      BY <1>2, <1>4 DEF Hit, Allows, Ages, Raised
    <2>4. /\ WindowTyped(w, m, count'[b], left'[b], recent'[b])
          /\ WindowHolds(w, m, count'[b], left'[b], recent'[b])
      <3>1. /\ count'[b] = IF count[b] <= m THEN count[b] + 1 ELSE m + 1
            /\ left'[b] = IF count[b] = 0 THEN w ELSE left[b]
            /\ recent'[b] = IF count'[b] <= m THEN Raised(w, recent[b]) ELSE recent[b]
        BY <1>2, <2>1, <2>2, <2>3
      <3> HIDE DEF w, m
      <3>. QED BY <1>1, <1>2, <3>1, HitHolds
    <2>5. count' \in [Buckets -> Nat] /\ left' \in [Buckets -> Nat]
      BY <1>1, <1>2, <2>1, <2>2
    <2>6. \A c \in Buckets \ {b} : count'[c] = count[c] /\ left'[c] = left[c]
      BY <1>2, <2>2
    <2>7. LimiterTyped'
      BY <2>3, <2>4, <2>5, <2>6 DEF LimiterHolds, LimiterTyped
    <2>8. WindowsHold'
      BY <2>3, <2>4, <2>6 DEF LimiterHolds, WindowsHold
    <2>. QED BY <2>7, <2>8 DEF LimiterHolds, Hit
  <1>. QED BY <1>3, <1>4 DEF Hit

LEMMA TickKeepsLimiter ==
  ASSUME LimiterHolds, Tick  PROVE LimiterHolds'
  <1>1. /\ DOMAIN recent' = Buckets
        /\ \A b \in Buckets :
             /\ count'[b] = IF left[b] <= 1 THEN 0 ELSE count[b]
             /\ left'[b] = IF left[b] = 0 THEN 0 ELSE left[b] - 1
             /\ recent'[b] = Aged(Window[b[1]], recent[b])
    BY DEF Tick, Ages, Aged
  <1>2. ASSUME NEW b \in Buckets
        PROVE  /\ WindowTyped(Window[b[1]], Limit[b[1]], count'[b], left'[b], recent'[b])
               /\ WindowHolds(Window[b[1]], Limit[b[1]], count'[b], left'[b], recent'[b])
    <2> DEFINE w == Window[b[1]]
               m == Limit[b[1]]
    <2>1. w \in Nat \ {0} /\ m \in Nat \ {0}
      BY LimitsTyped
    <2>2. /\ WindowTyped(w, m, count[b], left[b], recent[b])
          /\ WindowHolds(w, m, count[b], left[b], recent[b])
      BY DEF LimiterHolds, LimiterTyped, WindowsHold
    <2>3. recent'[b] = Aged(w, recent[b])
      BY <1>1
    <2> HIDE DEF w, m
    <2>4. /\ WindowTyped(w, m, count'[b], left'[b], recent'[b])
          /\ WindowHolds(w, m, count'[b], left'[b], recent'[b])
      BY <1>1, <2>1, <2>2, <2>3, TickHolds
    <2>. QED BY <2>4 DEF w, m
  <1>3. count' \in [Buckets -> Nat] /\ left' \in [Buckets -> Nat]
    <2>1. count \in [Buckets -> Nat] /\ left \in [Buckets -> Nat]
      BY DEF LimiterHolds, LimiterTyped
    <2>2. \A b \in Buckets : /\ (IF left[b] = 0 THEN 0 ELSE left[b] - 1) \in Nat
                             /\ (IF left[b] <= 1 THEN 0 ELSE count[b]) \in Nat
      BY <2>1
    <2>. QED BY <2>2 DEF Tick
  <1>. QED BY <1>1, <1>2, <1>3 DEF LimiterHolds, LimiterTyped, WindowsHold

LEMMA UnjudgedTyped == Unjudged \in Answered
  BY DEF Unjudged, Answered

LEMMA InitWellFormed == Init => WellFormed
  BY UnjudgedTyped, FreshHolds, WellFormedIs DEF Init

(* Every call and every tick leaves the limiter sound, and the answer to a  *)
(* form is one of the two there are.                                        *)
LEMMA NextWellFormed == WellFormed /\ [Next]_vars => WellFormed'
  <1> SUFFICES ASSUME WellFormed, [Next]_vars  PROVE WellFormed'
    OBVIOUS
  <1>1. /\ up \in BOOLEAN /\ limited \in BOOLEAN /\ judged \in Answered /\ LimiterHolds
    BY WellFormedIs
  <1>2. ASSUME up' \in BOOLEAN, limited' \in BOOLEAN, judged' \in Answered, LimiterHolds'
        PROVE  WellFormed'
    <2>1. (WellFormed <=> /\ up \in BOOLEAN /\ limited \in BOOLEAN /\ judged \in Answered
                          /\ LimiterHolds)'
      BY WellFormedIs, PTL
    <2>. QED BY <1>2, <2>1 DEF Answered
  <1>3. UNCHANGED limiterVars => LimiterHolds'
    BY <1>1 DEF limiterVars, LimiterHolds, LimiterTyped, WindowsHold
  <1>4. ASSUME NEW f \in Forms, NEW admitted \in BOOLEAN
        PROVE  [form |-> f, admitted |-> admitted] \in Answered
    BY DEF Answered
  <1>5. ASSUME NEW c \in Confs, Start(c)  PROVE WellFormed'
    <2>1. up' \in BOOLEAN /\ limited' \in BOOLEAN /\ judged' = Unjudged
      BY <1>5 DEF Start, Confs
    <2>. QED BY <1>2, <1>3, <1>5, <2>1, UnjudgedTyped DEF Start, Answered
  <1>6. CASE Stop
    <2>1. FreshLimiter'
      BY <1>6 DEF Stop, FreshLimiter
    <2>2. (FreshLimiter => LimiterHolds)'
      BY FreshHolds, PTL
    <2>3. up' \in BOOLEAN /\ limited' \in BOOLEAN /\ judged' = Unjudged
      BY <1>6 DEF Stop
    <2>. QED BY <1>2, <2>1, <2>2, <2>3, UnjudgedTyped DEF Answered
  <1>7. ASSUME NEW f \in Forms, RegisterRefused(f)  PROVE WellFormed'
    BY <1>1, <1>2, <1>3, <1>4, <1>7 DEF RegisterRefused, Answered
  <1>8. ASSUME NEW b \in Buckets, NEW admitted \in BOOLEAN, Hit(b, admitted), judged' \in Answered
        PROVE  WellFormed'
    BY <1>1, <1>2, <1>8, HitKeepsLimiter DEF Answered
  <1>9. ASSUME NEW f \in Forms, NEW k \in Clients, Register(f, k)  PROVE WellFormed'
    <2>1. <<"register", k>> \in Buckets
      BY AdmissionAssumption DEF Buckets
    <2>2. judged' \in Answered
      BY <1>4, <1>9, UnjudgedTyped DEF Register, Answered
    <2>. QED BY <1>8, <1>9, <2>1, <2>2 DEF Register
  <1>10. ASSUME NEW e \in Endpoints, NEW k \in Clients, Call(e, k)  PROVE WellFormed'
    <2>1. <<e, k>> \in Buckets
      BY DEF Buckets
    <2>2. judged' \in Answered
      BY <1>10, UnjudgedTyped DEF Call, Answered
    <2>. QED BY <1>8, <1>10, <2>1, <2>2 DEF Call
  <1>11. CASE Tick
    <2>1. judged' = Unjudged /\ up' = up /\ limited' = limited
      BY <1>11 DEF Tick
    <2>. QED BY <1>1, <1>2, <1>11, <2>1, TickKeepsLimiter, UnjudgedTyped DEF Answered
  <1>12. CASE UNCHANGED vars
    BY <1>1, <1>2, <1>3, <1>12 DEF vars, Answered, limiterVars
  <1>. QED
    BY <1>5, <1>6, <1>7, <1>9, <1>10, <1>11, <1>12 DEF Next, Valid

THEOREM AlwaysWellFormed == Spec => []WellFormed
  BY InitWellFormed, NextWellFormed, PTL DEF Spec

(* Every reachable state has the declared types.                            *)
THEOREM TypeCorrect == Spec => []TypeOK
  <1>1. WellFormed => TypeOK
    BY DEF WellFormed
  <1>. QED BY <1>1, AlwaysWellFormed, PTL

(* Whenever and however often an address calls, while the process lives, no *)
(* more than twice the limit less one of its calls pass an endpoint in the  *)
(* time of one window (rate_limit.py:14-22).                                *)
THEOREM BurstTheorem == Spec => []BurstBounded
  <1>1. WellFormed => BurstBounded
    <2> SUFFICES ASSUME WellFormed, NEW b \in Buckets
                 PROVE  recent[b][Window[b[1]] - 1] <= 2 * Limit[b[1]] - 1
      BY DEF BurstBounded
    <2> DEFINE w == Window[b[1]]
               m == Limit[b[1]]
               l == left[b]
               r == recent[b]
    <2>1. w \in Nat \ {0} /\ m \in Nat \ {0}
      BY LimitsTyped
    <2>2. WindowTyped(w, m, count[b], l, r) /\ WindowHolds(w, m, count[b], l, r)
      BY WellFormedIs DEF LimiterHolds, LimiterTyped, WindowsHold
    <2> HIDE DEF w, m, l, r
    <2>3. l \in 0..w
      BY <2>2 DEF WindowTyped
    <2>4. r[w - 1] \in Nat /\ (l > 0 => r[w - l] \in Nat)
      <3>1. r \in [0..w - 1 -> Nat]
        BY <2>2 DEF WindowTyped
      <3>2. w - 1 \in 0..w - 1 /\ (l > 0 => w - l \in 0..w - 1)
        BY <2>1, <2>3
      <3>. QED BY <3>1, <3>2
    <2>5. l = 0 => r[w - 1] <= m - 1
      BY <2>2 DEF WindowHolds
    <2>6. l > 0 => r[w - l] <= m /\ r[w - 1] - r[w - l] <= m - 1
      BY <2>2 DEF WindowHolds
    <2>7. r[w - 1] <= 2 * m - 1
      BY <2>1, <2>3, <2>4, <2>5, <2>6
    <2>. QED BY <2>7 DEF w, m, r
  <1>. QED BY <1>1, AlwaysWellFormed, PTL
-----------------------------------------------------------------------------
(* The policy.                                                              *)

(* What the proofs need of the alphabet.                                    *)
LEMMA CharsTyped ==
  /\ \A c \in Chars : /\ LowerOf[c] \in Chars /\ LowerOf[LowerOf[c]] = LowerOf[c]
                      /\ c \in Blanks => LowerOf[c] \in Blanks
  /\ MinLength \in Nat \ {0} /\ MaxLength \in Nat \ {0} /\ MinToken \in Nat \ {0}
  /\ \A w \in Common : w \in Seq(Chars) /\ Len(w) \in Nat \ {0}
  /\ \A w \in Common : w[1] \notin Blanks /\ w[Len(w)] \notin Blanks
  <1>1. \A w \in Common : w \in Seq(Chars) /\ Len(w) \in Nat \ {0}
    BY PasswordsAssumption, EmptySeq
  <1>2. \A w \in Common : w[1] \notin Blanks /\ w[Len(w)] \notin Blanks
    BY PasswordsAssumption
  <1>3. \A c \in Chars : LowerOf[c] \in Chars /\ LowerOf[LowerOf[c]] = LowerOf[c]
    BY PasswordsAssumption
  <1>4. \A c \in Blanks : LowerOf[c] \in Blanks
    BY PasswordsAssumption
  <1>5. MinLength \in Nat \ {0} /\ MaxLength \in Nat \ {0} /\ MinToken \in Nat \ {0}
    BY PasswordsAssumption
  <1>. QED BY <1>1, <1>2, <1>3, <1>4, <1>5

LEMMA CommonLower ==
  ASSUME NEW w \in Common, NEW k \in 1..Len(w)
  PROVE  LowerOf[w[k]] = w[k]
  <1>1. Lower(w) = w /\ w \in Seq(Chars)
    BY PasswordsAssumption
  <1>2. DOMAIN w = 1..Len(w)
    BY <1>1, LenProperties
  <1>3. Lower(w)[k] = LowerOf[w[k]]
    BY <1>2 DEF Lower
  <1>. QED BY <1>1, <1>3

LEMMA LowerTyped ==
  ASSUME NEW s \in Seq(Chars)
  PROVE  /\ Lower(s) \in Seq(Chars) /\ Len(Lower(s)) = Len(s) /\ Len(s) \in Nat
         /\ DOMAIN s = 1..Len(s)
         /\ \A k \in 1..Len(s) : s[k] \in Chars /\ Lower(s)[k] = LowerOf[s[k]]
  <1>1. /\ Len(s) \in Nat /\ DOMAIN s = 1..Len(s) /\ \A k \in 1..Len(s) : s[k] \in Chars
    BY LenProperties, ElementOfSeq
  <1>2. Lower(s) = [k \in 1..Len(s) |-> LowerOf[s[k]]]
    BY <1>1 DEF Lower
  <1>3. Lower(s) \in [1..Len(s) -> Chars] /\ \A k \in 1..Len(s) : Lower(s)[k] = LowerOf[s[k]]
    BY <1>1, <1>2, CharsTyped
  <1>4. Lower(s) \in Seq(Chars)
    BY <1>1, <1>3, SeqDef
  <1>5. Len(Lower(s)) = Len(s)
    <2>1. DOMAIN Lower(s) = 1..Len(s) /\ DOMAIN Lower(s) = 1..Len(Lower(s))
      BY <1>3, <1>4, LenProperties
    <2>2. Len(Lower(s)) \in Nat
      BY <1>4, LenProperties
    <2>. QED BY <1>1, <2>1, <2>2
  <1>. QED BY <1>1, <1>3, <1>4, <1>5

(* A piece of a text is as long as it says.                                 *)
LEMMA PieceOf ==
  ASSUME NEW s \in Seq(Chars), NEW i \in 1..Len(s), NEW j \in i..Len(s)
  PROVE  /\ SubSeq(s, i, j) \in Seq(Chars) /\ Len(SubSeq(s, i, j)) = j - i + 1
         /\ \A k \in 1..j - i + 1 : SubSeq(s, i, j)[k] = s[i + k - 1]
  <1>1. Len(s) \in Nat /\ i \in Int /\ j \in Int /\ i <= j
    BY LenProperties
  <1>2. \A k \in i..j : s[k] \in Chars
    BY <1>1, ElementOfSeq
  <1>. QED BY <1>1, <1>2, SubSeqProperties

(* What an occurrence is, to who searches the lowercase form and to who     *)
(* compares letter by letter.                                               *)
LEMMA OccursWhereSpelled ==
  ASSUME NEW s \in Seq(Chars), NEW t \in Seq(Chars), Len(t) >= 1
  PROVE  Lower(t) \in SubSeqs(Lower(s)) <=> \E at \in DOMAIN s : Spells(s, at, t)
  <1> DEFINE S == Lower(s)
             T == Lower(t)
             n == Len(t)
  <1>1. /\ S \in Seq(Chars) /\ Len(S) = Len(s) /\ Len(s) \in Nat /\ DOMAIN s = 1..Len(s)
        /\ \A k \in 1..Len(s) : S[k] = LowerOf[s[k]]
    BY LowerTyped
  <1>2. /\ T \in Seq(Chars) /\ Len(T) = n /\ n \in Nat /\ n >= 1 /\ DOMAIN t = 1..n
        /\ \A k \in 1..n : T[k] = LowerOf[t[k]]
    BY LowerTyped
  <1> HIDE DEF S, T, n
  <1>3. ASSUME T \in SubSeqs(S)  PROVE \E at \in DOMAIN s : Spells(s, at, t)
    <2>1. PICK i \in 0..Len(S), j \in 0..Len(S) : T = SubSeq(S, i + 1, j)
      BY <1>3 DEF SubSeqs
    <2>2. i < j
      <3>1. SUFFICES ASSUME ~ (i < j)  PROVE FALSE
        OBVIOUS
      <3>2. T = <<>>
        BY <1>1, <2>1, <3>1, SubSeqEmpty
      <3>. QED BY <1>2, <3>2, EmptySeq
    <2>3. i + 1 \in 1..Len(S) /\ j \in i + 1..Len(S)
      BY <1>1, <2>2
    <2>4. n = j - i /\ \A k \in 1..n : T[k] = S[i + k]
      <3>1. Len(T) = j - (i + 1) + 1 /\ \A k \in 1..j - (i + 1) + 1 : T[k] = S[i + 1 + k - 1]
        BY <1>1, <2>1, <2>3, PieceOf
      <3>2. j - (i + 1) + 1 = j - i
        BY <1>1
      <3>3. \A k \in 1..j - i : i + 1 + k - 1 = i + k
        BY <1>1
      <3>. QED BY <1>2, <3>1, <3>2, <3>3
    <2>5. ASSUME NEW k \in 1..n  PROVE SameLetter(s[i + 1 + k - 1], t[k])
      <3>1. i + k \in 1..Len(s) /\ i + 1 + k - 1 = i + k
        BY <1>1, <1>2, <2>4
      <3>2. LowerOf[s[i + k]] = LowerOf[t[k]]
        BY <1>1, <1>2, <2>4, <3>1
      <3>. QED BY <3>1, <3>2 DEF SameLetter
    <2>6. i + 1 + n - 1 <= Len(s) /\ i + 1 \in DOMAIN s
      BY <1>1, <1>2, <2>3, <2>4
    <2>. QED BY <1>2, <2>5, <2>6 DEF Spells, n
  <1>4. ASSUME NEW at \in DOMAIN s, Spells(s, at, t)  PROVE T \in SubSeqs(S)
    <2>1. /\ at \in 1..Len(s) /\ at + n - 1 <= Len(s)
          /\ \A k \in 1..n : LowerOf[s[at + k - 1]] = LowerOf[t[k]]
      BY <1>1, <1>2, <1>4 DEF Spells, SameLetter, n
    <2> DEFINE j == at + n - 1
               P == SubSeq(S, at, j)
    <2>2. at \in 1..Len(S) /\ j \in at..Len(S) /\ j - at + 1 = n
      BY <1>1, <1>2, <2>1
    <2>3. P \in Seq(Chars) /\ Len(P) = n /\ \A k \in 1..n : P[k] = S[at + k - 1]
      <3> HIDE DEF j
      <3>. QED BY <1>1, <2>2, PieceOf
    <2>4. \A k \in 1..n : P[k] = T[k]
      <3>1. ASSUME NEW k \in 1..n  PROVE P[k] = T[k]
        <4>1. at + k - 1 \in 1..Len(s)
          BY <1>1, <1>2, <2>1
        <4> HIDE DEF P
        <4>. QED BY <1>1, <1>2, <2>1, <2>3, <4>1
      <3>. QED BY <3>1
    <2>5. T = P
      <3> HIDE DEF P
      <3>. QED BY <1>2, <2>3, <2>4, SeqEqual
    <2>6. at - 1 \in 0..Len(S) /\ j \in 0..Len(S) /\ (at - 1) + 1 = at
      BY <1>1, <1>2, <2>1
    <2>. QED
      <3> HIDE DEF j
      <3>. QED BY <2>5, <2>6 DEF SubSeqs
  <1>. QED BY <1>3, <1>4 DEF S, T
(* The first and the last of some places in a text.                         *)
LEMMA LeastNumber ==
  ASSUME NEW T, T \subseteq Nat, T # {}
  PROVE  \E m \in T : \A k \in T : m <= k
  <1> DEFINE R == {p \in Nat \X Nat : p[1] < p[2]}
  <1>1. IsWellFoundedOn(R, Nat)
    BY NatLessThanWellFounded DEF OpToRel
  <1>2. PICK m \in T : \A k \in T : <<k, m>> \notin R
    BY <1>1, WFMin
  <1>3. ASSUME NEW k \in T  PROVE m <= k
    <2>1. <<k, m>> \in Nat \X Nat /\ ~ (k < m)
      BY <1>2, <1>3
    <2>. QED BY <2>1
  <1>. QED BY <1>3

LEMMA FirstAndLast ==
  ASSUME NEW n \in Nat, NEW K, K \subseteq 1..n, K # {}
  PROVE  /\ Min(K) \in K /\ Max(K) \in K
         /\ \A k \in K : Min(K) <= k /\ k <= Max(K)
  <1>1. \E m \in K : \A k \in K : m <= k
    <2>1. K \subseteq Nat
      OBVIOUS
    <2>. QED BY <2>1, LeastNumber
  <1>2. \E m \in K : \A k \in K : m >= k
    <2> DEFINE T == {m \in Nat : \A k \in K : k <= m}
    <2>1. n \in T
      OBVIOUS
    <2>2. PICK m \in T : \A k \in T : m <= k
      BY <2>1, LeastNumber
    <2>3. m \in K
      <3>1. SUFFICES ASSUME m \notin K  PROVE FALSE
        OBVIOUS
      <3>2. \A k \in K : k <= m - 1 /\ m - 1 \in Nat
        BY <3>1
      <3>3. m - 1 \in T
        BY <3>2
      <3>. QED BY <2>2, <3>3
    <2>. QED BY <2>3
  <1>3. Min(K) \in K /\ \A k \in K : Min(K) <= k
    BY <1>1 DEF Min
  <1>4. Max(K) \in K /\ \A k \in K : Max(K) >= k
    BY <1>2 DEF Max
  <1>. QED BY <1>3, <1>4

(* A text without its blanks is a common password if it is one between      *)
(* blanks.                                                                  *)
LEMMA CommonWhereWrapped ==
  ASSUME NEW s \in Seq(Chars), NEW w \in Common
  PROVE  Lower(Strip(s)) = w <=> \E at \in DOMAIN s : Wraps(s, at, w)
  <1> DEFINE n == Len(w)
             kept == {k \in DOMAIN s : s[k] \notin Blanks}
             a == Min(kept)
             b == Max(kept)
  <1>1. Len(s) \in Nat /\ DOMAIN s = 1..Len(s) /\ \A k \in 1..Len(s) : s[k] \in Chars
    BY LowerTyped
  <1>2. /\ w \in Seq(Chars) /\ n \in Nat /\ n >= 1 /\ DOMAIN w = 1..n
        /\ \A k \in 1..n : LowerOf[w[k]] = w[k]
        /\ w[1] \notin Blanks /\ w[n] \notin Blanks
    BY CharsTyped, CommonLower, LenProperties
  <1>3. Strip(s) = IF kept = {} THEN <<>> ELSE SubSeq(s, a, b)
    BY DEF Strip
  <1>4. kept # {} => /\ a \in kept /\ b \in kept /\ \A k \in kept : a <= k /\ k <= b
                     /\ a \in 1..Len(s) /\ b \in a..Len(s)
    <2>1. SUFFICES ASSUME kept # {}
                   PROVE  /\ a \in kept /\ b \in kept /\ \A k \in kept : a <= k /\ k <= b
                          /\ a \in 1..Len(s) /\ b \in a..Len(s)
      OBVIOUS
    <2>2. kept \subseteq 1..Len(s)
      BY <1>1
    <2> HIDE DEF kept
    <2>3. a \in kept /\ b \in kept /\ \A k \in kept : a <= k /\ k <= b
      BY <1>1, <2>1, <2>2, FirstAndLast
    <2> HIDE DEF a, b
    <2>. QED BY <1>1, <2>2, <2>3
  <1>5. ASSUME NEW i \in 1..Len(s), NEW j \in i..Len(s)
        PROVE  /\ Lower(SubSeq(s, i, j)) \in Seq(Chars)
               /\ Len(Lower(SubSeq(s, i, j))) = j - i + 1
               /\ \A k \in 1..j - i + 1 : Lower(SubSeq(s, i, j))[k] = LowerOf[s[i + k - 1]]
    <2> DEFINE P == SubSeq(s, i, j)
    <2>1. /\ P \in Seq(Chars) /\ Len(P) = j - i + 1
          /\ \A k \in 1..j - i + 1 : P[k] = s[i + k - 1]
      BY PieceOf
    <2> HIDE DEF P
    <2>2. /\ Lower(P) \in Seq(Chars) /\ Len(Lower(P)) = Len(P)
          /\ \A k \in 1..Len(P) : Lower(P)[k] = LowerOf[P[k]]
      BY <2>1, LowerTyped
    <2>3. \A k \in 1..j - i + 1 : Lower(P)[k] = LowerOf[s[i + k - 1]]
      BY <2>1, <2>2
    <2>. QED BY <2>1, <2>2, <2>3 DEF P
  <1> HIDE DEF n
  <1>6. ASSUME Lower(Strip(s)) = w  PROVE \E at \in DOMAIN s : Wraps(s, at, w)
    <2>1. kept # {}
      <3>1. Lower(<<>>) = <<>>
        BY DEF Lower
      <3>. QED BY <1>2, <1>3, <1>6, <3>1, EmptySeq DEF n
    <2>2. /\ a \in 1..Len(s) /\ b \in a..Len(s)
          /\ \A k \in 1..Len(s) : k < a \/ k > b => s[k] \in Blanks
      <3>1. a \in 1..Len(s) /\ b \in a..Len(s) /\ \A k \in kept : a <= k /\ k <= b
        BY <1>4, <2>1
      <3>2. ASSUME NEW k \in 1..Len(s), k < a \/ k > b  PROVE s[k] \in Blanks
        <4>1. k \notin kept
          <5> HIDE DEF kept, a, b
          <5>. QED BY <1>1, <3>1, <3>2
        <4>. QED BY <1>1, <4>1
      <3>. QED BY <3>1, <3>2
    <2>3. w = Lower(SubSeq(s, a, b))
      BY <1>3, <1>6, <2>1
    <2> HIDE DEF a, b, kept
    <2>4. n = b - a + 1 /\ \A k \in 1..n : w[k] = LowerOf[s[a + k - 1]]
      BY <1>5, <2>2, <2>3 DEF n
    <2>5. ASSUME NEW k \in 1..n  PROVE SameLetter(s[a + k - 1], w[k])
      BY <1>2, <2>4 DEF SameLetter
    <2>6. a + n - 1 = b /\ a + n = b + 1 /\ b <= Len(s)
      BY <1>1, <2>2, <2>4
    <2>7. ASSUME NEW k \in 1..Len(s), k < a \/ k >= a + n  PROVE s[k] \in Blanks
      <3>1. k < a \/ k > b
        BY <1>1, <2>2, <2>6, <2>7
      <3>. QED BY <2>2, <3>1
    <2>8. Spells(s, a, w)
      BY <1>2, <2>5, <2>6 DEF Spells, n
    <2>. QED BY <1>1, <2>2, <2>7, <2>8 DEF Wraps, n
  <1>7. ASSUME NEW at \in DOMAIN s, Wraps(s, at, w)  PROVE Lower(Strip(s)) = w
    <2>1. /\ at \in 1..Len(s) /\ at + n - 1 \in at..Len(s) /\ at + n - 1 \in 1..Len(s)
          /\ \A k \in 1..n : LowerOf[s[at + k - 1]] = w[k]
      <3>1. /\ at \in 1..Len(s) /\ at + n - 1 <= Len(s)
            /\ \A k \in 1..n : LowerOf[s[at + k - 1]] = LowerOf[w[k]]
        BY <1>1, <1>2, <1>7 DEF Wraps, Spells, SameLetter, n
      <3>2. at + n - 1 \in at..Len(s) /\ at + n - 1 \in 1..Len(s)
        BY <1>1, <1>2, <3>1
      <3>3. \A k \in 1..n : LowerOf[s[at + k - 1]] = w[k]
        BY <1>2, <3>1
      <3>. QED BY <3>1, <3>2, <3>3
    <2>2. \A k \in 1..Len(s) : k < at \/ k >= at + n => s[k] \in Blanks
      BY <1>1, <1>7 DEF Wraps, n
    <2>3. s[at] \notin Blanks /\ s[at + n - 1] \notin Blanks
      <3>1. 1 \in 1..n /\ n \in 1..n /\ at + 1 - 1 = at
        BY <1>2, <2>1
      <3>2. LowerOf[s[at]] = w[1] /\ LowerOf[s[at + n - 1]] = w[n]
        BY <2>1, <3>1
      <3>. QED BY <1>1, <1>2, <2>1, <3>2, CharsTyped
    <2>4. at \in kept /\ at + n - 1 \in kept
      BY <1>1, <2>1, <2>3
    <2>5. \A k \in kept : k \in Nat /\ at <= k /\ k <= at + n - 1
      <3>1. ASSUME NEW k \in 1..Len(s), s[k] \notin Blanks
            PROVE  k \in Nat /\ at <= k /\ k <= at + n - 1
        BY <1>1, <1>2, <2>1, <2>2, <3>1
      <3>. QED BY <1>1, <3>1
    <2>6. a = at /\ b = at + n - 1
      <3>1. a \in kept /\ b \in kept /\ a <= at /\ at + n - 1 <= b
        BY <1>4, <2>4
      <3> HIDE DEF kept, a, b
      <3>. QED BY <1>2, <2>1, <2>5, <3>1
    <2>7. Strip(s) = SubSeq(s, at, at + n - 1)
      BY <1>3, <2>4, <2>6
    <2> HIDE DEF kept, a, b
    <2>8. /\ Lower(Strip(s)) \in Seq(Chars) /\ Len(Lower(Strip(s))) = n
          /\ \A k \in 1..n : Lower(Strip(s))[k] = w[k]
      <3>1. (at + n - 1) - at + 1 = n
        BY <1>2, <2>1
      <3> DEFINE j == at + n - 1
      <3>2. j \in at..Len(s) /\ j - at + 1 = n /\ Strip(s) = SubSeq(s, at, j)
        BY <2>1, <2>7, <3>1
      <3>3. \A k \in 1..n : LowerOf[s[at + k - 1]] = w[k] /\ at \in 1..Len(s)
        BY <2>1
      <3> HIDE DEF j
      <3>4. /\ Lower(SubSeq(s, at, j)) \in Seq(Chars)
            /\ Len(Lower(SubSeq(s, at, j))) = j - at + 1
            /\ \A k \in 1..j - at + 1 : Lower(SubSeq(s, at, j))[k] = LowerOf[s[at + k - 1]]
        BY <1>5, <2>1, <3>2
      <3>. QED BY <3>2, <3>3, <3>4
    <2>. QED BY <1>2, <2>8, SeqEqual DEF n
  <1>. QED BY <1>6, <1>7

(* Two of the characters of s, or one that is of two kinds, differ in kind. *)
TwoKinds(s) == \E j, k \in DOMAIN s : \E a \in KindsOf[s[j]], b \in KindsOf[s[k]] : a # b

(* The classes of a password are fewer than two if no kinds differ.         *)
LEMMA KindsDiffer ==
  ASSUME NEW s \in Seq(Chars)
  PROVE  Cardinality(CharacterClasses(s)) < 2 <=> ~ TwoKinds(s)
  <1> DEFINE C == CharacterClasses(s)
  <1>1. C = UNION {KindsOf[s[k]] : k \in DOMAIN s} /\ C \subseteq Kinds
    <2>1. C = UNION {KindsOf[s[k]] : k \in DOMAIN s}
      BY DEF CharacterClasses, ToSet
    <2>2. \A k \in DOMAIN s : s[k] \in Chars
      <3>1. DOMAIN s = 1..Len(s) /\ \A k \in 1..Len(s) : s[k] \in Chars
        BY LenProperties
      <3>. QED BY <3>1
    <2>3. \A k \in DOMAIN s : KindsOf[s[k]] \subseteq Kinds
      BY <2>2, PasswordsAssumption
    <2>. QED BY <2>1, <2>3
  <1>2. IsFiniteSet(C)
    <2>1. IsFiniteSet({"lower"} \cup {"upper"} \cup {"digit"} \cup {"symbol"})
      <3>1. IsFiniteSet({"lower"})
        BY FS_Singleton
      <3>2. IsFiniteSet({"lower"} \cup {"upper"})
        BY <3>1, FS_AddElement
      <3>3. IsFiniteSet({"lower"} \cup {"upper"} \cup {"digit"})
        BY <3>2, FS_AddElement
      <3>. QED BY <3>3, FS_AddElement
    <2>2. Kinds = {"lower"} \cup {"upper"} \cup {"digit"} \cup {"symbol"}
      BY DEF Kinds
    <2>. QED BY <1>1, <2>1, <2>2, FS_Subset
  <1>3. Cardinality(C) \in Nat
    BY <1>2, FS_CardinalityType
  <1> HIDE DEF C
  <1>4. ASSUME NEW x \in C, NEW y \in C, x # y  PROVE Cardinality(C) >= 2
    <2>1. IsFiniteSet({x} \cup {y}) /\ Cardinality({x} \cup {y}) = 2
      <3>1. IsFiniteSet({x}) /\ Cardinality({x}) = 1 /\ y \notin {x}
        BY <1>4, FS_Singleton
      <3>2. /\ IsFiniteSet({x} \cup {y})
            /\ Cardinality({x} \cup {y}) = IF y \in {x} THEN Cardinality({x})
                                                       ELSE Cardinality({x}) + 1
        BY <3>1, FS_AddElement
      <3>3. Cardinality({x} \cup {y}) = Cardinality({x}) + 1
        BY <3>1, <3>2
      <3>4. Cardinality({x} \cup {y}) = 2
        <4>1. Cardinality({x}) = 1
          BY <3>1
        <4>2. Cardinality({x} \cup {y}) = 1 + 1
          BY <3>3, <4>1
        <4>3. 1 + 1 = 2
          OBVIOUS
        <4>. QED BY <4>2, <4>3
      <3>. QED BY <3>2, <3>4
    <2>2. {x} \cup {y} \in SUBSET C
      OBVIOUS
    <2>. QED BY <1>2, <1>3, <2>1, <2>2, FS_Subset
  <1>5. ASSUME \A x, y \in C : x = y  PROVE Cardinality(C) < 2
    <2>1. CASE C = {}
      BY <2>1, FS_EmptySet
    <2>2. CASE C # {}
      <3>1. PICK x \in C : C = {x}
        BY <1>5, <2>2
      <3>2. Cardinality({x}) = 1
        BY FS_Singleton
      <3>3. Cardinality(C) = 1
        BY <3>1, <3>2
      <3>. QED BY <3>3
    <2>. QED BY <2>1, <2>2
  <1>6. Cardinality(C) < 2 <=> \A x, y \in C : x = y
    BY <1>3, <1>4, <1>5
  <1>7. (\A x, y \in C : x = y) <=> ~ TwoKinds(s)
    <2>1. ASSUME NEW j \in DOMAIN s, NEW k \in DOMAIN s,
                 NEW a \in KindsOf[s[j]], NEW b \in KindsOf[s[k]]
          PROVE  a \in C /\ b \in C
      BY <1>1, <2>1
    <2>2. ASSUME NEW x \in C  PROVE \E k \in DOMAIN s : x \in KindsOf[s[k]]
      BY <1>1, <2>2
    <2>. QED BY <2>1, <2>2, Zenon DEF TwoKinds
  <1>. QED BY <1>6, <1>7 DEF C

(* A text is one repeated character if no two of its characters differ.     *)
LEMMA RepeatedIsSame ==
  ASSUME NEW s \in Seq(Chars), DOMAIN s # {}
  PROVE  Cardinality(ToSet(s)) = 1 <=> \A j, k \in DOMAIN s : s[j] = s[k]
  <1>1. ASSUME Cardinality(ToSet(s)) = 1  PROVE \A j, k \in DOMAIN s : s[j] = s[k]
    <2>1. IsFiniteSet(ToSet(s))
      <3>1. s \in [1..Len(s) -> Chars] /\ IsFiniteSet(1..Len(s))
        <4>1. s \in [1..Len(s) -> Chars] /\ Len(s) \in Nat
          BY LenProperties
        <4>2. 1 \in Int /\ Len(s) \in Int
          BY <4>1
        <4>3. IsFiniteSet(1..Len(s))
          BY <4>2, FS_Interval
        <4>. QED BY <4>1, <4>3
      <3>2. s \in Surjection(1..Len(s), ToSet(s))
        BY <3>1 DEF Surjection, ToSet
      <3>. QED BY <3>1, <3>2, FS_Surjection
    <2>2. PICK x : ToSet(s) = {x}
      BY <1>1, <2>1, FS_Singleton
    <2>. QED BY <2>2 DEF ToSet
  <1>2. ASSUME \A j, k \in DOMAIN s : s[j] = s[k]  PROVE Cardinality(ToSet(s)) = 1
    <2>1. PICK i \in DOMAIN s : TRUE
      OBVIOUS
    <2>2. ToSet(s) = {s[i]}
      BY <1>2, <2>1 DEF ToSet
    <2>. QED BY <2>2, FS_Singleton
  <1>. QED BY <1>1, <1>2

(* Test by test, the code accepts the registrations that have a strong      *)
(* password and a name of admissible length.                                *)
LEMMA AcceptableIsStrong ==
  ASSUME NEW f \in Forms
  PROVE  Acceptable(f) <=> Strong(f) /\ Len(f.name) \in 1..MaxName
  <1> DEFINE s == f.password
  <1>1. s \in Seq(Chars) /\ f.local \in Seq(Chars) /\ f.name \in Seq(Chars)
    BY AdmissionAssumption DEF Forms
  <1>2. Len(s) \in Nat /\ Len(f.local) \in Nat /\ Len(f.name) \in Nat
    BY <1>1, LenProperties
  <1>3. Lower(Strip(s)) \in Common <=> \E at \in DOMAIN s : \E w \in Common : Wraps(s, at, w)
    BY <1>1, CommonWhereWrapped
  <1>4. ASSUME NEW t \in {f.local, f.name}
        PROVE  ContainsToken(s, t) <=> \E at \in DOMAIN s : Len(t) >= MinToken /\ Spells(s, at, t)
    <2>1. t \in Seq(Chars) /\ (Len(t) >= MinToken => Len(t) >= 1)
      BY <1>1, <1>2, CharsTyped
    <2>. QED BY <1>1, <2>1, OccursWhereSpelled DEF ContainsToken
  <1>5. Cardinality(CharacterClasses(s)) < 2 <=> ~ TwoKinds(s)
    BY <1>1, KindsDiffer
  <1>6. TwoKinds(s) =>
          (Cardinality(ToSet(s)) = 1 <=> \A j, k \in DOMAIN s : s[j] = s[k])
    <2>1. TwoKinds(s) => DOMAIN s # {}
      BY DEF TwoKinds
    <2>. QED BY <1>1, <2>1, RepeatedIsSame
  <1>7. Weak(f) <=> \/ ~ Len(s) \in MinLength..MaxLength
                    \/ Cardinality(ToSet(s)) = 1
                    \/ Cardinality(CharacterClasses(s)) < 2
                    \/ Lower(Strip(s)) \in Common
                    \/ \E t \in {f.local, f.name} : ContainsToken(s, t)
    <2>1. Len(s) \in MinLength..MaxLength <=> ~ (Len(s) < MinLength) /\ ~ (Len(s) > MaxLength)
      BY <1>2, CharsTyped
    <2>. QED BY <2>1, Zenon DEF Weak
  <1>8. Strong(f) <=> /\ Len(s) \in MinLength..MaxLength
                      /\ ~ \A j, k \in DOMAIN s : s[j] = s[k]
                      /\ TwoKinds(s)
                      /\ ~ \E at \in DOMAIN s : \E w \in Common : Wraps(s, at, w)
                      /\ \A t \in {f.local, f.name} :
                           ~ \E at \in DOMAIN s : Len(t) >= MinToken /\ Spells(s, at, t)
    BY DEF Strong, TwoKinds
  <1>9. Strong(f) <=> ~ Weak(f)
    <2> HIDE DEF s
    <2>. QED BY <1>3, <1>4, <1>5, <1>6, <1>7, <1>8
  <1>10. Len(s) \in MinLength..MaxLength => Len(s) <= MaxLength
    BY <1>2, CharsTyped
  <1>11. Strong(f) => Len(s) \in MinLength..MaxLength
    BY DEF Strong
  <1>. QED BY <1>9, <1>10, <1>11 DEF Acceptable
(* A form is answered as the policy says, or was not answered for it.       *)
JudgedRight ==
  \/ judged = Unjudged
  \/ \E f \in Valid : judged = [form |-> f, admitted |-> TRUE]
  \/ \E f \in Forms \ Valid : judged = [form |-> f, admitted |-> FALSE]

LEMMA NextJudgedRight == JudgedRight /\ [Next]_vars => JudgedRight'
  <1> SUFFICES ASSUME JudgedRight, [Next]_vars  PROVE JudgedRight'
    OBVIOUS
  <1>1. CASE UNCHANGED vars
    BY <1>1 DEF vars, JudgedRight
  <1>2. ASSUME NEW f \in Valid, NEW k \in Clients, Register(f, k)  PROVE JudgedRight'
    BY <1>2 DEF Register, JudgedRight
  <1>3. ASSUME NEW f \in Forms \ Valid, RegisterRefused(f)  PROVE JudgedRight'
    BY <1>3 DEF RegisterRefused, JudgedRight
  <1>4. ASSUME judged' = Unjudged  PROVE JudgedRight'
    BY <1>4 DEF JudgedRight
  <1>. QED BY <1>1, <1>2, <1>3, <1>4 DEF Next, Start, Stop, Call, Tick

(* A registration reaches its handler only with a strong password, and is   *)
(* refused as invalid only for a weak one or a name out of bounds, for any  *)
(* list of common passwords, any lengths, and texts of any characters that  *)
(* str.lower takes one by one, which are all but U+0130 and U+03A3, also if *)
(* they count as two kinds (passwords.py:30-69, schemas/auth.py:7-17).      *)
THEOREM PolicyTheorem == Spec => []PolicyHolds
  <1>1. Init => JudgedRight
    BY DEF Init, JudgedRight
  <1>2. JudgedRight => PolicyHolds
    <2> SUFFICES ASSUME JudgedRight  PROVE PolicyHolds
      OBVIOUS
    <2>1. CASE judged = Unjudged
      BY <2>1 DEF Unjudged, PolicyHolds
    <2>2. ASSUME NEW f \in Valid, judged = [form |-> f, admitted |-> TRUE]  PROVE PolicyHolds
      <3>1. Strong(f) /\ Len(f.name) \in 1..MaxName
        BY AcceptableIsStrong DEF Valid
      <3>. QED BY <2>2, <3>1 DEF PolicyHolds
    <2>3. ASSUME NEW f \in Forms \ Valid, judged = [form |-> f, admitted |-> FALSE]
          PROVE  PolicyHolds
      <3>1. ~ (Strong(f) /\ Len(f.name) \in 1..MaxName)
        BY AcceptableIsStrong DEF Valid
      <3>. QED BY <2>3, <3>1 DEF PolicyHolds
    <2>. QED BY <2>1, <2>2, <2>3 DEF JudgedRight
  <1>. QED BY <1>1, <1>2, NextJudgedRight, PTL DEF Spec
=============================================================================
