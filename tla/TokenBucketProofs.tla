-------------------------- MODULE TokenBucketProofs --------------------------
(* TokenBucket's type and its rate, for every rate, capacity and client. *)
EXTENDS TokenBucket, TLAPS

\* The products of the rate's two sides are numbers.
LEMMA Products ==
  ASSUME NEW n \in Int, NEW m \in Int, NEW u \in Int,
         NEW x \in Int, NEW y \in Int, NEW z \in Int
  PROVE  (n - m + 1) * u \in Int /\ (x - y) * z \in Int
  OBVIOUS

LEMMA DivNat == ASSUME NEW a \in Nat, NEW b \in Nat \ {0} PROVE a \div b \in Nat
  OBVIOUS

\* So many whole ticks refill at least as much as was asked for.
LEMMA CeilDivCovers ==
  ASSUME NEW a \in Nat, NEW b \in Nat \ {0}
  PROVE CeilDiv(a, b) \in Nat /\ a <= b * CeilDiv(a, b)
<1> DEFINE n == a + b - 1
           q == n \div b
<1>1. n \in Nat /\ q \in Nat
  BY DivNat
<1>2. n = b * q + (n % b) /\ n % b \in 0 .. (b - 1)
  BY <1>1
<1>3. a <= b * q
  BY <1>1, <1>2
<1> QED BY <1>1, <1>3 DEF CeilDiv

LEMMA LevelRange ==
  ASSUME TypeOK, NEW k \in Key
  PROVE Level(k) \in Nat /\ Level(k) <= Capacity[k]
  BY BucketAssumption DEF TypeOK, Bucket, Level, Capped

LEMMA GrantNumbers ==
  ASSUME TypeOK, NEW k \in Key, NEW i \in DOMAIN grants[k]
  PROVE  /\ elapsed \in Int /\ grants[k][i] \in Int
         /\ Refill[k] \in Int /\ Capacity[k] \in Int
         /\ (Len(grants[k]) - i + 1) * Unit \in Int
         /\ (elapsed - grants[k][i]) * Refill[k] \in Int
<1> DEFINE n == Len(grants[k])
           y == grants[k][i]
           z == Refill[k]
<1>1. n \in Int /\ i \in Int /\ y \in Int
  BY DEF TypeOK
<1>2. elapsed \in Int /\ z \in Int /\ Capacity[k] \in Int /\ Unit \in Int
  BY BucketAssumption DEF TypeOK
<1> HIDE DEF n, y, z
<1>3. (n - i + 1) * Unit \in Int /\ (elapsed - y) * z \in Int
  BY <1>1, <1>2, Products
<1> QED BY <1>1, <1>2, <1>3 DEF n, y, z

\* What a bucket may still grant at once.
Stock(k) ==
    IF bucket[k] = NoBucket THEN Capacity[k]
    ELSE bucket[k].tokens + (IF now < bucket[k].at THEN 0 ELSE now - bucket[k].at) * Refill[k]

LEMMA StockCoversLevel ==
  ASSUME TypeOK, NEW k \in Key
  PROVE Stock(k) \in Nat /\ Level(k) <= Stock(k)
  BY BucketAssumption DEF TypeOK, Bucket, Level, Capped, Stock

\* A window from a grant up to now holds room for the stock as well.
Fits(k, i, g, e, stock) ==
    (Len(g) - i + 1) * Unit + stock <= Capacity[k] + (e - g[i]) * Refill[k]

Room == \A k \in Key : \A i \in DOMAIN grants[k] : Fits(k, i, grants[k], elapsed, Stock(k))

IInv == TypeOK /\ Room /\ WithinRate

LEMMA InitInv == Init => IInv
  BY BucketAssumption DEF Init, IInv, TypeOK, Room, Fits, WithinRate
----------------------------------------------------------------------------
LEMMA DebitType ==
  ASSUME TypeOK, NEW k \in Key, Debit(k)
  PROVE /\ bucket' \in [Key -> Bucket \cup {NoBucket}]
        /\ bucket'[k] = [tokens |-> IF Level(k) >= Unit THEN Level(k) - Unit ELSE Level(k),
                         at |-> now]
        /\ bucket'[k] # NoBucket
        /\ \A l \in Key \ {k} : bucket'[l] = bucket[l]
<1> DEFINE b == [tokens |-> IF Level(k) >= Unit THEN Level(k) - Unit ELSE Level(k), at |-> now]
<1>1. b \in Bucket
  BY LevelRange, BucketAssumption DEF TypeOK, Bucket
<1>2. b # NoBucket
  <2>1. b \in [tokens : Int, at : Int]
    BY <1>1 DEF Bucket
  <2> QED BY <2>1, BucketAssumption
<1>3. bucket' = [bucket EXCEPT ![k] = b]
  BY DEF Debit
<1> HIDE DEF b
<1>4. /\ bucket' \in [Key -> Bucket \cup {NoBucket}]
      /\ bucket'[k] = b
      /\ \A l \in Key \ {k} : bucket'[l] = bucket[l]
  BY <1>1, <1>3 DEF TypeOK
<1> QED BY <1>2, <1>4 DEF b

LEMMA GrantType ==
  ASSUME TypeOK, NEW c \in Client, Grant(c)
  PROVE /\ pc' \in [Client -> {"idle", "trying", "served", "through"}]
        /\ sleep' \in [Client -> Nat] /\ tries' \in [Client -> Nat]
        /\ grants' \in [Key -> Seq(Nat)] /\ beaten' \in [Client -> Nat]
<1>1. KeyOf[c] \in Key /\ elapsed \in Nat
  BY BucketAssumption DEF TypeOK
<1>2. grants' \in [Key -> Seq(Nat)]
  BY <1>1 DEF TypeOK, Grant
<1>3. beaten' \in [Client -> Nat]
  BY DEF TypeOK, Grant
<1>4. /\ pc' \in [Client -> {"idle", "trying", "served", "through"}]
      /\ sleep' \in [Client -> Nat] /\ tries' \in [Client -> Nat]
  BY DEF TypeOK, Grant
<1> QED BY <1>2, <1>3, <1>4

LEMMA RefusedType ==
  ASSUME TypeOK, NEW c \in Client, NEW n \in Nat, Refused(c, n)
  PROVE /\ pc' \in [Client -> {"idle", "trying", "served", "through"}]
        /\ sleep' \in [Client -> Nat] /\ tries' \in [Client -> Nat]
        /\ grants' \in [Key -> Seq(Nat)] /\ beaten' \in [Client -> Nat]
  BY DEF TypeOK, Refused

\* A client of a bucket either is granted a token there was, or refused one
\* there was not; both bring the bucket up to date.
Served(c) ==
    LET k == KeyOf[c] IN
    /\ Debit(k)
    /\ \/ Level(k) >= Unit /\ Grant(c)
       \/ Level(k) < Unit /\ \E n \in Nat : Refused(c, n)
    /\ UNCHANGED <<now, elapsed, backs>>

LEMMA AcquireServes ==
  ASSUME TypeOK, NEW p \in Prober, Acquire(p)
  PROVE Served(p)
<1> DEFINE k == KeyOf[p]
<1>1. k \in Key /\ Refill[k] \in Nat \ {0} /\ Unit \in Nat /\ Patience \in Nat
  BY BucketAssumption DEF Client
<1>2. Level(k) \in Nat
  BY <1>1, LevelRange
<1>3. ASSUME Level(k) < Unit PROVE Wait(k) \in Nat
  BY <1>1, <1>2, <1>3, CeilDivCovers DEF Wait
<1>4. CASE Level(k) >= Unit
  BY <1>4, <1>1, <1>2 DEF Acquire, Served
<1>5. CASE Level(k) < Unit
  BY <1>5, <1>1, <1>2, <1>3 DEF Acquire, Served
<1> QED BY <1>1, <1>2, <1>4, <1>5

LEMMA CheckServes ==
  ASSUME TypeOK, NEW c \in Caller, Check(c)
  PROVE Served(c)
<1> DEFINE k == KeyOf[c]
<1>1. k \in Key /\ Refill[k] \in Nat \ {0} /\ Unit \in Nat
  BY BucketAssumption DEF Client
<1>2. Level(k) \in Nat
  BY <1>1, LevelRange
<1>3. ASSUME Level(k) < Unit PROVE (Unit - Level(k)) \div Refill[k] + 1 \in Nat
  <2>1. Unit - Level(k) \in Nat
    BY <1>1, <1>2, <1>3
  <2> QED BY <2>1, <1>1, DivNat
<1>4. CASE Level(k) >= Unit
  BY <1>4, <1>1, <1>2 DEF Check, Served
<1>5. CASE Level(k) < Unit
  BY <1>5, <1>1, <1>2, <1>3 DEF Check, Served
<1> QED BY <1>1, <1>2, <1>4, <1>5
----------------------------------------------------------------------------
LEMMA ServedKeepsInv ==
  ASSUME IInv, NEW c \in Client, Served(c)
  PROVE IInv'
<1> DEFINE k == KeyOf[c]
<1> USE BucketAssumption DEF IInv
<1>1. k \in Key
  OBVIOUS
<1>2. Level(k) \in Nat /\ Level(k) <= Capacity[k] /\ Stock(k) \in Nat /\ Level(k) <= Stock(k)
  BY <1>1, LevelRange, StockCoversLevel
<1>3. Debit(k) /\ now' = now /\ elapsed' = elapsed /\ backs' = backs
  BY DEF Served
<1>4. TypeOK'
  <2>1. /\ pc' \in [Client -> {"idle", "trying", "served", "through"}]
        /\ sleep' \in [Client -> Nat] /\ tries' \in [Client -> Nat]
        /\ grants' \in [Key -> Seq(Nat)] /\ beaten' \in [Client -> Nat]
    BY GrantType, RefusedType DEF Served
  <2>2. bucket' \in [Key -> Bucket \cup {NoBucket}]
    BY <1>1, <1>3, DebitType
  <2>3. now' \in Nat /\ elapsed' \in Nat /\ backs' \in Nat
    BY <1>3 DEF TypeOK
  <2> QED BY <2>1, <2>2, <2>3 DEF TypeOK
<1>5. \A l \in Key \ {k} : Stock(l)' = Stock(l)
  BY <1>1, <1>3, DebitType DEF Stock
<1>6. Stock(k)' = IF Level(k) >= Unit THEN Level(k) - Unit ELSE Level(k)
  <2>1. bucket'[k] # NoBucket /\ bucket'[k].at = now
        /\ bucket'[k].tokens = IF Level(k) >= Unit THEN Level(k) - Unit ELSE Level(k)
    <3>1. /\ bucket'[k] # NoBucket
          /\ bucket'[k] = [tokens |-> IF Level(k) >= Unit THEN Level(k) - Unit ELSE Level(k),
                           at |-> now]
      BY <1>1, <1>3, DebitType
    <3> HIDE DEF k
    <3> QED BY <3>1
  <2>2. Stock(k)' = bucket'[k].tokens + 0 * Refill[k]
    BY <2>1, <1>3 DEF Stock, TypeOK
  <2> QED BY <2>1, <2>2, <1>1, <1>2
<1>7. CASE Level(k) >= Unit /\ Grant(c)
  <2>1. grants' = [grants EXCEPT ![k] = Append(@, elapsed)]
    BY <1>7 DEF Grant
  <2>2. \A l \in Key \ {k} : grants'[l] = grants[l]
    BY <2>1 DEF TypeOK
  <2>3. /\ Len(grants'[k]) = Len(grants[k]) + 1
        /\ DOMAIN grants'[k] = 1 .. Len(grants[k]) + 1
        /\ DOMAIN grants[k] = 1 .. Len(grants[k])
        /\ \A i \in 1 .. Len(grants[k]) : grants'[k][i] = grants[k][i] /\ grants[k][i] \in Nat
        /\ grants'[k][Len(grants[k]) + 1] = elapsed
        /\ Len(grants[k]) \in Nat
    BY <2>1, <1>1 DEF TypeOK
  <2>4. Stock(k)' = Level(k) - Unit
    BY <1>6, <1>7
  <2>5. ASSUME NEW i \in DOMAIN grants'[k]
        PROVE Fits(k, i, grants'[k], elapsed, Stock(k)')
    <3>1. CASE i = Len(grants[k]) + 1
      BY <3>1, <2>3, <2>4, <1>1, <1>2 DEF TypeOK, Fits
    <3>2. CASE i \in 1 .. Len(grants[k])
      <4>1. (Len(grants[k]) - i + 1) * Unit + Stock(k)
              <= Capacity[k] + (elapsed - grants[k][i]) * Refill[k]
        BY <3>2, <2>3, <1>1 DEF Room, Fits
      <4>2. (Len(grants'[k]) - i + 1) * Unit = (Len(grants[k]) - i + 1) * Unit + Unit
        BY <2>3, <3>2
      <4>3. (Len(grants[k]) - i + 1) * Unit \in Int /\ (elapsed - grants[k][i]) * Refill[k] \in Int
        BY <2>3, <3>2, <1>1 DEF TypeOK
      <4>4. grants'[k][i] = grants[k][i]
        BY <2>3, <3>2
      <4> DEFINE a == (Len(grants[k]) - i + 1) * Unit
                 d == (elapsed - grants[k][i]) * Refill[k]
                 a2 == (Len(grants'[k]) - i + 1) * Unit
                 d2 == (elapsed - grants'[k][i]) * Refill[k]
                 s2 == Stock(k)'
      <4>5. a2 = a + Unit /\ d2 = d /\ s2 = Level(k) - Unit
        BY <4>2, <4>4, <2>4
      <4>6. a + Stock(k) <= Capacity[k] + d /\ a \in Int /\ d \in Int
            /\ Unit \in Nat /\ Capacity[k] \in Nat
        BY <4>1, <4>3, <1>1
      <4>7. a2 + s2 <= Capacity[k] + d2
        <5> HIDE DEF a, d, a2, d2, s2, k
        <5> QED BY <4>5, <4>6, <1>2
      <4> QED BY <4>7 DEF Fits
    <3> QED BY <3>1, <3>2, <2>3
  <2>6. Room'
    <3> SUFFICES ASSUME NEW l \in Key, NEW i \in DOMAIN grants'[l]
                 PROVE Fits(l, i, grants'[l], elapsed', Stock(l)')
      BY DEF Room
    <3>1. CASE l = k
      BY <3>1, <2>5, <1>3
    <3>2. CASE l # k
      BY <3>2, <2>2, <1>3, <1>5 DEF Room
    <3> QED BY <3>1, <3>2
  <2>7. ASSUME NEW i \in DOMAIN grants'[k], NEW j \in DOMAIN grants'[k], i <= j
        PROVE (j - i + 1) * Unit
                <= Capacity[k] + (grants'[k][j] - grants'[k][i]) * Refill[k]
    <3>1. CASE j = Len(grants[k]) + 1
      <4>1. grants'[k][j] = elapsed /\ Len(grants'[k]) = j
        BY <3>1, <2>3
      <4>2. (j - i + 1) * Unit \in Int /\ (elapsed - grants'[k][i]) * Refill[k] \in Int
        <5>1. elapsed \in Nat /\ Unit \in Nat /\ Refill[k] \in Nat /\ i \in Nat /\ j \in Nat
          BY <2>3, <3>1, <1>1 DEF TypeOK
        <5>2. grants'[k][i] \in Nat
          <6>1. i = Len(grants[k]) + 1 \/ i \in 1 .. Len(grants[k])
            BY <2>3
          <6>2. CASE i = Len(grants[k]) + 1
            BY <6>2, <2>3, <5>1
          <6>3. CASE i \in 1 .. Len(grants[k])
            BY <6>3, <2>3
          <6> QED BY <6>1, <6>2, <6>3
        <5> QED BY <5>1, <5>2
      <4>3. Stock(k)' \in Nat
        BY <2>4, <1>2, <1>7
      <4> QED BY <4>1, <4>2, <4>3, <2>5, <1>1 DEF Fits
    <3>2. CASE j \in 1 .. Len(grants[k])
      <4>1. i \in 1 .. Len(grants[k])
        BY <3>2, <2>3, <2>7
      <4> QED BY <4>1, <3>2, <2>3, <2>7, <1>1 DEF WithinRate
    <3> QED BY <3>1, <3>2, <2>3
  <2>8. WithinRate'
    BY <2>2, <2>7 DEF WithinRate
  <2> QED BY <2>6, <2>8, <1>4
<1>8. CASE Level(k) < Unit /\ \E n \in Nat : Refused(c, n)
  <2>1. grants' = grants
    BY <1>8 DEF Refused
  <2>2. Stock(k)' <= Stock(k) /\ Stock(k)' \in Nat
    BY <1>2, <1>6, <1>8
  <2>3. ASSUME NEW l \in Key, NEW i \in DOMAIN grants[l]
        PROVE Fits(l, i, grants[l], elapsed, Stock(l)')
    <3>1. (Len(grants[l]) - i + 1) * Unit + Stock(l)
            <= Capacity[l] + (elapsed - grants[l][i]) * Refill[l]
      BY DEF Room, Fits
    <3>2. (Len(grants[l]) - i + 1) * Unit \in Int /\ (elapsed - grants[l][i]) * Refill[l] \in Int
      BY GrantNumbers
    <3>3. CASE l = k
      BY <3>1, <3>2, <3>3, <2>2, <1>2 DEF Fits
    <3>4. CASE l # k
      BY <3>1, <3>4, <1>5 DEF Fits
    <3> QED BY <3>3, <3>4
  <2>4. Room' /\ WithinRate'
    BY <2>1, <2>3, <1>3 DEF Room, WithinRate
  <2> QED BY <2>4, <1>4
<1> QED BY <1>7, <1>8 DEF Served

\* Time that passes adds to the stock no more than to the window.
LEMMA TickKeepsInv ==
  ASSUME IInv, Tick
  PROVE IInv'
<1> USE BucketAssumption DEF IInv
<1>1. TypeOK'
  BY DEF TypeOK, Tick
<1>2. now' = now + 1 /\ elapsed' = elapsed + 1 /\ bucket' = bucket /\ grants' = grants
  BY DEF Tick
<1>3. ASSUME NEW k \in Key
      PROVE Stock(k)' \in Nat /\ Stock(k) \in Nat /\ Stock(k)' <= Stock(k) + Refill[k]
  <2>1. CASE bucket[k] = NoBucket
    BY <2>1, <1>2 DEF Stock, TypeOK
  <2>2. CASE bucket[k] # NoBucket
    <3> DEFINE b == bucket[k]
               s == IF now < b.at THEN 0 ELSE now - b.at
               t == IF now + 1 < b.at THEN 0 ELSE now + 1 - b.at
    <3>1. b.tokens \in Nat /\ b.at \in Nat /\ now \in Nat
      BY <2>2 DEF TypeOK, Bucket
    <3>2. s \in Nat /\ t \in Nat /\ (t = s \/ t = s + 1)
      BY <3>1
    <3>3. Stock(k) = b.tokens + s * Refill[k]
      BY <2>2 DEF Stock
    <3>4. Stock(k)' = b.tokens + t * Refill[k]
      <4>1. bucket'[k] = b /\ b # NoBucket /\ now' = now + 1
        BY <2>2, <1>2
      <4> QED BY <4>1, <3>1 DEF Stock
    <3> HIDE DEF b, s, t
    <3> QED BY <3>1, <3>2, <3>3, <3>4
  <2> QED BY <2>1, <2>2
<1>4. ASSUME NEW k \in Key, NEW i \in DOMAIN grants[k], NEW e, e = elapsed + 1
      PROVE Fits(k, i, grants[k], e, Stock(k)')
  <2>1. (Len(grants[k]) - i + 1) * Unit + Stock(k)
          <= Capacity[k] + (elapsed - grants[k][i]) * Refill[k]
    BY DEF Room, Fits
  <2>2. /\ Refill[k] \in Int /\ Capacity[k] \in Int
        /\ elapsed \in Int /\ grants[k][i] \in Int
        /\ (Len(grants[k]) - i + 1) * Unit \in Int /\ (elapsed - grants[k][i]) * Refill[k] \in Int
    BY GrantNumbers
  <2>3. (e - grants[k][i]) * Refill[k] = (elapsed - grants[k][i]) * Refill[k] + Refill[k]
    <3> DEFINE y == grants[k][i]
               z == Refill[k]
    <3>1. y \in Int /\ z \in Int /\ elapsed \in Int
      BY <2>2
    <3>2. e = elapsed + 1
      BY <1>4
    <3> HIDE DEF y, z
    <3>3. (e - y) * z = (elapsed - y) * z + z
      BY <3>1, <3>2
    <3> QED BY <3>3 DEF y, z
  <2> DEFINE a == (Len(grants[k]) - i + 1) * Unit
             d == (elapsed - grants[k][i]) * Refill[k]
             f == (e - grants[k][i]) * Refill[k]
  <2>4. a + Stock(k) <= Capacity[k] + d /\ a \in Int /\ d \in Int /\ f = d + Refill[k]
    BY <2>1, <2>2, <2>3
  <2>5. a + Stock(k)' <= Capacity[k] + f
    <3> HIDE DEF a, d, f
    <3> QED BY <2>2, <2>4, <1>3
  <2> QED BY <2>5 DEF Fits
<1>5. Room' /\ WithinRate'
  BY <1>2, <1>4 DEF Room, WithinRate
<1> QED BY <1>1, <1>5

\* A clock set back can only shrink the stock.
LEMMA SetBackKeepsInv ==
  ASSUME IInv, SetBack
  PROVE IInv'
<1> USE BucketAssumption DEF IInv
<1>1. TypeOK'
  BY DEF TypeOK, SetBack
<1>2. now' = now - 1 /\ elapsed' = elapsed /\ bucket' = bucket /\ grants' = grants
  BY DEF SetBack
<1>3. ASSUME NEW k \in Key
      PROVE Stock(k)' \in Nat /\ Stock(k) \in Nat /\ Stock(k)' <= Stock(k)
  <2>1. CASE bucket[k] = NoBucket
    BY <2>1, <1>2 DEF Stock, TypeOK
  <2>2. CASE bucket[k] # NoBucket
    <3> DEFINE b == bucket[k]
               s == IF now < b.at THEN 0 ELSE now - b.at
               t == IF now - 1 < b.at THEN 0 ELSE now - 1 - b.at
    <3>1. b.tokens \in Nat /\ b.at \in Nat /\ now \in Nat
      BY <2>2 DEF TypeOK, Bucket
    <3>2. s \in Nat /\ t \in Nat /\ (t = s \/ s = t + 1)
      BY <3>1
    <3>3. Stock(k) = b.tokens + s * Refill[k] /\ Stock(k)' = b.tokens + t * Refill[k]
      BY <2>2, <1>2 DEF Stock
    <3> HIDE DEF b, s, t
    <3> QED BY <3>1, <3>2, <3>3
  <2> QED BY <2>1, <2>2
<1>4. ASSUME NEW k \in Key, NEW i \in DOMAIN grants[k]
      PROVE Fits(k, i, grants[k], elapsed, Stock(k)')
  <2>1. (Len(grants[k]) - i + 1) * Unit + Stock(k)
          <= Capacity[k] + (elapsed - grants[k][i]) * Refill[k]
    BY DEF Room, Fits
  <2>2. Capacity[k] \in Int
        /\ (Len(grants[k]) - i + 1) * Unit \in Int /\ (elapsed - grants[k][i]) * Refill[k] \in Int
    BY GrantNumbers
  <2> QED BY <2>1, <2>2, <1>3 DEF Fits
<1>5. Room' /\ WithinRate'
  BY <1>2, <1>4 DEF Room, WithinRate
<1> QED BY <1>1, <1>5

\* A bucket that is dropped had already refilled: its stock is no smaller than
\* the capacity it comes back with.
LEMMA ExpireKeepsInv ==
  ASSUME IInv, NEW x \in Key, Expire(x)
  PROVE IInv'
<1> USE BucketAssumption DEF IInv
<1>1. TypeOK'
  BY DEF TypeOK, Expire
<1>2. now' = now /\ elapsed' = elapsed /\ grants' = grants
      /\ bucket' = [bucket EXCEPT ![x] = NoBucket] /\ bucket[x] # NoBucket
  BY DEF Expire
<1>3. ASSUME NEW k \in Key
      PROVE Stock(k)' \in Nat /\ Stock(k) \in Nat /\ Stock(k)' <= Stock(k)
  <2>1. CASE k # x
    BY <2>1, <1>2, StockCoversLevel DEF Stock, TypeOK
  <2>2. CASE k = x
    <3> DEFINE b == bucket[x]
               n == CeilDiv(Capacity[x], Refill[x])
               r == Refill[x]
               e == now - b.at
    <3>1. b.tokens \in Nat /\ b.at \in Nat /\ now \in Nat
      BY <1>2 DEF TypeOK, Bucket
    <3>2. n \in Nat /\ Capacity[x] <= r * n /\ r \in Nat /\ Capacity[x] \in Nat
      BY CeilDivCovers
    <3>3. e >= n /\ e \in Nat
      BY <3>1, <3>2 DEF Expire
    <3>4. Stock(x) = b.tokens + e * r /\ Stock(x)' = Capacity[x]
      BY <1>2, <3>1, <3>3 DEF Stock, TypeOK
    <3>5. r * n <= e * r /\ e * r \in Nat /\ r * n \in Nat
      <4> HIDE DEF n, e, r
      <4> QED BY <3>2, <3>3
    <3> HIDE DEF b, e, n, r
    <3> QED BY <2>2, <3>1, <3>2, <3>4, <3>5
  <2> QED BY <2>1, <2>2
<1>4. ASSUME NEW k \in Key, NEW i \in DOMAIN grants[k]
      PROVE Fits(k, i, grants[k], elapsed, Stock(k)')
  <2>1. (Len(grants[k]) - i + 1) * Unit + Stock(k)
          <= Capacity[k] + (elapsed - grants[k][i]) * Refill[k]
    BY DEF Room, Fits
  <2>2. Capacity[k] \in Int
        /\ (Len(grants[k]) - i + 1) * Unit \in Int /\ (elapsed - grants[k][i]) * Refill[k] \in Int
    BY GrantNumbers
  <2> QED BY <2>1, <2>2, <1>3 DEF Fits
<1>5. Room' /\ WithinRate'
  BY <1>2, <1>4 DEF Room, WithinRate
<1> QED BY <1>1, <1>5
----------------------------------------------------------------------------
\* What neither touches a bucket nor the clock changes nothing the rate is about.
LEMMA RestKeepsInv ==
  ASSUME IInv, UNCHANGED <<bucket, now, elapsed, grants>>, TypeOK'
  PROVE IInv'
  BY DEF IInv, Room, WithinRate, Stock

LEMMA NextKeepsInv == IInv /\ [Next]_vars => IInv'
<1> SUFFICES ASSUME IInv, [Next]_vars PROVE IInv'
  OBVIOUS
<1> USE DEF IInv
<1>1. CASE UNCHANGED vars
  <2>1. TypeOK'
    BY <1>1 DEF TypeOK, vars
  <2> QED BY <1>1, <2>1, RestKeepsInv DEF vars
<1>2. ASSUME NEW c \in Client, Arrive(c) PROVE IInv'
  <2>1. TypeOK'
    BY <1>2 DEF TypeOK, Arrive
  <2> QED BY <1>2, <2>1, RestKeepsInv DEF Arrive
<1>3. ASSUME NEW p \in Prober, Acquire(p) PROVE IInv'
  BY <1>3, AcquireServes, ServedKeepsInv DEF Client
<1>4. ASSUME NEW p \in Prober, RunOut(p) PROVE IInv'
  <2>1. TypeOK'
    BY <1>4 DEF TypeOK, RunOut
  <2> QED BY <1>4, <2>1, RestKeepsInv DEF RunOut
<1>5. ASSUME NEW c \in Caller, Check(c) PROVE IInv'
  BY <1>5, CheckServes, ServedKeepsInv DEF Client
<1>6. ASSUME NEW k \in Key, Expire(k) PROVE IInv'
  BY <1>6, ExpireKeepsInv
<1> QED BY <1>1, <1>2, <1>3, <1>4, <1>5, <1>6, TickKeepsInv, SetBackKeepsInv DEF Next

LEMMA Invariance == Spec => []IInv
<1>1. Init => IInv
  BY InitInv
<1>2. IInv /\ [Next]_vars => IInv'
  BY NextKeepsInv
<1> QED BY <1>1, <1>2, PTL DEF Spec

\* Buckets, clocks and histories keep their types: tokens never go below zero,
\* whatever the rate and however often the clock is set back.
THEOREM TypeCorrect == Spec => []TypeOK
<1>1. IInv => TypeOK
  BY DEF IInv
<1> QED BY <1>1, Invariance, PTL

\* For every rate, capacity and number of clients: no window of time holds more
\* grants than the capacity and what that much time refills.
THEOREM RateHolds == Spec => []WithinRate
<1>1. IInv => WithinRate
  BY DEF IInv
<1> QED BY <1>1, Invariance, PTL
----------------------------------------------------------------------------
(* Turns lost.  A client that keeps losing still has so many turns left      *)
(* that, with what the bucket holds, its sleep and these turns refill a      *)
(* token; a token somebody else is granted gives it as many turns again as   *)
(* one takes.  A prober's turn is worth a sleep of Patience; a caller's      *)
(* sleep is never cut short, so that one turn is worth the whole token.      *)
Turns(c) == IF c \in Prober THEN CeilDiv(CeilDiv(Unit, Refill[KeyOf[c]]), Patience) ELSE 1

Stride(c) == IF c \in Prober THEN Patience * Refill[KeyOf[c]] ELSE Unit

Patient(c, m) ==
    /\ tries[c] + m <= (1 + beaten[c]) * Turns(c)
    /\ Unit <= Stock(KeyOf[c]) + sleep[c] * Refill[KeyOf[c]] + m * Stride(c)

\* A bucket was never counted in the future of a clock that only went forward.
Behind == \A k \in Key : bucket[k] # NoBucket => bucket[k].at <= now

TurnInv ==
    /\ \A c \in Client : tries[c] > 0 => pc[c] = "trying"
    /\ backs = 0 => Behind /\ \A c \in Client : \E m \in Nat : Patient(c, m)

LEMMA ClientNumbers ==
  ASSUME NEW c \in Client
  PROVE /\ KeyOf[c] \in Key /\ Refill[KeyOf[c]] \in Nat \ {0} /\ Unit \in Nat \ {0}
        /\ Patience \in Nat \ {0} /\ Capacity[KeyOf[c]] \in Nat /\ Unit <= Capacity[KeyOf[c]]
  BY BucketAssumption

\* So many turns refill a token.
LEMMA TurnsRefill ==
  ASSUME NEW c \in Client
  PROVE Turns(c) \in Nat /\ Stride(c) \in Nat /\ Unit <= Turns(c) * Stride(c)
<1> DEFINE r == Refill[KeyOf[c]]
           w == CeilDiv(Unit, r)
           n == CeilDiv(w, Patience)
<1>1. r \in Nat \ {0} /\ Patience \in Nat \ {0} /\ Unit \in Nat
  BY ClientNumbers
<1>2. w \in Nat /\ Unit <= r * w
  BY <1>1, CeilDivCovers
<1>3. n \in Nat /\ w <= Patience * n
  BY <1>1, <1>2, CeilDivCovers
<1>4. Unit <= n * (Patience * r) /\ Patience * r \in Nat
  <2> HIDE DEF r, w, n
  <2>1. r * w <= r * (Patience * n) /\ r * w \in Nat /\ r * (Patience * n) \in Nat
    <3> DEFINE x == Patience * n
    <3>1. x \in Nat /\ w <= x
      BY <1>1, <1>3
    <3> HIDE DEF x
    <3>2. PICK d \in Nat : x = w + d
      <4>1. x - w \in Nat /\ x = w + (x - w)
        BY <1>2, <3>1
      <4> QED BY <4>1
    <3>3. r * x = r * w + r * d /\ r * d \in Nat /\ r * w \in Nat
      BY <1>1, <1>2, <3>2
    <3> QED BY <3>3 DEF x
  <2>2. r * (Patience * n) = n * (Patience * r)
    BY <1>1, <1>3
  <2> QED BY <1>1, <1>2, <2>1, <2>2
<1>5. CASE c \in Prober
  BY <1>3, <1>4, <1>5 DEF Turns, Stride
<1>6. CASE c \notin Prober
  BY <1>1, <1>6 DEF Turns, Stride
<1> QED BY <1>5, <1>6

\* The products of Patient are numbers.
LEMMA PatientNumbers ==
  ASSUME TypeOK, NEW c \in Client, NEW m \in Nat
  PROVE /\ (1 + beaten[c]) * Turns(c) \in Nat /\ sleep[c] * Refill[KeyOf[c]] \in Nat
        /\ m * Stride(c) \in Nat /\ tries[c] \in Nat /\ beaten[c] \in Nat /\ sleep[c] \in Nat
        /\ Stock(KeyOf[c]) \in Nat
<1> DEFINE b == beaten[c]
           s == sleep[c]
           r == Refill[KeyOf[c]]
           n == Turns(c)
           x == Stride(c)
<1>1. b \in Nat /\ s \in Nat /\ r \in Nat /\ n \in Nat /\ x \in Nat /\ tries[c] \in Nat
  BY ClientNumbers, TurnsRefill DEF TypeOK
<1>2. Stock(KeyOf[c]) \in Nat
  BY ClientNumbers, StockCoversLevel
<1> HIDE DEF b, s, r, n, x
<1>3. (1 + b) * n \in Nat /\ s * r \in Nat /\ m * x \in Nat
  BY <1>1
<1> QED BY <1>1, <1>2, <1>3 DEF b, s, r, n, x

\* A client that has lost no turn has all of them.
LEMMA FreshIsPatient ==
  ASSUME TypeOK, NEW c \in Client, tries[c] = 0
  PROVE \E m \in Nat : Patient(c, m)
<1> DEFINE n == Turns(c)
           b == beaten[c]
<1>1. /\ Turns(c) \in Nat /\ Stride(c) \in Nat /\ Unit <= Turns(c) * Stride(c)
      /\ Unit \in Nat
  BY TurnsRefill, ClientNumbers
<1>2. /\ Stock(KeyOf[c]) \in Nat /\ sleep[c] * Refill[KeyOf[c]] \in Nat
      /\ Turns(c) * Stride(c) \in Nat /\ beaten[c] \in Nat
  BY <1>1, PatientNumbers
<1>3. n <= (1 + b) * n
  <2>1. n \in Nat /\ b \in Nat
    BY <1>1, <1>2
  <2> HIDE DEF n, b
  <2>2. (1 + b) * n = n + b * n /\ b * n \in Nat
    BY <2>1
  <2> QED BY <2>1, <2>2
<1>4. Unit <= Stock(KeyOf[c]) + sleep[c] * Refill[KeyOf[c]] + Turns(c) * Stride(c)
  BY <1>1, <1>2
<1>5. tries[c] + n <= (1 + b) * n
  BY <1>1, <1>3
<1>6. Patient(c, Turns(c))
  BY <1>4, <1>5 DEF Patient
<1> QED BY <1>1, <1>6

LEMMA StockNext ==
  ASSUME TypeOK', NEW k \in Key
  PROVE Stock(k)' \in Nat
<1>1. Capacity[k] \in Nat /\ Refill[k] \in Nat /\ now' \in Nat
  BY BucketAssumption DEF TypeOK
<1>2. CASE bucket'[k] = NoBucket
  BY <1>1, <1>2 DEF Stock
<1>3. CASE bucket'[k] # NoBucket
  <2> DEFINE e == IF now' < bucket'[k].at THEN 0 ELSE now' - bucket'[k].at
             r == Refill[k]
  <2>1. bucket'[k].tokens \in Nat /\ bucket'[k].at \in Nat
    BY <1>3 DEF TypeOK, Bucket
  <2>2. e \in Nat
    BY <1>1, <2>1
  <2>3. e * r \in Nat
    <3> HIDE DEF e, r
    <3>1. r \in Nat
      BY <1>1 DEF r
    <3> QED BY <2>2, <3>1
  <2>4. Stock(k)' = bucket'[k].tokens + e * r
    BY <1>3 DEF Stock
  <2> HIDE DEF e, r
  <2> QED BY <2>1, <2>3, <2>4
<1> QED BY <1>2, <1>3

\* The same of the next state.
LEMMA FreshNext ==
  ASSUME TypeOK', NEW c \in Client, tries'[c] = 0
  PROVE \E m \in Nat : Patient(c, m)'
<1> DEFINE n == Turns(c)
           b == beaten'[c]
           y == sleep'[c] * Refill[KeyOf[c]]
           z == n * Stride(c)
           t == Stock(KeyOf[c])'
<1>1. n \in Nat /\ z \in Nat /\ Unit <= z /\ Unit \in Nat
  <2>1. n \in Nat /\ Stride(c) \in Nat /\ Unit <= z /\ Unit \in Nat
    BY TurnsRefill, ClientNumbers
  <2>2. z \in Nat
    <3> DEFINE x == Stride(c)
    <3>1. n \in Nat /\ x \in Nat
      BY <2>1
    <3> HIDE DEF n, x
    <3>2. n * x \in Nat
      BY <3>1
    <3> QED BY <3>2 DEF x
  <2> QED BY <2>1, <2>2
<1>2. b \in Nat /\ sleep'[c] \in Nat /\ t \in Nat
  BY ClientNumbers, StockNext DEF TypeOK
<1>3. y \in Nat
  BY <1>2, ClientNumbers
<1>4. n <= (1 + b) * n
  <2> HIDE DEF n, b
  <2>1. (1 + b) * n = n + b * n /\ b * n \in Nat
    BY <1>1, <1>2
  <2> QED BY <1>1, <2>1
<1>5. Unit <= t + y + z
  <2> HIDE DEF t, y, z
  <2> QED BY <1>1, <1>2, <1>3
<1>6. tries'[c] + n <= (1 + b) * n
  BY <1>1, <1>4
<1>7. Patient(c, n)'
  BY <1>5, <1>6 DEF Patient, Turns, Stride
<1> QED BY <1>1, <1>7
----------------------------------------------------------------------------
\* A stock too small for a token is all the bucket holds.
LEMMA LowStock ==
  ASSUME TypeOK, NEW k \in Key, Level(k) < Unit
  PROVE Stock(k) = Level(k)
  BY BucketAssumption DEF TypeOK, Bucket, Level, Capped, Stock

\* A refusal uses one turn up, and its sleep is worth that turn or fills what
\* is missing.
LEMMA RefusedIsPatient ==
  ASSUME TypeOK, NEW c \in Client, NEW m \in Nat, Patient(c, m), sleep[c] = 0,
         NEW n \in Nat, Level(KeyOf[c]) < Unit, Refused(c, n),
         Stock(KeyOf[c])' = Level(KeyOf[c]),
         \/ n * Refill[KeyOf[c]] >= Stride(c)
         \/ n * Refill[KeyOf[c]] >= Unit - Level(KeyOf[c])
  PROVE \E l \in Nat : Patient(c, l)'
<1> DEFINE k == KeyOf[c]
           x == Stride(c)
           s == Level(k)
           y == n * Refill[k]
<1>1. /\ k \in Key /\ Refill[k] \in Nat /\ Unit \in Nat \ {0} /\ x \in Nat
      /\ s \in Nat /\ s < Unit
  BY ClientNumbers, TurnsRefill, LevelRange
<1>2. Stock(k) = s
  BY <1>1, LowStock
<1>3. Unit <= s + m * x
  <2>1. sleep[c] * Refill[k] = 0
    BY <1>1
  <2>2. m * x \in Nat
    BY <1>1, PatientNumbers
  <2> QED BY <1>1, <1>2, <2>1, <2>2 DEF Patient
<1>4. m - 1 \in Nat
  <2>1. CASE m = 0
    <3>1. m * x = 0
      BY <2>1, <1>1
    <3> QED BY <3>1, <1>1, <1>3
  <2> QED BY <2>1
<1>5. y \in Nat
  BY <1>1
<1>6. Unit <= s + y + (m - 1) * x
  <2>1. y >= x \/ y >= Unit - s
    OBVIOUS
  <2> HIDE DEF s, y, x
  <2>2. m * x = (m - 1) * x + x /\ (m - 1) * x \in Nat
    BY <1>1, <1>4
  <2> QED BY <1>1, <1>3, <1>5, <2>1, <2>2
<1>7. sleep'[c] = n /\ tries'[c] = tries[c] + 1 /\ beaten' = beaten
  BY DEF Refused, TypeOK
<1>8. tries'[c] + (m - 1) <= (1 + beaten'[c]) * Turns(c)
  <2>1. tries[c] + m <= (1 + beaten[c]) * Turns(c) /\ (1 + beaten[c]) * Turns(c) \in Nat
        /\ tries[c] \in Nat
    BY PatientNumbers DEF Patient
  <2> QED BY <1>7, <2>1
<1>9. Patient(c, m - 1)'
  BY <1>6, <1>7, <1>8 DEF Patient, Turns, Stride
<1> QED BY <1>4, <1>9

\* A token granted to somebody else gives a client that is after one all its
\* turns again.
LEMMA BeatenIsPatient ==
  ASSUME TypeOK, TypeOK', NEW c \in Client, NEW m \in Nat, Patient(c, m),
         beaten'[c] = beaten[c] + 1, tries'[c] = tries[c]
  PROVE \E l \in Nat : Patient(c, l)'
<1> DEFINE n == Turns(c)
           x == Stride(c)
           b == beaten[c]
           s == Stock(KeyOf[c])'
           y == sleep'[c] * Refill[KeyOf[c]]
<1>1. /\ n \in Nat /\ x \in Nat /\ Unit <= n * x /\ b \in Nat /\ Unit \in Nat
      /\ tries[c] \in Nat /\ tries[c] + m <= (1 + b) * n
  BY TurnsRefill, PatientNumbers, ClientNumbers DEF Patient
<1>2. s \in Nat
  BY ClientNumbers, StockNext
<1>3. y \in Nat
  BY ClientNumbers DEF TypeOK
<1>4. tries[c] + (m + n) <= (1 + (b + 1)) * n
  <2> HIDE DEF n, b
  <2>1. (1 + (b + 1)) * n = (1 + b) * n + n /\ (1 + b) * n \in Nat
    BY <1>1
  <2> QED BY <1>1, <2>1
<1>5. Unit <= s + y + (m + n) * x
  <2> HIDE DEF n, x, s, y
  <2>1. (m + n) * x = m * x + n * x /\ m * x \in Nat /\ n * x \in Nat
    BY <1>1
  <2> QED BY <1>1, <1>2, <1>3, <2>1
<1>6. Patient(c, m + n)'
  BY <1>4, <1>5 DEF Patient, Turns, Stride
<1> QED BY <1>1, <1>6
----------------------------------------------------------------------------
\* What acquire and check sleep for: what is missing, or a whole stride.
Rests(c, n) ==
    \/ n * Refill[KeyOf[c]] >= Stride(c)
    \/ n * Refill[KeyOf[c]] >= Unit - Level(KeyOf[c])

\* A turn at the bucket: awake, and then a grant or a refusal with its sleep.
Turn(c) ==
    /\ Awake(c) /\ Debit(KeyOf[c])
    /\ \/ Level(KeyOf[c]) >= Unit /\ Grant(c)
       \/ Level(KeyOf[c]) < Unit /\ \E n \in Nat : Refused(c, n) /\ Rests(c, n)
    /\ UNCHANGED <<now, elapsed, backs>>

LEMMA AcquireTurn ==
  ASSUME TypeOK, NEW p \in Prober, Acquire(p)
  PROVE Turn(p)
<1> DEFINE k == KeyOf[p]
           w == Wait(k)
           n == IF w < Patience THEN w ELSE Patience
<1>1. /\ p \in Client /\ k \in Key /\ Refill[k] \in Nat \ {0} /\ Unit \in Nat
      /\ Patience \in Nat
  BY ClientNumbers DEF Client
<1>2. CASE Level(k) >= Unit
  BY <1>2 DEF Acquire, Turn
<1>3. CASE Level(k) < Unit
  <2>1. Level(k) \in Nat /\ Unit - Level(k) \in Nat
    BY <1>1, <1>3, LevelRange
  <2>2. w \in Nat /\ Unit - Level(k) <= Refill[k] * w
    BY <1>1, <2>1, CeilDivCovers DEF Wait
  <2>3. n \in Nat
    BY <1>1, <2>2
  <2>4. Rests(p, n)
    <3>1. CASE n = w
      <4>1. Refill[k] * w = w * Refill[k]
        <5> DEFINE r == Refill[k]
        <5>1. r \in Nat
          BY <1>1
        <5> HIDE DEF r, w
        <5>2. r * w = w * r
          BY <5>1, <2>2
        <5> QED BY <5>2 DEF r
      <4> HIDE DEF w, n
      <4> QED BY <3>1, <4>1, <2>2 DEF Rests
    <3>2. CASE n = Patience
      <4>1. n * Refill[k] = Stride(p) /\ Stride(p) \in Nat
        BY <3>2, <1>1, TurnsRefill DEF Stride
      <4> HIDE DEF n, k
      <4> QED BY <4>1 DEF Rests, k
    <3> QED BY <3>1, <3>2
  <2>5. Refused(p, n)
    BY <1>3, <1>1, <2>1 DEF Acquire
  <2> HIDE DEF n
  <2> QED BY <1>3, <2>3, <2>4, <2>5 DEF Acquire, Turn
<1>4. Level(k) \in Nat /\ Unit \in Nat
  BY <1>1, LevelRange
<1> QED BY <1>2, <1>3, <1>4

LEMMA CheckTurn ==
  ASSUME TypeOK, NEW c \in Caller, Check(c)
  PROVE Turn(c)
<1> DEFINE k == KeyOf[c]
           a == Unit - Level(k)
           r == Refill[k]
           n == a \div r + 1
<1>1. c \in Client /\ k \in Key /\ r \in Nat \ {0} /\ Unit \in Nat /\ Level(k) \in Nat
  BY ClientNumbers, LevelRange DEF Client
<1>2. CASE Level(k) >= Unit
  BY <1>2 DEF Check, Turn
<1>3. CASE Level(k) < Unit
  <2>1. a \in Nat
    BY <1>1, <1>3
  <2>2. n \in Nat /\ n * r >= a
    <3> HIDE DEF a, r
    <3> DEFINE q == a \div r
    <3>1. q \in Nat
      BY <1>1, <2>1, DivNat
    <3>2. a = r * q + (a % r) /\ a % r \in 0 .. (r - 1)
      BY <1>1, <2>1
    <3> HIDE DEF q
    <3>3. (q + 1) * r = r * q + r /\ r * q \in Nat
      BY <1>1, <3>1
    <3> QED BY <1>1, <2>1, <3>1, <3>2, <3>3 DEF q
  <2>3. Refused(c, n)
    BY <1>3, <1>1 DEF Check
  <2> HIDE DEF n
  <2>4. Rests(c, n)
    BY <2>2 DEF Rests
  <2> QED BY <1>3, <2>2, <2>3, <2>4 DEF Check, Turn
<1> QED BY <1>1, <1>2, <1>3
LEMMA InitTurns == Init => TurnInv
<1> SUFFICES ASSUME Init PROVE TurnInv
  OBVIOUS
<1>1. TypeOK
  BY InitInv DEF IInv
<1>2. \A c \in Client : tries[c] = 0
  BY DEF Init
<1>3. \A c \in Client : \E m \in Nat : Patient(c, m)
  BY <1>1, <1>2, FreshIsPatient
<1>4. Behind
  BY DEF Init, Behind
<1> QED BY <1>2, <1>3, <1>4 DEF TurnInv

\* Without a clock that is set back, Tick and a drop of an idle bucket only add
\* to what a client can count on.
LEMMA TickTurns ==
  ASSUME TypeOK, TypeOK', TurnInv, Tick
  PROVE TurnInv'
<1>1. /\ now' = now + 1 /\ UNCHANGED <<bucket, pc, tries, backs, beaten>>
      /\ sleep' = [c \in Client |-> IF sleep[c] > 0 THEN sleep[c] - 1 ELSE 0]
  BY DEF Tick
<1>2. ASSUME backs = 0
      PROVE  Behind'
  BY <1>1, <1>2 DEF TurnInv, Behind, TypeOK, Bucket
<1>3. ASSUME backs = 0, NEW c \in Client
      PROVE  \E m \in Nat : Patient(c, m)'
  <2> DEFINE k == KeyOf[c]
             s == Stock(k)
             t == Stock(k)'
             r == Refill[k]
  <2>1. /\ k \in Key /\ r \in Nat \ {0} /\ Unit \in Nat \ {0}
        /\ Capacity[k] \in Nat /\ Unit <= Capacity[k]
    BY ClientNumbers
  <2>2. PICK m \in Nat : Patient(c, m)
    BY <1>3 DEF TurnInv
  <2>3. s \in Nat /\ t \in Nat
    BY <2>1, StockCoversLevel, StockNext
  <2>4. t >= Unit \/ t = s + r
    <3>1. CASE bucket[k] = NoBucket
      BY <3>1, <1>1, <2>1 DEF Stock
    <3>2. CASE bucket[k] # NoBucket
      <4> DEFINE b == bucket[k]
                 e == now - b.at
      <4>1. b.at <= now /\ b.at \in Nat /\ b.tokens \in Nat /\ now \in Nat
        BY <1>3, <2>1, <3>2 DEF TurnInv, Behind, TypeOK, Bucket
      <4>2. s = b.tokens + e * r
        BY <3>2, <4>1 DEF Stock
      <4>3. t = b.tokens + (e + 1) * r
        <5>1. bucket'[k] = b /\ b # NoBucket /\ now' = now + 1
          BY <1>1, <3>2
        <5>2. ~(now' < b.at) /\ now' - b.at = e + 1
          BY <4>1, <5>1
        <5> HIDE DEF e, r
        <5> QED BY <5>1, <5>2 DEF Stock, r
      <4>4. e \in Nat
        BY <4>1
      <4> HIDE DEF e, b, r, s, t
      <4>5. (e + 1) * r = e * r + r /\ e * r \in Nat
        BY <2>1, <4>4
      <4>6. b.tokens \in Nat
        BY <4>1
      <4> QED BY <4>2, <4>3, <4>5, <4>6, <2>1
    <3> QED BY <3>1, <3>2
  <2> DEFINE y == sleep[c] * r
             u == sleep'[c] * r
             z == m * Stride(c)
  <2>5. y \in Nat /\ z \in Nat /\ u \in Nat /\ u + r >= y
    <3>1. /\ sleep[c] \in Nat /\ sleep'[c] \in Nat
          /\ sleep[c] = sleep'[c] + 1 \/ sleep[c] = sleep'[c]
      BY <1>1 DEF TypeOK
    <3>2. z \in Nat
      BY PatientNumbers
    <3> HIDE DEF r, z
    <3>3. y \in Nat /\ u \in Nat /\ (y = u + r \/ y = u)
      BY <2>1, <3>1
    <3> HIDE DEF y, u
    <3> QED BY <2>1, <3>2, <3>3
  <2>6. Unit <= s + y + z
    BY <2>2 DEF Patient
  <2>7. Unit <= t + u + z
    <3> HIDE DEF s, t, y, u, z, r
    <3> QED BY <2>1, <2>3, <2>4, <2>5, <2>6
  <2>8. tries'[c] + m <= (1 + beaten'[c]) * Turns(c)
    BY <1>1, <2>2 DEF Patient
  <2> QED BY <2>7, <2>8 DEF Patient, Turns, Stride
<1> QED BY <1>1, <1>2, <1>3 DEF TurnInv

LEMMA ExpireTurns ==
  ASSUME TypeOK, TypeOK', TurnInv, NEW x \in Key, Expire(x)
  PROVE TurnInv'
<1>1. /\ bucket' = [bucket EXCEPT ![x] = NoBucket] /\ bucket[x] # NoBucket
      /\ now - bucket[x].at >= CeilDiv(Capacity[x], Refill[x]) + Margin
      /\ UNCHANGED <<now, pc, sleep, tries, elapsed, backs, grants, beaten>>
  BY DEF Expire
<1>2. ASSUME backs = 0
      PROVE  Behind'
  BY <1>1, <1>2 DEF TurnInv, Behind, TypeOK
<1>3. ASSUME backs = 0, NEW c \in Client
      PROVE  \E m \in Nat : Patient(c, m)'
  <2> DEFINE k == KeyOf[c]
  <2>1. /\ k \in Key /\ Capacity[k] \in Nat /\ Unit <= Capacity[k] /\ Unit \in Nat
        /\ Refill[k] \in Nat
    BY ClientNumbers
  <2>2. PICK m \in Nat : Patient(c, m)
    BY <1>3 DEF TurnInv
  <2>3. CASE k = x
    <3>1. Stock(k)' = Capacity[k]
      <4>1. bucket'[k] = NoBucket
        BY <1>1, <2>1, <2>3 DEF TypeOK
      <4> QED BY <4>1 DEF Stock
    <3> DEFINE y == sleep[c] * Refill[k]
               z == m * Stride(c)
               t == Stock(k)'
    <3>2. y \in Nat /\ z \in Nat
      BY PatientNumbers
    <3>3. Unit <= t + y + z
      <4>1. t \in Nat /\ Unit <= t
        BY <2>1, <3>1
      <4> HIDE DEF y, z, t
      <4> QED BY <2>1, <3>2, <4>1
    <3>4. tries'[c] + m <= (1 + beaten'[c]) * Turns(c) /\ sleep' = sleep
      BY <1>1, <2>2 DEF Patient
    <3> QED BY <3>3, <3>4 DEF Patient, Turns, Stride
  <2>4. CASE k # x
    <3>1. bucket'[k] = bucket[k]
      BY <1>1, <2>1, <2>4 DEF TypeOK
    <3>2. Stock(k)' = Stock(k)
      BY <1>1, <3>1 DEF Stock
    <3> QED BY <1>1, <2>2, <3>2 DEF Patient, Turns, Stride
  <2> QED BY <2>3, <2>4
<1> QED BY <1>1, <1>2, <1>3 DEF TurnInv

\* A turn at the bucket keeps everybody patient: the one who takes it, those
\* after the same tokens, and the rest.
LEMMA TurnTurns ==
  ASSUME TypeOK, TypeOK', TurnInv, NEW c \in Client, Turn(c)
  PROVE TurnInv'
<1> DEFINE k == KeyOf[c]
<1>1. /\ k \in Key /\ Debit(k) /\ UNCHANGED <<now, elapsed, backs>>
      /\ sleep[c] = 0 /\ pc[c] = "trying" /\ Level(k) \in Nat /\ Unit \in Nat /\ now \in Nat
  BY ClientNumbers, LevelRange DEF Turn, Awake, TypeOK
<1>2. /\ bucket'[k] = [tokens |-> IF Level(k) >= Unit THEN Level(k) - Unit ELSE Level(k),
                       at |-> now]
      /\ bucket'[k] # NoBucket
      /\ \A l \in Key \ {k} : bucket'[l] = bucket[l]
  BY <1>1, DebitType
<1>3. bucket'[k].at = now
  <2> HIDE DEF k
  <2> QED BY <1>2
<1>4. ASSUME backs = 0
      PROVE  Behind'
  <2> SUFFICES ASSUME NEW l \in Key, bucket'[l] # NoBucket
               PROVE  bucket'[l].at <= now'
    BY DEF Behind
  <2>1. CASE l = k
    <3> HIDE DEF k
    <3> QED BY <2>1, <1>1, <1>3
  <2>2. CASE l # k
    <3>1. bucket'[l] = bucket[l]
      BY <2>2, <1>2
    <3> QED BY <3>1, <1>1, <1>4 DEF TurnInv, Behind
  <2> QED BY <2>1, <2>2
<1>5. \A l \in Key \ {k} : Stock(l)' = Stock(l)
  BY <1>1, <1>2 DEF Stock
<1>6. CASE Level(k) >= Unit /\ Grant(c)
  <2>1. /\ beaten' = [d \in Client |->
               IF d = c THEN 0
               ELSE IF KeyOf[d] = k /\ pc[d] = "trying" THEN beaten[d] + 1 ELSE beaten[d]]
        /\ pc' = [pc EXCEPT ![c] = "served"]
        /\ tries' = [tries EXCEPT ![c] = 0]
        /\ sleep' = sleep
    BY <1>6 DEF Grant
  <2>2. \A d \in Client : tries'[d] > 0 => pc'[d] = "trying"
    BY <2>1 DEF TurnInv, TypeOK
  <2>3. ASSUME backs = 0, NEW d \in Client
        PROVE  \E m \in Nat : Patient(d, m)'
    <3>1. PICK m \in Nat : Patient(d, m)
      BY <2>3 DEF TurnInv
    <3>2. CASE tries'[d] = 0
      BY <3>2, FreshNext
    <3>3. CASE tries'[d] # 0 /\ KeyOf[d] = k
      <4>1. d # c /\ tries'[d] = tries[d] /\ tries[d] > 0
        BY <3>3, <2>1 DEF TypeOK
      <4>2. pc[d] = "trying"
        BY <4>1 DEF TurnInv
      <4>3. beaten'[d] = beaten[d] + 1
        BY <2>1, <3>3, <4>1, <4>2
      <4> QED BY <3>1, <4>1, <4>3, BeatenIsPatient
    <3>4. CASE tries'[d] # 0 /\ KeyOf[d] # k
      <4>1. d # c /\ KeyOf[d] \in Key \ {k}
        BY <3>4, ClientNumbers
      <4>2. tries'[d] = tries[d] /\ sleep'[d] = sleep[d] /\ beaten'[d] = beaten[d]
        BY <3>4, <4>1, <2>1 DEF TypeOK
      <4>3. Stock(KeyOf[d])' = Stock(KeyOf[d]) /\ Stock(KeyOf[d]) \in Nat
        BY <4>1, <1>5, StockCoversLevel
      <4> QED BY <3>1, <4>2, <4>3 DEF Patient, Turns, Stride
    <3> QED BY <3>2, <3>3, <3>4
  <2> QED BY <1>1, <1>4, <2>2, <2>3 DEF TurnInv
<1>7. CASE Level(k) < Unit /\ \E n \in Nat : Refused(c, n) /\ Rests(c, n)
  <2>1. PICK n \in Nat : Refused(c, n) /\ Rests(c, n)
    BY <1>7
  <2>2. /\ sleep' = [sleep EXCEPT ![c] = n]
        /\ tries' = [tries EXCEPT ![c] = tries[c] + 1]
        /\ UNCHANGED <<pc, grants, beaten>>
    BY <2>1 DEF Refused
  <2>3. \A d \in Client : tries'[d] > 0 => pc'[d] = "trying"
    BY <2>2, <1>1 DEF TurnInv, TypeOK
  <2>4. Stock(k)' = Level(k) /\ Stock(k) = Level(k)
    <3>1. bucket'[k] # NoBucket /\ bucket'[k].at = now /\ bucket'[k].tokens = Level(k)
      <4>1. bucket'[k] = [tokens |-> Level(k), at |-> now]
        BY <1>1, <1>2, <1>7
      <4> HIDE DEF k
      <4> QED BY <1>2, <4>1
    <3>2. Stock(k)' = bucket'[k].tokens + 0 * Refill[k]
      BY <3>1, <1>1 DEF Stock
    <3>3. Refill[k] \in Nat
      BY ClientNumbers
    <3>4. Stock(k) = Level(k)
      BY <1>1, <1>7, LowStock
    <3> QED BY <3>1, <3>2, <3>3, <3>4, <1>1
  <2>5. ASSUME backs = 0, NEW d \in Client
        PROVE  \E m \in Nat : Patient(d, m)'
    <3>1. PICK m \in Nat : Patient(d, m)
      BY <2>5 DEF TurnInv
    <3>2. CASE d = c
      BY <3>1, <3>2, <2>1, <2>4, <1>1, <1>7, RefusedIsPatient DEF Rests
    <3>3. CASE d # c
      <4>1. tries'[d] = tries[d] /\ sleep'[d] = sleep[d] /\ beaten'[d] = beaten[d]
        BY <3>3, <2>2 DEF TypeOK
      <4>2. Stock(KeyOf[d])' = Stock(KeyOf[d])
        BY <1>5, <2>4, ClientNumbers
      <4> QED BY <3>1, <4>1, <4>2 DEF Patient, Turns, Stride
    <3> QED BY <3>2, <3>3
  <2> QED BY <1>1, <1>4, <2>3, <2>5 DEF TurnInv
<1> QED BY <1>6, <1>7 DEF Turn

LEMMA NextTurns == TypeOK /\ TypeOK' /\ TurnInv /\ [Next]_vars => TurnInv'
<1> SUFFICES ASSUME TypeOK, TypeOK', TurnInv, [Next]_vars PROVE TurnInv'
  OBVIOUS
<1>1. ASSUME UNCHANGED <<bucket, now, sleep, tries, backs, beaten>>,
             \A c \in Client : pc'[c] = pc[c] \/ pc'[c] = "trying"
      PROVE  TurnInv'
  BY <1>1 DEF TurnInv, Behind, Patient, Stock, Turns, Stride
<1>2. CASE UNCHANGED vars
  BY <1>1, <1>2 DEF vars
<1>3. ASSUME NEW c \in Client, Arrive(c) PROVE TurnInv'
  BY <1>1, <1>3 DEF Arrive, TypeOK
<1>4. ASSUME NEW p \in Prober, Acquire(p) PROVE TurnInv'
  BY <1>4, AcquireTurn, TurnTurns DEF Client
<1>5. ASSUME NEW c \in Caller, Check(c) PROVE TurnInv'
  BY <1>5, CheckTurn, TurnTurns DEF Client
<1>6. ASSUME NEW p \in Prober, RunOut(p) PROVE TurnInv'
  <2>1. /\ pc' = [pc EXCEPT ![p] = "through"] /\ tries' = [tries EXCEPT ![p] = 0]
        /\ beaten' = [beaten EXCEPT ![p] = 0]
        /\ UNCHANGED <<bucket, now, sleep, backs>>
    BY <1>6 DEF RunOut
  <2>2. \A d \in Client : tries'[d] > 0 => pc'[d] = "trying"
    BY <2>1 DEF TurnInv, TypeOK
  <2>3. backs = 0 => Behind'
    BY <2>1 DEF TurnInv, Behind
  <2>4. ASSUME backs = 0, NEW d \in Client
        PROVE  \E m \in Nat : Patient(d, m)'
    <3>1. CASE d = p
      <4>1. tries'[d] = 0
        BY <3>1, <2>1 DEF TypeOK, Client
      <4> QED BY <4>1, FreshNext
    <3>2. CASE d # p
      <4>1. PICK m \in Nat : Patient(d, m)
        BY <2>4 DEF TurnInv
      <4>2. tries'[d] = tries[d] /\ beaten'[d] = beaten[d] /\ sleep'[d] = sleep[d]
        BY <3>2, <2>1 DEF TypeOK
      <4>3. Stock(KeyOf[d])' = Stock(KeyOf[d])
        BY <2>1 DEF Stock
      <4> QED BY <4>1, <4>2, <4>3 DEF Patient, Turns, Stride
    <3> QED BY <3>1, <3>2
  <2> QED BY <2>1, <2>2, <2>3, <2>4 DEF TurnInv
<1>7. ASSUME NEW k \in Key, Expire(k) PROVE TurnInv'
  BY <1>7, ExpireTurns
<1>8. CASE SetBack
  <2>1. backs' # 0 /\ UNCHANGED <<pc, tries>>
    BY <1>8 DEF SetBack, TypeOK
  <2> QED BY <2>1 DEF TurnInv
<1> QED BY <1>2, <1>3, <1>4, <1>5, <1>6, <1>7, <1>8, TickTurns DEF Next

LEMMA TurnInvariance == Spec => [](TypeOK /\ TurnInv)
<1>1. Init => TypeOK /\ TurnInv
  BY InitInv, InitTurns DEF IInv
<1>2. IInv /\ IInv' /\ TurnInv /\ [Next]_vars => TurnInv'
  BY NextTurns DEF IInv
<1>3. IInv => TypeOK
  BY DEF IInv
<1> QED BY <1>1, <1>2, <1>3, Invariance, PTL DEF Spec

\* However many probes and callers share a bucket: a probe loses no turn beyond
\* the sleeps one token takes but to tokens others were granted meanwhile.
THEOREM LosesToOthers == Spec => []LosesOnlyToOthers
<1>1. ASSUME TypeOK, TurnInv
      PROVE  LosesOnlyToOthers
  <2> SUFFICES ASSUME backs = 0, NEW p \in Prober
               PROVE  tries[p] <= (1 + beaten[p])
                                  * CeilDiv(CeilDiv(Unit, Refill[KeyOf[p]]), Patience)
    BY DEF LosesOnlyToOthers
  <2>1. p \in Client
    BY DEF Client
  <2>2. PICK m \in Nat : tries[p] + m <= (1 + beaten[p]) * Turns(p)
    BY <1>1, <2>1 DEF TurnInv, Patient
  <2>3. tries[p] \in Nat /\ (1 + beaten[p]) * Turns(p) \in Nat
    BY <1>1, <2>1, PatientNumbers
  <2>4. tries[p] <= (1 + beaten[p]) * Turns(p)
    <3> DEFINE x == (1 + beaten[p]) * Turns(p)
    <3>1. tries[p] + m <= x /\ x \in Nat /\ tries[p] \in Nat /\ m \in Nat
      BY <2>2, <2>3
    <3> HIDE DEF x
    <3>2. tries[p] <= x
      BY <3>1
    <3> QED BY <3>2 DEF x
  <2> QED BY <2>4 DEF Turns
<1> QED BY <1>1, TurnInvariance, PTL

\* For every rate and budget: a caller that waits for its Retry-After is refused
\* again only for a token that went to somebody else.
THEOREM RetryAfterHolds == Spec => []RetryAfterIsEnough
<1>1. ASSUME TypeOK, TurnInv
      PROVE  RetryAfterIsEnough
  <2> SUFFICES ASSUME backs = 0, NEW c \in Caller
               PROVE  tries[c] <= 1 + beaten[c]
    BY DEF RetryAfterIsEnough
  <2>1. c \in Client /\ c \notin Prober
    BY BucketAssumption DEF Client
  <2>2. PICK m \in Nat : tries[c] + m <= (1 + beaten[c]) * Turns(c)
    BY <1>1, <2>1 DEF TurnInv, Patient
  <2>3. tries[c] \in Nat /\ beaten[c] \in Nat /\ Turns(c) = 1
    BY <1>1, <2>1 DEF TypeOK, Turns
  <2> QED BY <2>2, <2>3
<1> QED BY <1>1, TurnInvariance, PTL
============================================================================
