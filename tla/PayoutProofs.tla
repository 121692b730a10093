---------------------------- MODULE PayoutProofs ----------------------------
(***************************************************************************)
(* Paying in batches: for every number of winners, every batch and every   *)
(* order of batches the bitmap is the payments, the proofs of all winners  *)
(* and no others verify, and the batches are steps of the escrow.          *)
(* PayoutInvariant is inductive.                                           *)
(***************************************************************************)
EXTENDS PayoutProperties, MerkleProofs

-----------------------------------------------------------------------------
(* Bits *)

LEMMA PowerSum ==
    ASSUME NEW a \in Nat, NEW b \in Nat
    PROVE  2^(a + b) = 2^a * 2^b
<1> DEFINE S == {k \in Nat : 2^(a + k) = 2^a * 2^k}
<1>1. 0 \in S
  <2>1. 2^0 = 1 /\ a + 0 = a /\ 2^a \in Nat
    BY PowerIsNat
  <2> QED  BY <2>1
<1>2. ASSUME NEW k \in Nat, k \in S PROVE k + 1 \in S
  <2> DEFINE p == 2^a
             q == 2^k
             r == 2^(a + k)
  <2>1. p \in Nat /\ q \in Nat /\ r \in Nat /\ 2^(k + 1) = 2 * q
    BY PowerIsNat, PowerDoubles
  <2>2. a + k \in Nat /\ a + (k + 1) = (a + k) + 1
    OBVIOUS
  <2>3. 2^(a + (k + 1)) = 2 * r
    BY <2>2, PowerDoubles
  <2>4. r = p * q
    BY <1>2
  <2> HIDE DEF p, q, r
  <2>5. 2 * r = p * (2 * q)
    BY <2>1, <2>4
  <2>6. 2^(a + (k + 1)) = p * 2^(k + 1)
    BY <2>1, <2>3, <2>5
  <2> QED  BY <2>6 DEF p
<1> HIDE DEF S
<1>3. b \in S
  BY <1>1, <1>2, NatSetInduction
<1> QED  BY <1>3 DEF S

\* A higher power is an even multiple of a lower one.
LEMMA EvenMultiple ==
    ASSUME NEW a \in Nat, NEW b \in Nat, b < a
    PROVE  \E m \in Nat \ {0} : 2^a = 2^b * (2 * m)
<1> DEFINE m == 2^(a - b - 1)
<1>1. a - b - 1 \in Nat /\ (a - b - 1) + 1 \in Nat /\ b + ((a - b - 1) + 1) = a
  OBVIOUS
<1>2. m \in Nat \ {0} /\ 2^((a - b - 1) + 1) = 2 * m
  BY <1>1, PowerIsNat, PowerDoubles
<1>3. 2^(b + ((a - b - 1) + 1)) = 2^b * 2^((a - b - 1) + 1)
  BY <1>1, PowerSum
<1> QED  BY <1>1, <1>2, <1>3

LEMMA Quotient ==
    ASSUME NEW x \in Nat, NEW p \in Nat \ {0}
    PROVE  /\ x \div p \in Nat
           /\ p * (x \div p) <= x /\ x < p * (x \div p) + p
OBVIOUS

LEMMA QuotientIs ==
    ASSUME NEW x \in Nat, NEW p \in Nat \ {0}, NEW q \in Nat,
           p * q <= x, x < p * q + p
    PROVE  x \div p = q
OBVIOUS

LEMMA ProductOrder ==
    ASSUME NEW p \in Nat \ {0}, NEW u \in Nat, NEW v \in Nat
    PROVE  /\ p * u \in Nat
           /\ p * u < p * v => u < v
           /\ u <= v => p * u <= p * v
OBVIOUS

\* Adding 2^a to a byte whose bit a is clear sets that bit and no other.
LEMMA BitsSetApart ==
    ASSUME NEW byte \in Nat, NEW a \in Nat, NEW b \in Nat, ~BitIsSet(byte, a)
    PROVE  BitIsSet(byte + 2^a, b) <=> b = a \/ BitIsSet(byte, b)
<1> DEFINE p == 2^a
           P == 2^b
           q == byte \div p
           Q == byte \div P
<1>1. p \in Nat \ {0} /\ P \in Nat \ {0}
  BY PowerIsNat
<1>2. q % 2 # 1 /\ (BitIsSet(byte, b) <=> Q % 2 = 1)
      /\ (BitIsSet(byte + p, b) <=> ((byte + p) \div P) % 2 = 1)
  BY DEF BitIsSet
<1>3. CASE b = a
  <2>1. P = p /\ Q = q
    BY <1>3
  <2> HIDE DEF p, P
  <2>2. q \in Nat /\ p * q <= byte /\ byte < p * q + p
    BY <1>1, Quotient
  <2> HIDE DEF q
  <2>3. p * (q + 1) = p * q + p
    BY <1>1, <2>2
  <2>4. (byte + p) \div p = q + 1
    <3>1. /\ byte + p \in Nat /\ q + 1 \in Nat
          /\ p * (q + 1) <= byte + p /\ byte + p < p * (q + 1) + p
      BY <1>1, <2>2, <2>3, ProductOrder
    <3> QED  BY <1>1, <3>1, QuotientIs
  <2>5. (q + 1) % 2 = 1
    BY <1>2, <2>2
  <2> QED  BY <1>2, <1>3, <2>1, <2>4, <2>5 DEF p
<1>4. CASE b < a
  <2>1. PICK m \in Nat : p = P * (2 * m)
    BY <1>4, EvenMultiple
  <2> HIDE DEF p, P
  <2>2. Q \in Nat /\ P * Q <= byte /\ byte < P * Q + P
    BY <1>1, Quotient
  <2> HIDE DEF Q
  <2>3. P * (Q + 2 * m) = P * Q + P * (2 * m)
    BY <1>1, <2>1, <2>2
  <2>4. (byte + p) \div P = Q + 2 * m
    <3>1. /\ byte + p \in Nat /\ Q + 2 * m \in Nat
          /\ P * (Q + 2 * m) <= byte + p /\ byte + p < P * (Q + 2 * m) + P
      BY <1>1, <2>1, <2>2, <2>3, ProductOrder
    <3> QED  BY <1>1, <3>1, QuotientIs
  <2>5. (Q + 2 * m) % 2 = Q % 2
    BY <2>1, <2>2
  <2> QED  BY <1>2, <1>4, <2>4, <2>5 DEF p
<1>5. CASE a < b
  <2>1. PICK m \in Nat \ {0} : P = p * (2 * m)
    BY <1>5, EvenMultiple
  <2> HIDE DEF p, P
  <2>2. q \in Nat /\ p * q <= byte /\ byte < p * q + p
    BY <1>1, Quotient
  <2>3. Q \in Nat /\ P * Q <= byte /\ byte < P * Q + P
    BY <1>1, Quotient
  <2> HIDE DEF q, Q
  <2>4. PICK s \in Nat : q = 2 * s
    BY <1>2, <2>2
  <2> DEFINE e == m * Q
  <2>5. e \in Nat
    BY <2>1, <2>3
  <2>6. P * Q = p * (2 * e) /\ P * Q + P = p * (2 * e + 2 * m)
    BY <1>1, <2>1, <2>3
  <2> HIDE DEF e
  <2>7. p * q < p * (2 * e + 2 * m)
    <3>1. p * q \in Nat
      BY <1>1, <2>2
    <3> QED  BY <1>1, <2>2, <2>3, <2>6, <3>1
  <2>8. q < 2 * e + 2 * m
    <3>1. 2 * e + 2 * m \in Nat
      BY <2>1, <2>5
    <3> QED  BY <1>1, <2>2, <2>7, <3>1, ProductOrder
  <2>9. q + 2 <= 2 * e + 2 * m
    BY <2>1, <2>4, <2>5, <2>8
  <2>10. p * (q + 2) <= p * (2 * e + 2 * m)
    <3>1. q + 2 \in Nat /\ 2 * e + 2 * m \in Nat
      BY <2>1, <2>2, <2>5
    <3> QED  BY <1>1, <2>9, <3>1, ProductOrder
  <2>11. p * (q + 2) = p * q + p + p
    BY <1>1, <2>2
  <2>12. byte + p < P * Q + P
    <3> DEFINE u == p * q
               v == p * (q + 2)
               w == p * (2 * e + 2 * m)
    <3>1. u \in Nat /\ byte < u + p
      BY <1>1, <2>2
    <3>2. v = u + p + p /\ v <= w
      BY <2>10, <2>11
    <3>3. w \in Nat
      <4>1. 2 * e + 2 * m \in Nat
        BY <2>1, <2>5
      <4> QED  BY <1>1, <4>1, ProductOrder
    <3> HIDE DEF u, v, w
    <3>4. byte + p < w
      BY <1>1, <3>1, <3>2, <3>3
    <3> QED  BY <2>6, <3>4 DEF w
  <2>13. (byte + p) \div P = Q
    <3>1. byte + p \in Nat /\ P * Q <= byte + p
      BY <1>1, <2>3, ProductOrder
    <3> QED  BY <1>1, <2>3, <2>12, <3>1, QuotientIs
  <2> QED  BY <1>2, <1>5, <2>13 DEF p
<1> QED  BY <1>3, <1>4, <1>5

\* A bit below the eighth never carries out of its byte.
LEMMA ByteStaysByte ==
    ASSUME NEW byte \in 0..255, NEW a \in 0..BITS - 1, ~BitIsSet(byte, a)
    PROVE  byte + 2^a \in 0..255
<1> DEFINE p == 2^a
           q == byte \div p
<1>1. p \in Nat \ {0} /\ BITS \in Nat /\ 2^BITS = 256 /\ a \in Nat /\ a < BITS
  BY PowerIsNat DEF BITS
<1>2. PICK m \in Nat \ {0} : 2^BITS = p * (2 * m)
  BY <1>1, EvenMultiple
<1>3. q % 2 # 1
  BY DEF BitIsSet
<1> HIDE DEF p
<1>4. q \in Nat /\ p * q <= byte /\ byte < p * q + p
  BY <1>1, Quotient
<1> HIDE DEF q
<1>5. PICK s \in Nat : q = 2 * s
  BY <1>3, <1>4
<1>6. q < 2 * m
  <2>1. p * q < p * (2 * m)
    BY <1>1, <1>2, <1>4
  <2> QED  BY <1>1, <1>2, <1>4, <2>1, ProductOrder
<1>7. q + 2 <= 2 * m
  BY <1>2, <1>5, <1>6
<1>8. p * (q + 2) <= p * (2 * m)
  BY <1>1, <1>2, <1>4, <1>7, ProductOrder
<1>9. p * (q + 2) = p * q + p + p
  BY <1>1, <1>4
<1> DEFINE u == p * q
<1>10. u \in Nat /\ byte < u + p /\ u + p + p <= 256
  BY <1>1, <1>2, <1>4, <1>8, <1>9
<1> HIDE DEF u
<1>11. byte + p \in 0..255
  BY <1>1, <1>10
<1> QED  BY <1>11 DEF p

-----------------------------------------------------------------------------
(* A batch is paid claim by claim *)

LEMMA MaxOf ==
    ASSUME NEW n \in Nat, NEW s \in SUBSET (1..n), s # {}
    PROVE  Max(s) \in s /\ \A y \in s : y <= Max(s)
<1> DEFINE S == {n - y : y \in s}
<1>1. S \in SUBSET Nat /\ S # {}
  <2>1. \A y \in s : n - y \in Nat
    OBVIOUS
  <2> QED  BY <2>1
<1>2. PICK x \in S : \A y \in S : x <= y
  <2> HIDE DEF S
  <2> QED  BY <1>1, LeastNat
<1>3. PICK z \in s : x = n - z
  BY DEF S
<1>4. ASSUME NEW y \in s PROVE z >= y
  <2>1. n - y \in S /\ x <= n - y
    BY <1>2
  <2> QED  BY <1>3, <2>1
<1>5. \E m \in s : \A y \in s : m >= y
  BY <1>4
<1>6. Max(s) \in s /\ \A y \in s : Max(s) >= y
  BY <1>5 DEF Max
<1> QED  BY <1>6

PayAtStart ==
    [ok |-> TRUE, paid_bitmap |-> paid_bitmap, paid_count |-> paid_count,
     vault |-> vault, received |-> received]

\* PayClaims is the last of a chain of payments that starts from the accounts
\* and handles one claim after the other.
LEMMA PayClaimsInOrder ==
    ASSUME NEW batch, Len(batch) \in Nat, DOMAIN batch = 1..Len(batch)
    PROVE  \E pay : /\ pay[0] = PayAtStart
                    /\ \A k \in 1..Len(batch) : pay[k] = PayClaim(pay[k - 1], batch[k])
                    /\ pay[Len(batch)] = PayClaims(batch)
<1> DEFINE n == Len(batch)
           Subsets(m) == SUBSET (1..m)
           After(f, s) == IF s = {} THEN PayAtStart
                          ELSE PayClaim(f[s \ {Max(s)}], batch[Max(s)])
           Has(m) == \E f : f = [s \in Subsets(m) |-> After(f, s)]
           S == {m \in Nat : Has(m)}
           fold == CHOOSE f : f = [s \in Subsets(n) |-> After(f, s)]
<1>1. 0 \in S
  <2> DEFINE f == [s \in Subsets(0) |-> PayAtStart]
  <2>1. Subsets(0) = {{}}
    OBVIOUS
  <2>2. f = [s \in Subsets(0) |-> After(f, s)]
    BY <2>1
  <2>3. Has(0)
    BY <2>2
  <2> QED  BY <2>3
<1>2. ASSUME NEW m \in Nat, m \in S PROVE m + 1 \in S
  <2>1. PICK f : f = [s \in Subsets(m) |-> After(f, s)]
    BY <1>2
  <2> DEFINE g == [s \in Subsets(m + 1) |->
                    IF m + 1 \in s THEN PayClaim(f[s \ {m + 1}], batch[m + 1]) ELSE f[s]]
  <2>2. ASSUME NEW s \in Subsets(m + 1) PROVE g[s] = After(g, s)
    <3>0. m + 1 \in Nat /\ s \in SUBSET (1..m + 1)
      OBVIOUS
    <3>1. CASE m + 1 \in s
      <4>1. s \ {m + 1} \in Subsets(m) /\ s \ {m + 1} \in Subsets(m + 1) /\ s # {}
        BY <3>1
      <4>2. Max(s) = m + 1
        <5> HIDE DEF g, After, Has
        <5>1. Max(s) \in s /\ m + 1 <= Max(s)
          BY <3>0, <3>1, <4>1, MaxOf
        <5> DEFINE top == Max(s)
        <5>2. top \in 1..m + 1 /\ m + 1 <= top
          BY <3>0, <5>1
        <5> HIDE DEF top
        <5>3. top = m + 1
          BY <3>0, <5>2
        <5> QED  BY <5>3 DEF top
      <4>3. g[s \ {m + 1}] = f[s \ {m + 1}]
        BY <4>1
      <4>4. g[s] = PayClaim(f[s \ {m + 1}], batch[m + 1])
        BY <3>1
      <4> QED  BY <4>1, <4>2, <4>3, <4>4
    <3>2. CASE m + 1 \notin s
      <4>0. s \in Subsets(m)
        <5>1. \A y \in 1..m + 1 : y = m + 1 \/ y \in 1..m
          OBVIOUS
        <5> QED  BY <3>0, <3>2, <5>1
      <4>1. s \in Subsets(m) /\ g[s] = f[s] /\ f[s] = After(f, s)
        BY <2>1, <3>2, <4>0
      <4>2. CASE s = {}
        BY <4>1, <4>2
      <4>3. CASE s # {}
        <5>1. s \ {Max(s)} \in Subsets(m) /\ s \ {Max(s)} \in Subsets(m + 1)
          BY <4>1
        <5>2. g[s \ {Max(s)}] = f[s \ {Max(s)}]
          BY <5>1
        <5> QED  BY <4>1, <4>3, <5>2
      <4> QED  BY <4>2, <4>3
    <3> QED  BY <3>1, <3>2
  <2>3. g = [s \in Subsets(m + 1) |-> After(g, s)]
    <3> HIDE DEF After
    <3> QED  BY <2>2
  <2>4. Has(m + 1)
    BY <2>3
  <2> HIDE DEF Has
  <2> QED  BY <2>4
<1>3. n \in S
  <2> HIDE DEF S
  <2> QED  BY <1>1, <1>2, NatSetInduction
<1>4. fold = [s \in Subsets(n) |-> After(fold, s)]
  <2>1. Has(n)
    BY <1>3
  <2> HIDE DEF After
  <2> QED  BY <2>1
<1>5. PayClaims(batch) = fold[1..n]
  BY DEF PayClaims, FoldLeft, MapThenFoldSet, PayAtStart
<1> DEFINE pay == [k \in 0..n |-> fold[1..k]]
<1> HIDE DEF fold
<1>6. pay[0] = PayAtStart
  <2>1. {} \in Subsets(n) /\ 1..0 = {}
    OBVIOUS
  <2> QED  BY <1>4, <2>1
<1>7. ASSUME NEW k \in 1..n PROVE pay[k] = PayClaim(pay[k - 1], batch[k])
  <2>1. k \in Nat /\ 1..k \in SUBSET (1..k) /\ 1..k \in Subsets(n) /\ 1..k # {} /\ k \in 1..k
    OBVIOUS
  <2>2. Max(1..k) = k
    <3>1. Max(1..k) \in 1..k /\ k <= Max(1..k)
      BY <2>1, MaxOf
    <3> QED  BY <3>1
  <2>3. (1..k) \ {k} = 1..k - 1
    OBVIOUS
  <2>4. fold[1..k] = PayClaim(fold[1..k - 1], batch[k])
    BY <1>4, <2>1, <2>2, <2>3
  <2>5. pay[k] = fold[1..k] /\ pay[k - 1] = fold[1..k - 1]
    OBVIOUS
  <2> QED  BY <2>4, <2>5
<1>8. pay[n] = PayClaims(batch)
  BY <1>5
<1> QED  BY <1>6, <1>7, <1>8

-----------------------------------------------------------------------------
(* What a claim does to the accounts *)

PaidIn(bitmap) == {i \in Indices : IsWinnerPaid(bitmap, i)}

\* The accounts in the middle of a batch: the bits are still the payments, no
\* bit was cleared, and the vault paid one share for each bit set since.
Consistent(pay) ==
    /\ pay \in [ok : BOOLEAN, paid_bitmap : [1..BitmapBytes(winners_count) -> 0..255],
                paid_count : Nat, vault : Nat, received : [Payees -> Nat]]
    /\ \A i \in Indices :
            pay.received[i + 1] = IF IsWinnerPaid(pay.paid_bitmap, i)
                                  THEN per_winner_lamports ELSE 0
    /\ \A w \in Payees \ (1..winners_count) : pay.received[w] = 0
    /\ pay.paid_count = Cardinality(PaidIn(pay.paid_bitmap))
    /\ PaidIn(paid_bitmap) \subseteq PaidIn(pay.paid_bitmap)
    /\ pay.vault = vault - per_winner_lamports * (pay.paid_count - paid_count)

\* The constants are what the assumptions say, the wallets are numbered.
LEMMA Terms ==
    ASSUME PayoutInvariant
    PROVE  /\ winners_count \in Nat \ {0}
           /\ 1..winners_count \subseteq Payees
           /\ winner_wallets = [i \in 1..winners_count |-> i]
           /\ ToSet(winner_wallets) = 1..winners_count
           /\ \A i \in Indices : i + 1 \in 1..winners_count /\ WalletOf(i) = i + 1
           /\ RENT \in Nat \ {0} /\ MAX_WINNERS_PER_BATCH \in Nat \ {0}
           /\ IsFiniteSet(Indices) /\ Cardinality(Indices) = winners_count
<1>1. winners_count \in 1..Cardinality(Payees) /\ Payees = 1..Cardinality(Payees)
      /\ Cardinality(Payees) \in Nat
  BY PayeesAssumption, BoundsAssumption, FS_CardinalityType DEF PayoutInvariant, TypeOK
<1>2. winners_count \in Nat \ {0} /\ 1..winners_count \subseteq Payees
  BY <1>1
<1>3. winner_wallets = [i \in 1..winners_count |-> i]
  BY DEF PayoutInvariant, TermsAsPublished
<1>4. ToSet(winner_wallets) = 1..winners_count
  BY <1>3 DEF ToSet
<1>5. \A i \in Indices : i + 1 \in 1..winners_count /\ WalletOf(i) = i + 1
  BY <1>2, <1>3 DEF Indices, WalletOf
<1>6. IsFiniteSet(Indices) /\ Cardinality(Indices) = winners_count
  BY <1>2, FS_Interval DEF Indices
<1>7. RENT \in Nat \ {0} /\ MAX_WINNERS_PER_BATCH \in Nat \ {0}
  BY BoundsAssumption
<1> QED  BY <1>2, <1>3, <1>4, <1>5, <1>6, <1>7, Zenon

\* Every index has its byte in the bitmap and its bit in the byte.
LEMMA Positions ==
    ASSUME NEW n \in Nat, NEW i \in 0..n - 1
    PROVE  /\ ByteIndex(i) \in Nat /\ ByteIndex(i) < BitmapBytes(n)
           /\ ByteIndex(i) + 1 \in 1..BitmapBytes(n)
           /\ BitIndex(i) \in 0..BITS - 1 /\ BitIndex(i) \in Nat
           /\ i = BITS * ByteIndex(i) + BitIndex(i)
BY DEF ByteIndex, BitIndex, BitmapBytes, BITS

LEMMA StartIsConsistent ==
    ASSUME PayoutInvariant
    PROVE  Consistent(PayAtStart) /\ PayAtStart.ok
<1>1. \A i \in Indices : WalletOf(i) = i + 1
  BY Terms
<1>2. ToSet(winner_wallets) = 1..winners_count
  BY Terms
<1>3. /\ \A i \in Indices : received[i + 1] =
                IF IsWinnerPaid(paid_bitmap, i) THEN per_winner_lamports ELSE 0
      /\ paid_count = Cardinality(PaidIn(paid_bitmap))
  BY <1>1 DEF PayoutInvariant, BitmapIsPayments, IsPaid, PaidIn
<1>4. \A w \in Payees \ (1..winners_count) : received[w] = 0
  BY <1>2 DEF PayoutInvariant
<1>5. /\ paid_bitmap \in [1..BitmapBytes(winners_count) -> 0..255]
      /\ paid_count \in Nat /\ vault \in Nat /\ received \in [Payees -> Nat]
      /\ per_winner_lamports \in Nat
  BY DEF PayoutInvariant, TypeOK
<1>6. vault = vault - per_winner_lamports * (paid_count - paid_count)
  BY <1>5
<1> QED  BY <1>3, <1>4, <1>5, <1>6 DEF Consistent, PayAtStart

\* Marking a winner who is not marked sets that winner's bit and no other, in
\* the same byte or in another.
LEMMA SetBitMarks ==
    ASSUME winners_count \in Nat \ {0},
           NEW bitmap \in [1..BitmapBytes(winners_count) -> 0..255],
           NEW i \in Indices, ~IsWinnerPaid(bitmap, i)
    PROVE  /\ SetBit(bitmap, i) \in [1..BitmapBytes(winners_count) -> 0..255]
           /\ \A j \in Indices :
                IsWinnerPaid(SetBit(bitmap, i), j) <=> j = i \/ IsWinnerPaid(bitmap, j)
<1> DEFINE n == BitmapBytes(winners_count)
           B(j) == ByteIndex(j) + 1
           b(j) == BitIndex(j)
           marked == SetBit(bitmap, i)
           byte == bitmap[B(i)]
<1>1. \A j \in Indices : /\ j < winners_count /\ ByteIndex(j) < n /\ B(j) \in 1..n
                         /\ b(j) \in 0..BITS - 1 /\ b(j) \in Nat
                         /\ j = BITS * (B(j) - 1) + b(j)
  <2>1. SUFFICES ASSUME NEW j \in Indices
                 PROVE  /\ j < winners_count /\ ByteIndex(j) < n /\ B(j) \in 1..n
                        /\ b(j) \in 0..BITS - 1 /\ b(j) \in Nat
                        /\ j = BITS * (B(j) - 1) + b(j)
    OBVIOUS
  <2>2. j \in 0..winners_count - 1 /\ j < winners_count
    BY DEF Indices
  <2>3. /\ ByteIndex(j) \in Nat /\ ByteIndex(j) < n /\ B(j) \in 1..n
        /\ b(j) \in 0..BITS - 1 /\ b(j) \in Nat
        /\ j = BITS * ByteIndex(j) + b(j)
    BY <2>2, Positions
  <2>4. B(j) - 1 = ByteIndex(j)
    BY <2>3
  <2> QED  BY <2>2, <2>3, <2>4
<1>2. n \in Nat
  BY DEF BitmapBytes, BITS
<1>3. \A f \in [1..n -> 0..255] : Len(f) = n
  BY <1>2, SeqDef
<1>4. \A f \in [1..n -> 0..255] : \A j \in Indices :
            IsWinnerPaid(f, j) <=> BitIsSet(f[B(j)], b(j))
  BY <1>1, <1>3 DEF IsWinnerPaid
<1>5. byte \in 0..255 /\ byte \in Nat /\ ~BitIsSet(byte, b(i))
  <2>1. B(i) \in 1..n
    BY <1>1
  <2>2. byte \in 0..255
    BY <2>1
  <2>3. ~BitIsSet(byte, b(i))
    BY <1>4
  <2> HIDE DEF byte, b
  <2>4. byte \in Nat
    BY <2>2
  <2> QED  BY <2>2, <2>3, <2>4
<1>6. marked = [bitmap EXCEPT ![B(i)] = byte + 2^b(i)]
  BY DEF SetBit
<1>7. byte + 2^b(i) \in 0..255
  BY <1>1, <1>5, ByteStaysByte
<1> HIDE DEF marked, byte, n, B, b
<1>8. marked \in [1..n -> 0..255]
  BY <1>1, <1>6, <1>7 DEF n
<1>9. ASSUME NEW j \in Indices
      PROVE  IsWinnerPaid(marked, j) <=> j = i \/ IsWinnerPaid(bitmap, j)
  <2>1. /\ IsWinnerPaid(marked, j) <=> BitIsSet(marked[B(j)], b(j))
        /\ IsWinnerPaid(bitmap, j) <=> BitIsSet(bitmap[B(j)], b(j))
    BY <1>4, <1>8 DEF n
  <2>2. CASE B(j) = B(i)
    <3>1. marked[B(j)] = byte + 2^b(i) /\ bitmap[B(j)] = byte
      BY <1>1, <1>6, <2>2 DEF byte, n
    <3>2. BitIsSet(byte + 2^b(i), b(j)) <=> b(j) = b(i) \/ BitIsSet(byte, b(j))
      BY <1>1, <1>5, BitsSetApart
    <3>3. b(j) = b(i) <=> j = i
      BY <1>1, <2>2
    <3> QED  BY <2>1, <3>1, <3>2, <3>3, Zenon
  <2>3. CASE B(j) # B(i)
    <3>1. marked[B(j)] = bitmap[B(j)] /\ j # i
      BY <1>1, <1>6, <2>3 DEF n
    <3> QED  BY <2>1, <3>1, Zenon
  <2> QED  BY <2>2, <2>3
<1> QED  BY <1>8, <1>9 DEF marked, n

\* A claim that is accepted sets one more bit and moves one share for it; one
\* that is refused leaves the accounts as they were.
LEMMA ClaimIsConsistent ==
    ASSUME PayoutInvariant, NEW pay, Consistent(pay),
           NEW claim, claim.winner_index \in Nat
    PROVE  /\ Consistent(PayClaim(pay, claim))
           /\ PayClaim(pay, claim).ok =>
                pay.ok /\ PayClaim(pay, claim).paid_count = pay.paid_count + 1
<1> DEFINE q == PayClaim(pay, claim)
           i == claim.winner_index
           n == winners_count
           share == per_winner_lamports
           Bitmaps == [1..BitmapBytes(n) -> 0..255]
<1>1. n \in Nat \ {0} /\ 1..n \subseteq Payees
      /\ \A j \in Indices : j + 1 \in 1..n /\ WalletOf(j) = j + 1
      /\ IsFiniteSet(Indices)
  BY Terms
<1>2. pay \in [ok : BOOLEAN, paid_bitmap : Bitmaps, paid_count : Nat, vault : Nat,
               received : [Payees -> Nat]]
  BY DEF Consistent
<1>3. share \in Nat \ {0} /\ paid_count \in Nat /\ vault \in Nat
  BY DEF PayoutInvariant, TypeOK
<1> HIDE DEF Bitmaps
<1>4. CASE ~pay.ok \/ ~Accepts(pay, claim)
  <2>1. q = [pay EXCEPT !.ok = FALSE]
    BY <1>4 DEF PayClaim
  <2> HIDE DEF q
  <2>2. /\ q.ok = FALSE /\ q.paid_bitmap = pay.paid_bitmap
        /\ q.paid_count = pay.paid_count /\ q.vault = pay.vault
        /\ q.received = pay.received
    BY <1>2, <2>1
  <2>3. q \in [ok : BOOLEAN, paid_bitmap : Bitmaps, paid_count : Nat, vault : Nat,
               received : [Payees -> Nat]]
    BY <1>2, <2>1
  <2> QED  BY <2>2, <2>3 DEF Consistent, Bitmaps, q
<1>5. CASE pay.ok /\ Accepts(pay, claim)
  <2>1. /\ i \in Indices /\ claim.amount = share /\ claim.winner = i + 1
        /\ ~IsWinnerPaid(pay.paid_bitmap, i) /\ share <= pay.vault
    <3>1. i \in Indices
      BY <1>1, <1>5 DEF Accepts, Indices
    <3> QED  BY <1>1, <1>5, <3>1 DEF Accepts, WalletOf
  <2> DEFINE bitmap == SetBit(pay.paid_bitmap, i)
             received2 == [pay.received EXCEPT ![i + 1] = @ + share]
             count == pay.paid_count + 1
             rest == pay.vault - share
  <2>2. q = [pay EXCEPT !.paid_bitmap = bitmap, !.paid_count = count,
                        !.vault = rest, !.received = received2]
    <3>1. [pay.received EXCEPT ![claim.winner] = @ + claim.amount] = received2
      BY <2>1
    <3>2. q = [pay EXCEPT !.paid_bitmap = bitmap, !.paid_count = count,
                          !.vault = pay.vault - claim.amount,
                          !.received = [pay.received EXCEPT ![claim.winner] = @ + claim.amount]]
      BY <1>5, Zenon DEF PayClaim
    <3> QED  BY <2>1, <3>1, <3>2, Zenon
  <2>3. bitmap \in Bitmaps
        /\ \A j \in Indices :
                IsWinnerPaid(bitmap, j) <=> j = i \/ IsWinnerPaid(pay.paid_bitmap, j)
    BY <1>1, <1>2, <2>1, SetBitMarks DEF Bitmaps
  <2>4. received2 \in [Payees -> Nat]
    BY <1>1, <1>2, <1>3, <2>1
  <2> HIDE DEF bitmap, q
  <2>5. count \in Nat /\ rest \in Nat
    BY <1>2, <1>3, <2>1
  <2> HIDE DEF received2, count, rest
  <2>6. /\ q.ok = TRUE /\ q.paid_bitmap = bitmap /\ q.paid_count = count
        /\ q.vault = rest /\ q.received = received2
    BY <1>2, <1>5, <2>2
  <2>7. q \in [ok : BOOLEAN, paid_bitmap : Bitmaps, paid_count : Nat, vault : Nat,
               received : [Payees -> Nat]]
    BY <1>2, <2>2, <2>3, <2>4, <2>5
  <2>8. PaidIn(bitmap) = PaidIn(pay.paid_bitmap) \cup {i} /\ i \notin PaidIn(pay.paid_bitmap)
    BY <2>1, <2>3 DEF PaidIn
  <2>9. Cardinality(PaidIn(bitmap)) = Cardinality(PaidIn(pay.paid_bitmap)) + 1
    <3>1. PaidIn(pay.paid_bitmap) \in SUBSET Indices
      BY DEF PaidIn
    <3>2. IsFiniteSet(PaidIn(pay.paid_bitmap))
      <4>1. IsFiniteSet(Indices)
        BY Terms
      <4> QED  BY <3>1, <4>1, FS_Subset
    <3> QED  BY <2>8, <3>2, FS_AddElement
  <2>10. ASSUME NEW j \in Indices
         PROVE  received2[j + 1] = IF IsWinnerPaid(bitmap, j) THEN share ELSE 0
    <3>1. j + 1 \in Payees /\ i + 1 \in Payees /\ (j + 1 = i + 1 <=> j = i)
      BY <1>1, <2>1 DEF Indices
    <3>2. pay.received[j + 1] = IF IsWinnerPaid(pay.paid_bitmap, j) THEN share ELSE 0
      BY DEF Consistent
    <3>3. CASE j = i
      BY <1>2, <1>3, <2>1, <2>3, <3>1, <3>2, <3>3 DEF received2
    <3>4. CASE j # i
      BY <1>2, <2>3, <3>1, <3>2, <3>4 DEF received2
    <3> QED  BY <3>3, <3>4
  <2>11. \A w \in Payees \ (1..n) : received2[w] = 0
    BY <1>1, <1>2, <2>1 DEF Consistent, received2
  <2>12. q.vault = vault - share * (q.paid_count - paid_count)
    <3> DEFINE d == pay.paid_count - paid_count
    <3>1. d \in Int /\ pay.vault = vault - share * d
      BY <1>2, <1>3 DEF Consistent
    <3>2. q.paid_count - paid_count = d + 1
      BY <1>2, <1>3, <2>6 DEF count
    <3> HIDE DEF d
    <3> DEFINE sd == share * d
    <3>3. share * (d + 1) = sd + share /\ sd \in Int
      BY <1>3, <3>1
    <3>4. pay.vault = vault - sd /\ q.vault = pay.vault - share
      BY <2>6, <3>1 DEF rest
    <3> HIDE DEF sd
    <3>5. q.vault = vault - (sd + share)
      BY <1>3, <3>3, <3>4
    <3> QED  BY <3>2, <3>3, <3>5
  <2>13. PaidIn(paid_bitmap) \subseteq PaidIn(q.paid_bitmap)
    BY <2>6, <2>8 DEF Consistent
  <2>14. q.paid_count = Cardinality(PaidIn(q.paid_bitmap))
    BY <2>6, <2>9 DEF Consistent, count
  <2>15. Consistent(q)
    BY <2>6, <2>7, <2>10, <2>11, <2>12, <2>13, <2>14 DEF Consistent, Bitmaps
  <2> QED  BY <1>5, <2>6, <2>15 DEF q, count
<1> QED  BY <1>4, <1>5

\* A list of claims, whatever wallets, amounts, accounts and proofs they name.
IsBatch(batch) ==
    /\ Len(batch) \in Nat /\ DOMAIN batch = 1..Len(batch)
    /\ \A k \in 1..Len(batch) : batch[k].winner_index \in Nat

\* A batch that is not refused pays exactly as many winners as it has claims.
LEMMA BatchIsConsistent ==
    ASSUME PayoutInvariant, NEW batch, IsBatch(batch)
    PROVE  /\ Consistent(PayClaims(batch))
           /\ PayClaims(batch).ok =>
                PayClaims(batch).paid_count = paid_count + Len(batch)
<1> DEFINE n == Len(batch)
<1>1. n \in Nat /\ DOMAIN batch = 1..n /\ \A k \in 1..n : batch[k].winner_index \in Nat
  BY DEF IsBatch
<1>2. PICK pay : /\ pay[0] = PayAtStart
                 /\ \A k \in 1..n : pay[k] = PayClaim(pay[k - 1], batch[k])
                 /\ pay[n] = PayClaims(batch)
  BY <1>1, PayClaimsInOrder
<1> DEFINE Good(k) == /\ Consistent(pay[k])
                      /\ pay[k].ok => pay[k].paid_count = paid_count + k
           S == {k \in Nat : k <= n => Good(k)}
<1> HIDE DEF n
<1>3. 0 \in S
  <2>1. paid_count \in Nat
    BY DEF PayoutInvariant, TypeOK
  <2>2. Good(0)
    BY <1>2, <2>1, StartIsConsistent DEF PayAtStart
  <2> QED  BY <2>2
<1>4. ASSUME NEW k \in Nat, k \in S PROVE k + 1 \in S
  <2>1. SUFFICES ASSUME k + 1 <= n PROVE Good(k + 1)
    OBVIOUS
  <2>2. k + 1 \in 1..n /\ (k + 1) - 1 = k /\ k <= n
    BY <1>1, <2>1
  <2>3. Good(k)
    BY <1>4, <2>2
  <2>4. pay[k + 1] = PayClaim(pay[k], batch[k + 1])
    BY <1>2, <2>2
  <2>5. batch[k + 1].winner_index \in Nat
    BY <1>1, <2>2
  <2>6. Consistent(pay[k + 1])
        /\ (pay[k + 1].ok => pay[k].ok /\ pay[k + 1].paid_count = pay[k].paid_count + 1)
    BY <2>3, <2>4, <2>5, ClaimIsConsistent
  <2>7. paid_count \in Nat /\ paid_count + k + 1 = paid_count + (k + 1)
    BY DEF PayoutInvariant, TypeOK
  <2> QED  BY <2>3, <2>6, <2>7
<1>5. n \in S
  <2> HIDE DEF S
  <2> QED  BY <1>1, <1>3, <1>4, NatSetInduction
<1> QED  BY <1>1, <1>2, <1>5 DEF n

\* The accounts that received something are those of the winners marked.
LEMMA CreditedAccounts ==
    ASSUME PayoutInvariant, NEW pay, Consistent(pay)
    PROVE  LET W == {w \in Payees : pay.received[w] > 0}
           IN /\ W = {i + 1 : i \in PaidIn(pay.paid_bitmap)}
              /\ W \subseteq 1..winners_count
              /\ IsFiniteSet(W) /\ Cardinality(W) = pay.paid_count
              /\ W = 1..winners_count <=> pay.paid_count = winners_count
<1> DEFINE W == {w \in Payees : pay.received[w] > 0}
           P == PaidIn(pay.paid_bitmap)
           n == winners_count
           f == [i \in P |-> i + 1]
<1>1. n \in Nat \ {0} /\ 1..n \subseteq Payees
      /\ \A i \in Indices : i + 1 \in 1..n
  BY Terms
<1>2. per_winner_lamports \in Nat \ {0}
  BY DEF PayoutInvariant, TypeOK
<1>3. W = {i + 1 : i \in P}
  <2>1. ASSUME NEW w \in W PROVE w \in {i + 1 : i \in P}
    <3>1. w \in 1..n
      BY DEF Consistent
    <3>2. w - 1 \in Indices /\ (w - 1) + 1 = w
      BY <1>1, <3>1 DEF Indices
    <3>3. w - 1 \in P
      BY <3>2 DEF Consistent, PaidIn
    <3> QED  BY <3>2, <3>3
  <2>2. ASSUME NEW i \in P PROVE i + 1 \in W
    <3>1. i \in Indices /\ pay.received[i + 1] = per_winner_lamports
      BY DEF Consistent, PaidIn
    <3> QED  BY <1>1, <1>2, <3>1
  <2> HIDE DEF W, P
  <2> QED  BY <2>1, <2>2
<1>4. W \subseteq 1..n
  BY <1>1, <1>3 DEF PaidIn
<1>5. IsFiniteSet(P) /\ Cardinality(P) = pay.paid_count
  <2>1. P \in SUBSET Indices /\ Cardinality(P) = pay.paid_count
    BY DEF PaidIn, Consistent
  <2>2. IsFiniteSet(Indices)
    BY Terms
  <2> QED  BY <2>1, <2>2, FS_Subset
<1>6. P \subseteq Int
  BY <1>1 DEF PaidIn, Indices
<1> HIDE DEF W, P
<1>7. f \in Bijection(P, W)
  <2>1. f \in [P -> W]
    BY <1>3
  <2>2. \A i, j \in P : f[i] = f[j] => i = j
    BY <1>6
  <2>3. \A w \in W : \E i \in P : f[i] = w
    BY <1>3
  <2> QED  BY <2>1, <2>2, <2>3, Zenon DEF Bijection, Injection, Surjection, IsInjective
<1>8. IsFiniteSet(W) /\ Cardinality(W) = Cardinality(P)
  BY <1>5, <1>7, FS_Bijection, Zenon DEF ExistsBijection
<1>9. IsFiniteSet(1..n) /\ Cardinality(1..n) = n
  BY <1>1, FS_Interval
<1>10. W = 1..n <=> pay.paid_count = n
  BY <1>4, <1>5, <1>8, <1>9, FS_Subset
<1> QED  BY <1>3, <1>4, <1>5, <1>8, <1>10 DEF W, P

-----------------------------------------------------------------------------
(* PayoutInvariant is inductive *)

LEMMA InitCount == Init => winners_count \in WinnerCounts
BY Zenon DEF Init

LEMMA PayoutInit == Init => PayoutInvariant
<1> SUFFICES ASSUME Init PROVE PayoutInvariant
  OBVIOUS
<1> DEFINE n == winners_count
           share == per_winner_lamports
           zero == [b \in 1..BitmapBytes(n) |-> 0]
<1>1. n \in WinnerCounts /\ n \in Nat \ {0} /\ 1..n \subseteq Payees
  <2>1. n \in WinnerCounts /\ n \in 1..Cardinality(Payees)
        /\ Payees = 1..Cardinality(Payees) /\ Cardinality(Payees) \in Nat
    <3>0. WinnerCounts \subseteq 1..Cardinality(Payees)
      BY BoundsAssumption
    <3>1. n \in WinnerCounts
      BY InitCount
    <3>2. Payees = 1..Cardinality(Payees) /\ Cardinality(Payees) \in Nat
      BY PayeesAssumption, FS_CardinalityType
    <3> HIDE DEF n
    <3> QED  BY <3>0, <3>1, <3>2
  <2> QED  BY <2>1
<1>2. PICK total \in Totals, bps \in FeeRates :
            /\ service_fee = (total * bps) \div 10000
            /\ share = ShareOfPool(total, service_fee, n)
            /\ vault = total + RENT
  BY DEF Init
<1>3. total \in Nat /\ bps \in 0..9999 /\ RENT \in Nat \ {0}
  BY BoundsAssumption
<1>4. service_fee \in 0..total
  <2>1. total * bps \in Nat /\ total * bps <= total * 10000
    BY <1>3
  <2> DEFINE product == total * bps
  <2>2. product \in Nat /\ product <= total * 10000 /\ service_fee = product \div 10000
    BY <1>2, <2>1
  <2> HIDE DEF product
  <2> QED  BY <1>3, <2>2
<1>5. share \in Nat \ {0}
  <2>1. share = (total - service_fee) \div n /\ share >= 1
    BY <1>2 DEF ShareOfPool, Init, MIN_WINNER_PAYOUT_LAMPORTS
  <2> QED  BY <1>1, <1>3, <1>4, <2>1
<1>6. n * share <= total - service_fee
  <2> DEFINE pool == total - service_fee
  <2>1. pool \in Nat /\ share = pool \div n
    BY <1>2, <1>3, <1>4 DEF ShareOfPool
  <2> HIDE DEF pool
  <2>2. n * (pool \div n) <= pool
    BY <1>1, <2>1, Quotient
  <2> QED  BY <2>1, <2>2 DEF pool
<1>7. /\ locked = FALSE /\ paid_bitmap = zero /\ paid_count = 0 /\ settled = FALSE
      /\ received = [w \in Payees |-> 0] /\ funded = Payees \cup {Authority}
      /\ winner_wallets = [i \in 1..n |-> i]
  BY DEF Init
<1>8. TypeOK
  <2>1. vault \in Nat /\ service_fee \in Nat
    BY <1>2, <1>3, <1>4
  <2>2. paid_bitmap \in [1..BitmapBytes(n) -> 0..255]
    BY <1>7
  <2> QED  BY <1>1, <1>5, <1>7, <2>1, <2>2 DEF TypeOK
<1>9. TermsAsPublished
  BY DEF Init, TermsAsPublished
<1>10. \A i \in Indices : ~IsWinnerPaid(zero, i)
  <2>1. ASSUME NEW i \in Indices PROVE ~BitIsSet(zero[ByteIndex(i) + 1], BitIndex(i))
    <3>1. ByteIndex(i) + 1 \in 1..BitmapBytes(n) /\ BitIndex(i) \in Nat
      BY <1>1, Positions DEF Indices
    <3>2. zero[ByteIndex(i) + 1] = 0
      BY <3>1
    <3> DEFINE p == 2^BitIndex(i)
    <3>3. p \in Nat \ {0}
      BY <3>1, PowerIsNat
    <3> HIDE DEF p
    <3>4. 0 \div p = 0
      BY <3>3
    <3> QED  BY <3>2, <3>4 DEF BitIsSet, p
  <2> QED  BY <2>1 DEF IsWinnerPaid
<1>11. BitmapIsPayments
  <2>1. {i \in Indices : IsPaid(i)} = {}
    BY <1>7, <1>10 DEF IsPaid
  <2>2. Cardinality({i \in Indices : IsPaid(i)}) = 0
    BY <2>1, FS_EmptySet
  <2>3. \A i \in Indices : received[WalletOf(i)] = 0 /\ ~IsPaid(i)
    <3>1. \A i \in Indices : i + 1 \in 1..n
      BY <1>1 DEF Indices
    <3> QED  BY <1>1, <1>7, <1>10, <3>1 DEF IsPaid, WalletOf
  <2> QED  BY <1>1, <1>7, <2>2, <2>3 DEF BitmapIsPayments
<1>12. vault >= RENT + service_fee + share * (n - paid_count)
  <2> DEFINE due == n * share
  <2>1. due \in Nat /\ share * (n - 0) = due
    BY <1>1, <1>5
  <2>2. due <= total - service_fee
    BY <1>6
  <2> HIDE DEF due
  <2>3. vault >= RENT + service_fee + due
    BY <1>2, <1>3, <1>4, <2>1, <2>2
  <2> QED  BY <1>7, <2>1, <2>3
<1> QED  BY <1>7, <1>8, <1>9, <1>11, <1>12 DEF PayoutInvariant

\* What a batch that is not refused leaves behind.
LEMMA SettleLeaves ==
    ASSUME PayoutInvariant, NEW batch, IsBatch(batch), SettlePayoutBatch(batch)
    PROVE  LET pay == PayClaims(batch)
               complete == pay.paid_count = winners_count
           IN /\ locked /\ settled = FALSE /\ Consistent(pay)
              /\ pay.paid_count > paid_count
              /\ paid_bitmap' = pay.paid_bitmap /\ paid_count' = pay.paid_count
              /\ received' = pay.received /\ settled' = complete
              /\ complete => vault' = 0
              /\ ~complete => vault' = pay.vault
              /\ funded' \subseteq Payees \cup {Authority}
              /\ UNCHANGED <<termVars, locked>>
<1> DEFINE pay == PayClaims(batch)
<1>1. Consistent(pay) /\ (pay.ok => pay.paid_count = paid_count + Len(batch))
  BY BatchIsConsistent
<1>2. /\ Succeeds(batch, pay) /\ settled' = IsSettlementComplete(pay)
      /\ paid_bitmap' = pay.paid_bitmap /\ paid_count' = pay.paid_count
      /\ received' = pay.received
      /\ vault' = IF IsSettlementComplete(pay) THEN 0 ELSE pay.vault
      /\ funded' \subseteq funded \cup Credited(pay) \cup {Authority}
      /\ UNCHANGED <<termVars, locked>>
  BY DEF SettlePayoutBatch
<1> HIDE DEF pay
<1>3. locked /\ ~settled /\ pay.ok /\ Len(batch) \in 1..MAX_WINNERS_PER_BATCH
  BY <1>2 DEF Succeeds
<1>4. settled = FALSE
  BY <1>3 DEF PayoutInvariant, TypeOK
<1>5. paid_count \in Nat /\ funded \subseteq Payees \cup {Authority}
  BY DEF PayoutInvariant, TypeOK
<1>6. Len(batch) \in Nat \ {0}
  BY <1>3, BoundsAssumption
<1>7. pay.paid_count > paid_count
  BY <1>1, <1>3, <1>5, <1>6
<1>8. funded' \subseteq Payees \cup {Authority}
  BY <1>2, <1>5 DEF Credited
<1>9. settled' = (pay.paid_count = winners_count)
  BY <1>2, Zenon DEF IsSettlementComplete
<1>10. /\ pay.paid_count = winners_count => vault' = 0
       /\ pay.paid_count # winners_count => vault' = pay.vault
  BY <1>2 DEF IsSettlementComplete
<1> QED  BY <1>1, <1>2, <1>3, <1>4, <1>7, <1>8, <1>9, <1>10, Zenon DEF pay

\* With fewer winners paid than there are, another share is left for each.
LEMMA SharesLeft ==
    ASSUME NEW v \in Nat, NEW base \in Nat, NEW share \in Nat,
           NEW n \in Nat, NEW c \in Nat, NEW d \in Nat,
           v >= base + share * (n - c)
    PROVE  v - share * (d - c) >= base + share * (n - d)
<1> DEFINE a == share * (n - c)
           b == share * (d - c)
           e == share * (n - d)
<1>1. a \in Int /\ b \in Int /\ e \in Int /\ a = b + e
  <2>1. n - c = (d - c) + (n - d)
    OBVIOUS
  <2>2. share * ((d - c) + (n - d)) = share * (d - c) + share * (n - d)
    OBVIOUS
  <2> QED  BY <2>1, <2>2
<1> HIDE DEF a, b, e
<1>2. v - b >= base + e
  BY <1>1 DEF a
<1> QED  BY <1>2 DEF b, e

\* A batch that is not refused, whatever claims are in it.
LEMMA SettleKeeps ==
    ASSUME PayoutInvariant, NEW batch, IsBatch(batch), SettlePayoutBatch(batch)
    PROVE  PayoutInvariant'
<1> DEFINE pay == PayClaims(batch)
           complete == pay.paid_count = winners_count
           n == winners_count
           share == per_winner_lamports
<1>1. /\ locked /\ settled = FALSE /\ Consistent(pay)
      /\ pay.paid_count > paid_count
      /\ paid_bitmap' = pay.paid_bitmap /\ paid_count' = pay.paid_count
      /\ received' = pay.received /\ settled' = complete
      /\ complete => vault' = 0
      /\ ~complete => vault' = pay.vault
      /\ funded' \subseteq Payees \cup {Authority}
      /\ UNCHANGED <<termVars, locked>>
  BY SettleLeaves
<1> HIDE DEF pay
<1>2. /\ winners_count' = winners_count /\ winner_wallets' = winner_wallets
      /\ per_winner_lamports' = share /\ service_fee' = service_fee
      /\ merkle_root' = merkle_root /\ proofs' = proofs /\ locked' = locked
  BY <1>1 DEF termVars
<1>3. pay \in [ok : BOOLEAN, paid_bitmap : [1..BitmapBytes(n) -> 0..255],
               paid_count : Nat, vault : Nat, received : [Payees -> Nat]]
  BY <1>1 DEF Consistent
<1>4. TypeOK'
  <2>1. vault' \in Nat
    BY <1>1, <1>3
  <2>2. settled' \in BOOLEAN
    BY <1>1, Zenon
  <2>3. /\ paid_bitmap' \in [1..BitmapBytes(n) -> 0..255] /\ paid_count' \in Nat
        /\ received' \in [Payees -> Nat]
    BY <1>1, <1>3
  <2>4. /\ n \in WinnerCounts /\ share \in Nat \ {0} /\ service_fee \in Nat
        /\ locked \in BOOLEAN
    BY DEF PayoutInvariant, TypeOK
  <2>5. BitmapBytes(n)' = BitmapBytes(n)
    BY <1>2 DEF BitmapBytes
  <2> QED  BY <1>1, <1>2, <2>1, <2>2, <2>3, <2>4, <2>5, Zenon DEF TypeOK
<1>5. TermsAsPublished'
  BY <1>2 DEF PayoutInvariant, TermsAsPublished
<1>6. \A i \in Indices : i + 1 \in 1..n /\ WalletOf(i) = i + 1
  BY Terms
<1>7. Indices' = Indices /\ \A i : WalletOf(i)' = WalletOf(i)
  BY <1>2 DEF Indices, WalletOf
<1>8. \A i : IsPaid(i)' <=> IsWinnerPaid(pay.paid_bitmap, i)
  BY <1>1, <1>2 DEF IsPaid, IsWinnerPaid
<1>9. BitmapIsPayments'
  <2>1. ASSUME NEW i \in Indices'
        PROVE  received'[WalletOf(i)'] = IF IsPaid(i)' THEN per_winner_lamports' ELSE 0
    <3>1. i \in Indices /\ WalletOf(i)' = i + 1
      BY <1>6, <1>7
    <3> QED  BY <1>1, <1>2, <1>8, <3>1 DEF Consistent
  <2>2. paid_count' = Cardinality({i \in Indices : IsPaid(i)})'
    <3>1. {i \in Indices : IsPaid(i)}' = PaidIn(pay.paid_bitmap)
      BY <1>7, <1>8 DEF PaidIn
    <3>2. pay.paid_count = Cardinality(PaidIn(pay.paid_bitmap))
      BY <1>1 DEF Consistent
    <3> QED  BY <1>1, <3>1, <3>2
  <2>3. settled' <=> paid_count' = winners_count'
    BY <1>1, <1>2, Zenon
  <2>4. settled' => vault' = 0
    BY <1>1, Zenon
  <2> QED  BY <2>1, <2>2, <2>3, <2>4, Zenon DEF BitmapIsPayments
<1>10. ASSUME NEW w \in Payees \ ToSet(winner_wallets') PROVE received'[w] = 0
  <2>1. ToSet(winner_wallets) = 1..n
    BY Terms
  <2> QED  BY <1>1, <1>2, <2>1 DEF Consistent
<1>11. ~settled' => vault' >= RENT + service_fee' + share' * (winners_count' - paid_count')
  <2>1. SUFFICES ASSUME ~settled'
                 PROVE  vault' >= RENT + service_fee + share * (n - pay.paid_count)
    BY <1>1, <1>2
  <2>2. vault' = vault - share * (pay.paid_count - paid_count)
    BY <1>1, <2>1 DEF Consistent
  <2>3. vault >= RENT + service_fee + share * (n - paid_count)
    BY <1>1 DEF PayoutInvariant
  <2>4. /\ n \in Nat \ {0} /\ share \in Nat /\ paid_count \in Nat /\ vault \in Nat
        /\ RENT + service_fee \in Nat /\ pay.paid_count \in Nat
    BY <1>3, Terms DEF PayoutInvariant, TypeOK
  <2> HIDE DEF n, share
  <2> QED  BY <2>2, <2>3, <2>4, SharesLeft
<1> QED  BY <1>4, <1>5, <1>9, <1>10, <1>11 DEF PayoutInvariant

\* What the client sends is a batch, right or wrong.
LEMMA BatchesAreBatches ==
    ASSUME winners_count \in Nat, NEW batch \in Batches
    PROVE  IsBatch(batch)
<1>1. \A c \in RightClaims :
            /\ c.winner_index \in Nat
            /\ c = [winner_index |-> c.winner_index, winner |-> c.winner,
                    amount |-> c.amount, account |-> c.account,
                    merkle_proof |-> c.merkle_proof]
  BY DEF RightClaims, ClaimOf
<1>2. \A c \in Claims : c.winner_index \in Nat
  <2>1. ASSUME NEW c \in WrongClaims(RightClaims) PROVE c.winner_index \in Nat
    <3>1. CASE \E d \in RightClaims : c = [d EXCEPT !.winner_index = @ + 1]
      BY <1>1, <3>1
    <3>2. CASE \E d \in RightClaims : c = [d EXCEPT !.amount = @ + 1]
      BY <1>1, <3>2
    <3>3. CASE \E d \in RightClaims : c = [d EXCEPT !.account = Authority]
      BY <1>1, <3>3
    <3> QED  BY <3>1, <3>2, <3>3 DEF WrongClaims
  <2> QED  BY <1>1, <2>1 DEF Claims
<1>3. \/ \E c \in Claims : batch = <<c>>
      \/ \E c \in RightClaims, d \in Claims : batch = <<c, d>>
  BY DEF Batches
<1>4. RightClaims \subseteq Claims
  BY DEF Claims
<1>5. CASE \E c \in Claims : batch = <<c>>
  BY <1>2, <1>5 DEF IsBatch
<1>6. CASE \E c, d \in Claims : batch = <<c, d>>
  BY <1>2, <1>6 DEF IsBatch
<1> QED  BY <1>3, <1>4, <1>5, <1>6

\* Nothing else touches the bitmap or the money.
LEMMA MoneyUntouched ==
    ASSUME PayoutInvariant,
           UNCHANGED <<termVars, ledgerVars, settled, vault, received>>,
           locked' \in BOOLEAN, funded' \subseteq Payees \cup {Authority}
    PROVE  PayoutInvariant'
<1>1. /\ winners_count' = winners_count /\ winner_wallets' = winner_wallets
      /\ per_winner_lamports' = per_winner_lamports /\ service_fee' = service_fee
      /\ merkle_root' = merkle_root /\ proofs' = proofs
      /\ paid_bitmap' = paid_bitmap /\ paid_count' = paid_count
      /\ settled' = settled /\ vault' = vault /\ received' = received
  BY DEF termVars, ledgerVars
<1>2. TypeOK'
  BY <1>1 DEF PayoutInvariant, TypeOK, BitmapBytes
<1>3. TermsAsPublished'
  BY <1>1 DEF PayoutInvariant, TermsAsPublished
<1>4. Indices' = Indices /\ (\A i : WalletOf(i)' = WalletOf(i))
      /\ \A i : IsPaid(i)' <=> IsPaid(i)
  BY <1>1 DEF Indices, WalletOf, IsPaid, IsWinnerPaid
<1>5. BitmapIsPayments'
  <2>1. {i \in Indices : IsPaid(i)}' = {i \in Indices : IsPaid(i)}
    BY <1>4
  <2> QED  BY <1>1, <1>4, <2>1 DEF PayoutInvariant, BitmapIsPayments
<1> QED  BY <1>1, <1>2, <1>3, <1>5 DEF PayoutInvariant

\* The invariant for every number of payees and winners, every share, fee rate
\* and batch size: no order of batches, refusals and emptied accounts breaks it.
THEOREM PayoutInvariantHolds == Spec => []PayoutInvariant
<1>1. Init => PayoutInvariant
  BY PayoutInit
<1>2. PayoutInvariant /\ [Next]_payoutVars => PayoutInvariant'
  <2> SUFFICES ASSUME PayoutInvariant, [Next]_payoutVars PROVE PayoutInvariant'
    OBVIOUS
  <2>1. locked \in BOOLEAN /\ funded \subseteq Payees \cup {Authority}
        /\ winners_count \in Nat
    BY Terms DEF PayoutInvariant, TypeOK
  <2>2. CASE LockWinners
    BY <2>1, <2>2, MoneyUntouched DEF LockWinners
  <2>3. CASE \E batch \in Batches : SettlePayoutBatch(batch)
    BY <2>1, <2>3, BatchesAreBatches, SettleKeeps
  <2>4. ASSUME NEW a \in Fragile, EmptyAccount(a) \/ FundAccount(a)
        PROVE  PayoutInvariant'
    <3>1. /\ funded' \subseteq Payees \cup {Authority} /\ locked' \in BOOLEAN
          /\ UNCHANGED <<termVars, ledgerVars, settled, vault, received>>
      BY <2>1, <2>4, BoundsAssumption DEF EmptyAccount, FundAccount
    <3> QED  BY <3>1, MoneyUntouched
  <2>5. CASE UNCHANGED payoutVars
    <3>1. /\ funded' \subseteq Payees \cup {Authority} /\ locked' \in BOOLEAN
          /\ UNCHANGED <<termVars, ledgerVars, settled, vault, received>>
      BY <2>1, <2>5 DEF payoutVars, termVars, ledgerVars
    <3> QED  BY <3>1, MoneyUntouched
  <2> QED  BY <2>2, <2>3, <2>4, <2>5 DEF Next
<1> QED  BY <1>1, <1>2, PTL DEF Spec

\* A winner's bit is set exactly if the winner got one share, the counter
\* counts the bits, and the vault is empty once all are paid.
THEOREM BitsArePayments == Spec => []BitmapIsPayments
<1>1. PayoutInvariant => BitmapIsPayments
  BY DEF PayoutInvariant
<1> QED  BY <1>1, PayoutInvariantHolds, PTL

-----------------------------------------------------------------------------
(* The proofs of the winners *)

\* The published list as the lemmas about the tree want it.
LEMMA PublishedWinners ==
    ASSUME PayoutInvariant
    PROVE  LET winners == WinnerEntries(winner_wallets, per_winner_lamports)
           IN /\ IsLevel(winners)
              /\ DOMAIN winners = 1..winners_count
              /\ \A x \in 1..winners_count :
                    winners[x] = [index |-> x - 1, recipient |-> x,
                                  amount |-> per_winner_lamports]
              /\ merkle_root = MerkleRoot(winners)
              /\ \A x \in 1..winners_count : proofs[x] = ProofOf(winners, x - 1)
<1> DEFINE winners == WinnerEntries(winner_wallets, per_winner_lamports)
           n == winners_count
<1>1. n \in Nat \ {0} /\ winner_wallets = [i \in 1..n |-> i]
  BY Terms
<1>2. winners = [x \in 1..n |-> [index |-> x - 1, recipient |-> x,
                                 amount |-> per_winner_lamports]]
  BY <1>1 DEF WinnerEntries
<1>3. /\ merkle_root = MerkleRoot(winners)
      /\ proofs = [i \in DOMAIN winners |-> ProofOf(winners, i - 1)]
  BY DEF PayoutInvariant, TermsAsPublished
<1> HIDE DEF winners
<1>4. DOMAIN winners = 1..n
  BY <1>2
<1>5. Len(winners) = n
  <2>1. winners \in [1..n -> {winners[x] : x \in 1..n}]
    BY <1>2
  <2> QED  BY <1>1, <2>1, SeqDef
<1>6. IsLevel(winners)
  BY <1>1, <1>4, <1>5 DEF IsLevel
<1>7. \A x \in 1..n : winners[x] = [index |-> x - 1, recipient |-> x,
                                     amount |-> per_winner_lamports]
  BY <1>2
<1>8. \A x \in 1..n : proofs[x] = ProofOf(winners, x - 1)
  BY <1>3, <1>4
<1> QED  BY <1>3, <1>4, <1>6, <1>7, <1>8 DEF winners

LEMMA OnlyListedWinnersVerifyAlways == PayoutInvariant => OnlyListedWinnersVerify
<1> SUFFICES ASSUME PayoutInvariant,
                    NEW index \in 0..winners_count + 1, NEW w \in 1..winners_count,
                    NEW amount,
                    NEW proof \in SeqOf(TreeHashes \cup {MalformedHash}, 3),
                    VerifyMerkleProof(index, w, amount, proof, merkle_root)
             PROVE  /\ index \in Indices
                    /\ w = WalletOf(index)
                    /\ amount = per_winner_lamports
  BY Zenon DEF OnlyListedWinnersVerify
<1> DEFINE winners == WinnerEntries(winner_wallets, per_winner_lamports)
           n == winners_count
<1>1. /\ IsLevel(winners) /\ DOMAIN winners = 1..n
      /\ \A x \in 1..n : winners[x] = [index |-> x - 1, recipient |-> x,
                                        amount |-> per_winner_lamports]
      /\ merkle_root = MerkleRoot(winners)
  BY PublishedWinners
<1>2. Len(proof) \in Nat
  <2>1. PICK k \in 0..3 : proof \in [1..k -> TreeHashes \cup {MalformedHash}]
    BY Zenon DEF SeqOf
  <2> HIDE DEF TreeHashes, MalformedHash
  <2>2. k \in Nat
    OBVIOUS
  <2>3. Len(proof) = k
    BY <2>1, <2>2, SeqDef
  <2> QED  BY <2>2, <2>3
<1> HIDE DEF winners
<1>3. PICK x \in DOMAIN winners :
            winners[x].index = index /\ winners[x].recipient = w /\ winners[x].amount = amount
  <2>1. IsLevel(winners)
        /\ VerifyMerkleProof(index, w, amount, proof, MerkleRoot(winners))
    BY <1>1
  <2> QED  BY <1>2, <2>1, OnlyEntriesVerify
<1>4. n \in Nat \ {0} /\ \A i \in Indices : WalletOf(i) = i + 1
  BY Terms
<1>5. x \in 1..n /\ x - 1 = index /\ x = w /\ amount = per_winner_lamports
  BY <1>1, <1>3
<1>6. index \in Indices
  BY <1>4, <1>5 DEF Indices
<1> QED  BY <1>4, <1>5, <1>6

\* Whatever hashes of the tree are offered as a proof, only the entries of the
\* winners list verify, within the bounds OnlyListedWinnersVerify has;
\* OnlyEntriesVerify has none.
THEOREM OnlyWinnersVerify == Spec => []OnlyListedWinnersVerify
<1>1. PayoutInvariant => OnlyListedWinnersVerify
  BY OnlyListedWinnersVerifyAlways
<1> QED  BY <1>1, PayoutInvariantHolds, PTL

LEMMA ClaimIsPayable ==
    ASSUME PayoutInvariant, locked, NEW i \in Indices, ~IsPaid(i),
           {WalletOf(i), Authority} \subseteq funded
    PROVE  Succeeds(<<ClaimOf(i)>>, PayClaims(<<ClaimOf(i)>>))
<1> DEFINE claim == ClaimOf(i)
           batch == <<claim>>
           pay == PayClaims(batch)
           n == winners_count
           share == per_winner_lamports
<1>1. /\ n \in Nat \ {0} /\ i + 1 \in 1..n /\ WalletOf(i) = i + 1
      /\ i \in 0..n - 1 /\ i \in Nat /\ i < n
      /\ 1..n \subseteq Payees
      /\ RENT \in Nat \ {0} /\ MAX_WINNERS_PER_BATCH \in Nat \ {0}
      /\ IsFiniteSet(Indices) /\ Cardinality(Indices) = n
  BY Terms DEF Indices
<1>2. /\ share \in Nat \ {0} /\ service_fee \in Nat /\ vault \in Nat
      /\ paid_bitmap \in [1..BitmapBytes(n) -> 0..255] /\ paid_count \in Nat
      /\ received \in [Payees -> Nat] /\ settled \in BOOLEAN
  BY DEF PayoutInvariant, TypeOK
<1>3. paid_count < n /\ ~settled
  <2> DEFINE P == {j \in Indices : IsPaid(j)}
  <2>1. P \in SUBSET Indices /\ i \notin P /\ i \in Indices
    OBVIOUS
  <2>2. paid_count = Cardinality(P) /\ (settled <=> paid_count = n)
    BY DEF PayoutInvariant, BitmapIsPayments
  <2> HIDE DEF P
  <2>3. Cardinality(P) <= n /\ (Cardinality(P) = n => P = Indices)
    BY <1>1, <2>1, FS_Subset
  <2>4. paid_count # n
    BY <2>1, <2>2, <2>3
  <2> QED  BY <1>1, <1>2, <2>2, <2>3, <2>4
<1>4. vault >= service_fee + share * (n - paid_count)
  BY <1>1, <1>2, <1>3 DEF PayoutInvariant
<1>5. vault >= service_fee + share
  <2> DEFINE m == n - paid_count
  <2>1. m \in Nat \ {0}
    BY <1>1, <1>2, <1>3
  <2>2. vault >= service_fee + share * m
    BY <1>4
  <2> HIDE DEF m
  <2>3. share * m >= share
    BY <1>2, <2>1
  <2> DEFINE sm == share * m
  <2>4. sm \in Nat /\ sm >= share /\ vault >= service_fee + sm
    BY <1>2, <2>1, <2>2, <2>3
  <2> HIDE DEF sm
  <2> QED  BY <1>2, <2>4
<1>6. /\ claim.winner_index = i /\ claim.winner = i + 1 /\ claim.amount = share
      /\ claim.account = i + 1 /\ claim.merkle_proof = proofs[i + 1]
      /\ winner_wallets[i + 1] = i + 1
  BY <1>1 DEF ClaimOf, WalletOf
<1> HIDE DEF claim
<1>7. VerifyMerkleProof(i, i + 1, share, proofs[i + 1], merkle_root)
  <2> DEFINE winners == WinnerEntries(winner_wallets, share)
  <2>1. /\ IsLevel(winners) /\ DOMAIN winners = 1..n
        /\ winners[i + 1] = [index |-> (i + 1) - 1, recipient |-> i + 1, amount |-> share]
        /\ merkle_root = MerkleRoot(winners)
        /\ proofs[i + 1] = ProofOf(winners, (i + 1) - 1)
    BY <1>1, PublishedWinners
  <2>2. (i + 1) - 1 = i
    BY <1>1
  <2> HIDE DEF winners
  <2>3. i + 1 \in DOMAIN winners /\ winners[i + 1].index = i
    BY <1>1, <2>1, <2>2
  <2>4. VerifyMerkleProof(i, winners[i + 1].recipient, winners[i + 1].amount,
                          ProofOf(winners, i), MerkleRoot(winners))
    BY <1>1, <2>1, <2>3, DerivedProofVerifies
  <2> QED  BY <2>1, <2>2, <2>4
<1>8. Accepts(PayAtStart, claim)
  <2>1. ByteIndex(i) < Len(paid_bitmap)
    <3>1. BitmapBytes(n) \in Nat
      BY <1>1 DEF BitmapBytes, BITS
    <3>2. Len(paid_bitmap) = BitmapBytes(n)
      BY <1>2, <3>1, SeqDef
    <3> QED  BY <1>1, <3>2, Positions
  <2>2. share >= MIN_WINNER_PAYOUT_LAMPORTS /\ vault >= share
    BY <1>2, <1>5 DEF MIN_WINNER_PAYOUT_LAMPORTS
  <2>3. PayAtStart.paid_bitmap = paid_bitmap /\ PayAtStart.vault = vault
    BY DEF PayAtStart
  <2>4. ~IsWinnerPaid(paid_bitmap, i)
    BY DEF IsPaid
  <2> QED  BY <1>1, <1>6, <1>7, <2>1, <2>2, <2>3, <2>4 DEF Accepts
<1>9. pay = PayClaim(PayAtStart, claim)
  <2>1. Len(batch) = 1 /\ DOMAIN batch = 1..1 /\ batch[1] = claim
    OBVIOUS
  <2> HIDE DEF batch
  <2>2. PICK p : /\ p[0] = PayAtStart
                 /\ \A k \in 1..Len(batch) : p[k] = PayClaim(p[k - 1], batch[k])
                 /\ p[Len(batch)] = PayClaims(batch)
    BY <2>1, PayClaimsInOrder
  <2>3. p[1] = PayClaim(p[1 - 1], batch[1])
    BY <2>1, <2>2
  <2> QED  BY <2>1, <2>2, <2>3
<1> DEFINE credited == [received EXCEPT ![i + 1] = @ + share]
<1>10. /\ pay.ok = TRUE /\ pay.paid_count = paid_count + 1
       /\ pay.vault = vault - share /\ pay.received = credited
  BY <1>6, <1>8, <1>9 DEF PayClaim, PayAtStart
<1> HIDE DEF pay
<1>11. Credited(pay) \subseteq {WalletOf(i)}
  BY <1>1, <1>2, <1>10 DEF Credited
<1>12. Len(batch) = 1
  OBVIOUS
<1>13. pay.vault >= service_fee
  BY <1>2, <1>5, <1>10
<1>14. \A w \in Credited(pay) : RentRuleHolds(w, pay.received[w] - received[w])
  BY <1>11 DEF RentRuleHolds
<1>15. RentRuleHolds(Authority, service_fee)
  BY DEF RentRuleHolds
<1> HIDE DEF batch
<1> QED  BY <1>1, <1>3, <1>10, <1>12, <1>13, <1>14, <1>15 DEF Succeeds, batch, pay, claim

\* At any time every unpaid winner whose account and whose authority's account
\* can be credited is payable with the proof derived from the published list.
THEOREM NobodyLeftBehind == Spec => []UnpaidWinnerIsPayable
<1>1. PayoutInvariant => UnpaidWinnerIsPayable
  BY ClaimIsPayable DEF UnpaidWinnerIsPayable
<1> QED  BY <1>1, PayoutInvariantHolds, PTL

-----------------------------------------------------------------------------
(* The batches are steps of the escrow *)

\* As long as bits are the payments, the escrow's paid beneficiaries are the
\* payees that received something.
LEMMA EscrowPays ==
    ASSUME PayoutInvariant, NEW batch, IsBatch(batch), SettlePayoutBatch(batch)
    PROVE  E!Pay \/ E!Distribute
<1> DEFINE pay == PayClaims(batch)
           complete == pay.paid_count = winners_count
           n == winners_count
           share == per_winner_lamports
           W == {w \in Payees : received[w] > 0}
           V == {w \in Payees : pay.received[w] > 0}
<1>1. /\ locked /\ settled = FALSE /\ Consistent(pay)
      /\ pay.paid_count > paid_count
      /\ paid_bitmap' = pay.paid_bitmap /\ paid_count' = pay.paid_count
      /\ received' = pay.received /\ settled' = complete
      /\ complete => vault' = 0
      /\ ~complete => vault' = pay.vault
      /\ UNCHANGED <<termVars, locked>>
  BY SettleLeaves
<1> HIDE DEF pay
<1>2. /\ V \subseteq 1..n /\ IsFiniteSet(V) /\ Cardinality(V) = pay.paid_count
      /\ V = 1..n <=> pay.paid_count = n
      /\ V = {i + 1 : i \in PaidIn(pay.paid_bitmap)}
  BY <1>1, CreditedAccounts
<1>3. /\ W \subseteq 1..n /\ IsFiniteSet(W) /\ Cardinality(W) = paid_count
      /\ W = 1..n <=> paid_count = n
      /\ W = {i + 1 : i \in PaidIn(paid_bitmap)}
  <2> DEFINE start == PayAtStart
  <2>1. Consistent(start)
    BY StartIsConsistent
  <2>2. /\ start.received = received /\ start.paid_count = paid_count
        /\ start.paid_bitmap = paid_bitmap
    BY DEF PayAtStart
  <2> HIDE DEF start
  <2>3. LET X == {w \in Payees : start.received[w] > 0}
        IN /\ X = {i + 1 : i \in PaidIn(start.paid_bitmap)}
           /\ X \subseteq 1..n
           /\ IsFiniteSet(X) /\ Cardinality(X) = start.paid_count
           /\ X = 1..n <=> start.paid_count = n
    BY <2>1, CreditedAccounts
  <2> QED  BY <2>2, <2>3
<1>4. W \subseteq V
  <2>1. PaidIn(paid_bitmap) \subseteq PaidIn(pay.paid_bitmap)
    BY <1>1 DEF Consistent
  <2> HIDE DEF W, V
  <2> QED  BY <1>2, <1>3, <2>1
<1>5. /\ winners_count' = n /\ winner_wallets' = winner_wallets
      /\ per_winner_lamports' = share /\ service_fee' = service_fee
  BY <1>1 DEF termVars
<1>6. /\ n \in Nat \ {0} /\ ToSet(winner_wallets) = 1..n
      /\ RENT \in Nat \ {0} /\ 1..n \subseteq Payees
  BY Terms
<1>7. /\ share \in Nat \ {0} /\ service_fee \in Nat /\ vault \in Nat /\ paid_count \in Nat
  BY DEF PayoutInvariant, TypeOK
<1>8. {w \in Payees : received[w] > 0}' = V
  BY <1>1
<1> HIDE DEF W, V
<1>9. \A S : E!Cardinality(S) = Cardinality(S)
  BY DEF E!Cardinality, Cardinality
<1>10. \A S : E!Due(S) = share * Cardinality(S)
  BY <1>9 DEF E!Due
<1>11. Cardinality(V \ W) = pay.paid_count - paid_count /\ W # V
  <2>1. W \in SUBSET V
    BY <1>4
  <2>2. IsFiniteSet(V \ W) /\ V \cap W = W
    BY <1>2, <1>4, FS_Difference
  <2>3. Cardinality(V \ W) = Cardinality(V) - Cardinality(V \cap W)
    BY <1>2, <1>3, FS_Difference
  <2>4. W # V
    <3>1. pay.paid_count \in Nat /\ Cardinality(V) # Cardinality(W)
      <4>1. pay.paid_count \in Nat
        BY <1>1 DEF Consistent
      <4> QED  BY <1>1, <1>2, <1>3, <1>7, <4>1
    <3> QED  BY <3>1
  <2> QED  BY <1>2, <1>3, <2>2, <2>3, <2>4
<1>12. CASE complete
  <2>1. V = 1..n /\ vault' = 0 /\ settled' = TRUE
    BY <1>1, <1>2, <1>12
  <2>2. share * Cardinality(1..n \ W) + service_fee <= vault
    <3>1. Cardinality(1..n \ W) = n - paid_count
      BY <1>11, <1>12, <2>1
    <3>2. vault >= RENT + service_fee + share * (n - paid_count)
      BY <1>1 DEF PayoutInvariant
    <3> DEFINE due == share * (n - paid_count)
    <3>3. due \in Int
      BY <1>6, <1>7
    <3> HIDE DEF due
    <3>4. due + service_fee <= vault
      BY <1>6, <1>7, <3>2, <3>3 DEF due
    <3> QED  BY <3>1, <3>4 DEF due
  <2>3. E!Distribute
    BY <1>1, <1>5, <1>6, <1>8, <1>10, <1>11, <2>1, <2>2 DEF E!Distribute, W
  <2> QED  BY <2>3
<1>13. CASE ~complete
  <2>1. V # 1..n /\ settled' = FALSE
    BY <1>1, <1>2, <1>13, Zenon
  <2>2. vault' = vault - share * Cardinality(V \ W)
    BY <1>1, <1>11, <1>13 DEF Consistent
  <2>3. E!Pay
    BY <1>1, <1>2, <1>4, <1>5, <1>6, <1>8, <1>10, <1>11, <2>1, <2>2 DEF E!Pay, W
  <2> QED  BY <2>3
<1> QED  BY <1>12, <1>13

\* Batches, retries and refusals implement the escrow: each batch pays one
\* share to each of some unpaid beneficiaries, and the vault is closed in the
\* step that pays the last of them, with the fee covered.
THEOREM BatchesImplementEscrow == Spec => PaysAsEscrow
<1>1. PayoutInvariant /\ [Next]_payoutVars => [E!EscrowNext]_(E!escrowVars)
  <2> SUFFICES ASSUME PayoutInvariant, [Next]_payoutVars
               PROVE  [E!EscrowNext]_(E!escrowVars)
    OBVIOUS
  <2>1. CASE \E batch \in Batches : SettlePayoutBatch(batch)
    <3>1. winners_count \in Nat
      BY Terms
    <3>2. E!Pay \/ E!Distribute
      BY <2>1, <3>1, BatchesAreBatches, EscrowPays
    <3> QED  BY <3>2 DEF E!EscrowNext
  <2>2. CASE UNCHANGED <<termVars, ledgerVars, settled, vault, received>>
    BY <2>2 DEF termVars, E!escrowVars
  <2>3. CASE LockWinners
    BY <2>2, <2>3 DEF LockWinners
  <2>4. CASE \E a \in Fragile : EmptyAccount(a) \/ FundAccount(a)
    BY <2>2, <2>4 DEF EmptyAccount, FundAccount
  <2>5. CASE UNCHANGED payoutVars
    BY <2>2, <2>5 DEF payoutVars, ledgerVars
  <2> QED  BY <2>1, <2>3, <2>4, <2>5 DEF Next
<1> QED  BY <1>1, PayoutInvariantHolds, PTL DEF Spec, PaysAsEscrow
=============================================================================
