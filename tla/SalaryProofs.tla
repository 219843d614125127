---------------------------- MODULE SalaryProofs ----------------------------
(***************************************************************************)
(* Proofs about the calculation engine: for every salary in whole rupees   *)
(* that the model's range holds it finds the oracle's tax, a raise brings  *)
(* more than it costs before cess, and without claims the new regime is    *)
(* never dearer.                                                           *)
(*                                                                         *)
(* The slabs, rounded one by one, and the oracle's branches have the same  *)
(* closed form; the rebate leaves none of it, or no more than the income   *)
(* above its limit; the rows of the surcharge agree where they meet.  On   *)
(* each row the tax grows, by at most the income, and so from limit to     *)
(* limit it does on the whole.                                             *)
(***************************************************************************)
EXTENDS SalaryScenarios, TLAPS

-----------------------------------------------------------------------------
(* Rounding, and rates that are percentages.                               *)

(* A rate and a percentage are two ways to say the same.                   *)
LEMMA Digits ==
  ASSUME NEW a \in Nat, NEW q, NEW s, NEW t,
         q = a \div 10000, s = (a % 10000) \div 100, t = a % 100
  PROVE  /\ q \in Nat /\ s \in 0..99 /\ t \in 0..99
         /\ a = 10000 * q + 100 * s + t
         /\ a % 10000 = 100 * s + t
         /\ a \div 100 = 100 * q + s
<1>1. q \in Nat /\ s \in 0..99 /\ t \in 0..99 OBVIOUS
<1>2. a = 10000 * q + 100 * s + t OBVIOUS
<1>3. a % 10000 = 100 * s + t OBVIOUS
<1>4. a \div 100 = 100 * q + s OBVIOUS
<1> QED BY <1>1, <1>2, <1>3, <1>4

(* What the engine takes by a rate in basis points the oracle takes by a   *)
(* percentage.                                                             *)
LEMMA RateIsPercent ==
  ASSUME NEW a \in Nat
  PROVE  /\ RateOf(a, 400) = Oracle!Percent(a, 4)
         /\ RateOf(a, 1000) = Oracle!Percent(a, 10)
         /\ RateOf(a, 1500) = Oracle!Percent(a, 15)
         /\ RateOf(a, 2500) = Oracle!Percent(a, 25)
         /\ RateOf(a, 3000) = Oracle!Percent(a, 30)
<1>a. PICK q \in Nat : q = a \div 10000 OBVIOUS
<1>b. PICK s \in Nat : s = (a % 10000) \div 100 OBVIOUS
<1>c. PICK t \in Nat : t = a % 100 OBVIOUS
<1>1. /\ q \in Nat /\ s \in 0..99 /\ t \in 0..99
      /\ a = 10000 * q + 100 * s + t
      /\ a \div 10000 = q /\ a % 10000 = 100 * s + t
      /\ a \div 100 = 100 * q + s /\ a % 100 = t
  BY <1>a, <1>b, <1>c, Digits
<1>2. RateOf(a, 400) = Oracle!Percent(a, 4)
  <2>1. (400 * (100 * s + t) + 5000) \div 10000 = 4 * s + (4 * t + 50) \div 100 BY <1>1
  <2> QED BY <1>1, <2>1 DEF RateOf, HalfUp, Oracle!Percent
<1>3. RateOf(a, 1000) = Oracle!Percent(a, 10)
  <2>1. (1000 * (100 * s + t) + 5000) \div 10000 = 10 * s + (10 * t + 50) \div 100 BY <1>1
  <2> QED BY <1>1, <2>1 DEF RateOf, HalfUp, Oracle!Percent
<1>4. RateOf(a, 1500) = Oracle!Percent(a, 15)
  <2>1. (1500 * (100 * s + t) + 5000) \div 10000 = 15 * s + (15 * t + 50) \div 100 BY <1>1
  <2> QED BY <1>1, <2>1 DEF RateOf, HalfUp, Oracle!Percent
<1>5. RateOf(a, 2500) = Oracle!Percent(a, 25)
  <2>1. (2500 * (100 * s + t) + 5000) \div 10000 = 25 * s + (25 * t + 50) \div 100 BY <1>1
  <2> QED BY <1>1, <2>1 DEF RateOf, HalfUp, Oracle!Percent
<1>6. RateOf(a, 3000) = Oracle!Percent(a, 30)
  <2>1. (3000 * (100 * s + t) + 5000) \div 10000 = 30 * s + (30 * t + 50) \div 100 BY <1>1
  <2> QED BY <1>1, <2>1 DEF RateOf, HalfUp, Oracle!Percent
<1> QED BY <1>2, <1>3, <1>4, <1>5, <1>6

(* Of whole rupees, either is a number of paise.                           *)
LEMMA RupeeRates ==
  ASSUME NEW z \in Nat
  PROVE  /\ RateOf(100 * z, 0) = 0
         /\ RateOf(100 * z, 500) = 5 * z
         /\ RateOf(100 * z, 1000) = 10 * z
         /\ RateOf(100 * z, 1500) = 15 * z
         /\ RateOf(100 * z, 2000) = 20 * z
         /\ RateOf(100 * z, 2500) = 25 * z
         /\ RateOf(100 * z, 3000) = 30 * z
<1>1. PICK q \in Nat, s \in 0..99 : z = 100 * q + s /\ (100 * z) \div 10000 = q /\ (100 * z) % 10000 = 100 * s
  <2>1. z = 100 * (z \div 100) + (z % 100) /\ z \div 100 \in Nat /\ z % 100 \in 0..99 OBVIOUS
  <2>2. (100 * z) \div 10000 = z \div 100 /\ (100 * z) % 10000 = 100 * (z % 100) OBVIOUS
  <2> QED BY <2>1, <2>2
<1>2. RateOf(100 * z, 0) = 0 BY <1>1 DEF RateOf, HalfUp
<1>3. RateOf(100 * z, 500) = 5 * z BY <1>1 DEF RateOf, HalfUp
<1>4. RateOf(100 * z, 1000) = 10 * z BY <1>1 DEF RateOf, HalfUp
<1>5. RateOf(100 * z, 1500) = 15 * z BY <1>1 DEF RateOf, HalfUp
<1>6. RateOf(100 * z, 2000) = 20 * z BY <1>1 DEF RateOf, HalfUp
<1>7. RateOf(100 * z, 2500) = 25 * z BY <1>1 DEF RateOf, HalfUp
<1>8. RateOf(100 * z, 3000) = 30 * z BY <1>1 DEF RateOf, HalfUp
<1> QED BY <1>2, <1>3, <1>4, <1>5, <1>6, <1>7, <1>8

(* Of whole rupees a percentage is exact.                                  *)
LEMMA RupeePercents ==
  ASSUME NEW z \in Nat
  PROVE  /\ Oracle!Percent(100 * z, 5) = 5 * z
         /\ Oracle!Percent(100 * z, 6) = 6 * z
         /\ Oracle!Percent(100 * z, 10) = 10 * z
         /\ Oracle!Percent(100 * z, 15) = 15 * z
         /\ Oracle!Percent(100 * z, 20) = 20 * z
         /\ Oracle!Percent(100 * z, 25) = 25 * z
         /\ Oracle!Percent(100 * z, 30) = 30 * z
<1>1. (100 * z) \div 100 = z /\ (100 * z) % 100 = 0 OBVIOUS
<1> QED BY <1>1 DEF Oracle!Percent

(* A percentage is a whole number of paise, within half a paisa.           *)
LEMMA PercentBounds ==
  ASSUME NEW a \in Nat
  PROVE  /\ Oracle!Percent(a, 4) \in Nat /\ 4 * a - 50 <= 100 * Oracle!Percent(a, 4)
              /\ 100 * Oracle!Percent(a, 4) <= 4 * a + 50
         /\ Oracle!Percent(a, 10) \in Nat /\ 10 * a - 50 <= 100 * Oracle!Percent(a, 10)
              /\ 100 * Oracle!Percent(a, 10) <= 10 * a + 50
         /\ Oracle!Percent(a, 15) \in Nat /\ 15 * a - 50 <= 100 * Oracle!Percent(a, 15)
              /\ 100 * Oracle!Percent(a, 15) <= 15 * a + 50
         /\ Oracle!Percent(a, 25) \in Nat /\ 25 * a - 50 <= 100 * Oracle!Percent(a, 25)
              /\ 100 * Oracle!Percent(a, 25) <= 25 * a + 50
<1>a. PICK q \in Nat : q = a \div 10000 OBVIOUS
<1>b. PICK s \in Nat : s = (a % 10000) \div 100 OBVIOUS
<1>c. PICK t \in Nat : t = a % 100 OBVIOUS
<1>1. /\ q \in Nat /\ s \in 0..99 /\ t \in 0..99
      /\ a = 10000 * q + 100 * s + t
      /\ a \div 10000 = q /\ a % 10000 = 100 * s + t
      /\ a \div 100 = 100 * q + s /\ a % 100 = t
  BY <1>a, <1>b, <1>c, Digits
<1> QED BY <1>1 DEF Oracle!Percent

(* And the more of the more.                                               *)
LEMMA PercentMonotone ==
  ASSUME NEW a \in Nat, NEW b \in Nat, a <= b
  PROVE  /\ Oracle!Percent(a, 4) <= Oracle!Percent(b, 4)
         /\ Oracle!Percent(a, 10) <= Oracle!Percent(b, 10)
         /\ Oracle!Percent(a, 15) <= Oracle!Percent(b, 15)
         /\ Oracle!Percent(a, 25) <= Oracle!Percent(b, 25)
<1>1. a \div 100 \in Nat /\ a % 100 \in 0..99 /\ b \div 100 \in Nat /\ b % 100 \in 0..99
      /\ a = 100 * (a \div 100) + (a % 100) /\ b = 100 * (b \div 100) + (b % 100)
  OBVIOUS
<1>2. PICK k \in Nat, l \in 0..99, m \in Nat, n \in 0..99 :
        k = a \div 100 /\ l = a % 100 /\ m = b \div 100 /\ n = b % 100 /\ a = 100 * k + l /\ b = 100 * m + n
  BY <1>1
<1>3. k < m \/ (k = m /\ l <= n) BY <1>2
<1> QED BY <1>2, <1>3 DEF Oracle!Percent

-----------------------------------------------------------------------------
(* Slabs.                                                                  *)

(* The total of four slabs, six and seven.                                 *)
LEMMA TotalOf4 ==
  ASSUME NEW x, NEW slabs, Len(slabs) = 4, \A n \in 1..4 : TaxInSlab(x, slabs[n]) \in Nat
  PROVE  SlabTax(x, slabs) = TaxInSlab(x, slabs[1]) + TaxInSlab(x, slabs[2]) + TaxInSlab(x, slabs[3])
           + TaxInSlab(x, slabs[4])
<1> DEFINE t1 == TaxInSlab(x, slabs[1])
           t2 == TaxInSlab(x, slabs[2])
           t3 == TaxInSlab(x, slabs[3])
           t4 == TaxInSlab(x, slabs[4])
<1>0. t1 \in Nat /\ t2 \in Nat /\ t3 \in Nat /\ t4 \in Nat OBVIOUS
<1> DEFINE F(f) == [n \in 0..Len(slabs) |-> IF n = 0 THEN 0 ELSE f[n - 1] + TaxInSlab(x, slabs[n])]
           g == [n \in 0..4 |-> CASE n = 0 -> 0
                                  [] n = 1 -> t1
                                  [] n = 2 -> t1 + t2
                                  [] n = 3 -> t1 + t2 + t3
                                  [] n = 4 -> t1 + t2 + t3 + t4]
           f == CHOOSE f : f = F(f)
<1> HIDE DEF t1, t2, t3, t4
<1>1. SlabTax(x, slabs) = f[Len(slabs)] BY Zenon DEF SlabTax
<1>2. g = F(g)
  <2>1. ASSUME NEW n \in 0..4
        PROVE  g[n] = IF n = 0 THEN 0 ELSE g[n - 1] + TaxInSlab(x, slabs[n])
    <3>0. CASE n = 0 BY <1>0, <3>0
    <3>1. CASE n = 1 BY <1>0, <3>1 DEF t1
    <3>2. CASE n = 2 BY <1>0, <3>2 DEF t2
    <3>3. CASE n = 3 BY <1>0, <3>3 DEF t3
    <3>4. CASE n = 4 BY <1>0, <3>4 DEF t4
    <3> QED BY <3>0, <3>1, <3>2, <3>3, <3>4
  <2> QED BY <2>1
<1>3. f = F(f) BY <1>2, Zenon
<1>4. \A n \in 0..4 : f[n] = IF n = 0 THEN 0 ELSE f[n - 1] + TaxInSlab(x, slabs[n])
  <2> HIDE DEF f
  <2> QED BY <1>3
<1> HIDE DEF f, g
<1>5. f[0] = 0 /\ f[1] = t1 BY <1>0, <1>4 DEF t1
<1>6. f[2] = t1 + t2 BY <1>0, <1>4, <1>5 DEF t2
<1>7. f[3] = t1 + t2 + t3 BY <1>0, <1>4, <1>6 DEF t3
<1>8. f[4] = t1 + t2 + t3 + t4 BY <1>0, <1>4, <1>7 DEF t4
<1> QED BY <1>1, <1>8 DEF t1, t2, t3, t4

(* Of six, as the old year of the new regime has.                          *)
LEMMA TotalOf6 ==
  ASSUME NEW x, NEW slabs, Len(slabs) = 6, \A n \in 1..6 : TaxInSlab(x, slabs[n]) \in Nat
  PROVE  SlabTax(x, slabs) = TaxInSlab(x, slabs[1]) + TaxInSlab(x, slabs[2]) + TaxInSlab(x, slabs[3])
           + TaxInSlab(x, slabs[4]) + TaxInSlab(x, slabs[5]) + TaxInSlab(x, slabs[6])
<1> DEFINE t1 == TaxInSlab(x, slabs[1])
           t2 == TaxInSlab(x, slabs[2])
           t3 == TaxInSlab(x, slabs[3])
           t4 == TaxInSlab(x, slabs[4])
           t5 == TaxInSlab(x, slabs[5])
           t6 == TaxInSlab(x, slabs[6])
<1>0. t1 \in Nat /\ t2 \in Nat /\ t3 \in Nat /\ t4 \in Nat /\ t5 \in Nat /\ t6 \in Nat OBVIOUS
<1> DEFINE F(f) == [n \in 0..Len(slabs) |-> IF n = 0 THEN 0 ELSE f[n - 1] + TaxInSlab(x, slabs[n])]
           g == [n \in 0..6 |-> CASE n = 0 -> 0
                                  [] n = 1 -> t1
                                  [] n = 2 -> t1 + t2
                                  [] n = 3 -> t1 + t2 + t3
                                  [] n = 4 -> t1 + t2 + t3 + t4
                                  [] n = 5 -> t1 + t2 + t3 + t4 + t5
                                  [] n = 6 -> t1 + t2 + t3 + t4 + t5 + t6]
           f == CHOOSE f : f = F(f)
<1> HIDE DEF t1, t2, t3, t4, t5, t6
<1>1. SlabTax(x, slabs) = f[Len(slabs)] BY Zenon DEF SlabTax
<1>2. g = F(g)
  <2>1. ASSUME NEW n \in 0..6
        PROVE  g[n] = IF n = 0 THEN 0 ELSE g[n - 1] + TaxInSlab(x, slabs[n])
    <3>0. CASE n = 0 BY <1>0, <3>0
    <3>1. CASE n = 1 BY <1>0, <3>1 DEF t1
    <3>2. CASE n = 2 BY <1>0, <3>2 DEF t2
    <3>3. CASE n = 3 BY <1>0, <3>3 DEF t3
    <3>4. CASE n = 4 BY <1>0, <3>4 DEF t4
    <3>5. CASE n = 5 BY <1>0, <3>5 DEF t5
    <3>6. CASE n = 6 BY <1>0, <3>6 DEF t6
    <3> QED BY <3>0, <3>1, <3>2, <3>3, <3>4, <3>5, <3>6
  <2> QED BY <2>1
<1>3. f = F(f) BY <1>2, Zenon
<1>4. \A n \in 0..6 : f[n] = IF n = 0 THEN 0 ELSE f[n - 1] + TaxInSlab(x, slabs[n])
  <2> HIDE DEF f
  <2> QED BY <1>3
<1> HIDE DEF f, g
<1>5. f[0] = 0 /\ f[1] = t1 BY <1>0, <1>4 DEF t1
<1>6. f[2] = t1 + t2 BY <1>0, <1>4, <1>5 DEF t2
<1>7. f[3] = t1 + t2 + t3 BY <1>0, <1>4, <1>6 DEF t3
<1>8. f[4] = t1 + t2 + t3 + t4 BY <1>0, <1>4, <1>7 DEF t4
<1>9. f[5] = t1 + t2 + t3 + t4 + t5 BY <1>0, <1>4, <1>8 DEF t5
<1>10. f[6] = t1 + t2 + t3 + t4 + t5 + t6 BY <1>0, <1>4, <1>9 DEF t6
<1> QED BY <1>1, <1>10 DEF t1, t2, t3, t4, t5, t6

(* Of seven, as the new regime has.                                        *)
LEMMA TotalOf7 ==
  ASSUME NEW x, NEW slabs, Len(slabs) = 7, \A n \in 1..7 : TaxInSlab(x, slabs[n]) \in Nat
  PROVE  SlabTax(x, slabs) = TaxInSlab(x, slabs[1]) + TaxInSlab(x, slabs[2]) + TaxInSlab(x, slabs[3])
           + TaxInSlab(x, slabs[4]) + TaxInSlab(x, slabs[5]) + TaxInSlab(x, slabs[6]) + TaxInSlab(x, slabs[7])
<1> DEFINE t1 == TaxInSlab(x, slabs[1])
           t2 == TaxInSlab(x, slabs[2])
           t3 == TaxInSlab(x, slabs[3])
           t4 == TaxInSlab(x, slabs[4])
           t5 == TaxInSlab(x, slabs[5])
           t6 == TaxInSlab(x, slabs[6])
           t7 == TaxInSlab(x, slabs[7])
<1>0. t1 \in Nat /\ t2 \in Nat /\ t3 \in Nat /\ t4 \in Nat /\ t5 \in Nat /\ t6 \in Nat /\ t7 \in Nat OBVIOUS
<1> DEFINE F(f) == [n \in 0..Len(slabs) |-> IF n = 0 THEN 0 ELSE f[n - 1] + TaxInSlab(x, slabs[n])]
           g == [n \in 0..7 |-> CASE n = 0 -> 0
                                  [] n = 1 -> t1
                                  [] n = 2 -> t1 + t2
                                  [] n = 3 -> t1 + t2 + t3
                                  [] n = 4 -> t1 + t2 + t3 + t4
                                  [] n = 5 -> t1 + t2 + t3 + t4 + t5
                                  [] n = 6 -> t1 + t2 + t3 + t4 + t5 + t6
                                  [] n = 7 -> t1 + t2 + t3 + t4 + t5 + t6 + t7]
           f == CHOOSE f : f = F(f)
<1> HIDE DEF t1, t2, t3, t4, t5, t6, t7
<1>1. SlabTax(x, slabs) = f[Len(slabs)] BY Zenon DEF SlabTax
<1>2. g = F(g)
  <2>1. ASSUME NEW n \in 0..7
        PROVE  g[n] = IF n = 0 THEN 0 ELSE g[n - 1] + TaxInSlab(x, slabs[n])
    <3>0. CASE n = 0 BY <1>0, <3>0
    <3>1. CASE n = 1 BY <1>0, <3>1 DEF t1
    <3>2. CASE n = 2 BY <1>0, <3>2 DEF t2
    <3>3. CASE n = 3 BY <1>0, <3>3 DEF t3
    <3>4. CASE n = 4 BY <1>0, <3>4 DEF t4
    <3>5. CASE n = 5 BY <1>0, <3>5 DEF t5
    <3>6. CASE n = 6 BY <1>0, <3>6 DEF t6
    <3>7. CASE n = 7 BY <1>0, <3>7 DEF t7
    <3> QED BY <3>0, <3>1, <3>2, <3>3, <3>4, <3>5, <3>6, <3>7
  <2> QED BY <2>1
<1>3. f = F(f) BY <1>2, Zenon
<1>4. \A n \in 0..7 : f[n] = IF n = 0 THEN 0 ELSE f[n - 1] + TaxInSlab(x, slabs[n])
  <2> HIDE DEF f
  <2> QED BY <1>3
<1> HIDE DEF f, g
<1>5. f[0] = 0 /\ f[1] = t1 BY <1>0, <1>4 DEF t1
<1>6. f[2] = t1 + t2 BY <1>0, <1>4, <1>5 DEF t2
<1>7. f[3] = t1 + t2 + t3 BY <1>0, <1>4, <1>6 DEF t3
<1>8. f[4] = t1 + t2 + t3 + t4 BY <1>0, <1>4, <1>7 DEF t4
<1>9. f[5] = t1 + t2 + t3 + t4 + t5 BY <1>0, <1>4, <1>8 DEF t5
<1>10. f[6] = t1 + t2 + t3 + t4 + t5 + t6 BY <1>0, <1>4, <1>9 DEF t6
<1>11. f[7] = t1 + t2 + t3 + t4 + t5 + t6 + t7 BY <1>0, <1>4, <1>10 DEF t7
<1> QED BY <1>1, <1>11 DEF t1, t2, t3, t4, t5, t6, t7

(* At no rate there is no tax.                                             *)
LEMMA RateNone ==
  ASSUME NEW a \in Nat
  PROVE  RateOf(a, 0) = 0 /\ Oracle!Percent(a, 0) = 0
BY DEF RateOf, HalfUp, Oracle!Percent

(* The tax on whole rupees is a whole number of paise.                     *)
LEMMA WholeRate ==
  ASSUME NEW a, Whole(a), NEW rate \in {0, 500, 1000, 1500, 2000, 2500, 3000}
  PROVE  RateOf(a, rate) \in Nat /\ 10000 * RateOf(a, rate) = rate * a
<1>1. PICK z \in Nat : a = 100 * z
  <2>1. a \in Nat /\ a = 100 * (a \div 100) /\ a \div 100 \in Nat BY DEF Whole
  <2> QED BY <2>1
<1>2. CASE rate = 0 BY SMT, <1>1, <1>2, RupeeRates
<1>3. CASE rate = 500 BY SMT, <1>1, <1>3, RupeeRates
<1>4. CASE rate = 1000 BY SMT, <1>1, <1>4, RupeeRates
<1>5. CASE rate = 1500 BY SMT, <1>1, <1>5, RupeeRates
<1>6. CASE rate = 2000 BY SMT, <1>1, <1>6, RupeeRates
<1>7. CASE rate = 2500 BY SMT, <1>1, <1>7, RupeeRates
<1>8. CASE rate = 3000 BY SMT, <1>1, <1>8, RupeeRates
<1> QED BY <1>2, <1>3, <1>4, <1>5, <1>6, <1>7, <1>8

(* What is taxed in one slab.                                              *)
LEMMA InSlab ==
  ASSUME NEW x, Whole(x), NEW s, Whole(s.from), s.from <= s.to, Whole(s.to) \/ (s.to \in Nat /\ x <= s.to),
         s.rate \in {0, 500, 1000, 1500, 2000, 2500, 3000}
  PROVE  /\ TaxInSlab(x, s) \in Nat
         /\ x <= s.from => TaxInSlab(x, s) = 0
         /\ s.from < x /\ x <= s.to => 10000 * TaxInSlab(x, s) = s.rate * (x - s.from)
         /\ s.to < x => 10000 * TaxInSlab(x, s) = s.rate * (s.to - s.from)
<1>1. x \in Nat /\ s.from \in Nat /\ s.to \in Nat BY DEF Whole
<1>2. CASE x <= s.from BY <1>1, <1>2 DEF TaxInSlab
<1>3. CASE s.from < x /\ x <= s.to
  <2>1. TaxInSlab(x, s) = RateOf(x - s.from, s.rate) BY <1>1, <1>3 DEF TaxInSlab, AtMost
  <2>2. Whole(x - s.from) BY <1>1, <1>3 DEF Whole
  <2>3. ~(x <= s.from) /\ ~(s.to < x) BY <1>1, <1>3
  <2> QED BY <2>1, <2>2, <2>3, WholeRate
<1>4. CASE s.to < x
  <2>1. TaxInSlab(x, s) = RateOf(s.to - s.from, s.rate) BY <1>1, <1>4 DEF TaxInSlab, AtMost
  <2>2. Whole(s.to - s.from) BY <1>1, <1>4 DEF Whole
  <2>3. ~(x <= s.from) /\ ~(x <= s.to) BY <1>1, <1>4
  <2> QED BY <2>1, <2>2, <2>3, WholeRate
<1> QED BY <1>1, <1>2, <1>3, <1>4

(* The tax by the slabs in closed form, in hundredths of paise: the new    *)
(* regime,                                                                 *)
LEMMA NewSlabTax ==
  ASSUME NEW x, Whole(x), x <= Unlimited, NEW tax, tax = SlabTax(x, NEW_SLABS)
  PROVE  /\ tax \in Nat
         /\ x <= 40000000 => tax = 0
         /\ x > 40000000 /\ x <= 80000000 => 100 * tax = 5 * (x - 40000000)
         /\ x > 80000000 /\ x <= 120000000 => 100 * tax = 200000000 + 10 * (x - 80000000)
         /\ x > 120000000 /\ x <= 160000000 => 100 * tax = 600000000 + 15 * (x - 120000000)
         /\ x > 160000000 /\ x <= 200000000 => 100 * tax = 1200000000 + 20 * (x - 160000000)
         /\ x > 200000000 /\ x <= 240000000 => 100 * tax = 2000000000 + 25 * (x - 200000000)
         /\ x > 240000000 => 100 * tax = 3000000000 + 30 * (x - 240000000)
<1>0. x \in Nat /\ x <= 2147483647 BY SMT DEF Whole, Unlimited
<1>1. PICK t1 \in Nat : TaxInSlab(x, NEW_SLABS[1]) = t1 /\ t1 = 0
  <2>1. NEW_SLABS[1].from = 0 /\ NEW_SLABS[1].to = 40000000 /\ NEW_SLABS[1].rate = 0
    BY SMT DEF NEW_SLABS, Slab, Lakh, Rupees
  <2> QED BY SMT, <1>0, <2>1, RateNone DEF TaxInSlab, AtMost
<1>2. PICK t2 \in Nat :
       /\ TaxInSlab(x, NEW_SLABS[2]) = t2 /\ (x <= 40000000 => t2 = 0)
       /\ x > 40000000 /\ x <= 80000000 => 100 * t2 = 5 * (x - 40000000)
       /\ x > 80000000 => t2 = 2000000
  <2>1. NEW_SLABS[2].from = 40000000 /\ NEW_SLABS[2].to = 80000000 /\ NEW_SLABS[2].rate = 500
    BY SMT DEF NEW_SLABS, Slab, Lakh, Rupees
  <2> QED BY SMT, <1>0, <2>1, InSlab DEF Whole
<1>3. PICK t3 \in Nat :
       /\ TaxInSlab(x, NEW_SLABS[3]) = t3 /\ (x <= 80000000 => t3 = 0)
       /\ x > 80000000 /\ x <= 120000000 => 100 * t3 = 10 * (x - 80000000)
       /\ x > 120000000 => t3 = 4000000
  <2>1. NEW_SLABS[3].from = 80000000 /\ NEW_SLABS[3].to = 120000000 /\ NEW_SLABS[3].rate = 1000
    BY SMT DEF NEW_SLABS, Slab, Lakh, Rupees
  <2> QED BY SMT, <1>0, <2>1, InSlab DEF Whole
<1>4. PICK t4 \in Nat :
       /\ TaxInSlab(x, NEW_SLABS[4]) = t4 /\ (x <= 120000000 => t4 = 0)
       /\ x > 120000000 /\ x <= 160000000 => 100 * t4 = 15 * (x - 120000000)
       /\ x > 160000000 => t4 = 6000000
  <2>1. NEW_SLABS[4].from = 120000000 /\ NEW_SLABS[4].to = 160000000 /\ NEW_SLABS[4].rate = 1500
    BY SMT DEF NEW_SLABS, Slab, Lakh, Rupees
  <2> QED BY SMT, <1>0, <2>1, InSlab DEF Whole
<1>5. PICK t5 \in Nat :
       /\ TaxInSlab(x, NEW_SLABS[5]) = t5 /\ (x <= 160000000 => t5 = 0)
       /\ x > 160000000 /\ x <= 200000000 => 100 * t5 = 20 * (x - 160000000)
       /\ x > 200000000 => t5 = 8000000
  <2>1. NEW_SLABS[5].from = 160000000 /\ NEW_SLABS[5].to = 200000000 /\ NEW_SLABS[5].rate = 2000
    BY SMT DEF NEW_SLABS, Slab, Lakh, Rupees
  <2> QED BY SMT, <1>0, <2>1, InSlab DEF Whole
<1>6. PICK t6 \in Nat :
       /\ TaxInSlab(x, NEW_SLABS[6]) = t6 /\ (x <= 200000000 => t6 = 0)
       /\ x > 200000000 /\ x <= 240000000 => 100 * t6 = 25 * (x - 200000000)
       /\ x > 240000000 => t6 = 10000000
  <2>1. NEW_SLABS[6].from = 200000000 /\ NEW_SLABS[6].to = 240000000 /\ NEW_SLABS[6].rate = 2500
    BY SMT DEF NEW_SLABS, Slab, Lakh, Rupees
  <2> QED BY SMT, <1>0, <2>1, InSlab DEF Whole
<1>7. PICK t7 \in Nat :
       /\ TaxInSlab(x, NEW_SLABS[7]) = t7 /\ (x <= 240000000 => t7 = 0)
       /\ x > 240000000 => 100 * t7 = 30 * (x - 240000000)
  <2>1. NEW_SLABS[7].from = 240000000 /\ NEW_SLABS[7].to = 2147483647 /\ NEW_SLABS[7].rate = 3000
    BY SMT DEF NEW_SLABS, Slab, Lakh, Rupees, Unlimited
  <2> QED BY SMT, <1>0, <2>1, InSlab DEF Whole
<1>8. Len(NEW_SLABS) = 7 BY SMT DEF NEW_SLABS
<1>9. tax = t1 + t2 + t3 + t4 + t5 + t6 + t7
  <2>1. t1 \in Nat /\ t2 \in Nat /\ t3 \in Nat /\ t4 \in Nat /\ t5 \in Nat /\ t6 \in Nat /\ t7 \in Nat
    BY SMT, <1>1, <1>2, <1>3, <1>4, <1>5, <1>6, <1>7
  <2>2. /\ TaxInSlab(x, NEW_SLABS[1]) = t1
        /\ TaxInSlab(x, NEW_SLABS[2]) = t2
        /\ TaxInSlab(x, NEW_SLABS[3]) = t3
        /\ TaxInSlab(x, NEW_SLABS[4]) = t4
        /\ TaxInSlab(x, NEW_SLABS[5]) = t5
        /\ TaxInSlab(x, NEW_SLABS[6]) = t6
        /\ TaxInSlab(x, NEW_SLABS[7]) = t7
    BY SMT, <1>1, <1>2, <1>3, <1>4, <1>5, <1>6, <1>7
  <2>3. \A n \in 1..7 : TaxInSlab(x, NEW_SLABS[n]) \in Nat BY <2>1, <2>2
  <2>4. SlabTax(x, NEW_SLABS)
          = TaxInSlab(x, NEW_SLABS[1]) + TaxInSlab(x, NEW_SLABS[2]) + TaxInSlab(x, NEW_SLABS[3])
            + TaxInSlab(x, NEW_SLABS[4]) + TaxInSlab(x, NEW_SLABS[5]) + TaxInSlab(x, NEW_SLABS[6])
              + TaxInSlab(x, NEW_SLABS[7])
    BY <1>8, <2>3, TotalOf7
  <2> QED BY <2>2, <2>4
<1> QED BY SMT, <1>9, <1>0, <1>1, <1>2, <1>3, <1>4, <1>5, <1>6, <1>7

(* its year before,                                                        *)
LEMMA New2425SlabTax ==
  ASSUME NEW x, Whole(x), x <= Unlimited, NEW tax, tax = SlabTax(x, NEW_SLABS_2425)
  PROVE  /\ tax \in Nat
         /\ x <= 30000000 => tax = 0
         /\ x > 30000000 /\ x <= 70000000 => 100 * tax = 5 * (x - 30000000)
         /\ x > 70000000 /\ x <= 100000000 => 100 * tax = 200000000 + 10 * (x - 70000000)
         /\ x > 100000000 /\ x <= 120000000 => 100 * tax = 500000000 + 15 * (x - 100000000)
         /\ x > 120000000 /\ x <= 150000000 => 100 * tax = 800000000 + 20 * (x - 120000000)
         /\ x > 150000000 => 100 * tax = 1400000000 + 30 * (x - 150000000)
<1>0. x \in Nat /\ x <= 2147483647 BY SMT DEF Whole, Unlimited
<1>1. PICK t1 \in Nat : TaxInSlab(x, NEW_SLABS_2425[1]) = t1 /\ t1 = 0
  <2>1. NEW_SLABS_2425[1].from = 0 /\ NEW_SLABS_2425[1].to = 30000000 /\ NEW_SLABS_2425[1].rate = 0
    BY SMT DEF NEW_SLABS_2425, Slab, Lakh, Rupees
  <2> QED BY SMT, <1>0, <2>1, RateNone DEF TaxInSlab, AtMost
<1>2. PICK t2 \in Nat :
       /\ TaxInSlab(x, NEW_SLABS_2425[2]) = t2 /\ (x <= 30000000 => t2 = 0)
       /\ x > 30000000 /\ x <= 70000000 => 100 * t2 = 5 * (x - 30000000)
       /\ x > 70000000 => t2 = 2000000
  <2>1. NEW_SLABS_2425[2].from = 30000000 /\ NEW_SLABS_2425[2].to = 70000000 /\ NEW_SLABS_2425[2].rate = 500
    BY SMT DEF NEW_SLABS_2425, Slab, Lakh, Rupees
  <2> QED BY SMT, <1>0, <2>1, InSlab DEF Whole
<1>3. PICK t3 \in Nat :
       /\ TaxInSlab(x, NEW_SLABS_2425[3]) = t3 /\ (x <= 70000000 => t3 = 0)
       /\ x > 70000000 /\ x <= 100000000 => 100 * t3 = 10 * (x - 70000000)
       /\ x > 100000000 => t3 = 3000000
  <2>1. NEW_SLABS_2425[3].from = 70000000 /\ NEW_SLABS_2425[3].to = 100000000 /\ NEW_SLABS_2425[3].rate = 1000
    BY SMT DEF NEW_SLABS_2425, Slab, Lakh, Rupees
  <2> QED BY SMT, <1>0, <2>1, InSlab DEF Whole
<1>4. PICK t4 \in Nat :
       /\ TaxInSlab(x, NEW_SLABS_2425[4]) = t4 /\ (x <= 100000000 => t4 = 0)
       /\ x > 100000000 /\ x <= 120000000 => 100 * t4 = 15 * (x - 100000000)
       /\ x > 120000000 => t4 = 3000000
  <2>1. NEW_SLABS_2425[4].from = 100000000 /\ NEW_SLABS_2425[4].to = 120000000 /\ NEW_SLABS_2425[4].rate = 1500
    BY SMT DEF NEW_SLABS_2425, Slab, Lakh, Rupees
  <2> QED BY SMT, <1>0, <2>1, InSlab DEF Whole
<1>5. PICK t5 \in Nat :
       /\ TaxInSlab(x, NEW_SLABS_2425[5]) = t5 /\ (x <= 120000000 => t5 = 0)
       /\ x > 120000000 /\ x <= 150000000 => 100 * t5 = 20 * (x - 120000000)
       /\ x > 150000000 => t5 = 6000000
  <2>1. NEW_SLABS_2425[5].from = 120000000 /\ NEW_SLABS_2425[5].to = 150000000 /\ NEW_SLABS_2425[5].rate = 2000
    BY SMT DEF NEW_SLABS_2425, Slab, Lakh, Rupees
  <2> QED BY SMT, <1>0, <2>1, InSlab DEF Whole
<1>6. PICK t6 \in Nat :
       /\ TaxInSlab(x, NEW_SLABS_2425[6]) = t6 /\ (x <= 150000000 => t6 = 0)
       /\ x > 150000000 => 100 * t6 = 30 * (x - 150000000)
  <2>1. NEW_SLABS_2425[6].from = 150000000 /\ NEW_SLABS_2425[6].to = 2147483647 /\ NEW_SLABS_2425[6].rate = 3000
    BY SMT DEF NEW_SLABS_2425, Slab, Lakh, Rupees, Unlimited
  <2> QED BY SMT, <1>0, <2>1, InSlab DEF Whole
<1>8. Len(NEW_SLABS_2425) = 6 BY SMT DEF NEW_SLABS_2425
<1>9. tax = t1 + t2 + t3 + t4 + t5 + t6
  <2>1. t1 \in Nat /\ t2 \in Nat /\ t3 \in Nat /\ t4 \in Nat /\ t5 \in Nat /\ t6 \in Nat
    BY SMT, <1>1, <1>2, <1>3, <1>4, <1>5, <1>6
  <2>2. /\ TaxInSlab(x, NEW_SLABS_2425[1]) = t1
        /\ TaxInSlab(x, NEW_SLABS_2425[2]) = t2
        /\ TaxInSlab(x, NEW_SLABS_2425[3]) = t3
        /\ TaxInSlab(x, NEW_SLABS_2425[4]) = t4
        /\ TaxInSlab(x, NEW_SLABS_2425[5]) = t5
        /\ TaxInSlab(x, NEW_SLABS_2425[6]) = t6
    BY SMT, <1>1, <1>2, <1>3, <1>4, <1>5, <1>6
  <2>3. \A n \in 1..6 : TaxInSlab(x, NEW_SLABS_2425[n]) \in Nat BY <2>1, <2>2
  <2>4. SlabTax(x, NEW_SLABS_2425)
          = TaxInSlab(x, NEW_SLABS_2425[1]) + TaxInSlab(x, NEW_SLABS_2425[2]) + TaxInSlab(x, NEW_SLABS_2425[3])
            + TaxInSlab(x, NEW_SLABS_2425[4]) + TaxInSlab(x, NEW_SLABS_2425[5]) + TaxInSlab(x, NEW_SLABS_2425[6])
    BY <1>8, <2>3, TotalOf6
  <2> QED BY <2>2, <2>4
<1> QED BY SMT, <1>9, <1>0, <1>1, <1>2, <1>3, <1>4, <1>5, <1>6

(* and the old regime.                                                     *)
LEMMA OldSlabTax ==
  ASSUME NEW x, Whole(x), x <= Unlimited, NEW tax, tax = SlabTax(x, OLD_SLABS)
  PROVE  /\ tax \in Nat
         /\ x <= 25000000 => tax = 0
         /\ x > 25000000 /\ x <= 50000000 => 100 * tax = 5 * (x - 25000000)
         /\ x > 50000000 /\ x <= 100000000 => 100 * tax = 125000000 + 20 * (x - 50000000)
         /\ x > 100000000 => 100 * tax = 1125000000 + 30 * (x - 100000000)
<1>0. x \in Nat /\ x <= 2147483647 BY SMT DEF Whole, Unlimited
<1>1. PICK t1 \in Nat : TaxInSlab(x, OLD_SLABS[1]) = t1 /\ t1 = 0
  <2>1. OLD_SLABS[1].from = 0 /\ OLD_SLABS[1].to = 25000000 /\ OLD_SLABS[1].rate = 0
    BY SMT DEF OLD_SLABS, Slab, Lakh, Rupees
  <2> QED BY SMT, <1>0, <2>1, RateNone DEF TaxInSlab, AtMost
<1>2. PICK t2 \in Nat :
       /\ TaxInSlab(x, OLD_SLABS[2]) = t2 /\ (x <= 25000000 => t2 = 0)
       /\ x > 25000000 /\ x <= 50000000 => 100 * t2 = 5 * (x - 25000000)
       /\ x > 50000000 => t2 = 1250000
  <2>1. OLD_SLABS[2].from = 25000000 /\ OLD_SLABS[2].to = 50000000 /\ OLD_SLABS[2].rate = 500
    BY SMT DEF OLD_SLABS, Slab, Lakh, Rupees
  <2> QED BY SMT, <1>0, <2>1, InSlab DEF Whole
<1>3. PICK t3 \in Nat :
       /\ TaxInSlab(x, OLD_SLABS[3]) = t3 /\ (x <= 50000000 => t3 = 0)
       /\ x > 50000000 /\ x <= 100000000 => 100 * t3 = 20 * (x - 50000000)
       /\ x > 100000000 => t3 = 10000000
  <2>1. OLD_SLABS[3].from = 50000000 /\ OLD_SLABS[3].to = 100000000 /\ OLD_SLABS[3].rate = 2000
    BY SMT DEF OLD_SLABS, Slab, Lakh, Rupees
  <2> QED BY SMT, <1>0, <2>1, InSlab DEF Whole
<1>4. PICK t4 \in Nat :
       /\ TaxInSlab(x, OLD_SLABS[4]) = t4 /\ (x <= 100000000 => t4 = 0)
       /\ x > 100000000 => 100 * t4 = 30 * (x - 100000000)
  <2>1. OLD_SLABS[4].from = 100000000 /\ OLD_SLABS[4].to = 2147483647 /\ OLD_SLABS[4].rate = 3000
    BY SMT DEF OLD_SLABS, Slab, Lakh, Rupees, Unlimited
  <2> QED BY SMT, <1>0, <2>1, InSlab DEF Whole
<1>8. Len(OLD_SLABS) = 4 BY SMT DEF OLD_SLABS
<1>9. tax = t1 + t2 + t3 + t4
  <2>1. t1 \in Nat /\ t2 \in Nat /\ t3 \in Nat /\ t4 \in Nat BY SMT, <1>1, <1>2, <1>3, <1>4
  <2>2. /\ TaxInSlab(x, OLD_SLABS[1]) = t1
        /\ TaxInSlab(x, OLD_SLABS[2]) = t2
        /\ TaxInSlab(x, OLD_SLABS[3]) = t3
        /\ TaxInSlab(x, OLD_SLABS[4]) = t4
    BY SMT, <1>1, <1>2, <1>3, <1>4
  <2>3. \A n \in 1..4 : TaxInSlab(x, OLD_SLABS[n]) \in Nat BY <2>1, <2>2
  <2>4. SlabTax(x, OLD_SLABS)
          = TaxInSlab(x, OLD_SLABS[1]) + TaxInSlab(x, OLD_SLABS[2]) + TaxInSlab(x, OLD_SLABS[3])
            + TaxInSlab(x, OLD_SLABS[4])
    BY <1>8, <2>3, TotalOf4
  <2> QED BY <2>2, <2>4
<1> QED BY SMT, <1>9, <1>0, <1>1, <1>2, <1>3, <1>4

-----------------------------------------------------------------------------
(* The branches of the oracle.                                             *)

(* The oracle's branch for an income is the bracket with the highest floor *)
(* below it.                                                               *)
LEMMA OracleBranch ==
  ASSUME NEW x \in Nat, NEW brackets, NEW b \in brackets,
         \A o \in brackets : o.floor \in Nat,
         \A o, p \in brackets : o.floor = p.floor => o = p,
         x > b.floor, \A o \in brackets : x > o.floor => o.floor <= b.floor
  PROVE  Oracle!SlabTax(x, brackets) = b.upTo + Oracle!Percent(x - b.floor, b.p)
<1> DEFINE met == {o \in brackets : x > o.floor}
           c == CHOOSE c \in met : \A o \in met : o.floor <= c.floor
<1>1. b \in met /\ \A o \in met : o.floor <= b.floor OBVIOUS
<1>2. c \in met /\ \A o \in met : o.floor <= c.floor
  <2>1. \E e : e \in met /\ \A o \in met : o.floor <= e.floor BY <1>1
  <2> QED BY <2>1, Zenon
<1>3. c = b
  <2> HIDE DEF c
  <2>1. c \in brackets /\ c.floor <= b.floor /\ b.floor <= c.floor BY <1>1, <1>2
  <2>2. c.floor = b.floor BY <2>1
  <2> QED BY <2>1, <2>2
<1>4. Oracle!SlabTax(x, brackets) = c.upTo + Oracle!Percent(x - c.floor, c.p)
  BY <1>1, Zenon DEF Oracle!SlabTax
<1> QED BY <1>3, <1>4

(* Below all floors the oracle takes no tax.                               *)
LEMMA OracleNoBranch ==
  ASSUME NEW x \in Nat, NEW brackets, \A o \in brackets : ~(x > o.floor)
  PROVE  Oracle!SlabTax(x, brackets) = 0
BY DEF Oracle!SlabTax

(* A percentage of whole rupees is exact.                                  *)
LEMMA WholePercent ==
  ASSUME NEW a, Whole(a), NEW p \in {5, 10, 15, 20, 25, 30}
  PROVE  Oracle!Percent(a, p) \in Nat /\ 100 * Oracle!Percent(a, p) = p * a
<1>1. PICK z \in Nat : a = 100 * z
  <2>1. a \in Nat /\ a = 100 * (a \div 100) /\ a \div 100 \in Nat BY DEF Whole
  <2> QED BY <2>1
<1>2. CASE p = 5 BY SMT, <1>1, <1>2, RupeePercents
<1>3. CASE p = 10 BY SMT, <1>1, <1>3, RupeePercents
<1>4. CASE p = 15 BY SMT, <1>1, <1>4, RupeePercents
<1>5. CASE p = 20 BY SMT, <1>1, <1>5, RupeePercents
<1>6. CASE p = 25 BY SMT, <1>1, <1>6, RupeePercents
<1>7. CASE p = 30 BY SMT, <1>1, <1>7, RupeePercents
<1> QED BY <1>2, <1>3, <1>4, <1>5, <1>6, <1>7

(* The oracle's branches find what the slabs do.                           *)
LEMMA NewSlabsAgree ==
  ASSUME NEW x, Whole(x), x <= Unlimited
  PROVE  Oracle!SlabTax(x, Oracle!BRACKETS_NEW) = SlabTax(x, NEW_SLABS)
<1> DEFINE brackets == Oracle!BRACKETS_NEW
           tax == SlabTax(x, NEW_SLABS)
<1>0. x \in Nat /\ x % 100 = 0 BY DEF Whole
<1> DEFINE b1 == [floor |-> 40000000, upTo |-> 0, p |-> 5]
<1> DEFINE b2 == [floor |-> 80000000, upTo |-> 2000000, p |-> 10]
<1> DEFINE b3 == [floor |-> 120000000, upTo |-> 6000000, p |-> 15]
<1> DEFINE b4 == [floor |-> 160000000, upTo |-> 12000000, p |-> 20]
<1> DEFINE b5 == [floor |-> 200000000, upTo |-> 20000000, p |-> 25]
<1> DEFINE b6 == [floor |-> 240000000, upTo |-> 30000000, p |-> 30]
<1>1. brackets = {b1, b2, b3, b4, b5, b6}
  BY SMT  DEF Oracle!BRACKETS_NEW, Oracle!Bracket, Oracle!Rs
<1> HIDE DEF brackets, tax
<1>2. /\ b1.floor = 40000000 /\ b1.upTo = 0 /\ b1.p = 5
      /\ b2.floor = 80000000 /\ b2.upTo = 2000000 /\ b2.p = 10
      /\ b3.floor = 120000000 /\ b3.upTo = 6000000 /\ b3.p = 15
      /\ b4.floor = 160000000 /\ b4.upTo = 12000000 /\ b4.p = 20
      /\ b5.floor = 200000000 /\ b5.upTo = 20000000 /\ b5.p = 25
      /\ b6.floor = 240000000 /\ b6.upTo = 30000000 /\ b6.p = 30
  BY SMT
<1> HIDE DEF b1, b2, b3, b4, b5, b6
<1>3. \A o \in brackets : o.floor \in Nat BY SMT, <1>1, <1>2
<1>4. \A o, p \in brackets : o.floor = p.floor => o = p BY SMT, <1>1, <1>2
<1>5. CASE x <= 40000000
  <2>1. \A o \in brackets : ~(x > o.floor) BY SMT, <1>0, <1>1, <1>2, <1>5
  <2>2. Oracle!SlabTax(x, brackets) = 0 BY <1>0, <2>1, OracleNoBranch
  <2>3. tax = 0 BY SMT, <1>5, NewSlabTax DEF tax
  <2> QED BY <2>2, <2>3 DEF brackets, tax
<1>6. CASE x > 40000000 /\ x <= 80000000
  <2>1. x > b1.floor /\ b1 \in brackets /\ \A o \in brackets : x > o.floor => o.floor <= b1.floor
    BY SMT, <1>0, <1>1, <1>2, <1>6
  <2>2. Oracle!SlabTax(x, brackets) = b1.upTo + Oracle!Percent(x - b1.floor, b1.p)
    BY <1>0, <1>3, <1>4, <2>1, OracleBranch
  <2>3. Whole(x - b1.floor) /\ b1.p \in {5, 10, 15, 20, 25, 30} BY SMT, <1>0, <1>2, <2>1 DEF Whole
  <2>4. tax = Oracle!SlabTax(x, brackets)
    BY SMT, <1>0, <1>2, <1>6, <2>2, <2>3, WholePercent, NewSlabTax DEF tax
  <2> QED BY <2>4 DEF brackets, tax
<1>7. CASE x > 80000000 /\ x <= 120000000
  <2>1. x > b2.floor /\ b2 \in brackets /\ \A o \in brackets : x > o.floor => o.floor <= b2.floor
    BY SMT, <1>0, <1>1, <1>2, <1>7
  <2>2. Oracle!SlabTax(x, brackets) = b2.upTo + Oracle!Percent(x - b2.floor, b2.p)
    BY <1>0, <1>3, <1>4, <2>1, OracleBranch
  <2>3. Whole(x - b2.floor) /\ b2.p \in {5, 10, 15, 20, 25, 30} BY SMT, <1>0, <1>2, <2>1 DEF Whole
  <2>4. tax = Oracle!SlabTax(x, brackets)
    BY SMT, <1>0, <1>2, <1>7, <2>2, <2>3, WholePercent, NewSlabTax DEF tax
  <2> QED BY <2>4 DEF brackets, tax
<1>8. CASE x > 120000000 /\ x <= 160000000
  <2>1. x > b3.floor /\ b3 \in brackets /\ \A o \in brackets : x > o.floor => o.floor <= b3.floor
    BY SMT, <1>0, <1>1, <1>2, <1>8
  <2>2. Oracle!SlabTax(x, brackets) = b3.upTo + Oracle!Percent(x - b3.floor, b3.p)
    BY <1>0, <1>3, <1>4, <2>1, OracleBranch
  <2>3. Whole(x - b3.floor) /\ b3.p \in {5, 10, 15, 20, 25, 30} BY SMT, <1>0, <1>2, <2>1 DEF Whole
  <2>4. tax = Oracle!SlabTax(x, brackets)
    BY SMT, <1>0, <1>2, <1>8, <2>2, <2>3, WholePercent, NewSlabTax DEF tax
  <2> QED BY <2>4 DEF brackets, tax
<1>9. CASE x > 160000000 /\ x <= 200000000
  <2>1. x > b4.floor /\ b4 \in brackets /\ \A o \in brackets : x > o.floor => o.floor <= b4.floor
    BY SMT, <1>0, <1>1, <1>2, <1>9
  <2>2. Oracle!SlabTax(x, brackets) = b4.upTo + Oracle!Percent(x - b4.floor, b4.p)
    BY <1>0, <1>3, <1>4, <2>1, OracleBranch
  <2>3. Whole(x - b4.floor) /\ b4.p \in {5, 10, 15, 20, 25, 30} BY SMT, <1>0, <1>2, <2>1 DEF Whole
  <2>4. tax = Oracle!SlabTax(x, brackets)
    BY SMT, <1>0, <1>2, <1>9, <2>2, <2>3, WholePercent, NewSlabTax DEF tax
  <2> QED BY <2>4 DEF brackets, tax
<1>10. CASE x > 200000000 /\ x <= 240000000
  <2>1. x > b5.floor /\ b5 \in brackets /\ \A o \in brackets : x > o.floor => o.floor <= b5.floor
    BY SMT, <1>0, <1>1, <1>2, <1>10
  <2>2. Oracle!SlabTax(x, brackets) = b5.upTo + Oracle!Percent(x - b5.floor, b5.p)
    BY <1>0, <1>3, <1>4, <2>1, OracleBranch
  <2>3. Whole(x - b5.floor) /\ b5.p \in {5, 10, 15, 20, 25, 30} BY SMT, <1>0, <1>2, <2>1 DEF Whole
  <2>4. tax = Oracle!SlabTax(x, brackets)
    BY SMT, <1>0, <1>2, <1>10, <2>2, <2>3, WholePercent, NewSlabTax DEF tax
  <2> QED BY <2>4 DEF brackets, tax
<1>11. CASE x > 240000000
  <2>1. x > b6.floor /\ b6 \in brackets /\ \A o \in brackets : x > o.floor => o.floor <= b6.floor
    BY SMT, <1>0, <1>1, <1>2, <1>11
  <2>2. Oracle!SlabTax(x, brackets) = b6.upTo + Oracle!Percent(x - b6.floor, b6.p)
    BY <1>0, <1>3, <1>4, <2>1, OracleBranch
  <2>3. Whole(x - b6.floor) /\ b6.p \in {5, 10, 15, 20, 25, 30} BY SMT, <1>0, <1>2, <2>1 DEF Whole
  <2>4. tax = Oracle!SlabTax(x, brackets)
    BY SMT, <1>0, <1>2, <1>11, <2>2, <2>3, WholePercent, NewSlabTax DEF tax
  <2> QED BY <2>4 DEF brackets, tax
<1> QED BY SMT, <1>0, <1>5, <1>6, <1>7, <1>8, <1>9, <1>10, <1>11

(* So they do for its year before,                                         *)
LEMMA New2425SlabsAgree ==
  ASSUME NEW x, Whole(x), x <= Unlimited
  PROVE  Oracle!SlabTax(x, Oracle!BRACKETS_2425) = SlabTax(x, NEW_SLABS_2425)
<1> DEFINE brackets == Oracle!BRACKETS_2425
           tax == SlabTax(x, NEW_SLABS_2425)
<1>0. x \in Nat /\ x % 100 = 0 BY DEF Whole
<1> DEFINE b1 == [floor |-> 30000000, upTo |-> 0, p |-> 5]
<1> DEFINE b2 == [floor |-> 70000000, upTo |-> 2000000, p |-> 10]
<1> DEFINE b3 == [floor |-> 100000000, upTo |-> 5000000, p |-> 15]
<1> DEFINE b4 == [floor |-> 120000000, upTo |-> 8000000, p |-> 20]
<1> DEFINE b5 == [floor |-> 150000000, upTo |-> 14000000, p |-> 30]
<1>1. brackets = {b1, b2, b3, b4, b5}
  BY SMT  DEF Oracle!BRACKETS_2425, Oracle!Bracket, Oracle!Rs
<1> HIDE DEF brackets, tax
<1>2. /\ b1.floor = 30000000 /\ b1.upTo = 0 /\ b1.p = 5
      /\ b2.floor = 70000000 /\ b2.upTo = 2000000 /\ b2.p = 10
      /\ b3.floor = 100000000 /\ b3.upTo = 5000000 /\ b3.p = 15
      /\ b4.floor = 120000000 /\ b4.upTo = 8000000 /\ b4.p = 20
      /\ b5.floor = 150000000 /\ b5.upTo = 14000000 /\ b5.p = 30
  BY SMT
<1> HIDE DEF b1, b2, b3, b4, b5
<1>3. \A o \in brackets : o.floor \in Nat BY SMT, <1>1, <1>2
<1>4. \A o, p \in brackets : o.floor = p.floor => o = p BY SMT, <1>1, <1>2
<1>5. CASE x <= 30000000
  <2>1. \A o \in brackets : ~(x > o.floor) BY SMT, <1>0, <1>1, <1>2, <1>5
  <2>2. Oracle!SlabTax(x, brackets) = 0 BY <1>0, <2>1, OracleNoBranch
  <2>3. tax = 0 BY SMT, <1>5, New2425SlabTax DEF tax
  <2> QED BY <2>2, <2>3 DEF brackets, tax
<1>6. CASE x > 30000000 /\ x <= 70000000
  <2>1. x > b1.floor /\ b1 \in brackets /\ \A o \in brackets : x > o.floor => o.floor <= b1.floor
    BY SMT, <1>0, <1>1, <1>2, <1>6
  <2>2. Oracle!SlabTax(x, brackets) = b1.upTo + Oracle!Percent(x - b1.floor, b1.p)
    BY <1>0, <1>3, <1>4, <2>1, OracleBranch
  <2>3. Whole(x - b1.floor) /\ b1.p \in {5, 10, 15, 20, 25, 30} BY SMT, <1>0, <1>2, <2>1 DEF Whole
  <2>4. tax = Oracle!SlabTax(x, brackets)
    BY SMT, <1>0, <1>2, <1>6, <2>2, <2>3, WholePercent, New2425SlabTax DEF tax
  <2> QED BY <2>4 DEF brackets, tax
<1>7. CASE x > 70000000 /\ x <= 100000000
  <2>1. x > b2.floor /\ b2 \in brackets /\ \A o \in brackets : x > o.floor => o.floor <= b2.floor
    BY SMT, <1>0, <1>1, <1>2, <1>7
  <2>2. Oracle!SlabTax(x, brackets) = b2.upTo + Oracle!Percent(x - b2.floor, b2.p)
    BY <1>0, <1>3, <1>4, <2>1, OracleBranch
  <2>3. Whole(x - b2.floor) /\ b2.p \in {5, 10, 15, 20, 25, 30} BY SMT, <1>0, <1>2, <2>1 DEF Whole
  <2>4. tax = Oracle!SlabTax(x, brackets)
    BY SMT, <1>0, <1>2, <1>7, <2>2, <2>3, WholePercent, New2425SlabTax DEF tax
  <2> QED BY <2>4 DEF brackets, tax
<1>8. CASE x > 100000000 /\ x <= 120000000
  <2>1. x > b3.floor /\ b3 \in brackets /\ \A o \in brackets : x > o.floor => o.floor <= b3.floor
    BY SMT, <1>0, <1>1, <1>2, <1>8
  <2>2. Oracle!SlabTax(x, brackets) = b3.upTo + Oracle!Percent(x - b3.floor, b3.p)
    BY <1>0, <1>3, <1>4, <2>1, OracleBranch
  <2>3. Whole(x - b3.floor) /\ b3.p \in {5, 10, 15, 20, 25, 30} BY SMT, <1>0, <1>2, <2>1 DEF Whole
  <2>4. tax = Oracle!SlabTax(x, brackets)
    BY SMT, <1>0, <1>2, <1>8, <2>2, <2>3, WholePercent, New2425SlabTax DEF tax
  <2> QED BY <2>4 DEF brackets, tax
<1>9. CASE x > 120000000 /\ x <= 150000000
  <2>1. x > b4.floor /\ b4 \in brackets /\ \A o \in brackets : x > o.floor => o.floor <= b4.floor
    BY SMT, <1>0, <1>1, <1>2, <1>9
  <2>2. Oracle!SlabTax(x, brackets) = b4.upTo + Oracle!Percent(x - b4.floor, b4.p)
    BY <1>0, <1>3, <1>4, <2>1, OracleBranch
  <2>3. Whole(x - b4.floor) /\ b4.p \in {5, 10, 15, 20, 25, 30} BY SMT, <1>0, <1>2, <2>1 DEF Whole
  <2>4. tax = Oracle!SlabTax(x, brackets)
    BY SMT, <1>0, <1>2, <1>9, <2>2, <2>3, WholePercent, New2425SlabTax DEF tax
  <2> QED BY <2>4 DEF brackets, tax
<1>10. CASE x > 150000000
  <2>1. x > b5.floor /\ b5 \in brackets /\ \A o \in brackets : x > o.floor => o.floor <= b5.floor
    BY SMT, <1>0, <1>1, <1>2, <1>10
  <2>2. Oracle!SlabTax(x, brackets) = b5.upTo + Oracle!Percent(x - b5.floor, b5.p)
    BY <1>0, <1>3, <1>4, <2>1, OracleBranch
  <2>3. Whole(x - b5.floor) /\ b5.p \in {5, 10, 15, 20, 25, 30} BY SMT, <1>0, <1>2, <2>1 DEF Whole
  <2>4. tax = Oracle!SlabTax(x, brackets)
    BY SMT, <1>0, <1>2, <1>10, <2>2, <2>3, WholePercent, New2425SlabTax DEF tax
  <2> QED BY <2>4 DEF brackets, tax
<1> QED BY SMT, <1>0, <1>5, <1>6, <1>7, <1>8, <1>9, <1>10

(* and for the old regime.                                                 *)
LEMMA OldSlabsAgree ==
  ASSUME NEW x, Whole(x), x <= Unlimited
  PROVE  Oracle!SlabTax(x, Oracle!BRACKETS_OLD) = SlabTax(x, OLD_SLABS)
<1> DEFINE brackets == Oracle!BRACKETS_OLD
           tax == SlabTax(x, OLD_SLABS)
<1>0. x \in Nat /\ x % 100 = 0 BY DEF Whole
<1> DEFINE b1 == [floor |-> 25000000, upTo |-> 0, p |-> 5]
<1> DEFINE b2 == [floor |-> 50000000, upTo |-> 1250000, p |-> 20]
<1> DEFINE b3 == [floor |-> 100000000, upTo |-> 11250000, p |-> 30]
<1>1. brackets = {b1, b2, b3}
  BY SMT  DEF Oracle!BRACKETS_OLD, Oracle!Bracket, Oracle!Rs
<1> HIDE DEF brackets, tax
<1>2. /\ b1.floor = 25000000 /\ b1.upTo = 0 /\ b1.p = 5
      /\ b2.floor = 50000000 /\ b2.upTo = 1250000 /\ b2.p = 20
      /\ b3.floor = 100000000 /\ b3.upTo = 11250000 /\ b3.p = 30
  BY SMT
<1> HIDE DEF b1, b2, b3
<1>3. \A o \in brackets : o.floor \in Nat BY SMT, <1>1, <1>2
<1>4. \A o, p \in brackets : o.floor = p.floor => o = p BY SMT, <1>1, <1>2
<1>5. CASE x <= 25000000
  <2>1. \A o \in brackets : ~(x > o.floor) BY SMT, <1>0, <1>1, <1>2, <1>5
  <2>2. Oracle!SlabTax(x, brackets) = 0 BY <1>0, <2>1, OracleNoBranch
  <2>3. tax = 0 BY SMT, <1>5, OldSlabTax DEF tax
  <2> QED BY <2>2, <2>3 DEF brackets, tax
<1>6. CASE x > 25000000 /\ x <= 50000000
  <2>1. x > b1.floor /\ b1 \in brackets /\ \A o \in brackets : x > o.floor => o.floor <= b1.floor
    BY SMT, <1>0, <1>1, <1>2, <1>6
  <2>2. Oracle!SlabTax(x, brackets) = b1.upTo + Oracle!Percent(x - b1.floor, b1.p)
    BY <1>0, <1>3, <1>4, <2>1, OracleBranch
  <2>3. Whole(x - b1.floor) /\ b1.p \in {5, 10, 15, 20, 25, 30} BY SMT, <1>0, <1>2, <2>1 DEF Whole
  <2>4. tax = Oracle!SlabTax(x, brackets)
    BY SMT, <1>0, <1>2, <1>6, <2>2, <2>3, WholePercent, OldSlabTax DEF tax
  <2> QED BY <2>4 DEF brackets, tax
<1>7. CASE x > 50000000 /\ x <= 100000000
  <2>1. x > b2.floor /\ b2 \in brackets /\ \A o \in brackets : x > o.floor => o.floor <= b2.floor
    BY SMT, <1>0, <1>1, <1>2, <1>7
  <2>2. Oracle!SlabTax(x, brackets) = b2.upTo + Oracle!Percent(x - b2.floor, b2.p)
    BY <1>0, <1>3, <1>4, <2>1, OracleBranch
  <2>3. Whole(x - b2.floor) /\ b2.p \in {5, 10, 15, 20, 25, 30} BY SMT, <1>0, <1>2, <2>1 DEF Whole
  <2>4. tax = Oracle!SlabTax(x, brackets)
    BY SMT, <1>0, <1>2, <1>7, <2>2, <2>3, WholePercent, OldSlabTax DEF tax
  <2> QED BY <2>4 DEF brackets, tax
<1>8. CASE x > 100000000
  <2>1. x > b3.floor /\ b3 \in brackets /\ \A o \in brackets : x > o.floor => o.floor <= b3.floor
    BY SMT, <1>0, <1>1, <1>2, <1>8
  <2>2. Oracle!SlabTax(x, brackets) = b3.upTo + Oracle!Percent(x - b3.floor, b3.p)
    BY <1>0, <1>3, <1>4, <2>1, OracleBranch
  <2>3. Whole(x - b3.floor) /\ b3.p \in {5, 10, 15, 20, 25, 30} BY SMT, <1>0, <1>2, <2>1 DEF Whole
  <2>4. tax = Oracle!SlabTax(x, brackets)
    BY SMT, <1>0, <1>2, <1>8, <2>2, <2>3, WholePercent, OldSlabTax DEF tax
  <2> QED BY <2>4 DEF brackets, tax
<1> QED BY SMT, <1>0, <1>5, <1>6, <1>7, <1>8

-----------------------------------------------------------------------------
(* A full rebate up to the limit; above it no more tax than income above.  *)
AfterLimit(x, slabTax, limit) == IF x <= limit THEN 0 ELSE AtMost(slabTax, x - limit)

(* The engine's rebate and its relief,                                     *)
LEMMA EngineRebate ==
  ASSUME NEW x \in Nat, NEW rules, SlabTax(x, rules.slabs) \in Nat,
         rules.rebateLimit \in Nat, rules.maxRebate \in Nat,
         x <= rules.rebateLimit => SlabTax(x, rules.slabs) <= rules.maxRebate
  PROVE  TaxAfterRebate(x, rules) = AfterLimit(x, SlabTax(x, rules.slabs), rules.rebateLimit)
<1> DEFINE t == SlabTax(x, rules.slabs)
           limit == rules.rebateLimit
           most == rules.maxRebate
<1>1. TaxAfterRebate(x, rules) =
        IF Rebate(x, t, rules) # 0 THEN t - Rebate(x, t, rules) ELSE NotBelow(t, RebateRelief(x, t, rules))
  BY DEF TaxAfterRebate
<1>2. /\ Rebate(x, t, rules) = IF x <= limit THEN AtMost(t, most) ELSE 0
      /\ RebateRelief(x, t, rules) = IF x <= limit THEN 0 ELSE NotBelow(t, x - limit)
  BY DEF Rebate, RebateRelief
<1>3. t \in Nat /\ limit \in Nat /\ most \in Nat /\ (x <= limit => t <= most) OBVIOUS
<1> HIDE DEF t, limit, most
<1>4. CASE x <= limit
  <2>1. Rebate(x, t, rules) = t /\ RebateRelief(x, t, rules) = 0 BY <1>2, <1>3, <1>4 DEF AtMost
  <2> QED BY <1>1, <1>3, <1>4, <2>1 DEF NotBelow, AfterLimit, t, limit
<1>5. CASE ~(x <= limit)
  <2>1. Rebate(x, t, rules) = 0 /\ RebateRelief(x, t, rules) = NotBelow(t, x - limit) BY <1>2, <1>5
  <2>2. NotBelow(t, NotBelow(t, x - limit)) = AtMost(t, x - limit) BY <1>3, <1>5 DEF NotBelow, AtMost
  <2> QED BY <1>1, <1>5, <2>1, <2>2 DEF AfterLimit, t, limit
<1> QED BY <1>4, <1>5

(* and the oracle's.                                                       *)
LEMMA OracleRebate ==
  ASSUME NEW x \in Nat, NEW t \in Nat, NEW limit \in Nat, NEW most \in Nat, x <= limit => t <= most
  PROVE  Oracle!AfterRebate(x, t, limit, most) = AfterLimit(x, t, limit)
BY DEF Oracle!AfterRebate, Oracle!Less, Oracle!Least, AfterLimit, AtMost

-----------------------------------------------------------------------------
(* What is due on a row of the surcharge: its percentage, but of tax and   *)
(* surcharge no more than those on the limit and the income above it.      *)
OnLimit(t, excess) == NotBelow(t, Oracle!Percent(excess, 30))
Due(t, excess, p, before) ==
  AtMost(t + Oracle!Percent(t, p), OnLimit(t, excess) + Oracle!Percent(OnLimit(t, excess), before) + excess)

(* The shape of the two surcharges' last step.                             *)
LEMMA Relieved ==
  ASSUME NEW t \in Nat, NEW s \in Nat, NEW a \in Nat, t <= a
  PROVE  /\ t + s - NotBelow(t + s, a) = AtMost(t + s, a)
         /\ t + Oracle!Less(s, Oracle!Less(t + s, a)) = AtMost(t + s, a)
BY DEF NotBelow, Oracle!Less, AtMost

(* What the last step needs of the tax on the limit.                       *)
LEMMA DueFacts ==
  ASSUME NEW t \in Nat, NEW e \in Nat
  PROVE  /\ OnLimit(t, e) \in Nat /\ t <= OnLimit(t, e) + e
         /\ Oracle!Percent(e, 30) \in Nat /\ Oracle!Percent(e, 30) <= e
         /\ Oracle!Percent(OnLimit(t, e), 0) = 0
<1>1. Oracle!Percent(e, 30) \in Nat /\ Oracle!Percent(e, 30) <= e BY DEF Oracle!Percent
<1>2. OnLimit(t, e) \in Nat /\ t <= OnLimit(t, e) + e BY <1>1 DEF OnLimit, NotBelow
<1>3. \A a \in Nat : Oracle!Percent(a, 0) = 0 BY DEF Oracle!Percent
<1> QED BY <1>1, <1>2, <1>3

(* Every percentage of the surcharge is a number of paise.                 *)
LEMMA PercentNat ==
  ASSUME NEW a \in Nat, NEW p \in {0, 10, 15, 25}
  PROVE  Oracle!Percent(a, p) \in Nat
<1>1. CASE p = 0 BY <1>1, RateNone
<1>2. CASE p = 10 BY <1>2, PercentBounds
<1>3. CASE p = 15 BY <1>3, PercentBounds
<1>4. CASE p = 25 BY <1>4, PercentBounds
<1> QED BY <1>1, <1>2, <1>3, <1>4

(* The engine's surcharge and relief by a row are what is due on it,       *)
LEMMA EngineDue ==
  ASSUME NEW x \in Nat, NEW t \in Nat, NEW s, s.from \in Nat, s.from <= x,
         NEW p \in {10, 15, 25}, NEW before \in {0, 10, 15},
         \A a \in Nat : RateOf(a, s.rate) = Oracle!Percent(a, p),
         \A a \in Nat : RateOf(a, RateBefore(s.from)) = Oracle!Percent(a, before)
  PROVE  t + RateOf(t, s.rate) - SurchargeRelief(x, t, RateOf(t, s.rate), s) = Due(t, x - s.from, p, before)
<1> DEFINE e == x - s.from
           allowed == OnLimit(t, e) + Oracle!Percent(OnLimit(t, e), before) + e
<1>1. e \in Nat OBVIOUS
<1> HIDE DEF e
<1>2. OnLimit(t, e) \in Nat /\ t <= OnLimit(t, e) + e BY <1>1, DueFacts
<1>3. RateOf(e, 3000) = Oracle!Percent(e, 30) BY <1>1, RateIsPercent
<1>4. Oracle!Percent(t, p) \in Nat /\ Oracle!Percent(OnLimit(t, e), before) \in Nat
  BY <1>2, PercentNat
<1>5. allowed \in Nat /\ t <= allowed BY <1>1, <1>2, <1>4
<1>6. SurchargeRelief(x, t, RateOf(t, s.rate), s) = NotBelow(t + Oracle!Percent(t, p), allowed)
  BY <1>2, <1>3 DEF SurchargeRelief, OnLimit, e
<1>7. t + Oracle!Percent(t, p) - NotBelow(t + Oracle!Percent(t, p), allowed)
        = AtMost(t + Oracle!Percent(t, p), allowed)
  <2> HIDE DEF allowed
  <2> QED BY <1>4, <1>5, Relieved
<1>8. RateOf(t, s.rate) = Oracle!Percent(t, p) OBVIOUS
<1> QED BY <1>6, <1>7, <1>8 DEF Due, e

-----------------------------------------------------------------------------
(* Where an income just reaches a limit, the row before it finds the same. *)
LEMMA DueOnLimit ==
  ASSUME NEW t \in Nat
  PROVE  /\ Due(t, 0, 10, 0) = t
         /\ Due(t, 0, 15, 10) = t + Oracle!Percent(t, 10)
         /\ Due(t, 0, 25, 15) = t + Oracle!Percent(t, 15)
         /\ 10 * t <= 3000000000 => Due(t, 500000000, 10, 0) = t + Oracle!Percent(t, 10)
         /\ 10 * t <= 6000000000 => Due(t, 1000000000, 15, 10) = t + Oracle!Percent(t, 15)
<1> DEFINE p10 == Oracle!Percent(t, 10)
           p15 == Oracle!Percent(t, 15)
           p25 == Oracle!Percent(t, 25)
<1>1. /\ p10 \in Nat /\ 10 * t - 50 <= 100 * p10 /\ 100 * p10 <= 10 * t + 50
      /\ p15 \in Nat /\ 15 * t - 50 <= 100 * p15 /\ 100 * p15 <= 15 * t + 50
      /\ p25 \in Nat /\ 25 * t - 50 <= 100 * p25 /\ 100 * p25 <= 25 * t + 50
  BY PercentBounds
<1>2. p10 <= p15 /\ p15 <= p25
  <2> HIDE DEF p10, p15, p25
  <2>1. ASSUME t < 20 PROVE p10 <= p15 /\ p15 <= p25 BY <1>1, <2>1
  <2>2. ASSUME t >= 20 PROVE p10 <= p15 /\ p15 <= p25 BY <1>1, <2>2
  <2> QED BY <2>1, <2>2
<1>3. Oracle!Percent(t, 0) = 0 BY RateNone
<1>4. Oracle!Percent(0, 30) = 0 BY DEF Oracle!Percent
<1>5. OnLimit(t, 0) = t BY <1>4 DEF OnLimit, NotBelow
<1>6. Due(t, 0, 10, 0) = t BY <1>1, <1>3, <1>5 DEF Due, AtMost
<1>7. Due(t, 0, 15, 10) = t + p10 BY <1>1, <1>2, <1>5 DEF Due, AtMost
<1>8. Due(t, 0, 25, 15) = t + p15 BY <1>1, <1>2, <1>5 DEF Due, AtMost
<1>9. ASSUME 10 * t <= 3000000000
      PROVE  Due(t, 500000000, 10, 0) = t + p10
  <2>1. OnLimit(t, 500000000) \in Nat /\ t <= OnLimit(t, 500000000) + 150000000
    <3>1. Oracle!Percent(500000000, 30) = 150000000 BY SMT DEF Oracle!Percent
    <3> QED BY SMT, <3>1 DEF OnLimit, NotBelow
  <2>2. Oracle!Percent(OnLimit(t, 500000000), 0) = 0 BY <2>1, RateNone
  <2> HIDE DEF p10
  <2>3. t + p10 <= OnLimit(t, 500000000) + 500000000 BY SMT, <1>1, <1>9, <2>1
  <2> QED BY SMT, <1>1, <2>1, <2>2, <2>3 DEF Due, AtMost, p10
<1>10. ASSUME 10 * t <= 6000000000
       PROVE  Due(t, 1000000000, 15, 10) = t + p15
  <2> DEFINE o == OnLimit(t, 1000000000)
             q == Oracle!Percent(o, 10)
  <2>1. o \in Nat /\ t <= o + 300000000
    <3>1. Oracle!Percent(1000000000, 30) = 300000000 BY SMT DEF Oracle!Percent
    <3> QED BY SMT, <3>1 DEF OnLimit, NotBelow
  <2>2. q \in Nat
    <3> HIDE DEF o
    <3> QED BY <2>1, PercentBounds
  <2> HIDE DEF p15, o, q
  <2>3. t + p15 <= o + q + 1000000000 BY SMT, <1>1, <1>10, <2>1, <2>2
  <2> QED BY SMT, <1>1, <2>1, <2>2, <2>3 DEF Due, AtMost, p15, o, q
<1> QED BY SMT, <1>6, <1>7, <1>8, <1>9, <1>10

(* What is due, by the row of the surcharge an income is in.               *)
DueTax(x, t) ==
  IF x <= 500000000 THEN t
  ELSE IF x <= 1000000000 THEN Due(t, x - 500000000, 10, 0)
  ELSE IF x <= 2000000000 THEN Due(t, x - 1000000000, 15, 10)
  ELSE Due(t, x - 2000000000, 25, 15)

(* No tax, no surcharge.                                                   *)
LEMMA NothingDue ==
  ASSUME NEW e \in Nat, NEW p \in {10, 15, 25}, NEW before \in {0, 10, 15}
  PROVE  Due(0, e, p, before) = 0
<1>1. Oracle!Percent(0, p) = 0 BY DEF Oracle!Percent
<1>2. OnLimit(0, e) \in Nat BY DueFacts
<1>3. Oracle!Percent(OnLimit(0, e), before) \in Nat BY <1>2, PercentNat
<1> QED BY <1>1, <1>2, <1>3 DEF Due, AtMost

(* The oracle's surcharge on one of its tiers,                             *)
LEMMA OracleTier ==
  ASSUME NEW t \in Nat, NEW e \in Nat, NEW p \in {10, 15, 25}, NEW before \in {0, 10, 15}
  PROVE  t + Oracle!Less(Oracle!Percent(t, p),
                         Oracle!Less(t + Oracle!Percent(t, p),
                                     OnLimit(t, e) + Oracle!Percent(OnLimit(t, e), before) + e))
           = Due(t, e, p, before)
<1> DEFINE allowed == OnLimit(t, e) + Oracle!Percent(OnLimit(t, e), before) + e
<1>1. OnLimit(t, e) \in Nat /\ t <= OnLimit(t, e) + e BY DueFacts
<1>2. Oracle!Percent(t, p) \in Nat /\ Oracle!Percent(OnLimit(t, e), before) \in Nat BY <1>1, PercentNat
<1>3. allowed \in Nat /\ t <= allowed BY <1>1, <1>2
<1> HIDE DEF allowed
<1>4. t + Oracle!Less(Oracle!Percent(t, p), Oracle!Less(t + Oracle!Percent(t, p), allowed))
        = AtMost(t + Oracle!Percent(t, p), allowed)
  BY <1>2, <1>3, Relieved
<1> QED BY <1>4 DEF Due, allowed

(* and on the tier an income is in.                                        *)
LEMMA OracleDue ==
  ASSUME NEW x \in Nat, NEW t \in Nat
  PROVE  t + Oracle!_compute_surcharge(x, t) = DueTax(x, t)
<1>0. OnLimit(t, x - 500000000) = Oracle!Less(t, Oracle!Percent(x - 500000000, 30))
      /\ OnLimit(t, x - 1000000000) = Oracle!Less(t, Oracle!Percent(x - 1000000000, 30))
      /\ OnLimit(t, x - 2000000000) = Oracle!Less(t, Oracle!Percent(x - 2000000000, 30))
  BY SMT DEF OnLimit, NotBelow, Oracle!Less
<1>1. CASE x <= 500000000
  <2>1. Oracle!_compute_surcharge(x, t) = 0 BY SMT, <1>1 DEF Oracle!_compute_surcharge, Oracle!Rs
  <2> QED BY SMT, <1>1, <2>1 DEF DueTax
<1>2. CASE t = 0 /\ x > 500000000
  <2>1. Oracle!_compute_surcharge(x, t) = 0 BY SMT, <1>2 DEF Oracle!_compute_surcharge, Oracle!Rs
  <2>2. x <= 1000000000 => Due(0, x - 500000000, 10, 0) = 0 BY SMT, <1>2, NothingDue
  <2>3. x > 1000000000 => Due(0, x - 1000000000, 15, 10) = 0 BY SMT, <1>2, NothingDue
  <2>4. x > 2000000000 => Due(0, x - 2000000000, 25, 15) = 0 BY SMT, <1>2, NothingDue
  <2> QED BY SMT, <1>2, <2>1, <2>2, <2>3, <2>4 DEF DueTax
<1>3. CASE t # 0 /\ x > 500000000 /\ x <= 1000000000
  <2> DEFINE e == x - 500000000
  <2>1. e \in Nat /\ DueTax(x, t) = Due(t, e, 10, 0) BY SMT, <1>3 DEF DueTax
  <2>2. Oracle!_compute_surcharge(x, t)
          = Oracle!Less(Oracle!Percent(t, 10),
                        Oracle!Less(t + Oracle!Percent(t, 10), OnLimit(t, e) + Oracle!Percent(OnLimit(t, e), 0) + e))
    BY SMT, <1>0, <1>3 DEF Oracle!_compute_surcharge, Oracle!Rs
  <2> HIDE DEF e
  <2> QED BY <2>1, <2>2, OracleTier
<1>4. CASE t # 0 /\ x > 1000000000 /\ x <= 2000000000
  <2> DEFINE e == x - 1000000000
  <2>1. e \in Nat /\ DueTax(x, t) = Due(t, e, 15, 10) BY SMT, <1>4 DEF DueTax
  <2>2. Oracle!_compute_surcharge(x, t)
          = Oracle!Less(Oracle!Percent(t, 15),
                        Oracle!Less(t + Oracle!Percent(t, 15), OnLimit(t, e) + Oracle!Percent(OnLimit(t, e), 10) + e))
    BY SMT, <1>0, <1>4 DEF Oracle!_compute_surcharge, Oracle!Rs
  <2> HIDE DEF e
  <2> QED BY <2>1, <2>2, OracleTier
<1>5. CASE t # 0 /\ x > 2000000000
  <2> DEFINE e == x - 2000000000
  <2>1. e \in Nat /\ DueTax(x, t) = Due(t, e, 25, 15) BY SMT, <1>5 DEF DueTax
  <2>2. Oracle!_compute_surcharge(x, t)
          = Oracle!Less(Oracle!Percent(t, 25),
                        Oracle!Less(t + Oracle!Percent(t, 25), OnLimit(t, e) + Oracle!Percent(OnLimit(t, e), 15) + e))
    BY SMT, <1>0, <1>5 DEF Oracle!_compute_surcharge, Oracle!Rs
  <2> HIDE DEF e
  <2> QED BY <2>1, <2>2, OracleTier
<1> QED BY SMT, <1>1, <1>2, <1>3, <1>4, <1>5

(* Whichever row the query meets, the engine finds the tax that is due.    *)
LEMMA EngineSurcharge ==
  ASSUME NEW x \in Nat, x <= Unlimited, NEW rules, rules.surcharges = SURCHARGES,
         NEW t \in Nat, t = TaxAfterRebate(x, rules), 10 * t <= 3 * x
  PROVE  TaxAndSurcharge(x, rules) = {DueTax(x, t)}
<1> DEFINE s1 == Slab(Lakh(50), Lakh(100), 1000)
           s2 == Slab(Lakh(100), Lakh(200), 1500)
           s3 == Slab(Lakh(200), Unlimited, 2500)
           paid(s) == t + RateOf(t, s.rate) - SurchargeRelief(x, t, RateOf(t, s.rate), s)
           rows == SurchargeRows(x, t, rules)
<1>1. /\ s1.from = 500000000 /\ s1.to = 1000000000 /\ s1.rate = 1000
      /\ s2.from = 1000000000 /\ s2.to = 2000000000 /\ s2.rate = 1500
      /\ s3.from = 2000000000 /\ s3.to = 2147483647 /\ s3.rate = 2500
  BY SMT DEF Slab, Lakh, Unlimited
<1>2. SURCHARGES = {s1, s2, s3} BY DEF SURCHARGES
<1>3. x <= 2147483647 BY SMT DEF Unlimited
<1>4. TaxAndSurcharge(x, rules) = IF rows = {} THEN {t} ELSE {paid(s) : s \in rows}
  BY DEF TaxAndSurcharge
<1> HIDE DEF s1, s2, s3
<1>5. \A s : s \in rows <=> s \in {s1, s2, s3} /\ t > 0 /\ s.from <= x /\ x <= s.to
  BY <1>2 DEF SurchargeRows
<1>6. RateBefore(s1.from) = 0 /\ RateBefore(s2.from) = 1000 /\ RateBefore(s3.from) = 1500
  BY SMT, <1>1 DEF RateBefore, Lakh
<1>7. \A a \in Nat : /\ RateOf(a, 0) = Oracle!Percent(a, 0)
                     /\ RateOf(a, 1000) = Oracle!Percent(a, 10)
                     /\ RateOf(a, 1500) = Oracle!Percent(a, 15)
                     /\ RateOf(a, 2500) = Oracle!Percent(a, 25)
  BY RateIsPercent, RateNone
<1>8. ASSUME s1.from <= x PROVE paid(s1) = Due(t, x - 500000000, 10, 0)
  <2>1. s1.from \in Nat BY SMT, <1>1
  <2>2. \A a \in Nat : RateOf(a, s1.rate) = Oracle!Percent(a, 10) BY <1>7, SMT, <1>1
  <2>3. \A a \in Nat : RateOf(a, RateBefore(s1.from)) = Oracle!Percent(a, 0) BY <1>7, <1>6, SMT
  <2>4. paid(s1) = Due(t, x - s1.from, 10, 0) BY SMT, <1>8, <2>1, <2>2, <2>3, EngineDue
  <2> QED BY SMT, <1>1, <2>4
<1>9. ASSUME s2.from <= x PROVE paid(s2) = Due(t, x - 1000000000, 15, 10)
  <2>1. s2.from \in Nat BY SMT, <1>1
  <2>2. \A a \in Nat : RateOf(a, s2.rate) = Oracle!Percent(a, 15) BY <1>7, SMT, <1>1
  <2>3. \A a \in Nat : RateOf(a, RateBefore(s2.from)) = Oracle!Percent(a, 10) BY <1>7, <1>6, SMT
  <2>4. paid(s2) = Due(t, x - s2.from, 15, 10) BY SMT, <1>9, <2>1, <2>2, <2>3, EngineDue
  <2> QED BY SMT, <1>1, <2>4
<1>10. ASSUME s3.from <= x PROVE paid(s3) = Due(t, x - 2000000000, 25, 15)
  <2>1. s3.from \in Nat BY SMT, <1>1
  <2>2. \A a \in Nat : RateOf(a, s3.rate) = Oracle!Percent(a, 25) BY <1>7, SMT, <1>1
  <2>3. \A a \in Nat : RateOf(a, RateBefore(s3.from)) = Oracle!Percent(a, 15) BY <1>7, <1>6, SMT
  <2>4. paid(s3) = Due(t, x - s3.from, 25, 15) BY SMT, <1>10, <2>1, <2>2, <2>3, EngineDue
  <2> QED BY SMT, <1>1, <2>4
<1>11. ASSUME NEW s \in rows PROVE paid(s) = DueTax(x, t)
  <2> HIDE DEF paid, rows
  <2>1. s \in {s1, s2, s3} /\ t > 0 /\ s.from <= x /\ x <= s.to BY <1>5
  <2>2. CASE s = s1
    <3>1. paid(s) = Due(t, x - 500000000, 10, 0) BY <1>8, <2>1, <2>2
    <3>2. x >= 500000000 /\ x <= 1000000000 BY SMT, <1>1, <2>1, <2>2
    <3>3. CASE x = 500000000
      <4>1. Due(t, 0, 10, 0) = t BY DueOnLimit
      <4> QED BY SMT, <3>1, <3>3, <4>1 DEF DueTax
    <3>4. CASE x > 500000000 BY SMT, <3>1, <3>2, <3>4 DEF DueTax
    <3> QED BY SMT, <3>2, <3>3, <3>4
  <2>3. CASE s = s2
    <3>1. paid(s) = Due(t, x - 1000000000, 15, 10) BY <1>9, <2>1, <2>3
    <3>2. x >= 1000000000 /\ x <= 2000000000 BY SMT, <1>1, <2>1, <2>3
    <3>3. CASE x = 1000000000
      <4>1. 10 * t <= 3000000000 BY SMT, <3>3
      <4>2. Due(t, 0, 15, 10) = Due(t, 500000000, 10, 0) BY SMT, <4>1, DueOnLimit
      <4> QED BY SMT, <3>1, <3>3, <4>2 DEF DueTax
    <3>4. CASE x > 1000000000 BY SMT, <3>1, <3>2, <3>4 DEF DueTax
    <3> QED BY SMT, <3>2, <3>3, <3>4
  <2>4. CASE s = s3
    <3>1. paid(s) = Due(t, x - 2000000000, 25, 15) BY <1>10, <2>1, <2>4
    <3>2. x >= 2000000000 BY SMT, <1>1, <2>1, <2>4
    <3>3. CASE x = 2000000000
      <4>1. 10 * t <= 6000000000 BY SMT, <3>3
      <4>2. Due(t, 0, 25, 15) = Due(t, 1000000000, 15, 10) BY SMT, <4>1, DueOnLimit
      <4> QED BY SMT, <3>1, <3>3, <4>2 DEF DueTax
    <3>4. CASE x > 2000000000 BY SMT, <3>1, <3>2, <3>4 DEF DueTax
    <3> QED BY SMT, <3>2, <3>3, <3>4
  <2> QED BY <2>1, <2>2, <2>3, <2>4
<1> HIDE DEF paid, rows
<1>12. CASE rows # {}
  <2>1. {paid(s) : s \in rows} = {DueTax(x, t)} BY <1>11, <1>12
  <2> QED BY <1>4, <1>12, <2>1
<1>13. CASE rows = {}
  <2>1. x < 500000000 \/ t = 0
    <3> SUFFICES ASSUME x >= 500000000, t # 0 PROVE FALSE BY SMT
    <3>1. s1 \in rows \/ s2 \in rows \/ s3 \in rows BY SMT, <1>1, <1>3, <1>5
    <3> QED BY <1>13, <3>1
  <2>2. DueTax(x, t) = t
    <3>1. CASE x <= 500000000 BY SMT, <3>1 DEF DueTax
    <3>2. CASE x > 500000000 /\ t = 0
      <4>1. t + Oracle!_compute_surcharge(x, t) = DueTax(x, t) BY OracleDue
      <4>2. Oracle!_compute_surcharge(x, t) = 0 BY SMT, <3>2 DEF Oracle!_compute_surcharge
      <4> QED BY SMT, <3>2, <4>1, <4>2
    <3> QED BY SMT, <2>1, <3>1, <3>2
  <2> QED BY <1>4, <1>13, <2>2
<1> QED BY <1>12, <1>13

-----------------------------------------------------------------------------
(* Rounding to tens of rupees, the engine's way and the oracle's.          *)
LEMMA NearestTenIs ==
  ASSUME NEW a \in Nat
  PROVE  /\ NearestTen(a) \in Nat
         /\ NearestTen(a) = IF a % 1000 >= 500 THEN a + (1000 - (a % 1000)) ELSE a - (a % 1000)
<1>1. PICK q \in Nat : q = a \div 1000 OBVIOUS
<1>2. PICK r \in 0..999 : r = a % 1000 OBVIOUS
<1>3. a = 1000 * q + r BY <1>1, <1>2
<1>4. CASE r < 500
  <2>1. (a + 500) \div 1000 = q BY <1>3, <1>4
  <2> QED BY <1>2, <1>3, <1>4, <2>1 DEF NearestTen, HalfUp
<1>5. CASE r >= 500
  <2>1. (a + 500) \div 1000 = q + 1 BY <1>3, <1>5
  <2> QED BY <1>2, <1>3, <1>5, <2>1 DEF NearestTen, HalfUp
<1> QED BY <1>2, <1>4, <1>5

(* Of the larger, the larger.                                              *)
LEMMA NearestTenMonotone ==
  ASSUME NEW a \in Nat, NEW b \in Nat, a <= b
  PROVE  NearestTen(a) <= NearestTen(b)
<1>1. PICK k \in Nat : k = (a + 500) \div 1000 OBVIOUS
<1>2. PICK m \in Nat : m = (b + 500) \div 1000 OBVIOUS
<1>3. k <= m BY <1>1, <1>2
<1> QED BY <1>1, <1>2, <1>3 DEF NearestTen, HalfUp

DueTaxOf(x, rules) == DueTax(x, TaxAfterRebate(x, rules))

(* What is due is a number of paise.                                       *)
LEMMA DueTaxNat ==
  ASSUME NEW x \in Nat, NEW t \in Nat
  PROVE  DueTax(x, t) \in Nat
<1>1. ASSUME NEW e \in Nat, NEW p \in {10, 15, 25}, NEW before \in {0, 10, 15}
      PROVE  Due(t, e, p, before) \in Nat
  <2>1. OnLimit(t, e) \in Nat BY DueFacts
  <2>2. Oracle!Percent(t, p) \in Nat /\ Oracle!Percent(OnLimit(t, e), before) \in Nat BY <2>1, PercentNat
  <2> QED BY <2>1, <2>2 DEF Due, AtMost
<1>2. CASE x <= 500000000 BY SMT, <1>2 DEF DueTax
<1>3. CASE x > 500000000 /\ x <= 1000000000
  <2>1. x - 500000000 \in Nat BY SMT, <1>3
  <2>2. Due(t, x - 500000000, 10, 0) \in Nat BY SMT, <1>1, <2>1
  <2> QED BY SMT, <1>3, <2>2 DEF DueTax
<1>4. CASE x > 1000000000 /\ x <= 2000000000
  <2>1. x - 1000000000 \in Nat BY SMT, <1>4
  <2>2. Due(t, x - 1000000000, 15, 10) \in Nat BY SMT, <1>1, <2>1
  <2> QED BY SMT, <1>4, <2>2 DEF DueTax
<1>5. CASE x > 2000000000
  <2>1. x - 2000000000 \in Nat BY SMT, <1>5
  <2>2. Due(t, x - 2000000000, 25, 15) \in Nat BY SMT, <1>1, <2>1
  <2> QED BY SMT, <1>5, <2>2 DEF DueTax
<1> QED BY SMT, <1>2, <1>3, <1>4, <1>5

(* The engine's tax, and the oracle's, for an income whose tax before the  *)
(* surcharge they agree on.                                                *)
LEMMA EngineTotal ==
  ASSUME NEW amount, NEW given, NEW rules, Taxable(amount, given, rules) \in Nat,
         Taxable(amount, given, rules) <= Unlimited, rules.surcharges = SURCHARGES, rules.cess = 400,
         TaxAfterRebate(Taxable(amount, given, rules), rules) \in Nat,
         10 * TaxAfterRebate(Taxable(amount, given, rules), rules) <= 3 * Taxable(amount, given, rules)
  PROVE  /\ DueTaxOf(Taxable(amount, given, rules), rules) \in Nat
         /\ calculate_tax(amount, given, rules)
              = {[beforeCess |-> DueTaxOf(Taxable(amount, given, rules), rules),
                  total |-> NearestTen(DueTaxOf(Taxable(amount, given, rules), rules)
                              + Oracle!Percent(DueTaxOf(Taxable(amount, given, rules), rules), 4))]}
<1> DEFINE x == Taxable(amount, given, rules)
           d == DueTaxOf(x, rules)
           t == TaxAfterRebate(x, rules)
<1>1. x \in Nat /\ x <= Unlimited /\ t \in Nat /\ 10 * t <= 3 * x OBVIOUS
<1>2. TaxAndSurcharge(x, rules) = {d}
  <2> HIDE DEF x
  <2>1. TaxAndSurcharge(x, rules) = {DueTax(x, t)} BY <1>1, EngineSurcharge
  <2> QED BY <2>1 DEF DueTaxOf
<1>3. d \in Nat
  <2> HIDE DEF x, t
  <2>1. DueTax(x, t) \in Nat BY <1>1, DueTaxNat
  <2> QED BY <2>1 DEF DueTaxOf, t
<1>4. calculate_tax(amount, given, rules)
        = {[beforeCess |-> u, total |-> TotalTax(u, rules)] : u \in TaxAndSurcharge(x, rules)}
  BY DEF calculate_tax
<1> HIDE DEF d
<1>5. TotalTax(d, rules) = NearestTen(d + Oracle!Percent(d, 4)) BY <1>3, RateIsPercent DEF TotalTax
<1> HIDE DEF x
<1>6. {[beforeCess |-> u, total |-> TotalTax(u, rules)] : u \in {d}}
        = {[beforeCess |-> d, total |-> NearestTen(d + Oracle!Percent(d, 4))]}
  BY <1>5
<1> QED BY <1>2, <1>3, <1>4, <1>6 DEF d, x

(* The oracle's total, where it agrees on the tax before the surcharge.    *)
LEMMA OracleTotal ==
  ASSUME NEW x \in Nat, NEW brackets, NEW limit, NEW most, NEW rules,
         Oracle!AfterRebate(x, Oracle!SlabTax(x, brackets), limit, most) = TaxAfterRebate(x, rules),
         TaxAfterRebate(x, rules) \in Nat
  PROVE  Oracle!Total(x, brackets, limit, most)
           = NearestTen(DueTaxOf(x, rules) + Oracle!Percent(DueTaxOf(x, rules), 4))
<1> DEFINE t == TaxAfterRebate(x, rules)
           d == DueTaxOf(x, rules)
           u == d + Oracle!Percent(d, 4)
<1>1. t + Oracle!_compute_surcharge(x, t) = d
  <2> HIDE DEF t
  <2>1. t \in Nat BY DEF t
  <2> QED BY <2>1, OracleDue DEF DueTaxOf, t
<1>2. d \in Nat
  <2> HIDE DEF t
  <2>1. t \in Nat BY DEF t
  <2> QED BY <2>1, DueTaxNat DEF DueTaxOf, t
<1>3. Oracle!Total(x, brackets, limit, most) = IF u % 1000 >= 500 THEN u + (1000 - (u % 1000)) ELSE u - (u % 1000)
  BY <1>1 DEF Oracle!Total
<1>4. u \in Nat
  <2> HIDE DEF d
  <2>1. Oracle!Percent(d, 4) \in Nat BY <1>2, PercentBounds, Zenon
  <2> QED BY <1>2, <2>1
<1> HIDE DEF u
<1>5. Oracle!Total(x, brackets, limit, most) = NearestTen(u) BY <1>3, <1>4, NearestTenIs
<1> QED BY <1>5 DEF u

(* The rules of the new regime, and the tax by them before the surcharge.  *)
LEMMA NewRules ==
  /\ NEW_RULES.slabs = NEW_SLABS /\ NEW_RULES.surcharges = SURCHARGES /\ NEW_RULES.cess = 400
  /\ NEW_RULES.rebateLimit = 120000000 /\ NEW_RULES.maxRebate = 6000000
  /\ NEW_RULES.standard = 7500000 /\ NEW_RULES.sec80c = 0 /\ NEW_RULES.sec80d = 0
BY SMT DEF NEW_RULES, TaxRules, Lakh, Rupees

(* The tax is at most 30 percent, and the rebate covers it up to the       *)
(* limit.                                                                  *)
LEMMA NewTax ==
  ASSUME NEW x, Whole(x), x <= Unlimited
  PROVE  /\ x \in Nat
         /\ SlabTax(x, NEW_SLABS) \in Nat /\ 10 * SlabTax(x, NEW_SLABS) <= 3 * x
         /\ x <= 120000000 => SlabTax(x, NEW_SLABS) <= 6000000
         /\ TaxAfterRebate(x, NEW_RULES) = AfterLimit(x, SlabTax(x, NEW_SLABS), 120000000)
         /\ TaxAfterRebate(x, NEW_RULES) \in Nat /\ 10 * TaxAfterRebate(x, NEW_RULES) <= 3 * x
<1> DEFINE slab == SlabTax(x, NEW_SLABS)
<1>0. x \in Nat BY DEF Whole
<1>1. slab \in Nat /\ 10 * slab <= 3 * x /\ (x <= 120000000 => slab <= 6000000)
  BY SMT, <1>0, NewSlabTax
<1> HIDE DEF slab
<1>2. SlabTax(x, NEW_RULES.slabs) = slab BY NewRules DEF slab
<1>3. NEW_RULES.rebateLimit \in Nat /\ NEW_RULES.maxRebate \in Nat
        /\ (x <= NEW_RULES.rebateLimit => slab <= NEW_RULES.maxRebate)
  BY SMT, <1>0, <1>1, NewRules
<1>4. TaxAfterRebate(x, NEW_RULES) = AfterLimit(x, slab, NEW_RULES.rebateLimit)
  BY SMT, <1>0, <1>1, <1>2, <1>3, EngineRebate
<1>5. TaxAfterRebate(x, NEW_RULES) = AfterLimit(x, slab, 120000000) BY SMT, <1>4, NewRules
<1>6. TaxAfterRebate(x, NEW_RULES) \in Nat /\ 10 * TaxAfterRebate(x, NEW_RULES) <= 3 * x
  BY SMT, <1>0, <1>1, <1>5 DEF AfterLimit, AtMost
<1> QED BY SMT, <1>0, <1>1, <1>5, <1>6 DEF slab

(* The oracle finds the same.                                              *)
LEMMA NewOracleTax ==
  ASSUME NEW x, Whole(x), x <= Unlimited, NEW most \in Nat, x <= 120000000 => SlabTax(x, NEW_SLABS) <= most
  PROVE  Oracle!AfterRebate(x, Oracle!SlabTax(x, Oracle!BRACKETS_NEW), Oracle!Rs(1200000), most)
           = TaxAfterRebate(x, NEW_RULES)
<1> DEFINE slab == SlabTax(x, NEW_SLABS)
           limit == Oracle!Rs(1200000)
<1>1. x \in Nat /\ slab \in Nat BY NewTax
<1>2. Oracle!SlabTax(x, Oracle!BRACKETS_NEW) = slab BY NewSlabsAgree
<1>3. limit = 120000000 BY SMT DEF Oracle!Rs
<1>4. TaxAfterRebate(x, NEW_RULES) = AfterLimit(x, slab, limit) BY SMT, <1>3, NewTax
<1>5. x <= limit => slab <= most BY SMT, <1>3
<1>6. limit \in Nat BY SMT, <1>3
<1> HIDE DEF slab, limit
<1>7. Oracle!AfterRebate(x, slab, limit, most) = AfterLimit(x, slab, limit) BY <1>1, <1>5, <1>6, OracleRebate
<1> QED BY <1>2, <1>4, <1>7 DEF limit

(* The rules of its year before, and the tax by them before the surcharge. *)
LEMMA New2425Rules ==
  /\ NEW_RULES_2425.slabs = NEW_SLABS_2425 /\ NEW_RULES_2425.surcharges = SURCHARGES /\ NEW_RULES_2425.cess = 400
  /\ NEW_RULES_2425.rebateLimit = 70000000 /\ NEW_RULES_2425.maxRebate = 2500000
  /\ NEW_RULES_2425.standard = 7500000 /\ NEW_RULES_2425.sec80c = 0 /\ NEW_RULES_2425.sec80d = 0
BY SMT DEF NEW_RULES_2425, TaxRules, Lakh, Rupees

(* The tax is at most 30 percent, and the rebate covers it up to the       *)
(* limit.                                                                  *)
LEMMA New2425Tax ==
  ASSUME NEW x, Whole(x), x <= Unlimited
  PROVE  /\ x \in Nat
         /\ SlabTax(x, NEW_SLABS_2425) \in Nat /\ 10 * SlabTax(x, NEW_SLABS_2425) <= 3 * x
         /\ x <= 70000000 => SlabTax(x, NEW_SLABS_2425) <= 2500000
         /\ TaxAfterRebate(x, NEW_RULES_2425) = AfterLimit(x, SlabTax(x, NEW_SLABS_2425), 70000000)
         /\ TaxAfterRebate(x, NEW_RULES_2425) \in Nat /\ 10 * TaxAfterRebate(x, NEW_RULES_2425) <= 3 * x
<1> DEFINE slab == SlabTax(x, NEW_SLABS_2425)
<1>0. x \in Nat BY DEF Whole
<1>1. slab \in Nat /\ 10 * slab <= 3 * x /\ (x <= 70000000 => slab <= 2500000)
  BY SMT, <1>0, New2425SlabTax
<1> HIDE DEF slab
<1>2. SlabTax(x, NEW_RULES_2425.slabs) = slab BY New2425Rules DEF slab
<1>3. NEW_RULES_2425.rebateLimit \in Nat /\ NEW_RULES_2425.maxRebate \in Nat
        /\ (x <= NEW_RULES_2425.rebateLimit => slab <= NEW_RULES_2425.maxRebate)
  BY SMT, <1>0, <1>1, New2425Rules
<1>4. TaxAfterRebate(x, NEW_RULES_2425) = AfterLimit(x, slab, NEW_RULES_2425.rebateLimit)
  BY SMT, <1>0, <1>1, <1>2, <1>3, EngineRebate
<1>5. TaxAfterRebate(x, NEW_RULES_2425) = AfterLimit(x, slab, 70000000) BY SMT, <1>4, New2425Rules
<1>6. TaxAfterRebate(x, NEW_RULES_2425) \in Nat /\ 10 * TaxAfterRebate(x, NEW_RULES_2425) <= 3 * x
  BY SMT, <1>0, <1>1, <1>5 DEF AfterLimit, AtMost
<1> QED BY SMT, <1>0, <1>1, <1>5, <1>6 DEF slab

(* The oracle finds the same.                                              *)
LEMMA New2425OracleTax ==
  ASSUME NEW x, Whole(x), x <= Unlimited, NEW most \in Nat, x <= 70000000 => SlabTax(x, NEW_SLABS_2425) <= most
  PROVE  Oracle!AfterRebate(x, Oracle!SlabTax(x, Oracle!BRACKETS_2425), Oracle!Rs(700000), most)
           = TaxAfterRebate(x, NEW_RULES_2425)
<1> DEFINE slab == SlabTax(x, NEW_SLABS_2425)
           limit == Oracle!Rs(700000)
<1>1. x \in Nat /\ slab \in Nat BY New2425Tax
<1>2. Oracle!SlabTax(x, Oracle!BRACKETS_2425) = slab BY New2425SlabsAgree
<1>3. limit = 70000000 BY SMT DEF Oracle!Rs
<1>4. TaxAfterRebate(x, NEW_RULES_2425) = AfterLimit(x, slab, limit) BY SMT, <1>3, New2425Tax
<1>5. x <= limit => slab <= most BY SMT, <1>3
<1>6. limit \in Nat BY SMT, <1>3
<1> HIDE DEF slab, limit
<1>7. Oracle!AfterRebate(x, slab, limit, most) = AfterLimit(x, slab, limit) BY <1>1, <1>5, <1>6, OracleRebate
<1> QED BY <1>2, <1>4, <1>7 DEF limit

(* The rules of the old regime, and the tax by them before the surcharge.  *)
LEMMA OldRules ==
  /\ OLD_RULES.slabs = OLD_SLABS /\ OLD_RULES.surcharges = SURCHARGES /\ OLD_RULES.cess = 400
  /\ OLD_RULES.rebateLimit = 50000000 /\ OLD_RULES.maxRebate = 1250000
  /\ OLD_RULES.standard = 5000000 /\ OLD_RULES.sec80c = 15000000 /\ OLD_RULES.sec80d = 2500000
BY SMT DEF OLD_RULES, TaxRules, Lakh, Rupees

(* The tax is at most 30 percent, and the rebate covers it up to the       *)
(* limit.                                                                  *)
LEMMA OldTax ==
  ASSUME NEW x, Whole(x), x <= Unlimited
  PROVE  /\ x \in Nat
         /\ SlabTax(x, OLD_SLABS) \in Nat /\ 10 * SlabTax(x, OLD_SLABS) <= 3 * x
         /\ x <= 50000000 => SlabTax(x, OLD_SLABS) <= 1250000
         /\ TaxAfterRebate(x, OLD_RULES) = AfterLimit(x, SlabTax(x, OLD_SLABS), 50000000)
         /\ TaxAfterRebate(x, OLD_RULES) \in Nat /\ 10 * TaxAfterRebate(x, OLD_RULES) <= 3 * x
<1> DEFINE slab == SlabTax(x, OLD_SLABS)
<1>0. x \in Nat BY DEF Whole
<1>1. slab \in Nat /\ 10 * slab <= 3 * x /\ (x <= 50000000 => slab <= 1250000)
  BY SMT, <1>0, OldSlabTax
<1> HIDE DEF slab
<1>2. SlabTax(x, OLD_RULES.slabs) = slab BY OldRules DEF slab
<1>3. OLD_RULES.rebateLimit \in Nat /\ OLD_RULES.maxRebate \in Nat
        /\ (x <= OLD_RULES.rebateLimit => slab <= OLD_RULES.maxRebate)
  BY SMT, <1>0, <1>1, OldRules
<1>4. TaxAfterRebate(x, OLD_RULES) = AfterLimit(x, slab, OLD_RULES.rebateLimit)
  BY SMT, <1>0, <1>1, <1>2, <1>3, EngineRebate
<1>5. TaxAfterRebate(x, OLD_RULES) = AfterLimit(x, slab, 50000000) BY SMT, <1>4, OldRules
<1>6. TaxAfterRebate(x, OLD_RULES) \in Nat /\ 10 * TaxAfterRebate(x, OLD_RULES) <= 3 * x
  BY SMT, <1>0, <1>1, <1>5 DEF AfterLimit, AtMost
<1> QED BY SMT, <1>0, <1>1, <1>5, <1>6 DEF slab

(* The oracle finds the same.                                              *)
LEMMA OldOracleTax ==
  ASSUME NEW x, Whole(x), x <= Unlimited, NEW most \in Nat, x <= 50000000 => SlabTax(x, OLD_SLABS) <= most
  PROVE  Oracle!AfterRebate(x, Oracle!SlabTax(x, Oracle!BRACKETS_OLD), Oracle!Rs(500000), most)
           = TaxAfterRebate(x, OLD_RULES)
<1> DEFINE slab == SlabTax(x, OLD_SLABS)
           limit == Oracle!Rs(500000)
<1>1. x \in Nat /\ slab \in Nat BY OldTax
<1>2. Oracle!SlabTax(x, Oracle!BRACKETS_OLD) = slab BY OldSlabsAgree
<1>3. limit = 50000000 BY SMT DEF Oracle!Rs
<1>4. TaxAfterRebate(x, OLD_RULES) = AfterLimit(x, slab, limit) BY SMT, <1>3, OldTax
<1>5. x <= limit => slab <= most BY SMT, <1>3
<1>6. limit \in Nat BY SMT, <1>3
<1> HIDE DEF slab, limit
<1>7. Oracle!AfterRebate(x, slab, limit, most) = AfterLimit(x, slab, limit) BY <1>1, <1>5, <1>6, OracleRebate
<1> QED BY <1>2, <1>4, <1>7 DEF limit

-----------------------------------------------------------------------------
(* The provident fund of a year differs from the oracle's by the rounding  *)
(* of twelve months.                                                       *)
LEMMA HalfAmount ==
  ASSUME NEW z \in Nat
  PROVE  RateOf(100 * z, 5000) = 50 * z
<1>1. z = 100 * (z \div 100) + (z % 100) /\ z \div 100 \in Nat /\ z % 100 \in 0..99 OBVIOUS
<1>2. (100 * z) \div 10000 = z \div 100 /\ (100 * z) % 10000 = 100 * (z % 100) OBVIOUS
<1>3. PICK q \in Nat : q = z \div 100 BY <1>1
<1>4. PICK s \in 0..99 : s = z % 100 BY <1>1
<1>5. (100 * s * 5000 + 5000) \div 10000 = 50 * s BY SMT, <1>4
<1> QED BY SMT, <1>1, <1>2, <1>3, <1>4, <1>5 DEF RateOf, HalfUp

(* Twelve percent of a month's wage is within half a paisa.                *)
LEMMA TwelvePercent ==
  ASSUME NEW a \in Nat, NEW rate, rate = 1200
  PROVE  /\ RateOf(a, rate) \in Nat
         /\ 12 * a - 50 <= 100 * RateOf(a, rate) /\ 100 * RateOf(a, rate) <= 12 * a + 50
<1>1. PICK q \in Nat : q = a \div 10000 OBVIOUS
<1>2. PICK r \in 0..9999 : r = a % 10000 OBVIOUS
<1>3. a = 10000 * q + r BY <1>1, <1>2
<1>4. PICK h \in Nat : h = (r * 1200 + 5000) \div 10000 BY SMT
<1>5. 10000 * h <= 1200 * r + 5000 /\ 1200 * r + 5000 < 10000 * h + 10000 BY SMT, <1>4
<1>6. RateOf(a, rate) = 1200 * q + h BY SMT, <1>1, <1>2, <1>4 DEF RateOf, HalfUp
<1> QED BY SMT, <1>3, <1>5, <1>6

Wage(amount) == HalfUp(RateOf(amount, 5000), 12)

(* Twelve such months, and each wage rounded: at most seven paise in all.  *)
LEMMA YearsPf ==
  ASSUME NEW amount, Whole(amount)
  PROVE  12 * RateOf(AtMost(Wage(amount), PF_RULES.ceiling),
         PF_RULES.employee) - Oracle!annual_emp_pf(amount) \in -7..7
<1> DEFINE cap == PF_RULES.ceiling
           rate == PF_RULES.employee
<1>0. cap = 1500000 /\ rate = 1200 BY SMT DEF PF_RULES, Rupees
<1> HIDE DEF cap, rate
<1>1. PICK z \in Nat : amount = 100 * z
  <2>1. amount \in Nat /\ amount = 100 * (amount \div 100) /\ amount \div 100 \in Nat BY DEF Whole
  <2> QED BY <2>1
<1>2. RateOf(amount, 5000) = 50 * z BY SMT, <1>1, HalfAmount
<1>3. PICK w \in Nat : w = Wage(amount) /\ 12 * w <= 50 * z + 6 /\ 50 * z < 12 * w + 6
  <2>1. Wage(amount) = (50 * z + 6) \div 12 BY SMT, <1>2 DEF Wage, HalfUp
  <2>2. PICK v \in Nat : v = (50 * z + 6) \div 12 OBVIOUS
  <2>3. 12 * v <= 50 * z + 6 /\ 50 * z + 6 < 12 * v + 12 BY <2>2
  <2> QED BY <2>1, <2>2, <2>3
<1>4. Oracle!Percent(amount, 6) = 6 * z BY <1>1, RupeePercents
<1>5. Oracle!annual_emp_pf(amount) = IF 6 * z <= 2160000 THEN 6 * z ELSE 2160000
  BY SMT, <1>4 DEF Oracle!annual_emp_pf, Oracle!Least, Oracle!Rs
<1>6. CASE w <= 1500000
  <2>1. AtMost(w, cap) = w BY SMT, <1>0, <1>6 DEF AtMost
  <2>2. PICK r \in Nat : r = RateOf(w, rate) /\ 12 * w - 50 <= 100 * r /\ 100 * r <= 12 * w + 50
    BY SMT, <1>0, TwelvePercent
  <2>3. 6 * z <= 2160000 BY SMT, <1>3, <1>6
  <2>4. Oracle!annual_emp_pf(amount) = 6 * z BY SMT, <1>5, <2>3
  <2>5. 12 * r - 6 * z \in -7..7 BY SMT, <1>3, <2>2
  <2> QED BY SMT, <1>3, <2>1, <2>2, <2>4, <2>5 DEF cap, rate
<1>7. CASE w > 1500000
  <2>1. AtMost(w, cap) = cap BY SMT, <1>0, <1>7 DEF AtMost
  <2>2. RateOf(cap, rate) = 180000 BY SMT, <1>0 DEF RateOf, HalfUp
  <2>3. Oracle!annual_emp_pf(amount) = 2160000 BY SMT, <1>3, <1>5, <1>7
  <2>4. RateOf(AtMost(w, cap), rate) = 180000 BY SMT, <2>1, <2>2
  <2>5. 12 * RateOf(AtMost(w, cap), rate) - Oracle!annual_emp_pf(amount) = 0 BY SMT, <2>3, <2>4
  <2> QED BY SMT, <1>3, <2>5 DEF cap, rate
<1> QED BY SMT, <1>3, <1>6, <1>7

(* What a salary of a gross alone comes to.                                *)
LEMMA NetOf ==
  ASSUME NEW amount \in Nat, NEW n \in Net(amount)
  PROVE  /\ n.pf = 12 * RateOf(AtMost(Wage(amount), PF_RULES.ceiling), PF_RULES.employee)
         /\ n.pt = calculate_pt(Monthly(amount), get_pt_rule_set(state)).annual
<1> DEFINE inp == [annual |-> amount, monthly |-> 0, ctc |-> 0, basic |-> 0, hra |-> 0, special |-> 0,
                   otherDeductions |-> 0]
           salary == normalize(inp)
<1>1. inp.annual = amount /\ inp.monthly = 0 /\ inp.ctc = 0 /\ inp.basic = 0 /\ inp.hra = 0 /\ inp.special = 0
  OBVIOUS
<1>2. salary.gross = amount /\ salary.monthly = HalfUp(amount, 12) /\ salary.pfWage = Wage(amount)
  <2> HIDE DEF inp
  <2>1. GrossGiven(inp) = amount BY <1>1 DEF GrossGiven
  <2>2. (IF GrossGiven(inp) > 0 THEN GrossGiven(inp) ELSE inp.basic + inp.hra + inp.special) = amount BY <1>1, <2>1
  <2>3. inp.basic + inp.hra + inp.special = 0 BY <1>1
  <2> QED BY SMT, <1>1, <2>1, <2>2, <2>3 DEF normalize, Wage
<1> HIDE DEF salary, inp
<1>3. n.pf = 12 * calculate_pf(salary.pfWage, FALSE).employee
      /\ n.pt = calculate_pt(salary.monthly, get_pt_rule_set(state)).annual
  <2>1. n \in calculate_salary(inp, year, "NEW", state, FALSE) BY DEF Net, inp
  <2>2. PICK t : n = [gross |-> salary.gross, tax |-> t.total,
        pf |-> 12 * calculate_pf(salary.pfWage, FALSE).employee,
                      pt |-> calculate_pt(salary.monthly, get_pt_rule_set(state)).annual,
                      takeHome |-> salary.gross - t.total - 12 * calculate_pf(salary.pfWage, FALSE).employee
                                     - calculate_pt(salary.monthly,
                                     get_pt_rule_set(state)).annual - inp.otherDeductions]
    BY <2>1, Zenon DEF calculate_salary, salary
  <2> QED BY <2>2
<1>4. calculate_pf(salary.pfWage, FALSE).employee = RateOf(AtMost(salary.pfWage, PF_RULES.ceiling), PF_RULES.employee)
  BY DEF calculate_pf
<1>6. calculate_pf(salary.pfWage, FALSE).employee = RateOf(AtMost(Wage(amount), PF_RULES.ceiling), PF_RULES.employee)
  BY <1>2, <1>4
<1>7. n.pf = 12 * RateOf(AtMost(Wage(amount), PF_RULES.ceiling), PF_RULES.employee) BY <1>3, <1>6
<1>8. n.pt = calculate_pt(Monthly(amount), get_pt_rule_set(state)).annual BY <1>2, <1>3 DEF Monthly
<1> QED BY <1>7, <1>8

-----------------------------------------------------------------------------
(* Professional tax by the only slab a month's gross is in.                *)
LEMMA PtOf ==
  ASSUME NEW m \in Nat, NEW slabs, NEW s \in slabs, s.from \in Nat, s.from <= m, m <= s.to,
         \A r \in slabs : r.from <= m /\ m <= r.to => r = s
  PROVE  calculate_pt(m, slabs).annual = 11 * s.monthly + s.february
<1> DEFINE met == PtSlabOf(m, slabs)
           c == CHOOSE c \in met : \A r \in met : c.from <= r.from
<1>1. met = {s} BY DEF PtSlabOf
<1>2. calculate_pt(m, slabs) = [monthly |-> c.monthly, annual |-> 11 * c.monthly + c.february]
  <2>1. met # {} BY <1>1
  <2> QED BY <2>1, Zenon DEF calculate_pt
<1>3. calculate_pt(m, slabs).annual = 11 * c.monthly + c.february BY <1>2
<1>4. \E e : e \in met /\ \A r \in met : e.from <= r.from
  <2>1. s.from <= s.from OBVIOUS
  <2> QED BY <1>1, <2>1
<1>5. c \in met BY <1>4, Zenon
<1> QED BY <1>1, <1>3, <1>5, Zenon

(* A month's gross is a twelfth of the year's within half a paisa.         *)
LEMMA MonthOf ==
  ASSUME NEW amount, Whole(amount), amount <= Unlimited
  PROVE  /\ Monthly(amount) \in Nat /\ Monthly(amount) <= 2147483647
         /\ 12 * Monthly(amount) <= amount + 6 /\ amount < 12 * Monthly(amount) + 6
         /\ \E z \in Nat : amount = 100 * z
<1>1. amount \in Nat /\ amount <= 2147483647 BY SMT DEF Whole, Unlimited
<1>2. PICK m \in Nat : m = (amount + 6) \div 12 BY <1>1
<1>3. 12 * m <= amount + 6 /\ amount + 6 < 12 * m + 12 BY <1>1, <1>2
<1>4. Monthly(amount) = m BY <1>1, <1>2 DEF Monthly, HalfUp
<1>5. PICK z \in Nat : z = amount \div 100 BY <1>1
<1>6. amount = 100 * z BY <1>1, <1>5 DEF Whole
<1> QED BY SMT, <1>1, <1>3, <1>4, <1>6

(* Karnataka.                                                              *)
LEMMA YearsPtKA ==
  ASSUME NEW amount, Whole(amount), amount <= Unlimited, PtSlabOf(Monthly(amount), PT_KA) # {}
  PROVE  calculate_pt(Monthly(amount), PT_KA).annual = Oracle!calculate_annual_pt("KA", amount)
<1> DEFINE m == Monthly(amount)
           s1 == [from |-> 0, to |-> 1499999, monthly |-> 0, february |-> 0]
           s2 == [from |-> 1500000, to |-> 2147483647, monthly |-> 20000, february |-> 20000]
<1>1. PT_KA = {s1, s2} BY SMT DEF PT_KA, PtSlab, Rupees, Unlimited
<1>2. /\ s1.from = 0 /\ s1.to = 1499999 /\ s1.monthly = 0 /\ s1.february = 0
      /\ s2.from = 1500000 /\ s2.to = 2147483647 /\ s2.monthly = 20000 /\ s2.february = 20000
  BY SMT
<1> HIDE DEF s1, s2
<1>3. PICK z \in Nat : amount = 100 * z BY SMT, MonthOf
<1>4. m \in Nat /\ 12 * m <= amount + 6 /\ amount < 12 * m + 6 BY SMT, MonthOf
<1> HIDE DEF m
<1>5. PICK s \in PT_KA : s.from <= m /\ m <= s.to BY DEF PtSlabOf, m
<1>6. s.from \in Nat /\ \A r \in PT_KA : r.from <= m /\ m <= r.to => r = s BY SMT, <1>1, <1>2, <1>4, <1>5
<1>7. calculate_pt(m, PT_KA).annual = 11 * s.monthly + s.february BY <1>4, <1>5, <1>6, PtOf
<1>8. Oracle!calculate_annual_pt("KA", amount) = 11 * s.monthly + s.february
  BY SMT, <1>1, <1>2, <1>3, <1>4, <1>5 DEF Oracle!calculate_annual_pt, Oracle!Rs
<1> QED BY <1>7, <1>8 DEF m

(* Maharashtra.                                                            *)
LEMMA YearsPtMH ==
  ASSUME NEW amount, Whole(amount), amount <= Unlimited, PtSlabOf(Monthly(amount), PT_MH) # {}
  PROVE  calculate_pt(Monthly(amount), PT_MH).annual = Oracle!calculate_annual_pt("MH", amount)
<1> DEFINE m == Monthly(amount)
           s1 == [from |-> 0, to |-> 750000, monthly |-> 0, february |-> 0]
           s2 == [from |-> 750100, to |-> 1000000, monthly |-> 17500, february |-> 17500]
           s3 == [from |-> 1000100, to |-> 2147483647, monthly |-> 20000, february |-> 30000]
<1>1. PT_MH = {s1, s2, s3} BY SMT DEF PT_MH, PtSlab, Rupees, Unlimited
<1>2. /\ s1.from = 0 /\ s1.to = 750000 /\ s1.monthly = 0 /\ s1.february = 0
      /\ s2.from = 750100 /\ s2.to = 1000000 /\ s2.monthly = 17500 /\ s2.february = 17500
      /\ s3.from = 1000100 /\ s3.to = 2147483647 /\ s3.monthly = 20000 /\ s3.february = 30000
  BY SMT
<1> HIDE DEF s1, s2, s3
<1>3. PICK z \in Nat : amount = 100 * z BY SMT, MonthOf
<1>4. m \in Nat /\ 12 * m <= amount + 6 /\ amount < 12 * m + 6 BY SMT, MonthOf
<1> HIDE DEF m
<1>5. PICK s \in PT_MH : s.from <= m /\ m <= s.to BY DEF PtSlabOf, m
<1>6. s.from \in Nat /\ \A r \in PT_MH : r.from <= m /\ m <= r.to => r = s BY SMT, <1>1, <1>2, <1>4, <1>5
<1>7. calculate_pt(m, PT_MH).annual = 11 * s.monthly + s.february BY <1>4, <1>5, <1>6, PtOf
<1>8. Oracle!calculate_annual_pt("MH", amount) = 11 * s.monthly + s.february
  BY SMT, <1>1, <1>2, <1>3, <1>4, <1>5 DEF Oracle!calculate_annual_pt, Oracle!Rs
<1> QED BY <1>7, <1>8 DEF m

(* Telangana.                                                              *)
LEMMA YearsPtTS ==
  ASSUME NEW amount, Whole(amount), amount <= Unlimited, PtSlabOf(Monthly(amount), PT_TS) # {}
  PROVE  calculate_pt(Monthly(amount), PT_TS).annual = Oracle!calculate_annual_pt("TS", amount)
<1> DEFINE m == Monthly(amount)
           s1 == [from |-> 0, to |-> 1500000, monthly |-> 0, february |-> 0]
           s2 == [from |-> 1500100, to |-> 2000000, monthly |-> 15000, february |-> 15000]
           s3 == [from |-> 2000100, to |-> 2147483647, monthly |-> 20000, february |-> 20000]
<1>1. PT_TS = {s1, s2, s3} BY SMT DEF PT_TS, PtSlab, Rupees, Unlimited
<1>2. /\ s1.from = 0 /\ s1.to = 1500000 /\ s1.monthly = 0 /\ s1.february = 0
      /\ s2.from = 1500100 /\ s2.to = 2000000 /\ s2.monthly = 15000 /\ s2.february = 15000
      /\ s3.from = 2000100 /\ s3.to = 2147483647 /\ s3.monthly = 20000 /\ s3.february = 20000
  BY SMT
<1> HIDE DEF s1, s2, s3
<1>3. PICK z \in Nat : amount = 100 * z BY SMT, MonthOf
<1>4. m \in Nat /\ 12 * m <= amount + 6 /\ amount < 12 * m + 6 BY SMT, MonthOf
<1> HIDE DEF m
<1>5. PICK s \in PT_TS : s.from <= m /\ m <= s.to BY DEF PtSlabOf, m
<1>6. s.from \in Nat /\ \A r \in PT_TS : r.from <= m /\ m <= r.to => r = s BY SMT, <1>1, <1>2, <1>4, <1>5
<1>7. calculate_pt(m, PT_TS).annual = 11 * s.monthly + s.february BY <1>4, <1>5, <1>6, PtOf
<1>8. Oracle!calculate_annual_pt("TS", amount) = 11 * s.monthly + s.february
  BY SMT, <1>1, <1>2, <1>3, <1>4, <1>5 DEF Oracle!calculate_annual_pt, Oracle!Rs
<1> QED BY <1>7, <1>8 DEF m

(* West Bengal.                                                            *)
LEMMA YearsPtWB ==
  ASSUME NEW amount, Whole(amount), amount <= Unlimited, PtSlabOf(Monthly(amount), PT_WB) # {}
  PROVE  calculate_pt(Monthly(amount), PT_WB).annual = Oracle!calculate_annual_pt("WB", amount)
<1> DEFINE m == Monthly(amount)
           s1 == [from |-> 0, to |-> 1000000, monthly |-> 0, february |-> 0]
           s2 == [from |-> 1000100, to |-> 1500000, monthly |-> 11000, february |-> 11000]
           s3 == [from |-> 1500100, to |-> 2500000, monthly |-> 13000, february |-> 13000]
           s4 == [from |-> 2500100, to |-> 4000000, monthly |-> 15000, february |-> 15000]
           s5 == [from |-> 4000100, to |-> 2147483647, monthly |-> 20000, february |-> 20000]
<1>1. PT_WB = {s1, s2, s3, s4, s5} BY SMT DEF PT_WB, PtSlab, Rupees, Unlimited
<1>2. /\ s1.from = 0 /\ s1.to = 1000000 /\ s1.monthly = 0 /\ s1.february = 0
      /\ s2.from = 1000100 /\ s2.to = 1500000 /\ s2.monthly = 11000 /\ s2.february = 11000
      /\ s3.from = 1500100 /\ s3.to = 2500000 /\ s3.monthly = 13000 /\ s3.february = 13000
      /\ s4.from = 2500100 /\ s4.to = 4000000 /\ s4.monthly = 15000 /\ s4.february = 15000
      /\ s5.from = 4000100 /\ s5.to = 2147483647 /\ s5.monthly = 20000 /\ s5.february = 20000
  BY SMT
<1> HIDE DEF s1, s2, s3, s4, s5
<1>3. PICK z \in Nat : amount = 100 * z BY SMT, MonthOf
<1>4. m \in Nat /\ 12 * m <= amount + 6 /\ amount < 12 * m + 6 BY SMT, MonthOf
<1> HIDE DEF m
<1>5. PICK s \in PT_WB : s.from <= m /\ m <= s.to BY DEF PtSlabOf, m
<1>6. s.from \in Nat /\ \A r \in PT_WB : r.from <= m /\ m <= r.to => r = s BY SMT, <1>1, <1>2, <1>4, <1>5
<1>7. calculate_pt(m, PT_WB).annual = 11 * s.monthly + s.february BY <1>4, <1>5, <1>6, PtOf
<1>8. Oracle!calculate_annual_pt("WB", amount) = 11 * s.monthly + s.february
  BY SMT, <1>1, <1>2, <1>3, <1>4, <1>5 DEF Oracle!calculate_annual_pt, Oracle!Rs
<1> QED BY <1>7, <1>8 DEF m

(* Outside the gaps of the seeded slabs, professional tax is the oracle's. *)
LEMMA YearsPt ==
  ASSUME NEW amount, Whole(amount), amount <= Unlimited, state \notin {"GJ", "TN"}, ~InGap(amount)
  PROVE  calculate_pt(Monthly(amount), get_pt_rule_set(state)).annual = Oracle!calculate_annual_pt(state, amount)
<1> DEFINE slabs == get_pt_rule_set(state)
<1>0. PtSlabOf(Monthly(amount), slabs) # {} BY DEF InGap
<1>1. slabs # {} BY <1>0 DEF PtSlabOf
<1>2. CASE state = "KA"
  <2>1. slabs = PT_KA BY <1>2 DEF get_pt_rule_set, SEEDED_STATES
  <2> QED BY <1>0, <1>2, <2>1, YearsPtKA
<1>3. CASE state = "MH"
  <2>1. slabs = PT_MH BY <1>3 DEF get_pt_rule_set, SEEDED_STATES
  <2> QED BY <1>0, <1>3, <2>1, YearsPtMH
<1>4. CASE state = "TS"
  <2>1. slabs = PT_TS BY <1>4 DEF get_pt_rule_set, SEEDED_STATES
  <2> QED BY <1>0, <1>4, <2>1, YearsPtTS
<1>5. CASE state = "WB"
  <2>1. slabs = PT_WB BY <1>5 DEF get_pt_rule_set, SEEDED_STATES
  <2> QED BY <1>0, <1>5, <2>1, YearsPtWB
<1>6. CASE state = "DL"
  <2> DEFINE s == PtSlab(0, Unlimited, 0, 0)
             m == Monthly(amount)
  <2>1. slabs = {s} BY <1>6 DEF get_pt_rule_set, SEEDED_STATES
  <2>2. s.monthly = 0 /\ s.february = 0 /\ s.from = 0 /\ s.to = Unlimited BY DEF PtSlab
  <2>3. m \in Nat BY MonthOf
  <2>4. m <= Unlimited BY SMT, MonthOf DEF Unlimited
  <2> HIDE DEF s, m
  <2>5. s.from \in Nat /\ s.from <= m /\ m <= s.to BY <2>2, <2>3, <2>4
  <2>6. s \in slabs /\ \A r \in slabs : r.from <= m /\ m <= r.to => r = s BY <2>1
  <2> HIDE DEF slabs
  <2>7. calculate_pt(m, slabs).annual = 11 * s.monthly + s.february BY <2>3, <2>5, <2>6, PtOf
  <2>8. Oracle!calculate_annual_pt(state, amount) = 0 BY <1>6 DEF Oracle!calculate_annual_pt
  <2> QED BY <2>2, <2>7, <2>8 DEF m, slabs
<1>7. CASE state \notin {"KA", "MH", "TS", "WB", "DL"}
  <2>1. slabs = {} BY <1>7 DEF get_pt_rule_set
  <2> QED BY <1>1, <2>1
<1> QED BY <1>2, <1>3, <1>4, <1>5, <1>6, <1>7

-----------------------------------------------------------------------------
(* What is taxed, of a gross without claims and with them.                 *)
LEMMA TaxableWithoutClaims ==
  ASSUME NEW amount, Whole(amount), NEW rules, NEW standard, rules.standard = standard, Whole(standard),
         rules.sec80c \in Nat, rules.sec80d \in Nat
  PROVE  /\ Taxable(amount, NoClaims, rules) = Oracle!Less(amount, standard)
         /\ Whole(Taxable(amount, NoClaims, rules)) /\ Taxable(amount, NoClaims, rules) <= amount
<1>1. amount \in Nat /\ standard \in Nat BY DEF Whole
<1>2. NoClaims.sec80c = 0 /\ NoClaims.sec80d = 0 BY DEF NoClaims
<1>3. AtMost(0, rules.sec80c) = 0 /\ AtMost(0, rules.sec80d) = 0 BY DEF AtMost
<1>4. Taxable(amount, NoClaims, rules) = Oracle!Less(amount, standard)
  BY <1>1, <1>2, <1>3 DEF Taxable, NotBelow, AtMost, Oracle!Less
<1>5. Whole(Oracle!Less(amount, standard)) /\ Oracle!Less(amount, standard) <= amount
  BY <1>1 DEF Whole, Oracle!Less
<1> QED BY <1>4, <1>5

(* With claims the oracle takes the same off.                              *)
LEMMA TaxableWithClaims ==
  ASSUME NEW amount, Whole(amount), NEW c, Whole(c.sec80c), Whole(c.sec80d)
  PROVE  /\ Taxable(amount, c, OLD_RULES)
              = Oracle!Less(amount, Oracle!Least(amount, Oracle!Rs(50000)) + Oracle!Least(c.sec80c, Oracle!Rs(150000))
                                      + Oracle!Least(c.sec80d, Oracle!Rs(25000)))
         /\ Whole(Taxable(amount, c, OLD_RULES)) /\ Taxable(amount, c, OLD_RULES) <= amount
<1> DEFINE a == AtMost(amount, 5000000)
           b == AtMost(c.sec80c, 15000000)
           d == AtMost(c.sec80d, 2500000)
<1>1. Whole(a) /\ Whole(b) /\ Whole(d) BY SMT DEF Whole, AtMost
<1>2. Taxable(amount, c, OLD_RULES) = NotBelow(amount, a + b + d) BY SMT, OldRules DEF Taxable
<1>3. /\ Oracle!Least(amount, Oracle!Rs(50000)) = a
      /\ Oracle!Least(c.sec80c, Oracle!Rs(150000)) = b
      /\ Oracle!Least(c.sec80d, Oracle!Rs(25000)) = d
  BY SMT DEF Oracle!Least, Oracle!Rs, AtMost
<1> HIDE DEF a, b, d
<1>4. Whole(NotBelow(amount, a + b + d)) /\ NotBelow(amount, a + b + d) <= amount BY <1>1 DEF Whole, NotBelow
<1> QED BY <1>2, <1>3, <1>4 DEF NotBelow, Oracle!Less

(* The tax before cess and the whole, in the end one of each.              *)
FinalTax(x, rules) == NearestTen(DueTaxOf(x, rules) + Oracle!Percent(DueTaxOf(x, rules), 4))
Liability(x, rules) == [beforeCess |-> DueTaxOf(x, rules), total |-> FinalTax(x, rules)]

(* The new regime: the engine's one result,                                *)
LEMMA NewLiability ==
  ASSUME NEW amount, NEW given, Whole(Taxable(amount, given, NEW_RULES)),
         Taxable(amount, given, NEW_RULES) <= Unlimited
  PROVE  /\ calculate_tax(amount, given, NEW_RULES) = {Liability(Taxable(amount, given, NEW_RULES), NEW_RULES)}
         /\ DueTaxOf(Taxable(amount, given, NEW_RULES), NEW_RULES) \in Nat
<1> DEFINE x == Taxable(amount, given, NEW_RULES)
<1>1. /\ x \in Nat /\ TaxAfterRebate(x, NEW_RULES) \in Nat
      /\ 10 * TaxAfterRebate(x, NEW_RULES) <= 3 * x
  <2> HIDE DEF x
  <2>1. Whole(x) /\ x <= Unlimited BY DEF x
  <2> QED BY <2>1, NewTax
<1>2. NEW_RULES.surcharges = SURCHARGES /\ NEW_RULES.cess = 400 BY SMT, NewRules
<1> QED BY <1>1, <1>2, EngineTotal DEF Liability, FinalTax

(* and the oracle's.                                                       *)
LEMMA NewOracleTotal ==
  ASSUME NEW x, Whole(x), x <= Unlimited, NEW most \in Nat, x <= 120000000 => SlabTax(x, NEW_SLABS) <= most
  PROVE  Oracle!Total(x, Oracle!BRACKETS_NEW, Oracle!Rs(1200000), most) = FinalTax(x, NEW_RULES)
<1>1. x \in Nat /\ TaxAfterRebate(x, NEW_RULES) \in Nat BY NewTax
<1>2. Oracle!AfterRebate(x, Oracle!SlabTax(x, Oracle!BRACKETS_NEW), Oracle!Rs(1200000), most)
        = TaxAfterRebate(x, NEW_RULES)
  BY SMT, NewOracleTax
<1> DEFINE limit == Oracle!Rs(1200000)
<1>3. Oracle!AfterRebate(x, Oracle!SlabTax(x, Oracle!BRACKETS_NEW), limit, most) = TaxAfterRebate(x, NEW_RULES)
  BY <1>2
<1> HIDE DEF limit
<1>4. Oracle!Total(x, Oracle!BRACKETS_NEW, limit, most) = FinalTax(x, NEW_RULES)
  BY <1>1, <1>3, OracleTotal DEF FinalTax
<1> QED BY <1>4 DEF limit

(* The new regime a year before: the engine's one result,                  *)
LEMMA New2425Liability ==
  ASSUME NEW amount, NEW given, Whole(Taxable(amount, given, NEW_RULES_2425)),
         Taxable(amount, given, NEW_RULES_2425) <= Unlimited
  PROVE  /\ calculate_tax(amount, given, NEW_RULES_2425)
              = {Liability(Taxable(amount, given, NEW_RULES_2425), NEW_RULES_2425)}
         /\ DueTaxOf(Taxable(amount, given, NEW_RULES_2425), NEW_RULES_2425) \in Nat
<1> DEFINE x == Taxable(amount, given, NEW_RULES_2425)
<1>1. /\ x \in Nat /\ TaxAfterRebate(x, NEW_RULES_2425) \in Nat
      /\ 10 * TaxAfterRebate(x, NEW_RULES_2425) <= 3 * x
  <2> HIDE DEF x
  <2>1. Whole(x) /\ x <= Unlimited BY DEF x
  <2> QED BY <2>1, New2425Tax
<1>2. NEW_RULES_2425.surcharges = SURCHARGES /\ NEW_RULES_2425.cess = 400 BY SMT, New2425Rules
<1> QED BY <1>1, <1>2, EngineTotal DEF Liability, FinalTax

(* and the oracle's.                                                       *)
LEMMA New2425OracleTotal ==
  ASSUME NEW x, Whole(x), x <= Unlimited, NEW most \in Nat, x <= 70000000 => SlabTax(x, NEW_SLABS_2425) <= most
  PROVE  Oracle!Total(x, Oracle!BRACKETS_2425, Oracle!Rs(700000), most) = FinalTax(x, NEW_RULES_2425)
<1>1. x \in Nat /\ TaxAfterRebate(x, NEW_RULES_2425) \in Nat BY New2425Tax
<1>2. Oracle!AfterRebate(x, Oracle!SlabTax(x, Oracle!BRACKETS_2425), Oracle!Rs(700000), most)
        = TaxAfterRebate(x, NEW_RULES_2425)
  BY SMT, New2425OracleTax
<1> DEFINE limit == Oracle!Rs(700000)
<1>3. Oracle!AfterRebate(x, Oracle!SlabTax(x, Oracle!BRACKETS_2425), limit, most) = TaxAfterRebate(x, NEW_RULES_2425)
  BY <1>2
<1> HIDE DEF limit
<1>4. Oracle!Total(x, Oracle!BRACKETS_2425, limit, most) = FinalTax(x, NEW_RULES_2425)
  BY <1>1, <1>3, OracleTotal DEF FinalTax
<1> QED BY <1>4 DEF limit

(* The old regime: the engine's one result,                                *)
LEMMA OldLiability ==
  ASSUME NEW amount, NEW given, Whole(Taxable(amount, given, OLD_RULES)),
         Taxable(amount, given, OLD_RULES) <= Unlimited
  PROVE  /\ calculate_tax(amount, given, OLD_RULES) = {Liability(Taxable(amount, given, OLD_RULES), OLD_RULES)}
         /\ DueTaxOf(Taxable(amount, given, OLD_RULES), OLD_RULES) \in Nat
<1> DEFINE x == Taxable(amount, given, OLD_RULES)
<1>1. /\ x \in Nat /\ TaxAfterRebate(x, OLD_RULES) \in Nat
      /\ 10 * TaxAfterRebate(x, OLD_RULES) <= 3 * x
  <2> HIDE DEF x
  <2>1. Whole(x) /\ x <= Unlimited BY DEF x
  <2> QED BY <2>1, OldTax
<1>2. OLD_RULES.surcharges = SURCHARGES /\ OLD_RULES.cess = 400 BY SMT, OldRules
<1> QED BY <1>1, <1>2, EngineTotal DEF Liability, FinalTax

(* and the oracle's.                                                       *)
LEMMA OldOracleTotal ==
  ASSUME NEW x, Whole(x), x <= Unlimited, NEW most \in Nat, x <= 50000000 => SlabTax(x, OLD_SLABS) <= most
  PROVE  Oracle!Total(x, Oracle!BRACKETS_OLD, Oracle!Rs(500000), most) = FinalTax(x, OLD_RULES)
<1>1. x \in Nat /\ TaxAfterRebate(x, OLD_RULES) \in Nat BY OldTax
<1>2. Oracle!AfterRebate(x, Oracle!SlabTax(x, Oracle!BRACKETS_OLD), Oracle!Rs(500000), most)
        = TaxAfterRebate(x, OLD_RULES)
  BY SMT, OldOracleTax
<1> DEFINE limit == Oracle!Rs(500000)
<1>3. Oracle!AfterRebate(x, Oracle!SlabTax(x, Oracle!BRACKETS_OLD), limit, most) = TaxAfterRebate(x, OLD_RULES)
  BY <1>2
<1> HIDE DEF limit
<1>4. Oracle!Total(x, Oracle!BRACKETS_OLD, limit, most) = FinalTax(x, OLD_RULES)
  BY <1>1, <1>3, OracleTotal DEF FinalTax
<1> QED BY <1>4 DEF limit

-----------------------------------------------------------------------------
(* Salaries, and what they become by a raise, are whole and in range.      *)
SalaryTypeOK ==
  /\ year \in Years /\ state \in States /\ claims \in Claims
  /\ base \in Salaries /\ gross \in {base} \cup {base + raise : raise \in Raises}

(* By the assumption on the constants.                                     *)
LEMMA Ranges ==
  ASSUME SalaryTypeOK
  PROVE  /\ Whole(gross) /\ gross <= Unlimited
         /\ Whole(claims.sec80c) /\ Whole(claims.sec80d)
         /\ Whole(base) /\ base <= Unlimited
<1>1. Whole(base) /\ base \in Nat BY SalariesAssumption DEF SalaryTypeOK, Whole
<1>2. base + 0 <= Unlimited BY SalariesAssumption DEF SalaryTypeOK
<1>3. base <= Unlimited BY <1>1, <1>2
<1>4. Whole(claims.sec80c) /\ Whole(claims.sec80d) BY SalariesAssumption DEF SalaryTypeOK
<1>5. ASSUME NEW raise \in Raises, gross = base + raise
      PROVE  Whole(gross) /\ gross <= Unlimited
  <2>1. Whole(raise) /\ base + raise <= Unlimited BY SalariesAssumption DEF SalaryTypeOK
  <2> QED BY <1>1, <1>5, <2>1 DEF Whole
<1>6. Whole(gross) /\ gross <= Unlimited BY <1>1, <1>3, <1>5 DEF SalaryTypeOK
<1> QED BY <1>1, <1>3, <1>4, <1>6

(* Every salary calculated is a base salary or one of its raises, for any  *)
(* base salaries, raises, states, years and claims:                        *)
(* calculate_what_if_raises always starts from the base.                   *)
THEOREM SalaryInvariant == SalarySpec => []SalaryTypeOK
<1>1. SalaryInit => SalaryTypeOK BY DEF SalaryInit, SalaryTypeOK
<1>2. ASSUME SalaryTypeOK, [SalaryNext]_salaryVars
      PROVE  SalaryTypeOK'
  BY <1>2 DEF SalaryTypeOK, SalaryNext, WhatIf, salaryVars
<1> QED BY <1>1, <1>2, PTL DEF SalarySpec

-----------------------------------------------------------------------------
(* The engine's one tax of a regime is the oracle's.                       *)
LEMMA RulesOf ==
  ASSUME year \in Years
  PROVE  /\ Rules("OLD") = OLD_RULES
         /\ Rules("NEW") = IF year = "2024-25" THEN NEW_RULES_2425 ELSE NEW_RULES
         /\ Given("OLD") = claims /\ Given("NEW") = NoClaims
BY DEF Rules, get_tax_rule_set, Given

(* By regime and year.                                                     *)
LEMMA TaxesMatch ==
  ASSUME SalaryTypeOK, NEW regime \in Regimes
  PROVE  {t.total : t \in TaxOf(gross, regime)} = {OracleTax(regime)}
<1>1. /\ Whole(gross) /\ gross <= Unlimited /\ gross \in Nat
      /\ Whole(claims.sec80c) /\ Whole(claims.sec80d) /\ year \in Years
  BY Ranges DEF Whole, SalaryTypeOK
<1>2. \A x, rules : {t.total : t \in {Liability(x, rules)}} = {FinalTax(x, rules)} BY DEF Liability
<1>3. ASSUME NEW x, x \in Nat, x <= gross PROVE x <= Unlimited
  <2>1. Unlimited \in Nat BY SMT DEF Unlimited
  <2> QED BY <1>1, <1>3, <2>1
<1>4. CASE regime = "NEW" /\ year = "2024-25"
  <2> DEFINE x == Taxable(gross, NoClaims, NEW_RULES_2425)
  <2>1. /\ x = Oracle!Less(gross, Oracle!Rs(75000)) /\ Whole(x) /\ x <= gross
    <3>1. NEW_RULES_2425.standard = Oracle!Rs(75000) /\ Whole(Oracle!Rs(75000)) /\ NEW_RULES_2425.sec80c \in Nat
            /\ NEW_RULES_2425.sec80d \in Nat
      BY SMT, New2425Rules DEF Oracle!Rs, Whole
    <3> DEFINE standard == Oracle!Rs(75000)
    <3>2. NEW_RULES_2425.standard = standard /\ Whole(standard) BY <3>1
    <3> HIDE DEF standard
    <3>3. /\ x = Oracle!Less(gross, standard) /\ Whole(x) /\ x <= gross
      BY <1>1, <3>1, <3>2, TaxableWithoutClaims
    <3> QED BY <3>3 DEF standard
  <2>2. x \in Nat /\ x <= Unlimited BY <1>3, <2>1 DEF Whole
  <2>3. calculate_tax(gross, NoClaims, NEW_RULES_2425) = {Liability(x, NEW_RULES_2425)}
    BY <2>1, <2>2, New2425Liability
  <2>4. TaxOf(gross, regime) = calculate_tax(gross, NoClaims, NEW_RULES_2425)
    BY <1>1, <1>4, RulesOf DEF TaxOf, Years
  <2>5. OracleTax(regime) = Oracle!Total(x, Oracle!BRACKETS_2425, Oracle!Rs(700000), gross)
    <3>1. OracleTax(regime) = Oracle!calculate_fy2024_25_new(gross) BY <1>1, <1>4 DEF OracleTax, Years
    <3> QED BY <2>1, <3>1 DEF Oracle!calculate_fy2024_25_new
  <2> HIDE DEF x
  <2>6. SlabTax(x, NEW_SLABS_2425) \in Nat /\ 10 * SlabTax(x, NEW_SLABS_2425) <= 3 * x BY <2>1, <2>2, New2425Tax
  <2>7. SlabTax(x, NEW_SLABS_2425) <= gross BY <1>1, <2>1, <2>2, <2>6
  <2>8. Oracle!Total(x, Oracle!BRACKETS_2425, Oracle!Rs(700000), gross) = FinalTax(x, NEW_RULES_2425)
    BY SMT, <1>1, <2>1, <2>2, <2>7, New2425OracleTotal
  <2>9. OracleTax(regime) = FinalTax(x, NEW_RULES_2425) BY <2>5, <2>8
  <2> QED BY <1>2, <2>3, <2>4, <2>9
<1>5. CASE regime = "NEW" /\ year # "2024-25"
  <2> DEFINE x == Taxable(gross, NoClaims, NEW_RULES)
  <2>1. /\ x = Oracle!Less(gross, Oracle!Rs(75000)) /\ Whole(x) /\ x <= gross
    <3>1. NEW_RULES.standard = Oracle!Rs(75000) /\ Whole(Oracle!Rs(75000)) /\ NEW_RULES.sec80c \in Nat
            /\ NEW_RULES.sec80d \in Nat
      BY SMT, NewRules DEF Oracle!Rs, Whole
    <3> DEFINE standard == Oracle!Rs(75000)
    <3>2. NEW_RULES.standard = standard /\ Whole(standard) BY <3>1
    <3> HIDE DEF standard
    <3>3. /\ x = Oracle!Less(gross, standard) /\ Whole(x) /\ x <= gross
      BY <1>1, <3>1, <3>2, TaxableWithoutClaims
    <3> QED BY <3>3 DEF standard
  <2>2. x \in Nat /\ x <= Unlimited BY <1>3, <2>1 DEF Whole
  <2>3. calculate_tax(gross, NoClaims, NEW_RULES) = {Liability(x, NEW_RULES)} BY <2>1, <2>2, NewLiability
  <2>4. TaxOf(gross, regime) = calculate_tax(gross, NoClaims, NEW_RULES)
    BY <1>1, <1>5, RulesOf DEF TaxOf, Years
  <2>5. OracleTax(regime) = Oracle!Total(x, Oracle!BRACKETS_NEW, Oracle!Rs(1200000), gross)
    <3>1. OracleTax(regime) = Oracle!calculate_fy2025_26_new(gross) BY <1>1, <1>5 DEF OracleTax, Years
    <3> QED BY <2>1, <3>1 DEF Oracle!calculate_fy2025_26_new
  <2> HIDE DEF x
  <2>6. SlabTax(x, NEW_SLABS) \in Nat /\ 10 * SlabTax(x, NEW_SLABS) <= 3 * x BY <2>1, <2>2, NewTax
  <2>7. SlabTax(x, NEW_SLABS) <= gross BY <1>1, <2>1, <2>2, <2>6
  <2>8. Oracle!Total(x, Oracle!BRACKETS_NEW, Oracle!Rs(1200000), gross) = FinalTax(x, NEW_RULES)
    BY SMT, <1>1, <2>1, <2>2, <2>7, NewOracleTotal
  <2>9. OracleTax(regime) = FinalTax(x, NEW_RULES) BY <2>5, <2>8
  <2> QED BY <1>2, <2>3, <2>4, <2>9
<1>6. CASE regime = "OLD"
  <2> DEFINE x == Taxable(gross, claims, OLD_RULES)
             o == Oracle!Less(gross, Oracle!Least(gross, Oracle!Rs(50000))
               + Oracle!Least(claims.sec80c, Oracle!Rs(150000))
                                       + Oracle!Least(claims.sec80d, Oracle!Rs(25000)))
  <2>1. x = o /\ Whole(x) /\ x <= gross BY SMT, <1>1, TaxableWithClaims
  <2>2. x \in Nat /\ x <= Unlimited
    <3> HIDE DEF x, o
    <3> QED BY <1>3, <2>1 DEF Whole
  <2>3. calculate_tax(gross, claims, OLD_RULES) = {Liability(x, OLD_RULES)}
    <3> HIDE DEF o
    <3> QED BY <2>1, <2>2, OldLiability
  <2>4. TaxOf(gross, regime) = calculate_tax(gross, claims, OLD_RULES) BY <1>1, <1>6, RulesOf DEF TaxOf, Years
  <2>5. OracleTax(regime) = Oracle!Total(x, Oracle!BRACKETS_OLD, Oracle!Rs(500000), Oracle!Rs(12500))
    <3>1. OracleTax(regime) = Oracle!calculate_fy2025_26_old(gross, claims.sec80c, claims.sec80d)
      BY <1>1, <1>6 DEF OracleTax, Years
    <3> HIDE DEF x
    <3> QED BY SMT, <2>1, <3>1 DEF Oracle!calculate_fy2025_26_old
  <2> HIDE DEF x, o
  <2>6. x <= 50000000 => SlabTax(x, OLD_SLABS) <= 1250000 BY SMT, <2>1, <2>2, OldTax
  <2>7. Oracle!Rs(12500) \in Nat /\ (x <= 50000000 => SlabTax(x, OLD_SLABS) <= Oracle!Rs(12500))
    BY SMT, <2>6 DEF Oracle!Rs
  <2>8. Oracle!Total(x, Oracle!BRACKETS_OLD, Oracle!Rs(500000), Oracle!Rs(12500)) = FinalTax(x, OLD_RULES)
    BY SMT, <2>1, <2>2, <2>7, OldOracleTotal
  <2>9. OracleTax(regime) = FinalTax(x, OLD_RULES) BY SMT, <2>5, <2>8
  <2> QED BY <1>2, <2>3, <2>4, <2>9
<1> QED BY <1>1, <1>4, <1>5, <1>6 DEF Regimes

(* The engine finds what the oracle expects, for every salary in whole     *)
(* rupees within the model's range, raised or not: the tax of either       *)
(* regime, and provident fund and professional tax as far as the two agree *)
(* by design.                                                              *)
THEOREM EngineAlwaysMatchesOracle == SalarySpec => []EngineMatchesOracle
<1>1. ASSUME SalaryTypeOK PROVE EngineMatchesOracle
  <2>1. /\ Whole(gross) /\ gross <= Unlimited /\ gross \in Nat BY <1>1, Ranges DEF Whole
  <2>2. \A regime \in Regimes : {t.total : t \in TaxOf(gross, regime)} = {OracleTax(regime)} BY <1>1, TaxesMatch
  <2>3. ASSUME NEW n \in Net(gross)
        PROVE  /\ n.pf - Oracle!annual_emp_pf(gross) \in -7..7
               /\ state \in {"GJ", "TN"} \/ InGap(gross) \/ n.pt = Oracle!calculate_annual_pt(state, gross)
    <3>1. /\ n.pf = 12 * RateOf(AtMost(Wage(gross), PF_RULES.ceiling), PF_RULES.employee)
          /\ n.pt = calculate_pt(Monthly(gross), get_pt_rule_set(state)).annual
      BY <2>1, NetOf
    <3>2. n.pf - Oracle!annual_emp_pf(gross) \in -7..7 BY <2>1, <3>1, YearsPf
    <3>3. state \in {"GJ", "TN"} \/ InGap(gross) \/ n.pt = Oracle!calculate_annual_pt(state, gross)
      BY <2>1, <3>1, YearsPt
    <3> QED BY <3>2, <3>3
  <2> QED BY <2>2, <2>3 DEF EngineMatchesOracle
<1> QED BY <1>1, SalaryInvariant, PTL

-----------------------------------------------------------------------------
(* Of a larger income no less tax is due, and no more than the difference; *)
(* above fifty lakh the tax before the surcharge grows by 30 percent.      *)
Smooth(rules) ==
  \A x, y : Whole(x) /\ Whole(y) /\ x <= y /\ y <= Unlimited =>
    /\ TaxAfterRebate(x, rules) <= TaxAfterRebate(y, rules)
    /\ TaxAfterRebate(y, rules) - TaxAfterRebate(x, rules) <= y - x
    /\ x >= 500000000 => 10 * (TaxAfterRebate(y, rules) - TaxAfterRebate(x, rules)) = 3 * (y - x)

(* The new regime: the slabs' tax grows by at most 30 percent of the       *)
(* income, and so does what the rebate leaves, but from the limit on by no *)
(* more than the income.                                                   *)
LEMMA NewSlabSlope ==
  ASSUME NEW x, NEW y, Whole(x), Whole(y), x <= y, y <= Unlimited
  PROVE  /\ SlabTax(x, NEW_SLABS) <= SlabTax(y, NEW_SLABS)
         /\ 10 * (SlabTax(y, NEW_SLABS) - SlabTax(x, NEW_SLABS)) <= 3 * (y - x)
         /\ x >= 500000000 => 10 * (SlabTax(y, NEW_SLABS) - SlabTax(x, NEW_SLABS)) = 3 * (y - x)
<1>0. x \in Nat /\ y \in Nat /\ x <= Unlimited BY SMT DEF Whole, Unlimited
<1>1. PICK t : t = SlabTax(x, NEW_SLABS) OBVIOUS
<1>2. PICK u : u = SlabTax(y, NEW_SLABS) OBVIOUS
<1>3. t \in Nat /\ u \in Nat BY <1>0, <1>1, <1>2, NewTax
<1> QED BY SMTT(30), <1>0, <1>1, <1>2, <1>3, NewSlabTax

LEMMA NewSmooth == Smooth(NEW_RULES)
<1> SUFFICES ASSUME NEW x, NEW y, Whole(x), Whole(y), x <= y, y <= Unlimited
             PROVE  /\ TaxAfterRebate(x, NEW_RULES) <= TaxAfterRebate(y, NEW_RULES)
                    /\ TaxAfterRebate(y, NEW_RULES) - TaxAfterRebate(x, NEW_RULES) <= y - x
                    /\ x >= 500000000 => 10 * (TaxAfterRebate(y, NEW_RULES) - TaxAfterRebate(x, NEW_RULES))
                         = 3 * (y - x)
  BY DEF Smooth
<1>0. x \in Nat /\ y \in Nat /\ x <= Unlimited BY SMT DEF Whole, Unlimited
<1>1. PICK t : t = SlabTax(x, NEW_SLABS) OBVIOUS
<1>2. PICK u : u = SlabTax(y, NEW_SLABS) OBVIOUS
<1>3. /\ t \in Nat /\ 10 * t <= 3 * x /\ TaxAfterRebate(x, NEW_RULES) = AfterLimit(x, t, 120000000)
  BY SMT, <1>0, <1>1, NewTax
<1>4. /\ u \in Nat /\ 10 * u <= 3 * y /\ TaxAfterRebate(y, NEW_RULES) = AfterLimit(y, u, 120000000)
  BY SMT, <1>0, <1>2, NewTax
<1>5. /\ t <= u /\ 10 * (u - t) <= 3 * (y - x)
      /\ x >= 500000000 => 10 * (u - t) = 3 * (y - x)
  BY SMT, <1>0, <1>1, <1>2, NewSlabSlope
<1> QED BY SMT, <1>0, <1>3, <1>4, <1>5 DEF AfterLimit, AtMost

(* The same for its year before.                                           *)
LEMMA New2425SlabSlope ==
  ASSUME NEW x, NEW y, Whole(x), Whole(y), x <= y, y <= Unlimited
  PROVE  /\ SlabTax(x, NEW_SLABS_2425) <= SlabTax(y, NEW_SLABS_2425)
         /\ 10 * (SlabTax(y, NEW_SLABS_2425) - SlabTax(x, NEW_SLABS_2425)) <= 3 * (y - x)
         /\ x >= 500000000 => 10 * (SlabTax(y, NEW_SLABS_2425) - SlabTax(x, NEW_SLABS_2425)) = 3 * (y - x)
<1>0. x \in Nat /\ y \in Nat /\ x <= Unlimited BY SMT DEF Whole, Unlimited
<1>1. PICK t : t = SlabTax(x, NEW_SLABS_2425) OBVIOUS
<1>2. PICK u : u = SlabTax(y, NEW_SLABS_2425) OBVIOUS
<1>3. t \in Nat /\ u \in Nat BY <1>0, <1>1, <1>2, New2425Tax
<1> QED BY SMTT(30), <1>0, <1>1, <1>2, <1>3, New2425SlabTax

LEMMA New2425Smooth == Smooth(NEW_RULES_2425)
<1> SUFFICES ASSUME NEW x, NEW y, Whole(x), Whole(y), x <= y, y <= Unlimited
             PROVE  /\ TaxAfterRebate(x, NEW_RULES_2425) <= TaxAfterRebate(y, NEW_RULES_2425)
                    /\ TaxAfterRebate(y, NEW_RULES_2425) - TaxAfterRebate(x, NEW_RULES_2425) <= y - x
                    /\ x >= 500000000 =>
                         10 * (TaxAfterRebate(y, NEW_RULES_2425) - TaxAfterRebate(x, NEW_RULES_2425)) = 3 * (y - x)
  BY DEF Smooth
<1>0. x \in Nat /\ y \in Nat /\ x <= Unlimited BY SMT DEF Whole, Unlimited
<1>1. PICK t : t = SlabTax(x, NEW_SLABS_2425) OBVIOUS
<1>2. PICK u : u = SlabTax(y, NEW_SLABS_2425) OBVIOUS
<1>3. /\ t \in Nat /\ 10 * t <= 3 * x /\ TaxAfterRebate(x, NEW_RULES_2425) = AfterLimit(x, t, 70000000)
  BY SMT, <1>0, <1>1, New2425Tax
<1>4. /\ u \in Nat /\ 10 * u <= 3 * y /\ TaxAfterRebate(y, NEW_RULES_2425) = AfterLimit(y, u, 70000000)
  BY SMT, <1>0, <1>2, New2425Tax
<1>5. /\ t <= u /\ 10 * (u - t) <= 3 * (y - x)
      /\ x >= 500000000 => 10 * (u - t) = 3 * (y - x)
  BY SMT, <1>0, <1>1, <1>2, New2425SlabSlope
<1> QED BY SMT, <1>0, <1>3, <1>4, <1>5 DEF AfterLimit, AtMost

(* The same for the old regime.                                            *)
LEMMA OldSlabSlope ==
  ASSUME NEW x, NEW y, Whole(x), Whole(y), x <= y, y <= Unlimited
  PROVE  /\ SlabTax(x, OLD_SLABS) <= SlabTax(y, OLD_SLABS)
         /\ 10 * (SlabTax(y, OLD_SLABS) - SlabTax(x, OLD_SLABS)) <= 3 * (y - x)
         /\ x >= 500000000 => 10 * (SlabTax(y, OLD_SLABS) - SlabTax(x, OLD_SLABS)) = 3 * (y - x)
<1>0. x \in Nat /\ y \in Nat /\ x <= Unlimited BY SMT DEF Whole, Unlimited
<1>1. PICK t : t = SlabTax(x, OLD_SLABS) OBVIOUS
<1>2. PICK u : u = SlabTax(y, OLD_SLABS) OBVIOUS
<1>3. t \in Nat /\ u \in Nat BY <1>0, <1>1, <1>2, OldTax
<1> QED BY SMTT(30), <1>0, <1>1, <1>2, <1>3, OldSlabTax

LEMMA OldSmooth == Smooth(OLD_RULES)
<1> SUFFICES ASSUME NEW x, NEW y, Whole(x), Whole(y), x <= y, y <= Unlimited
             PROVE  /\ TaxAfterRebate(x, OLD_RULES) <= TaxAfterRebate(y, OLD_RULES)
                    /\ TaxAfterRebate(y, OLD_RULES) - TaxAfterRebate(x, OLD_RULES) <= y - x
                    /\ x >= 500000000 => 10 * (TaxAfterRebate(y, OLD_RULES) - TaxAfterRebate(x, OLD_RULES))
                         = 3 * (y - x)
  BY DEF Smooth
<1>0. x \in Nat /\ y \in Nat /\ x <= Unlimited BY SMT DEF Whole, Unlimited
<1>1. PICK t : t = SlabTax(x, OLD_SLABS) OBVIOUS
<1>2. PICK u : u = SlabTax(y, OLD_SLABS) OBVIOUS
<1>3. /\ t \in Nat /\ 10 * t <= 3 * x /\ TaxAfterRebate(x, OLD_RULES) = AfterLimit(x, t, 50000000)
  BY SMT, <1>0, <1>1, OldTax
<1>4. /\ u \in Nat /\ 10 * u <= 3 * y /\ TaxAfterRebate(y, OLD_RULES) = AfterLimit(y, u, 50000000)
  BY SMT, <1>0, <1>2, OldTax
<1>5. /\ t <= u /\ 10 * (u - t) <= 3 * (y - x)
      /\ x >= 500000000 => 10 * (u - t) = 3 * (y - x)
  BY SMT, <1>0, <1>1, <1>2, OldSlabSlope
<1> QED BY SMT, <1>0, <1>3, <1>4, <1>5 DEF AfterLimit, AtMost

-----------------------------------------------------------------------------
(* A larger tax on the same income has a larger surcharge.                 *)
LEMMA PercentGrows ==
  ASSUME NEW a \in Nat, NEW b \in Nat, a <= b, NEW p \in {0, 10, 15, 25}
  PROVE  /\ Oracle!Percent(a, p) \in Nat /\ Oracle!Percent(b, p) \in Nat
         /\ Oracle!Percent(a, p) <= Oracle!Percent(b, p)
         /\ 4 * (Oracle!Percent(b, p) - Oracle!Percent(a, p)) <= (b - a) + 4
<1>1. Oracle!Percent(a, p) \in Nat /\ Oracle!Percent(b, p) \in Nat BY PercentNat
<1>2. CASE p = 0
  <2>1. Oracle!Percent(a, 0) = 0 /\ Oracle!Percent(b, 0) = 0 BY RateNone
  <2> QED BY <1>2, <2>1
<1>3. CASE p = 10
  <2>1. Oracle!Percent(a, 10) <= Oracle!Percent(b, 10) BY PercentMonotone
  <2>2. 100 * Oracle!Percent(a, 10) >= 10 * a - 50 /\ 100 * Oracle!Percent(b, 10) <= 10 * b + 50 BY PercentBounds
  <2> QED BY <1>1, <1>3, <2>1, <2>2
<1>4. CASE p = 15
  <2>1. Oracle!Percent(a, 15) <= Oracle!Percent(b, 15) BY PercentMonotone
  <2>2. 100 * Oracle!Percent(a, 15) >= 15 * a - 50 /\ 100 * Oracle!Percent(b, 15) <= 15 * b + 50 BY PercentBounds
  <2> QED BY <1>1, <1>4, <2>1, <2>2
<1>5. CASE p = 25
  <2>1. Oracle!Percent(a, 25) <= Oracle!Percent(b, 25) BY PercentMonotone
  <2>2. 100 * Oracle!Percent(a, 25) >= 25 * a - 50 /\ 100 * Oracle!Percent(b, 25) <= 25 * b + 50 BY PercentBounds
  <2> QED BY <1>1, <1>5, <2>1, <2>2
<1> QED BY <1>1, <1>2, <1>3, <1>4, <1>5

(* And so is more due.                                                     *)
LEMMA DueGrows ==
  ASSUME NEW t \in Nat, NEW u \in Nat, t <= u, NEW e \in Nat, NEW p \in {10, 15, 25}, NEW before \in {0, 10, 15}
  PROVE  Due(t, e, p, before) <= Due(u, e, p, before)
<1> DEFINE o == OnLimit(t, e)
           q == OnLimit(u, e)
<1>1. o \in Nat /\ q \in Nat /\ Oracle!Percent(e, 30) \in Nat BY DueFacts
<1>2. o <= q BY <1>1 DEF OnLimit, NotBelow
<1>3. Due(t, e, p, before) = AtMost(t + Oracle!Percent(t, p), o + Oracle!Percent(o, before) + e) BY DEF Due
<1>4. Due(u, e, p, before) = AtMost(u + Oracle!Percent(u, p), q + Oracle!Percent(q, before) + e) BY DEF Due
<1> HIDE DEF o, q
<1>5. /\ Oracle!Percent(t, p) \in Nat /\ Oracle!Percent(u, p) \in Nat
      /\ Oracle!Percent(t, p) <= Oracle!Percent(u, p)
  BY PercentGrows
<1>6. /\ Oracle!Percent(o, before) \in Nat /\ Oracle!Percent(q, before) \in Nat
      /\ Oracle!Percent(o, before) <= Oracle!Percent(q, before)
  BY <1>1, <1>2, PercentGrows
<1> QED BY <1>1, <1>2, <1>3, <1>4, <1>5, <1>6 DEF AtMost

(* Within a row: marginal relief, or a tax that grows by at most three     *)
(* eighths of the income.                                                  *)
LEMMA DueStep ==
  ASSUME NEW t \in Nat, NEW u \in Nat, NEW e, NEW f, Whole(e), Whole(f), e <= f,
         10 * (u - t) = 3 * (f - e), NEW p \in {10, 15, 25}, NEW before \in {0, 10, 15}
  PROVE  /\ Due(t, e, p, before) <= Due(u, f, p, before)
         /\ Due(u, f, p, before) - Due(t, e, p, before) <= f - e
<1>0. PICK k \in Nat, l \in Nat : e = 100 * k /\ f = 100 * l /\ e \in Nat
  <2>1. e \in Nat /\ e = 100 * (e \div 100) /\ e \div 100 \in Nat BY DEF Whole
  <2>2. f \in Nat /\ f = 100 * (f \div 100) /\ f \div 100 \in Nat BY DEF Whole
  <2> QED BY <2>1, <2>2
<1>1. k <= l /\ u - t = 30 * (l - k) BY <1>0
<1>2. Oracle!Percent(e, 30) = 30 * k /\ Oracle!Percent(f, 30) = 30 * l BY <1>0, RupeePercents
<1>3. PICK o \in Nat : o = OnLimit(t, e) /\ o = OnLimit(u, f)
  <2>1. OnLimit(t, e) = OnLimit(u, f) BY <1>1, <1>2 DEF OnLimit, NotBelow
  <2>2. OnLimit(t, e) \in Nat BY <1>0, DueFacts
  <2> QED BY <2>1, <2>2
<1>4. PICK r \in Nat : r = Oracle!Percent(o, before) BY PercentNat
<1>5. /\ Due(t, e, p, before) = AtMost(t + Oracle!Percent(t, p), o + r + e)
      /\ Due(u, f, p, before) = AtMost(u + Oracle!Percent(u, p), o + r + f)
  BY <1>3, <1>4 DEF Due
<1>6. t <= u BY <1>1
<1>7. PICK v \in Nat : v = Oracle!Percent(t, p) BY PercentNat
<1>8. PICK w \in Nat : w = Oracle!Percent(u, p) BY PercentNat
<1>9. v <= w /\ 4 * (w - v) <= (u - t) + 4 BY <1>6, <1>7, <1>8, PercentGrows
<1>10. CASE k = l
  <2>1. t = u /\ e = f BY <1>0, <1>1, <1>10
  <2> QED BY <1>0, <1>5, <1>7, <2>1 DEF AtMost
<1>11. CASE k < l
  <2>1. (u + w) - (t + v) <= f - e BY <1>0, <1>1, <1>9, <1>11
  <2> QED BY <1>0, <1>1, <1>5, <1>6, <1>7, <1>8, <1>9, <2>1 DEF AtMost
<1> QED BY <1>1, <1>10, <1>11

-----------------------------------------------------------------------------
(* The same over the whole range, from limit to limit.                     *)
Steady(x, y, rules) ==
  DueTaxOf(x, rules) <= DueTaxOf(y, rules) /\ DueTaxOf(y, rules) - DueTaxOf(x, rules) <= y - x

Sound(rules) ==
  /\ Smooth(rules)
  /\ \A x : Whole(x) /\ x <= Unlimited =>
       TaxAfterRebate(x, rules) \in Nat /\ 10 * TaxAfterRebate(x, rules) <= 3 * x

(* All three rule sets are such.                                           *)
LEMMA RulesSound == Sound(NEW_RULES) /\ Sound(NEW_RULES_2425) /\ Sound(OLD_RULES)
<1>1. Sound(NEW_RULES) BY NewSmooth, NewTax DEF Sound
<1>2. Sound(NEW_RULES_2425) BY New2425Smooth, New2425Tax DEF Sound
<1>3. Sound(OLD_RULES) BY OldSmooth, OldTax DEF Sound
<1> QED BY <1>1, <1>2, <1>3

(* An income on a limit counts to either row.                              *)
LEMMA DueOfRow ==
  ASSUME NEW x \in Nat, NEW t \in Nat, 10 * t <= 3 * x
  PROVE  /\ x <= 500000000 => DueTax(x, t) = t
         /\ x >= 500000000 /\ x <= 1000000000 => DueTax(x, t) = Due(t, x - 500000000, 10, 0)
         /\ x >= 1000000000 /\ x <= 2000000000 => DueTax(x, t) = Due(t, x - 1000000000, 15, 10)
         /\ x >= 2000000000 => DueTax(x, t) = Due(t, x - 2000000000, 25, 15)
<1>1. CASE x < 500000000 BY SMT, <1>1 DEF DueTax
<1>2. CASE x = 500000000
  <2>1. Due(t, 0, 10, 0) = t BY DueOnLimit
  <2> QED BY SMT, <1>2, <2>1 DEF DueTax
<1>3. CASE x > 500000000 /\ x < 1000000000 BY SMT, <1>3 DEF DueTax
<1>4. CASE x = 1000000000
  <2>1. Due(t, 0, 15, 10) = Due(t, 500000000, 10, 0) BY SMT, <1>4, DueOnLimit
  <2> QED BY SMT, <1>4, <2>1 DEF DueTax
<1>5. CASE x > 1000000000 /\ x < 2000000000 BY SMT, <1>5 DEF DueTax
<1>6. CASE x = 2000000000
  <2>1. Due(t, 0, 25, 15) = Due(t, 1000000000, 15, 10) BY SMT, <1>6, DueOnLimit
  <2> QED BY SMT, <1>6, <2>1 DEF DueTax
<1>7. CASE x > 2000000000 BY SMT, <1>7 DEF DueTax
<1> QED BY SMT, <1>1, <1>2, <1>3, <1>4, <1>5, <1>6, <1>7

(* The number such rules give.                                             *)
LEMMA SoundAt ==
  ASSUME NEW rules, Sound(rules), NEW x, Whole(x), x <= Unlimited
  PROVE  \E t \in Nat : t = TaxAfterRebate(x, rules) /\ 10 * t <= 3 * x
BY Zenon DEF Sound

(* Within one row,                                                         *)
LEMMA SteadyInRow ==
  ASSUME NEW rules, Sound(rules), NEW x, NEW y, Whole(x), Whole(y), x <= y, y <= Unlimited,
         \/ y <= 500000000
         \/ x >= 500000000 /\ y <= 1000000000
         \/ x >= 1000000000 /\ y <= 2000000000
         \/ x >= 2000000000
  PROVE  Steady(x, y, rules)
<1>0. x \in Nat /\ y \in Nat /\ x <= Unlimited BY SMT DEF Whole, Unlimited
<1>1. PICK t \in Nat : t = TaxAfterRebate(x, rules) /\ 10 * t <= 3 * x BY SMT, <1>0, SoundAt
<1>2. PICK u \in Nat : u = TaxAfterRebate(y, rules) /\ 10 * u <= 3 * y BY SMT, SoundAt
<1>3. t <= u /\ u - t <= y - x /\ (x >= 500000000 => 10 * (u - t) = 3 * (y - x))
  BY SMT, <1>0, <1>1, <1>2 DEF Sound, Smooth
<1>4. DueTaxOf(x, rules) = DueTax(x, t) /\ DueTaxOf(y, rules) = DueTax(y, u) BY SMT, <1>1, <1>2 DEF DueTaxOf
<1>5. CASE y <= 500000000
  <2>1. DueTax(x, t) = t /\ DueTax(y, u) = u BY SMT, <1>0, <1>1, <1>2, <1>5, DueOfRow
  <2> QED BY SMT, <1>3, <1>4, <2>1 DEF Steady
<1>6. CASE x >= 500000000 /\ y <= 1000000000
  <2> DEFINE e == x - 500000000
             f == y - 500000000
  <2>1. DueTax(x, t) = Due(t, e, 10, 0) BY SMT, <1>0, <1>1, <1>6, DueOfRow
  <2>2. DueTax(y, u) = Due(u, f, 10, 0) BY SMT, <1>0, <1>2, <1>6, DueOfRow
  <2>3. Whole(e) /\ Whole(f) /\ e <= f /\ 10 * (u - t) = 3 * (f - e) /\ f - e = y - x
    BY SMT, <1>0, <1>3, <1>6 DEF Whole
  <2> HIDE DEF e, f
  <2>4. Due(t, e, 10, 0) <= Due(u, f, 10, 0) /\ Due(u, f, 10, 0) - Due(t, e, 10, 0) <= f - e
    BY SMT, <2>3, DueStep
  <2> QED BY SMT, <1>4, <2>1, <2>2, <2>3, <2>4 DEF Steady
<1>7. CASE x >= 1000000000 /\ y <= 2000000000
  <2> DEFINE e == x - 1000000000
             f == y - 1000000000
  <2>1. DueTax(x, t) = Due(t, e, 15, 10) BY SMT, <1>0, <1>1, <1>7, DueOfRow
  <2>2. DueTax(y, u) = Due(u, f, 15, 10) BY SMT, <1>0, <1>2, <1>7, DueOfRow
  <2>3. Whole(e) /\ Whole(f) /\ e <= f /\ 10 * (u - t) = 3 * (f - e) /\ f - e = y - x
    BY SMT, <1>0, <1>3, <1>7 DEF Whole
  <2> HIDE DEF e, f
  <2>4. Due(t, e, 15, 10) <= Due(u, f, 15, 10) /\ Due(u, f, 15, 10) - Due(t, e, 15, 10) <= f - e
    BY SMT, <2>3, DueStep
  <2> QED BY SMT, <1>4, <2>1, <2>2, <2>3, <2>4 DEF Steady
<1>8. CASE x >= 2000000000
  <2> DEFINE e == x - 2000000000
             f == y - 2000000000
  <2>1. DueTax(x, t) = Due(t, e, 25, 15) BY SMT, <1>0, <1>1, <1>8, DueOfRow
  <2>2. DueTax(y, u) = Due(u, f, 25, 15) BY SMT, <1>0, <1>2, <1>8, DueOfRow
  <2>3. Whole(e) /\ Whole(f) /\ e <= f /\ 10 * (u - t) = 3 * (f - e) /\ f - e = y - x
    BY SMT, <1>0, <1>3, <1>8 DEF Whole
  <2> HIDE DEF e, f
  <2>4. Due(t, e, 25, 15) <= Due(u, f, 25, 15) /\ Due(u, f, 25, 15) - Due(t, e, 25, 15) <= f - e
    BY SMT, <2>3, DueStep
  <2> QED BY SMT, <1>4, <2>1, <2>2, <2>3, <2>4 DEF Steady
<1> QED BY SMT, <1>0, <1>5, <1>6, <1>7, <1>8

(* over two,                                                               *)
LEMMA SteadyChain ==
  ASSUME NEW rules, Sound(rules), NEW x, NEW y, NEW z, Whole(x), Whole(y), Whole(z), x <= y, y <= z, z <= Unlimited,
         Steady(x, y, rules), Steady(y, z, rules)
  PROVE  Steady(x, z, rules)
<1>0. x \in Nat /\ y \in Nat /\ z \in Nat /\ x <= Unlimited /\ y <= Unlimited BY SMT DEF Whole, Unlimited
<1>1. \A w : Whole(w) /\ w <= Unlimited => DueTaxOf(w, rules) \in Nat
  <2> SUFFICES ASSUME NEW w, Whole(w), w <= Unlimited PROVE DueTaxOf(w, rules) \in Nat OBVIOUS
  <2>1. w \in Nat /\ TaxAfterRebate(w, rules) \in Nat BY Zenon DEF Whole, Sound
  <2> QED BY <2>1, DueTaxNat DEF DueTaxOf
<1>2. DueTaxOf(x, rules) \in Nat /\ DueTaxOf(y, rules) \in Nat /\ DueTaxOf(z, rules) \in Nat BY <1>0, <1>1
<1> QED BY <1>0, <1>2 DEF Steady

(* and over all four.                                                      *)
LEMMA AlwaysSteady ==
  ASSUME NEW rules, Sound(rules), NEW x, NEW y, Whole(x), Whole(y), x <= y, y <= Unlimited
  PROVE  Steady(x, y, rules)
<1>0. x \in Nat /\ y \in Nat BY DEF Whole
<1> DEFINE l1 == 500000000
           l2 == 1000000000
           l3 == 2000000000
<1>1. Whole(l1) /\ Whole(l2) /\ Whole(l3) /\ l1 <= l2 /\ l2 <= l3 /\ l3 <= Unlimited /\ l1 <= Unlimited
        /\ l2 <= Unlimited
  BY SMT DEF Whole, Unlimited
<1>2. \A v, w : Whole(v) /\ Whole(w) /\ v <= w /\ w <= Unlimited
                /\ (w <= l1 \/ (v >= l1 /\ w <= l2) \/ (v >= l2 /\ w <= l3) \/ v >= l3) => Steady(v, w, rules)
  BY SMT, SteadyInRow
<1>3. \A v, m, w : Whole(v) /\ Whole(m) /\ Whole(w) /\ v <= m /\ m <= w /\ w <= Unlimited
                   /\ Steady(v, m, rules) /\ Steady(m, w, rules) => Steady(v, w, rules)
  BY SteadyChain
<1>4. l1 \in Nat /\ l2 \in Nat /\ l3 \in Nat BY SMT
<1>5. \A w : Whole(w) => w \in Nat BY DEF Whole
<1> HIDE DEF l1, l2, l3
<1>6. \A w : Whole(w) /\ x <= w /\ w <= l2 /\ w <= Unlimited => Steady(x, w, rules)
  <2> SUFFICES ASSUME NEW w, Whole(w), x <= w, w <= l2, w <= Unlimited PROVE Steady(x, w, rules) OBVIOUS
  <2>0. w \in Nat BY <1>5
  <2>1. CASE w <= l1 \/ x >= l1 BY <1>2, <2>1
  <2>2. CASE x < l1 /\ l1 < w
    <3>1. x <= l1 /\ l1 <= w /\ l1 <= l1 /\ l1 >= l1 BY <1>0, <1>4, <2>0, <2>2
    <3>2. Steady(x, l1, rules) BY <1>1, <1>2, <3>1
    <3>3. Steady(l1, w, rules) BY <1>1, <1>2, <3>1
    <3> QED BY <1>1, <1>3, <3>1, <3>2, <3>3
  <2> QED BY <1>0, <1>4, <2>0, <2>1, <2>2
<1>7. \A w : Whole(w) /\ x <= w /\ w <= l3 /\ w <= Unlimited => Steady(x, w, rules)
  <2> SUFFICES ASSUME NEW w, Whole(w), x <= w, w <= l3, w <= Unlimited PROVE Steady(x, w, rules) OBVIOUS
  <2>0. w \in Nat BY <1>5
  <2>1. CASE w <= l2 BY <1>6, <2>1
  <2>2. CASE x >= l2 BY <1>2, <2>2
  <2>3. CASE x < l2 /\ l2 < w
    <3>1. x <= l2 /\ l2 <= w /\ l2 <= l2 /\ l2 >= l2 BY <1>0, <1>4, <2>0, <2>3
    <3>2. Steady(x, l2, rules) BY <1>1, <1>6, <3>1
    <3>3. Steady(l2, w, rules) BY <1>1, <1>2, <3>1
    <3> QED BY <1>1, <1>3, <3>1, <3>2, <3>3
  <2> QED BY <1>0, <1>4, <2>0, <2>1, <2>2, <2>3
<1>8. CASE y <= l3 BY <1>7, <1>8
<1>9. CASE x >= l3 BY <1>2, <1>9
<1>10. CASE x < l3 /\ l3 < y
  <2>1. x <= l3 /\ l3 <= y /\ l3 <= l3 /\ l3 >= l3 BY <1>0, <1>4, <1>10
  <2>2. Steady(x, l3, rules) BY <1>1, <1>7, <2>1
  <2>3. Steady(l3, y, rules) BY <1>1, <1>2, <2>1
  <2> QED BY <1>1, <1>3, <2>1, <2>2, <2>3
<1> QED BY <1>0, <1>4, <1>8, <1>9, <1>10

-----------------------------------------------------------------------------
(* No raise costs more in tax before cess than it brings.                  *)
LEMMA TaxableGrows ==
  ASSUME NEW g \in Nat, NEW h \in Nat, g <= h, NEW given, given.sec80c \in Nat, given.sec80d \in Nat, NEW rules,
         rules.standard \in Nat, rules.sec80c \in Nat, rules.sec80d \in Nat
  PROVE  /\ Taxable(g, given, rules) <= Taxable(h, given, rules)
         /\ Taxable(h, given, rules) - Taxable(g, given, rules) <= h - g
<1>1. PICK s \in Nat : s = rules.standard OBVIOUS
<1>2. PICK b \in Nat : b = AtMost(given.sec80c, rules.sec80c) BY DEF AtMost
<1>3. PICK d \in Nat : d = AtMost(given.sec80d, rules.sec80d) BY DEF AtMost
<1>4. /\ Taxable(g, given, rules) = NotBelow(g, AtMost(g, s) + b + d)
      /\ Taxable(h, given, rules) = NotBelow(h, AtMost(h, s) + b + d)
  BY <1>1, <1>2, <1>3 DEF Taxable
<1> QED BY <1>4 DEF NotBelow, AtMost

(* What is taxed grows by no more than the gross, and the tax by no more   *)
(* than that.                                                              *)
LEMMA RaiseOf ==
  ASSUME NEW rules, Sound(rules), NEW given, NEW g, NEW h, Whole(g), Whole(h), g <= h,
         given.sec80c \in Nat, given.sec80d \in Nat,
         rules.standard \in Nat, rules.sec80c \in Nat, rules.sec80d \in Nat,
         Whole(Taxable(g, given, rules)), Whole(Taxable(h, given, rules)), Taxable(h, given, rules) <= Unlimited
  PROVE  Steady(Taxable(g, given, rules), Taxable(h, given, rules), rules)
         /\ Taxable(h, given, rules) - Taxable(g, given, rules) <= h - g
<1>1. g \in Nat /\ h \in Nat BY DEF Whole
<1>2. /\ Taxable(g, given, rules) <= Taxable(h, given, rules)
      /\ Taxable(h, given, rules) - Taxable(g, given, rules) <= h - g
  BY <1>1, TaxableGrows
<1> QED BY <1>2, AlwaysSteady

(* By regime and year.                                                     *)
LEMMA RaiseBrings ==
  ASSUME NEW g, NEW h, Whole(g), Whole(h), g <= h, h <= Unlimited,
         NEW y \in Years, NEW c, Whole(c.sec80c), Whole(c.sec80d),
         NEW regime \in Regimes, NEW rules, rules = get_tax_rule_set(y, regime),
         NEW given, given = IF regime = "OLD" THEN c ELSE NoClaims,
         NEW before \in calculate_tax(g, given, rules), NEW after \in calculate_tax(h, given, rules)
  PROVE  after.beforeCess - before.beforeCess <= h - g
<1>0. g \in Nat /\ h \in Nat /\ g <= Unlimited BY SMT DEF Whole, Unlimited
<1>1. ASSUME Sound(rules), given.sec80c \in Nat, given.sec80d \in Nat,
             rules.standard \in Nat, rules.sec80c \in Nat, rules.sec80d \in Nat,
             Whole(Taxable(g, given, rules)), Whole(Taxable(h, given, rules)), Taxable(h, given, rules) <= h,
             calculate_tax(g, given, rules) = {Liability(Taxable(g, given, rules), rules)},
             calculate_tax(h, given, rules) = {Liability(Taxable(h, given, rules), rules)},
             DueTaxOf(Taxable(g, given, rules), rules) \in Nat, DueTaxOf(Taxable(h, given, rules), rules) \in Nat
      PROVE  after.beforeCess - before.beforeCess <= h - g
  <2> DEFINE x == Taxable(g, given, rules)
             z == Taxable(h, given, rules)
  <2>1. x \in Nat /\ z \in Nat BY <1>1 DEF Whole
  <2>2. z <= Unlimited
    <3> HIDE DEF z
    <3>1. z <= h BY <1>1 DEF z
    <3> QED BY SMT, <1>0, <2>1, <3>1 DEF Unlimited
  <2>3. Steady(x, z, rules) /\ z - x <= h - g BY <1>1, <2>2, RaiseOf
  <2>4. after.beforeCess = DueTaxOf(z, rules) /\ before.beforeCess = DueTaxOf(x, rules) BY <1>1 DEF Liability
  <2>5. DueTaxOf(x, rules) \in Nat /\ DueTaxOf(z, rules) \in Nat BY <1>1
  <2> HIDE DEF x, z
  <2> QED BY <1>0, <2>1, <2>3, <2>4, <2>5 DEF Steady
<1>2. CASE regime = "NEW" /\ y = "2024-25"
  <2>1. rules = NEW_RULES_2425 /\ given = NoClaims BY <1>2 DEF get_tax_rule_set
  <2>2. PICK standard : standard = NEW_RULES_2425.standard /\ Whole(standard) BY SMT, New2425Rules DEF Whole
  <2>3. NEW_RULES_2425.sec80c \in Nat /\ NEW_RULES_2425.sec80d \in Nat /\ NEW_RULES_2425.standard \in Nat
    BY SMT, New2425Rules
  <2>4. NoClaims.sec80c \in Nat /\ NoClaims.sec80d \in Nat BY DEF NoClaims
  <2>5. /\ Whole(Taxable(g, NoClaims, NEW_RULES_2425)) /\ Taxable(g, NoClaims, NEW_RULES_2425) <= g
        /\ Whole(Taxable(h, NoClaims, NEW_RULES_2425)) /\ Taxable(h, NoClaims, NEW_RULES_2425) <= h
    BY <2>2, <2>3, TaxableWithoutClaims
  <2>6. /\ Taxable(g, NoClaims, NEW_RULES_2425) \in Nat /\ Taxable(h, NoClaims, NEW_RULES_2425) \in Nat
        /\ Taxable(g, NoClaims, NEW_RULES_2425) <= Unlimited /\ Taxable(h, NoClaims, NEW_RULES_2425) <= Unlimited
    BY SMT, <1>0, <2>5 DEF Whole, Unlimited
  <2>7. /\ calculate_tax(g, NoClaims, NEW_RULES_2425)
             = {Liability(Taxable(g, NoClaims, NEW_RULES_2425), NEW_RULES_2425)}
        /\ calculate_tax(h, NoClaims, NEW_RULES_2425)
             = {Liability(Taxable(h, NoClaims, NEW_RULES_2425), NEW_RULES_2425)}
        /\ DueTaxOf(Taxable(g, NoClaims, NEW_RULES_2425), NEW_RULES_2425) \in Nat
             /\ DueTaxOf(Taxable(h, NoClaims, NEW_RULES_2425), NEW_RULES_2425) \in Nat
    BY <2>5, <2>6, New2425Liability
  <2> QED BY <1>1, <2>1, <2>3, <2>4, <2>5, <2>7, RulesSound
<1>3. CASE regime = "NEW" /\ y # "2024-25"
  <2>1. rules = NEW_RULES /\ given = NoClaims BY <1>3 DEF get_tax_rule_set
  <2>2. PICK standard : standard = NEW_RULES.standard /\ Whole(standard) BY SMT, NewRules DEF Whole
  <2>3. NEW_RULES.sec80c \in Nat /\ NEW_RULES.sec80d \in Nat /\ NEW_RULES.standard \in Nat BY SMT, NewRules
  <2>4. NoClaims.sec80c \in Nat /\ NoClaims.sec80d \in Nat BY DEF NoClaims
  <2>5. /\ Whole(Taxable(g, NoClaims, NEW_RULES)) /\ Taxable(g, NoClaims, NEW_RULES) <= g
        /\ Whole(Taxable(h, NoClaims, NEW_RULES)) /\ Taxable(h, NoClaims, NEW_RULES) <= h
    BY <2>2, <2>3, TaxableWithoutClaims
  <2>6. /\ Taxable(g, NoClaims, NEW_RULES) \in Nat /\ Taxable(h, NoClaims, NEW_RULES) \in Nat
        /\ Taxable(g, NoClaims, NEW_RULES) <= Unlimited /\ Taxable(h, NoClaims, NEW_RULES) <= Unlimited
    BY SMT, <1>0, <2>5 DEF Whole, Unlimited
  <2>7. /\ calculate_tax(g, NoClaims, NEW_RULES) = {Liability(Taxable(g, NoClaims, NEW_RULES), NEW_RULES)}
        /\ calculate_tax(h, NoClaims, NEW_RULES) = {Liability(Taxable(h, NoClaims, NEW_RULES), NEW_RULES)}
        /\ DueTaxOf(Taxable(g, NoClaims, NEW_RULES), NEW_RULES) \in Nat
             /\ DueTaxOf(Taxable(h, NoClaims, NEW_RULES), NEW_RULES) \in Nat
    BY <2>5, <2>6, NewLiability
  <2> QED BY <1>1, <2>1, <2>3, <2>4, <2>5, <2>7, RulesSound
<1>4. CASE regime = "OLD"
  <2>1. rules = OLD_RULES /\ given = c BY <1>4 DEF get_tax_rule_set
  <2>3. OLD_RULES.sec80c \in Nat /\ OLD_RULES.sec80d \in Nat /\ OLD_RULES.standard \in Nat BY SMT, OldRules
  <2>4. c.sec80c \in Nat /\ c.sec80d \in Nat BY DEF Whole
  <2>5. /\ Whole(Taxable(g, c, OLD_RULES)) /\ Taxable(g, c, OLD_RULES) <= g
        /\ Whole(Taxable(h, c, OLD_RULES)) /\ Taxable(h, c, OLD_RULES) <= h
    BY SMT, TaxableWithClaims
  <2>6. /\ Taxable(g, c, OLD_RULES) \in Nat /\ Taxable(h, c, OLD_RULES) \in Nat
        /\ Taxable(g, c, OLD_RULES) <= Unlimited /\ Taxable(h, c, OLD_RULES) <= Unlimited
    BY SMT, <1>0, <2>5 DEF Whole, Unlimited
  <2>7. /\ calculate_tax(g, c, OLD_RULES) = {Liability(Taxable(g, c, OLD_RULES), OLD_RULES)}
        /\ calculate_tax(h, c, OLD_RULES) = {Liability(Taxable(h, c, OLD_RULES), OLD_RULES)}
        /\ DueTaxOf(Taxable(g, c, OLD_RULES), OLD_RULES) \in Nat
             /\ DueTaxOf(Taxable(h, c, OLD_RULES), OLD_RULES) \in Nat
    BY <2>5, <2>6, OldLiability
  <2> QED BY <1>1, <2>1, <2>3, <2>4, <2>5, <2>7, RulesSound
<1> QED BY <1>2, <1>3, <1>4 DEF Regimes

(* No raise that calculate_what_if_raises tries costs more in tax before   *)
(* cess than it brings, in either regime and with any claims: marginal     *)
(* relief smooths every limit the raise may cross, and there may be        *)
(* several.                                                                *)
THEOREM RaisesAlwaysPay == SalarySpec => RaisesPay
<1>1. ASSUME SalaryTypeOK, [SalaryNext]_salaryVars
      PROVE  [RaisePays]_salaryVars
  <2>1. ASSUME NEW raise \in Raises, WhatIf(raise)
        PROVE  RaisePays
    <3>1. gross = base /\ gross' = base + raise BY <2>1 DEF WhatIf
    <3>2. Whole(base) /\ Whole(raise) /\ base + raise <= Unlimited BY <1>1, SalariesAssumption DEF SalaryTypeOK
    <3>3. Whole(gross) /\ Whole(gross') /\ gross <= gross' /\ gross' <= Unlimited BY <3>1, <3>2 DEF Whole
    <3>4. year \in Years /\ Whole(claims.sec80c) /\ Whole(claims.sec80d) BY <1>1, Ranges DEF SalaryTypeOK
    <3>5. ASSUME NEW regime \in Regimes, NEW before \in TaxOf(gross, regime), NEW after \in TaxOf(gross', regime)
          PROVE  after.beforeCess - before.beforeCess <= gross' - gross
      <4>1. /\ before \in calculate_tax(gross, Given(regime), Rules(regime))
            /\ after \in calculate_tax(gross', Given(regime), Rules(regime))
        BY DEF TaxOf
      <4>2. /\ Rules(regime) = get_tax_rule_set(year, regime)
            /\ Given(regime) = IF regime = "OLD" THEN claims ELSE NoClaims
        BY DEF Rules, Given
      <4> QED BY <3>3, <3>4, <4>1, <4>2, RaiseBrings
    <3> QED BY <3>5 DEF RaisePays
  <2> QED BY <1>1, <2>1 DEF SalaryNext
<1> QED BY <1>1, SalaryInvariant, PTL DEF SalarySpec, RaisesPay

-----------------------------------------------------------------------------
(* Without claims the new regime is never dearer.                          *)
LEMMA DueTaxGrows ==
  ASSUME NEW x \in Nat, NEW t \in Nat, NEW u \in Nat, t <= u
  PROVE  DueTax(x, t) <= DueTax(x, u)
<1>1. CASE x <= 500000000 BY SMT, <1>1 DEF DueTax
<1>2. CASE x > 500000000 /\ x <= 1000000000
  <2> DEFINE e == x - 500000000
  <2>1. e \in Nat /\ DueTax(x, t) = Due(t, e, 10, 0) /\ DueTax(x, u) = Due(u, e, 10, 0) BY SMT, <1>2 DEF DueTax
  <2> HIDE DEF e
  <2>2. Due(t, e, 10, 0) <= Due(u, e, 10, 0) BY SMT, <2>1, DueGrows
  <2> QED BY SMT, <2>1, <2>2
<1>3. CASE x > 1000000000 /\ x <= 2000000000
  <2> DEFINE e == x - 1000000000
  <2>1. e \in Nat /\ DueTax(x, t) = Due(t, e, 15, 10) /\ DueTax(x, u) = Due(u, e, 15, 10) BY SMT, <1>3 DEF DueTax
  <2> HIDE DEF e
  <2>2. Due(t, e, 15, 10) <= Due(u, e, 15, 10) BY SMT, <2>1, DueGrows
  <2> QED BY SMT, <2>1, <2>2
<1>4. CASE x > 2000000000
  <2> DEFINE e == x - 2000000000
  <2>1. e \in Nat /\ DueTax(x, t) = Due(t, e, 25, 15) /\ DueTax(x, u) = Due(u, e, 25, 15) BY SMT, <1>4 DEF DueTax
  <2> HIDE DEF e
  <2>2. Due(t, e, 25, 15) <= Due(u, e, 25, 15) BY SMT, <2>1, DueGrows
  <2> QED BY SMT, <2>1, <2>2
<1> QED BY SMT, <1>1, <1>2, <1>3, <1>4

(* On the same income the new regime's tax is no more than the old one's,  *)
LEMMA NewBelowOld ==
  ASSUME NEW x, Whole(x), x <= Unlimited
  PROVE  TaxAfterRebate(x, NEW_RULES) <= TaxAfterRebate(x, OLD_RULES)
<1>0. x \in Nat BY DEF Whole
<1>1. PICK t : t = SlabTax(x, NEW_SLABS) OBVIOUS
<1>2. PICK u : u = SlabTax(x, OLD_SLABS) OBVIOUS
<1>3. t \in Nat /\ TaxAfterRebate(x, NEW_RULES) = AfterLimit(x, t, 120000000) BY SMT, <1>1, NewTax
<1>4. u \in Nat /\ TaxAfterRebate(x, OLD_RULES) = AfterLimit(x, u, 50000000) BY SMT, <1>2, OldTax
<1>5. t <= u BY SMTT(30), <1>0, <1>1, <1>2, <1>3, <1>4, NewSlabTax, OldSlabTax
<1> QED BY SMT, <1>0, <1>3, <1>4, <1>5 DEF AfterLimit, AtMost

(* nor was it the year before.                                             *)
LEMMA New2425BelowOld ==
  ASSUME NEW x, Whole(x), x <= Unlimited
  PROVE  TaxAfterRebate(x, NEW_RULES_2425) <= TaxAfterRebate(x, OLD_RULES)
<1>0. x \in Nat BY DEF Whole
<1>1. PICK t : t = SlabTax(x, NEW_SLABS_2425) OBVIOUS
<1>2. PICK u : u = SlabTax(x, OLD_SLABS) OBVIOUS
<1>3. t \in Nat /\ TaxAfterRebate(x, NEW_RULES_2425) = AfterLimit(x, t, 70000000) BY SMT, <1>1, New2425Tax
<1>4. u \in Nat /\ TaxAfterRebate(x, OLD_RULES) = AfterLimit(x, u, 50000000) BY SMT, <1>2, OldTax
<1>5. t <= u BY SMTT(30), <1>0, <1>1, <1>2, <1>3, <1>4, New2425SlabTax, OldSlabTax
<1> QED BY SMT, <1>0, <1>3, <1>4, <1>5 DEF AfterLimit, AtMost

(* And less income, surcharge, cess and rounding leave it so.              *)
LEMMA ComparedTax ==
  ASSUME NEW rules, Sound(rules), NEW x, NEW z, Whole(x), Whole(z), x <= z, z <= Unlimited,
         TaxAfterRebate(z, rules) <= TaxAfterRebate(z, OLD_RULES)
  PROVE  FinalTax(x, rules) \in Nat /\ FinalTax(z, OLD_RULES) \in Nat /\ FinalTax(x, rules) <= FinalTax(z, OLD_RULES)
<1>0. x \in Nat /\ z \in Nat /\ x <= Unlimited BY SMT DEF Whole, Unlimited
<1>1. /\ TaxAfterRebate(x, rules) \in Nat /\ TaxAfterRebate(z, rules) \in Nat
      /\ TaxAfterRebate(z, OLD_RULES) \in Nat
  BY <1>0, RulesSound, SoundAt
<1>2. PICK a \in Nat : a = DueTaxOf(x, rules) BY <1>0, <1>1, DueTaxNat DEF DueTaxOf
<1>3. PICK b \in Nat : b = DueTaxOf(z, rules) BY <1>0, <1>1, DueTaxNat DEF DueTaxOf
<1>4. PICK c \in Nat : c = DueTaxOf(z, OLD_RULES) BY <1>0, <1>1, DueTaxNat DEF DueTaxOf
<1>5. a <= b
  <2>1. Steady(x, z, rules) BY AlwaysSteady
  <2> QED BY <1>2, <1>3, <2>1 DEF Steady
<1>6. b <= c BY <1>0, <1>1, <1>3, <1>4, DueTaxGrows DEF DueTaxOf
<1>7. a <= c BY <1>5, <1>6
<1>8. PICK p \in Nat : p = Oracle!Percent(a, 4) BY PercentBounds
<1>9. PICK q \in Nat : q = Oracle!Percent(c, 4) BY PercentBounds
<1>10. p <= q BY <1>7, <1>8, <1>9, PercentMonotone
<1>11. a + p \in Nat /\ c + q \in Nat /\ a + p <= c + q BY <1>7, <1>10
<1>12. NearestTen(a + p) \in Nat /\ NearestTen(c + q) \in Nat /\ NearestTen(a + p) <= NearestTen(c + q)
  <2>a. PICK m \in Nat : m = a + p BY <1>11
  <2>b. PICK n \in Nat : n = c + q BY <1>11
  <2>1. NearestTen(m) \in Nat /\ NearestTen(n) \in Nat BY NearestTenIs, SMT
  <2>2. m <= n BY <1>11, <2>a, <2>b
  <2>3. NearestTen(m) <= NearestTen(n) BY <2>2, NearestTenMonotone
  <2> QED BY <2>1, <2>3, <2>a, <2>b
<1> QED BY <1>2, <1>4, <1>8, <1>9, <1>12 DEF FinalTax

(* compare_regimes, which passes no claims on, recommends the new regime   *)
(* for every salary.                                                       *)
THEOREM ComparisonAlwaysFavoursNew == SalarySpec => []ComparisonFavoursNew
<1>1. ASSUME SalaryTypeOK PROVE ComparisonFavoursNew
  <2>0. Whole(gross) /\ gross <= Unlimited /\ gross \in Nat /\ year \in Years BY <1>1, Ranges DEF Whole, SalaryTypeOK
  <2>1. Whole(NoClaims.sec80c) /\ Whole(NoClaims.sec80d) BY DEF NoClaims, Whole
  <2>2. ASSUME NEW rules \in {NEW_RULES, NEW_RULES_2425},
               NEW old \in calculate_tax(gross, NoClaims, OLD_RULES),
               NEW new \in calculate_tax(gross, NoClaims, rules)
        PROVE  Recommended(old.total, new.total) = "NEW"
    <3> DEFINE x == Taxable(gross, NoClaims, rules)
               z == Taxable(gross, NoClaims, OLD_RULES)
    <3>1. Whole(z) /\ z <= gross BY SMT, <2>0, <2>1, TaxableWithClaims
    <3>2. /\ rules.standard = 7500000 /\ rules.sec80c = 0 /\ rules.sec80d = 0
      BY SMT, NewRules, New2425Rules
    <3>3. Whole(x) /\ x <= gross
      <4>1. Whole(rules.standard) /\ rules.sec80c \in Nat /\ rules.sec80d \in Nat BY SMT, <3>2 DEF Whole
      <4> QED BY <2>0, <4>1, TaxableWithoutClaims
    <3>4. x <= z
      <4>1. NoClaims.sec80c = 0 /\ NoClaims.sec80d = 0 BY DEF NoClaims
      <4>2. x = NotBelow(gross, AtMost(gross, 7500000)) BY SMT, <2>0, <3>2, <4>1 DEF Taxable, AtMost, NotBelow
      <4>3. z = NotBelow(gross, AtMost(gross, 5000000)) BY SMT, <2>0, OldRules, <4>1 DEF Taxable, AtMost, NotBelow
      <4> HIDE DEF x, z
      <4> QED BY SMT, <2>0, <4>2, <4>3 DEF AtMost, NotBelow
    <3>5. x \in Nat /\ z \in Nat /\ x <= Unlimited /\ z <= Unlimited
      <4> HIDE DEF x, z
      <4> QED BY SMT, <2>0, <3>1, <3>3 DEF Whole, Unlimited
    <3>6. calculate_tax(gross, NoClaims, rules) = {Liability(x, rules)}
      <4>1. CASE rules = NEW_RULES BY <3>3, <3>5, <4>1, NewLiability
      <4>2. CASE rules = NEW_RULES_2425 BY <3>3, <3>5, <4>2, New2425Liability
      <4> QED BY <4>1, <4>2
    <3>7. calculate_tax(gross, NoClaims, OLD_RULES) = {Liability(z, OLD_RULES)} BY <3>1, <3>5, OldLiability
    <3>8. old.total = FinalTax(z, OLD_RULES) /\ new.total = FinalTax(x, rules) BY <3>6, <3>7 DEF Liability
    <3> HIDE DEF x, z
    <3>9. Sound(rules) /\ TaxAfterRebate(z, rules) <= TaxAfterRebate(z, OLD_RULES)
      BY <3>1, <3>5, RulesSound, NewBelowOld, New2425BelowOld
    <3>10. FinalTax(x, rules) \in Nat /\ FinalTax(z, OLD_RULES) \in Nat
             /\ FinalTax(x, rules) <= FinalTax(z, OLD_RULES)
      BY <3>1, <3>3, <3>4, <3>5, <3>9, ComparedTax
    <3>11. ~(old.total < new.total) BY <3>8, <3>10
    <3> QED BY <3>11 DEF Recommended
  <2>3. Rules("OLD") = OLD_RULES /\ Rules("NEW") \in {NEW_RULES, NEW_RULES_2425} BY <2>0, RulesOf
  <2> QED BY <2>2, <2>3 DEF ComparisonFavoursNew
<1> QED BY <1>1, SalaryInvariant, PTL
=============================================================================
