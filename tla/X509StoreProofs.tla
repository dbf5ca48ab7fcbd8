--------------------------- MODULE X509StoreProofs ---------------------------
(***************************************************************************)
(* The proofs about X509Store: that the sorted revocations are searched    *)
(* right wherever their order is one, that what is cached stays sound      *)
(* while certificates are added and paths validated, and from both that    *)
(* what validate_cert says is right.                                       *)
(***************************************************************************)
EXTENDS X509Store, FiniteRecursion

-----------------------------------------------------------------------------
(* Least and greatest numbers.                                             *)

LEMMA MinIs ==
  ASSUME NEW S \in SUBSET Nat, S # {}
  PROVE  Min(S) \in S /\ \A y \in S : Min(S) <= y
<1>1. PICK m : m = Min(S)
  OBVIOUS
<1>2. m = CHOOSE x \in S : \A y \in S : x <= y
  BY <1>1, Zenon DEF Min
<1>3. \E x \in S : \A y \in S : x <= y
  BY ONLY S \in SUBSET Nat, S # {}, LeastNatural
<1>4. m \in S /\ \A y \in S : m <= y
  BY ONLY <1>2, <1>3, Zenon
<1>5. QED
  BY ONLY <1>1, <1>4, Zenon

LEMMA MinEquals ==
  ASSUME NEW S \in SUBSET Nat, NEW m \in S, \A y \in S : m <= y
  PROVE  Min(S) = m
<1>1. PICK x \in S : x = Min(S) /\ x <= m
  BY MinIs
<1>2. x \in Nat /\ m \in Nat /\ m <= x
  OBVIOUS
<1>3. QED
  BY <1>1, <1>2

LEMMA MaxIs ==
  ASSUME NEW n \in Nat, NEW S \in SUBSET (0 .. n), S # {}
  PROVE  Max(S) \in S /\ \A y \in S : y <= Max(S)
<1>1. PICK T : T = {n - x : x \in S}
  OBVIOUS
<1>2. T \in SUBSET Nat /\ T # {}
  <2>1. \A x \in S : x \in 0 .. n /\ n - x \in Nat
    OBVIOUS
  <2>2. QED
    BY <1>1, <2>1
<1>3. PICK t \in T : \A y \in T : t <= y
  BY <1>2, LeastNatural
<1>4. PICK x \in S : t = n - x
  BY <1>1, <1>3
<1>5. \A y \in S : y <= x
  <2> SUFFICES ASSUME NEW y \in S PROVE y <= x
    OBVIOUS
  <2>1. n - y \in T
    BY <1>1
  <2>2. n - x <= n - y
    BY <1>3, <1>4, <2>1
  <2>3. x \in 0 .. n /\ y \in 0 .. n
    OBVIOUS
  <2>4. QED
    BY ONLY <2>2, <2>3, n \in Nat
<1>6. PICK m : m = Max(S)
  OBVIOUS
<1>7. m = CHOOSE z \in S : \A y \in S : z >= y
  BY <1>6, Zenon DEF Max
<1>8. \A z, y \in S : z >= y <=> y <= z
  OBVIOUS
<1>9. \E z \in S : \A y \in S : z >= y
  BY <1>5, <1>8
<1>10. m \in S /\ \A y \in S : m >= y
  BY ONLY <1>7, <1>9, Zenon
<1>11. QED
  BY <1>6, <1>8, <1>10

-----------------------------------------------------------------------------
(* The order of revocations.                                               *)

(* What a name is, for the provers.                                        *)
LEMMA NamesAre ==
  ASSUME NEW x \in Names
  PROVE  /\ x \in Seq([oid : Nat, value : DOMAIN Folded]) /\ Len(x) \in Nat /\ DOMAIN x = 1 .. Len(x)
         /\ \A i \in DOMAIN x : x[i].oid \in Nat /\ x[i].value \in DOMAIN Folded /\ x[i].value \in Nat
<1>1. x \in Seq([oid : Nat, value : DOMAIN Folded])
  BY DEF Names
<1>2. \A i \in DOMAIN x : x[i] \in [oid : Nat, value : DOMAIN Folded]
  <2>1. PICK R : R = [oid : Nat, value : DOMAIN Folded]
    OBVIOUS
  <2>2. x \in Seq(R)
    BY <1>1, <2>1
  <2>3. \A i \in DOMAIN x : x[i] \in R
    BY ONLY <2>2
  <2>4. QED
    BY <2>1, <2>3
<1>3. DOMAIN Folded \subseteq Nat
  BY StoreAssumption
<1>4. QED
  BY <1>1, <1>2, <1>3

LEMMA WrittenAlikeSym ==
  ASSUME NEW x \in Names, NEW y \in Names, WrittenAlike(x, y)
  PROVE  WrittenAlike(y, x)
<1>1. /\ Len(x) \in Nat /\ Len(y) \in Nat
      /\ DOMAIN x = 1 .. Len(x) /\ DOMAIN y = 1 .. Len(y)
  BY NamesAre
<1>2. SUFFICES ASSUME Len(y) = Len(x)
               PROVE  /\ \A i \in DOMAIN y : y[i].oid = x[i].oid
                      /\ \A i, k \in DOMAIN y : y[i].oid = y[k].oid => i = k
                      /\ SameDN(y, x) => y = x
  BY DEF WrittenAlike
<1>3. DOMAIN x = DOMAIN y
  BY <1>1, <1>2
<1>4. /\ \A i \in DOMAIN x : x[i].oid = y[i].oid
      /\ \A i, k \in DOMAIN x : x[i].oid = x[k].oid => i = k
      /\ SameDN(x, y) => x = y
  BY <1>2 DEF WrittenAlike
<1>5. SameDN(y, x) => SameDN(x, y)
  BY <1>2, <1>3, <1>4 DEF SameDN, x500_name_cmp
<1>6. QED
  BY <1>3, <1>4, <1>5

(* Between names written alike the order is lexicographic.                 *)
FirstLess(x, y) ==
  \E i \in 1 .. Len(x) : x[i].value < y[i].value /\ \A k \in 1 .. Len(x) : k < i => x[k].value = y[k].value

LEMMA BeforeDNIs ==
  ASSUME NEW x \in Names, NEW y \in Names, WrittenAlike(x, y), Len(x) = Len(y)
  PROVE  BeforeDN(x, y) <=> FirstLess(x, y)
<1>1. PICK n \in Nat : n = Len(x) /\ n = Len(y) /\ DOMAIN x = 1 .. n /\ DOMAIN y = 1 .. n
  BY NamesAre
<1>2. /\ \A i \in 1 .. n : x[i].oid = y[i].oid
      /\ \A i, k \in 1 .. n : x[i].oid = x[k].oid => i = k
  BY <1>1 DEF WrittenAlike
<1>3. \A i, j \in 1 .. n : j \in FirstOf(y, x[i].oid) <=> j = i
  <2> SUFFICES ASSUME NEW i \in 1 .. n, NEW j \in 1 .. n
               PROVE  j \in FirstOf(y, x[i].oid) <=> j = i
    OBVIOUS
  <2>1. j \in FirstOf(y, x[i].oid) <=> y[j].oid = x[i].oid /\ \A k \in 1 .. j - 1 : y[k].oid # x[i].oid
    BY <1>1 DEF FirstOf
  <2>2. y[j].oid = x[i].oid <=> j = i
    BY <1>2
  <2>3. \A k \in 1 .. i - 1 : k \in 1 .. n /\ k # i
    BY <1>1
  <2>4. \A k \in 1 .. i - 1 : y[k].oid # x[i].oid
    BY <1>2, <2>3
  <2>5. QED
    BY <2>1, <2>2, <2>4
<1>4. \A i \in 1 .. n : FirstOf(y, x[i].oid) = {i}
  <2>1. \A i \in 1 .. n : FirstOf(y, x[i].oid) \subseteq 1 .. n
    BY <1>1 DEF FirstOf
  <2>2. QED
    BY <1>3, <2>1
<1>5. BeforeDN(x, y) <=>
        \E i \in 1 .. n :
          /\ \E j \in FirstOf(y, x[i].oid) : x[i].value < y[j].value
          /\ \A k \in 1 .. i - 1 : \E j \in FirstOf(y, x[k].oid) : x[k].value = y[j].value
  BY <1>1 DEF BeforeDN
<1>6. \A i \in 1 .. n :
        /\ (\E j \in FirstOf(y, x[i].oid) : x[i].value < y[j].value) <=> x[i].value < y[i].value
        /\ (\E j \in FirstOf(y, x[i].oid) : x[i].value = y[j].value) <=> x[i].value = y[i].value
  BY <1>4
<1>7. \A i \in 1 .. n : \A k : k \in 1 .. i - 1 <=> k \in 1 .. n /\ k < i
  BY <1>1
<1>8. \A i \in 1 .. n :
        (\A k \in 1 .. i - 1 : \E j \in FirstOf(y, x[k].oid) : x[k].value = y[j].value)
        <=> (\A k \in 1 .. n : k < i => x[k].value = y[k].value)
  BY <1>6, <1>7
<1>9. QED
  BY <1>1, <1>5, <1>6, <1>8 DEF FirstLess

LEMMA FirstLessOrders ==
  ASSUME NEW n \in Nat, NEW x \in Names, NEW y \in Names, NEW z \in Names,
         Len(x) = n, Len(y) = n, Len(z) = n
  PROVE  /\ FirstLess(x, y) => ~FirstLess(y, x)
         /\ FirstLess(x, y) /\ FirstLess(y, z) => FirstLess(x, z)
         /\ \/ FirstLess(x, y) \/ FirstLess(y, x)
            \/ \A k \in 1 .. n : x[k].value = y[k].value
<1>1. \A k \in 1 .. n : x[k].value \in Nat /\ y[k].value \in Nat /\ z[k].value \in Nat
  BY NamesAre
<1>2. ASSUME FirstLess(x, y), FirstLess(y, x) PROVE FALSE
  <2>1. PICK i \in 1 .. n : x[i].value < y[i].value /\ \A k \in 1 .. n : k < i => x[k].value = y[k].value
    BY <1>2 DEF FirstLess
  <2>2. PICK j \in 1 .. n : y[j].value < x[j].value /\ \A k \in 1 .. n : k < j => y[k].value = x[k].value
    BY <1>2 DEF FirstLess
  <2>3. i < j \/ j < i \/ i = j
    OBVIOUS
  <2>4. QED
    BY <1>1, <2>1, <2>2, <2>3
<1>3. ASSUME FirstLess(x, y), FirstLess(y, z) PROVE FirstLess(x, z)
  <2>1. PICK i \in 1 .. n : x[i].value < y[i].value /\ \A k \in 1 .. n : k < i => x[k].value = y[k].value
    BY <1>3 DEF FirstLess
  <2>2. PICK j \in 1 .. n : y[j].value < z[j].value /\ \A k \in 1 .. n : k < j => y[k].value = z[k].value
    BY <1>3 DEF FirstLess
  <2>3. PICK m \in 1 .. n : m = (IF i <= j THEN i ELSE j) /\ m <= i /\ m <= j
    OBVIOUS
  <2>4. \A k \in 1 .. n : k < m => k < i /\ k < j
    BY <2>3
  <2>5. \A k \in 1 .. n : k < m => x[k].value = z[k].value
    BY <2>1, <2>2, <2>4
  <2>6. x[m].value < z[m].value
    <3>1. i < j \/ j < i \/ i = j
      OBVIOUS
    <3>2. QED
      BY <1>1, <2>1, <2>2, <2>3, <3>1
  <2>7. QED
    BY <2>5, <2>6 DEF FirstLess
<1>4. PICK D : D = {k \in 1 .. n : x[k].value # y[k].value}
  OBVIOUS
<1>5. ASSUME D # {} PROVE FirstLess(x, y) \/ FirstLess(y, x)
  <2>1. D \in SUBSET Nat
    BY <1>4
  <2>2. PICK i \in D : \A k \in D : i <= k
    BY ONLY <1>5, <2>1, LeastNatural
  <2>3. \A k \in 1 .. n : k < i => x[k].value = y[k].value
    BY <1>4, <2>2
  <2>4. i \in 1 .. n /\ (x[i].value < y[i].value \/ y[i].value < x[i].value)
    BY <1>1, <1>4, <2>2
  <2>5. QED
    BY <2>3, <2>4 DEF FirstLess
<1>6. QED
  BY <1>2, <1>3, <1>4, <1>5

(* So it is a strict total order of the names.                             *)
LEMMA DNOrders ==
  ASSUME NEW x \in Names, NEW y \in Names, WrittenAlike(x, y)
  PROVE  /\ BeforeDN(x, y) => ~BeforeDN(y, x)
         /\ SameDN(x, y) <=> ~BeforeDN(x, y) /\ ~BeforeDN(y, x)
         /\ SameDN(x, y) => x = y
         /\ Len(x) < Len(y) => BeforeDN(x, y)
         /\ Len(x) = Len(y) => /\ BeforeDN(x, y) <=> FirstLess(x, y)
                               /\ BeforeDN(y, x) <=> FirstLess(y, x)
                               /\ FirstLess(x, y) \/ FirstLess(y, x) \/ x = y
<1>1. Len(x) \in Nat /\ Len(y) \in Nat /\ WrittenAlike(y, x)
  BY NamesAre, WrittenAlikeSym
<1>2. /\ Len(x) < Len(y) => BeforeDN(x, y) /\ ~BeforeDN(y, x) /\ ~SameDN(x, y)
      /\ Len(y) < Len(x) => BeforeDN(y, x) /\ ~BeforeDN(x, y) /\ ~SameDN(x, y)
  BY <1>1 DEF BeforeDN, SameDN
<1>3. Len(x) = Len(y) => /\ BeforeDN(x, y) <=> FirstLess(x, y)
                         /\ BeforeDN(y, x) <=> FirstLess(y, x)
  BY <1>1, BeforeDNIs
<1>4. ASSUME Len(x) = Len(y), \A k \in 1 .. Len(x) : x[k].value = y[k].value PROVE x = y
  <2>1. SameDN(x, y)
    BY <1>4, NamesAre DEF SameDN, WrittenAlike, x500_name_cmp
  <2>2. QED
    BY <1>4, <2>1 DEF WrittenAlike
<1>5. Len(x) = Len(y) => /\ FirstLess(x, y) => ~FirstLess(y, x)
                         /\ FirstLess(x, y) \/ FirstLess(y, x) \/ x = y
  BY <1>1, <1>4, FirstLessOrders
<1>6. SameDN(x, y) => Len(x) = Len(y) /\ x = y
  BY DEF SameDN, WrittenAlike
<1>7. ~FirstLess(x, x)
  BY <1>1, FirstLessOrders
<1>8. x = y => SameDN(x, y)
  BY DEF SameDN, x500_name_cmp
<1>9. CASE Len(x) = Len(y)
  <2>1. ~(Len(x) < Len(y))
    BY <1>1, <1>9
  <2>2. SameDN(x, y) <=> x = y
    BY <1>6, <1>8
  <2>3. x = y => ~FirstLess(x, y) /\ ~FirstLess(y, x)
    BY <1>7
  <2>4. QED
    BY <1>3, <1>5, <1>9, <2>1, <2>2, <2>3, Zenon
<1>10. CASE Len(x) # Len(y)
  BY <1>1, <1>2, <1>6, <1>10
<1>11. QED
  BY <1>9, <1>10

LEMMA DNOrderChains ==
  ASSUME NEW x \in Names, NEW y \in Names, NEW z \in Names,
         WrittenAlike(x, y), WrittenAlike(y, z), WrittenAlike(x, z), ~BeforeDN(y, x), ~BeforeDN(z, y)
  PROVE  ~BeforeDN(z, x)
<1>1. Len(x) \in Nat /\ Len(y) \in Nat /\ Len(z) \in Nat
      /\ WrittenAlike(y, x) /\ WrittenAlike(z, y) /\ WrittenAlike(z, x)
  BY NamesAre, WrittenAlikeSym
<1>2. ~(Len(y) < Len(x)) /\ ~(Len(z) < Len(y))
  BY <1>1, DNOrders
<1>3. CASE Len(x) < Len(z)
  BY <1>1, <1>3, DNOrders
<1>4. CASE ~(Len(x) < Len(z))
  <2>1. Len(x) = Len(y) /\ Len(y) = Len(z) /\ Len(x) = Len(z)
    BY <1>1, <1>2, <1>4
  <2>2. FirstLess(x, y) \/ x = y
    BY <2>1, DNOrders
  <2>3. ~FirstLess(z, y) /\ (BeforeDN(z, x) <=> FirstLess(z, x))
    BY <1>1, <2>1, DNOrders
  <2>4. FirstLess(z, x) /\ FirstLess(x, y) => FirstLess(z, y)
    BY <1>1, <2>1, FirstLessOrders
  <2>5. x = y => ~FirstLess(z, x)
    BY <2>3
  <2>6. QED
    BY <2>2, <2>3, <2>4, <2>5, Zenon
<1>5. QED
  BY <1>3, <1>4

(* Between revocations that are alike the order is lexicographic too.      *)
LEMMA AlikeSym ==
  ASSUME NEW a \in CRL_Data, NEW b \in CRL_Data, Alike(a, b)
  PROVE  Alike(b, a)
<1>1. a.issuer \in Names /\ b.issuer \in Names
  BY DEF CRL_Data
<1>2. QED
  BY <1>1, WrittenAlikeSym DEF Alike

LEMMA BeforeIs ==
  ASSUME NEW a \in CRL_Data, NEW b \in CRL_Data, Alike(a, b)
  PROVE  /\ Before(a, b) <=>
              \/ a.akid < b.akid
              \/ a.akid = b.akid /\ a.serial < b.serial
              \/ a.akid = b.akid /\ a.serial = b.serial /\ BeforeDN(a.issuer, b.issuer)
         /\ Same(a, b) <=> a.akid = b.akid /\ a.serial = b.serial /\ SameDN(a.issuer, b.issuer)
<1>1. /\ a.akid \in Nat /\ a.serial \in Nat /\ a.issuer \in Names /\ a.serial # 0
      /\ b.akid \in Nat /\ b.serial \in Nat /\ b.issuer \in Names /\ b.serial # 0
  BY DEF CRL_Data
<1>2. (a.akid = 0 <=> b.akid = 0)
  BY DEF Alike
<1>3. a.akid = b.akid /\ a.serial = b.serial =>
        (SameDN(a.issuer, b.issuer) => ~BeforeDN(a.issuer, b.issuer))
  <2> SUFFICES ASSUME a.akid = b.akid, a.serial = b.serial, SameDN(a.issuer, b.issuer)
               PROVE  ~BeforeDN(a.issuer, b.issuer)
    OBVIOUS
  <2>1. WrittenAlike(a.issuer, b.issuer)
    BY DEF Alike
  <2>2. QED
    BY <1>1, <2>1, DNOrders
<1>4. QED
  BY <1>1, <1>2, <1>3 DEF Before, Same, compare_ids

LEMMA BeforeOrders ==
  ASSUME NEW a \in CRL_Data, NEW b \in CRL_Data, NEW c \in CRL_Data, Alike(a, b), Alike(b, c), Alike(a, c)
  PROVE  /\ Before(b, a) => ~Before(a, b)
         /\ ~Before(b, a) /\ ~Before(c, b) => ~Before(c, a)
<1>1. /\ a.akid \in Nat /\ a.serial \in Nat /\ a.issuer \in Names
      /\ b.akid \in Nat /\ b.serial \in Nat /\ b.issuer \in Names
      /\ c.akid \in Nat /\ c.serial \in Nat /\ c.issuer \in Names
  BY DEF CRL_Data
<1>2. Alike(b, a) /\ Alike(c, b) /\ Alike(c, a)
  BY AlikeSym
<1>3. /\ Before(b, a) <=>
           \/ b.akid < a.akid
           \/ b.akid = a.akid /\ b.serial < a.serial
           \/ b.akid = a.akid /\ b.serial = a.serial /\ BeforeDN(b.issuer, a.issuer)
      /\ Before(c, b) <=>
           \/ c.akid < b.akid
           \/ c.akid = b.akid /\ c.serial < b.serial
           \/ c.akid = b.akid /\ c.serial = b.serial /\ BeforeDN(c.issuer, b.issuer)
      /\ Before(c, a) <=>
           \/ c.akid < a.akid
           \/ c.akid = a.akid /\ c.serial < a.serial
           \/ c.akid = a.akid /\ c.serial = a.serial /\ BeforeDN(c.issuer, a.issuer)
      /\ Before(a, b) <=>
           \/ a.akid < b.akid
           \/ a.akid = b.akid /\ a.serial < b.serial
           \/ a.akid = b.akid /\ a.serial = b.serial /\ BeforeDN(a.issuer, b.issuer)
  BY <1>2, BeforeIs
<1>4. a.akid = b.akid /\ a.serial = b.serial =>
        (BeforeDN(b.issuer, a.issuer) => ~BeforeDN(a.issuer, b.issuer))
  <2>1. a.akid = b.akid /\ a.serial = b.serial => WrittenAlike(a.issuer, b.issuer)
    BY DEF Alike
  <2>2. QED
    BY <1>1, <2>1, DNOrders
<1>5. a.akid = b.akid /\ a.serial = b.serial /\ b.akid = c.akid /\ b.serial = c.serial =>
        (~BeforeDN(b.issuer, a.issuer) /\ ~BeforeDN(c.issuer, b.issuer) => ~BeforeDN(c.issuer, a.issuer))
  BY <1>1, DNOrderChains DEF Alike
<1>6. QED
  BY ONLY <1>1, <1>3, <1>4, <1>5

LEMMA SameIs ==
  ASSUME NEW a \in CRL_Data, NEW b \in CRL_Data, Alike(a, b)
  PROVE  Same(a, b) <=> ~Before(a, b) /\ ~Before(b, a)
<1>1. /\ a.akid \in Nat /\ a.serial \in Nat /\ a.issuer \in Names
      /\ b.akid \in Nat /\ b.serial \in Nat /\ b.issuer \in Names
  BY DEF CRL_Data
<1>2. Alike(b, a)
  BY AlikeSym
<1>3. /\ Before(b, a) <=>
           \/ b.akid < a.akid
           \/ b.akid = a.akid /\ b.serial < a.serial
           \/ b.akid = a.akid /\ b.serial = a.serial /\ BeforeDN(b.issuer, a.issuer)
      /\ Before(a, b) <=>
           \/ a.akid < b.akid
           \/ a.akid = b.akid /\ a.serial < b.serial
           \/ a.akid = b.akid /\ a.serial = b.serial /\ BeforeDN(a.issuer, b.issuer)
      /\ Same(a, b) <=> a.akid = b.akid /\ a.serial = b.serial /\ SameDN(a.issuer, b.issuer)
  BY <1>2, BeforeIs
<1>4. a.akid = b.akid /\ a.serial = b.serial =>
        (SameDN(a.issuer, b.issuer) <=> ~BeforeDN(a.issuer, b.issuer) /\ ~BeforeDN(b.issuer, a.issuer))
  BY <1>1, DNOrders DEF Alike
<1>5. QED
  BY ONLY <1>1, <1>3, <1>4

(* Sequences that are sorted.                                              *)
InOrder(s) == \A i, k \in DOMAIN s : i < k => ~Before(s[k], s[i])

-----------------------------------------------------------------------------
(* The binary search.                                                      *)

Halves(place, e, s) ==
  \A r \in Ranges(s) :
    place[r] = IF r[2] = 0 THEN r[1]
               ELSE IF Before(s[r[1] + r[2] \div 2], e)
               THEN place[<<r[1] + r[2] \div 2 + 1, r[2] - r[2] \div 2 - 1>>]
               ELSE place[<<r[1], r[2] \div 2>>]

LEMMA PlaceIs ==
  ASSUME NEW s \in Seq(CRL_Data), NEW e
  PROVE  \E place : Halves(place, e, s) /\ Place(e, s) = place[<<1, Len(s)>>]
<1>1. PICK S : S = Ranges(s)
  OBVIOUS
<1>2. PICK L \in Nat : L = Len(s)
  OBVIOUS
<1>3. \A r \in S : /\ r \in (1 .. L + 1) \X (0 .. L) /\ r[1] \in 1 .. L + 1 /\ r[2] \in 0 .. L
                  /\ r[1] + r[2] <= L + 1
  BY <1>1, <1>2 DEF Ranges
<1>4. IsFiniteSet(S)
  <2>1. IsFiniteSet(1 .. L + 1) /\ IsFiniteSet(0 .. L)
    BY FS_Interval
  <2>2. IsFiniteSet((1 .. L + 1) \X (0 .. L))
    BY <2>1, FS_Product
  <2>3. QED
    BY <1>3, <2>2, FS_Subset
<1>5. PICK R : R = {p \in S \X S : p[1][2] < p[2][2]}
  OBVIOUS
<1>6. NoDescent(R, S)
  <2> SUFFICES ASSUME NEW T \in SUBSET S, T # {}
               PROVE  \E x \in T : \A y \in T : <<y, x>> \notin R
    BY DEF NoDescent
  <2>1. PICK N : N = {x[2] : x \in T}
    OBVIOUS
  <2>2. N \in SUBSET Nat /\ N # {}
    BY <1>3, <2>1
  <2>3. PICK n \in N : \A y \in N : n <= y
    BY ONLY <2>2, LeastNatural
  <2>4. PICK x \in T : x[2] = n
    BY <2>1
  <2>5. ASSUME NEW y \in T, <<y, x>> \in R PROVE FALSE
    <3>1. y[2] < x[2]
      BY <1>5, <2>5
    <3>2. y[2] \in N
      BY <2>1
    <3>3. n <= y[2]
      BY <2>3, <3>2
    <3>4. y[2] \in Nat /\ x[2] \in Nat
      BY <1>3
    <3>5. QED
      BY ONLY <2>4, <3>1, <3>3, <3>4
  <2>6. QED
    BY <2>5
<1> DEFINE V == 1 .. L + 1
           Next1(g, r) == IF r[2] = 0 THEN r[1]
                          ELSE IF Before(s[r[1] + r[2] \div 2], e)
                          THEN g[<<r[1] + r[2] \div 2 + 1, r[2] - r[2] \div 2 - 1>>]
                          ELSE g[<<r[1], r[2] \div 2>>]
<1>7. \A r \in S : r[2] # 0 =>
        /\ <<r[1] + r[2] \div 2 + 1, r[2] - r[2] \div 2 - 1>> \in S
        /\ <<r[1], r[2] \div 2>> \in S
        /\ r[2] - r[2] \div 2 - 1 < r[2] /\ r[2] \div 2 < r[2]
  <2> SUFFICES ASSUME NEW r \in S, r[2] # 0
               PROVE  /\ <<r[1] + r[2] \div 2 + 1, r[2] - r[2] \div 2 - 1>> \in S
                      /\ <<r[1], r[2] \div 2>> \in S
                      /\ r[2] - r[2] \div 2 - 1 < r[2] /\ r[2] \div 2 < r[2]
    OBVIOUS
  <2>1. PICK lo \in Nat, m \in Nat : lo = r[1] /\ m = r[2] /\ lo >= 1 /\ m # 0 /\ lo + m <= L + 1
    BY <1>3
  <2>2. PICK h \in Nat : h = m \div 2 /\ 2 * h <= m
    OBVIOUS
  <2>3. PICK k : k = m - h - 1
    OBVIOUS
  <2>4. lo \in Nat /\ m \in Nat /\ h \in Nat /\ L \in Nat
        /\ lo >= 1 /\ m # 0 /\ lo + m <= L + 1 /\ 2 * h <= m /\ k = m - h - 1
    BY <2>1, <2>2, <2>3
  <2>5. h < m
    BY ONLY <2>4
  <2>6. k \in Nat /\ k < m /\ k <= L /\ h <= L /\ lo <= L + 1
        /\ (lo + h + 1) + k <= L + 1 /\ lo + h + 1 <= L + 1 /\ lo + h <= L + 1
    BY ONLY <2>4, <2>5
  <2>7. <<lo + h + 1, k>> \in S /\ <<lo, h>> \in S
    BY <1>1, <1>2, <2>4, <2>6 DEF Ranges
  <2>8. QED
    BY <2>1, <2>2, <2>3, <2>5, <2>6, <2>7
<1>8. PICK B : B = [g \in [S -> V] |-> [r \in S |-> Next1(g, r)]]
  OBVIOUS
<1>9. \A g \in [S -> V], r \in S : B[g][r] = Next1(g, r) /\ Next1(g, r) \in V
  BY <1>3, <1>7, <1>8
<1>10. Recurs(B, R, S, V)
  <2>1. B \in [[S -> V] -> [S -> V]] /\ V # {}
    <3>1. \A g \in [S -> V] : B[g] \in [S -> V]
      <4> HIDE DEF Next1, V
      <4>1. QED
        BY <1>8, <1>9
    <3>2. 1 \in V
      OBVIOUS
    <3>3. QED
      BY <1>8, <3>1, <3>2
  <2>2. ASSUME NEW g \in [S -> V], NEW h \in [S -> V], NEW x \in S,
               \A y \in S : <<y, x>> \in R => g[y] = h[y]
        PROVE  B[g][x] = B[h][x]
    <3>1. x[2] # 0 =>
            /\ g[<<x[1] + x[2] \div 2 + 1, x[2] - x[2] \div 2 - 1>>] =
               h[<<x[1] + x[2] \div 2 + 1, x[2] - x[2] \div 2 - 1>>]
            /\ g[<<x[1], x[2] \div 2>>] = h[<<x[1], x[2] \div 2>>]
      BY <1>5, <1>7, <2>2
    <3>2. Next1(g, x) = Next1(h, x)
      BY <3>1
    <3>3. QED
      BY <1>9, <3>2
  <2>3. QED
    BY <2>1, <2>2 DEF Recurs
<1>11. PICK g \in [S -> V] : g = B[g]
  BY ONLY <1>4, <1>6, <1>10, Definable
<1>12. g = [r \in S |-> Next1(g, r)]
  BY <1>8, <1>11
<1>13. PICK w : w = CHOOSE p : p = [r \in S |-> Next1(p, r)]
  OBVIOUS
<1>14. w = [r \in S |-> Next1(w, r)]
  <2> HIDE DEF Next1, V
  <2>1. QED
    BY ONLY <1>12, <1>13, Zenon
<1>15. Halves(w, e, s)
  BY <1>1, <1>14 DEF Halves
<1>16. Place(e, s) = w[<<1, Len(s)>>]
  BY <1>1, <1>13, Zenon DEF Place
<1>17. QED
  BY <1>15, <1>16

(* The search finds the first that is not before what is looked for.       *)
LEMMA PlaceFound ==
  ASSUME NEW s \in Seq(CRL_Data), InOrder(s), NEW e \in CRL_Data,
         AllAlike(s), \A k \in DOMAIN s : Alike(s[k], e)
  PROVE  /\ Place(e, s) \in 1 .. Len(s) + 1
         /\ \A k \in DOMAIN s : Before(s[k], e) <=> k < Place(e, s)
<1>1. PICK place : Halves(place, e, s) /\ Place(e, s) = place[<<1, Len(s)>>]
  BY PlaceIs
<1>2. PICK L \in Nat : L = Len(s)
  OBVIOUS
<1> DEFINE Right(p) == p \in 1 .. L + 1 /\ \A k \in 1 .. L : Before(s[k], e) <=> k < p
           Within(r) == /\ \A k \in 1 .. L : k < r[1] => Before(s[k], e)
                        /\ \A k \in 1 .. L : k >= r[1] + r[2] => ~Before(s[k], e)
<1>3. PICK T : T = {n \in Nat : \A r \in Ranges(s) : r[2] <= n /\ Within(r) => Right(place[r])}
  OBVIOUS
<1>4. \A i, k \in 1 .. L : i <= k /\ Before(s[k], e) => Before(s[i], e)
  <2> SUFFICES ASSUME NEW i \in 1 .. L, NEW k \in 1 .. L, i < k, Before(s[k], e), ~Before(s[i], e)
               PROVE  FALSE
    OBVIOUS
  <2>1. s[i] \in CRL_Data /\ s[k] \in CRL_Data /\ Alike(s[i], e) /\ Alike(s[k], e)
    BY <1>2
  <2>2. ~Before(s[k], s[i])
    BY <1>2 DEF InOrder
  <2>3. Alike(s[i], s[k])
    BY <1>2 DEF AllAlike
  <2>4. ~Before(s[k], e)
    BY <2>1, <2>2, <2>3, AlikeSym, BeforeOrders
  <2>5. QED
    BY <2>4
<1>5. ASSUME NEW r \in Ranges(s), r[2] = 0, Within(r) PROVE Right(place[r])
  <2>1. place[r] = r[1] /\ r[1] \in 1 .. L + 1
    BY <1>1, <1>2, <1>5 DEF Halves, Ranges
  <2>2. \A k \in 1 .. L : k >= r[1] => ~Before(s[k], e)
    BY <1>5, <2>1
  <2>3. \A k \in 1 .. L : k >= r[1] \/ k < r[1]
    BY <2>1
  <2>4. QED
    BY <1>5, <2>1, <2>2, <2>3
<1>6. 0 \in T
  <2>1. \A r \in Ranges(s) : r[2] <= 0 => r[2] = 0
    BY DEF Ranges
  <2>2. QED
    BY <1>3, <1>5, <2>1
<1>7. ASSUME NEW n \in Nat, n \in T PROVE n + 1 \in T
  <2> SUFFICES ASSUME NEW r \in Ranges(s), r[2] <= n + 1, r[2] # 0, Within(r) PROVE Right(place[r])
    BY <1>3, <1>5
  <2>1. PICK lo \in Nat, m \in Nat : lo = r[1] /\ m = r[2] /\ lo >= 1 /\ m # 0 /\ lo + m <= L + 1
    BY <1>2 DEF Ranges
  <2>2. PICK h \in Nat : h = m \div 2 /\ 2 * h <= m
    OBVIOUS
  <2>3. PICK k : k = m - h - 1
    OBVIOUS
  <2>4. lo \in Nat /\ m \in Nat /\ h \in Nat /\ L \in Nat /\ n \in Nat /\ m <= n + 1
        /\ lo >= 1 /\ m # 0 /\ lo + m <= L + 1 /\ 2 * h <= m /\ k = m - h - 1
    BY <2>1, <2>2, <2>3
  <2>5. h < m
    BY ONLY <2>4
  <2>6. k \in 0 .. L /\ k <= n /\ h \in 0 .. L /\ h <= n /\ lo \in 1 .. L + 1
        /\ lo + h + 1 \in 1 .. L + 1 /\ (lo + h + 1) + k = lo + m /\ lo + h \in 1 .. L /\ lo + h <= L + 1
    BY ONLY <2>4, <2>5
  <2>7. <<lo + h + 1, k>> \in Ranges(s) /\ <<lo, h>> \in Ranges(s)
    BY <1>2, <2>4, <2>6 DEF Ranges
  <2>8. place[r] = IF Before(s[lo + h], e) THEN place[<<lo + h + 1, k>>] ELSE place[<<lo, h>>]
    BY <1>1, <2>1, <2>2, <2>3 DEF Halves
  <2>9. \A i \in 1 .. L : i < lo => Before(s[i], e)
    BY <2>1
  <2>10. \A i \in 1 .. L : i >= lo + m => ~Before(s[i], e)
    BY <2>1
  <2>11. CASE Before(s[lo + h], e)
    <3>1. PICK q : q = <<lo + h + 1, k>>
      OBVIOUS
    <3>2. \A i \in 1 .. L : i < lo + h + 1 => Before(s[i], e)
      <4>1. \A i \in 1 .. L : i < lo + h + 1 => i <= lo + h
        BY <2>4
      <4>2. QED
        BY <1>4, <2>6, <2>11, <4>1
    <3>3. q[1] = lo + h + 1 /\ q[2] = k /\ q[1] + q[2] = lo + m
      BY <2>6, <3>1
    <3>4. q \in Ranges(s) /\ q[2] <= n /\ Within(q)
      BY <2>6, <2>7, <2>10, <3>1, <3>2, <3>3
    <3>5. Right(place[q])
      BY <1>3, <1>7, <3>4
    <3>6. QED
      BY <2>8, <2>11, <3>1, <3>5
  <2>12. CASE ~Before(s[lo + h], e)
    <3>1. PICK q : q = <<lo, h>>
      OBVIOUS
    <3>2. \A i \in 1 .. L : i >= lo + h => ~Before(s[i], e)
      <4>1. \A i \in 1 .. L : i >= lo + h => lo + h <= i
        BY <2>4
      <4>2. QED
        BY <1>4, <2>6, <2>12, <4>1
    <3>3. q[1] = lo /\ q[2] = h
      BY <3>1
    <3>4. q \in Ranges(s) /\ q[2] <= n /\ Within(q)
      BY <2>6, <2>7, <2>9, <3>1, <3>2, <3>3
    <3>5. Right(place[q])
      BY <1>3, <1>7, <3>4
    <3>6. QED
      BY <2>8, <2>12, <3>1, <3>5
  <2>13. QED
    BY <2>11, <2>12
<1>8. L \in T
  <2>1. Nat \subseteq T
    BY ONLY <1>6, <1>7, SetInduction
  <2>2. QED
    BY <2>1
<1>9. Right(place[<<1, L>>])
  <2>1. PICK q : q = <<1, L>>
    OBVIOUS
  <2>2. q \in Ranges(s) /\ q[1] = 1 /\ q[2] = L
    BY <1>2, <2>1 DEF Ranges
  <2>3. Within(q)
    BY <2>2
  <2>4. Right(place[q])
    BY <1>3, <1>8, <2>2, <2>3
  <2>5. QED
    BY <2>1, <2>4
<1>10. QED
  BY <1>1, <1>2, <1>9

(* So what is found is what is there.                                      *)
LEMMA FoundIs ==
  ASSUME NEW s \in Seq(CRL_Data), InOrder(s), NEW e \in CRL_Data,
         AllAlike(s), \A k \in DOMAIN s : Alike(s[k], e)
  PROVE  Found(e, s) <=> \E k \in DOMAIN s : Same(s[k], e)
<1>1. PICK p : p = Place(e, s) /\ p \in 1 .. Len(s) + 1 /\ \A k \in DOMAIN s : Before(s[k], e) <=> k < p
  BY PlaceFound
<1>2. \A k \in DOMAIN s :
        /\ s[k] \in CRL_Data /\ Alike(s[k], e)
        /\ Same(s[k], e) <=> ~Before(s[k], e) /\ ~Before(e, s[k])
  BY SameIs
<1>3. ASSUME NEW k \in DOMAIN s, Same(s[k], e) PROVE Found(e, s)
  <2>1. ~Before(s[k], e) /\ ~Before(e, s[k]) /\ ~(k < p)
    BY <1>1, <1>2, <1>3
  <2>2. p \in DOMAIN s /\ p <= k /\ p <= Len(s)
    BY <1>1, <2>1
  <2>3. ~Before(e, s[p])
    <3>1. CASE p = k
      BY <2>1, <3>1
    <3>2. CASE p < k
      <4>1. ~Before(s[k], s[p])
        BY <2>2, <3>2 DEF InOrder
      <4>2. Alike(s[p], s[k]) /\ Alike(s[k], e) /\ Alike(s[p], e) /\ s[p] \in CRL_Data /\ s[k] \in CRL_Data
        BY <1>2, <2>2 DEF AllAlike
      <4>3. QED
        BY <2>1, <4>1, <4>2, BeforeOrders
    <3>3. QED
      BY <1>1, <2>2, <3>1, <3>2
  <2>4. QED
    BY <1>1, <2>2, <2>3 DEF Found
<1>4. ASSUME Found(e, s) PROVE \E k \in DOMAIN s : Same(s[k], e)
  <2>1. p <= Len(s) /\ ~Before(e, s[p])
    BY <1>1, <1>4 DEF Found
  <2>2. p \in DOMAIN s /\ ~(p < p)
    BY <1>1, <2>1
  <2>3. ~Before(s[p], e)
    BY <1>1, <2>2
  <2>4. QED
    BY <1>2, <2>1, <2>2, <2>3
<1>5. QED
  BY <1>3, <1>4

-----------------------------------------------------------------------------
(* Folds over sequences.                                                   *)

(* What FoldLeft unfolds to: the last place of what is left comes first,   *)
(* H has for each place what it makes of what has been folded before.      *)
IsFold(g, H, v, n) ==
  g = [T \in SUBSET (1 .. n) |-> IF T = {} THEN v ELSE H[Max(T)][g[T \ {Max(T)}]]]

LEMMA FoldDefinable ==
  ASSUME NEW n \in Nat, NEW V, NEW v \in V, NEW H \in [1 .. n -> [V -> V]]
  PROVE  \E g \in [SUBSET (1 .. n) -> V] : IsFold(g, H, v, n)
<1>0. PICK D : D = 1 .. n
  OBVIOUS
<1>1. PICK S : S = SUBSET (1 .. n)
  OBVIOUS
<1>2. IsFiniteSet(S) /\ IsFiniteSet(D)
  <2>1. IsFiniteSet(1 .. n)
    BY FS_Interval
  <2>2. QED
    BY <1>0, <1>1, <2>1, FS_SUBSET
<1>3. \A T \in S : T # {} => Max(T) \in T /\ Max(T) \in 1 .. n /\ T \ {Max(T)} \in S /\ T \ {Max(T)} # T
  <2> SUFFICES ASSUME NEW T \in S, T # {}
               PROVE  Max(T) \in T /\ Max(T) \in 1 .. n /\ T \ {Max(T)} \in S /\ T \ {Max(T)} # T
    OBVIOUS
  <2>1. T \in SUBSET (0 .. n) /\ T \in SUBSET (1 .. n)
    BY <1>1
  <2>2. Max(T) \in T
    BY <2>1, MaxIs
  <2>3. QED
    BY <1>1, <2>1, <2>2
<1>4. PICK R : R = {p \in S \X S : p[1] \subseteq p[2] /\ p[1] # p[2]}
  OBVIOUS
<1>5. NoDescent(R, S)
  <2> SUFFICES ASSUME NEW T \in SUBSET S, T # {}, \A x \in T : \E y \in T : <<y, x>> \in R
               PROVE  FALSE
    BY DEF NoDescent
  <2>1. PICK Q : Q = {X \in S : X \notin T}
    OBVIOUS
  <2>2. ASSUME NEW X \in SUBSET D, \A Y \in SUBSET X : Y # X => Y \in Q
        PROVE  X \in Q
    <3>1. ASSUME X \in T PROVE FALSE
      <4>1. PICK y \in T : <<y, X>> \in R
        BY <3>1
      <4>2. y \subseteq X /\ y # X
        BY <1>4, <4>1
      <4>3. QED
        BY <2>1, <2>2, <4>1, <4>2
    <3>2. QED
      BY <1>0, <1>1, <2>1, <3>1
  <2>3. SUBSET D \subseteq Q
    BY ONLY <1>2, <2>2, SubsetInduction
  <2>4. QED
    BY <1>0, <1>1, <2>1, <2>3
<1>6. PICK B : B = [g \in [S -> V] |-> [T \in S |-> IF T = {} THEN v ELSE H[Max(T)][g[T \ {Max(T)}]]]]
  OBVIOUS
<1>7. \A g \in [S -> V], T \in S :
        /\ B[g][T] = IF T = {} THEN v ELSE H[Max(T)][g[T \ {Max(T)}]]
        /\ B[g][T] \in V
  <2> SUFFICES ASSUME NEW g \in [S -> V], NEW T \in S
               PROVE  /\ B[g][T] = IF T = {} THEN v ELSE H[Max(T)][g[T \ {Max(T)}]]
                      /\ B[g][T] \in V
    OBVIOUS
  <2>1. B[g][T] = IF T = {} THEN v ELSE H[Max(T)][g[T \ {Max(T)}]]
    BY <1>6
  <2>2. CASE T = {}
    BY <2>1, <2>2
  <2>3. CASE T # {}
    <3>1. H[Max(T)] \in [V -> V] /\ g[T \ {Max(T)}] \in V
      BY <1>3, <2>3
    <3>2. QED
      BY <2>1, <2>3, <3>1
  <2>4. QED
    BY <2>2, <2>3
<1>8. Recurs(B, R, S, V)
  <2>1. B \in [[S -> V] -> [S -> V]] /\ V # {}
    <3>1. \A g \in [S -> V] : B[g] \in [S -> V]
      BY <1>6, <1>7
    <3>2. QED
      BY <1>6, <3>1
  <2>2. ASSUME NEW g \in [S -> V], NEW h \in [S -> V], NEW T \in S,
               \A y \in S : <<y, T>> \in R => g[y] = h[y]
        PROVE  B[g][T] = B[h][T]
    <3>1. T # {} => g[T \ {Max(T)}] = h[T \ {Max(T)}]
      BY <1>3, <1>4, <2>2
    <3>2. QED
      BY <1>7, <3>1
  <2>3. QED
    BY <2>1, <2>2 DEF Recurs
<1>9. PICK g \in [S -> V] : g = B[g]
  BY ONLY <1>2, <1>5, <1>8, Definable
<1>10. B[g] = [T \in S |-> IF T = {} THEN v ELSE H[Max(T)][g[T \ {Max(T)}]]]
  BY <1>6
<1>11. QED
  BY <1>1, <1>9, <1>10 DEF IsFold

(* The places up to k.                                                     *)
LEMMA UpToK ==
  ASSUME NEW n \in Nat, NEW k \in 1 .. n
  PROVE  /\ 1 .. k \in SUBSET (1 .. n) /\ 1 .. k # {} /\ Max(1 .. k) = k
         /\ (1 .. k) \ {k} = 1 .. k - 1
<1>1. 1 .. k \in SUBSET (0 .. k) /\ k \in 1 .. k /\ k \in Nat
  OBVIOUS
<1>2. PICK m : m = Max(1 .. k) /\ m \in 1 .. k /\ \A y \in 1 .. k : y <= m
  BY <1>1, MaxIs
<1>3. m = k
  BY <1>1, <1>2
<1>4. QED
  BY <1>1, <1>2, <1>3

-----------------------------------------------------------------------------
(* Sorting.                                                                *)

(* A part of a sequence.                                                   *)
LEMMA PartIs ==
  ASSUME NEW V, NEW s \in Seq(V), NEW i \in Nat \ {0}, NEW n \in Nat, n <= Len(s), i <= n + 1
  PROVE  /\ SubSeq(s, i, n) \in Seq(V) /\ Len(SubSeq(s, i, n)) = n - i + 1
         /\ \A j \in 1 .. n - i + 1 : SubSeq(s, i, n)[j] = s[i + j - 1]
<1>1. \A j \in i .. n : s[j] \in V
  <2>1. \A j \in i .. n : j \in 1 .. Len(s)
    OBVIOUS
  <2>2. QED
    BY <2>1
<1>2. i \in Int /\ n \in Int /\ n - i + 1 = IF i <= n THEN n - i + 1 ELSE 0
  OBVIOUS
<1>3. QED
  BY <1>1, <1>2, SubSeqProperties

Inserted(t, s, i, e) ==
  /\ t \in Seq(CRL_Data) /\ Len(t) = Len(s) + 1
  /\ \A j \in 1 .. Len(s) + 1 : t[j] = IF j < i THEN s[j] ELSE IF j = i THEN e ELSE s[j - 1]

LEMMA InsertIs ==
  ASSUME NEW s \in Seq(CRL_Data), NEW i \in 1 .. Len(s) + 1, NEW e \in CRL_Data
  PROVE  Inserted(InsertAt(s, i, e), s, i, e)
<1>1. PICK n \in Nat : n = Len(s)
  OBVIOUS
<1>2. PICK a \in Seq(CRL_Data) : a = SubSeq(s, 1, i - 1) /\ Len(a) = i - 1 /\ \A j \in 1 .. i - 1 : a[j] = s[j]
  <2>1. PICK k \in Nat : k = i - 1 /\ k <= Len(s) /\ k - 1 + 1 = k
    BY <1>1
  <2>2. SubSeq(s, 1, k) \in Seq(CRL_Data) /\ Len(SubSeq(s, 1, k)) = k
        /\ \A j \in 1 .. k : SubSeq(s, 1, k)[j] = s[1 + j - 1]
    BY <2>1, PartIs
  <2>3. \A j \in 1 .. k : 1 + j - 1 = j
    OBVIOUS
  <2>4. QED
    BY <2>1, <2>2, <2>3
<1>3. PICK c \in Seq(CRL_Data) : c = SubSeq(s, i, Len(s)) /\ Len(c) = n - i + 1
                              /\ \A j \in 1 .. n - i + 1 : c[j] = s[i + j - 1]
  <2>1. i \in Nat \ {0} /\ n <= Len(s) /\ i <= n + 1
    BY <1>1
  <2>2. SubSeq(s, i, n) \in Seq(CRL_Data) /\ Len(SubSeq(s, i, n)) = n - i + 1
        /\ \A j \in 1 .. n - i + 1 : SubSeq(s, i, n)[j] = s[i + j - 1]
    BY <2>1, PartIs
  <2>3. QED
    BY <1>1, <2>2
<1>4. PICK b \in Seq(CRL_Data) : b = <<e>> /\ Len(b) = 1 /\ b[1] = e
  <2>1. <<e>> \in Seq(CRL_Data) /\ Len(<<e>>) = 1 /\ <<e>>[1] = e
    OBVIOUS
  <2>2. QED
    BY <2>1
<1>5. PICK ab \in Seq(CRL_Data) : ab = a \o b /\ Len(ab) = i /\ \A j \in 1 .. i : ab[j] = IF j < i THEN s[j] ELSE e
  <2>1. a \o b \in Seq(CRL_Data) /\ Len(a \o b) = Len(a) + Len(b)
        /\ \A j \in 1 .. Len(a) + Len(b) : (a \o b)[j] = IF j <= Len(a) THEN a[j] ELSE b[j - Len(a)]
    BY ConcatProperties
  <2>2. \A j \in 1 .. i : IF j < i THEN j <= i - 1 /\ j \in 1 .. i - 1 ELSE j = i /\ j - (i - 1) = 1 /\ ~(j <= i - 1)
    OBVIOUS
  <2>3. Len(a) + Len(b) = i
    BY <1>2, <1>4
  <2>4. \A j \in 1 .. i : (a \o b)[j] = IF j < i THEN s[j] ELSE e
    BY <1>2, <1>4, <2>1, <2>2, <2>3
  <2>5. QED
    BY <2>1, <2>3, <2>4
<1>6. PICK t \in Seq(CRL_Data) : t = ab \o c /\ Len(t) = n + 1
                              /\ \A j \in 1 .. n + 1 : t[j] = IF j <= i THEN ab[j] ELSE c[j - i]
  <2>1. ab \o c \in Seq(CRL_Data) /\ Len(ab \o c) = Len(ab) + Len(c)
        /\ \A j \in 1 .. Len(ab) + Len(c) : (ab \o c)[j] = IF j <= Len(ab) THEN ab[j] ELSE c[j - Len(ab)]
    BY ConcatProperties
  <2>2. Len(ab) + Len(c) = n + 1
    BY <1>3, <1>5
  <2>3. QED
    BY <1>5, <2>1, <2>2
<1>7. ASSUME NEW j \in 1 .. n + 1 PROVE t[j] = IF j < i THEN s[j] ELSE IF j = i THEN e ELSE s[j - 1]
  <2>1. CASE j <= i
    <3>1. j \in 1 .. i
      BY <2>1
    <3>2. QED
      BY <1>5, <1>6, <2>1, <3>1
  <2>2. CASE j > i
    <3>1. j - i \in 1 .. n - i + 1 /\ i + (j - i) - 1 = j - 1 /\ ~(j <= i) /\ ~(j < i) /\ j # i
      BY <1>1, <2>2
    <3>2. QED
      BY <1>3, <1>6, <3>1
  <2>3. QED
    BY <2>1, <2>2
<1>8. InsertAt(s, i, e) = t
  BY <1>2, <1>3, <1>4, <1>5, <1>6 DEF InsertAt
<1>9. QED
  BY <1>1, <1>6, <1>7, <1>8 DEF Inserted

(* Behind the last that what is placed is not before, in an ordered one.   *)
LEMMA PlacedIs ==
  ASSUME NEW s \in Seq(CRL_Data), NEW e \in CRL_Data
  PROVE  \E i \in 1 .. Len(s) + 1 :
           /\ Inserted(Placed(s, e), s, i, e)
           /\ i = 1 /\ s # <<>> => Before(e, s[1])
           /\ i # 1 => ~Before(e, s[i - 1])
           /\ i # 1 => \A k \in DOMAIN s : k >= i => Before(e, s[k])
<1>1. PICK n \in Nat : n = Len(s) /\ DOMAIN s = 1 .. n
  OBVIOUS
<1>2. Inserted(<<e>> \o s, s, 1, e)
  <2>1. <<e>> \in Seq(CRL_Data) /\ Len(<<e>>) = 1 /\ <<e>>[1] = e
    OBVIOUS
  <2>2. PICK b \in Seq(CRL_Data) : b = <<e>>
    BY <2>1
  <2>3. b \o s \in Seq(CRL_Data) /\ Len(b \o s) = Len(b) + Len(s)
        /\ \A j \in 1 .. Len(b) + Len(s) : (b \o s)[j] = IF j <= Len(b) THEN b[j] ELSE s[j - Len(b)]
    BY ConcatProperties
  <2>4. Len(b) = 1 /\ b[1] = e
    BY <2>1, <2>2
  <2>5. 1 + n = n + 1 /\ \A j \in 1 .. n + 1 : IF j = 1 THEN j <= 1 /\ ~(j < 1) ELSE ~(j <= 1) /\ ~(j < 1)
    OBVIOUS
  <2>6. Len(b \o s) = n + 1 /\ \A j \in 1 .. n + 1 : (b \o s)[j] = IF j < 1 THEN s[j] ELSE IF j = 1 THEN e ELSE s[j - 1]
    BY <1>1, <2>3, <2>4, <2>5
  <2>7. QED
    BY <1>1, <2>2, <2>3, <2>6 DEF Inserted
<1>3. CASE s = <<>>
  <2>1. <<e>> \o s = <<e>> /\ Len(s) = 0 /\ Placed(s, e) = <<e>>
    BY <1>3 DEF Placed
  <2>2. QED
    BY <1>2, <1>3, <2>1
<1>4. CASE s # <<>> /\ Before(e, s[1])
  <2>1. Placed(s, e) = <<e>> \o s /\ 1 \in 1 .. Len(s) + 1
    BY <1>1, <1>4 DEF Placed
  <2>2. QED
    BY <1>2, <1>4, <2>1
<1>5. CASE s # <<>> /\ ~Before(e, s[1])
  <2>1. PICK S : S = {k \in DOMAIN s : ~Before(e, s[k])}
    OBVIOUS
  <2>2. S \in SUBSET (0 .. n) /\ 1 \in S
    BY <1>1, <1>5, <2>1
  <2>3. PICK m : m = Max(S) /\ m \in S /\ \A y \in S : y <= m
    BY <2>2, MaxIs
  <2>4. m \in 1 .. n /\ ~Before(e, s[m])
    BY <1>1, <2>1, <2>3
  <2>5. PICK i : i = m + 1 /\ i \in 1 .. n + 1 /\ i # 1 /\ i - 1 = m
    BY <2>4
  <2>6. Placed(s, e) = InsertAt(s, i, e)
    BY <1>5, <2>1, <2>3, <2>5 DEF Placed
  <2>7. Inserted(Placed(s, e), s, i, e)
    BY <1>1, <2>5, <2>6, InsertIs
  <2>8. ASSUME NEW k \in DOMAIN s, k >= i PROVE Before(e, s[k])
    <3>1. k \in 1 .. n /\ ~(k <= m)
      BY <1>1, <2>4, <2>5, <2>8
    <3>2. k \notin S
      BY <2>3, <3>1
    <3>3. QED
      BY <2>1, <3>2
  <2>9. QED
    BY <1>1, <2>4, <2>5, <2>7, <2>8
<1>6. QED
  BY <1>3, <1>4, <1>5

LEMMA PlacedRange ==
  ASSUME NEW s \in Seq(CRL_Data), NEW e \in CRL_Data
  PROVE  /\ Placed(s, e) \in Seq(CRL_Data)
         /\ \A x : (\E k \in DOMAIN Placed(s, e) : Placed(s, e)[k] = x) <=> x = e \/ \E k \in DOMAIN s : s[k] = x
<1>1. PICK t : t = Placed(s, e) /\ \E i \in 1 .. Len(s) + 1 : Inserted(t, s, i, e)
  BY PlacedIs
<1>a. PICK i \in 1 .. Len(s) + 1 : Inserted(t, s, i, e)
  BY <1>1
<1>2. PICK n \in Nat : n = Len(s) /\ DOMAIN s = 1 .. n
  OBVIOUS
<1>3. t \in Seq(CRL_Data) /\ DOMAIN t = 1 .. n + 1 /\ i \in 1 .. n + 1
      /\ \A j \in 1 .. n + 1 : t[j] = IF j < i THEN s[j] ELSE IF j = i THEN e ELSE s[j - 1]
  BY <1>a, <1>2 DEF Inserted
<1>4. ASSUME NEW k \in 1 .. n PROVE \E j \in 1 .. n + 1 : t[j] = s[k]
  <2>1. CASE k < i
    BY <1>3, <2>1
  <2>2. CASE k >= i
    <3>1. k + 1 \in 1 .. n + 1 /\ ~(k + 1 < i) /\ k + 1 # i /\ (k + 1) - 1 = k
      BY <1>3, <2>2
    <3>2. t[k + 1] = s[k]
      BY <1>3, <3>1
    <3>3. QED
      BY <3>1, <3>2
  <2>3. QED
    BY <1>3, <2>1, <2>2
<1>5. ASSUME NEW j \in 1 .. n + 1 PROVE t[j] = e \/ \E k \in 1 .. n : s[k] = t[j]
  <2>1. CASE j < i
    <3>1. j \in 1 .. n
      BY <1>3, <2>1
    <3>2. QED
      BY <1>3, <2>1, <3>1
  <2>2. CASE j = i
    BY <1>3, <2>2
  <2>3. CASE j > i
    <3>1. j - 1 \in 1 .. n /\ ~(j < i) /\ j # i
      BY <1>3, <2>3
    <3>2. QED
      BY <1>3, <3>1
  <2>4. QED
    BY <1>3, <2>1, <2>2, <2>3
<1>6. t[i] = e
  BY <1>3
<1>7. ASSUME NEW x
      PROVE  (\E k \in DOMAIN t : t[k] = x) <=> x = e \/ \E k \in DOMAIN s : s[k] = x
  <2>1. (\E k \in DOMAIN t : t[k] = x) => x = e \/ \E k \in DOMAIN s : s[k] = x
    BY <1>2, <1>3, <1>5
  <2>2. (\E k \in DOMAIN s : s[k] = x) => \E k \in DOMAIN t : t[k] = x
    BY <1>2, <1>3, <1>4
  <2>3. x = e => \E k \in DOMAIN t : t[k] = x
    BY <1>3, <1>6
  <2>4. QED
    BY <2>1, <2>2, <2>3
<1>8. Placed(s, e) = t /\ t \in Seq(CRL_Data)
  BY <1>1, <1>3
<1>9. QED
  BY <1>7, <1>8

(* An ordered sequence stays in order.                                     *)
LEMMA PlacedOrder ==
  ASSUME NEW s \in Seq(CRL_Data), NEW e \in CRL_Data, InOrder(s),
         \A k \in DOMAIN s : Alike(s[k], e), AllAlike(s)
  PROVE  InOrder(Placed(s, e))
<1>1. PICK t : /\ t = Placed(s, e)
               /\ \E i \in 1 .. Len(s) + 1 :
                    /\ Inserted(t, s, i, e)
                    /\ i = 1 /\ s # <<>> => Before(e, s[1])
                    /\ i # 1 => ~Before(e, s[i - 1])
                    /\ i # 1 => \A k \in DOMAIN s : k >= i => Before(e, s[k])
  BY PlacedIs
<1>2. PICK i \in 1 .. Len(s) + 1 :
        /\ Inserted(t, s, i, e)
        /\ i = 1 /\ s # <<>> => Before(e, s[1])
        /\ i # 1 => ~Before(e, s[i - 1])
        /\ i # 1 => \A k \in DOMAIN s : k >= i => Before(e, s[k])
  BY <1>1
<1>3. PICK n \in Nat : n = Len(s) /\ DOMAIN s = 1 .. n
  OBVIOUS
<1>4. t \in Seq(CRL_Data) /\ DOMAIN t = 1 .. n + 1 /\ i \in 1 .. n + 1
      /\ \A j \in 1 .. n + 1 : t[j] = IF j < i THEN s[j] ELSE IF j = i THEN e ELSE s[j - 1]
  BY <1>2, <1>3 DEF Inserted
<1>5. \A k \in 1 .. n : s[k] \in CRL_Data /\ Alike(s[k], e) /\ Alike(e, s[k]) /\ \A j \in 1 .. n : Alike(s[k], s[j])
  BY <1>3, AlikeSym DEF AllAlike
<1>6. ASSUME NEW k \in 1 .. n, k < i PROVE ~Before(e, s[k])
  <2>1. i # 1 /\ i - 1 \in 1 .. n
    BY <1>4, <1>6
  <2>2. PICK m \in 1 .. n : m = i - 1 /\ ~Before(e, s[m]) /\ k <= m
    BY <1>2, <1>4, <1>6, <2>1
  <2>3. CASE k = m
    BY <2>2, <2>3
  <2>4. CASE k < m
    <3>1. ~Before(s[m], s[k])
      BY <1>3, <2>4 DEF InOrder
    <3>2. Alike(s[k], s[m]) /\ Alike(s[m], e) /\ Alike(s[k], e)
      BY <1>5
    <3>3. QED
      BY <1>5, <2>2, <3>1, <3>2, BeforeOrders
  <2>5. QED
    BY <2>2, <2>3, <2>4
<1>7. ASSUME NEW k \in 1 .. n, k >= i PROVE ~Before(s[k], e)
  <2>1. CASE i # 1
    <3>1. Before(e, s[k])
      BY <1>2, <1>3, <1>7, <2>1
    <3>2. QED
      BY <1>5, <3>1, BeforeOrders
  <2>2. CASE i = 1
    <3>1. s # <<>> /\ 1 \in 1 .. n
      BY <1>3
    <3>2. Before(e, s[1])
      BY <1>2, <2>2, <3>1
    <3>3. Alike(e, s[1]) /\ Alike(s[1], s[k]) /\ Alike(s[1], e) /\ Alike(s[k], e)
      BY <1>5, <3>1
    <3>4. ~Before(s[1], e)
      BY <1>5, <3>1, <3>2, <3>3, BeforeOrders
    <3>5. k = 1 \/ ~Before(s[k], s[1])
      BY <1>3, <3>1 DEF InOrder
    <3>6. QED
      BY <1>5, <3>1, <3>3, <3>4, <3>5, BeforeOrders
  <2>3. QED
    BY <2>1, <2>2
<1>8. ASSUME NEW j \in 1 .. n + 1, NEW k \in 1 .. n + 1, j < k PROVE ~Before(t[k], t[j])
  <2>1. CASE k < i
    <3>1. t[k] = s[k] /\ t[j] = s[j] /\ j \in 1 .. n /\ k \in 1 .. n
      BY <1>4, <1>8, <2>1
    <3>2. QED
      BY <1>3, <1>8, <3>1 DEF InOrder
  <2>2. CASE k = i
    <3>1. t[k] = e /\ t[j] = s[j] /\ j \in 1 .. n /\ j < i
      BY <1>4, <1>8, <2>2
    <3>2. QED
      BY <1>6, <3>1
  <2>3. CASE k > i /\ j < i
    <3>1. t[k] = s[k - 1] /\ k - 1 \in 1 .. n
      <4>1. ~(k < i) /\ k # i /\ k - 1 \in 1 .. n
        BY <1>4, <1>8, <2>3
      <4>2. QED
        BY <1>4, <4>1
    <3>2. t[j] = s[j] /\ j \in 1 .. n /\ j < k - 1
      BY <1>4, <1>8, <2>3
    <3>3. QED
      BY <1>3, <3>1, <3>2 DEF InOrder
  <2>4. CASE k > i /\ j = i
    <3>1. t[k] = s[k - 1] /\ k - 1 \in 1 .. n /\ k - 1 >= i
      <4>1. ~(k < i) /\ k # i /\ k - 1 \in 1 .. n /\ k - 1 >= i
        BY <1>4, <1>8, <2>4
      <4>2. QED
        BY <1>4, <4>1
    <3>2. t[j] = e
      BY <1>4, <2>4
    <3>3. QED
      BY <1>7, <3>1, <3>2
  <2>5. CASE k > i /\ j > i
    <3>1. t[k] = s[k - 1] /\ k - 1 \in 1 .. n
      <4>1. ~(k < i) /\ k # i /\ k - 1 \in 1 .. n
        BY <1>4, <1>8, <2>5
      <4>2. QED
        BY <1>4, <4>1
    <3>2. t[j] = s[j - 1] /\ j - 1 \in 1 .. n /\ j - 1 < k - 1
      <4>1. ~(j < i) /\ j # i /\ j - 1 \in 1 .. n /\ j - 1 < k - 1
        BY <1>4, <1>8, <2>5
      <4>2. QED
        BY <1>4, <4>1
    <3>3. QED
      BY <1>3, <3>1, <3>2 DEF InOrder
  <2>6. QED
    BY <1>4, <2>1, <2>2, <2>3, <2>4, <2>5
<1>9. QED
  BY <1>1, <1>4, <1>8 DEF InOrder

(* Sorted places one after the other.                                      *)
LEMMA SortedSteps ==
  ASSUME NEW s \in Seq(CRL_Data)
  PROVE  \E w : /\ w[0] = <<>> /\ Sorted(s) = w[Len(s)]
               /\ \A k \in 1 .. Len(s) : w[k] = Placed(w[k - 1], s[k])
<1>1. PICK n \in Nat : n = Len(s) /\ DOMAIN s = 1 .. n
  OBVIOUS
<1>2. PICK V : V = Seq(CRL_Data)
  OBVIOUS
<1>3. PICK H : H = [i \in 1 .. n |-> [x \in V |-> Placed(x, s[i])]]
  OBVIOUS
<1>4. <<>> \in V /\ H \in [1 .. n -> [V -> V]]
  <2>1. \A i \in 1 .. n, x \in V : Placed(x, s[i]) \in V
    BY <1>1, <1>2, PlacedRange
  <2>2. <<>> \in V
    BY <1>2
  <2>3. \A i \in 1 .. n : [x \in V |-> Placed(x, s[i])] \in [V -> V]
    BY <2>1
  <2>4. QED
    BY <1>3, <2>2, <2>3
<1>5. PICK g \in [SUBSET (1 .. n) -> V] : IsFold(g, H, <<>>, n)
  BY <1>4, FoldDefinable
<1>6. PICK M : M = [T \in SUBSET (1 .. n) |-> Max(T)]
  OBVIOUS
<1>7. \A T \in SUBSET (1 .. n) : T # {} => Max(T) \in 1 .. n /\ T \ {Max(T)} \in SUBSET (1 .. n)
  <2> SUFFICES ASSUME NEW T \in SUBSET (1 .. n), T # {}
               PROVE  Max(T) \in 1 .. n /\ T \ {Max(T)} \in SUBSET (1 .. n)
    OBVIOUS
  <2>1. T \in SUBSET (0 .. n)
    OBVIOUS
  <2>2. Max(T) \in T
    BY <2>1, MaxIs
  <2>3. QED
    BY <2>2
<1>8. g = [T \in SUBSET (1 .. n) |-> IF T = {} THEN <<>> ELSE Placed(g[T \ {Max(T)}], s[Max(T)])]
  <2>1. ASSUME NEW T \in SUBSET (1 .. n), T # {}
        PROVE  H[Max(T)][g[T \ {Max(T)}]] = Placed(g[T \ {Max(T)}], s[Max(T)])
    <3>1. Max(T) \in 1 .. n /\ g[T \ {Max(T)}] \in V
      BY <1>7, <2>1
    <3>2. QED
      BY <1>3, <3>1
  <2>2. \A T \in SUBSET (1 .. n) :
          g[T] = IF T = {} THEN <<>> ELSE Placed(g[T \ {Max(T)}], s[Max(T)])
    BY <1>5, <2>1 DEF IsFold
  <2>3. QED
    BY <2>2
<1>9. PICK f : f = CHOOSE h :
                     h = [T \in SUBSET (1 .. n) |-> IF T = {} THEN <<>> ELSE Placed(h[T \ {Max(T)}], s[Max(T)])]
  OBVIOUS
<1>10. f = [T \in SUBSET (1 .. n) |-> IF T = {} THEN <<>> ELSE Placed(f[T \ {Max(T)}], s[Max(T)])]
  BY ONLY <1>8, <1>9, Zenon
<1>11. Sorted(s) = f[1 .. n]
  BY <1>1, <1>9, Zenon DEF Sorted, FoldLeft, MapThenFoldSet
<1>12. PICK w : w = [k \in 0 .. n |-> f[1 .. k]]
  OBVIOUS
<1>13. w[0] = <<>>
  <2>1. 1 .. 0 = {} /\ 0 \in 0 .. n /\ {} \in SUBSET (1 .. n)
    OBVIOUS
  <2>2. f[{}] = <<>>
    BY <1>10, <2>1
  <2>3. QED
    BY <1>12, <2>1, <2>2
<1>14. ASSUME NEW k \in 1 .. n PROVE w[k] = Placed(w[k - 1], s[k])
  <2>1. PICK T : T = 1 .. k
    OBVIOUS
  <2>2. T \in SUBSET (1 .. n) /\ T # {} /\ Max(T) = k /\ T \ {k} = 1 .. k - 1
    BY <2>1, UpToK
  <2>3. f[T] = Placed(f[1 .. k - 1], s[k])
    BY <1>10, <2>2
  <2>4. k \in 0 .. n /\ k - 1 \in 0 .. n
    OBVIOUS
  <2>5. QED
    BY <1>12, <2>1, <2>3, <2>4
<1>15. w[n] = f[1 .. n]
  BY <1>12
<1>16. QED
  BY <1>1, <1>11, <1>13, <1>14, <1>15

(* What has been sorted are the same elements, in order if they are alike. *)
LEMMA SortedIs ==
  ASSUME NEW s \in Seq(CRL_Data)
  PROVE  /\ Sorted(s) \in Seq(CRL_Data)
         /\ \A x : (\E k \in DOMAIN Sorted(s) : Sorted(s)[k] = x) <=> \E k \in DOMAIN s : s[k] = x
         /\ AllAlike(s) => InOrder(Sorted(s))
<1>1. PICK n \in Nat : n = Len(s) /\ DOMAIN s = 1 .. n
  OBVIOUS
<1>2. PICK w : /\ w[0] = <<>> /\ Sorted(s) = w[n]
               /\ \A k \in 1 .. n : w[k] = Placed(w[k - 1], s[k])
  BY <1>1, SortedSteps
<1> DEFINE Right(t, m) ==
             /\ t \in Seq(CRL_Data)
             /\ \A x : (\E k \in DOMAIN t : t[k] = x) <=> \E k \in 1 .. m : s[k] = x
             /\ AllAlike(s) => InOrder(t)
<1>3. PICK T : T = {m \in 0 .. n : Right(w[m], m)}
  OBVIOUS
<1>4. 0 \in T
  <2>1. 0 \in 0 .. n /\ <<>> \in Seq(CRL_Data) /\ DOMAIN <<>> = {} /\ 1 .. 0 = {}
    OBVIOUS
  <2>2. InOrder(<<>>)
    BY <2>1 DEF InOrder
  <2>3. Right(<<>>, 0)
    BY <2>1, <2>2
  <2>4. QED
    BY <1>2, <1>3, <2>1, <2>3
<1>5. ASSUME NEW m \in 0 .. n, m # n /\ m \in T PROVE m + 1 \in T
  <2>1. PICK t, e : t = w[m] /\ e = s[m + 1]
    OBVIOUS
  <2>2. m + 1 \in 1 .. n /\ m + 1 \in 0 .. n /\ (m + 1) - 1 = m /\ 1 .. m + 1 = (1 .. m) \cup {m + 1} /\ m \in Nat
    BY <1>5
  <2>3. w[m + 1] = Placed(t, e) /\ e \in CRL_Data
    BY <1>1, <1>2, <2>1, <2>2
  <2>4. Right(t, m)
    BY <1>3, <1>5, <2>1
  <2>5. PICK u : u = Placed(t, e)
    OBVIOUS
  <2>6. u \in Seq(CRL_Data) /\ \A x : (\E k \in DOMAIN u : u[k] = x) <=> x = e \/ \E k \in DOMAIN t : t[k] = x
    <3>1. t \in Seq(CRL_Data) /\ e \in CRL_Data
      BY <2>3, <2>4
    <3>2. /\ Placed(t, e) \in Seq(CRL_Data)
          /\ \A x : (\E k \in DOMAIN Placed(t, e) : Placed(t, e)[k] = x) <=> x = e \/ \E k \in DOMAIN t : t[k] = x
      BY ONLY <3>1, PlacedRange
    <3>3. QED
      BY <2>5, <3>2
  <2>7. \A x : (\E k \in 1 .. m + 1 : s[k] = x) <=> x = e \/ \E k \in 1 .. m : s[k] = x
    <3>1. PICK A, D, j : A = 1 .. m + 1 /\ D = 1 .. m /\ j = m + 1
      OBVIOUS
    <3>2. A = D \cup {j} /\ s[j] = e
      <4>1. A = D \cup {j}
        BY <2>2, <3>1
      <4>2. s[j] = e
        BY <2>1, <3>1
      <4>3. QED
        BY <4>1, <4>2
    <3>3. \A x : (\E k \in A : s[k] = x) <=> x = e \/ \E k \in D : s[k] = x
      BY ONLY <3>2
    <3>4. QED
      BY <3>1, <3>3
  <2>8. ASSUME AllAlike(s) PROVE InOrder(u)
    <3>1. \A k \in DOMAIN t : \E j \in 1 .. n : t[k] = s[j]
      <4>1. \A k \in DOMAIN t : \E j \in 1 .. m : s[j] = t[k]
        BY <2>4
      <4>2. \A j \in 1 .. m : j \in 1 .. n
        BY <2>2
      <4>3. QED
        BY <4>1, <4>2
    <3>2. \A k, j \in 1 .. n : Alike(s[k], s[j])
      BY <1>1, <2>8 DEF AllAlike
    <3>3. AllAlike(t) /\ \A k \in DOMAIN t : Alike(t[k], e)
      BY <2>1, <2>2, <3>1, <3>2, Zenon DEF AllAlike
    <3>4. InOrder(t) /\ t \in Seq(CRL_Data)
      BY <2>4, <2>8
    <3>5. QED
      BY <2>3, <2>5, <3>3, <3>4, PlacedOrder
  <2>9. Right(u, m + 1)
    <3>1. \A x : (\E k \in DOMAIN t : t[k] = x) <=> \E k \in 1 .. m : s[k] = x
      BY <2>4
    <3>2. \A x : (\E k \in DOMAIN u : u[k] = x) <=> \E k \in 1 .. m + 1 : s[k] = x
      BY <2>6, <2>7, <3>1
    <3>3. QED
      BY <2>6, <2>8, <3>2
  <2>10. QED
    BY <1>3, <2>2, <2>3, <2>5, <2>9
<1>6. n \in T
  <2>1. 0 .. n \subseteq T
    BY ONLY 0 \in Nat, n \in Nat, <1>4, <1>5, IntervalInduction
  <2>2. QED
    BY <2>1
<1>7. Right(w[n], n)
  BY <1>3, <1>6
<1>8. QED
  BY <1>1, <1>2, <1>7

-----------------------------------------------------------------------------
(* The entries of a list.                                                  *)

LEMMA EnteredIs ==
  ASSUME NEW l \in Lists, NEW entry \in [serial : Nat \ {0}, remove : BOOLEAN], NEW s \in Seq(CRL_Data)
  PROVE  Entered(l, entry, s) \in Seq(CRL_Data)
<1>1. PICK info : info = [issuer |-> l.issuer, serial |-> entry.serial, akid |-> l.akid]
  OBVIOUS
<1>2. info \in CRL_Data
  BY <1>1, StoreAssumption DEF CRL_Data
<1>3. Append(s, info) \in Seq(CRL_Data)
  BY <1>2
<1>4. PICK at : at = {k \in DOMAIN s : Same(s[k], info)}
  OBVIOUS
<1>5. at # {} => RemoveAt(s, Min(at)) \in Seq(CRL_Data)
  <2> SUFFICES ASSUME at # {} PROVE RemoveAt(s, Min(at)) \in Seq(CRL_Data)
    OBVIOUS
  <2>1. at \in SUBSET Nat
    BY <1>4
  <2>2. PICK k : k = Min(at) /\ k \in at
    BY <2>1, MinIs
  <2>3. k \in 1 .. Len(s)
    BY <1>4, <2>2
  <2>4. PICK i, j, n : i = k - 1 /\ j = k + 1 /\ n = Len(s)
    OBVIOUS
  <2>5. /\ i \in Nat /\ j \in Nat \ {0} /\ n \in Nat
        /\ i <= Len(s) /\ 1 <= i + 1 /\ n <= Len(s) /\ j <= n + 1
    BY <2>3, <2>4
  <2>6. PICK a, b : a = SubSeq(s, 1, i) /\ b = SubSeq(s, j, n)
    OBVIOUS
  <2>a. a \in Seq(CRL_Data)
    <3>1. PICK first : first = 1
      OBVIOUS
    <3>2. first \in Nat \ {0} /\ i \in Nat /\ first <= i + 1 /\ i <= Len(s)
      BY <2>5, <3>1
    <3>3. SubSeq(s, first, i) \in Seq(CRL_Data)
      BY <3>2, PartIs
    <3>4. QED
      BY <2>6, <3>1, <3>3
  <2>b. b \in Seq(CRL_Data)
    <3>1. SubSeq(s, j, n) \in Seq(CRL_Data)
      BY <2>5, PartIs
    <3>2. QED
      BY <2>6, <3>1
  <2>c. a \o b \in Seq(CRL_Data)
    BY ONLY <2>a, <2>b, ConcatProperties
  <2>7. SubSeq(s, 1, i) \o SubSeq(s, j, n) \in Seq(CRL_Data)
    BY <2>6, <2>c
  <2>8. QED
    BY <2>2, <2>4, <2>7 DEF RemoveAt
<1>6. Entered(l, entry, s) =
        IF entry.remove THEN IF at = {} THEN s ELSE RemoveAt(s, Min(at))
        ELSE IF at = {} THEN Append(s, info) ELSE s
  BY <1>1, <1>4, Zenon DEF Entered
<1>7. QED
  BY <1>3, <1>5, <1>6

LEMMA WithEntriesIs ==
  ASSUME NEW l \in Lists, revoked \in Seq(CRL_Data)
  PROVE  WithEntries(l) \in Seq(CRL_Data)
<1>0. PICK s, r : s = l.entries /\ r = revoked
  OBVIOUS
<1>1. PICK n \in Nat : n = Len(s) /\ DOMAIN s = 1 .. n
        /\ \A i \in 1 .. n : s[i] \in [serial : Nat \ {0}, remove : BOOLEAN]
  <2>1. PICK E : E = [serial : Nat \ {0}, remove : BOOLEAN]
    OBVIOUS
  <2>2. s \in Seq(E)
    BY <1>0, <2>1, StoreAssumption
  <2>3. Len(s) \in Nat /\ DOMAIN s = 1 .. Len(s) /\ \A i \in 1 .. Len(s) : s[i] \in E
    BY ONLY <2>2
  <2>4. PICK n : n = Len(s)
    OBVIOUS
  <2>5. n \in Nat /\ n = Len(s) /\ DOMAIN s = 1 .. n /\ \A i \in 1 .. n : s[i] \in E
    BY <2>3, <2>4
  <2>6. QED
    BY <2>1, <2>5
<1>2. PICK V : V = Seq(CRL_Data)
  OBVIOUS
<1>3. PICK H : H = [i \in 1 .. n |-> [x \in V |-> Entered(l, s[i], x)]]
  OBVIOUS
<1>4. r \in V /\ H \in [1 .. n -> [V -> V]]
  <2>1. \A i \in 1 .. n, x \in V : Entered(l, s[i], x) \in V
    BY <1>1, <1>2, EnteredIs
  <2>2. \A i \in 1 .. n : [x \in V |-> Entered(l, s[i], x)] \in [V -> V]
    BY <2>1
  <2>3. QED
    BY <1>0, <1>2, <1>3, <2>2
<1>5. PICK g \in [SUBSET (1 .. n) -> V] : IsFold(g, H, r, n)
  BY <1>4, FoldDefinable
<1>6. \A T \in SUBSET (1 .. n) : T # {} => Max(T) \in 1 .. n /\ T \ {Max(T)} \in SUBSET (1 .. n)
  <2> SUFFICES ASSUME NEW T \in SUBSET (1 .. n), T # {}
               PROVE  Max(T) \in 1 .. n /\ T \ {Max(T)} \in SUBSET (1 .. n)
    OBVIOUS
  <2>1. T \in SUBSET (0 .. n)
    OBVIOUS
  <2>2. Max(T) \in T
    BY <2>1, MaxIs
  <2>3. QED
    BY <2>2
<1>7. g = [T \in SUBSET (1 .. n) |-> IF T = {} THEN r ELSE Entered(l, s[Max(T)], g[T \ {Max(T)}])]
  <2>1. ASSUME NEW T \in SUBSET (1 .. n), T # {}
        PROVE  H[Max(T)][g[T \ {Max(T)}]] = Entered(l, s[Max(T)], g[T \ {Max(T)}])
    <3>1. Max(T) \in 1 .. n /\ g[T \ {Max(T)}] \in V
      BY <1>6, <2>1
    <3>2. QED
      BY <1>3, <3>1
  <2>2. \A T \in SUBSET (1 .. n) :
          g[T] = IF T = {} THEN r ELSE Entered(l, s[Max(T)], g[T \ {Max(T)}])
    BY <1>5, <2>1 DEF IsFold
  <2>3. QED
    BY <2>2
<1>8. PICK f : f = CHOOSE h :
                     h = [T \in SUBSET (1 .. n) |-> IF T = {} THEN r ELSE Entered(l, s[Max(T)], h[T \ {Max(T)}])]
  OBVIOUS
<1>9. f = [T \in SUBSET (1 .. n) |-> IF T = {} THEN r ELSE Entered(l, s[Max(T)], f[T \ {Max(T)}])]
  BY ONLY <1>7, <1>8, Zenon
<1>10. WithEntries(l) = f[1 .. n]
  <2>1. WithEntries(l) = FoldLeft(LAMBDA x, entry : Entered(l, entry, x), r, s)
    BY <1>0, Zenon DEF WithEntries
  <2>2. FoldLeft(LAMBDA x, entry : Entered(l, entry, x), r, s) = f[DOMAIN s]
    BY <1>1, <1>8, Zenon DEF FoldLeft, MapThenFoldSet
  <2>3. DOMAIN s = 1 .. n
    BY <1>1
  <2>4. QED
    BY <2>1, <2>2, <2>3, Zenon
<1>11. PICK T : T = {k \in 0 .. n : f[1 .. k] \in V}
  OBVIOUS
<1>12. 0 \in T
  <2>1. 1 .. 0 = {} /\ 0 \in 0 .. n /\ {} \in SUBSET (1 .. n)
    OBVIOUS
  <2>2. f[{}] = r
    BY <1>9, <2>1
  <2>3. QED
    BY <1>4, <1>11, <2>1, <2>2
<1>13. ASSUME NEW m \in 0 .. n, m # n /\ m \in T PROVE m + 1 \in T
  <2>1. PICK k \in 1 .. n : k = m + 1 /\ k - 1 = m /\ k \in 0 .. n
    BY <1>13
  <2>2. PICK U : U = 1 .. k
    OBVIOUS
  <2>3. U \in SUBSET (1 .. n) /\ U # {} /\ Max(U) = k /\ U \ {k} = 1 .. m
    BY <2>1, <2>2, UpToK
  <2>4. f[U] = Entered(l, s[k], f[1 .. m]) /\ f[1 .. m] \in V
    BY <1>9, <1>11, <1>13, <2>3
  <2>5. f[U] \in V
    BY <1>1, <1>2, <2>4, EnteredIs
  <2>6. QED
    BY <1>11, <2>1, <2>2, <2>5
<1>14. n \in T
  <2>1. 0 .. n \subseteq T
    BY ONLY 0 \in Nat, n \in Nat, <1>12, <1>13, IntervalInduction
  <2>2. QED
    BY <2>1
<1>15. QED
  BY <1>2, <1>10, <1>11, <1>14

-----------------------------------------------------------------------------
(* The inductive invariant.                                                *)

Codes == {"VERIFIED", "CERT_IS_REVOKED", "SIGNATURE_ERROR", "UNKNOWN_X509_ERROR"}
CertInfos == [cert : Certificates, trusted : BOOLEAN, checked : BOOLEAN, result : Codes,
              last_checked : Nat]

StoreTypeOK ==
  /\ certs \in Seq(CertInfos) /\ revoked \in Seq(CRL_Data)
  /\ revoked_info_valid \in BOOLEAN /\ now \in Nat

(* Who stands for the issuer, when one is in the store.                    *)
HasIssuer(c) == find_parent_of(c) # NO_CERT_FOUND
IssuerSigned(c) == c.signer = certs[find_parent_of(c)].cert.key

(* A verdict that is cached is what the check of the signature said, at a  *)
(* time at which the certificate was valid, unless it is about revocation. *)
Cached(info) ==
  /\ info.checked <=> info.result # "UNKNOWN_X509_ERROR"
  /\ info.last_checked <= now
  /\ info.result = "VERIFIED" =>
       /\ HasIssuer(info.cert) /\ IssuerSigned(info.cert)
       /\ InTime(info.cert, info.last_checked)
  /\ info.result = "SIGNATURE_ERROR" => HasIssuer(info.cert) /\ ~IssuerSigned(info.cert)

Marked(info) == is_revoked(info.cert) => info.result \in {"CERT_IS_REVOKED", "SIGNATURE_ERROR"}

StoreIInv ==
  /\ StoreTypeOK
  /\ \A info \in ToSet(certs) : Cached(info)
  /\ revoked_info_valid => \A info \in ToSet(certs) : Marked(info)
  /\ AllAlike(revoked) => InOrder(revoked)

(* A function on an interval is a sequence.                                *)
LEMMA SequenceIs ==
  ASSUME NEW V, NEW n \in Nat, NEW s \in [1 .. n -> V]
  PROVE  s \in Seq(V) /\ Len(s) = n /\ DOMAIN s = 1 .. n
BY SeqDef, LenProperties

(* The first certificate that fits.                                        *)
Fits(j, dn, id) == compare_ids(certs[j].cert.skid, id) /\ SameDN(certs[j].cert.subject, dn)

LEMMA FindIs ==
  ASSUME certs \in Seq(CertInfos), NEW dn, NEW id
  PROVE  /\ find_cert(dn, id) \in 0 .. Len(certs)
         /\ find_cert(dn, id) = NO_CERT_FOUND => \A j \in 1 .. Len(certs) : ~Fits(j, dn, id)
         /\ find_cert(dn, id) # NO_CERT_FOUND =>
              /\ find_cert(dn, id) \in 1 .. Len(certs) /\ Fits(find_cert(dn, id), dn, id)
              /\ \A j \in 1 .. Len(certs) : Fits(j, dn, id) => find_cert(dn, id) <= j
<1>1. PICK n \in Nat : n = Len(certs) /\ DOMAIN certs = 1 .. n
  OBVIOUS
<1>2. PICK S : S = {j \in DOMAIN certs : compare_ids(certs[j].cert.skid, id) /\ SameDN(certs[j].cert.subject, dn)}
  OBVIOUS
<1>3. find_cert(dn, id) = IF S = {} THEN NO_CERT_FOUND ELSE Min(S)
  BY <1>2, Zenon DEF find_cert
<1>4. S \in SUBSET Nat /\ S \in SUBSET (1 .. n) /\ \A j \in 1 .. n : j \in S <=> Fits(j, dn, id)
  BY <1>1, <1>2 DEF Fits
<1>5. CASE S = {}
  BY <1>1, <1>3, <1>4, <1>5 DEF NO_CERT_FOUND
<1>6. CASE S # {}
  <2>1. PICK m : m = Min(S) /\ m \in S /\ \A y \in S : m <= y
    BY <1>4, <1>6, MinIs
  <2>2. find_cert(dn, id) = m /\ m \in 1 .. n
    BY <1>3, <1>4, <1>6, <2>1
  <2>3. QED
    BY <1>1, <1>4, <2>1, <2>2 DEF NO_CERT_FOUND
<1>7. QED
  BY <1>5, <1>6

IssuerIs(c, p) ==
  /\ p \in 0 .. Len(certs)
  /\ p = NO_CERT_FOUND => \A j \in 1 .. Len(certs) : ~Fits(j, c.issuer, c.akid)
  /\ p # NO_CERT_FOUND => /\ p \in 1 .. Len(certs) /\ Fits(p, c.issuer, c.akid)
                          /\ \A j \in 1 .. Len(certs) : Fits(j, c.issuer, c.akid) => p <= j
IssuersAre == \A c : IssuerIs(c, find_parent_of(c))

LEMMA IssuersFound == certs \in Seq(CertInfos) => IssuersAre
<1> SUFFICES ASSUME certs \in Seq(CertInfos), NEW c PROVE IssuerIs(c, find_parent_of(c))
  BY DEF IssuersAre
<1>1. PICK dn, id, p : dn = c.issuer /\ id = c.akid /\ p = find_cert(dn, id) /\ p = find_parent_of(c)
  BY DEF find_parent_of
<1>2. /\ p \in 0 .. Len(certs)
      /\ p = NO_CERT_FOUND => \A j \in 1 .. Len(certs) : ~Fits(j, dn, id)
      /\ p # NO_CERT_FOUND => /\ p \in 1 .. Len(certs) /\ Fits(p, dn, id)
                              /\ \A j \in 1 .. Len(certs) : Fits(j, dn, id) => p <= j
  BY <1>1, FindIs
<1>3. QED
  BY <1>1, <1>2 DEF IssuerIs

(* An issuer that is found stays the one that is found while certificates  *)
(* are only added behind the others.                                       *)
OnlyAdded == /\ Len(certs) <= Len(certs')
             /\ \A j \in 1 .. Len(certs) : certs'[j].cert = certs[j].cert

LEMMA IssuerKept ==
  ASSUME certs \in Seq(CertInfos), certs' \in Seq(CertInfos), OnlyAdded,
         NEW CONSTANT c, HasIssuer(c)
  PROVE  HasIssuer(c)' /\ find_parent_of(c)' = find_parent_of(c)
<1>1. PICK p : p = find_parent_of(c) /\ IssuerIs(c, p)
  BY IssuersFound DEF IssuersAre
<1>2. IssuersAre'
  <2>1. (certs \in Seq(CertInfos))' => IssuersAre'
    BY IssuersFound, PTL
  <2>2. QED
    BY <2>1
<1>3. PICK q : q = find_parent_of(c)' /\ IssuerIs(c, q)'
  BY <1>2 DEF IssuersAre
<1>4. PICK n, m \in Nat : n = Len(certs) /\ m = Len(certs') /\ n <= m
  BY DEF OnlyAdded
<1>5. \A j \in 1 .. n : Fits(j, c.issuer, c.akid)' <=> Fits(j, c.issuer, c.akid)
  BY <1>4 DEF OnlyAdded, Fits
<1>6. p \in 1 .. n /\ Fits(p, c.issuer, c.akid) /\ \A j \in 1 .. n : Fits(j, c.issuer, c.akid) => p <= j
  BY <1>1, <1>4 DEF IssuerIs, HasIssuer
<1>7. q # NO_CERT_FOUND
  <2>1. p \in 1 .. m /\ Fits(p, c.issuer, c.akid)'
    BY <1>4, <1>5, <1>6
  <2>2. QED
    BY <1>3, <1>4, <2>1 DEF IssuerIs
<1>8. q \in 1 .. m /\ Fits(q, c.issuer, c.akid)' /\ \A j \in 1 .. m : Fits(j, c.issuer, c.akid)' => q <= j
  BY <1>3, <1>4, <1>7 DEF IssuerIs
<1>9. q <= p /\ p <= q
  <2>1. p \in 1 .. m /\ q <= p
    BY <1>4, <1>5, <1>6, <1>8
  <2>2. q \in 1 .. n
    BY <1>4, <1>6, <1>8, <2>1
  <2>3. QED
    BY <1>5, <1>6, <1>8, <2>1, <2>2
<1>10. p = q
  BY <1>4, <1>6, <1>8, <1>9
<1>11. QED
  BY <1>1, <1>3, <1>7, <1>10 DEF HasIssuer

-----------------------------------------------------------------------------
(* What is cached with the certificates.                                   *)

LEMMA WithResultIs ==
  ASSUME NEW info \in CertInfos, NEW code \in Codes, now \in Nat
  PROVE  /\ with_result(info, code) \in CertInfos
         /\ with_result(info, code).cert = info.cert /\ with_result(info, code).trusted = info.trusted
         /\ with_result(info, code).result = code /\ with_result(info, code).checked
         /\ with_result(info, code).last_checked = now
BY DEF CertInfos, with_result

(* Verdicts that say of the certificates of the store what is so.          *)
Sound(infos) ==
  /\ infos \in Seq(CertInfos) /\ Len(infos) = Len(certs)
  /\ \A j \in 1 .. Len(certs) :
       /\ infos[j].cert = certs[j].cert /\ infos[j].trusted = certs[j].trusted
       /\ Cached(infos[j]) /\ Marked(infos[j])

LEMMA RevokedCached ==
  ASSUME NEW info \in CertInfos, now \in Nat
  PROVE  Cached(with_result(info, "CERT_IS_REVOKED")) /\ Marked(with_result(info, "CERT_IS_REVOKED"))
<1>1. PICK r : r = with_result(info, "CERT_IS_REVOKED") /\ r.result = "CERT_IS_REVOKED"
               /\ r.checked /\ r.last_checked = now
  BY WithResultIs DEF Codes
<1>2. QED
  BY <1>1 DEF Cached, Marked

LEMMA UpToDateSound ==
  ASSUME StoreIInv
  PROVE  /\ Sound(UpToDate)
         /\ \A j \in 1 .. Len(certs) :
              UpToDate[j].result = "CERT_IS_REVOKED" =>
                certs[j].result = "CERT_IS_REVOKED" \/ is_revoked(certs[j].cert)
<1>1. PICK n \in Nat : n = Len(certs) /\ DOMAIN certs = 1 .. n /\ certs \in Seq(CertInfos) /\ now \in Nat
  BY DEF StoreIInv, StoreTypeOK
<1>2. CASE revoked_info_valid
  BY <1>1, <1>2 DEF StoreIInv, Sound, UpToDate, ToSet
<1>3. CASE ~revoked_info_valid
  <2>1. PICK t : t = UpToDate /\ t = Recomputed
    BY <1>3 DEF UpToDate
  <2>2. ASSUME NEW j \in 1 .. n
        PROVE  /\ t[j] \in CertInfos /\ t[j].cert = certs[j].cert /\ t[j].trusted = certs[j].trusted
               /\ Cached(t[j]) /\ Marked(t[j])
               /\ t[j].result = "CERT_IS_REVOKED" =>
                    certs[j].result = "CERT_IS_REVOKED" \/ is_revoked(certs[j].cert)
    <3>1. PICK info : info = certs[j] /\ info \in CertInfos /\ Cached(info)
      BY <1>1 DEF StoreIInv, ToSet
    <3>2. t[j] = IF ~(is_verified(info) /\ info.result # "VERIFIED") /\ is_revoked(info.cert)
                 THEN with_result(info, "CERT_IS_REVOKED") ELSE info
      BY <1>1, <2>1, <3>1 DEF Recomputed
    <3>3. CASE t[j] = with_result(info, "CERT_IS_REVOKED") /\ is_revoked(info.cert)
      <4>1. "CERT_IS_REVOKED" \in Codes
        BY DEF Codes
      <4>2. QED
        BY <1>1, <3>1, <3>3, <4>1, WithResultIs, RevokedCached
    <3>4. CASE t[j] = info /\ (is_revoked(info.cert) => is_verified(info) /\ info.result # "VERIFIED")
      <4>1. is_revoked(info.cert) => info.result \in {"CERT_IS_REVOKED", "SIGNATURE_ERROR"}
        BY <3>1, <3>4 DEF is_verified, Cached, CertInfos, Codes
      <4>2. Marked(info)
        BY <4>1 DEF Marked
      <4>3. QED
        BY <3>1, <3>4, <4>2
    <3>5. QED
      BY <3>2, <3>3, <3>4
  <2>3. t \in [1 .. n -> CertInfos]
    <3>1. t = [j \in 1 .. n |-> t[j]]
      BY <1>1, <2>1 DEF Recomputed
    <3>2. \A j \in 1 .. n : t[j] \in CertInfos
      BY <2>2
    <3>3. QED
      BY ONLY <3>1, <3>2
  <2>4. t \in Seq(CertInfos) /\ Len(t) = n
    BY ONLY <2>3, n \in Nat, SequenceIs
  <2>5. QED
    BY <1>1, <2>1, <2>2, <2>4 DEF Sound
<1>4. QED
  BY <1>2, <1>3

-----------------------------------------------------------------------------
(* The way up.                                                             *)

IsUp(up, c) ==
  /\ \A n \in 1 .. MaxChain + 1 : up[n] \in 0 .. Len(certs)
  /\ up[1] = find_parent_of(c)
  /\ \A n \in 1 .. MaxChain + 1 : n # 1 =>
       up[n] = IF up[n - 1] = NO_CERT_FOUND THEN NO_CERT_FOUND ELSE find_parent_of(certs[up[n - 1]].cert)

LEMMA UpIs ==
  ASSUME certs \in Seq(CertInfos), NEW c
  PROVE  IsUp(Up(c), c)
<1>1. PICK S, V : S = 1 .. MaxChain + 1 /\ V = 0 .. Len(certs)
  OBVIOUS
<1>2. /\ S \in SUBSET Nat /\ IsFiniteSet(S) /\ 1 \in S
      /\ \A n \in S : n # 1 => n - 1 \in S /\ (n - 1) + 1 = n
  <2>1. MaxChain \in Nat /\ MaxChain + 1 \in Nat /\ MaxChain >= 1
    BY StoreAssumption
  <2>2. IsFiniteSet(1 .. MaxChain + 1)
    BY <2>1, FS_Interval
  <2>3. IsFiniteSet(S)
    BY <1>1, <2>2, Zenon
  <2>4. PICK N : N = MaxChain + 1
    OBVIOUS
  <2>5. N \in Nat /\ N >= 1
    BY <2>1, <2>4
  <2>a. S = 1 .. N
    BY <1>1, <2>4, Zenon
  <2>6. QED
    BY <2>3, <2>5, <2>a
<1>3. NO_CERT_FOUND \in V /\ \A d : find_parent_of(d) \in V
  BY <1>1, IssuersFound DEF IssuersAre, IssuerIs, NO_CERT_FOUND
<1>4. PICK B : B = [g \in [S -> V] |->
                      [n \in S |-> IF n = 1 THEN find_parent_of(c)
                                   ELSE IF g[n - 1] = NO_CERT_FOUND THEN NO_CERT_FOUND
                                   ELSE find_parent_of(certs[g[n - 1]].cert)]]
  OBVIOUS
<1>5. \A g \in [S -> V], n \in S :
        /\ B[g][n] = IF n = 1 THEN find_parent_of(c)
                     ELSE IF g[n - 1] = NO_CERT_FOUND THEN NO_CERT_FOUND
                     ELSE find_parent_of(certs[g[n - 1]].cert)
        /\ B[g][n] \in V
  BY <1>3, <1>4
<1>6. Recurs(B, Steps(S), S, V)
  <2>1. B \in [[S -> V] -> [S -> V]] /\ V # {}
    <3>1. \A g \in [S -> V] : B[g] \in [S -> V]
      BY <1>4, <1>5
    <3>2. QED
      BY <1>3, <1>4, <3>1
  <2>2. ASSUME NEW g \in [S -> V], NEW h \in [S -> V], NEW n \in S,
               \A y \in S : <<y, n>> \in Steps(S) => g[y] = h[y]
        PROVE  B[g][n] = B[h][n]
    <3>1. n # 1 => g[n - 1] = h[n - 1]
      BY <1>2, <2>2 DEF Steps
    <3>2. QED
      BY <1>5, <3>1
  <2>3. QED
    BY <2>1, <2>2 DEF Recurs
<1>7. PICK g \in [S -> V] : g = B[g]
  BY ONLY <1>2, <1>6, IntervalDefinable
<1>8. g = [n \in 1 .. MaxChain + 1 |->
             IF n = 1 THEN find_parent_of(c)
             ELSE IF g[n - 1] = NO_CERT_FOUND THEN NO_CERT_FOUND
             ELSE find_parent_of(certs[g[n - 1]].cert)]
  BY <1>1, <1>4, <1>7
<1>9. PICK f : f = CHOOSE h : h = [n \in 1 .. MaxChain + 1 |->
                                     IF n = 1 THEN find_parent_of(c)
                                     ELSE IF h[n - 1] = NO_CERT_FOUND THEN NO_CERT_FOUND
                                     ELSE find_parent_of(certs[h[n - 1]].cert)]
  OBVIOUS
<1>10. f = [n \in 1 .. MaxChain + 1 |->
              IF n = 1 THEN find_parent_of(c)
              ELSE IF f[n - 1] = NO_CERT_FOUND THEN NO_CERT_FOUND
              ELSE find_parent_of(certs[f[n - 1]].cert)]
  BY ONLY <1>8, <1>9, Zenon
<1>11. Up(c) = f
  BY <1>9, Zenon DEF Up
<1>12. \A n \in S : f[n] = IF n = 1 THEN find_parent_of(c)
                           ELSE IF f[n - 1] = NO_CERT_FOUND THEN NO_CERT_FOUND
                           ELSE find_parent_of(certs[f[n - 1]].cert)
  BY <1>1, <1>10
<1>13. \A n \in S : f[n] \in V
  BY <1>3, <1>12
<1>14. QED
  BY <1>1, <1>2, <1>11, <1>12, <1>13 DEF IsUp

(* What the way up says of a store: climbed to the top, cut back.          *)
GoesOn(infos, up, n) == Climbed(infos, up[n], n) = "climb on"
Arrives(infos, up, n) == Climbed(infos, up[n], n) = "VERIFIED"
Above(infos, up, n) == find_parent_of(infos[up[n]].cert)
Climb(infos, up, top) ==
  /\ top \in 1 .. MaxChain + 1 /\ Arrives(infos, up, top)
  /\ \A n \in 1 .. MaxChain + 1 : n < top => GoesOn(infos, up, n)

PathIs(infos, up, top, last, path) ==
  /\ last \in 1 .. top /\ Len(path) = last + 1
  /\ \A n \in 1 .. last : path[n] = up[n]
  /\ path[last + 1] = Above(infos, up, last) /\ path[last + 1] # NO_CERT_FOUND
  /\ \A n \in 1 .. top : n > last => is_verified(infos[up[n]])

Ends(infos, up) == ~GoesOn(infos, up, MaxChain + 1)

LEMMA ClimbEnds ==
  ASSUME certs \in Seq(CertInfos), NEW infos, Sound(infos), NEW c
  PROVE  Ends(infos, Up(c))
<1>1. PICK N, i : N = MaxChain + 1 /\ i = Up(c)[N] /\ N \in Nat /\ N - 1 = MaxChain
  BY StoreAssumption
<1>2. i \in 0 .. Len(certs)
  <2>1. N \in 1 .. MaxChain + 1
    BY <1>1, StoreAssumption
  <2>2. QED
    BY <1>1, <2>1, UpIs DEF IsUp
<1>3. CASE i = NO_CERT_FOUND
  BY <1>1, <1>3 DEF Climbed, GoesOn, Ends
<1>4. CASE i # NO_CERT_FOUND
  <2>1. PICK info : info = infos[i]
    OBVIOUS
  <2>2. info \in CertInfos
    BY <1>2, <1>4, <2>1 DEF Sound, NO_CERT_FOUND
  <2>3. info.cert.limit < N - 1 /\ info.result # "climb on"
    BY <1>1, <2>2, CertificateAssumption DEF CertInfos, Codes
  <2>4. QED
    BY <1>1, <1>4, <2>1, <2>3 DEF Climbed, GoesOn, Ends
<1>5. QED
  BY <1>3, <1>4

LEMMA CutBackIs ==
  ASSUME NEW infos, NEW up, NEW top \in Nat \ {0}
  PROVE  \E last \in 1 .. top : \E path :
           /\ Above(infos, up, last) # NO_CERT_FOUND =>
                /\ CutBack(infos, up, top).code = "VERIFIED"
                /\ CutBack(infos, up, top).indexes = path
                /\ PathIs(infos, up, top, last, path)
           /\ Above(infos, up, last) = NO_CERT_FOUND =>
                CutBack(infos, up, top).code # "VERIFIED"
<1>1. PICK S : S = {n \in 1 .. top : n = 1 \/ ~is_verified(infos[up[n]])}
  OBVIOUS
<1>2. S \in SUBSET (0 .. top) /\ S # {}
  BY <1>1
<1>3. PICK last : last = Max(S) /\ last \in S /\ \A y \in S : y <= last
  BY <1>2, MaxIs
<1>4. last \in 1 .. top
  BY <1>1, <1>3
<1>5. \A n \in 1 .. top : n > last => is_verified(infos[up[n]])
  BY <1>1, <1>3, <1>4
<1>6. PICK p : p = Above(infos, up, last)
  OBVIOUS
<1>7. PICK path : path = [n \in 1 .. last |-> up[n]] \o <<p>>
  OBVIOUS
<1>8. Len(path) = last + 1 /\ (\A n \in 1 .. last : path[n] = up[n]) /\ path[last + 1] = p
  <2>1. PICK V : V = {up[n] : n \in 1 .. last} \cup {p}
    OBVIOUS
  <2>2. PICK a, b : a = [n \in 1 .. last |-> up[n]] /\ b = <<p>>
    OBVIOUS
  <2>3. a \in Seq(V) /\ Len(a) = last
    <3>1. a \in [1 .. last -> V] /\ last \in Nat
      BY <1>4, <2>1, <2>2
    <3>2. QED
      BY ONLY <3>1, SequenceIs
  <2>4. b \in Seq(V) /\ Len(b) = 1 /\ b[1] = p
    BY <2>1, <2>2
  <2>5. /\ Len(a \o b) = Len(a) + Len(b)
        /\ \A j \in 1 .. Len(a) + Len(b) : (a \o b)[j] = IF j <= Len(a) THEN a[j] ELSE b[j - Len(a)]
    BY ONLY <2>3, <2>4, ConcatProperties
  <2>6. /\ Len(path) = last + 1
        /\ \A j \in 1 .. last + 1 : path[j] = IF j <= last THEN a[j] ELSE b[j - last]
    BY <1>7, <2>2, <2>3, <2>4, <2>5
  <2>7. \A n \in 1 .. last : n \in 1 .. last + 1 /\ n <= last /\ a[n] = up[n]
    BY <1>4, <2>2
  <2>8. last + 1 \in 1 .. last + 1 /\ ~(last + 1 <= last) /\ (last + 1) - last = 1
    BY <1>4
  <2>9. QED
    BY <2>4, <2>6, <2>7, <2>8
<1>9. CutBack(infos, up, top) = IF Last(path) = NO_CERT_FOUND
                                THEN [code |-> "CERT_ISSUER_NOT_FOUND", indexes |-> <<>>]
                                ELSE [code |-> "VERIFIED", indexes |-> path]
  BY <1>1, <1>3, <1>6, <1>7, Zenon DEF CutBack, Above
<1>10. Last(path) = p
  BY <1>8 DEF Last
<1>11. PICK r : r = CutBack(infos, up, top)
  OBVIOUS
<1>12. /\ p # NO_CERT_FOUND => r.code = "VERIFIED" /\ r.indexes = path
       /\ p = NO_CERT_FOUND => r.code # "VERIFIED"
  BY <1>9, <1>10, <1>11
<1>13. p # NO_CERT_FOUND => PathIs(infos, up, top, last, path)
  BY <1>4, <1>5, <1>6, <1>8 DEF PathIs
<1>14. QED
  BY <1>4, <1>6, <1>11, <1>12, <1>13

LEMMA PathUpIs ==
  ASSUME NEW infos, NEW up, Ends(infos, up)
  PROVE  /\ PathUp(infos, up).code = "VERIFIED" =>
              \E top \in 1 .. MaxChain + 1 : \E last \in 1 .. top :
                Climb(infos, up, top) /\ PathIs(infos, up, top, last, PathUp(infos, up).indexes)
         /\ \A n \in 1 .. MaxChain + 1 :
              Climb(infos, up, n) /\ (\A k \in 1 .. n : Above(infos, up, k) # NO_CERT_FOUND)
                => PathUp(infos, up).code = "VERIFIED"
<1>0. PICK N : N = MaxChain + 1
  OBVIOUS
<1>1. N \in Nat \ {0} /\ ~GoesOn(infos, up, N)
  <2>1. N \in Nat \ {0}
    BY <1>0, StoreAssumption
  <2>2. ~GoesOn(infos, up, N)
    BY <1>0, Zenon DEF Ends
  <2>3. QED
    BY <2>1, <2>2
<1>2. PICK climbed : climbed = [n \in 1 .. N |-> Climbed(infos, up[n], n)]
  OBVIOUS
<1>3. /\ DOMAIN climbed = 1 .. N
      /\ \A n \in 1 .. N : /\ climbed[n] = "climb on" <=> GoesOn(infos, up, n)
                           /\ climbed[n] = "VERIFIED" <=> Arrives(infos, up, n)
  BY <1>2, Zenon DEF GoesOn, Arrives
<1>4. PICK S : S = {n \in DOMAIN climbed : climbed[n] # "climb on"}
  OBVIOUS
<1>5. \A n \in 1 .. N : n \in S <=> ~GoesOn(infos, up, n)
  BY <1>3, <1>4, Zenon
<1>6. S \in SUBSET (1 .. N)
  BY <1>3, <1>4, Zenon
<1>7. S \in SUBSET Nat /\ N \in S
  BY <1>1, <1>5, <1>6
<1>8. PICK top : top = Min(S) /\ top \in S /\ \A y \in S : top <= y
  BY <1>7, MinIs
<1>9. /\ top \in 1 .. N /\ ~GoesOn(infos, up, top)
      /\ \A n \in 1 .. N : n < top => GoesOn(infos, up, n)
  BY <1>5, <1>6, <1>8
<1>10. PathUp(infos, up) = IF climbed[top] # "VERIFIED" THEN [code |-> climbed[top], indexes |-> <<>>]
                           ELSE CutBack(infos, up, top)
  BY <1>0, <1>2, <1>4, <1>8, Zenon DEF PathUp
<1>11. \A n \in 1 .. N : Climb(infos, up, n) => n = top
  <2> SUFFICES ASSUME NEW n \in 1 .. N, Climb(infos, up, n) PROVE n = top
    OBVIOUS
  <2>1. n \in S
    <3>1. Arrives(infos, up, n) => ~GoesOn(infos, up, n)
      BY DEF Arrives, GoesOn
    <3>2. QED
      BY <1>5, <3>1 DEF Climb
  <2>2. \A k \in 1 .. N : k < n => GoesOn(infos, up, k)
    BY <1>0, Zenon DEF Climb
  <2>3. QED
    BY <1>8, <1>9, <2>1, <2>2
<1>12. CASE ~Arrives(infos, up, top)
  <2>1. climbed[top] # "VERIFIED"
    BY <1>3, <1>9, <1>12, Zenon
  <2>2. PathUp(infos, up).code = climbed[top]
    BY <1>10, <2>1
  <2>3. PathUp(infos, up).code # "VERIFIED"
    BY <2>1, <2>2, Zenon
  <2>4. \A n \in 1 .. N : ~Climb(infos, up, n)
    BY <1>11, <1>12 DEF Climb
  <2>5. QED
    BY <1>0, <2>3, <2>4, Zenon
<1>13. CASE Arrives(infos, up, top)
  <2>1. Climb(infos, up, top)
    BY <1>0, <1>9, <1>13, Zenon DEF Climb
  <2>2. PathUp(infos, up) = CutBack(infos, up, top)
    BY <1>3, <1>9, <1>10, <1>13, Zenon
  <2>3. PICK r : r = PathUp(infos, up) /\ r = CutBack(infos, up, top)
    BY <2>2
  <2>4. PICK last \in 1 .. top : \E path :
           /\ Above(infos, up, last) # NO_CERT_FOUND =>
                /\ r.code = "VERIFIED" /\ r.indexes = path
                /\ PathIs(infos, up, top, last, path)
           /\ Above(infos, up, last) = NO_CERT_FOUND => r.code # "VERIFIED"
    <3>1. top \in Nat \ {0}
      BY <1>9
    <3>2. QED
      BY <2>3, <3>1, CutBackIs, Zenon
  <2>5. r.code = "VERIFIED" => PathIs(infos, up, top, last, r.indexes)
    BY <2>4, Zenon
  <2>6. Above(infos, up, last) # NO_CERT_FOUND => r.code = "VERIFIED"
    BY <2>4, Zenon
  <2>7. ASSUME NEW n \in 1 .. N, Climb(infos, up, n),
               \A k \in 1 .. n : Above(infos, up, k) # NO_CERT_FOUND
        PROVE  r.code = "VERIFIED"
    <3>1. n = top
      BY <1>11, <2>7
    <3>2. QED
      BY <2>6, <2>7, <3>1
  <2>8. QED
    BY <1>0, <1>9, <2>1, <2>3, <2>5, <2>7, Zenon
<1>14. QED
  BY <1>12, <1>13

LEMMA TimeCheckIs ==
  ASSUME NEW c, c.start \in Nat, c.end \in Nat, now \in Nat
  PROVE  TimeCheck(c, "CERT_NOT_YET_VALID", "CERT_HAS_EXPIRED") = "VERIFIED" <=> InTime(c, now)
<1>1. PICK s, e, k : s = c.start /\ e = c.end /\ k = time_slack /\ s \in Nat /\ e \in Nat /\ k \in Nat
  BY StoreAssumption
<1>2. (s > now + k <=> ~(s <= now + k)) /\ (e + k < now <=> ~(now <= e + k))
  BY <1>1
<1>3. QED
  BY <1>1, <1>2 DEF TimeCheck, InTime

(* No verdict, or a good one.                                              *)
Fine(info) == is_verified(info) => info.result = "VERIFIED"

LEMMA StepIs ==
  ASSUME NEW infos, NEW up, NEW n,
         up[n] # NO_CERT_FOUND => infos[up[n]] \in CertInfos
  PROVE  /\ GoesOn(infos, up, n) <=>
              /\ up[n] # NO_CERT_FOUND /\ Fine(infos[up[n]]) /\ infos[up[n]].cert.ca
              /\ ~infos[up[n]].trusted /\ ~is_self_signed(infos[up[n]].cert)
              /\ ~(infos[up[n]].cert.limit < n - 1)
         /\ Arrives(infos, up, n) <=>
              up[n] # NO_CERT_FOUND /\ Fine(infos[up[n]]) /\ infos[up[n]].cert.ca /\ infos[up[n]].trusted
<1>1. PICK i, info : i = up[n] /\ info = infos[i]
  OBVIOUS
<1>2. PICK step : step = Climbed(infos, i, n)
  OBVIOUS
<1>3. CASE i = NO_CERT_FOUND
  <2>1. step = "CERT_ISSUER_NOT_FOUND"
    BY <1>2, <1>3, Zenon DEF Climbed
  <2>2. step # "climb on" /\ step # "VERIFIED"
    BY <2>1
  <2>3. QED
    BY <1>1, <1>2, <1>3, <2>2, Zenon DEF GoesOn, Arrives
<1>4. CASE i # NO_CERT_FOUND
  <2>1. info.result # "climb on"
    <3>1. info \in CertInfos
      BY <1>1, <1>4
    <3>2. QED
      BY <3>1 DEF CertInfos, Codes
  <2>2. step = IF is_verified(info) /\ info.result # "VERIFIED" THEN info.result
               ELSE IF ~info.cert.ca THEN "CA_CERT_NOT_FOR_CERT_ISSUER"
               ELSE IF info.trusted THEN "VERIFIED"
               ELSE IF is_self_signed(info.cert) THEN "CANNOT_ESTABLISH_TRUST"
               ELSE IF info.cert.limit < n - 1 THEN "CERT_CHAIN_TOO_LONG"
               ELSE "climb on"
    BY <1>1, <1>2, <1>4, Zenon DEF Climbed
  <2>3. PICK tooLong \in BOOLEAN : tooLong <=> info.cert.limit < n - 1
    BY Zenon
  <2>4. PICK self \in BOOLEAN : self <=> is_self_signed(info.cert)
    BY Zenon
  <2>5. PICK known \in BOOLEAN : known <=> is_verified(info)
    BY Zenon
  <2>6. step = IF known /\ info.result # "VERIFIED" THEN info.result
               ELSE IF ~info.cert.ca THEN "CA_CERT_NOT_FOR_CERT_ISSUER"
               ELSE IF info.trusted THEN "VERIFIED"
               ELSE IF self THEN "CANNOT_ESTABLISH_TRUST"
               ELSE IF tooLong THEN "CERT_CHAIN_TOO_LONG"
               ELSE "climb on"
    BY <2>2, <2>3, <2>4, <2>5, Zenon
  <2>7. /\ step = "climb on" <=> /\ known => info.result = "VERIFIED"
                                 /\ info.cert.ca /\ ~info.trusted /\ ~self /\ ~tooLong
        /\ step = "VERIFIED" <=> (known => info.result = "VERIFIED") /\ info.cert.ca /\ info.trusted
    BY ONLY <2>1, <2>6
  <2>8. QED
    BY <1>1, <1>2, <1>4, <2>3, <2>4, <2>5, <2>7, Zenon DEF GoesOn, Arrives, Fine
<1>5. QED
  BY <1>3, <1>4

-----------------------------------------------------------------------------
(* The checks along a path.                                                *)

Passed(infos, path, n) ==
  Intime(infos, path, n) = "VERIFIED" /\ Signed(infos, path, n) = "VERIFIED"

LEMMA FirstIs ==
  ASSUME NEW infos, NEW path, NEW m \in Nat \ {0}, Len(path) = m + 1
  PROVE  /\ FirstFailure(infos, path) \in 1 .. m + 1
         /\ FirstFailure(infos, path) = m + 1 <=> \A n \in 1 .. m : Passed(infos, path, n)
         /\ FirstFailure(infos, path) # m + 1 => ~Passed(infos, path, FirstFailure(infos, path))
<1>0. PICK length : length = Len(path)
  OBVIOUS
<1>1. length = Len(path) /\ length = m + 1 /\ length - 1 = m
  <2>1. length = m + 1
    BY <1>0, Zenon
  <2>2. QED
    BY <1>0, <2>1
<1>2. PICK F : F = {n \in 1 .. Len(path) - 1 : Intime(infos, path, n) # "VERIFIED"
                                                 \/ Signed(infos, path, n) # "VERIFIED"}
  OBVIOUS
<1>3. \A n \in 1 .. Len(path) - 1 : n \in F <=> ~Passed(infos, path, n)
  BY <1>2, Zenon DEF Passed
<1>4. F \in SUBSET (1 .. m) /\ \A n \in 1 .. m : n \in F <=> ~Passed(infos, path, n)
  <2>1. F \in SUBSET (1 .. Len(path) - 1)
    BY <1>2, Zenon
  <2>2. 1 .. Len(path) - 1 = 1 .. m
    BY <1>1
  <2>3. QED
    BY <1>3, <2>1, <2>2, Zenon
<1>5. PICK S : S = {length} \cup F
  OBVIOUS
<1>6. S \in SUBSET Nat /\ S # {} /\ length \in S
  BY <1>1, <1>4, <1>5
<1>7. PICK stop : stop = Min(S) /\ stop \in S /\ \A y \in S : stop <= y
  BY <1>6, MinIs
<1>8. FirstFailure(infos, path) = stop
  BY <1>1, <1>2, <1>5, <1>7, Zenon DEF FirstFailure
<1>9. stop = length \/ stop \in F
  BY <1>5, <1>7
<1>10. stop \in 1 .. m + 1
  <2>1. stop \in 1 .. m \/ stop = m + 1
    BY <1>1, <1>4, <1>9, Zenon
  <2>2. QED
    BY ONLY <2>1, m \in Nat \ {0}
<1>11. stop # m + 1 => ~Passed(infos, path, stop)
  BY <1>1, <1>4, <1>9
<1>12. stop = m + 1 => F = {}
  <2> SUFFICES ASSUME stop = m + 1, NEW n \in F PROVE FALSE
    OBVIOUS
  <2>1. n \in 1 .. m /\ stop <= n
    BY <1>4, <1>5, <1>7
  <2>2. QED
    BY <2>1
<1>13. F = {} => stop = m + 1
  BY <1>1, <1>9
<1>14. stop = m + 1 <=> \A n \in 1 .. m : Passed(infos, path, n)
  BY <1>4, <1>12, <1>13
<1>15. QED
  BY <1>8, <1>10, <1>11, <1>14

(* What is asked of c itself.                                              *)
Own(infos, path, c, usage) ==
  /\ InTime(c, now) /\ check_sig(c, infos[path[1]].cert) = "VERIFIED"
  /\ ~is_revoked(c) /\ usage_check(c, usage) = "VERIFIED"

Asked(chain, c, path, m) ==
  /\ c.start \in Nat /\ c.end \in Nat /\ now \in Nat /\ m \in Nat \ {0}
  /\ path = chain.indexes /\ (chain.code = "VERIFIED" => Len(path) = m + 1)

Answer(verdict, infos, chain, c, usage, path, m) ==
  /\ verdict.code = "VERIFIED" <=>
       /\ chain.code = "VERIFIED" /\ Own(infos, path, c, usage)
       /\ \A n \in 1 .. m : Passed(infos, path, n)
  /\ \/ verdict.infos = infos
     \/ chain.code = "VERIFIED" /\ \E stop \in 1 .. m + 1 : verdict.infos = Kept(infos, path, stop)

LEMMA VerdictAlongIs ==
  ASSUME NEW infos, NEW chain, NEW c, NEW usage, NEW path, NEW m, Asked(chain, c, path, m)
  PROVE  Answer(VerdictAlong(infos, chain, c, usage), infos, chain, c, usage, path, m)
<1>0. /\ c.start \in Nat /\ c.end \in Nat /\ now \in Nat /\ m \in Nat \ {0}
      /\ path = chain.indexes /\ (chain.code = "VERIFIED" => Len(path) = m + 1)
  BY DEF Asked
<1>1. PICK own, stop, r : /\ own = TimeCheck(c, "CERT_NOT_YET_VALID", "CERT_HAS_EXPIRED")
                          /\ stop = FirstFailure(infos, path) /\ r = VerdictAlong(infos, chain, c, usage)
  OBVIOUS
<1>2. own = "VERIFIED" <=> InTime(c, now)
  BY <1>0, <1>1, TimeCheckIs
<1>3. r = IF chain.code # "VERIFIED" THEN [code |-> chain.code, infos |-> infos]
          ELSE IF own # "VERIFIED" THEN [code |-> own, infos |-> infos]
          ELSE IF check_sig(c, infos[path[1]].cert) # "VERIFIED"
               THEN [code |-> "SIGNATURE_ERROR", infos |-> infos]
          ELSE IF is_revoked(c) THEN [code |-> "CERT_IS_REVOKED", infos |-> infos]
          ELSE [code |-> IF stop = Len(path) THEN usage_check(c, usage)
                         ELSE IF Intime(infos, path, stop) # "VERIFIED" THEN Intime(infos, path, stop)
                         ELSE Signed(infos, path, stop),
                infos |-> Kept(infos, path, stop)]
  BY <1>0, <1>1, Zenon DEF VerdictAlong
<1>4. CASE chain.code # "VERIFIED"
  <2>1. r = [code |-> chain.code, infos |-> infos]
    BY <1>3, <1>4, Zenon
  <2>2. r.code = chain.code /\ r.infos = infos
    BY <2>1
  <2>3. QED
    BY <1>1, <1>4, <2>2, Zenon DEF Answer
<1>5. CASE chain.code = "VERIFIED" /\ own # "VERIFIED"
  <2>1. r = [code |-> own, infos |-> infos]
    BY <1>3, <1>5, Zenon
  <2>2. r.code = own /\ r.infos = infos
    BY <2>1
  <2>3. QED
    BY <1>1, <1>2, <1>5, <2>2, Zenon DEF Own, Answer
<1>6. CASE /\ chain.code = "VERIFIED" /\ own = "VERIFIED"
           /\ check_sig(c, infos[path[1]].cert) # "VERIFIED"
  <2>1. r = [code |-> "SIGNATURE_ERROR", infos |-> infos]
    BY <1>3, <1>6, Zenon
  <2>2. r.code # "VERIFIED" /\ r.infos = infos
    BY <2>1
  <2>3. QED
    BY <1>1, <1>6, <2>2, Zenon DEF Own, Answer
<1>7. CASE /\ chain.code = "VERIFIED" /\ own = "VERIFIED"
           /\ check_sig(c, infos[path[1]].cert) = "VERIFIED" /\ is_revoked(c)
  <2>1. r = [code |-> "CERT_IS_REVOKED", infos |-> infos]
    BY <1>3, <1>7, Zenon
  <2>2. r.code # "VERIFIED" /\ r.infos = infos
    BY <2>1
  <2>3. QED
    BY <1>1, <1>7, <2>2, Zenon DEF Own, Answer
<1>8. CASE /\ chain.code = "VERIFIED" /\ own = "VERIFIED"
           /\ check_sig(c, infos[path[1]].cert) = "VERIFIED" /\ ~is_revoked(c)
  <2>1. PICK last : last = IF stop = Len(path) THEN usage_check(c, usage)
                           ELSE IF Intime(infos, path, stop) # "VERIFIED" THEN Intime(infos, path, stop)
                           ELSE Signed(infos, path, stop)
    OBVIOUS
  <2>2. r = [code |-> last, infos |-> Kept(infos, path, stop)]
    BY <1>3, <1>8, <2>1, Zenon
  <2>3. r.code = last /\ r.infos = Kept(infos, path, stop)
    BY <2>2
  <2>4. /\ stop \in 1 .. m + 1
        /\ stop = m + 1 <=> \A n \in 1 .. m : Passed(infos, path, n)
        /\ stop # m + 1 => ~Passed(infos, path, stop)
    BY <1>0, <1>1, <1>8, FirstIs
  <2>5. stop = Len(path) <=> stop = m + 1
    BY <1>0, <1>8, Zenon
  <2>6. last = "VERIFIED" <=> stop = m + 1 /\ usage_check(c, usage) = "VERIFIED"
    <3>1. CASE stop = m + 1
      BY <2>1, <2>5, <3>1, Zenon
    <3>2. CASE stop # m + 1
      <4>1. Intime(infos, path, stop) = "VERIFIED" => Signed(infos, path, stop) # "VERIFIED"
        BY <2>4, <3>2, Zenon DEF Passed
      <4>2. QED
        BY <2>1, <2>5, <3>2, <4>1, Zenon
    <3>3. QED
      BY <3>1, <3>2
  <2>7. Own(infos, path, c, usage) <=> usage_check(c, usage) = "VERIFIED"
    BY <1>2, <1>8, Zenon DEF Own
  <2>8. QED
    BY <1>1, <1>8, <2>3, <2>4, <2>6, <2>7, Zenon DEF Answer
<1>9. QED
  BY <1>4, <1>5, <1>6, <1>7, <1>8, Zenon

(* The path that has been found, each certificate before its issuer.       *)
PathOn(path, m) ==
  /\ Len(path) = m + 1
  /\ \A n \in 1 .. m : /\ path[n] \in 1 .. Len(certs) /\ path[n + 1] \in 1 .. Len(certs)
                       /\ path[n + 1] = find_parent_of(certs[path[n]].cert)

(* What of a path that has not been asked is fine.                         *)
WayIs(infos, up, top) ==
  \A n \in 1 .. top :
    /\ up[n] \in 1 .. Len(certs) /\ Fine(infos[up[n]]) /\ certs[up[n]].cert.ca
    /\ n = top => certs[up[n]].trusted
    /\ n # top => /\ ~certs[up[n]].trusted /\ ~is_self_signed(certs[up[n]].cert)
                  /\ ~(certs[up[n]].cert.limit < n - 1)

LEMMA ClimbIs ==
  ASSUME certs \in Seq(CertInfos), NEW infos, Sound(infos), NEW up,
         \A n \in 1 .. MaxChain + 1 : up[n] \in 0 .. Len(certs), NEW top \in 1 .. MaxChain + 1
  PROVE  Climb(infos, up, top) <=> WayIs(infos, up, top)
<1>1. PICK N : N = MaxChain + 1
  OBVIOUS
<1>2. N \in Nat /\ top \in 1 .. N /\ \A n \in 1 .. N : up[n] \in 0 .. Len(certs)
  <2>1. N \in Nat
    BY <1>1, StoreAssumption
  <2>2. QED
    BY <1>1, <2>1, Zenon
<1>3. ASSUME NEW n \in 1 .. N
      PROVE  /\ GoesOn(infos, up, n) <=>
                  /\ up[n] \in 1 .. Len(certs) /\ Fine(infos[up[n]]) /\ certs[up[n]].cert.ca
                  /\ ~certs[up[n]].trusted /\ ~is_self_signed(certs[up[n]].cert)
                  /\ ~(certs[up[n]].cert.limit < n - 1)
             /\ Arrives(infos, up, n) <=>
                  /\ up[n] \in 1 .. Len(certs) /\ Fine(infos[up[n]]) /\ certs[up[n]].cert.ca
                  /\ certs[up[n]].trusted
  <2>1. PICK i : i = up[n]
    OBVIOUS
  <2>2. i \in 0 .. Len(certs)
    BY <1>2, <2>1, Zenon
  <2>3. i # NO_CERT_FOUND <=> i \in 1 .. Len(certs)
    BY <2>2 DEF NO_CERT_FOUND
  <2>4. i \in 1 .. Len(certs) =>
          infos[i] \in CertInfos /\ infos[i].cert = certs[i].cert /\ infos[i].trusted = certs[i].trusted
    BY DEF Sound
  <2>5. up[n] # NO_CERT_FOUND => infos[up[n]] \in CertInfos
    BY <2>1, <2>3, <2>4, Zenon
  <2>6. /\ GoesOn(infos, up, n) <=>
             /\ up[n] # NO_CERT_FOUND /\ Fine(infos[up[n]]) /\ infos[up[n]].cert.ca
             /\ ~infos[up[n]].trusted /\ ~is_self_signed(infos[up[n]].cert)
             /\ ~(infos[up[n]].cert.limit < n - 1)
        /\ Arrives(infos, up, n) <=>
             up[n] # NO_CERT_FOUND /\ Fine(infos[up[n]]) /\ infos[up[n]].cert.ca /\ infos[up[n]].trusted
    BY <2>5, StepIs, Zenon
  <2>7. QED
    BY <2>1, <2>3, <2>4, <2>6, Zenon
<1>4. \A n \in 1 .. top : n \in 1 .. N /\ (n # top <=> n < top)
  BY <1>2
<1>5. \A n \in 1 .. N : n < top => n \in 1 .. top
  BY <1>2
<1>6. top \in 1 .. top
  BY <1>2
<1>7. Climb(infos, up, top) <=> Arrives(infos, up, top) /\ \A n \in 1 .. N : n < top => GoesOn(infos, up, n)
  BY <1>1, Zenon DEF Climb
<1>8. WayIs(infos, up, top) <=>
        /\ up[top] \in 1 .. Len(certs) /\ Fine(infos[up[top]]) /\ certs[up[top]].cert.ca
        /\ certs[up[top]].trusted
        /\ \A n \in 1 .. top : n # top =>
             /\ up[n] \in 1 .. Len(certs) /\ Fine(infos[up[n]]) /\ certs[up[n]].cert.ca
             /\ ~certs[up[n]].trusted /\ ~is_self_signed(certs[up[n]].cert)
             /\ ~(certs[up[n]].cert.limit < n - 1)
  BY <1>6, Zenon DEF WayIs
<1>9. Climb(infos, up, top) => WayIs(infos, up, top)
  BY <1>2, <1>3, <1>4, <1>7, <1>8, Zenon
<1>10. WayIs(infos, up, top) => Climb(infos, up, top)
  <2> SUFFICES ASSUME WayIs(infos, up, top) PROVE Climb(infos, up, top)
    OBVIOUS
  <2>1. Arrives(infos, up, top)
    BY <1>2, <1>3, <1>8, Zenon
  <2>2. \A n \in 1 .. N : n < top => GoesOn(infos, up, n)
    BY <1>3, <1>4, <1>5, <1>8, Zenon
  <2>3. QED
    BY <1>7, <2>1, <2>2
<1>11. QED
  BY <1>9, <1>10

ChainFits(infos, up, path, max) ==
  \E top \in 1 .. max : \E last \in 1 .. top :
    /\ WayIs(infos, up, top) /\ PathOn(path, last)
    /\ \A n \in 1 .. last : path[n] = up[n]
    /\ \A n \in 1 .. top : n > last => is_verified(infos[up[n]])

ChainExists(infos, up, max) ==
  \E top \in 1 .. max : WayIs(infos, up, top) /\ \A k \in 1 .. top : HasIssuer(certs[up[k]].cert)

LEMMA ChainIs ==
  ASSUME certs \in Seq(CertInfos), NEW infos, Sound(infos), NEW c, NEW up, up = Up(c)
  PROVE  /\ \A n \in 1 .. MaxChain + 1 : up[n] \in 0 .. Len(certs)
         /\ Chain(infos, c).code = "VERIFIED" => ChainFits(infos, up, Chain(infos, c).indexes, MaxChain + 1)
         /\ ChainExists(infos, up, MaxChain + 1) => Chain(infos, c).code = "VERIFIED"
<1>1. PICK N : N = MaxChain + 1
  OBVIOUS
<1>2. N \in Nat /\ \A n \in 1 .. N : n # 1 => n - 1 \in 1 .. N
  <2>1. N \in Nat
    BY <1>1, StoreAssumption
  <2>2. QED
    BY <2>1
<1>3. IsUp(up, c)
  BY UpIs
<1>4. /\ \A n \in 1 .. MaxChain + 1 : up[n] \in 0 .. Len(certs)
      /\ \A n \in 1 .. N : up[n] \in 0 .. Len(certs)
      /\ \A n \in 1 .. N : n # 1 =>
           up[n] = IF up[n - 1] = NO_CERT_FOUND THEN NO_CERT_FOUND ELSE find_parent_of(certs[up[n - 1]].cert)
  BY <1>1, <1>3, Zenon DEF IsUp
<1>5. PICK r : r = Chain(infos, c) /\ r = PathUp(infos, up)
  BY Zenon DEF Chain
<1>6. Ends(infos, up)
  BY ClimbEnds, Zenon
<1>7. /\ r.code = "VERIFIED" =>
           \E top \in 1 .. N : \E last \in 1 .. top :
             Climb(infos, up, top) /\ PathIs(infos, up, top, last, r.indexes)
      /\ \A n \in 1 .. N :
           Climb(infos, up, n) /\ (\A k \in 1 .. n : Above(infos, up, k) # NO_CERT_FOUND) => r.code = "VERIFIED"
  BY <1>1, <1>5, <1>6, PathUpIs, Zenon
<1>8. \A top \in 1 .. N : Climb(infos, up, top) <=> WayIs(infos, up, top)
  BY <1>1, <1>4, ClimbIs, Zenon
<1>9. \A top \in 1 .. N : \A k \in 1 .. top : k \in 1 .. N
  BY <1>2
<1>10. \A top \in 1 .. N : WayIs(infos, up, top) =>
         \A k \in 1 .. top : Above(infos, up, k) = find_parent_of(certs[up[k]].cert)
  <2>1. \A j \in 1 .. Len(certs) : infos[j].cert = certs[j].cert
    BY Zenon DEF Sound
  <2>2. QED
    BY <2>1, Zenon DEF WayIs, Above
<1>11. ASSUME NEW top \in 1 .. N, NEW last \in 1 .. top, WayIs(infos, up, top),
              PathIs(infos, up, top, last, r.indexes)
       PROVE  /\ PathOn(r.indexes, last)
              /\ \A n \in 1 .. last : r.indexes[n] = up[n]
              /\ \A n \in 1 .. top : n > last => is_verified(infos[up[n]])
  <2>1. PICK path : path = r.indexes
    OBVIOUS
  <2>2. /\ Len(path) = last + 1 /\ \A n \in 1 .. last : path[n] = up[n]
        /\ path[last + 1] = Above(infos, up, last) /\ path[last + 1] # NO_CERT_FOUND
        /\ \A n \in 1 .. top : n > last => is_verified(infos[up[n]])
    BY <1>11, <2>1, Zenon DEF PathIs
  <2>3. last \in 1 .. top /\ last \in Nat /\ \A n \in 1 .. last : n \in 1 .. top /\ n \in 1 .. N
    BY <1>2
  <2>4. \A n \in 1 .. last : up[n] \in 1 .. Len(certs)
    BY <1>11, <2>3, Zenon DEF WayIs
  <2>5. \A d : find_parent_of(d) # NO_CERT_FOUND => find_parent_of(d) \in 1 .. Len(certs)
    BY IssuersFound, Zenon DEF IssuersAre, IssuerIs
  <2>6. ASSUME NEW n \in 1 .. last
        PROVE  path[n + 1] = find_parent_of(certs[path[n]].cert) /\ path[n + 1] # NO_CERT_FOUND
    <3>1. CASE n = last
      <4>1. path[n + 1] = find_parent_of(certs[up[last]].cert) /\ path[n + 1] # NO_CERT_FOUND
        BY <1>10, <1>11, <2>2, <2>3, <3>1, Zenon
      <4>2. path[n] = up[last]
        BY <2>2, <3>1, Zenon
      <4>3. QED
        BY <4>1, <4>2, Zenon
    <3>2. CASE n # last
      <4>1. PICK k : k = n + 1
        OBVIOUS
      <4>2. k \in 1 .. last /\ k # 1 /\ k - 1 = n
        BY <2>3, <3>2, <4>1
      <4>3. k \in 1 .. N /\ up[k] \in 1 .. Len(certs) /\ up[n] \in 1 .. Len(certs)
        BY <2>3, <2>4, <4>2, Zenon
      <4>4. up[k] # NO_CERT_FOUND /\ up[n] # NO_CERT_FOUND
        BY <4>3 DEF NO_CERT_FOUND
      <4>5. up[k] = find_parent_of(certs[up[n]].cert)
        <5>1. up[k] = IF up[k - 1] = NO_CERT_FOUND THEN NO_CERT_FOUND
                      ELSE find_parent_of(certs[up[k - 1]].cert)
          BY <1>4, <4>2, <4>3, Zenon
        <5>2. QED
          BY <4>2, <4>4, <5>1, Zenon
      <4>6. path[k] = up[k] /\ path[n] = up[n]
        BY <2>2, <4>2, Zenon
      <4>7. QED
        BY <4>1, <4>4, <4>5, <4>6, Zenon
    <3>3. QED
      BY <3>1, <3>2
  <2>7. PathOn(path, last)
    BY <2>2, <2>4, <2>5, <2>6, Zenon DEF PathOn
  <2>8. QED
    BY <2>1, <2>2, <2>7, Zenon
<1>12. r.code = "VERIFIED" =>
         \E top \in 1 .. N : \E last \in 1 .. top :
           /\ WayIs(infos, up, top) /\ PathOn(r.indexes, last)
           /\ \A n \in 1 .. last : r.indexes[n] = up[n]
           /\ \A n \in 1 .. top : n > last => is_verified(infos[up[n]])
  <2> SUFFICES ASSUME r.code = "VERIFIED"
               PROVE  \E top \in 1 .. N : \E last \in 1 .. top :
                        /\ WayIs(infos, up, top) /\ PathOn(r.indexes, last)
                        /\ \A n \in 1 .. last : r.indexes[n] = up[n]
                        /\ \A n \in 1 .. top : n > last => is_verified(infos[up[n]])
    OBVIOUS
  <2>1. PICK top \in 1 .. N : \E last \in 1 .. top :
             Climb(infos, up, top) /\ PathIs(infos, up, top, last, r.indexes)
    BY <1>7
  <2>2. PICK last \in 1 .. top : Climb(infos, up, top) /\ PathIs(infos, up, top, last, r.indexes)
    BY <2>1
  <2>3. WayIs(infos, up, top)
    BY <1>8, <2>2
  <2>4. QED
    BY <1>11, <2>2, <2>3, Zenon
<1>13. \A top \in 1 .. N :
         WayIs(infos, up, top) /\ (\A k \in 1 .. top : HasIssuer(certs[up[k]].cert)) => r.code = "VERIFIED"
  <2> SUFFICES ASSUME NEW top \in 1 .. N, WayIs(infos, up, top),
                      \A k \in 1 .. top : HasIssuer(certs[up[k]].cert)
               PROVE  r.code = "VERIFIED"
    OBVIOUS
  <2>1. \A k \in 1 .. top : Above(infos, up, k) # NO_CERT_FOUND
    BY <1>10, Zenon DEF HasIssuer
  <2>2. QED
    BY <1>7, <1>8, <2>1, Zenon
<1>14. r.code = "VERIFIED" => ChainFits(infos, up, r.indexes, N)
  BY <1>12, Zenon DEF ChainFits
<1>15. ChainExists(infos, up, N) => r.code = "VERIFIED"
  BY <1>13, Zenon DEF ChainExists
<1>16. QED
  BY <1>1, <1>4, <1>5, <1>14, <1>15, Zenon

-----------------------------------------------------------------------------
(* What a validation leaves cached is as sound as what it found.           *)

LEMMA NotRevoked ==
  ASSUME NEW info \in CertInfos, Cached(info), Marked(info), Fine(info)
  PROVE  ~is_revoked(info.cert)
<1>1. info.result \in {"CERT_IS_REVOKED", "SIGNATURE_ERROR"} => is_verified(info) /\ info.result # "VERIFIED"
  BY DEF Cached, is_verified
<1>2. QED
  BY <1>1 DEF Marked, Fine

LEMMA SignatureCached ==
  ASSUME NEW info \in CertInfos, NEW code, now \in Nat, HasIssuer(info.cert), InTime(info.cert, now),
         code = "VERIFIED" <=> IssuerSigned(info.cert), code \in {"VERIFIED", "SIGNATURE_ERROR"},
         ~is_revoked(info.cert)
  PROVE  /\ with_result(info, code) \in CertInfos
         /\ with_result(info, code).cert = info.cert /\ with_result(info, code).trusted = info.trusted
         /\ Cached(with_result(info, code)) /\ Marked(with_result(info, code))
<1>1. code \in Codes
  BY DEF Codes
<1>2. PICK r : r = with_result(info, code)
  OBVIOUS
<1>3. /\ r \in CertInfos /\ r.cert = info.cert /\ r.trusted = info.trusted
      /\ r.result = code /\ r.checked /\ r.last_checked = now
  BY <1>1, <1>2, WithResultIs
<1>4. Cached(r) /\ Marked(r)
  BY <1>3 DEF Cached, Marked
<1>5. QED
  BY <1>2, <1>3, <1>4

LEMMA CertTimes ==
  ASSUME NEW c \in Certificates \cup Subjects
  PROVE  c.start \in Nat /\ c.end \in Nat
BY StoreAssumption

LEMMA KeptSound ==
  ASSUME StoreTypeOK, NEW infos, Sound(infos), NEW path, NEW m \in Nat \ {0}, PathOn(path, m),
         NEW stop \in 1 .. m + 1
  PROVE  Sound(Kept(infos, path, stop))
<1>1. PICK n \in Nat : n = Len(certs)
  BY DEF StoreTypeOK
<1>2. /\ DOMAIN infos = 1 .. n /\ infos \in Seq(CertInfos) /\ now \in Nat
      /\ \A j \in 1 .. n : /\ infos[j] \in CertInfos
                           /\ infos[j].cert = certs[j].cert /\ infos[j].trusted = certs[j].trusted
                           /\ Cached(infos[j]) /\ Marked(infos[j])
  BY <1>1 DEF Sound, StoreTypeOK
<1>3. PICK length : length = Len(path)
  OBVIOUS
<1>4. length = m + 1 /\ length - 1 = m
  <2>1. length = m + 1
    BY <1>3, Zenon DEF PathOn
  <2>2. QED
    BY <2>1
<1> DEFINE checked == {i \in 1 .. Min({stop, Len(path) - 1}) : Intime(infos, path, i) = "VERIFIED"}
<1>6. \A i \in checked : i \in 1 .. m /\ Intime(infos, path, i) = "VERIFIED"
  <2>1. PICK S, b : S = {stop, length - 1} /\ b = Min(S)
    OBVIOUS
  <2>2. S \in SUBSET Nat /\ S # {} /\ m \in S
    BY <1>4, <2>1
  <2>3. b \in Nat /\ b <= m
    BY <2>1, <2>2, MinIs
  <2>4. \A i \in 1 .. b : i \in 1 .. m
    BY <2>3
  <2>5. \A i \in checked : i \in 1 .. b /\ Intime(infos, path, i) = "VERIFIED"
    BY <1>3, <2>1, Zenon
  <2>6. QED
    BY <2>4, <2>5, Zenon
<1>7. PICK t : t = Kept(infos, path, stop)
  OBVIOUS
<1>8. t = [j \in DOMAIN infos |->
             IF \E i \in checked : path[i] = j /\ ~is_verified(infos[j])
             THEN with_result(infos[j], Signed(infos, path, CHOOSE i \in checked : path[i] = j))
             ELSE infos[j]]
  BY <1>7, Zenon DEF Kept
<1> HIDE DEF checked
<1>9. ASSUME NEW j \in 1 .. n
      PROVE  /\ t[j] \in CertInfos /\ t[j].cert = certs[j].cert /\ t[j].trusted = certs[j].trusted
             /\ Cached(t[j]) /\ Marked(t[j])
  <2>1. t[j] = IF \E i \in checked : path[i] = j /\ ~is_verified(infos[j])
               THEN with_result(infos[j], Signed(infos, path, CHOOSE i \in checked : path[i] = j))
               ELSE infos[j]
    BY <1>2, <1>8, Zenon
  <2>2. PICK info : info = infos[j]
    OBVIOUS
  <2>3. info \in CertInfos /\ Cached(info) /\ Marked(info)
        /\ info.cert = certs[j].cert /\ info.trusted = certs[j].trusted
    BY <1>2, <2>2, Zenon
  <2>4. CASE \E i \in checked : path[i] = j /\ ~is_verified(infos[j])
    <3>1. PICK k : k = CHOOSE i \in checked : path[i] = j
      OBVIOUS
    <3>2. k \in checked /\ path[k] = j
      BY <2>4, <3>1, Zenon
    <3>3. PICK code : code = Signed(infos, path, k)
      OBVIOUS
    <3>4. t[j] = with_result(info, code)
      BY <2>1, <2>2, <2>4, <3>1, <3>3, Zenon
    <3>5. k \in 1 .. m /\ Intime(infos, path, k) = "VERIFIED"
      BY <1>6, <3>2
    <3>6. PICK p : p = path[k + 1]
      OBVIOUS
    <3>7. p \in 1 .. n /\ p = find_parent_of(info.cert)
      BY <1>1, <2>3, <3>2, <3>5, <3>6, Zenon DEF PathOn
    <3>8. ~is_verified(info)
      BY <2>2, <2>4, Zenon
    <3>9. code = check_sig(info.cert, certs[p].cert)
      <4>1. code = check_sig(infos[path[k]].cert, infos[path[k + 1]].cert)
        BY <2>2, <3>2, <3>3, <3>8, Zenon DEF Signed
      <4>2. infos[p].cert = certs[p].cert
        BY <1>2, <3>7, Zenon
      <4>3. QED
        BY <2>2, <3>2, <3>6, <4>1, <4>2, Zenon
    <3>10. HasIssuer(info.cert)
      BY <3>7 DEF HasIssuer, NO_CERT_FOUND
    <3>11. /\ code = "VERIFIED" <=> IssuerSigned(info.cert)
           /\ code \in {"VERIFIED", "SIGNATURE_ERROR"}
      BY <3>7, <3>9 DEF IssuerSigned, check_sig
    <3>12. InTime(info.cert, now)
      <4>1. info.cert \in Certificates \cup Subjects
        BY <2>3 DEF CertInfos
      <4>2. info.cert.start \in Nat /\ info.cert.end \in Nat
        BY <4>1, CertTimes
      <4>3. Intime(infos, path, k) = TimeCheck(info.cert, "CERT_NOT_YET_VALID", "CERT_HAS_EXPIRED")
        BY <2>2, <3>2, Zenon DEF Intime
      <4>4. QED
        BY <1>2, <3>5, <4>2, <4>3, TimeCheckIs, Zenon
    <3>13. ~is_revoked(info.cert)
      <4>1. Fine(info)
        BY <3>8 DEF Fine
      <4>2. QED
        BY <2>3, <4>1, NotRevoked
    <3>14. QED
      BY <1>2, <2>3, <3>4, <3>10, <3>11, <3>12, <3>13, SignatureCached
  <2>5. CASE ~(\E i \in checked : path[i] = j /\ ~is_verified(infos[j]))
    <3>1. t[j] = info
      BY <2>1, <2>2, <2>5, Zenon
    <3>2. QED
      BY <2>3, <3>1
  <2>6. QED
    BY <2>4, <2>5
<1>10. t \in [1 .. n -> CertInfos]
  <2>1. t = [j \in 1 .. n |-> t[j]]
    BY <1>2, <1>8
  <2>2. \A j \in 1 .. n : t[j] \in CertInfos
    BY <1>9
  <2>3. QED
    BY ONLY <2>1, <2>2
<1>11. t \in Seq(CertInfos) /\ Len(t) = n
  BY ONLY <1>10, n \in Nat, SequenceIs
<1>12. QED
  BY <1>1, <1>7, <1>9, <1>11, Zenon DEF Sound

LEMMA VerdictSound ==
  ASSUME StoreTypeOK, NEW infos, Sound(infos), NEW c, c.start \in Nat, c.end \in Nat, NEW usage
  PROVE  Sound(VerdictFrom(infos, c, usage).infos)
<1>1. PICK chain : chain = Chain(infos, c)
  OBVIOUS
<1>2. PICK path, up : path = chain.indexes /\ up = Up(c)
  OBVIOUS
<1>3. certs \in Seq(CertInfos) /\ now \in Nat
  BY DEF StoreTypeOK
<1>4. PICK t : t = VerdictAlong(infos, chain, c, usage).infos
  OBVIOUS
<1>5. PICK m \in Nat \ {0} : chain.code = "VERIFIED" => PathOn(path, m)
  <2>1. CASE chain.code = "VERIFIED"
    <3>1. ChainFits(infos, up, path, MaxChain + 1)
      BY <1>1, <1>2, <1>3, <2>1, ChainIs, Zenon
    <3>2. PICK top \in 1 .. MaxChain + 1 : \E last \in 1 .. top : PathOn(path, last)
      BY <3>1, Zenon DEF ChainFits
    <3>3. PICK last \in 1 .. top : PathOn(path, last)
      BY <3>2
    <3>4. last \in Nat \ {0}
      BY <3>3
    <3>5. QED
      BY <3>3, <3>4, Zenon
  <2>2. CASE chain.code # "VERIFIED"
    <3>1. 1 \in Nat \ {0}
      OBVIOUS
    <3>2. QED
      BY <2>2, <3>1, Zenon
  <2>3. QED
    BY <2>1, <2>2
<1>6. chain.code = "VERIFIED" => Len(path) = m + 1
  BY <1>5, Zenon DEF PathOn
<1>7. \/ t = infos
      \/ chain.code = "VERIFIED" /\ \E stop \in 1 .. m + 1 : t = Kept(infos, path, stop)
  <2>1. Asked(chain, c, path, m)
    BY <1>2, <1>3, <1>6 DEF Asked
  <2>2. Answer(VerdictAlong(infos, chain, c, usage), infos, chain, c, usage, path, m)
    BY <2>1, VerdictAlongIs
  <2>3. QED
    BY <1>4, <2>2, Zenon DEF Answer
<1>8. Sound(t)
  BY <1>5, <1>7, KeptSound, Zenon
<1>9. QED
  BY <1>1, <1>4, <1>8, Zenon DEF VerdictFrom

-----------------------------------------------------------------------------
(* Every call keeps the invariant.                                         *)

LEMMA CachedKept ==
  ASSUME certs \in Seq(CertInfos), certs' \in Seq(CertInfos), OnlyAdded,
         now \in Nat, now' \in Nat, now <= now',
         NEW CONSTANT info \in CertInfos, Cached(info)
  PROVE  Cached(info)'
<1>1. PICK c : c = info.cert
  OBVIOUS
<1>2. HasIssuer(c) => HasIssuer(c)' /\ (IssuerSigned(c)' <=> IssuerSigned(c))
  <2> SUFFICES ASSUME HasIssuer(c) PROVE HasIssuer(c)' /\ (IssuerSigned(c)' <=> IssuerSigned(c))
    OBVIOUS
  <2>1. HasIssuer(c)' /\ find_parent_of(c)' = find_parent_of(c)
    BY IssuerKept
  <2>2. PICK p : p = find_parent_of(c)
    OBVIOUS
  <2>3. p \in 1 .. Len(certs)
    <3>1. IssuerIs(c, p)
      BY <2>2, IssuersFound, Zenon DEF IssuersAre
    <3>2. QED
      BY <2>2, <3>1, Zenon DEF IssuerIs, HasIssuer
  <2>4. certs'[p].cert = certs[p].cert
    BY <2>3 DEF OnlyAdded
  <2>5. IssuerSigned(c)' <=> c.signer = certs'[p].cert.key
    BY <2>1, <2>2, Zenon DEF IssuerSigned
  <2>6. IssuerSigned(c) <=> c.signer = certs[p].cert.key
    BY <2>2, Zenon DEF IssuerSigned
  <2>7. QED
    BY <2>1, <2>4, <2>5, <2>6, Zenon
<1>3. info.last_checked <= now => info.last_checked <= now'
  BY DEF CertInfos
<1>4. QED
  BY <1>1, <1>2, <1>3, Zenon DEF Cached

LEMMA MarkedKept ==
  ASSUME revoked' = revoked, NEW CONSTANT info
  PROVE  Marked(info)' <=> Marked(info)
BY Zenon DEF Marked, is_revoked

(* What a validation leaves is the cache of the next state.                *)
LEMMA SoundKept ==
  ASSUME StoreTypeOK, NEW v, Sound(v), certs' = v, now' = now
  PROVE  /\ certs' \in Seq(CertInfos) /\ \A info \in ToSet(certs') : Cached(info)'
         /\ revoked' = revoked => \A info \in ToSet(certs') : Marked(info)'
<1>1. certs \in Seq(CertInfos) /\ now \in Nat /\ now' \in Nat /\ now <= now'
  BY DEF StoreTypeOK
<1>2. certs' \in Seq(CertInfos) /\ Len(certs') = Len(certs)
  BY Zenon DEF Sound
<1>3. PICK n \in Nat : n = Len(certs) /\ n = Len(certs') /\ DOMAIN certs' = 1 .. n
  BY <1>1, <1>2
<1>4. \A j \in 1 .. n : /\ certs'[j] \in CertInfos /\ certs'[j].cert = certs[j].cert
                        /\ Cached(v[j]) /\ Marked(v[j])
  BY <1>2, <1>3 DEF Sound
<1>5. OnlyAdded
  BY <1>3, <1>4 DEF OnlyAdded
<1>6. ASSUME NEW info \in ToSet(certs')
      PROVE  Cached(info)' /\ (revoked' = revoked => Marked(info)')
  <2>1. PICK j \in 1 .. n : info = certs'[j]
    BY <1>3 DEF ToSet
  <2>2. info \in CertInfos /\ Cached(info) /\ Marked(info)
    BY <1>4, <2>1, Zenon
  <2>3. Cached(info)'
    BY <1>1, <1>2, <1>5, <2>2, CachedKept
  <2>4. revoked' = revoked => Marked(info)'
    BY <2>2, MarkedKept
  <2>5. QED
    BY <2>3, <2>4, Zenon
<1>7. QED
  BY <1>2, <1>6, Zenon

LEMMA InitKeeps == StoreInit => StoreIInv
<1> SUFFICES ASSUME StoreInit PROVE StoreIInv
  OBVIOUS
<1>1. certs = <<>> /\ revoked = <<>> /\ revoked_info_valid = TRUE /\ now = 0
  BY DEF StoreInit
<1>2. StoreTypeOK
  BY <1>1 DEF StoreTypeOK
<1>3. ToSet(certs) = {} /\ DOMAIN revoked = {}
  BY <1>1 DEF ToSet
<1>4. QED
  BY <1>2, <1>3 DEF StoreIInv, InOrder

LEMMA ValidateKeeps ==
  ASSUME StoreIInv, NEW c \in Subjects, NEW usage, ValidateCert(c, usage)
  PROVE  StoreIInv'
<1>1. PICK v : v = Verdict(c, usage).infos
  OBVIOUS
<1>2. certs' = v /\ revoked_info_valid' = TRUE /\ revoked' = revoked /\ now' = now
  BY <1>1, Zenon DEF ValidateCert
<1>3. StoreTypeOK /\ revoked \in Seq(CRL_Data) /\ now \in Nat
  BY DEF StoreIInv, StoreTypeOK
<1>4. Sound(v)
  <2>1. c.start \in Nat /\ c.end \in Nat
    BY CertTimes
  <2>2. PICK infos : infos = UpToDate /\ Sound(infos)
    BY UpToDateSound
  <2>3. Sound(VerdictFrom(infos, c, usage).infos)
    BY <1>3, <2>1, <2>2, VerdictSound
  <2>4. QED
    BY <1>1, <2>2, <2>3, Zenon DEF Verdict
<1>5. certs' \in Seq(CertInfos) /\ (\A info \in ToSet(certs') : Cached(info)')
      /\ \A info \in ToSet(certs') : Marked(info)'
  BY <1>2, <1>3, <1>4, SoundKept
<1>6. StoreTypeOK'
  BY <1>2, <1>3, <1>5 DEF StoreTypeOK
<1>7. (AllAlike(revoked) => InOrder(revoked))'
  BY <1>2 DEF StoreIInv
<1>8. QED
  BY <1>5, <1>6, <1>7, Zenon DEF StoreIInv

LEMMA ClockKeeps ==
  ASSUME StoreIInv, certs' = certs, revoked' = revoked, revoked_info_valid' = revoked_info_valid,
         now' \in Nat, now <= now'
  PROVE  StoreIInv'
<1>1. StoreTypeOK /\ certs \in Seq(CertInfos) /\ certs' \in Seq(CertInfos) /\ now \in Nat
  BY DEF StoreIInv, StoreTypeOK
<1>2. StoreTypeOK'
  BY <1>1 DEF StoreTypeOK
<1>3. OnlyAdded
  BY <1>1 DEF OnlyAdded
<1>4. ASSUME NEW info \in ToSet(certs')
      PROVE  Cached(info)' /\ (revoked_info_valid => Marked(info)')
  <2>1. info \in ToSet(certs)
    BY Zenon
  <2>2. info \in CertInfos /\ Cached(info) /\ (revoked_info_valid => Marked(info))
    BY <1>1, <2>1, RangeOf, Zenon DEF StoreIInv
  <2>3. Cached(info)'
    BY <1>1, <1>3, <2>2, CachedKept
  <2>4. Marked(info)' <=> Marked(info)
    BY MarkedKept
  <2>5. QED
    BY <2>2, <2>3, <2>4, Zenon
<1>5. (AllAlike(revoked) => InOrder(revoked))'
  BY DEF StoreIInv
<1>6. QED
  BY <1>2, <1>4, <1>5, Zenon DEF StoreIInv

LEMMA AddCertKeeps ==
  ASSUME StoreIInv, NEW c \in Certificates, NEW trusted \in BOOLEAN, AddCert(c, trusted)
  PROVE  StoreIInv'
<1>1. /\ certs \in Seq(CertInfos) /\ revoked \in Seq(CRL_Data) /\ now \in Nat
      /\ revoked_info_valid \in BOOLEAN
  BY DEF StoreIInv, StoreTypeOK
<1>2. revoked' = revoked /\ now' = now /\ now' \in Nat /\ now <= now'
  BY <1>1 DEF AddCert
<1>3. (AllAlike(revoked) => InOrder(revoked))'
  BY <1>2 DEF StoreIInv
<1>4. PICK n \in Nat : n = Len(certs) /\ DOMAIN certs = 1 .. n /\ \A j \in 1 .. n : certs[j] \in CertInfos
  BY <1>1
<1>5. \A j \in 1 .. n : Cached(certs[j]) /\ (revoked_info_valid => Marked(certs[j]))
  BY <1>4 DEF StoreIInv, ToSet
<1>6. CASE certs' = Append(certs, CertInfo(c, trusted)) /\ revoked_info_valid' = FALSE
  <2>1. PICK new : new = CertInfo(c, trusted)
    OBVIOUS
  <2>2. /\ new \in CertInfos /\ new.result = "UNKNOWN_X509_ERROR" /\ new.checked = FALSE
        /\ new.last_checked = 0
    BY <2>1 DEF CertInfo, CertInfos, Codes
  <2>3. /\ certs' \in Seq(CertInfos) /\ Len(certs') = n + 1 /\ certs'[n + 1] = new
        /\ \A j \in 1 .. n : certs'[j] = certs[j]
    BY <1>1, <1>4, <1>6, <2>1, <2>2, AppendProperties
  <2>4. OnlyAdded
    BY <1>4, <2>3 DEF OnlyAdded
  <2>5. ASSUME NEW info \in ToSet(certs') PROVE Cached(info)'
    <3>1. PICK j \in 1 .. n + 1 : info = certs'[j]
      BY <2>3 DEF ToSet
    <3>2. CASE j = n + 1
      <4>1. info.result = "UNKNOWN_X509_ERROR" /\ info.checked = FALSE /\ info.last_checked <= now'
        BY <1>2, <2>2, <2>3, <3>1, <3>2
      <4>2. QED
        BY <4>1 DEF Cached
    <3>3. CASE j # n + 1
      <4>1. j \in 1 .. n
        BY <3>3
      <4>2. info \in CertInfos /\ Cached(info)
        BY <1>4, <1>5, <2>3, <3>1, <4>1
      <4>3. QED
        BY <1>1, <1>2, <2>3, <2>4, <4>2, CachedKept
    <3>4. QED
      BY <3>2, <3>3
  <2>6. StoreTypeOK'
    BY <1>1, <1>2, <1>6, <2>3 DEF StoreTypeOK
  <2>7. QED
    BY <1>3, <1>6, <2>5, <2>6, Zenon DEF StoreIInv
<1>7. CASE /\ certs' = [j \in DOMAIN certs |-> IF trusted /\ certs[j].cert = c
                                               THEN [certs[j] EXCEPT !.trusted = TRUE] ELSE certs[j]]
           /\ revoked_info_valid' = revoked_info_valid
  <2>1. ASSUME NEW j \in 1 .. n
        PROVE  /\ certs'[j] \in CertInfos /\ certs'[j].cert = certs[j].cert
               /\ certs'[j].checked = certs[j].checked /\ certs'[j].result = certs[j].result
               /\ certs'[j].last_checked = certs[j].last_checked
    <3>1. PICK info : info = certs[j] /\ info \in CertInfos
      BY <1>4
    <3>2. certs'[j] = info \/ certs'[j] = [info EXCEPT !.trusted = TRUE]
      BY <1>4, <1>7, <3>1
    <3>3. PICK changed : changed = [info EXCEPT !.trusted = TRUE]
      OBVIOUS
    <3>4. /\ changed \in CertInfos /\ changed.cert = info.cert /\ changed.checked = info.checked
          /\ changed.result = info.result /\ changed.last_checked = info.last_checked
      BY <3>1, <3>3 DEF CertInfos
    <3>5. QED
      BY <3>1, <3>2, <3>3, <3>4, Zenon
  <2>2. certs' \in [1 .. n -> CertInfos]
    <3>1. certs' = [j \in 1 .. n |-> certs'[j]]
      BY <1>4, <1>7
    <3>2. \A j \in 1 .. n : certs'[j] \in CertInfos
      BY <2>1
    <3>3. QED
      BY ONLY <3>1, <3>2
  <2>3. certs' \in Seq(CertInfos) /\ Len(certs') = n /\ DOMAIN certs' = 1 .. n
    BY ONLY <2>2, n \in Nat, SequenceIs
  <2>4. OnlyAdded
    BY <1>4, <2>1, <2>3 DEF OnlyAdded
  <2>5. ASSUME NEW info \in ToSet(certs') PROVE Cached(info)' /\ (revoked_info_valid => Marked(info)')
    <3>1. PICK j \in 1 .. n : info = certs'[j]
      BY <2>3 DEF ToSet
    <3>2. PICK old : old = certs[j]
      OBVIOUS
    <3>3. /\ info \in CertInfos /\ info.cert = old.cert /\ info.checked = old.checked
          /\ info.result = old.result /\ info.last_checked = old.last_checked
          /\ Cached(old) /\ (revoked_info_valid => Marked(old))
      BY <1>5, <2>1, <3>1, <3>2, Zenon
    <3>4. Cached(info) /\ (revoked_info_valid => Marked(info))
      BY <3>3, Zenon DEF Cached, Marked
    <3>5. Cached(info)'
      BY <1>1, <1>2, <2>3, <2>4, <3>3, <3>4, CachedKept
    <3>6. Marked(info)' <=> Marked(info)
      BY <1>2, MarkedKept
    <3>7. QED
      BY <3>4, <3>5, <3>6, Zenon
  <2>6. StoreTypeOK'
    BY <1>1, <1>2, <1>7, <2>3 DEF StoreTypeOK
  <2>7. QED
    BY <1>3, <1>7, <2>5, <2>6, Zenon DEF StoreIInv
<1>8. QED
  BY <1>6, <1>7, Zenon DEF AddCert

LEMMA ListIssuerIs ==
  ASSUME certs \in Seq(CertInfos), NEW l, ListIssuer(l) # NO_CERT_FOUND
  PROVE  ListIssuer(l) \in 1 .. Len(certs)
<1>1. PICK n \in Nat : n = Len(certs) /\ DOMAIN certs = 1 .. n
  OBVIOUS
<1>2. PICK S : S = {j \in DOMAIN certs :
                      compare_ids(certs[j].cert.skid, l.akid) /\ SameDN(certs[j].cert.subject, l.issuer)}
  OBVIOUS
<1>3. S \in SUBSET (0 .. n) /\ S \in SUBSET (1 .. n)
  BY <1>1, <1>2
<1>4. ListIssuer(l) = IF S = {} THEN NO_CERT_FOUND ELSE Max(S)
  BY <1>2, Zenon DEF ListIssuer
<1>5. S # {} /\ ListIssuer(l) = Max(S)
  BY <1>4
<1>6. Max(S) \in S
  BY <1>3, <1>5, MaxIs
<1>7. QED
  BY <1>1, <1>3, <1>5, <1>6

LEMMA SortedInOrder ==
  ASSUME NEW s \in Seq(CRL_Data)
  PROVE  Sorted(s) \in Seq(CRL_Data) /\ (AllAlike(Sorted(s)) => InOrder(Sorted(s)))
<1>1. PICK t : t = Sorted(s) /\ t \in Seq(CRL_Data)
               /\ (\A x : (\E k \in DOMAIN t : t[k] = x) <=> \E k \in DOMAIN s : s[k] = x)
               /\ (AllAlike(s) => InOrder(t))
  BY SortedIs
<1>2. AllAlike(t) => AllAlike(s)
  <2> SUFFICES ASSUME AllAlike(t), NEW i \in DOMAIN s, NEW k \in DOMAIN s PROVE Alike(s[i], s[k])
    BY DEF AllAlike
  <2>1. PICK i1 \in DOMAIN t : t[i1] = s[i]
    BY <1>1
  <2>2. PICK k1 \in DOMAIN t : t[k1] = s[k]
    BY <1>1
  <2>3. Alike(t[i1], t[k1])
    BY DEF AllAlike
  <2>4. QED
    BY <2>1, <2>2, <2>3
<1>3. QED
  BY <1>1, <1>2

LEMMA AddCrlKeeps ==
  ASSUME StoreIInv, NEW l \in Lists, AddCrl(l)
  PROVE  StoreIInv'
<1>1. StoreTypeOK /\ certs \in Seq(CertInfos) /\ revoked \in Seq(CRL_Data) /\ now \in Nat
  BY DEF StoreIInv, StoreTypeOK
<1>2. PICK ca, verdict : ca = certs[ListIssuer(l)].cert /\ verdict = Verdict(ca, {"CRL_SIGNING"})
  OBVIOUS
<1>3. PICK ok \in BOOLEAN : ok <=> verdict.code = "VERIFIED" /\ check_sig(l, ca) = "VERIFIED"
  BY Zenon
<1>4. /\ ListIssuer(l) # NO_CERT_FOUND /\ certs' = verdict.infos /\ now' = now
      /\ ok => revoked' = Sorted(WithEntries(l)) /\ revoked_info_valid' = FALSE
      /\ ~ok => revoked' = revoked /\ revoked_info_valid' = TRUE
  BY <1>2, <1>3, Zenon DEF AddCrl
<1>5. Sound(verdict.infos)
  <2>1. ca \in Certificates \cup Subjects
    <3>1. PICK i : i = ListIssuer(l)
      OBVIOUS
    <3>2. i \in 1 .. Len(certs)
      BY <1>1, <1>4, <3>1, ListIssuerIs
    <3>3. certs[i] \in CertInfos
      BY <1>1, <3>2
    <3>4. QED
      BY <1>2, <3>1, <3>3 DEF CertInfos
  <2>2. ca.start \in Nat /\ ca.end \in Nat
    BY <2>1, CertTimes
  <2>3. PICK infos : infos = UpToDate /\ Sound(infos)
    BY UpToDateSound
  <2>4. PICK usage : usage = {"CRL_SIGNING"}
    OBVIOUS
  <2>5. Sound(VerdictFrom(infos, ca, usage).infos)
    BY <1>1, <2>2, <2>3, VerdictSound
  <2>6. QED
    BY <1>2, <2>3, <2>4, <2>5, Zenon DEF Verdict
<1>6. /\ certs' \in Seq(CertInfos) /\ \A info \in ToSet(certs') : Cached(info)'
      /\ revoked' = revoked => \A info \in ToSet(certs') : Marked(info)'
  BY <1>1, <1>4, <1>5, SoundKept
<1>7. CASE ok
  <2>1. PICK s : s = WithEntries(l) /\ s \in Seq(CRL_Data)
    BY <1>1, WithEntriesIs
  <2>2. revoked' = Sorted(s) /\ revoked_info_valid' = FALSE
    BY <1>4, <1>7, <2>1, Zenon
  <2>3. revoked' \in Seq(CRL_Data) /\ (AllAlike(revoked') => InOrder(revoked'))
    BY <2>1, <2>2, SortedInOrder
  <2>4. (AllAlike(revoked) => InOrder(revoked))'
    BY <2>3
  <2>5. StoreTypeOK'
    BY <1>1, <1>4, <1>6, <2>2, <2>3 DEF StoreTypeOK
  <2>6. QED
    BY <1>6, <2>2, <2>4, <2>5, Zenon DEF StoreIInv
<1>8. CASE ~ok
  <2>1. revoked' = revoked /\ revoked_info_valid' = TRUE
    BY <1>4, <1>8
  <2>2. StoreTypeOK'
    BY <1>1, <1>4, <1>6, <2>1 DEF StoreTypeOK
  <2>3. (AllAlike(revoked) => InOrder(revoked))'
    BY <2>1 DEF StoreIInv
  <2>4. QED
    BY <1>6, <2>1, <2>2, <2>3, Zenon DEF StoreIInv
<1>9. QED
  BY <1>7, <1>8

(* The inductive invariant: what is cached of a certificate is what the    *)
(* check of its signature said at a time when it was valid, no revocation  *)
(* is overlooked while the flag says so, and revocations that can be       *)
(* compared are in order.                                                  *)
THEOREM CacheIsSound == StoreSpec => []StoreIInv
<1>1. StoreIInv /\ [StoreNext]_storeVars => StoreIInv'
  <2> SUFFICES ASSUME StoreIInv, [StoreNext]_storeVars PROVE StoreIInv'
    OBVIOUS
  <2>1. ASSUME NEW c \in Certificates, NEW trusted \in BOOLEAN, AddCert(c, trusted) PROVE StoreIInv'
    BY <2>1, AddCertKeeps
  <2>2. ASSUME NEW c \in Subjects, NEW usage \in Usages, ValidateCert(c, usage) PROVE StoreIInv'
    BY <2>2, ValidateKeeps
  <2>3. ASSUME NEW l \in Lists, AddCrl(l) PROVE StoreIInv'
    BY <2>3, AddCrlKeeps
  <2>4. CASE Tick
    <3>1. now' \in Nat /\ now <= now'
      BY <2>4 DEF Tick, StoreIInv, StoreTypeOK
    <3>2. QED
      BY <2>4, <3>1, ClockKeeps DEF Tick
  <2>5. CASE UNCHANGED storeVars
    <3>1. now' \in Nat /\ now <= now'
      BY <2>5 DEF storeVars, StoreIInv, StoreTypeOK
    <3>2. QED
      BY <2>5, <3>1, ClockKeeps DEF storeVars
  <2>6. QED
    BY <2>1, <2>2, <2>3, <2>4, <2>5, Zenon DEF StoreNext
<1>2. QED
  BY <1>1, InitKeeps, PTL DEF StoreSpec

-----------------------------------------------------------------------------
(* The verdict.                                                            *)

(* Where revocations can be compared, the search finds what is listed.     *)
LEMMA ListedIs ==
  ASSUME StoreIInv, NEW c \in Certificates \cup Subjects, Comparable(c)
  PROVE  is_revoked(c) <=> Listed(c)
<1>1. PICK s, e : s = revoked /\ e = Data(c)
  OBVIOUS
<1>2. s \in Seq(CRL_Data)
  BY <1>1 DEF StoreIInv, StoreTypeOK
<1>3. e \in CRL_Data
  BY <1>1, StoreAssumption, CertificateAssumption DEF Data, CRL_Data
<1>4. AllAlike(s) /\ \A k \in DOMAIN s : Alike(s[k], e)
  <2>1. PICK n \in Nat : n = Len(s) /\ DOMAIN s = 1 .. n
    BY <1>2
  <2>2. PICK t : t = Append(s, e)
    OBVIOUS
  <2>3. DOMAIN t = 1 .. n + 1 /\ t[n + 1] = e /\ \A k \in 1 .. n : t[k] = s[k]
    BY <1>2, <1>3, <2>1, <2>2
  <2>4. AllAlike(t)
    BY <1>1, <2>2 DEF Comparable
  <2>5. n + 1 \in 1 .. n + 1 /\ \A k \in 1 .. n : k \in 1 .. n + 1
    BY <2>1
  <2>6. QED
    BY <2>1, <2>3, <2>4, <2>5, Zenon DEF AllAlike
<1>5. AllAlike(s)
  BY <1>4
<1>6. InOrder(s)
  BY <1>1, <1>5, Zenon DEF StoreIInv
<1>7. Found(e, s) <=> \E k \in DOMAIN s : Same(s[k], e)
  BY ONLY <1>2, <1>3, <1>4, <1>6, FoundIs
<1>8. QED
  BY <1>1, <1>7, Zenon DEF is_revoked, Listed

Unlisted(info) == Comparable(info.cert) => ~Listed(info.cert)
Unmarked(info) == info.result # "CERT_IS_REVOKED" /\ ~is_revoked(info.cert)
Recent == {t \in 0 .. now : now <= t + validation_cache_timeout}

(* The k-th of n certificates on the way up, as Genuine says of it.        *)
Link(up, k, n) ==
  /\ up[k] # NO_CERT_FOUND /\ certs[up[k]].cert.ca
  /\ HasIssuer(certs[up[k]].cert) /\ IssuerSigned(certs[up[k]].cert)
  /\ IF k = n THEN certs[up[k]].trusted
     ELSE /\ ~certs[up[k]].trusted /\ ~is_self_signed(certs[up[k]].cert)
          /\ certs[up[k]].cert.limit >= k - 1
InTimeAt(info, times) == \E t \in times : InTime(info.cert, t)

LEMMA LimitIs ==
  ASSUME NEW c \in Certificates, NEW k \in Nat
  PROVE  c.limit >= k - 1 <=> ~(c.limit < k - 1)
<1>1. c.limit \in Nat
  BY StoreAssumption
<1>2. QED
  BY <1>1

(* A way up of links is one that fits the store, and the other way round   *)
(* if the issuers have signed.                                             *)
LEMMA LinksAreWay ==
  ASSUME certs \in Seq(CertInfos), NEW infos, NEW up, NEW n \in Nat \ {0},
         \A k \in 1 .. n : up[k] \in 0 .. Len(certs)
  PROVE  /\ (\A k \in 1 .. n : Link(up, k, n) /\ Fine(infos[up[k]])) => WayIs(infos, up, n)
         /\ WayIs(infos, up, n)
              /\ (\A k \in 1 .. n : HasIssuer(certs[up[k]].cert) /\ IssuerSigned(certs[up[k]].cert))
              => \A k \in 1 .. n : Link(up, k, n)
<1>1. ASSUME NEW k \in 1 .. n
      PROVE  up[k] # NO_CERT_FOUND <=> up[k] \in 1 .. Len(certs)
  <2>1. PICK i : i = up[k] /\ i \in 0 .. Len(certs)
    BY <1>1
  <2>2. i # NO_CERT_FOUND <=> i \in 1 .. Len(certs)
    BY <2>1 DEF NO_CERT_FOUND
  <2>3. QED
    BY <2>1, <2>2, Zenon
<1>2. ASSUME NEW k \in 1 .. n, up[k] \in 1 .. Len(certs)
      PROVE  certs[up[k]].cert.limit >= k - 1 <=> ~(certs[up[k]].cert.limit < k - 1)
  <2>1. PICK c : c = certs[up[k]].cert
    OBVIOUS
  <2>2. PICK i : i = up[k]
    OBVIOUS
  <2>3. certs[i] \in CertInfos
    BY <1>2, <2>2
  <2>4. c \in Certificates
    BY <2>1, <2>2, <2>3 DEF CertInfos
  <2>5. k \in Nat
    OBVIOUS
  <2>6. c.limit >= k - 1 <=> ~(c.limit < k - 1)
    BY <2>4, <2>5, LimitIs
  <2>7. QED
    BY <2>1, <2>6, Zenon
<1>3. ASSUME \A k \in 1 .. n : Link(up, k, n) /\ Fine(infos[up[k]]) PROVE WayIs(infos, up, n)
  <2> SUFFICES ASSUME NEW k \in 1 .. n
               PROVE  /\ up[k] \in 1 .. Len(certs) /\ Fine(infos[up[k]]) /\ certs[up[k]].cert.ca
                      /\ k = n => certs[up[k]].trusted
                      /\ k # n => /\ ~certs[up[k]].trusted /\ ~is_self_signed(certs[up[k]].cert)
                                  /\ ~(certs[up[k]].cert.limit < k - 1)
    BY Zenon DEF WayIs
  <2>1. Link(up, k, n) /\ Fine(infos[up[k]])
    BY <1>3
  <2>2. up[k] \in 1 .. Len(certs)
    BY <1>1, <2>1, Zenon DEF Link
  <2>3. certs[up[k]].cert.limit >= k - 1 <=> ~(certs[up[k]].cert.limit < k - 1)
    BY <1>2, <2>2
  <2>4. QED
    BY <2>1, <2>2, <2>3, Zenon DEF Link
<1>4. ASSUME WayIs(infos, up, n), NEW k \in 1 .. n, HasIssuer(certs[up[k]].cert), IssuerSigned(certs[up[k]].cert)
      PROVE  Link(up, k, n)
  <2>1. /\ up[k] \in 1 .. Len(certs) /\ certs[up[k]].cert.ca
        /\ k = n => certs[up[k]].trusted
        /\ k # n => /\ ~certs[up[k]].trusted /\ ~is_self_signed(certs[up[k]].cert)
                    /\ ~(certs[up[k]].cert.limit < k - 1)
    BY <1>4, Zenon DEF WayIs
  <2>2. up[k] # NO_CERT_FOUND
    BY <1>1, <2>1
  <2>3. certs[up[k]].cert.limit >= k - 1 <=> ~(certs[up[k]].cert.limit < k - 1)
    BY <1>2, <2>1
  <2>4. QED
    BY <1>4, <2>1, <2>2, <2>3, Zenon DEF Link
<1>5. WayIs(infos, up, n)
        /\ (\A k \in 1 .. n : HasIssuer(certs[up[k]].cert) /\ IssuerSigned(certs[up[k]].cert))
        => \A k \in 1 .. n : Link(up, k, n)
  <2> SUFFICES ASSUME WayIs(infos, up, n), NEW k \in 1 .. n,
                      \A i \in 1 .. n : HasIssuer(certs[up[i]].cert) /\ IssuerSigned(certs[up[i]].cert)
               PROVE  Link(up, k, n)
    OBVIOUS
  <2>1. HasIssuer(certs[up[k]].cert) /\ IssuerSigned(certs[up[k]].cert)
    OBVIOUS
  <2>2. QED
    BY <1>4, <2>1
<1>6. QED
  BY <1>3, <1>5

(* A verdict is one of the chain and of what is asked of the certificate.  *)
LEMMA VerdictIs ==
  ASSUME StoreTypeOK, NEW c \in Certificates \cup Subjects, NEW usage, NEW infos, infos = UpToDate,
         NEW path, path = Chain(infos, c).indexes,
         NEW m \in Nat \ {0}, Chain(infos, c).code = "VERIFIED" => PathOn(path, m)
  PROVE  Verdict(c, usage).code = "VERIFIED" <=>
           /\ Chain(infos, c).code = "VERIFIED" /\ Own(infos, path, c, usage)
           /\ \A n \in 1 .. m : Passed(infos, path, n)
<1>1. PICK chain : chain = Chain(infos, c)
  OBVIOUS
<1>2. c.start \in Nat /\ c.end \in Nat /\ now \in Nat
  BY CertTimes DEF StoreTypeOK
<1>3. path = chain.indexes /\ (chain.code = "VERIFIED" => Len(path) = m + 1)
  BY <1>1, Zenon DEF PathOn
<1>4. Answer(VerdictAlong(infos, chain, c, usage), infos, chain, c, usage, path, m)
  <2>1. Asked(chain, c, path, m)
    BY <1>2, <1>3 DEF Asked
  <2>2. QED
    BY <2>1, VerdictAlongIs
<1>5. Verdict(c, usage) = VerdictAlong(infos, chain, c, usage)
  BY <1>1, Zenon DEF Verdict, VerdictFrom
<1>6. QED
  BY <1>1, <1>4, <1>5, Zenon DEF Answer

(* What a step of a path that passes says of its certificate.              *)
LEMMA PassedIs ==
  ASSUME StoreTypeOK, NEW infos, Sound(infos), NEW path, NEW m \in Nat \ {0}, PathOn(path, m),
         NEW n \in 1 .. m, NEW j \in 1 .. Len(certs), j = path[n]
  PROVE  Passed(infos, path, n) <=>
           /\ InTime(certs[j].cert, now)
           /\ IF is_verified(infos[j]) THEN infos[j].result = "VERIFIED"
              ELSE HasIssuer(certs[j].cert) /\ IssuerSigned(certs[j].cert)
<1>1. PICK p : p = path[n + 1]
  OBVIOUS
<1>2. p \in 1 .. Len(certs) /\ p = find_parent_of(certs[j].cert)
  BY <1>1, Zenon DEF PathOn
<1>3. infos[j].cert = certs[j].cert /\ infos[p].cert = certs[p].cert
  BY <1>2 DEF Sound
<1>4. certs[j] \in CertInfos /\ now \in Nat
  BY DEF StoreTypeOK
<1>5. certs[j].cert.start \in Nat /\ certs[j].cert.end \in Nat
  BY <1>4, CertTimes DEF CertInfos
<1>6. Intime(infos, path, n) = TimeCheck(certs[j].cert, "CERT_NOT_YET_VALID", "CERT_HAS_EXPIRED")
  BY <1>3, Zenon DEF Intime
<1>7. Intime(infos, path, n) = "VERIFIED" <=> InTime(certs[j].cert, now)
  BY <1>4, <1>5, <1>6, TimeCheckIs, Zenon
<1>8. Signed(infos, path, n) = IF is_verified(infos[j]) THEN infos[j].result
                               ELSE check_sig(certs[j].cert, certs[p].cert)
  BY <1>1, <1>3, Zenon DEF Signed
<1>9. HasIssuer(certs[j].cert)
  BY <1>2 DEF HasIssuer, NO_CERT_FOUND
<1>10. check_sig(certs[j].cert, certs[p].cert) = "VERIFIED" <=> IssuerSigned(certs[j].cert)
  BY <1>2 DEF check_sig, IssuerSigned
<1>11. QED
  BY <1>7, <1>8, <1>9, <1>10, Zenon DEF Passed

(* What is verified is genuine.                                            *)
LEMMA VerifiedIsGenuine ==
  ASSUME StoreIInv, NEW c \in Subjects, NEW usage, Verdict(c, usage).code = "VERIFIED", NEW up, up = Up(c)
  PROVE  /\ InTime(c, now) /\ usage_check(c, usage) = "VERIFIED" /\ (Comparable(c) => ~Listed(c))
         /\ c.signer = certs[up[1]].cert.key
         /\ \E n \in 1 .. MaxChain + 1 : \A k \in 1 .. n :
              /\ Link(up, k, n)
              /\ Unlisted(certs[up[k]]) /\ InTimeAt(certs[up[k]], Recent)
<1>1. StoreTypeOK /\ certs \in Seq(CertInfos) /\ now \in Nat /\ c \in Certificates \cup Subjects
  BY DEF StoreIInv, StoreTypeOK
<1>2. PICK infos : infos = UpToDate /\ Sound(infos)
  BY UpToDateSound
<1>3. PICK path : path = Chain(infos, c).indexes
  OBVIOUS
<1>4. Chain(infos, c).code = "VERIFIED"
  <2>1. CASE Chain(infos, c).code # "VERIFIED"
    <3>1. PICK one \in Nat \ {0} : one = 1
      OBVIOUS
    <3>2. Chain(infos, c).code = "VERIFIED" => PathOn(path, one)
      BY <2>1
    <3>3. QED
      BY <1>1, <1>2, <1>3, <3>2, VerdictIs
  <2>2. QED
    BY <2>1
<1>5. (\A n \in 1 .. MaxChain + 1 : up[n] \in 0 .. Len(certs)) /\ ChainFits(infos, up, path, MaxChain + 1)
  BY <1>1, <1>2, <1>3, <1>4, ChainIs, Zenon
<1>6. PICK top \in 1 .. MaxChain + 1 : \E last \in 1 .. top :
           /\ WayIs(infos, up, top) /\ PathOn(path, last)
           /\ \A n \in 1 .. last : path[n] = up[n]
           /\ \A n \in 1 .. top : n > last => is_verified(infos[up[n]])
  BY <1>5, Zenon DEF ChainFits
<1>7. PICK last \in 1 .. top :
           /\ WayIs(infos, up, top) /\ PathOn(path, last)
           /\ \A n \in 1 .. last : path[n] = up[n]
           /\ \A n \in 1 .. top : n > last => is_verified(infos[up[n]])
  BY <1>6
<1>8. last \in Nat \ {0} /\ top \in Nat \ {0} /\ 1 \in 1 .. last /\ 1 \in 1 .. top
  <2>1. MaxChain + 1 \in Nat
    BY StoreAssumption
  <2>2. QED
    BY <2>1
<1>9. Own(infos, path, c, usage) /\ \A n \in 1 .. last : Passed(infos, path, n)
  BY <1>1, <1>2, <1>3, <1>4, <1>7, <1>8, VerdictIs
<1>10. \A j \in 1 .. Len(certs) :
         /\ infos[j] \in CertInfos /\ Cached(infos[j]) /\ Marked(infos[j])
         /\ infos[j].cert = certs[j].cert
  BY <1>1, <1>2 DEF Sound
<1>11. \A k \in 1 .. top : up[k] \in 1 .. Len(certs) /\ Fine(infos[up[k]])
  BY <1>7, Zenon DEF WayIs
<1>12. ASSUME NEW k \in 1 .. top
       PROVE  /\ HasIssuer(certs[up[k]].cert) /\ IssuerSigned(certs[up[k]].cert)
              /\ Unlisted(certs[up[k]]) /\ InTimeAt(certs[up[k]], Recent)
  <2>1. PICK j \in 1 .. Len(certs) : j = up[k]
    BY <1>11
  <2>2. PICK info : info = infos[j]
    OBVIOUS
  <2>3. /\ info \in CertInfos /\ Cached(info) /\ Marked(info) /\ Fine(info) /\ info.cert = certs[j].cert
    BY <1>10, <1>11, <2>1, <2>2, Zenon
  <2>4. Unlisted(certs[j])
    <3>1. ~is_revoked(info.cert)
      BY <2>3, NotRevoked
    <3>2. info.cert \in Certificates \cup Subjects
      BY <2>3 DEF CertInfos
    <3>3. Comparable(info.cert) => ~Listed(info.cert)
      BY <3>1, <3>2, ListedIs
    <3>4. QED
      BY <2>3, <3>3 DEF Unlisted
  <2>5. CASE is_verified(info)
    <3>1. info.result = "VERIFIED"
      BY <2>3, <2>5 DEF Fine
    <3>2. HasIssuer(info.cert) /\ IssuerSigned(info.cert) /\ InTime(info.cert, info.last_checked)
      BY <2>3, <3>1 DEF Cached
    <3>3. info.last_checked \in Recent
      <4>1. now <= info.last_checked + validation_cache_timeout
        BY <2>5, <3>1 DEF is_verified
      <4>2. info.last_checked \in Nat /\ info.last_checked <= now
        BY <2>3 DEF Cached, CertInfos
      <4>3. QED
        BY <1>1, <4>1, <4>2 DEF Recent
    <3>4. QED
      BY <2>1, <2>3, <2>4, <3>2, <3>3, Zenon DEF InTimeAt
  <2>6. CASE ~is_verified(info)
    <3>1. k \in 1 .. last
      <4>1. ~(k > last)
        BY <1>7, <2>1, <2>2, <2>6
      <4>2. k \in Nat \ {0}
        BY <1>8
      <4>3. QED
        BY <1>8, <4>1, <4>2
    <3>2. j = path[k] /\ Passed(infos, path, k)
      BY <1>7, <1>9, <2>1, <3>1
    <3>3. /\ InTime(certs[j].cert, now)
          /\ IF is_verified(infos[j]) THEN infos[j].result = "VERIFIED"
             ELSE HasIssuer(certs[j].cert) /\ IssuerSigned(certs[j].cert)
      BY <1>1, <1>2, <1>7, <1>8, <3>1, <3>2, PassedIs
    <3>4. now \in Recent
      BY <1>1, StoreAssumption DEF Recent
    <3>5. QED
      BY <2>1, <2>2, <2>4, <2>6, <3>3, <3>4, Zenon DEF InTimeAt
  <2>7. QED
    BY <2>5, <2>6
<1>13. \A k \in 1 .. top : Link(up, k, top)
  <2>1. \A k \in 1 .. top : up[k] \in 0 .. Len(certs)
    BY <1>11
  <2>2. QED
    BY <1>1, <1>7, <1>8, <1>12, <2>1, LinksAreWay
<1>14. c.signer = certs[up[1]].cert.key
  <2>1. PICK j \in 1 .. Len(certs) : j = up[1] /\ j = path[1]
    BY <1>7, <1>8, <1>11
  <2>2. check_sig(c, certs[j].cert) = "VERIFIED"
    BY <1>9, <1>10, <2>1, Zenon DEF Own
  <2>3. QED
    BY <2>1, <2>2 DEF check_sig
<1>15. InTime(c, now) /\ usage_check(c, usage) = "VERIFIED" /\ (Comparable(c) => ~Listed(c))
  BY <1>1, <1>9, ListedIs DEF Own
<1>16. QED
  BY <1>12, <1>13, <1>14, <1>15, Zenon

(* What is genuine now, and no issuer of which has been revoked, is        *)
(* verified.                                                               *)
LEMMA GenuineIsVerified ==
  ASSUME StoreIInv, NEW c \in Subjects, NEW usage, NEW up, up = Up(c),
         InTime(c, now), usage_check(c, usage) = "VERIFIED", ~is_revoked(c),
         c.signer = certs[up[1]].cert.key, NEW n \in 1 .. MaxChain + 1,
         \A k \in 1 .. n : Link(up, k, n) /\ Unmarked(certs[up[k]]) /\ InTime(certs[up[k]].cert, now)
  PROVE  Verdict(c, usage).code = "VERIFIED"
<1>1. StoreTypeOK /\ certs \in Seq(CertInfos) /\ now \in Nat /\ c \in Certificates \cup Subjects
  BY DEF StoreIInv, StoreTypeOK
<1>2. PICK infos : /\ infos = UpToDate /\ Sound(infos)
                   /\ \A j \in 1 .. Len(certs) :
                        infos[j].result = "CERT_IS_REVOKED" =>
                          certs[j].result = "CERT_IS_REVOKED" \/ is_revoked(certs[j].cert)
  BY UpToDateSound
<1>3. PICK path : path = Chain(infos, c).indexes
  OBVIOUS
<1>4. \A k \in 1 .. MaxChain + 1 : up[k] \in 0 .. Len(certs)
  BY <1>1, <1>2, ChainIs, Zenon
<1>5. PICK max : max = MaxChain + 1
  OBVIOUS
<1>6. /\ n \in 1 .. max /\ n \in Nat \ {0} /\ max \in Nat
      /\ \A k \in 1 .. n : k \in 1 .. max /\ up[k] \in 0 .. Len(certs)
  <2>1. max \in Nat
    BY <1>5, StoreAssumption
  <2>2. n \in 1 .. max /\ \A k \in 1 .. max : up[k] \in 0 .. Len(certs)
    BY <1>4, <1>5, Zenon
  <2>3. QED
    BY <2>1, <2>2
<1>7. \A j \in 1 .. Len(certs) :
         /\ infos[j] \in CertInfos /\ Cached(infos[j]) /\ infos[j].cert = certs[j].cert
  BY <1>1, <1>2 DEF Sound
<1>8. ASSUME NEW k \in 1 .. n
      PROVE  up[k] \in 1 .. Len(certs) /\ Fine(infos[up[k]])
  <2>1. PICK j : j = up[k]
    OBVIOUS
  <2>2. j \in 1 .. Len(certs)
    <3>1. j # NO_CERT_FOUND /\ j \in 0 .. Len(certs)
      BY <1>6, <2>1, Zenon DEF Link
    <3>2. QED
      BY <3>1 DEF NO_CERT_FOUND
  <2>3. PICK info : info = infos[j]
    OBVIOUS
  <2>4. info \in CertInfos /\ Cached(info) /\ info.cert = certs[j].cert
    BY <1>7, <2>2, <2>3
  <2>5. info.result # "CERT_IS_REVOKED"
    BY <1>2, <2>1, <2>2, <2>3, Zenon DEF Unmarked
  <2>6. IssuerSigned(info.cert)
    BY <2>1, <2>4, Zenon DEF Link
  <2>7. info.result \in {"VERIFIED", "UNKNOWN_X509_ERROR"}
    BY <2>4, <2>5, <2>6 DEF Cached, CertInfos, Codes
  <2>8. Fine(info)
    BY <2>4, <2>7 DEF Fine, is_verified, Cached
  <2>9. QED
    BY <2>1, <2>2, <2>3, <2>8, Zenon
<1>9. WayIs(infos, up, n)
  BY <1>1, <1>6, <1>8, LinksAreWay
<1>10. Chain(infos, c).code = "VERIFIED" /\ ChainFits(infos, up, path, max)
  <2>1. \A k \in 1 .. n : HasIssuer(certs[up[k]].cert)
    BY Zenon DEF Link
  <2>2. ChainExists(infos, up, max)
    BY <1>6, <1>9, <2>1, Zenon DEF ChainExists
  <2>3. QED
    BY <1>1, <1>2, <1>3, <1>5, <2>2, ChainIs, Zenon
<1>11. PICK top \in 1 .. max : \E last \in 1 .. top :
           WayIs(infos, up, top) /\ PathOn(path, last) /\ \A i \in 1 .. last : path[i] = up[i]
  BY <1>10, Zenon DEF ChainFits
<1>12. PICK last \in 1 .. top :
           WayIs(infos, up, top) /\ PathOn(path, last) /\ \A i \in 1 .. last : path[i] = up[i]
  BY <1>11
<1>13. top = n
  <2>1. top \in Nat \ {0}
    BY <1>6
  <2>2. ~(top < n)
    <3>1. ASSUME top < n PROVE FALSE
      <4>1. top \in 1 .. n /\ top \in 1 .. top /\ top # n
        BY <1>6, <2>1, <3>1
      <4>2. certs[up[top]].trusted
        BY <1>12, <4>1, Zenon DEF WayIs
      <4>3. ~certs[up[top]].trusted
        BY <1>9, <4>1, Zenon DEF WayIs
      <4>4. QED
        BY <4>2, <4>3
    <3>2. QED
      BY <3>1
  <2>3. ~(n < top)
    <3>1. ASSUME n < top PROVE FALSE
      <4>1. n \in 1 .. top /\ n \in 1 .. n /\ top # n
        BY <1>6, <2>1, <3>1
      <4>2. certs[up[n]].trusted
        BY <1>9, <4>1, Zenon DEF WayIs
      <4>3. ~certs[up[n]].trusted
        BY <1>12, <4>1, Zenon DEF WayIs
      <4>4. QED
        BY <4>2, <4>3
    <3>2. QED
      BY <3>1
  <2>4. QED
    BY <1>6, <2>1, <2>2, <2>3
<1>14. last \in Nat \ {0} /\ 1 \in 1 .. last /\ \A i \in 1 .. last : i \in 1 .. n
  BY <1>6, <1>13
<1>15. ASSUME NEW i \in 1 .. last PROVE Passed(infos, path, i)
  <2>1. PICK j \in 1 .. Len(certs) : j = up[i] /\ j = path[i]
    BY <1>8, <1>12, <1>14
  <2>2. InTime(certs[j].cert, now) /\ HasIssuer(certs[j].cert) /\ IssuerSigned(certs[j].cert)
    BY <1>14, <2>1, Zenon DEF Link
  <2>3. is_verified(infos[j]) => infos[j].result = "VERIFIED"
    BY <1>8, <1>14, <2>1, Zenon DEF Fine
  <2>4. QED
    BY <1>1, <1>2, <1>12, <1>14, <2>1, <2>2, <2>3, PassedIs
<1>16. Own(infos, path, c, usage)
  <2>1. PICK j \in 1 .. Len(certs) : j = up[1] /\ j = path[1]
    BY <1>8, <1>12, <1>14
  <2>2. infos[j].cert = certs[j].cert
    BY <1>7
  <2>3. check_sig(c, certs[j].cert) = "VERIFIED"
    BY <2>1 DEF check_sig
  <2>4. QED
    BY <2>1, <2>2, <2>3, Zenon DEF Own
<1>17. QED
  BY <1>1, <1>2, <1>3, <1>10, <1>12, <1>14, <1>15, <1>16, VerdictIs

(* Whatever has been added and validated, and however long ago: what       *)
(* validate_cert says is what a store without a cache would say, except    *)
(* that it may verify what is revoked where that cannot be compared.       *)
THEOREM VerdictsAreRight == StoreSpec => []VerdictIsRight
<1>1. StoreIInv => VerdictIsRight
  <2> SUFFICES ASSUME StoreIInv PROVE VerdictIsRight
    OBVIOUS
  <2>1. ASSUME NEW c \in Subjects, NEW usage \in Usages, Verdict(c, usage).code = "VERIFIED"
        PROVE  /\ InTime(c, now) /\ usage_check(c, usage) = "VERIFIED" /\ (Comparable(c) => ~Listed(c))
               /\ Genuine(c, Recent, Unlisted)
    <3>1. PICK up : up = Up(c)
      OBVIOUS
    <3>2. /\ InTime(c, now) /\ usage_check(c, usage) = "VERIFIED" /\ (Comparable(c) => ~Listed(c))
          /\ c.signer = certs[up[1]].cert.key
          /\ \E n \in 1 .. MaxChain + 1 : \A k \in 1 .. n :
               /\ Link(up, k, n)
               /\ Unlisted(certs[up[k]]) /\ InTimeAt(certs[up[k]], Recent)
      BY <2>1, <3>1, VerifiedIsGenuine
    <3>3. Genuine(c, Recent, Unlisted)
      BY <3>1, <3>2, Zenon DEF Genuine, Link, InTimeAt, HasIssuer, IssuerSigned
    <3>4. QED
      BY <3>2, <3>3
  <2>2. ASSUME NEW c \in Subjects, NEW usage \in Usages, InTime(c, now), usage_check(c, usage) = "VERIFIED",
               ~is_revoked(c), Genuine(c, {now}, Unmarked)
        PROVE  Verdict(c, usage).code = "VERIFIED"
    <3>1. PICK up : up = Up(c)
      OBVIOUS
    <3>2. /\ c.signer = certs[up[1]].cert.key
          /\ \E n \in 1 .. MaxChain + 1 : \A k \in 1 .. n :
               Link(up, k, n) /\ Unmarked(certs[up[k]]) /\ InTime(certs[up[k]].cert, now)
      BY <2>2, <3>1, Zenon DEF Genuine, Link, HasIssuer, IssuerSigned
    <3>3. QED
      BY <2>2, <3>1, <3>2, GenuineIsVerified
  <2>3. QED
    BY <2>1, <2>2, Zenon DEF VerdictIsRight, Recent, Unlisted, Unmarked
<1>2. QED
  BY <1>1, CacheIsSound, PTL

(* As long as the revocations can be compared with a certificate, and with *)
(* each other, the binary search finds it exactly when a list has revoked  *)
(* it and none has taken that back.                                        *)
RevokedIsListed ==
  \A c \in Certificates \cup Subjects : Comparable(c) => (is_revoked(c) <=> Listed(c))

THEOREM SearchFindsListed == StoreSpec => []RevokedIsListed
<1>1. StoreIInv => RevokedIsListed
  BY ListedIs DEF RevokedIsListed
<1>2. QED
  BY <1>1, CacheIsSound, PTL
=============================================================================
