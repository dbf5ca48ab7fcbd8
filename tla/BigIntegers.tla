------------------------------ MODULE BigIntegers ------------------------------
(***************************************************************************)
(* BigInt and the word arithmetic under it. A number is a register of      *)
(* words, the least significant first, that may be longer than the number, *)
(* and a sign. Which algorithm multiplies depends on both lengths.         *)
(***************************************************************************)
EXTENDS Integers, Sequences, SequencesExt, FiniteSetsExt

CONSTANTS
  MP_WORD_BITS,
  BOTAN_KARAT_MUL_THRESHOLD, BOTAN_KARAT_SQR_THRESHOLD,
  Numbers,                \* the numbers a program starts with
  Shifts,                 \* the counts of bits it asks for
  MaxCalls,               \* bound on its calls
  MaxWords,               \* bound on the significant words it calls with,
  MaxDividend,            \* on those of what it divides,
  MaxDigits               \* and on the digits it asks for

Word == 0 .. 2 ^ MP_WORD_BITS - 1

ASSUME WordAssumption ==
  /\ MP_WORD_BITS \in Nat /\ MP_WORD_BITS >= 4      \* 10 is a word
  /\ \A x \in Numbers : x.reg \in Seq(Word) /\ x.neg \in BOOLEAN

VARIABLES
  a, b,                   \* two BigInts
  calls,
  call                    \* the last call: its operands, and what it left

bigVars == <<a, b, calls, call>>

-----------------------------------------------------------------------------
(* Words.                                                                  *)

B == 2 ^ MP_WORD_BITS
ZeroWords(n) == [j \in 1 .. n |-> 0]
Lower(s, n) == SubSeq(s, 1, n)
Upper(s, n) == SubSeq(s, n + 1, Len(s))
Over(z, p) == p \o Upper(z, Len(p))             \* p written to where z begins
word_at(s, j) == IF j \in 0 .. Len(s) - 1 THEN s[j + 1] ELSE 0
sig_words(s) == Max({0} \cup {j \in DOMAIN s : s[j] # 0})
round_up(n) == ((Max({n, 1}) + 7) \div 8) * 8
Bit(p) == IF p THEN 1 ELSE 0

word_add(x, y, c) ==
  LET z == (x + y) % B IN [w |-> (z + c) % B, c |-> Bit(z < x \/ (z + c) % B < c)]
word_sub(x, y, c) ==
  LET z == (x - y) % B IN [w |-> (z - c) % B, c |-> Bit(z > x \/ (z - c) % B > z)]
word_madd2(x, y, c) == [w |-> (x * y + c) % B, c |-> (x * y + c) \div B]
word_madd3(x, y, z, c) == word_madd2(x, y, z + c)

(* n words, one after the other, with a carry from each to the next.       *)
Rippled(n, Step(_, _), carry) ==
  FoldLeft(LAMBDA s, j : [w |-> Append(s.w, Step(j, s.c).w), c |-> Step(j, s.c).c],
           [w |-> <<>>, c |-> carry], [j \in 1 .. n |-> j])

(* A loop that returns once there is no carry leaves the rest as it is.    *)
bigint_add2_nc(x, x_size, y, y_size) ==
  Rippled(x_size, LAMBDA j, c : word_add(x[j], IF j <= y_size THEN y[j] ELSE 0, c), 0)
bigint_add3_nc(x, x_size, y, y_size) ==
  IF x_size < y_size THEN bigint_add2_nc(y, y_size, x, x_size)
  ELSE bigint_add2_nc(x, x_size, y, y_size)
bigint_add2(x, x_size, y, y_size) ==
  LET sum == bigint_add2_nc(x, x_size, y, y_size)
  IN IF sum.c = 0 THEN Over(x, sum.w) ELSE Over(x, sum.w \o <<(x[x_size + 1] + 1) % B>>)
bigint_add3(z, x, x_size, y, y_size) ==
  LET sum == bigint_add3_nc(x, x_size, y, y_size) IN Over(z, sum.w \o <<sum.c>>)

(* faulty variant: a borrow out of the last word of y is dropped           *)
bigint_sub2_no_borrow(x, x_size, y, y_size) ==
  Over(x, Rippled(y_size, LAMBDA j, c : word_sub(x[j], y[j], c), 0).w)

bigint_sub2(x, x_size, y, y_size) ==
  Over(x, Rippled(x_size, LAMBDA j, c : word_sub(x[j], IF j <= y_size THEN y[j] ELSE 0, c), 0).w)
bigint_sub3(z, x, x_size, y, y_size) ==
  Over(z, Rippled(x_size, LAMBDA j, c : word_sub(x[j], IF j <= y_size THEN y[j] ELSE 0, c), 0).w)

bigint_cmp(x, y) ==
  LET differ == {j \in 0 .. Max({Len(x), Len(y)}) : word_at(x, j) # word_at(y, j)}
  IN IF differ = {} THEN 0
     ELSE IF word_at(x, Max(differ)) > word_at(y, Max(differ)) THEN 1 ELSE -1

(* Shifts of x_size words by words and bits, in place.                     *)
bigint_shl1(x, x_size, words, bits) ==
  LET moved == Over(x, ZeroWords(words) \o Lower(x, x_size))
      Step(j, c) == [w |-> ((moved[words + j] * 2 ^ bits) % B) + c,
                     c |-> moved[words + j] \div 2 ^ (MP_WORD_BITS - bits)]
  IN IF bits = 0 THEN moved ELSE Over(moved, ZeroWords(words) \o Rippled(x_size + 1, Step, 0).w)
bigint_shr1(x, x_size, words, bits) ==
  LET n == x_size - words
      moved == Over(x, SubSeq(x, words + 1, x_size) \o ZeroWords(words))
      Step(j, c) == [w |-> (moved[n + 1 - j] \div 2 ^ bits) + c,
                     c |-> (moved[n + 1 - j] * 2 ^ (MP_WORD_BITS - bits)) % B]
  IN IF n < 0 THEN Over(x, ZeroWords(x_size))
     ELSE IF bits = 0 THEN moved ELSE Over(moved, Reverse(Rippled(n, Step, 0).w))

(* Into a register of zeros.                                               *)
bigint_shl2(y, x, x_size, words, bits) == bigint_shl1(Over(y, Lower(x, x_size)), x_size, words, bits)
bigint_shr2(y, x, x_size, words, bits) ==
  Over(y, Lower(bigint_shr1(x, x_size, words, bits), x_size - words))

bigint_linmul3(x, x_size, y) ==
  LET row == Rippled(x_size, LAMBDA j, c : word_madd2(x[j], y, c), 0) IN row.w \o <<row.c>>

(* Two words by one, bit by bit.                                           *)
bigint_divop(n1, n0, d) ==
  LET One(s, j) ==
        LET high == ((2 * s.high) % B) + ((n0 \div 2 ^ (MP_WORD_BITS - j)) % 2)
            fits == 2 * s.high >= B \/ high >= d
        IN [high |-> IF fits THEN (high - d) % B ELSE high, q |-> ((2 * s.q) % B) + Bit(fits)]
  IN FoldLeft(One, [high |-> n1 % d, q |-> 0], [j \in 1 .. MP_WORD_BITS |-> j]).q
bigint_modop(n1, n0, d) == (n0 - word_madd2(bigint_divop(n1, n0, d), d, 0).w) % B
bigint_divcore(q, y1, y2, x1, x2, x3) ==
  LET low == word_madd2(q, y2, 0)
      mid == word_madd2(q, y1, low.c)
  IN bigint_cmp(<<low.w, mid.w, mid.c>>, <<x3, x2, x1>>) = 1

-----------------------------------------------------------------------------
(* Multiplication.                                                         *)

bigint_simple_mul(x, x_size, y, y_size) ==
  LET Row(z, i) ==
        LET row == Rippled(x_size, LAMBDA j, c : word_madd3(x[j], y[i], z[i + j - 1], c), 0)
        IN [k \in DOMAIN z |-> IF k \in i .. i + x_size - 1 THEN row.w[k - i + 1]
                               ELSE IF k = i + x_size THEN row.c ELSE z[k]]
  IN FoldLeft(Row, ZeroWords(x_size + y_size), [i \in 1 .. y_size |-> i])
bigint_simple_sqr(x, x_size) == bigint_simple_mul(x, x_size, x, x_size)

(* Comba: column by column, in an accumulator of three words.              *)
word3_muladd(w, x, y) ==
  LET low == word_madd2(x, y, w[1])
      mid == (w[2] + low.c) % B
  IN <<low.w, mid, (w[3] + Bit(mid < low.c)) % B>>
word3_muladd_2(w, x, y) ==
  LET p == word_madd2(x, y, 0)
      low == word_add(w[1], (2 * p.w) % B, 0)
      mid == word_add(w[2], ((2 * p.c) % B) + ((2 * p.w) \div B), low.c)
  IN <<low.w, mid.w, word_add(w[3], (2 * p.c) \div B, mid.c).w>>

Columns(n, Column(_, _)) ==
  LET One(s, k) == LET w == Column(s.w, k) IN [z |-> Append(s.z, w[1]), w |-> <<w[2], w[3], 0>>]
      all == FoldLeft(One, [z |-> <<>>, w |-> <<0, 0, 0>>], [k \in 1 .. 2 * n - 1 |-> k - 1])
  IN Append(all.z, all.w[1])
Rows(n, k, last) == LET first == Max({0, k + 1 - n}) IN [i \in 1 .. last + 1 - first |-> first + i - 1]

CombaMul(x, y, n) ==
  Columns(n, LAMBDA acc, k : FoldLeft(LAMBDA w, i : word3_muladd(w, x[i + 1], y[k - i + 1]),
                                      acc, Rows(n, k, Min({k, n - 1}))))
CombaSqr(x, n) ==
  Columns(n, LAMBDA acc, k : FoldLeft(LAMBDA w, i : IF 2 * i = k THEN word3_muladd(w, x[i + 1], x[i + 1])
                                                    ELSE word3_muladd_2(w, x[i + 1], x[k - i + 1]),
                                      acc, Rows(n, k, k \div 2)))

bigint_comba_mul4(x, y) == CombaMul(x, y, 4)
bigint_comba_mul6(x, y) == CombaMul(x, y, 6)
bigint_comba_mul8(x, y) == CombaMul(x, y, 8)
bigint_comba_mul16(x, y) == CombaMul(x, y, 16)
bigint_comba_sqr4(x) == CombaSqr(x, 4)
bigint_comba_sqr6(x) == CombaSqr(x, 6)
bigint_comba_sqr8(x) == CombaSqr(x, 8)
bigint_comba_sqr16(x) == CombaSqr(x, 16)

(* Karatsuba, of n words each: the two products of halves side by side,    *)
(* their sum and the product of the differences added in between.          *)
Difference(x, y, n) ==
  IF bigint_cmp(x, y) > 0 THEN bigint_sub3(<<>>, x, n, y, n) ELSE bigint_sub3(<<>>, y, n, x, n)

Recombined(z, mid, plus) ==
  LET n == Len(mid)
      half == n \div 2
      sum == Rippled(n, LAMBDA j, c : word_add(z[j], z[n + j], c), 0)
      inner == Rippled(Len(sum.w), LAMBDA j, c : word_add(z[half + j], sum.w[j], c), 0)
      last == word_add(z[n + half + 1], inner.c, sum.c)
      outer == Rippled(half - 1, LAMBDA j, c : word_add(z[n + half + 1 + j], 0, c), last.c)
      upper == inner.w \o <<last.w>> \o outer.w
  IN Lower(z, half) \o (IF plus THEN bigint_add2_nc(upper, Len(upper), mid, n).w
                        ELSE bigint_sub2(upper, Len(upper), mid, n))

RECURSIVE karatsuba_mul(_, _)
karatsuba_mul(x, y) ==
  LET n == Len(x)
      half == n \div 2
      x0 == Lower(x, half)  x1 == Upper(x, half)
      y0 == Lower(y, half)  y1 == Upper(y, half)
      cmp0 == bigint_cmp(x0, x1)
      cmp1 == bigint_cmp(y1, y0)
      mid == IF cmp0 = 0 \/ cmp1 = 0 THEN ZeroWords(n)
             ELSE karatsuba_mul(Difference(x0, x1, half), Difference(y1, y0, half))
  IN IF n = 6 THEN bigint_comba_mul6(x, y)
     ELSE IF n = 8 THEN bigint_comba_mul8(x, y)
     ELSE IF n = 16 THEN bigint_comba_mul16(x, y)
     ELSE IF n < BOTAN_KARAT_MUL_THRESHOLD \/ n % 2 = 1 THEN bigint_simple_mul(x, n, y, n)
     ELSE Recombined(karatsuba_mul(x0, y0) \o karatsuba_mul(x1, y1), mid,
                     cmp0 = cmp1 \/ cmp0 = 0 \/ cmp1 = 0)

RECURSIVE karatsuba_sqr(_)
karatsuba_sqr(x) ==
  LET n == Len(x)
      half == n \div 2
      x0 == Lower(x, half)  x1 == Upper(x, half)
      cmp == bigint_cmp(x0, x1)
      mid == IF cmp = 0 THEN ZeroWords(n) ELSE karatsuba_sqr(Difference(x0, x1, half))
  IN IF n = 6 THEN bigint_comba_sqr6(x)
     ELSE IF n = 8 THEN bigint_comba_sqr8(x)
     ELSE IF n = 16 THEN bigint_comba_sqr16(x)
     ELSE IF n < BOTAN_KARAT_SQR_THRESHOLD \/ n % 2 = 1 THEN bigint_simple_sqr(x, n)
     ELSE Recombined(karatsuba_sqr(x0) \o karatsuba_sqr(x1), mid, cmp = 0)

-----------------------------------------------------------------------------
(* Which of them multiplies: by the lengths of the numbers, and the room   *)
(* in all three registers. A length of 0 stands for no Karatsuba.          *)

karatsuba_size(z_size, x_size, x_sw, y_size, y_sw) ==
  LET start == Max({x_sw, y_sw})
      end == Min({x_size, y_size})
      fits == {j \in start .. end : j % 2 = 0 /\ 2 * j <= z_size}
      j == Min(fits)
  IN IF \/ Max({x_sw, y_sw}) > end
        \/ x_size = x_sw /\ x_size % 2 = 1
        \/ y_size = y_sw /\ y_size % 2 = 1 THEN 0
     ELSE IF start = end THEN IF start % 2 = 1 THEN 0 ELSE start
     ELSE IF fits = {} THEN 0
     ELSE IF j % 4 = 2 /\ j + 2 <= end /\ 2 * (j + 2) <= z_size THEN j + 2 ELSE j

karatsuba_size_sqr(z_size, x_size, x_sw) ==
  LET fits == {j \in x_sw .. x_size : j % 2 = 0 /\ 2 * j <= z_size}
      j == Min(fits)
  IN IF x_sw = x_size THEN IF x_sw % 2 = 1 THEN 0 ELSE x_sw
     ELSE IF fits = {} THEN 0
     ELSE IF j % 4 = 2 /\ j + 2 <= x_size /\ 2 * (j + 2) <= z_size THEN j + 2 ELSE j

bigint_mul(z, x, y) ==
  LET x_sw == sig_words(x)
      y_sw == sig_words(y)
      Small(n) == /\ x_sw <= n /\ Len(x) >= n /\ y_sw <= n /\ Len(y) >= n
                  /\ Len(z) >= 2 * n
      n == karatsuba_size(Len(z), Len(x), x_sw, Len(y), y_sw)
  IN Over(z, IF x_sw = 1 THEN bigint_linmul3(y, y_sw, x[1])
             ELSE IF y_sw = 1 THEN bigint_linmul3(x, x_sw, y[1])
             ELSE IF Small(4) THEN bigint_comba_mul4(x, y)
             ELSE IF Small(6) THEN bigint_comba_mul6(x, y)
             ELSE IF Small(8) THEN bigint_comba_mul8(x, y)
             ELSE IF Small(16) THEN bigint_comba_mul16(x, y)
             ELSE IF Min({x_sw, y_sw}) < BOTAN_KARAT_MUL_THRESHOLD \/ n = 0
             THEN bigint_simple_mul(x, x_sw, y, y_sw)
             ELSE karatsuba_mul(Lower(x, n), Lower(y, n)))

bigint_sqr(z, x) ==
  LET x_sw == sig_words(x)
      Small(n) == x_sw <= n /\ Len(x) >= n /\ Len(z) >= 2 * n
      n == karatsuba_size_sqr(Len(z), Len(x), x_sw)
  IN Over(z, IF x_sw = 1 THEN bigint_linmul3(x, x_sw, x[1])
             ELSE IF Small(4) THEN bigint_comba_sqr4(x)
             ELSE IF Small(6) THEN bigint_comba_sqr6(x)
             ELSE IF Small(8) THEN bigint_comba_sqr8(x)
             ELSE IF Small(16) THEN bigint_comba_sqr16(x)
             ELSE IF Len(x) < BOTAN_KARAT_SQR_THRESHOLD \/ n = 0 THEN bigint_simple_sqr(x, x_sw)
             ELSE karatsuba_sqr(Lower(x, n)))

-----------------------------------------------------------------------------
(* BigInt.                                                                 *)

sw(x) == sig_words(x.reg)
is_zero(x) == sw(x) = 0
set_sign(x, neg) == [x EXCEPT !.neg = neg /\ ~is_zero(x)]
grow_to(x, n) ==
  IF n <= Len(x.reg) THEN x ELSE [x EXCEPT !.reg = @ \o ZeroWords(round_up(n) - Len(@))]
New(neg, n) == [reg |-> ZeroWords(round_up(n)), neg |-> neg]
FromWord(w) == [reg |-> IF w = 0 THEN <<>> ELSE Over(ZeroWords(8), <<w>>), neg |-> FALSE]
Copy(x) ==
  IF is_zero(x) THEN [reg |-> ZeroWords(2), neg |-> FALSE]
  ELSE [x EXCEPT !.reg = Over(ZeroWords(round_up(sw(x))), Lower(@, sw(x)))]
bits(x) ==
  IF is_zero(x) THEN 0
  ELSE (sw(x) - 1) * MP_WORD_BITS
       + Max({n \in 1 .. MP_WORD_BITS : x.reg[sw(x)] >= 2 ^ (n - 1)})
cmp(x, y) ==
  IF x.neg # y.neg THEN IF x.neg THEN -1 ELSE 1
  ELSE (IF x.neg THEN -1 ELSE 1) * bigint_cmp(x.reg, y.reg)
mask_bits(x, n) ==
  LET top == n \div MP_WORD_BITS
  IN IF n >= bits(x) THEN x
     ELSE [x EXCEPT !.reg = [j \in DOMAIN @ |-> IF j <= top THEN @[j]
                             ELSE IF j = top + 1 THEN @[j] % 2 ^ (n % MP_WORD_BITS) ELSE 0]]

PlusAssign(x, y) ==
  LET top == Max({sw(x), sw(y)})
      g == grow_to(x, top + 1)
      relative_size == bigint_cmp(x.reg, y.reg)
  IN IF x.neg = y.neg THEN [g EXCEPT !.reg = bigint_add2(@, top, y.reg, sw(y))]
     ELSE IF relative_size < 0
     THEN set_sign([g EXCEPT !.reg = Over(@, bigint_sub3(ZeroWords(top), y.reg, top, x.reg, sw(x)))], y.neg)
     ELSE IF relative_size = 0 THEN [reg |-> ZeroWords(Len(g.reg)), neg |-> FALSE]
     ELSE [g EXCEPT !.reg = bigint_sub2(@, sw(x), y.reg, sw(y))]

MinusAssign(x, y) ==
  LET top == Max({sw(x), sw(y)})
      g == grow_to(x, top + 1)
      relative_size == bigint_cmp(x.reg, y.reg)
      plus == bigint_add2(g.reg, top, y.reg, sw(y))
  IN IF relative_size < 0
     THEN set_sign([g EXCEPT !.reg = IF x.neg # y.neg THEN plus
                                     ELSE Over(@, bigint_sub3(ZeroWords(top), y.reg, top, x.reg, sw(x)))], ~y.neg)
     ELSE IF relative_size = 0
     THEN IF x.neg = y.neg THEN [reg |-> ZeroWords(Len(g.reg)), neg |-> FALSE]
          ELSE [g EXCEPT !.reg = bigint_shl1(@, sw(x), 0, 1)]
     ELSE [g EXCEPT !.reg = IF x.neg = y.neg THEN bigint_sub2(@, sw(x), y.reg, sw(y)) ELSE plus]

(* The operand is another object: the product is written over x.           *)
TimesAssign(x, y) ==
  LET s == set_sign(x, x.neg # y.neg)
      one == grow_to(s, sw(y) + 2)
      g == grow_to(s, Len(x.reg) + Len(y.reg))
  IN IF is_zero(x) \/ is_zero(y) THEN [reg |-> ZeroWords(Len(x.reg)), neg |-> FALSE]
     ELSE IF sw(x) = 1 THEN [one EXCEPT !.reg = Over(@, bigint_linmul3(y.reg, sw(y), x.reg[1]))]
     ELSE IF sw(y) = 1
     THEN [grow_to(s, sw(x) + 2) EXCEPT !.reg = Over(@, bigint_linmul3(x.reg, sw(x), y.reg[1]))]
     ELSE [g EXCEPT !.reg = bigint_mul(@, Lower(x.reg, sw(x)), y.reg)]

ShlAssign(x, n) ==
  LET words == n \div MP_WORD_BITS
      rest == n % MP_WORD_BITS
  IN IF n = 0 THEN x
     ELSE [grow_to(x, sw(x) + words + Bit(rest # 0)) EXCEPT !.reg = bigint_shl1(@, sw(x), words, rest)]
ShrAssign(x, n) ==
  LET r == [x EXCEPT !.reg = bigint_shr1(@, sw(x), n \div MP_WORD_BITS, n % MP_WORD_BITS)]
  IN IF n = 0 THEN x ELSE IF is_zero(r) THEN set_sign(r, FALSE) ELSE r

Plus(x, y) ==
  LET z == New(x.neg, Max({sw(x), sw(y)}) + 1)
      relative_size == bigint_cmp(x.reg, y.reg)
  IN IF x.neg = y.neg THEN [z EXCEPT !.reg = bigint_add3(@, x.reg, sw(x), y.reg, sw(y))]
     ELSE IF relative_size < 0
     THEN set_sign([z EXCEPT !.reg = bigint_sub3(@, y.reg, sw(y), x.reg, sw(x))], y.neg)
     ELSE IF relative_size = 0 THEN set_sign(z, FALSE)
     ELSE [z EXCEPT !.reg = bigint_sub3(@, x.reg, sw(x), y.reg, sw(y))]

(* Where the operands differ by the sign only, the sign is not set.        *)
Minus(x, y) ==
  LET z == New(FALSE, Max({sw(x), sw(y)}) + 1)
      relative_size == bigint_cmp(x.reg, y.reg)
      sum == bigint_add3(z.reg, x.reg, sw(x), y.reg, sw(y))
  IN IF relative_size < 0
     THEN set_sign([z EXCEPT !.reg = IF x.neg # y.neg THEN sum
                                     ELSE bigint_sub3(@, y.reg, sw(y), x.reg, sw(x))], ~y.neg)
     ELSE IF relative_size = 0
     THEN IF x.neg = y.neg THEN z ELSE [z EXCEPT !.reg = bigint_shl2(@, x.reg, sw(x), 0, 1)]
     ELSE set_sign([z EXCEPT !.reg = IF x.neg # y.neg THEN sum
                                     ELSE bigint_sub3(@, x.reg, sw(x), y.reg, sw(y))], x.neg)

Times(x, y) ==
  LET z == New(FALSE, Len(x.reg) + Len(y.reg)).reg
      p == IF is_zero(x) \/ is_zero(y) THEN z
           ELSE IF sw(x) = 1 THEN Over(z, bigint_linmul3(y.reg, sw(y), x.reg[1]))
           ELSE IF sw(y) = 1 THEN Over(z, bigint_linmul3(x.reg, sw(x), y.reg[1]))
           ELSE bigint_mul(z, x.reg, y.reg)
  IN [reg |-> p, neg |-> ~is_zero(x) /\ ~is_zero(y) /\ x.neg # y.neg]
square(x) ==
  [reg |-> bigint_sqr(ZeroWords(((2 * sw(x) + 15) \div 16) * 16), x.reg), neg |-> FALSE]

Shl(x, n) ==
  LET words == n \div MP_WORD_BITS
      rest == n % MP_WORD_BITS
  IN IF n = 0 THEN x
     ELSE [reg |-> bigint_shl2(New(FALSE, sw(x) + words + Bit(rest # 0)).reg, x.reg, sw(x), words, rest),
           neg |-> x.neg]
Shr(x, n) ==
  LET words == n \div MP_WORD_BITS
  IN IF n = 0 THEN x
     ELSE IF bits(x) <= n THEN FromWord(0)
     ELSE [reg |-> bigint_shr2(New(FALSE, sw(x) - words).reg, x.reg, sw(x), words, n % MP_WORD_BITS),
           neg |-> x.neg]

-----------------------------------------------------------------------------
(* Division.                                                               *)

(* The divisor is taken away as long as the rest compares with it so.      *)
RECURSIVE Whittled(_, _, _, _)
Whittled(r, y, least, count) ==
  IF cmp(r, y) < least THEN [r |-> r, count |-> count]
  ELSE Whittled(MinusAssign(r, y), y, least, count + 1)

(* One word of the quotient: guessed from two words, lowered by a third,   *)
(* and by one more if what it takes away was too much.                     *)
Guess(r, y, t, j) ==
  LET q == IF word_at(r, j) = word_at(y, t) THEN B - 1
           ELSE bigint_divop(word_at(r, j), word_at(r, j - 1), word_at(y, t))
  IN Max({d \in 0 .. q : ~bigint_divcore(d, word_at(y, t), word_at(y, t - 1),
                                         word_at(r, j), word_at(r, j - 1), word_at(r, j - 2))})
Lessened(r, y, shift, d) == MinusAssign(r, Shl(Times(FromWord(d), y), shift))
Corrected(less, y, shift, d, q) ==
  IF less.neg THEN [r |-> PlusAssign(less, Shl(y, shift)), q |-> <<d - 1>> \o q]
  ELSE [r |-> less, q |-> <<d>> \o q]
OneWord(s, y, shift, d) == Corrected(Lessened(s.r, y, shift, d), y, shift, d, s.q)

LongDivided(top, y, n, t) ==
  FoldLeft(LAMBDA s, j : OneWord(s, y, MP_WORD_BITS * (j - t - 1), Guess(s.r.reg, y.reg, t, j)),
           [r |-> top.r, q |-> <<top.count>>], [k \in 1 .. n - t |-> n + 1 - k])

flip_sign(x) == set_sign(x, ~x.neg)
WithSigns(q, x, y) == IF x.neg # y.neg THEN flip_sign(q) ELSE q
sign_fixup(x, y, d) ==
  IF x.neg /\ ~is_zero(d.r)
  THEN [q |-> WithSigns(MinusAssign(WithSigns(d.q, x, FromWord(0)), FromWord(1)), y, FromWord(0)),
        r |-> Minus(set_sign(Copy(y), FALSE), d.r)]
  ELSE [q |-> WithSigns(d.q, x, y), r |-> d.r]

WithoutLong(less, shifts) == [q |-> FromWord(less.count), r |-> ShrAssign(less.r, shifts)]
Long(long, shifts) == [q |-> [reg |-> long.q, neg |-> FALSE], r |-> ShrAssign(long.r, shifts)]
Normalized(r, y, n, t, shifts) ==
  IF n <= t THEN WithoutLong(Whittled(r, y, 1, 0), shifts)
  ELSE Long(LongDivided(Whittled(r, Shl(y, MP_WORD_BITS * (n - t)), 0, 0), y, n, t), shifts)
Shifted(r, y, shifts) ==
  Normalized(ShlAssign(r, shifts), ShlAssign(y, shifts), sw(ShlAssign(r, shifts)) - 1, sw(y) - 1, shifts)
Divided(r, y) ==
  IF cmp(r, y) < 0 THEN [q |-> FromWord(0), r |-> r]
  ELSE IF cmp(r, y) = 0 THEN [q |-> FromWord(1), r |-> FromWord(0)]
  ELSE Shifted(r, y, sw(y) * MP_WORD_BITS - bits(y))
divide(x, y) == sign_fixup(x, y, Divided(set_sign(x, FALSE), set_sign(Copy(y), FALSE)))

power_of_2(w) == \E n \in 1 .. MP_WORD_BITS : w = 2 ^ n
DivAssign(x, y) ==
  IF sw(y) = 1 /\ power_of_2(y.reg[1]) THEN ShrAssign(x, bits(y) - 1) ELSE divide(x, y).q
Mod(x, mod) == IF ~x.neg /\ cmp(x, mod) < 0 THEN x ELSE divide(x, mod).r
ModWord(x, w) ==
  LET remainder == FoldRight(LAMBDA v, r : bigint_modop(r, v, w), Lower(x.reg, sw(x)), 0)
  IN IF power_of_2(w) THEN word_at(x.reg, 0) % w
     ELSE IF remainder # 0 /\ x.neg THEN w - remainder ELSE remainder

sub_mul(x, y, z) == TimesAssign(MinusAssign(Copy(x), y), z)
mul_add(x, y, z) ==
  LET r == [New(x.neg # y.neg, Max({Len(x.reg) + Len(y.reg), sw(z)}) + 1) EXCEPT
              !.reg = bigint_mul(@, x.reg, y.reg)]
  IN [r EXCEPT !.reg = bigint_add2(@, Max({sw(r), sw(z)}), z.reg, sw(z))]

(* To digits and back. encoded_size takes log10(2) for 0.30102999566.      *)
encoded_size(x, radix) ==
  IF radix = 8 THEN (bits(x) + 2) \div 3 ELSE (bits(x) * 30103) \div 100000 + 1
OctalDigit(s) ==
  [copy |-> DivAssign(s.copy, FromWord(8)), digits |-> <<ModWord(s.copy, 8)>> \o s.digits]
DecimalDigit(by, s) == [copy |-> by.q, digits |-> <<word_at(by.r.reg, 0)>> \o s.digits]
encode(x, radix) ==
  LET One(s, j) == IF is_zero(s.copy) THEN [s EXCEPT !.digits = <<0>> \o @]
                   ELSE IF radix = 8 THEN OctalDigit(s)
                   ELSE DecimalDigit(divide(s.copy, FromWord(10)), s)
  IN FoldLeft(One, [copy |-> set_sign(Copy(x), FALSE), digits |-> <<>>],
              [j \in 1 .. encoded_size(x, radix) |-> j]).digits
decode(digits, radix) ==
  FoldLeft(LAMBDA r, d : PlusAssign(TimesAssign(r, FromWord(radix)), FromWord(d)),
           [reg |-> <<>>, neg |-> FALSE], digits)

-----------------------------------------------------------------------------
(* Calls. What they make of a, b or both is put into a.                    *)

BigInit ==
  /\ a \in Numbers /\ b \in Numbers /\ calls = 0
  /\ call = [op |-> "none", x |-> a, y |-> b, n |-> 0, z |-> a]

Called(op, y, n, z) ==
  /\ sw(a) <= MaxWords /\ sw(b) <= MaxWords
  /\ calls < MaxCalls /\ calls' = calls + 1
  /\ a' = z /\ UNCHANGED b
  /\ call' = [op |-> op, x |-> a, y |-> y, n |-> n, z |-> a']

Add(y) == Called("+", y, 0, Plus(a, y)) \/ Called("+=", y, 0, PlusAssign(a, y))
Subtract(y) == Called("-", y, 0, Minus(a, y)) \/ Called("-=", y, 0, MinusAssign(a, y))
Multiply ==
  \/ Called("*", b, 0, Times(a, b)) \/ Called("*=", b, 0, TimesAssign(a, b))
  \/ Called("*", a, 0, square(a))
Divide(y) ==
  /\ ~is_zero(y) /\ sw(a) <= MaxDividend /\ sw(y) <= MaxDividend
  /\ \/ Called("/", y, 0, divide(a, y).q) \/ Called("/=", y, 0, DivAssign(a, y))
     \/ ~y.neg /\ Called("%", y, 0, Mod(a, y))
DivideByWord(w) ==
  sw(a) <= MaxDividend /\ Called("% word", FromWord(w), 0, FromWord(ModWord(a, w)))
ShiftLeft(n) == Called("<<", a, n, Shl(a, n)) \/ Called("<<", a, n, ShlAssign(a, n))
ShiftRight(n) == Called(">>", a, n, Shr(a, n)) \/ Called(">>", a, n, ShrAssign(a, n))
MaskBits(n) == ~a.neg /\ Called("mask", a, n, mask_bits(a, n))
SubMul == ~a.neg /\ ~b.neg /\ Called("sub_mul", b, 0, sub_mul(a, b, b))
MulAdd == ~b.neg /\ ~is_zero(b) /\ Called("mul_add", b, 0, mul_add(a, b, b))
Convert(radix) ==
  /\ ~a.neg /\ encoded_size(a, radix) <= MaxDigits
  /\ Called("digits", a, radix, decode(encode(a, radix), radix))
Swap ==
  /\ calls < MaxCalls /\ calls' = calls + 1
  /\ a' = b /\ b' = a /\ call' = [op |-> "none", x |-> a, y |-> b, n |-> 0, z |-> b]

BigNext ==
  \/ \E y \in {a, b} : Add(y) \/ Subtract(y) \/ Divide(y)
  \/ \E w \in Word \ {0} : DivideByWord(w)
  \/ \E n \in Shifts : ShiftLeft(n) \/ ShiftRight(n) \/ MaskBits(n)
  \/ \E radix \in {8, 10} : Convert(radix)
  \/ Multiply \/ SubMul \/ MulAdd \/ Swap

BigSpec == BigInit /\ [][BigNext]_bigVars

-----------------------------------------------------------------------------
(* Integers as polynomials in B, with coefficients of any size and sign.   *)

Z(x) == [j \in DOMAIN x.reg |-> IF x.neg THEN -x.reg[j] ELSE x.reg[j]]
Coefficient(p, j) == IF j \in DOMAIN p THEN p[j] ELSE 0
Sum(p, q) == [j \in 1 .. Max({Len(p), Len(q)}) |-> Coefficient(p, j) + Coefficient(q, j)]
Minus1(p) == [j \in DOMAIN p |-> -p[j]]
Product(p, q) ==
  [k \in 1 .. Len(p) + Len(q) |->
     MapThenSumSet(LAMBDA i : p[i] * Coefficient(q, k + 1 - i), DOMAIN p)]
Power(n) == ZeroWords(n \div MP_WORD_BITS) \o <<2 ^ (n % MP_WORD_BITS)>>
Signum(p) ==
  LET Carried(s, d) == [c |-> (s.c + d) \div B, zero |-> s.zero /\ (s.c + d) % B = 0]
      all == FoldLeft(Carried, [c |-> 0, zero |-> TRUE], p)
  IN IF all.c < 0 THEN -1 ELSE IF all.c = 0 /\ all.zero THEN 0 ELSE 1
Equal(p, q) == Signum(Sum(p, Minus1(q))) = 0
Magnitude(p) == IF Signum(p) = -1 THEN Minus1(p) ELSE p
Under(p, q) == Signum(p) # -1 /\ Signum(Sum(q, Minus1(p))) = 1       \* 0 <= p < q

Exact(op, x, y, n, z) ==
  CASE op \in {"+", "+="} -> Equal(z, Sum(x, y))
    [] op \in {"-", "-="} -> Equal(z, Sum(x, Minus1(y)))
    [] op \in {"*", "*="} -> Equal(z, Product(x, y))
    [] op \in {"/", "/="} -> Under(Sum(x, Minus1(Product(z, y))), Magnitude(y))
    [] op \in {"%", "% word"} ->
         Under(z, y) /\ Equal(Sum(z, Product(Z(divide(call.x, call.y).q), y)), x)
    [] op = "<<" -> Equal(z, Product(x, Power(n)))
    [] op = ">>" -> Under(Sum(Magnitude(x), Minus1(Product(Magnitude(z), Power(n)))), Power(n))
                    /\ Signum(z) \in {0, Signum(x)}
    [] op = "mask" -> Under(z, Power(n)) /\ Equal(Sum(z, Product(Z(Shr(call.x, n)), Power(n))), x)
    [] op = "sub_mul" -> Equal(z, Product(Sum(x, Minus1(y)), y))
    [] op = "mul_add" -> Equal(z, Sum(Product(x, y), y))
    [] op = "digits" -> Equal(z, x)
    [] op = "none" -> TRUE

(* Calls whose answer is another one than that of the integers: a          *)
(* difference of a negative number and its opposite; /= and % of a power   *)
(* of 2 below B, which look at no sign; mul_add of a negative product.     *)
Strays ==
  \/ call.op = "-" /\ call.x.neg /\ bigint_cmp(call.x.reg, call.y.reg) = 0 /\ ~call.y.neg
  \/ /\ call.op = "/=" /\ sw(call.y) = 1 /\ power_of_2(call.y.reg[1])
     /\ call.x.neg \/ call.y.neg
  \/ call.op = "% word" /\ call.x.neg /\ power_of_2(call.y.reg[1])
  \/ call.op = "mul_add" /\ call.x.neg

(* Whichever algorithm the lengths of the registers select, and whatever   *)
(* an earlier call has left in them, an operation yields what it yields on *)
(* integers (checks/bigint.cpp compares each with its assigning form), and *)
(* never a negative zero, which would compare as less than zero.           *)
ArithmeticIsRight ==
  ~Strays => /\ Exact(call.op, Z(call.x), Z(call.y), call.n, Z(call.z))
             /\ call.z.neg => ~is_zero(call.z)
=============================================================================
