------------------------------ MODULE NumberTheory ------------------------------
(***************************************************************************)
(* Number theory over big integers, which are plain integers here: what    *)
(* their arithmetic yields is the subject of BigIntegers. The functions    *)
(* are pure; Power_Mod keeps an exponentiator whose table of powers and    *)
(* whose window are those of the exponent it had when the base was set.    *)
(***************************************************************************)
EXTENDS Integers, Sequences, SequencesExt, FiniteSetsExt

CONSTANTS
  BOTAN_MP_WORD_BITS,
  PRIMES,                 \* the table of the first odd primes
  PRIME_PRODUCTS,         \* products of primes, one tried for every
  BitsPerProduct,         \* so many bits of a number
  TestIterations,         \* <<bits, verify_iter, check_iter>>, by size
  PREF_NONCE_BITS,
  FixedWindows,           \* <<bits of the exponent, bits more>>, from the
  MontgomeryWindows,      \* longest on, for either exponentiator
  Moduli, Bases, Exponents,        \* what Power_Mod is given,
  HintSets,
  Operands,                       \* and what the functions are
  PrimeSizes

ASSUME NumberAssumption ==
  /\ BOTAN_MP_WORD_BITS \in Nat \ {0}
  /\ Moduli \subseteq Nat /\ Exponents \subseteq Nat /\ Operands \subseteq Nat
  /\ Bases \subseteq Nat \ {0}

VARIABLES
  core,                   \* the exponentiator of a Power_Mod
  asked,                  \* the base and the exponent it was last given
  answer                  \* the last call: its operands, and what it returned

numberVars == <<core, asked, answer>>

-----------------------------------------------------------------------------
Throws == -2                                    \* no function returns it
Abs(x) == IF x < 0 THEN -x ELSE x
bit_length(x) == CHOOSE n \in 0 .. 30 : Abs(x) < 2 ^ n /\ (n = 0 \/ Abs(x) >= 2 ^ (n - 1))
Halved(x) == IF x < 0 THEN -(-x \div 2) ELSE x \div 2
Odd(x) == x % 2 = 1
WordsOf(x) == (bit_length(x) + BOTAN_MP_WORD_BITS - 1) \div BOTAN_MP_WORD_BITS
Radix(n) == 2 ^ (BOTAN_MP_WORD_BITS * n)        \* of n words

low_zero_bits(n) ==
  IF n <= 0 THEN 0 ELSE CHOOSE k \in 0 .. 30 : n % 2 ^ k = 0 /\ n % 2 ^ (k + 1) # 0
Shed(n) == n \div 2 ^ low_zero_bits(n)

PrimeByDefinition(n) == n > 1 /\ \A d \in 2 .. n - 1 : n % d # 0

RECURSIVE BinaryGcd(_, _)
GcdStep(x, y) == IF x >= y THEN BinaryGcd((x - y) \div 2, y) ELSE BinaryGcd(x, (y - x) \div 2)
BinaryGcd(u, v) == IF u = 0 THEN v ELSE GcdStep(Shed(u), Shed(v))
gcd(x, y) ==
  LET WithShift(shift) == BinaryGcd(Abs(x) \div 2 ^ shift, Abs(y) \div 2 ^ shift) * 2 ^ shift
  IN IF x = 0 \/ y = 0 THEN 0
     ELSE IF x = 1 \/ y = 1 THEN 1
     ELSE WithShift(Min({low_zero_bits(Abs(x)), low_zero_bits(Abs(y))}))
lcm(x, y) == LET Over(z) == IF z = 0 THEN Throws ELSE (x * y) \div z IN Over(gcd(x, y))

(* u = A * mod + B * n and v = C * mod + D * n, of either sign.            *)
HalvedTimes(times, A, B, mod, n) ==
  FoldLeft(LAMBDA s, i : IF Odd(s.A) \/ Odd(s.B) THEN [A |-> Halved(s.A + n), B |-> Halved(s.B - mod)]
                         ELSE [A |-> Halved(s.A), B |-> Halved(s.B)],
           [A |-> A, B |-> B], [i \in 1 .. times |-> i])
RECURSIVE BinaryEuclid(_, _, _, _, _, _)
EuclidStep(u, v, l, r, mod, n) ==
  IF u >= v THEN BinaryEuclid(u - v, v, [A |-> l.A - r.A, B |-> l.B - r.B], r, mod, n)
  ELSE BinaryEuclid(u, v - u, l, [A |-> r.A - l.A, B |-> r.B - l.B], mod, n)
BinaryEuclid(u, v, left, right, mod, n) ==
  IF u = 0 THEN [v |-> v, D |-> right.B]
  ELSE EuclidStep(Shed(u), Shed(v), HalvedTimes(low_zero_bits(u), left.A, left.B, mod, n),
                  HalvedTimes(low_zero_bits(v), right.A, right.B, mod, n), mod, n)
inverse_mod(n, mod) ==
  LET OfEnd(end) == IF end.v # 1 THEN 0 ELSE end.D % mod
  IN IF mod = 0 THEN Throws
     ELSE IF n = 0 \/ (~Odd(n) /\ ~Odd(mod)) THEN 0
     ELSE OfEnd(BinaryEuclid(mod, n, [A |-> 1, B |-> 0], [A |-> 0, B |-> 1], mod, n))

(* One round of the loop: its sign, less = x mod y or y minus that, rest =  *)
(* less without its factors of 2.                                          *)
RECURSIVE jacobi(_, _)
JacobiSign(mirrored, less, rest, y) ==
  LET minus == {s \in {"mirrored", "twos", "swapped"} :
                  \/ s = "mirrored" /\ mirrored /\ y % 4 = 3
                  \/ s = "twos" /\ Odd(low_zero_bits(less)) /\ y % 8 \in {3, 5}
                  \/ s = "swapped" /\ rest % 4 = 3 /\ y % 4 = 3}
  IN IF Cardinality(minus) \in {1, 3} THEN -1 ELSE 1
JacobiRound(mirrored, less, y) ==
  LET On(rest) == JacobiSign(mirrored, less, rest, y) * (IF rest = 1 THEN 1 ELSE jacobi(y, rest))
  IN IF less = 0 THEN 0 ELSE On(Shed(less))
jacobi(x, y) == IF x % y > y \div 2 THEN JacobiRound(TRUE, y - (x % y), y) ELSE JacobiRound(FALSE, x % y, y)

(* Modular_Reducer: Barrett, below the square of the modulus, which has k  *)
(* words.                                                                  *)
Barrett(n, k, x) ==
  LET mu == Radix(2 * k) \div n
      multiple == (((x \div Radix(k - 1)) * mu) \div Radix(k + 1)) * n
  IN (((x % Radix(k + 1)) - (multiple % Radix(k + 1))) % Radix(k + 1)) % n
reduce(n, x) ==
  LET Signed(rest) == IF x < 0 /\ rest # 0 THEN n - rest ELSE rest
  IN IF Abs(x) >= n * n THEN x % n
     ELSE Signed(IF Abs(x) < n THEN Abs(x) ELSE Barrett(n, WordsOf(n), Abs(x)))

-----------------------------------------------------------------------------
(* Exponentiation.                                                         *)

(* Word by word, what makes the lowest word zero is added.                 *)
WithoutLowWords(z, n, u) ==
  LET W == Radix(1)
      One(t, i) == t + ((((t \div Radix(i)) % W) * u) % W) * n * Radix(i)
  IN FoldLeft(One, z, [i \in 1 .. WordsOf(n) |-> i - 1]) \div Radix(WordsOf(n))
(* faulty variant: the result, which may exceed n, is not compared to it   *)
bigint_monty_redc_unreduced(z, n, u) == WithoutLowWords(z, n, u)
bigint_monty_redc(z, n, u) ==
  LET Below(out) == IF out >= n THEN out - n ELSE out IN Below(WithoutLowWords(z, n, u))

MoreBits(exp, wsize) ==
  LET fits == SelectSeq(wsize, LAMBDA w : bit_length(exp) >= w[1])
  IN IF exp = 0 \/ fits = <<>> THEN 0 ELSE Head(fits)[2]
Given(hint, hints, more) == IF hint \in hints THEN more ELSE 0
choose_window_bits(kind, exp, hints) ==
  IF kind = "fixed window"
  THEN 3 + MoreBits(exp, FixedWindows) + Given("EXP_IS_FIXED", hints, 2)
         + Given("EXP_IS_LARGE", hints, 2) + Given("BASE_IS_FIXED", hints, 1)
  ELSE 1 + MoreBits(exp, MontgomeryWindows) + Given("BASE_IS_FIXED", hints, 2)
         + Given("EXP_IS_LARGE", hints, 1)

NoCore == [kind |-> "none"]
mod_exp(n, hints) ==
  [kind |-> IF Odd(n) THEN "Montgomery" ELSE "fixed window", n |-> n, hints |-> hints,
   exp |-> 0, window_bits |-> 0, g |-> <<>>,
   u |-> IF Odd(n) THEN Radix(1) - inverse_mod(n, Radix(1)) ELSE 0]
R_mod(n) == Radix(WordsOf(n)) % n
R2(n) == Radix(2 * WordsOf(n)) % n
Times2(c, x, y) ==
  IF c.kind = "Montgomery" THEN bigint_monty_redc(x * y, c.n, c.u) ELSE reduce(c.n, x * y)

(* The window is chosen, and the table filled, for the exponent of now.    *)
CoreWithTable(c, first, window) ==
  [c EXCEPT !.window_bits = window,
            !.g = FoldLeft(LAMBDA g, j : Append(g, Times2(c, Last(g), first)),
                           <<first>>, [j \in 1 .. 2 ^ window - 2 |-> j])]
CoreWithBase(c, base) ==
  CoreWithTable(c, IF c.kind = "Montgomery" THEN Times2(c, base % c.n, R2(c.n)) ELSE base,
                choose_window_bits(c.kind, c.exp, c.hints))
CoreWithExponent(c, exp) == [c EXCEPT !.exp = exp]

Squared(c, x) == FoldLeft(LAMBDA y, k : Times2(c, y, y), x, [k \in 1 .. c.window_bits |-> k])
WithNibble(c, x, nibble) == IF nibble = 0 THEN x ELSE Times2(c, x, c.g[nibble])
Window(c, x, j) ==
  WithNibble(c, Squared(c, x), (c.exp \div 2 ^ (c.window_bits * j)) % 2 ^ c.window_bits)
Windows(c, one, exp_nibbles) ==
  FoldLeft(LAMBDA y, j : Window(c, y, exp_nibbles - j), one, [j \in 1 .. exp_nibbles |-> j])
CoreExecuted(c) ==
  LET Done(x) == IF c.kind = "Montgomery" THEN bigint_monty_redc(x, c.n, c.u) ELSE x
  IN Done(Windows(c, IF c.kind = "Montgomery" THEN R_mod(c.n) ELSE 1,
                  (bit_length(c.exp) + c.window_bits - 1) \div c.window_bits))

(* As the number theory and the keys use it: base first, or exponent first,*)
(* or a base of its own for every call.                                    *)
power_mod(base, exp, n) == CoreExecuted(CoreWithExponent(CoreWithBase(mod_exp(n, {}), base), exp))
ChosenHint(x, n) ==
  IF bit_length(x) > bit_length(n) \div 4 THEN {"BASE_IS_LARGE"} ELSE {}
Fixed_Exponent_Power_Mod(exp, n) ==
  CoreWithExponent(mod_exp(n, {"EXP_IS_FIXED"} \cup ChosenHint(exp, n)), exp)
Fixed_Base_Power_Mod(base, n) ==
  CoreWithBase(mod_exp(n, {"BASE_IS_FIXED"} \cup ChosenHint(base, n)), base)

-----------------------------------------------------------------------------
(* Square roots.                                                           *)

RECURSIVE Order2(_, _)
Order2(n, p) == IF n = 1 THEN 0 ELSE 1 + Order2(reduce(p, n * n), p)
RECURSIVE Shanks(_, _, _, _, _)
ShanksBy(by, r, n, c, i, p) == Shanks(reduce(p, r * by), reduce(p, n * c), c, i, p)
ShanksRound(r, n, c, s, i, p) ==
  LET By(by) == ShanksBy(by, r, n, reduce(p, by * by), i, p)
  IN IF s <= i THEN -1 ELSE By(power_mod(c, 2 ^ (s - i - 1), p))
Shanks(r, n, c, s, p) == IF n <= 1 THEN r ELSE ShanksRound(r, n, c, s, Order2(n, p), p)
ressol(x, p) ==
  LET s == low_zero_bits(p - 1)
      q == (p \div 2 ^ s - 1) \div 2
      z == CHOOSE y \in 2 .. p - 1 : jacobi(y, p) # 1 /\ \A w \in 2 .. y - 1 : jacobi(w, p) = 1
      From(r) == Shanks(reduce(p, r * x), reduce(p, x * reduce(p, r * r)), power_mod(z, 2 * q + 1, p), s, p)
  IN IF x = 0 THEN 0
     ELSE IF p = 2 THEN x
     ELSE IF jacobi(x, p) # 1 THEN -1
     ELSE IF p % 4 = 3 THEN power_mod(x, (p + 1) \div 4, p)
     ELSE From(power_mod(x, q, p))

-----------------------------------------------------------------------------
(* Primes.                                                                 *)

simple_primality_tests(n) ==
  LET check_first == Min({bit_length(n) \div BitsPerProduct, Len(PRIME_PRODUCTS)})
  IN CASE n = 2 -> "PRIME"
       [] n # 2 /\ (n <= 1 \/ ~Odd(n)) -> "NOT_PRIME"
       [] Odd(n) /\ n \in 3 .. Last(PRIMES) ->
            IF \E i \in DOMAIN PRIMES : PRIMES[i] = n THEN "PRIME" ELSE "NOT_PRIME"
       [] OTHER -> IF \E i \in 1 .. check_first : gcd(n, PRIME_PRODUCTS[i]) # 1
                   THEN "NOT_PRIME" ELSE "UNKNOWN"

RECURSIVE Squares(_, _, _)
Squares(n, y, left) ==
  IF y = n - 1 THEN TRUE
  ELSE IF left = 0 \/ y = 1 THEN FALSE ELSE Squares(n, reduce(n, y * y), left - 1)
MillerRabin_passes_test(n, nonce) ==
  LET s == low_zero_bits(n - 1)
      From(y) == y = 1 \/ Squares(n, y, s - 1)
  IN From(CoreExecuted(CoreWithBase(Fixed_Exponent_Power_Mod((n - 1) \div 2 ^ s, n), nonce)))

miller_rabin_test_iterations(n, verify) ==
  LET fits == SelectSeq(TestIterations, LAMBDA t : bit_length(n) <= t[1])
  IN IF fits = <<>> THEN 2 ELSE IF verify THEN Head(fits)[2] ELSE Head(fits)[3]

(* The nonces are the primes of the table, one after the other, while they *)
(* are small enough. A nonce that fits is kept: a random one for good.     *)
Nonces(n, level, drawn) ==
  LET tests == miller_rabin_test_iterations(n, level = 2)
      table == {PRIMES[i] : i \in {j \in 1 .. tests : PRIMES[j] < n - 1}}
  IN IF level = 0 THEN {} ELSE IF level = 1 /\ table # {} THEN table ELSE {drawn}
passes_mr_tests(n, level, drawn) ==
  \A nonce \in {2} \cup Nonces(n, level, drawn) : MillerRabin_passes_test(n, nonce)
DrawnNonces(n) ==
  LET size == Min({bit_length(n) - 1, PREF_NONCE_BITS}) IN 2 ^ (size - 1) .. 2 ^ size - 1
run_primality_tests(n, level, drawn) ==
  LET After(simple) == IF simple = "UNKNOWN" THEN passes_mr_tests(n, level, drawn) ELSE simple = "PRIME"
  IN After(simple_primality_tests(n))

(* The first number after the drawn one, in steps of modulo, that passes;  *)
(* 0 if there is none of that many bits, and another one is drawn.         *)
Sieved(p, size) == \E i \in 1 .. Min({size \div 2, Len(PRIMES)}) : p % PRIMES[i] = 0
PrimeAfter(start, size, coprime, modulo) ==
  LET Lowest(found) == IF found = {} THEN 0 ELSE Min(found)
  IN Lowest({p \in start + 1 .. 2 ^ size - 1 :
               /\ (p - start) % modulo = 0
               /\ ~Sieved(p, size) /\ gcd(p - 1, coprime) = 1 /\ passes_mr_tests(p, 1, 2)})
random_prime(size, coprime, equiv, modulo, drawn) ==
  LET start == IF drawn % modulo = equiv THEN drawn ELSE drawn + (modulo - (drawn % modulo)) + equiv
  IN CASE size = 2 -> IF drawn = 1 THEN 2 ELSE 3
       [] size = 3 -> IF drawn = 1 THEN 5 ELSE 7
       [] size = 4 -> IF drawn = 1 THEN 11 ELSE 13
       [] OTHER -> PrimeAfter(start, size, coprime, modulo)
DrawnForPrime(size) ==                          \* its two highest bits and bit 0 are set
  IF size <= 4 THEN {0, 1} ELSE {p \in 3 * 2 ^ (size - 2) .. 2 ^ size - 1 : Odd(p)}

(* Tried again as long as twice the prime and one is not a prime.          *)
random_safe_prime(size, drawn) ==
  LET Tried(p) == IF run_primality_tests(p, 1, 2) THEN p ELSE 0
  IN Tried(2 * random_prime(size - 1, 1, 1, 2, drawn) + 1)

(* X is as good as random: it is hashed from the seed. 0 if it is no use.  *)
generate_dsa_p(pbits, q, X) ==
  LET Tried(p) == IF bit_length(p) = pbits /\ run_primality_tests(p, 1, 2) THEN p ELSE 0
  IN Tried(X - ((X % (2 * q)) - 1))

-----------------------------------------------------------------------------
(* Calls. Those of functions leave nothing behind: one is enough.          *)

Nothing == [op |-> "none", x |-> 0, y |-> 0, n |-> 0, z |-> 0]
NumberInit == core = NoCore /\ asked = [base |-> 0, exp |-> -1] /\ answer = Nothing

Idle == core = NoCore /\ answer = Nothing
Returns(op, x, y, n, z) ==
  /\ answer' = [op |-> op, x |-> x, y |-> y, n |-> n, z |-> z]
  /\ UNCHANGED <<core, asked>>

CallTwo(x, y) ==
  \/ Returns("gcd", x, y, 0, gcd(x, y)) \/ Returns("lcm", x, y, 0, lcm(x, y))
  \/ Returns("inverse_mod", x, 0, y, inverse_mod(x, y))
  \/ Odd(y) /\ y > 1 /\ Returns("jacobi", x, 0, y, jacobi(x, y))
  \/ y > 0 /\ \E z \in {x, -x, x * x, -(x * x), x * x * x} : Returns("reduce", z, 0, y, reduce(y, z))
  \/ x < y /\ PrimeByDefinition(y) /\ Returns("ressol", x, 0, y, ressol(x, y))
CallPrimality(n, level) ==
  \E drawn \in DrawnNonces(n) : Returns("prime", n, level, 0, run_primality_tests(n, level, drawn))
CallRandomPrime(size, modulo) ==
  \E drawn \in DrawnForPrime(size), coprime \in {1, 3, 5}, equiv \in {e \in 1 .. modulo : Odd(e)} :
    \E p \in {random_prime(size, coprime, equiv, modulo, drawn)} \ {0} :
      Returns("random_prime", size, [coprime |-> coprime, equiv |-> equiv], modulo, p)
CallSafePrime(size) ==
  \E drawn \in DrawnForPrime(size - 1) :
    \E p \in {random_safe_prime(size, drawn)} \ {0} : Returns("random_safe_prime", size, 0, 0, p)
CallDsaPrimes(pbits, q) ==
  \E X \in 2 ^ (pbits - 1) .. 2 ^ pbits - 1 :
    \E p \in {generate_dsa_p(pbits, q, X)} \ {0} : Returns("generate_dsa_primes", pbits, q, 0, p)

(* Power_Mod. Executed without a base it divides by a window of 0, and     *)
(* Montgomery's without an exponent reads an exp_bits never set: its users *)
(* always give both, in either order.                                      *)
SetModulus(n, hints) ==
  /\ answer = Nothing
  /\ core' = IF n = 0 THEN NoCore ELSE mod_exp(n, hints)
  /\ asked' = [base |-> 0, exp |-> -1] /\ UNCHANGED answer
SetBase(base) ==
  /\ core # NoCore
  /\ core' = CoreWithBase(core, base)
  /\ asked' = [asked EXCEPT !.base = base] /\ answer' = Nothing
SetExponent(exp) ==
  /\ core # NoCore
  /\ core' = CoreWithExponent(core, exp)
  /\ asked' = [asked EXCEPT !.exp = exp] /\ answer' = Nothing
Execute ==
  /\ core # NoCore /\ asked.base # 0 /\ asked.exp # -1 /\ answer = Nothing
  /\ answer' = [op |-> "power", x |-> asked.base, y |-> asked.exp, n |-> core.n, z |-> CoreExecuted(core)]
  /\ UNCHANGED <<core, asked>>

NumberNext ==
  \/ /\ Idle
     /\ \/ \E x, y \in Operands : CallTwo(x, y)
        \/ \E n \in Operands \ {0, 1}, level \in 0 .. 2 : CallPrimality(n, level)
        \/ \E size \in PrimeSizes, modulo \in {2, 4, 8} : CallRandomPrime(size, modulo)
        \/ \E size \in PrimeSizes \ {2} : CallSafePrime(size)
        \/ \E size \in PrimeSizes, q \in {3, 5, 7} : CallDsaPrimes(size, q)
  \/ \E n \in Moduli, hints \in HintSets : SetModulus(n, hints)
  \/ \E base \in Bases : SetBase(base)
  \/ \E exp \in Exponents : SetExponent(exp)
  \/ Execute

NumberSpec == NumberInit /\ [][NumberNext]_numberVars

-----------------------------------------------------------------------------
(* What is meant.                                                          *)

Divisors(x) == {d \in 1 .. x : x % d = 0}
GreatestCommonDivisor(x, y) == Max({d \in 1 .. Max({x, y}) : x % d = 0 /\ y % d = 0})
Legendre(x, p) ==
  IF x % p = 0 THEN 0 ELSE IF \E r \in 1 .. p - 1 : (r * r) % p = x % p THEN 1 ELSE -1
RECURSIVE JacobiSymbol(_, _)
JacobiSymbol(x, n) ==
  LET p == Min(Divisors(n) \ {1})
  IN IF n = 1 THEN 1 ELSE Legendre(x, p) * JacobiSymbol(x, n \div p)
RECURSIVE PowerOf(_, _, _)
PowerOf(x, e, n) == IF e = 0 THEN 1 % n ELSE (x * PowerOf(x, e - 1, n)) % n

Meant(x, y, n, z) ==
  CASE answer.op = "none" -> TRUE
    [] answer.op = "gcd" -> z = GreatestCommonDivisor(x, y)
    [] answer.op = "lcm" -> z * GreatestCommonDivisor(x, y) = x * y
    [] answer.op = "inverse_mod" ->
         IF GreatestCommonDivisor(x, n) = 1 THEN z \in 0 .. n - 1 /\ (x * z) % n = 1 % n ELSE z = 0
    [] answer.op = "jacobi" -> z = JacobiSymbol(x, n)
    [] answer.op = "reduce" -> z = x % n
    [] answer.op = "ressol" ->
         IF Legendre(x, n) = -1 /\ n # 2 THEN z = -1 ELSE z \in 0 .. n - 1 /\ (z * z) % n = x
    [] answer.op = "prime" -> z = PrimeByDefinition(x)
    [] answer.op = "random_prime" ->
         /\ PrimeByDefinition(z) /\ bit_length(z) = x
         /\ x > 4 => /\ z % n = y.equiv % n /\ GreatestCommonDivisor(z - 1, y.coprime) = 1
                     /\ z >= 3 * 2 ^ (x - 2)
    [] answer.op = "random_safe_prime" ->
         PrimeByDefinition(z) /\ PrimeByDefinition((z - 1) \div 2) /\ bit_length(z) = x
    [] answer.op = "generate_dsa_primes" ->
         PrimeByDefinition(z) /\ (z - 1) % y = 0 /\ bit_length(z) = x
    [] answer.op = "power" -> z = PowerOf(x, y, n)

(* The only answers that are not: gcd(0, n) is 0, lcm(0, n) divides by     *)
(* that, and a modulus of 0 is refused.                                    *)
NotDefined ==
  \/ answer.op \in {"gcd", "lcm"} /\ 0 \in {answer.x, answer.y}
  \/ answer.op = "inverse_mod" /\ answer.n = 0

(* Greatest common divisors, inverses, the Jacobi symbol, square roots,    *)
(* Barrett's remainder, primality and powers are those of the definitions, *)
(* whichever exponentiator, hints, window and order of set_base and        *)
(* set_exponent a power was asked with, and a random prime has the size    *)
(* and the remainders it was asked for.                                    *)
NumberTheoryIsRight == NotDefined \/ Meant(answer.x, answer.y, answer.n, answer.z)
=============================================================================
