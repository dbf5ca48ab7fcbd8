------------------------------- MODULE PublicKeys -------------------------------
(***************************************************************************)
(* RSA, Rabin-Williams, DSA, Nyberg-Rueppel, ElGamal and Diffie-Hellman    *)
(* over NumberTheory: a private key, its public half, and the partner that *)
(* has the public half only. What remains from call to call is the pair of *)
(* the key's Blinder, squared by every private operation.                  *)
(*                                                                         *)
(* Paddings and encodings are outside: a message is the number that they   *)
(* make of it. An exception is the result Throws.                          *)
(***************************************************************************)
EXTENDS NumberTheory

CONSTANTS
  BLINDING_BITS,
  Offered,                \* the keys a program loads: IF keys [kind, p, q, e, d],
                          \* DL keys [kind, p, q, x]
  EphemeralKeys           \* exponents of ElGamal's sender and of DH's partner

ASSUME KeyAssumption == BLINDING_BITS \in Nat \ {0} /\ EphemeralKeys \subseteq Nat \ {0}

VARIABLES key, blinder, last

keyVars == <<key, blinder, last>>

IfKinds == {"RSA", "RW"}
NoKey == [kind |-> "none"]
NoSignature == <<Throws, Throws>>
NoBlinder == [e |-> 0, d |-> 0]
RandomOf(size) == 2 ^ (size - 1) .. 2 ^ size - 1         \* the highest bit is set
check_prime(n) == run_primality_tests(n, 0, 2)

-----------------------------------------------------------------------------
(* Powers and blinding.                                                    *)

powermod_exp(exp, n, base) ==
  IF base = 0 THEN Throws ELSE CoreExecuted(CoreWithBase(Fixed_Exponent_Power_Mod(exp, n), base))
powermod_base(base, n, exp) == CoreExecuted(CoreWithExponent(Fixed_Base_Power_Mod(base, n), exp))

(* faulty variant: of the pair only the blinding number is squared         *)
blind_half(pair, n, i) ==
  LET With(squared) == [e |-> squared, d |-> pair.d, i |-> reduce(n, i * squared)]
  IN With(reduce(n, pair.e * pair.e))
blind(pair, n, i) ==
  LET With(squared) == [e |-> squared, d |-> reduce(n, pair.d * pair.d), i |-> reduce(n, i * squared)]
  IN With(reduce(n, pair.e * pair.e))
unblind(pair, n, i) == IF i = Throws THEN Throws ELSE reduce(n, i * pair.d)

-----------------------------------------------------------------------------
(* Loading a key.                                                          *)

make_dsa_generator(p, q) ==
  LET OfOrder(powers) == Head(SelectSeq(powers, LAMBDA g : g # 1))
  IN OfOrder([j \in DOMAIN PRIMES |-> power_mod(PRIMES[j], (p - 1) \div q, p)])

OrderOf(k) == lcm(k.p - 1, k.q - 1) \div (IF k.kind = "RSA" THEN 1 ELSE 2)
IfKey(k) ==
  LET With(d) ==
        [kind |-> k.kind, p |-> k.p, q |-> k.q, n |-> k.p * k.q, e |-> k.e, d |-> d,
         d1 |-> d % (k.p - 1), d2 |-> d % (k.q - 1), c |-> inverse_mod(k.q, k.p)]
  IN With(IF k.d = 0 THEN inverse_mod(k.e, OrderOf(k)) ELSE k.d)
DlKey(k) ==
  LET With(g) ==
        [kind |-> k.kind, p |-> k.p, q |-> k.q, g |-> g, x |-> k.x, n |-> k.p, y |-> power_mod(g, k.x, k.p)]
  IN With(make_dsa_generator(k.p, k.q))

IfKeyChecks(k) ==
  /\ k.n >= 35 /\ Odd(k.n) /\ k.e >= 2 /\ k.d >= 2 /\ k.p >= 3 /\ k.q >= 3
  /\ check_prime(k.p) /\ check_prime(k.q)
  /\ (k.e * k.d) % OrderOf(k) = 1
verify_group(k) == k.g >= 2 /\ k.p >= 3 /\ (k.p - 1) % k.q = 0 /\ check_prime(k.p) /\ check_prime(k.q)
DlKeyChecks(k) ==
  /\ k.y >= 2 /\ k.y < k.p /\ k.x >= 2 /\ k.x < k.p
  /\ verify_group(k)
  /\ k.kind \in {"DSA", "NR"} => k.x < k.q

(* The pair a Blinder is made with; DSA and NR have none.                  *)
BlinderPair(k, r) ==
  CASE k.kind \in IfKinds -> [e |-> power_mod(r, k.e, k.n), d |-> inverse_mod(r, k.n)]
    [] k.kind = "ElGamal" -> [e |-> r, d |-> power_mod(r, k.x, k.p)]
    [] k.kind = "DH" -> [e |-> r, d |-> power_mod(inverse_mod(r, k.p), k.x, k.p)]
    [] OTHER -> NoBlinder

(* A key that fails its checks, or whose blinder cannot be made, throws    *)
(* out of the constructor: there is no key.                                *)
LoadKey(offer) ==
  \E k \in {IF offer.kind \in IfKinds THEN IfKey(offer) ELSE DlKey(offer)} :
    /\ IF k.kind \in IfKinds THEN IfKeyChecks(k) ELSE DlKeyChecks(k)
    /\ \E r \in RandomOf(Min({bit_length(k.n) - 1, BLINDING_BITS})) :
         \E pair \in {BlinderPair(k, r)} :
           /\ k.kind \in {"DSA", "NR"} \/ (pair.e >= 1 /\ pair.d >= 1)
           /\ key' = k /\ blinder' = pair /\ UNCHANGED last

-----------------------------------------------------------------------------
(* Calls.                                                                  *)

Result(op, in, out) == last' = [op |-> op, in |-> in, out |-> out] /\ UNCHANGED key
KeepsBlinder == UNCHANGED blinder

(* A private operation is blinded; the pair is squared even if it throws.  *)
Blinded(i) == {blind(blinder, key.n, i)}
KeepsSquared(now) == blinder' = [e |-> now.e, d |-> now.d]

(* RSA and RW: by the Chinese remainder theorem; mul_add refuses to add 0. *)
if_private_op(i) ==
  LET From(j1, j2) == IF j2 = 0 THEN Throws ELSE reduce(key.p, (j1 - j2) * key.c) * key.q + j2
  IN IF i = 0 THEN Throws ELSE From(powermod_exp(key.d1, key.p, i), powermod_exp(key.d2, key.q, i))
private_op(now) == unblind(now, key.n, if_private_op(now.i))
if_public_op(i) == powermod_exp(key.e, key.n, i)

RsaPublic(i) ==
  /\ key.kind = "RSA" /\ i < key.n
  /\ Result("RSA public", i, if_public_op(i)) /\ KeepsBlinder
RsaChecked(i, r) == IF r = Throws \/ if_public_op(r) # i THEN Throws ELSE r
RsaPrivate(i) ==
  /\ key.kind = "RSA" /\ i < key.n
  /\ \E now \in Blinded(i) :
       KeepsSquared(now) /\ Result("RSA private", i, RsaChecked(i, private_op(now)))

RwUntweaked(r) ==
  CASE r % 16 = 12 -> r
    [] r % 8 = 6 -> 2 * r
    [] OTHER -> Throws
rw_public_op(i) ==
  LET From(r) == IF RwUntweaked(r) # Throws THEN RwUntweaked(r) ELSE RwUntweaked(key.n - r)
  IN IF i > key.n \div 2 \/ i = 0 THEN Throws ELSE From(if_public_op(i))
RwChecked(i, r) ==
  IF r = Throws \/ rw_public_op(Min({r, key.n - r})) # i THEN Throws ELSE Min({r, key.n - r})
RwSign(i) ==
  /\ key.kind = "RW" /\ i < key.n /\ i % 16 = 12
  /\ \E now \in Blinded(IF jacobi(i, key.n) = 1 THEN i ELSE i \div 2) :
       KeepsSquared(now) /\ Result("RW sign", i, RwChecked(i, private_op(now)))
RwVerify ==
  /\ last.op = "RW sign" /\ last.out # Throws
  /\ Result("RW verify", last.in, rw_public_op(last.out)) /\ KeepsBlinder

DsaSign(i) ==
  \E k \in {n \in RandomOf(bit_length(key.q)) : n < key.q} :
    \E r \in {reduce(key.q, powermod_base(key.g, key.p, k))} :
      \E s \in {reduce(key.q, inverse_mod(k, key.q) * (key.x * r + i))} :
        /\ Result("DSA sign", [i |-> i, k |-> k], IF i = 0 \/ r = 0 \/ s = 0 THEN NoSignature ELSE <<r, s>>)
        /\ KeepsBlinder
dsa_verify(i, sig) ==
  LET With(w) == reduce(key.p, powermod_base(key.g, key.p, reduce(key.q, w * i))
                               * powermod_base(key.y, key.p, reduce(key.q, w * sig[1])))
  IN /\ sig[1] \in 1 .. key.q - 1 /\ sig[2] \in 1 .. key.q - 1
     /\ reduce(key.q, With(inverse_mod(sig[2], key.q))) = sig[1]
DsaVerify(i, sig) ==
  Result("DSA verify", [i |-> i, sig |-> sig], dsa_verify(i, sig)) /\ KeepsBlinder

NrSign(f) ==
  /\ f < key.q
  /\ \E k \in {n \in RandomOf(bit_length(key.q)) : n < key.q} :
       \E c \in {reduce(key.q, powermod_base(key.g, key.p, k) + f)} :
         /\ Result("NR sign", [f |-> f, k |-> k], IF c = 0 THEN NoSignature ELSE <<c, reduce(key.q, k - key.x * c)>>)
         /\ KeepsBlinder
NrVerify ==
  /\ last.op = "NR sign" /\ last.out # NoSignature
  /\ Result("NR verify", last.in.f,
            reduce(key.q, last.out[1] - reduce(key.p, powermod_base(key.g, key.p, last.out[2])
                                                      * powermod_base(key.y, key.p, last.out[1]))))
  /\ KeepsBlinder

ElGamalEncrypt(m, k) ==
  /\ key.kind = "ElGamal" /\ m < key.p
  /\ Result("ElGamal encrypt", m, [a |-> powermod_base(key.g, key.p, k),
                                   b |-> reduce(key.p, m * powermod_base(key.y, key.p, k))])
  /\ KeepsBlinder
elg_decrypt(a, b) == reduce(key.p, b * inverse_mod(powermod_exp(key.x, key.p, a), key.p))
ElGamalDecrypt ==
  /\ last.op = "ElGamal encrypt"
  /\ \E now \in Blinded(last.out.a) :
       /\ KeepsSquared(now)
       /\ Result("ElGamal decrypt", last.in, unblind(now, key.n, elg_decrypt(now.i, last.out.b)))

DhDeriveKey(x2) ==
  \E w \in {power_mod(key.g, x2, key.p)} :
    /\ key.kind = "DH" /\ w > 1 /\ w < key.p - 1
    /\ \E now \in Blinded(w) :
         /\ KeepsSquared(now)
         /\ Result("DH derive_key", x2, unblind(now, key.n, powermod_exp(key.x, key.p, now.i)))

(* The results of a call are dropped before the next one that needs none.  *)
NoCall == [op |-> "none", in |-> 0, out |-> 0]
Drop == last # NoCall /\ last' = NoCall /\ UNCHANGED <<key, blinder>>

KeysInit == key = NoKey /\ blinder = NoBlinder /\ last = NoCall
FirstCall ==
  \/ key.kind = "RSA" /\ \E i \in 0 .. key.n - 1 : RsaPublic(i) \/ RsaPrivate(i)
  \/ key.kind = "RW" /\ \E i \in 0 .. key.n - 1 : RwSign(i)
  \/ key.kind = "DSA" /\ \E i \in 0 .. 2 ^ bit_length(key.q) - 1 :
       DsaSign(i) \/ \E r, s \in 0 .. key.q : DsaVerify(i, <<r, s>>)
  \/ key.kind = "NR" /\ \E f \in 0 .. key.q - 1 : NrSign(f)
  \/ key.kind = "ElGamal" /\ \E m \in 0 .. key.p - 1, k \in EphemeralKeys : ElGamalEncrypt(m, k)
  \/ key.kind = "DH" /\ \E x2 \in EphemeralKeys : DhDeriveKey(x2)
CallOfPartner ==
  \/ RwVerify
  \/ /\ last.op = "DSA sign" /\ last.out # NoSignature
     /\ \E i \in 0 .. 2 ^ bit_length(key.q) - 1 : DsaVerify(i, last.out)
  \/ NrVerify
  \/ ElGamalDecrypt

KeysNext ==
  \/ key = NoKey /\ \E offer \in Offered : LoadKey(offer)
  \/ last = NoCall /\ FirstCall
  \/ CallOfPartner
  \/ Drop

KeysSpec == KeysInit /\ [][KeysNext]_keyVars

-----------------------------------------------------------------------------
(* What is meant.                                                          *)

(* The signature's r is what g and y yield with the inverse w of its s.    *)
DsaHolds(i, sig) ==
  /\ sig[1] \in 1 .. key.q - 1
  /\ \E w \in 1 .. key.q - 1 :
    /\ (w * sig[2]) % key.q = 1
    /\ ((PowerOf(key.g, w * i, key.p) * PowerOf(key.y, w * sig[1], key.p)) % key.p) % key.q = sig[1]

(* However often the key has been used before, and whatever its blinder    *)
(* was made with: what one operation of a key makes its counterpart takes  *)
(* back, and two parties of a key agreement get the same. The exceptions   *)
(* are the ones the code raises: a 0 cannot be raised to a power, nor      *)
(* added by mul_add (so RSA and RW throw for a multiple of q, DSA for the  *)
(* message 0), and an r, s or c of 0 is refused.                           *)
PartnersAgree ==
  CASE last.op = "none" -> TRUE
    [] last.op = "RSA public" -> last.out = (IF last.in = 0 THEN Throws ELSE PowerOf(last.in, key.e, key.n))
    [] last.op = "RSA private" ->
         IF last.in % key.q = 0 THEN last.out = Throws
         ELSE last.out \in 0 .. key.n - 1 /\ PowerOf(last.out, key.e, key.n) = last.in
    [] last.op = "RW sign" -> last.out = Throws <=> last.in % key.q = 0
    [] last.op = "RW verify" -> last.out = last.in
    [] last.op = "DSA sign" ->
         LET r == PowerOf(key.g, last.in.k, key.p) % key.q
         IN IF last.in.i = 0 \/ r = 0 \/ (last.in.i + key.x * r) % key.q = 0 THEN last.out = NoSignature
            ELSE last.out # NoSignature /\ DsaHolds(last.in.i, last.out)
    [] last.op = "DSA verify" -> last.out = DsaHolds(last.in.i, last.in.sig)
    [] last.op = "NR sign" ->
         last.out = NoSignature <=> (PowerOf(key.g, last.in.k, key.p) + last.in.f) % key.q = 0
    [] last.op = "NR verify" -> last.out = last.in
    [] last.op = "ElGamal encrypt" -> last.out.a # 0
    [] last.op = "ElGamal decrypt" -> last.out = last.in
    [] last.op = "DH derive_key" -> last.out = PowerOf(key.y, last.in, key.p)
=============================================================================
