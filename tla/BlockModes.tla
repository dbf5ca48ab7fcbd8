------------------------------ MODULE BlockModes ------------------------------
(***************************************************************************)
(* The block cipher modes as filters: one that encrypts and one that       *)
(* decrypts what the first has sent, each given its input in pieces.       *)
(*                                                                         *)
(* A byte is the set of what has been xored into it. The empty set is 0;   *)
(* any other value is a sign equal to itself only. The cipher, the MAC and *)
(* the doubling of XTS's tweak yield signs of their own, so that outputs   *)
(* that agree here agree for every cipher. Counters are numbers.           *)
(***************************************************************************)
EXTENDS Integers, Sequences, SequencesExt

CONSTANTS
  BLOCK_SIZE,
  TAG_SIZE,               \* of EAX
  DEFAULT_BUFFERSIZE,     \* 4096 in EAX_Decryption's queue
  ByteValues,             \* 256 in a counter's byte
  Counters,               \* the counters that the IVs (or nonces) yield
  Modes,                  \* [name, padder, FEEDBACK_SIZE]
  Text,                   \* the bytes of all messages, one after the other
  MaxMessages             \* bound on the messages

ASSUME ModesAssumption ==
  /\ {BLOCK_SIZE, TAG_SIZE, DEFAULT_BUFFERSIZE, ByteValues} \subseteq Nat \ {0}
  /\ TAG_SIZE <= BLOCK_SIZE
  /\ Counters \in Seq([1 .. BLOCK_SIZE -> 0 .. ByteValues - 1])
  /\ MaxMessages <= Len(Counters)
  /\ \A m \in Modes :
       /\ m.name \in {"ECB", "CBC", "CFB", "OFB", "CTR-BE", "CTS", "XTS", "EAX"}
       /\ m.padder \in {"PKCS7", "X9.23", "OneAndZeros", "NoPadding"}
       /\ m.FEEDBACK_SIZE \in 1 .. BLOCK_SIZE

VARIABLES
  mode,
  number,         \* of this message
  iv,             \* how many IVs have been set
  chained,        \* this message goes on under the IV of an earlier one
  stole,          \* and one of those did not end with a full block
  begin,          \* where it begins in Text
  message,        \* what has been written of it
  enc, dec,       \* the two filters
  taken,          \* how much of what enc has sent dec has been given
  status

modeVars == <<mode, number, iv, chained, stole, begin, message, enc, dec, taken, status>>

-----------------------------------------------------------------------------
(* Bytes and the cipher.                                                   *)

Byte(v) == IF v = 0 THEN {} ELSE {<<"value", v, 0>>}
Zeros(n) == [i \in 1 .. n |-> {}]
Least(a, b) == IF a < b THEN a ELSE b
Taken(s, n) == SubSeq(s, 1, n)
Dropped(s, n) == SubSeq(s, n + 1, Len(s))
Blocks(s, n) == [k \in 1 .. n |-> SubSeq(s, (k - 1) * BLOCK_SIZE + 1, k * BLOCK_SIZE)]

Xor(a, b) == (a \ b) \cup (b \ a)
xor_buf(s, t) == [i \in 1 .. Len(t) |-> Xor(s[i], t[i])]
copy(buf, off, in) ==
  [i \in 1 .. Len(buf) |-> IF i \in off + 1 .. off + Len(in) THEN in[i - off] ELSE buf[i]]
XorAt(buf, off, in) == copy(buf, off, xor_buf(Dropped(buf, off), in))

encrypt(b) == [i \in 1 .. BLOCK_SIZE |-> {<<"E", b, i>>}]
decrypt(b) ==
  LET of == {a[2] : a \in {s \in b[1] : s[1] = "E"}}
      inverse == {x \in of : encrypt(x) = b}
  IN IF inverse = {} THEN [i \in 1 .. BLOCK_SIZE |-> {<<"D", b, i>>}]
     ELSE CHOOSE x \in inverse : TRUE
Crypted(decrypting, b) == IF decrypting THEN decrypt(b) ELSE encrypt(b)

Sign(name, what) == [i \in 1 .. BLOCK_SIZE |-> {<<name, what, i>>}]

-----------------------------------------------------------------------------
(* Padding. unpad's answer is the length of the data, -1 for an exception. *)
(* What is unpadded has been padded, so its last byte is not 0.            *)

padding(padder, position) ==
  LET n == BLOCK_SIZE - position
  IN CASE padder = "PKCS7" -> [i \in 1 .. n |-> Byte(n)]
       [] padder = "X9.23" -> [i \in 1 .. n |-> IF i = n THEN Byte(n) ELSE {}]
       [] padder = "OneAndZeros" -> [i \in 1 .. n |-> IF i = 1 THEN Byte(128) ELSE {}]
       [] padder = "NoPadding" -> <<>>

unpad(padder, block) ==
  LET counts(fill(_)) ==
        {n \in 1 .. BLOCK_SIZE : /\ block[BLOCK_SIZE] = Byte(n)
                                 /\ \A i \in BLOCK_SIZE - n + 1 .. BLOCK_SIZE - 1 : block[i] = fill(n)}
      data(ns) == IF ns = {} THEN -1 ELSE BLOCK_SIZE - (CHOOSE n \in ns : TRUE)
      marks == {k \in 1 .. BLOCK_SIZE :
                  block[k] = Byte(128) /\ \A i \in k + 1 .. BLOCK_SIZE : block[i] = {}}
  IN CASE padder = "PKCS7" -> data(counts(Byte))
       [] padder = "X9.23" -> data(counts(LAMBDA n : {}))
       [] padder = "OneAndZeros" -> IF marks = {} THEN -1 ELSE (CHOOSE k \in marks : TRUE) - 1
       [] padder = "NoPadding" -> BLOCK_SIZE

-----------------------------------------------------------------------------
(* Filters. What a filter sends is appended to out; refused is an          *)
(* exception of end_msg.                                                   *)

Sent(f, bytes) == [f EXCEPT !.out = @ \o bytes]
Refused(f) == [f EXCEPT !.refused = TRUE]
Unpadded(f, block) ==
  LET n == unpad(mode.padder, block) IN IF n = -1 THEN Refused(f) ELSE Sent(f, Taken(block, n))

(* ECB. Decryption holds back a full block, which may be the padded one.   *)
EcbWrite(f, in, decrypting, held) ==
  LET filled == copy(f.buffer, f.position, in)
      rest == Dropped(in, BLOCK_SIZE - f.position)
      n == (Len(rest) - held) \div BLOCK_SIZE
      One(g, block) == [Sent(g, Crypted(decrypting, block)) EXCEPT !.buffer = Crypted(decrypting, block)]
      g == FoldLeft(One, One(f, filled), Blocks(rest, n))
      left == Dropped(rest, n * BLOCK_SIZE)
  IN IF f.position + Len(in) < BLOCK_SIZE + held
     THEN [f EXCEPT !.buffer = filled, !.position = @ + Len(in)]
     ELSE [g EXCEPT !.buffer = copy(@, 0, left), !.position = Len(left)]

(* faulty variant: the block that may be padded is let go                  *)
EcbDecryptEagerly(f, in) == EcbWrite(f, in, TRUE, 0)

EcbEncrypt(f, in) == EcbWrite(f, in, FALSE, 0)
EcbDecrypt(f, in) == EcbWrite(f, in, TRUE, 1)

EcbDecryptEnd(f) ==
  IF f.position # BLOCK_SIZE THEN Refused(f)
  ELSE LET clear == decrypt(f.buffer)
       IN [Unpadded(f, clear) EXCEPT !.buffer = clear, !.state = clear, !.position = 0]

(* CBC.                                                                    *)
RECURSIVE CbcEncrypt(_, _)
CbcEncrypt(f, in) ==
  IF in = <<>> THEN f
  ELSE LET xored == Least(BLOCK_SIZE - f.position, Len(in))
           state == XorAt(f.state, f.position, Taken(in, xored))
           rest == Dropped(in, xored)
       IN IF f.position + xored # BLOCK_SIZE
          THEN CbcEncrypt([f EXCEPT !.state = state, !.position = @ + xored], rest)
          ELSE CbcEncrypt([Sent(f, encrypt(state)) EXCEPT !.state = encrypt(state), !.position = 0], rest)

CbcDecrypted(f) == xor_buf(decrypt(f.buffer), f.state)

RECURSIVE CbcDecrypt(_, _)
CbcDecrypt(f, in) ==
  IF in = <<>> THEN f
  ELSE LET g == IF f.position # BLOCK_SIZE THEN f
                ELSE [Sent(f, CbcDecrypted(f)) EXCEPT !.state = f.buffer, !.position = 0]
           added == Least(BLOCK_SIZE - g.position, Len(in))
       IN CbcDecrypt([g EXCEPT !.buffer = copy(@, g.position, Taken(in, added)), !.position = @ + added],
                     Dropped(in, added))

CbcDecryptEnd(f) ==
  IF f.position # BLOCK_SIZE THEN Refused(f)
  ELSE [Unpadded(f, CbcDecrypted(f)) EXCEPT !.state = f.buffer, !.position = 0]

(* CFB, in both directions.                                                *)
Feedback(f) ==
  LET state == Dropped(f.state, mode.FEEDBACK_SIZE) \o Taken(f.buffer, mode.FEEDBACK_SIZE)
  IN [f EXCEPT !.state = state, !.buffer = encrypt(state), !.position = 0]

RECURSIVE CfbWrite(_, _, _)
CfbWrite(f, in, decrypting) ==
  IF in = <<>> THEN f
  ELSE LET xored == Least(mode.FEEDBACK_SIZE - f.position, Len(in))
           now_in == Taken(in, xored)
           sent == xor_buf(Dropped(f.buffer, f.position), now_in)
           g == [Sent(f, sent) EXCEPT
                   !.buffer = copy(@, f.position, IF decrypting THEN now_in ELSE sent),
                   !.position = @ + xored]
       IN CfbWrite(IF g.position = mode.FEEDBACK_SIZE THEN Feedback(g) ELSE g,
                   Dropped(in, xored), decrypting)

CfbEncrypt(f, in) == CfbWrite(f, in, FALSE)
CfbDecrypt(f, in) == CfbWrite(f, in, TRUE)

(* OFB, CTR and EAX: a first piece, whole blocks, and what is left.        *)
StreamWrite(f, in, Part(_, _), Refill(_)) ==
  LET copied == Least(BLOCK_SIZE - f.position, Len(in))
      a == Part(f, Taken(in, copied))
      b == IF a.position = BLOCK_SIZE THEN Refill(a) ELSE a
      rest == Dropped(in, copied)
      n == Len(rest) \div BLOCK_SIZE
  IN Part(FoldLeft(LAMBDA g, block : Refill(Part(g, block)), b, Blocks(rest, n)),
          Dropped(rest, n * BLOCK_SIZE))

OfbPart(f, in) ==
  LET buffer == xor_buf(Dropped(f.state, f.position), in)
  IN [Sent(f, buffer) EXCEPT !.buffer = copy(@, 0, buffer), !.position = @ + Len(in)]
OfbRefill(f) == [f EXCEPT !.state = encrypt(@), !.position = 0]

CtrPart(f, in) ==
  LET sent == xor_buf(Dropped(f.buffer, f.position), in)
  IN [Sent(f, sent) EXCEPT !.buffer = copy(@, f.position, sent), !.position = @ + Len(in)]

(* faulty variant: no carry                                                *)
IncrementedNoCarry(c) == [c EXCEPT ![BLOCK_SIZE] = (@ + 1) % ByteValues]

Incremented(c) ==
  LET kept == {j \in 1 .. BLOCK_SIZE : c[j] # ByteValues - 1 /\
                                       \A i \in j + 1 .. BLOCK_SIZE : c[i] = ByteValues - 1}
  IN [j \in 1 .. BLOCK_SIZE |-> IF \E k \in kept : j < k THEN c[j] ELSE (c[j] + 1) % ByteValues]
CtrRefill(f) ==
  [f EXCEPT !.state = Incremented(@), !.buffer = encrypt(Incremented(f.state)), !.position = 0]

OfbWrite(f, in) == StreamWrite(f, in, OfbPart, OfbRefill)
CtrWrite(f, in) == StreamWrite(f, in, CtrPart, CtrRefill)

(* EAX. The MAC is what has been fed to it since its last final.           *)
EaxStart(f) == [f EXCEPT !.mac = @ \o Zeros(BLOCK_SIZE - 1) \o <<Byte(2)>>]
EaxTag(f) ==
  Taken(xor_buf(xor_buf(Sign("MAC", f.mac), Sign("nonce_mac", iv)), Sign("header_mac", 0)), TAG_SIZE)
EaxCleared(f) ==
  [f EXCEPT !.state = [j \in 1 .. BLOCK_SIZE |-> 0], !.buffer = Zeros(BLOCK_SIZE),
            !.position = 0, !.mac = <<>>]

EaxEncrypt(f, in) ==
  LET g == CtrWrite(f, in) IN [g EXCEPT !.mac = @ \o Dropped(g.out, Len(f.out))]
EaxEncryptEnd(f) == EaxCleared(Sent(f, EaxTag(f)))

EaxDoWrite(f, in) == CtrWrite([f EXCEPT !.mac = @ \o in], in)

RECURSIVE EaxDecrypt(_, _)
EaxDecrypt(f, in) ==
  IF in = <<>> THEN f
  ELSE LET n == Least(Len(in), Len(f.queue) - f.queue_end)
           queue == copy(f.queue, f.queue_end, Taken(in, n))
           end == f.queue_end + n
           removed == end - f.queue_start - TAG_SIZE
           g == IF removed <= 0 THEN f
                ELSE [EaxDoWrite(f, SubSeq(queue, f.queue_start + 1, f.queue_start + removed))
                        EXCEPT !.queue_start = @ + removed]
           tag == SubSeq(queue, g.queue_start + 1, end)
       IN EaxDecrypt(IF Len(tag) = TAG_SIZE /\ g.queue_start >= Len(queue) \div 2
                     THEN [g EXCEPT !.queue = copy(queue, 0, tag), !.queue_start = 0, !.queue_end = TAG_SIZE]
                     ELSE [g EXCEPT !.queue = queue, !.queue_end = end],
                     Dropped(in, n))

EaxDecryptEnd(f) ==
  IF SubSeq(f.queue, f.queue_start + 1, f.queue_end) # EaxTag(f) THEN Refused(f)
  ELSE [EaxCleared(f) EXCEPT !.queue_start = 0, !.queue_end = 0]

(* CTS and XTS hold back two blocks.                                       *)
HoldTwo(f, in, One(_, _)) ==
  LET copied == Least(2 * BLOCK_SIZE - f.position, Len(in))
      g == [f EXCEPT !.buffer = copy(@, f.position, Taken(in, copied)), !.position = @ + copied]
      rest == Dropped(in, copied)
      first == One(g, Taken(g.buffer, BLOCK_SIZE))
      second == Dropped(first.buffer, BLOCK_SIZE)
      n == (Len(rest) - 1) \div BLOCK_SIZE - 1
      both == FoldLeft(One, One(first, second), Blocks(rest, n))
      left == Dropped(rest, n * BLOCK_SIZE)
  IN IF rest = <<>> THEN g
     ELSE IF Len(rest) > BLOCK_SIZE
     THEN [both EXCEPT !.buffer = copy(@, 0, left), !.position = Len(left)]
     ELSE [first EXCEPT !.buffer = copy(second \o second, BLOCK_SIZE, rest),
                        !.position = BLOCK_SIZE + Len(rest)]

CtsEncryptBlock(f, block) ==
  LET state == encrypt(xor_buf(f.state, block)) IN [Sent(f, state) EXCEPT !.state = state]
CtsDecryptBlock(f, block) ==
  [Sent(f, xor_buf(decrypt(block), f.state)) EXCEPT !.state = block]

CtsEncrypt(f, in) == HoldTwo(f, in, CtsEncryptBlock)
CtsDecrypt(f, in) == HoldTwo(f, in, CtsDecryptBlock)

CtsEncryptEnd(f) ==
  LET cn == encrypt(xor_buf(f.state, Taken(f.buffer, BLOCK_SIZE)))
      buffer == copy(f.buffer, f.position, Zeros(2 * BLOCK_SIZE - f.position))
      g == CtsEncryptBlock([f EXCEPT !.state = cn, !.buffer = buffer], Dropped(buffer, BLOCK_SIZE))
  IN IF f.position < BLOCK_SIZE + 1 THEN Refused(f)
     ELSE Sent(g, Taken(cn, f.position - BLOCK_SIZE))

(* Only after a ciphertext of more than a block: position is not checked.  *)
CtsDecryptEnd(f) ==
  LET n == f.position - BLOCK_SIZE
      temp == decrypt(Taken(f.buffer, BLOCK_SIZE))
      xn == XorAt(temp, 0, SubSeq(f.buffer, BLOCK_SIZE + 1, f.position))
      buffer == copy(f.buffer, f.position, Dropped(xn, n))
      last == xor_buf(decrypt(Dropped(buffer, BLOCK_SIZE)), f.state)
  IN [Sent(f, last \o Taken(xn, n)) EXCEPT !.buffer = buffer]

(* The tweak is the IV it comes from, encrypted and doubled n times.       *)
Tweak(t) == Sign("tweak", t)
poly_double(t) == [t EXCEPT !.n = @ + 1]

Tweaked(decrypting, block, t) ==
  xor_buf(Crypted(decrypting, xor_buf(block, Tweak(t))), Tweak(t))
XtsBlock(f, block, decrypting) ==
  LET b == Tweaked(decrypting, block, f.state)
  IN [Sent(f, b) EXCEPT !.buffer = copy(@, 0, b), !.state = poly_double(@)]
XtsEncrypt(f, in) == HoldTwo(f, in, LAMBDA g, block : XtsBlock(g, block, FALSE))
XtsDecrypt(f, in) == HoldTwo(f, in, LAMBDA g, block : XtsBlock(g, block, TRUE))

(* Ciphertext stealing, under the tweaks t and u of the two blocks.        *)
XtsSteal(f, decrypting, t, u) ==
  LET n == f.position - BLOCK_SIZE
      once == Tweaked(decrypting, Taken(f.buffer, BLOCK_SIZE), t)
      swapped == copy(once, 0, SubSeq(f.buffer, BLOCK_SIZE + 1, f.position))
      buffer == Tweaked(decrypting, swapped, u) \o copy(Dropped(f.buffer, BLOCK_SIZE), 0, Taken(once, n))
  IN [Sent(f, Taken(buffer, f.position)) EXCEPT !.buffer = buffer]

XtsEnd(f, decrypting, stolen) ==
  LET one == XtsBlock(f, Taken(f.buffer, BLOCK_SIZE), decrypting)
      g == IF f.position = BLOCK_SIZE THEN one
           ELSE IF f.position = 2 * BLOCK_SIZE
           THEN XtsBlock(one, Dropped(one.buffer, BLOCK_SIZE), decrypting)
           ELSE stolen
  IN IF f.position < BLOCK_SIZE THEN Refused(f) ELSE [g EXCEPT !.position = 0]

XtsEncryptEnd(f) ==
  LET stolen == XtsSteal(f, FALSE, f.state, poly_double(f.state))
  IN XtsEnd(f, FALSE, [stolen EXCEPT !.state = poly_double(@)])
XtsDecryptEnd(f) ==
  XtsEnd(f, TRUE, XtsSteal(f, TRUE, poly_double(f.state), f.state))

-----------------------------------------------------------------------------
(* The filters of each mode.                                               *)

(* write, of the filter that encrypts and of the one that decrypts. *)
EncryptWrite(f, in) ==
  CASE mode.name = "ECB" -> EcbEncrypt(f, in)
    [] mode.name = "CBC" -> CbcEncrypt(f, in)
    [] mode.name = "CFB" -> CfbEncrypt(f, in)
    [] mode.name = "OFB" -> OfbWrite(f, in)
    [] mode.name = "CTR-BE" -> CtrWrite(f, in)
    [] mode.name = "CTS" -> CtsEncrypt(f, in)
    [] mode.name = "XTS" -> XtsEncrypt(f, in)
    [] mode.name = "EAX" -> EaxEncrypt(f, in)
DecryptWrite(f, in) ==
  CASE mode.name = "ECB" -> EcbDecrypt(f, in)
    [] mode.name = "CBC" -> CbcDecrypt(f, in)
    [] mode.name = "CFB" -> CfbDecrypt(f, in)
    [] mode.name = "OFB" -> OfbWrite(f, in)
    [] mode.name = "CTR-BE" -> CtrWrite(f, in)
    [] mode.name = "CTS" -> CtsDecrypt(f, in)
    [] mode.name = "XTS" -> XtsDecrypt(f, in)
    [] mode.name = "EAX" -> EaxDecrypt(f, in)

(* end_msg. The padding is written; what it does not fill is an exception. *)
PaddedEnd(f) ==
  LET g == EncryptWrite(f, padding(mode.padder, f.position))
  IN IF g.position # 0 THEN Refused(g) ELSE g
EncryptEnd(f) ==
  CASE mode.name \in {"ECB", "CBC"} -> PaddedEnd(f)
    [] mode.name = "CTS" -> CtsEncryptEnd(f)
    [] mode.name = "XTS" -> XtsEncryptEnd(f)
    [] mode.name = "EAX" -> EaxEncryptEnd(f)
    [] OTHER -> f
DecryptEnd(f) ==
  CASE mode.name = "ECB" -> EcbDecryptEnd(f)
    [] mode.name = "CBC" -> CbcDecryptEnd(f)
    [] mode.name = "CTS" -> CtsDecryptEnd(f)
    [] mode.name = "XTS" -> XtsDecryptEnd(f)
    [] mode.name = "EAX" -> EaxDecryptEnd(f)
    [] OTHER -> f

IV(v) == Sign("IV", v)
BufferSize(m) == IF m.name \in {"CTS", "XTS"} THEN 2 * BLOCK_SIZE ELSE BLOCK_SIZE

(* The v-th IV is set. XTS and EAX leave what has been buffered alone.     *)
WithIv(f, v) ==
  LET clear == [f EXCEPT !.buffer = Zeros(Len(@)), !.position = 0]
  IN CASE mode.name \in {"CBC", "CTS"} -> [clear EXCEPT !.state = IV(v)]
       [] mode.name = "CFB" -> [clear EXCEPT !.state = IV(v), !.buffer = encrypt(IV(v))]
       [] mode.name = "OFB" -> [clear EXCEPT !.state = encrypt(IV(v))]
       [] mode.name = "CTR-BE" -> [clear EXCEPT !.state = Counters[v], !.buffer = encrypt(Counters[v])]
       [] mode.name = "XTS" -> [f EXCEPT !.state = [iv |-> v, n |-> 0]]
       [] mode.name = "EAX" -> [f EXCEPT !.state = Counters[v], !.buffer = encrypt(Counters[v])]
       [] mode.name = "ECB" -> f

NewFilter(m) ==
  [position |-> 0, state |-> <<>>, buffer |-> Zeros(BufferSize(m)), mac |-> <<>>,
   queue |-> Zeros(2 * TAG_SIZE + DEFAULT_BUFFERSIZE), queue_start |-> 0, queue_end |-> 0,
   out |-> <<>>, refused |-> FALSE]

Started(f) == LET g == [f EXCEPT !.out = <<>>] IN IF mode.name = "EAX" THEN EaxStart(g) ELSE g

-----------------------------------------------------------------------------
(* Calls.                                                                  *)

ModesInit ==
  /\ mode \in Modes
  /\ number = 0 /\ iv = 1 /\ chained = FALSE /\ stole = FALSE /\ begin = 0 /\ message = <<>> /\ taken = 0
  /\ enc = WithIv(NewFilter(mode), 1) /\ dec = enc
  /\ status = "new"

(* After an exception the filters are usable again once they have an IV.   *)
StartMsg(new_iv) ==
  /\ status \in {"new", "received", "refused"} /\ number < MaxMessages
  /\ new_iv => status # "new" /\ mode.name # "ECB"
  /\ status = "refused" => new_iv /\ mode.name \notin {"XTS", "EAX"}
  /\ iv' = IF new_iv THEN iv + 1 ELSE iv
  /\ enc' = Started(IF new_iv THEN WithIv(enc, iv') ELSE enc)
  /\ dec' = Started([IF new_iv THEN WithIv(dec, iv') ELSE dec EXCEPT !.refused = FALSE])
  /\ chained' = (~new_iv /\ status # "new")
  /\ stole' = (~new_iv /\ (stole \/ Len(message) % BLOCK_SIZE # 0))
  /\ number' = number + 1 /\ begin' = begin + Len(message)
  /\ message' = <<>> /\ taken' = 0 /\ status' = "open"
  /\ UNCHANGED mode

Write(n) ==
  /\ status = "open" /\ begin + Len(message) + n <= Len(Text)
  /\ LET at == begin + Len(message)
         in == SubSeq(Text, at + 1, at + n)
     IN /\ message' = message \o in
        /\ enc' = EncryptWrite(enc, in)
  /\ UNCHANGED <<mode, number, iv, chained, stole, begin, dec, taken, status>>

EndMsg ==
  /\ status = "open"
  /\ LET g == EncryptEnd(enc)
     IN /\ enc' = [g EXCEPT !.refused = FALSE]
        /\ status' = IF g.refused THEN "refused" ELSE "ended"
  /\ UNCHANGED <<mode, number, iv, chained, stole, begin, message, dec, taken>>

Receive(n) ==
  /\ status \in {"open", "ended"} /\ taken + n <= Len(enc.out)
  /\ dec' = DecryptWrite(dec, SubSeq(enc.out, taken + 1, taken + n))
  /\ taken' = taken + n
  /\ UNCHANGED <<mode, number, iv, chained, stole, begin, message, enc, status>>

EndReceive ==
  /\ status = "ended" /\ taken = Len(enc.out)
  /\ dec' = DecryptEnd(dec)
  /\ status' = IF dec'.refused THEN "refused" ELSE "received"
  /\ UNCHANGED <<mode, number, iv, chained, stole, begin, message, enc, taken>>

ModesNext ==
  \/ \E new_iv \in BOOLEAN : StartMsg(new_iv)
  \/ \E n \in 0 .. Len(Text) : Write(n)
  \/ EndMsg
  \/ \E n \in 0 .. Len(Text) + 2 * BLOCK_SIZE : Receive(n)
  \/ EndReceive

ModesSpec == ModesInit /\ [][ModesNext]_modeVars

-----------------------------------------------------------------------------
(* The modes as their standards define them, of a whole text p under the   *)
(* v-th IV: the k-th block, or the i-th byte, at once.                     *)

Count(p) == (Len(p) + BLOCK_SIZE - 1) \div BLOCK_SIZE
Part(p, k) == SubSeq(p, (k - 1) * BLOCK_SIZE + 1, Least(k * BLOCK_SIZE, Len(p)))
Padded(p) == p \o padding(mode.padder, Len(p) % BLOCK_SIZE)
Filled(b) == b \o Zeros(BLOCK_SIZE - Len(b))
Joined(blocks) == FoldLeft(LAMBDA s, b : s \o b, <<>>, blocks)

CbcBlocks(p, v) ==
  LET c[k \in 0 .. Count(p)] ==
        IF k = 0 THEN IV(v) ELSE encrypt(xor_buf(c[k - 1], Filled(Part(p, k))))
  IN [k \in 1 .. Count(p) |-> c[k]]

StealCts(p, v) ==
  LET c == CbcBlocks(p, v)
      n == Count(p)
  IN Joined(Taken(c, n - 2) \o <<c[n]>>) \o Taken(c[n - 1], Len(Part(p, n)))

StealXts(p, v) ==
  LET n == Count(p)
      r == Len(Part(p, n))
      Crypt(b, k) == Tweaked(FALSE, b, [iv |-> v, n |-> k - 1])
      c == [k \in 1 .. n |-> IF k < n \/ r = BLOCK_SIZE THEN Crypt(Part(p, k), k) ELSE <<>>]
  IN IF r = BLOCK_SIZE THEN Joined(c)
     ELSE Joined(Taken(c, n - 2)) \o Crypt(Part(p, n) \o Dropped(c[n - 1], r), n) \o Taken(c[n - 1], r)

CfbText(p, v) ==
  LET s == mode.FEEDBACK_SIZE
      segments == (Len(p) + s - 1) \div s
      register[k \in 0 .. segments] ==
        IF k = 0 THEN IV(v)
        ELSE Dropped(register[k - 1], s)
             \o xor_buf(encrypt(register[k - 1]), SubSeq(p, (k - 1) * s + 1, Least(k * s, Len(p))))
  IN [i \in 1 .. Len(p) |-> Xor(p[i], encrypt(register[(i - 1) \div s])[((i - 1) % s) + 1])]

(* The keystream: OFB's feeds on itself, a counter is a number.            *)
Ofb(v, k) ==
  LET o[j \in 0 .. k] == IF j = 0 THEN IV(v) ELSE encrypt(o[j - 1]) IN o[k]
Counter(v, k) ==
  LET value == FoldLeft(LAMBDA x, d : x * ByteValues + d, 0, Counters[v]) + k - 1
  IN encrypt([j \in 1 .. BLOCK_SIZE |-> (value \div ByteValues ^ (BLOCK_SIZE - j)) % ByteValues])
Streamed(p, Key(_)) ==
  [i \in 1 .. Len(p) |-> Xor(p[i], Key((i - 1) \div BLOCK_SIZE + 1)[((i - 1) % BLOCK_SIZE) + 1])]

Standard(p, v) ==
  LET ctr == Streamed(p, LAMBDA k : Counter(v, k))
  IN CASE mode.name = "ECB" -> Joined([k \in 1 .. Count(Padded(p)) |-> encrypt(Part(Padded(p), k))])
       [] mode.name = "CBC" -> Joined(CbcBlocks(Padded(p), v))
       [] mode.name = "CFB" -> CfbText(p, v)
       [] mode.name = "OFB" -> Streamed(p, LAMBDA k : Ofb(v, k))
       [] mode.name = "CTR-BE" -> ctr
       [] mode.name = "CTS" -> StealCts(p, v)
       [] mode.name = "XTS" -> StealXts(p, v)
       [] mode.name = "EAX" -> ctr \o EaxTag([mac |-> Zeros(BLOCK_SIZE - 1) \o <<Byte(2)>> \o ctr])

-----------------------------------------------------------------------------
(* Properties.                                                             *)

SendsAtOnce == mode.name \in {"CFB", "OFB", "CTR-BE"}

(* However a message is cut into writes, what the filter has sent when it  *)
(* ends is what the mode makes of the whole: nothing held back is lost,    *)
(* sent twice or out of place (checks/validate.cpp:228-241 tries random    *)
(* cuts). A stream mode has sent all of it at any time. end_msg refuses    *)
(* only what is too short for the mode, or not padded to a full block.     *)
ModeIsStandard ==
  /\ ~chained /\ (status \in {"ended", "received"} \/ (SendsAtOnce /\ status = "open")) =>
       enc.out = Standard(message, iv)
  /\ status = "refused" =>
       \/ mode.name = "CTS" /\ Len(message) <= BLOCK_SIZE
       \/ mode.name = "XTS" /\ Len(message) < BLOCK_SIZE
       \/ mode.padder = "NoPadding" /\ (Len(message) % BLOCK_SIZE # 0 \/ message = <<>>)

(* What comes out of the filter that decrypts is the message: at any time  *)
(* a prefix of it, in the end all of it, however the ciphertext is cut.    *)
(* So it is for a message that goes on with the state an earlier one left, *)
(* except in CTS, which keeps its buffer, and after a block was stolen in  *)
(* XTS: encryption has then doubled the tweak, decryption a copy of it.    *)
RoundTrip ==
  ~(chained /\ (mode.name = "CTS" \/ (mode.name = "XTS" /\ stole))) =>
    /\ IsPrefix(dec.out, message)
    /\ status = "received" => dec.out = message
=============================================================================
