----------------------------- MODULE MCBlockModes -----------------------------
EXTENDS BlockModes

M(name, padder, feedback) == [name |-> name, padder |-> padder, FEEDBACK_SIZE |-> feedback]
MCModes ==
  {M(n, p, 1) : n \in {"ECB", "CBC"}, p \in {"PKCS7", "X9.23", "OneAndZeros", "NoPadding"}}
  \cup {M("CFB", "PKCS7", s) : s \in 1 .. BLOCK_SIZE}
  \cup {M(n, "PKCS7", 1) : n \in {"OFB", "CTR-BE", "CTS", "XTS", "EAX"}}
MCText == [k \in 1 .. 11 |-> IF k = 4 THEN Byte(128) ELSE IF k \in {5, 6} THEN {} ELSE {<<"text", k, 0>>}]
MCCounters == <<<<0, 2>>, <<3, 2>>>>
=============================================================================
