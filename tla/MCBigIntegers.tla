----------------------------- MODULE MCBigIntegers -----------------------------
EXTENDS BigIntegers

(* A number with n significant words, in a register of a given size.       *)
Number(neg, n, size, word(_)) ==
  [reg |-> [j \in 1 .. size |-> IF j <= n THEN word(j) ELSE 0], neg |-> neg]
Ones(j) == B - 1
Mixed(j) == (7 * j + 3) % B
MCNumbers ==
  {Number(FALSE, 0, 0, Ones), Number(TRUE, 1, 8, Ones), Number(FALSE, 1, 8, LAMBDA j : 4),
   Number(TRUE, 1, 8, LAMBDA j : 4), Number(TRUE, 2, 8, LAMBDA j : j - 1), Number(FALSE, 3, 8, Mixed),
   Number(FALSE, 5, 8, Mixed), Number(FALSE, 8, 8, Ones), Number(TRUE, 12, 24, Ones),
   Number(FALSE, 18, 24, Mixed)}
=============================================================================
