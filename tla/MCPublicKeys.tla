----------------------------- MODULE MCPublicKeys -----------------------------
EXTENDS PublicKeys

MCPrimes == <<3, 5, 7, 11>>
MCProducts == <<15, 77>>
MCIterations == <<<<5, 3, 2>>, <<7, 2, 1>>>>
MCFixedWindows == <<<<6, 2>>, <<4, 1>>>>
MCMontgomeryWindows == <<<<6, 3>>, <<4, 1>>>>
MCOperands == 0 .. 32

Rsa(p, q, e, d) == [kind |-> "RSA", p |-> p, q |-> q, e |-> e, d |-> d]
(* Of these a wrong d, a p that is no prime, an e without an inverse and   *)
(* an x that exceeds q are refused.                                        *)
MCOffered ==
  {Rsa(5, 7, 5, 0), Rsa(5, 11, 3, 27), Rsa(5, 7, 5, 7), Rsa(5, 9, 5, 0), Rsa(7, 13, 3, 0),
   [kind |-> "RW", p |-> 11, q |-> 7, e |-> 2, d |-> 0]}
  \cup [kind : {"DSA", "NR"}, p : {23}, q : {11}, x : {3, 12}]
  \cup [kind : {"ElGamal", "DH"}, p : {23}, q : {11}, x : {4, 7}]
=============================================================================
