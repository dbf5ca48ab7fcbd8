--------------------------- MODULE MCRevocations ---------------------------
(* Two CAs whose lists have no key identifier, and a certificate of the    *)
(* first whose issuer is written in another way: the three values are, in  *)
(* the order of their bytes, "ROOT", "Ring" and "root".                    *)
EXTENDS X509Store

ROOT == 1
Ring == 2
root == 3
MCFolded == [v \in 1 .. 3 |-> IF v = root THEN ROOT ELSE v]
CommonName(value) == <<[oid |-> 3, value |-> value]>>

CA(value, key) ==
  [subject |-> CommonName(value), issuer |-> CommonName(value), skid |-> 0, akid |-> 0,
   key |-> key, signer |-> key, ca |-> TRUE, limit |-> 3, start |-> 0, end |-> 2,
   uses |-> {"CRL_SIGNING"}, serial |-> 7]
User(serial) ==
  [subject |-> <<>>, issuer |-> CommonName(root), skid |-> 0, akid |-> 0,
   key |-> 9, signer |-> 1, ca |-> FALSE, limit |-> 0, start |-> 0, end |-> 2,
   uses |-> {}, serial |-> serial]
List(value, key) ==
  [issuer |-> CommonName(value), akid |-> 0, signer |-> key, start |-> 0, end |-> 2,
   entries |-> <<[serial |-> 5, remove |-> FALSE]>>]

MCCertificates == {CA(ROOT, 1), CA(Ring, 2)}
MCSubjects == {User(5), User(6)}
MCLists == {List(ROOT, 1), List(Ring, 2)}
=============================================================================
