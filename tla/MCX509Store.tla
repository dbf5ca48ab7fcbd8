----------------------------- MODULE MCX509Store -----------------------------
EXTENDS X509Store

(* Names of one or two attributes. The last value is another spelling of   *)
(* the one of Middle, which its certificates and its list have.            *)
Country == [oid |-> 6, value |-> 6]
Named(value) == [oid |-> 3, value |-> value]
RootName == <<Named(1)>>
MiddleName == <<Named(2)>>
MiddleRespelled == <<Named(7)>>
SubName == <<Named(3), Country>>
MCFolded == [v \in 1 .. 7 |-> IF v = 7 THEN 2 ELSE v]

AnyUse == {"CRL_SIGNING", "TLS_SERVER"}
CA(subject, issuer, serial, skid, akid, key, signer, limit, end) ==
  [subject |-> subject, issuer |-> issuer, skid |-> skid, akid |-> akid, key |-> key,
   signer |-> signer, ca |-> TRUE, limit |-> limit, start |-> 0, end |-> end, uses |-> AnyUse,
   serial |-> serial]
User(subject, issuer, akid, signer, serial, uses) ==
  [subject |-> subject, issuer |-> issuer, skid |-> 0, akid |-> akid, key |-> 9,
   signer |-> signer, ca |-> FALSE, limit |-> 0, start |-> 0, end |-> 2, uses |-> uses,
   serial |-> serial]

Root == CA(RootName, RootName, 11, 1, 1, 1, 1, 3, 2)
Middle == CA(MiddleName, RootName, 12, 2, 1, 2, 1, 1, 0)
Forged == CA(MiddleName, RootName, 12, 0, 1, 5, 5, 3, 2)
Sub == CA(SubName, MiddleRespelled, 23, 3, 2, 3, 2, 0, 2)
Leaf == User(<<Named(4)>>, SubName, 3, 3, 5, {"TLS_SERVER"})
Bare == User(<<Named(5)>>, RootName, 1, 1, 14, AnyUse)

MCCertificates == {Root, Middle, Forged, Sub}
MCSubjects == {Leaf, Bare}
List(issuer, akid, signer, entries) ==
  [issuer |-> issuer, akid |-> akid, signer |-> signer, entries |-> entries, start |-> 0, end |-> 2]
Entry(c, remove) == [serial |-> c.serial, remove |-> remove]
MCLists == {List(RootName, 1, 1, <<Entry(Middle, FALSE)>>),
            List(RootName, 1, 1, <<Entry(Middle, TRUE), Entry(Bare, FALSE)>>),
            List(SubName, 3, 3, <<Entry(Leaf, FALSE)>>),
            List(MiddleRespelled, 2, 5, <<Entry(Sub, FALSE)>>)}
=============================================================================
