------------------------------ MODULE X509Store ------------------------------
(***************************************************************************)
(* X509_Store: certificates, some of them trusted, the verdicts cached     *)
(* with them, and what the CRLs have revoked.                              *)
(*                                                                         *)
(* Key identifiers, serial numbers and the values in a name are numbers,   *)
(* compared as the byte strings are; 0 stands for the empty identifier.    *)
(* Folded is what a value looks like once its case and spaces are left     *)
(* aside. A signature is the key it was made with. The store is asked by   *)
(* one thread; no store of others (Certificate_Store) is attached to it.   *)
(***************************************************************************)
EXTENDS Naturals, Sequences, SequencesExt, FiniteSetsExt

CONSTANTS
  Certificates,              \* what the program may add
  Subjects,                  \* what it may have validated
  Lists,                     \* the CRLs it may add
  Usages,                    \* sets of usages it asks for
  Folded,                    \* of a value, what x500_name_cmp compares
  time_slack,
  validation_cache_timeout,
  MaxTime,                   \* bound on the clock
  MaxChain                   \* certificates on the longest path

(* A name is a list of attributes in the order of their types (OIDs).      *)
Names == {dn \in Seq([oid : Nat, value : DOMAIN Folded]) :
            \A i, k \in DOMAIN dn : i <= k => dn[i].oid <= dn[k].oid}

ASSUME StoreAssumption ==
  /\ DOMAIN Folded \subseteq Nat
  /\ \A c \in Certificates \cup Subjects :
       /\ {c.subject, c.issuer} \subseteq Names
       /\ {c.skid, c.akid, c.serial, c.start, c.end, c.limit} \subseteq Nat
  /\ \A l \in Lists : /\ l.issuer \in Names /\ {l.akid, l.start, l.end} \subseteq Nat
                      /\ l.entries \in Seq([serial : Nat \ {0}, remove : BOOLEAN])
  /\ {time_slack, validation_cache_timeout, MaxTime} \subseteq Nat /\ MaxChain \in Nat \ {0}

(* The certificate of a serial number 0, the empty string, and a circle of *)
(* CAs none of which has a path limit are not modelled.                    *)
ASSUME CertificateAssumption ==
  \A c \in Certificates \cup Subjects : c.serial # 0 /\ c.limit < MaxChain

VARIABLES
  certs,               \* sequence of Cert_Info
  revoked,             \* sequence of CRL_Data
  revoked_info_valid,
  now                  \* system_time()

storeVars == <<certs, revoked, revoked_info_valid, now>>

NO_CERT_FOUND == 0

-----------------------------------------------------------------------------
(* Comparisons.                                                            *)

(* Names are equal whatever the case and the spaces of their values.       *)
x500_name_cmp(name1, name2) == Folded[name1] = Folded[name2]
SameDN(a, b) ==
  /\ Len(a) = Len(b)
  /\ \A i \in DOMAIN a : a[i].oid = b[i].oid /\ x500_name_cmp(a[i].value, b[i].value)

(* Their order is that of the values as they are written, each compared to *)
(* the first one of its type in the other name, and ends where the other   *)
(* has none of that type.                                                  *)
FirstOf(dn, oid) == {j \in DOMAIN dn : dn[j].oid = oid /\ \A k \in 1 .. j - 1 : dn[k].oid # oid}
BeforeDN(a, b) ==
  \/ Len(a) < Len(b)
  \/ /\ Len(a) = Len(b)
     /\ \E i \in DOMAIN a :
          /\ \E j \in FirstOf(b, a[i].oid) : a[i].value < b[j].value
          /\ \A k \in 1 .. i - 1 : \E j \in FirstOf(b, a[k].oid) : a[k].value = b[j].value

CRL_Data == [issuer : Names, serial : Nat \ {0}, akid : Nat]
compare_ids(id1, id2) == id1 = 0 \/ id2 = 0 \/ id1 = id2

Same(a, b) ==
  SameDN(a.issuer, b.issuer) /\ a.serial = b.serial /\ compare_ids(a.akid, b.akid)

(* The order that revocations are sorted and searched by.                  *)
Before(a, b) ==
  /\ ~Same(a, b)
  /\ IF ~compare_ids(a.akid, b.akid) THEN a.akid < b.akid
     ELSE IF ~compare_ids(a.serial, b.serial) THEN a.serial < b.serial
     ELSE BeforeDN(a.issuer, b.issuer)

(* sort inserts one after the other into what has been sorted (up to 16).  *)
Placed(s, e) ==
  IF s = <<>> THEN <<e>>
  ELSE IF Before(e, s[1]) THEN <<e>> \o s
  ELSE InsertAt(s, Max({k \in DOMAIN s : ~Before(e, s[k])}) + 1, e)
Sorted(s) == FoldLeft(Placed, <<>>, s)

(* binary_search halves what is left until one place remains.              *)
Ranges(s) == {r \in (1 .. Len(s) + 1) \X (0 .. Len(s)) : r[1] + r[2] <= Len(s) + 1}
Place(e, s) ==
  LET place[r \in Ranges(s)] ==
        LET middle == r[1] + r[2] \div 2
        IN IF r[2] = 0 THEN r[1]
           ELSE IF Before(s[middle], e) THEN place[<<middle + 1, r[2] - r[2] \div 2 - 1>>]
           ELSE place[<<r[1], r[2] \div 2>>]
  IN place[<<1, Len(s)>>]
Found(e, s) == Place(e, s) <= Len(s) /\ ~Before(e, s[Place(e, s)])

InTime(object, t) == object.start <= t + time_slack /\ t <= object.end + time_slack

TimeCheck(object, before, after) ==
  IF object.start > now + time_slack THEN before
  ELSE IF object.end + time_slack < now THEN after
  ELSE "VERIFIED"

check_sig(object, ca) == IF object.signer = ca.key THEN "VERIFIED" ELSE "SIGNATURE_ERROR"

is_self_signed(c) == SameDN(c.subject, c.issuer)

usage_check(c, usage) ==
  IF "CRL_SIGNING" \in usage \ c.uses THEN "CA_CERT_NOT_FOR_CRL_ISSUER"
  ELSE IF usage \subseteq c.uses THEN "VERIFIED" ELSE "INVALID_USAGE"

-----------------------------------------------------------------------------
(* What is cached. A time-out resets a flag, which is not observable: a    *)
(* verdict that is too old stays too old until it is set again.            *)

CertInfo(c, t) == [cert |-> c, trusted |-> t, checked |-> FALSE,
                   result |-> "UNKNOWN_X509_ERROR", last_checked |-> 0]

is_verified(info) ==
  /\ info.checked
  /\ \/ info.result \notin {"VERIFIED", "CERT_NOT_YET_VALID"}
     \/ now <= info.last_checked + validation_cache_timeout

with_result(info, code) == [info EXCEPT !.result = code, !.last_checked = now, !.checked = TRUE]

Data(c) == [issuer |-> c.issuer, serial |-> c.serial, akid |-> c.akid]
is_revoked(c) == Found(Data(c), revoked)

(* faulty variant: verdicts are taken over                                 *)
RecomputedUnverified ==
  [j \in DOMAIN certs |->
     IF ~is_verified(certs[j]) /\ is_revoked(certs[j].cert)
     THEN with_result(certs[j], "CERT_IS_REVOKED") ELSE certs[j]]

(* recompute_revoked_info, when the flag says it must be done.             *)
Recomputed ==
  [j \in DOMAIN certs |->
     IF /\ ~(is_verified(certs[j]) /\ certs[j].result # "VERIFIED")
        /\ is_revoked(certs[j].cert)
     THEN with_result(certs[j], "CERT_IS_REVOKED") ELSE certs[j]]

UpToDate == IF revoked_info_valid THEN certs ELSE Recomputed

-----------------------------------------------------------------------------
(* Paths.                                                                  *)

find_cert(dn, id) ==
  LET fits == {j \in DOMAIN certs :
                 compare_ids(certs[j].cert.skid, id) /\ SameDN(certs[j].cert.subject, dn)}
  IN IF fits = {} THEN NO_CERT_FOUND ELSE Min(fits)

find_parent_of(c) == find_cert(c.issuer, c.akid)

(* The issuer, its issuer, and so on; 0 after the last one that is found.  *)
Up(c) ==
  LET up[n \in 1 .. MaxChain + 1] ==
        IF n = 1 THEN find_parent_of(c)
        ELSE IF up[n - 1] = NO_CERT_FOUND THEN NO_CERT_FOUND
        ELSE find_parent_of(certs[up[n - 1]].cert)
  IN up

(* What construct_cert_chain makes of the n-th certificate on the way up.  *)
Climbed(infos, index, n) ==
  IF index = NO_CERT_FOUND THEN "CERT_ISSUER_NOT_FOUND"
  ELSE LET info == infos[index]
       IN IF is_verified(info) /\ info.result # "VERIFIED" THEN info.result
          ELSE IF ~info.cert.ca THEN "CA_CERT_NOT_FOR_CERT_ISSUER"
          ELSE IF info.trusted THEN "VERIFIED"
          ELSE IF is_self_signed(info.cert) THEN "CANNOT_ESTABLISH_TRUST"
          ELSE IF info.cert.limit < n - 1 THEN "CERT_CHAIN_TOO_LONG"
          ELSE "climb on"

(* The path, cut back to the last one without a verdict, and its issuer:   *)
(* what is above has been verified.                                        *)
CutBack(infos, up, top) ==
  LET last == Max({n \in 1 .. top : n = 1 \/ ~is_verified(infos[up[n]])})
      path == [n \in 1 .. last |-> up[n]] \o <<find_parent_of(infos[up[last]].cert)>>
  IN IF Last(path) = NO_CERT_FOUND THEN [code |-> "CERT_ISSUER_NOT_FOUND", indexes |-> <<>>]
     ELSE [code |-> "VERIFIED", indexes |-> path]

PathUp(infos, up) ==
  LET climbed == [n \in 1 .. MaxChain + 1 |-> Climbed(infos, up[n], n)]
      top == Min({n \in DOMAIN climbed : climbed[n] # "climb on"})
  IN IF climbed[top] # "VERIFIED" THEN [code |-> climbed[top], indexes |-> <<>>]
     ELSE CutBack(infos, up, top)

Chain(infos, c) == PathUp(infos, Up(c))

(* Each certificate of the path is checked against the next one, and the   *)
(* signature's verdict kept, up to the first failure.                      *)
Intime(infos, path, n) ==
  TimeCheck(infos[path[n]].cert, "CERT_NOT_YET_VALID", "CERT_HAS_EXPIRED")
Signed(infos, path, n) ==
  IF is_verified(infos[path[n]]) THEN infos[path[n]].result
  ELSE check_sig(infos[path[n]].cert, infos[path[n + 1]].cert)
FirstFailure(infos, path) ==
  Min({Len(path)} \cup {n \in 1 .. Len(path) - 1 : Intime(infos, path, n) # "VERIFIED"
                                                 \/ Signed(infos, path, n) # "VERIFIED"})
Kept(infos, path, stop) ==
  LET checked == {n \in 1 .. Min({stop, Len(path) - 1}) : Intime(infos, path, n) = "VERIFIED"}
  IN [j \in DOMAIN infos |->
        IF \E n \in checked : path[n] = j /\ ~is_verified(infos[j])
        THEN with_result(infos[j], Signed(infos, path, CHOOSE n \in checked : path[n] = j))
        ELSE infos[j]]

(* The rest of validate_cert: what it answers, and what it leaves cached.  *)
VerdictAlong(infos, chain, c, usage) ==
  LET own == TimeCheck(c, "CERT_NOT_YET_VALID", "CERT_HAS_EXPIRED")
      path == chain.indexes
      stop == FirstFailure(infos, path)
      refused(why) == [code |-> why, infos |-> infos]
  IN IF chain.code # "VERIFIED" THEN refused(chain.code)
     ELSE IF own # "VERIFIED" THEN refused(own)
     ELSE IF check_sig(c, infos[path[1]].cert) # "VERIFIED" THEN refused("SIGNATURE_ERROR")
     ELSE IF is_revoked(c) THEN refused("CERT_IS_REVOKED")
     ELSE [code |-> IF stop = Len(path) THEN usage_check(c, usage)
                    ELSE IF Intime(infos, path, stop) # "VERIFIED" THEN Intime(infos, path, stop)
                    ELSE Signed(infos, path, stop),
           infos |-> Kept(infos, path, stop)]

VerdictFrom(infos, c, usage) == VerdictAlong(infos, Chain(infos, c), c, usage)
Verdict(c, usage) == VerdictFrom(UpToDate, c, usage)

-----------------------------------------------------------------------------
(* Calls.                                                                  *)

StoreInit ==
  /\ certs = <<>> /\ revoked = <<>> /\ revoked_info_valid = TRUE
  /\ now = 0

AddCert(c, trusted) ==
  /\ trusted => is_self_signed(c)
  /\ IF find_cert(c.subject, c.skid) = NO_CERT_FOUND
     THEN certs' = Append(certs, CertInfo(c, trusted)) /\ revoked_info_valid' = FALSE
     ELSE /\ certs' = [j \in DOMAIN certs |->
                         IF trusted /\ certs[j].cert = c
                         THEN [certs[j] EXCEPT !.trusted = TRUE] ELSE certs[j]]
          /\ revoked_info_valid' = revoked_info_valid
  /\ UNCHANGED <<revoked, now>>

ValidateCert(c, usage) ==
  LET verdict == Verdict(c, usage)
  IN /\ certs' = verdict.infos
     /\ revoked_info_valid' = TRUE
     /\ UNCHANGED <<revoked, now>>

(* The issuer of a CRL is the last certificate that fits, not the first.   *)
ListIssuer(l) ==
  LET fits == {j \in DOMAIN certs :
                 compare_ids(certs[j].cert.skid, l.akid) /\ SameDN(certs[j].cert.subject, l.issuer)}
  IN IF fits = {} THEN NO_CERT_FOUND ELSE Max(fits)

(* One entry of the list, which may take a revocation back.                *)
Entered(l, entry, s) ==
  LET info == [issuer |-> l.issuer, serial |-> entry.serial, akid |-> l.akid]
      at == {k \in DOMAIN s : Same(s[k], info)}
  IN IF entry.remove
     THEN IF at = {} THEN s ELSE RemoveAt(s, Min(at))
     ELSE IF at = {} THEN Append(s, info) ELSE s

WithEntries(l) == FoldLeft(LAMBDA s, entry : Entered(l, entry, s), revoked, l.entries)

(* An out-of-date list or one without an issuer changes nothing; one whose *)
(* issuer is not verified, or has not signed it, leaves that verdict.      *)
AddCrl(l) ==
  /\ TimeCheck(l, "CRL_NOT_YET_VALID", "CRL_HAS_EXPIRED") = "VERIFIED"
  /\ ListIssuer(l) # NO_CERT_FOUND
  /\ LET ca == certs[ListIssuer(l)].cert
         verdict == Verdict(ca, {"CRL_SIGNING"})
     IN /\ certs' = verdict.infos
        /\ IF verdict.code = "VERIFIED" /\ check_sig(l, ca) = "VERIFIED"
           THEN revoked' = Sorted(WithEntries(l)) /\ revoked_info_valid' = FALSE
           ELSE revoked' = revoked /\ revoked_info_valid' = TRUE
  /\ UNCHANGED now

Tick ==
  /\ now < MaxTime
  /\ now' = now + 1
  /\ UNCHANGED <<certs, revoked, revoked_info_valid>>

StoreNext ==
  \/ \E c \in Certificates, trusted \in BOOLEAN : AddCert(c, trusted)
  \/ \E c \in Subjects, usage \in Usages : ValidateCert(c, usage)
  \/ \E l \in Lists : AddCrl(l)
  \/ Tick

StoreSpec == StoreInit /\ [][StoreNext]_storeVars

-----------------------------------------------------------------------------
(* Properties.                                                             *)

(* Revocations are sorted and searched by Before, which is an order only   *)
(* among those that are alike: all have a key identifier or none has, and  *)
(* those with one serial number and identifier name their issuers in one   *)
(* way: names of one size have the same types of attributes, each once,    *)
(* and those that are equal are written the same.                          *)
WrittenAlike(x, y) ==
  Len(x) = Len(y) =>
    /\ \A i \in DOMAIN x : x[i].oid = y[i].oid
    /\ \A i, k \in DOMAIN x : x[i].oid = x[k].oid => i = k
    /\ SameDN(x, y) => x = y
Alike(a, b) ==
  /\ a.akid = 0 <=> b.akid = 0
  /\ a.serial = b.serial /\ a.akid = b.akid => WrittenAlike(a.issuer, b.issuer)
AllAlike(s) == \A i, k \in DOMAIN s : Alike(s[i], s[k])

Listed(c) == \E k \in DOMAIN revoked : Same(revoked[k], Data(c))
Comparable(c) == AllAlike(Append(revoked, Data(c)))

(* The definition of doc/api.tex:1671: c is signed by a CA, which is       *)
(* signed by a CA, ..., up to one that is trusted. Each is in time at one  *)
(* of the times given, and passes the test given.                          *)
Genuine(c, times, Passes(_)) ==
  LET up == Up(c)
  IN \E n \in 1 .. MaxChain + 1 :
       /\ \A k \in 1 .. n :
            /\ up[k] # NO_CERT_FOUND
            /\ LET info == certs[up[k]] IN
                 /\ info.cert.ca /\ Passes(info)
                 /\ \E t \in times : InTime(info.cert, t)
                 /\ LET by == find_parent_of(info.cert)
                    IN by # NO_CERT_FOUND /\ info.cert.signer = certs[by].cert.key
                 /\ IF k = n THEN info.trusted
                    ELSE ~info.trusted /\ ~is_self_signed(info.cert) /\ info.cert.limit >= k - 1
       /\ c.signer = certs[up[1]].cert.key

(* What validate_cert says of a certificate is what a store without a      *)
(* cache would say. It verifies only what is genuine, in time, allowed and *)
(* not revoked, as far as the revocations can be compared with it, where   *)
(* an issuer's time may have run out since it was last checked, at most    *)
(* validation_cache_timeout ago; and it verifies all that is, unless an    *)
(* issuer has been revoked before.                                         *)
VerdictIsRight ==
  \A c \in Subjects, usage \in Usages :
    LET verified == Verdict(c, usage).code = "VERIFIED"
        recent == {t \in 0 .. now : now <= t + validation_cache_timeout}
        unlisted(info) == Comparable(info.cert) => ~Listed(info.cert)
        unmarked(info) == info.result # "CERT_IS_REVOKED" /\ ~is_revoked(info.cert)
        fit == InTime(c, now) /\ usage_check(c, usage) = "VERIFIED"
    IN /\ verified => /\ fit /\ (Comparable(c) => ~Listed(c))
                      /\ Genuine(c, recent, unlisted)
       /\ fit /\ ~is_revoked(c) /\ Genuine(c, {now}, unmarked) => verified

(* What api.tex:1575 says of add_crl: the certificates of a list are       *)
(* marked as revoked, also those added after it. The search (x509stor.cpp: *)
(* 134) misses some whose names, or key identifiers, cannot be compared.   *)
RevokedAreFound == \A c \in Subjects : Listed(c) => is_revoked(c)
=============================================================================
