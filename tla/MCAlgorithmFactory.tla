------------------------- MODULE MCAlgorithmFactory -------------------------
(* A hash with two names that two engines implement, and one that only the *)
(* core does; a program that adds an implementation of its own.            *)
EXTENDS AlgorithmFactory, TLC

CONSTANTS t1, t2

MCSpecs == {"SHA-160", "SHA-1", "Tiger"}
MCNameOf == ("SHA-160" :> "SHA-160") @@ ("SHA-1" :> "SHA-160") @@ ("Tiger" :> "Tiger")
MCEngines == <<"openssl", "core">>
MCProvides == ("openssl" :> {"SHA-160", "SHA-1"}) @@ ("core" :> {"SHA-160", "SHA-1", "Tiger"})
MCPreferences == {<<"SHA-1", "openssl">>}
MCWeight == ("openssl" :> 2) @@ ("core" :> 5) @@ ("own" :> 0)

Symmetry == Permutations({t1, t2})
=============================================================================
