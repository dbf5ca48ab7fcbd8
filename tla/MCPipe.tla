------------------------------- MODULE MCPipe -------------------------------
(* A chain of a hash (it holds what it gets until the message ends) and an *)
(* encoder, and a fork of a copy and a hash.                               *)
EXTENDS Pipe, TLC

CONSTANTS chain, chainHash, chainCoder, fork, forkHash, Null_Filter,
          nested, nestedHash, outer, outerCoder, item1, item2

Symmetry == Permutations({item1, item2})

MCFilters == {chain, chainHash, chainCoder, fork, forkHash, Null_Filter}
MCBuilt == <<chainHash, chainCoder, chain, forkHash, fork>>
MCKind == [f \in MCFilters |->
  CASE f = chain -> "chain"
    [] f = fork -> "fork"
    [] f \in {chainHash, forkHash} -> "hold"
    [] OTHER -> "stream"]
MCKids == [f \in MCFilters |->
  CASE f = chain -> <<chainHash, chainCoder>>
    [] f = fork -> <<Null, forkHash>>
    [] OTHER -> <<>>]

(* A chain whose first member is a chain.                                  *)
NestedFilters == {nested, nestedHash, outer, outerCoder, Null_Filter}
NestedBuilt == <<nestedHash, nested, outerCoder, outer>>
NestedKind == [f \in NestedFilters |->
  CASE f \in {nested, outer} -> "chain" [] f = nestedHash -> "hold" [] OTHER -> "stream"]
NestedKids == [f \in NestedFilters |->
  CASE f = nested -> <<nestedHash>>
    [] f = outer -> <<nested, outerCoder>>
    [] OTHER -> <<>>]
=============================================================================
