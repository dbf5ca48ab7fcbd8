-------------------------- MODULE AllocatorPromise --------------------------
(***************************************************************************)
(* What Botan::Allocator promises its callers (alloc/allocate.h, and the   *)
(* way alloc/secmem.h uses it): memory that is nobody else's, that reads   *)
(* as zero, and that is wiped once it is given back.                       *)
(***************************************************************************)
EXTENDS Integers

CONSTANT Runs        \* the runs of units that may be handed out

VARIABLES
  live,    \* the runs that callers hold
  used,    \* the units that the allocator accounts for
  dirty    \* the units whose content is not zero

vars == <<live, used, dirty>>

Init == live = {} /\ used = {} /\ dirty = {}

Allocate(S) ==
  /\ S # {} /\ S \cap used = {} /\ S \cap dirty = {}
  /\ live' = live \cup {S}
  /\ used' = used \cup S
  /\ UNCHANGED dirty

Deallocate(S) ==
  /\ live' = live \ {S}
  /\ used' = used \ S
  /\ dirty' = dirty \ S

(* The teardown takes back every run but those in keep.                    *)
Destroy(keep) ==
  /\ live' = keep
  /\ used' = UNION keep
  /\ dirty' = dirty \cap UNION keep

Write(S) ==
  /\ dirty' = dirty \cup S
  /\ UNCHANGED <<live, used>>

Next ==
  \/ \E S \in Runs : Allocate(S)
  \/ \E S \in live : Deallocate(S) \/ Write(S)
  \/ \E keep \in SUBSET live : Destroy(keep)

Spec == Init /\ [][Next]_vars
=============================================================================
