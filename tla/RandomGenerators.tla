-------------------------- MODULE RandomGenerators --------------------------
(***************************************************************************)
(* A random number generator as AutoSeeded_RNG builds it: an ANSI_X931_RNG *)
(* around an HMAC_RNG or a Randpool, with the entropy sources that the     *)
(* inner generator polls while it reseeds; one of them runs commands       *)
(* (UnixCommand).                                                          *)
(*                                                                         *)
(* A secret value is abstracted to the set of inputs it has been computed  *)
(* from: a MAC, a cipher or an exclusive or depends on all that goes in.   *)
(* What one reseed gathers, and each input of add_entropy, is one input.   *)
(* An HMAC extractor's key is a salt, which is not counted as secret.      *)
(***************************************************************************)
EXTENDS UnixCommand, Sequences, FiniteSets

CONSTANTS
  Inner,                     \* the inner generators the build may have
  Sources,                   \* its entropy sources, in the order they were added
  Goals,                     \* arguments of reseed
  ByteBits,                  \* bits in a byte
  BLOCK_SIZE,                \* of the X9.31 cipher, in bytes
  ITERATIONS_BEFORE_RESEED,  \* of a Randpool
  MaxInputs                  \* bound on the inputs between two calls of clear

SourceKinds == {"timer", "device", "egd", "ftw", "unix"}
ASSUME SourcesAssumption == Sources \in Seq(SourceKinds)
ASSUME InnerAssumption == Inner \subseteq {"HMAC_RNG", "Randpool"}
ASSUME SizeAssumption ==
  /\ Goals \subseteq Nat /\ ByteBits \in Nat \ {0} /\ BLOCK_SIZE \in Nat \ {0}
  /\ ITERATIONS_BEFORE_RESEED \in Nat \ {0, 1} /\ MaxInputs \in Nat

VARIABLES
  call,      \* "idle", or "reseed" while the sources are polled
  attempt,   \* poll_attempt
  inner,     \* the inner generator
  x931,      \* the X9.31 generator
  handed,    \* offsets of R that have been given out (ghost)
  serial,    \* number of inputs so far (ghost)
  accepted   \* inputs whose call has returned, since the last clear (ghost)

generator == <<inner, x931, handed, accepted>>
rngVars == <<call, attempt, generator, serial>>
allVars == <<vars, rngVars>>

Inputs == 1 .. MaxInputs

-----------------------------------------------------------------------------
(* HMAC_RNG: K is the last PRF output, prf the PRF's key, fed what has     *)
(* been given to the extractor since its last final().                     *)

NewHmac == [kind |-> "HMAC_RNG", seeded |-> FALSE, prf |-> {}, K |-> {}, fed |-> {}]

HmacPrf(g) == [g EXCEPT !.K = @ \cup g.prf]

(* faulty variant: nothing is fed forward                                  *)
HmacRekeyAfresh(g) == [g EXCEPT !.prf = g.fed, !.fed = {}, !.K = {}]

(* reseed_with_input, when the sources have been polled: two PRF outputs   *)
(* are fed forward, and the result is the next PRF key.                    *)
HmacRekey(g) ==
  LET rng == HmacPrf(g)
      reseed == HmacPrf(rng)
  IN [g EXCEPT !.prf = g.fed \cup rng.K \cup reseed.K, !.fed = {}, !.K = {}]

HmacRandomize(g) == HmacPrf(g)

-----------------------------------------------------------------------------
(* Randpool: fed is what its MAC has been updated with since final().      *)

NewRandpool ==
  [kind |-> "Randpool", seeded |-> FALSE, mac |-> {}, cipher |-> {}, pool |-> {},
   buffer |-> {}, fed |-> {}, counter |-> 0]

RefillBuffer(g) ==
  [g EXCEPT !.counter = (@ + 1) % ITERATIONS_BEFORE_RESEED,
            !.buffer = @ \cup g.mac \cup g.fed \cup g.cipher, !.fed = {}]

(* The two keys are derived from the pool, and then the pool is encrypted  *)
(* in CBC mode with the buffer as its IV.                                  *)
MixKeys(g) ==
  LET mac == g.mac \cup g.fed \cup g.pool
      cipher == mac \cup g.pool
  IN [g EXCEPT !.mac = mac, !.cipher = cipher, !.pool = @ \cup g.buffer \cup cipher, !.fed = {}]

PoolUpdate(g) ==
  LET once == RefillBuffer(g)
  IN IF once.counter = 0 THEN RefillBuffer(MixKeys(once)) ELSE once

MixPool(g) == PoolUpdate(MixKeys(g))

(* final() of what was fed goes into the first blocks of the pool.         *)
PoolRekey(g) == MixPool([g EXCEPT !.pool = @ \cup g.mac \cup g.fed, !.fed = {}])

PoolRandomize(g) == PoolUpdate(PoolUpdate(g))

-----------------------------------------------------------------------------
(* The interface of the inner generator.                                   *)

New(kind) == IF kind = "HMAC_RNG" THEN NewHmac ELSE NewRandpool
Rekeyed(g) == IF g.kind = "HMAC_RNG" THEN HmacRekey(g) ELSE PoolRekey(g)
Drawn(g) == IF g.kind = "HMAC_RNG" THEN HmacRandomize(g) ELSE PoolRandomize(g)

(* A key is as long as one output of the PRF and two of a Randpool.        *)
KeyDrawn(g) ==
  IF g.kind = "HMAC_RNG" THEN HmacRandomize(g) ELSE PoolUpdate(PoolRandomize(g))

(* What randomize of the inner generator gives out.                        *)
Output(g) == IF g.kind = "HMAC_RNG" THEN HmacRandomize(g).K ELSE PoolUpdate(g).buffer

(* add_entropy of an empty input seeds an HMAC_RNG, whose goal of 0 bits   *)
(* is then met, and leaves a Randpool as it was.                           *)
SeedsWith(g, given, achieved) ==
  g.seeded \/ given \/ (achieved /\ g.kind = "HMAC_RNG")

-----------------------------------------------------------------------------
(* ANSI_X931_RNG: V.has_items() is that it is seeded.                      *)

NewX931 == [has_V |-> FALSE, V |-> {}, R |-> {}, key |-> {}, position |-> 0]

(* update_buffer: each of R and V is encrypted once.                       *)
Refilled(x, g) ==
  LET DT == Output(g) \cup x.key
      R == x.V \cup DT \cup x.key
  IN [x EXCEPT !.R = R, !.V = R \cup DT \cup x.key, !.position = 0]

(* rekey: key and V from the inner generator, then a new R.                *)
Rewound(x, g) ==
  LET keyed == [x EXCEPT !.has_V = TRUE, !.key = Output(g), !.V = Output(KeyDrawn(g))]
  IN Refilled(keyed, Drawn(KeyDrawn(g)))

(* The tail of reseed and of add_entropy: nothing for an unseeded one.     *)
Rekey(g) ==
  IF g.seeded
  THEN /\ x931' = Rewound(x931, g) /\ inner' = Drawn(Drawn(KeyDrawn(g)))
       /\ handed' = {}
  ELSE x931' = x931 /\ inner' = g /\ handed' = handed

-----------------------------------------------------------------------------
(* Calls.                                                                  *)

RngInit ==
  /\ call = "idle" /\ attempt = 0
  /\ inner \in {New(kind) : kind \in Inner}
  /\ x931 = NewX931
  /\ handed = {} /\ serial = 0 /\ accepted = {}

(* randomize of an unseeded generator throws and changes nothing. The loop *)
(* refills R when a byte is wanted that it has not got; at most a block is *)
(* asked for here.                                                         *)
Randomize(n) ==
  /\ call = "idle" /\ x931.has_V
  /\ LET have == BLOCK_SIZE - x931.position
         old == x931.position .. x931.position + n - 1
     IN IF n <= have
        THEN /\ x931' = [x931 EXCEPT !.position = @ + n]
             /\ handed' = handed \cup old
             /\ inner' = inner
        ELSE /\ x931' = [Refilled(x931, inner) EXCEPT !.position = n - have]
             /\ inner' = Drawn(inner)
             /\ handed' = 0 .. n - have - 1
  /\ UNCHANGED <<vars, call, attempt, serial, accepted>>

AddEntropy(empty) ==
  /\ call = "idle"
  /\ empty \/ serial < MaxInputs
  /\ serial' = IF empty THEN serial ELSE serial + 1
  /\ LET input == IF empty THEN {} ELSE {serial + 1}
         fed == [inner EXCEPT !.fed = @ \cup input]
     IN /\ Rekey([Rekeyed(fed) EXCEPT !.seeded = SeedsWith(inner, ~empty, TRUE)])
        /\ accepted' = accepted \cup fed.fed
  /\ UNCHANGED <<vars, call, attempt>>

(* faulty variant: V survives                                              *)
ClearKeepsV ==
  /\ call = "idle"
  /\ inner' = New(inner.kind)
  /\ x931' = [NewX931 EXCEPT !.has_V = x931.has_V]
  /\ handed' = {} /\ serial' = 0 /\ accepted' = {}
  /\ UNCHANGED <<vars, call, attempt>>

Clear ==
  /\ call = "idle"
  /\ inner' = New(inner.kind)
  /\ x931' = NewX931
  /\ handed' = {} /\ serial' = 0 /\ accepted' = {}
  /\ UNCHANGED <<vars, call, attempt>>

-----------------------------------------------------------------------------
(* reseed: the sources are polled in turn, at most goal times.             *)

Reseed(goal) ==
  /\ call = "idle" /\ serial < MaxInputs
  /\ call' = "reseed" /\ attempt' = 0
  /\ serial' = serial + 1
  /\ accum' = NewAccumulator(goal)
  /\ UNCHANGED <<commandVars, generator>>

Polling ==
  /\ call = "reseed" /\ step = "idle"
  /\ Sources # <<>>
  /\ ~GoalAchieved(accum) /\ attempt < accum.goal
Current == Sources[(attempt % Len(Sources)) + 1]

(* What a poll feeds to the extractor or the MAC is there from now on,     *)
(* whether or not the reseed comes to its end.                             *)
Feed == inner' = [inner EXCEPT !.fed = @ \cup {serial}]

(* A device and the EGD daemon are asked for whole bytes, and give what    *)
(* they have; the files under /proc are read until there is enough; a      *)
(* timer is not credited with anything.                                    *)
Remaining == accum.goal - accum.bits
Gains(kind) ==
  CASE kind \in {"device", "egd"} -> {ByteBits * n : n \in 0 .. Remaining \div ByteBits}
    [] kind = "ftw" -> 0 .. Remaining
    [] kind = "timer" -> {0}

PollSource ==
  /\ Polling /\ Current # "unix"
  /\ \E b \in Gains(Current) : accum' = Added(accum, b)
  /\ attempt' = attempt + 1
  /\ Feed
  /\ UNCHANGED <<commandVars, call, x931, handed, serial, accepted>>

PollUnix ==
  /\ Polling /\ Current = "unix"
  /\ StartPoll
  /\ attempt' = attempt + 1
  /\ Feed
  /\ UNCHANGED <<call, x931, handed, serial, accepted>>

(* A poll may throw; what has been fed stays with the inner generator.     *)
PollThrows ==
  /\ Polling
  /\ call' = "idle" /\ attempt' = 0 /\ accum' = NewAccumulator(0)
  /\ UNCHANGED <<commandVars, generator, serial>>

FinishReseed ==
  /\ call = "reseed" /\ step = "idle" /\ ~Polling
  /\ call' = "idle" /\ attempt' = 0 /\ accum' = NewAccumulator(0)
  /\ Rekey([Rekeyed(inner) EXCEPT !.seeded = @ \/ GoalAchieved(accum)])
  /\ accepted' = accepted \cup inner.fed
  /\ UNCHANGED <<commandVars, serial>>

-----------------------------------------------------------------------------

Call ==
  \/ \E n \in 1 .. BLOCK_SIZE : Randomize(n)
  \/ \E empty \in BOOLEAN : AddEntropy(empty)
  \/ Clear
  \/ \E goal \in Goals : Reseed(goal)

PollStep ==
  \/ PollSource \/ PollUnix \/ PollThrows
  \/ Poll /\ UNCHANGED rngVars

RngNext == Call \/ PollStep \/ FinishReseed \/ (System /\ UNCHANGED rngVars)
AllInit == CommandInit /\ accum = NewAccumulator(0) /\ RngInit
RngSpec == AllInit /\ [][RngNext]_allVars

(* The thread in the loop of reseed runs on. Nothing is assumed of a       *)
(* command, except that a killed one dies.                                 *)
Dies == killed /\ ChildExits /\ UNCHANGED rngVars
FairSpec == RngSpec /\ WF_allVars(PollStep) /\ WF_allVars(Dies)

-----------------------------------------------------------------------------
(* Properties.                                                             *)

IsSeeded == x931.has_V

Secrets == SUBSET Inputs
HmacState ==
  [kind : {"HMAC_RNG"}, seeded : BOOLEAN, prf : Secrets, K : Secrets, fed : Secrets]
PoolState ==
  [kind : {"Randpool"}, seeded : BOOLEAN, mac : Secrets, cipher : Secrets, pool : Secrets,
   buffer : Secrets, fed : Secrets, counter : 0 .. ITERATIONS_BEFORE_RESEED - 1]
InnerState == HmacState \cup PoolState

RngTypeOK ==
  /\ call \in {"idle", "reseed"} /\ attempt \in Nat
  /\ inner \in InnerState
  /\ x931 \in [has_V : BOOLEAN, V : Secrets, R : Secrets, key : Secrets,
               position : 0 .. BLOCK_SIZE]
  /\ serial \in 0 .. MaxInputs /\ (call = "reseed" => serial > 0)
  /\ handed \subseteq Nat /\ accepted \in Secrets

(* The X9.31 generator considers itself seeded as soon as the one inside   *)
(* is, and no longer (doc/api.tex:2206), also when a poll gathered too     *)
(* little or threw, and after clear().                                     *)
WrapperSeededWithInner == IsSeeded <=> inner.seeded

(* No input is lost: the bytes that are given out next depend on every     *)
(* input since the last clear(), a good poll followed by a bad one, and    *)
(* what a poll gathered before it threw, included (hmac_rng.cpp:91-93).    *)
(* No byte of R is given out twice.                                        *)
OutputDependsOnAllEntropy ==
  IsSeeded =>
    /\ accepted \subseteq x931.R
    /\ accepted \subseteq Output(inner)
    /\ handed = 0 .. x931.position - 1

(* The inductive invariant of the proofs: what has been accepted is in the *)
(* key from which all output of the inner generator is derived.            *)
Secret(g) == IF g.kind = "HMAC_RNG" THEN g.prf ELSE g.mac
RngInv ==
  /\ RngTypeOK
  /\ WrapperSeededWithInner
  /\ accepted \subseteq Secret(inner)
  /\ IsSeeded => accepted \subseteq x931.R /\ handed = 0 .. x931.position - 1

(* However little the sources give, and whether a command answers, falls   *)
(* silent, ignores SIGTERM or dies, the loop of reseed ends.  Two things   *)
(* keep it from ending: a host that collects the child's status itself     *)
(* (unix_cmd.cpp:197-199), and a command that goes on writing, which is    *)
(* read for as long as it does (es_unix.cpp:98-104).                       *)
PollingEnds ==
  \/ (host = "default" /\ call = "reseed") ~> (step = "idle" /\ ~Polling)
  \/ <>[](step = "read") /\ []<>queued
=============================================================================
