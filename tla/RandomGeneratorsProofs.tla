---------------------- MODULE RandomGeneratorsProofs ----------------------
(***************************************************************************)
(* Proofs about the random generators and the commands they run, for any   *)
(* sources, goals, sizes and numbers of programs.                          *)
(***************************************************************************)
EXTENDS RandomGenerators, TLAPS

USE NumberAssumption DEF NumberAssumption

-----------------------------------------------------------------------------
(* Commands.                                                               *)

(* What is added to an accumulator keeps it one.                           *)
LEMMA AddedType ==
  ASSUME NEW a \in [goal : Nat, bits : Nat], NEW b \in Nat
  PROVE  Added(a, b) \in [goal : Nat, bits : Nat]
  BY DEF Added

(* A poll's start and every step of it keep the types.                     *)
LEMMA PollTypes == ASSUME IInv, StartPoll \/ Poll PROVE TypeOK'
  <1> USE DEF IInv, TypeOK, Steps
  <1>1. CASE StartPoll
    <2>1. accum' \in [goal : Nat, bits : Nat]
      BY <1>1, AddedType DEF StartPoll
    <2>2. QED
      BY <1>1, <2>1 DEF StartPoll, process
  <1>2. CASE CreatePipeFails
    BY <1>2 DEF CreatePipeFails, process
  <1>3. CASE CreatePipe
    BY <1>3 DEF CreatePipe, process
  <1>4. CASE Read
    <2>1. accum' \in [goal : Nat, bits : Nat]
      BY <1>4, AddedType DEF Read
    <2>2. QED
      BY <1>4, <2>1 DEF Read
  <1>5. CASE ReadStops
    BY <1>5 DEF ReadStops, process
  <1>6. CASE Probe
    BY <1>6 DEF Probe, Waitpid, process
  <1>7. CASE Terminate
    BY <1>7 DEF Terminate, process
  <1>8. CASE ProbeAgain
    BY <1>8 DEF ProbeAgain, Waitpid, process
  <1>9. CASE Kill
    BY <1>9 DEF Kill, process
  <1>10. CASE Reap
    BY <1>10 DEF Reap, process
  <1>11. CASE ReapFails
    BY <1>11 DEF ReapFails, vars, commandVars, process
  <1>12. CASE Close
    <2>1. step' \in Steps /\ fds' \in {{}, {"read"}}
      BY <1>12 DEF Close
    <2>2. child' \in {"none", "running", "zombie", "gone", "stranger"}
      BY <1>12 DEF Close
    <2>4. pipe' \in BOOLEAN /\ killed' \in BOOLEAN /\ struck' \in BOOLEAN /\ queued' \in BOOLEAN
      BY <1>12 DEF Close
    <2>5. UNCHANGED <<host, j, accum>>
      BY <1>12 DEF Close
    <2>6. QED
      BY <2>1, <2>2, <2>4, <2>5
  <1>13. CASE NextProgram
    <2>1. step' \in Steps
      BY <1>13 DEF NextProgram
    <2>2. j' \in Nat
      BY <1>13 DEF NextProgram
    <2>3. UNCHANGED <<host, pipe, fds, process, killed, struck, accum>>
      BY <1>13 DEF NextProgram
    <2>4. QED
      BY <2>1, <2>2, <2>3 DEF process
  <1>14. QED
    BY <1>1, <1>2, <1>3, <1>4, <1>5, <1>6, <1>7,
       <1>8, <1>9, <1>10, <1>11, <1>12, <1>13 DEF Poll

(* They keep the child watched until it is reaped.                         *)
LEMMA PollChild == ASSUME IInv, StartPoll \/ Poll PROVE ChildInv'
  <1> USE DEF IInv, TypeOK, ChildInv, WithPipe, Watched
  <1>1. CASE StartPoll
    BY <1>1 DEF StartPoll, process
  <1>2. CASE CreatePipeFails
    BY <1>2 DEF CreatePipeFails, process
  <1>3. CASE CreatePipe
    BY <1>3 DEF CreatePipe, process
  <1>4. CASE Read
    BY <1>4 DEF Read, process
  <1>5. CASE ReadStops
    BY <1>5 DEF ReadStops, process
  <1>6. CASE Probe
    BY <1>6 DEF Probe, Waitpid, process
  <1>7. CASE Terminate
    BY <1>7 DEF Terminate, process
  <1>8. CASE ProbeAgain
    BY <1>8 DEF ProbeAgain, Waitpid, process
  <1>9. CASE Kill
    BY <1>9 DEF Kill, process
  <1>10. CASE Reap
    BY <1>10 DEF Reap, process
  <1>11. CASE ReapFails
    BY <1>11 DEF ReapFails, vars, commandVars, process
  <1>12. CASE Close
    <2>1. child' \in {"none", "gone", "stranger"}
      BY <1>12 DEF Close
    <2>2. step' = "next" /\ ~pipe' /\ fds' = {} /\ UNCHANGED <<host, j, struck>>
      BY <1>12 DEF Close
    <2>3. step' \notin WithPipe
      BY <2>2
    <2>4. j' < NumPrograms
      BY <1>12, <2>2 DEF Close
    <2>5. QED
      BY <2>1, <2>2, <2>3, <2>4
  <1>13. CASE NextProgram
    <2>1. step' \notin WithPipe /\ step \notin WithPipe
      BY <1>13 DEF NextProgram
    <2>2. step' # "idle" => j' < NumPrograms
      BY <1>13 DEF NextProgram
    <2>3. UNCHANGED <<host, pipe, fds, child, struck>>
      BY <1>13 DEF NextProgram, process
    <2>4. QED
      BY <2>1, <2>2, <2>3
  <1>14. QED
    BY <1>1, <1>2, <1>3, <1>4, <1>5, <1>6, <1>7,
       <1>8, <1>9, <1>10, <1>11, <1>12, <1>13 DEF Poll

(* What the program that runs and the kernel do keeps both.                *)
LEMMA SystemNext == ASSUME IInv, System PROVE IInv'
  <1>1. CASE ChildWrites
    <2>1. TypeOK'
      BY <1>1 DEF ChildWrites, IInv, TypeOK
    <2>2. QED
      BY <1>1, <2>1 DEF ChildWrites, IInv, ChildInv
  <1>2. CASE ChildExits
    <2>1. TypeOK'
      BY <1>2 DEF ChildExits, IInv, TypeOK
    <2>2. ChildInv'
      BY <1>2 DEF ChildExits, IInv, TypeOK, ChildInv, WithPipe, Watched
    <2>3. QED
      BY <2>1, <2>2 DEF IInv
  <1>3. CASE PidIsReused
    <2>1. TypeOK'
      BY <1>3 DEF PidIsReused, IInv, TypeOK
    <2>2. ChildInv'
      BY <1>3 DEF PidIsReused, IInv, TypeOK, ChildInv, WithPipe, Watched
    <2>3. QED
      BY <2>1, <2>2 DEF IInv
  <1>4. QED
    BY <1>1, <1>2, <1>3 DEF System

(* Other sources change nothing but the accumulator.                       *)
LEMMA ElsewhereNext ==
  ASSUME IInv, UNCHANGED commandVars, accum' \in [goal : Nat, bits : Nat]
  PROVE  IInv'
  BY DEF IInv, TypeOK, ChildInv, commandVars, process

(* At first there is no child.                                             *)
LEMMA CommandInitial == ASSUME CommandInit, accum \in [goal : Nat, bits : Nat] PROVE IInv
  <1>1. TypeOK
    <2> USE DEF CommandInit
    <2>1. step \in Steps /\ fds \in {{}, {"read"}} /\ j \in Nat
      BY DEF Steps
    <2>2. child \in {"none", "running", "zombie", "gone", "stranger"}
      OBVIOUS
    <2>3. pipe \in BOOLEAN /\ killed \in BOOLEAN /\ struck \in BOOLEAN /\ queued \in BOOLEAN
      OBVIOUS
    <2>4. QED
      BY <2>1, <2>2, <2>3 DEF TypeOK
  <1>2. ChildInv
    <2>1. step \notin WithPipe /\ step = "idle"
      BY DEF CommandInit, WithPipe
    <2>2. ~pipe /\ fds = {} /\ child = "none" /\ ~struck
      BY DEF CommandInit
    <2>3. QED
      BY <2>1, <2>2 DEF ChildInv, Watched
  <1>3. QED
    BY <1>1, <1>2 DEF IInv

(* The invariant holds of the command runner, whatever polls it.           *)
THEOREM CommandsAreSafe == Spec => []IInv
  <1>1. Init => IInv
    BY CommandInitial DEF Init
  <1>2. IInv /\ [Next]_vars => IInv'
    <2> SUFFICES ASSUME IInv, [Next]_vars PROVE IInv'
      OBVIOUS
    <2>1. CASE UNCHANGED vars
      BY <2>1, ElsewhereNext DEF vars, IInv, TypeOK
    <2>2. CASE Elsewhere
      BY <2>2, ElsewhereNext DEF Elsewhere
    <2>3. QED
      BY <2>1, <2>2, PollTypes, PollChild, SystemNext DEF Next, IInv
  <1>3. QED
    BY <1>1, <1>2, PTL DEF Spec

-----------------------------------------------------------------------------
(* The inner generators.                                                   *)

(* A PRF call keeps the key, and its output depends on it.                 *)
LEMMA HmacPrfFacts ==
  ASSUME NEW g \in HmacState
  PROVE  /\ HmacPrf(g) \in HmacState
         /\ HmacPrf(g).prf = g.prf /\ HmacPrf(g).seeded = g.seeded
         /\ g.prf \subseteq HmacPrf(g).K
  BY DEF HmacPrf, HmacState, Secrets

(* The next PRF key depends on the one before and on all that was fed.     *)
LEMMA HmacRekeyFacts ==
  ASSUME NEW g \in HmacState
  PROVE  /\ HmacRekey(g) \in HmacState
         /\ HmacRekey(g).seeded = g.seeded
         /\ g.prf \cup g.fed \subseteq HmacRekey(g).prf
  <1> DEFINE rng == HmacPrf(g)
             reseed == HmacPrf(rng)
  <1>1. rng \in HmacState /\ g.prf \subseteq rng.K
    BY HmacPrfFacts
  <1>2. reseed \in HmacState
    BY <1>1, HmacPrfFacts
  <1> HIDE DEF rng, reseed
  <1>3. HmacRekey(g) = [g EXCEPT !.prf = g.fed \cup rng.K \cup reseed.K, !.fed = {}, !.K = {}]
    BY DEF HmacRekey, rng, reseed
  <1>4. QED
    BY <1>1, <1>2, <1>3 DEF HmacState, Secrets

(* A new buffer depends on the MAC's key, which stays.                     *)
LEMMA RefillFacts ==
  ASSUME NEW g \in PoolState
  PROVE  /\ RefillBuffer(g) \in PoolState
         /\ RefillBuffer(g).mac = g.mac /\ RefillBuffer(g).seeded = g.seeded
         /\ g.mac \subseteq RefillBuffer(g).buffer
  <1>1. (g.counter + 1) % ITERATIONS_BEFORE_RESEED \in 0 .. ITERATIONS_BEFORE_RESEED - 1
    BY SizeAssumption DEF SizeAssumption, PoolState
  <1>2. QED
    BY <1>1 DEF RefillBuffer, PoolState, Secrets

(* The new MAC key depends on the old one, on the pool, and on what is fed.*)
LEMMA MixFacts ==
  ASSUME NEW g \in PoolState
  PROVE  /\ MixKeys(g) \in PoolState
         /\ g.mac \cup g.pool \cup g.fed \subseteq MixKeys(g).mac
         /\ MixKeys(g).seeded = g.seeded
  BY DEF MixKeys, PoolState, Secrets

(* update_buffer, which mixes the pool when its counter says so.           *)
LEMMA PoolUpdateFacts ==
  ASSUME NEW g \in PoolState
  PROVE  /\ PoolUpdate(g) \in PoolState
         /\ PoolUpdate(g).seeded = g.seeded
         /\ g.mac \subseteq PoolUpdate(g).mac
         /\ g.mac \subseteq PoolUpdate(g).buffer
  <1> DEFINE once == RefillBuffer(g)
  <1>1. /\ once \in PoolState /\ once.mac = g.mac /\ once.seeded = g.seeded
        /\ g.mac \subseteq once.buffer
    BY RefillFacts
  <1>2. /\ MixKeys(once) \in PoolState
        /\ MixKeys(once).seeded = g.seeded
        /\ g.mac \subseteq MixKeys(once).mac
    BY <1>1, MixFacts
  <1>3. /\ RefillBuffer(MixKeys(once)) \in PoolState
        /\ RefillBuffer(MixKeys(once)).seeded = g.seeded
        /\ g.mac \subseteq RefillBuffer(MixKeys(once)).mac
        /\ g.mac \subseteq RefillBuffer(MixKeys(once)).buffer
    BY <1>2, RefillFacts
  <1>4. PoolUpdate(g) = IF once.counter = 0 THEN RefillBuffer(MixKeys(once)) ELSE once
    BY DEF PoolUpdate
  <1> HIDE DEF once
  <1>5. QED
    BY <1>1, <1>3, <1>4

(* Reseeding a Randpool: the input goes through the pool into the key.     *)
LEMMA PoolRekeyFacts ==
  ASSUME NEW g \in PoolState
  PROVE  /\ PoolRekey(g) \in PoolState
         /\ PoolRekey(g).seeded = g.seeded
         /\ g.mac \cup g.fed \subseteq PoolRekey(g).mac
  <1> DEFINE filled == [g EXCEPT !.pool = @ \cup g.mac \cup g.fed, !.fed = {}]
  <1>1. /\ filled \in PoolState /\ filled.seeded = g.seeded
        /\ g.mac \cup g.fed \subseteq filled.pool
    BY DEF PoolState, Secrets
  <1>2. PoolRekey(g) = PoolUpdate(MixKeys(filled))
    BY DEF PoolRekey, MixPool
  <1> HIDE DEF filled
  <1>3. /\ MixKeys(filled) \in PoolState /\ MixKeys(filled).seeded = g.seeded
        /\ g.mac \cup g.fed \subseteq MixKeys(filled).mac
    BY <1>1, MixFacts
  <1>4. QED
    BY <1>2, <1>3, PoolUpdateFacts

(* What both inner generators promise: reseeding puts what was fed into    *)
(* the secret, and no call takes anything out of it; all output depends on *)
(* all of it.                                                              *)
LEMMA InnerFacts ==
  ASSUME NEW g \in InnerState
  PROVE  /\ Rekeyed(g) \in InnerState /\ Rekeyed(g).seeded = g.seeded
         /\ Secret(g) \cup g.fed \subseteq Secret(Rekeyed(g))
         /\ Drawn(g) \in InnerState /\ Drawn(g).seeded = g.seeded
         /\ Secret(g) \subseteq Secret(Drawn(g))
         /\ KeyDrawn(g) \in InnerState /\ KeyDrawn(g).seeded = g.seeded
         /\ Secret(g) \subseteq Secret(KeyDrawn(g))
         /\ Output(g) \in Secrets
         /\ Secret(g) \subseteq Output(g)
  <1>1. CASE g \in HmacState
    <2>1. /\ g.kind = "HMAC_RNG"
          /\ Rekeyed(g) = HmacRekey(g) /\ Output(g) = HmacPrf(g).K
          /\ Drawn(g) = HmacPrf(g) /\ KeyDrawn(g) = HmacPrf(g)
      BY <1>1 DEF Rekeyed, Drawn, KeyDrawn, Output, HmacRandomize, HmacState
    <2>2. HmacRekey(g).kind = "HMAC_RNG" /\ HmacPrf(g).kind = "HMAC_RNG"
      BY <1>1, HmacRekeyFacts, HmacPrfFacts DEF HmacState
    <2>3. /\ HmacRekey(g) \in HmacState /\ HmacRekey(g).seeded = g.seeded
          /\ g.prf \cup g.fed \subseteq HmacRekey(g).prf
      BY <1>1, HmacRekeyFacts
    <2>4. /\ HmacPrf(g) \in HmacState /\ HmacPrf(g).seeded = g.seeded
          /\ HmacPrf(g).prf = g.prf /\ g.prf \subseteq HmacPrf(g).K /\ HmacPrf(g).K \in Secrets
      BY <1>1, HmacPrfFacts DEF HmacState
    <2>5. QED
      BY <2>1, <2>2, <2>3, <2>4 DEF Secret, InnerState
  <1>2. CASE g \in PoolState
    <2> DEFINE once == PoolUpdate(g)
               twice == PoolUpdate(once)
    <2>1. /\ g.kind # "HMAC_RNG"
          /\ Rekeyed(g) = PoolRekey(g) /\ Output(g) = once.buffer
          /\ Drawn(g) = twice /\ KeyDrawn(g) = PoolUpdate(twice)
      BY <1>2 DEF Rekeyed, Drawn, KeyDrawn, Output, PoolRandomize, PoolState
    <2>2. /\ once \in PoolState /\ once.seeded = g.seeded
          /\ g.mac \subseteq once.mac /\ g.mac \subseteq once.buffer /\ once.buffer \in Secrets
      BY <1>2, PoolUpdateFacts DEF PoolState
    <2> HIDE DEF once
    <2>3. /\ twice \in PoolState /\ twice.seeded = g.seeded
          /\ g.mac \subseteq twice.mac /\ twice.kind # "HMAC_RNG"
      BY <2>2, PoolUpdateFacts DEF PoolState
    <2> HIDE DEF twice
    <2>4. /\ PoolUpdate(twice) \in PoolState /\ PoolUpdate(twice).seeded = g.seeded
          /\ g.mac \subseteq PoolUpdate(twice).mac /\ PoolUpdate(twice).kind # "HMAC_RNG"
      BY <2>3, PoolUpdateFacts DEF PoolState
    <2>5. /\ PoolRekey(g) \in PoolState /\ PoolRekey(g).seeded = g.seeded
          /\ g.mac \cup g.fed \subseteq PoolRekey(g).mac /\ PoolRekey(g).kind # "HMAC_RNG"
      BY <1>2, PoolRekeyFacts DEF PoolState
    <2>6. QED
      BY <2>1, <2>2, <2>3, <2>4, <2>5 DEF Secret, InnerState
  <1>3. QED
    BY <1>1, <1>2 DEF InnerState

-----------------------------------------------------------------------------
(* The X9.31 generator.                                                    *)

X931State ==
  [has_V : BOOLEAN, V : Secrets, R : Secrets, key : Secrets, position : 0 .. BLOCK_SIZE]

(* A new R depends on what the inner generator gave for it.                *)
LEMMA RefilledFacts ==
  ASSUME NEW x \in X931State, NEW g \in InnerState
  PROVE  /\ Refilled(x, g) \in X931State
         /\ Secret(g) \subseteq Refilled(x, g).R
         /\ Refilled(x, g).position = 0 /\ Refilled(x, g).has_V = x.has_V
  <1>1. Output(g) \in Secrets /\ Secret(g) \subseteq Output(g)
    BY InnerFacts
  <1>2. 0 \in 0 .. BLOCK_SIZE
    BY SizeAssumption DEF SizeAssumption
  <1>3. QED
    BY <1>1, <1>2 DEF Refilled, X931State, Secrets

(* rekey, on a generator that is not seeded while the inner one is not,    *)
(* leaves the two seeded alike, and R dependent on the whole secret.       *)
LEMMA RekeyFacts ==
  ASSUME NEW g \in InnerState, x931 \in X931State, x931.has_V => g.seeded, Rekey(g)
  PROVE  /\ x931' \in X931State /\ inner' \in InnerState
         /\ Secret(g) \subseteq Secret(inner')
         /\ x931'.has_V <=> inner'.seeded
         /\ x931'.has_V => /\ Secret(g) \subseteq x931'.R
                           /\ handed' = {} /\ x931'.position = 0
         /\ handed' = {} \/ handed' = handed
  <1>1. CASE ~g.seeded
    BY <1>1 DEF Rekey
  <1>2. CASE g.seeded
    <2> DEFINE g1 == KeyDrawn(g)
               g2 == Drawn(g1)
               keyed == [x931 EXCEPT !.has_V = TRUE, !.key = Output(g), !.V = Output(g1)]
    <2>1. g1 \in InnerState /\ g1.seeded = g.seeded /\ Secret(g) \subseteq Secret(g1)
      BY InnerFacts
    <2> HIDE DEF g1
    <2>2. g2 \in InnerState /\ g2.seeded = g.seeded /\ Secret(g) \subseteq Secret(g2)
      BY <2>1, InnerFacts
    <2> HIDE DEF g2
    <2>3. Output(g) \in Secrets /\ Output(g1) \in Secrets
      BY <2>1, InnerFacts
    <2>4. keyed \in X931State /\ keyed.has_V = TRUE
      BY <2>3 DEF X931State
    <2>5. x931' = Refilled(keyed, g2) /\ inner' = Drawn(g2) /\ handed' = {}
      BY <1>2 DEF Rekey, Rewound, g1, g2
    <2> HIDE DEF keyed
    <2>6. /\ Refilled(keyed, g2) \in X931State
          /\ Secret(g2) \subseteq Refilled(keyed, g2).R
          /\ Refilled(keyed, g2).position = 0 /\ Refilled(keyed, g2).has_V = TRUE
      BY <2>2, <2>4, RefilledFacts
    <2>7. Drawn(g2) \in InnerState /\ Drawn(g2).seeded = g.seeded /\ Secret(g) \subseteq Secret(Drawn(g2))
      BY <2>2, InnerFacts
    <2>8. QED
      BY <1>2, <2>2, <2>5, <2>6, <2>7
  <1>3. QED
    BY <1>1, <1>2

-----------------------------------------------------------------------------
(* The calls keep both invariants.                                         *)

(* A generator whose flag alone is changed is one, with the same secret.   *)
LEMMA SeededFacts ==
  ASSUME NEW g \in InnerState, NEW b \in BOOLEAN
  PROVE  LET h == [g EXCEPT !.seeded = b]
         IN h \in InnerState /\ h.seeded = b /\ Secret(h) = Secret(g)
  BY DEF InnerState, HmacState, PoolState, Secret

(* So is one that has been fed.                                            *)
LEMMA FedFacts ==
  ASSUME NEW g \in InnerState, NEW input \in Secrets
  PROVE  LET h == [g EXCEPT !.fed = @ \cup input]
         IN /\ h \in InnerState /\ h.seeded = g.seeded /\ Secret(h) = Secret(g)
            /\ h.fed = g.fed \cup input
  BY DEF InnerState, HmacState, PoolState, Secret, Secrets

(* The inputs that a reseed or add_entropy accepts reach the secret.       *)
LEMMA AcceptFacts ==
  ASSUME RngInv, NEW g \in InnerState, NEW b \in BOOLEAN,
         Secret(g) = Secret(inner), inner.seeded => b,
         Rekey([Rekeyed(g) EXCEPT !.seeded = b]),
         accepted' = accepted \cup g.fed
  PROVE  /\ inner' \in InnerState /\ x931' \in X931State
         /\ handed' \subseteq Nat /\ accepted' \in Secrets
         /\ WrapperSeededWithInner'
         /\ accepted' \subseteq Secret(inner')
         /\ (IsSeeded => accepted \subseteq x931.R /\ handed = 0 .. x931.position - 1)'
  <1> DEFINE h == [Rekeyed(g) EXCEPT !.seeded = b]
  <1>1. Rekeyed(g) \in InnerState /\ Secret(g) \cup g.fed \subseteq Secret(Rekeyed(g))
    BY InnerFacts
  <1>2. h \in InnerState /\ h.seeded = b /\ Secret(h) = Secret(Rekeyed(g))
    BY <1>1, SeededFacts
  <1>3. x931 \in X931State /\ handed \subseteq Nat /\ accepted \in Secrets /\ g.fed \in Secrets
    BY DEF RngInv, RngTypeOK, X931State, InnerState, HmacState, PoolState
  <1>4. x931.has_V => h.seeded
    BY <1>2 DEF RngInv, WrapperSeededWithInner, IsSeeded
  <1>5. Rekey(h)
    OBVIOUS
  <1> HIDE DEF h
  <1>6. /\ x931' \in X931State /\ inner' \in InnerState
        /\ Secret(h) \subseteq Secret(inner')
        /\ x931'.has_V <=> inner'.seeded
        /\ x931'.has_V => /\ Secret(h) \subseteq x931'.R
                          /\ handed' = {} /\ x931'.position = 0
        /\ handed' = {} \/ handed' = handed
    BY <1>2, <1>3, <1>4, <1>5, RekeyFacts
  <1>7. accepted' \subseteq Secret(h)
    BY <1>1, <1>2 DEF RngInv
  <1>8. accepted' \in Secrets
    BY <1>3 DEF Secrets
  <1>9. 0 .. 0 - 1 = {}
    OBVIOUS
  <1>10. QED
    BY <1>3, <1>6, <1>7, <1>8, <1>9 DEF WrapperSeededWithInner, IsSeeded

(* randomize: what is left of R, or a new R.                               *)
LEMMA RandomizeNext ==
  ASSUME RngInv, NEW n \in 1 .. BLOCK_SIZE, Randomize(n)
  PROVE  RngInv'
  <1>1. BLOCK_SIZE \in Nat
    BY SizeAssumption DEF SizeAssumption
  <1>2. /\ x931 \in X931State /\ x931.has_V /\ inner \in InnerState
        /\ x931.position \in 0 .. BLOCK_SIZE /\ handed = 0 .. x931.position - 1
        /\ accepted \subseteq Secret(inner) /\ accepted \subseteq x931.R /\ inner.seeded
    BY DEF RngInv, RngTypeOK, X931State, Randomize, WrapperSeededWithInner, IsSeeded
  <1>3. UNCHANGED <<call, attempt, serial, accepted>>
    BY DEF Randomize
  <1>4. CASE n <= BLOCK_SIZE - x931.position
    <2>1. /\ x931' = [x931 EXCEPT !.position = @ + n]
          /\ handed' = handed \cup (x931.position .. x931.position + n - 1)
          /\ inner' = inner
      BY <1>4 DEF Randomize
    <2>2. x931.position + n \in 0 .. BLOCK_SIZE
      BY <1>1, <1>2, <1>4
    <2>3. /\ x931' \in X931State /\ x931'.position = x931.position + n
          /\ x931'.has_V /\ x931'.R = x931.R
      BY <1>2, <2>1, <2>2 DEF X931State
    <2>4. handed' = 0 .. x931'.position - 1
      BY <1>1, <1>2, <2>1, <2>3
    <2>5. handed' \subseteq Nat
      BY <1>1, <1>2, <2>3, <2>4
    <2>6. QED
      BY <1>2, <1>3, <2>1, <2>3, <2>4, <2>5
      DEF RngInv, RngTypeOK, X931State, WrapperSeededWithInner, IsSeeded
  <1>5. CASE ~(n <= BLOCK_SIZE - x931.position)
    <2> DEFINE x == Refilled(x931, inner)
               p == n - (BLOCK_SIZE - x931.position)
    <2>1. x931' = [x EXCEPT !.position = p] /\ handed' = 0 .. p - 1 /\ inner' = Drawn(inner)
      BY <1>5 DEF Randomize
    <2>2. p \in 0 .. BLOCK_SIZE
      BY <1>1, <1>2, <1>5
    <2>3. x \in X931State /\ Secret(inner) \subseteq x.R /\ x.has_V = x931.has_V
      BY <1>2, RefilledFacts
    <2> HIDE DEF x, p
    <2>4. x931' \in X931State /\ x931'.position = p /\ x931'.has_V /\ x931'.R = x.R
      BY <1>2, <2>1, <2>2, <2>3 DEF X931State
    <2>5. /\ Drawn(inner) \in InnerState /\ Drawn(inner).seeded = inner.seeded
          /\ Secret(inner) \subseteq Secret(Drawn(inner))
      BY <1>2, InnerFacts
    <2>6. handed' \subseteq Nat
      BY <1>1, <2>1, <2>2
    <2>7. QED
      BY <1>2, <1>3, <2>1, <2>3, <2>4, <2>5, <2>6
      DEF RngInv, RngTypeOK, X931State, WrapperSeededWithInner, IsSeeded
  <1>6. QED
    BY <1>4, <1>5

(* add_entropy: the input is fed, and with what earlier polls fed accepted.*)
LEMMA AddEntropyNext ==
  ASSUME RngInv, NEW empty \in BOOLEAN, AddEntropy(empty)
  PROVE  RngInv'
  <1> DEFINE input == IF empty THEN {} ELSE {serial + 1}
             fed == [inner EXCEPT !.fed = @ \cup input]
             b == SeedsWith(inner, ~empty, TRUE)
  <1>1. serial \in 0 .. MaxInputs /\ inner \in InnerState /\ MaxInputs \in Nat
    BY SizeAssumption DEF SizeAssumption, RngInv, RngTypeOK
  <1>2. input \in Secrets
    BY <1>1 DEF Secrets, Inputs, AddEntropy
  <1>3. inner.seeded \in BOOLEAN
    BY <1>1 DEF InnerState, HmacState, PoolState
  <1>4. b \in BOOLEAN /\ (inner.seeded => b)
    BY <1>3 DEF SeedsWith
  <1>5. Rekey([Rekeyed(fed) EXCEPT !.seeded = b]) /\ accepted' = accepted \cup fed.fed
    BY DEF AddEntropy
  <1>6. serial' \in 0 .. MaxInputs /\ call' = "idle" /\ attempt' \in Nat
    BY <1>1 DEF AddEntropy, RngInv, RngTypeOK
  <1> HIDE DEF input, b
  <1>7. fed \in InnerState /\ Secret(fed) = Secret(inner)
    BY <1>1, <1>2, FedFacts
  <1> HIDE DEF fed
  <1>8. /\ inner' \in InnerState /\ x931' \in X931State
        /\ handed' \subseteq Nat /\ accepted' \in Secrets
        /\ WrapperSeededWithInner'
        /\ accepted' \subseteq Secret(inner')
        /\ (IsSeeded => accepted \subseteq x931.R /\ handed = 0 .. x931.position - 1)'
    BY <1>4, <1>5, <1>7, AcceptFacts
  <1>9. QED
    BY <1>6, <1>8 DEF RngInv, RngTypeOK, X931State

(* A new generator of either kind is unseeded.                             *)
LEMMA NewFacts ==
  ASSUME NEW kind
  PROVE  New(kind) \in InnerState /\ New(kind).seeded = FALSE
  <1>1. 0 \in 0 .. ITERATIONS_BEFORE_RESEED - 1
    BY SizeAssumption DEF SizeAssumption
  <1>2. NewHmac \in HmacState /\ NewHmac.seeded = FALSE
    BY DEF NewHmac, HmacState, Secrets
  <1>3. NewRandpool \in PoolState /\ NewRandpool.seeded = FALSE
    BY <1>1 DEF NewRandpool, PoolState, Secrets
  <1>4. QED
    BY <1>2, <1>3 DEF New, InnerState

(* Neither is an X9.31 generator.                                          *)
LEMMA NewX931Facts == NewX931 \in X931State /\ NewX931.has_V = FALSE
  <1>1. 0 \in 0 .. BLOCK_SIZE
    BY SizeAssumption DEF SizeAssumption
  <1>2. QED
    BY <1>1 DEF NewX931, X931State, Secrets

(* clear forgets everything.                                               *)
LEMMA ClearNext == ASSUME RngInv, Clear PROVE RngInv'
  <1>1. inner' \in InnerState /\ inner'.seeded = FALSE
    BY NewFacts DEF Clear
  <1>2. x931' \in X931State /\ x931'.has_V = FALSE
    BY NewX931Facts DEF Clear
  <1>3. handed' = {} /\ accepted' = {} /\ serial' = 0 /\ call' = "idle" /\ attempt' = attempt
    BY DEF Clear
  <1>4. 0 \in 0 .. MaxInputs
    BY SizeAssumption DEF SizeAssumption
  <1>5. RngTypeOK'
    BY <1>1, <1>2, <1>3, <1>4 DEF RngInv, RngTypeOK, X931State, Secrets
  <1>6. QED
    BY <1>1, <1>2, <1>3, <1>5 DEF RngInv, WrapperSeededWithInner, IsSeeded

(* The start of a reseed touches neither generator.                        *)
LEMMA ReseedNext == ASSUME RngInv, NEW goal \in Goals, Reseed(goal) PROVE RngInv'
  <1>1. /\ call' = "reseed" /\ attempt' = 0 /\ serial' = serial + 1 /\ serial < MaxInputs
        /\ UNCHANGED <<inner, x931, handed, accepted>>
    BY DEF Reseed, generator
  <1>2. serial' \in 0 .. MaxInputs /\ serial' > 0
    BY <1>1, SizeAssumption DEF SizeAssumption, RngInv, RngTypeOK
  <1>3. RngTypeOK'
    BY <1>1, <1>2 DEF RngInv, RngTypeOK
  <1>4. QED
    BY <1>1, <1>3 DEF RngInv, WrapperSeededWithInner, IsSeeded

(* A poll feeds the inner generator, and leaves its secret as it was.      *)
LEMMA FeedNext ==
  ASSUME RngInv, call = "reseed", Feed, attempt' = attempt + 1,
         UNCHANGED <<call, x931, handed, serial, accepted>>
  PROVE  RngInv'
  <1>1. serial \in 1 .. MaxInputs /\ inner \in InnerState /\ MaxInputs \in Nat
    BY SizeAssumption DEF SizeAssumption, RngInv, RngTypeOK
  <1>2. {serial} \in Secrets
    BY <1>1 DEF Secrets, Inputs
  <1>3. inner' \in InnerState /\ inner'.seeded = inner.seeded /\ Secret(inner') = Secret(inner)
    BY <1>1, <1>2, FedFacts DEF Feed
  <1>4. RngTypeOK'
    BY <1>3 DEF RngInv, RngTypeOK
  <1>5. QED
    BY <1>3, <1>4 DEF RngInv, WrapperSeededWithInner, IsSeeded

(* The end of a reseed.                                                    *)
LEMMA FinishNext == ASSUME IInv, RngInv, FinishReseed PROVE RngInv'
  <1> DEFINE b == Rekeyed(inner).seeded \/ GoalAchieved(accum)
  <1>1. inner \in InnerState /\ Rekeyed(inner) \in InnerState /\ Rekeyed(inner).seeded = inner.seeded
    BY InnerFacts DEF RngInv, RngTypeOK
  <1>2. b \in BOOLEAN /\ (inner.seeded => b)
    BY <1>1 DEF GoalAchieved
  <1>3. [Rekeyed(inner) EXCEPT !.seeded = @ \/ GoalAchieved(accum)]
          = [Rekeyed(inner) EXCEPT !.seeded = b]
    OBVIOUS
  <1> HIDE DEF b
  <1>4. Rekey([Rekeyed(inner) EXCEPT !.seeded = b]) /\ accepted' = accepted \cup inner.fed
    BY <1>3 DEF FinishReseed
  <1>5. call' = "idle" /\ attempt' = 0 /\ serial' = serial
    BY DEF FinishReseed
  <1>6. /\ inner' \in InnerState /\ x931' \in X931State
        /\ handed' \subseteq Nat /\ accepted' \in Secrets
        /\ WrapperSeededWithInner'
        /\ accepted' \subseteq Secret(inner')
        /\ (IsSeeded => accepted \subseteq x931.R /\ handed = 0 .. x931.position - 1)'
    BY <1>1, <1>2, <1>4, AcceptFacts
  <1>7. QED
    BY <1>5, <1>6 DEF RngInv, RngTypeOK, X931State

(* What a poll credits is a number.                                        *)
LEMMA GainsType ==
  ASSUME IInv, RngInv, Polling, Current # "unix", NEW b \in Gains(Current)
  PROVE  b \in Nat
  <1>1. accum.goal \in Nat /\ accum.bits \in Nat /\ accum.bits < accum.goal
    BY DEF IInv, TypeOK, Polling, GoalAchieved
  <1>2. Remaining \in Nat /\ ByteBits \in Nat \ {0}
    BY <1>1, SizeAssumption DEF SizeAssumption, Remaining
  <1>3. Sources \in Seq(SourceKinds) /\ Sources # <<>> /\ attempt \in Nat
    BY SourcesAssumption DEF SourcesAssumption, Polling, RngInv, RngTypeOK
  <1>4. Len(Sources) \in Nat \ {0}
    BY <1>3
  <1>5. (attempt % Len(Sources)) + 1 \in 1 .. Len(Sources)
    BY <1>3, <1>4
  <1>6. Current \in SourceKinds
    BY <1>3, <1>5 DEF Current
  <1>7. CASE Current \in {"device", "egd"}
    <2>1. Gains(Current) = {ByteBits * n : n \in 0 .. Remaining \div ByteBits}
      BY <1>7 DEF Gains
    <2>2. PICK n \in 0 .. Remaining \div ByteBits : b = ByteBits * n
      BY <2>1
    <2>3. n \in Nat
      BY <1>2
    <2>4. QED
      BY <1>2, <2>2, <2>3
  <1>8. CASE Current = "ftw"
    <2>1. Gains(Current) = 0 .. Remaining
      BY <1>8 DEF Gains
    <2>2. QED
      BY <1>2, <2>1
  <1>9. CASE Current = "timer"
    BY <1>9 DEF Gains
  <1>10. QED
    BY <1>6, <1>7, <1>8, <1>9 DEF SourceKinds

(* One step of a poll keeps both invariants.                               *)
LEMMA PollStepNext == ASSUME IInv, RngInv, PollStep PROVE IInv' /\ RngInv'
  <1>1. CASE PollSource
    <2>1. PICK b \in Gains(Current) : accum' = Added(accum, b)
      BY <1>1 DEF PollSource
    <2>2. b \in Nat
      BY <1>1, GainsType DEF PollSource
    <2>3. accum' \in [goal : Nat, bits : Nat]
      BY <2>1, <2>2, AddedType DEF IInv, TypeOK
    <2>4. IInv'
      BY <1>1, <2>3, ElsewhereNext DEF PollSource
    <2>5. RngInv'
      BY <1>1, FeedNext DEF PollSource, Polling
    <2>6. QED
      BY <2>4, <2>5
  <1>2. CASE PollUnix
    <2>1. IInv'
      BY <1>2, PollTypes, PollChild DEF PollUnix, IInv
    <2>2. RngInv'
      BY <1>2, FeedNext DEF PollUnix, Polling
    <2>3. QED
      BY <2>1, <2>2
  <1>3. CASE PollThrows
    <2>1. accum' \in [goal : Nat, bits : Nat]
      BY <1>3 DEF PollThrows, NewAccumulator
    <2>2. IInv'
      BY <1>3, <2>1, ElsewhereNext DEF PollThrows
    <2>3. call' = "idle" /\ attempt' = 0 /\ UNCHANGED <<inner, x931, handed, accepted, serial>>
      BY <1>3 DEF PollThrows, generator
    <2>4. RngTypeOK'
      BY <2>3 DEF RngInv, RngTypeOK
    <2>5. QED
      BY <2>2, <2>3, <2>4 DEF RngInv, WrapperSeededWithInner, IsSeeded
  <1>4. CASE Poll /\ UNCHANGED rngVars
    <2>1. IInv'
      BY <1>4, PollTypes, PollChild DEF IInv
    <2>2. RngInv'
      BY <1>4 DEF rngVars, generator, RngInv, RngTypeOK, WrapperSeededWithInner, IsSeeded
    <2>3. QED
      BY <2>1, <2>2
  <1>5. QED
    BY <1>1, <1>2, <1>3, <1>4 DEF PollStep

(* A call that runs no command keeps the invariant of the commands.        *)
LEMMA CallNext == ASSUME IInv, RngInv, Call PROVE IInv' /\ RngInv'
  <1>1. accum \in [goal : Nat, bits : Nat]
    BY DEF IInv, TypeOK
  <1>2. CASE \E n \in 1 .. BLOCK_SIZE : Randomize(n)
    <2>1. IInv'
      BY <1>1, <1>2, ElsewhereNext DEF Randomize, vars
    <2>2. QED
      BY <1>2, <2>1, RandomizeNext
  <1>3. CASE \E empty \in BOOLEAN : AddEntropy(empty)
    <2>1. IInv'
      BY <1>1, <1>3, ElsewhereNext DEF AddEntropy, vars
    <2>2. QED
      BY <1>3, <2>1, AddEntropyNext
  <1>4. CASE Clear
    <2>1. IInv'
      BY <1>1, <1>4, ElsewhereNext DEF Clear, vars
    <2>2. QED
      BY <1>4, <2>1, ClearNext
  <1>5. CASE \E goal \in Goals : Reseed(goal)
    <2>1. PICK goal \in Goals : Reseed(goal)
      BY <1>5
    <2>2. goal \in Nat
      BY SizeAssumption DEF SizeAssumption
    <2>3. accum' \in [goal : Nat, bits : Nat] /\ UNCHANGED commandVars
      BY <2>1, <2>2 DEF Reseed, NewAccumulator
    <2>4. IInv'
      BY <2>3, ElsewhereNext
    <2>5. QED
      BY <2>1, <2>4, ReseedNext
  <1>6. QED
    BY <1>2, <1>3, <1>4, <1>5 DEF Call

(* Both hold at first.                                                     *)
LEMMA AllInitial == ASSUME AllInit PROVE IInv /\ RngInv
  <1>1. IInv
    BY CommandInitial DEF AllInit, NewAccumulator
  <1>2. inner \in InnerState /\ inner.seeded = FALSE
    BY NewFacts DEF AllInit, RngInit
  <1>3. x931 \in X931State /\ x931.has_V = FALSE
    BY NewX931Facts DEF AllInit, RngInit
  <1>4. call = "idle" /\ attempt = 0 /\ handed = {} /\ serial = 0 /\ accepted = {}
    BY DEF AllInit, RngInit
  <1>5. RngTypeOK
    BY <1>2, <1>3, <1>4, SizeAssumption DEF SizeAssumption, RngTypeOK, X931State, Secrets
  <1>6. QED
    BY <1>1, <1>2, <1>3, <1>4, <1>5 DEF RngInv, WrapperSeededWithInner, IsSeeded

(* The invariants of the generator and of the commands it runs hold        *)
(* together, for any build, sources, goals and sizes.                      *)
THEOREM GeneratorIsSafe == RngSpec => [](IInv /\ RngInv)
  <1>1. AllInit => IInv /\ RngInv
    BY AllInitial
  <1>2. IInv /\ RngInv /\ [RngNext]_allVars => (IInv /\ RngInv)'
    <2> SUFFICES ASSUME IInv, RngInv, [RngNext]_allVars PROVE IInv' /\ RngInv'
      OBVIOUS
    <2>1. CASE Call
      BY <2>1, CallNext
    <2>2. CASE PollStep
      BY <2>2, PollStepNext
    <2>3. CASE FinishReseed
      <3>1. IInv'
        BY <2>3, ElsewhereNext DEF FinishReseed, NewAccumulator
      <3>2. QED
        BY <2>3, <3>1, FinishNext
    <2>4. CASE (System \/ UNCHANGED vars) /\ UNCHANGED rngVars
      <3>1. IInv'
        BY <2>4, SystemNext, ElsewhereNext DEF vars, IInv, TypeOK
      <3>2. RngInv'
        BY <2>4 DEF rngVars, generator, RngInv, RngTypeOK, WrapperSeededWithInner, IsSeeded
      <3>3. QED
        BY <3>1, <3>2
    <2>5. QED
      BY <2>1, <2>2, <2>3, <2>4 DEF RngNext, allVars
  <1>3. QED
    BY <1>1, <1>2, PTL DEF RngSpec

(* No process and no descriptor is left over from a command, however it    *)
(* ended.                                                                  *)
THEOREM ChildrenAreReaped == RngSpec => []NoChildLeftBehind
  <1>1. IInv => NoChildLeftBehind
    BY DEF IInv, TypeOK, ChildInv, NoChildLeftBehind, Watched
  <1>2. QED
    BY <1>1, GeneratorIsSafe, PTL

(* Only the process that was started is ever signalled.                    *)
THEOREM NobodyElseIsStruck == RngSpec => []SignalsOnlyItsOwnChild
  <1>1. IInv => SignalsOnlyItsOwnChild
    BY DEF IInv, ChildInv, SignalsOnlyItsOwnChild
  <1>2. QED
    BY <1>1, GeneratorIsSafe, PTL

(* The X9.31 generator is seeded exactly while the one inside it is.       *)
THEOREM SeededTogether == RngSpec => []WrapperSeededWithInner
  <1>1. RngInv => WrapperSeededWithInner
    BY DEF RngInv
  <1>2. QED
    BY <1>1, GeneratorIsSafe, PTL

(* All output depends on every input since the last clear, and no byte is  *)
(* given out twice.                                                        *)
THEOREM NoInputIsLost == RngSpec => []OutputDependsOnAllEntropy
  <1>1. RngInv => OutputDependsOnAllEntropy
    <2> SUFFICES ASSUME RngInv, IsSeeded
                 PROVE  /\ accepted \subseteq x931.R /\ accepted \subseteq Output(inner)
                        /\ handed = 0 .. x931.position - 1
      BY DEF OutputDependsOnAllEntropy
    <2>1. Secret(inner) \subseteq Output(inner)
      BY InnerFacts DEF RngInv, RngTypeOK
    <2>2. QED
      BY <2>1 DEF RngInv
  <1>2. QED
    BY <1>1, GeneratorIsSafe, PTL
=============================================================================
