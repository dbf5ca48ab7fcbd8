----------------------- MODULE AlgorithmFactoryProofs -----------------------
(***************************************************************************)
(* Proofs about AlgorithmFactory: IInv is an inductive invariant for any   *)
(* threads, engines, names and providers.  First what the lookups of the   *)
(* cache return, then one preservation lemma for each part of IInv, with a *)
(* step for each action, and the theorems.                                 *)
(***************************************************************************)
EXTENDS AlgorithmFactory, TLAPS

(* A prototype is not the null pointer.                                    *)
LEMMA NullIsNoPrototype == Null \notin Prototypes
  BY DEF Null, Prototypes

(* Of some prototypes one is the heaviest.                                 *)
LEMMA HeaviestProperties ==
  ASSUME NEW P, P \subseteq Providers, P # {}
  PROVE  Heaviest(P) \in P
<1> DEFINE top(w) == \E p \in P : Weight[p] = w /\ \A q \in P : Weight[q] <= w
<1>1. \A p \in P : Weight[p] \in 0 .. 8
  BY WeightAssumption
<1>2. \E p \in P : \A q \in P : Weight[q] <= Weight[p]
  BY <1>1
<1>3. QED
  BY <1>2 DEF Heaviest

(* An engine's number has its provider.                                    *)
LEMMA EngineProperties ==
  /\ DOMAIN engines = 1 .. Len(engines) /\ Len(engines) \in Nat
  /\ \A i \in DOMAIN engines : engines[i] \in Providers
<1>1. engines \in Seq(Providers)
  BY EnginesAssumption, Zenon
<1>2. QED
  BY <1>1

(* A search has passed no engine at the first, and all of them after the   *)
(* last.                                                                   *)
LEMMA EngineOrder ==
  /\ \A j \in DOMAIN engines : ~(j < 1)
  /\ \A i \in Nat \ {0} : i > Len(engines) => \A j \in DOMAIN engines : j < i
  BY EngineProperties

(* What a thread remembers of its request.                                 *)
LEMMA SearchTypes ==
  ASSUME NEW a \in Searches
  PROVE  /\ a.want \in Wants /\ a.spec \in Specs /\ NameOf[a.spec] \in Names
         /\ a.provider \in Providers \cup {""} /\ a.pref \in Providers \cup {""}
         /\ a.seen \subseteq Providers /\ a.i \in Nat \ {0} /\ a.i + 1 \in Nat \ {0}
<1>1. a.i \in Nat \ {0}
  BY DEF Searches
<1>2. a.i + 1 \in Nat \ {0}
  BY <1>1
<1>3. QED
  BY <1>1, <1>2 DEF Searches, Names

(* The steps of a request change what it remembers only in these ways.     *)
LEMMA SearchUpdates ==
  ASSUME NEW a \in Searches
  PROVE  /\ \A i \in Nat \ {0} : [a EXCEPT !.i = i] \in Searches
         /\ \A x \in Prototypes \cup {Null} :
              /\ [a EXCEPT !.impl = x] \in Searches
              /\ [a EXCEPT !.proto = x] \in Searches
              /\ \A i \in Nat \ {0} : [a EXCEPT !.impl = x, !.i = i] \in Searches
              /\ \A S \in SUBSET Providers : [a EXCEPT !.proto = x, !.seen = S] \in Searches
  BY Zenon DEF Searches

(* The search starts at an engine's number.                                *)
LEMMA FirstEngine == 1 \in Nat \ {0}
  OBVIOUS

(* What a request starts with.                                             *)
LEMMA NewSearch ==
  ASSUME NEW w \in Wants, NEW s \in Specs,
         NEW p \in Providers \cup {""}, NEW q \in Providers \cup {""}
  PROVE  [want |-> w, spec |-> s, provider |-> p, pref |-> q, seen |-> {}, i |-> 1,
          impl |-> Null, proto |-> Null] \in Searches
  BY FirstEngine, Zenon DEF Searches

(* A request is looked up under the name of the algorithm it means, and    *)
(* found once a provider of that is known under the request.               *)
LEMMA FindProperties ==
  ASSUME TypeOK, CacheInv, NEW s \in Specs
  PROVE  /\ FindAlgorithm(s) # "" => /\ FindAlgorithm(s) = NameOf[s]
                                     /\ Cached(NameOf[s]) # {}
         /\ \A p \in Providers : Known(s, p) => FindAlgorithm(s) = NameOf[s]
<1>1. NameOf[s] \in Names /\ NameOf[s] # ""
  BY NamesAssumption DEF Names
<1>2. s \in Names => NameOf[s] = s /\ s # ""
  BY NamesAssumption
<1>3. aliases[s] \in {"", NameOf[s]}
  BY DEF CacheInv
<1>4. \A p \in Providers : Known(s, p) => p \in Cached(NameOf[s])
  BY DEF Known, Cached
<1>5. QED
  BY <1>1, <1>2, <1>3, <1>4 DEF FindAlgorithm, Known

(* get() answers with a prototype of the algorithm, by the provider if one *)
(* was named, and with nothing only if no such prototype is known.         *)
LEMMA GetProperties ==
  ASSUME TypeOK, CacheInv, NEW s \in Specs, NEW r \in Providers \cup {""}
  PROVE  /\ Get(s, r) # Null =>
              \E p \in Providers : r \in {"", p} /\ Get(s, r) = algorithms[NameOf[s]][p]
         /\ \A p \in Providers : Known(s, p) /\ r \in {"", p} => Get(s, r) # Null
<1> DEFINE n == NameOf[s]
<1>1. CASE FindAlgorithm(s) = ""
  <2>1. n \in Names /\ n # ""
    BY NamesAssumption DEF Names
  <2>2. QED
    BY <1>1, <2>1, FindProperties DEF Get
<1>2. CASE FindAlgorithm(s) # "" /\ r # ""
  <2>1. Get(s, r) = algorithms[n][r]
    BY <1>2, FindProperties DEF Get
  <2>2. QED
    BY <1>2, <2>1 DEF Known
<1>3. CASE FindAlgorithm(s) # "" /\ r = ""
  <2>1. FindAlgorithm(s) = n /\ Cached(n) # {} /\ Cached(n) \subseteq Providers
    BY <1>3, FindProperties DEF Cached
  <2>2. Heaviest(Cached(n)) \in Cached(n)
    BY <2>1, HeaviestProperties
  <2>3. \E p \in Cached(n) : Get(s, r) = algorithms[n][p]
    BY <1>3, <2>1, <2>2 DEF Get
  <2>4. QED
    BY <1>3, <2>3 DEF Cached
<1>4. QED
  BY <1>1, <1>2, <1>3

(* A new prototype is none that exists or that a thread refers to.         *)
LEMMA NewPrototypeProperties ==
  ASSUME NEW n \in Names, NEW p \in Providers, Unused(n, p) # {}
  PROVE  /\ NewPrototype(n, p) \in Prototypes /\ Made(NewPrototype(n, p), n, p)
         /\ NewPrototype(n, p) \notin alive \cup Referred
<1> DEFINE k == CHOOSE k \in Unused(n, p) : TRUE
<1>1. k \in Unused(n, p)
  OBVIOUS
<1>2. k \in 1 .. Copies /\ <<n, p, k>> \notin alive \cup Referred
  BY <1>1 DEF Unused
<1>3. NewPrototype(n, p) = <<n, p, k>>
  BY DEF NewPrototype
<1> HIDE DEF k
<1>4. QED
  BY <1>2, <1>3 DEF Prototypes, Made

-----------------------------------------------------------------------------
(* What a step may do.                                                     *)

(* The slot that Add fills, and all that it changes.                       *)
LEMMA AddProperties ==
  ASSUME TypeOK, NEW s \in Specs, NEW p \in Providers, NEW x \in Prototypes, Add(x, s, p)
  PROVE  /\ algorithms' \in [Names -> [Providers -> Prototypes \cup {Null}]]
         /\ aliases' \in [Specs -> Names \cup {""}]
         /\ alive' \subseteq Prototypes
         /\ algorithms'[NameOf[s]][p] = x
         /\ \A n \in Names, q \in Providers :
              <<n, q>> # <<NameOf[s], p>> => algorithms'[n][q] = algorithms[n][q]
         /\ alive' = (alive \ {algorithms[NameOf[s]][p]}) \cup {x}
         /\ \A r \in Specs \ {s} : aliases'[r] = aliases[r]
         /\ aliases'[s] = IF aliases[s] = "" /\ NameOf[s] # s THEN NameOf[s] ELSE aliases[s]
<1>1. NameOf[s] \in Names
  BY DEF Names
<1>2. QED
  BY <1>1 DEF Add, TypeOK

(* What is found is a prototype or nothing.                                *)
LEMMA GetTypes ==
  ASSUME TypeOK, CacheInv, NEW a \in Searches
  PROVE  Get(a.spec, a.provider) \in Prototypes \cup {Null}
<1>1. a.spec \in Specs /\ a.provider \in Providers \cup {""} /\ NameOf[a.spec] \in Names
  BY SearchTypes
<1>2. CASE Get(a.spec, a.provider) = Null
  BY <1>2
<1>3. CASE Get(a.spec, a.provider) # Null
  <2>1. PICK p \in Providers : Get(a.spec, a.provider) = algorithms[NameOf[a.spec]][p]
    BY <1>1, <1>3, GetProperties
  <2>2. algorithms[NameOf[a.spec]][p] \in Prototypes \cup {Null}
    BY <1>1 DEF TypeOK
  <2>3. QED
    BY <2>1, <2>2
<1>4. QED
  BY <1>2, <1>3

(* Every step keeps the types.                                             *)
LEMMA TypeNext == ASSUME IInv, [Next]_vars PROVE TypeOK'
<1>0. TypeOK /\ CacheInv /\ ProgressInv
  BY DEF IInv
<1>1. ASSUME NEW t \in Threads, NEW w \in Wants, NEW s \in Specs,
             NEW p \in Providers \cup {""}, NEW q \in Providers \cup {""},
             Request(t, w, s, p, q)
      PROVE  TypeOK'
  <2>1. [want |-> w, spec |-> s, provider |-> p, pref |-> q, seen |-> {}, i |-> 1,
         impl |-> Null, proto |-> Null] \in Searches
    BY NewSearch
  <2>2. QED
    BY <1>0, <1>1, <2>1 DEF Request, Move, cache, TypeOK
<1>2. ASSUME NEW t \in Threads, CacheGet(t) PROVE TypeOK'
  <2> DEFINE hit == Get(arg[t].spec, arg[t].provider)
             seen == IF hit = Null THEN ProvidersOf(arg[t].spec) ELSE {}
  <2>1. arg[t] \in Searches
    BY <1>0, <1>2 DEF CacheGet, TypeOK
  <2>2. hit \in Prototypes \cup {Null} /\ seen \in SUBSET Providers
    BY <1>0, <2>1, GetTypes DEF ProvidersOf, Cached
  <2>3. [arg[t] EXCEPT !.proto = hit, !.seen = seen] \in Searches
    BY <2>1, <2>2, SearchUpdates
  <2>4. /\ arg' = [arg EXCEPT ![t] = [arg[t] EXCEPT !.proto = hit, !.seen = seen]]
        /\ pc' = [pc EXCEPT ![t] = IF hit # Null THEN "found" ELSE "search"]
        /\ UNCHANGED <<algorithms, aliases, pref_providers, alive, dangling>>
    BY <1>2 DEF CacheGet, Move, cache
  <2> HIDE DEF hit, seen
  <2>5. QED
    BY <1>0, <2>3, <2>4 DEF TypeOK
<1>3. ASSUME NEW t \in Threads, AskEngine(t) PROVE TypeOK'
  <2>1. arg[t] \in Searches /\ arg[t].i \in DOMAIN engines
    <3>1. arg[t] \in Searches /\ arg[t].i <= Len(engines)
      BY <1>0, <1>3 DEF AskEngine, TypeOK
    <3>2. arg[t].i \in Nat \ {0}
      BY <3>1, SearchTypes
    <3>3. QED
      BY <3>1, <3>2, EngineProperties
  <2>2. NameOf[arg[t].spec] \in Names /\ engines[arg[t].i] \in Providers
    BY <2>1, EngineProperties, SearchTypes
  <2>3. CASE Asked(arg[t].i, arg[t].provider) /\ Has(arg[t].i, arg[t].spec)
    <3> DEFINE x == NewPrototype(NameOf[arg[t].spec], engines[arg[t].i])
    <3>1. x \in Prototypes /\ Null \in Prototypes \cup {Null}
      BY <1>3, <2>2, <2>3, NewPrototypeProperties DEF AskEngine
    <3>2. [arg[t] EXCEPT !.impl = x] \in Searches
      BY <2>1, <3>1, SearchUpdates
    <3>3. /\ arg' = [arg EXCEPT ![t] = [arg[t] EXCEPT !.impl = x]]
          /\ alive' = alive \cup {arg'[t].impl} /\ pc' = [pc EXCEPT ![t] = "add"]
          /\ UNCHANGED <<algorithms, aliases, pref_providers, dangling>>
      BY <1>3, <2>3 DEF AskEngine, Move, cache
    <3> HIDE DEF x
    <3>4. arg'[t].impl = x
      BY <1>0, <2>1, <3>3 DEF TypeOK, Searches
    <3>5. QED
      BY <1>0, <3>1, <3>2, <3>3, <3>4 DEF TypeOK
  <2>4. CASE ~(Asked(arg[t].i, arg[t].provider) /\ Has(arg[t].i, arg[t].spec))
    <3>1. [arg[t] EXCEPT !.i = arg[t].i + 1] \in Searches
      BY <2>1, SearchTypes, SearchUpdates
    <3>2. /\ arg' = [arg EXCEPT ![t] = [arg[t] EXCEPT !.i = arg[t].i + 1]]
          /\ UNCHANGED <<algorithms, aliases, pref_providers, alive, pc, dangling>>
      BY <1>3, <2>4 DEF AskEngine, cache
    <3>3. QED
      BY <1>0, <3>1, <3>2 DEF TypeOK
  <2>5. QED
    BY <2>3, <2>4
<1>4. ASSUME NEW t \in Threads, CacheAdd(t) PROVE TypeOK'
  <2>1. arg[t] \in Searches /\ arg[t].i \in DOMAIN engines
        /\ Made(arg[t].impl, NameOf[arg[t].spec], engines[arg[t].i])
    BY <1>0, <1>4 DEF CacheAdd, ProgressInv, TypeOK
  <2>2. arg[t].spec \in Specs /\ NameOf[arg[t].spec] \in Names /\ engines[arg[t].i] \in Providers
    BY <2>1, EngineProperties, SearchTypes
  <2>3. arg[t].impl \in Prototypes
    BY <2>1, <2>2 DEF Made, Prototypes
  <2>4. /\ algorithms' \in [Names -> [Providers -> Prototypes \cup {Null}]]
        /\ aliases' \in [Specs -> Names \cup {""}] /\ alive' \subseteq Prototypes
    BY <1>0, <1>4, <2>2, <2>3, AddProperties DEF CacheAdd
  <2>5. [arg[t] EXCEPT !.impl = Null, !.i = arg[t].i + 1] \in Searches
    BY <2>1, SearchTypes, SearchUpdates
  <2>6. /\ arg' = [arg EXCEPT ![t] = [arg[t] EXCEPT !.impl = Null, !.i = arg[t].i + 1]]
        /\ pc' = [pc EXCEPT ![t] = "search"] /\ UNCHANGED <<pref_providers, dangling>>
    BY <1>4 DEF CacheAdd, Move
  <2>7. QED
    BY <1>0, <2>4, <2>5, <2>6 DEF TypeOK
<1>5. ASSUME NEW t \in Threads, CacheGetAgain(t) PROVE TypeOK'
  <2> DEFINE hit == Get(arg[t].spec, arg[t].provider)
  <2>1. arg[t] \in Searches
    BY <1>0, <1>5 DEF CacheGetAgain, TypeOK
  <2>2. hit \in Prototypes \cup {Null}
    BY <1>0, <2>1, GetTypes
  <2>3. [arg[t] EXCEPT !.proto = hit] \in Searches
    BY <2>1, <2>2, SearchUpdates
  <2>4. /\ arg' = [arg EXCEPT ![t] = [arg[t] EXCEPT !.proto = hit]]
        /\ pc' = [pc EXCEPT ![t] = "found"]
        /\ UNCHANGED <<algorithms, aliases, pref_providers, alive, dangling>>
    BY <1>5 DEF CacheGetAgain, Move, cache
  <2> HIDE DEF hit
  <2>5. QED
    BY <1>0, <2>3, <2>4 DEF TypeOK
<1>6. ASSUME NEW t \in Threads, MakeFound(t) \/ NotFound(t) \/ ProvidersFound(t) PROVE TypeOK'
  BY <1>0, <1>6 DEF MakeFound, NotFound, ProvidersFound, Answer, Move, cache, TypeOK
<1>7. ASSUME NEW t \in Threads, SetPreferred(t) PROVE TypeOK'
  <2>1. arg[t].spec \in Specs /\ arg[t].pref \in Providers \cup {""}
    BY <1>0, <1>7, SearchTypes DEF SetPreferred, TypeOK
  <2>2. QED
    BY <1>0, <1>7, <2>1 DEF SetPreferred, Answer, Move, TypeOK
<1>8. ASSUME NEW t \in Threads, NEW n \in Names, NEW p \in UserProviders, AddOwn(t, n, p)
      PROVE  TypeOK'
  <2>1. n \in Specs /\ NameOf[n] = n /\ p \in Providers /\ NewPrototype(n, p) \in Prototypes
    BY <1>8, NewPrototypeProperties DEF AddOwn, Providers
  <2>2. /\ algorithms' \in [Names -> [Providers -> Prototypes \cup {Null}]]
        /\ aliases' \in [Specs -> Names \cup {""}] /\ alive' \subseteq Prototypes
    BY <1>0, <1>8, <2>1, AddProperties DEF AddOwn
  <2>3. QED
    BY <1>0, <1>8, <2>2 DEF AddOwn, TypeOK
<1>9. CASE UNCHANGED vars
  BY <1>0, <1>9 DEF vars, cache, TypeOK
<1>10. QED
  BY <1>1, <1>2, <1>3, <1>4, <1>5, <1>6, <1>7, <1>8, <1>9 DEF Next

(* A thread that adds what an engine made holds it, and adds it to the     *)
(* slot it is for.                                                         *)
LEMMA CacheAddProperties ==
  ASSUME IInv, NEW t \in Threads, CacheAdd(t)
  PROVE  /\ arg[t] \in Searches /\ arg[t].spec \in Specs /\ arg[t].i \in DOMAIN engines
         /\ engines[arg[t].i] \in Providers /\ arg[t].impl \in Prototypes
         /\ Asked(arg[t].i, arg[t].provider) /\ arg[t].proto = Null
         /\ Made(arg[t].impl, NameOf[arg[t].spec], engines[arg[t].i])
         /\ Add(arg[t].impl, arg[t].spec, engines[arg[t].i])
         /\ arg' = [arg EXCEPT ![t] = [arg[t] EXCEPT !.impl = Null, !.i = arg[t].i + 1]]
         /\ pc[t] = "add" /\ pc' = [pc EXCEPT ![t] = "search"]
<1>1. /\ arg[t] \in Searches /\ arg[t].i \in DOMAIN engines
      /\ Asked(arg[t].i, arg[t].provider) /\ arg[t].proto = Null
      /\ Made(arg[t].impl, NameOf[arg[t].spec], engines[arg[t].i])
  BY DEF CacheAdd, IInv, TypeOK, ProgressInv
<1>2. /\ arg[t].spec \in Specs /\ NameOf[arg[t].spec] \in Names
      /\ engines[arg[t].i] \in Providers
  BY <1>1, SearchTypes, EngineProperties
<1>3. arg[t].impl \in Prototypes
  BY <1>1, <1>2 DEF Made, Prototypes
<1>4. QED
  BY <1>1, <1>2, <1>3 DEF CacheAdd, Move

(* The program adds a new object of its own.                               *)
LEMMA AddOwnProperties ==
  ASSUME NEW t \in Threads, NEW n \in Names, NEW p \in UserProviders, AddOwn(t, n, p)
  PROVE  /\ n \in Specs /\ NameOf[n] = n /\ p \in Providers
         /\ NewPrototype(n, p) \in Prototypes /\ Made(NewPrototype(n, p), n, p)
         /\ NewPrototype(n, p) \notin alive \cup Referred
         /\ Add(NewPrototype(n, p), n, p) /\ UNCHANGED <<pc, arg>>
  BY NewPrototypeProperties DEF AddOwn, Providers

(* An engine that has what is asked makes a new prototype; one that has    *)
(* not is passed over.                                                     *)
LEMMA AskEngineProperties ==
  ASSUME IInv, NEW t \in Threads, AskEngine(t)
  PROVE  /\ arg[t] \in Searches /\ arg[t].spec \in Specs /\ arg[t].i \in DOMAIN engines
         /\ arg[t].impl = Null /\ arg[t].proto = Null
         /\ pc[t] = "search" /\ UNCHANGED <<algorithms, aliases>>
         /\ \/ \E x \in Prototypes :
                 /\ Made(x, NameOf[arg[t].spec], engines[arg[t].i])
                 /\ x \notin alive \cup Referred /\ alive' = alive \cup {x}
                 /\ Asked(arg[t].i, arg[t].provider)
                 /\ arg' = [arg EXCEPT ![t] = [arg[t] EXCEPT !.impl = x]]
                 /\ pc' = [pc EXCEPT ![t] = "add"]
            \/ /\ ~(Asked(arg[t].i, arg[t].provider) /\ Has(arg[t].i, arg[t].spec))
               /\ arg' = [arg EXCEPT ![t] = [arg[t] EXCEPT !.i = arg[t].i + 1]]
               /\ UNCHANGED <<alive, pc>>
<1>1. arg[t] \in Searches /\ arg[t].i <= Len(engines) /\ TypeOK
      /\ arg[t].impl = Null /\ arg[t].proto = Null
  BY DEF AskEngine, IInv, TypeOK, ProgressInv
<1>2. arg[t].i \in Nat \ {0} /\ arg[t].spec \in Specs /\ NameOf[arg[t].spec] \in Names
  BY <1>1, SearchTypes
<1>3. arg[t].i \in DOMAIN engines
  BY <1>1, <1>2, EngineProperties
<1>4. engines[arg[t].i] \in Providers
  BY <1>3, EngineProperties
<1>5. CASE Asked(arg[t].i, arg[t].provider) /\ Has(arg[t].i, arg[t].spec)
  <2> DEFINE x == NewPrototype(NameOf[arg[t].spec], engines[arg[t].i])
  <2>1. x \in Prototypes /\ Made(x, NameOf[arg[t].spec], engines[arg[t].i])
        /\ x \notin alive \cup Referred
    BY <1>2, <1>4, <1>5, NewPrototypeProperties DEF AskEngine
  <2>2. /\ arg' = [arg EXCEPT ![t] = [arg[t] EXCEPT !.impl = x]]
        /\ alive' = alive \cup {arg'[t].impl} /\ pc' = [pc EXCEPT ![t] = "add"]
    BY <1>5 DEF AskEngine, Move
  <2> HIDE DEF x
  <2>3. arg'[t].impl = x
    BY <1>1, <2>2 DEF TypeOK, Searches
  <2>4. QED
    BY <1>1, <1>2, <1>3, <1>5, <2>1, <2>2, <2>3 DEF AskEngine, cache
<1>6. CASE ~(Asked(arg[t].i, arg[t].provider) /\ Has(arg[t].i, arg[t].spec))
  BY <1>1, <1>2, <1>3, <1>6 DEF AskEngine, cache
<1>7. QED
  BY <1>5, <1>6

(* The steps that leave the cache's prototypes alone, and take none into   *)
(* or out of a search's hands.                                             *)
Quiet(t) ==
  \/ \E w \in Wants, s \in Specs, p \in Providers \cup {""}, q \in Providers \cup {""} :
       Request(t, w, s, p, q)
  \/ CacheGet(t) \/ CacheGetAgain(t)
  \/ MakeFound(t) \/ NotFound(t) \/ ProvidersFound(t) \/ SetPreferred(t)
LEMMA QuietProperties ==
  ASSUME IInv, NEW t \in Threads, Quiet(t)
  PROVE  /\ UNCHANGED <<algorithms, aliases, alive>>
         /\ pc[t] # "add" /\ pc'[t] # "add"
         /\ \A u \in Threads \ {t} : pc'[u] = pc[u] /\ arg'[u] = arg[u]
         /\ DOMAIN pc = Threads /\ DOMAIN arg = Threads
<1>1. pc \in [Threads -> {"idle", "get", "search", "add", "found"}] /\ DOMAIN arg = Threads
  BY DEF IInv, TypeOK
<1>2. QED
  BY <1>1 DEF Quiet, Request, CacheGet, CacheGetAgain, MakeFound, NotFound, ProvidersFound,
              SetPreferred, Answer, Move, cache

(* A step is quiet, asks an engine or adds.                                *)
LEMMA StepCases ==
  ASSUME [Next]_vars
  PROVE  \/ \E t \in Threads : Quiet(t) \/ AskEngine(t) \/ CacheAdd(t)
         \/ \E t \in Threads, n \in Names, p \in UserProviders : AddOwn(t, n, p)
         \/ UNCHANGED vars
  BY DEF Next, Quiet

-----------------------------------------------------------------------------
(* The cache.                                                              *)

(* Adding keeps a slot's contents what its name and provider say, and      *)
(* forgets nothing that was known.                                         *)
LEMMA AddKeeps ==
  ASSUME TypeOK, CacheInv, NEW s \in Specs, NEW p \in Providers, NEW x \in Prototypes,
         Made(x, NameOf[s], p), Add(x, s, p)
  PROVE  /\ CacheInv' /\ Known(s, p)'
         /\ \A r \in Specs, q \in Providers : Known(r, q) => Known(r, q)'
<1>1. NameOf[s] \in Names /\ NameOf[s] # "" /\ x # Null
  BY NamesAssumption, NullIsNoPrototype DEF Names
<1>2. /\ algorithms'[NameOf[s]][p] = x
      /\ \A n \in Names, q \in Providers :
           <<n, q>> # <<NameOf[s], p>> => algorithms'[n][q] = algorithms[n][q]
      /\ \A r \in Specs \ {s} : aliases'[r] = aliases[r]
      /\ aliases'[s] = IF aliases[s] = "" /\ NameOf[s] # s THEN NameOf[s] ELSE aliases[s]
  BY <1>1 DEF Add, TypeOK
<1>3. ASSUME NEW n \in Names, NEW q \in Providers, algorithms'[n][q] # Null
      PROVE  Made(algorithms'[n][q], n, q)
  <2>1. CASE <<n, q>> = <<NameOf[s], p>>
    BY <1>2, <2>1
  <2>2. CASE <<n, q>> # <<NameOf[s], p>>
    BY <1>2, <1>3, <2>2 DEF CacheInv
  <2>3. QED
    BY <2>1, <2>2
<1>4. \A r \in Specs : aliases'[r] \in {"", NameOf[r]}
  BY <1>2 DEF CacheInv
<1>5. Known(s, p)'
  BY <1>1, <1>2 DEF Known, CacheInv
<1>6. ASSUME NEW r \in Specs, NEW q \in Providers, Known(r, q) PROVE Known(r, q)'
  <2>1. NameOf[r] \in Names /\ NameOf[r] # ""
    BY NamesAssumption DEF Names
  <2>2. algorithms'[NameOf[r]][q] # Null
    BY <1>1, <1>2, <1>6, <2>1 DEF Known
  <2>3. aliases[r] = NameOf[r] => aliases'[r] = NameOf[r]
    BY <1>2, <2>1
  <2>4. QED
    BY <1>6, <2>2, <2>3 DEF Known
<1>7. CacheInv'
  BY <1>3, <1>4, Zenon DEF CacheInv, Made
<1>8. QED
  BY <1>5, <1>6, <1>7

(* No step forgets what is known, or puts anything in the wrong slot.      *)
LEMMA CacheNext ==
  ASSUME IInv, [Next]_vars
  PROVE  CacheInv' /\ \A r \in Specs, q \in Providers : Known(r, q) => Known(r, q)'
<1>1. TypeOK /\ CacheInv
  BY DEF IInv
<1>2. CASE UNCHANGED <<algorithms, aliases>>
  BY <1>1, <1>2 DEF CacheInv, Known, Made
<1>3. ASSUME NEW t \in Threads, CacheAdd(t)
      PROVE  CacheInv' /\ \A r \in Specs, q \in Providers : Known(r, q) => Known(r, q)'
  BY <1>1, <1>3, CacheAddProperties, AddKeeps
<1>4. ASSUME NEW t \in Threads, NEW n \in Names, NEW p \in UserProviders, AddOwn(t, n, p)
      PROVE  CacheInv' /\ \A r \in Specs, q \in Providers : Known(r, q) => Known(r, q)'
  BY <1>1, <1>4, AddOwnProperties, AddKeeps
<1>5. ASSUME NEW t \in Threads, Quiet(t) \/ AskEngine(t) PROVE UNCHANGED <<algorithms, aliases>>
  BY <1>5, QuietProperties, AskEngineProperties
<1>6. UNCHANGED vars => UNCHANGED <<algorithms, aliases>>
  BY DEF vars, cache
<1>7. QED
  BY <1>2, <1>3, <1>4, <1>5, <1>6, StepCases

-----------------------------------------------------------------------------
(* Who owns a prototype.                                                   *)

(* What leaves the cache and the searches' hands alone keeps the owners.   *)
LEMMA OwnersUnchanged ==
  ASSUME PrototypesAreOwnedOnce, UNCHANGED <<algorithms, alive>>,
         \A x \in Prototypes : Adders(x)' = Adders(x)
  PROVE  PrototypesAreOwnedOnce'
<1>1. \A x \in Prototypes : InCache(x)' <=> InCache(x)
  BY DEF InCache
<1>2. ASSUME NEW y \in Prototypes
      PROVE  /\ y \in alive' <=> InCache(y)' \/ Adders(y)' # {}
             /\ InCache(y)' => Adders(y)' = {}
             /\ \A t, u \in Adders(y)' : t = u
             /\ \A n, m \in Names, q, r \in Providers :
                  algorithms'[n][q] = y /\ algorithms'[m][r] = y => <<n, q>> = <<m, r>>
  BY <1>1 DEF PrototypesAreOwnedOnce
<1>3. QED
  BY <1>2, Zenon DEF PrototypesAreOwnedOnce

(* A new prototype that enters one slot is owned by it, the one it         *)
(* replaces by nobody, and any other as before.                            *)
LEMMA AddOwned ==
  ASSUME TypeOK, CacheInv, PrototypesAreOwnedOnce, NEW s \in Specs, NEW p \in Providers,
         NEW x \in Prototypes, Add(x, s, p), ~InCache(x), Adders(x)' = {},
         \A y \in Prototypes \ {x} : Adders(y)' = Adders(y)
  PROVE  PrototypesAreOwnedOnce'
<1> DEFINE old == algorithms[NameOf[s]][p]
<1>1. NameOf[s] \in Names /\ x # Null
  BY NullIsNoPrototype DEF Names
<1>2. /\ algorithms'[NameOf[s]][p] = x
      /\ \A n \in Names, q \in Providers :
           <<n, q>> # <<NameOf[s], p>> => algorithms'[n][q] = algorithms[n][q]
      /\ alive' = (alive \ {old}) \cup {x}
  BY <1>1 DEF Add, TypeOK
<1>3. old # x
  BY <1>1 DEF InCache
<1>4. ASSUME NEW y \in Prototypes, y # x, y # old
      PROVE  /\ InCache(y)' <=> InCache(y)
             /\ y \in alive' <=> y \in alive
             /\ \A n \in Names, q \in Providers : algorithms'[n][q] = y <=> algorithms[n][q] = y
  <2>1. \A n \in Names, q \in Providers : algorithms'[n][q] = y <=> algorithms[n][q] = y
    BY <1>2, <1>4
  <2>2. QED
    BY <1>2, <1>4, <2>1 DEF InCache
<1>5. \A n \in Names, q \in Providers : algorithms'[n][q] = x => <<n, q>> = <<NameOf[s], p>>
  BY <1>2 DEF InCache
<1>6. ASSUME NEW y \in Prototypes
      PROVE  /\ y \in alive' <=> InCache(y)' \/ Adders(y)' # {}
             /\ InCache(y)' => Adders(y)' = {}
             /\ \A t, u \in Adders(y)' : t = u
             /\ \A n, m \in Names, q, r \in Providers :
                  algorithms'[n][q] = y /\ algorithms'[m][r] = y => <<n, q>> = <<m, r>>
  <2>1. CASE y = x
    <3>1. InCache(x)' /\ x \in alive'
      BY <1>1, <1>2 DEF InCache
    <3>2. QED
      BY <1>5, <2>1, <3>1
  <2>2. CASE y = old /\ y # x
    <3>1. InCache(y) /\ Adders(y) = {}
      BY <1>1, <2>2 DEF InCache, PrototypesAreOwnedOnce
    <3>2. Adders(y)' = {} /\ y \notin alive'
      BY <1>2, <2>2, <3>1
    <3>3. \A n \in Names, q \in Providers : algorithms'[n][q] # y
      BY <1>1, <1>2, <2>2 DEF PrototypesAreOwnedOnce
    <3>4. ~InCache(y)'
      BY <3>3 DEF InCache
    <3>5. QED
      BY <3>2, <3>3, <3>4
  <2>3. CASE y # old /\ y # x
    <3>1. Adders(y)' = Adders(y)
      BY <2>3
    <3>2. QED
      BY <1>4, <2>3, <3>1 DEF PrototypesAreOwnedOnce
  <2>4. QED
    BY <2>1, <2>2, <2>3
<1>7. QED
  BY <1>6, Zenon DEF PrototypesAreOwnedOnce

(* Every step keeps each prototype owned once.                             *)
LEMMA OwnedNext == ASSUME IInv, [Next]_vars PROVE PrototypesAreOwnedOnce'
<1>0. TypeOK /\ CacheInv /\ PrototypesAreOwnedOnce
  BY DEF IInv
<1>1. ASSUME NEW t \in Threads, Quiet(t) PROVE PrototypesAreOwnedOnce'
  <2>1. \A u \in Threads : \/ pc[u] # "add" /\ pc'[u] # "add"
                           \/ pc'[u] = pc[u] /\ arg'[u] = arg[u]
    <3>1. /\ pc[t] # "add" /\ pc'[t] # "add"
          /\ \A u \in Threads \ {t} : pc'[u] = pc[u] /\ arg'[u] = arg[u]
      BY <1>1, QuietProperties
    <3>2. ASSUME NEW u \in Threads
          PROVE  \/ pc[u] # "add" /\ pc'[u] # "add"
                 \/ pc'[u] = pc[u] /\ arg'[u] = arg[u]
      <4>1. CASE u = t
        BY <3>1, <4>1
      <4>2. CASE u # t
        BY <3>1, <4>2
      <4>3. QED
        BY <4>1, <4>2
    <3>3. QED
      BY <3>2
  <2>2. \A x \in Prototypes : Adders(x)' = Adders(x)
    BY <2>1 DEF Adders
  <2>3. QED
    BY <1>0, <1>1, <2>2, QuietProperties, OwnersUnchanged
<1>2. ASSUME NEW t \in Threads, AskEngine(t) PROVE PrototypesAreOwnedOnce'
  <2>0. DOMAIN arg = Threads /\ DOMAIN pc = Threads /\ pc[t] = "search"
        /\ UNCHANGED algorithms /\ arg[t] \in Searches
    BY <1>0, <1>2, AskEngineProperties DEF TypeOK
  <2>1. ASSUME NEW x \in Prototypes, x \notin alive \cup Referred, alive' = alive \cup {x},
               arg' = [arg EXCEPT ![t] = [arg[t] EXCEPT !.impl = x]],
               pc' = [pc EXCEPT ![t] = "add"]
        PROVE  PrototypesAreOwnedOnce'
    <3>1. pc'[t] = "add" /\ arg'[t].impl = x
      BY <2>0, <2>1 DEF Searches
    <3>2. \A u \in Threads \ {t} : pc'[u] = pc[u] /\ arg'[u] = arg[u]
      BY <2>0, <2>1
    <3>3. Adders(x) = {} /\ ~InCache(x)
      BY <1>0, <2>1 DEF PrototypesAreOwnedOnce
    <3>4. Adders(x)' = {t}
      BY <3>1, <3>2, <3>3 DEF Adders
    <3>5. ASSUME NEW y \in Prototypes, y # x PROVE Adders(y)' = Adders(y) /\ (y \in alive' <=> y \in alive)
      BY <2>0, <2>1, <3>1, <3>2, <3>5 DEF Adders
    <3>6. \A y \in Prototypes : InCache(y)' <=> InCache(y)
      BY <2>0 DEF InCache
    <3>7. ASSUME NEW y \in Prototypes
          PROVE  /\ y \in alive' <=> InCache(y)' \/ Adders(y)' # {}
                 /\ InCache(y)' => Adders(y)' = {}
                 /\ \A a, b \in Adders(y)' : a = b
                 /\ \A n, m \in Names, q, r \in Providers :
                      algorithms'[n][q] = y /\ algorithms'[m][r] = y => <<n, q>> = <<m, r>>
      <4>1. CASE y = x
        BY <1>0, <2>0, <2>1, <3>3, <3>4, <3>6, <4>1 DEF PrototypesAreOwnedOnce
      <4>2. CASE y # x
        BY <1>0, <2>0, <3>5, <3>6, <4>2 DEF PrototypesAreOwnedOnce
      <4>3. QED
        BY <4>1, <4>2
    <3>8. QED
      BY <3>7, Zenon DEF PrototypesAreOwnedOnce
  <2>2. CASE arg' = [arg EXCEPT ![t] = [arg[t] EXCEPT !.i = arg[t].i + 1]] /\ UNCHANGED <<alive, pc>>
    <3>1. ASSUME NEW u \in Threads
          PROVE  \/ pc[u] # "add" /\ pc'[u] # "add"
                 \/ pc'[u] = pc[u] /\ arg'[u] = arg[u]
      <4>1. CASE u = t
        BY <2>0, <2>2, <4>1
      <4>2. CASE u # t
        BY <2>0, <2>2, <4>2
      <4>3. QED
        BY <4>1, <4>2
    <3>2. \A x \in Prototypes : Adders(x)' = Adders(x)
      BY <3>1 DEF Adders
    <3>3. QED
      BY <1>0, <2>0, <2>2, <3>2, OwnersUnchanged
  <2>3. QED
    BY <1>2, <2>1, <2>2, AskEngineProperties
<1>3. ASSUME NEW t \in Threads, CacheAdd(t) PROVE PrototypesAreOwnedOnce'
  <2>1. PICK x \in Prototypes : x = arg[t].impl
    BY <1>3, CacheAddProperties
  <2>2. /\ arg[t].spec \in Specs /\ engines[arg[t].i] \in Providers
        /\ Add(x, arg[t].spec, engines[arg[t].i]) /\ pc[t] = "add"
        /\ pc' = [pc EXCEPT ![t] = "search"]
        /\ arg' = [arg EXCEPT ![t] = [arg[t] EXCEPT !.impl = Null, !.i = arg[t].i + 1]]
    BY <1>3, <2>1, CacheAddProperties
  <2>3. \A u \in Threads \ {t} : pc'[u] = pc[u] /\ arg'[u] = arg[u]
    BY <2>2, <1>0 DEF TypeOK
  <2>4. pc'[t] = "search" /\ t \in Adders(x)
    BY <2>1, <2>2, <1>0 DEF TypeOK, Adders
  <2>5. ~InCache(x) /\ \A u \in Adders(x) : u = t
    BY <1>0, <2>4 DEF PrototypesAreOwnedOnce
  <2>6. Adders(x)' = {}
    BY <2>3, <2>4, <2>5 DEF Adders
  <2>7. \A y \in Prototypes \ {x} : Adders(y)' = Adders(y)
    BY <2>1, <2>3, <2>4 DEF Adders
  <2>8. PICK s \in Specs, p \in Providers : Add(x, s, p)
    BY <2>2
  <2>9. QED
    BY <1>0, <2>5, <2>6, <2>7, <2>8, AddOwned
<1>4. ASSUME NEW t \in Threads, NEW n \in Names, NEW p \in UserProviders, AddOwn(t, n, p)
      PROVE  PrototypesAreOwnedOnce'
  <2>1. PICK x \in Prototypes : x \notin alive \cup Referred /\ Add(x, n, p)
    BY <1>4, AddOwnProperties
  <2>2. n \in Specs /\ p \in Providers /\ UNCHANGED <<pc, arg>>
    BY <1>4, AddOwnProperties
  <2>3. Adders(x) = {} /\ ~InCache(x)
    BY <1>0, <2>1 DEF PrototypesAreOwnedOnce
  <2>4. \A y \in Prototypes : Adders(y)' = Adders(y)
    BY <2>2 DEF Adders
  <2>5. QED
    BY <1>0, <2>1, <2>2, <2>3, <2>4, AddOwned
<1>5. CASE UNCHANGED vars
  <2>1. UNCHANGED <<algorithms, alive>> /\ \A x \in Prototypes : Adders(x)' = Adders(x)
    BY <1>5 DEF vars, cache, Adders
  <2>2. QED
    BY <1>0, <2>1, OwnersUnchanged
<1>6. QED
  BY <1>1, <1>2, <1>3, <1>4, <1>5, StepCases

-----------------------------------------------------------------------------
(* The searches and what they find.                                        *)

(* What is found in the cache is of the kind asked for, and in no search's *)
(* hands.                                                                  *)
LEMMA GetFits ==
  ASSUME IInv, NEW s \in Specs, NEW r \in Providers \cup {""}, Get(s, r) # Null
  PROVE  /\ Get(s, r) \in Prototypes /\ Adders(Get(s, r)) = {}
         /\ \E p \in Providers : Made(Get(s, r), NameOf[s], p) /\ r \in {"", p}
<1>1. TypeOK /\ CacheInv /\ PrototypesAreOwnedOnce /\ NameOf[s] \in Names
  BY DEF IInv, Names
<1>2. PICK p \in Providers : r \in {"", p} /\ Get(s, r) = algorithms[NameOf[s]][p]
  BY <1>1, GetProperties
<1>3. Made(Get(s, r), NameOf[s], p)
  BY <1>1, <1>2 DEF CacheInv
<1>4. Get(s, r) \in Prototypes
  BY <1>1, <1>3 DEF Made, Prototypes
<1>5. InCache(Get(s, r))
  BY <1>1, <1>2 DEF InCache
<1>6. Adders(Get(s, r)) = {}
  BY <1>1, <1>4, <1>5 DEF PrototypesAreOwnedOnce
<1>7. QED
  BY <1>2, <1>3, <1>4, <1>6

(* A request that misses could see no provider that it will ask.           *)
LEMMA MissProperties ==
  ASSUME IInv, NEW s \in Specs, NEW r \in Providers \cup {""}, Get(s, r) = Null
  PROVE  (r = "" => ProvidersOf(s) = {}) /\ r \notin ProvidersOf(s)
<1>1. TypeOK /\ CacheInv /\ NameOf[s] \in Names /\ "" \notin Providers
  BY EnginesAssumption, Zenon DEF IInv, Names
<1>2. CASE FindAlgorithm(s) = ""
  BY <1>2 DEF ProvidersOf
<1>3. CASE FindAlgorithm(s) # "" /\ r # ""
  BY <1>1, <1>3 DEF ProvidersOf, Get, Cached
<1>4. CASE FindAlgorithm(s) # "" /\ r = ""
  <2>1. FindAlgorithm(s) = NameOf[s] /\ Cached(NameOf[s]) # {} /\ Cached(NameOf[s]) \subseteq Providers
    BY <1>1, <1>4, FindProperties DEF Cached
  <2>2. Heaviest(Cached(NameOf[s])) \in Cached(NameOf[s])
    BY <2>1, HeaviestProperties
  <2>3. \E p \in Cached(NameOf[s]) : Get(s, r) = algorithms[NameOf[s]][p]
    BY <1>4, <2>1, <2>2 DEF Get
  <2>4. QED
    BY <2>3 DEF Cached
<1>5. QED
  BY <1>2, <1>3, <1>4

(* What IInv says of one thread.                                           *)
Looking(u) ==
  /\ pc[u] = "get" => arg[u].i = 1
  /\ pc[u] \in {"get", "search"} => arg[u].impl = Null /\ arg[u].proto = Null
  /\ pc[u] = "add" =>
       /\ arg[u].proto = Null
       /\ arg[u].i \in DOMAIN engines /\ Asked(arg[u].i, arg[u].provider)
       /\ Made(arg[u].impl, NameOf[arg[u].spec], engines[arg[u].i])
  /\ pc[u] = "found" => arg[u].impl = Null
Searched(u) ==
  pc[u] \in {"search", "add"} =>
    /\ arg[u].provider = "" => arg[u].seen = {}
    /\ arg[u].provider \notin arg[u].seen
    /\ \A j \in DOMAIN engines :
         j < arg[u].i /\ Asked(j, arg[u].provider) /\ Has(j, arg[u].spec) =>
           Known(arg[u].spec, engines[j])
Found(u) ==
  pc[u] = "found" /\ arg[u].proto # Null =>
    \E p \in Providers : /\ Made(arg[u].proto, NameOf[arg[u].spec], p)
                          /\ arg[u].provider \in {"", p}
Kept(u) == pc[u] = "found" /\ arg[u].proto # Null => Adders(arg[u].proto) = {}
Served(u) ==
  pc[u] = "found" /\ arg[u].proto = Null => ~CanServe(arg[u].spec, arg[u].provider)
LEMMA ThreadParts ==
  /\ IInv => \A u \in Threads : Looking(u) /\ Searched(u) /\ Found(u) /\ Kept(u) /\ Served(u)
  /\ (\A u \in Threads : Looking(u) /\ Searched(u) /\ Found(u) /\ Kept(u) /\ Served(u)) =>
       ProgressInv /\ SearchInv /\ FoundInv /\ AvailableIsFound
  BY DEF IInv, Looking, Searched, Found, Kept, Served, ProgressInv, SearchInv, FoundInv,
         AvailableIsFound

(* A thread that does nothing keeps its part, as nothing is forgotten,     *)
(* while what it found stays out of the searches' hands.                   *)
LEMMA ThreadUnchanged ==
  ASSUME IInv, NEW u \in Threads, pc'[u] = pc[u], arg'[u] = arg[u], Kept(u)',
         \A r \in Specs, q \in Providers : Known(r, q) => Known(r, q)'
  PROVE  (Looking(u) /\ Searched(u) /\ Found(u) /\ Kept(u) /\ Served(u))'
<1>1. Looking(u) /\ Searched(u) /\ Found(u) /\ Served(u)
  BY ThreadParts
<1>2. Looking(u)' /\ Found(u)' /\ Served(u)'
  BY <1>1 DEF Looking, Found, Served, Made, CanServe, Asked, Has
<1>3. Searched(u)'
  <2>1. pc[u] \in {"search", "add"} => arg[u].spec \in Specs
    BY SearchTypes DEF IInv, TypeOK
  <2>2. \A j \in DOMAIN engines : engines[j] \in Providers
    BY EngineProperties
  <2>3. pc[u] \in {"search", "add"} =>
          \A j \in DOMAIN engines :
            Known(arg[u].spec, engines[j]) => Known(arg[u].spec, engines[j])'
    BY <2>1, <2>2
  <2>4. QED
    BY <1>1, <2>3 DEF Searched, Asked, Has
<1>4. QED
  BY <1>2, <1>3

(* A step changes at most the thread that takes it, and puts nothing that  *)
(* another thread has found into a search's hands.                         *)
LEMMA OthersKeep ==
  ASSUME IInv, NEW t \in Threads, NEW u \in Threads \ {t}, Quiet(t) \/ AskEngine(t) \/ CacheAdd(t)
  PROVE  pc'[u] = pc[u] /\ arg'[u] = arg[u] /\ Kept(u)'
<1>1. DOMAIN pc = Threads /\ DOMAIN arg = Threads /\ Kept(u)
  BY ThreadParts DEF IInv, TypeOK
<1>2. CASE Quiet(t)
  <2>1. /\ pc[t] # "add" /\ pc'[t] # "add"
        /\ \A v \in Threads \ {t} : pc'[v] = pc[v] /\ arg'[v] = arg[v]
    BY <1>2, QuietProperties
  <2>2. \A x : Adders(x)' \subseteq Adders(x)
    BY <2>1 DEF Adders
  <2>3. QED
    BY <1>1, <2>1, <2>2 DEF Kept
<1>3. CASE AskEngine(t)
  <2>0. arg[t] \in Searches /\ pc[t] = "search"
    BY <1>3, AskEngineProperties
  <2>1. ASSUME NEW x \in Prototypes, x \notin alive \cup Referred,
               arg' = [arg EXCEPT ![t] = [arg[t] EXCEPT !.impl = x]],
               pc' = [pc EXCEPT ![t] = "add"]
        PROVE  pc'[u] = pc[u] /\ arg'[u] = arg[u] /\ Kept(u)'
    <3>1. \A v \in Threads \ {t} : pc'[v] = pc[v] /\ arg'[v] = arg[v]
      BY <1>1, <2>1
    <3>2. pc'[t] = "add" /\ arg'[t].impl = x
      BY <1>1, <2>0, <2>1 DEF Searches
    <3>3. pc[u] = "found" => arg[u].proto # x
      BY <2>1 DEF Referred
    <3>4. \A y : y # x => Adders(y)' \subseteq Adders(y)
      BY <3>1, <3>2 DEF Adders
    <3>5. QED
      BY <1>1, <3>1, <3>3, <3>4 DEF Kept
  <2>2. ASSUME arg' = [arg EXCEPT ![t] = [arg[t] EXCEPT !.i = arg[t].i + 1]], UNCHANGED pc
        PROVE  pc'[u] = pc[u] /\ arg'[u] = arg[u] /\ Kept(u)'
    <3>1. \A v \in Threads \ {t} : pc'[v] = pc[v] /\ arg'[v] = arg[v]
      BY <1>1, <2>2
    <3>2. \A x : Adders(x)' \subseteq Adders(x)
      BY <2>0, <2>2, <3>1 DEF Adders
    <3>3. QED
      BY <1>1, <3>1, <3>2 DEF Kept
  <2>3. QED
    BY <1>3, <2>1, <2>2, AskEngineProperties
<1>4. CASE CacheAdd(t)
  <2>1. /\ \A v \in Threads \ {t} : pc'[v] = pc[v] /\ arg'[v] = arg[v]
        /\ pc'[t] = "search"
    BY <1>1, <1>4 DEF CacheAdd, Move
  <2>2. \A x : Adders(x)' \subseteq Adders(x)
    BY <2>1 DEF Adders
  <2>3. QED
    BY <1>1, <2>1, <2>2 DEF Kept
<1>5. QED
  BY <1>2, <1>3, <1>4

(* A hit fits.                                                             *)
LEMMA FoundFits ==
  ASSUME IInv, NEW t \in Threads, Quiet(t), NEW s \in Specs, NEW r \in Providers \cup {""},
         Get(s, r) # Null, pc'[t] = "found", arg'[t].impl = Null, arg'[t].proto = Get(s, r),
         arg'[t].spec = s, arg'[t].provider = r
  PROVE  (Looking(t) /\ Searched(t) /\ Found(t) /\ Kept(t) /\ Served(t))'
<1>1. PICK x : x = Get(s, r)
  OBVIOUS
<1>2. /\ Adders(x) = {} /\ x # Null
      /\ \E p \in Providers : Made(x, NameOf[s], p) /\ r \in {"", p}
  BY <1>1, GetFits
<1>3. Adders(x)' = {}
  <2>1. /\ pc[t] # "add" /\ pc'[t] # "add"
        /\ \A v \in Threads \ {t} : pc'[v] = pc[v] /\ arg'[v] = arg[v]
    BY QuietProperties
  <2>2. QED
    BY <1>2, <2>1 DEF Adders
<1>4. Kept(t)'
  BY <1>1, <1>3 DEF Kept, Adders
<1>5. Found(t)'
  BY <1>1, <1>2 DEF Found, Made
<1>6. QED
  BY <1>1, <1>2, <1>4, <1>5 DEF Looking, Searched, Served

(* The thread that takes a step keeps its part: a hit fits, a miss could   *)
(* see no provider it will ask, each engine passed over has been asked and *)
(* what it has is known, so that the second look finds what they have.     *)
LEMMA QuietThread ==
  ASSUME IInv, NEW t \in Threads, Quiet(t)
  PROVE  (Looking(t) /\ Searched(t) /\ Found(t) /\ Kept(t) /\ Served(t))'
<1>0. TypeOK /\ DOMAIN pc = Threads /\ DOMAIN arg = Threads /\ "" \notin Providers
      /\ Looking(t) /\ Searched(t) /\ UNCHANGED <<algorithms, aliases>>
  BY ThreadParts, EnginesAssumption, QuietProperties, Zenon DEF IInv, TypeOK
<1>1. ASSUME NEW w \in Wants, NEW s \in Specs, NEW p \in Providers \cup {""},
             NEW q \in Providers \cup {""}, Request(t, w, s, p, q)
      PROVE  (Looking(t) /\ Searched(t) /\ Found(t) /\ Kept(t) /\ Served(t))'
  <2>1. pc'[t] = "get" /\ arg'[t].impl = Null /\ arg'[t].proto = Null /\ arg'[t].i = 1
    BY <1>0, <1>1 DEF Request, Move
  <2>2. QED
    BY <2>1 DEF Looking, Searched, Found, Kept, Served
<1>2. CASE CacheGet(t)
  <2>1. PICK s \in Specs, r \in Providers \cup {""} :
          arg[t] \in Searches /\ s = arg[t].spec /\ r = arg[t].provider
    BY <1>0, <1>2, SearchTypes DEF CacheGet, TypeOK
  <2>2. arg[t].impl = Null /\ pc[t] = "get"
    BY <1>0, <1>2 DEF CacheGet, Looking
  <2>3. CASE Get(s, r) = Null
    <3>1. /\ pc'[t] = "search" /\ arg'[t].impl = Null /\ arg'[t].proto = Null
          /\ arg'[t].spec = s /\ arg'[t].provider = r /\ arg'[t].seen = ProvidersOf(s)
          /\ arg'[t].i = 1
      BY <1>0, <1>2, <2>1, <2>2, <2>3 DEF CacheGet, Move, Searches, Looking
    <3>2. (r = "" => ProvidersOf(s) = {}) /\ r \notin ProvidersOf(s)
      BY <2>3, MissProperties
    <3>3. \A j \in DOMAIN engines : ~(j < 1)
      BY EngineOrder, Zenon
    <3>4. QED
      BY <3>1, <3>2, <3>3 DEF Looking, Searched, Found, Kept, Served
  <2>4. CASE Get(s, r) # Null
    <3>1. /\ pc'[t] = "found" /\ arg'[t].impl = Null /\ arg'[t].proto = Get(s, r)
          /\ arg'[t].spec = s /\ arg'[t].provider = r
      BY <1>0, <1>2, <2>1, <2>2, <2>4 DEF CacheGet, Move, Searches
    <3>2. QED
      BY <1>2, <2>4, <3>1, FoundFits DEF Quiet
  <2>5. QED
    BY <2>3, <2>4
<1>3. CASE CacheGetAgain(t)
  <2>1. PICK s \in Specs, r \in Providers \cup {""} :
          arg[t] \in Searches /\ s = arg[t].spec /\ r = arg[t].provider
    BY <1>0, <1>3, SearchTypes DEF CacheGetAgain, TypeOK
  <2>2. /\ pc'[t] = "found" /\ arg'[t].impl = Null /\ arg'[t].proto = Get(s, r)
        /\ arg'[t].spec = s /\ arg'[t].provider = r /\ arg[t].i > Len(engines) /\ pc[t] = "search"
    BY <1>0, <1>3, <2>1 DEF CacheGetAgain, Move, Searches, Looking
  <2>3. CASE Get(s, r) = Null
    <3>1. ASSUME NEW j \in DOMAIN engines, Asked(j, r), Has(j, s) PROVE FALSE
      <4>1. j < arg[t].i /\ engines[j] \in Providers
        <5>1. arg[t].i \in Nat \ {0}
          BY <2>1, SearchTypes
        <5>2. j < arg[t].i
          BY <2>2, <5>1, EngineOrder, Zenon
        <5>3. QED
          BY <5>2, EngineProperties, Zenon
      <4>2. Known(s, engines[j])
        BY <1>0, <2>1, <2>2, <3>1, <4>1 DEF Searched
      <4>3. r \in {"", engines[j]}
        BY <3>1 DEF Asked
      <4>4. TypeOK /\ CacheInv
        BY DEF IInv
      <4>5. Get(s, r) # Null
        BY <4>1, <4>2, <4>3, <4>4, GetProperties
      <4>6. QED
        BY <2>3, <4>5
    <3>2. ~CanServe(s, r)
      BY <3>1 DEF CanServe
    <3>3. CanServe(arg[t].spec, arg[t].provider)' <=> CanServe(s, r)
      BY <2>2 DEF CanServe, Asked, Has
    <3>4. QED
      BY <2>2, <2>3, <3>2, <3>3 DEF Looking, Searched, Found, Kept, Served
  <2>4. CASE Get(s, r) # Null
    BY <1>3, <2>2, <2>4, FoundFits DEF Quiet
  <2>5. QED
    BY <2>3, <2>4
<1>4. ASSUME MakeFound(t) \/ NotFound(t) \/ ProvidersFound(t) \/ SetPreferred(t)
      PROVE  (Looking(t) /\ Searched(t) /\ Found(t) /\ Kept(t) /\ Served(t))'
  <2>1. pc'[t] = "idle"
    BY <1>0, <1>4 DEF MakeFound, NotFound, ProvidersFound, SetPreferred, Answer, Move
  <2>2. QED
    BY <2>1 DEF Looking, Searched, Found, Kept, Served
<1>5. QED
  BY <1>1, <1>2, <1>3, <1>4 DEF Quiet

(* The same for a thread that asks an engine: one it passes over has       *)
(* nothing for it.                                                         *)
LEMMA AskingThread ==
  ASSUME IInv, NEW t \in Threads, AskEngine(t)
  PROVE  (Looking(t) /\ Searched(t) /\ Found(t) /\ Kept(t) /\ Served(t))'
<1>1. DOMAIN pc = Threads /\ DOMAIN arg = Threads /\ Looking(t) /\ Searched(t)
  BY ThreadParts DEF IInv, TypeOK
<1>2. /\ arg[t] \in Searches /\ arg[t].i \in DOMAIN engines /\ arg[t].impl = Null
      /\ arg[t].proto = Null /\ pc[t] = "search" /\ UNCHANGED <<algorithms, aliases>>
  BY <1>1, AskEngineProperties
<1>3. ASSUME NEW x, Made(x, NameOf[arg[t].spec], engines[arg[t].i]),
             Asked(arg[t].i, arg[t].provider),
             arg' = [arg EXCEPT ![t] = [arg[t] EXCEPT !.impl = x]],
             pc' = [pc EXCEPT ![t] = "add"]
      PROVE  (Looking(t) /\ Searched(t) /\ Found(t) /\ Kept(t) /\ Served(t))'
  <2>1. /\ pc'[t] = "add" /\ arg'[t].impl = x /\ arg'[t].proto = Null
        /\ arg'[t].spec = arg[t].spec /\ arg'[t].provider = arg[t].provider
        /\ arg'[t].seen = arg[t].seen /\ arg'[t].i = arg[t].i
    BY <1>1, <1>2, <1>3 DEF Searches
  <2>2. Looking(t)'
    BY <1>2, <1>3, <2>1 DEF Looking, Asked, Made
  <2>3. Searched(t)'
    BY <1>1, <1>2, <2>1 DEF Searched, Asked, Has, Known
  <2>4. QED
    BY <2>1, <2>2, <2>3 DEF Found, Kept, Served
<1>4. ASSUME ~(Asked(arg[t].i, arg[t].provider) /\ Has(arg[t].i, arg[t].spec)),
             arg' = [arg EXCEPT ![t] = [arg[t] EXCEPT !.i = arg[t].i + 1]], UNCHANGED pc
      PROVE  (Looking(t) /\ Searched(t) /\ Found(t) /\ Kept(t) /\ Served(t))'
  <2>1. /\ pc'[t] = "search" /\ arg'[t].impl = Null /\ arg'[t].proto = Null
        /\ arg'[t].spec = arg[t].spec /\ arg'[t].provider = arg[t].provider
        /\ arg'[t].seen = arg[t].seen /\ arg'[t].i = arg[t].i + 1
    BY <1>1, <1>2, <1>4 DEF Searches
  <2>2. \A j \in DOMAIN engines : j < arg[t].i + 1 => j < arg[t].i \/ j = arg[t].i
    BY <1>2, EngineProperties
  <2>3. Searched(t)'
    BY <1>1, <1>2, <1>4, <2>1, <2>2 DEF Searched, Asked, Has, Known
  <2>4. QED
    BY <2>1, <2>3 DEF Looking, Found, Kept, Served
<1>5. QED
  BY <1>3, <1>4, AskEngineProperties

(* And for one that adds what an engine made: from then on it is known.    *)
LEMMA AddingThread ==
  ASSUME IInv, NEW t \in Threads, CacheAdd(t),
         \A r \in Specs, q \in Providers : Known(r, q) => Known(r, q)'
  PROVE  (Looking(t) /\ Searched(t) /\ Found(t) /\ Kept(t) /\ Served(t))'
<1>1. DOMAIN pc = Threads /\ DOMAIN arg = Threads /\ TypeOK /\ CacheInv /\ Searched(t)
  BY ThreadParts DEF IInv, TypeOK
<1>2. /\ arg[t] \in Searches /\ arg[t].i \in DOMAIN engines /\ arg[t].spec \in Specs
      /\ arg[t].proto = Null /\ pc[t] = "add" /\ pc' = [pc EXCEPT ![t] = "search"]
      /\ arg' = [arg EXCEPT ![t] = [arg[t] EXCEPT !.impl = Null, !.i = arg[t].i + 1]]
  BY CacheAddProperties
<1>3. PICK s \in Specs, p \in Providers :
        s = arg[t].spec /\ p = engines[arg[t].i] /\ Known(s, p)'
  <2>1. PICK s \in Specs, p \in Providers, x \in Prototypes :
          /\ s = arg[t].spec /\ p = engines[arg[t].i] /\ Made(x, NameOf[s], p) /\ Add(x, s, p)
    BY CacheAddProperties
  <2>2. Known(s, p)'
    BY <1>1, <2>1, AddKeeps
  <2>3. QED
    BY <2>1, <2>2
<1>4. /\ pc'[t] = "search" /\ arg'[t].impl = Null /\ arg'[t].proto = Null
      /\ arg'[t].spec = s /\ arg'[t].provider = arg[t].provider
      /\ arg'[t].seen = arg[t].seen /\ arg'[t].i = arg[t].i + 1
  BY <1>1, <1>2, <1>3 DEF Searches
<1>5. Searched(t)'
  <2>1. ASSUME NEW j \in DOMAIN engines, j < arg[t].i + 1, Asked(j, arg[t].provider), Has(j, s)
        PROVE  Known(s, engines[j])'
    <3>1. CASE j = arg[t].i
      BY <1>3, <3>1
    <3>2. CASE j # arg[t].i
      <4>1. j < arg[t].i /\ engines[j] \in Providers
        BY <1>2, <2>1, <3>2, EngineProperties
      <4>2. Known(s, engines[j])
        BY <1>1, <1>2, <1>3, <2>1, <4>1 DEF Searched
      <4>3. QED
        BY <1>3, <4>1, <4>2
    <3>3. QED
      BY <3>1, <3>2
  <2>2. QED
    BY <1>1, <1>2, <1>4, <2>1 DEF Searched, Asked, Has, Known
<1>6. QED
  BY <1>4, <1>5 DEF Looking, Found, Kept, Served

(* Every step keeps what IInv says of the threads.                         *)
LEMMA ThreadsNext ==
  ASSUME IInv, [Next]_vars
  PROVE  ProgressInv' /\ SearchInv' /\ FoundInv' /\ AvailableIsFound'
<1>1. \A r \in Specs, q \in Providers : Known(r, q) => Known(r, q)'
  BY CacheNext
<1>2. ASSUME NEW u \in Threads
      PROVE  (Looking(u) /\ Searched(u) /\ Found(u) /\ Kept(u) /\ Served(u))'
  <2>1. ASSUME NEW t \in Threads, Quiet(t) \/ AskEngine(t) \/ CacheAdd(t)
        PROVE  (Looking(u) /\ Searched(u) /\ Found(u) /\ Kept(u) /\ Served(u))'
    <3>1. CASE u = t
      BY <1>1, <2>1, <3>1, QuietThread, AskingThread, AddingThread
    <3>2. CASE u # t
      BY <1>1, <2>1, <3>2, OthersKeep, ThreadUnchanged
    <3>3. QED
      BY <3>1, <3>2
  <2>2. CASE UNCHANGED <<pc, arg>>
    <3>1. Kept(u)'
      BY <2>2, ThreadParts DEF Kept, Adders
    <3>2. QED
      BY <1>1, <2>2, <3>1, ThreadUnchanged
  <2>3. ASSUME NEW t \in Threads, NEW n \in Names, NEW p \in UserProviders, AddOwn(t, n, p)
        PROVE  UNCHANGED <<pc, arg>>
    BY <2>3 DEF AddOwn
  <2>4. UNCHANGED vars => UNCHANGED <<pc, arg>>
    BY DEF vars
  <2>5. QED
    BY <2>1, <2>2, <2>3, <2>4, StepCases
<1>3. QED
  BY <1>2, Zenon DEF Looking, Searched, Found, Kept, Served, ProgressInv, SearchInv, FoundInv,
                     AvailableIsFound

-----------------------------------------------------------------------------
(* The theorems.                                                           *)

(* Nothing is cached at first, and no thread is in a request.              *)
LEMMA InitInv == Init => IInv
<1> SUFFICES ASSUME Init PROVE IInv
  OBVIOUS
<1>1. TypeOK
  BY DEF Init, TypeOK
<1>2. CacheInv /\ ProgressInv /\ SearchInv /\ FoundInv /\ AvailableIsFound
  BY DEF Init, CacheInv, ProgressInv, SearchInv, FoundInv, AvailableIsFound
<1>3. \A x \in Prototypes : ~InCache(x) /\ Adders(x) = {}
  BY NullIsNoPrototype DEF Init, InCache, Adders
<1>4. PrototypesAreOwnedOnce
  BY <1>3 DEF Init, PrototypesAreOwnedOnce, InCache
<1>5. QED
  BY <1>1, <1>2, <1>4 DEF IInv

(* Every step keeps IInv.                                                  *)
LEMMA InductiveNext == IInv /\ [Next]_vars => IInv'
  BY TypeNext, CacheNext, OwnedNext, ThreadsNext DEF IInv

(* IInv holds in every reachable state.                                    *)
THEOREM InductiveInvariant == Spec => []IInv
<1>1. Init => IInv
  BY InitInv
<1>2. IInv /\ [Next]_vars => IInv'
  BY InductiveNext
<1>3. QED
  BY <1>1, <1>2, PTL DEF Spec

(* The cache, the aliases and the requests keep their types.               *)
THEOREM TypeCorrect == Spec => []TypeOK
<1>1. IInv => TypeOK
  BY DEF IInv
<1>2. QED
  BY <1>1, InductiveInvariant, PTL

(* A prototype that is not deleted is owned once, by a slot of the cache   *)
(* or by the search that is about to add it (algo_cache.h:150).            *)
THEOREM OwnedOnce == Spec => []PrototypesAreOwnedOnce
<1>1. IInv => PrototypesAreOwnedOnce
  BY DEF IInv
<1>2. QED
  BY <1>1, InductiveInvariant, PTL

(* Whatever other threads do meanwhile, a request an engine can serve is   *)
(* not answered with nothing (algo_factory.cpp:61-75).                     *)
THEOREM AvailableFound == Spec => []AvailableIsFound
<1>1. IInv => AvailableIsFound
  BY DEF IInv
<1>2. QED
  BY <1>1, InductiveInvariant, PTL

(* What is cloned, unless it has been deleted, sits in the slot of an      *)
(* algorithm and a provider that were asked for (algo_cache.h:102-109).    *)
LEMMA FoundFitsSlot == IInv => AnswerFits
<1> SUFFICES ASSUME IInv, NEW t \in Threads, pc[t] = "found", arg[t].proto \in alive
             PROVE  \E np \in SlotOf(arg[t].proto) :
                      /\ np[1] = NameOf[arg[t].spec]
                      /\ arg[t].provider \in {"", np[2]}
  BY DEF AnswerFits
<1>1. TypeOK /\ CacheInv /\ PrototypesAreOwnedOnce /\ FoundInv
  BY DEF IInv
<1>2. arg[t].proto \in Prototypes /\ arg[t].proto # Null
  BY <1>1, NullIsNoPrototype DEF TypeOK
<1>3. PICK p \in Providers : Made(arg[t].proto, NameOf[arg[t].spec], p) /\ arg[t].provider \in {"", p}
  BY <1>1, <1>2 DEF FoundInv
<1>4. Adders(arg[t].proto) = {}
  BY <1>1, <1>2 DEF FoundInv
<1>5. PICK n \in Names, q \in Providers : algorithms[n][q] = arg[t].proto
  BY <1>1, <1>2, <1>4 DEF PrototypesAreOwnedOnce, InCache
<1>6. Made(arg[t].proto, n, q)
  BY <1>1, <1>2, <1>5 DEF CacheInv
<1>7. n = NameOf[arg[t].spec] /\ q = p
  BY <1>3, <1>6 DEF Made
<1>8. <<n, q>> \in SlotOf(arg[t].proto)
  BY <1>5 DEF SlotOf
<1>9. QED
  BY <1>3, <1>7, <1>8

(* The answer to a request is of the kind that was asked for.              *)
THEOREM AnswersFit == Spec => []AnswerFits
  BY InductiveInvariant, FoundFitsSlot, PTL

(* What Add puts in a slot is not the null pointer.                        *)
LEMMA AddGrows ==
  ASSUME TypeOK, NEW s \in Specs, NEW p \in Providers, NEW x \in Prototypes, Add(x, s, p)
  PROVE  \A n \in Names, q \in Providers :
           /\ algorithms[n][q] # Null => algorithms'[n][q] # Null
           /\ <<n, q>> # <<NameOf[s], p>> => algorithms'[n][q] = algorithms[n][q]
<1>1. NameOf[s] \in Names /\ x # Null
  BY NullIsNoPrototype DEF Names
<1>2. QED
  BY <1>1 DEF Add, TypeOK

(* Which slots a step may change.                                          *)
LEMMA SlotChanges ==
  ASSUME IInv, [Next]_vars
  PROVE  \A n \in Names, q \in Providers :
           /\ algorithms[n][q] # Null => algorithms'[n][q] # Null
           /\ algorithms'[n][q] # algorithms[n][q] =>
                \/ q \in UserProviders
                \/ \E t \in Threads : pc[t] = "add" /\ q \notin arg[t].seen
<1>1. TypeOK /\ CacheInv /\ SearchInv
  BY DEF IInv
<1>2. CASE UNCHANGED algorithms
  BY <1>2
<1>3. ASSUME NEW t \in Threads, CacheAdd(t), NEW n \in Names, NEW q \in Providers
      PROVE  /\ algorithms[n][q] # Null => algorithms'[n][q] # Null
             /\ algorithms'[n][q] # algorithms[n][q] => pc[t] = "add" /\ q \notin arg[t].seen
  <2>1. PICK s \in Specs, p \in Providers, x \in Prototypes :
          p = engines[arg[t].i] /\ Add(x, s, p)
    BY <1>3, CacheAddProperties
  <2>2. pc[t] = "add" /\ arg[t].provider \in {"", p}
    BY <1>3, <2>1, CacheAddProperties DEF Asked
  <2>3. p \notin arg[t].seen
    BY <1>1, <2>2 DEF SearchInv
  <2>4. /\ algorithms[n][q] # Null => algorithms'[n][q] # Null
        /\ <<n, q>> # <<NameOf[s], p>> => algorithms'[n][q] = algorithms[n][q]
    BY <1>1, <2>1, AddGrows
  <2>5. QED
    BY <2>2, <2>3, <2>4
<1>4. ASSUME NEW t \in Threads, NEW m \in Names, NEW p \in UserProviders, AddOwn(t, m, p),
             NEW n \in Names, NEW q \in Providers
      PROVE  /\ algorithms[n][q] # Null => algorithms'[n][q] # Null
             /\ algorithms'[n][q] # algorithms[n][q] => q \in UserProviders
  <2>1. PICK x \in Prototypes : m \in Specs /\ p \in Providers /\ Add(x, m, p)
    BY <1>4, AddOwnProperties
  <2>2. /\ algorithms[n][q] # Null => algorithms'[n][q] # Null
        /\ <<n, q>> # <<NameOf[m], p>> => algorithms'[n][q] = algorithms[n][q]
    BY <1>1, <2>1, AddGrows
  <2>3. QED
    BY <2>2
<1>5. ASSUME NEW t \in Threads, Quiet(t) \/ AskEngine(t) PROVE UNCHANGED algorithms
  BY <1>5, QuietProperties, AskEngineProperties
<1>6. UNCHANGED vars => UNCHANGED algorithms
  BY DEF vars, cache
<1>7. QED
  BY <1>2, <1>3, <1>4, <1>5, <1>6, StepCases

(* A provider once known for an algorithm is not lost (algo_cache.h:151).  *)
THEOREM KnownIsKept == Spec => ProvidersOnlyGrow
<1>1. IInv /\ [Next]_vars =>
        [\A n \in Names : Cached(n) \subseteq {p \in Providers : algorithms'[n][p] # Null}]_vars
  BY SlotChanges DEF Cached
<1>2. QED
  BY <1>1, InductiveInvariant, PTL DEF Spec, ProvidersOnlyGrow

(* Only a search that could not see an engine's prototype when it missed   *)
(* replaces it (algo_factory.cpp:61-71).                                   *)
THEOREM SettledAnswersStay == Spec => ReplacesOnlyUnseen
<1>1. IInv /\ [Next]_vars =>
        [\A n \in Names, p \in Providers \ UserProviders :
           algorithms[n][p] \notin {Null, algorithms'[n][p]} =>
             \E t \in Threads : pc[t] = "add" /\ p \notin arg[t].seen]_vars
  BY SlotChanges
<1>2. QED
  BY <1>1, InductiveInvariant, PTL DEF Spec, ReplacesOnlyUnseen
=============================================================================
