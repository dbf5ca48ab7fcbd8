-------------------------- MODULE AlgorithmFactory --------------------------
(***************************************************************************)
(* Algorithm_Factory and its Algorithm_Cache (algo_factory): requests for  *)
(* an algorithm are answered from a cache of prototypes, filled by asking  *)
(* the engines, and an object is made by cloning the prototype.            *)
(*                                                                         *)
(* The four caches (block and stream ciphers, hashes, MACs) are instances  *)
(* of one template and share nothing; this is one of them.  Every method   *)
(* of the cache is one critical section of its mutex, hence one step;      *)
(* between them, in factory_prototype and before clone(), no lock is held. *)
(***************************************************************************)
EXTENDS Naturals, Sequences

CONSTANTS
  Threads,
  Specs,      \* the names under which algorithms are asked for
  NameOf,     \* name() of the algorithm a request means, by spec
  engines,    \* the providers of the engines, in their order
  Provides,   \* the specs each engine implements
  UserProviders, \* providers of implementations the program adds itself
  Weight,     \* static_provider_weight
  Preferences, \* the pairs given to set_preferred_provider
  Copies      \* bound: prototypes of one name and provider that are in use at once

Providers == {engines[i] : i \in DOMAIN engines} \cup UserProviders
Names == {NameOf[s] : s \in Specs}
ASSUME EnginesAssumption ==
  /\ engines \in Seq(Providers) /\ "" \notin Providers
  /\ DOMAIN Provides = {engines[i] : i \in DOMAIN engines}
(* static_provider_weight knows no weight above 8.                         *)
ASSUME WeightAssumption == \A p \in Providers : Weight[p] \in 0 .. 8
(* An algorithm's name() is no empty string, and as a request it means     *)
(* that algorithm.                                                         *)
ASSUME NamesAssumption ==
  "" \notin Names /\ \A s \in Specs \cap Names : NameOf[s] = s
ASSUME BoundAssumption == Copies \in Nat \ {0}

VARIABLES
  algorithms,     \* prototype of each name and provider, or Null
  aliases,        \* requested name -> algorithm name, or ""
  pref_providers, \* requested name -> provider, or ""
  alive,          \* prototypes not deleted
  pc, arg,        \* each thread's place and locals in a request
  dangling        \* a deleted prototype has been used (ghost)

cache == <<algorithms, aliases, pref_providers>>
vars == <<cache, alive, pc, arg, dangling>>

(* A prototype object: what it is, and which of its copies.                *)
Prototypes == Names \X Providers \X (1 .. Copies)
Null == <<>>
NoArg == [want |-> "nothing"]

(* Which engines answer a request: all of them, or the provider's own.     *)
Asked(i, provider) == provider = "" \/ engines[i] = provider
Has(i, s) == s \in Provides[engines[i]]
CanServe(s, provider) == \E i \in DOMAIN engines : Asked(i, provider) /\ Has(i, s)

Init ==
  /\ algorithms = [n \in Names |-> [p \in Providers |-> Null]]
  /\ aliases = [s \in Specs |-> ""]
  /\ pref_providers = [s \in Specs |-> ""]
  /\ alive = {}
  /\ pc = [t \in Threads |-> "idle"] /\ arg = [t \in Threads |-> NoArg]
  /\ dangling = FALSE

-----------------------------------------------------------------------------
(* Algorithm_Cache.                                                        *)

Cached(n) == {p \in Providers : algorithms[n][p] # Null}
(* find_algorithm: the name itself, then the alias; "" if there is none.   *)
FindAlgorithm(s) ==
  IF s \in Names /\ Cached(s) # {} THEN s
  ELSE IF aliases[s] # "" /\ Cached(aliases[s]) # {} THEN aliases[s] ELSE ""

Heaviest(P) == CHOOSE p \in P : \A q \in P : Weight[q] <= Weight[p]
(* Faulty variant: a provider that is missing is replaced by another.      *)
GetFallsBack(s, provider) ==
  LET n == FindAlgorithm(s)
  IN IF n = "" THEN Null
     ELSE IF provider \in Cached(n) THEN algorithms[n][provider]
     ELSE algorithms[n][Heaviest(Cached(n))]
(* Faulty variant: a generic request does not look at the cache.           *)
GetOnlySpecific(s, provider) ==
  LET n == FindAlgorithm(s)
  IN IF n = "" \/ provider = "" THEN Null ELSE algorithms[n][provider]
Get(s, provider) ==
  LET n == FindAlgorithm(s)
  IN IF n = "" THEN Null
     ELSE IF provider # "" THEN algorithms[n][provider]
     ELSE IF pref_providers[s] \in Cached(n) THEN algorithms[n][pref_providers[s]]
     ELSE algorithms[n][Heaviest(Cached(n))]
ProvidersOf(s) == IF FindAlgorithm(s) = "" THEN {} ELSE Cached(FindAlgorithm(s))

(* Faulty variant: the prototype that is replaced is not deleted.          *)
AddLeaks(impl, s, p) ==
  /\ algorithms' = [algorithms EXCEPT ![NameOf[s]][p] = impl]
  /\ alive' = alive \cup {impl}
  /\ aliases' = [aliases EXCEPT ![s] = IF @ = "" /\ NameOf[s] # s THEN NameOf[s] ELSE @]
(* Faulty variant: the requested name is not remembered.                   *)
AddUnaliased(impl, s, p) ==
  /\ algorithms' = [algorithms EXCEPT ![NameOf[s]][p] = impl]
  /\ alive' = (alive \ {algorithms[NameOf[s]][p]}) \cup {impl}
  /\ UNCHANGED aliases
(* Faulty variant: the algorithm's other providers go too.                 *)
AddReplacesAll(impl, s, p) ==
  /\ algorithms' = [algorithms EXCEPT ![NameOf[s]] = [q \in Providers |-> IF q = p THEN impl ELSE Null]]
  /\ alive' = (alive \ {algorithms[NameOf[s]][q] : q \in Providers}) \cup {impl}
  /\ aliases' = [aliases EXCEPT ![s] = IF @ = "" /\ NameOf[s] # s THEN NameOf[s] ELSE @]
Add(impl, s, p) ==
  /\ algorithms' = [algorithms EXCEPT ![NameOf[s]][p] = impl]
  /\ alive' = (alive \ {algorithms[NameOf[s]][p]}) \cup {impl}
  /\ aliases' = [aliases EXCEPT ![s] = IF @ = "" /\ NameOf[s] # s THEN NameOf[s] ELSE @]

-----------------------------------------------------------------------------
(* factory_prototype and the calls made of it.                             *)

Wants == {"make", "providers_of", "set_preferred_provider"}
Referred == UNION {{arg[t].impl, arg[t].proto} : t \in {u \in Threads : pc[u] # "idle"}}
Unused(n, p) == {k \in 1 .. Copies : <<n, p, k>> \notin alive \cup Referred}
NewPrototype(n, p) == <<n, p, CHOOSE k \in Unused(n, p) : TRUE>>

Move(t, l) == pc' = [pc EXCEPT ![t] = l]
Answer(t) == arg' = [arg EXCEPT ![t] = NoArg] /\ Move(t, "idle")

Request(t, want, s, provider, pref) ==
  /\ pc[t] = "idle"
  /\ want # "make" => provider = ""
  /\ IF want = "set_preferred_provider" THEN <<s, pref>> \in Preferences ELSE pref = ""
  /\ arg' = [arg EXCEPT ![t] = [want |-> want, spec |-> s, provider |-> provider,
                                pref |-> pref, seen |-> {}, i |-> 1,
                                impl |-> Null, proto |-> Null]]
  /\ Move(t, "get")
  /\ UNCHANGED <<cache, alive, dangling>>

CacheGet(t) ==
  LET hit == Get(arg[t].spec, arg[t].provider)
  IN /\ pc[t] = "get"
     /\ arg' = [arg EXCEPT ![t].proto = hit,
                          ![t].seen = IF hit = Null THEN ProvidersOf(arg[t].spec) ELSE {}]
     /\ Move(t, IF hit # Null THEN "found" ELSE "search")
     /\ UNCHANGED <<cache, alive, dangling>>

(* The next engine; an implementation is made outside the lock.            *)
AskEngine(t) ==
  LET i == arg[t].i
  IN /\ pc[t] = "search" /\ i <= Len(engines)
     /\ IF Asked(i, arg[t].provider) /\ Has(i, arg[t].spec)
        THEN /\ Unused(NameOf[arg[t].spec], engines[i]) # {}
             /\ arg' = [arg EXCEPT ![t].impl = NewPrototype(NameOf[arg[t].spec], engines[i])]
             /\ alive' = alive \cup {arg'[t].impl}
             /\ Move(t, "add")
        ELSE /\ arg' = [arg EXCEPT ![t].i = i + 1]
             /\ UNCHANGED <<alive, pc>>
     /\ UNCHANGED <<cache, dangling>>

CacheAdd(t) ==
  /\ pc[t] = "add"
  /\ Add(arg[t].impl, arg[t].spec, engines[arg[t].i])
  /\ arg' = [arg EXCEPT ![t].impl = Null, ![t].i = @ + 1]
  /\ Move(t, "search")
  /\ UNCHANGED <<pref_providers, dangling>>

CacheGetAgain(t) ==
  /\ pc[t] = "search" /\ arg[t].i > Len(engines)
  /\ arg' = [arg EXCEPT ![t].proto = Get(arg[t].spec, arg[t].provider)]
  /\ Move(t, "found")
  /\ UNCHANGED <<cache, alive, dangling>>

(* make_*: clone the prototype, or throw Algorithm_Not_Found.  The other   *)
(* two calls end quietly when nothing is found.                            *)
MakeFound(t) ==
  /\ pc[t] = "found" /\ arg[t].want = "make" /\ arg[t].proto # Null
  /\ dangling' = (dangling \/ arg[t].proto \notin alive)
  /\ Answer(t)
  /\ UNCHANGED <<cache, alive>>
NotFound(t) ==
  /\ pc[t] = "found" /\ arg[t].proto = Null
  /\ Answer(t)
  /\ UNCHANGED <<cache, alive, dangling>>

ProvidersFound(t) ==
  /\ pc[t] = "found" /\ arg[t].want = "providers_of" /\ arg[t].proto # Null
  /\ Answer(t)
  /\ UNCHANGED <<cache, alive, dangling>>

SetPreferred(t) ==
  /\ pc[t] = "found" /\ arg[t].want = "set_preferred_provider" /\ arg[t].proto # Null
  /\ pref_providers' = [pref_providers EXCEPT ![arg[t].spec] = arg[t].pref]
  /\ Answer(t)
  /\ UNCHANGED <<algorithms, aliases, alive, dangling>>

(* add_*: an implementation of the program's own, under its own name.      *)
AddOwn(t, n, p) ==
  /\ pc[t] = "idle" /\ n \in Specs /\ NameOf[n] = n
  /\ Unused(n, p) # {}
  /\ Add(NewPrototype(n, p), n, p)
  /\ UNCHANGED <<pref_providers, pc, arg, dangling>>

-----------------------------------------------------------------------------
Next == \E t \in Threads :
  \/ \E w \in Wants, s \in Specs, p \in Providers \cup {""}, q \in Providers \cup {""} :
       Request(t, w, s, p, q)
  \/ CacheGet(t) \/ AskEngine(t) \/ CacheAdd(t) \/ CacheGetAgain(t)
  \/ MakeFound(t) \/ NotFound(t) \/ ProvidersFound(t) \/ SetPreferred(t)
  \/ \E n \in Names, p \in UserProviders : AddOwn(t, n, p)
Spec == Init /\ [][Next]_vars

-----------------------------------------------------------------------------
(* Properties.                                                             *)

(* Each prototype that is not deleted is owned once: by one slot of the    *)
(* cache, or by the one search that is about to add it (algo_cache.h:150,  *)
(* 212).  So the destructor deletes each once, and none is lost.           *)
InCache(x) == \E n \in Names, p \in Providers : algorithms[n][p] = x
Adders(x) == {t \in Threads : pc[t] = "add" /\ arg[t].impl = x}
PrototypesAreOwnedOnce ==
  \A x \in Prototypes :
    /\ x \in alive <=> InCache(x) \/ Adders(x) # {}
    /\ InCache(x) => Adders(x) = {}
    /\ \A t, u \in Adders(x) : t = u
    /\ \A n, m \in Names, p, q \in Providers :
         algorithms[n][p] = x /\ algorithms[m][q] = x => <<n, p>> = <<m, q>>

(* A request that an engine can serve is never answered with               *)
(* Algorithm_Not_Found, whatever other threads add (algo_factory.cpp:61-75)*)
AvailableIsFound ==
  \A t \in Threads : pc[t] = "found" /\ arg[t].proto = Null =>
    ~CanServe(arg[t].spec, arg[t].provider)

SlotOf(x) == {np \in Names \X Providers : algorithms[np[1]][np[2]] = x}
(* What is cloned implements what was asked, by the provider if one was    *)
(* asked for (algo_cache.h:102-109).                                       *)
AnswerFits ==
  \A t \in Threads : pc[t] = "found" /\ arg[t].proto \in alive =>
    \E np \in SlotOf(arg[t].proto) :
      /\ np[1] = NameOf[arg[t].spec]
      /\ arg[t].provider \in {"", np[2]}

(* A provider once known for an algorithm is not lost (algo_cache.h:151).  *)
ProvidersOnlyGrow ==
  [][\A n \in Names : Cached(n) \subseteq {p \in Providers : algorithms'[n][p] # Null}]_vars

(* No prototype is deleted while a thread is about to clone it             *)
(* (algo_factory.cpp:233-234 against algo_cache.h:150).                    *)
NoUseOfDeletedPrototype == ~dangling

(* An engine's prototype is replaced, and deleted, only by a search that   *)
(* could not see it when it missed, under the name it was asked for        *)
(* (algo_factory.cpp:61-71): once a name and provider has been answered,   *)
(* the answer is settled for that name.                                    *)
ReplacesOnlyUnseen ==
  [][\A n \in Names, p \in Providers \ UserProviders :
       algorithms[n][p] \notin {Null, algorithms'[n][p]} =>
         \E t \in Threads : pc[t] = "add" /\ p \notin arg[t].seen]_vars

(* The strengthening under which these are inductive: a slot holds what    *)
(* its name and provider say; an alias leads to the algorithm its request  *)
(* means; a search has put into the cache what the engines asked so far    *)
(* have, and could see no provider it asks when it missed; and what is     *)
(* about to be cloned is of the kind asked for, and in no search's hands.  *)
Searches == [want : Wants, spec : Specs, provider : Providers \cup {""},
             pref : Providers \cup {""}, seen : SUBSET Providers, i : Nat \ {0},
             impl : Prototypes \cup {Null}, proto : Prototypes \cup {Null}]
TypeOK ==
  /\ algorithms \in [Names -> [Providers -> Prototypes \cup {Null}]]
  /\ aliases \in [Specs -> Names \cup {""}]
  /\ pref_providers \in [Specs -> Providers \cup {""}]
  /\ alive \subseteq Prototypes
  /\ pc \in [Threads -> {"idle", "get", "search", "add", "found"}]
  /\ arg \in [Threads -> Searches \cup {NoArg}]
  /\ \A t \in Threads : pc[t] # "idle" => arg[t] \in Searches
  /\ dangling \in BOOLEAN

Made(x, n, p) == x \in {n} \X {p} \X (1 .. Copies)
Known(s, p) == algorithms[NameOf[s]][p] # Null /\ (s \in Names \/ aliases[s] = NameOf[s])
CacheInv ==
  /\ \A n \in Names, p \in Providers :
       algorithms[n][p] # Null => Made(algorithms[n][p], n, p)
  /\ \A s \in Specs : aliases[s] \in {"", NameOf[s]}
ProgressInv ==
  \A t \in Threads :
    /\ pc[t] = "get" => arg[t].i = 1
    /\ pc[t] \in {"get", "search"} => arg[t].impl = Null /\ arg[t].proto = Null
    /\ pc[t] = "add" =>
         /\ arg[t].proto = Null
         /\ arg[t].i \in DOMAIN engines /\ Asked(arg[t].i, arg[t].provider)
         /\ Made(arg[t].impl, NameOf[arg[t].spec], engines[arg[t].i])
    /\ pc[t] = "found" => arg[t].impl = Null
SearchInv ==
  \A t \in Threads : pc[t] \in {"search", "add"} =>
    /\ arg[t].provider = "" => arg[t].seen = {}
    /\ arg[t].provider \notin arg[t].seen
    /\ \A j \in DOMAIN engines :
         j < arg[t].i /\ Asked(j, arg[t].provider) /\ Has(j, arg[t].spec) =>
           Known(arg[t].spec, engines[j])
FoundInv ==
  \A t \in Threads : pc[t] = "found" /\ arg[t].proto # Null =>
    /\ Adders(arg[t].proto) = {}
    /\ \E p \in Providers : /\ Made(arg[t].proto, NameOf[arg[t].spec], p)
                             /\ arg[t].provider \in {"", p}
IInv ==
  /\ TypeOK /\ CacheInv /\ ProgressInv /\ SearchInv
  /\ PrototypesAreOwnedOnce /\ FoundInv /\ AvailableIsFound
=============================================================================
