----------------------- MODULE LibraryLifecycleProofs -----------------------
(***************************************************************************)
(* Proofs about LibraryLifecycle: while one thread at most makes           *)
(* LibraryInitializer objects and no request makes its own, the unlocked   *)
(* global pointer is safe.  For any number of threads no Library_State is  *)
(* used after its deletion, each is initialised completely or undone, and  *)
(* its parts go in an order that leaves none without what it lives in.     *)
(***************************************************************************)
EXTENDS LibraryLifecycle, TLAPS

-----------------------------------------------------------------------------
(* Stacks and parts.                                                       *)

Labels == {"use", "load", "constructed", "setup", "initialize", "rethrow", "idle"}

(* A return goes to the label that the call pushed.                        *)
LEMMA Push ==
  ASSUME NEW x \in Labels, NEW s \in Seq(Labels)
  PROVE  Head(<<x>> \o s) = x /\ Tail(<<x>> \o s) = s /\ Len(<<x>> \o s) = Len(s) + 1
  OBVIOUS

(* A set-up goes back to the constructor, or to the use that began it.     *)
LEMMA BaseType ==
  /\ Base \in Seq(Labels) /\ Base # <<"use">> /\ Len(Base) \in {1, 2}
  /\ program = "initializer" =>
       Base = <<"constructed">> /\ Head(Base) = "constructed" /\ Tail(Base) = <<>>
  /\ program # "initializer" =>
       Base = <<"load", "use">> /\ Head(Base) = "load" /\ Tail(Base) = <<"use">>
<1>1. CASE program = "initializer"
  BY <1>1 DEF Base, Labels
<1>2. CASE program # "initializer"
  <2>1. Base = <<"load", "use">>
    BY <1>2 DEF Base
  <2>2. <<"load", "use">> \in Seq(Labels) /\ Len(<<"load", "use">>) = 2
    BY DEF Labels
  <2>3. Head(<<"load", "use">>) = "load" /\ Tail(<<"load", "use">>) = <<"use">>
    OBVIOUS
  <2>4. QED
    BY <1>2, <2>1, <2>2, <2>3
<1>3. QED
  BY <1>1, <1>2

(* A pushed label is popped again, and is seen.                            *)
LEMMA Pushed ==
  ASSUME NEW x \in Labels
  PROVE  /\ Head(<<x>> \o Base) = x /\ Tail(<<x>> \o Base) = Base
         /\ <<x>> \o Base # <<"use">>
         /\ Head(<<x>>) = x /\ Tail(<<x>>) = <<>> /\ <<x>> \o <<>> = <<x>>
<1>1. Head(<<x>> \o Base) = x /\ Tail(<<x>> \o Base) = Base /\ Len(<<x>> \o Base) # 1
  <2>1. /\ Head(<<x>> \o Base) = x /\ Tail(<<x>> \o Base) = Base
        /\ Len(<<x>> \o Base) = Len(Base) + 1
    BY Push, BaseType
  <2>2. Len(Base) = 1 \/ Len(Base) = 2
    BY BaseType
  <2>3. QED
    BY <2>1, <2>2
<1>2. Len(<<"use">>) = 1
  OBVIOUS
<1>3. QED
  BY <1>1, <1>2

(* initialize gives a state its parts one by one, the factory last.        *)
LEMMA GivenParts ==
  /\ Len(SetupOrder) = 9 /\ Given(0) = {} /\ Given(9) = AllParts
  /\ \A k \in 1 .. 9 : Given(k) = Given(k - 1) \cup {SetupOrder[k]}
  /\ \A k \in 0 .. 8 : "algorithm_factory" \notin Given(k)
  /\ \A k \in 0 .. 9 : Given(k) \subseteq AllParts
<1>1. Len(SetupOrder) = 9 /\ DOMAIN SetupOrder = 1 .. 9
  BY DEF SetupOrder
<1>2. AllParts = {SetupOrder[i] : i \in 1 .. 9}
  BY <1>1 DEF AllParts, ToSet
<1>3. \A k \in 1 .. 8 : SetupOrder[k] # "algorithm_factory"
  BY DEF SetupOrder
<1>4. \A k \in 1 .. 9 : Given(k) = Given(k - 1) \cup {SetupOrder[k]}
  BY DEF Given
<1>5. QED
  BY <1>1, <1>2, <1>3, <1>4 DEF Given

(* A complete state has what its uses ask for.                             *)
LEMMA PartsNamed ==
  /\ Allocators \cup {"mutex_factory", "allocator_lock", "config_lock"} \subseteq AllParts
  /\ "algorithm_factory" \in AllParts
<1>1. /\ SetupOrder[1] = "mutex_factory" /\ SetupOrder[2] = "allocator_lock"
      /\ SetupOrder[3] = "config_lock" /\ SetupOrder[4] = "malloc"
      /\ SetupOrder[5] = "locking" /\ SetupOrder[6] = "mmap"
      /\ SetupOrder[9] = "algorithm_factory"
  BY DEF SetupOrder
<1>2. \A k \in 1 .. 9 : SetupOrder[k] \in AllParts
  BY GivenParts DEF Given
<1>3. QED
  BY <1>1, <1>2 DEF Allocators

(* The destructor takes the factory first.                                 *)
LEMMA Teardown == Len(TeardownOrder) = 7 /\ TeardownOrder[1] = "algorithm_factory"
  BY DEF TeardownOrder

-----------------------------------------------------------------------------
(* Where a thread can be.                                                  *)

(* A thread's place tells in which phase the library is.                   *)
LEMMA Phase ==
  ASSUME IInv, NEW t \in Threads
  PROVE  /\ pc[t] = "idle" => Idle(t)
         /\ pc[t] \in {"new", "swap", "publish", "initialize", "setup", "constructed",
                       "catch", "delete", "rethrow"} =>
              Alone(t) /\ (Building(t) \/ Undoing(t))
         /\ pc[t] \in {"global_state", "load"} =>
              (Alone(t) /\ Building(t)) \/ (AllUp /\ Using(t))
         /\ pc[t] = "use" => AllUp /\ Using(t)
<1>1. CASE AllDown
  BY <1>1 DEF AllDown, Idle
<1>2. CASE AllUp
  BY <1>2 DEF AllUp, Idle, Using
<1>3. ASSUME NEW u \in Threads, Alone(u), Building(u) \/ Undoing(u), u # t
      PROVE  Idle(t) /\ pc[t] = "idle"
  BY <1>3 DEF Alone, Idle
<1>4. CASE Alone(t) /\ Building(t)
  BY <1>4 DEF Building
<1>5. CASE Alone(t) /\ Undoing(t)
  BY <1>5 DEF Undoing
<1>6. QED
  BY <1>1, <1>2, <1>3, <1>4, <1>5 DEF IInv

(* A step of one thread leaves the others where they are.                  *)
Others(t) == \A u \in Threads \ {t} :
  /\ pc'[u] = pc[u] /\ stack'[u] = stack[u]
  /\ built'[u] = built[u] /\ old'[u] = old[u] /\ handle'[u] = handle[u]

(* The other threads stay idle.                                            *)
LEMMA AloneKept ==
  ASSUME NEW t \in Threads, Alone(t), Others(t),
         UNCHANGED <<regions, initializer, program>>
  PROVE  Alone(t)'
  BY DEF Alone, Others, Idle

(* What a step that gives or takes no part and ends no use leaves as it is.*)
LEMMA FixedKept ==
  ASSUME IInv, UNCHANGED <<live, parts, initializer, refused, program, wild>>
  PROVE  Roles' /\ FactoryInv' /\ NoUseOfDeletedState' /\ UsesSucceed'
  BY DEF IInv, Roles, FactoryInv, NoUseOfDeletedState, UsesSucceed

-----------------------------------------------------------------------------
(* Building.                                                               *)

(* The constructor of an initializer starts only while the library is down.*)
LEMMA ConstructNext ==
  ASSUME Disciplined, IInv, NEW t \in Threads, Construct(t)
  PROVE  IInv'
<1>1. program = "initializer" /\ t \in Initializers /\ ~initializer[t]
  BY RolesAssumption DEF Construct, Disciplined, IInv, Domains
<1>2. AllDown
  <2>1. ~AllUp
    BY <1>1 DEF AllUp, IInv, Roles, Disciplined
  <2>2. ASSUME NEW u \in Threads, Alone(u), Building(u) \/ Undoing(u) PROVE FALSE
    <3>1. u = t
      BY <1>1, <2>2 DEF Alone, Disciplined
    <3>2. QED
      BY <2>2, <3>1 DEF Construct, Building, Undoing
  <2>3. QED
    BY <2>1, <2>2 DEF IInv
<1>3. /\ pc'[t] = "new" /\ stack'[t] = <<"constructed">> \o <<>> /\ Others(t)
      /\ Domains'
  BY <1>2 DEF Construct, Call, Others, IInv, Domains, AllDown, Idle
<1>4. Alone(t)
  BY <1>1, <1>2 DEF AllDown, Alone
<1>5. Alone(t)'
  BY <1>3, <1>4, AloneKept DEF Construct
<1>6. Base' = <<"constructed">> /\ <<"constructed">> \o <<>> = <<"constructed">>
  BY <1>1, Pushed DEF Base, Construct, Labels
<1>7. Building(t)'
  BY <1>2, <1>3, <1>6 DEF Building, Construct, AllDown, Down, Idle
<1>8. QED
  BY <1>3, <1>5, <1>7, FixedKept DEF IInv, Construct

(* A new state has no part yet, and there is no other.                     *)
LEMMA NewNext ==
  ASSUME IInv, NEW t \in Threads, NEW s \in States, New(t, s)
  PROVE  IInv'
<1>1. Alone(t) /\ Building(t) /\ stack[t] = Base /\ Down
  BY Phase DEF New, Building, Undoing
<1>2. /\ pc'[t] = "swap" /\ stack'[t] = <<"initialize">> \o Base /\ built'[t] = s
      /\ Others(t) /\ Domains'
  BY <1>1 DEF New, Call, Others, IInv, Domains
<1>3. parts'[s] = {} /\ live' = {s} /\ \A x \in States \ {s} : parts'[x] = parts[x]
  BY <1>1 DEF New, Down, IInv, Domains
<1>4. Alone(t)'
  BY <1>1, <1>2, AloneKept DEF New
<1>5. Base' = Base
  BY DEF Base, New
<1>6. Building(t)'
  BY <1>1, <1>2, <1>3, <1>5 DEF Building, New, Down
<1>7. FactoryInv'
  BY <1>1, <1>3 DEF IInv, FactoryInv, Down
<1>8. Roles' /\ NoUseOfDeletedState' /\ UsesSucceed'
  BY DEF IInv, Roles, NoUseOfDeletedState, UsesSucceed, New
<1>9. QED
  BY <1>2, <1>4, <1>6, <1>7, <1>8 DEF IInv

(* An allocation that fails, before or during the set-up, undoes it.       *)
LEMMA ThrowNext ==
  ASSUME IInv, NEW t \in Threads, NewThrows(t) \/ SetupThrows(t)
  PROVE  IInv'
<1>1. /\ Alone(t) /\ stack[t] = Base /\ live = {global} \ {Null}
  BY Phase, NullAssumption DEF NewThrows, SetupThrows, Building, Undoing, Down, Has
<1>2. /\ pc'[t] = "catch" /\ stack'[t] = stack[t] /\ Others(t) /\ Domains'
      /\ UNCHANGED <<global, live, parts, regions, initializer, refused, program, wild>>
  BY DEF NewThrows, SetupThrows, Goto, Others, IInv, Domains
<1>3. Alone(t)'
  BY <1>1, <1>2, AloneKept
<1>4. Undoing(t)'
  BY <1>1, <1>2 DEF Undoing, Base
<1>5. QED
  BY <1>2, <1>3, <1>4, FixedKept DEF IInv

(* initialize is called on the state that has just been published.         *)
LEMMA InitializeNext ==
  ASSUME IInv, NEW t \in Threads, Initialize(t)
  PROVE  IInv'
<1>1. Alone(t) /\ Building(t) /\ stack[t] = Base /\ Has({}) /\ old[t] = Null
  BY Phase DEF Initialize, Building, Undoing
<1>2. /\ pc'[t] = "global_state" /\ stack'[t] = <<"setup">> \o Base /\ built'[t] = Null
      /\ Others(t) /\ Domains'
  BY <1>1 DEF Initialize, Call, Others, IInv, Domains
<1>3. Alone(t)'
  BY <1>1, <1>2, AloneKept DEF Initialize
<1>4. Building(t)'
  BY <1>1, <1>2 DEF Building, Initialize, Has, Base
<1>5. QED
  BY <1>2, <1>3, <1>4, FixedKept DEF IInv, Initialize

(* The set-up adds one part after the other; with the last the state is    *)
(* complete, and the constructor or the use that began it goes on.         *)
LEMMA SetupNext ==
  ASSUME IInv, NEW t \in Threads, Setup(t)
  PROVE  IInv'
<1>1. /\ Alone(t) /\ Building(t) /\ stack[t] = Base /\ handle[t] = global
      /\ built[t] = Null /\ old[t] = Null
      /\ step[t] \in 1 .. 9 /\ Has(Given(step[t] - 1))
  BY Phase, GivenParts DEF Setup, Building, Undoing
<1>2. PICK k \in 1 .. 9 : k = step[t]
  BY <1>1
<1>3. /\ global \in States /\ live = {global} /\ parts[global] = Given(k - 1)
      /\ Given(k) = Given(k - 1) \cup {SetupOrder[k]} /\ Given(k) \subseteq AllParts
  BY <1>1, <1>2, GivenParts DEF Has
<1>4. /\ Others(t) /\ built' = built /\ old' = old
      /\ UNCHANGED <<global, live, regions, initializer, refused, program, wild>>
      /\ DOMAIN pc' = Threads /\ DOMAIN stack' = Threads
      /\ DOMAIN handle' = Threads /\ DOMAIN step' = Threads
  BY <1>1, <1>3 DEF Setup, Goto, Return, Others, IInv, Domains
<1>5. Alone(t)' /\ Base' = Base
  BY <1>1, <1>4, AloneKept DEF Base
<1>6. CASE pc'[t] = "catch" /\ parts' = parts /\ stack' = stack
  <2>1. Domains'
    BY <1>4, <1>6 DEF IInv, Domains
  <2>2. Undoing(t)'
    BY <1>1, <1>3, <1>4, <1>5, <1>6, NullAssumption DEF Undoing
  <2>3. QED
    BY <1>4, <1>5, <1>6, <2>1, <2>2, FixedKept DEF IInv
<1>7. CASE parts' = [parts EXCEPT ![global] = Given(k)]
  <2>1. parts'[global] = Given(k) /\ \A s \in States \ {global} : parts'[s] = parts[s]
    BY <1>3, <1>7 DEF IInv, Domains
  <2>2. Domains'
    BY <1>3, <1>4, <1>7 DEF IInv, Domains
  <2>3. Has(Given(k))'
    BY <1>3, <1>4, <2>1 DEF Has
  <2>4. FactoryInv'
    <3>1. "algorithm_factory" \in Given(k) => Given(k) = AllParts
      <4>1. k = 9 \/ k \in 0 .. 8
        OBVIOUS
      <4>2. QED
        BY <4>1, GivenParts
    <3>2. QED
      BY <1>3, <1>4, <2>1, <3>1 DEF IInv, FactoryInv
  <2>5. Roles' /\ NoUseOfDeletedState' /\ UsesSucceed'
    BY <1>4 DEF IInv, Roles, NoUseOfDeletedState, UsesSucceed
  <2>6. CASE k # 9
    <3>1. pc'[t] = pc[t] /\ stack'[t] = stack[t] /\ handle'[t] = handle[t] /\ step'[t] = k + 1
      BY <1>1, <1>2, <1>3, <1>7, <2>1, <2>6, GivenParts DEF Setup, LastSetup, IInv, Domains
    <3>2. Building(t)'
      BY <1>1, <1>2, <1>4, <1>5, <2>3, <2>6, <3>1, GivenParts DEF Building, Setup
    <3>3. QED
      BY <1>5, <2>2, <2>4, <2>5, <3>2 DEF IInv
  <2>7. CASE k = 9
    <3>1. /\ pc'[t] = Head(Base) /\ stack'[t] = Tail(Base) /\ handle'[t] = Null
          /\ Has(AllParts)'
      <4>1. step[t] = LastSetup /\ 9 # 1 /\ Given(9) = AllParts
        BY <1>2, <2>7, GivenParts DEF LastSetup
      <4>2. Return(t) /\ handle' = [handle EXCEPT ![t] = Null]
        BY <1>1, <1>2, <1>3, <2>7, <4>1 DEF Setup
      <4>3. Has(AllParts)'
        BY <2>3, <2>7, <4>1 DEF Has
      <4>4. QED
        BY <1>1, <4>2, <4>3 DEF Return, IInv, Domains
    <3>2. CASE program = "initializer"
      <4>1. pc'[t] = "constructed" /\ stack'[t] = <<>>
        BY <3>1, <3>2, BaseType
      <4>2. Building(t)'
        BY <1>1, <1>4, <3>1, <3>2, <4>1 DEF Building
      <4>3. QED
        BY <1>5, <2>2, <2>4, <2>5, <4>2 DEF IInv
    <3>3. CASE program # "initializer"
      <4>1. pc'[t] = "load" /\ stack'[t] = <<"use">>
        BY <3>1, <3>3, BaseType
      <4>2. Using(t)'
        BY <1>1, <1>4, <4>1 DEF Using
      <4>3. AllUp'
        BY <1>1, <1>4, <1>5, <3>1, <3>3, <4>2 DEF AllUp, Alone
      <4>4. QED
        BY <2>2, <2>4, <2>5, <4>3 DEF IInv
    <3>4. QED
      BY <3>2, <3>3
  <2>8. QED
    BY <2>6, <2>7
<1>8. QED
  BY <1>1, <1>2, <1>3, <1>6, <1>7 DEF Setup, Goto, IInv, Domains

(* The constructor returns: the initializer exists.                        *)
LEMMA ConstructedNext ==
  ASSUME IInv, NEW t \in Threads, Constructed(t)
  PROVE  IInv'
<1>1. Alone(t) /\ Building(t) /\ Has(AllParts) /\ program = "initializer"
  BY Phase DEF Constructed, Building, Undoing
<1>2. /\ Idle(t)' /\ Others(t) /\ Domains' /\ initializer'[t]
      /\ \A u \in Threads \ {t} : initializer'[u] = initializer[u]
  BY DEF Constructed, Finish, Idle, Others, IInv, Domains
<1>3. \A u \in Threads : Idle(u)' /\ regions'[u] = {}
  BY <1>1, <1>2 DEF Alone, Others, Idle, Constructed
<1>4. AllUp'
  BY <1>1, <1>2, <1>3 DEF AllUp, Has, Constructed
<1>5. Roles'
  BY <1>1, <1>2 DEF Roles, IInv, Alone, Constructed
<1>6. FactoryInv' /\ NoUseOfDeletedState' /\ UsesSucceed'
  BY DEF IInv, FactoryInv, NoUseOfDeletedState, UsesSucceed, Constructed
<1>7. QED
  BY <1>2, <1>4, <1>5, <1>6 DEF IInv

-----------------------------------------------------------------------------
(* Undoing.                                                                *)

(* The initializer goes when no other object is left: nobody else is at    *)
(* work, and none will be before the state is gone.                        *)
LEMMA DestructNext ==
  ASSUME Disciplined, IInv, NEW t \in Threads, Destruct(t)
  PROVE  IInv'
<1>1. program = "initializer" /\ t \in Initializers /\ NoOtherObject(t)
  BY DEF Destruct, IInv, Roles
<1>2. AllUp
  BY DEF Destruct, IInv, AllDown, Alone
<1>3. Idle(t)
  BY Phase DEF Destruct
<1>4. /\ pc'[t] = "swap" /\ stack'[t] = <<"idle">> \o <<>> /\ built'[t] = Null /\ handle'[t] = Null
      /\ Others(t) /\ Domains' /\ ~initializer'[t]
      /\ \A u \in Threads \ {t} : initializer'[u] = initializer[u]
  BY <1>3 DEF Destruct, Call, Others, IInv, Domains, Idle
<1>5. \A u \in Threads : ~initializer'[u]
  BY <1>1, <1>4 DEF Disciplined, IInv, Roles
<1>6. \A u \in Threads : (u # t => Idle(u)') /\ regions'[u] = {}
  BY <1>1, <1>4, Phase DEF NoOtherObject, Others, Idle, Destruct
<1>7. Alone(t)'
  BY <1>1, <1>5, <1>6 DEF Alone
<1>8. Undoing(t)'
  <2>1. stack'[t] = <<"idle">>
    BY <1>4, Pushed DEF Labels
  <2>2. live' = {global'} \ {Null}
    BY <1>2, NullAssumption DEF AllUp, Has, Destruct
  <2>3. QED
    BY <1>4, <2>1, <2>2 DEF Undoing
<1>9. Roles' /\ FactoryInv' /\ NoUseOfDeletedState' /\ UsesSucceed'
  BY <1>5 DEF IInv, Roles, FactoryInv, NoUseOfDeletedState, UsesSucceed, Destruct
<1>10. QED
  BY <1>4, <1>7, <1>8, <1>9 DEF IInv

(* The handler of a failed initialisation takes the state back.            *)
LEMMA CatchNext ==
  ASSUME IInv, NEW t \in Threads, Catch(t)
  PROVE  IInv'
<1>1. Alone(t) /\ stack[t] = Base /\ live = {global} \ {Null}
  BY Phase DEF Catch, Building, Undoing
<1>2. /\ pc'[t] = "swap" /\ stack'[t] = <<"rethrow">> \o Base
      /\ built'[t] = Null /\ handle'[t] = Null /\ Others(t) /\ Domains'
  BY <1>1 DEF Catch, Call, Others, IInv, Domains
<1>3. Alone(t)'
  BY <1>1, <1>2, AloneKept DEF Catch
<1>4. Undoing(t)'
  BY <1>1, <1>2 DEF Undoing, Base, Catch
<1>5. QED
  BY <1>2, <1>3, <1>4, FixedKept DEF IInv, Catch

(* After it the exception goes to the caller, and the library is down.     *)
LEMMA RethrowNext ==
  ASSUME IInv, NEW t \in Threads, Rethrow(t)
  PROVE  IInv'
<1>1. Alone(t) /\ stack[t] = Base /\ Down
  BY Phase DEF Rethrow, Building, Undoing
<1>2. ~(stack[t] # <<"constructed">> /\ stack[t][2] = "setup")
  <2>1. <<"load", "use">>[2] = "use"
    OBVIOUS
  <2>2. QED
    BY <1>1, <2>1 DEF Base
<1>3. /\ Finish(t) /\ Refused(t, stack[t] # <<"constructed">>)
      /\ UNCHANGED <<global, live, parts, regions, initializer, program, wild>>
  BY <1>2 DEF Rethrow
<1>4. Idle(t)' /\ Others(t) /\ Domains'
  BY <1>3 DEF Finish, Refused, Idle, Others, IInv, Domains
<1>5. AllDown'
  BY <1>1, <1>3, <1>4 DEF AllDown, Down, Alone, Others, Idle
<1>6. UsesSucceed'
  <2>1. SUFFICES ASSUME program = "initializer", NEW u \in Threads PROVE ~refused'[u]
    BY <1>3 DEF UsesSucceed
  <2>2. stack[t] = <<"constructed">>
    BY <1>1, <2>1 DEF Base
  <2>3. QED
    BY <1>3, <2>1, <2>2 DEF Refused, IInv, Domains, UsesSucceed
<1>7. Roles' /\ FactoryInv' /\ NoUseOfDeletedState'
  BY <1>3 DEF IInv, Roles, FactoryInv, NoUseOfDeletedState
<1>8. QED
  BY <1>4, <1>5, <1>6, <1>7 DEF IInv

(* swap_global_state reads the pointer ...                                 *)
LEMMA SwapReadsNext ==
  ASSUME IInv, NEW t \in Threads, SwapReads(t)
  PROVE  IInv'
<1>1. /\ pc'[t] = "publish" /\ stack'[t] = stack[t] /\ old'[t] = global
      /\ Others(t) /\ Domains'
  BY DEF SwapReads, Goto, Others, IInv, Domains
<1>2. Alone(t) /\ (Building(t) \/ Undoing(t))
  BY Phase DEF SwapReads
<1>3. Alone(t)' /\ Base' = Base
  BY <1>1, <1>2, AloneKept DEF SwapReads, Base
<1>4. Building(t) => Building(t)'
  BY <1>1, <1>3 DEF Building, SwapReads
<1>5. Undoing(t) => Undoing(t)'
  BY <1>1, <1>3 DEF Undoing, SwapReads
<1>6. QED
  BY <1>1, <1>2, <1>3, <1>4, <1>5, FixedKept DEF IInv, SwapReads

(* ... and writes it: a new state is published where none was, and one     *)
(* that is taken back is out of reach before its destructor runs.          *)
LEMMA SwapWritesNext ==
  ASSUME IInv, NEW t \in Threads, SwapWrites(t)
  PROVE  IInv'
<1>1. /\ Alone(t) /\ (Building(t) \/ Undoing(t)) /\ pc[t] = "publish"
      /\ global' = built[t] /\ step'[t] = 1
      /\ UNCHANGED <<live, parts, built, old, handle, regions, initializer, refused, program, wild>>
  BY Phase DEF SwapWrites, Published, IInv, Domains
<1>2. built[t] \in States \cup {Null}
  BY <1>1 DEF Building, Undoing
<1>3. Others(t) /\ Domains'
  BY <1>1, <1>2 DEF SwapWrites, Return, Goto, Others, IInv, Domains
<1>4. Alone(t)' /\ Base' = Base
  BY <1>1, <1>3, AloneKept DEF Base
<1>5. Roles' /\ FactoryInv' /\ NoUseOfDeletedState' /\ UsesSucceed'
  BY <1>1, FixedKept
<1>6. CASE Building(t)
  <2>1. /\ stack[t] = <<"initialize">> \o Base /\ built[t] \in States /\ old[t] = Null
        /\ parts[built[t]] = {} /\ live = {built[t]}
    BY <1>1, <1>6 DEF Building
  <2>2. pc'[t] = "initialize" /\ stack'[t] = Base
    BY <2>1, Pushed DEF SwapWrites, Return, Labels, IInv, Domains
  <2>3. Has({})'
    BY <1>1, <2>1 DEF Has
  <2>4. Building(t)'
    BY <1>1, <1>4, <2>1, <2>2, <2>3 DEF Building
  <2>5. QED
    BY <1>3, <1>4, <1>5, <2>4 DEF IInv
<1>7. CASE Undoing(t)
  <2>1. /\ built[t] = Null /\ handle[t] = Null /\ old[t] = global /\ live = {global} \ {Null}
        /\ stack[t] \in {<<"rethrow">> \o Base, <<"idle">>}
    BY <1>1, <1>7 DEF Undoing
  <2>2. CASE old[t] = Null
    <3>1. Return(t) /\ Down'
      BY <1>1, <2>1, <2>2 DEF SwapWrites, Down
    <3>2. CASE stack[t] = <<"rethrow">> \o Base
      <4>1. pc'[t] = "rethrow" /\ stack'[t] = Base
        BY <3>1, <3>2, Pushed DEF Return, Labels, IInv, Domains
      <4>2. Undoing(t)'
        BY <1>4, <3>1, <4>1 DEF Undoing
      <4>3. QED
        BY <1>3, <1>4, <1>5, <4>2 DEF IInv
    <3>3. CASE stack[t] = <<"idle">>
      <4>1. pc'[t] = "idle" /\ stack'[t] = <<>>
        BY <3>1, <3>3, Pushed DEF Return, Labels, IInv, Domains
      <4>2. AllDown'
        BY <1>1, <1>4, <2>1, <2>2, <3>1, <4>1 DEF AllDown, Alone, Idle
      <4>3. QED
        BY <1>3, <1>5, <4>2 DEF IInv
    <3>4. QED
      BY <2>1, <3>2, <3>3
  <2>3. CASE old[t] # Null
    <3>1. pc'[t] = "delete" /\ stack'[t] = stack[t]
      BY <2>3 DEF SwapWrites, Goto, IInv, Domains
    <3>2. old[t] \in States /\ live = {old[t]}
      BY <2>1, <2>3 DEF IInv, Domains
    <3>3. Undoing(t)'
      <4>1. global' = Null /\ old'[t] \in States /\ live' = {old'[t]}
        BY <1>1, <2>1, <3>2
      <4>2. step'[t] \in 1 .. Len(TeardownOrder) /\ ~(step'[t] > 1)
        <5>1. \A k : k = 1 => k \in 1 .. 7 /\ ~(k > 1)
          OBVIOUS
        <5>2. step'[t] = 1
          BY <1>1
        <5>3. QED
          BY <5>1, <5>2, Teardown
      <4>3. /\ stack'[t] \in {<<"rethrow">> \o Base', <<"idle">>}
            /\ built'[t] = Null /\ handle'[t] = Null
        BY <1>1, <1>4, <2>1, <3>1
      <4>4. QED
        BY <3>1, <4>1, <4>2, <4>3 DEF Undoing
    <3>4. QED
      BY <1>3, <1>4, <1>5, <3>3 DEF IInv
  <2>4. QED
    BY <2>2, <2>3
<1>8. QED
  BY <1>1, <1>6, <1>7

(* The destructor takes the factory first and the object last.             *)
LEMMA DeleteNext ==
  ASSUME IInv, NEW t \in Threads, Delete(t)
  PROVE  IInv'
<1>1. /\ Alone(t) /\ Undoing(t) /\ pc[t] = "delete" /\ global = Null
      /\ built[t] = Null /\ handle[t] = Null
      /\ stack[t] \in {<<"rethrow">> \o Base, <<"idle">>}
      /\ step[t] \in 1 .. 7
      /\ step[t] > 1 => "algorithm_factory" \notin parts[old[t]]
  BY Phase, Teardown DEF Delete, Building, Undoing
<1>2. PICK s \in States : s = old[t] /\ live = {s}
  BY <1>1 DEF Undoing
<1>3. PICK k \in 1 .. 7 : k = step[t]
  BY <1>1
<1>4. /\ parts' = [parts EXCEPT ![s] = @ \ {TeardownOrder[k]}]
      /\ UNCHANGED <<global, built, handle, regions, initializer, refused, program, wild>>
  BY <1>2, <1>3 DEF Delete
<1>5. /\ parts'[s] \subseteq AllParts /\ "algorithm_factory" \notin parts'[s]
      /\ \A x \in States \ {s} : parts'[x] = parts[x]
      /\ parts' \in [States -> SUBSET AllParts]
  BY <1>1, <1>2, <1>3, <1>4, Teardown DEF IInv, Domains
<1>6. Others(t) /\ Domains'
  BY <1>2, <1>3, <1>4, <1>5 DEF Delete, Return, Others, IInv, Domains
<1>7. Alone(t)' /\ Base' = Base
  BY <1>1, <1>4, <1>6, AloneKept DEF Base
<1>8. FactoryInv' /\ Roles' /\ NoUseOfDeletedState' /\ UsesSucceed'
  <2>1. \A x \in States \ {s} : "algorithm_factory" \notin parts[x]
    BY <1>2 DEF IInv, FactoryInv
  <2>2. FactoryInv'
    BY <1>5, <2>1 DEF FactoryInv
  <2>3. QED
    BY <1>4, <2>2 DEF IInv, Roles, NoUseOfDeletedState, UsesSucceed
<1>9. CASE k # 7
  <2>1. /\ pc'[t] = pc[t] /\ stack'[t] = stack[t] /\ old' = old /\ live' = live
        /\ step'[t] = k + 1
    BY <1>2, <1>3, <1>9, Teardown DEF Delete, IInv, Domains
  <2>2. Undoing(t)'
    BY <1>1, <1>2, <1>4, <1>5, <1>7, <1>9, <2>1, Teardown DEF Undoing
  <2>3. QED
    BY <1>6, <1>7, <1>8, <2>2 DEF IInv
<1>10. CASE k = 7
  <2>1. live' = {} /\ old'[t] = Null /\ Return(t)
    BY <1>2, <1>3, <1>10, Teardown DEF Delete, IInv, Domains
  <2>2. Down'
    BY <1>1, <1>4, <2>1 DEF Down
  <2>3. CASE stack[t] = <<"rethrow">> \o Base
    <3>1. pc'[t] = "rethrow" /\ stack'[t] = Base
      BY <2>1, <2>3, Pushed DEF Return, Labels, IInv, Domains
    <3>2. Undoing(t)'
      BY <1>7, <2>2, <3>1 DEF Undoing
    <3>3. QED
      BY <1>6, <1>7, <1>8, <3>2 DEF IInv
  <2>4. CASE stack[t] = <<"idle">>
    <3>1. pc'[t] = "idle" /\ stack'[t] = <<>>
      BY <2>1, <2>4, Pushed DEF Return, Labels, IInv, Domains
    <3>2. AllDown'
      BY <1>1, <1>4, <1>7, <2>1, <2>2, <3>1 DEF AllDown, Alone, Idle
    <3>3. QED
      BY <1>6, <1>8, <3>2 DEF IInv
  <2>5. QED
    BY <1>1, <2>3, <2>4
<1>11. QED
  BY <1>9, <1>10

-----------------------------------------------------------------------------
(* Uses.                                                                   *)

(* A use begins while the library is up, or, without an initializer, while *)
(* nobody else is at work.                                                 *)
LEMMA UseNext ==
  ASSUME Disciplined, IInv, NEW t \in Threads, Use(t)
  PROVE  IInv'
<1>1. /\ Idle(t) /\ pc[t] = "idle" /\ program \in {"initializer", "lazy"}
  BY Phase, RolesAssumption DEF Use, Disciplined, IInv, Domains
<1>2. /\ pc'[t] = "global_state" /\ stack'[t] = <<"use">> /\ Others(t) /\ Domains'
  <2>1. <<"use">> \o <<>> = <<"use">>
    BY Pushed DEF Labels
  <2>2. QED
    BY <1>1, <2>1 DEF Use, Call, Others, IInv, Domains, Idle
<1>3. AllUp \/ (AllDown /\ program = "lazy")
  <2>1. CASE program = "initializer"
    BY <2>1 DEF Use, IInv, AllDown, Alone
  <2>2. ASSUME program = "lazy", NEW u \in Threads, Alone(u), Building(u) \/ Undoing(u)
        PROVE  FALSE
    BY <1>1, <2>2 DEF Use, Building, Undoing
  <2>3. QED
    BY <1>1, <2>1, <2>2 DEF IInv
<1>4. CASE AllUp
  <2>1. Using(t)'
    BY <1>1, <1>2 DEF Using, Idle, Use
  <2>2. \A u \in Threads : (Idle(u) \/ Using(u))'
    BY <1>2, <1>4, <2>1 DEF AllUp, Others, Idle, Using, Use
  <2>3. AllUp'
    BY <1>4, <2>2 DEF AllUp, Has, Use
  <2>4. QED
    BY <1>2, <2>3, FixedKept DEF IInv, Use
<1>5. CASE AllDown /\ program = "lazy"
  <2>1. Alone(t)
    BY <1>5 DEF AllDown, Alone
  <2>2. Alone(t)'
    BY <1>2, <2>1, AloneKept DEF Use
  <2>3. Building(t)'
    BY <1>1, <1>2, <1>5 DEF Building, AllDown, Down, Idle, Use
  <2>4. QED
    BY <1>2, <2>2, <2>3, FixedKept DEF IInv, Use
<1>6. QED
  BY <1>3, <1>4, <1>5

(* global_state() begins a set-up of its own only where there is no state. *)
LEMMA GlobalStateNext ==
  ASSUME IInv, NEW t \in Threads, GlobalState(t)
  PROVE  IInv'
<1>1. (Alone(t) /\ Building(t)) \/ (AllUp /\ Using(t))
  BY Phase DEF GlobalState
<1>2. /\ Others(t) /\ Domains' /\ Base' = Base
      /\ UNCHANGED <<global, live, parts, built, old, handle, step, regions,
                     initializer, refused, program, wild>>
  BY DEF GlobalState, Goto, Call, Others, IInv, Domains, Base
<1>3. CASE Alone(t) /\ Building(t)
  <2>1. Alone(t)'
    BY <1>2, <1>3, AloneKept
  <2>2. CASE stack[t] = <<"use">> /\ program = "lazy" /\ Down
    <3>1. /\ pc'[t] = "new" /\ stack'[t] = <<"load">> \o <<"use">>
      BY <2>2 DEF GlobalState, Call, Down, IInv, Domains
    <3>2. Base = <<"load">> \o <<"use">>
      BY <2>2 DEF Base
    <3>3. Building(t)'
      BY <1>2, <1>3, <2>2, <3>1, <3>2 DEF Building, Down
    <3>4. QED
      BY <1>2, <2>1, <3>3, FixedKept DEF IInv
  <2>3. CASE stack[t] = <<"setup">> \o Base /\ built[t] = Null /\ Has({})
    <3>1. pc'[t] = "load" /\ stack'[t] = stack[t]
      BY <2>3, NullAssumption DEF GlobalState, Goto, Has, IInv, Domains
    <3>2. Building(t)'
      BY <1>2, <1>3, <2>3, <3>1 DEF Building, Has
    <3>3. QED
      BY <1>2, <2>1, <3>2, FixedKept DEF IInv
  <2>4. QED
    BY <1>3, <2>2, <2>3 DEF GlobalState, Building
<1>4. CASE AllUp /\ Using(t)
  <2>1. pc'[t] = "load" /\ stack'[t] = stack[t] /\ stack[t] = <<"use">>
    BY <1>4, NullAssumption DEF GlobalState, Goto, AllUp, Has, Using, IInv, Domains
  <2>2. Using(t)'
    BY <1>2, <1>4, <2>1 DEF Using
  <2>3. \A u \in Threads : (Idle(u) \/ Using(u))'
    BY <1>2, <1>4, <2>2 DEF AllUp, Others, Idle, Using
  <2>4. AllUp'
    BY <1>2, <1>4, <2>3 DEF AllUp, Has
  <2>5. QED
    BY <1>2, <2>4, FixedKept DEF IInv
<1>5. QED
  BY <1>1, <1>3, <1>4

(* It returns the state there is, to the set-up or to the use.             *)
LEMMA LoadNext ==
  ASSUME IInv, NEW t \in Threads, Load(t)
  PROVE  IInv'
<1>1. (Alone(t) /\ Building(t)) \/ (AllUp /\ Using(t))
  BY Phase DEF Load
<1>2. /\ Others(t) /\ Domains' /\ Base' = Base /\ handle'[t] = global /\ step'[t] = 1
      /\ UNCHANGED <<global, live, parts, built, old, regions,
                     initializer, refused, program, wild>>
  BY DEF Load, Return, Others, IInv, Domains, Base
<1>3. CASE Alone(t) /\ Building(t)
  <2>1. Alone(t)'
    BY <1>2, <1>3, AloneKept
  <2>2. stack[t] = <<"setup">> \o Base /\ built[t] = Null /\ Has({}) /\ old[t] = Null
    BY <1>3 DEF Load, Building
  <2>3. pc'[t] = "setup" /\ stack'[t] = Base
    BY <2>2, Pushed DEF Load, Return, Labels, IInv, Domains
  <2>4. Has(Given(0))' /\ 1 \in 1 .. Len(SetupOrder) /\ 1 - 1 = 0
    BY <1>2, <2>2, GivenParts DEF Has
  <2>5. Building(t)'
    BY <1>2, <2>2, <2>3, <2>4 DEF Building
  <2>6. QED
    BY <1>2, <2>1, <2>5, FixedKept DEF IInv
<1>4. CASE AllUp /\ Using(t)
  <2>1. stack[t] = <<"use">>
    BY <1>4 DEF Load, Using
  <2>2. pc'[t] = "use" /\ stack'[t] = <<>>
    BY <2>1, Pushed DEF Load, Return, Labels, IInv, Domains
  <2>3. Using(t)'
    BY <1>2, <1>4, <2>2 DEF Using
  <2>4. \A u \in Threads : (Idle(u) \/ Using(u))'
    BY <1>2, <1>4, <2>3 DEF AllUp, Others, Idle, Using
  <2>5. AllUp'
    BY <1>2, <1>4, <2>4 DEF AllUp, Has
  <2>6. QED
    BY <1>2, <2>5, FixedKept DEF IInv
<1>5. QED
  BY <1>1, <1>3, <1>4

(* The state that a use works on is there and complete: the use succeeds.  *)
LEMMA UsesNext ==
  ASSUME IInv, NEW t \in Threads, UseAllocator(t) \/ UseFactory(t)
  PROVE  IInv'
<1>1. AllUp /\ handle[t] = global /\ global \in live
  BY Phase DEF UseAllocator, UseFactory, Using, AllUp, Has
<1>2. AllocatorReady(global) /\ FactoryReady(global)
  BY <1>1, PartsNamed DEF AllUp, Has, AllocatorReady, FactoryReady, Allocators
<1>3. /\ Refused(t, FALSE) /\ Finish(t)
      /\ UNCHANGED <<global, live, parts, initializer, program, wild>>
      /\ DOMAIN regions' = Threads
      /\ \A u \in Threads : regions'[u] \subseteq regions[u] \cup {global}
  BY <1>1, <1>2 DEF UseAllocator, UseFactory, IInv, Domains
<1>4. Idle(t)' /\ Others(t) /\ Domains'
  BY <1>3 DEF Finish, Refused, Idle, Others, IInv, Domains
<1>5. \A u \in Threads : (Idle(u) \/ Using(u))'
  BY <1>1, <1>3, <1>4 DEF AllUp, Others, Idle, Using
<1>6. AllUp'
  BY <1>1, <1>3, <1>5 DEF AllUp, Has
<1>7. Roles' /\ FactoryInv' /\ NoUseOfDeletedState' /\ UsesSucceed'
  BY <1>3 DEF IInv, Domains, Roles, FactoryInv, NoUseOfDeletedState, UsesSucceed, Refused
<1>8. QED
  BY <1>4, <1>6, <1>7 DEF IInv

(* Memory is given back to a state that is still there.                    *)
LEMMA ReleaseNext ==
  ASSUME IInv, NEW t \in Threads, NEW s \in States, Release(t, s)
  PROVE  IInv'
<1>1. AllUp /\ s = global
  BY DEF Release, IInv, AllDown, Alone, AllUp
<1>2. s \in live /\ "locking" \in parts[s]
  BY <1>1, PartsNamed DEF AllUp, Has, Allocators
<1>3. /\ regions' = [regions EXCEPT ![t] = @ \ {s}]
      /\ UNCHANGED <<global, live, parts, control, initializer, refused, program, wild>>
  BY <1>2 DEF Release
<1>4. DOMAIN regions' = Threads /\ \A u \in Threads : regions'[u] \subseteq regions[u]
  BY <1>3 DEF IInv, Domains
<1>5. Domains'
  BY <1>3, <1>4 DEF IInv, Domains, control
<1>6. AllUp'
  BY <1>1, <1>3, <1>4 DEF AllUp, Has, Idle, Using, control
<1>7. QED
  BY <1>3, <1>5, <1>6, FixedKept DEF IInv

(* A step that changes nothing keeps the invariant.                        *)
LEMMA StutterNext ==
  ASSUME IInv, UNCHANGED vars
  PROVE  IInv'
<1> USE DEF vars, control
<1>1. Domains' /\ Roles' /\ FactoryInv' /\ NoUseOfDeletedState' /\ UsesSucceed'
  BY DEF IInv, Domains, Roles, FactoryInv, NoUseOfDeletedState, UsesSucceed
<1>2. AllDown => AllDown'
  BY DEF AllDown, Down, Idle
<1>3. AllUp => AllUp'
  BY DEF AllUp, Has, Idle, Using
<1>4. ASSUME NEW t \in Threads, Alone(t), Building(t) \/ Undoing(t)
      PROVE  Alone(t)' /\ (Building(t) \/ Undoing(t))'
  BY <1>4 DEF Alone, Idle, Building, Undoing, Base, Down, Has
<1>5. QED
  BY <1>1, <1>2, <1>3, <1>4 DEF IInv

-----------------------------------------------------------------------------
(* The theorems.                                                           *)

(* The program starts with the library down.                               *)
LEMMA InitInv == Init => IInv
<1> SUFFICES ASSUME Init PROVE IInv
  OBVIOUS
<1>1. Domains /\ Roles /\ FactoryInv /\ NoUseOfDeletedState /\ UsesSucceed
  BY DEF Init, Domains, Roles, FactoryInv, NoUseOfDeletedState, UsesSucceed
<1>2. AllDown
  BY DEF Init, AllDown, Down, Idle
<1>3. QED
  BY <1>1, <1>2 DEF IInv

(* For any number of threads: the library is down, or up, or one thread    *)
(* alone is on its way from one to the other.                              *)
THEOREM InductiveInvariant ==
  ASSUME Disciplined
  PROVE  Spec => []IInv
<1>1. IInv /\ Next => IInv'
  BY ConstructNext, DestructNext, UseNext, ReleaseNext, GlobalStateNext, LoadNext, NewNext,
     ThrowNext, SwapReadsNext, SwapWritesNext, DeleteNext, InitializeNext, SetupNext,
     CatchNext, RethrowNext, ConstructedNext, UsesNext DEF Next, Step
<1>2. IInv /\ [Next]_vars => IInv'
  BY <1>1, StutterNext
<1>3. QED
  BY InitInv, <1>2, PTL DEF Spec

(* With the discipline no Library_State is used, and no memory given back  *)
(* to one, after it has been deleted.                                      *)
THEOREM NoneUsedAfterDeletion ==
  ASSUME Disciplined
  PROVE  Spec => []NoUseOfDeletedState
<1>1. IInv => NoUseOfDeletedState
  BY DEF IInv
<1>2. QED
  BY <1>1, InductiveInvariant, PTL

(* Outside initialize and deinitialize there is one complete state, or     *)
(* none: a set-up that fails anywhere leaves nothing behind.               *)
THEOREM SetUpOrUndone ==
  ASSUME Disciplined
  PROVE  Spec => []AllOrNothing
<1>1. IInv => AllOrNothing
  <2> SUFFICES ASSUME IInv, \A t \in Threads : InNoInitialize(t)
               PROVE  live = {global} \ {Null} /\ (global # Null => parts[global] = AllParts)
    BY DEF AllOrNothing
  <2>1. CASE AllDown
    BY <2>1 DEF AllDown, Down
  <2>2. CASE AllUp
    BY <2>2, NullAssumption DEF AllUp, Has
  <2>3. ASSUME NEW t \in Threads, Building(t) PROVE Down
    BY <2>3, BaseType, Pushed DEF InNoInitialize, Building, Labels
  <2>4. ASSUME NEW t \in Threads, Undoing(t) PROVE Down
    <3>1. <<"idle">> # <<"use">>
      OBVIOUS
    <3>2. QED
      BY <2>4, <3>1, BaseType, Pushed DEF InNoInitialize, Undoing, Labels
  <2>5. QED
    BY <2>1, <2>2, <2>3, <2>4 DEF IInv, Down
<1>2. QED
  BY <1>1, InductiveInvariant, PTL

(* Wherever there is an algorithm factory, there are the locks and the     *)
(* allocators that its prototypes need.                                    *)
THEOREM FactoryIsOutlived ==
  ASSUME Disciplined
  PROVE  Spec => []FactoryOutlived
<1>1. IInv => FactoryOutlived
  BY PartsNamed DEF IInv, FactoryInv, FactoryOutlived
<1>2. QED
  BY <1>1, InductiveInvariant, PTL

(* The global pointer never leads to a state whose destructor runs.        *)
THEOREM DyingOutOfReach ==
  ASSUME Disciplined
  PROVE  Spec => []DyingIsUnreachable
<1>1. IInv => DyingIsUnreachable
  <2> SUFFICES ASSUME IInv, NEW t \in Threads, pc[t] = "delete"
               PROVE  global # old[t]
    BY DEF DyingIsUnreachable
  <2>1. Undoing(t)
    BY Phase DEF Building
  <2>2. QED
    BY <2>1, NullAssumption DEF Undoing
<1>2. QED
  BY <1>1, InductiveInvariant, PTL

(* Under an initializer each use finds the locks, the allocators and the   *)
(* factory: none is refused.                                               *)
THEOREM UsesAreServed ==
  ASSUME Disciplined
  PROVE  Spec => []UsesSucceed
<1>1. IInv => UsesSucceed
  BY DEF IInv
<1>2. QED
  BY <1>1, InductiveInvariant, PTL
=============================================================================
