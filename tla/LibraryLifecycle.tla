-------------------------- MODULE LibraryLifecycle --------------------------
(***************************************************************************)
(* The life of the global Library_State: LibraryInitializer (init.cpp),    *)
(* the global pointer with its lazy initialisation, Library_State's        *)
(* set-up and destructor (libstate.cpp), and the uses that go through      *)
(* global_state().  Nothing locks the global pointer, so every read and    *)
(* write of it, and every step of a set-up or tear-down, is a step here.   *)
(*                                                                         *)
(* A Library_State is the set of the parts it has.  The name of a deleted  *)
(* one is used again once no thread refers to it, so the number of         *)
(* initialisations needs no bound.                                         *)
(***************************************************************************)
EXTENDS Naturals, Sequences, SequencesExt

CONSTANTS
  Threads,       \* threads of the program
  Initializers,  \* the threads that make LibraryInitializer objects
  Programs,      \* how the program may treat the library's lifetime
  States,        \* Library_State objects
  Null           \* the null pointer

(* "initializer": the documented lifetime of a LibraryInitializer is kept; *)
(* "lazy": no initializer at all, one thread at a time; "requests": each   *)
(* thread makes its own initializer, as the PHP extension does.            *)
ASSUME RolesAssumption ==
  Initializers \subseteq Threads /\ Programs \subseteq {"initializer", "lazy", "requests"}
ASSUME NullAssumption == Null \notin States

VARIABLES
  global,       \* global_lib_state
  live,         \* the Library_States that exist
  parts,        \* what each of them has been given so far
  pc,           \* where each thread is
  stack,        \* each thread's return labels
  built,        \* the argument of set_global_state
  old,          \* the local old_state of swap_global_state
  handle,       \* the Library_State a thread runs a method of
  step,         \* how far its set-up or tear-down is
  regions,      \* secure memory a thread holds, by the state whose allocator gave it
  initializer,  \* the thread's LibraryInitializer exists
  refused,      \* its last use of the library ended in an exception
  program,      \* which of Programs this is
  wild          \* a deleted or null Library_State has been used: undefined behaviour

control == <<pc, stack, built, old, handle, step>>
vars == <<global, live, parts, control, regions, initializer, refused, program, wild>>

Allocators == {"malloc", "locking", "mmap"}
(* The parts in the order Library_State::initialize makes them.            *)
SetupOrder ==
  <<"mutex_factory", "allocator_lock", "config_lock", "malloc", "locking",
    "mmap", "default_allocator", "default_config", "algorithm_factory">>
AllParts == ToSet(SetupOrder)
(* Faulty variant: the prototypes outlive the memory they live in.         *)
TeardownOrderFactoryLast ==
  <<"malloc", "locking", "mmap", "allocator_lock", "mutex_factory",
    "config_lock", "algorithm_factory">>
(* The order of ~Library_State.                                            *)
TeardownOrder ==
  <<"algorithm_factory", "malloc", "locking", "mmap", "allocator_lock",
    "mutex_factory", "config_lock">>

Init ==
  /\ global = Null /\ live = {} /\ parts = [s \in States |-> {}]
  /\ pc = [t \in Threads |-> "idle"] /\ stack = [t \in Threads |-> <<>>]
  /\ built = [t \in Threads |-> Null] /\ old = [t \in Threads |-> Null]
  /\ handle = [t \in Threads |-> Null] /\ step = [t \in Threads |-> 1]
  /\ regions = [t \in Threads |-> {}]
  /\ initializer = [t \in Threads |-> FALSE]
  /\ refused = [t \in Threads |-> FALSE]
  /\ program \in Programs
  /\ wild = FALSE

-----------------------------------------------------------------------------
(* Control.                                                                *)

Goto(t, l) == pc' = [pc EXCEPT ![t] = l] /\ UNCHANGED stack
Return(t) == pc' = [pc EXCEPT ![t] = Head(stack[t])] /\ stack' = [stack EXCEPT ![t] = Tail(@)]
Call(t, l, back) == pc' = [pc EXCEPT ![t] = l] /\ stack' = [stack EXCEPT ![t] = <<back>> \o @]
Finish(t) == /\ pc' = [pc EXCEPT ![t] = "idle"] /\ stack' = [stack EXCEPT ![t] = <<>>]
             /\ handle' = [handle EXCEPT ![t] = Null]
             /\ built' = [built EXCEPT ![t] = Null] /\ old' = [old EXCEPT ![t] = Null]
             /\ step' = [step EXCEPT ![t] = 1]
Refused(t, b) == refused' = [refused EXCEPT ![t] = b]
(* A method of an object that does not exist.                              *)
RunWild == wild' = TRUE /\ UNCHANGED <<global, live, parts, control, regions, initializer, refused, program>>

Fresh(s) == /\ s \notin live
            /\ \A t \in Threads : s \notin {built[t], old[t], handle[t]} \cup regions[t]

-----------------------------------------------------------------------------
(* What the program does with the library.                                 *)

Construct(t) ==
  /\ pc[t] = "idle" /\ t \in Initializers /\ ~initializer[t]
  /\ program # "lazy"
  /\ Call(t, "new", "constructed")
  /\ UNCHANGED <<global, live, parts, built, old, handle, step, regions, initializer, refused, program, wild>>

(* With discipline the initializer outlives every other Botan object.      *)
NoOtherObject(t) == /\ \A u \in Threads : regions[u] = {}
                    /\ \A u \in Threads \ {t} : pc[u] = "idle"
Destruct(t) ==
  /\ pc[t] = "idle" /\ initializer[t]
  /\ program = "initializer" => NoOtherObject(t)
  /\ initializer' = [initializer EXCEPT ![t] = FALSE]
  /\ Call(t, "swap", "idle")
  /\ UNCHANGED <<global, live, parts, built, old, handle, step, regions, refused, program, wild>>

Use(t) ==
  /\ pc[t] = "idle"
  /\ program = "initializer" =>
       \E u \in Threads : initializer[u] /\ pc[u] \notin {"swap", "publish", "delete"}
  /\ program = "lazy" => \A u \in Threads \ {t} : pc[u] = "idle"
  /\ Call(t, "global_state", "use")
  /\ UNCHANGED <<global, live, parts, built, old, handle, step, regions, initializer, refused, program, wild>>

(* ~MemoryRegion goes to the allocator it was made with.                   *)
Release(t, s) ==
  /\ pc[t] = "idle" /\ s \in regions[t]
  /\ IF s \in live /\ "locking" \in parts[s]
     THEN /\ regions' = [regions EXCEPT ![t] = @ \ {s}]
          /\ UNCHANGED <<global, live, parts, control, initializer, refused, program, wild>>
     ELSE RunWild

-----------------------------------------------------------------------------
(* global_state() and LibraryInitializer.                                  *)

GlobalState(t) ==
  /\ pc[t] = "global_state"
  /\ IF global = Null THEN Call(t, "new", "load") ELSE Goto(t, "load")
  /\ UNCHANGED <<global, live, parts, built, old, handle, step, regions, initializer, refused, program, wild>>

Load(t) ==
  /\ pc[t] = "load"
  /\ handle' = [handle EXCEPT ![t] = global]
  /\ step' = [step EXCEPT ![t] = 1]
  /\ Return(t)
  /\ UNCHANGED <<global, live, parts, built, old, regions, initializer, refused, program, wild>>

New(t, s) ==
  /\ pc[t] = "new" /\ Fresh(s)
  /\ live' = live \cup {s} /\ parts' = [parts EXCEPT ![s] = {}]
  /\ built' = [built EXCEPT ![t] = s]
  /\ Call(t, "swap", "initialize")
  /\ UNCHANGED <<global, old, handle, step, regions, initializer, refused, program, wild>>

NewThrows(t) ==
  /\ pc[t] = "new"
  /\ Goto(t, "catch")
  /\ UNCHANGED <<global, live, parts, built, old, handle, step, regions, initializer, refused, program, wild>>

SwapReads(t) ==
  /\ pc[t] = "swap"
  /\ old' = [old EXCEPT ![t] = global]
  /\ Goto(t, "publish")
  /\ UNCHANGED <<global, live, parts, built, handle, step, regions, initializer, refused, program, wild>>

(* Faulty variant: deinitialize deletes the state and leaves the pointer.  *)
PublishedUnlessNull(t) == IF built[t] = Null THEN old[t] ELSE built[t]
Published(t) == built[t]
SwapWrites(t) ==
  /\ pc[t] = "publish"
  /\ global' = Published(t)
  /\ step' = [step EXCEPT ![t] = 1]
  /\ IF old[t] = Null THEN Return(t) ELSE Goto(t, "delete")
  /\ UNCHANGED <<live, parts, built, old, handle, regions, initializer, refused, program, wild>>

(* One member of ~Library_State; the object goes with its last one.        *)
Delete(t) ==
  LET s == old[t]
  IN /\ pc[t] = "delete"
     /\ IF s \notin live THEN RunWild
        ELSE /\ parts' = [parts EXCEPT ![s] = @ \ {TeardownOrder[step[t]]}]
             /\ IF step[t] = Len(TeardownOrder)
                THEN /\ live' = live \ {s} /\ old' = [old EXCEPT ![t] = Null]
                     /\ Return(t) /\ UNCHANGED step
                ELSE /\ step' = [step EXCEPT ![t] = @ + 1]
                     /\ UNCHANGED <<live, old, pc, stack>>
             /\ UNCHANGED <<global, built, handle, regions, initializer, refused, program, wild>>

Initialize(t) ==
  /\ pc[t] = "initialize"
  /\ Call(t, "global_state", "setup")
  /\ built' = [built EXCEPT ![t] = Null]
  /\ UNCHANGED <<global, live, parts, old, handle, step, regions, initializer, refused, program, wild>>

(* Faulty variant: the factory is never made.                             *)
LastSetupEarly == Len(SetupOrder) - 1
LastSetup == Len(SetupOrder)
(* Library_State::initialize on the state that global_state() returned.    *)
Setup(t) ==
  LET s == handle[t]
  IN /\ pc[t] = "setup"
     /\ IF s \notin live THEN RunWild
        ELSE /\ IF step[t] = 1 /\ "mutex_factory" \in parts[s]
                THEN Goto(t, "catch") /\ UNCHANGED <<parts, step, handle>>
                ELSE /\ parts' = [parts EXCEPT ![s] = @ \cup {SetupOrder[step[t]]}]
                     /\ IF step[t] = LastSetup
                        THEN Return(t) /\ handle' = [handle EXCEPT ![t] = Null] /\ UNCHANGED step
                        ELSE /\ step' = [step EXCEPT ![t] = @ + 1]
                             /\ UNCHANGED <<pc, stack, handle>>
             /\ UNCHANGED <<global, live, built, old, regions, initializer, refused, program, wild>>

(* Any of its allocations may fail.                                        *)
SetupThrows(t) ==
  /\ pc[t] = "setup" /\ handle[t] \in live
  /\ Goto(t, "catch")
  /\ UNCHANGED <<global, live, parts, built, old, handle, step, regions, initializer, refused, program, wild>>

(* Faulty variant: the handler only rethrows.                              *)
CatchForgets(t) ==
  /\ pc[t] = "catch"
  /\ Goto(t, "rethrow")
  /\ UNCHANGED <<global, live, parts, built, old, handle, step, regions, initializer, refused, program, wild>>
Catch(t) ==
  /\ pc[t] = "catch"
  /\ Call(t, "swap", "rethrow")
  /\ built' = [built EXCEPT ![t] = Null] /\ handle' = [handle EXCEPT ![t] = Null]
  /\ UNCHANGED <<global, live, parts, old, step, regions, initializer, refused, program, wild>>

(* The exception leaves initialize: it ends the constructor, or a use that *)
(* initialised lazily, or reaches the handler of an enclosing initialize.  *)
Rethrow(t) ==
  /\ pc[t] = "rethrow"
  /\ IF stack[t] # <<"constructed">> /\ stack[t][2] = "setup"
     THEN /\ pc' = [pc EXCEPT ![t] = "catch"]
          /\ stack' = [stack EXCEPT ![t] = SubSeq(@, 3, Len(@))]
          /\ UNCHANGED <<built, old, handle, step, refused>>
     ELSE /\ Finish(t)
          /\ Refused(t, stack[t] # <<"constructed">>)
  /\ UNCHANGED <<global, live, parts, regions, initializer, program, wild>>

Constructed(t) ==
  /\ pc[t] = "constructed"
  /\ initializer' = [initializer EXCEPT ![t] = TRUE]
  /\ Finish(t)
  /\ UNCHANGED <<global, live, parts, regions, refused, program, wild>>

-----------------------------------------------------------------------------
(* A use of the state that global_state() returned.                        *)

(* get_allocator(""): both locks, then the default allocator.  Without a   *)
(* configured default the choice is "malloc".                              *)
AllocatorReady(s) ==
  /\ {"allocator_lock", "config_lock"} \subseteq parts[s]
  /\ {"malloc", "locking"} \cap parts[s] # {}
UseAllocator(t) ==
  LET s == handle[t]
  IN /\ pc[t] = "use"
     /\ IF s \notin live THEN RunWild
        ELSE /\ regions' = IF AllocatorReady(s) THEN [regions EXCEPT ![t] = @ \cup {s}] ELSE regions
             /\ Refused(t, ~AllocatorReady(s))
             /\ Finish(t)
             /\ UNCHANGED <<global, live, parts, initializer, program, wild>>

FactoryReady(s) == "algorithm_factory" \in parts[s]
UseFactory(t) ==
  /\ pc[t] = "use"
  /\ IF handle[t] \notin live THEN RunWild
     ELSE /\ Refused(t, ~FactoryReady(handle[t]))
          /\ Finish(t)
          /\ UNCHANGED <<global, live, parts, regions, initializer, program, wild>>

-----------------------------------------------------------------------------
Step(t) ==
  \/ Construct(t) \/ Destruct(t) \/ Use(t)
  \/ \E s \in States : Release(t, s)
  \/ GlobalState(t) \/ Load(t)
  \/ \E s \in States : New(t, s)
  \/ NewThrows(t) \/ SwapReads(t) \/ SwapWrites(t) \/ Delete(t)
  \/ Initialize(t) \/ Setup(t) \/ SetupThrows(t)
  \/ Catch(t) \/ Rethrow(t) \/ Constructed(t)
  \/ UseAllocator(t) \/ UseFactory(t)
(* After undefined behaviour nothing more is said of the program.          *)
Next == ~wild /\ \E t \in Threads : Step(t)
Spec == Init /\ [][Next]_vars

-----------------------------------------------------------------------------
(* Properties.                                                             *)

(* No thread ever runs a method of a Library_State, or gives memory back   *)
(* to an allocator of one, that has been deleted (libstate.cpp:81).        *)
NoUseOfDeletedState == ~wild

InNoInitialize(t) == pc[t] \in {"idle", "use"} \/ stack[t] = <<"use">>
(* While no thread is inside initialize or deinitialize the library is     *)
(* initialised completely or not at all, and no other Library_State is     *)
(* left over: a failed initialisation is undone (init.cpp:60-64).          *)
AllOrNothing ==
  (\A t \in Threads : InNoInitialize(t)) =>
     /\ live = {global} \ {Null}
     /\ global # Null => parts[global] = AllParts

(* The prototypes of the algorithm factory live in memory of the state's   *)
(* allocators and are guarded by its locks: those are there first and go   *)
(* last (libstate.cpp:264-304, 323-335).                                   *)
FactoryOutlived ==
  \A s \in States : "algorithm_factory" \in parts[s] =>
    Allocators \cup {"mutex_factory", "allocator_lock", "config_lock"} \subseteq parts[s]

(* A state that is being deleted cannot be reached any more                *)
(* (libstate.cpp:79-92).                                                   *)
DyingIsUnreachable == \A t \in Threads : pc[t] = "delete" => global # old[t]

(* Under an initializer no use of the library fails for want of a lock, an *)
(* allocator or the factory (libstate.cpp:107-124, 234).                   *)
UsesSucceed == program = "initializer" => \A t \in Threads : ~refused[t]

(* The discipline under which no lock is needed: no request of its own, and *)
(* initializers made by one thread, if by any.                             *)
Disciplined == "requests" \notin Programs /\ \A t, u \in Initializers : t = u

(* The strengthening under which, with that discipline, the properties     *)
(* hold of every step.  The library is down, or up, or one thread, with no *)
(* other at work and no memory held, takes it from one to the other: its   *)
(* place and its stack tell how far it is.                                 *)
Domains ==
  /\ DOMAIN pc = Threads /\ DOMAIN stack = Threads /\ DOMAIN built = Threads
  /\ DOMAIN old = Threads /\ DOMAIN handle = Threads /\ DOMAIN step = Threads
  /\ DOMAIN regions = Threads /\ DOMAIN initializer = Threads /\ DOMAIN refused = Threads
  /\ parts \in [States -> SUBSET AllParts]
  /\ global \in States \cup {Null}
  /\ program \in Programs
Roles == \A t \in Threads : initializer[t] => t \in Initializers /\ program = "initializer"

Down == global = Null /\ live = {}
Has(P) == global \in States /\ live = {global} /\ parts[global] = P
Given(k) == {SetupOrder[i] : i \in 1 .. k}

Idle(t) == /\ pc[t] = "idle" /\ stack[t] = <<>>
           /\ built[t] = Null /\ old[t] = Null /\ handle[t] = Null
Using(t) ==
  /\ built[t] = Null /\ old[t] = Null
  /\ \/ pc[t] \in {"global_state", "load"} /\ stack[t] = <<"use">>
     \/ pc[t] = "use" /\ stack[t] = <<>> /\ handle[t] = global

(* Where a set-up returns to: the constructor, or the use that began it.   *)
Base == IF program = "initializer" THEN <<"constructed">> ELSE <<"load", "use">>
Building(t) ==
  /\ old[t] = Null
  /\ \/ pc[t] = "global_state" /\ stack[t] = <<"use">> /\ program = "lazy" /\ Down
     \/ pc[t] = "new" /\ stack[t] = Base /\ Down
     \/ /\ pc[t] \in {"swap", "publish"} /\ stack[t] = <<"initialize">> \o Base
        /\ built[t] \in States /\ parts[built[t]] = {}
        /\ global = Null /\ live = {built[t]}
     \/ pc[t] = "initialize" /\ stack[t] = Base /\ Has({})
     \/ /\ pc[t] \in {"global_state", "load"} /\ stack[t] = <<"setup">> \o Base
        /\ built[t] = Null /\ Has({})
     \/ /\ pc[t] = "setup" /\ stack[t] = Base
        /\ built[t] = Null /\ handle[t] = global
        /\ step[t] \in 1 .. Len(SetupOrder) /\ Has(Given(step[t] - 1))
     \/ pc[t] = "constructed" /\ stack[t] = <<>> /\ program = "initializer" /\ Has(AllParts)
Undoing(t) ==
  \/ pc[t] = "catch" /\ stack[t] = Base /\ live = {global} \ {Null}
  \/ /\ stack[t] \in {<<"rethrow">> \o Base, <<"idle">>}
     /\ built[t] = Null /\ handle[t] = Null
     /\ \/ pc[t] = "swap" /\ live = {global} \ {Null}
        \/ pc[t] = "publish" /\ live = {global} \ {Null} /\ old[t] = global
        \/ /\ pc[t] = "delete" /\ global = Null
           /\ old[t] \in States /\ live = {old[t]}
           /\ step[t] \in 1 .. Len(TeardownOrder)
           /\ step[t] > 1 => "algorithm_factory" \notin parts[old[t]]
  \/ pc[t] = "rethrow" /\ stack[t] = Base /\ Down

AllDown == Down /\ \A t \in Threads : Idle(t) /\ regions[t] = {} /\ ~initializer[t]
Alone(t) ==
  /\ program = "initializer" => t \in Initializers
  /\ \A u \in Threads : (u # t => Idle(u)) /\ regions[u] = {} /\ ~initializer[u]
AllUp ==
  /\ Has(AllParts)
  /\ \A t \in Threads : (Idle(t) \/ Using(t)) /\ regions[t] \subseteq {global}
  /\ program = "initializer" => \E t \in Threads : initializer[t]

FactoryInv ==
  \A s \in States : "algorithm_factory" \in parts[s] => s \in live /\ parts[s] = AllParts
IInv ==
  /\ Domains /\ Roles /\ FactoryInv /\ NoUseOfDeletedState /\ UsesSucceed
  /\ AllDown \/ AllUp \/ \E t \in Threads : Alone(t) /\ (Building(t) \/ Undoing(t))
=============================================================================
