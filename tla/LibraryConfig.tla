---------------------------- MODULE LibraryConfig ----------------------------
(***************************************************************************)
(* The shared tables of one initialised Library_State (libstate.cpp): the  *)
(* configuration map under config_lock, and the allocator table with its   *)
(* cached default under allocator_lock; with them OIDS::add_oid, which     *)
(* makes several locked calls in a row.                                    *)
(*                                                                         *)
(* Taking a lock and the work done under it are separate steps, so that    *)
(* another thread can be seen between two locked calls, and waiting for    *)
(* the second lock while holding the first.                                *)
(***************************************************************************)
EXTENDS Naturals, FiniteSets

CONSTANTS
  Threads, NoThread,
  Allocators,     \* Allocator objects
  AllocatorType,  \* their type()
  Registered,     \* those that initialize() has added
  Types,          \* arguments of set_default_allocator
  Null,           \* the null pointer
  Oids, OidNames, \* object identifiers and their names
  Unset           \* a key that is not in the map

ASSUME AllocatorsAssumption ==
  Registered \subseteq Allocators /\ Null \notin Allocators
  /\ \A a, b \in Registered : AllocatorType[a] = AllocatorType[b] => a = b
ASSUME TypesAssumption == {"", "locking"} \subseteq Types
ASSUME UnsetAssumption == Unset \notin Types \cup Oids \cup OidNames
ASSUME NoThreadAssumption == NoThread \notin Threads

VARIABLES
  config, config_lock,
  alloc_factory, cached_default_allocator, allocator_lock,
  pc,        \* the locked call each thread waits for or runs
  arg,       \* its arguments and locals
  bypassed   \* the cached default was overtaken by a write that does not reset it (ghost)

locks == <<config_lock, allocator_lock>>
vars == <<config, locks, alloc_factory, cached_default_allocator, pc, arg, bypassed>>

DefaultKey == <<"conf", "base/default_allocator">>
Keys == {DefaultKey} \cup {<<"oid2str", o>> : o \in Oids} \cup {<<"str2oid", n>> : n \in OidNames}

AllTypes == {AllocatorType[a] : a \in Allocators}
FactoryOf(S) ==
  [y \in AllTypes |-> IF \E a \in S : AllocatorType[a] = y
                      THEN CHOOSE a \in S : AllocatorType[a] = y ELSE Null]
NoArg == [none |-> TRUE]

Init ==
  /\ config = [k \in Keys |-> IF k = DefaultKey THEN "locking" ELSE Unset]
  /\ config_lock = NoThread /\ allocator_lock = NoThread
  /\ alloc_factory = FactoryOf(Registered)
  /\ cached_default_allocator = Null
  /\ pc = [t \in Threads |-> "idle"]
  /\ arg = [t \in Threads |-> NoArg]
  /\ bypassed = FALSE

-----------------------------------------------------------------------------
(* Locked calls.                                                           *)

ConfigCalls == {"set", "option", "set_conf",
                "oid_is_set", "oid_set", "name_is_set", "name_set"}
AllocatorCalls == {"get_allocator", "set_default", "add_allocator"}

Begin(t, call, a) ==
  /\ pc[t] = "idle"
  /\ pc' = [pc EXCEPT ![t] = call] /\ arg' = [arg EXCEPT ![t] = a]
  /\ UNCHANGED <<config, locks, alloc_factory, cached_default_allocator, bypassed>>

AcquireConfig(t) ==
  /\ pc[t] \in ConfigCalls /\ config_lock = NoThread
  /\ config_lock' = t
  /\ UNCHANGED <<config, allocator_lock, alloc_factory, cached_default_allocator, pc, arg, bypassed>>

AcquireAllocator(t) ==
  /\ pc[t] \in AllocatorCalls /\ allocator_lock = NoThread
  /\ allocator_lock' = t
  /\ UNCHANGED <<config, config_lock, alloc_factory, cached_default_allocator, pc, arg, bypassed>>

(* The body of a call under config_lock, which its end gives back.         *)
UnderConfig(t, call) == pc[t] = call /\ config_lock = t /\ config_lock' = NoThread
UnderAllocator(t, call) == pc[t] = call /\ allocator_lock = t
Then(t, call, a) == pc' = [pc EXCEPT ![t] = call] /\ arg' = [arg EXCEPT ![t] = a]
Done(t) == Then(t, "idle", NoArg)

Get(k) == IF config[k] = Unset THEN "" ELSE config[k]
IsSet(k) == config[k] # Unset
SetTo(k, v, overwrite) ==
  config' = IF overwrite \/ config[k] \in {Unset, ""} THEN [config EXCEPT ![k] = v] ELSE config

(* set and set_option: a program may write the key of the default          *)
(* allocator directly.                                                     *)
BeginSet(t) == \E y \in Types \ {""}, o \in BOOLEAN :
                 Begin(t, "set", [key |-> DefaultKey, value |-> y, overwrite |-> o])
Set(t) ==
  /\ UnderConfig(t, "set")
  /\ SetTo(arg[t].key, arg[t].value, arg[t].overwrite)
  /\ bypassed' = (bypassed \/ config'[DefaultKey] # config[DefaultKey])
  /\ Done(t)
  /\ UNCHANGED <<allocator_lock, alloc_factory, cached_default_allocator>>

-----------------------------------------------------------------------------
(* Allocators.                                                             *)

Search(y) == IF y \in DOMAIN alloc_factory THEN alloc_factory[y] ELSE Null
Chosen(v) == IF v = "" THEN "malloc" ELSE v

BeginGetAllocator(t) == \E y \in Types : Begin(t, "get_allocator", [type |-> y])
(* A named type, or a default already known.                               *)
GetAllocator(t) ==
  /\ UnderAllocator(t, "get_allocator")
  /\ arg[t].type # "" \/ cached_default_allocator # Null
  /\ allocator_lock' = NoThread
  /\ Done(t)
  /\ UNCHANGED <<config, config_lock, alloc_factory, cached_default_allocator, bypassed>>
(* Faulty variant: the lock is given back before the option is read.       *)
GetDefaultUnlocked(t) ==
  /\ UnderAllocator(t, "get_allocator")
  /\ arg[t].type = "" /\ cached_default_allocator = Null
  /\ allocator_lock' = NoThread
  /\ Then(t, "option", arg[t])
  /\ UNCHANGED <<config, config_lock, alloc_factory, cached_default_allocator, bypassed>>
GetDefault(t) ==
  /\ UnderAllocator(t, "get_allocator")
  /\ arg[t].type = "" /\ cached_default_allocator = Null
  /\ Then(t, "option", arg[t])
  /\ UNCHANGED <<config, locks, alloc_factory, cached_default_allocator, bypassed>>
Option(t) ==
  /\ UnderConfig(t, "option")
  /\ Then(t, "cache", [chosen |-> Chosen(Get(DefaultKey))])
  /\ bypassed' = FALSE
  /\ UNCHANGED <<config, allocator_lock, alloc_factory, cached_default_allocator>>
CacheDefault(t) ==
  /\ UnderAllocator(t, "cache")
  /\ cached_default_allocator' = Search(arg[t].chosen)
  /\ allocator_lock' = NoThread
  /\ Done(t)
  /\ UNCHANGED <<config, config_lock, alloc_factory, bypassed>>

BeginSetDefault(t) == \E y \in Types : Begin(t, "set_default", [type |-> y])
SetDefaultIgnored(t) ==
  /\ UnderAllocator(t, "set_default") /\ arg[t].type = ""
  /\ allocator_lock' = NoThread
  /\ Done(t)
  /\ UNCHANGED <<config, config_lock, alloc_factory, cached_default_allocator, bypassed>>
SetDefault(t) ==
  /\ UnderAllocator(t, "set_default") /\ arg[t].type # ""
  /\ Then(t, "set_conf", arg[t])
  /\ UNCHANGED <<config, locks, alloc_factory, cached_default_allocator, bypassed>>
SetConf(t) ==
  /\ UnderConfig(t, "set_conf")
  /\ SetTo(DefaultKey, arg[t].type, TRUE)
  /\ Then(t, "uncache", arg[t])
  /\ UNCHANGED <<allocator_lock, alloc_factory, cached_default_allocator, bypassed>>
(* Faulty variant: the cached default is kept.                             *)
UncacheForgotten(t) ==
  /\ UnderAllocator(t, "uncache")
  /\ allocator_lock' = NoThread
  /\ Done(t)
  /\ UNCHANGED <<config, config_lock, alloc_factory, cached_default_allocator, bypassed>>
Uncache(t) ==
  /\ UnderAllocator(t, "uncache")
  /\ cached_default_allocator' = Null
  /\ allocator_lock' = NoThread
  /\ Done(t)
  /\ UNCHANGED <<config, config_lock, alloc_factory, bypassed>>

BeginAddAllocator(t) == \E a \in Allocators \ Registered :
                          Begin(t, "add_allocator", [allocator |-> a])
AddAllocator(t) ==
  LET a == arg[t].allocator
  IN /\ UnderAllocator(t, "add_allocator")
     /\ alloc_factory' = [alloc_factory EXCEPT ![AllocatorType[a]] = a]
     /\ bypassed' = TRUE
     /\ allocator_lock' = NoThread
     /\ Done(t)
     /\ UNCHANGED <<config, config_lock, cached_default_allocator>>

-----------------------------------------------------------------------------
(* OIDS::add_oid: twice a test and a write, each locked by itself.         *)

OidKey(t) == <<"oid2str", arg[t].oid>>
NameKey(t) == <<"str2oid", arg[t].name>>
BeginAddOid(t) == \E o \in Oids, n \in OidNames :
  Begin(t, "oid_is_set",
        [oid |-> o, name |-> n,
         unbound |-> {k \in {<<"oid2str", o>>, <<"str2oid", n>>} : ~IsSet(k)}])
OidIsSet(t) ==
  /\ UnderConfig(t, "oid_is_set")
  /\ Then(t, IF IsSet(OidKey(t)) THEN "name_is_set" ELSE "oid_set", arg[t])
  /\ UNCHANGED <<config, allocator_lock, alloc_factory, cached_default_allocator, bypassed>>
OidSet(t) ==
  /\ UnderConfig(t, "oid_set")
  /\ SetTo(OidKey(t), arg[t].name, TRUE)
  /\ Then(t, "name_is_set", arg[t])
  /\ UNCHANGED <<allocator_lock, alloc_factory, cached_default_allocator, bypassed>>
(* Faulty variant: the name is bound to the newest identifier always.      *)
NameIsSetIgnored(t) ==
  /\ UnderConfig(t, "name_is_set")
  /\ Then(t, "name_set", arg[t])
  /\ UNCHANGED <<config, allocator_lock, alloc_factory, cached_default_allocator, bypassed>>
(* Faulty variant: the second test looks in the table of identifiers.      *)
NameIsSetWrongTable(t) ==
  /\ UnderConfig(t, "name_is_set")
  /\ IF IsSet(OidKey(t)) THEN Done(t) ELSE Then(t, "name_set", arg[t])
  /\ UNCHANGED <<config, allocator_lock, alloc_factory, cached_default_allocator, bypassed>>
NameIsSet(t) ==
  /\ UnderConfig(t, "name_is_set")
  /\ IF IsSet(NameKey(t)) THEN Done(t) ELSE Then(t, "name_set", arg[t])
  /\ UNCHANGED <<config, allocator_lock, alloc_factory, cached_default_allocator, bypassed>>
NameSet(t) ==
  /\ UnderConfig(t, "name_set")
  /\ SetTo(NameKey(t), arg[t].oid, TRUE)
  /\ Done(t)
  /\ UNCHANGED <<allocator_lock, alloc_factory, cached_default_allocator, bypassed>>

-----------------------------------------------------------------------------
Calls(t) == \/ BeginSet(t) \/ BeginGetAllocator(t) \/ BeginSetDefault(t)
            \/ BeginAddAllocator(t) \/ BeginAddOid(t)
Steps(t) == \/ AcquireConfig(t) \/ AcquireAllocator(t) \/ Set(t)
            \/ GetAllocator(t) \/ GetDefault(t) \/ Option(t) \/ CacheDefault(t)
            \/ SetDefaultIgnored(t) \/ SetDefault(t) \/ SetConf(t) \/ Uncache(t)
            \/ AddAllocator(t) \/ OidIsSet(t) \/ OidSet(t) \/ NameIsSet(t) \/ NameSet(t)
Next == \E t \in Threads : Calls(t) \/ Steps(t)
Spec == Init /\ [][Next]_vars
-----------------------------------------------------------------------------
(* Properties.                                                             *)

(* Every variable has its type, and a lock is held by a thread that is in  *)
(* a call that takes it.                                                   *)
TypeOK ==
  /\ config \in [Keys -> Types \cup Oids \cup OidNames \cup {Unset}]
  /\ alloc_factory \in [AllTypes -> Allocators \cup {Null}]
  /\ cached_default_allocator \in Allocators \cup {Null}
  /\ config_lock # NoThread => pc[config_lock] \in ConfigCalls
  /\ allocator_lock # NoThread =>
       pc[allocator_lock] \in AllocatorCalls \cup {"option", "cache", "set_conf", "uncache"}
  /\ bypassed \in BOOLEAN

(* Outside a call the cached default allocator is the one the option names *)
(* now, except after a direct write of the option or a registration, which *)
(* do not reset it (libstate.cpp:112-123, 149-150): set_default_allocator  *)
(* is never overtaken by a get_allocator that read the option before it.   *)
CacheIsFresh ==
  allocator_lock = NoThread /\ cached_default_allocator # Null /\ ~bypassed =>
    cached_default_allocator = Search(Chosen(Get(DefaultKey)))

(* Between calls each identifier's name is known, and each name's          *)
(* identifier (oids.cpp:22-25): a lookup can always be followed back.      *)
OidTablesAgree ==
  (\A t \in Threads : pc[t] \notin {"oid_is_set", "oid_set", "name_is_set", "name_set"}) =>
    /\ \A o \in Oids : IsSet(<<"oid2str", o>>) =>
         IsSet(<<"str2oid", config[<<"oid2str", o>>]>>)
    /\ \A n \in OidNames : IsSet(<<"str2oid", n>>) =>
         IsSet(<<"oid2str", config[<<"str2oid", n>>]>>)

(* A binding of an identifier or of a name is replaced only by an add_oid  *)
(* that began before it was made (oids.cpp:22-25).                         *)
RebindsOnlyWhenRacing ==
  [][\A k \in Keys : k[1] \in {"oid2str", "str2oid"} /\ IsSet(k) /\ config'[k] # config[k] =>
       \E t \in Threads : pc[t] \in {"oid_set", "name_set"} /\ k \in arg[t].unbound]_vars

(* The strengthening under which these hold of every step.  A thread that  *)
(* has gone on inside allocator_lock holds it; what its call was given is  *)
(* of the right kind; the cached default is unknown while it is looked up, *)
(* and what the lookup has read is still so; and a key that add_oid has    *)
(* found, or may yet find, unset was unset when it began.                  *)
InsideAllocator == {"option", "cache", "set_conf", "uncache"}
OidCalls == {"oid_is_set", "oid_set", "name_is_set", "name_set"}
LockInv ==
  /\ config_lock \in Threads \cup {NoThread} /\ allocator_lock \in Threads \cup {NoThread}
  /\ DOMAIN pc = Threads /\ DOMAIN arg = Threads
  /\ \A t \in Threads : pc[t] \in InsideAllocator => allocator_lock = t
ArgInv ==
  \A t \in Threads :
    /\ pc[t] = "set" => arg[t].key = DefaultKey /\ arg[t].value \in Types
    /\ pc[t] \in {"set_default", "set_conf"} => arg[t].type \in Types
    /\ pc[t] = "add_allocator" => arg[t].allocator \in Allocators
    /\ pc[t] \in OidCalls => arg[t].oid \in Oids /\ arg[t].name \in OidNames
LookupInv ==
  /\ \A t \in Threads :
       /\ pc[t] \in {"option", "cache"} => cached_default_allocator = Null
       /\ pc[t] = "cache" => bypassed \/ arg[t].chosen = Chosen(Get(DefaultKey))
  /\ cached_default_allocator # Null /\ ~bypassed =>
       \/ cached_default_allocator = Search(Chosen(Get(DefaultKey)))
       \/ \E t \in Threads : pc[t] = "uncache"
UnboundInv ==
  \A t \in Threads :
    /\ pc[t] = "oid_is_set" /\ ~IsSet(OidKey(t)) => OidKey(t) \in arg[t].unbound
    /\ pc[t] = "oid_set" => OidKey(t) \in arg[t].unbound
    /\ pc[t] \in OidCalls /\ ~IsSet(NameKey(t)) => NameKey(t) \in arg[t].unbound
    /\ pc[t] = "name_set" => NameKey(t) \in arg[t].unbound
(* Each name's identifier is known, and each identifier's name, but for a  *)
(* name that some add_oid has still to bind, its identifier being bound.   *)
BindsName(t) == pc[t] \in {"name_is_set", "name_set"}
PartnersInv ==
  /\ \A o \in Oids : config[<<"oid2str", o>>] \in OidNames \cup {Unset}
  /\ \A n \in OidNames : config[<<"str2oid", n>>] \in Oids \cup {Unset}
  /\ \A t \in Threads : BindsName(t) => IsSet(OidKey(t))
  /\ \A o \in Oids : IsSet(<<"oid2str", o>>) =>
       \/ IsSet(<<"str2oid", config[<<"oid2str", o>>]>>)
       \/ \E t \in Threads : BindsName(t) /\ arg[t].name = config[<<"oid2str", o>>]
  /\ \A n \in OidNames : IsSet(<<"str2oid", n>>) =>
       IsSet(<<"oid2str", config[<<"str2oid", n>>]>>)
ConfigInv == TypeOK /\ LockInv /\ ArgInv /\ LookupInv /\ UnboundInv /\ PartnersInv
=============================================================================
