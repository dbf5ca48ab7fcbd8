------------------------- MODULE LibraryConfigProofs -------------------------
(***************************************************************************)
(* Proofs about LibraryConfig: ConfigInv is an inductive invariant for any      *)
(* threads, allocators, options and identifiers; from it, the cached       *)
(* default allocator is fresh and add_oid rebinds only what it began       *)
(* without.  One preservation lemma for each part of ConfigInv, one step for    *)
(* each action.                                                            *)
(***************************************************************************)
EXTENDS LibraryConfig, TLAPS

(* A library whose initialize() has returned satisfies the invariant: no   *)
(* call is under way and both locks are free.                              *)
LEMMA InitInv == Init => ConfigInv
<1> SUFFICES ASSUME Init
             PROVE  ConfigInv
  OBVIOUS
<1>1. TypeOK
  <2>1. config \in [Keys -> Types \cup Oids \cup OidNames \cup {Unset}]
    BY TypesAssumption DEF Init
  <2>2. alloc_factory \in [AllTypes -> Allocators \cup {Null}]
    BY AllocatorsAssumption DEF Init, FactoryOf
  <2>3. QED
    BY <2>1, <2>2 DEF Init, TypeOK
<1>2. \A t \in Threads : pc[t] = "idle"
  BY DEF Init
<1>3. LockInv
  BY <1>2 DEF Init, LockInv, InsideAllocator
<1>4. ArgInv
  BY <1>2 DEF ArgInv, OidCalls
<1>5. LookupInv
  BY <1>2 DEF Init, LookupInv
<1>6. UnboundInv
  BY <1>2 DEF UnboundInv, OidCalls
<1>7. PartnersInv
  BY <1>2 DEF Init, PartnersInv, BindsName, IsSet, Keys, DefaultKey
<1>8. QED
  BY <1>1, <1>3, <1>4, <1>5, <1>6, <1>7 DEF ConfigInv

(* Every step keeps the types, and a lock stays with a thread that is in a *)
(* call that takes it: the call's last step gives the lock back.           *)
LEMMA TypeNext ==
  ASSUME TypeOK, LockInv, ArgInv, Next
  PROVE  TypeOK'
<1> SUFFICES ASSUME NEW t \in Threads, Calls(t) \/ Steps(t)
             PROVE  TypeOK'
  BY DEF Next
<1>1. CASE BeginSet(t)
  BY <1>1 DEF BeginSet, TypeOK, ConfigCalls, AllocatorCalls, LockInv, Begin,
     locks
<1>2. CASE BeginGetAllocator(t)
  BY <1>2 DEF BeginGetAllocator, TypeOK, ConfigCalls, AllocatorCalls, Begin,
     locks
<1>3. CASE BeginSetDefault(t)
  BY <1>3 DEF BeginSetDefault, TypeOK, ConfigCalls, AllocatorCalls, Begin,
     locks
<1>4. CASE BeginAddAllocator(t)
  BY <1>4 DEF BeginAddAllocator, TypeOK, ConfigCalls, AllocatorCalls, Begin,
     locks
<1>5. CASE BeginAddOid(t)
  BY <1>5 DEF BeginAddOid, TypeOK, ConfigCalls, AllocatorCalls, Begin, locks
<1>6. CASE AcquireConfig(t)
  BY <1>6 DEF AcquireConfig, TypeOK
<1>7. CASE AcquireAllocator(t)
  BY <1>7 DEF AcquireAllocator, TypeOK
<1>8. CASE Set(t)
  BY <1>8 DEF Set, TypeOK, AllocatorCalls, SetTo, LockInv, ArgInv, Done, Then,
     UnderConfig
<1>9. CASE GetAllocator(t)
  BY <1>9 DEF GetAllocator, TypeOK, ConfigCalls, LockInv, Done, Then,
     UnderAllocator
<1>10. CASE GetDefault(t)
  BY <1>10 DEF GetDefault, TypeOK, ConfigCalls, LockInv, Then, locks
<1>11. CASE Option(t)
  BY <1>11 DEF Option, TypeOK, LockInv, Then, UnderConfig
<1>12. CASE CacheDefault(t)
  BY <1>12 DEF CacheDefault, TypeOK, ConfigCalls, Search, Done, Then,
     UnderAllocator
<1>13. CASE SetDefaultIgnored(t)
  BY <1>13 DEF SetDefaultIgnored, TypeOK, ConfigCalls, LockInv, Done, Then,
     UnderAllocator
<1>14. CASE SetDefault(t)
  BY <1>14 DEF SetDefault, TypeOK, ConfigCalls, LockInv, Then, locks
<1>15. CASE SetConf(t)
  BY <1>15 DEF SetConf, TypeOK, SetTo, LockInv, ArgInv, Then, UnderConfig
<1>16. CASE Uncache(t)
  BY <1>16 DEF Uncache, TypeOK, ConfigCalls, Done, Then, UnderAllocator
<1>17. CASE AddAllocator(t)
  BY <1>17 DEF AddAllocator, TypeOK, ConfigCalls, LockInv, ArgInv, Done, Then,
     UnderAllocator
<1>18. CASE OidIsSet(t)
  BY <1>18 DEF OidIsSet, TypeOK, AllocatorCalls, Then, UnderConfig
<1>19. CASE OidSet(t)
  BY <1>19 DEF OidSet, TypeOK, OidCalls, AllocatorCalls, SetTo, LockInv,
     ArgInv, Then, UnderConfig
<1>20. CASE NameIsSet(t)
  BY <1>20 DEF NameIsSet, TypeOK, AllocatorCalls, LockInv, Done, Then,
     UnderConfig
<1>21. CASE NameSet(t)
  BY <1>21 DEF NameSet, TypeOK, OidCalls, AllocatorCalls, SetTo, LockInv,
     ArgInv, Done, Then, UnderConfig
<1>22. QED
  BY <1>1, <1>2, <1>3, <1>4, <1>5, <1>6, <1>7, <1>8, <1>9, <1>10, <1>11,
     <1>12, <1>13, <1>14, <1>15, <1>16, <1>17, <1>18, <1>19, <1>20, <1>21 DEF
     Calls, Steps

(* Every step keeps the locks in order: a thread goes on inside            *)
(* allocator_lock, into config_lock and out of it, only as its holder.     *)
LEMMA LockNext ==
  ASSUME TypeOK, LockInv, Next
  PROVE  LockInv'
<1> SUFFICES ASSUME NEW t \in Threads, Calls(t) \/ Steps(t)
             PROVE  LockInv'
  BY DEF Next
<1>1. CASE BeginSet(t)
  BY <1>1 DEF BeginSet, LockInv, InsideAllocator, Begin, locks
<1>2. CASE BeginGetAllocator(t)
  BY <1>2 DEF BeginGetAllocator, LockInv, InsideAllocator, Begin, locks
<1>3. CASE BeginSetDefault(t)
  BY <1>3 DEF BeginSetDefault, LockInv, InsideAllocator, Begin, locks
<1>4. CASE BeginAddAllocator(t)
  BY <1>4 DEF BeginAddAllocator, LockInv, InsideAllocator, Begin, locks
<1>5. CASE BeginAddOid(t)
  BY <1>5 DEF BeginAddOid, LockInv, InsideAllocator, Begin, locks
<1>6. CASE AcquireConfig(t)
  BY <1>6 DEF AcquireConfig, LockInv
<1>7. CASE AcquireAllocator(t)
  BY <1>7, NoThreadAssumption DEF AcquireAllocator, LockInv
<1>8. CASE Set(t)
  BY <1>8 DEF Set, LockInv, InsideAllocator, Done, Then, UnderConfig
<1>9. CASE GetAllocator(t)
  BY <1>9 DEF GetAllocator, LockInv, InsideAllocator, Done, Then,
     UnderAllocator
<1>10. CASE GetDefault(t)
  BY <1>10 DEF GetDefault, LockInv, Then, UnderAllocator, locks
<1>11. CASE Option(t)
  BY <1>11 DEF Option, LockInv, InsideAllocator, Then, UnderConfig
<1>12. CASE CacheDefault(t)
  BY <1>12 DEF CacheDefault, LockInv, InsideAllocator, Done, Then,
     UnderAllocator
<1>13. CASE SetDefaultIgnored(t)
  BY <1>13 DEF SetDefaultIgnored, LockInv, InsideAllocator, Done, Then,
     UnderAllocator
<1>14. CASE SetDefault(t)
  BY <1>14 DEF SetDefault, LockInv, Then, UnderAllocator, locks
<1>15. CASE SetConf(t)
  BY <1>15 DEF SetConf, LockInv, InsideAllocator, Then, UnderConfig
<1>16. CASE Uncache(t)
  BY <1>16 DEF Uncache, LockInv, InsideAllocator, Done, Then, UnderAllocator
<1>17. CASE AddAllocator(t)
  BY <1>17 DEF AddAllocator, LockInv, InsideAllocator, Done, Then,
     UnderAllocator
<1>18. CASE OidIsSet(t)
  BY <1>18 DEF OidIsSet, LockInv, InsideAllocator, Then, UnderConfig
<1>19. CASE OidSet(t)
  BY <1>19 DEF OidSet, LockInv, InsideAllocator, Then, UnderConfig
<1>20. CASE NameIsSet(t)
  BY <1>20 DEF NameIsSet, LockInv, InsideAllocator, Done, Then, UnderConfig
<1>21. CASE NameSet(t)
  BY <1>21 DEF NameSet, LockInv, InsideAllocator, Done, Then, UnderConfig
<1>22. QED
  BY <1>1, <1>2, <1>3, <1>4, <1>5, <1>6, <1>7, <1>8, <1>9, <1>10, <1>11,
     <1>12, <1>13, <1>14, <1>15, <1>16, <1>17, <1>18, <1>19, <1>20, <1>21 DEF
     Calls, Steps

(* Every step keeps the arguments of the calls under way, which are chosen *)
(* when a call begins and handed on to its later steps.                    *)
LEMMA ArgNext ==
  ASSUME LockInv, ArgInv, Next
  PROVE  ArgInv'
<1> SUFFICES ASSUME NEW t \in Threads, Calls(t) \/ Steps(t)
             PROVE  ArgInv'
  BY DEF Next
<1>1. CASE BeginSet(t)
  <2>1. PICK y \in Types \ {""}, o \in BOOLEAN :
                Begin(t, "set",
                      [key |-> DefaultKey, value |-> y, overwrite |-> o])
    BY <1>1 DEF BeginSet
  <2>2. \A s \in Threads \ {t} : pc'[s] = pc[s] /\ arg'[s] = arg[s]
    BY <2>1 DEF LockInv, Begin
  <2>3. QED
    BY <2>1, <2>2 DEF ArgInv, OidCalls, LockInv, Begin
<1>2. CASE BeginGetAllocator(t)
  <2>1. PICK y \in Types :
                Begin(t, "get_allocator", [type |-> y])
    BY <1>2 DEF BeginGetAllocator
  <2>2. \A s \in Threads \ {t} : pc'[s] = pc[s] /\ arg'[s] = arg[s]
    BY <2>1 DEF LockInv, Begin
  <2>3. QED
    BY <2>1, <2>2 DEF ArgInv, OidCalls, Begin
<1>3. CASE BeginSetDefault(t)
  <2>1. PICK y \in Types :
                Begin(t, "set_default", [type |-> y])
    BY <1>3 DEF BeginSetDefault
  <2>2. \A s \in Threads \ {t} : pc'[s] = pc[s] /\ arg'[s] = arg[s]
    BY <2>1 DEF LockInv, Begin
  <2>3. QED
    BY <2>1, <2>2 DEF ArgInv, OidCalls, LockInv, Begin
<1>4. CASE BeginAddAllocator(t)
  <2>1. PICK a \in Allocators \ Registered :
                Begin(t, "add_allocator", [allocator |-> a])
    BY <1>4 DEF BeginAddAllocator
  <2>2. \A s \in Threads \ {t} : pc'[s] = pc[s] /\ arg'[s] = arg[s]
    BY <2>1 DEF LockInv, Begin
  <2>3. QED
    BY <2>1, <2>2 DEF ArgInv, OidCalls, LockInv, Begin
<1>5. CASE BeginAddOid(t)
  <2>1. PICK o \in Oids, n \in OidNames :
                Begin(t, "oid_is_set",
                      [oid |-> o, name |-> n,
                       unbound |-> {k \in
                         {<<"oid2str", o>>, <<"str2oid", n>>} : ~IsSet(k)}])
    BY <1>5 DEF BeginAddOid
  <2>2. \A s \in Threads \ {t} : pc'[s] = pc[s] /\ arg'[s] = arg[s]
    BY <2>1 DEF LockInv, Begin
  <2>3. QED
    BY <2>1, <2>2 DEF ArgInv, LockInv, Begin
<1>6. CASE AcquireConfig(t)
  BY <1>6 DEF AcquireConfig, ArgInv
<1>7. CASE AcquireAllocator(t)
  BY <1>7 DEF AcquireAllocator, ArgInv
<1>8. CASE Set(t)
  BY <1>8 DEF Set, ArgInv, OidCalls, LockInv, Done, Then
<1>9. CASE GetAllocator(t)
  BY <1>9 DEF GetAllocator, ArgInv, OidCalls, LockInv, Done, Then
<1>10. CASE GetDefault(t)
  BY <1>10 DEF GetDefault, ArgInv, OidCalls, LockInv, Then
<1>11. CASE Option(t)
  BY <1>11 DEF Option, ArgInv, OidCalls, Then, UnderConfig
<1>12. CASE CacheDefault(t)
  BY <1>12 DEF CacheDefault, ArgInv, OidCalls, Done, Then, UnderAllocator
<1>13. CASE SetDefaultIgnored(t)
  BY <1>13 DEF SetDefaultIgnored, ArgInv, OidCalls, LockInv, Done, Then
<1>14. CASE SetDefault(t)
  BY <1>14 DEF SetDefault, ArgInv, OidCalls, LockInv, Then, UnderAllocator
<1>15. CASE SetConf(t)
  BY <1>15 DEF SetConf, ArgInv, OidCalls, Then
<1>16. CASE Uncache(t)
  BY <1>16 DEF Uncache, ArgInv, OidCalls, Done, Then, UnderAllocator
<1>17. CASE AddAllocator(t)
  BY <1>17 DEF AddAllocator, ArgInv, OidCalls, LockInv, Done, Then
<1>18. CASE OidIsSet(t)
  BY <1>18 DEF OidIsSet, ArgInv, OidCalls, Then, UnderConfig
<1>19. CASE OidSet(t)
  BY <1>19 DEF OidSet, ArgInv, OidCalls, Then, UnderConfig
<1>20. CASE NameIsSet(t)
  BY <1>20 DEF NameIsSet, ArgInv, OidCalls, LockInv, Done, Then, UnderConfig
<1>21. CASE NameSet(t)
  BY <1>21 DEF NameSet, ArgInv, OidCalls, LockInv, Done, Then
<1>22. QED
  BY <1>1, <1>2, <1>3, <1>4, <1>5, <1>6, <1>7, <1>8, <1>9, <1>10, <1>11,
     <1>12, <1>13, <1>14, <1>15, <1>16, <1>17, <1>18, <1>19, <1>20, <1>21 DEF
     Calls, Steps

(* Every step keeps what is known of the cached default: it is unknown while *)
(* a get_allocator looks it up, the option is overwritten behind that      *)
(* lookup only by a direct write, and set_default_allocator is not done    *)
(* before it has reset the cache.                                          *)
LEMMA LookupNext ==
  ASSUME TypeOK, LockInv, ArgInv, LookupInv, Next
  PROVE  LookupInv'
<1> SUFFICES ASSUME NEW t \in Threads, Calls(t) \/ Steps(t)
             PROVE  LookupInv'
  BY DEF Next
<1>1. CASE BeginSet(t)
  <2>1. PICK y \in Types \ {""}, o \in BOOLEAN :
                Begin(t, "set",
                      [key |-> DefaultKey, value |-> y, overwrite |-> o])
    BY <1>1 DEF BeginSet
  <2>2. \A s \in Threads \ {t} : pc'[s] = pc[s] /\ arg'[s] = arg[s]
    BY <2>1 DEF LockInv, Begin
  <2>3. QED
    BY <2>1, <2>2 DEF LookupInv, Get, Search, LockInv, Begin
<1>2. CASE BeginGetAllocator(t)
  <2>1. PICK y \in Types :
                Begin(t, "get_allocator", [type |-> y])
    BY <1>2 DEF BeginGetAllocator
  <2>2. \A s \in Threads \ {t} : pc'[s] = pc[s] /\ arg'[s] = arg[s]
    BY <2>1 DEF LockInv, Begin
  <2>3. QED
    BY <2>1, <2>2 DEF LookupInv, Get, Search, LockInv, Begin
<1>3. CASE BeginSetDefault(t)
  <2>1. PICK y \in Types :
                Begin(t, "set_default", [type |-> y])
    BY <1>3 DEF BeginSetDefault
  <2>2. \A s \in Threads \ {t} : pc'[s] = pc[s] /\ arg'[s] = arg[s]
    BY <2>1 DEF LockInv, Begin
  <2>3. QED
    BY <2>1, <2>2 DEF LookupInv, Get, Search, LockInv, Begin
<1>4. CASE BeginAddAllocator(t)
  <2>1. PICK a \in Allocators \ Registered :
                Begin(t, "add_allocator", [allocator |-> a])
    BY <1>4 DEF BeginAddAllocator
  <2>2. \A s \in Threads \ {t} : pc'[s] = pc[s] /\ arg'[s] = arg[s]
    BY <2>1 DEF LockInv, Begin
  <2>3. QED
    BY <2>1, <2>2 DEF LookupInv, Get, Search, LockInv, Begin
<1>5. CASE BeginAddOid(t)
  <2>1. PICK o \in Oids, n \in OidNames :
                Begin(t, "oid_is_set",
                      [oid |-> o, name |-> n,
                       unbound |-> {k \in
                         {<<"oid2str", o>>, <<"str2oid", n>>} : ~IsSet(k)}])
    BY <1>5 DEF BeginAddOid
  <2>2. \A s \in Threads \ {t} : pc'[s] = pc[s] /\ arg'[s] = arg[s]
    BY <2>1 DEF LockInv, Begin
  <2>3. QED
    BY <2>1, <2>2 DEF LookupInv, Get, Search, LockInv, Begin
<1>6. CASE AcquireConfig(t)
  BY <1>6 DEF AcquireConfig, LookupInv, Get, Search
<1>7. CASE AcquireAllocator(t)
  BY <1>7 DEF AcquireAllocator, LookupInv, Get, Search
<1>8. CASE Set(t)
  BY <1>8 DEF Set, LookupInv, Get, Search, LockInv, Done, Then, UnderConfig
<1>9. CASE GetAllocator(t)
  BY <1>9 DEF GetAllocator, LookupInv, Get, Search, LockInv, Done, Then,
     UnderAllocator
<1>10. CASE GetDefault(t)
  BY <1>10 DEF GetDefault, LookupInv, Get, LockInv, Then
<1>11. CASE Option(t)
  BY <1>11 DEF Option, LookupInv, InsideAllocator, Get, LockInv, Then,
     UnderConfig
<1>12. CASE CacheDefault(t)
  BY <1>12 DEF CacheDefault, LookupInv, InsideAllocator, Get, Search, LockInv,
     Done, Then, UnderAllocator
<1>13. CASE SetDefaultIgnored(t)
  BY <1>13 DEF SetDefaultIgnored, LookupInv, Get, Search, LockInv, Done, Then,
     UnderAllocator
<1>14. CASE SetDefault(t)
  BY <1>14 DEF SetDefault, LookupInv, Get, Search, LockInv, Then,
     UnderAllocator
<1>15. CASE SetConf(t)
  BY <1>15 DEF SetConf, LookupInv, InsideAllocator, LockInv, Then, UnderConfig
<1>16. CASE Uncache(t)
  BY <1>16 DEF Uncache, LookupInv, Get, LockInv, Done, Then
<1>17. CASE AddAllocator(t)
  BY <1>17 DEF AddAllocator, LookupInv, Done, Then
<1>18. CASE OidIsSet(t)
  BY <1>18 DEF OidIsSet, LookupInv, Get, Search, LockInv, Then, UnderConfig
<1>19. CASE OidSet(t)
  BY <1>19 DEF OidSet, LookupInv, Keys, DefaultKey, Get, SetTo, Search,
     OidKey, TypeOK, LockInv, Then, UnderConfig
<1>20. CASE NameIsSet(t)
  BY <1>20 DEF NameIsSet, LookupInv, Get, Search, LockInv, Done, Then,
     UnderConfig
<1>21. CASE NameSet(t)
  BY <1>21 DEF NameSet, LookupInv, Keys, DefaultKey, Get, SetTo, Search,
     NameKey, TypeOK, LockInv, Done, Then, UnderConfig
<1>22. QED
  BY <1>1, <1>2, <1>3, <1>4, <1>5, <1>6, <1>7, <1>8, <1>9, <1>10, <1>11,
     <1>12, <1>13, <1>14, <1>15, <1>16, <1>17, <1>18, <1>19, <1>20, <1>21 DEF
     Calls, Steps

(* Every step keeps the books of add_oid: no key ever becomes unset again, *)
(* so a key it finds unset was unset when it began.                        *)
LEMMA UnboundNext ==
  ASSUME TypeOK, LockInv, ArgInv, UnboundInv, Next
  PROVE  UnboundInv'
<1> SUFFICES ASSUME NEW t \in Threads, Calls(t) \/ Steps(t)
             PROVE  UnboundInv'
  BY DEF Next
<1>1. CASE BeginSet(t)
  BY <1>1 DEF BeginSet, UnboundInv, OidCalls, IsSet, OidKey, NameKey, LockInv,
     Begin
<1>2. CASE BeginGetAllocator(t)
  BY <1>2 DEF BeginGetAllocator, UnboundInv, OidCalls, IsSet, OidKey, NameKey,
     Begin
<1>3. CASE BeginSetDefault(t)
  BY <1>3 DEF BeginSetDefault, UnboundInv, OidCalls, IsSet, OidKey, NameKey,
     Begin
<1>4. CASE BeginAddAllocator(t)
  BY <1>4 DEF BeginAddAllocator, UnboundInv, OidCalls, IsSet, OidKey, NameKey,
     Begin
<1>5. CASE BeginAddOid(t)
  <2>1. PICK o \in Oids, n \in OidNames :
                Begin(t, "oid_is_set",
                      [oid |-> o, name |-> n,
                       unbound |-> {k \in
                         {<<"oid2str", o>>, <<"str2oid", n>>} : ~IsSet(k)}])
    BY <1>5 DEF BeginAddOid
  <2>2. \A s \in Threads \ {t} : pc'[s] = pc[s] /\ arg'[s] = arg[s]
    BY <2>1 DEF LockInv, Begin
  <2>3. QED
    BY <2>1, <2>2 DEF UnboundInv, IsSet, OidKey, NameKey, LockInv, Begin
<1>6. CASE AcquireConfig(t)
  BY <1>6 DEF AcquireConfig, UnboundInv, IsSet, OidKey, NameKey
<1>7. CASE AcquireAllocator(t)
  BY <1>7 DEF AcquireAllocator, UnboundInv, IsSet, OidKey, NameKey
<1>8. CASE Set(t)
  BY <1>8, UnsetAssumption DEF Set, UnboundInv, OidCalls, Keys, IsSet, SetTo,
     OidKey, NameKey, TypeOK, LockInv, ArgInv, Done, Then, UnderConfig
<1>9. CASE GetAllocator(t)
  BY <1>9 DEF GetAllocator, UnboundInv, OidCalls, IsSet, OidKey, NameKey,
     LockInv, Done, Then
<1>10. CASE GetDefault(t)
  BY <1>10 DEF GetDefault, UnboundInv, OidCalls, IsSet, OidKey, NameKey,
     LockInv, Then
<1>11. CASE Option(t)
  BY <1>11 DEF Option, UnboundInv, OidCalls, IsSet, OidKey, NameKey, Then,
     UnderConfig
<1>12. CASE CacheDefault(t)
  BY <1>12 DEF CacheDefault, UnboundInv, OidCalls, IsSet, OidKey, NameKey,
     Done, Then, UnderAllocator
<1>13. CASE SetDefaultIgnored(t)
  BY <1>13 DEF SetDefaultIgnored, UnboundInv, OidCalls, IsSet, OidKey,
     NameKey, LockInv, Done, Then
<1>14. CASE SetDefault(t)
  BY <1>14 DEF SetDefault, UnboundInv, OidCalls, IsSet, OidKey, NameKey,
     LockInv, Then
<1>15. CASE SetConf(t)
  BY <1>15 DEF SetConf, UnboundInv, OidCalls, DefaultKey, IsSet, SetTo,
     OidKey, NameKey, Then
<1>16. CASE Uncache(t)
  BY <1>16 DEF Uncache, UnboundInv, OidCalls, IsSet, OidKey, NameKey, Done,
     Then, UnderAllocator
<1>17. CASE AddAllocator(t)
  BY <1>17 DEF AddAllocator, UnboundInv, OidCalls, IsSet, OidKey, NameKey,
     Done, Then, UnderAllocator
<1>18. CASE OidIsSet(t)
  BY <1>18 DEF OidIsSet, UnboundInv, OidCalls, IsSet, OidKey, NameKey, Then,
     UnderConfig
<1>19. CASE OidSet(t)
  BY <1>19, UnsetAssumption DEF OidSet, UnboundInv, OidCalls, IsSet, SetTo,
     OidKey, NameKey, ArgInv, Then, UnderConfig
<1>20. CASE NameIsSet(t)
  BY <1>20 DEF NameIsSet, UnboundInv, OidCalls, IsSet, OidKey, NameKey,
     LockInv, Done, Then, UnderConfig
<1>21. CASE NameSet(t)
  BY <1>21, UnsetAssumption DEF NameSet, UnboundInv, OidCalls, IsSet, SetTo,
     OidKey, NameKey, LockInv, ArgInv, Done, Then, UnderConfig
<1>22. QED
  BY <1>1, <1>2, <1>3, <1>4, <1>5, <1>6, <1>7, <1>8, <1>9, <1>10, <1>11,
     <1>12, <1>13, <1>14, <1>15, <1>16, <1>17, <1>18, <1>19, <1>20, <1>21 DEF
     Calls, Steps

(* A step that leaves the two OID tables and the add_oids that still bind  *)
(* a name as they are keeps the tables' partnership.                       *)
LEMMA PartnersUnchanged ==
  ASSUME PartnersInv, ArgInv,
         \A k \in Keys \ {DefaultKey} : config'[k] = config[k],
         \A t \in Threads : BindsName(t)' <=> BindsName(t),
         \A t \in Threads : BindsName(t) => arg'[t] = arg[t]
  PROVE  PartnersInv'
<1>1. \A o \in Oids : config'[<<"oid2str", o>>] = config[<<"oid2str", o>>]
  BY DEF Keys, DefaultKey
<1>2. \A n \in OidNames : config'[<<"str2oid", n>>] = config[<<"str2oid", n>>]
  BY DEF Keys, DefaultKey
<1>3. \A t \in Threads : BindsName(t) => arg[t].oid \in Oids
  BY DEF ArgInv, OidCalls, BindsName
<1>4. \A t \in Threads : BindsName(t)' => IsSet(OidKey(t))'
  BY <1>1, <1>3 DEF PartnersInv, IsSet, OidKey
<1>5. ASSUME NEW o \in Oids, config'[<<"oid2str", o>>] # Unset
      PROVE  \/ config'[<<"str2oid", config'[<<"oid2str", o>>]>>] # Unset
             \/ \E t \in Threads : BindsName(t)' /\ arg'[t].name = config'[<<"oid2str", o>>]
  <2>1. PICK n \in OidNames : config[<<"oid2str", o>>] = n /\ config'[<<"oid2str", o>>] = n
    BY <1>1, <1>5 DEF PartnersInv
  <2>2. \/ config[<<"str2oid", n>>] # Unset
        \/ \E t \in Threads : BindsName(t) /\ arg[t].name = n
    BY <1>1, <1>5, <2>1 DEF PartnersInv, IsSet
  <2>3. QED
    BY <1>2, <2>1, <2>2
<1>6. \A n \in OidNames : IsSet(<<"str2oid", n>>)' =>
        IsSet(<<"oid2str", config[<<"str2oid", n>>]>>)'
  BY <1>1, <1>2 DEF PartnersInv, IsSet
<1>7. QED
  BY <1>1, <1>2, <1>4, <1>5, <1>6 DEF PartnersInv, IsSet

(* Every step keeps the OID tables each other's partners: an add_oid that  *)
(* has bound an identifier goes on to bind the name, or finds it bound.    *)
LEMMA PartnersNext ==
  ASSUME TypeOK, LockInv, ArgInv, PartnersInv, Next
  PROVE  PartnersInv'
<1> SUFFICES ASSUME NEW t \in Threads, Calls(t) \/ Steps(t)
             PROVE  PartnersInv'
  BY DEF Next
<1>0. /\ DOMAIN pc = Threads /\ DOMAIN arg = Threads /\ DOMAIN config = Keys
      /\ DefaultKey \in Keys
  BY DEF LockInv, TypeOK, Keys
<1>1. CASE \/ BeginSet(t) \/ BeginGetAllocator(t) \/ BeginSetDefault(t)
           \/ BeginAddAllocator(t) \/ BeginAddOid(t)
  <2>1. /\ config' = config /\ ~BindsName(t) /\ ~BindsName(t)'
        /\ \A s \in Threads \ {t} : pc'[s] = pc[s] /\ arg'[s] = arg[s]
    BY <1>0, <1>1 DEF BeginSet, BeginGetAllocator, BeginSetDefault,
       BeginAddAllocator, BeginAddOid, Begin, BindsName
  <2>2. QED
    BY <2>1, PartnersUnchanged DEF BindsName
<1>2. CASE AcquireConfig(t) \/ AcquireAllocator(t)
  BY <1>2, PartnersUnchanged DEF AcquireConfig, AcquireAllocator, BindsName
<1>3. CASE \/ GetAllocator(t) \/ GetDefault(t) \/ Option(t) \/ CacheDefault(t)
           \/ SetDefaultIgnored(t) \/ SetDefault(t) \/ Uncache(t)
           \/ AddAllocator(t) \/ (OidIsSet(t) /\ ~IsSet(OidKey(t)))
  <2>1. /\ config' = config /\ ~BindsName(t) /\ ~BindsName(t)'
        /\ \A s \in Threads \ {t} : pc'[s] = pc[s] /\ arg'[s] = arg[s]
    BY <1>0, <1>3 DEF GetAllocator, GetDefault, Option, CacheDefault,
       SetDefaultIgnored, SetDefault, Uncache, AddAllocator, OidIsSet,
       UnderConfig, UnderAllocator, Then, Done, BindsName
  <2>2. QED
    BY <2>1, PartnersUnchanged DEF BindsName
<1>4. CASE Set(t) \/ SetConf(t)
  <2>1. /\ ~BindsName(t) /\ ~BindsName(t)'
        /\ \A s \in Threads \ {t} : pc'[s] = pc[s] /\ arg'[s] = arg[s]
    BY <1>0, <1>4 DEF Set, SetConf, UnderConfig, Then, Done, BindsName
  <2>2. \A k \in Keys \ {DefaultKey} : config'[k] = config[k]
    BY <1>0, <1>4 DEF Set, SetConf, UnderConfig, SetTo, ArgInv
  <2>3. QED
    BY <2>1, <2>2, PartnersUnchanged DEF BindsName
<1>5. CASE OidIsSet(t) /\ IsSet(OidKey(t))
  <2>1. /\ config' = config /\ ~BindsName(t) /\ BindsName(t)' /\ arg'[t] = arg[t]
        /\ \A s \in Threads \ {t} : pc'[s] = pc[s] /\ arg'[s] = arg[s]
    BY <1>0, <1>5 DEF OidIsSet, UnderConfig, Then, BindsName
  <2>2. \A s \in Threads : BindsName(s)' => IsSet(OidKey(s))'
    BY <1>5, <2>1 DEF PartnersInv, IsSet, OidKey, BindsName
  <2>3. \A s \in Threads : BindsName(s) => BindsName(s)' /\ arg'[s] = arg[s]
    BY <2>1 DEF BindsName
  <2>4. QED
    BY <2>1, <2>2, <2>3 DEF PartnersInv, IsSet
<1>6. CASE OidSet(t)
  <2>1. /\ ~BindsName(t) /\ BindsName(t)' /\ arg'[t] = arg[t]
        /\ \A s \in Threads \ {t} : pc'[s] = pc[s] /\ arg'[s] = arg[s]
        /\ arg[t].oid \in Oids /\ arg[t].name \in OidNames
    BY <1>0, <1>6 DEF OidSet, UnderConfig, Then, BindsName, ArgInv, OidCalls
  <2>2. config' = [config EXCEPT ![<<"oid2str", arg[t].oid>>] = arg[t].name]
    BY <1>6 DEF OidSet, SetTo, OidKey
  <2>3. /\ config'[<<"oid2str", arg[t].oid>>] = arg[t].name
        /\ \A o \in Oids \ {arg[t].oid} : config'[<<"oid2str", o>>] = config[<<"oid2str", o>>]
        /\ \A n \in OidNames : config'[<<"str2oid", n>>] = config[<<"str2oid", n>>]
    BY <1>0, <2>1, <2>2 DEF Keys
  <2>4. /\ arg[t].name # Unset /\ \A s \in Threads : BindsName(s) => arg[s].oid \in Oids
    BY <2>1, UnsetAssumption DEF ArgInv, OidCalls, BindsName
  <2>5. \A s \in Threads : BindsName(s) => BindsName(s)' /\ arg'[s] = arg[s]
    BY <2>1 DEF BindsName
  <2>6. \A s \in Threads : BindsName(s)' => IsSet(OidKey(s))'
    BY <2>1, <2>3, <2>4 DEF PartnersInv, IsSet, OidKey, BindsName
  <2>7. \A o \in Oids : config'[<<"oid2str", o>>] \in OidNames \cup {Unset}
    BY <2>1, <2>3 DEF PartnersInv
  <2>8. \A n \in OidNames : config'[<<"str2oid", n>>] \in Oids \cup {Unset}
    BY <2>3 DEF PartnersInv
  <2>9. ASSUME NEW o \in Oids, config'[<<"oid2str", o>>] # Unset
        PROVE  \/ config'[<<"str2oid", config'[<<"oid2str", o>>]>>] # Unset
               \/ \E s \in Threads : BindsName(s)' /\ arg'[s].name = config'[<<"oid2str", o>>]
    <3>1. CASE o = arg[t].oid
      BY <2>1, <2>3, <3>1
    <3>2. CASE o # arg[t].oid
      <4>1. config'[<<"oid2str", o>>] = config[<<"oid2str", o>>]
            /\ config[<<"oid2str", o>>] \in OidNames
        BY <2>3, <2>9, <3>2 DEF PartnersInv
      <4>2. QED
        BY <2>3, <2>5, <2>9, <4>1 DEF PartnersInv, IsSet
    <3>3. QED
      BY <3>1, <3>2
  <2>10. ASSUME NEW n \in OidNames, config'[<<"str2oid", n>>] # Unset
         PROVE  config'[<<"oid2str", config'[<<"str2oid", n>>]>>] # Unset
    BY <2>3, <2>4, <2>10 DEF PartnersInv, IsSet
  <2>11. QED
    BY <2>6, <2>7, <2>8, <2>9, <2>10 DEF PartnersInv, IsSet
<1>7. CASE NameIsSet(t)
  <2>1. /\ config' = config /\ BindsName(t) /\ arg[t].oid \in Oids /\ arg[t].name \in OidNames
        /\ \A s \in Threads \ {t} : pc'[s] = pc[s] /\ arg'[s] = arg[s]
    BY <1>0, <1>7 DEF NameIsSet, UnderConfig, Then, Done, BindsName, ArgInv, OidCalls
  <2>2. \/ BindsName(t)' /\ arg'[t] = arg[t]
        \/ ~BindsName(t)' /\ IsSet(<<"str2oid", arg[t].name>>)
    BY <1>0, <1>7 DEF NameIsSet, Then, Done, BindsName, NameKey
  <2>3. \A s \in Threads : BindsName(s)' => BindsName(s) /\ arg'[s] = arg[s]
    BY <2>1, <2>2 DEF BindsName
  <2>4. \A s \in Threads : BindsName(s)' => IsSet(OidKey(s))'
    BY <2>1, <2>3 DEF PartnersInv, IsSet, OidKey
  <2>5. ASSUME NEW o \in Oids, config[<<"oid2str", o>>] # Unset
        PROVE  \/ config[<<"str2oid", config[<<"oid2str", o>>]>>] # Unset
               \/ \E s \in Threads : BindsName(s)' /\ arg'[s].name = config[<<"oid2str", o>>]
    <3>1. \A s \in Threads \ {t} : BindsName(s) => BindsName(s)' /\ arg'[s] = arg[s]
      BY <2>1 DEF BindsName
    <3>2. PICK n \in OidNames : config[<<"oid2str", o>>] = n
      BY <2>5 DEF PartnersInv
    <3>3. \/ config[<<"str2oid", n>>] # Unset
          \/ \E s \in Threads : BindsName(s) /\ arg[s].name = n
      BY <2>5, <3>2 DEF PartnersInv, IsSet
    <3>4. QED
      BY <2>2, <3>1, <3>2, <3>3 DEF IsSet
  <2>6. QED
    BY <2>1, <2>4, <2>5 DEF PartnersInv, IsSet
<1>8. CASE NameSet(t)
  <2>1. /\ BindsName(t) /\ ~BindsName(t)' /\ arg[t].oid \in Oids /\ arg[t].name \in OidNames
        /\ \A s \in Threads \ {t} : pc'[s] = pc[s] /\ arg'[s] = arg[s]
    BY <1>0, <1>8 DEF NameSet, UnderConfig, Then, Done, BindsName, ArgInv, OidCalls
  <2>2. config' = [config EXCEPT ![<<"str2oid", arg[t].name>>] = arg[t].oid]
    BY <1>8 DEF NameSet, SetTo, NameKey
  <2>3. /\ config'[<<"str2oid", arg[t].name>>] = arg[t].oid
        /\ \A n \in OidNames \ {arg[t].name} : config'[<<"str2oid", n>>] = config[<<"str2oid", n>>]
        /\ \A o \in Oids : config'[<<"oid2str", o>>] = config[<<"oid2str", o>>]
    BY <1>0, <2>1, <2>2 DEF Keys
  <2>4. /\ arg[t].oid # Unset /\ \A s \in Threads : BindsName(s) => arg[s].oid \in Oids
    BY <2>1, UnsetAssumption DEF ArgInv, OidCalls, BindsName
  <2>5. \A s \in Threads \ {t} : (BindsName(s)' <=> BindsName(s)) /\ arg'[s] = arg[s]
    BY <2>1 DEF BindsName
  <2>6. \A s \in Threads : BindsName(s)' => IsSet(OidKey(s))'
    BY <2>1, <2>3, <2>4, <2>5 DEF PartnersInv, IsSet, OidKey
  <2>7. \A o \in Oids : config'[<<"oid2str", o>>] \in OidNames \cup {Unset}
    BY <2>3 DEF PartnersInv
  <2>8. \A n \in OidNames : config'[<<"str2oid", n>>] \in Oids \cup {Unset}
    BY <2>1, <2>3 DEF PartnersInv
  <2>9. ASSUME NEW o \in Oids, config'[<<"oid2str", o>>] # Unset
        PROVE  \/ config'[<<"str2oid", config'[<<"oid2str", o>>]>>] # Unset
               \/ \E s \in Threads : BindsName(s)' /\ arg'[s].name = config'[<<"oid2str", o>>]
    <3>1. PICK n \in OidNames : config[<<"oid2str", o>>] = n /\ config'[<<"oid2str", o>>] = n
      BY <2>3, <2>9 DEF PartnersInv
    <3>2. CASE n = arg[t].name
      BY <2>3, <2>4, <3>1, <3>2
    <3>3. CASE n # arg[t].name
      BY <2>3, <2>5, <2>9, <3>1, <3>3 DEF PartnersInv, IsSet
    <3>4. QED
      BY <3>2, <3>3
  <2>10. ASSUME NEW n \in OidNames, config'[<<"str2oid", n>>] # Unset
         PROVE  config'[<<"oid2str", config'[<<"str2oid", n>>]>>] # Unset
    <3>1. CASE n = arg[t].name
      BY <2>1, <2>3, <3>1 DEF PartnersInv, IsSet, OidKey
    <3>2. CASE n # arg[t].name
      BY <2>3, <2>10, <3>2 DEF PartnersInv, IsSet
    <3>3. QED
      BY <3>1, <3>2
  <2>11. QED
    BY <2>6, <2>7, <2>8, <2>9, <2>10 DEF PartnersInv, IsSet
<1>9. QED
  BY <1>1, <1>2, <1>3, <1>4, <1>5, <1>6, <1>7, <1>8 DEF Calls, Steps

(* A step that changes nothing keeps the invariant.                        *)
LEMMA StutterInv ==
  ASSUME ConfigInv, UNCHANGED vars
  PROVE  ConfigInv'
<1> USE DEF vars, locks
<1>1. TypeOK' /\ LockInv' /\ ArgInv'
  BY DEF ConfigInv, TypeOK, LockInv, ArgInv
<1>2. LookupInv'
  BY DEF ConfigInv, LookupInv, Search, Get
<1>3. UnboundInv'
  BY DEF ConfigInv, UnboundInv, IsSet, OidKey, NameKey
<1>4. PartnersInv'
  BY PartnersUnchanged DEF ConfigInv, BindsName
<1>5. QED
  BY <1>1, <1>2, <1>3, <1>4 DEF ConfigInv

(* The invariant holds of every state of the library's tables.             *)
THEOREM IInvHolds == Spec => []ConfigInv
<1>1. ConfigInv /\ Next => ConfigInv'
  BY TypeNext, LockNext, ArgNext, LookupNext, UnboundNext, PartnersNext DEF ConfigInv
<1>2. ConfigInv /\ [Next]_vars => ConfigInv'
  BY <1>1, StutterInv
<1>3. QED
  BY InitInv, <1>2, PTL DEF Spec

(* Every variable has its type, and each lock is held by a thread that is  *)
(* in a call that takes it (libstate.cpp:99-205).                          *)
THEOREM TypeCorrect == Spec => []TypeOK
<1>1. ConfigInv => TypeOK
  BY DEF ConfigInv
<1>2. QED
  BY <1>1, IInvHolds, PTL

(* Outside a call, the cached default allocator is the one the option      *)
(* names, unless a direct write or a registration came after its lookup    *)
(* (libstate.cpp:112-127, 146-151): a set_default_allocator is never       *)
(* overtaken by a lookup that read the option before it.                   *)
THEOREM CacheStaysFresh == Spec => []CacheIsFresh
<1>1. ConfigInv => CacheIsFresh
  <2> SUFFICES ASSUME ConfigInv, allocator_lock = NoThread,
                      cached_default_allocator # Null, ~bypassed
               PROVE  cached_default_allocator = Search(Chosen(Get(DefaultKey)))
    BY DEF CacheIsFresh
  <2>1. \A t \in Threads : pc[t] # "uncache"
    BY NoThreadAssumption DEF ConfigInv, LockInv, InsideAllocator
  <2>2. QED
    BY <2>1 DEF ConfigInv, LookupInv
<1>2. QED
  BY <1>1, IInvHolds, PTL

(* While no add_oid is under way every identifier's name is bound, and     *)
(* every name's identifier (oids.cpp:18-26), however many threads have     *)
(* interleaved the four locked calls of theirs.                            *)
THEOREM TablesAgree == Spec => []OidTablesAgree
<1>1. ConfigInv => OidTablesAgree
  BY DEF ConfigInv, PartnersInv, BindsName, OidTablesAgree
<1>2. QED
  BY <1>1, IInvHolds, PTL

(* add_oid replaces a binding only when it had found the key unset at its  *)
(* beginning (oids.cpp:18-26): the lost binding was made meanwhile.        *)
THEOREM RebindingNeedsARace == Spec => RebindsOnlyWhenRacing
<1> DEFINE Rebinds(k) ==
      k[1] \in {"oid2str", "str2oid"} /\ IsSet(k) /\ config'[k] # config[k]
<1> DEFINE Racing(k) ==
      \E t \in Threads :
        pc[t] \in {"oid_set", "name_set"} /\ k \in arg[t].unbound
<1>1. ASSUME ConfigInv, Next, NEW k \in Keys, Rebinds(k)
      PROVE  Racing(k)
  <2>1. PICK t \in Threads : Calls(t) \/ Steps(t)
    BY <1>1 DEF Next
  <2>2. k # DefaultKey
    BY <1>1 DEF DefaultKey
  <2>3. Set(t) \/ SetConf(t) \/ OidSet(t) \/ NameSet(t)
    BY <1>1, <2>1 DEF Calls, Steps, BeginSet, BeginGetAllocator,
       BeginSetDefault, BeginAddAllocator, BeginAddOid, Begin, AcquireConfig,
       AcquireAllocator, GetAllocator, GetDefault, Option, CacheDefault,
       SetDefaultIgnored, SetDefault, Uncache, AddAllocator, OidIsSet, NameIsSet
  <2>4. CASE Set(t)
    <3>1. arg[t].key = DefaultKey
      BY <1>1, <2>4 DEF Set, UnderConfig, ConfigInv, ArgInv
    <3>2. config'[k] = config[k]
      BY <1>1, <2>2, <2>4, <3>1 DEF Set, SetTo, ConfigInv, TypeOK
    <3>3. QED
      BY <1>1, <3>2
  <2>5. CASE SetConf(t)
    BY <1>1, <2>2, <2>5 DEF SetConf, SetTo, ConfigInv, TypeOK
  <2>6. CASE OidSet(t)
    <3>1. k = OidKey(t)
      BY <1>1, <2>6 DEF OidSet, SetTo, ConfigInv, TypeOK
    <3>2. QED
      BY <2>6, <3>1, <1>1 DEF OidSet, UnderConfig, ConfigInv, UnboundInv
  <2>7. CASE NameSet(t)
    <3>1. k = NameKey(t)
      BY <1>1, <2>7 DEF NameSet, SetTo, ConfigInv, TypeOK
    <3>2. QED
      BY <2>7, <3>1, <1>1 DEF NameSet, UnderConfig, ConfigInv, UnboundInv
  <2>8. QED
    BY <2>3, <2>4, <2>5, <2>6, <2>7
<1>2. ASSUME ConfigInv, [Next]_vars
      PROVE  \A k \in Keys : Rebinds(k) => Racing(k)
  <2>1. CASE Next
    BY <1>1, <1>2, <2>1
  <2>2. CASE UNCHANGED vars
    BY <2>2 DEF vars
  <2>3. QED
    BY <1>2, <2>1, <2>2
<1>3. ConfigInv /\ [Next]_vars => [\A k \in Keys : Rebinds(k) => Racing(k)]_vars
  BY <1>2
<1>4. QED
  BY <1>3, IInvHolds, PTL DEF Spec, RebindsOnlyWhenRacing
=============================================================================
