# A TLA+ model of Botan 1.8.11 and its PHP extension

The repository is a PHP extension, `src/php_botan.cc`, over a vendored copy of
the C++ cryptography library Botan 1.8.11. The extension has one function. What
carries logic of its own, and what this project models, is the library's
run-time core: the secure-memory pool, the global state and its
initialisation, the shared configuration and allocator tables, the algorithm
factory with its cache, and `Pipe`, the message-based engine through which the
library's operations are composed; and of what runs on top of that core, the
parts with state that outlives a call: the random generators with the commands
they are seeded from, the certificate store, the cipher modes as filters, the
big integers with their registers, number theory over them, and the keys with
their blinders. Paths below are relative to
`src/Botan-1.8.11/src/` unless they begin with `src/` or `doc/` (the latter is
`src/Botan-1.8.11/doc/`).

## 1. Inventory

| Component | State it keeps | Operations | Talks to | What is hard |
|---|---|---|---|---|
| Pooling allocator (`alloc/mem_pool`) | vector of `Memory_Block`s with a 64-bit bitmap each, `last_used`, list of chunks, a mutex | `allocate`, `deallocate`, `destroy` | the system through `alloc_block`/`dealloc_block`; every `SecureVector` | threads; iterators into a vector that is grown and sorted; bit masks; exceptions under the lock |
| System allocators, `secmem.h` | none; a region's pointer and sizes | `alloc_block`, `dealloc_block`; `MemoryRegion::create`, `grow_to`, `copy` | malloc, mlock, mmap; the pool | memory must come back zeroed, and go to the allocator it came from |
| Library lifecycle (`libstate/init`, `libstate.cpp`, `src/php_botan.cc`) | the global `Library_State*`; the parts of each `Library_State` | construct and destroy a `LibraryInitializer`, `global_state()` with lazy initialisation, `initialize`, `~Library_State` | owns every component below | an unlocked pointer; a two-stage, re-entrant initialisation that may throw anywhere |
| Configuration, allocator table, OIDs (`libstate.cpp`, `oid_lookup`) | the `config` map, `alloc_factory`, `cached_default_allocator`, two locks | `get`, `set`, `is_set`, `option`, `get_allocator`, `set_default_allocator`, `add_allocator`, `add_oid` | nested locks; the map is shared by options, aliases and OIDs | lock order, a cached value derived under another lock, check-then-act over several locked calls |
| Algorithm factory (`algo_factory`) | per kind of algorithm: prototypes by name and provider, aliases, preferred providers | `make_*`, `prototype_*`, `providers_of`, `set_preferred_provider`, `add_*` | asks the engines; hands out pointers into its cache | a pointer used after the unlock; concurrent misses; what a partial cache answers |
| Engines (`engine`) | none | `find_*`, `provider_name` | asked by the factory | the order in which they are asked |
| Mutexes (`mutex`) | the owner | `lock`, `unlock`, `Mutex_Holder` | everything above | release on every way out |
| Pipe and filters (`filters`) | the tree of filters with their ports, `inside_msg`, the queues of `Output_Buffers` and an offset, what each filter holds back | `append`, `prepend`, `pop`, `reset`, `start_msg`, `write`, `end_msg`, `read`, `set_default_msg` | filters push to filters, the last ones into queues that are read later | a tree changed between messages, flushing order, retiring numbered queues, a filter that throws in any call |
| Data sources and sinks (`filters/data_*`, `fd_unix`, `pipe_io`) | a stream position | `read`, `peek`, `write` | the operating system | end of data |
| Modes and padding (`modes`) | cipher state, buffer and position of each of eight modes in two directions | `set_iv`, `start_msg`, `write`, `end_msg` as filters | block ciphers, MACs, Pipe | a message cut anywhere, the block that decryption holds back, stealing, counters that carry, state that survives the end of a message |
| Random generators (`rng`) | seeded flags, keys, pool, counters, positions | `randomize`, `reseed`, `add_entropy`, `clear` | entropy sources, MACs, each other | when "seeded" may be claimed; inputs that a later, poorer poll must not wash out |
| Entropy sources (`entropy`) | file descriptors, a child process | `poll`, the command runner | the operating system, other processes | time-outs, two signals, reaping, a pid that is given to someone else |
| X.509 store (`cert/x509`) | certificates, sorted revocations, verdicts with the time they were reached, a flag that they are current | `add_cert`, `add_crl`, `validate_cert` | key operations, clock | an order for revocations under a partial equality, caches that go stale by time, by a CRL or by a new issuer |
| Big integers (`math/bigint`) | a register of words and a sign | `BigInt`'s operators, `divide`, shifts, digits | each other | nine ways to multiply, chosen by lengths that earlier calls leave behind; carries, borrows, signs |
| Number theory (`math/numbertheory`) | an exponentiator's modulus, exponent, window and table of powers | `Power_Mod::set_modulus`, `set_base`, `set_exponent`, `execute`; reduction, gcd, inverses, square roots, primes | big integers, the random generator | a table that is made for one exponent and used with another; two exponentiators with windows of their own; estimates that may be off by the modulus |
| Public keys (`pubkey`) | a private key with its recombination values, and the pair of numbers of its blinder | load; encrypt, decrypt, sign, verify, derive | number theory, the random generator | a blinder that changes with every call, values from which no power or sum is defined, two formulas that must undo each other |
| ASN.1, CMS, codecs, elliptic curves, primitives, PBE, card certificates | none that is shared | pure functions | - | layout of bytes and arithmetic |

What makes the modelled ones correct: memory that is in use is never handed out
again and comes back zeroed; a failed or finished initialisation leaves nothing
behind and nobody uses a state that is gone; derived values (the default
allocator, the two OID tables, the cache of prototypes) agree with what they
are derived from in every interleaving; every prototype and every filter has
exactly one owner; what is written into a Pipe comes out of it once, in order, under the
number of its message, unless the end of the message throws; a cipher filter sends what its mode
makes of the whole message, however it was cut; random output depends on every
input that was accepted, and no command is left behind; a cached verdict about a
certificate is one that would be reached again; an operation on registers of
words is the operation on integers, and one of number theory what its name says;
and what a private key does its public half undoes, however often the key was
used.

`PROJECT.json` lists every component with its status and every hazard at its
line.

## 2. Modules

| Module | Models | Lines of the code |
|---|---|---|
| `PoolingAllocator` | the pool | `alloc/mem_pool/mem_pool.cpp` whole; clients as `secmem.h` uses it |
| `AllocatorPromise` | the `Allocator` interface as its callers rely on it | `alloc/allocate.h`, `alloc/secmem.h` |
| `PoolingAllocatorProofs` | the proofs about the pool: its inductive invariant, and that it implements `AllocatorPromise` | |
| `LibraryLifecycle` | the global state | `libstate/init.cpp`, `libstate.cpp:65-92, 242-336`, `src/php_botan.cc` |
| `LibraryLifecycleProofs` | the proofs about the global state, in a disciplined program | |
| `LibraryConfig` | one initialised `Library_State` | `libstate.cpp:105-191`, `oid_lookup/oids.cpp:18-26` |
| `LibraryConfigProofs` | the proofs about the configuration and allocator tables | |
| `AlgorithmFactory` | the factory and one of its caches | `algo_factory/*` |
| `AlgorithmFactoryProofs` | the proofs about the factory | |
| `Pipe` | the Pipe, its filters and queues | `filters/pipe.cpp`, `filter.cpp`, `basefilt.cpp`, `out_buf.cpp`, `pipe_rw.cpp` |
| `PipeProofs` | the proofs about the Pipe: its tree, its queues, and that it implements `PipePromise` | |
| `FiniteRecursion` | induction on finite sets and on numbers, recursive functions and sequences, for those proofs | |
| `PipePromise` | what a Pipe promises its user | `filters/pipe.h`, `doc/api.tex` |
| `UnixCommand` | the entropy source that runs programs, with a child process and the kernel | `entropy/unix_procs/unix_cmd.cpp`, `es_unix.cpp`, `entropy/entropy_src.h` |
| `RandomGenerators` | `ANSI_X931_RNG` around `HMAC_RNG` or `Randpool`, and the loop over the sources | `rng/*`, `entropy/*/es_*.cpp` |
| `RandomGeneratorsProofs` | the proofs about both | |
| `X509Store` | `X509_Store`, and how names compare | `cert/x509/x509stor.cpp`, `asn1/asn1_dn.cpp:172-229` |
| `X509StoreProofs` | the proofs about it | |
| `BlockModes` | ECB, CBC, CFB, OFB, CTR, CTS, XTS and EAX, and the paddings | `modes/*`, `filters/filter.cpp` |
| `BigIntegers` | `BigInt` and the word arithmetic under it | `math/bigint/*`, `math/numbertheory/mp_numth.cpp` |
| `NumberTheory` | `Power_Mod` with its two exponentiators, and the functions over integers | `math/numbertheory/*`, `math/bigint/monty_generic/mp_monty.cpp` |
| `PublicKeys` | RSA, Rabin-Williams, DSA, Nyberg-Rueppel, ElGamal and Diffie-Hellman keys | `pubkey/*`, `math/numbertheory/blinding.cpp` |
| `MC*` | small instances for TLC | |

How they fit together: `LibraryLifecycle` creates and destroys, as parts of a
`Library_State`, the objects whose insides the other modules model:
`"locking"` and `"mmap"` are two `PoolingAllocator`s, `"allocator_lock"` and
`"config_lock"` are the two locks of `LibraryConfig`, and
`"algorithm_factory"` is an `AlgorithmFactory`. `PoolingAllocator!Destroy` is
enabled where the lifecycle calls it, with no other call under way.
A refinement mapping composes `PoolingAllocator` with `AllocatorPromise`, and
`Pipe` with `PipePromise` (`Promise` in either module). `RandomGenerators` extends `UnixCommand`:
a reseed that polls the "unix" source hands control to the command runner and
goes on when that is idle again. `BlockModes` are the filters whose computation
`Pipe` leaves out; it has the two ends of one filter each instead of a tree.
`PublicKeys` extends `NumberTheory` and makes its exponentiators;
`NumberTheory` takes integers where the code takes `BigInt`s, which `BigIntegers`
shows to be alike. `MCOneThread` runs `X509Store`, `BlockModes`, `BigIntegers`,
`NumberTheory` and `PublicKeys`, each on its own: they are objects one thread
uses and share nothing.

### PoolingAllocator

Addresses are counted in units of `BLOCK_SIZE`, because every pointer the pool
gives out is on a unit boundary; request sizes stay in bytes, so `round_up` is
really computed. A bitmap is the set of its 1-bits. Each thread has a program
counter. A call enters (`Allocate`, `Deallocate`), takes the mutex
(`LockAllocate`, `LockDeallocate`) and then runs in the steps at which another
thread would see something half done if the mutex did not exclude it: one
`Memory_Block` of the circular scan (`ScanFinds`, `ScanMovesOn`, `ScanFails`),
the setting of the bits (`Mark`), the new chunk (`GetMoreCore`), the system's
answer (`AllocateLarge`, `SystemRefuses`), and the release (`FreeLarge`,
`FreePooled`, `WrongAllocator`). `DeallocateForeign` is a caller with a pointer
of another allocator; `Write` is a client that stores. The ghost `held` is what
clients own; `dirty` are the units whose bytes are not all zero. `SortedIn` is
`push_back` and `std::sort` together: the sort's result on a vector that is
sorted already but for the new, contiguous blocks.

### LibraryLifecycle

Nothing locks the global pointer, so each read and each write of it is a step,
and each member that `Library_State::initialize` makes or `~Library_State`
deletes is one too. Calls nest (a use may initialise lazily, `initialize` calls
`global_state()`, which may initialise again), so each thread has a stack of
return labels. The variable `program` says, from the first state on, how the
program treats the library's lifetime: `"initializer"` keeps the rules of
`doc/api.tex:158-166`, `"lazy"` is a single-threaded program that makes no
initializer, `"requests"` makes one per thread, as the PHP extension does per
request. Undefined behaviour (a method of a deleted object) sets `wild` and
ends the behaviour.

### LibraryConfig

A locked call is a wait, an acquisition and a body; `get_allocator` and
`set_default_allocator` take `config_lock` inside `allocator_lock` in further
steps, and `add_oid` is its four locked calls in a row. The ghost `bypassed`
records that a direct write of the option or a registration has happened, the
two changes after which the code does not reset the cached default.

### AlgorithmFactory

One of the four caches, which share nothing. Each method of the cache is one
step, since its mutex makes it one; between the steps of `factory_prototype`
(miss, one engine after another, add, look again, clone) anything may happen.
Prototypes are objects with an identity, so that "deleted" means something.

### Pipe

A filter is a model value with ports (`next`). It sends on what it gets, or
holds it until the message ends; its computation is left out. The walks over
the tree (`find_endpoints`, `send`, `finish_msg`, `destruct`) are functions
defined by recursion on the tree's structure (`Preorders`, `Fringes`): the value
at a filter is put together from those at the filters behind its ports, in the
code's order. `StartMsgThrows`,
`WriteThrows` and `EndMsgThrows` are the calls in which something throws after
any number of steps of the walk. A filter that throws in its `end_msg` has got a
part of what it holds to all of its ports and more to some, and has forgotten
more or less than it has sent (`PartlyFlushed`): `send` (`filter.cpp:31-38`)
serves a port at a time, and the filters of the library reset their positions
after it (`hex.cpp:106-109`, `base64.cpp:106-127`). In `Spec`, `append`, `prepend` and
`pop` happen only when the pipe is not in use as `doc/api.tex:519-523` requires,
which excludes a pipe whose `start_msg` has thrown (section 6 says what the code
does with one). The assumptions on the constants are what C++ and
the constructors enforce: a filter is made after those it is given and given to
one owner; a chain skips null pointers (`basefilt.cpp:17-33`), a fork drops
those at its end (`filter.cpp:106-107`). That it is given only once is what ownership
asks of the program (`doc/api.tex:276`). A deleted filter has the ports of a new one, `NoPorts`.

### UnixCommand and RandomGenerators

Each system call of the command runner is a step, since the program it has
forked and the kernel go on between any two. `ReadStops` is the end of file, the
time-out of `select` or its interruption, which the code does not tell apart;
`Probe`, `Terminate`, `ProbeAgain`, `Kill`, `Reap` and `Close` are
`shutdown_pipe`. `child` is who has the pid: a pid that has been reaped may be
given to a stranger. The constant of the first state, `host`, says whether the
program linked with Botan leaves `SIGCHLD` alone or ignores it, in which case
exited children are reaped by the kernel.

A secret value is the set of inputs it depends on. That keeps what the
generators are about, which inputs the next output depends on, and leaves the
MACs and ciphers free. `Rekeyed`, `Drawn` and `Output` are the interface of the
inner generator; `Rewound` and `Refilled` are `rekey` and `update_buffer` of the
outer one. `PollThrows` ends a reseed at any source, with what was fed so far.

### X509Store

Key identifiers and serial numbers are numbers, and a signature is the
key it was made with. A name is the sequence of its attributes in the order of
their types; a value is a number, its place among all values as they are
written, and `Folded` says which of them `x500_name_cmp` takes for one. `SameDN` and
`BeforeDN` are `operator==` and `operator<` of `X509_DN`: the first folds, the
second does not, and looks attributes up by type. `validate_cert` is one action (one thread asks), computed
in the code's order: the marking of revoked certificates when the flag asks for
it, the path up to a trusted certificate, its being cut back to what has no
verdict yet, then the checks of one certificate after another with each
signature's verdict kept. `Sorted` and `Found` are insertion sort and binary
search (`Place` is where the halving ends) under the code's `operator<`, which
is no order in general; `Alike` says when it is one. `Genuine` is the reference: the definition of `doc/api.tex:1671`, with no cache.

### BlockModes

A byte is the set of what has been xored into it; the cipher, the MAC and the
doubling of a tweak yield new signs. Outputs that agree in this algebra agree
for every cipher. A filter is a record of the members of its class; each `write`
is the class's loop over a buffer and a position. `StartMsg`, `Write` and
`EndMsg` drive the encrypting filter, `Receive` and `EndReceive` the decrypting
one with pieces cut elsewhere. `Standard` is the reference: each mode by its
textbook definition on the whole message.

### BigIntegers

Registers are sequences of words of `MP_WORD_BITS` bits, least significant
first, usually longer than the number. Every operator of `BigInt` is translated
down to words with their carries, in place where the code works in place, so
that what an earlier call left in a register is there for the next. The Comba
functions, whose lines are unrolled in the code, are written as the columns that
they unroll. `Exact` is the reference: the same operation on integers, written
as polynomials in the base because numbers of 36 words do not fit TLC's integers.
`*=` and `mul_add` get operands that are distinct objects.

### NumberTheory and PublicKeys

Numbers are integers, with the word size kept where a formula depends on it
(Barrett's and Montgomery's powers of the word). `SetModulus`, `SetBase`,
`SetExponent` and `Execute` are `Power_Mod`; `CoreWithBase` chooses the window
and fills the table for the exponent of that moment, as the code does. The other
functions have no state: `CallTwo`, `CallPrimality`, `CallRandomPrime`,
`CallSafePrime` and `CallDsaPrimes` call them and leave an `answer`. A random
number is any that the generator could yield; a search for a prime that leaves
its range is no answer, since the code then draws again. `Meant` is the
reference: divisors, squares and repeated products.

In `PublicKeys` a key is loaded (`LoadKey`: the missing values computed, the
checks of `check_key`, the blinder made from a random number; a key that throws
is none), then used. `Blinded` and `unblind` enclose every private
operation; the pair is squared also when the operation
throws. `CallOfPartner` is the holder of the public half, or of the private one,
with what the call before it produced; DSA verifies any two numbers besides. An
exception is the result `Throws`.

Many helpers bind a value by a parameter, or by a quantifier over one value,
instead of naming it by LET: TLC evaluates a name again wherever it is used.

## 3. Runs

All numbers of threads, regions and so on are bounds of the instance, named in
the `.cfg`; none is in a module.

| Run | Question | Instance |
|---|---|---|
| `pool_safety` | Is memory handed out once, accounted for, wiped, found again? | 2 threads, blocks of 3 units of 2 bytes, 2 blocks to a chunk, requests of 1, 3, 6 and 7 bytes (one unit, two, a whole block, more than a block), 2 places, 3 regions |
| `pool_promise` | Does the pool implement `AllocatorPromise`, and is the mutex always given back? | as above with requests of 3 and 7 bytes, no symmetry, fair |
| `lifecycle` | Is a disciplined program safe, and a failed initialisation undone? | 1 initializer, 2 workers; or one thread at a time and no initializer |
| `two_requests` | Is a program with an initializer per thread safe? | 2 threads: violated |
| `config` | Deadlock, stale default, disagreeing OID tables? | 2 threads, 3 allocators, 4 types (one unknown, one empty), 2 OIDs and 2 names |
| `factory` | One owner, everything available found, answers that fit? | 2 threads, 2 engines, two names of one algorithm, a provider of the program's own |
| `factory_race` | Is the prototype that is about to be cloned alive? | 2 threads: violated |
| `pipe` | Does the pipe keep its promise and its filters? | a chain of a hash and an encoder, a fork of a copy and a hash, 3 queues, 2 writes, 2 exceptions |
| `pipe_pop` | Does `pop` undo `prepend`? | a chain in a chain: violated |
| `random` | Is any entropy lost, any output repeated, any command left behind, and does `reseed` end? | both inner generators, four sources, two commands that write as often as they like, 3 inputs between two calls of `clear`, goals of 0 and 4 bits, fair |
| `revocations` | Does the search find what a list has revoked? | 2 CAs, 2 lists, 2 certificates whose issuer is written in another case: violated |
| `one_thread` | Are cached verdicts right, modes standard whatever the cut, arithmetic exact whatever the registers, powers right in whatever order they are asked for, and keys undone by their partners? | the store: 4 CA certificates, 2 others, 4 CRLs, a clock up to 2; the filters: 15 combinations of mode, padding and feedback size, blocks of 2 bytes, 11 bytes of text in 2 messages; the numbers: 10, words of 4 bits, 2 calls; theory: operands up to 32, 8 moduli, 4 bases, 4 exponents, 4 sets of hints, primes of 2 to 7 bits; 14 keys with moduli of 5 to 7 bits |

### Why the bounds are enough

*Pool.* Three units to a block make every relation of a run to a block (inside,
at the top bit, all of it, too long); two blocks in a chunk make the circular
scan wrap; two places below each other make chunks arrive out of address order,
so that the sort matters; three regions fill a block and leave holes. The
threads exclude each other, so two show what the mutex is for. The proofs
remove the bounds for every property of the pool but `MutexIsReleased`.

*Lifecycle.* A `Library_State`'s name is used again when nothing refers to it,
so the number of initialisations has no bound; three names are one published,
one being built and one being deleted. Two workers beside the initializer show
uses that overlap a use. The proofs remove these bounds.

*Config and factory.* With two threads every pair of calls interleaves in every
way; the properties relate at most two calls. `Copies` bounds the prototypes of
one name and provider that exist or are referred to at once: each of two threads
refers to two at most, the cache to one. For both modules the proofs remove the
bounds.

*Pipe.* Three queues allow a message over both branches of the fork and another
one, or three messages; two exceptions let a call throw, be repeated, and throw
again. Two different writes distinguish lost, repeated and reordered data. The bounds
end the pipe's life, so the runs of `MCPipe` do not check for deadlock. The proofs
remove the bounds, and the two trees of the instance, for all properties.

*Random.* `serial` counts the inputs since the last `clear`, so the generator
lives for ever; three inputs are one in the key already, one in the pool or in
R, and one on its way. What a command has written is counted up to the goal of
the poll (`Added`), beyond which it makes no difference, so writes have no bound. Two commands show what one leaves for the next. A
Randpool mixes every 3 updates here, so that a mix falls into a draw, between
draws and into a rekey.

*One thread.* Store: a path of three CAs of which one has a path limit and one
expires, a forged namesake without a key identifier, a CRL that takes back what
another revoked, one by a CA that is revoked itself, one signed by the forger.
One CA's name is written in one way in its certificate, in another by those it
has issued and in its list; another name has two attributes. A
verdict is kept for one tick and the clock has three, so that it is used while
it stands, used after its certificate has expired, and renewed. Filters: blocks
of two bytes have a first and a last position, 11 bytes are two messages of
several blocks in all cuts, and the text has a byte that looks like padding and
zeros. Numbers: they have up to 18 significant words in registers of 24, so that products run through one-word,
Comba of 4, 6, 8 and 16 words, schoolbook and Karatsuba multiplication (whose
thresholds are lowered from 32 to 10); two calls, so that the second finds
the register of the first. Dividends have at most 6 words, which covers the
guess, its lowering and its correction. Theory: operands up to 32 and the
squares and cubes of them, words of 3 bits, so that a modulus has one or two
words, windows of 1 to 7 bits at moduli of either kind (1, powers of two and
composites among them), and primes of up to 7 bits, which have three rounds of
sieve and test; the tables of primes, of window sizes and of rounds are scaled
down with them. Keys: moduli of 5 to 7 bits, every message, every nonce, every
blinder that a random number of full length makes and all its squares, and keys
that are refused. The two bounds on calls and messages
end these objects' lives, so this run does not check for deadlock; the
remaining ones do.

### What the properties say

*Pool.* `LiveRegionsDisjoint`, `BitmapsMatchLive`, `FreeMemoryIsZero`,
`ScanMissesNothing` (a scan gives up only if nothing fits), `RescanSucceeds`
(the `Memory_Exhaustion` at `mem_pool.cpp:165` is dead code),
`RejectsExactlyForeign` (the exception of `deallocate` is thrown for exactly the
pointers that are not the pool's), `PoolInv` (the inductive invariant of the
proofs, `TypeOK` included), `KeepsPromise` (the refinement) and
`MutexIsReleased`.

*Lifecycle.* `NoUseOfDeletedState`, `AllOrNothing`, `FactoryOutlived`,
`DyingIsUnreachable`, `UsesSucceed`.

*Config.* `CacheIsFresh`, `OidTablesAgree`, `RebindsOnlyWhenRacing`, `ConfigInv` (the
inductive invariant of the proofs) and the absence of deadlock.

*Factory.* `PrototypesAreOwnedOnce`, `AvailableIsFound`, `AnswerFits`,
`ProvidersOnlyGrow`, `ReplacesOnlyUnseen`; `NoUseOfDeletedPrototype`, which the
code violates.

*Pipe.* `PortsReferToKeptQueues`, `OwnsItsFilters`,
`WholePipeInv` (the inductive invariant of the proofs, `TypeOK` included),
`PopUndoesPrepend`, and `KeepsPipePromise`: the refinement of `PipePromise`, in
which *delivered* is what can be read of each message and *owed* is what filters
still hold back from it. The promise says what a call that throws may have
done. After a `write` each open message has all of what was written, or all but
the last item. After an `end_msg` (`EndFails`) each has got a beginning of what
it was owed, and an end of it is still owed: what lies between may be missing,
and where the two overlap the repeated `end_msg` delivers it twice. Nothing that
could be read is lost, and no other message is touched.

*Random.* `NoChildLeftBehind` and `SignalsOnlyItsOwnChild` of the command
runner; `WrapperSeededWithInner` (the outer generator claims to be seeded
exactly while the inner one is); `OutputDependsOnAllEntropy` (the next bytes
depend on every input since the last `clear`, and no byte of R is given twice);
`PollingEnds` (a `reseed` ends, unless some command writes again and again for
ever).

*One thread.* `VerdictIsRight`: what is verified has a genuine path, in time
within the cache's time-out and not revoked as far as the revocations can be
compared with it, and what has one and is not reported as revoked is verified.
`RevokedAreFound`, of the run `revocations`, says that they can always be, and
is violated.
`ModeIsStandard` and `RoundTrip`. `ArithmeticIsRight`: every operation is that
of the integers, and there is no negative zero. `NumberTheoryIsRight` and
`PartnersAgree` say the same of the functions of number theory and of the
operations of a key, and when an exception is the answer. Each names in its text what it
excludes; section 6 says why.

Each property comes with a faulty variant of one definition (marked as such in
the module, and listed under `mutants`) that makes TLC find it violated.

### Fairness

`pool_promise` assumes weak fairness of each thread's steps *inside* the critical
section. A thread there is running code without waiting for
anything, so it goes on; nothing is assumed of a thread that waits for the
mutex, nor of callers. Under that `MutexIsReleased` holds: the scan ends, and
every exception gives the mutex back.

`random` assumes weak fairness of the one thread that is in the loop of
`reseed`, which runs code or waits in calls that time out, and that a process
dies to which `SIGKILL` was sent. Nothing is assumed of a command: it may write,
be silent, ignore `SIGTERM` and never end. A command that writes for ever is
read for ever, since the loop of `es_unix.cpp:98-104` ends with the output only;
`PollingEnds` says that this is the only way in which a `reseed` does not end
(the second of its disjuncts). It speaks of a host that
leaves the statuses of its children alone; with one that does not, `waitpid`
fails for ever and TLC finds the loop of `unix_cmd.cpp:197`.

The other properties are safety and need none.

## 4. Proofs

### PoolingAllocatorProofs

`PoolingAllocatorProofs` proves, for any set of threads, any positive unit and
bitmap sizes, any chunk size that holds one Memory_Block, any request sizes and
any places:

* `InductiveInvariant`: `Spec => []IInv`
* `TypeCorrect`: `Spec => [](TypeOK /\ CursorInv)`, where `CursorInv` keeps
  `last_used` and the iterators of the scans inside the vector
* `NoOverlap`: `Spec => []LiveRegionsDisjoint`

The assumptions are `SizesAssumption`, `ChunkAssumption`, `NoThreadAssumption`
and `BoundAssumption` of `PoolingAllocator`. `ChunkAssumption` is needed: with a
smaller chunk `get_more_core` makes no block and `last_used` points nowhere. The
code's values are 65536 against 4096 (`configure.py`, `mem_pool.cpp:237-240`).

`LiveRegionsDisjoint` alone is not inductive: a step that marks a run keeps it
only if every region that is already out has its bits set, in a block that no
other block overlaps. `IInv` says so in named parts:

* `TypeOK`;
* `ControlInv`: the holder of the mutex is the one thread in the critical
  section; `last_used` and the scan's iterator are valid; a thread about to mark
  has found a run that is still clear;
* `MemoryInv`: the blocks are sorted and apart, they lie inside the chunks,
  every live pooled region has its bits set in one block, large and foreign
  regions lie outside the chunks, a region is released by one thread, and live
  regions are disjoint.

`TypeNext`, `ControlNext` and `MemoryNext` prove the three parts preserved, one
step per action. `MarkMemory`, `GetMoreCoreMemory` and `FreePooledMemory` hold
the argument: the marked run is disjoint from every marked region since their
bits are set and its are clear; the insertion of a chunk's blocks keeps the
order since a fresh chunk meets no older one; clearing a region's bits leaves
the others' alone since regions are disjoint.

The second half of the module proves, under the same assumptions, the rest of
what the runs check of the pool but its liveness:

* `PoolInvariant`: `Spec => []PoolInv`, where `PoolInv` is `IInv` with
  `ClientInv` and `ScanInv`
* `BitmapsAreExact`, `FreeIsZero`, `ScanIsComplete`, `RescanFindsRoom`:
  `BitmapsMatchLive`, `FreeMemoryIsZero`, `ScanMissesNothing`, `RescanSucceeds`
* `RejectsForeign`: `Spec => RejectsExactlyForeign`
* `ImplementsPromise`: `Spec => KeepsPromise`, that is, `Spec` implements
  `AllocatorPromise`

`ScanInv` is what a circular scan needs: the blocks that it has passed since
`last_used`, counted round the end of the vector (`Behind`), have no room, so
that when it comes back to where it started none has; the chunk that is then
fetched starts with a block that has room for any pooled request, so the second
scan ends at its first step. `ClientInv` says that a call in progress has one of
the sizes that are asked for, and that a foreign pointer is released with a size
at which the pool would look for it. `RejectsForeign` needs the binary search of
`deallocate`: the block it stops at is the block the region lies in
(`OwnRegionIsOwned`), and a pointer it accepts lies in a chunk
(`OwnedIsReleasing`).

`BitmapsMatchLive` and `FreeMemoryIsZero` each follow from `PoolInv` and
themselves. The lemma `StepEffects` sorts the actions by what they do to the
live regions (add one, remove one, add a chunk, nothing), and `BitmapsNext`,
`ZeroNext` and `PromiseNext` each treat these four cases instead of eighteen
actions; `PromiseNext` shows the step of `AllocatorPromise` that each case is.

### LibraryLifecycleProofs

Proves for any set of threads and states, of a *disciplined* program,

* `InductiveInvariant`: `Spec => []IInv`
* `NoneUsedAfterDeletion`, `SetUpOrUndone`, `FactoryIsOutlived`,
  `DyingOutOfReach`, `UsesAreServed`: `NoUseOfDeletedState`, `AllOrNothing`,
  `FactoryOutlived`, `DyingIsUnreachable`, `UsesSucceed`

`Disciplined` says that no thread makes an initializer per request and that at
most one thread makes initializers at all. It is a hypothesis of the theorems
and no assumption of the module, because the PHP extension in a threaded server
does not satisfy it: the run `two_requests` shows what then happens. The run
`lifecycle` is an instance that satisfies it.

`IInv` says that the library is in one of three conditions: nothing exists and
no thread is inside (`AllDown`); one complete state is published (`AllUp`), and
any number of threads use it, each with its own stack; or one thread is alone
(`Alone`), and its step, its stack and the parts of the state say how far it has
come with setting up (`Building`) or tearing down (`Undoing`). The properties
relate the global pointer to a state that another thread may be
deleting; that at most one thread does such a thing is what none of them says.
Each action has a lemma that says which condition it leads to; `SetupNext` and
`SwapWritesNext` go through the order in which the members are made and
deleted, with an exception at any of them.

### LibraryConfigProofs

Proves, for any set of threads, any allocators with the types they have, and any
set of option values, identifiers and names:

* `IInvHolds`: `Spec => []ConfigInv`, and from it `TypeCorrect`: `Spec => []TypeOK`
* `CacheStaysFresh`: `Spec => []CacheIsFresh`
* `TablesAgree`: `Spec => []OidTablesAgree`
* `RebindingNeedsARace`: `Spec => RebindsOnlyWhenRacing`

The assumptions are those of `LibraryConfig`: a registered type belongs to one
allocator, `""` and `"locking"` are option values, and `Unset` and `NoThread` are
neither data nor threads.

`CacheIsFresh` speaks of the moments outside a call. To carry it over the calls,
`LookupInv` follows the default through them: while a thread looks it up nothing
is cached and what it has read of the option is still so unless `bypassed`;
while a thread is between `set` and the reset of the cache it is in
`"uncache"`, and by `LockInv` then holds `allocator_lock`, so that no state with
the lock free is among these. `RebindsOnlyWhenRacing` needs `UnboundInv`: a key
is never unset again, so a key that `add_oid` finds unset was already unset at
its beginning. `OidTablesAgree` speaks of the moments when no
`add_oid` is under way. `PartnersInv` extends it over the four calls of one: a
name whose identifier is bound is either bound itself or some thread has
still to bind it. That is more than "this thread will": of two threads
that add one name, the one that found it unset may come last. `TypeNext`,
`LockNext`, `ArgNext`, `LookupNext`, `UnboundNext` and `PartnersNext` prove the
six parts preserved, one step per action.

### AlgorithmFactoryProofs

Proves, for any threads, requests, names, providers and engines,

* `InductiveInvariant`: `Spec => []IInv`, and from it `TypeCorrect`
* `OwnedOnce`: `Spec => []PrototypesAreOwnedOnce`
* `AvailableFound`: `Spec => []AvailableIsFound`
* `AnswersFit`: `Spec => []AnswerFits`
* `KnownIsKept`: `Spec => ProvidersOnlyGrow`
* `SettledAnswersStay`: `Spec => ReplacesOnlyUnseen`

The assumptions: `EnginesAssumption` (the engines are a sequence of providers,
none with the empty name, which as an argument means "any"), `WeightAssumption`
(`static_provider_weight` returns 0 to 8), `NamesAssumption` (a name that an
algorithm returns from `name()` is not empty, and asked for it is that
algorithm), `BoundAssumption` (`Copies`).

Ownership is not inductive alone, because a new prototype passes from an engine
to a thread and from there into the cache. `CacheInv` says that a slot holds a
prototype of its own name and provider; `ProgressInv` what a thread has at each
step (between the answer of an engine and `add`, exactly one prototype of the
engine it asked); `SearchInv` that the engines which it has passed and that have
the algorithm are known to the cache, which survives whatever other threads add
since providers only grow; `FoundInv` that what it found fits its request and is
not about to be added by anyone. `AddProperties`, `FindProperties` and
`GetProperties` say what the cache's operations return and leave alone, and are
what the lemmas about the parts use. Nothing is proved of
`NoUseOfDeletedPrototype`: it is false (`factory_race`). TLC checked this `IInv`
and that of `LibraryLifecycle` as invariants of the instances of `factory` and
`lifecycle`; the runs list the properties that follow from them.

### RandomGeneratorsProofs

Proves, for either inner generator, any sequence of sources, any goals, block
size, number of inputs and programs and bits credited to them:

* `CommandsAreSafe`: `Spec => []IInv` of the command runner alone
* `GeneratorIsSafe`: `RngSpec => [](IInv /\ RngInv)` of the two together
* `ChildrenAreReaped`, `NobodyElseIsStruck`, `SeededTogether`, `NoInputIsLost`:
  `NoChildLeftBehind`, `SignalsOnlyItsOwnChild`, `WrapperSeededWithInner` and
  `OutputDependsOnAllEntropy`, from these

The assumptions are `NumberAssumption` of `UnixCommand` and `SourcesAssumption`,
`InnerAssumption` and `SizeAssumption` of `RandomGenerators`.

`ChildInv` ties the pid to the step: while a command is read or shut down the
child is running or a zombie, so the pid has not been given away and a signal
meets the child; after `Close` nothing is left. `RngInv` strengthens
`OutputDependsOnAllEntropy`, which speaks of outputs, to what they are derived
from: all that was accepted is in the PRF's or the pool MAC's key, and, once
seeded, in R. The lemmas `HmacRekeyFacts` to `InnerFacts` say of each operation
of a generator that the key it leaves contains the key and the inputs it found;
`RekeyFacts` carries that over to the outer one. Each action of `RngNext` then
has a lemma of its own.

### PipeProofs and FiniteRecursion

`PipeProofs` proves, for any finite set of filters, any chains and forks built of
them, any data, and any numbers of queues, writes and exceptions:

* `PipeInvariant`: `Spec => []PipeInv`
* `TypeCorrect`: `Spec => []TypeOK`
* `QueuesAreKept`: `Spec => []PortsReferToKeptQueues`
* `FiltersAreOwned`: `ForksStandAlone` implies `Spec => []OwnsItsFilters`
* `PopsUndoPrepends`: `PlainFamilies` implies `Spec => PopUndoesPrepend`

The assumptions are `FiltersAssumption`, `BuiltAssumption`, `KindsAssumption` and
`BoundsAssumption` of `Pipe`. `ForksStandAlone` (no chain has a fork among its
members) is a hypothesis of one theorem and no assumption of the module:
without it the property is false, because `pop` goes down port 0 only and loses
what is behind the others (section 6). The trees of both runs satisfy it. So is
`PlainFamilies` (no chain has a chain or a fork among its members, and a fork has
more than one port): `pipe_pop` shows that `pop` leaves a part of a chain in a
chain behind, and a fork with one port, which `pop` does not refuse, owns none
of its filters. The trees of `pipe` satisfy it, those of `pipe_pop` do not.

Neither `PortsReferToKeptQueues` nor `OwnsItsFilters` is inductive, since each speaks of one filter or
queue where the calls walk over all that are reachable. `PipeInv` adds:

* `Forest`: no way down the ports returns (`Acyclic`), and no two ports lead to
  the same thing (`OneParent`), so that a walk ends, meets every filter once,
  and a change below one filter leaves the tree below another alone;
* `RootsInv`: nothing leads to the pipe's first filter, to a filter not given to
  it yet, or to a deleted one, so that `append` and `prepend` join two trees and
  make no circle; and the pipe's own `Null_Filter` is there only while it is the
  whole pipe;
* `QueueInv`: queues are numbered without a gap, a port leads to one only in the
  pipe's tree while a message is open or has been begun in vain, and to one that
  is kept; in an open message no port is free;
* `ChainInv`: below a chain there are as many filters, each behind the first
  port of the one before, as the chain owns, so that `pop` never reads a null
  pointer or a queue.

One group of lemmas per call shows these parts preserved. Where `attach` ends
(`LastOf`), that it hangs one tree below another, what `pop` and `reset` delete
and what they leave, and that `find_endpoints` gives every free port a queue of
its own and `clear_endpoints` takes back exactly these are lemmas about trees,
used by several calls.

`PopUndoesPrepend` relates a `pop` to a `prepend` any number of messages
earlier, so `PopsUndoPrepends` needs one more invariant, `UndoInv`: below each
filter not given to the pipe yet, those it owns are a line down the first ports
and nothing is behind it (`LinesInv`), which is where `prepend` hangs the pipe;
and from `prepend` on the new filter has this line, what is behind it is what
was the pipe, and the other filters have the ports they had, but for queues
(`BeforeInv`). A message puts queues in ports or takes them out (`MessageKept`),
and every other call changes the tree below one root only (`ElsewhereKept`,
`RootsApart`). That a constructor leaves a line no longer than what the chain
owns (`ChainLine`) is an argument by counting: the filters of the line are
different and all among those the chain was given. That the constructors leave a forest
is shown for the trees of the first *n* filters made: what filter *n* + 1 is
given are roots among them, and stay so until then.

The walks are functions defined by recursion down the tree, so the prover must
first know that such a function exists. `FiniteRecursion` shows it: a relation
without infinite descent on a finite set admits recursion (`Definable`), whose
solution is the one that `CHOOSE` gives; `Acyclic` makes the ports such a
relation. Its induction principles are stated about sets instead of predicates
(a set of subsets that contains *X* whenever it contains all smaller ones
contains all, `SubsetInduction`; likewise `SetInduction` for numbers), which is
what the prover can instantiate; they follow from the well-foundedness of strict
inclusion.

The second half of `PipeProofs` proves, under the same assumptions and for every tree of
filters (neither `ForksStandAlone` nor `PlainFamilies` is needed):

* `DataIsInTheWay`: `Spec => []StoreInv`
* `InductiveInvariant`: `Spec => []WholePipeInv`, which is `PipeInv`, `StoreInv`
  and, given `PlainFamilies`, `UndoInv`
* `KeepsItsPromise`: `Spec => KeepsPipePromise`, that is, `Spec` implements
  `PipePromise`

All of them are about `Spec`, that is, about programs that reset a pipe, or
begin and end another message, before they change its filters after a
`start_msg` that threw. Of others the ghost `wild` may become true (section 6),
and with it `PipeInv` false.

`PipePromise` has for each message what is *delivered*, the content of its queue,
and what is *owed*, what the filters before the queue still hold. The tree above
a queue is a line, since each filter has one parent, so what is owed is a
recursion up this line (`Held`, `HeldEquation`). `StoreInv` is what ties the
store to the messages: only filters in the way of the open message hold data, and
only queues that are kept have some, so `pop`, `reset` and `retire` take none
away, and a message that is closed is owed nothing.

The argument has two halves. `SendPasses` is about a write: what a filter sends
is added once, at the end, to what is held and delivered at each queue below it,
and nowhere else; this takes `Forest`. An exception that stops `send` between
two ports is a `Fail` of the promise (`WriteThrowsStep`), whose "a beginning of what
is written" needs that there is something to write (`Items # {}`). `FinishKeeps` is
about the end of a message: `finish_msg` moves data and neither adds nor
reorders any. A filter that flushes (`FlushKeeps`) sends on what it holds, which
changes nothing in the order of what the queues below it get; and once it is
empty it stays so, because all filters above it have flushed before it; one that
throws while it flushes is an `EndFails` of the promise, whatever part it has
sent to which ports and whatever part it still holds
(`WalkOrder`, `PreorderOrdered`). A walk that went to the children first would
leave data behind in them, and is the faulty variant that `pipe` finds. After the walk
nothing is held, so all that was owed is delivered. `BeginStep`, `WriteStep`, `FailStep`, `EndMsgStep`, `EndMsgThrowsStep` and
`ReadStep` then map each call of `Pipe` to a step of `PipePromise`, and every other call to
a stutter.

### X509StoreProofs

Proves, for any certificates, subjects, revocation lists and usages, any slack,
cache time-out and clock,

* `CacheIsSound`: `StoreSpec => []StoreIInv`
* `SearchFindsListed`: `StoreSpec => []RevokedIsListed`, where `RevokedIsListed`
  says that, for a certificate that is `Comparable`, `is_revoked` is `Listed`
* `VerdictsAreRight`: `StoreSpec => []VerdictIsRight`

The assumptions are those of `X509Store`: `StoreAssumption` (a name is a
sequence of attributes in the order of their types; identifiers, serial numbers,
times and the values in names are numbers) and `CertificateAssumption` (no serial
number is 0, and every path limit is below `MaxChain`, so that a climb ends).

`VerdictIsRight` compares what the code answers, which depends on verdicts
cached long ago, with a definition that knows no cache. It is not inductive: it
says nothing of what a call leaves behind. `StoreIInv` does: a cached verdict
other than `CERT_IS_REVOKED` is what the check of the signature against the
issuer said; it was not set after now, and if it is `VERIFIED` at a time when
the certificate was valid; while `revoked_info_valid` is set, a certificate that is revoked has a
verdict that says so or a bad signature; and the revocations are in order if
they are pairwise alike (`AllAlike`): all have a key identifier or none has, and
those with one serial number and identifier write their issuers' names in one
way. TLC checked it on the store of `one_thread`.

`SearchFindsListed` and `VerdictsAreRight` promise nothing of a certificate that
is not `Comparable`, that is, not alike to the revocations, or these not to each
other: the search then misses some that are revoked (`revocations`), and reports
some that are not.

Three arguments carry it. About the search: among revocations that are alike
`operator<` is a lexicographic order, of identifiers, then serial numbers, then
names (`BeforeIs`, `BeforeOrders`); that of names is one among names whose
attributes have the same types, each once, since the attribute looked up by type
is then the one in the same place (`DNOrders`, `DNOrderChains`), and equal only
means the same if equal names are written alike. Inserting
keeps it, sorting neither adds nor drops an element, and the halving ends at the
first place that is not before what is searched. `std::sort` inserts up to 16
elements and partitions above; the proofs use of the sort only that it orders
elements that are alike, but `Sorted` is an insertion sort at every length. About
time: certificates are only added, at the end, and `find_cert` takes the first
that fits, so an issuer once found remains the one that is found, and a
verdict reached against it remains one against it. About the path: `validate_cert`
checks what is below the cut anew, and what is above it has a verdict that is
still fresh, so that each certificate of the path was in time and unrevoked
within `validation_cache_timeout`; the path limit ends the climb before
`MaxChain`.

### What stays with TLC

* `MutexIsReleased` and `PollingEnds`: liveness under fairness is out of the
  prover's reach, as is the absence of deadlock, which speaks of `ENABLED`.
* What `BlockModes`, `BigIntegers`, `NumberTheory` and `PublicKeys` compute for
  every message and number. These modules have or use `RECURSIVE` operators, in whose
  presence the prover has no SMT backend, and their theorems would be the
  correctness of ciphers' modes and of arithmetic for every length, by induction
  over data. So `ModeIsStandard`, `RoundTrip`, `ArithmeticIsRight`,
  `NumberTheoryIsRight` and `PartnersAgree` are checked on their instances.

## 5. Findings

* `two_requests`: `botan_version` (`src/php_botan.cc:38`) makes a
  `LibraryInitializer` per call, and `set_global_state` deletes whatever state
  there was. In a threaded PHP two overlapping requests use a deleted
  `Library_State`. `doc/api.tex:190` warns: "you should be careful to only
  create one such object".
* `factory_race`: the cache is locked, but the prototype it returns is used
  after the unlock, and `Algorithm_Cache::add` (`algo_cache.h:150`) deletes it
  when another thread's first request for the same algorithm comes in between.
* `revocations`: the order by which revocations are sorted and searched compares
  issuers' names as they are written (`asn1_dn.cpp:225-226`), equality folds
  case and spaces (`asn1_dn.cpp:191`), so the search misses a revoked
  certificate whose issuer is spelt in another way than in the list, against
  `doc/api.tex:1575-1577`: `add_crl` "will process the CRL and mark the revoked
  certificates".
* `pipe_pop`: a `Chain` counts a `Chain` inside it as one filter, so `pop` of
  the outer one leaves filters in the pipe, against `doc/api.tex:544-546`.

## 6. Observations without a run

Modelling met further behaviour that no document of the repository speaks of
clearly enough for a finding. Where a property excludes the case, the exclusion
is named in parentheses, and TLC finds the property violated without it.

* `Pipe::pop`, `pipe.cpp:269-286`: the loop goes down port 0 only, so popping a
  `Chain` that contains a `Fork` deletes the filters of the first branch and
  loses those of the others. The instance of `pipe` has its fork outside the
  chain.
* `Pipe::append`, `pipe.cpp:227` and `filter.cpp:77`: the test is for
  `inside_msg`, which a `start_msg` that threw has not set although the queues
  are attached. An `append` then reaches a queue as the last of the tree and
  writes its port 0, of which it has none, and a `pop` takes a queue for a
  filter. `doc/api.tex:519-523` lets a program change filters only between
  messages; `Spec` has such programs only (`NotInUse`). Without that TLC finds
  `wild`.
* `Pipe::end_msg`, `filter.cpp:31-38`: if one branch of a `Fork` has got what a
  filter held and another one throws, a filter that resets its position after
  `send` (`hex.cpp:106-109`, `187-188`, `base64.cpp:106-127`, `216-225`) still
  holds it; when the program repeats `end_msg`, the first branch gets it twice.
  `PipePromise` allows for it (`EndFails`).
* `Algorithm_Factory`, `algo_factory.cpp:61-71`: after one request that names
  OpenSSL the cache has nothing else, and a hit ends the search, so OpenSSL
  answers later requests that name no provider. The comment in
  `prov_weight.cpp:18-19` says "prefer anything over OpenSSL or GNU MP; to use
  them, set the provider explicitly". TLC finds it with one thread and the
  instance of `factory_race`.
* `Unix_EntropySource`, `es_unix.cpp:98-104`: a command's output is read to its
  end, whatever the goal, so a command that writes for ever keeps `reseed` from
  returning (named in `PollingEnds`).
* `X509_Store`, `x509stor.cpp:134`: besides what `revocations` shows,
  `operator<` is no order on names of which attributes are of different types,
  which are neither before the other (`asn1_dn.cpp:222-226`), nor on
  revocations of which some have a key identifier and some none, since an empty
  one equals all. The search then may miss a revoked certificate, or report one
  that no list names (`Comparable`).
* XTS, `xts.cpp:323`: stealing doubles the tweak in encryption and a copy of it
  in decryption; the next message without a `set_iv` does not
  decrypt (`chained`, `stole`).
* CTS, `cts.cpp:61`: `end_msg` keeps position and buffer; a second message
  without a `set_iv` starts with them (`chained`).
* `ECB_Decryption`, `ecb.cpp:101`: `state` becomes the buffer, so a later
  `set_iv` of the empty IV throws (`modebase.cpp:41`).
* `BigInt`, `big_ops3.cpp:64`: `operator-` does not set the sign when the
  operands differ in sign only, so (-x) - x is +2x, where `-=` is right;
  `checks/bigint.cpp` expects the two to agree (`Strays`). `/=` (`big_ops2.cpp:139`) and `%`
  by a word (`big_ops3.cpp:140`) that is a power of two ignore signs; `mul_add`
  (`mp_numth.cpp:53`) adds to the magnitude of a negative product (all `Strays`).
* `BigInt`, `big_ops2.cpp:117`: `x *= x` of more than one word writes over the
  operand it reads. Not modelled.
* `gcd(0, x)` is 0 (`numthry.cpp:107`), so `lcm(0, x)` divides by zero
  (`NotDefined`).
* `Power_Mod::set_base` (`pow_mod.cpp:66`) refuses 0 and `mul_add` refuses to add
  0, so RSA and Rabin-Williams throw for the multiples of q, 0 included, and DSA
  for the message 0 (named in `PartnersAgree`).
* `choose_exp_hints` (`pow_mod.cpp:122-133`) returns hints about the base; they
  have no effect on a window, so no result depends on it.
* `passes_mr_tests` (`numthry.cpp:295`) draws a nonce only while the last one is
  out of range: at level 2 every round repeats the first.
* `Montgomery_Exponentiator` leaves `exp_bits` unset until `set_exponent`, and
  both divide by a window of 0 until `set_base`: their users always call both.
  Assigning a `Power_Mod` to itself deletes its core, and assigning from a key's
  core without `op` leaves the old, deleted one (`if_core.cpp:64`). Not modelled.
* `Blinder::blind` changes the pair in a `const` call without a lock, as
  `Power_Mod` does its core: one key is for one thread.
* CTS decryption of less than a block (`cts.cpp:124`) and `PKCS7::unpad` of a
  block that ends in 0 (`mode_pad.cpp:38`) compute a length below zero. What is
  decrypted here was encrypted, so neither is reached.

## 7. Not modelled, and what is left

* Failures of the operating system's lock calls, of `msync`/`munmap`, and
  `MemoryRegion`'s own bookkeeping: the pool's clients are well behaved.
* The alias section of the configuration and the defaults of `policy.cpp`: the
  same map under the same lock. `deref_alias` does not end on a cycle of
  aliases; nothing in the library makes one.
* Nodes of a `SecureQueue`, `peek`, and a filter's write queue, which fills only
  while nothing is attached to it (inside a Pipe something always is).
* A filter that sends some of what it has buffered in a `write` and keeps the
  rest: it is between the two kinds modelled, which send all at once or hold all
  until the end. The digest that a hash filter sends again when its `end_msg` is
  repeated counts as part of what the first one has sent.
* Character sets and the spelling of names, which are values with an order and a
  folding.
* Certificate stores attached to an `X509_Store`, searches by name, a circle of
  CAs without path limits, a serial number 0.
* `set_key` and EAX's header between messages, an IV of a wrong length.
* `AutoSeeded_RNG`'s forwarding and `add_entropy_source`; of the entropy sources
  other than the command runner, what they do besides adding to a poll.
* `BigInt`'s binary and hexadecimal forms and single bits; the hashing in
  `dsa_gen.cpp`, of which X is taken to be any number; the limits on sizes (512
  bits for RSA, FIPS 186-3 for DSA, 64 for a safe prime, 4096 tries), which
  are above the instance. Level 0 of the primality test is one round with
  base 2, exact below 2047 only.
* Encodings and paddings of keys and messages, copies of keys, the
  engines of GNU MP and OpenSSL.
* `BER_Decoder`'s nesting and push-back, and the other formats of bytes.
* Elliptic curves and symmetric primitives: pure computation, covered
  by the test vectors in `checks/`.
* Platform variants (Win32, BeOS, Qt): the same interfaces over other calls.

Worth doing next, in this order: the points of elliptic curves (`math/gfpmath/point_gfp.cpp`)
against the group law; `BER_Decoder` and `DER_Encoder` against each other.

## 8. Running

    tlc -config MCPoolingAllocator.cfg MCPoolingAllocator.tla
    tlapm PoolingAllocatorProofs.tla
    tlapm LibraryLifecycleProofs.tla
    tlapm LibraryConfigProofs.tla
    tlapm AlgorithmFactoryProofs.tla
    tlapm RandomGeneratorsProofs.tla
    tlapm FiniteRecursion.tla
    tlapm PipeProofs.tla
    tlapm X509StoreProofs.tla

`PROJECT.json` names the module and configuration of every run, the source lines
of every definition, and the faulty variant of every property.
