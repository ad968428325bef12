------------------------------ MODULE MemoryMap ------------------------------
(***************************************************************************)
(* The memory controller of v6502/mem.c: the list of mapped ranges, the    *)
(* optional map caches, the backing bytes and the calls that use them.     *)
(* A uint16_t is an integer modulo AddressCount (0x10000 in the code).     *)
(* The loop of v6502_map that fills the caches and the loop that loads an  *)
(* expansion ROM are one step per iteration: the first need not end.       *)
(* A failed assertion stops the process, and so does, in the model, an     *)
(* array index past memory->size, whose effect C leaves undefined.         *)
(***************************************************************************)
EXTENDS Integers, Sequences

CONSTANTS
  AddressCount,  \* the number of addresses a uint16_t tells apart
  MemorySize,    \* memory->size, the argument of v6502_createMemory
  ExpansionRom,  \* v6502_memoryStartExpansionRom
  RomSizes,      \* the sizes of the expansion ROMs a host loads
  Device,        \* the (read, write, context) triples a host maps
  Request,       \* the (start, size) pairs a host asks v6502_map for
  Value,         \* the values of a byte
  Zero,          \* the byte calloc leaves
  NULL,          \* the null pointer
  MaxRanges      \* bound on the number of mapped ranges

Address == 0 .. AddressCount - 1
Backed  == 0 .. MemorySize - 1

Handler == {d.read : d \in Device} \cup {d.write : d \in Device}
Context == {d.context : d \in Device}

\* A v6502_mappedRange
RangeOf(q, d) == [start |-> q.start, size |-> q.size,
                  read |-> d.read, write |-> d.write, context |-> d.context]
MappedRange == {RangeOf(q, d) : q \in Request, d \in Device}

ASSUME MemoryAssumption ==
  /\ AddressCount \in Nat \ {0}
  /\ MemorySize \in 0 .. AddressCount
  /\ ExpansionRom \in Address
  /\ RomSizes \subseteq Address
  /\ \A d \in Device : d = [read |-> d.read, write |-> d.write, context |-> d.context]
  /\ Request \subseteq [start : Address, size : Nat]
  /\ Zero \in Value
  /\ MaxRanges \in Nat
  \* no device, no range and no table calloc returns is at the null pointer
  /\ NULL \notin Device
  /\ NULL \notin MappedRange
  /\ NULL \notin [Backed -> Handler \cup {NULL}]
  /\ NULL \notin [Backed -> Context \cup {NULL}]

VARIABLES
  mappedRanges,     \* memory->mappedRanges, rangeCount long
  mapCacheEnabled,  \* memory->mapCacheEnabled, a field the host assigns
  readCache,        \* memory->readCache: NULL until it is needed
  writeCache,       \* memory->writeCache
  contextCache,     \* memory->contextCache
  bytes,            \* memory->bytes
  call,             \* the loop in progress, or Idle
  result,           \* what the last completed call returned or invoked
  status            \* running, aborted (assert) or undefined (past an array)

caches == <<readCache, writeCache, contextCache>>
vars == <<mappedRanges, mapCacheEnabled, caches, bytes, call, result, status>>

-----------------------------------------------------------------------------
(* Results and loops in progress *)

Idle         == [op |-> "idle"]
Blitting(i)  == [op |-> "blit", i |-> i]
Loading(i,n) == [op |-> "load", i |-> i, size |-> n]

Nothing        == [kind |-> "nothing"]
Returned(ok)   == [kind |-> "returned", ok |-> ok]
Callback(f, c) == [kind |-> "callback", fn |-> f, context |-> c]
Byte(v)        == [kind |-> "byte", value |-> v]
Stored         == [kind |-> "stored"]

(* What an access finds when no callback answers it *)
Backing   == [kind |-> "backing"]
Abort     == [kind |-> "abort"]
Undefined == [kind |-> "undefined"]

Cache(T) == [Backed -> T \cup {NULL}] \cup {NULL}

TypeOK ==
  /\ mappedRanges \in Seq(MappedRange)
  /\ mapCacheEnabled \in BOOLEAN
  /\ readCache \in Cache(Handler)
  /\ writeCache \in Cache(Handler)
  /\ contextCache \in Cache(Context)
  /\ bytes \in [Backed -> Value]
  /\ \/ call = Idle
     \/ mappedRanges # <<>> /\ call \in {Blitting(i) : i \in Address}
     \/ call \in {Loading(i, n) : i \in Address, n \in RomSizes}
  /\ result \in {Nothing, Stored} \cup {Returned(b) : b \in BOOLEAN}
                \cup {Callback(f, c) : f \in Handler \ {NULL}, c \in Context \cup {NULL}}
                \cup {Byte(v) : v \in Value}
  /\ status \in {"running", "aborted", "undefined"}

-----------------------------------------------------------------------------
(* Ranges *)

Wrap(n) == n % AddressCount
Top(r)  == r.start + r.size
Covers(r, a) == r.start <= a /\ a < Top(r)

\* The first range of the list that covers the offset
FirstRange(ranges, a) ==
  CHOOSE k \in DOMAIN ranges :
    /\ Covers(ranges[k], a)
    /\ \A j \in 1 .. k - 1 : ~ Covers(ranges[j], a)

mappedRangeForOffset(ranges, a) ==
  IF \E k \in DOMAIN ranges : Covers(ranges[k], a)
  THEN ranges[FirstRange(ranges, a)] ELSE NULL

\* Mutant: the containment test is lost
NoContainment(start1, size1, start2, size2) ==
  LET end1 == Wrap(start1 + size1)
      end2 == Wrap(start2 + size2)
  IN  \/ start2 <= start1 /\ start1 < end2
      \/ start2 <= end1 /\ end1 < end2

\* All four arguments and both ends are uint16_t
memoryRangesIntersect(start1, size1, start2, size2) ==
  LET end1 == Wrap(start1 + size1)
      end2 == Wrap(start2 + size2)
  IN  \/ start2 <= start1 /\ start1 < end2
      \/ start2 <= end1 /\ end1 < end2
      \/ start1 <= start2 /\ end2 <= end1

-----------------------------------------------------------------------------
(* Mapping *)

Init ==
  /\ mappedRanges = <<>>
  /\ mapCacheEnabled = FALSE
  /\ readCache = NULL /\ writeCache = NULL /\ contextCache = NULL
  /\ bytes = [a \in Backed |-> Zero]
  /\ call = Idle
  /\ result = Nothing
  /\ status = "running"

Ready == status = "running" /\ call = Idle

\* The host turns the cache on, as early as possible: before the first mapping.
\* Toggling it later is documented as not supported (docs/NOTES.dox).
EnableMapCache ==
  /\ Ready /\ mappedRanges = <<>>
  /\ mapCacheEnabled' = TRUE
  /\ UNCHANGED <<mappedRanges, caches, bytes, call, result, status>>

BeyondEnd(q) == q.start + q.size > AddressCount

Refused(q) ==
  \/ BeyondEnd(q)
  \/ \E k \in DOMAIN mappedRanges :
       memoryRangesIntersect(q.start, q.size, mappedRanges[k].start, mappedRanges[k].size)

RefuseMap(q, d) ==
  /\ Ready /\ Refused(q)
  /\ result' = Returned(FALSE)
  /\ UNCHANGED <<mappedRanges, mapCacheEnabled, caches, bytes, call, status>>

\* Mutant: the cache is allocated anew for every range that needs it
AllocatedAnew(cache, entry) ==
  IF entry # NULL THEN [a \in Backed |-> NULL] ELSE cache

\* A cache comes into being when the first handler it must hold is mapped
Allocated(cache, entry) ==
  IF entry # NULL /\ cache = NULL THEN [a \in Backed |-> NULL] ELSE cache

AcceptMap(q, d) ==
  /\ Ready /\ ~ Refused(q)
  /\ Len(mappedRanges) < MaxRanges
  /\ mappedRanges' = Append(mappedRanges, RangeOf(q, d))
  /\ IF mapCacheEnabled
     THEN /\ readCache' = Allocated(readCache, d.read)
          /\ writeCache' = Allocated(writeCache, d.write)
          /\ contextCache' = Allocated(contextCache, d.context)
          /\ call' = Blitting(q.start)
          /\ UNCHANGED result
     ELSE result' = Returned(TRUE) /\ UNCHANGED <<caches, call>>
  /\ UNCHANGED <<mapCacheEnabled, bytes, status>>

Newest == mappedRanges[Len(mappedRanges)]

\* i is a uint16_t and start + size a size_t: at the ceiling the bound is never reached
MoreToBlit == call.i < Top(Newest)

Entries == {Newest.read, Newest.write, Newest.context} \ {NULL}

Blitted(cache, entry) ==
  IF entry = NULL THEN cache ELSE [cache EXCEPT ![call.i] = entry]

BlitOne ==
  /\ status = "running" /\ call.op = "blit" /\ MoreToBlit
  /\ Entries = {} \/ call.i \in Backed
  /\ readCache' = Blitted(readCache, Newest.read)
  /\ writeCache' = Blitted(writeCache, Newest.write)
  /\ contextCache' = Blitted(contextCache, Newest.context)
  /\ call' = Blitting(Wrap(call.i + 1))
  /\ UNCHANGED <<mappedRanges, mapCacheEnabled, bytes, result, status>>

\* The caches are memory->size entries long, the range need not be within them
BlitPastCache ==
  /\ status = "running" /\ call.op = "blit" /\ MoreToBlit
  /\ Entries # {} /\ call.i \notin Backed
  /\ status' = "undefined"
  /\ UNCHANGED <<mappedRanges, mapCacheEnabled, caches, bytes, call, result>>

BlitDone ==
  /\ status = "running" /\ call.op = "blit" /\ ~ MoreToBlit
  /\ call' = Idle
  /\ result' = Returned(TRUE)
  /\ UNCHANGED <<mappedRanges, mapCacheEnabled, caches, bytes, status>>

Blit == BlitOne \/ BlitPastCache \/ BlitDone

-----------------------------------------------------------------------------
(* Access *)

ContextAt(a) == IF contextCache = NULL THEN NULL ELSE contextCache[a]

\* Mutant: an entry of the cache is called without a look at whether there is one
EntryCalled(cache, a) ==
  IF a \notin Backed THEN Undefined
  ELSE IF cache # NULL THEN Callback(cache[a], ContextAt(a))
  ELSE Backing

\* What answers an access when the caches are on: no bound is checked
CachedTarget(cache, a) ==
  IF a \notin Backed THEN Undefined
  ELSE IF cache # NULL /\ cache[a] # NULL THEN Callback(cache[a], ContextAt(a))
  ELSE Backing

\* What answers it when they are off: the search of the list, then the assertion
HardTarget(a, access) ==
  LET range == mappedRangeForOffset(mappedRanges, a)
  IN  IF range # NULL /\ range[access] # NULL
      THEN Callback(range[access], range.context)
      ELSE IF a \in Backed THEN Backing ELSE Abort

ReadTarget(a) ==
  IF mapCacheEnabled THEN CachedTarget(readCache, a) ELSE HardTarget(a, "read")

WriteTarget(a) ==
  IF mapCacheEnabled THEN CachedTarget(writeCache, a) ELSE HardTarget(a, "write")

\* An access nothing answers: the assertion fails, or the array is left
Stop(target) ==
  \/ target = Abort /\ status' = "aborted"
  \/ target = Undefined /\ status' = "undefined"

Read(a) ==
  /\ Ready
  /\ LET target == ReadTarget(a) IN
     \/ target.kind = "callback" /\ result' = target /\ UNCHANGED status
     \/ target = Backing /\ result' = Byte(bytes[a]) /\ UNCHANGED status
     \/ Stop(target) /\ UNCHANGED result
  /\ UNCHANGED <<mappedRanges, mapCacheEnabled, caches, bytes, call>>

Store(a, v) ==
  LET target == WriteTarget(a) IN
  \/ target.kind = "callback" /\ result' = target /\ UNCHANGED <<bytes, status>>
  \/ /\ target = Backing
     /\ bytes' = [bytes EXCEPT ![a] = v]
     /\ result' = Stored
     /\ UNCHANGED status
  \/ Stop(target) /\ UNCHANGED <<bytes, result>>

Write(a, v) ==
  /\ Ready
  /\ Store(a, v)
  /\ UNCHANGED <<mappedRanges, mapCacheEnabled, caches, call>>

\* v6502_loadExpansionRomIntoMemory: size writes, the offset again a uint16_t
BeginRom(n) ==
  /\ Ready
  /\ call' = Loading(0, n)
  /\ UNCHANGED <<mappedRanges, mapCacheEnabled, caches, bytes, result, status>>

\* Mutant: a counter too narrow for the size of the ROM
NarrowLoadByte(v) ==
  /\ status = "running" /\ call.op = "load" /\ call.i < call.size
  /\ Store(Wrap(ExpansionRom + call.i), v)
  /\ call' = [call EXCEPT !.i = (@ + 1) % (AddressCount \div 2)]
  /\ UNCHANGED <<mappedRanges, mapCacheEnabled, caches>>

LoadByte(v) ==
  /\ status = "running" /\ call.op = "load" /\ call.i < call.size
  /\ Store(Wrap(ExpansionRom + call.i), v)
  /\ call' = [call EXCEPT !.i = @ + 1]
  /\ UNCHANGED <<mappedRanges, mapCacheEnabled, caches>>

RomLoaded ==
  /\ status = "running" /\ call.op = "load" /\ call.i = call.size
  /\ call' = Idle
  /\ UNCHANGED <<mappedRanges, mapCacheEnabled, caches, bytes, result, status>>

-----------------------------------------------------------------------------

Map(q, d) == RefuseMap(q, d) \/ AcceptMap(q, d)

Next ==
  \/ EnableMapCache
  \/ \E q \in Request, d \in Device : Map(q, d)
  \/ Blit
  \/ \E a \in Address : Read(a)
  \/ \E a \in Address, v \in Value : Write(a, v)
  \/ \E n \in RomSizes : BeginRom(n)
  \/ \E v \in Value : LoadByte(v)
  \/ RomLoaded

Spec == Init /\ [][Next]_vars

\* A call runs on to its return: nothing else is scheduled on the one thread
FairSpec == Spec /\ WF_vars(Blit \/ RomLoaded \/ \E v \in Value : LoadByte(v))

-----------------------------------------------------------------------------
(* Properties *)

Overlap(r, s) == \E a \in Address : Covers(r, a) /\ Covers(s, a)
AtCeiling(r)  == Top(r) = AddressCount

Disjoint == \A j, k \in DOMAIN mappedRanges :
              j # k => ~ Overlap(mappedRanges[j], mappedRanges[k])

\* Two mapped ranges share an address only if one of them runs up to the end
\* of the address space: the three comparisons of v6502_memoryRangesIntersect
\* on wrapped 16-bit ends miss no other overlap.
OverlapOnlyAtCeiling ==
  \A j, k \in DOMAIN mappedRanges :
    j # k /\ Overlap(mappedRanges[j], mappedRanges[k])
      => AtCeiling(mappedRanges[j]) \/ AtCeiling(mappedRanges[k])

\* "a given range can only ever be mapped once" (v6502/mem.c:36): no address
\* belongs to two mapped ranges.
MappedOnce == Disjoint

\* With the caches on and no call in progress, every backed address resolves to
\* the callback, the context or the byte that the search of the range list would
\* have found: the caches change the speed of an access and nothing else. (Where
\* ranges overlap the list gives the oldest and the caches the newest.)
CachesAgreeWithRanges ==
  Ready /\ mapCacheEnabled /\ Disjoint =>
    \A a \in Backed :
      /\ CachedTarget(readCache, a) = HardTarget(a, "read")
      /\ CachedTarget(writeCache, a) = HardTarget(a, "write")

\* Every call returns (or stops the process): v6502_map is documented to return
\* YES or NO (v6502/mem.h:155). It does if the range ends below the ceiling.
CallsReturn == (call # Idle) ~> (call = Idle \/ status # "running")

\* Until a call returns, every iteration of its loop brings the counter nearer to its bound,
\* unless the range ends at the ceiling, which a uint16_t does not reach (mem.c 119-129,
\* 190-192).
CallsAdvance ==
  [][call # Idle /\ call' # Idle /\ status' = "running"
       /\ ~ (call.op = "blit" /\ AtCeiling(Newest)) =>
       /\ call'.op = call.op
       /\ call'.i > call.i
       /\ call'.i <= IF call.op = "blit" THEN Top(Newest) ELSE call.size]_vars

\* The ranges whose v6502_map call has returned
Claimed == IF call.op = "blit" THEN SubSeq(mappedRanges, 1, Len(mappedRanges) - 1)
           ELSE mappedRanges

OwnerOf(a) ==
  LET range == mappedRangeForOffset(Claimed, a)
  IN  IF range = NULL THEN NULL
      ELSE [read |-> range.read, write |-> range.write, context |-> range.context]

Space == INSTANCE AddressSpace WITH
  Called  <- Callback,
  owner   <- [a \in Address |-> OwnerOf(a)],
  stopped <- status # "running"

\* With the caches on or off, the controller is an address space in which each
\* address has at most one owner, for good, and an access reaches that owner.
\* (Below the ceiling: a range that ends there can take addresses from another.)
ImplementsAddressSpace == Space!Spec

=============================================================================
