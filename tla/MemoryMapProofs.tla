-------------------------- MODULE MemoryMapProofs --------------------------
(***************************************************************************)
(* Proofs about MemoryMap, for every number of addresses, every memory     *)
(* size and every set of devices and requests.                             *)
(***************************************************************************)
EXTENDS MemoryMap, SequenceTheorems, WellFoundedInduction, TLAPS

-----------------------------------------------------------------------------
(* Arithmetic of uint16_t *)

\* A number that fits is its own remainder
LEMMA WrapFits ==
  ASSUME NEW n \in Address
  PROVE  Wrap(n) = n
  BY MemoryAssumption DEF Address, Wrap

\* A remainder is an address
LEMMA WrapIsAddress ==
  ASSUME NEW n \in Nat
  PROVE  Wrap(n) \in Address
  BY MemoryAssumption DEF Address, Wrap

-----------------------------------------------------------------------------
(* The search of the range list *)

\* If some range covers the offset, v6502_mappedRangeForOffset finds one that does
LEMMA FirstRangeCovers ==
  ASSUME NEW S, NEW ranges \in Seq(S), NEW a,
         \E k \in DOMAIN ranges : Covers(ranges[k], a)
  PROVE  /\ FirstRange(ranges, a) \in DOMAIN ranges
         /\ Covers(ranges[FirstRange(ranges, a)], a)
<1> DEFINE Hits == {k \in DOMAIN ranges : Covers(ranges[k], a)}
<1>1. Len(ranges) \in Nat /\ DOMAIN ranges = 1 .. Len(ranges)
  BY LenProperties
<1>2. Hits \subseteq Nat /\ Hits # {}
  BY <1>1
<1>3. PICK k \in Hits : \A j \in Hits : ~ (<<j, k>> \in OpToRel(<, Nat))
  <2> HIDE DEF Hits
  <2> QED BY <1>2, NatLessThanWellFounded, WFMin
<1>4. ASSUME NEW j \in 1 .. k - 1, j \in Hits PROVE FALSE
  <2>1. j \in Nat /\ k \in Nat /\ j < k
    BY <1>1, <1>2, <1>4
  <2>2. <<j, k>> \in OpToRel(<, Nat)
    BY <2>1 DEF OpToRel
  <2> QED BY <1>3, <1>4, <2>2
<1>5. /\ k \in DOMAIN ranges
      /\ Covers(ranges[k], a)
      /\ \A j \in 1 .. k - 1 : ~ Covers(ranges[j], a)
  BY <1>1, <1>4
<1> QED BY <1>5 DEF FirstRange

\* Two ranges that both end below the ceiling and share an address are seen to
\* intersect, whichever of them is the new one
LEMMA IntersectionIsSeen ==
  ASSUME NEW q, NEW r,
         q.start \in Address, q.size \in Nat, Top(q) \in Address,
         r.start \in Address, r.size \in Nat, Top(r) \in Address,
         Overlap(q, r)
  PROVE  memoryRangesIntersect(q.start, q.size, r.start, r.size)
<1>1. Wrap(q.start + q.size) = Top(q) /\ Wrap(r.start + r.size) = Top(r)
  BY WrapFits DEF Top
<1>2. PICK a \in Address : Covers(q, a) /\ Covers(r, a)
  BY DEF Overlap
<1>3. q.start < Top(r) /\ r.start < Top(q)
  BY <1>2, MemoryAssumption DEF Covers, Address
<1> QED BY <1>1, <1>3, MemoryAssumption DEF memoryRangesIntersect, Address

-----------------------------------------------------------------------------
(* Type correctness. A cache is only indexed where it has been allocated, so  *)
(* the types are not inductive without that fact.                             *)

Filled(T) == [Backed -> T \cup {NULL}]

\* While a range is blitted, each cache it has an entry for exists
CachesAllocated ==
  call.op = "blit" =>
    /\ Newest.read # NULL => readCache \in Filled(Handler)
    /\ Newest.write # NULL => writeCache \in Filled(Handler)
    /\ Newest.context # NULL => contextCache \in Filled(Context)

TypeInv == TypeOK /\ CachesAllocated

\* The members of a mapped range have their types
LEMMA RangeTypes ==
  ASSUME NEW r \in MappedRange
  PROVE  /\ r = [start |-> r.start, size |-> r.size, read |-> r.read,
                 write |-> r.write, context |-> r.context]
         /\ r.start \in Address /\ r.size \in Nat
         /\ [start |-> r.start, size |-> r.size] \in Request
         /\ r.read \in Handler /\ r.write \in Handler /\ r.context \in Context
<1>1. PICK q \in Request, d \in Device : r = RangeOf(q, d)
  BY DEF MappedRange
<1>2. q \in [start : Address, size : Nat]
  BY MemoryAssumption
<1>3. d.read \in Handler /\ d.write \in Handler /\ d.context \in Context
  BY DEF Handler, Context
<1> QED BY <1>1, <1>2, <1>3 DEF RangeOf

\* What v6502_mappedRangeForOffset returns is a mapped range or NULL
LEMMA FoundRangeType ==
  ASSUME TypeOK, NEW a
  PROVE  mappedRangeForOffset(mappedRanges, a) \in MappedRange \cup {NULL}
<1>1. CASE \E k \in DOMAIN mappedRanges : Covers(mappedRanges[k], a)
  <2>1. FirstRange(mappedRanges, a) \in DOMAIN mappedRanges
    BY <1>1, FirstRangeCovers DEF TypeOK
  <2>2. mappedRanges[FirstRange(mappedRanges, a)] \in MappedRange
    BY <2>1, ElementOfSeq, LenProperties DEF TypeOK
  <2> QED BY <1>1, <2>2 DEF mappedRangeForOffset
<1>2. CASE ~ \E k \in DOMAIN mappedRanges : Covers(mappedRanges[k], a)
  BY <1>2 DEF mappedRangeForOffset
<1> QED BY <1>1, <1>2

\* The newest range is a mapped range
LEMMA NewestType ==
  ASSUME TypeOK, mappedRanges # <<>>
  PROVE  Newest \in MappedRange
<1>1. Len(mappedRanges) \in 1 .. Len(mappedRanges)
  BY EmptySeq, LenProperties DEF TypeOK
<1> QED BY <1>1, ElementOfSeq DEF TypeOK, Newest

Callbacks == {Callback(f, c) : f \in Handler \ {NULL}, c \in Context \cup {NULL}}
Targets == Callbacks \cup {Backing, Abort, Undefined}

\* Whatever the caches hold, an access resolves to one of their handlers or to a
\* byte that exists, or stops the process
LEMMA TargetTypes ==
  ASSUME TypeOK, NEW a \in Address
  PROVE  /\ ReadTarget(a) \in Targets /\ WriteTarget(a) \in Targets
         /\ ReadTarget(a) = Backing \/ WriteTarget(a) = Backing => a \in Backed
<1>1. ASSUME NEW cache \in Cache(Handler)
      PROVE  /\ CachedTarget(cache, a) \in Targets
             /\ CachedTarget(cache, a) = Backing => a \in Backed
  <2>1. ASSUME a \in Backed PROVE ContextAt(a) \in Context \cup {NULL}
    BY <2>1 DEF ContextAt, TypeOK, Cache
  <2>2. ASSUME a \in Backed, cache # NULL, cache[a] # NULL PROVE cache[a] \in Handler
    BY <1>1, <2>2 DEF Cache
  <2> QED BY <2>1, <2>2 DEF CachedTarget, Targets, Callbacks, Backing, Undefined
<1>2. ASSUME NEW access \in {"read", "write"}
      PROVE  /\ HardTarget(a, access) \in Targets
             /\ HardTarget(a, access) = Backing => a \in Backed
  <2> DEFINE range == mappedRangeForOffset(mappedRanges, a)
  <2>1. range \in MappedRange \cup {NULL}
    BY FoundRangeType
  <2>2. ASSUME range # NULL PROVE range[access] \in Handler /\ range.context \in Context
    BY <1>2, <2>1, <2>2, RangeTypes
  <2> HIDE DEF range
  <2>3. HardTarget(a, access) =
          IF range # NULL /\ range[access] # NULL
          THEN Callback(range[access], range.context)
          ELSE IF a \in Backed THEN Backing ELSE Abort
    BY DEF HardTarget, range
  <2> QED BY <2>2, <2>3 DEF Targets, Callbacks, Callback, Backing, Abort
<1> QED BY <1>1, <1>2 DEF ReadTarget, WriteTarget, TypeOK

LEMMA AllocatedType ==
  ASSUME NEW T, NEW cache \in Cache(T), NEW entry
  PROVE  /\ Allocated(cache, entry) \in Cache(T)
         /\ entry # NULL /\ cache # NULL => Allocated(cache, entry) \in Filled(T)
         /\ entry # NULL /\ cache = NULL => Allocated(cache, entry) \in Filled(T)
  BY DEF Allocated, Cache, Filled

LEMMA BlittedType ==
  ASSUME NEW T, NEW cache \in Cache(T), NEW entry \in T,
         entry # NULL => cache \in Filled(T)
  PROVE  /\ Blitted(cache, entry) \in Cache(T)
         /\ entry # NULL => Blitted(cache, entry) \in Filled(T)
  BY DEF Blitted, Cache, Filled

Results == {Nothing, Stored} \cup {Returned(b) : b \in BOOLEAN}
             \cup {Callback(f, c) : f \in Handler \ {NULL}, c \in Context \cup {NULL}}
             \cup {Byte(v) : v \in Value}

LEMMA ReturnedIsResult ==
  /\ Returned(TRUE) \in Results
  /\ Returned(FALSE) \in Results
<1>1. {Returned(b) : b \in BOOLEAN} \subseteq Results
  BY DEF Results
<1>2. Returned(TRUE) \in {Returned(b) : b \in BOOLEAN}
      /\ Returned(FALSE) \in {Returned(b) : b \in BOOLEAN}
  BY Zenon
<1> QED BY <1>1, <1>2, Zenon

\* A step that only returns, or only ends its loop, keeps the types
LEMMA ReturnKeepsTypes ==
  ASSUME TypeInv, result' \in Results, call' \in {call, Idle},
         UNCHANGED <<mappedRanges, mapCacheEnabled, caches, bytes, status>>
  PROVE  TypeInv'
<1>1. CachesAllocated'
  BY DEF TypeInv, CachesAllocated, caches, Newest, Idle
<1>2. \/ call' = Idle
      \/ mappedRanges' # <<>> /\ call' \in {Blitting(i) : i \in Address}
      \/ call' \in {Loading(i, n) : i \in Address, n \in RomSizes}
  BY SMT DEF TypeInv, TypeOK, caches
<1> QED BY <1>1, <1>2 DEF TypeInv, TypeOK, Results, caches

\* A store keeps the bytes and the result within their types
LEMMA StoreTypes ==
  ASSUME TypeOK, NEW a \in Address, NEW v \in Value, Store(a, v)
  PROVE  /\ bytes' \in [Backed -> Value]
         /\ result' \in Results
         /\ status' \in {"running", "aborted", "undefined"}
<1> DEFINE target == WriteTarget(a)
<1>1. target \in Targets /\ (target = Backing => a \in Backed)
  BY TargetTypes
<1>2. bytes \in [Backed -> Value] /\ result \in Results
      /\ status \in {"running", "aborted", "undefined"}
  BY DEF TypeOK, Results
<1>3. \/ target.kind = "callback" /\ result' = target /\ UNCHANGED <<bytes, status>>
      \/ /\ target = Backing /\ bytes' = [bytes EXCEPT ![a] = v]
         /\ result' = Stored /\ UNCHANGED status
      \/ Stop(target) /\ UNCHANGED <<bytes, result>>
  BY DEF Store
<1> HIDE DEF target
<1>4. CASE target.kind = "callback" /\ result' = target /\ UNCHANGED <<bytes, status>>
  <2>1. target \in Callbacks
    BY <1>1, <1>4 DEF Targets, Backing, Abort, Undefined
  <2> QED BY <1>2, <1>4, <2>1 DEF Callbacks, Results
<1>5. CASE /\ target = Backing /\ bytes' = [bytes EXCEPT ![a] = v]
           /\ result' = Stored /\ UNCHANGED status
  BY <1>1, <1>2, <1>5 DEF Results
<1>6. CASE Stop(target) /\ UNCHANGED <<bytes, result>>
  BY <1>2, <1>6 DEF Stop
<1> QED BY <1>3, <1>4, <1>5, <1>6

LEMMA TypeInit ==
  ASSUME Init PROVE TypeInv
<1>1. <<>> \in Seq(MappedRange)
  BY EmptySeq
<1>2. [a \in Backed |-> Zero] \in [Backed -> Value]
  BY MemoryAssumption
<1>3. NULL \in Cache(Handler) /\ NULL \in Cache(Context)
  BY DEF Cache
<1>4. CachesAllocated
  BY DEF Init, CachesAllocated, Idle
<1>5. mapCacheEnabled \in BOOLEAN
  BY Zenon DEF Init
<1>6. result \in Results
  BY DEF Init, Results
<1>7. /\ mappedRanges = <<>> /\ call = Idle /\ status = "running"
      /\ readCache = NULL /\ writeCache = NULL /\ contextCache = NULL
      /\ bytes = [a \in Backed |-> Zero]
  BY Zenon DEF Init
<1> QED BY <1>1, <1>2, <1>3, <1>4, <1>5, <1>6, <1>7 DEF TypeInv, TypeOK, Results

LEMMA TypeStep ==
  ASSUME TypeInv, [Next]_vars
  PROVE  TypeInv'
<1> USE DEF TypeInv
<1>1. CASE EnableMapCache
  BY <1>1 DEF EnableMapCache, TypeOK, CachesAllocated, caches, Newest
<1>2. ASSUME NEW q \in Request, NEW d \in Device, RefuseMap(q, d) PROVE TypeInv'
  <2>1. result' \in Results
    BY <1>2, ReturnedIsResult, Zenon DEF RefuseMap
  <2>2. UNCHANGED <<mappedRanges, mapCacheEnabled, caches, bytes, call, status>>
    BY <1>2, Zenon DEF RefuseMap
  <2> QED BY <2>1, <2>2, ReturnKeepsTypes
<1>3. ASSUME NEW q \in Request, NEW d \in Device, AcceptMap(q, d) PROVE TypeInv'
  <2>1. RangeOf(q, d) \in MappedRange
    BY DEF MappedRange
  <2>2. d.read \in Handler /\ d.write \in Handler /\ d.context \in Context
    BY DEF Handler, Context
  <2>3. /\ mappedRanges' \in Seq(MappedRange) /\ mappedRanges' # <<>>
        /\ Newest' = RangeOf(q, d)
    <3>1. mappedRanges' = Append(mappedRanges, RangeOf(q, d)) /\ mappedRanges \in Seq(MappedRange)
      BY <1>3 DEF AcceptMap, TypeOK
    <3> QED BY <2>1, <3>1, AppendProperties, LenProperties DEF Newest
  <2>4. CASE mapCacheEnabled
    <3>1. /\ readCache' = Allocated(readCache, d.read)
          /\ writeCache' = Allocated(writeCache, d.write)
          /\ contextCache' = Allocated(contextCache, d.context)
          /\ call' = Blitting(q.start)
          /\ UNCHANGED <<result, mapCacheEnabled, bytes, status>>
      BY <1>3, <2>4 DEF AcceptMap
    <3>2. /\ readCache \in Cache(Handler) /\ writeCache \in Cache(Handler)
          /\ contextCache \in Cache(Context)
      BY DEF TypeOK
    <3>3. /\ readCache' \in Cache(Handler)
          /\ d.read # NULL => readCache' \in Filled(Handler)
      BY <3>1, <3>2, AllocatedType
    <3>4. /\ writeCache' \in Cache(Handler)
          /\ d.write # NULL => writeCache' \in Filled(Handler)
      BY <3>1, <3>2, AllocatedType
    <3>5. /\ contextCache' \in Cache(Context)
          /\ d.context # NULL => contextCache' \in Filled(Context)
      BY <3>1, <3>2, AllocatedType
    <3>6. q.start \in Address
      BY MemoryAssumption
    <3>7. TypeOK'
      BY <2>3, <3>1, <3>3, <3>4, <3>5, <3>6 DEF TypeOK
    <3>8. CachesAllocated'
      BY <2>3, <3>3, <3>4, <3>5 DEF CachesAllocated, RangeOf
    <3> QED BY <3>7, <3>8
  <2>5. CASE ~ mapCacheEnabled
    <3>1. UNCHANGED <<caches, call, mapCacheEnabled, bytes, status>> /\ call = Idle
      BY <1>3, <2>5 DEF AcceptMap, Ready
    <3>2. result' \in Results
      BY <1>3, <2>5, ReturnedIsResult, Zenon DEF AcceptMap
    <3>3. CachesAllocated'
      BY <3>1 DEF CachesAllocated, Idle
    <3> QED BY <2>3, <3>1, <3>2, <3>3 DEF TypeOK, caches, Results
  <2> QED BY <2>4, <2>5
<1>4. CASE BlitOne
  <2>1. /\ UNCHANGED <<mappedRanges, mapCacheEnabled, bytes, result, status>>
        /\ readCache' = Blitted(readCache, Newest.read)
        /\ writeCache' = Blitted(writeCache, Newest.write)
        /\ contextCache' = Blitted(contextCache, Newest.context)
        /\ call' = Blitting(Wrap(call.i + 1))
        /\ call.op = "blit"
    BY <1>4 DEF BlitOne
  <2>2. mappedRanges # <<>> /\ call.i \in Address
    BY <2>1 DEF TypeOK, Blitting, Idle, Loading
  <2>3. /\ Newest.read \in Handler /\ Newest.write \in Handler
        /\ Newest.context \in Context
    BY <2>2, NewestType, RangeTypes
  <2>4. Newest' = Newest
    BY <2>1 DEF Newest
  <2>5. /\ readCache \in Cache(Handler) /\ writeCache \in Cache(Handler)
        /\ contextCache \in Cache(Context)
    BY DEF TypeOK
  <2>6. /\ readCache' \in Cache(Handler)
        /\ Newest.read # NULL => readCache' \in Filled(Handler)
    BY <2>1, <2>3, <2>5, BlittedType DEF CachesAllocated
  <2>7. /\ writeCache' \in Cache(Handler)
        /\ Newest.write # NULL => writeCache' \in Filled(Handler)
    BY <2>1, <2>3, <2>5, BlittedType DEF CachesAllocated
  <2>8. /\ contextCache' \in Cache(Context)
        /\ Newest.context # NULL => contextCache' \in Filled(Context)
    BY <2>1, <2>3, <2>5, BlittedType DEF CachesAllocated
  <2>9. Wrap(call.i + 1) \in Address
    BY <2>2, WrapIsAddress, MemoryAssumption DEF Address
  <2>10. TypeOK'
    BY <2>1, <2>2, <2>6, <2>7, <2>8, <2>9 DEF TypeOK
  <2>11. CachesAllocated'
    BY <2>4, <2>6, <2>7, <2>8 DEF CachesAllocated
  <2> QED BY <2>10, <2>11
<1>5. CASE BlitPastCache
  BY <1>5 DEF BlitPastCache, TypeOK, CachesAllocated, caches, Newest
<1>6. CASE BlitDone
  <2>1. result' \in Results /\ call' = Idle
    BY <1>6, ReturnedIsResult, Zenon DEF BlitDone
  <2>2. UNCHANGED <<mappedRanges, mapCacheEnabled, caches, bytes, status>>
    BY <1>6, Zenon DEF BlitDone
  <2> QED BY <2>1, <2>2, ReturnKeepsTypes
<1>7. ASSUME NEW a \in Address, Read(a) PROVE TypeInv'
  <2>1. /\ UNCHANGED <<mappedRanges, mapCacheEnabled, caches, bytes, call>>
        /\ \/ ReadTarget(a).kind = "callback" /\ result' = ReadTarget(a) /\ UNCHANGED status
           \/ ReadTarget(a) = Backing /\ result' = Byte(bytes[a]) /\ UNCHANGED status
           \/ Stop(ReadTarget(a)) /\ UNCHANGED result
    BY <1>7 DEF Read
  <2>2. ReadTarget(a) \in Targets /\ (ReadTarget(a) = Backing => a \in Backed)
    BY TargetTypes
  <2>3. result \in Results /\ bytes \in [Backed -> Value]
    BY DEF TypeOK, Results
  <2>4. result' \in Results
    <3>1. CASE ReadTarget(a).kind = "callback" /\ result' = ReadTarget(a)
      <4>1. ReadTarget(a) \in Callbacks
        BY <2>2, <3>1 DEF Targets, Backing, Abort, Undefined
      <4> QED BY <3>1, <4>1 DEF Callbacks, Results
    <3>2. CASE ReadTarget(a) = Backing /\ result' = Byte(bytes[a])
      BY <2>2, <2>3, <3>2 DEF Results
    <3>3. CASE UNCHANGED result
      BY <2>3, <3>3
    <3> QED BY <2>1, <3>1, <3>2, <3>3
  <2>5. status' \in {"running", "aborted", "undefined"}
    BY <2>1 DEF TypeOK, Stop
  <2> QED BY <2>1, <2>4, <2>5 DEF TypeOK, CachesAllocated, caches, Newest, Results
<1>8. ASSUME NEW a \in Address, NEW v \in Value, Write(a, v) PROVE TypeInv'
  <2>1. UNCHANGED <<mappedRanges, mapCacheEnabled, caches, call>> /\ Store(a, v)
    BY <1>8 DEF Write
  <2>2. /\ bytes' \in [Backed -> Value] /\ result' \in Results
        /\ status' \in {"running", "aborted", "undefined"}
    BY <2>1, StoreTypes
  <2> QED BY <2>1, <2>2 DEF TypeOK, CachesAllocated, caches, Newest, Results
<1>9. ASSUME NEW n \in RomSizes, BeginRom(n) PROVE TypeInv'
  <2>1. 0 \in Address
    BY MemoryAssumption DEF Address
  <2>2. CachesAllocated'
    BY <1>9 DEF BeginRom, CachesAllocated, Loading
  <2> QED BY <1>9, <2>1, <2>2 DEF BeginRom, TypeOK, caches
<1>10. ASSUME NEW v \in Value, LoadByte(v) PROVE TypeInv'
  <2>1. /\ UNCHANGED <<mappedRanges, mapCacheEnabled, caches>>
        /\ call.op = "load" /\ call.i < call.size
        /\ Store(Wrap(ExpansionRom + call.i), v)
        /\ call' = [call EXCEPT !.i = @ + 1]
    BY <1>10 DEF LoadByte
  <2>2. PICK i \in Address, n \in RomSizes : call = Loading(i, n)
    BY <2>1 DEF TypeOK, Idle, Blitting
  <2>3. call' = Loading(i + 1, n) /\ i + 1 \in Address
    BY <2>1, <2>2, MemoryAssumption DEF Loading, Address
  <2>4. Wrap(ExpansionRom + call.i) \in Address
    BY <2>2, WrapIsAddress, MemoryAssumption DEF Loading, Address
  <2>5. /\ bytes' \in [Backed -> Value] /\ result' \in Results
        /\ status' \in {"running", "aborted", "undefined"}
    BY <2>1, <2>4, StoreTypes
  <2>6. CachesAllocated'
    BY <2>3 DEF CachesAllocated, Loading
  <2> QED BY <2>1, <2>3, <2>5, <2>6 DEF TypeOK, caches, Results
<1>11. CASE RomLoaded
  BY <1>11 DEF RomLoaded, TypeOK, CachesAllocated, caches, Idle
<1>12. CASE UNCHANGED vars
  BY <1>12 DEF vars, TypeOK, CachesAllocated, caches, Newest
<1> QED
  BY <1>1, <1>2, <1>3, <1>4, <1>5, <1>6, <1>7, <1>8, <1>9, <1>10, <1>11, <1>12
     DEF Next, Map, Blit

\* The state keeps its types: in particular a cache is a table of memory->size
\* entries whenever the code indexes it, and the counter of a loop stays 16 bits.
THEOREM TypeCorrect == Spec => []TypeOK
<1>1. Init => TypeInv
  BY TypeInit
<1>2. TypeInv /\ [Next]_vars => TypeInv'
  BY TypeStep
<1>3. TypeInv => TypeOK
  BY DEF TypeInv
<1> QED BY <1>1, <1>2, <1>3, PTL DEF Spec

-----------------------------------------------------------------------------
(* Overlap. The list only grows, by a range that fits the address space and   *)
(* that none of the mapped ones was seen to intersect.                        *)

RangesInside == \A k \in DOMAIN mappedRanges : Top(mappedRanges[k]) <= AddressCount

RangeInv == TypeInv /\ RangesInside /\ OverlapOnlyAtCeiling

\* What v6502_map does to the range list
LEMMA ListAfterMap ==
  ASSUME TypeInv, NEW q \in Request, NEW d \in Device, AcceptMap(q, d)
  PROVE  /\ mappedRanges' = Append(mappedRanges, RangeOf(q, d))
         /\ Len(mappedRanges) \in Nat
         /\ Len(mappedRanges') = Len(mappedRanges) + 1
         /\ DOMAIN mappedRanges = 1 .. Len(mappedRanges)
         /\ DOMAIN mappedRanges' = 1 .. Len(mappedRanges) + 1
         /\ \A k \in 1 .. Len(mappedRanges) : mappedRanges'[k] = mappedRanges[k]
         /\ mappedRanges'[Len(mappedRanges) + 1] = RangeOf(q, d)
         /\ RangeOf(q, d) \in MappedRange
<1>1. mappedRanges' = Append(mappedRanges, RangeOf(q, d)) /\ mappedRanges \in Seq(MappedRange)
  BY DEF AcceptMap, TypeInv, TypeOK
<1>2. RangeOf(q, d) \in MappedRange
  BY DEF MappedRange
<1> QED BY <1>1, <1>2, AppendProperties, LenProperties

\* Nothing but an accepted map call touches the range list
LEMMA ListOtherwise ==
  ASSUME [Next]_vars, ~ \E q \in Request, d \in Device : AcceptMap(q, d)
  PROVE  mappedRanges' = mappedRanges
  BY DEF Next, vars, EnableMapCache, Map, RefuseMap, Blit, BlitOne, BlitPastCache,
         BlitDone, Read, Write, BeginRom, LoadByte, RomLoaded

\* Each range of the list has its types
LEMMA ListElement ==
  ASSUME TypeInv, NEW k \in DOMAIN mappedRanges
  PROVE  /\ mappedRanges[k] \in MappedRange
         /\ mappedRanges[k].start \in Address /\ mappedRanges[k].size \in Nat
<1>1. mappedRanges[k] \in MappedRange
  BY ElementOfSeq, LenProperties DEF TypeInv, TypeOK
<1> QED BY <1>1, RangeTypes

\* A range that fits and does not end at the ceiling ends at an address
LEMMA TopFits ==
  ASSUME NEW r, r.start \in Address, r.size \in Nat,
         Top(r) <= AddressCount, ~ AtCeiling(r)
  PROVE  Top(r) \in Address
  BY MemoryAssumption DEF AtCeiling, Top, Address

LEMMA RangeStep ==
  ASSUME RangeInv, [Next]_vars
  PROVE  RangeInv'
<1>0. TypeInv /\ TypeInv'
  BY TypeStep DEF RangeInv
<1>1. ASSUME NEW q \in Request, NEW d \in Device, AcceptMap(q, d) PROVE RangeInv'
  <2> DEFINE new == RangeOf(q, d)
             n == Len(mappedRanges)
  <2>1. /\ n \in Nat
        /\ DOMAIN mappedRanges = 1 .. n
        /\ DOMAIN mappedRanges' = 1 .. n + 1
        /\ \A k \in 1 .. n : mappedRanges'[k] = mappedRanges[k]
        /\ mappedRanges'[n + 1] = new
        /\ new \in MappedRange
    BY <1>0, <1>1, ListAfterMap
  <2>2. /\ new.start = q.start /\ new.size = q.size
        /\ new.start \in Address /\ new.size \in Nat
        /\ Top(new) <= AddressCount
    BY <1>1, <2>1, RangeTypes, MemoryAssumption
       DEF RangeOf, AcceptMap, Refused, BeyondEnd, Top, Address
  <2>3. ASSUME NEW k \in 1 .. n, Overlap(new, mappedRanges[k])
        PROVE  AtCeiling(new) \/ AtCeiling(mappedRanges[k])
    <3> DEFINE old == mappedRanges[k]
    <3>1. old.start \in Address /\ old.size \in Nat /\ Top(old) <= AddressCount
      BY <1>0, <2>1, ListElement DEF RangeInv, RangesInside
    <3>2. ~ memoryRangesIntersect(new.start, new.size, old.start, old.size)
      BY <1>1, <2>1, <2>2 DEF AcceptMap, Refused
    <3>3. ASSUME ~ AtCeiling(new), ~ AtCeiling(old) PROVE Top(new) \in Address /\ Top(old) \in Address
      BY <2>2, <3>1, <3>3, TopFits
    <3> QED BY <2>2, <2>3, <3>1, <3>2, <3>3, IntersectionIsSeen
  <2>4. RangesInside'
    BY <2>1, <2>2 DEF RangeInv, RangesInside
  <2>5. OverlapOnlyAtCeiling'
    <3> HIDE DEF new, n
    <3> SUFFICES ASSUME NEW j \in 1 .. n + 1, NEW k \in 1 .. n + 1, j # k,
                        Overlap(mappedRanges'[j], mappedRanges'[k])
                 PROVE  AtCeiling(mappedRanges'[j]) \/ AtCeiling(mappedRanges'[k])
      BY <2>1 DEF OverlapOnlyAtCeiling
    <3>1. CASE j \in 1 .. n /\ k \in 1 .. n
      BY <2>1, <3>1 DEF RangeInv, OverlapOnlyAtCeiling
    <3>2. CASE j = n + 1 /\ k \in 1 .. n
      BY <2>1, <2>3, <3>2
    <3>3. CASE j \in 1 .. n /\ k = n + 1
      <4>1. Overlap(new, mappedRanges[j])
        BY <2>1, <3>3 DEF Overlap
      <4> QED BY <2>1, <2>3, <3>3, <4>1
    <3> QED BY <2>1, <3>1, <3>2, <3>3
  <2> QED BY <1>0, <2>4, <2>5 DEF RangeInv
<1>2. CASE ~ \E q \in Request, d \in Device : AcceptMap(q, d)
  <2>1. mappedRanges' = mappedRanges
    BY <1>2, ListOtherwise
  <2> QED BY <1>0, <2>1 DEF RangeInv, RangesInside, OverlapOnlyAtCeiling
<1> QED BY <1>1, <1>2

\* No range has been mapped at the start
LEMMA RangeInit == Init => RangeInv
<1> SUFFICES ASSUME Init PROVE RangeInv
  OBVIOUS
<1>1. DOMAIN mappedRanges = {}
  <2>1. mappedRanges = <<>>
    BY Zenon DEF Init
  <2> QED BY <2>1
<1> QED BY <1>1, TypeInit DEF RangeInv, RangesInside, OverlapOnlyAtCeiling

\* No two mapped ranges share an address unless one of them ends at the ceiling,
\* whatever sequence of map calls the host makes.
THEOREM OverlapOnlyThere == Spec => []OverlapOnlyAtCeiling
<1>1. Init => RangeInv
  BY RangeInit
<1>2. RangeInv /\ [Next]_vars => RangeInv'
  BY RangeStep
<1>3. RangeInv => OverlapOnlyAtCeiling
  BY DEF RangeInv
<1> QED BY <1>1, <1>2, <1>3, PTL DEF Spec

-----------------------------------------------------------------------------
(* Refusals below the ceiling, where no end wraps. The second comparison has  *)
(* the end of the request, which is not part of it, within the mapped range.  *)

\* Neither empty nor up to the ceiling
Low(r) == r.size # 0 /\ Top(r) < AddressCount

\* Of two low ranges the first intersects the second to v6502_memoryRangesIntersect if
\* they share an address, or if the first ends where the second starts; it is no
\* intersection that the first starts where the second ends (mem.c 58-73).
LEMMA IntersectionIsExact ==
  ASSUME NEW q, NEW r,
         q.start \in Address, q.size \in Nat, Low(q),
         r.start \in Address, r.size \in Nat, Low(r)
  PROVE  memoryRangesIntersect(q.start, q.size, r.start, r.size)
           <=> Overlap(q, r) \/ Top(q) = r.start
<1>1. /\ Top(q) \in Address /\ Top(r) \in Address
      /\ Top(q) = q.start + q.size /\ Top(r) = r.start + r.size
      /\ q.start < Top(q) /\ r.start < Top(r)
  BY MemoryAssumption DEF Low, Top, Address
<1>2. Wrap(q.start + q.size) = Top(q) /\ Wrap(r.start + r.size) = Top(r)
  BY <1>1, WrapFits
<1>3. memoryRangesIntersect(q.start, q.size, r.start, r.size)
        <=> \/ r.start <= q.start /\ q.start < Top(r)
            \/ r.start <= Top(q) /\ Top(q) < Top(r)
            \/ q.start <= r.start /\ Top(r) <= Top(q)
  BY <1>2 DEF memoryRangesIntersect
<1>4. ASSUME Overlap(q, r) PROVE memoryRangesIntersect(q.start, q.size, r.start, r.size)
  BY <1>1, <1>4, IntersectionIsSeen
<1>5. ASSUME Top(q) = r.start PROVE memoryRangesIntersect(q.start, q.size, r.start, r.size)
  BY <1>1, <1>3, <1>5, MemoryAssumption DEF Address
<1>6. CASE r.start <= q.start /\ q.start < Top(r)
  <2>1. Covers(q, q.start) /\ Covers(r, q.start)
    BY <1>1, <1>6, MemoryAssumption DEF Covers, Address
  <2> QED BY <1>4, <2>1 DEF Overlap
<1>7. CASE r.start < Top(q) /\ Top(q) < Top(r)
  <2>1. Top(q) - 1 \in Address
    BY <1>1, MemoryAssumption DEF Address
  <2>2. Covers(q, Top(q) - 1) /\ Covers(r, Top(q) - 1)
    BY <1>1, <1>7, MemoryAssumption DEF Covers, Address
  <2> QED BY <1>4, <2>1, <2>2 DEF Overlap
<1>8. CASE q.start <= r.start /\ Top(r) <= Top(q)
  <2>1. Covers(q, r.start) /\ Covers(r, r.start)
    BY <1>1, <1>8, MemoryAssumption DEF Covers, Address
  <2> QED BY <1>4, <2>1 DEF Overlap
<1>9. r.start <= Top(q) <=> r.start < Top(q) \/ Top(q) = r.start
  BY <1>1, MemoryAssumption DEF Address
<1> QED BY <1>3, <1>4, <1>5, <1>6, <1>7, <1>8, <1>9

\* With low ranges mapped, v6502_map refuses of the low requests those that overlap a
\* mapped range, and those that end where one starts.
RefusesOverlapsAndEnds ==
  (\A k \in DOMAIN mappedRanges : Low(mappedRanges[k])) =>
    \A q \in Request : Low(q) =>
      (Refused(q) <=> \E k \in DOMAIN mappedRanges :
                        Overlap(q, mappedRanges[k]) \/ Top(q) = mappedRanges[k].start)

\* The loop that is to "Make sure it's not already mapped" (mem.c:84) refuses every overlap
\* and one kind of free range besides: those right below a mapped one. So contiguous ranges,
\* which test_contiguousMemoryMapping says are allowed (tests/main.c:400), can be
\* mapped upward, as that test does, and never downward.
THEOREM RefusalsAreExact == Spec => []RefusesOverlapsAndEnds
<1>1. Init => RangeInv
  BY RangeInit
<1>2. RangeInv /\ [Next]_vars => RangeInv'
  BY RangeStep
<1>3. ASSUME RangeInv PROVE RefusesOverlapsAndEnds
  <2> SUFFICES ASSUME \A k \in DOMAIN mappedRanges : Low(mappedRanges[k]),
                      NEW q \in Request, Low(q)
               PROVE  Refused(q) <=> \E k \in DOMAIN mappedRanges :
                        Overlap(q, mappedRanges[k]) \/ Top(q) = mappedRanges[k].start
    BY DEF RefusesOverlapsAndEnds
  <2>1. q.start \in Address /\ q.size \in Nat /\ ~ BeyondEnd(q)
    BY MemoryAssumption DEF BeyondEnd, Low, Top, Address
  <2>2. ASSUME NEW k \in DOMAIN mappedRanges
        PROVE  memoryRangesIntersect(q.start, q.size, mappedRanges[k].start, mappedRanges[k].size)
                 <=> Overlap(q, mappedRanges[k]) \/ Top(q) = mappedRanges[k].start
    <3>1. mappedRanges[k].start \in Address /\ mappedRanges[k].size \in Nat
      BY <1>3, ListElement DEF RangeInv
    <3> QED BY <2>1, <3>1, IntersectionIsExact
  <2> QED BY <2>1, <2>2 DEF Refused
<1> QED BY <1>1, <1>2, <1>3, PTL DEF Spec

-----------------------------------------------------------------------------
(* The caches. While ranges are disjoint each cache mirrors one field of the  *)
(* ranges: it holds nothing that a range covering the address does not have,  *)
(* and everything such a range has as far as its blit has come. A blit at the *)
(* ceiling wraps and never ends, so no later access sees what it writes.      *)

Reached(ranges, loop, k, a) == loop.op # "blit" \/ k # Len(ranges) \/ a < loop.i

Sound(ranges, cache, field) ==
  \A a \in Backed : cache # NULL /\ cache[a] # NULL =>
    \E k \in DOMAIN ranges : Covers(ranges[k], a) /\ ranges[k][field] = cache[a]

Complete(ranges, loop, cache, field) ==
  \A a \in Backed, k \in DOMAIN ranges :
    Covers(ranges[k], a) /\ Reached(ranges, loop, k, a) /\ ranges[k][field] # NULL
      => cache # NULL /\ cache[a] = ranges[k][field]

Mirrors(ranges, loop, cache, field) ==
  Sound(ranges, cache, field) /\ Complete(ranges, loop, cache, field)

EndlessBlit == call.op = "blit" /\ AtCeiling(Newest)

Unused == readCache = NULL /\ writeCache = NULL /\ contextCache = NULL /\ call.op # "blit"

WithinRange == call.op = "blit" /\ ~ EndlessBlit =>
                 Newest.start <= call.i /\ call.i <= Top(Newest)

CachesMirror == mapCacheEnabled /\ Disjoint /\ ~ EndlessBlit =>
                  /\ Mirrors(mappedRanges, call, readCache, "read")
                  /\ Mirrors(mappedRanges, call, writeCache, "write")
                  /\ Mirrors(mappedRanges, call, contextCache, "context")

CacheInv ==
  /\ RangeInv
  /\ ~ mapCacheEnabled => Unused
  /\ WithinRange
  /\ CachesMirror

\* Allocating a cache for a new range leaves the caches mirroring the ranges:
\* nothing of the new one has been blitted yet
LEMMA AllocateMirrors ==
  ASSUME NEW ranges \in Seq(MappedRange), NEW new \in MappedRange, NEW cache, NEW field,
         Mirrors(ranges, Idle, cache, field)
  PROVE  Mirrors(Append(ranges, new), Blitting(new.start), Allocated(cache, new[field]), field)
<1> DEFINE longer == Append(ranges, new)
           n == Len(ranges)
           after == Allocated(cache, new[field])
<1>1. /\ n \in Nat /\ DOMAIN ranges = 1 .. n
      /\ DOMAIN longer = 1 .. n + 1 /\ Len(longer) = n + 1
      /\ \A k \in 1 .. n : longer[k] = ranges[k]
      /\ longer[n + 1] = new
  BY AppendProperties, LenProperties
<1>2. \A a \in Backed : Covers(new, a) => ~ (a < new.start)
  <2>1. new.start \in Address
    BY RangeTypes
  <2> QED BY <2>1, MemoryAssumption DEF Covers, Backed, Address
<1>3. after = cache \/ (cache = NULL /\ after = [a \in Backed |-> NULL])
  <2> DEFINE entry == new[field]
  <2>1. after = IF entry # NULL /\ cache = NULL THEN [a \in Backed |-> NULL] ELSE cache
    BY Zenon DEF Allocated
  <2> HIDE DEF after, entry
  <2> QED BY <2>1
<1> HIDE DEF longer, n, after
<1>4. Sound(longer, after, field)
  BY <1>1, <1>3 DEF Sound, Mirrors
<1>5. ASSUME NEW a \in Backed, NEW k \in DOMAIN longer,
             Covers(longer[k], a), Reached(longer, Blitting(new.start), k, a),
             longer[k][field] # NULL
      PROVE  after # NULL /\ after[a] = longer[k][field]
  <2>1. k # n + 1
    BY <1>1, <1>2, <1>5 DEF Reached, Blitting
  <2>2. k \in DOMAIN ranges /\ longer[k] = ranges[k]
    BY <1>1, <1>5, <2>1
  <2>3. cache # NULL /\ cache[a] = ranges[k][field]
    BY <1>5, <2>2 DEF Mirrors, Complete, Reached, Idle
  <2> QED BY <1>3, <2>2, <2>3
<1>6. Complete(longer, Blitting(new.start), after, field)
  BY <1>5 DEF Complete
<1> QED BY <1>4, <1>6 DEF Mirrors, longer, after

\* One iteration of the blit, at an address that only the newest range covers
LEMMA BlitMirrors ==
  ASSUME NEW ranges \in Seq(MappedRange), ranges # <<>>, NEW i \in Address,
         NEW cache, NEW field,
         Covers(ranges[Len(ranges)], i),
         \A k \in DOMAIN ranges : k # Len(ranges) => ~ Covers(ranges[k], i),
         ranges[Len(ranges)][field] # NULL => i \in Backed /\ \E T : cache \in [Backed -> T],
         ranges[Len(ranges)][field] # NULL => cache # NULL,
         NEW after,
         after = IF ranges[Len(ranges)][field] = NULL THEN cache
                 ELSE [cache EXCEPT ![i] = ranges[Len(ranges)][field]],
         after # NULL \/ cache = NULL,
         Mirrors(ranges, Blitting(i), cache, field)
  PROVE  Mirrors(ranges, Blitting(i + 1), after, field)
<1> DEFINE n == Len(ranges)
           entry == ranges[n][field]
<1>1. n \in Nat \ {0} /\ DOMAIN ranges = 1 .. n
  BY EmptySeq, LenProperties
<1>2. ASSUME NEW a \in Backed
      PROVE  after[a] = IF entry # NULL /\ a = i THEN entry ELSE cache[a]
  BY <1>2
<1> HIDE DEF n, entry
<1>3. Covers(ranges[n], i) /\ ranges[n][field] = entry
  BY DEF n, entry
<1>4. Sound(ranges, after, field)
  <2> SUFFICES ASSUME NEW a \in Backed, after # NULL, after[a] # NULL
               PROVE  \E k \in DOMAIN ranges : Covers(ranges[k], a) /\ ranges[k][field] = after[a]
    BY DEF Sound
  <2>1. CASE entry # NULL /\ a = i
    BY <1>1, <1>2, <1>3, <2>1
  <2>2. CASE ~ (entry # NULL /\ a = i)
    <3>1. cache # NULL
      BY DEF n, entry
    <3> QED BY <1>2, <2>2, <3>1 DEF Mirrors, Sound
  <2> QED BY <2>1, <2>2
<1>5. Complete(ranges, Blitting(i + 1), after, field)
  <2> SUFFICES ASSUME NEW a \in Backed, NEW k \in DOMAIN ranges, Covers(ranges[k], a),
                      Reached(ranges, Blitting(i + 1), k, a), ranges[k][field] # NULL
               PROVE  after # NULL /\ after[a] = ranges[k][field]
    BY DEF Complete
  <2>1. CASE k = n /\ a = i
    <3>1. entry # NULL /\ cache # NULL
      BY <1>3, <2>1 DEF n
    <3> QED BY <1>2, <1>3, <2>1, <3>1
  <2>2. CASE ~ (k = n /\ a = i)
    <3>1. a # i
      BY <2>2 DEF n
    <3>2. Reached(ranges, Blitting(i), k, a)
      BY <3>1 DEF Reached, Blitting, Backed, Address
    <3>3. cache # NULL /\ cache[a] = ranges[k][field]
      BY <3>2 DEF Mirrors, Complete
    <3> QED BY <1>2, <3>1, <3>3
  <2> QED BY <2>1, <2>2
<1> QED BY <1>4, <1>5 DEF Mirrors

\* A blit that has reached the end of its range is complete
LEMMA DoneMirrors ==
  ASSUME NEW ranges \in Seq(MappedRange), ranges # <<>>, NEW i \in Address, NEW cache, NEW field,
         ~ (i < Top(ranges[Len(ranges)])),
         Mirrors(ranges, Blitting(i), cache, field)
  PROVE  Mirrors(ranges, Idle, cache, field)
<1>1. ranges[Len(ranges)] \in MappedRange
  BY ElementOfSeq, EmptySeq, LenProperties
<1> DEFINE newest == ranges[Len(ranges)]
<1>2. \A a \in Backed : Covers(newest, a) => a < i
  <2>1. newest.start \in Address /\ newest.size \in Nat
    BY <1>1, RangeTypes
  <2>2. ~ (i < newest.start + newest.size)
    BY DEF Top
  <2> HIDE DEF newest
  <2> QED BY <2>1, <2>2, MemoryAssumption DEF Covers, Top, Backed, Address
<1> QED BY <1>2 DEF Mirrors, Complete, Reached, Blitting

\* A disjoint list stays disjoint only if it was: no step unmaps a range
LEMMA DisjointBefore ==
  ASSUME TypeInv, [Next]_vars, Disjoint'
  PROVE  Disjoint
<1>1. ASSUME NEW q \in Request, NEW d \in Device, AcceptMap(q, d) PROVE Disjoint
  <2>1. /\ Len(mappedRanges) \in Nat
        /\ DOMAIN mappedRanges = 1 .. Len(mappedRanges)
        /\ DOMAIN mappedRanges' = 1 .. Len(mappedRanges) + 1
        /\ \A k \in 1 .. Len(mappedRanges) : mappedRanges'[k] = mappedRanges[k]
    BY <1>1, ListAfterMap
  <2> QED BY <2>1 DEF Disjoint
<1>2. CASE ~ \E q \in Request, d \in Device : AcceptMap(q, d)
  BY <1>2, ListOtherwise DEF Disjoint
<1> QED BY <1>1, <1>2

\* A step that leaves ranges and caches alone and starts or ends no blit keeps
\* the invariant of the caches
LEMMA QuietStep ==
  ASSUME CacheInv, RangeInv', UNCHANGED <<mappedRanges, mapCacheEnabled, caches>>,
         call' = call \/ (call.op # "blit" /\ call'.op # "blit")
  PROVE  CacheInv'
<1>1. (~ mapCacheEnabled => Unused)'
  BY DEF CacheInv, Unused, caches
<1>2. Newest' = Newest /\ (Disjoint' <=> Disjoint)
  BY DEF Newest, Disjoint
<1>3. WithinRange' /\ (EndlessBlit' <=> EndlessBlit)
  BY <1>2 DEF CacheInv, WithinRange, EndlessBlit
<1>4. CachesMirror'
  BY <1>2, <1>3 DEF CacheInv, CachesMirror, Mirrors, Complete, Sound, Reached, caches
<1> QED BY <1>1, <1>3, <1>4 DEF CacheInv

\* While ranges are disjoint and below the ceiling, an address the blit stands at
\* belongs to the newest range alone
LEMMA BlitAddress ==
  ASSUME CacheInv, Disjoint, ~ EndlessBlit, call.op = "blit", MoreToBlit
  PROVE  /\ call.i \in Address /\ mappedRanges # <<>> /\ mappedRanges \in Seq(MappedRange)
         /\ Wrap(call.i + 1) = call.i + 1
         /\ Newest.start <= call.i /\ call.i + 1 <= Top(Newest)
         /\ Covers(Newest, call.i)
         /\ \A k \in DOMAIN mappedRanges :
              k # Len(mappedRanges) => ~ Covers(mappedRanges[k], call.i)
<1>1. call.i \in Address /\ mappedRanges # <<>> /\ mappedRanges \in Seq(MappedRange)
  BY DEF CacheInv, RangeInv, TypeInv, TypeOK, Blitting, Idle, Loading
<1>2. Len(mappedRanges) \in DOMAIN mappedRanges
  BY <1>1, EmptySeq, LenProperties
<1>3. /\ Newest = mappedRanges[Len(mappedRanges)]
      /\ Newest.start \in Address /\ Newest.size \in Nat
      /\ Top(Newest) <= AddressCount /\ ~ AtCeiling(Newest)
  BY <1>2, ListElement DEF CacheInv, RangeInv, RangesInside, Newest, EndlessBlit
<1>4. Newest.start <= call.i /\ call.i < Top(Newest)
  BY DEF CacheInv, WithinRange, MoreToBlit
<1>5. call.i + 1 \in Address
  BY <1>1, <1>3, <1>4, TopFits, MemoryAssumption DEF Address
<1>6. call.i + 1 <= Top(Newest)
  BY <1>1, <1>3, <1>4, TopFits DEF Address
<1>7. Covers(Newest, call.i)
  BY <1>4 DEF Covers
<1>8. \A k \in DOMAIN mappedRanges :
        k # Len(mappedRanges) => ~ Covers(mappedRanges[k], call.i)
  BY <1>1, <1>2, <1>3, <1>7 DEF Disjoint, Overlap
<1> QED BY <1>1, <1>4, <1>5, <1>6, <1>7, <1>8, WrapFits

\* One iteration of the blit keeps one cache mirroring its field
LEMMA BlitKeepsMirror ==
  ASSUME CacheInv, Disjoint, ~ EndlessBlit, BlitOne,
         NEW T, NEW cache \in Cache(T), NEW field, NULL \notin [Backed -> T \cup {NULL}],
         Newest[field] \in T, Newest[field] # NULL => Newest[field] \in Entries,
         Newest[field] # NULL => cache \in Filled(T),
         Mirrors(mappedRanges, call, cache, field)
  PROVE  Mirrors(mappedRanges, Blitting(call.i + 1), Blitted(cache, Newest[field]), field)
<1> DEFINE i == call.i
           after == Blitted(cache, Newest[field])
<1>1. /\ i \in Address /\ mappedRanges # <<>> /\ mappedRanges \in Seq(MappedRange)
      /\ Covers(Newest, i)
      /\ \A k \in DOMAIN mappedRanges :
           k # Len(mappedRanges) => ~ Covers(mappedRanges[k], i)
  BY BlitAddress DEF BlitOne
<1>2. Newest[field] # NULL => i \in Backed
  BY DEF BlitOne
<1>3. Newest[field] # NULL => cache # NULL
  BY DEF Filled
<1>4. after = IF Newest[field] = NULL THEN cache ELSE [cache EXCEPT ![i] = Newest[field]]
  BY DEF Blitted
<1>5. after # NULL \/ cache = NULL
  <2>1. ASSUME Newest[field] # NULL PROVE after \in Filled(T)
    BY <2>1, BlittedType
  <2> QED BY <1>4, <2>1 DEF Filled
<1>6. Mirrors(mappedRanges, Blitting(i), cache, field)
  BY DEF Mirrors, Complete, Reached, BlitOne, Blitting
<1>7. Newest = mappedRanges[Len(mappedRanges)]
  BY DEF Newest
<1>8. Newest[field] # NULL => \E S : cache \in [Backed -> S]
  BY DEF Filled
<1> HIDE DEF i, after
<1>9. Mirrors(mappedRanges, Blitting(i + 1), after, field)
  BY <1>1, <1>2, <1>3, <1>4, <1>5, <1>6, <1>7, <1>8, BlitMirrors
<1> QED BY <1>9 DEF i, after

LEMMA CacheStep ==
  ASSUME CacheInv, [Next]_vars
  PROVE  CacheInv'
<1>0. /\ TypeInv /\ TypeInv' /\ RangeInv /\ RangeInv'
      /\ mappedRanges \in Seq(MappedRange)
      /\ readCache \in Cache(Handler) /\ writeCache \in Cache(Handler)
      /\ contextCache \in Cache(Context)
  BY RangeStep DEF CacheInv, RangeInv, TypeInv, TypeOK
<1>1. CASE EnableMapCache
  <2>1. mappedRanges' = <<>> /\ call' = Idle /\ call = Idle /\ UNCHANGED caches
    BY <1>1 DEF EnableMapCache, Ready
  <2>2. CASE mapCacheEnabled
    <3>1. mapCacheEnabled' = mapCacheEnabled
      BY <1>1, <2>2, Zenon DEF EnableMapCache
    <3> QED BY <1>0, <1>1, <2>1, <3>1, QuietStep DEF EnableMapCache
  <2>3. CASE ~ mapCacheEnabled
    <3>1. readCache' = NULL /\ writeCache' = NULL /\ contextCache' = NULL
      BY <2>1, <2>3 DEF CacheInv, Unused, caches
    <3>2. DOMAIN mappedRanges' = {}
      BY <2>1
    <3>3. CachesMirror'
      BY <3>1, <3>2 DEF CachesMirror, Mirrors, Sound, Complete
    <3> QED BY <1>0, <2>1, <3>1, <3>3 DEF CacheInv, Unused, WithinRange, Idle
  <2> QED BY <2>2, <2>3
<1>2. ASSUME NEW q \in Request, NEW d \in Device, AcceptMap(q, d) PROVE CacheInv'
  <2> DEFINE new == RangeOf(q, d)
  <2>1. /\ mappedRanges' = Append(mappedRanges, new) /\ new \in MappedRange
        /\ Newest' = new /\ new.start = q.start
        /\ new.start \in Address /\ new.size \in Nat
        /\ new["read"] = d.read /\ new["write"] = d.write /\ new["context"] = d.context
    BY <1>0, <1>2, ListAfterMap, RangeTypes DEF Newest, RangeOf
  <2>2. call = Idle /\ mapCacheEnabled' = mapCacheEnabled
    BY <1>2 DEF AcceptMap, Ready
  <2>3. CASE ~ mapCacheEnabled
    <3>1. UNCHANGED <<caches, call>>
      BY <1>2, <2>3 DEF AcceptMap
    <3>2. Unused'
      BY <2>3, <3>1 DEF CacheInv, Unused, caches
    <3> QED BY <1>0, <2>2, <2>3, <3>2 DEF CacheInv, WithinRange, CachesMirror, Unused
  <2>4. CASE mapCacheEnabled
    <3>1. /\ readCache' = Allocated(readCache, new["read"])
          /\ writeCache' = Allocated(writeCache, new["write"])
          /\ contextCache' = Allocated(contextCache, new["context"])
          /\ call' = Blitting(new.start)
      BY <1>2, <2>1, <2>4 DEF AcceptMap
    <3> HIDE DEF new
    <3>2. WithinRange'
      BY <2>1, <3>1, MemoryAssumption DEF WithinRange, Blitting, Top, Address
    <3>3. CachesMirror'
      <4> SUFFICES ASSUME Disjoint'
                   PROVE  /\ Mirrors(mappedRanges', call', readCache', "read")
                          /\ Mirrors(mappedRanges', call', writeCache', "write")
                          /\ Mirrors(mappedRanges', call', contextCache', "context")
        BY DEF CachesMirror
      <4>1. Disjoint /\ ~ EndlessBlit
        BY <1>0, <2>2, DisjointBefore DEF EndlessBlit, Idle
      <4>2. /\ Mirrors(mappedRanges, Idle, readCache, "read")
            /\ Mirrors(mappedRanges, Idle, writeCache, "write")
            /\ Mirrors(mappedRanges, Idle, contextCache, "context")
        BY <2>2, <2>4, <4>1 DEF CacheInv, CachesMirror
      <4>3. Mirrors(mappedRanges', call', readCache', "read")
        BY <1>0, <2>1, <3>1, <4>2, AllocateMirrors
      <4>4. Mirrors(mappedRanges', call', writeCache', "write")
        BY <1>0, <2>1, <3>1, <4>2, AllocateMirrors
      <4>5. Mirrors(mappedRanges', call', contextCache', "context")
        BY <1>0, <2>1, <3>1, <4>2, AllocateMirrors
      <4> QED BY <4>3, <4>4, <4>5
    <3> QED BY <1>0, <2>2, <2>4, <3>2, <3>3 DEF CacheInv
  <2> QED BY <2>3, <2>4
<1>3. CASE BlitOne
  <2>1. /\ UNCHANGED <<mappedRanges, mapCacheEnabled>>
        /\ readCache' = Blitted(readCache, Newest.read)
        /\ writeCache' = Blitted(writeCache, Newest.write)
        /\ contextCache' = Blitted(contextCache, Newest.context)
        /\ call' = Blitting(Wrap(call.i + 1))
        /\ call.op = "blit" /\ MoreToBlit
    BY <1>3 DEF BlitOne
  <2>2. Newest' = Newest /\ (Disjoint' <=> Disjoint)
    BY <2>1 DEF Newest, Disjoint
  <2>3. EndlessBlit' <=> EndlessBlit
    BY <2>1, <2>2 DEF EndlessBlit, Blitting
  <2>4. mapCacheEnabled /\ mapCacheEnabled'
    BY <2>1 DEF CacheInv, Unused
  <2>5. WithinRange'
    <3>1. CASE EndlessBlit
      BY <2>3, <3>1 DEF WithinRange
    <3>2. CASE ~ EndlessBlit
      <4>1. Newest \in MappedRange /\ call.i \in Address
        BY <1>0, <2>1, NewestType DEF TypeInv, TypeOK, Blitting, Idle, Loading
      <4>2. Newest.start \in Address /\ Newest.size \in Nat
        BY <4>1, RangeTypes
      <4>3. Top(Newest) \in Address
        <5>1. Len(mappedRanges) \in DOMAIN mappedRanges
          BY <1>0, <2>1, EmptySeq, LenProperties DEF TypeInv, TypeOK, Blitting, Idle, Loading
        <5>2. Top(Newest) <= AddressCount
          BY <1>0, <5>1 DEF RangeInv, RangesInside, Newest
        <5>3. ~ AtCeiling(Newest)
          BY <2>1, <3>2 DEF EndlessBlit
        <5> QED BY <4>2, <5>2, <5>3, TopFits
      <4>4. Newest.start <= call.i /\ call.i < Top(Newest)
        BY <2>1, <3>2 DEF CacheInv, WithinRange, MoreToBlit
      <4>5. call.i + 1 \in Address
        BY <4>1, <4>3, <4>4, MemoryAssumption DEF Address
      <4>6. call'.i = call.i + 1
        BY <2>1, <4>5, WrapFits DEF Blitting
      <4>7. Newest.start <= call.i + 1 /\ call.i + 1 <= Top(Newest)
        BY <4>1, <4>2, <4>3, <4>4, MemoryAssumption DEF Address
      <4> QED BY <2>2, <4>6, <4>7 DEF WithinRange
    <3> QED BY <3>1, <3>2
  <2>6. CachesMirror'
    <3> SUFFICES ASSUME Disjoint, ~ EndlessBlit
                 PROVE  /\ Mirrors(mappedRanges', call', readCache', "read")
                        /\ Mirrors(mappedRanges', call', writeCache', "write")
                        /\ Mirrors(mappedRanges', call', contextCache', "context")
      BY <2>2, <2>3 DEF CachesMirror
    <3>1. /\ mappedRanges # <<>>
          /\ call' = Blitting(call.i + 1)
      BY <2>1, BlitAddress
    <3>2. /\ Newest["read"] \in Handler /\ Newest["write"] \in Handler
          /\ Newest["context"] \in Context
      BY <1>0, <3>1, NewestType, RangeTypes DEF TypeInv
    <3>3. /\ Mirrors(mappedRanges, call, readCache, "read")
          /\ Mirrors(mappedRanges, call, writeCache, "write")
          /\ Mirrors(mappedRanges, call, contextCache, "context")
      BY <2>4 DEF CacheInv, CachesMirror
    <3>4. /\ Newest["read"] # NULL => readCache \in Filled(Handler)
          /\ Newest["write"] # NULL => writeCache \in Filled(Handler)
          /\ Newest["context"] # NULL => contextCache \in Filled(Context)
      BY <1>0, <2>1 DEF TypeInv, CachesAllocated
    <3>5. /\ Newest["read"] # NULL => Newest["read"] \in Entries
          /\ Newest["write"] # NULL => Newest["write"] \in Entries
          /\ Newest["context"] # NULL => Newest["context"] \in Entries
      BY DEF Entries
    <3>6. Mirrors(mappedRanges', call', readCache', "read")
      BY <1>0, <1>3, <2>1, <3>1, <3>2, <3>3, <3>4, <3>5, BlitKeepsMirror, MemoryAssumption
    <3>7. Mirrors(mappedRanges', call', writeCache', "write")
      BY <1>0, <1>3, <2>1, <3>1, <3>2, <3>3, <3>4, <3>5, BlitKeepsMirror, MemoryAssumption
    <3>8. Mirrors(mappedRanges', call', contextCache', "context")
      BY <1>0, <1>3, <2>1, <3>1, <3>2, <3>3, <3>4, <3>5, BlitKeepsMirror, MemoryAssumption
    <3> QED BY <3>6, <3>7, <3>8
  <2> QED BY <1>0, <2>4, <2>5, <2>6 DEF CacheInv
<1>4. CASE BlitPastCache
  BY <1>0, <1>4, QuietStep DEF BlitPastCache
<1>5. CASE BlitDone
  <2>1. /\ UNCHANGED <<mappedRanges, mapCacheEnabled, caches>>
        /\ call' = Idle /\ call.op = "blit" /\ ~ MoreToBlit
    BY <1>5, Zenon DEF BlitDone
  <2>2. /\ mappedRanges # <<>> /\ call.i \in Address /\ call = Blitting(call.i)
    BY <1>0, <2>1 DEF TypeInv, TypeOK, Blitting, Idle, Loading
  <2>3. mapCacheEnabled /\ mapCacheEnabled'
    BY <2>1 DEF CacheInv, Unused
  <2>4. ~ EndlessBlit
    BY <2>1, <2>2, MemoryAssumption DEF EndlessBlit, AtCeiling, MoreToBlit, Address
  <2>5. ~ (call.i < Top(mappedRanges[Len(mappedRanges)]))
    BY <2>1 DEF MoreToBlit, Newest
  <2>6. CachesMirror'
    <3> SUFFICES ASSUME Disjoint
                 PROVE  /\ Mirrors(mappedRanges, Idle, readCache, "read")
                        /\ Mirrors(mappedRanges, Idle, writeCache, "write")
                        /\ Mirrors(mappedRanges, Idle, contextCache, "context")
      BY <2>1 DEF CachesMirror, Disjoint, caches
    <3>1. /\ Mirrors(mappedRanges, Blitting(call.i), readCache, "read")
          /\ Mirrors(mappedRanges, Blitting(call.i), writeCache, "write")
          /\ Mirrors(mappedRanges, Blitting(call.i), contextCache, "context")
      BY <2>2, <2>3, <2>4 DEF CacheInv, CachesMirror
    <3> QED BY <1>0, <2>2, <2>5, <3>1, DoneMirrors
  <2> QED BY <1>0, <2>1, <2>3, <2>6 DEF CacheInv, WithinRange, Idle
<1>6. ASSUME NEW q \in Request, NEW d \in Device, RefuseMap(q, d) PROVE CacheInv'
  BY <1>0, <1>6, QuietStep, Zenon DEF RefuseMap
<1>7. ASSUME NEW a \in Address, Read(a) PROVE CacheInv'
  BY <1>0, <1>7, QuietStep, Zenon DEF Read
<1>8. ASSUME NEW a \in Address, NEW v \in Value, Write(a, v) PROVE CacheInv'
  BY <1>0, <1>8, QuietStep, Zenon DEF Write
<1>9. ASSUME NEW n \in RomSizes, BeginRom(n) PROVE CacheInv'
  BY <1>0, <1>9, QuietStep DEF BeginRom, Ready, Idle, Loading
<1>10. ASSUME NEW v \in Value, LoadByte(v) PROVE CacheInv'
  <2>1. call.op = "load" /\ call' = [call EXCEPT !.i = @ + 1]
    BY <1>10 DEF LoadByte
  <2>2. call'.op = "load"
    BY <1>0, <2>1 DEF TypeInv, TypeOK, Loading, Blitting, Idle
  <2> QED BY <1>0, <1>10, <2>1, <2>2, QuietStep DEF LoadByte
<1>11. CASE RomLoaded
  BY <1>0, <1>11, QuietStep DEF RomLoaded, Idle
<1>12. CASE UNCHANGED vars
  BY <1>0, <1>12, QuietStep DEF vars
<1> QED
  BY <1>1, <1>2, <1>3, <1>4, <1>5, <1>6, <1>7, <1>8, <1>9, <1>10, <1>11, <1>12
     DEF Next, Map, Blit

\* Where the caches mirror disjoint ranges, the cache and the list give an access
\* the same answer
LEMMA MirrorsAgree ==
  ASSUME TypeInv, Disjoint, NEW a \in Backed, NEW access \in {"read", "write"},
         NEW cache,
         Mirrors(mappedRanges, Idle, cache, access),
         Mirrors(mappedRanges, Idle, contextCache, "context")
  PROVE  CachedTarget(cache, a) = HardTarget(a, access)
<1> DEFINE covered == \E k \in DOMAIN mappedRanges : Covers(mappedRanges[k], a)
           first == FirstRange(mappedRanges, a)
           range == mappedRangeForOffset(mappedRanges, a)
<1>1. a \in Address
  BY MemoryAssumption DEF Backed, Address
<1>2. CASE ~ covered
  <2>1. range = NULL
    BY <1>2 DEF mappedRangeForOffset
  <2>2. cache = NULL \/ cache[a] = NULL
    BY <1>2 DEF Mirrors, Sound
  <2> HIDE DEF range
  <2>3. HardTarget(a, access) =
          IF range # NULL /\ range[access] # NULL
          THEN Callback(range[access], range.context)
          ELSE IF a \in Backed THEN Backing ELSE Abort
    BY DEF HardTarget, range
  <2> QED BY <2>1, <2>2, <2>3 DEF CachedTarget
<1>3. CASE covered
  <2>1. first \in DOMAIN mappedRanges /\ Covers(mappedRanges[first], a)
    BY <1>3, FirstRangeCovers DEF TypeInv, TypeOK
  <2>2. range = mappedRanges[first]
    BY <1>3 DEF mappedRangeForOffset
  <2>3. \A k \in DOMAIN mappedRanges : Covers(mappedRanges[k], a) => k = first
    <3> HIDE DEF first
    <3> QED BY <1>1, <2>1 DEF Disjoint, Overlap
  <2>4. range \in MappedRange
    BY <2>1, <2>2, ListElement
  <2>5. range # NULL
    BY <2>4, MemoryAssumption
  <2> DEFINE handler == range[access]
             context == range["context"]
  <2>6. /\ handler = mappedRanges[first][access]
        /\ context = mappedRanges[first]["context"]
    BY <2>2
  <2>7. HardTarget(a, access) =
          IF handler # NULL THEN Callback(handler, context) ELSE Backing
    <3> HIDE DEF range
    <3>1. HardTarget(a, access) =
            IF range # NULL /\ range[access] # NULL
            THEN Callback(range[access], range.context)
            ELSE IF a \in Backed THEN Backing ELSE Abort
      BY DEF HardTarget, range
    <3> QED BY <2>5, <3>1
  <2> HIDE DEF range, handler, context, first
  <2>8. CASE handler # NULL
    <3>1. cache # NULL /\ cache[a] = handler
      BY <2>1, <2>6, <2>8 DEF Mirrors, Complete, Reached, Idle
    <3>2. ContextAt(a) = context
      <4>1. CASE context # NULL
        BY <2>1, <2>6, <4>1 DEF Mirrors, Complete, Reached, Idle, ContextAt
      <4>2. CASE context = NULL
        BY <2>3, <2>6, <4>2 DEF Mirrors, Sound, ContextAt
      <4> QED BY <4>1, <4>2
    <3> QED BY <2>7, <2>8, <3>1, <3>2 DEF CachedTarget
  <2>9. CASE handler = NULL
    <3>1. cache = NULL \/ cache[a] = NULL
      BY <2>3, <2>6, <2>9 DEF Mirrors, Sound
    <3> QED BY <2>7, <2>9, <3>1 DEF CachedTarget
  <2> QED BY <2>8, <2>9
<1> QED BY <1>2, <1>3

\* Nor has a cache been allocated
LEMMA CacheInit == Init => CacheInv
<1> SUFFICES ASSUME Init PROVE CacheInv
  OBVIOUS
<1>1. /\ mappedRanges = <<>> /\ call = Idle
      /\ readCache = NULL /\ writeCache = NULL /\ contextCache = NULL
  BY Zenon DEF Init
<1>2. DOMAIN mappedRanges = {}
  BY <1>1
<1>3. RangeInv
  BY <1>1, RangeInit
<1>4. CachesMirror
  BY <1>1, <1>2 DEF CachesMirror, Mirrors, Sound, Complete
<1> QED BY <1>1, <1>3, <1>4 DEF CacheInv, Unused, WithinRange, Idle

\* With the caches on, an access resolves as it would with the caches off, whatever
\* disjoint ranges have been mapped and however many bytes back the memory.
THEOREM CachesTransparent == Spec => []CachesAgreeWithRanges
<1>1. Init => CacheInv
  BY CacheInit
<1>2. CacheInv /\ [Next]_vars => CacheInv'
  BY CacheStep
<1>3. ASSUME CacheInv PROVE CachesAgreeWithRanges
  <2> SUFFICES ASSUME Ready, mapCacheEnabled, Disjoint, NEW a \in Backed
               PROVE  /\ CachedTarget(readCache, a) = HardTarget(a, "read")
                      /\ CachedTarget(writeCache, a) = HardTarget(a, "write")
    BY DEF CachesAgreeWithRanges
  <2>1. TypeInv /\ call = Idle
    BY <1>3 DEF CacheInv, RangeInv, Ready
  <2>2. /\ Mirrors(mappedRanges, Idle, readCache, "read")
        /\ Mirrors(mappedRanges, Idle, writeCache, "write")
        /\ Mirrors(mappedRanges, Idle, contextCache, "context")
    BY <1>3, <2>1 DEF CacheInv, CachesMirror, EndlessBlit, Idle
  <2> QED BY <2>1, <2>2, MirrorsAgree
<1> QED BY <1>1, <1>2, <1>3, PTL DEF Spec
-----------------------------------------------------------------------------
(* MemoryMap implements AddressSpace, for every set of requests that are not empty and *)
(* end below the ceiling: ranges are then disjoint, and the owner of an address is the *)
(* device of the one range that covers it, as soon as the call that maps it returns.   *)


\* Every request takes at least one address, and leaves the last one alone
BelowCeiling == \A q \in Request : q.size # 0 /\ Top(q) # AddressCount

-----------------------------------------------------------------------------
(* Owners *)

\* The device a range was mapped for
DeviceOf(r) == [read |-> r.read, write |-> r.write, context |-> r.context]

OwnerIn(ranges, a) ==
  LET range == mappedRangeForOffset(ranges, a)
  IN  IF range = NULL THEN NULL ELSE DeviceOf(range)

Separate(ranges) == \A j, k \in DOMAIN ranges : j # k => ~ Overlap(ranges[j], ranges[k])

\* Each mapped range is that of a device
LEMMA DeviceOfRange ==
  ASSUME NEW r \in MappedRange
  PROVE  /\ DeviceOf(r) \in Device /\ DeviceOf(r) # NULL
         /\ DeviceOf(r).read = r.read /\ DeviceOf(r).write = r.write
         /\ DeviceOf(r).context = r.context
<1>1. PICK q \in Request, d \in Device : r = RangeOf(q, d)
  BY DEF MappedRange
<1>2. d = [read |-> d.read, write |-> d.write, context |-> d.context]
  BY MemoryAssumption
<1>3. r.read = d.read /\ r.write = d.write /\ r.context = d.context
  BY <1>1 DEF RangeOf
<1>4. DeviceOf(r) = d
  BY <1>2, <1>3, Zenon DEF DeviceOf
<1>5. DeviceOf(r) \in Device /\ NULL \notin Device
  BY <1>4, MemoryAssumption
<1> QED BY <1>5 DEF DeviceOf

\* An address that no range covers has no owner
LEMMA NoOwner ==
  ASSUME NEW ranges, NEW a, \A k \in DOMAIN ranges : ~ Covers(ranges[k], a)
  PROVE  mappedRangeForOffset(ranges, a) = NULL /\ OwnerIn(ranges, a) = NULL
<1>1. mappedRangeForOffset(ranges, a) = NULL
  BY DEF mappedRangeForOffset
<1> QED BY <1>1 DEF OwnerIn

\* One that a range of a disjoint list covers belongs to the device of that range
LEMMA OneOwner ==
  ASSUME NEW ranges \in Seq(MappedRange), Separate(ranges), NEW a \in Address,
         NEW k \in DOMAIN ranges, Covers(ranges[k], a)
  PROVE  /\ mappedRangeForOffset(ranges, a) = ranges[k]
         /\ OwnerIn(ranges, a) = DeviceOf(ranges[k])
<1> DEFINE first == FirstRange(ranges, a)
<1>1. first \in DOMAIN ranges /\ Covers(ranges[first], a)
  BY FirstRangeCovers
<1>2. mappedRangeForOffset(ranges, a) = ranges[first]
  BY DEF mappedRangeForOffset
<1> HIDE DEF first
<1>3. first = k
  BY <1>1 DEF Separate, Overlap
<1>4. ranges[k] \in MappedRange
  BY ElementOfSeq, LenProperties
<1>5. ranges[k] # NULL
  BY <1>4, MemoryAssumption
<1> QED BY <1>2, <1>3, <1>5 DEF OwnerIn

\* A range mapped behind a disjoint list takes the addresses it covers, which nobody
\* owned, and no others
LEMMA OwnersAfterClaim ==
  ASSUME NEW ranges \in Seq(MappedRange), NEW new \in MappedRange,
         NEW longer, longer = Append(ranges, new), Separate(longer), NEW a \in Address
  PROVE  /\ Covers(new, a) => OwnerIn(longer, a) = DeviceOf(new) /\ OwnerIn(ranges, a) = NULL
         /\ ~ Covers(new, a) => OwnerIn(longer, a) = OwnerIn(ranges, a)
<1> DEFINE n == Len(ranges)
<1>1. /\ n \in Nat /\ DOMAIN ranges = 1 .. n
      /\ longer \in Seq(MappedRange) /\ DOMAIN longer = 1 .. n + 1
      /\ \A k \in 1 .. n : longer[k] = ranges[k]
      /\ longer[n + 1] = new
  BY AppendProperties, LenProperties
<1> HIDE DEF n
<1>2. Separate(ranges)
  BY <1>1 DEF Separate
<1>3. CASE Covers(new, a)
  <2>1. n + 1 \in DOMAIN longer /\ Covers(longer[n + 1], a)
    BY <1>1, <1>3
  <2>2. OwnerIn(longer, a) = DeviceOf(new)
    BY <1>1, <2>1, OneOwner
  <2>3. \A k \in DOMAIN ranges : ~ Covers(ranges[k], a)
    BY <1>1, <1>3 DEF Separate, Overlap
  <2> QED BY <1>3, <2>2, <2>3, NoOwner
<1>4. CASE ~ Covers(new, a)
  <2>1. CASE \E k \in DOMAIN ranges : Covers(ranges[k], a)
    <3>1. PICK k \in DOMAIN ranges : Covers(ranges[k], a)
      BY <2>1
    <3>2. k \in DOMAIN longer /\ longer[k] = ranges[k]
      BY <1>1
    <3>3. OwnerIn(longer, a) = DeviceOf(ranges[k])
      BY <1>1, <3>1, <3>2, OneOwner
    <3>4. OwnerIn(ranges, a) = DeviceOf(ranges[k])
      BY <1>2, <3>1, OneOwner
    <3> QED BY <1>4, <3>3, <3>4
  <2>2. CASE \A k \in DOMAIN ranges : ~ Covers(ranges[k], a)
    <3>1. \A k \in DOMAIN longer : ~ Covers(longer[k], a)
      BY <1>1, <1>4, <2>2
    <3>2. OwnerIn(longer, a) = NULL /\ OwnerIn(ranges, a) = NULL
      BY <2>2, <3>1, NoOwner
    <3> QED BY <1>4, <3>2
  <2> QED BY <2>1, <2>2
<1> QED BY <1>3, <1>4

\* Below the ceiling no two mapped ranges overlap, and every blit ends
LEMMA ListIsSeparate ==
  ASSUME BelowCeiling, RangeInv
  PROVE  Disjoint /\ Separate(mappedRanges) /\ (mappedRanges # <<>> => ~ AtCeiling(Newest))
<1>1. ASSUME NEW r \in MappedRange PROVE ~ AtCeiling(r)
  BY RangeTypes DEF BelowCeiling, AtCeiling, Top
<1>2. \A k \in DOMAIN mappedRanges : ~ AtCeiling(mappedRanges[k])
  BY <1>1, ListElement DEF RangeInv
<1>3. Disjoint
  BY <1>2 DEF RangeInv, OverlapOnlyAtCeiling, Disjoint
<1>4. mappedRanges # <<>> => ~ AtCeiling(Newest)
  BY <1>1, NewestType DEF RangeInv, TypeInv
<1> QED BY <1>3, <1>4 DEF Disjoint, Separate

\* No step makes two ranges of the list overlap
LEMMA DisjointAfter ==
  ASSUME BelowCeiling, RangeInv'
  PROVE  Disjoint'
<1>1. ASSUME NEW r \in MappedRange PROVE ~ AtCeiling(r)
  BY RangeTypes DEF BelowCeiling, AtCeiling, Top
<1>2. \A k \in DOMAIN mappedRanges' : mappedRanges'[k] \in MappedRange
  BY ElementOfSeq, LenProperties DEF RangeInv, TypeInv, TypeOK
<1>3. \A k \in DOMAIN mappedRanges' : ~ AtCeiling(mappedRanges'[k])
  BY <1>1, <1>2
<1> QED BY <1>3 DEF RangeInv, OverlapOnlyAtCeiling, Disjoint

\* The list without the range it was appended
LEMMA SubSeqOfAppend ==
  ASSUME NEW S, NEW s \in Seq(S), NEW e \in S
  PROVE  SubSeq(Append(s, e), 1, Len(s)) = s
<1>1. /\ Len(s) \in Nat /\ Append(s, e) \in Seq(S) /\ Len(Append(s, e)) = Len(s) + 1
      /\ \A i \in 1 .. Len(s) : Append(s, e)[i] = s[i]
  BY AppendProperties, LenProperties
<1>2. \A i \in 1 .. Len(s) : Append(s, e)[i] \in S
  BY <1>1, ElementOfSeq
<1> DEFINE t == SubSeq(Append(s, e), 1, Len(s))
<1>3. t \in Seq(S) /\ Len(t) = Len(s) /\ \A i \in 1 .. Len(s) : t[i] = s[i]
  BY <1>1, <1>2, SubSeqProperties
<1> HIDE DEF t
<1> QED BY <1>3, SeqEqual DEF t

\* And with it
LEMMA FrontAndLast ==
  ASSUME NEW S, NEW s \in Seq(S), s # <<>>
  PROVE  /\ SubSeq(s, 1, Len(s) - 1) \in Seq(S)
         /\ s = Append(SubSeq(s, 1, Len(s) - 1), s[Len(s)])
<1> DEFINE n == Len(s)
           t == SubSeq(s, 1, n - 1)
<1>1. n \in Nat \ {0} /\ \A i \in 1 .. n : s[i] \in S
  BY EmptySeq, LenProperties, ElementOfSeq
<1>2. t \in Seq(S) /\ Len(t) = n - 1 /\ \A i \in 1 .. n - 1 : t[i] = s[i]
  <2> HIDE DEF n
  <2> QED BY <1>1, SubSeqProperties
<1> HIDE DEF t
<1>3. /\ Append(t, s[n]) \in Seq(S) /\ Len(Append(t, s[n])) = n
      /\ \A i \in 1 .. n : Append(t, s[n])[i] = s[i]
  <2>1. s[n] \in S
    BY <1>1
  <2> HIDE DEF n
  <2> QED BY <1>1, <1>2, <2>1, AppendProperties
<1>4. Append(t, s[n]) = s
  BY <1>3, SeqEqual
<1> QED BY <1>2, <1>4 DEF t

-----------------------------------------------------------------------------
(* The steps of the controller as steps of the address space *)

Owner == [a \in Address |-> OwnerOf(a)]

LEMMA OwnerIs == \A a \in Address : Owner[a] = OwnerIn(Claimed, a)
BY DEF Owner, OwnerOf, OwnerIn, DeviceOf

\* Owners change only with the ranges whose call has returned
LEMMA OwnersStay ==
  ASSUME Claimed' = Claimed
  PROVE  Owner' = Owner
BY DEF Owner, OwnerOf

\* The return of an accepted v6502_map is a claim
LEMMA ReturnClaims ==
  ASSUME BelowCeiling, Claimed \in Seq(MappedRange),
         NEW new \in MappedRange, Top(new) <= AddressCount,
         Claimed' = Append(Claimed, new), Separate(Claimed'),
         result' = Returned(TRUE), UNCHANGED <<bytes, status>>, status = "running"
  PROVE  Space!Next
<1> DEFINE from == new.start
           to == Top(new) - 1
<1>1. /\ new.start \in Address /\ new.size \in Nat
      /\ new.size # 0 /\ Top(new) # AddressCount
  BY RangeTypes DEF BelowCeiling, Top
<1>2. from \in Address /\ to \in Address
  BY <1>1, MemoryAssumption DEF Top, Address
<1>3. \A a \in Address : Covers(new, a) <=> a \in from .. to
  BY <1>1, MemoryAssumption DEF Covers, Top, Address
<1>4. \A a \in from .. to : a \in Address
  BY <1>2, MemoryAssumption DEF Address
<1> HIDE DEF from, to
<1>5. \A a \in Address :
        /\ Covers(new, a) => OwnerIn(Claimed', a) = DeviceOf(new) /\ OwnerIn(Claimed, a) = NULL
        /\ ~ Covers(new, a) => OwnerIn(Claimed', a) = OwnerIn(Claimed, a)
  <2> TAKE a \in Address
  <2> QED BY OwnersAfterClaim
<1>6. /\ \A a \in from .. to : Owner[a] = NULL
      /\ Owner' = [a \in Address |-> IF a \in from .. to THEN DeviceOf(new) ELSE Owner[a]]
  <2>1. Owner' = [a \in Address |-> OwnerIn(Claimed', a)]
    BY DEF Owner, OwnerOf, OwnerIn, DeviceOf
  <2>2. ASSUME NEW a \in Address
        PROVE  /\ a \in from .. to => OwnerIn(Claimed', a) = DeviceOf(new) /\ Owner[a] = NULL
               /\ a \notin from .. to => OwnerIn(Claimed', a) = Owner[a]
    <3>1. Owner[a] = OwnerIn(Claimed, a)
      BY OwnerIs
    <3> QED BY <1>3, <1>5, <3>1, Zenon
  <2>3. \A a \in from .. to : Owner[a] = NULL
    BY <1>4, <2>2
  <2>4. \A a \in Address : OwnerIn(Claimed', a) =
                             IF a \in from .. to THEN DeviceOf(new) ELSE Owner[a]
    BY <2>2
  <2> QED BY <2>1, <2>3, <2>4
<1>7. DeviceOf(new) \in Device
  BY DeviceOfRange
<1>8. Space!Claim(from, to, DeviceOf(new))
  BY <1>6 DEF Space!Claim, Owner
<1> QED BY <1>2, <1>7, <1>8 DEF Space!Next

\* What answers an access is the owner of the address, then the byte behind it
Resolves(target, d, access, a) ==
  \/ d # NULL /\ d[access] # NULL /\ target = Callback(d[access], d.context)
  \/ (d = NULL \/ d[access] = NULL) /\ a \in Backed /\ target = Backing
  \/ a \notin Backed /\ target \in {Abort, Undefined}

\* The search of the list finds the owner
LEMMA ListResolves ==
  ASSUME BelowCeiling, RangeInv, call.op # "blit",
         NEW a \in Address, NEW access \in {"read", "write"}
  PROVE  Resolves(HardTarget(a, access), Owner[a], access, a)
<1> DEFINE range == mappedRangeForOffset(mappedRanges, a)
<1>1. mappedRanges \in Seq(MappedRange) /\ Separate(mappedRanges)
  BY ListIsSeparate DEF RangeInv, TypeInv, TypeOK
<1>2. Owner[a] = OwnerIn(mappedRanges, a)
  BY OwnerIs DEF Claimed
<1>3. HardTarget(a, access) =
        IF range # NULL /\ range[access] # NULL
        THEN Callback(range[access], range.context)
        ELSE IF a \in Backed THEN Backing ELSE Abort
  BY DEF HardTarget
<1> HIDE DEF range
<1>4. CASE \E k \in DOMAIN mappedRanges : Covers(mappedRanges[k], a)
  <2>1. PICK k \in DOMAIN mappedRanges : Covers(mappedRanges[k], a)
    BY <1>4
  <2>2. range = mappedRanges[k] /\ Owner[a] = DeviceOf(mappedRanges[k])
    BY <1>1, <1>2, <2>1, OneOwner DEF range
  <2>3. range \in MappedRange
    BY <2>2, ListElement DEF RangeInv
  <2>4. range # NULL
    BY <2>3, MemoryAssumption
  <2>5. /\ Owner[a] # NULL /\ Owner[a][access] = range[access]
        /\ Owner[a].context = range.context
    BY <2>2, <2>3, DeviceOfRange
  <2> QED BY <1>3, <2>4, <2>5 DEF Resolves
<1>5. CASE \A k \in DOMAIN mappedRanges : ~ Covers(mappedRanges[k], a)
  <2>1. range = NULL /\ Owner[a] = NULL
    BY <1>2, <1>5, NoOwner DEF range
  <2> QED BY <1>3, <2>1 DEF Resolves
<1> QED BY <1>4, <1>5

\* And so do the caches, wherever they have entries
LEMMA AccessResolves ==
  ASSUME BelowCeiling, CacheInv, call.op # "blit", NEW a \in Address
  PROVE  /\ Resolves(ReadTarget(a), Owner[a], "read", a)
         /\ Resolves(WriteTarget(a), Owner[a], "write", a)
<1>1. RangeInv /\ TypeInv /\ Disjoint
  BY ListIsSeparate DEF CacheInv, RangeInv
<1>2. /\ Resolves(HardTarget(a, "read"), Owner[a], "read", a)
      /\ Resolves(HardTarget(a, "write"), Owner[a], "write", a)
  BY <1>1, ListResolves
<1>3. CASE ~ mapCacheEnabled
  BY <1>2, <1>3 DEF ReadTarget, WriteTarget
<1>4. CASE mapCacheEnabled /\ a \notin Backed
  BY <1>4 DEF ReadTarget, WriteTarget, CachedTarget, Resolves
<1>5. CASE mapCacheEnabled /\ a \in Backed
  <2>1. ~ EndlessBlit
    BY DEF EndlessBlit
  <2>2. /\ Mirrors(mappedRanges, call, readCache, "read")
        /\ Mirrors(mappedRanges, call, writeCache, "write")
        /\ Mirrors(mappedRanges, call, contextCache, "context")
    BY <1>1, <1>5, <2>1 DEF CacheInv, CachesMirror
  <2>3. /\ Mirrors(mappedRanges, Idle, readCache, "read")
        /\ Mirrors(mappedRanges, Idle, writeCache, "write")
        /\ Mirrors(mappedRanges, Idle, contextCache, "context")
    BY <2>2 DEF Mirrors, Complete, Reached, Idle
  <2>4. /\ CachedTarget(readCache, a) = HardTarget(a, "read")
        /\ CachedTarget(writeCache, a) = HardTarget(a, "write")
    BY <1>1, <1>5, <2>3, MirrorsAgree
  <2> QED BY <1>2, <1>5, <2>4 DEF ReadTarget, WriteTarget
<1> QED BY <1>3, <1>4, <1>5

\* A process that stops at an address without a byte stops in the address space
LEMMA StopsThere ==
  ASSUME NEW a \in Address, a \notin Backed, status = "running",
         status' \in {"aborted", "undefined"},
         UNCHANGED <<Owner, bytes, result>>
  PROVE  Space!Next
<1>1. Address # Backed
  OBVIOUS
<1>2. (status # "running")' = TRUE
  OBVIOUS
<1>3. Space!Stop
  BY <1>1, <1>2 DEF Space!Stop, Owner
<1> QED BY <1>3 DEF Space!Next

\* A read reaches the owner
LEMMA ReadRefines ==
  ASSUME BelowCeiling, CacheInv, NEW a \in Address, Read(a), Owner' = Owner
  PROVE  Space!Next
<1> DEFINE target == ReadTarget(a)
           d == Owner[a]
<1>1. status = "running" /\ call.op # "blit" /\ UNCHANGED bytes
  BY DEF Read, Ready, Idle
<1>2. Resolves(target, d, "read", a)
  BY <1>1, AccessResolves
<1>3. \/ target.kind = "callback" /\ result' = target /\ UNCHANGED status
      \/ target = Backing /\ result' = Byte(bytes[a]) /\ UNCHANGED status
      \/ target = Abort /\ status' = "aborted" /\ UNCHANGED result
      \/ target = Undefined /\ status' = "undefined" /\ UNCHANGED result
  BY DEF Read, Stop
<1>4. d = OwnerOf(a)
  BY DEF Owner
<1> HIDE DEF target, d
<1>5. CASE d # NULL /\ d["read"] # NULL /\ target = Callback(d["read"], d.context)
  <2>1. result' = Callback(d.read, d.context) /\ UNCHANGED status
    BY <1>3, <1>5 DEF Callback, Backing, Abort, Undefined
  <2>2. Space!Read(a)
    BY <1>1, <1>4, <1>5, <2>1 DEF Space!Read, Space!Reads, Owner
  <2> QED BY <1>1, <2>2 DEF Space!Next
<1>6. CASE (d = NULL \/ d["read"] = NULL) /\ a \in Backed /\ target = Backing
  <2>1. result' = Byte(bytes[a]) /\ UNCHANGED status
    BY <1>3, <1>6 DEF Backing, Abort, Undefined
  <2>2. Space!Read(a)
    BY <1>1, <1>4, <1>6, <2>1 DEF Space!Read, Space!Reads, Owner
  <2> QED BY <1>1, <2>2 DEF Space!Next
<1>7. CASE a \notin Backed /\ target \in {Abort, Undefined}
  <2>1. status' \in {"aborted", "undefined"} /\ UNCHANGED result
    BY <1>3, <1>7 DEF Backing, Abort, Undefined
  <2> QED BY <1>1, <1>7, <2>1, StopsThere
<1> QED BY <1>2, <1>5, <1>6, <1>7 DEF Resolves

\* A write, of the host or of a ROM being loaded, reaches the owner
LEMMA StoreRefines ==
  ASSUME BelowCeiling, CacheInv, status = "running", call.op # "blit",
         NEW a \in Address, NEW v \in Value, Store(a, v), Owner' = Owner
  PROVE  Space!Next
<1> DEFINE target == WriteTarget(a)
           d == Owner[a]
<1>1. Resolves(target, d, "write", a)
  BY AccessResolves
<1>2. \/ target.kind = "callback" /\ result' = target /\ UNCHANGED <<bytes, status>>
      \/ /\ target = Backing /\ bytes' = [bytes EXCEPT ![a] = v] /\ result' = Stored
         /\ UNCHANGED status
      \/ target = Abort /\ status' = "aborted" /\ UNCHANGED <<bytes, result>>
      \/ target = Undefined /\ status' = "undefined" /\ UNCHANGED <<bytes, result>>
  BY DEF Store, Stop
<1>3. d = OwnerOf(a)
  BY DEF Owner
<1> HIDE DEF target, d
<1>4. CASE d # NULL /\ d["write"] # NULL /\ target = Callback(d["write"], d.context)
  <2>1. result' = Callback(d.write, d.context) /\ UNCHANGED <<bytes, status>>
    BY <1>2, <1>4 DEF Callback, Backing, Abort, Undefined
  <2>2. Space!Write(a, v)
    BY <1>3, <1>4, <2>1 DEF Space!Write, Space!Writes, Owner
  <2> QED BY <2>2 DEF Space!Next
<1>5. CASE (d = NULL \/ d["write"] = NULL) /\ a \in Backed /\ target = Backing
  <2>1. result' = Stored /\ bytes' = [bytes EXCEPT ![a] = v] /\ UNCHANGED status
    BY <1>2, <1>5 DEF Backing, Abort, Undefined
  <2>2. Space!Write(a, v)
    BY <1>3, <1>5, <2>1 DEF Space!Write, Space!Writes, Owner
  <2> QED BY <2>2 DEF Space!Next
<1>6. CASE a \notin Backed /\ target \in {Abort, Undefined}
  <2>1. status' \in {"aborted", "undefined"} /\ UNCHANGED <<bytes, result>>
    BY <1>2, <1>6 DEF Backing, Abort, Undefined
  <2> QED BY <1>6, <2>1, StopsThere
<1> QED BY <1>1, <1>4, <1>5, <1>6 DEF Resolves

\* Every step of the controller is one of the address space, or changes nothing there
LEMMA StepRefines ==
  ASSUME BelowCeiling, CacheInv, CacheInv', [Next]_vars
  PROVE  Space!Next \/ UNCHANGED <<Owner, bytes, result, status>>
<1>0. /\ TypeInv /\ RangeInv /\ RangeInv' /\ mappedRanges \in Seq(MappedRange)
      /\ Len(mappedRanges) \in Nat
  BY LenProperties DEF CacheInv, RangeInv, TypeInv, TypeOK
<1>1. ASSUME UNCHANGED mappedRanges, call'.op = call.op PROVE Owner' = Owner
  BY <1>1, OwnersStay DEF Claimed
<1>2. ASSUME UNCHANGED mappedRanges, call.op # "blit", call'.op # "blit" PROVE Owner' = Owner
  BY <1>2, OwnersStay DEF Claimed
<1>3. CASE EnableMapCache
  BY <1>1, <1>3 DEF EnableMapCache
<1>4. ASSUME NEW q \in Request, NEW d \in Device, RefuseMap(q, d) PROVE Space!Next
  <2>1. Owner' = Owner /\ status = "running" /\ result' = Returned(FALSE) /\ UNCHANGED <<bytes, status>>
    BY <1>1, <1>4 DEF RefuseMap, Ready
  <2>2. Space!Refuse
    BY <2>1 DEF Space!Refuse, Owner
  <2> QED BY <2>1, <2>2 DEF Space!Next
<1>5. ASSUME NEW q \in Request, NEW d \in Device, AcceptMap(q, d)
      PROVE  Space!Next \/ UNCHANGED <<Owner, bytes, result, status>>
  <2> DEFINE new == RangeOf(q, d)
             n == Len(mappedRanges)
  <2>1. /\ mappedRanges' = Append(mappedRanges, new) /\ new \in MappedRange
        /\ Len(mappedRanges') = n + 1
    BY <1>0, <1>5, ListAfterMap
  <2>2. call = Idle /\ status = "running" /\ UNCHANGED <<bytes, status>>
    BY <1>5 DEF AcceptMap, Ready
  <2>3. Claimed = mappedRanges
    BY <2>2 DEF Claimed, Idle
  <2>4. CASE mapCacheEnabled
    <3>1. call' = Blitting(q.start) /\ UNCHANGED result
      BY <1>5, <2>4 DEF AcceptMap
    <3>2. Claimed' = SubSeq(Append(mappedRanges, new), 1, n)
      BY <1>0, <2>1, <3>1 DEF Claimed, Blitting
    <3>3. SubSeq(Append(mappedRanges, new), 1, n) = mappedRanges
      <4> HIDE DEF new
      <4> QED BY <1>0, <2>1, SubSeqOfAppend
    <3> QED BY <2>2, <2>3, <3>1, <3>2, <3>3, OwnersStay
  <2>5. CASE ~ mapCacheEnabled
    <3>1. call' = Idle /\ result' = Returned(TRUE)
      BY <1>5, <2>2, <2>5 DEF AcceptMap
    <3>2. Claimed' = Append(Claimed, new)
      BY <2>1, <2>3, <3>1 DEF Claimed, Idle
    <3>3. Separate(Claimed')
      <4>1. Claimed' = mappedRanges'
        BY <2>1, <2>3, <3>2
      <4>2. Disjoint'
        BY <1>0, DisjointAfter
      <4> QED BY <4>1, <4>2 DEF Disjoint, Separate
    <3>4. Top(new) <= AddressCount
      BY <1>5, MemoryAssumption DEF AcceptMap, Refused, BeyondEnd, RangeOf, Top, Address
    <3> QED BY <1>0, <2>1, <2>2, <2>3, <3>1, <3>2, <3>3, <3>4, ReturnClaims
  <2> QED BY <2>4, <2>5
<1>6. CASE BlitOne
  <2>1. /\ UNCHANGED <<mappedRanges, bytes, result, status>>
        /\ call.op = "blit" /\ call'.op = "blit"
    BY <1>6 DEF BlitOne, Blitting
  <2> QED BY <1>1, <2>1
<1>7. CASE BlitPastCache
  <2>1. /\ UNCHANGED <<mappedRanges, call, bytes, result>>
        /\ status = "running" /\ status' = "undefined" /\ call.op = "blit" /\ call.i \notin Backed
    BY <1>7 DEF BlitPastCache
  <2>2. call.i \in Address
    BY <1>0, <2>1 DEF TypeInv, TypeOK, Blitting, Idle, Loading
  <2>3. Owner' = Owner
    BY <1>1, <2>1
  <2> QED BY <2>1, <2>2, <2>3, StopsThere
<1>8. CASE BlitDone
  <2> DEFINE n == Len(mappedRanges)
  <2>1. /\ UNCHANGED <<mappedRanges, bytes, status>>
        /\ status = "running" /\ result' = Returned(TRUE) /\ call.op = "blit" /\ call' = Idle
    BY <1>8, Zenon DEF BlitDone
  <2>2. mappedRanges # <<>> /\ n \in 1 .. n
    BY <1>0, <2>1, EmptySeq, LenProperties DEF TypeInv, TypeOK, Loading, Idle
  <2>3. Claimed = SubSeq(mappedRanges, 1, n - 1) /\ Claimed' = mappedRanges
    BY <2>1 DEF Claimed, Idle
  <2>4. Newest \in MappedRange /\ Top(Newest) <= AddressCount
    BY <1>0, <2>2, ListElement DEF RangeInv, RangesInside, Newest
  <2>5. Claimed \in Seq(MappedRange) /\ Claimed' = Append(Claimed, Newest)
    <3>1. /\ SubSeq(mappedRanges, 1, n - 1) \in Seq(MappedRange)
          /\ mappedRanges = Append(SubSeq(mappedRanges, 1, n - 1), mappedRanges[n])
      BY <1>0, <2>2, FrontAndLast
    <3> QED BY <2>3, <3>1 DEF Newest
  <2>6. Separate(Claimed')
    BY <1>0, <2>3, ListIsSeparate
  <2> QED BY <2>1, <2>4, <2>5, <2>6, ReturnClaims
<1>9. ASSUME NEW a \in Address, Read(a) PROVE Space!Next
  <2>1. Owner' = Owner
    BY <1>1, <1>9 DEF Read
  <2> QED BY <1>9, <2>1, ReadRefines
<1>10. ASSUME NEW a \in Address, NEW v \in Value, Write(a, v) PROVE Space!Next
  <2>1. Owner' = Owner
    BY <1>1, <1>10 DEF Write
  <2>2. status = "running" /\ call.op # "blit" /\ Store(a, v)
    BY <1>10 DEF Write, Ready, Idle
  <2> QED BY <2>1, <2>2, StoreRefines
<1>11. ASSUME NEW m \in RomSizes, BeginRom(m) PROVE UNCHANGED <<Owner, bytes, result, status>>
  BY <1>2, <1>11 DEF BeginRom, Ready, Idle, Loading
<1>12. ASSUME NEW v \in Value, LoadByte(v) PROVE Space!Next
  <2>1. /\ status = "running" /\ call.op = "load" /\ UNCHANGED mappedRanges
        /\ Store(Wrap(ExpansionRom + call.i), v) /\ call' = [call EXCEPT !.i = @ + 1]
    BY <1>12 DEF LoadByte
  <2>2. call'.op = "load" /\ call.i \in Nat
    BY <1>0, <2>1, MemoryAssumption DEF TypeInv, TypeOK, Loading, Blitting, Idle, Address
  <2>3. Wrap(ExpansionRom + call.i) \in Address
    BY <2>2, WrapIsAddress, MemoryAssumption DEF Address
  <2>4. Owner' = Owner
    BY <1>1, <2>1, <2>2
  <2> QED BY <2>1, <2>3, <2>4, StoreRefines
<1>13. CASE RomLoaded
  BY <1>2, <1>13 DEF RomLoaded, Idle
<1>14. CASE UNCHANGED vars
  BY <1>1, <1>14 DEF vars
<1> QED
  BY <1>3, <1>4, <1>5, <1>6, <1>7, <1>8, <1>9, <1>10, <1>11, <1>12, <1>13, <1>14
     DEF Next, Map, Blit

-----------------------------------------------------------------------------

\* What the host sees of the controller, with its caches on or off, is an address space
\* in which a device owns the addresses it claimed, for good, and answers the accesses
\* to them (mem.c 43-196): for all requests that are not empty and end below the ceiling.
THEOREM MapsAsPromised ==
  ASSUME BelowCeiling
  PROVE  Spec => ImplementsAddressSpace
<1>1. Init => CacheInv
  BY CacheInit
<1>2. CacheInv /\ [Next]_vars => CacheInv'
  BY CacheStep
<1>3. ASSUME Init PROVE Space!Init
  <2>1. /\ mappedRanges = <<>> /\ call = Idle /\ status = "running"
        /\ bytes = [a \in Backed |-> Zero] /\ result = Nothing
    BY <1>3, Zenon DEF Init
  <2>2. Claimed = <<>>
    BY <2>1 DEF Claimed, Idle
  <2>3. \A a \in Address : Owner[a] = NULL
    BY <2>2, OwnerIs, NoOwner
  <2>4. \A a \in Address : OwnerOf(a) = NULL
    BY <2>3 DEF Owner
  <2> QED BY <2>1, <2>4 DEF Space!Init
<1>4. CacheInv /\ CacheInv' /\ [Next]_vars => [Space!Next]_(Space!vars)
  <2> SUFFICES ASSUME CacheInv, CacheInv', [Next]_vars
               PROVE  Space!Next \/ UNCHANGED Space!vars
    OBVIOUS
  <2>1. CASE UNCHANGED <<Owner, bytes, result, status>>
    BY <2>1 DEF Space!vars, Owner
  <2> QED BY <2>1, StepRefines
<1> QED
  BY <1>1, <1>2, <1>3, <1>4, PTL DEF Spec, ImplementsAddressSpace, Space!Spec

-----------------------------------------------------------------------------
(* Loops *)

\* An iteration of the blit of a range below the ceiling
LEMMA BlitAdvances ==
  ASSUME RangeInv, BlitOne, ~ AtCeiling(Newest)
  PROVE  call'.op = "blit" /\ call'.i > call.i /\ call'.i <= Top(Newest)
<1>1. call.i \in Address /\ mappedRanges # <<>> /\ mappedRanges \in Seq(MappedRange)
  BY DEF BlitOne, RangeInv, TypeInv, TypeOK, Blitting, Idle, Loading
<1>2. Len(mappedRanges) \in DOMAIN mappedRanges
  BY <1>1, EmptySeq, LenProperties
<1>3. Newest.start \in Address /\ Newest.size \in Nat /\ Top(Newest) <= AddressCount
  BY <1>2, ListElement DEF RangeInv, RangesInside, Newest
<1>4. Top(Newest) \in Address /\ call.i < Top(Newest)
  BY <1>3, TopFits DEF BlitOne, MoreToBlit
<1>5. call.i + 1 \in Address /\ call.i + 1 <= Top(Newest) /\ call.i + 1 > call.i
  BY <1>1, <1>4, MemoryAssumption DEF Address
<1>6. call' = Blitting(call.i + 1)
  BY <1>5, WrapFits DEF BlitOne
<1> QED
  BY <1>5, <1>6 DEF Blitting

\* Below the ceiling each iteration of a loop brings its call nearer to the return: what is
\* left of the proof that calls return is that the thread runs.
THEOREM CallsGoAhead == Spec => CallsAdvance
<1>1. RangeInv /\ [Next]_vars =>
        [call # Idle /\ call' # Idle /\ status' = "running"
           /\ ~ (call.op = "blit" /\ AtCeiling(Newest)) =>
           /\ call'.op = call.op
           /\ call'.i > call.i
           /\ call'.i <= IF call.op = "blit" THEN Top(Newest) ELSE call.size]_vars
  <2> SUFFICES ASSUME RangeInv, Next, call # Idle, call' # Idle, status' = "running",
                      ~ (call.op = "blit" /\ AtCeiling(Newest))
               PROVE  /\ call'.op = call.op
                      /\ call'.i > call.i
                      /\ call'.i <= IF call.op = "blit" THEN Top(Newest) ELSE call.size
    OBVIOUS
  <2>1. CASE BlitOne
    <3>1. call.op = "blit"
      BY <2>1 DEF BlitOne
    <3> QED BY <2>1, <3>1, BlitAdvances
  <2>2. CASE \E v \in Value : LoadByte(v)
    <3>1. /\ call.op = "load" /\ call.i < call.size
          /\ call' = [call EXCEPT !.i = call.i + 1]
      BY <2>2 DEF LoadByte
    <3>2. \E i \in Address, n \in RomSizes : call = Loading(i, n)
      BY <3>1 DEF RangeInv, TypeInv, TypeOK, Blitting, Idle
    <3>3. PICK i \in Address, n \in RomSizes : call = Loading(i, n)
      BY <3>2
    <3>4. call.i \in Nat /\ call.size \in Nat
      BY <3>3, MemoryAssumption DEF Loading, Address
    <3>5. call'.op = call.op /\ call'.i = call.i + 1
      BY <3>1, <3>3 DEF Loading
    <3> QED BY <3>1, <3>4, <3>5
  <2> QED
    BY <2>1, <2>2 DEF Next, Blit, BlitPastCache, BlitDone, RomLoaded, Ready, EnableMapCache,
                Map, RefuseMap, AcceptMap, Read, Write, BeginRom
<1>2. Spec => []RangeInv
  BY RangeInit, RangeStep, PTL DEF Spec
<1> QED
  BY <1>1, <1>2, PTL DEF Spec, CallsAdvance

=============================================================================
