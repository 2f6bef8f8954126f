------------------------------ MODULE BasisCache ------------------------------
(***************************************************************************)
(* InMemoryStationAreaCalculationBasisCache of                             *)
(* lib/domain/station-area-details-cache.ts: a process-local cache with a  *)
(* time to live, an entry limit and a byte limit.  `put` and `get` are     *)
(* synchronous, so each is one action; only the clock moves between them.  *)
(* A basis is opaque, its size is what jsonByteLength makes of it.         *)
(***************************************************************************)
EXTENDS Integers, FiniteSets, Functions

CONSTANTS
  Refs,        (* the references referenceFactory can produce              *)
  Bases,       (* the calculation bases                                    *)
  NoBasis,     (* undefined                                                *)
  ByteLength,  (* Bases -> Nat: jsonByteLength(basis)                      *)
  TtlMs,       (* ttlMs                                                    *)
  MaxEntries,  (* maxEntries                                               *)
  MaxBytes,    (* maxBytes                                                 *)
  ClockBound,  (* bound of the model: the clock stops here                 *)
  PutBound     (* bound of the model: number of successful puts            *)

ASSUME BasisCacheAssumption ==
  /\ NoBasis \notin Bases
  /\ ByteLength \in [Bases -> Nat]
  /\ TtlMs \in Nat \ {0}
  /\ MaxEntries \in Nat \ {0}
  /\ MaxBytes \in Nat \ {0}
  /\ ClockBound \in Nat
  /\ PutBound \in Nat

VARIABLES
  entries,     (* the Map: reference -> [basis, expiresAt, bytes, sequence] *)
  bytes,       (* this.bytes                                                *)
  sequence,    (* this.sequence                                             *)
  clock,       (* now()                                                     *)
  answer       (* what the last get returned                                *)

vars == <<entries, bytes, sequence, clock, answer>>

CacheEntry ==
  [basis : Bases, expiresAt : Nat, bytes : 0 .. MaxBytes, sequence : Nat]

Held == DOMAIN entries

Live == {r \in Held : entries[r].expiresAt > clock}

\* Total of the recorded sizes of a set of entries: the number of bytes they
\* consist of, each byte a pair of a reference and an index.
BytesIn(refs) ==
  {b \in refs \X (1 .. MaxBytes) : b[2] <= entries[b[1]].bytes}

BytesOf(refs) == Cardinality(BytesIn(refs))

Init ==
  /\ entries = [r \in {} |-> NoBasis]
  /\ bytes = 0
  /\ sequence = 0
  /\ clock = 0
  /\ answer = NoBasis

-------------------------------------------------------------------------------
(* evictExpired, then the evictOldest loop.                                *)

\* The byte counter after evictExpired.
BytesAfterExpiry == bytes - BytesOf(Held \ Live)

\* Evicting oldest first leaves the entries from some sequence number on.
From(cut) == {r \in Live : entries[r].sequence >= cut}

\* Mutant of Fits: the entry limit is tested before the new entry is counted.
FitsOneMore(cut, size) ==
  /\ Cardinality(From(cut)) <= MaxEntries
  /\ BytesAfterExpiry - BytesOf(Live \ From(cut)) + size <= MaxBytes

\* The loop condition is false: the incoming basis fits beside those left.
Fits(cut, size) ==
  /\ Cardinality(From(cut)) < MaxEntries
  /\ BytesAfterExpiry - BytesOf(Live \ From(cut)) + size <= MaxBytes

\* Mutant of StopsAt: the loop evicts on after it has made room.
StopsAnywhere(cut, size) == Fits(cut, size)

\* The loop stops as soon as its condition is false.
StopsAt(cut, size) ==
  /\ Fits(cut, size)
  /\ \A earlier \in 0 .. cut - 1 : ~Fits(earlier, size)

\* The entry that put(basis) stores.
Entry(basis) ==
  [basis |-> basis, expiresAt |-> clock + TtlMs, bytes |-> ByteLength[basis],
   sequence |-> sequence]

\* put(basis) of a basis that is within maxBytes.  The loop over the
\* reference factory ends with a reference that no entry left has.
Put(basis, ref) ==
  LET size == ByteLength[basis] IN
  /\ size <= MaxBytes
  /\ sequence < PutBound
  /\ \E cut \in 0 .. sequence :
       /\ StopsAt(cut, size)
       /\ ref \notin From(cut)
       /\ entries' = [r \in From(cut) \cup {ref} |->
                        IF r = ref THEN Entry(basis) ELSE entries[r]]
       /\ bytes' = BytesAfterExpiry - BytesOf(Live \ From(cut)) + size
  /\ sequence' = sequence + 1
  /\ UNCHANGED <<clock, answer>>

\* put(basis) of a basis over maxBytes throws, after evictExpired has run.
PutTooLarge(basis) ==
  /\ ByteLength[basis] > MaxBytes
  /\ entries' = Restrict(entries, Live)
  /\ bytes' = BytesAfterExpiry
  /\ UNCHANGED <<sequence, clock, answer>>

-------------------------------------------------------------------------------
\* Mutant of Get: the time to live is not looked at.
GetStale(ref) ==
  /\ answer' = IF ref \in Held THEN entries[ref].basis ELSE NoBasis
  /\ UNCHANGED <<entries, bytes, sequence, clock>>

\* get(reference) of an absent or an unexpired entry.
Get(ref) ==
  /\ ref \in Held => ref \in Live
  /\ answer' = IF ref \in Held THEN entries[ref].basis ELSE NoBasis
  /\ UNCHANGED <<entries, bytes, sequence, clock>>

\* Mutant of GetExpired: the bytes of the deleted entry stay counted.
GetExpiredKeepsBytes(ref) ==
  /\ ref \in Held \ Live
  /\ entries' = Restrict(entries, Held \ {ref})
  /\ answer' = NoBasis
  /\ UNCHANGED <<bytes, sequence, clock>>

\* get(reference) of an expired entry deletes it and answers undefined.
GetExpired(ref) ==
  /\ ref \in Held \ Live
  /\ entries' = Restrict(entries, Held \ {ref})
  /\ bytes' = bytes - entries[ref].bytes
  /\ answer' = NoBasis
  /\ UNCHANGED <<sequence, clock>>

\* clear().
Clear ==
  /\ entries' = [r \in {} |-> NoBasis]
  /\ bytes' = 0
  /\ UNCHANGED <<sequence, clock, answer>>

Tick ==
  /\ clock < ClockBound
  /\ clock' = clock + 1
  /\ UNCHANGED <<entries, bytes, sequence, answer>>

Next ==
  \/ \E basis \in Bases, ref \in Refs : Put(basis, ref)
  \/ \E basis \in Bases : PutTooLarge(basis)
  \/ \E ref \in Refs : Get(ref)
  \/ \E ref \in Refs : GetExpired(ref)
  \/ Clear
  \/ Tick

Spec == Init /\ [][Next]_vars

-------------------------------------------------------------------------------
(* Properties.                                                             *)

\* Every entry is a well-formed cache entry and the counters are numbers.
TypeOK ==
  /\ Held \subseteq Refs
  /\ \A r \in Held : entries[r] \in CacheEntry
  /\ bytes \in Int
  /\ sequence \in Nat
  /\ clock \in Nat
  /\ answer \in Bases \cup {NoBasis}

\* The running byte counter is the size of what is held: an eviction path
\* that forgot its subtraction would let the cache outgrow its limit, or shut
\* it for good.
BytesAccounted == bytes = BytesOf(Held)

\* The cache never holds more than maxEntries entries nor maxBytes bytes.
WithinBounds ==
  /\ Cardinality(Held) <= MaxEntries
  /\ bytes <= MaxBytes

\* Both, in every order of puts, gets, expiries, evictions and clears.
AccountedWithinBounds == BytesAccounted /\ WithinBounds

\* Sequence numbers order the entries: evictOldest always has one oldest
\* entry, older entries expire no later, and the counter is ahead of them all.
SequenceOrdersEntries ==
  \A r, s \in Held :
    /\ entries[r].sequence < sequence
    /\ entries[r].sequence = entries[s].sequence => r = s
    /\ entries[r].sequence < entries[s].sequence
         => entries[r].expiresAt <= entries[s].expiresAt

\* A put gives up an unexpired basis only when keeping it, together with
\* everything newer, leaves no room for the new one: neither a newer entry
\* nor more entries than necessary are lost.
EvictsOnlyForRoom ==
  [][\A basis \in Bases, ref \in Refs :
       Put(basis, ref) =>
         \A lost \in Live :
           (lost \notin DOMAIN entries' \/ entries'[lost] # entries[lost])
           => LET newer == From(entries[lost].sequence) IN
              \/ Cardinality(newer) + 1 > MaxEntries
              \/ BytesOf(newer) + ByteLength[basis] > MaxBytes]_vars

\* The bases that a reference still names.
LiveStore == [r \in Live |-> entries[r].basis]

Store == INSTANCE BasisStore WITH store <- LiveStore

\* The cache implements what its callers rely on: a reference names the basis
\* it was handed out for, and an expired or evicted one names nothing.
ImplementsStore == Store!StoreSpec

===============================================================================
