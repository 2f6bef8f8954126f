---------------------------- MODULE BasisCacheProofs ----------------------------
(***************************************************************************)
(* Proofs about BasisCache, for any time to live, limits, references and   *)
(* sizes: the byte counter and the limits are respected whatever mixture   *)
(* of puts, expiries, evictions and clears happens.                        *)
(***************************************************************************)
EXTENDS BasisCache, FiniteSetTheorems, TLAPS

-------------------------------------------------------------------------------
(* Counting bytes.                                                         *)

\* The bytes of finitely many entries are finitely many.
LEMMA BytesInFinite ==
  ASSUME NEW S, IsFiniteSet(S)
  PROVE  /\ IsFiniteSet(BytesIn(S))
         /\ BytesOf(S) \in Nat
<1>1. IsFiniteSet(1 .. MaxBytes)
  BY BasisCacheAssumption, FS_Interval
<1>2. IsFiniteSet(S \X (1 .. MaxBytes))
  BY <1>1, FS_Product
<1>3. BytesIn(S) \subseteq S \X (1 .. MaxBytes)
  BY DEF BytesIn
<1>4. IsFiniteSet(BytesIn(S))
  BY <1>2, <1>3, FS_Subset
<1> QED
  BY <1>4, FS_CardinalityType DEF BytesOf

\* Taking entries away takes exactly their bytes away.
LEMMA BytesOfDifference ==
  ASSUME NEW S, IsFiniteSet(S), NEW T, T \subseteq S
  PROVE  BytesOf(T) = BytesOf(S) - BytesOf(S \ T)
<1>1. IsFiniteSet(T) /\ IsFiniteSet(S \ T)
  BY FS_Subset
<1>2. BytesIn(S) = BytesIn(T) \cup BytesIn(S \ T)
  <2>1. \A b : b \in S \X (1 .. MaxBytes)
              <=> b \in T \X (1 .. MaxBytes) \/ b \in (S \ T) \X (1 .. MaxBytes)
    OBVIOUS
  <2> QED
    BY <2>1 DEF BytesIn
<1>3. BytesIn(T) \cap BytesIn(S \ T) = {}
  <2>1. (T \X (1 .. MaxBytes)) \cap ((S \ T) \X (1 .. MaxBytes)) = {}
    OBVIOUS
  <2> QED
    BY <2>1 DEF BytesIn
<1>4. /\ IsFiniteSet(BytesIn(T)) /\ IsFiniteSet(BytesIn(S \ T))
      /\ BytesOf(T) \in Nat /\ BytesOf(S \ T) \in Nat
  BY <1>1, BytesInFinite
<1>5. Cardinality(BytesIn(T) \cap BytesIn(S \ T)) = 0
  BY <1>3, FS_EmptySet
<1>6. BytesOf(S) = BytesOf(T) + BytesOf(S \ T)
  <2>1. Cardinality(BytesIn(T) \cup BytesIn(S \ T))
          = Cardinality(BytesIn(T)) + Cardinality(BytesIn(S \ T))
              - Cardinality(BytesIn(T) \cap BytesIn(S \ T))
    BY <1>4, FS_Union
  <2> QED
    BY <1>2, <1>4, <1>5, <2>1 DEF BytesOf
<1> QED
  BY <1>4, <1>6

\* The bytes of one entry are as many as it records.
LEMMA BytesOfOne ==
  ASSUME NEW r, NEW n \in 0 .. MaxBytes,
         NEW B, B = {b \in {r} \X (1 .. MaxBytes) : b[2] <= n}
  PROVE  IsFiniteSet(B) /\ Cardinality(B) = n
<1> DEFINE f == [i \in 1 .. n |-> <<r, i>>]
<1>1. MaxBytes \in Nat
  BY BasisCacheAssumption
<1>2. f \in [1 .. n -> B]
  BY <1>1
<1>3. IsInjective(f)
  BY DEF IsInjective
<1>4. \A b \in B : \E i \in 1 .. n : f[i] = b
  <2> TAKE b \in B
  <2>1. b = <<r, b[2]>> /\ b[2] \in 1 .. n
    BY <1>1
  <2> QED
    BY <2>1
<1>5. f \in Bijection(1 .. n, B)
  BY <1>2, <1>3, <1>4 DEF Bijection, Injection, Surjection
<1>6. ExistsBijection(1 .. n, B)
  BY <1>5 DEF ExistsBijection
<1>7. IsFiniteSet(1 .. n) /\ Cardinality(1 .. n) = n
  BY <1>1, FS_Interval
<1> QED
  BY <1>6, <1>7, FS_Bijection

\* Entries that are untouched keep their bytes.
LEMMA BytesInUnchanged ==
  ASSUME NEW S, \A r \in S : entries'[r] = entries[r]
  PROVE  BytesOf(S)' = BytesOf(S)
BY DEF BytesOf, BytesIn

-------------------------------------------------------------------------------
(* The inductive invariant.                                                *)

\* No entry expires later than one stored now would: the order of the sequence
\* numbers is also the order of expiry.
ExpiryBounded == \A r \in Held : entries[r].expiresAt <= clock + TtlMs

IInv ==
  /\ TypeOK
  /\ IsFiniteSet(Held)
  /\ BytesAccounted
  /\ WithinBounds
  /\ SequenceOrdersEntries
  /\ ExpiryBounded

LEMMA InitIInv == Init => IInv
<1> SUFFICES ASSUME Init
             PROVE  IInv
  OBVIOUS
<1>1. Held = {}
  BY DEF Init, Held
<1>2. TypeOK
  BY <1>1 DEF Init, TypeOK
<1>3. IsFiniteSet(Held) /\ Cardinality(Held) = 0
  BY <1>1, FS_EmptySet
<1>4. BytesOf(Held) = 0
  <2>1. BytesIn(Held) = {}
    BY <1>1 DEF BytesIn
  <2> QED
    BY <2>1, FS_EmptySet DEF BytesOf
<1>5. BytesAccounted /\ WithinBounds
  BY <1>3, <1>4, BasisCacheAssumption
     DEF Init, BytesAccounted, WithinBounds
<1>6. SequenceOrdersEntries /\ ExpiryBounded
  BY <1>1 DEF SequenceOrdersEntries, ExpiryBounded
<1> QED
  BY <1>2, <1>3, <1>5, <1>6 DEF IInv

\* Forgetting entries, with their bytes subtracted, preserves the invariant.
\* Every way of losing an entry - expiry in get or put, clear - is one.
LEMMA ForgettingKeepsIInv ==
  ASSUME IInv, NEW S, S \subseteq Held,
         entries' = Restrict(entries, S),
         bytes' = bytes - BytesOf(Held \ S),
         UNCHANGED <<sequence, clock>>,
         answer' \in Bases \cup {NoBasis}
  PROVE  IInv'
<1> USE DEF IInv
<1>1. Held' = S /\ \A r \in S : entries'[r] = entries[r]
  BY DEF Held, Restrict
<1>2. IsFiniteSet(Held) /\ IsFiniteSet(S) /\ Cardinality(S) <= Cardinality(Held)
  BY FS_Subset
<1>3. BytesOf(S) = BytesOf(Held) - BytesOf(Held \ S)
  BY <1>2, BytesOfDifference
<1>4. BytesOf(Held)' = BytesOf(S)
  <2>1. BytesOf(S)' = BytesOf(S)
    BY <1>1, BytesInUnchanged
  <2> QED
    BY <1>1, <2>1
<1>5. /\ BytesOf(S) \in Nat /\ BytesOf(Held) \in Nat
      /\ BytesOf(Held \ S) \in Nat
  BY <1>2, BytesInFinite, FS_Subset
<1>6. BytesAccounted'
  BY <1>3, <1>4 DEF BytesAccounted
<1>7. TypeOK'
  BY <1>1, <1>5 DEF TypeOK
<1>8. WithinBounds'
  <2>1. Cardinality(Held') <= MaxEntries
    BY <1>1, <1>2, FS_CardinalityType, BasisCacheAssumption DEF WithinBounds
  <2>2. bytes' <= MaxBytes
    BY <1>5, BasisCacheAssumption DEF WithinBounds, TypeOK
  <2> QED
    BY <2>1, <2>2 DEF WithinBounds
<1>9. SequenceOrdersEntries' /\ ExpiryBounded'
  BY <1>1 DEF SequenceOrdersEntries, ExpiryBounded, TypeOK
<1> QED
  BY <1>1, <1>2, <1>6, <1>7, <1>8, <1>9

\* put: what is left of the unexpired entries, and the new one.
LEMMA PutKeepsIInv ==
  ASSUME IInv, NEW basis \in Bases, NEW ref \in Refs, Put(basis, ref)
  PROVE  IInv'
<1> USE DEF IInv
<1> DEFINE size == ByteLength[basis]
           entry == [basis |-> basis, expiresAt |-> clock + TtlMs,
                     bytes |-> size, sequence |-> sequence]
<1>1. PICK cut \in 0 .. sequence :
        /\ Fits(cut, size)
        /\ ref \notin From(cut)
        /\ entries' = [r \in From(cut) \cup {ref} |->
                         IF r = ref THEN entry ELSE entries[r]]
        /\ bytes' = BytesAfterExpiry - BytesOf(Live \ From(cut)) + size
  BY DEF Put, StopsAt, Entry
<1>2. size \in 0 .. MaxBytes /\ sequence' = sequence + 1 /\ UNCHANGED <<clock, answer>>
  BY BasisCacheAssumption DEF Put
<1> DEFINE K == From(cut)
<1> HIDE DEF K
<1>3. K \subseteq Live /\ Live \subseteq Held /\ ref \notin K
  BY <1>1 DEF K, From, Live
<1>4. /\ Held' = K \cup {ref}
      /\ entries'[ref] = entry
      /\ \A r \in K : entries'[r] = entries[r]
  BY <1>1, <1>3 DEF Held, K
<1>5. /\ IsFiniteSet(Live) /\ IsFiniteSet(K) /\ Held \ (Held \ Live) = Live
      /\ IsFiniteSet(Live \ K)
  BY <1>3, FS_Subset
<1>6. bytes' = BytesOf(K) + size
  <2>1. BytesAfterExpiry = BytesOf(Live)
    BY <1>3, BytesOfDifference DEF BytesAfterExpiry, BytesAccounted
  <2>2. BytesOf(K) = BytesOf(Live) - BytesOf(Live \ K)
    BY <1>3, <1>5, BytesOfDifference
  <2> QED
    BY <1>1, <2>1, <2>2 DEF K
<1>7. BytesOf(Held)' = BytesOf(K) + size
  <2> DEFINE B == {b \in {ref} \X (1 .. MaxBytes) : b[2] <= size}
  <2>1. IsFiniteSet(B) /\ Cardinality(B) = size
    BY <1>2, BytesOfOne
  <2>2. BytesIn(Held)' = BytesIn(K) \cup B
    <3>1. \A b : b \in (K \cup {ref}) \X (1 .. MaxBytes)
                <=> b \in K \X (1 .. MaxBytes) \/ b \in {ref} \X (1 .. MaxBytes)
      OBVIOUS
    <3>2. \A b \in K \X (1 .. MaxBytes) : entries'[b[1]].bytes = entries[b[1]].bytes
      BY <1>4
    <3>3. \A b \in {ref} \X (1 .. MaxBytes) : entries'[b[1]].bytes = size
      BY <1>4
    <3> QED
      BY <1>4, <3>1, <3>2, <3>3 DEF BytesIn
  <2>3. BytesIn(K) \cap B = {}
    BY <1>3 DEF BytesIn
  <2>4. IsFiniteSet(BytesIn(K)) /\ BytesOf(K) \in Nat
    BY <1>5, BytesInFinite
  <2>5. Cardinality(BytesIn(K) \cap B) = 0
    BY <2>3, FS_EmptySet
  <2>6. Cardinality(BytesIn(K) \cup B)
          = Cardinality(BytesIn(K)) + Cardinality(B) - Cardinality(BytesIn(K) \cap B)
    BY <2>1, <2>4, FS_Union
  <2> HIDE DEF B
  <2> QED
    BY <1>2, <2>1, <2>2, <2>4, <2>5, <2>6 DEF BytesOf
<1>8. BytesAccounted'
  BY <1>6, <1>7 DEF BytesAccounted
<1>9. WithinBounds'
  <2>1. Cardinality(K) < MaxEntries /\ bytes' <= MaxBytes
    BY <1>1 DEF Fits, K
  <2>2. Cardinality(K \cup {ref}) = Cardinality(K) + 1
    BY <1>3, <1>5, FS_AddElement
  <2>3. Cardinality(K) \in Nat
    BY <1>5, FS_CardinalityType
  <2> QED
    BY <1>4, <2>1, <2>2, <2>3, BasisCacheAssumption DEF WithinBounds
<1>10. IsFiniteSet(Held)'
  BY <1>4, <1>5, FS_AddElement
<1>11. TypeOK'
  <2>1. entry \in CacheEntry
    BY <1>2, BasisCacheAssumption DEF CacheEntry, TypeOK
  <2>2. BytesOf(K) \in Nat
    BY <1>5, BytesInFinite
  <2>3. bytes' \in Int
    BY <1>2, <1>6, <2>2, BasisCacheAssumption
  <2>4. Held' \subseteq Refs /\ \A r \in Held' : entries'[r] \in CacheEntry
    BY <1>3, <1>4, <2>1 DEF TypeOK
  <2> QED
    BY <1>2, <2>3, <2>4 DEF TypeOK, CacheEntry
<1>12. \A r \in K : /\ entries[r].sequence < sequence
                    /\ entries[r].sequence \in Nat
                    /\ entries[r].expiresAt \in Nat
                    /\ entries[r].expiresAt <= clock + TtlMs
  BY <1>3 DEF SequenceOrdersEntries, ExpiryBounded, TypeOK, CacheEntry
<1>13. SequenceOrdersEntries'
  BY <1>2, <1>3, <1>4, <1>12 DEF SequenceOrdersEntries, TypeOK
<1>14. ExpiryBounded'
  BY <1>2, <1>4, <1>12, BasisCacheAssumption DEF ExpiryBounded, TypeOK
<1> QED
  BY <1>8, <1>9, <1>10, <1>11, <1>13, <1>14

\* get of an expired entry subtracts exactly the bytes of that entry.
LEMMA GetExpiredKeepsIInv ==
  ASSUME IInv, NEW ref \in Refs, GetExpired(ref)
  PROVE  IInv'
<1> DEFINE S == Held \ {ref}
<1>1. S \subseteq Held /\ Held \ S = {ref}
  BY DEF GetExpired
<1>2. entries[ref].bytes \in 0 .. MaxBytes
  BY DEF GetExpired, IInv, TypeOK, CacheEntry
<1>3. BytesOf({ref}) = entries[ref].bytes
  <2>1. BytesIn({ref})
          = {b \in {ref} \X (1 .. MaxBytes) : b[2] <= entries[ref].bytes}
    <3>1. \A b \in {ref} \X (1 .. MaxBytes) : b[1] = ref
      OBVIOUS
    <3> QED
      BY <3>1 DEF BytesIn
  <2> QED
    BY <1>2, <2>1, BytesOfOne DEF BytesOf
<1>4. /\ entries' = Restrict(entries, S)
      /\ bytes' = bytes - BytesOf(Held \ S)
      /\ UNCHANGED <<sequence, clock>>
      /\ answer' \in Bases \cup {NoBasis}
  BY <1>1, <1>3 DEF GetExpired
<1> QED
  BY <1>1, <1>4, ForgettingKeepsIInv

\* clear resets the counter to zero, which is what subtracting every entry
\* leaves.
LEMMA ClearKeepsIInv ==
  ASSUME IInv, Clear
  PROVE  IInv'
<1>1. Held \ {} = Held /\ {} \subseteq Held
  OBVIOUS
<1>2. entries' = Restrict(entries, {})
  BY DEF Clear, Restrict
<1>3. bytes' = bytes - BytesOf(Held \ {})
  <2>1. BytesOf(Held) \in Nat
    BY BytesInFinite DEF IInv
  <2> QED
    BY <1>1, <2>1 DEF Clear, IInv, BytesAccounted
<1> QED
  BY <1>1, <1>2, <1>3, ForgettingKeepsIInv DEF Clear, IInv, TypeOK

LEMMA NextKeepsIInv ==
  ASSUME IInv, [Next]_vars
  PROVE  IInv'
<1>1. ASSUME NEW basis \in Bases, NEW ref \in Refs, Put(basis, ref)
      PROVE  IInv'
  BY <1>1, PutKeepsIInv
<1>2. ASSUME NEW basis \in Bases, PutTooLarge(basis)
      PROVE  IInv'
  <2>1. Live \subseteq Held
    BY DEF Live
  <2> QED
    BY <1>2, <2>1, ForgettingKeepsIInv
       DEF PutTooLarge, BytesAfterExpiry, IInv, TypeOK
<1>3. ASSUME NEW ref \in Refs, Get(ref)
      PROVE  IInv'
  <2>1. UNCHANGED <<entries, bytes, sequence, clock>>
    BY <1>3 DEF Get
  <2>2. answer' \in Bases \cup {NoBasis}
    BY <1>3 DEF Get, IInv, TypeOK, CacheEntry
  <2> QED
    BY <2>1, <2>2
       DEF IInv, TypeOK, Held, BytesAccounted, BytesOf, BytesIn, WithinBounds,
           SequenceOrdersEntries, ExpiryBounded
<1>4. ASSUME NEW ref \in Refs, GetExpired(ref)
      PROVE  IInv'
  BY <1>4, GetExpiredKeepsIInv
<1>5. CASE Clear
  BY <1>5, ClearKeepsIInv
<1>6. CASE Tick
  <2>1. /\ UNCHANGED <<entries, bytes, sequence, answer>>
        /\ clock \in Nat /\ clock' = clock + 1
    BY <1>6 DEF Tick, IInv, TypeOK
  <2>2. ExpiryBounded'
    BY <2>1, BasisCacheAssumption
       DEF IInv, TypeOK, CacheEntry, ExpiryBounded, Held
  <2> QED
    BY <2>1, <2>2
       DEF IInv, TypeOK, Held, BytesAccounted, BytesOf, BytesIn, WithinBounds,
           SequenceOrdersEntries
<1>7. CASE UNCHANGED vars
  BY <1>7
     DEF vars, IInv, TypeOK, Held, BytesAccounted, BytesOf, BytesIn,
         WithinBounds, SequenceOrdersEntries, ExpiryBounded
<1> QED
  BY <1>1, <1>2, <1>3, <1>4, <1>5, <1>6, <1>7 DEF Next

THEOREM Invariance == Spec => []IInv
<1>1. IInv /\ [Next]_vars => IInv'
  BY NextKeepsIInv
<1> QED
  BY InitIInv, <1>1, PTL DEF Spec

-------------------------------------------------------------------------------
(* What follows from it.                                                   *)

\* Every reachable state is well typed.
THEOREM TypeCorrect == Spec => []TypeOK
<1>1. IInv => TypeOK
  BY DEF IInv
<1> QED
  BY Invariance, <1>1, PTL

\* The byte counter is the size of what the cache holds, and the cache never
\* exceeds its entry limit nor its byte limit.
THEOREM LimitsHold == Spec => []AccountedWithinBounds
<1>1. IInv => AccountedWithinBounds
  BY DEF IInv, AccountedWithinBounds
<1> QED
  BY Invariance, <1>1, PTL

\* Sequence numbers are unique and order the entries by expiry.
THEOREM SequenceIsOrder == Spec => []SequenceOrdersEntries
<1>1. IInv => SequenceOrdersEntries
  BY DEF IInv
<1> QED
  BY Invariance, <1>1, PTL

\* An unexpired basis is given up only for lack of room: the first sequence
\* number that fits is taken, so every earlier one did not.
THEOREM EvictionIsMinimal == Spec => EvictsOnlyForRoom
<1> DEFINE Minimal ==
      \A basis \in Bases, ref \in Refs :
        Put(basis, ref) =>
          \A lost \in Live :
            (lost \notin DOMAIN entries' \/ entries'[lost] # entries[lost])
            => LET newer == From(entries[lost].sequence) IN
               \/ Cardinality(newer) + 1 > MaxEntries
               \/ BytesOf(newer) + ByteLength[basis] > MaxBytes
<1>1. ASSUME IInv, NEW basis \in Bases, NEW ref \in Refs, Put(basis, ref),
             NEW lost \in Live,
             lost \notin DOMAIN entries' \/ entries'[lost] # entries[lost]
      PROVE  \/ Cardinality(From(entries[lost].sequence)) + 1 > MaxEntries
             \/ BytesOf(From(entries[lost].sequence)) + ByteLength[basis] > MaxBytes
  <2> DEFINE size == ByteLength[basis]
             q == entries[lost].sequence
             N == From(q)
  <2>1. PICK cut \in 0 .. sequence :
          /\ StopsAt(cut, size)
          /\ ref \notin From(cut)
          /\ \A r \in From(cut) : r \in DOMAIN entries' /\ entries'[r] = entries[r]
    BY <1>1 DEF Put
  <2>2. q \in Nat
    BY <1>1 DEF Live, IInv, TypeOK, CacheEntry
  <2>3. q < cut
    BY <1>1, <2>1, <2>2 DEF From
  <2>4. ~Fits(q, size)
    BY <2>1, <2>2, <2>3 DEF StopsAt
  <2>5. N \subseteq Live /\ Live \subseteq Held
    BY DEF From, Live
  <2>6. IsFiniteSet(N) /\ IsFiniteSet(Live) /\ Held \ (Held \ Live) = Live
    BY <1>1, <2>5, FS_Subset DEF IInv
  <2>7. BytesAfterExpiry - BytesOf(Live \ N) = BytesOf(N)
    <3>1. BytesAfterExpiry = BytesOf(Live)
      BY <1>1, <2>5, BytesOfDifference
         DEF BytesAfterExpiry, BytesAccounted, IInv
    <3> QED
      BY <2>5, <2>6, <3>1, BytesOfDifference
  <2>8. Cardinality(N) \in Nat /\ BytesOf(N) \in Nat /\ size \in Nat
    BY <2>6, FS_CardinalityType, BytesInFinite, BasisCacheAssumption
  <2>9. \/ ~(Cardinality(N) < MaxEntries)
        \/ ~(BytesOf(N) + size <= MaxBytes)
    BY <2>4, <2>7 DEF Fits
  <2> HIDE DEF N, size
  <2> QED
    BY <2>8, <2>9, BasisCacheAssumption DEF N, size
<1>2. IInv /\ [Next]_vars => [Minimal]_vars
  BY <1>1
<1> QED
  BY Invariance, <1>2, PTL DEF Spec, EvictsOnlyForRoom

-------------------------------------------------------------------------------
(* The cache implements BasisStore.                                        *)

\* An action on the cache is an action on the unexpired bases, or changes
\* nothing that a caller can see.
LEMMA StepImplementsStore ==
  ASSUME IInv, [Next]_vars
  PROVE  [Store!StoreNext]_(Store!storeVars)
<1> USE DEF IInv, Store!StoreNext, Store!storeVars
<1>1. Live \subseteq Held /\ Held \subseteq Refs
  BY DEF Live, TypeOK
<1>2. ASSUME NEW basis \in Bases, NEW ref \in Refs, Put(basis, ref)
      PROVE  Store!StoreNext
  <2>1. PICK cut \in 0 .. sequence :
          /\ ref \notin From(cut)
          /\ entries' = [r \in From(cut) \cup {ref} |->
                           IF r = ref THEN [basis |-> basis,
                                            expiresAt |-> clock + TtlMs,
                                            bytes |-> ByteLength[basis],
                                            sequence |-> sequence]
                           ELSE entries[r]]
    BY <1>2 DEF Put, Entry
  <2>2. From(cut) \subseteq Live /\ From(cut) \in SUBSET Refs
    BY <1>1 DEF From
  <2>3. clock' = clock /\ answer' = answer
    BY <1>2 DEF Put
  <2>4. Live' = From(cut) \cup {ref}
    BY <2>1, <2>2, <2>3, BasisCacheAssumption DEF Live, Held, TypeOK
  <2>5. LiveStore' = [r \in From(cut) \cup {ref} |->
                        IF r = ref THEN basis ELSE LiveStore[r]]
    BY <2>1, <2>2, <2>4 DEF LiveStore
  <2>6. Store!StorePut(basis, ref, From(cut))
    BY <2>1, <2>2, <2>3, <2>5 DEF Store!StorePut, LiveStore
  <2> QED
    BY <2>2, <2>6
<1>3. ASSUME NEW ref \in Refs, Get(ref)
      PROVE  Store!StoreNext
  <2>1. LiveStore' = LiveStore
    BY <1>3 DEF Get, LiveStore, Live, Held
  <2>2. answer' = Store!Lookup(ref)
    BY <1>1, <1>3 DEF Get, LiveStore, Store!Lookup
  <2> QED
    BY <2>1, <2>2 DEF Store!StoreGet
<1>4. ASSUME NEW ref \in Refs, GetExpired(ref)
      PROVE  Store!StoreNext
  <2>1. Live' = Live /\ \A r \in Live : entries'[r] = entries[r]
    BY <1>4 DEF GetExpired, Live, Held, Restrict
  <2>2. LiveStore' = LiveStore
    BY <2>1 DEF LiveStore
  <2>3. answer' = Store!Lookup(ref)
    BY <1>4 DEF GetExpired, LiveStore, Store!Lookup
  <2> QED
    BY <2>2, <2>3 DEF Store!StoreGet
<1>5. ASSUME NEW basis \in Bases, PutTooLarge(basis)
      PROVE  UNCHANGED <<LiveStore, answer>>
  <2>1. Live' = Live /\ \A r \in Live : entries'[r] = entries[r]
    BY <1>5 DEF PutTooLarge, Live, Held, Restrict
  <2> QED
    BY <1>5, <2>1 DEF LiveStore, PutTooLarge
<1>6. ASSUME Clear \/ Tick
      PROVE  Store!StoreNext
  <2>1. /\ Live' \subseteq Live
        /\ \A r \in Live' : entries'[r] = entries[r]
        /\ answer' = answer
    BY <1>6, <1>1
       DEF Clear, Tick, Live, Held, TypeOK, CacheEntry
  <2>2. LiveStore' = Restrict(LiveStore, Live')
    BY <2>1 DEF LiveStore, Restrict
  <2>3. Store!StoreForget(Live')
    <3>1. DOMAIN LiveStore = Live
      BY DEF LiveStore
    <3> QED
      BY <2>1, <2>2, <3>1 DEF Store!StoreForget, Store!Restrict, Restrict
  <2>4. Live' \subseteq Refs
    BY <1>1, <2>1
  <2> QED
    BY <2>3, <2>4
<1>7. CASE UNCHANGED vars
  BY <1>7 DEF vars, LiveStore, Live, Held
<1> QED
  BY <1>2, <1>3, <1>4, <1>5, <1>6, <1>7 DEF Next

\* The cache keeps the promise its callers rely on.
THEOREM CacheImplementsStore == Spec => ImplementsStore
<1>1. Init => Store!StoreInit
  <2> SUFFICES ASSUME Init
               PROVE  Store!StoreInit
    OBVIOUS
  <2>1. Live = {}
    BY DEF Init, Live, Held
  <2> QED
    BY <2>1 DEF Init, Store!StoreInit, LiveStore
<1>2. IInv /\ [Next]_vars => [Store!StoreNext]_(Store!storeVars)
  BY StepImplementsStore
<1> QED
  BY Invariance, <1>1, <1>2, PTL DEF Spec, ImplementsStore, Store!StoreSpec

===============================================================================
