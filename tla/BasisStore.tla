------------------------------ MODULE BasisStore ------------------------------
(***************************************************************************)
(* What the calculation-basis cache promises its two callers               *)
(* (lib/domain/meeting-api.ts): `put` hands out a reference that names     *)
(* exactly the stored basis until the entry is forgotten, `get` answers    *)
(* with that basis or with nothing, and an entry may be forgotten at any   *)
(* time but never altered.  BasisCache implements this specification;      *)
(* MeetingApi is built on it.                                              *)
(***************************************************************************)
EXTENDS Functions

CONSTANTS
  Refs,       (* the references referenceFactory can produce               *)
  Bases,      (* the calculation bases that can be stored                  *)
  NoBasis     (* what `get` answers when it returns undefined              *)

ASSUME BasisStoreAssumption == NoBasis \notin Bases

VARIABLES
  store,      (* the bases that a reference currently names: a function    *)
              (* from a subset of Refs to Bases                            *)
  answer      (* what the last `get` returned                              *)

storeVars == <<store, answer>>

\* What get(ref) returns.
Lookup(ref) == IF ref \in DOMAIN store THEN store[ref] ELSE NoBasis

StoreInit ==
  /\ store = [r \in {} |-> NoBasis]
  /\ answer = NoBasis

\* put(basis): older entries may make room for the new one, which gets a
\* reference that names nothing else.
StorePut(basis, ref, kept) ==
  /\ kept \subseteq DOMAIN store
  /\ ref \notin kept
  /\ store' = [r \in kept \cup {ref} |-> IF r = ref THEN basis ELSE store[r]]
  /\ UNCHANGED answer

StoreGet(ref) ==
  /\ answer' = Lookup(ref)
  /\ UNCHANGED store

\* Entries expire, or clear() drops them all.
StoreForget(kept) ==
  /\ kept \subseteq DOMAIN store
  /\ store' = Restrict(store, kept)
  /\ UNCHANGED answer

StoreNext ==
  \/ \E basis \in Bases, ref \in Refs, kept \in SUBSET Refs :
       StorePut(basis, ref, kept)
  \/ \E ref \in Refs : StoreGet(ref)
  \/ \E kept \in SUBSET Refs : StoreForget(kept)

StoreSpec == StoreInit /\ [][StoreNext]_storeVars

===============================================================================
