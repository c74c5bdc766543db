---------------------------- MODULE BloomFilter ----------------------------
(***************************************************************************)
(* The two-phase Bloom filter of clusterduck/src/routing/bloomfilter.cpp,  *)
(* with which a duck recognises the message identifiers (MUIDs) it has     *)
(* already handled.  One filter is active and takes the new identifiers,   *)
(* the other is frozen and is only read; after maxMsgs additions they swap *)
(* and the one that becomes active is cleared.                             *)
(*                                                                         *)
(* A filter is the set of the bits that are 1 in its sectors.  A call of   *)
(* bloom_add is one action: this is the filter as one thread uses it.      *)
(* BloomThreads splits the call into the accesses it is made of.           *)
(***************************************************************************)
EXTENDS Naturals, FiniteSets

CONSTANTS
  Muid,       \* message identifiers
  numHashes,  \* hash functions (BloomFilter(312, 2, 32, 100) in the code: 2)
  totalBits,  \* numSectors * bitsPerSector
  maxMsgs,    \* additions before the filters swap
  Djb2        \* Djb2[m][i]: djb2Hash of m under the i-th random seed

ASSUME BloomAssumption ==
  /\ numHashes \in Nat \ {0}
  /\ totalBits \in Nat \ {0}
  /\ numHashes <= totalBits
  /\ maxMsgs \in Nat \ {0}
  /\ Djb2 \in [Muid -> [1..numHashes -> Nat]]

VARIABLES
  filter,        \* filter[1] is filter1, filter[2] is filter2
  activeFilter,  \* which of the two takes additions
  nMsg,          \* additions since the last swap
  age            \* history: additions made after the latest one of a MUID

bloomVars == <<filter, activeFilter, nMsg, age>>

Bits == 0 .. totalBits - 1

\* The bit the probing loop settles on: the first one at or after h, cyclically,
\* that no earlier hash function of the same message took.
FirstFree(h, taken) ==
  CHOOSE b \in Bits \ taken :
    \E k \in 0 .. totalBits - 1 :
      /\ b = (h + k) % totalBits
      /\ \A j \in 0 .. k - 1 : (h + j) % totalBits \in taken

\* set_hash_results: numHashes distinct bits per message.
HashResults ==
  [m \in Muid |->
    CHOOSE r \in [1..numHashes -> Bits] :
      \A i \in 1..numHashes :
        r[i] = FirstFree(Djb2[m][i] % totalBits, {r[j] : j \in 1 .. i - 1})]

\* set_sectors_and_slots addresses each of them by a sector and a one-bit mask.
Slots == [m \in Muid |-> {HashResults[m][i] : i \in 1..numHashes}]

is_collision(f, m) == Slots[m] \subseteq f

bloom_check(m) == is_collision(filter[1], m) \/ is_collision(filter[2], m)

Other(f) == 3 - f

Horizon == 2 * maxMsgs   \* cap of the history: older additions look alike

MinOf(a, b) == IF a <= b THEN a ELSE b

Grown(m) ==
  [x \in Muid |-> IF x = m THEN 0 ELSE MinOf(age[x] + 1, Horizon)]

\* Mutant: the swap clears the filter it has just frozen.
bloom_add_ClearsFrozen(m) ==
  LET added == [filter EXCEPT ![activeFilter] = @ \cup Slots[m]]
      swap  == nMsg + 1 >= maxMsgs
  IN  /\ filter' = IF swap THEN [added EXCEPT ![activeFilter] = {}] ELSE added
      /\ activeFilter' = IF swap THEN Other(activeFilter) ELSE activeFilter
      /\ nMsg' = IF swap THEN 0 ELSE nMsg + 1
      /\ age' = Grown(m)

\* Mutant: the swap forgets to clear the filter that becomes active.
bloom_add_NoClear(m) ==
  LET swap == nMsg + 1 >= maxMsgs
  IN  /\ filter' = [filter EXCEPT ![activeFilter] = @ \cup Slots[m]]
      /\ activeFilter' = IF swap THEN Other(activeFilter) ELSE activeFilter
      /\ nMsg' = IF swap THEN 0 ELSE nMsg + 1
      /\ age' = Grown(m)

bloom_add(m) ==
  LET added == [filter EXCEPT ![activeFilter] = @ \cup Slots[m]]
  IN  /\ IF nMsg + 1 >= maxMsgs
         THEN /\ filter' = [added EXCEPT ![Other(activeFilter)] = {}]
              /\ activeFilter' = Other(activeFilter)
              /\ nMsg' = 0
         ELSE /\ filter' = added
              /\ activeFilter' = activeFilter
              /\ nMsg' = nMsg + 1
      /\ age' = Grown(m)

BloomInit ==
  /\ filter = [f \in {1, 2} |-> {}]
  /\ activeFilter = 1
  /\ nMsg = 0
  /\ age = [m \in Muid |-> Horizon]

BloomNext == \E m \in Muid : bloom_add(m)

BloomSpec == BloomInit /\ [][BloomNext]_bloomVars

-----------------------------------------------------------------------------
\* bloom_add keeps two filters of message bits, one of them active, and never
\* counts as far as maxMsgs between two calls.
BloomTypeOK ==
  /\ filter \in [{1, 2} -> SUBSET UNION {Slots[m] : m \in Muid}]
  /\ activeFilter \in {1, 2}
  /\ nMsg \in 0 .. maxMsgs - 1
  /\ age \in [Muid -> 0 .. Horizon]

\* No false negative in the window: an identifier that is among the last maxMsgs
\* additions is reported as seen, through every swap (the filter that bloom_add
\* clears never holds the only trace of it).
RecentIsSeen == \A m \in Muid : age[m] < maxMsgs => bloom_check(m)

\* The filter does not fill up: whatever bloom_check reports as seen is covered
\* by the bits of the additions of the current and the previous phase; the bits
\* of anything older are gone.
OldIsForgotten ==
  \A m \in Muid : bloom_check(m) =>
    Slots[m] \subseteq
      UNION {Slots[x] : x \in {y \in Muid : age[y] < maxMsgs + nMsg}}

\* The strengthening that makes both inductive: the active filter holds exactly
\* the additions of this phase, the frozen one covers those of the phase before
\* and nothing older.
PhaseInv ==
  LET active == filter[activeFilter]
      frozen == filter[Other(activeFilter)]
  IN  /\ \A m \in Muid :
           /\ age[m] < nMsg => Slots[m] \subseteq active
           /\ age[m] >= nMsg /\ age[m] < nMsg + maxMsgs => Slots[m] \subseteq frozen
      /\ \A b \in active : \E m \in Muid : age[m] < nMsg /\ b \in Slots[m]
      /\ \A b \in frozen : \E m \in Muid : age[m] < nMsg + maxMsgs /\ b \in Slots[m]
=============================================================================
