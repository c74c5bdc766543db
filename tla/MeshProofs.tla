----------------------------- MODULE MeshProofs -----------------------------
(***************************************************************************)
(* Duplicates: the filter with which a duck recognises a packet, and the   *)
(* mesh whose ducks rely on it.                                            *)
(*                                                                         *)
(* The Bloom filter remembers the last maxMsgs additions and forgets what  *)
(* is older than the previous phase, whatever the identifiers, the hash    *)
(* functions and the sizes are.  Used by one thread, its accesses make     *)
(* bloom_add atomic.                                                       *)
(*                                                                         *)
(* Relaying ends and a hub sees a packet once, in any mesh: for any ducks, *)
(* links, routes and traffic.  What a duck has put on the air is in its    *)
(* filter, what a papa gave to its callback as well, and a new packet has  *)
(* an identifier that no duck has met.                                     *)
(***************************************************************************)
EXTENDS Mesh, BloomThreads, FiniteSetTheorems, WellFoundedInduction, TLAPS

-----------------------------------------------------------------------------
(* The filter                                                              *)

\* Type correctness: each bloom_add leaves filters of message bits, one active
\* filter and a counter below maxMsgs.
THEOREM BloomTypeCorrect == BloomSpec => []BloomTypeOK
<1>1. BloomInit => BloomTypeOK
  BY BloomAssumption DEF BloomInit, BloomTypeOK, Horizon
<1>2. BloomTypeOK /\ [BloomNext]_bloomVars => BloomTypeOK'
  <2> SUFFICES ASSUME BloomTypeOK, [BloomNext]_bloomVars PROVE BloomTypeOK'
    OBVIOUS
  <2>1. ASSUME NEW m \in Muid, bloom_add(m) PROVE BloomTypeOK'
    <3>1. Other(activeFilter) \in {1, 2}
      BY DEF BloomTypeOK, Other
    <3>2. Slots[m] \in SUBSET UNION {Slots[x] : x \in Muid}
      OBVIOUS
    <3>3. [filter EXCEPT ![activeFilter] = @ \cup Slots[m]]
            \in [{1, 2} -> SUBSET UNION {Slots[x] : x \in Muid}]
      BY <3>2 DEF BloomTypeOK
    <3>4. filter' \in [{1, 2} -> SUBSET UNION {Slots[x] : x \in Muid}]
      BY <2>1, <3>1, <3>3 DEF bloom_add
    <3>5. age' \in [Muid -> 0 .. Horizon]
      BY <2>1, BloomAssumption DEF bloom_add, BloomTypeOK, Grown, MinOf, Horizon
    <3>6. activeFilter' \in {1, 2} /\ nMsg' \in 0 .. maxMsgs - 1
      BY <2>1, <3>1, BloomAssumption DEF bloom_add, BloomTypeOK
    <3> QED
      BY <3>4, <3>5, <3>6 DEF BloomTypeOK
  <2>2. CASE UNCHANGED bloomVars
    BY <2>2 DEF bloomVars, BloomTypeOK
  <2> QED
    BY <2>1, <2>2 DEF BloomNext
<1> QED
  BY <1>1, <1>2, PTL DEF BloomSpec

\* One addition keeps the phase invariant, whether or not it swaps the filters.
LEMMA AddKeepsPhase ==
  ASSUME BloomTypeOK, PhaseInv, NEW m \in Muid, bloom_add(m)
  PROVE  PhaseInv'
<1> DEFINE active == filter[activeFilter]
           frozen == filter[Other(activeFilter)]
<1>1. /\ activeFilter \in {1, 2} /\ Other(activeFilter) \in {1, 2}
      /\ Other(activeFilter) # activeFilter
      /\ Other(Other(activeFilter)) = activeFilter
      /\ nMsg \in Nat /\ maxMsgs \in Nat /\ maxMsgs > 0 /\ nMsg < maxMsgs
      /\ DOMAIN filter = {1, 2}
  BY BloomAssumption DEF BloomTypeOK, Other
<1>2. /\ age'[m] = 0
      /\ \A x \in Muid : age[x] \in Nat /\ age'[x] \in Nat
      /\ \A x \in Muid \ {m} :
           age'[x] = IF age[x] + 1 <= Horizon THEN age[x] + 1 ELSE Horizon
      /\ Horizon = 2 * maxMsgs
  BY BloomAssumption DEF bloom_add, BloomTypeOK, Grown, MinOf, Horizon
<1>3. CASE nMsg + 1 >= maxMsgs
  <2>1. /\ activeFilter' = Other(activeFilter) /\ nMsg' = 0
        /\ filter'[activeFilter'] = {}
        /\ filter'[Other(activeFilter)'] = active \cup Slots[m]
    BY <1>1, <1>3 DEF bloom_add, Other, BloomTypeOK
  <2>2. \A x \in Muid : age'[x] < maxMsgs => x = m \/ age[x] < nMsg
    BY <1>1, <1>2, <1>3
  <2>3. \A x \in Muid : age[x] < nMsg \/ x = m => age'[x] < maxMsgs
    BY <1>1, <1>2
  <2>4. ASSUME NEW x \in Muid, age'[x] < maxMsgs
        PROVE  Slots[x] \subseteq active \cup Slots[m]
    BY <2>2, <2>4 DEF PhaseInv
  <2>5. ASSUME NEW b \in active \cup Slots[m]
        PROVE  \E x \in Muid : age'[x] < maxMsgs /\ b \in Slots[x]
    BY <2>3, <2>5 DEF PhaseInv
  <2> QED
    BY <1>1, <1>2, <2>1, <2>4, <2>5 DEF PhaseInv
<1>4. CASE ~(nMsg + 1 >= maxMsgs)
  <2>1. /\ activeFilter' = activeFilter /\ nMsg' = nMsg + 1
        /\ filter'[activeFilter'] = active \cup Slots[m]
        /\ filter'[Other(activeFilter)'] = frozen
    BY <1>1, <1>4 DEF bloom_add, Other, BloomTypeOK
  <2>2. \A x \in Muid \ {m} :
          /\ age'[x] < nMsg + 1 <=> age[x] < nMsg
          /\ age'[x] < nMsg + 1 + maxMsgs <=> age[x] < nMsg + maxMsgs
    BY <1>1, <1>2, <1>4
  <2>3. age'[m] < nMsg + 1 /\ age'[m] < nMsg + 1 + maxMsgs
    BY <1>1, <1>2
  <2>4. ASSUME NEW x \in Muid
        PROVE  /\ age'[x] < nMsg + 1 => Slots[x] \subseteq active \cup Slots[m]
               /\ age'[x] >= nMsg + 1 /\ age'[x] < nMsg + 1 + maxMsgs
                    => Slots[x] \subseteq frozen
    <3>1. CASE x = m
      BY <3>1, <1>1, <1>2
    <3>2. CASE x # m
      BY <3>2, <1>1, <1>2, <2>2 DEF PhaseInv
    <3> QED
      BY <3>1, <3>2
  <2>5. ASSUME NEW b \in active \cup Slots[m]
        PROVE  \E x \in Muid : age'[x] < nMsg + 1 /\ b \in Slots[x]
    BY <2>2, <2>3, <2>5 DEF PhaseInv
  <2>6. ASSUME NEW b \in frozen
        PROVE  \E x \in Muid : age'[x] < nMsg + 1 + maxMsgs /\ b \in Slots[x]
    BY <2>2, <2>3, <2>6 DEF PhaseInv
  <2> QED
    BY <2>1, <2>4, <2>5, <2>6 DEF PhaseInv
<1> QED
  BY <1>3, <1>4

\* The phase invariant holds in every state the filter reaches.
THEOREM PhaseCorrect == BloomSpec => []PhaseInv
<1>1. BloomInit => PhaseInv
  BY BloomAssumption DEF BloomInit, PhaseInv, Horizon, Other
<1>2. BloomTypeOK /\ PhaseInv /\ [BloomNext]_bloomVars => PhaseInv'
  <2>1. ASSUME BloomTypeOK, PhaseInv, BloomNext PROVE PhaseInv'
    BY <2>1, AddKeepsPhase DEF BloomNext
  <2>2. ASSUME PhaseInv, UNCHANGED bloomVars PROVE PhaseInv'
    BY <2>2 DEF PhaseInv, bloomVars, Other
  <2> QED
    BY <2>1, <2>2
<1> QED
  BY <1>1, <1>2, BloomTypeCorrect, PTL DEF BloomSpec

\* An identifier among the last maxMsgs additions is always reported as seen.
THEOREM NoFalseNegative == BloomSpec => []RecentIsSeen
<1>1. BloomTypeOK /\ PhaseInv => RecentIsSeen
  <2> SUFFICES ASSUME BloomTypeOK, PhaseInv, NEW m \in Muid, age[m] < maxMsgs
               PROVE  bloom_check(m)
    BY DEF RecentIsSeen
  <2>1. age[m] \in Nat /\ nMsg \in Nat /\ maxMsgs \in Nat
    BY BloomAssumption DEF BloomTypeOK, Horizon
  <2>2. Slots[m] \subseteq filter[activeFilter] \/ Slots[m] \subseteq filter[Other(activeFilter)]
    BY <2>1 DEF PhaseInv
  <2>3. {activeFilter, Other(activeFilter)} = {1, 2}
    BY DEF BloomTypeOK, Other
  <2> QED
    BY <2>2, <2>3 DEF bloom_check, is_collision
<1> QED
  BY <1>1, BloomTypeCorrect, PhaseCorrect, PTL

\* Whatever is reported as seen is covered by the additions of two phases.
THEOREM Forgetting == BloomSpec => []OldIsForgotten
<1>1. BloomTypeOK /\ PhaseInv => OldIsForgotten
  <2> SUFFICES ASSUME BloomTypeOK, PhaseInv, NEW m \in Muid, bloom_check(m),
                      NEW b \in Slots[m]
               PROVE  \E x \in Muid : age[x] < maxMsgs + nMsg /\ b \in Slots[x]
    BY DEF OldIsForgotten
  <2>1. /\ nMsg \in Nat /\ maxMsgs \in Nat
        /\ \A x \in Muid : age[x] \in Nat
    BY BloomAssumption DEF BloomTypeOK, Horizon
  <2>2. {activeFilter, Other(activeFilter)} = {1, 2}
    BY DEF BloomTypeOK, Other
  <2>3. b \in filter[activeFilter] \/ b \in filter[Other(activeFilter)]
    BY <2>2 DEF bloom_check, is_collision
  <2>4. PICK x \in Muid : age[x] < nMsg + maxMsgs /\ b \in Slots[x]
    BY <2>1, <2>3 DEF PhaseInv
  <2> QED
    BY <2>1, <2>4
<1> QED
  BY <1>1, BloomTypeCorrect, PhaseCorrect, PTL

-----------------------------------------------------------------------------
(* The hash functions                                                      *)

\* A set of natural numbers has a least element.
LEMMA LeastElement ==
  ASSUME NEW T, T \subseteq Nat, T # {}
  PROVE  \E x \in T : \A y \in T : x <= y
<1> DEFINE R == OpToRel(<, Nat)
<1>1. IsWellFoundedOn(R, Nat)
  BY NatLessThanWellFounded, Zenon
<1>2. \A x, y \in Nat : y < x => <<y, x>> \in R
  BY SMT DEF OpToRel
<1> HIDE DEF R
<1>3. PICK x \in T : \A y \in T : ~(<<y, x>> \in R)
  BY <1>1, WFMin, Zenon
<1>4. x \in Nat /\ \A y \in T : y \in Nat /\ ~(y < x)
  BY <1>2, <1>3
<1>5. \A y \in T : x <= y
  BY <1>4
<1> QED
  BY <1>5

\* Fewer hash functions than bits leave a bit free.
LEMMA SomeFree ==
  ASSUME NEW r, NEW n \in Nat, n < totalBits
  PROVE  \E b \in Bits : b \notin {r[j] : j \in 1 .. n}
<1> SUFFICES ASSUME \A b \in Bits : \E j \in 1 .. n : r[j] = b PROVE FALSE
  OBVIOUS
<1> DEFINE f == [b \in Bits |-> CHOOSE j \in 1 .. n : r[j] = b]
<1>1. \A b \in Bits : f[b] \in 1 .. n /\ r[f[b]] = b
  OBVIOUS
<1>2. f \in [Bits -> 1 .. n]
  BY <1>1
<1>3. /\ IsFiniteSet(Bits) /\ Cardinality(Bits) = totalBits
      /\ IsFiniteSet(1 .. n) /\ Cardinality(1 .. n) = n
  <2>1. 0 \in Int /\ totalBits - 1 \in Int /\ 1 \in Int /\ n \in Int
        /\ totalBits \in Nat /\ totalBits > 0
    BY BloomAssumption
  <2>2. /\ IsFiniteSet(0 .. totalBits - 1)
        /\ Cardinality(0 .. totalBits - 1) = IF 0 > totalBits - 1 THEN 0 ELSE totalBits - 1 - 0 + 1
        /\ IsFiniteSet(1 .. n) /\ Cardinality(1 .. n) = IF 1 > n THEN 0 ELSE n - 1 + 1
    BY <2>1, FS_Interval
  <2> QED
    BY <2>1, <2>2 DEF Bits
<1> HIDE DEF f
<1>4. PICK a, b \in Bits : a # b /\ f[a] = f[b]
  BY <1>2, <1>3, FS_PigeonHole
<1> QED
  BY <1>1, <1>4

\* Every bit is met when one goes around all of them.
LEMMA Around ==
  ASSUME NEW h \in Bits, NEW b \in Bits
  PROVE  \E k \in 0 .. totalBits - 1 : b = (h + k) % totalBits
<1>1. PICK T \in Nat : T = totalBits /\ T > 0 /\ h \in 0 .. T - 1 /\ b \in 0 .. T - 1
  BY BloomAssumption DEF Bits
<1>2. CASE h <= b
  <2>1. b - h \in 0 .. T - 1 /\ h + (b - h) = b
    BY <1>1, <1>2
  <2>2. b % T = b
    BY <1>1
  <2> QED
    BY <1>1, <2>1, <2>2
<1>3. CASE b < h
  <2>1. b + T - h \in 0 .. T - 1 /\ h + (b + T - h) = b + T
    BY <1>1, <1>3
  <2>2. (b + T) % T = b
    BY <1>1
  <2> QED
    BY <1>1, <2>1, <2>2
<1> QED
  BY <1>1, <1>2, <1>3

\* The probing finds a free bit.
LEMMA Probing ==
  ASSUME NEW h \in Bits, NEW taken, NEW b \in Bits, b \notin taken
  PROVE  FirstFree(h, taken) \in Bits \ taken
<1> DEFINE free == {k \in 0 .. totalBits - 1 : (h + k) % totalBits \notin taken}
<1>1. totalBits \in Nat /\ totalBits > 0
  BY BloomAssumption
<1>2. free \subseteq Nat /\ free # {}
  BY <1>1, Around
<1> HIDE DEF free
<1>3. PICK k \in free : \A l \in free : k <= l
  BY <1>2, LeastElement, Zenon
<1>4. k \in 0 .. totalBits - 1 /\ (h + k) % totalBits \notin taken
  BY DEF free
<1>5. \A j \in 0 .. k - 1 : (h + j) % totalBits \in taken
  <2>1. ASSUME NEW j \in 0 .. k - 1 PROVE j \in 0 .. totalBits - 1 /\ ~(k <= j)
    BY <1>1, <1>4
  <2> QED
    BY <1>3, <2>1 DEF free
<1>6. (h + k) % totalBits \in Bits
  <2>1. h + k \in Nat
    BY <1>1, <1>4 DEF Bits
  <2> QED
    BY <1>1, <2>1 DEF Bits
<1>7. \E c \in Bits \ taken :
        \E i \in 0 .. totalBits - 1 :
          /\ c = (h + i) % totalBits
          /\ \A j \in 0 .. i - 1 : (h + j) % totalBits \in taken
  BY <1>4, <1>5, <1>6
<1> QED
  BY <1>7, Zenon DEF FirstFree

\* The bits of the first n hash functions.
Probed(m, n, r) ==
  \A i \in 1 .. n : r[i] = FirstFree(Djb2[m][i] % totalBits, {r[j] : j \in 1 .. i - 1})

\* The next hash function finds its bit, after those before it.
LEMMA NextBit ==
  ASSUME NEW m \in Muid, NEW i \in 1 .. numHashes, NEW r
  PROVE  FirstFree(Djb2[m][i] % totalBits, {r[j] : j \in 1 .. i - 1})
           \in Bits \ {r[j] : j \in 1 .. i - 1}
<1>1. /\ numHashes \in Nat /\ totalBits \in Nat /\ totalBits > 0 /\ numHashes <= totalBits
      /\ Djb2[m][i] \in Nat
  BY BloomAssumption
<1>2. Djb2[m][i] % totalBits \in Bits
  BY <1>1 DEF Bits
<1>3. i - 1 \in Nat /\ i - 1 < totalBits
  BY <1>1
<1>4. PICK b \in Bits : b \notin {r[j] : j \in 1 .. i - 1}
  BY <1>3, SomeFree
<1> QED
  BY <1>2, <1>4, Probing

\* So all of them find one, by induction on their number (the least that would not).
LEMMA ProbedExists ==
  ASSUME NEW m \in Muid
  PROVE  \E r \in [1 .. numHashes -> Bits] : Probed(m, numHashes, r)
<1> DEFINE bad == {n \in 0 .. numHashes : ~ \E r \in [1 .. n -> Bits] : Probed(m, n, r)}
<1>1. numHashes \in Nat /\ numHashes > 0
  BY BloomAssumption
<1>2. SUFFICES ASSUME bad # {} PROVE FALSE
  BY <1>1
<1>3. bad \subseteq Nat
  BY <1>1
<1>4. PICK n \in bad : \A k \in bad : n <= k
  BY <1>2, <1>3, LeastElement, Zenon
<1>5. n \in 0 .. numHashes
  OBVIOUS
<1>6. n # 0
  <2>1. SUFFICES \E r \in [1 .. 0 -> Bits] : Probed(m, 0, r)
    OBVIOUS
  <2>2. [i \in 1 .. 0 |-> 0] \in [1 .. 0 -> Bits]
    OBVIOUS
  <2>3. ASSUME NEW r PROVE Probed(m, 0, r)
    <3>1. \A i \in 1 .. 0 : FALSE
      OBVIOUS
    <3> QED
      BY <3>1, Zenon DEF Probed
  <2> QED
    BY <2>2, <2>3, Zenon
<1>7. PICK p \in 0 .. numHashes : n = p + 1 /\ p \notin bad
  <2>1. n - 1 \in 0 .. numHashes /\ ~(n <= n - 1) /\ n = (n - 1) + 1
    BY <1>1, <1>5, <1>6
  <2> HIDE DEF bad
  <2> QED
    BY <1>4, <2>1
<1>8. PICK r \in [1 .. p -> Bits] : Probed(m, p, r)
  BY <1>7
<1> DEFINE last == FirstFree(Djb2[m][n] % totalBits, {r[j] : j \in 1 .. n - 1})
           s == [i \in 1 .. n |-> IF i = n THEN last ELSE r[i]]
<1>9. n \in 1 .. numHashes /\ p = n - 1
  BY <1>5, <1>6, <1>7
<1>10. last \in Bits
  BY <1>9, NextBit, ZenonT(60)
<1> HIDE DEF last, bad
<1>11. \A i \in 1 .. n : i = n \/ i \in 1 .. p
  BY <1>5, <1>7
<1>12. s \in [1 .. n -> Bits]
  BY <1>8, <1>10, <1>11
<1>13. \A i \in 1 .. p : i \in 1 .. n /\ i # n
  BY <1>5, <1>7
<1>14. s[n] = last /\ \A i \in 1 .. p : s[i] = r[i]
  BY <1>9, <1>13
<1> HIDE DEF s
<1>15. ASSUME NEW i \in 1 .. n PROVE {s[j] : j \in 1 .. i - 1} = {r[j] : j \in 1 .. i - 1}
  <2>1. \A j \in 1 .. i - 1 : j \in 1 .. p
    BY <1>5, <1>7
  <2> QED
    BY <1>14, <2>1
<1>16. Probed(m, n, s)
  <2>1. ASSUME NEW i \in 1 .. n
        PROVE  s[i] = FirstFree(Djb2[m][i] % totalBits, {s[j] : j \in 1 .. i - 1})
    <3>1. CASE i = n
      BY <1>14, <1>15, <3>1 DEF last
    <3>2. CASE i \in 1 .. p
      <4>1. r[i] = FirstFree(Djb2[m][i] % totalBits, {r[j] : j \in 1 .. i - 1})
        BY <1>8, <3>2 DEF Probed
      <4> QED
        BY <1>14, <1>15, <3>2, <4>1
    <3> QED
      BY <1>11, <3>1, <3>2
  <2> QED
    BY <2>1 DEF Probed
<1> QED
  BY <1>12, <1>16 DEF bad

\* set_hash_results finds numHashes bits of the filter for every message, all distinct:
\* its probing loop ends, because the filter has at least as many bits.
THEOREM HashesDistinct ==
  ASSUME NEW m \in Muid
  PROVE  /\ HashResults[m] \in [1 .. numHashes -> Bits]
         /\ \A i, j \in 1 .. numHashes : i # j => HashResults[m][i] # HashResults[m][j]
<1> DEFINE r == HashResults[m]
<1>1. r = CHOOSE q \in [1 .. numHashes -> Bits] : Probed(m, numHashes, q)
  BY DEF HashResults, Probed
<1>2. r \in [1 .. numHashes -> Bits] /\ Probed(m, numHashes, r)
  BY <1>1, ProbedExists, Zenon
<1> HIDE DEF r
<1>3. ASSUME NEW i \in 1 .. numHashes, NEW j \in 1 .. i - 1 PROVE r[i] # r[j]
  <2>1. r[i] = FirstFree(Djb2[m][i] % totalBits, {r[k] : k \in 1 .. i - 1})
    BY <1>2, Zenon DEF Probed
  <2>2. r[i] \notin {r[k] : k \in 1 .. i - 1}
    BY <2>1, NextBit, Zenon
  <2> QED
    BY <2>2
<1>4. ASSUME NEW i \in 1 .. numHashes, NEW j \in 1 .. numHashes, i # j PROVE r[i] # r[j]
  <2>1. i \in 1 .. j - 1 \/ j \in 1 .. i - 1
    BY <1>4, BloomAssumption
  <2> QED
    BY <1>3, <2>1
<1>5. \A i, j \in 1 .. numHashes : i # j => r[i] # r[j]
  BY <1>4, Zenon
<1> QED
  BY <1>2, <1>5, Zenon DEF r

-----------------------------------------------------------------------------
(* A call of one thread                                                    *)

BeforeCall == {"idle", "draw", "load_nMsg", "store_nMsg"}
Adding == {"load_sector", "store_sector"}
Swapping == {"clear", "switch", "reset"}
Steps == BeforeCall \cup Adding \cup {"test"} \cup Swapping

Locals == [muid : Muid \cup {"none"}, attempts : Nat, i : Nat, tmp : Nat,
           word : SUBSET Bits, f : 0 .. 2]

CallTypes == at \in [Threads -> Steps] /\ own \in [Threads -> Locals]

\* What the active filter holds after n hash functions of the call, and the other one
\* after s of its sectors are cleared.
Added(t, n) == saved.filter[saved.activeFilter] \cup {HashResults[own[t].muid][j] : j \in 1 .. n}
Left(s) == {b \in saved.filter[Other(saved.activeFilter)] : b \div bitsPerSector >= s}

\* The inductive invariant: how far thread t, alone, has changed the filter since its last
\* call returned.
CallInv(t) ==
  /\ at[t] \notin {"idle", "draw"} => own[t].muid \in Muid
  /\ filter \in [{1, 2} -> SUBSET Bits]
  /\ saved.filter \in [{1, 2} -> SUBSET Bits] /\ saved.activeFilter \in {1, 2} /\ saved.nMsg \in Nat
  /\ at[t] \in BeforeCall => saved = State
  /\ at[t] = "store_nMsg" => own[t].tmp = saved.nMsg + 1
  /\ at[t] \notin BeforeCall => nMsg = saved.nMsg + 1
  /\ activeFilter = IF at[t] = "reset" THEN Other(saved.activeFilter) ELSE saved.activeFilter
  /\ at[t] \in Adding =>
       own[t].i \in 1 .. numHashes /\ filter[saved.activeFilter] = Added(t, own[t].i - 1)
  /\ at[t] = "store_sector" =>
       own[t].f = saved.activeFilter /\ own[t].word = filter[saved.activeFilter] \cap Sector(t)
  /\ at[t] \in {"test"} \cup Swapping => filter[saved.activeFilter] = Added(t, numHashes)
  /\ at[t] \notin Swapping =>
       filter[Other(saved.activeFilter)] = saved.filter[Other(saved.activeFilter)]
  /\ at[t] = "test" => own[t].i = 0
  /\ at[t] \in Swapping => saved.nMsg + 1 >= maxMsgs
  /\ at[t] \in {"clear", "switch"} => own[t].f = Other(saved.activeFilter)
  /\ at[t] = "clear" => own[t].i \in sectors /\ filter[Other(saved.activeFilter)] = Left(own[t].i)
  /\ at[t] \in {"switch", "reset"} => filter[Other(saved.activeFilter)] = {}

\* Every bit is in a sector, and clearing ends with the last one.
LEMMA SectorsOfBits ==
  /\ 0 \in sectors
  /\ \A b \in Bits : b \div bitsPerSector \in Nat
  /\ \A s \in sectors :
       s \in Nat /\ (s + 1 \in sectors \/ \A b \in Bits : ~(b \div bitsPerSector >= s + 1))
<1>1. PICK T \in Nat, p \in Nat : T = totalBits /\ p = bitsPerSector /\ T > 0 /\ p > 0 /\ T % p = 0
  BY BloomAssumption, ThreadsAssumption
<1>2. PICK q \in Nat : q = T \div p
  BY <1>1
<1>3. \A b \in 0 .. T - 1 : b \div p \in Nat /\ b \div p < q
  BY <1>1, <1>2
<1>4. q > 0 /\ sectors = 0 .. q - 1 /\ Bits = 0 .. T - 1
  <2>1. 0 \in 0 .. T - 1
    BY <1>1
  <2>2. q > 0
    BY <1>3, <2>1
  <2> QED
    BY <1>1, <1>2, <2>2 DEF sectors, Bits
<1>5. \A b \in Bits : b \div bitsPerSector \in Nat /\ b \div bitsPerSector < q
  BY <1>1, <1>3, <1>4, Zenon
<1>6. 0 \in sectors
  BY <1>4
<1>7. ASSUME NEW s \in sectors
      PROVE  s \in Nat /\ (s + 1 \in sectors \/ \A b \in Bits : ~(b \div bitsPerSector >= s + 1))
  BY <1>4, <1>5
<1> QED
  BY <1>5, <1>6, <1>7

\* The places of a call, one by one; where Goto leads; and what every step needs of the
\* thread.
LEMMA Named ==
  \A s \in {"idle", "draw", "load_nMsg", "store_nMsg", "load_sector", "store_sector", "test",
            "clear", "switch", "reset"} : s \in Steps
BY DEF Steps, BeforeCall, Adding, Swapping

LEMMA Going ==
  ASSUME NEW t, Threads = {t}, CallTypes, NEW step \in Steps, NEW locals \in Locals,
         Goto(t, step, locals)
  PROVE  CallTypes' /\ at'[t] = step /\ own'[t] = locals
<1>1. DOMAIN at = {t} /\ DOMAIN own = {t}
  BY DEF CallTypes
<1> QED
  BY <1>1 DEF CallTypes, Goto

LEMMA CallFacts ==
  ASSUME NEW t, Threads = {t}, CallTypes, CallInv(t)
  PROVE  /\ t \in Threads /\ at[t] \in Steps /\ own[t] \in Locals /\ NoCall \in Locals
         /\ saved.activeFilter \in {1, 2} /\ Other(saved.activeFilter) \in {1, 2}
         /\ Other(saved.activeFilter) # saved.activeFilter
         /\ numHashes \in Nat /\ numHashes >= 1 /\ maxMsgs \in Nat
<1>1. t \in Threads /\ at[t] \in Steps /\ own[t] \in Locals
  BY DEF CallTypes
<1>2. NoCall \in Locals
  BY DEF NoCall, Locals
<1>3. /\ saved.activeFilter \in {1, 2} /\ Other(saved.activeFilter) \in {1, 2}
      /\ Other(saved.activeFilter) # saved.activeFilter
  BY DEF CallInv, Other
<1>4. numHashes \in Nat /\ numHashes >= 1 /\ maxMsgs \in Nat
  BY BloomAssumption
<1> QED
  BY <1>1, <1>2, <1>3, <1>4

\* A call starts, perhaps after a few draws.
LEMMA CallBegins ==
  ASSUME NEW t, Threads = {t}, CallTypes, CallInv(t), Receive(t) \/ assignUniqueMessageId(t)
  PROVE  CallTypes' /\ CallInv(t)' /\ UNCHANGED <<saved, age>>
<1>1. /\ at[t] \in BeforeCall /\ UNCHANGED <<filter, activeFilter, nMsg, age, saved>>
      /\ \E x \in Muid : \/ Goto(t, "load_nMsg", [NoCall EXCEPT !.muid = x])
                         \/ Goto(t, "draw", [own[t] EXCEPT !.attempts = @ + 1])
  BY DEF Receive, assignUniqueMessageId, BeginAdd, bloomVars, BeforeCall
<1>2. /\ CallTypes' /\ at'[t] \in BeforeCall \ {"store_nMsg"}
      /\ at'[t] = "load_nMsg" => own'[t].muid \in Muid
  <2>1. PICK x \in Muid : \/ Goto(t, "load_nMsg", [NoCall EXCEPT !.muid = x])
                          \/ Goto(t, "draw", [own[t] EXCEPT !.attempts = @ + 1])
    BY <1>1
  <2>2. CASE Goto(t, "load_nMsg", [NoCall EXCEPT !.muid = x])
    <3>1. [NoCall EXCEPT !.muid = x] \in Locals
      BY CallFacts DEF Locals
    <3>2. CallTypes' /\ at'[t] = "load_nMsg" /\ own'[t] = [NoCall EXCEPT !.muid = x]
      BY <2>2, <3>1, Going, Named, Zenon
    <3>3. own'[t].muid = x
      BY <3>2 DEF NoCall
    <3> QED
      BY <3>2, <3>3 DEF BeforeCall
  <2>3. CASE Goto(t, "draw", [own[t] EXCEPT !.attempts = @ + 1])
    <3>1. [own[t] EXCEPT !.attempts = @ + 1] \in Locals
      BY CallFacts DEF Locals
    <3>2. CallTypes' /\ at'[t] = "draw"
      BY <2>3, <3>1, Going, Named, Zenon
    <3> QED
      BY <3>2 DEF BeforeCall
  <2> QED
    BY <2>1, <2>2, <2>3
<1> QED
  BY <1>1, <1>2 DEF CallInv, BeforeCall, Adding, Swapping, State

\* nMsg is counted.
LEMMA CallCounts ==
  ASSUME NEW t, Threads = {t}, CallTypes, CallInv(t), LoadCount(t) \/ StoreCount(t)
  PROVE  CallTypes' /\ CallInv(t)' /\ UNCHANGED <<saved, age>>
<1>1. saved.nMsg \in Nat /\ own[t].muid \in Muid /\ saved = State
  BY DEF CallInv, LoadCount, StoreCount, BeforeCall
<1>2. CASE LoadCount(t)
  <2>1. nMsg = saved.nMsg
    BY <1>1 DEF State
  <2>2. [own[t] EXCEPT !.tmp = nMsg + 1] \in Locals
    BY <1>1, <2>1, CallFacts DEF Locals
  <2>3. /\ Goto(t, "store_nMsg", [own[t] EXCEPT !.tmp = nMsg + 1])
        /\ UNCHANGED <<filter, activeFilter, nMsg, age, saved>>
    BY <1>2 DEF LoadCount, bloomVars
  <2>4. CallTypes' /\ at'[t] = "store_nMsg" /\ own'[t] = [own[t] EXCEPT !.tmp = nMsg + 1]
    BY <2>2, <2>3, Going, Named, Zenon
  <2>5. own'[t].tmp = saved.nMsg + 1 /\ own'[t].muid = own[t].muid
    BY <2>1, <2>4, CallFacts DEF Locals
  <2>6. at[t] = "load_nMsg"
    BY <1>2 DEF LoadCount
  <2> QED
    BY <1>1, <2>3, <2>4, <2>5, <2>6 DEF CallInv, BeforeCall, Adding, Swapping, State
<1>3. CASE StoreCount(t)
  <2>1. /\ at[t] = "store_nMsg" /\ nMsg' = own[t].tmp
        /\ Goto(t, "load_sector", [own[t] EXCEPT !.i = 1])
        /\ UNCHANGED <<filter, activeFilter, age, saved>>
    BY <1>3 DEF StoreCount
  <2>2. [own[t] EXCEPT !.i = 1] \in Locals
    BY CallFacts DEF Locals
  <2>3. CallTypes' /\ at'[t] = "load_sector" /\ own'[t] = [own[t] EXCEPT !.i = 1]
    BY <2>1, <2>2, Going, Named, Zenon
  <2>4. own'[t].i = 1 /\ own'[t].muid = own[t].muid
    BY <2>3, CallFacts DEF Locals
  <2>5. nMsg' = saved.nMsg + 1 /\ 1 \in 1 .. numHashes
    BY <2>1, CallFacts DEF CallInv
  <2>6. filter = saved.filter /\ activeFilter = saved.activeFilter
    BY <1>1 DEF State
  <2>7. filter'[saved'.activeFilter] = Added(t, own[t].i - 1)'
    <3>1. \A j : j \notin 1 .. 1 - 1
      OBVIOUS
    <3>2. Added(t, own[t].i - 1)' = saved.filter[saved.activeFilter]
      BY <2>1, <2>4, <3>1 DEF Added
    <3> QED
      BY <2>1, <2>6, <3>2
  <2> QED
    BY <1>1, <2>1, <2>3, <2>4, <2>5, <2>6, <2>7 DEF CallInv, BeforeCall, Adding, Swapping
<1> QED
  BY <1>2, <1>3

\* A bit is set in its sector of the active filter.
LEMMA CallAdds ==
  ASSUME NEW t, Threads = {t}, CallTypes, CallInv(t), LoadSector(t) \/ StoreSector(t)
  PROVE  CallTypes' /\ CallInv(t)' /\ UNCHANGED <<saved, age>>
<1>1. /\ own[t].muid \in Muid /\ own[t].i \in 1 .. numHashes /\ activeFilter = saved.activeFilter
      /\ at[t] \in Adding /\ filter[saved.activeFilter] = Added(t, own[t].i - 1)
      /\ filter[Other(saved.activeFilter)] = saved.filter[Other(saved.activeFilter)]
      /\ nMsg = saved.nMsg + 1
  BY DEF CallInv, LoadSector, StoreSector, BeforeCall, Adding, Swapping
<1>2. CASE LoadSector(t)
  <2> DEFINE locals == [own[t] EXCEPT !.f = activeFilter,
                                      !.word = filter[activeFilter] \cap Sector(t)]
  <2>1. /\ at[t] = "load_sector" /\ Goto(t, "store_sector", locals)
        /\ UNCHANGED <<filter, activeFilter, nMsg, age, saved>>
    BY <1>2 DEF LoadSector, bloomVars
  <2>2. locals \in Locals
    <3>1. filter[activeFilter] \cap Sector(t) \in SUBSET Bits
      BY DEF Sector, SectorBits
    <3>2. activeFilter \in 0 .. 2
      BY <1>1, CallFacts
    <3> QED
      BY <3>1, <3>2, CallFacts DEF Locals
  <2>3. CallTypes' /\ at'[t] = "store_sector" /\ own'[t] = locals
    BY <2>1, <2>2, Going, Named, Zenon
  <2>4. /\ own'[t].i = own[t].i /\ own'[t].muid = own[t].muid /\ own'[t].f = saved.activeFilter
        /\ own'[t].word = filter[saved.activeFilter] \cap Sector(t)
    BY <1>1, <2>3, CallFacts DEF Locals
  <2>5. Sector(t)' = Sector(t)
    BY <2>4 DEF Sector, Bit
  <2>6. Added(t, own[t].i - 1)' = Added(t, own[t].i - 1)
    BY <2>1, <2>4 DEF Added
  <2> QED
    BY <1>1, <2>1, <2>3, <2>4, <2>5, <2>6 DEF CallInv, BeforeCall, Adding, Swapping
<1>3. CASE StoreSector(t)
  <2> DEFINE locals == IF own[t].i < numHashes THEN [own[t] EXCEPT !.i = @ + 1, !.word = {}]
                       ELSE [own[t] EXCEPT !.i = 0, !.word = {}]
             step == IF own[t].i < numHashes THEN "load_sector" ELSE "test"
  <2>1. /\ at[t] = "store_sector" /\ Goto(t, step, locals)
        /\ filter' = [filter EXCEPT ![own[t].f] = (@ \ Sector(t)) \cup own[t].word \cup {Bit(t)}]
        /\ UNCHANGED <<activeFilter, nMsg, age, saved>>
    BY <1>3 DEF StoreSector
  <2>2. locals \in Locals /\ step \in Steps
    <3>1. \A r \in Locals, n \in Nat : [r EXCEPT !.i = n, !.word = {}] \in Locals
      BY DEF Locals
    <3>2. [own[t] EXCEPT !.i = @ + 1, !.word = {}] \in Locals
      <4>1. own[t].i + 1 \in Nat /\ own[t] \in Locals
        BY CallFacts DEF Locals
      <4> QED
        BY <3>1, <4>1
    <3>3. [own[t] EXCEPT !.i = 0, !.word = {}] \in Locals
      BY <3>1, CallFacts
    <3> QED
      BY <3>2, <3>3, Named
  <2>3. CallTypes' /\ at'[t] = step /\ own'[t] = locals
    BY <2>1, <2>2, Going, Zenon
  <2>4. /\ own'[t].muid = own[t].muid
        /\ own'[t].i = IF own[t].i < numHashes THEN own[t].i + 1 ELSE 0
    BY <2>3, CallFacts DEF Locals
  <2>5. Bit(t) \in Bits
    BY <1>1, HashesDistinct DEF Bit
  <2>6. /\ filter' \in [{1, 2} -> SUBSET Bits]
        /\ filter'[saved.activeFilter] = filter[saved.activeFilter] \cup {Bit(t)}
        /\ filter'[Other(saved.activeFilter)] = filter[Other(saved.activeFilter)]
    <3>1. own[t].f = saved.activeFilter /\ own[t].word = filter[saved.activeFilter] \cap Sector(t)
      BY <2>1 DEF CallInv
    <3>2. filter \in [{1, 2} -> SUBSET Bits]
      BY DEF CallInv
    <3>3. filter' = [filter EXCEPT ![saved.activeFilter] = filter[saved.activeFilter] \cup {Bit(t)}]
      BY <2>1, <3>1
    <3> QED
      BY <2>5, <3>2, <3>3, CallFacts
  <2>7. filter'[saved.activeFilter] = Added(t, own[t].i)
    <3>1. \A j : j \in 1 .. own[t].i <=> j \in 1 .. own[t].i - 1 \/ j = own[t].i
      BY <1>1, CallFacts
    <3> QED
      BY <1>1, <2>6, <3>1 DEF Added, Bit
  <2>8. Added(t, numHashes)' = Added(t, numHashes)
    BY <2>1, <2>4 DEF Added
  <2>9. CASE own[t].i < numHashes
    <3>1. own'[t].i = own[t].i + 1 /\ at'[t] = "load_sector" /\ own[t].i + 1 \in 1 .. numHashes
      BY <1>1, <2>3, <2>4, <2>9, CallFacts
    <3>2. filter'[saved'.activeFilter] = Added(t, own[t].i - 1)'
      <4>1. own'[t].i - 1 = own[t].i
        BY <1>1, <3>1
      <4> QED
        BY <2>1, <2>4, <2>7, <4>1 DEF Added
    <3> QED
      BY <1>1, <2>1, <2>3, <2>4, <2>6, <3>1, <3>2 DEF CallInv, BeforeCall, Adding, Swapping
  <2>10. CASE ~(own[t].i < numHashes)
    <3>1. own'[t].i = 0 /\ at'[t] = "test" /\ own[t].i = numHashes
      BY <1>1, <2>3, <2>4, <2>10, CallFacts
    <3> QED
      BY <1>1, <2>1, <2>3, <2>4, <2>6, <2>7, <2>8, <3>1 DEF CallInv, BeforeCall, Adding, Swapping
  <2> QED
    BY <2>9, <2>10
<1> QED
  BY <1>2, <1>3

\* The hash functions and the history are those of the atomic filter.
LEMMA SameHashes == Atomic!Slots = Slots /\ \A m : Atomic!Grown(m) = Grown(m)
BY DEF Atomic!Grown, Grown, Atomic!MinOf, MinOf, Atomic!Horizon, Horizon, Atomic!Slots, Slots,
       Atomic!HashResults, HashResults, Atomic!FirstFree, FirstFree, Atomic!Bits, Bits

\* Without a swap the call returns, with one it clears the other filter: bloom_add, as
\* it is when it returns.
LEMMA CallEnds ==
  ASSUME NEW t, Threads = {t}, CallTypes, CallInv(t), Test(t) \/ Clear(t) \/ Switch(t) \/ Reset(t)
  PROVE  CallTypes' /\ CallInv(t)' /\ (Atomic!BloomNext \/ UNCHANGED <<saved, age>>)
<1>1. /\ own[t].muid \in Muid /\ nMsg = saved.nMsg + 1 /\ saved.nMsg \in Nat
      /\ filter[saved.activeFilter] = Added(t, numHashes) /\ saved.nMsg + 1 \in Nat
      /\ filter \in [{1, 2} -> SUBSET Bits] /\ saved.filter \in [{1, 2} -> SUBSET Bits]
      /\ saved.filter[Other(saved.activeFilter)] \subseteq Bits
  BY CallFacts DEF CallInv, Test, Clear, Switch, Reset, BeforeCall, Adding, Swapping
<1>2. Added(t, numHashes) = saved.filter[saved.activeFilter] \cup Slots[own[t].muid]
  BY <1>1 DEF Added, Slots
<1> DEFINE added == [saved.filter EXCEPT ![saved.activeFilter] = @ \cup Slots[own[t].muid]]
<1>3. ASSUME Return(t), saved'.activeFilter \in {1, 2}, saved'.nMsg \in Nat,
             filter' \in [{1, 2} -> SUBSET Bits]
      PROVE  CallTypes' /\ CallInv(t)' /\ age' = Grown(own[t].muid) /\ saved' = State'
  <2>1. Goto(t, "idle", NoCall) /\ saved' = State' /\ age' = Grown(own[t].muid)
    BY <1>3 DEF Return
  <2>2. CallTypes' /\ at'[t] = "idle"
    BY <2>1, CallFacts, Going, Named, Zenon
  <2>3. saved'.filter = filter' /\ saved'.activeFilter = activeFilter'
    BY <2>1 DEF State
  <2> QED
    BY <1>3, <2>1, <2>2, <2>3 DEF CallInv, BeforeCall, Adding, Swapping
<1>4. CASE Test(t)
  <2>1. at[t] = "test" /\ UNCHANGED <<filter, activeFilter, nMsg>>
    BY <1>4 DEF Test
  <2>2. /\ own[t].i = 0 /\ activeFilter = saved.activeFilter
        /\ filter[Other(saved.activeFilter)] = saved.filter[Other(saved.activeFilter)]
    BY <2>1 DEF CallInv, Swapping
  <2>3. CASE nMsg >= maxMsgs
    <3>1. Goto(t, "clear", [own[t] EXCEPT !.f = Other(activeFilter)]) /\ UNCHANGED <<age, saved>>
      BY <1>4, <2>3 DEF Test
    <3>2. [own[t] EXCEPT !.f = Other(activeFilter)] \in Locals
      <4>1. Other(activeFilter) \in 0 .. 2
        BY <2>2, CallFacts
      <4> QED
        BY <4>1, CallFacts DEF Locals
    <3>3. CallTypes' /\ at'[t] = "clear" /\ own'[t] = [own[t] EXCEPT !.f = Other(activeFilter)]
      BY <3>1, <3>2, Going, Named, Zenon
    <3>4. own'[t].muid = own[t].muid /\ own'[t].i = 0 /\ own'[t].f = Other(saved.activeFilter)
      BY <2>2, <3>3, CallFacts DEF Locals
    <3>5. Left(0) = saved.filter[Other(saved.activeFilter)]
      <4>1. \A b \in Bits : b \div bitsPerSector >= 0
        BY SectorsOfBits
      <4> QED
        BY <1>1, <4>1 DEF Left
    <3>6. Left(own[t].i)' = Left(0) /\ Added(t, numHashes)' = Added(t, numHashes)
      BY <3>1, <3>4 DEF Left, Added
    <3> QED
      BY <1>1, <2>1, <2>2, <2>3, <3>1, <3>3, <3>4, <3>5, <3>6, SectorsOfBits
         DEF CallInv, BeforeCall, Adding, Swapping
  <2>4. CASE ~(nMsg >= maxMsgs)
    <3>1. Return(t)
      BY <1>4, <2>4 DEF Test
    <3>2. /\ saved'.filter = filter /\ saved'.activeFilter = saved.activeFilter
          /\ saved'.nMsg = saved.nMsg + 1
      BY <1>1, <2>1, <2>2, <3>1 DEF Return, State
    <3>3. CallTypes' /\ CallInv(t)' /\ age' = Grown(own[t].muid)
      BY <1>1, <1>3, <2>1, <3>1, <3>2, CallFacts
    <3>4. filter = added
      BY <1>1, <1>2, <2>2, CallFacts
    <3>5. Atomic!bloom_add(own[t].muid)
      <4>1. ~(saved.nMsg + 1 >= maxMsgs)
        BY <1>1, <2>4
      <4> QED
        BY <3>2, <3>3, <3>4, <4>1, SameHashes DEF Atomic!bloom_add
    <3> QED
      BY <1>1, <3>3, <3>5 DEF Atomic!BloomNext
  <2> QED
    BY <2>3, <2>4
<1>5. CASE Clear(t)
  <2> DEFINE i == own[t].i
  <2>1. /\ at[t] = "clear" /\ filter' = [filter EXCEPT ![own[t].f] = @ \ SectorBits(own[t].i)]
        /\ UNCHANGED <<activeFilter, nMsg, age, saved>>
        /\ IF own[t].i + 1 \in sectors THEN Goto(t, "clear", [own[t] EXCEPT !.i = @ + 1])
                                       ELSE Goto(t, "switch", own[t])
    BY <1>5 DEF Clear
  <2>2. /\ own[t].f = Other(saved.activeFilter) /\ i \in sectors
        /\ activeFilter = saved.activeFilter
        /\ filter[Other(saved.activeFilter)] = Left(i) /\ saved.nMsg + 1 >= maxMsgs
    BY <2>1 DEF CallInv, Swapping
  <2>3. /\ filter' \in [{1, 2} -> SUBSET Bits]
        /\ filter'[saved.activeFilter] = filter[saved.activeFilter]
        /\ filter'[Other(saved.activeFilter)] = Left(i) \ SectorBits(i)
    BY <1>1, <2>1, <2>2, CallFacts
  <2>4. Left(i) \ SectorBits(i) = Left(i + 1)
    <3>1. i \in Nat /\ \A b \in Bits : b \div bitsPerSector \in Nat
      BY <2>2, SectorsOfBits
    <3>2. ASSUME NEW n \in Nat PROVE n >= i + 1 <=> n >= i /\ n # i
      BY <3>1
    <3> QED
      BY <1>1, <3>1, <3>2 DEF Left, SectorBits
  <2>5. CASE i + 1 \in sectors
    <3>1. [own[t] EXCEPT !.i = @ + 1] \in Locals
      BY CallFacts DEF Locals
    <3>2. CallTypes' /\ at'[t] = "clear" /\ own'[t] = [own[t] EXCEPT !.i = @ + 1]
      BY <2>1, <2>5, <3>1, Going, Named, Zenon
    <3>3. own'[t].muid = own[t].muid /\ own'[t].i = i + 1 /\ own'[t].f = own[t].f
      BY <3>2, CallFacts DEF Locals
    <3>4. /\ Left(own[t].i)' = Left(i + 1) /\ Added(t, numHashes)' = Added(t, numHashes)
          /\ sectors' = sectors
      BY <2>1, <3>3 DEF Left, Added, sectors
    <3> QED
      BY <1>1, <2>1, <2>2, <2>3, <2>4, <2>5, <3>2, <3>3, <3>4
         DEF CallInv, BeforeCall, Adding, Swapping
  <2>6. CASE ~(i + 1 \in sectors)
    <3>1. CallTypes' /\ at'[t] = "switch" /\ own'[t] = own[t]
      BY <2>1, <2>6, CallFacts, Going, Named, Zenon
    <3>2. Left(i + 1) = {}
      BY <1>1, <2>2, <2>6, SectorsOfBits DEF Left
    <3>3. Added(t, numHashes)' = Added(t, numHashes)
      BY <2>1, <3>1 DEF Added
    <3> QED
      BY <1>1, <2>1, <2>2, <2>3, <2>4, <3>1, <3>2, <3>3
         DEF CallInv, BeforeCall, Adding, Swapping
  <2> QED
    BY <2>5, <2>6
<1>6. CASE Switch(t)
  <2>1. /\ at[t] = "switch" /\ activeFilter' = own[t].f /\ UNCHANGED <<filter, nMsg, age, saved>>
        /\ Goto(t, "reset", own[t])
    BY <1>6 DEF Switch
  <2>2. CallTypes' /\ at'[t] = "reset" /\ own'[t] = own[t]
    BY <2>1, CallFacts, Going, Named, Zenon
  <2>3. Added(t, numHashes)' = Added(t, numHashes)
    BY <2>1, <2>2 DEF Added
  <2> QED
    BY <1>1, <2>1, <2>2, <2>3 DEF CallInv, BeforeCall, Adding, Swapping
<1>7. CASE Reset(t)
  <2>1. at[t] = "reset" /\ nMsg' = 0 /\ UNCHANGED <<filter, activeFilter>> /\ Return(t)
    BY <1>7 DEF Reset
  <2>2. /\ filter[Other(saved.activeFilter)] = {} /\ saved.nMsg + 1 >= maxMsgs
        /\ activeFilter = Other(saved.activeFilter)
    BY <2>1 DEF CallInv, Swapping
  <2>3. saved'.filter = filter /\ saved'.activeFilter = Other(saved.activeFilter) /\ saved'.nMsg = 0
    BY <2>1, <2>2 DEF Return, State
  <2>4. CallTypes' /\ CallInv(t)' /\ age' = Grown(own[t].muid)
    BY <1>1, <1>3, <2>1, <2>3, CallFacts
  <2>5. filter = [added EXCEPT ![Other(saved.activeFilter)] = {}]
    BY <1>1, <1>2, <2>2, CallFacts
  <2>6. Atomic!bloom_add(own[t].muid)
    BY <2>2, <2>3, <2>4, <2>5, SameHashes DEF Atomic!bloom_add, Atomic!Other, Other
  <2> QED
    BY <1>1, <2>4, <2>6 DEF Atomic!BloomNext
<1> QED
  BY <1>4, <1>5, <1>6, <1>7

\* Used by one thread, the loads and stores of a call of bloom_add, sector by sector, with
\* the swap in between, implement the atomic bloom_add: what the filter is between two
\* calls is what BloomFilter says, for any identifiers, hash functions and sizes.  (With
\* the second thread that the daemon has they do not.)
THEOREM OneThreadAtomic ==
  ASSUME NEW t, Threads = {t}
  PROVE  ThreadsSpec => CallsAreAtomic
<1>1. ThreadsInit => CallTypes /\ CallInv(t) /\ Atomic!BloomInit
  <2> SUFFICES ASSUME ThreadsInit PROVE CallTypes /\ CallInv(t) /\ Atomic!BloomInit
    OBVIOUS
  <2>1. CallTypes /\ at[t] = "idle"
    BY Named DEF ThreadsInit, CallTypes, NoCall, Locals
  <2>2. /\ saved = State /\ filter = [f \in {1, 2} |-> {}] /\ activeFilter = 1 /\ nMsg = 0
        /\ age = [m \in Muid |-> Horizon]
    BY DEF ThreadsInit, BloomInit
  <2>3. saved.filter = filter /\ saved.activeFilter = activeFilter /\ saved.nMsg = nMsg
    BY <2>2 DEF State
  <2>4. CallInv(t)
    BY <2>1, <2>2, <2>3 DEF CallInv, BeforeCall, Adding, Swapping
  <2>5. Atomic!BloomInit
    BY <2>2, <2>3 DEF Atomic!BloomInit, Atomic!Horizon, Horizon
  <2> QED
    BY <2>1, <2>4, <2>5
<1>2. CallTypes /\ CallInv(t) /\ [ThreadsNext]_threadVars
        => CallTypes' /\ CallInv(t)' /\ [Atomic!BloomNext]_Atomic!bloomVars
  <2> SUFFICES ASSUME CallTypes, CallInv(t), [ThreadsNext]_threadVars
               PROVE  /\ CallTypes' /\ CallInv(t)'
                      /\ Atomic!BloomNext \/ UNCHANGED <<saved, age>>
    BY DEF Atomic!bloomVars
  <2>1. CASE UNCHANGED threadVars
    BY <2>1 DEF threadVars, CallTypes, CallInv, State, Added, Left, Sector, Bit
  <2>2. CASE ThreadsNext
    BY <2>2, CallBegins, CallCounts, CallAdds, CallEnds DEF ThreadsNext
  <2> QED
    BY <2>1, <2>2
<1> QED
  BY <1>1, <1>2, PTL DEF ThreadsSpec, CallsAreAtomic, Atomic!BloomSpec

-----------------------------------------------------------------------------
(* The mesh                                                                *)

PacketType ==
  [sduid : Ducks, dduid : Address, muid : Nat, topic : Topics, hopCount : Nat,
   origin : Address \cup {"none"}, destination : Address \cup {"none"},
   last : Ducks \cup {"none"}]

\* The routes a packet speaks of are routes between ducks; a request without a
\* destination is one for everybody.
RouteOK(q) ==
  /\ q.topic = "rrep" => q.origin \in Ducks /\ q.destination \in Ducks
  /\ q.topic = "rreq" =>
       q.origin \in Ducks /\ (q.dduid # "BROADCAST" => q.destination \in Ducks)

GoodPacket(q) == q \in PacketType /\ RouteOK(q)

OutcomeType ==
  [tx : SUBSET PacketType, learn : SUBSET Ducks, crash : BOOLEAN, callback : {0, 1}]

\* What a handler may do with packet p: send a packet with a new identifier, or p
\* if it is not in the filter; a callback gets only what is not in the filter.
OutcomeOK(d, p, o) ==
  /\ o \in OutcomeType
  /\ \A q \in o.tx : /\ RouteOK(q)
                     /\ q.muid = next \/ (q.muid = p.muid /\ p.muid \notin seen[d])
  /\ o.callback = 1 => p.muid \notin seen[d]

-----------------------------------------------------------------------------
(* Packets                                                                 *)

\* A new packet without a route.
LEMMA PacketGood ==
  ASSUME next \in Nat, NEW d \in Ducks, NEW dduid \in Address,
         NEW topic \in {"ping", "pong", "cmd", "data"}
  PROVE  GoodPacket(Packet(d, dduid, topic)) /\ Packet(d, dduid, topic).muid = next
  BY DEF GoodPacket, PacketType, RouteOK, Packet, Topics

\* A new packet that speaks of a route.
LEMMA RouteGood ==
  ASSUME next \in Nat, NEW d \in Ducks, NEW dduid \in Address, NEW topic \in {"rreq", "rrep"},
         NEW origin \in Ducks, NEW destination \in Address, NEW last \in Ducks \cup {"none"},
         destination \in Ducks \/ (topic = "rreq" /\ dduid = "BROADCAST")
  PROVE  /\ GoodPacket(Route(d, dduid, topic, origin, destination, last))
         /\ Route(d, dduid, topic, origin, destination, last).muid = next
<1> DEFINE b == Packet(d, dduid, topic)
           r == Route(d, dduid, topic, origin, destination, last)
<1>1. b \in PacketType /\ b.topic = topic /\ b.dduid = dduid /\ b.muid = next
  BY DEF Packet, PacketType, Topics
<1>2. r = [b EXCEPT !.origin = origin, !.destination = destination, !.last = last]
  BY DEF Route
<1> HIDE DEF b, r
<1>3. r \in PacketType
  BY <1>1, <1>2 DEF PacketType, Address
<1>4. /\ r.topic = topic /\ r.dduid = dduid /\ r.muid = next
      /\ r.origin = origin /\ r.destination = destination
  BY <1>1, <1>2 DEF PacketType
<1> QED
  BY <1>3, <1>4 DEF GoodPacket, RouteOK, r

\* A relayed packet: one hop more, or the relay at the end of its path.
LEMMA RelayedGood ==
  ASSUME NEW p, GoodPacket(p), NEW d \in Ducks
  PROVE  /\ GoodPacket([p EXCEPT !.hopCount = @ + 1])
         /\ [p EXCEPT !.hopCount = @ + 1].muid = p.muid
         /\ GoodPacket([p EXCEPT !.last = d]) /\ [p EXCEPT !.last = d].muid = p.muid
<1>1. /\ [p EXCEPT !.hopCount = @ + 1] \in PacketType
      /\ [p EXCEPT !.last = d] \in PacketType
  BY DEF GoodPacket, PacketType
<1>2. /\ RouteOK([p EXCEPT !.hopCount = @ + 1])
      /\ RouteOK([p EXCEPT !.last = d])
  BY DEF GoodPacket, PacketType, RouteOK
<1> QED
  BY <1>1, <1>2 DEF GoodPacket, PacketType

-----------------------------------------------------------------------------
(* Outcomes                                                                *)

LEMMA QuietOK ==
  ASSUME NEW d \in Ducks, NEW p, NEW x \in Ducks
  PROVE  /\ OutcomeOK(d, p, Quiet)
         /\ OutcomeOK(d, p, [Quiet EXCEPT !.learn = {x}])
         /\ OutcomeOK(d, p, [Quiet EXCEPT !.crash = TRUE])
<1>1. Quiet \in OutcomeType /\ Quiet.tx = {} /\ Quiet.callback = 0
  BY DEF Quiet, OutcomeType
<1> DEFINE l == [Quiet EXCEPT !.learn = {x}]
           c == [Quiet EXCEPT !.crash = TRUE]
<1>2. l \in OutcomeType /\ l.tx = {} /\ l.callback = 0
  BY <1>1 DEF OutcomeType
<1>3. c \in OutcomeType /\ c.tx = {} /\ c.callback = 0
  BY <1>1 DEF OutcomeType
<1> HIDE DEF l, c
<1>4. OutcomeOK(d, p, Quiet) /\ OutcomeOK(d, p, l) /\ OutcomeOK(d, p, c)
  BY <1>1, <1>2, <1>3 DEF OutcomeOK
<1> QED
  BY <1>4 DEF l, c

LEMMA SendsOK ==
  ASSUME NEW d \in Ducks, NEW p, NEW q, GoodPacket(q), NEW x \in Ducks,
         q.muid = next \/ (q.muid = p.muid /\ p.muid \notin seen[d])
  PROVE  /\ OutcomeOK(d, p, Sends(q))
         /\ OutcomeOK(d, p, [Sends(q) EXCEPT !.learn = {x}])
<1>1. Quiet \in OutcomeType /\ Quiet.callback = 0
  BY DEF Quiet, OutcomeType
<1>2. {q} \in SUBSET PacketType
  BY DEF GoodPacket
<1> DEFINE s == Sends(q)
           l == [s EXCEPT !.learn = {x}]
<1>3. s \in OutcomeType /\ s.tx = {q} /\ s.callback = 0
  BY <1>1, <1>2 DEF OutcomeType, Sends
<1> HIDE DEF s
<1>4. l \in OutcomeType /\ l.tx = {q} /\ l.callback = 0
  BY <1>3 DEF OutcomeType
<1> HIDE DEF l
<1>5. OutcomeOK(d, p, s) /\ OutcomeOK(d, p, l)
  BY <1>3, <1>4 DEF OutcomeOK, GoodPacket
<1> QED
  BY <1>5 DEF s, l

\* The filter, or more than it, decides about a relay.
LEMMA BroadcastOK ==
  ASSUME NEW d \in Ducks, NEW p, GoodPacket(p), NEW known, seen[d] \subseteq known
  PROVE  OutcomeOK(d, p, broadcastPacket(known, p))
<1>1. CASE p.muid \in known
  BY <1>1, QuietOK DEF broadcastPacket
<1>2. CASE p.muid \notin known
  <2> DEFINE q == [p EXCEPT !.hopCount = @ + 1]
  <2>1. GoodPacket(q) /\ q.muid = p.muid /\ p.muid \notin seen[d]
    BY <1>2, RelayedGood
  <2>2. broadcastPacket(known, p) = Sends(q)
    BY <1>2 DEF broadcastPacket
  <2> HIDE DEF q
  <2> QED
    BY <2>1, <2>2, SendsOK
<1> QED
  BY <1>1, <1>2

LEMMA ForwardOK ==
  ASSUME NEW d \in Ducks, NEW p, GoodPacket(p), NEW known, seen[d] \subseteq known
  PROVE  OutcomeOK(d, p, forwardPacket(d, known, p))
  BY BroadcastOK, QuietOK DEF forwardPacket

\* The same when the relay has put itself at the end of the path.
LEMMA ForwardPathOK ==
  ASSUME NEW d \in Ducks, NEW p, GoodPacket(p), NEW known, seen[d] \subseteq known
  PROVE  OutcomeOK(d, p, forwardPacket(d, known, [p EXCEPT !.last = d]))
<1> DEFINE q == [p EXCEPT !.last = d]
<1>1. GoodPacket(q) /\ q.muid = p.muid
  BY RelayedGood
<1> HIDE DEF q
<1>2. OutcomeOK(d, q, forwardPacket(d, known, q))
  BY <1>1, ForwardOK
<1>3. OutcomeOK(d, p, forwardPacket(d, known, q))
  BY <1>1, <1>2 DEF OutcomeOK
<1> QED
  BY <1>3 DEF q

LEMMA AnswerSearchOK ==
  ASSUME next \in Nat, NEW d \in Ducks, NEW p, GoodPacket(p)
  PROVE  OutcomeOK(d, p, AnswerSearch(d, p))
<1>1. p.sduid \in Ducks /\ p.sduid \in Address
  BY DEF GoodPacket, PacketType, Address
<1>2. PICK last \in Ducks \cup {"none"} : last = IF Type[d] = "LINK" THEN "none" ELSE d
  OBVIOUS
<1> DEFINE q == Route(d, p.sduid, "rrep", d, p.sduid, last)
<1>3. GoodPacket(q) /\ q.muid = next
  BY <1>1, RouteGood
<1>4. AnswerSearch(d, p) = Quiet \/ AnswerSearch(d, p) = [Sends(q) EXCEPT !.learn = {p.sduid}]
  BY <1>2 DEF AnswerSearch
<1> HIDE DEF q
<1>5. OutcomeOK(d, p, [Sends(q) EXCEPT !.learn = {p.sduid}])
  BY <1>1, <1>3, SendsOK
<1> QED
  BY <1>1, <1>4, <1>5, QuietOK

LEMMA AnswerRreqOK ==
  ASSUME next \in Nat, NEW d \in Ducks, NEW p, GoodPacket(p),
         p.topic = "rreq", p.dduid # "BROADCAST"
  PROVE  /\ OutcomeOK(d, p, AnswerRreq(d, p))
         /\ OutcomeOK(d, p, [AnswerRreq(d, p) EXCEPT !.learn = {p.sduid}])
<1>1. /\ p.sduid \in Ducks /\ p.last \in Ducks \cup {"none"}
      /\ p.origin \in Ducks /\ p.destination \in Ducks /\ LastInPath(p) \in Ducks
  BY DEF GoodPacket, PacketType, RouteOK, LastInPath
<1> DEFINE q == Route(d, LastInPath(p), "rrep", p.destination, p.origin, p.last)
<1>2. GoodPacket(q) /\ q.muid = next
  <2> DEFINE to == LastInPath(p)
             origin == p.origin
             destination == p.destination
             last == p.last
  <2>1. /\ to \in Address /\ origin \in Address /\ origin \in Ducks /\ destination \in Ducks
        /\ last \in Ducks \cup {"none"}
    BY <1>1 DEF Address
  <2> HIDE DEF to, origin, destination, last
  <2>2. /\ GoodPacket(Route(d, to, "rrep", destination, origin, last))
        /\ Route(d, to, "rrep", destination, origin, last).muid = next
    BY <2>1, RouteGood
  <2> QED
    BY <2>2 DEF to, origin, destination, last
<1>3. AnswerRreq(d, p) = Sends(q)
  BY DEF AnswerRreq
<1> HIDE DEF q
<1> QED
  BY <1>1, <1>2, <1>3, SendsOK

LEMMA HandleRrepOK ==
  ASSUME next \in Nat, NEW d \in Ducks, NEW p, GoodPacket(p), p.topic = "rrep"
  PROVE  OutcomeOK(d, p, HandleRrep(d, p))
<1>1. p.sduid \in Ducks /\ p.origin \in Ducks /\ p.destination \in Ducks
  BY DEF GoodPacket, PacketType, RouteOK
<1> DEFINE q == Route(d, p.destination, "rrep", p.origin, p.destination, d)
<1>2. GoodPacket(q) /\ q.muid = next
  <2>1. p.destination \in Address
    BY <1>1 DEF Address
  <2> QED
    BY <1>1, <2>1, RouteGood
<1>3. HandleRrep(d, p) \in {Quiet, [Quiet EXCEPT !.crash = TRUE],
                            [Sends(q) EXCEPT !.learn = {p.sduid}],
                            [Quiet EXCEPT !.learn = {p.origin}]}
  BY DEF HandleRrep
<1> HIDE DEF q
<1>4. OutcomeOK(d, p, [Sends(q) EXCEPT !.learn = {p.sduid}])
  BY <1>1, <1>2, SendsOK
<1>5. /\ OutcomeOK(d, p, Quiet) /\ OutcomeOK(d, p, [Quiet EXCEPT !.crash = TRUE])
      /\ OutcomeOK(d, p, [Quiet EXCEPT !.learn = {p.origin}])
  BY <1>1, QuietOK
<1> QED
  BY <1>3, <1>4, <1>5

LEMMA PongOK ==
  ASSUME next \in Nat, NEW d \in Ducks, NEW p
  PROVE  OutcomeOK(d, p, Pong(d))
<1> DEFINE q == Packet(d, "BROADCAST", "pong")
<1>1. GoodPacket(q) /\ q.muid = next
  BY PacketGood DEF Address
<1>2. Pong(d) = Sends(q)
  BY DEF Pong
<1> HIDE DEF q
<1> QED
  BY <1>1, <1>2, SendsOK

LEMMA IfBroadcastOK ==
  ASSUME next \in Nat, NEW d \in Ducks, NEW p, GoodPacket(p),
         NEW known, seen[d] \subseteq known
  PROVE  OutcomeOK(d, p, ifBroadcast(d, known, p))
<1>1. /\ OutcomeOK(d, p, AnswerSearch(d, p)) /\ OutcomeOK(d, p, Pong(d))
      /\ OutcomeOK(d, p, Quiet) /\ OutcomeOK(d, p, broadcastPacket(known, p))
  BY AnswerSearchOK, PongOK, QuietOK, BroadcastOK
<1> QED
  BY <1>1 DEF ifBroadcast

LEMMA IfNotBroadcastOK ==
  ASSUME next \in Nat, NEW d \in Ducks, NEW p, GoodPacket(p), p.dduid # "BROADCAST",
         NEW known, seen[d] \subseteq known, NEW relay \in BOOLEAN
  PROVE  OutcomeOK(d, p, ifNotBroadcast(d, known, p, relay))
<1>1. /\ OutcomeOK(d, p, Pong(d)) /\ OutcomeOK(d, p, Quiet)
      /\ OutcomeOK(d, p, broadcastPacket(known, p))
      /\ OutcomeOK(d, p, forwardPacket(d, known, p))
      /\ OutcomeOK(d, p, forwardPacket(d, known, [p EXCEPT !.last = d]))
  BY PongOK, QuietOK, BroadcastOK, ForwardOK, ForwardPathOK
<1>2. /\ p.topic = "rreq" => OutcomeOK(d, p, AnswerRreq(d, p))
      /\ p.topic = "rrep" => OutcomeOK(d, p, HandleRrep(d, p))
  BY AnswerRreqOK, HandleRrepOK
<1> QED
  BY <1>1, <1>2 DEF ifNotBroadcast

\* Papa: what its filter knows is dropped; what it takes goes to the callback.
LEMMA PapaOK ==
  ASSUME next \in Nat, NEW d \in Ducks, NEW p, GoodPacket(p)
  PROVE  OutcomeOK(d, p, PapaHandles(d, p))
<1>1. CASE p.muid \in seen[d]
  BY <1>1, QuietOK DEF PapaHandles
<1>2. CASE p.muid \notin seen[d]
  <2> DEFINE known == seen[d] \cup {p.muid}
             o == IF p.dduid = "BROADCAST" THEN ifBroadcast(d, known, p)
                  ELSE ifNotBroadcast(d, known, p, p.dduid \notin {d, "PAPADUCK"})
             c == [o EXCEPT !.callback = 1]
  <2>1. PapaHandles(d, p) = c
    BY <1>2 DEF PapaHandles, PapaDispatch
  <2>2. OutcomeOK(d, p, o)
    <3>1. CASE p.dduid = "BROADCAST"
      BY <3>1, IfBroadcastOK
    <3>2. CASE p.dduid # "BROADCAST"
      <4>1. PICK relay \in BOOLEAN : relay = (p.dduid \notin {d, "PAPADUCK"})
        OBVIOUS
      <4>2. OutcomeOK(d, p, ifNotBroadcast(d, known, p, relay))
        BY <3>2, IfNotBroadcastOK
      <4> QED
        BY <3>2, <4>1, <4>2
    <3> QED
      BY <3>1, <3>2
  <2> HIDE DEF o
  <2>3. c \in OutcomeType /\ c.tx = o.tx
    BY <2>2 DEF OutcomeOK, OutcomeType
  <2> HIDE DEF c
  <2> QED
    BY <1>2, <2>1, <2>2, <2>3 DEF OutcomeOK
<1> QED
  BY <1>1, <1>2

LEMMA MamaOK ==
  ASSUME next \in Nat, NEW d \in Ducks, NEW p, GoodPacket(p)
  PROVE  OutcomeOK(d, p, MamaHandles(d, p))
<1>1. CASE p.dduid = "BROADCAST"
  BY <1>1, IfBroadcastOK DEF MamaHandles
<1>2. CASE p.dduid # "BROADCAST"
  <2>1. PICK relay \in BOOLEAN : relay = (p.dduid # d)
    OBVIOUS
  <2>2. OutcomeOK(d, p, ifNotBroadcast(d, seen[d], p, relay))
    BY <1>2, IfNotBroadcastOK
  <2> QED
    BY <1>2, <2>1, <2>2 DEF MamaHandles
<1> QED
  BY <1>1, <1>2

LEMMA LinkOK ==
  ASSUME next \in Nat, NEW d \in Ducks, NEW p, GoodPacket(p)
  PROVE  OutcomeOK(d, p, LinkHandles(d, p))
<1>1. /\ OutcomeOK(d, p, AnswerSearch(d, p)) /\ OutcomeOK(d, p, Pong(d))
      /\ OutcomeOK(d, p, broadcastPacket(seen[d], p))
  BY AnswerSearchOK, PongOK, BroadcastOK
<1>2. /\ OutcomeOK(d, p, Quiet) /\ OutcomeOK(d, p, [Quiet EXCEPT !.crash = TRUE])
  BY QuietOK
<1>3. p.topic = "rrep" => OutcomeOK(d, p, [Quiet EXCEPT !.learn = {p.origin}])
  <2>1. p.topic = "rrep" => p.origin \in Ducks
    BY DEF GoodPacket, RouteOK
  <2> QED
    BY <2>1, QuietOK
<1>4. p.topic = "rreq" /\ p.dduid # "BROADCAST" =>
        OutcomeOK(d, p, [AnswerRreq(d, p) EXCEPT !.learn = {p.sduid}])
  BY AnswerRreqOK
<1>5. CASE p.dduid = "BROADCAST"
  BY <1>1, <1>2, <1>3, <1>5 DEF LinkHandles
<1>6. CASE p.dduid # "BROADCAST"
  BY <1>1, <1>2, <1>3, <1>4, <1>6 DEF LinkHandles
<1> QED
  BY <1>5, <1>6

\* The kinds of ducks that relay or answer.
Handlers == {"PAPA", "MAMA", "LINK"}

LEMMA HandlesOK ==
  ASSUME next \in Nat, NEW d \in Ducks, NEW p, GoodPacket(p)
  PROVE  /\ OutcomeOK(d, p, Handles(d, p))
         /\ Type[d] \notin Handlers => Handles(d, p).tx = {} /\ Handles(d, p).callback = 0
<1>1. CASE Type[d] = "PAPA"
  BY <1>1, PapaOK DEF Handles, Handlers
<1>2. CASE Type[d] = "MAMA"
  BY <1>2, MamaOK DEF Handles, Handlers
<1>3. CASE Type[d] = "LINK"
  BY <1>3, LinkOK DEF Handles, Handlers
<1>4. CASE Type[d] \notin Handlers
  <2>1. Handles(d, p) = Quiet
    BY <1>4 DEF Handles, Handlers
  <2>2. Quiet.tx = {} /\ Quiet.callback = 0
    BY DEF Quiet
  <2> QED
    BY <2>1, <2>2, QuietOK
<1> QED
  BY <1>1, <1>2, <1>3, <1>4 DEF Handlers

-----------------------------------------------------------------------------
(* The inductive invariant                                                 *)

\* What is on the air was sent by a neighbour and has an identifier that was drawn.
AirOK ==
  \A m \in air : /\ m.to \in Ducks /\ m.from \in Ducks /\ {m.to, m.from} \in Links
                 /\ GoodPacket(m.packet) /\ m.packet.muid \in Ids /\ m.packet.muid < next

\* A duck that relays has in its filter what it put on the air ...
SentIsSeen ==
  \A d \in Ducks, i \in Ids :
    sent[d][i] # 0 => i < next /\ (Type[d] \in Handlers => i \in seen[d])

\* ... and a papa what its callback got.
DeliveredIsSeen == \A d \in Ducks, i \in Ids : delivered[d][i] # 0 => i \in seen[d]

Counters == [Ducks -> [Ids -> {0, 1}]]

MeshInv ==
  /\ state \in [Ducks -> {"SEARCHING", "PUBLIC"}] /\ table \in [Ducks -> SUBSET Ducks]
  /\ seen \in [Ducks -> SUBSET Ids] /\ crashed \subseteq Ducks
  /\ next \in 1 .. MaxMuid + 1 /\ asked \in 0 .. MaxAsked
  /\ AirOK
  /\ sent \in Counters /\ delivered \in Counters
  /\ SentIsSeen /\ DeliveredIsSeen

\* A transmission of packets that are new to the duck: each counts for the first
\* time.
LEMMA TransmitStep ==
  ASSUME MeshInv, NEW d \in Ducks, NEW tx \in SUBSET PacketType, NEW rest \in SUBSET air,
         \A q \in tx : /\ RouteOK(q)
                       /\ \/ q.muid = next
                          \/ /\ q.muid \in Ids /\ q.muid < next
                             /\ q.muid \notin seen[d] /\ Type[d] \in Handlers,
         Transmit(d, tx, rest)
  PROVE  /\ next' \in 1 .. MaxMuid + 1 /\ next <= next' /\ AirOK' /\ sent' \in Counters
         /\ \A q \in tx : q.muid \in Ids /\ q.muid < next'
         /\ \A e \in Ducks, i \in Ids :
              sent'[e][i] # 0 => sent[e][i] # 0 \/ (e = d /\ \E q \in tx : q.muid = i)
<1>0. MaxMuid \in Nat /\ next \in Nat /\ next \in 1 .. MaxMuid + 1 /\ sent \in Counters
  BY MeshAssumption DEF MeshInv
<1>1. /\ \A q \in tx : q.muid = next => next \in Ids
      /\ next' = IF \E q \in tx : q.muid = next THEN next + 1 ELSE next
  BY DEF Transmit
<1>2. next' \in 1 .. MaxMuid + 1 /\ next <= next'
  BY <1>0, <1>1 DEF Ids
<1>3. \A q \in tx : q.muid \in Ids /\ q.muid < next'
  <2> SUFFICES ASSUME NEW q \in tx PROVE q.muid \in Ids /\ q.muid < next'
    OBVIOUS
  <2>1. CASE q.muid = next
    BY <1>0, <1>1, <2>1
  <2>2. CASE q.muid \in Ids /\ q.muid < next
    BY <1>0, <1>2, <2>2 DEF Ids
  <2> QED
    BY <2>1, <2>2
<1>4. AirOK'
  <2> SUFFICES ASSUME NEW m \in air'
               PROVE  /\ m.to \in Ducks /\ m.from \in Ducks /\ {m.to, m.from} \in Links
                      /\ GoodPacket(m.packet) /\ m.packet.muid \in Ids /\ m.packet.muid < next'
    BY DEF AirOK
  <2>1. CASE m \in rest
    <3>1. /\ m.to \in Ducks /\ m.from \in Ducks /\ {m.to, m.from} \in Links
          /\ GoodPacket(m.packet) /\ m.packet.muid \in Ids /\ m.packet.muid < next
      BY <2>1 DEF MeshInv, AirOK
    <3> QED
      BY <1>0, <1>2, <3>1 DEF Ids
  <2>2. CASE m \in {[to |-> e, from |-> d, packet |-> q] : e \in Neighbours(d), q \in tx}
    <3>1. PICK e \in Neighbours(d), q \in tx : m = [to |-> e, from |-> d, packet |-> q]
      BY <2>2
    <3>2. m.to = e /\ m.from = d /\ m.packet = q
      BY <3>1
    <3>3. e \in Ducks /\ {e, d} \in Links
      BY DEF Neighbours
    <3> QED
      BY <1>3, <3>2, <3>3 DEF GoodPacket
  <2> QED
    BY <2>1, <2>2 DEF Transmit
<1>5. /\ \A e \in Ducks : e # d => sent'[e] = sent[e]
      /\ \A i \in Ids : sent'[d][i] = IF \E q \in tx : q.muid = i THEN sent[d][i] + 1
                                                                ELSE sent[d][i]
      /\ sent' = [sent EXCEPT ![d] = sent'[d]] /\ DOMAIN sent'[d] = Ids
      /\ sent'[d] = [i \in Ids |-> sent'[d][i]]
  BY <1>0 DEF Transmit, Counters
<1>6. ASSUME NEW i \in Ids, NEW q \in tx, q.muid = i
      PROVE  sent[d][i] = 0
  <2>1. CASE i = next
    BY <1>0, <2>1 DEF MeshInv, SentIsSeen
  <2>2. CASE i # next
    BY <1>6, <2>2 DEF MeshInv, SentIsSeen
  <2> QED
    BY <2>1, <2>2
<1>7. \A i \in Ids : sent'[d][i] \in {0, 1}
  BY <1>0, <1>5, <1>6 DEF Counters
<1>8. sent' \in Counters
  <2>1. sent'[d] \in [Ids -> {0, 1}]
    BY <1>5, <1>7
  <2> QED
    BY <1>0, <1>5, <2>1 DEF Counters
<1>9. ASSUME NEW e \in Ducks, NEW i \in Ids, sent'[e][i] # 0
      PROVE  sent[e][i] # 0 \/ (e = d /\ \E q \in tx : q.muid = i)
  BY <1>5, <1>9
<1> QED
  BY <1>2, <1>3, <1>4, <1>8, <1>9

\* A duck that sends a new packet and puts it into its filter; one that neither
\* relays nor answers need not.
LEMMA SendStep ==
  ASSUME MeshInv, NEW d \in Ducks, NEW q, GoodPacket(q), q.muid = next,
         Transmit(d, {q}, air), UNCHANGED <<state, table, crashed, delivered>>, Asked,
         \/ seen' = [seen EXCEPT ![d] = @ \cup {next}]
         \/ seen' = seen /\ Type[d] \notin Handlers
  PROVE  MeshInv'
<1> DEFINE tx == {q}
<1>0. /\ tx \in SUBSET PacketType /\ air \in SUBSET air /\ Transmit(d, tx, air)
      /\ \A r \in tx : RouteOK(r) /\ r.muid = next
  BY DEF GoodPacket
<1>1. /\ next' \in 1 .. MaxMuid + 1 /\ next <= next' /\ AirOK' /\ sent' \in Counters
      /\ next \in Ids /\ next < next'
      /\ \A e \in Ducks, i \in Ids :
           sent'[e][i] # 0 => sent[e][i] # 0 \/ (e = d /\ i = next)
  <2>1. /\ next' \in 1 .. MaxMuid + 1 /\ next <= next' /\ AirOK' /\ sent' \in Counters
        /\ \A r \in tx : r.muid \in Ids /\ r.muid < next'
        /\ \A e \in Ducks, i \in Ids :
             sent'[e][i] # 0 => sent[e][i] # 0 \/ (e = d /\ \E r \in tx : r.muid = i)
    <3> HIDE DEF tx
    <3>1. \A r \in tx : /\ RouteOK(r)
                        /\ \/ r.muid = next
                           \/ /\ r.muid \in Ids /\ r.muid < next
                              /\ r.muid \notin seen[d] /\ Type[d] \in Handlers
      BY <1>0, Zenon
    <3> QED
      BY <1>0, <3>1, TransmitStep, Zenon
  <2> QED
    BY <2>1
<1>2. /\ seen' \in [Ducks -> SUBSET Ids] /\ \A e \in Ducks : seen[e] \subseteq seen'[e]
      /\ Type[d] \in Handlers => next \in seen'[d]
  BY <1>1 DEF MeshInv
<1>3. next \in Nat /\ next' \in Nat /\ Ids \subseteq Nat
  BY <1>1, MeshAssumption DEF MeshInv, Ids
<1>4. SentIsSeen'
  <2> SUFFICES ASSUME NEW e \in Ducks, NEW i \in Ids, sent'[e][i] # 0
               PROVE  i < next' /\ (Type[e] \in Handlers => i \in seen'[e])
    BY DEF SentIsSeen
  <2>1. CASE sent[e][i] # 0
    BY <1>1, <1>2, <1>3, <2>1 DEF MeshInv, SentIsSeen
  <2>2. CASE e = d /\ i = next
    BY <1>1, <1>2, <2>2
  <2> QED
    BY <1>1, <2>1, <2>2
<1>5. DeliveredIsSeen'
  BY <1>2 DEF MeshInv, DeliveredIsSeen
<1>6. asked' \in 0 .. MaxAsked
  BY MeshAssumption DEF MeshInv, Asked
<1> QED
  BY <1>1, <1>2, <1>4, <1>5, <1>6 DEF MeshInv

\* An entry is made for ducks only.
LEMMA TableStep ==
  ASSUME MeshInv, NEW d \in Ducks, NEW learn \in SUBSET Ducks, insertIntoRoutingTable(d, learn)
  PROVE  table' \in [Ducks -> SUBSET Ducks]
  BY DEF MeshInv, insertIntoRoutingTable

\* A duck that handles what it heard: the outcome's packets are new to it, and what
\* the callback gets was not in its filter.
LEMMA HandleStep ==
  ASSUME MeshInv, NEW d \in Ducks, handleReceivedPacket(d)
  PROVE  MeshInv'
<1>1. PICK m \in air :
        LET p == m.packet
            o == Handles(d, p)
            heard == Type[d] \in {"PAPA", "MAMA", "LINK"}
        IN  /\ m.to = d
            /\ Transmit(d, o.tx, air \ {m})
            /\ insertIntoRoutingTable(d, o.learn)
            /\ seen' = [seen EXCEPT ![d] = @ \cup {q.muid : q \in o.tx}
                                              \cup (IF heard THEN {p.muid} ELSE {})]
            /\ delivered' = [delivered EXCEPT ![d][p.muid] = @ + o.callback]
            /\ crashed' = IF o.crash THEN crashed \cup {d} ELSE crashed
  BY DEF handleReceivedPacket
<1>2. UNCHANGED <<state, asked>>
  BY DEF handleReceivedPacket
<1> DEFINE p == m.packet
           o == Handles(d, p)
           tx == o.tx
           rest == air \ {m}
           muids == {q.muid : q \in tx}
<1>3. GoodPacket(p) /\ p.muid \in Ids /\ p.muid < next
  BY DEF MeshInv, AirOK
<1>4. next \in Nat /\ MaxMuid \in Nat /\ Ids \subseteq Nat
  BY MeshAssumption DEF MeshInv, Ids
<1>5. /\ OutcomeOK(d, p, o)
      /\ Type[d] \notin Handlers => tx = {} /\ o.callback = 0
  BY <1>3, <1>4, HandlesOK
<1>6. /\ Transmit(d, tx, rest) /\ insertIntoRoutingTable(d, o.learn)
      /\ seen' = [seen EXCEPT ![d] = @ \cup muids \cup (IF Type[d] \in Handlers
                                                       THEN {p.muid} ELSE {})]
      /\ delivered' = [delivered EXCEPT ![d][p.muid] = @ + o.callback]
      /\ crashed' = IF o.crash THEN crashed \cup {d} ELSE crashed
  BY <1>1 DEF Handlers
<1> HIDE DEF p, o, rest
<1>7. /\ tx \in SUBSET PacketType /\ rest \in SUBSET air /\ o.learn \in SUBSET Ducks
      /\ o.callback \in {0, 1} /\ o.crash \in BOOLEAN
      /\ o.callback = 1 => p.muid \notin seen[d] /\ Type[d] \in Handlers
  BY <1>5 DEF OutcomeOK, OutcomeType, rest
<1>8. \A q \in tx : /\ RouteOK(q)
                    /\ \/ q.muid = next
                       \/ /\ q.muid \in Ids /\ q.muid < next
                          /\ q.muid \notin seen[d] /\ Type[d] \in Handlers
  BY <1>3, <1>5 DEF OutcomeOK
<1> HIDE DEF tx
<1>9. /\ next' \in 1 .. MaxMuid + 1 /\ next <= next' /\ AirOK' /\ sent' \in Counters
      /\ \A q \in tx : q.muid \in Ids /\ q.muid < next'
      /\ \A e \in Ducks, i \in Ids :
           sent'[e][i] # 0 => sent[e][i] # 0 \/ (e = d /\ \E q \in tx : q.muid = i)
  <2>1. Transmit(d, tx, rest)
    BY <1>6 DEF tx
  <2>2. tx \in SUBSET PacketType /\ rest \in SUBSET air
    BY <1>7
  <2> QED
    BY <1>8, <2>1, <2>2, TransmitStep, ZenonT(60)
<1>10. muids \subseteq Ids
  BY <1>9
<1> HIDE DEF muids
<1>11. /\ seen' \in [Ducks -> SUBSET Ids] /\ \A e \in Ducks : seen[e] \subseteq seen'[e]
       /\ muids \subseteq seen'[d] /\ (Type[d] \in Handlers => p.muid \in seen'[d])
  <2>1. seen \in [Ducks -> SUBSET Ids]
    BY DEF MeshInv
  <2> DEFINE new == seen[d] \cup muids \cup (IF Type[d] \in Handlers THEN {p.muid} ELSE {})
  <2>2. seen' = [seen EXCEPT ![d] = new]
    BY <1>6
  <2>3. /\ new \in SUBSET Ids /\ seen[d] \subseteq new /\ muids \subseteq new
        /\ (Type[d] \in Handlers => p.muid \in new)
    BY <1>3, <1>10, <2>1
  <2> HIDE DEF new
  <2>4. seen' \in [Ducks -> SUBSET Ids] /\ seen'[d] = new
    BY <2>1, <2>2, <2>3
  <2>5. \A e \in Ducks : seen[e] \subseteq seen'[e]
    BY <2>1, <2>2, <2>3
  <2> QED
    BY <2>3, <2>4, <2>5
<1>12. SentIsSeen'
  <2> SUFFICES ASSUME NEW e \in Ducks, NEW i \in Ids, sent'[e][i] # 0
               PROVE  i < next' /\ (Type[e] \in Handlers => i \in seen'[e])
    BY DEF SentIsSeen
  <2>1. CASE sent[e][i] # 0
    <3>1. i < next /\ (Type[e] \in Handlers => i \in seen[e])
      BY <2>1 DEF MeshInv, SentIsSeen
    <3>2. i < next'
      BY <1>4, <1>9, <3>1
    <3> QED
      BY <1>11, <3>1, <3>2
  <2>2. CASE e = d /\ \E q \in tx : q.muid = i
    <3>1. i < next' /\ i \in muids
      BY <1>9, <2>2 DEF muids
    <3> QED
      BY <1>11, <2>2, <3>1
  <2> QED
    BY <1>9, <2>1, <2>2
<1>13. delivered' \in Counters /\ DeliveredIsSeen'
  <2>1. delivered \in Counters
    BY DEF MeshInv
  <2>2. CASE o.callback = 0
    <3>1. delivered' = delivered
      BY <1>3, <1>6, <2>1, <2>2 DEF Counters
    <3> QED
      BY <1>11, <2>1, <3>1 DEF MeshInv, DeliveredIsSeen
  <2>3. CASE o.callback = 1
    <3>1. delivered[d][p.muid] = 0 /\ p.muid \in seen'[d]
      BY <1>3, <1>7, <1>11, <2>3 DEF MeshInv, DeliveredIsSeen
    <3>2. delivered' = [delivered EXCEPT ![d] = [@ EXCEPT ![p.muid] = 1]]
      BY <1>3, <1>6, <2>1, <2>3, <3>1 DEF Counters
    <3>3. delivered' \in Counters
      BY <1>3, <2>1, <3>2 DEF Counters
    <3>4. \A e \in Ducks, i \in Ids :
            delivered'[e][i] # 0 => delivered[e][i] # 0 \/ (e = d /\ i = p.muid)
      BY <1>3, <2>1, <3>2 DEF Counters
    <3> QED
      BY <1>11, <3>1, <3>3, <3>4 DEF MeshInv, DeliveredIsSeen
  <2> QED
    BY <1>7, <2>2, <2>3
<1>14. table' \in [Ducks -> SUBSET Ducks]
  BY <1>6, <1>7, TableStep
<1>15. crashed' \subseteq Ducks
  BY <1>6 DEF MeshInv
<1> QED
  BY <1>2, <1>9, <1>11, <1>12, <1>13, <1>14, <1>15 DEF MeshInv

\* A duck that joins learns whom it heard, which is a duck.
LEMMA JoinStep ==
  ASSUME MeshInv, NEW d \in Ducks, attemptNetworkJoin(d)
  PROVE  MeshInv'
<1>1. PICK m \in air :
        LET found == m.packet.topic = "rrep" /\ m.packet.dduid = d
        IN  /\ m.to = d /\ air' = air \ {m}
            /\ state' = IF found THEN [state EXCEPT ![d] = "PUBLIC"] ELSE state
            /\ insertIntoRoutingTable(d, IF found THEN {m.packet.sduid} ELSE {})
  BY DEF attemptNetworkJoin
<1>2. UNCHANGED <<seen, crashed, next, sent, delivered, asked>>
  BY DEF attemptNetworkJoin
<1>3. m.packet.sduid \in Ducks
  BY DEF MeshInv, AirOK, GoodPacket, PacketType
<1>4. table' \in [Ducks -> SUBSET Ducks]
  <2>1. PICK learn \in SUBSET Ducks : insertIntoRoutingTable(d, learn)
    BY <1>1, <1>3
  <2> QED
    BY <2>1, TableStep
<1>5. state' \in [Ducks -> {"SEARCHING", "PUBLIC"}]
  BY <1>1 DEF MeshInv
<1>6. AirOK'
  BY <1>1, <1>2 DEF MeshInv, AirOK
<1> QED
  BY <1>2, <1>4, <1>5, <1>6 DEF MeshInv, SentIsSeen, DeliveredIsSeen

LEMMA MeshStep ==
  ASSUME MeshInv, [MeshNext]_meshVars
  PROVE  MeshInv'
<1>0. next \in Nat
  BY DEF MeshInv
<1>1. ASSUME NEW d \in Ducks, Search(d) PROVE MeshInv'
  <2> DEFINE q == Route(d, "BROADCAST", "rreq", d, "BROADCAST", d)
  <2>1. GoodPacket(q) /\ q.muid = next
    BY <1>0, RouteGood DEF Address
  <2>2. /\ Transmit(d, {q}, air) /\ seen' = [seen EXCEPT ![d] = @ \cup {next}]
        /\ Asked /\ UNCHANGED <<state, table, crashed, delivered>>
    BY <1>1 DEF Search
  <2> HIDE DEF q
  <2> QED
    BY <2>1, <2>2, SendStep
<1>2. ASSUME NEW d \in Ducks, FoundNetwork(d) PROVE MeshInv'
  BY <1>2 DEF FoundNetwork, MeshInv, AirOK, SentIsSeen, DeliveredIsSeen
<1>3. ASSUME NEW d \in Ducks, sendPing(d) PROVE MeshInv'
  <2> DEFINE q == Packet(d, "BROADCAST", "ping")
  <2>1. GoodPacket(q) /\ q.muid = next
    BY <1>0, PacketGood DEF Address
  <2>2. /\ Transmit(d, {q}, air) /\ seen' = [seen EXCEPT ![d] = @ \cup {next}]
        /\ Asked /\ UNCHANGED <<state, table, crashed, delivered>>
    BY <1>3 DEF sendPing
  <2> HIDE DEF q
  <2> QED
    BY <2>1, <2>2, SendStep
<1>4. ASSUME NEW d \in Ducks, NEW dduid \in Address, sendData(d, dduid) PROVE MeshInv'
  <2> DEFINE data == Packet(d, dduid, "data")
             rreq == Route(d, dduid, "rreq", d, dduid, d)
  <2>1. \/ Transmit(d, {data}, air)
        \/ Transmit(d, {rreq}, air) /\ dduid \in Ducks
    BY <1>4 DEF sendData, Address
  <2>2. /\ seen' = [seen EXCEPT ![d] = @ \cup {next}]
        /\ Asked /\ UNCHANGED <<state, table, crashed, delivered>>
    BY <1>4 DEF sendData
  <2>3. GoodPacket(data) /\ data.muid = next
    BY <1>0, PacketGood
  <2>4. dduid \in Ducks => GoodPacket(rreq) /\ rreq.muid = next
    BY <1>0, RouteGood
  <2> HIDE DEF data, rreq
  <2> QED
    BY <2>1, <2>2, <2>3, <2>4, SendStep
<1>5. ASSUME NEW d \in Ducks, NEW dduid \in Address, Command(d, dduid) PROVE MeshInv'
  <2> DEFINE q == Packet(d, dduid, "cmd")
  <2>1. GoodPacket(q) /\ q.muid = next
    BY <1>0, PacketGood
  <2>2. /\ Transmit(d, {q}, air) /\ seen' = seen /\ Type[d] \notin Handlers
        /\ Asked /\ UNCHANGED <<state, table, crashed, delivered>>
    BY <1>5 DEF Command, Handlers
  <2> HIDE DEF q
  <2> QED
    BY <2>1, <2>2, SendStep
<1>6. CASE UNCHANGED meshVars
  BY <1>6 DEF meshVars, MeshInv, AirOK, SentIsSeen, DeliveredIsSeen
<1> QED
  BY <1>1, <1>2, <1>3, <1>4, <1>5, <1>6, HandleStep, JoinStep DEF MeshNext

\* In any mesh, whatever the order in which the echoes of a packet are heard, a duck
\* puts a packet on the air at most once and a hub gets it at most once; routing
\* tables hold ducks only.
THEOREM MeshRelayedOnce == MeshSpec => []RelayedOnce
<1>1. MeshInit => MeshInv
  <2> SUFFICES ASSUME MeshInit PROVE MeshInv
    OBVIOUS
  <2>1. 1 \in 1 .. MaxMuid + 1 /\ 0 \in 0 .. MaxAsked
    BY MeshAssumption
  <2>2. sent \in Counters /\ delivered \in Counters
    BY DEF MeshInit, Counters
  <2>3. SentIsSeen /\ DeliveredIsSeen /\ AirOK
    BY DEF MeshInit, SentIsSeen, DeliveredIsSeen, AirOK
  <2> QED
    BY <2>1, <2>2, <2>3 DEF MeshInit, MeshInv
<1>2. MeshInv /\ [MeshNext]_meshVars => MeshInv'
  BY MeshStep
<1>3. MeshInv => RelayedOnce
  <2> SUFFICES ASSUME MeshInv PROVE RelayedOnce
    OBVIOUS
  <2>1. MeshTypeOK
    BY DEF MeshInv, MeshTypeOK, AirOK, GoodPacket, PacketType
  <2>2. TransmittedOnce
    BY DEF MeshInv, TransmittedOnce, Counters
  <2>3. DeliveredOnce
    BY DEF MeshInv, DeliveredOnce, Counters
  <2> QED
    BY <2>1, <2>2, <2>3 DEF RelayedOnce
<1> QED
  BY <1>1, <1>2, <1>3, PTL DEF MeshSpec
=============================================================================
