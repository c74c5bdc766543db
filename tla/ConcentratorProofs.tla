-------------------------- MODULE ConcentratorProofs -------------------------
(***************************************************************************)
(* The two ends of the concentrator, for every value of the constants.     *)
(*                                                                         *)
(* HalReceive, for any counter, any number of packets and any errors: the  *)
(* times of packets and of the counter are right in every wrap             *)
(* (TimesRight), what lgw_receive returns is in order, without copies and  *)
(* leaves nothing out (BatchRight), and of two copies the better one is    *)
(* kept (BestKept).                                                        *)
(*                                                                         *)
(* ComLink, for any values, image, number of failures and size of the bulk *)
(* buffer: what the HAL believes of the memory behind the link is so       *)
(* (LinkRight).                                                            *)
(*                                                                         *)
(* The merging of copies and the accesses of a request are recursions.     *)
(* Induction is by the library's fact that a set of numbers has a least    *)
(* element.                                                                *)
(***************************************************************************)
EXTENDS HalReceive, ComLink, SequenceTheorems, WellFoundedInduction, TLAPS

-----------------------------------------------------------------------------
(* Induction and iteration                                                 *)

\* A set of natural numbers has a least element.
LEMMA LeastElement ==
  ASSUME NEW T, T \subseteq Nat, T # {}
  PROVE  \E x \in T : \A y \in T : x <= y
<1> DEFINE R == OpToRel(<, Nat)
<1>1. IsWellFoundedOn(R, Nat)
  BY NatLessThanWellFounded, Zenon
<1>2. \A x, y \in Nat : y < x => <<y, x>> \in R
  BY SMT DEF OpToRel
<1> HIDE DEF R
<1>3. PICK x \in T : \A y \in T : ~(<<y, x>> \in R)
  BY <1>1, WFMin, Zenon
<1>4. x \in Nat /\ \A y \in T : y \in Nat /\ ~(y < x)
  BY <1>2, <1>3
<1>5. \A y \in T : x <= y
  BY <1>4
<1> QED
  BY <1>5

\* Induction over the numbers up to N, as a fact about a set.
LEMMA UpTo ==
  ASSUME NEW N \in Nat, NEW S, 0 \in S, \A n \in 0 .. N - 1 : n \in S => n + 1 \in S
  PROVE  0 .. N \subseteq S
<1> DEFINE T == {n \in 0 .. N : n \notin S}
<1>1. SUFFICES ASSUME T # {} PROVE FALSE
  OBVIOUS
<1>2. T \subseteq Nat
  OBVIOUS
<1>3. PICK x \in T : \A y \in T : x <= y
  BY <1>1, <1>2, LeastElement, Zenon
<1>4. x \in 1 .. N /\ x - 1 \in 0 .. N - 1
  BY <1>3
<1>5. x - 1 \in S
  BY <1>3, <1>4
<1>6. (x - 1) + 1 \in S
  BY <1>4, <1>5
<1> QED
  BY <1>3, <1>4, <1>6

\* The values of a function that is iterated N times, with a step for each time: what a
\* recursive definition names exists.
Iteration(g, V, b, step, N) ==
  g \in [0 .. N -> V] /\ g[0] = b /\ \A n \in 1 .. N : g[n] = step[n][g[n - 1]]

LEMMA Iterated ==
  ASSUME NEW V, NEW b \in V, NEW N \in Nat, NEW step \in [1 .. N -> [V -> V]]
  PROVE  \E g : Iteration(g, V, b, step, N)
<1> DEFINE Up(n, g) == g[0] = b /\ \A m \in 1 .. n : g[m] = step[m][g[m - 1]]
           S == {n \in 0 .. N : \E g \in [0 .. n -> V] : Up(n, g)}
<1>1. 0 \in S
  <2> DEFINE h == [m \in 0 .. 0 |-> b]
  <2>1. h \in [0 .. 0 -> V] /\ Up(0, h)
    OBVIOUS
  <2> HIDE DEF h, Up
  <2> QED
    BY <2>1
<1>2. ASSUME NEW n \in 0 .. N - 1, n \in S PROVE n + 1 \in S
  <2>1. PICK g \in [0 .. n -> V] : Up(n, g)
    BY <1>2
  <2>2. PICK v \in V : v = step[n + 1][g[n]]
    <3>1. g[n] \in V /\ n + 1 \in 1 .. N
      BY <1>2
    <3>2. step[n + 1] \in [V -> V]
      BY <3>1
    <3> QED
      BY <3>1
  <2> DEFINE h == [m \in 0 .. n + 1 |-> IF m = n + 1 THEN v ELSE g[m]]
  <2>3. h \in [0 .. n + 1 -> V]
    BY <1>2, <2>1
  <2>4. h[0] = b
    BY <1>2, <2>1
  <2>5. ASSUME NEW m \in 1 .. n + 1 PROVE h[m] = step[m][h[m - 1]]
    <3>1. CASE m = n + 1
      <4>1. h[m] = v /\ h[m - 1] = g[n]
        BY <1>2, <3>1
      <4> HIDE DEF h
      <4> QED
        BY <2>2, <3>1, <4>1
    <3>2. CASE m # n + 1
      <4>1. m \in 1 .. n /\ m - 1 \in 0 .. n
        BY <1>2, <3>2
      <4>2. h[m] = g[m] /\ h[m - 1] = g[m - 1]
        BY <1>2, <4>1
      <4> HIDE DEF h
      <4> QED
        BY <2>1, <4>1, <4>2
    <3> QED
      BY <3>1, <3>2
  <2>6. Up(n + 1, h)
    BY <2>4, <2>5
  <2>7. n + 1 \in 0 .. N
    BY <1>2
  <2> HIDE DEF h, Up
  <2> QED
    BY <2>3, <2>6, <2>7
<1> HIDE DEF S
<1>3. 0 .. N \subseteq S
  BY <1>1, <1>2, UpTo, Zenon
<1>4. N \in S
  BY <1>3
<1> QED
  BY <1>4 DEF S, Iteration

-----------------------------------------------------------------------------
(* Merging                                                                 *)

Pkts == [id : Nat, at : Nat, count_us : Int, ftime : BOOLEAN, crc : BOOLEAN]

\* What is left of p in q: nothing new, and of each packet a copy as good as any.
Kept(p, q) ==
  /\ Len(q) <= Len(p)
  /\ \A j \in 1 .. Len(q) : \E i \in 1 .. Len(p) : q[j] = p[i]
  /\ \A i \in 1 .. Len(p) : \E j \in 1 .. Len(q) : q[j].id = p[i].id /\ (p[i].crc => q[j].crc)

LEMMA KeptSelf ==
  ASSUME NEW p \in Seq(Pkts)
  PROVE  Kept(p, p)
<1>1. Len(p) \in Nat
  BY LenProperties
<1> QED
  BY <1>1 DEF Kept

LEMMA KeptOn ==
  ASSUME NEW p \in Seq(Pkts), NEW q \in Seq(Pkts), NEW r \in Seq(Pkts), Kept(p, q), Kept(q, r)
  PROVE  Kept(p, r)
<1>1. Len(r) <= Len(p)
  BY LenProperties DEF Kept
<1>2. \A j \in 1 .. Len(r) : \E i \in 1 .. Len(p) : r[j] = p[i]
  BY DEF Kept
<1>3. ASSUME NEW i \in 1 .. Len(p)
      PROVE  \E j \in 1 .. Len(r) : r[j].id = p[i].id /\ (p[i].crc => r[j].crc)
  <2>1. PICK k \in 1 .. Len(q) : q[k].id = p[i].id /\ (p[i].crc => q[k].crc)
    BY DEF Kept
  <2>2. PICK j \in 1 .. Len(r) : r[j].id = q[k].id /\ (q[k].crc => r[j].crc)
    BY DEF Kept
  <2> QED
    BY <2>1, <2>2
<1> QED
  BY <1>1, <1>2, <1>3 DEF Kept

\* The loops of merge_packets meet a first pair of copies if there is one.
LEMMA CopiesFirst ==
  ASSUME NEW p \in Seq(Pkts), Copies(p) # {}
  PROVE  FirstCopies(p) \in Copies(p)
<1>1. Len(p) \in Nat /\ \A o \in Copies(p) : o[1] \in Nat /\ o[2] \in Nat
  BY LenProperties DEF Copies
<1> DEFINE A == {o[1] : o \in Copies(p)}
<1>2. A \subseteq Nat /\ A # {}
  BY <1>1
<1>3. PICK a \in A : \A y \in A : a <= y
  BY <1>2, LeastElement, Zenon
<1> DEFINE B == {o[2] : o \in {q \in Copies(p) : q[1] = a}}
<1>4. B \subseteq Nat /\ B # {}
  BY <1>1, <1>3
<1>5. PICK b \in B : \A y \in B : b <= y
  BY <1>4, LeastElement, Zenon
<1>6. PICK jk \in Copies(p) : jk[1] = a /\ jk[2] = b
  BY <1>5
<1>7. ASSUME NEW o \in Copies(p) PROVE jk[1] < o[1] \/ (jk[1] = o[1] /\ jk[2] <= o[2])
  <2>1. a <= o[1]
    BY <1>3
  <2>2. o[1] = a => b <= o[2]
    BY <1>5
  <2> QED
    BY <1>1, <1>2, <1>3, <1>6, <2>1, <2>2
<1> HIDE DEF A, B
<1> QED
  BY <1>6, <1>7, Zenon DEF FirstCopies

LEMMA SearchKeeps ==
  ASSUME NEW p \in Seq(Pkts)
  PROVE  /\ Search(p) \in Seq(Pkts)
         /\ Kept(p, Search(p))
         /\ Copies(p) # {} => Len(Search(p)) = Len(p) - 1
         /\ Copies(p) = {} => Search(p) = p
<1>1. CASE Copies(p) = {}
  BY <1>1, KeptSelf DEF Search
<1>2. CASE Copies(p) # {}
  <2>1. PICK j \in 1 .. Len(p), k \in 1 .. Len(p) :
          FirstCopies(p) = <<j, k>> /\ j < k /\ is_same_pkt(p[j], p[k])
    BY <1>2, CopiesFirst DEF Copies
  <2>2. PICK d : d = Duplicate(p, j, k)
    OBVIOUS
  <2>3. PICK e \in {j, k} :
          d \in {j, k} /\ d # e /\ p[d].id = p[e].id /\ (p[d].crc => p[e].crc)
    <3>1. \A i \in 1 .. Len(p) : p[i] \in Pkts
      BY ElementOfSeq
    <3>2. p[j].crc \in BOOLEAN /\ p[k].crc \in BOOLEAN /\ p[j].id = p[k].id
      BY <2>1, <3>1 DEF Pkts, is_same_pkt
    <3>3. (d = j /\ (p[j].crc => p[k].crc)) \/ (d = k /\ (p[k].crc => p[j].crc))
      BY <2>2, <3>2 DEF Duplicate
    <3> QED
      BY <2>1, <3>2, <3>3
  <2>4. Len(p) \in Nat /\ d \in 1 .. Len(p) /\ e \in 1 .. Len(p) /\ Len(p) >= 2
    BY <2>1, <2>3, LenProperties
  <2>5. PICK q : q = Search(p)
    OBVIOUS
  <2>6. q = [i \in 1 .. Len(p) - 1 |-> IF i = d THEN p[Len(p)] ELSE p[i]]
    BY <1>2, <2>1, <2>2, <2>5 DEF Search, remove_pkt
  <2>7. q \in Seq(Pkts) /\ Len(q) = Len(p) - 1
    <3>1. \A i \in 1 .. Len(p) : p[i] \in Pkts
      BY ElementOfSeq
    <3>2. q \in [1 .. Len(p) - 1 -> Pkts] /\ Len(p) - 1 \in Nat
      BY <2>4, <2>6, <3>1
    <3> QED
      BY <3>2, LenProperties, SeqDef
  <2>8. \A i \in 1 .. Len(q) : q[i] = p[i] \/ q[i] = p[Len(p)]
    BY <2>6, <2>7
  <2>9. ASSUME NEW i \in 1 .. Len(p), i # d
        PROVE  \E n \in 1 .. Len(q) : q[n] = p[i]
    <3>1. CASE i = Len(p)
      <4>1. d \in 1 .. Len(p) - 1
        BY <2>4, <2>9, <3>1
      <4>2. q[d] = p[i]
        BY <2>6, <3>1, <4>1
      <4> QED
        BY <2>7, <4>1, <4>2
    <3>2. CASE i # Len(p)
      <4>1. i \in 1 .. Len(q) /\ q[i] = p[i]
        BY <2>4, <2>6, <2>7, <2>9, <3>2
      <4> QED
        BY <4>1
    <3> QED
      BY <3>1, <3>2
  <2>10. ASSUME NEW i \in 1 .. Len(p)
         PROVE  \E n \in 1 .. Len(q) : q[n].id = p[i].id /\ (p[i].crc => q[n].crc)
    BY <2>3, <2>4, <2>9
  <2>11. \A n \in 1 .. Len(q) : \E i \in 1 .. Len(p) : q[n] = p[i]
    BY <2>4, <2>7, <2>8
  <2>12. Len(q) <= Len(p)
    BY <2>4, <2>7
  <2>13. Kept(p, q)
    BY <2>10, <2>11, <2>12 DEF Kept
  <2> QED
    BY <1>2, <2>5, <2>7, <2>13
<1> QED
  BY <1>1, <1>2

\* The copies are removed, all of them, and nothing else.
LEMMA MergeKeeps ==
  ASSUME NEW p \in Seq(Pkts)
  PROVE  /\ remove_duplicates(p) \in Seq(Pkts)
         /\ Kept(p, remove_duplicates(p))
         /\ Copies(remove_duplicates(p)) = {}
<1> DEFINE V == Seq(Pkts)
           N == Len(p)
           Rounds(g) == g = [n \in 0 .. N |-> IF n = 0 THEN p ELSE Search(g[n - 1])]
<1>1. N \in Nat
  BY LenProperties
<1>2. \E g : Rounds(g)
  <2>1. PICK step : step = [n \in 1 .. N |-> [q \in V |-> Search(q)]]
    OBVIOUS
  <2>2. step \in [1 .. N -> [V -> V]] /\ \A n \in 1 .. N : \A q \in V : step[n][q] = Search(q)
    BY <2>1, SearchKeeps
  <2>3. PICK g : Iteration(g, V, p, step, N)
    BY <1>1, <2>2, Iterated, Zenon
  <2>4. \A n \in 0 .. N : n # 0 => n \in 1 .. N /\ n - 1 \in 0 .. N
    BY <1>1
  <2>5. \A n \in 0 .. N : g[n] = IF n = 0 THEN p ELSE Search(g[n - 1])
    <3>1. g[0] = p
      BY <2>3 DEF Iteration
    <3>2. ASSUME NEW n \in 1 .. N PROVE g[n] = Search(g[n - 1])
      <4>1. n - 1 \in 0 .. N
        BY <1>1
      <4>2. g[n - 1] \in V /\ g[n] = step[n][g[n - 1]]
        BY <2>3, <4>1 DEF Iteration
      <4> HIDE DEF V
      <4> QED
        BY <2>2, <4>2
    <3> QED
      BY <2>4, <3>1, <3>2
  <2>6. Rounds(g)
    BY <2>3, <2>5 DEF Iteration
  <2> QED
    BY <2>6
<1>3. PICK g : g = CHOOSE h : Rounds(h)
  OBVIOUS
<1>4. Rounds(g)
  <2> HIDE DEF Rounds
  <2> QED
    BY <1>2, <1>3
<1>5. remove_duplicates(p) = g[N]
  BY <1>3, Zenon DEF remove_duplicates
<1> DEFINE Good(q, n) == /\ q \in Seq(Pkts) /\ Kept(p, q)
                         /\ Copies(q) = {} \/ Len(q) <= N - n
           S == {n \in 0 .. N : Good(g[n], n)}
<1>6. g[0] = p /\ \A n \in 0 .. N - 1 : g[n + 1] = Search(g[n])
  BY <1>1, <1>4
<1>7. 0 \in S
  BY <1>1, <1>6, KeptSelf
<1>8. ASSUME NEW n \in 0 .. N - 1, n \in S PROVE n + 1 \in S
  <2>1. PICK q : q = g[n]
    OBVIOUS
  <2>2. Good(q, n) /\ g[n + 1] = Search(q)
    BY <1>6, <1>8, <2>1
  <2>3. Search(q) \in Seq(Pkts) /\ Kept(p, Search(q))
    BY <2>2, SearchKeeps, KeptOn
  <2>4. Copies(q) = {} => Copies(Search(q)) = {}
    BY <2>2, SearchKeeps
  <2>5. Copies(q) # {} => Len(Search(q)) <= N - (n + 1)
    <3>1. Len(q) \in Nat /\ (Copies(q) # {} => Len(Search(q)) = Len(q) - 1)
      BY <2>2, SearchKeeps, LenProperties
    <3> QED
      BY <1>1, <2>2, <3>1
  <2>6. n + 1 \in 0 .. N
    BY <1>1
  <2> QED
    BY <2>2, <2>3, <2>4, <2>5, <2>6
<1> HIDE DEF S
<1>9. 0 .. N \subseteq S
  BY <1>1, <1>7, <1>8, UpTo, Zenon
<1>10. Good(g[N], N)
  <2>1. N \in S
    BY <1>1, <1>9
  <2> HIDE DEF Good, N
  <2> QED
    BY <2>1 DEF S
<1>11. Copies(g[N]) = {}
  <2>1. ASSUME Len(g[N]) <= N - N PROVE Copies(g[N]) = {}
    <3>1. Len(g[N]) = 0
      BY <1>1, <1>10, <2>1, LenProperties
    <3> QED
      BY <3>1 DEF Copies
  <2> QED
    BY <1>10, <2>1
<1> QED
  BY <1>5, <1>10, <1>11

-----------------------------------------------------------------------------
(* The two counters                                                        *)

C == COUNTER
R == COUNTER * WRAPS

\* The counter of the host stands for the time of its last reading.
Counted(t, r, w) ==
  /\ t \in Int /\ r \in 0 .. C - 1 /\ w \in 0 .. WRAPS - 1
  /\ \E k \in Int : t = (k * WRAPS + w) * C + r

LEMMA Sizes == C \in Nat /\ C > 1 /\ WRAPS \in Nat /\ WRAPS > 1 /\ R = WRAPS * C /\ R \in Nat /\ R >= 2 * C
<1>1. C \in Nat /\ C > 1 /\ WRAPS \in Nat /\ WRAPS > 1
  BY HalReceiveAssumption DEF C
<1>2. R = WRAPS * C /\ R \in Nat /\ R >= 2 * C
  <2>1. R = C * WRAPS
    BY DEF R, C
  <2>2. C * WRAPS = WRAPS * C /\ WRAPS * C \in Nat /\ WRAPS * C >= 2 * C
    BY <1>1
  <2> QED
    BY <2>1, <2>2
<1> QED
  BY <1>1, <1>2

LEMMA Residue ==
  ASSUME NEW c \in Nat \ {0}, NEW q \in Int, NEW r \in 0 .. c - 1
  PROVE  (q * c + r) % c = r
  OBVIOUS

LEMMA Divided ==
  ASSUME NEW c \in Nat \ {0}, NEW a \in Int
  PROVE  \E q \in Int : a % c \in 0 .. c - 1 /\ a = q * c + (a % c)
<1>1. a % c \in 0 .. c - 1 /\ a \div c \in Int /\ a = (a \div c) * c + (a % c)
  OBVIOUS
<1> QED
  BY <1>1

LEMMA FewerMultiples ==
  ASSUME NEW c \in Nat \ {0}, NEW a \in Int, NEW b \in Int, a * c < (b + 1) * c
  PROVE  a <= b
  OBVIOUS

\* Two times less than a turn apart: their turns are the same, or one apart when the
\* residue of the later is the smaller one.
LEMMA Turns ==
  ASSUME NEW a \in Int, NEW b \in Int, NEW r \in 0 .. C - 1, NEW s \in 0 .. C - 1,
         NEW t, t = a * C + r, NEW u, u = b * C + s, t <= u, u - t < C
  PROVE  b = IF s < r THEN a + 1 ELSE a
<1>1. C \in Nat \ {0}
  BY Sizes
<1>2. a * C < (b + 1) * C /\ b * C < (a + 2) * C
  BY <1>1
<1>3. a <= b
  BY <1>1, <1>2, FewerMultiples
<1>4. b * C < ((a + 1) + 1) * C
  BY <1>1, <1>2
<1>5. b <= a + 1
  BY <1>1, <1>4, FewerMultiples
<1>6. CASE b = a
  BY <1>1, <1>6
<1>7. CASE b = a + 1
  <2>1. b * C = a * C + C
    BY <1>1, <1>7
  <2> QED
    BY <1>1, <1>7, <2>1
<1> QED
  BY <1>3, <1>5, <1>6, <1>7

LEMMA CountedAt ==
  ASSUME NEW t \in Int, NEW r \in 0 .. C - 1, NEW w \in 0 .. WRAPS - 1, NEW a, NEW k \in Int,
         a = k * WRAPS + w, t = a * C + r
  PROVE  Counted(t, r, w)
  BY Zenon DEF Counted

\* timestamp_counter_expand
LEMMA CountedIs ==
  ASSUME NEW t, NEW r, NEW w, Counted(t, r, w)
  PROVE  w * C + r = t % R
<1>1. PICK k \in Int : t = (k * WRAPS + w) * C + r
  BY DEF Counted
<1>2. r \in 0 .. C - 1 /\ w \in 0 .. WRAPS - 1
  BY DEF Counted
<1>3. t = k * R + (w * C + r)
  BY <1>1, <1>2, Sizes
<1>4. w * C + r \in 0 .. R - 1
  <2>1. w * C <= (WRAPS - 1) * C /\ w * C >= 0
    BY <1>2, Sizes
  <2>2. (WRAPS - 1) * C = R - C
    BY Sizes
  <2>3. w * C \in Int
    BY <1>2, Sizes
  <2> QED
    BY <1>2, <2>1, <2>2, <2>3, Sizes
<1>5. R \in Nat \ {0}
  BY Sizes
<1> QED
  BY <1>3, <1>4, <1>5, Residue

\* timestamp_counter_update, less than a turn after the last reading
LEMMA CountedNext ==
  ASSUME NEW t, NEW r, NEW w, Counted(t, r, w), NEW u \in Int, t <= u, u - t < C
  PROVE  Counted(u, u % C, IF u % C < r THEN (w + 1) % WRAPS ELSE w)
<1>1. PICK k \in Int : t = (k * WRAPS + w) * C + r
  BY DEF Counted
<1>2. t \in Int /\ r \in 0 .. C - 1 /\ w \in 0 .. WRAPS - 1
  BY DEF Counted
<1>3. C \in Nat \ {0}
  BY Sizes
<1>4. PICK b \in Int : u % C \in 0 .. C - 1 /\ u = b * C + (u % C)
  <2>1. u \in Int
    OBVIOUS
  <2> QED
    BY <1>3, <2>1, Divided, Zenon
<1>5. PICK s \in 0 .. C - 1 : s = u % C
  BY <1>4
<1>6. PICK a \in Int : a = k * WRAPS + w
  BY <1>2, Sizes
<1>7. b = IF s < r THEN a + 1 ELSE a
  <2>1. t = a * C + r /\ u = b * C + s
    BY <1>1, <1>4, <1>5, <1>6
  <2> QED
    BY <1>2, <1>5, <2>1, Turns, Zenon
<1>8. CASE s < r
  <2>1. CASE w + 1 = WRAPS
    <3>1. (w + 1) % WRAPS = 0 /\ 0 \in 0 .. WRAPS - 1
      BY <2>1, Sizes
    <3>2. b = (k + 1) * WRAPS + 0
      BY <1>2, <1>6, <1>7, <1>8, <2>1, Sizes
    <3>3. k + 1 \in Int
      OBVIOUS
    <3> QED
      BY <1>4, <1>5, <1>8, <3>1, <3>2, <3>3, CountedAt, Zenon
  <2>2. CASE w + 1 # WRAPS
    <3>1. (w + 1) % WRAPS = w + 1 /\ w + 1 \in 0 .. WRAPS - 1
      BY <1>2, <2>2, Sizes
    <3>2. b = k * WRAPS + (w + 1)
      BY <1>2, <1>6, <1>7, <1>8, Sizes
    <3> QED
      BY <1>4, <1>5, <1>8, <3>1, <3>2, CountedAt, Zenon
  <2> QED
    BY <2>1, <2>2
<1>9. CASE ~(s < r)
  <2>1. b = k * WRAPS + w
    BY <1>6, <1>7, <1>9
  <2> QED
    BY <1>2, <1>4, <1>5, <1>9, <2>1, CountedAt, Zenon
<1> QED
  BY <1>8, <1>9

\* timestamp_pkt_expand, for a packet less than a turn before the reading
LEMMA CountedBefore ==
  ASSUME NEW t, NEW r, NEW w, Counted(t, r, w), NEW u \in Int, u <= t, t - u < C
  PROVE  ((w - (IF r >= u % C THEN 0 ELSE 1)) % WRAPS) * C + (u % C) = u % R
<1>1. PICK k \in Int : t = (k * WRAPS + w) * C + r
  BY DEF Counted
<1>2. t \in Int /\ r \in 0 .. C - 1 /\ w \in 0 .. WRAPS - 1
  BY DEF Counted
<1>3. C \in Nat \ {0}
  BY Sizes
<1>4. PICK b \in Int : u % C \in 0 .. C - 1 /\ u = b * C + (u % C)
  <2>1. u \in Int
    OBVIOUS
  <2> QED
    BY <1>3, <2>1, Divided, Zenon
<1>5. PICK s \in 0 .. C - 1 : s = u % C
  BY <1>4
<1>6. PICK a \in Int : a = k * WRAPS + w
  BY <1>2, Sizes
<1>7. a = IF r < s THEN b + 1 ELSE b
  <2>1. t = a * C + r /\ u = b * C + s
    BY <1>1, <1>4, <1>5, <1>6
  <2> QED
    BY <1>2, <1>5, <2>1, Turns, SMTT(30)
<1>8. PICK v \in 0 .. WRAPS - 1 : v = (w - (IF r >= s THEN 0 ELSE 1)) % WRAPS
  BY <1>2, <1>5, Sizes
<1>9. \E m \in Int : b = m * WRAPS + v
  <2>1. CASE r >= s
    <3>1. v = w
      BY <1>2, <1>8, <2>1, Sizes
    <3> QED
      BY <1>2, <1>5, <1>6, <1>7, <2>1, <3>1
  <2>2. CASE r < s /\ w = 0
    <3>1. v = WRAPS - 1
      BY <1>2, <1>5, <1>8, <2>2, Sizes
    <3>2. b = (k - 1) * WRAPS + v /\ k - 1 \in Int
      BY <1>2, <1>5, <1>6, <1>7, <2>2, <3>1, Sizes
    <3> QED
      BY <3>2
  <2>3. CASE r < s /\ w # 0
    <3>1. v = w - 1
      BY <1>2, <1>5, <1>8, <2>3, Sizes
    <3>2. b = k * WRAPS + v
      BY <1>2, <1>5, <1>6, <1>7, <2>3, <3>1, Sizes
    <3> QED
      BY <3>2
  <2> QED
    BY <1>2, <1>5, <2>1, <2>2, <2>3
<1>10. Counted(u, s, v)
  BY <1>4, <1>5, <1>8, <1>9, CountedAt, Zenon
<1>11. v * C + s = u % R
  BY <1>10, CountedIs
<1> QED
  BY <1>5, <1>8, <1>11

-----------------------------------------------------------------------------
(* The invariant                                                           *)

Frames == [id : Nat, at : Nat, kind : Kinds, ftime : BOOLEAN, crc : BOOLEAN]

\* Frames in a line at time t, when n were received and those of D damaged: in the
\* order of their reception, none older than a turn of the counter.  A packet is in it
\* more than once only if it was demodulated twice.
Line(s, t, n, D) ==
  /\ s \in Seq(Frames)
  /\ \A i \in 1 .. Len(s) : /\ s[i].id \in 1 .. n
                            /\ s[i].at <= t /\ t - s[i].at < C
                            /\ s[i].kind # "good" => s[i].id \in D
  /\ \A i, j \in 1 .. Len(s) :
       i < j => /\ s[i].id <= s[j].id /\ s[i].at <= s[j].at
                /\ s[i].id = s[j].id => FTIME /\ s[i].at = s[j].at

\* What the host and the chip keep, apart from the frames
RxTypes ==
  /\ now \in 0 .. MaxTime /\ readAt \in Nat /\ stale \in BOOLEAN
  /\ up \in {"idle", "fetched", "updated", "exited"}
  /\ errors \in 0 .. MAX_CONSECUTIVE_RX_ERRORS
  /\ up # "exited" => errors < MAX_CONSECUTIVE_RX_ERRORS
  /\ faults \in 0 .. MaxBusFaults /\ received \in 0 .. MaxFrames
  /\ lost \subseteq 1 .. received /\ damaged \subseteq 1 .. received

\* The counter was read at readAt, less than a turn ago.
RxCounter == Counted(readAt, ref, wrap) /\ readAt <= now /\ now - readAt < C

\* After sx1302_update, unless it failed, every frame in the buffer is older than
\* the counter.
RxLines ==
  /\ Line(fifo, now, received, damaged) /\ Line(rx_buffer, now, received, damaged)
  /\ up = "updated" /\ ~stale => \A i \in 1 .. Len(rx_buffer) : rx_buffer[i].at <= readAt

RxBatch ==
  /\ batch \in Seq(Pkts) /\ Len(batch) <= max_pkt /\ delivered \in Seq(Nat)
  /\ up \in {"fetched", "updated"} => batch = <<>>

RxInv == RxTypes /\ RxCounter /\ RxLines /\ RxBatch /\ CountRight /\ Merged /\ PacketsAccounted

-----------------------------------------------------------------------------
(* Lines of frames                                                         *)

LEMMA LineIndex ==
  ASSUME NEW s, NEW t, NEW n, NEW D, Line(s, t, n, D)
  PROVE  /\ s \in Seq(Frames) /\ Len(s) \in Nat /\ DOMAIN s = 1 .. Len(s)
         /\ \A i \in 1 .. Len(s) : s[i] \in Frames
<1>1. s \in Seq(Frames)
  BY DEF Line
<1> QED
  BY <1>1, LenProperties, ElementOfSeq

LEMMA LineEmpty ==
  ASSUME NEW t, NEW n, NEW D
  PROVE  Line(<<>>, t, n, D)
  BY EmptySeq DEF Line

\* More time passes, more frames are received, more of them damaged.
LEMMA LineLater ==
  ASSUME NEW s, NEW t \in Nat, NEW n \in Nat, NEW D, Line(s, t, n, D),
         NEW u \in Nat, t <= u, NEW m \in Nat, n <= m, NEW E, D \subseteq E,
         \A i \in 1 .. Len(s) : u - s[i].at < C
  PROVE  Line(s, u, m, E)
<1>1. \A i \in 1 .. Len(s) : s[i].at \in Nat
  BY LineIndex DEF Frames
<1>2. ASSUME NEW i \in 1 .. Len(s)
      PROVE  /\ s[i].id \in 1 .. m /\ s[i].at <= u /\ u - s[i].at < C
             /\ s[i].kind # "good" => s[i].id \in E
  BY <1>1 DEF Line
<1> QED
  BY <1>2 DEF Line

LEMMA LineOlder ==
  ASSUME NEW s, NEW t \in Nat, NEW n \in Nat, NEW D, Line(s, t, n, D),
         NEW u \in Nat, t <= u, \A i \in 1 .. Len(s) : u - s[i].at < C
  PROVE  Line(s, u, n, D)
<1>1. PICK m \in Nat : m = n /\ n <= m
  OBVIOUS
<1>2. D \subseteq D
  OBVIOUS
<1>3. Line(s, u, m, D)
  BY <1>1, <1>2, LineLater, Zenon
<1> QED
  BY <1>1, <1>3

LEMMA LineSub ==
  ASSUME NEW s, NEW t, NEW n, NEW D, Line(s, t, n, D), NEW k \in 1 .. Len(s) + 1
  PROVE  /\ Line(SubSeq(s, k, Len(s)), t, n, D)
         /\ \A i \in k .. Len(s) : \E j \in 1 .. Len(SubSeq(s, k, Len(s))) :
              SubSeq(s, k, Len(s))[j] = s[i]
<1>1. Len(s) \in Nat /\ \A i \in 1 .. Len(s) : s[i] \in Frames
  BY LineIndex
<1>2. PICK r : r = SubSeq(s, k, Len(s))
  OBVIOUS
<1>3. \A i \in k .. Len(s) : s[i] \in Frames
  BY <1>1
<1>4. k \in Int /\ Len(s) \in Int
  BY <1>1
<1>5. /\ r \in Seq(Frames) /\ Len(r) = IF k <= Len(s) THEN Len(s) - k + 1 ELSE 0
      /\ \A i \in 1 .. Len(s) - k + 1 : r[i] = s[k + i - 1]
  BY <1>2, <1>3, <1>4, SubSeqProperties
<1>6. Len(r) = Len(s) - k + 1
  BY <1>1, <1>5
<1>7. \A i \in 1 .. Len(r) : k + i - 1 \in 1 .. Len(s) /\ r[i] = s[k + i - 1]
  BY <1>1, <1>5, <1>6
<1>8. \A i, j \in 1 .. Len(r) : i < j => k + i - 1 < k + j - 1
  BY <1>1, <1>6
<1>9. Line(r, t, n, D)
  <2>1. ASSUME NEW i \in 1 .. Len(r)
        PROVE  /\ r[i].id \in 1 .. n /\ r[i].at <= t /\ t - r[i].at < C
               /\ r[i].kind # "good" => r[i].id \in D
    BY <1>7 DEF Line
  <2>2. ASSUME NEW i \in 1 .. Len(r), NEW j \in 1 .. Len(r), i < j
        PROVE  /\ r[i].id <= r[j].id /\ r[i].at <= r[j].at
               /\ r[i].id = r[j].id => FTIME /\ r[i].at = r[j].at
    <3>1. PICK a \in 1 .. Len(s), b \in 1 .. Len(s) : r[i] = s[a] /\ r[j] = s[b] /\ a < b
      BY <1>7, <1>8, <2>2
    <3> QED
      BY <3>1 DEF Line
  <2> QED
    BY <1>5, <2>1, <2>2 DEF Line
<1>10. ASSUME NEW i \in k .. Len(s) PROVE \E j \in 1 .. Len(r) : r[j] = s[i]
  <2>1. i - k + 1 \in 1 .. Len(r) /\ k + (i - k + 1) - 1 = i
    BY <1>1, <1>6
  <2> QED
    BY <1>7, <2>1
<1> QED
  BY <1>2, <1>9, <1>10

LEMMA LineAppend ==
  ASSUME RxTypes, Line(fifo, now, received, damaged), NEW frames \in Arrivals, NEW E,
         damaged \subseteq E, frames[1].kind # "good" => received + 1 \in E
  PROVE  /\ Line(fifo \o frames, now, received + 1, E)
         /\ \A i \in 1 .. Len(fifo) : \E j \in 1 .. Len(fifo \o frames) : (fifo \o frames)[j] = fifo[i]
         /\ \E j \in 1 .. Len(fifo \o frames) : (fifo \o frames)[j].id = received + 1
<1>1. /\ frames \in Seq(Frames) /\ Len(frames) \in {1, 2}
      /\ \A i \in 1 .. Len(frames) : /\ frames[i].id = received + 1 /\ frames[i].at = now
                                     /\ frames[i].kind = frames[1].kind
      /\ Len(frames) = 2 => FTIME
  <2>1. now \in Nat /\ received + 1 \in Nat
    BY HalReceiveAssumption DEF RxTypes
  <2>2. \A k \in Kinds, f \in BOOLEAN, c \in BOOLEAN : Frame(k, f, c) \in Frames
    BY <2>1 DEF Frame, Frames
  <2>3. CASE \E k \in Kinds : frames = <<Frame(k, FALSE, TRUE)>>
    <3>1. PICK k \in Kinds : frames = <<Frame(k, FALSE, TRUE)>>
      BY <2>3
    <3>2. PICK f \in Frames : f = Frame(k, FALSE, TRUE)
      BY <2>2
    <3>3. f.id = received + 1 /\ f.at = now /\ frames = <<f>>
      BY <3>1, <3>2 DEF Frame
    <3> QED
      BY <3>3
  <2>4. CASE FTIME /\ "good" \in Kinds
             /\ \E c, d \in BOOLEAN : frames = <<Frame("good", FALSE, c), Frame("good", TRUE, d)>>
    <3>1. PICK c, d \in BOOLEAN : frames = <<Frame("good", FALSE, c), Frame("good", TRUE, d)>>
      BY <2>4
    <3>2. PICK f \in Frames, g \in Frames : f = Frame("good", FALSE, c) /\ g = Frame("good", TRUE, d)
      BY <2>2, <2>4
    <3>3. /\ f.id = received + 1 /\ f.at = now /\ g.id = received + 1 /\ g.at = now
          /\ f.kind = g.kind /\ frames = <<f, g>>
      BY <3>1, <3>2 DEF Frame
    <3>4. frames \in Seq(Frames) /\ Len(frames) = 2 /\ frames[1] = f /\ frames[2] = g
      BY <3>3
    <3>5. \A i \in 1 .. Len(frames) : frames[i] = f \/ frames[i] = g
      BY <3>4
    <3> QED
      BY <2>4, <3>3, <3>4, <3>5
  <2>5. \/ \E k \in Kinds : frames = <<Frame(k, FALSE, TRUE)>>
        \/ /\ FTIME /\ "good" \in Kinds
           /\ \E c, d \in BOOLEAN : frames = <<Frame("good", FALSE, c), Frame("good", TRUE, d)>>
    <3>1. CASE FTIME /\ "good" \in Kinds
      <4>1. \/ frames \in {<<Frame(k, FALSE, TRUE)>> : k \in Kinds \ {"good"}}
            \/ \E crc \in BOOLEAN \X BOOLEAN :
                 frames = <<Frame("good", FALSE, crc[1]), Frame("good", TRUE, crc[2])>>
        BY <3>1 DEF Arrivals
      <4> QED
        BY <3>1, <4>1
    <3>2. CASE ~(FTIME /\ "good" \in Kinds)
      <4>1. frames \in {<<Frame(k, FALSE, TRUE)>> : k \in Kinds}
        BY <3>2 DEF Arrivals
      <4> QED
        BY <4>1, Zenon
    <3> QED
      BY <3>1, <3>2
  <2> QED
    BY <2>3, <2>4, <2>5
<1>2. PICK s : s = fifo \o frames
  OBVIOUS
<1>3. Len(fifo) \in Nat /\ fifo \in Seq(Frames) /\ \A i \in 1 .. Len(fifo) : fifo[i] \in Frames
  BY LineIndex
<1>4. /\ s \in Seq(Frames) /\ Len(s) = Len(fifo) + Len(frames)
      /\ \A i \in 1 .. Len(s) : s[i] = IF i <= Len(fifo) THEN fifo[i] ELSE frames[i - Len(fifo)]
  BY <1>1, <1>2, <1>3, ConcatProperties
<1>5. \A i \in 1 .. Len(fifo) : i \in 1 .. Len(s) /\ s[i] = fifo[i]
  BY <1>1, <1>3, <1>4
<1>6. ASSUME NEW i \in 1 .. Len(s), ~(i <= Len(fifo))
      PROVE  s[i].id = received + 1 /\ s[i].at = now /\ s[i].kind = frames[1].kind
  <2>1. i - Len(fifo) \in 1 .. Len(frames) /\ s[i] = frames[i - Len(fifo)]
    BY <1>1, <1>3, <1>4, <1>6
  <2> QED
    BY <1>1, <2>1
<1>7. received \in Nat /\ now \in Nat /\ C \in Nat /\ 0 < C
  BY Sizes, HalReceiveAssumption DEF RxTypes
<1>8. ASSUME NEW i \in 1 .. Len(s)
      PROVE  /\ s[i].id \in 1 .. received + 1 /\ s[i].at <= now /\ now - s[i].at < C
             /\ s[i].kind # "good" => s[i].id \in E
  <2>1. CASE i <= Len(fifo)
    <3>1. i \in 1 .. Len(fifo) /\ s[i] = fifo[i]
      BY <1>3, <1>4, <2>1
    <3> QED
      BY <1>7, <3>1 DEF Line
  <2>2. CASE ~(i <= Len(fifo))
    BY <1>6, <1>7, <2>2
  <2> QED
    BY <2>1, <2>2
<1>9. ASSUME NEW i \in 1 .. Len(s), NEW j \in 1 .. Len(s), i < j
      PROVE  /\ s[i].id <= s[j].id /\ s[i].at <= s[j].at
             /\ s[i].id = s[j].id => FTIME /\ s[i].at = s[j].at
  <2>1. CASE j <= Len(fifo)
    <3>1. i \in 1 .. Len(fifo) /\ s[i] = fifo[i] /\ j \in 1 .. Len(fifo) /\ s[j] = fifo[j]
      BY <1>3, <1>4, <1>9, <2>1
    <3> QED
      BY <1>9, <3>1 DEF Line
  <2>2. CASE ~(j <= Len(fifo)) /\ i <= Len(fifo)
    <3>1. i \in 1 .. Len(fifo) /\ s[i] = fifo[i]
      BY <1>3, <1>4, <2>2
    <3>2. fifo[i].id \in 1 .. received /\ fifo[i].at <= now
      BY <3>1 DEF Line
    <3>3. s[j].id = received + 1 /\ s[j].at = now
      BY <1>6, <2>2
    <3> QED
      BY <1>7, <3>1, <3>2, <3>3
  <2>3. CASE ~(j <= Len(fifo)) /\ ~(i <= Len(fifo))
    <3>1. Len(frames) = 2
      BY <1>1, <1>3, <1>4, <1>9, <2>3
    <3>2. s[i].id = received + 1 /\ s[i].at = now /\ s[j].id = received + 1 /\ s[j].at = now
      BY <1>6, <2>3
    <3> QED
      BY <1>1, <1>7, <3>1, <3>2
  <2> QED
    BY <2>1, <2>2, <2>3
<1>10. Line(s, now, received + 1, E)
  BY <1>4, <1>8, <1>9 DEF Line
<1>11. Len(s) \in 1 .. Len(s) /\ s[Len(s)].id = received + 1
  BY <1>1, <1>3, <1>4, <1>6
<1> QED
  BY <1>2, <1>5, <1>10, <1>11

-----------------------------------------------------------------------------
(* What the buffer is filled with, and what a call takes from it           *)

LEMMA FirstIn ==
  ASSUME NEW I, I \subseteq Nat, I # {}
  PROVE  Min(I) \in I /\ \A y \in I : Min(I) <= y
<1>1. \E x \in I : \A y \in I : x <= y
  BY LeastElement, Zenon
<1> QED
  BY <1>1 DEF Min

\* rx_buffer_fetch loses nothing unless bytes were damaged.
LEMMA FetchKeeps ==
  ASSUME NEW s, NEW t, NEW n, NEW D, Line(s, t, n, D)
  PROVE  /\ Line(rx_buffer_fetch(s), t, n, D)
         /\ rx_buffer_fetch(s) # s => D # {}
<1>1. s \in Seq(Frames) /\ Len(s) \in Nat /\ DOMAIN s = 1 .. Len(s)
  BY LineIndex
<1>2. PICK I : I = {i \in 1 .. Len(s) : s[i].kind # "noise"}
  OBVIOUS
<1>3. PICK sync : sync = IF I # {} THEN Min(I) ELSE 0
  OBVIOUS
<1>4. sync = SelectInSeq(s, LAMBDA f : f.kind # "noise")
  BY <1>2, <1>3 DEF SelectInSeq
<1>5. I # {} => sync \in I /\ \A i \in I : sync <= i
  <2>1. I \subseteq Nat
    BY <1>2
  <2> QED
    BY <1>3, <2>1, FirstIn, Zenon
<1>6. PICK rest : rest = IF sync = 0 THEN <<>> ELSE SubSeq(s, sync, Len(s))
  OBVIOUS
<1>7. rx_buffer_fetch(s) = IF \E f \in Range(rest) : f.kind = "noise" THEN <<>> ELSE rest
  BY <1>4, <1>6, Zenon DEF rx_buffer_fetch
<1>8. Line(rest, t, n, D)
  <2>1. CASE sync = 0
    BY <1>6, <2>1, LineEmpty
  <2>2. CASE sync # 0
    <3>1. sync \in 1 .. Len(s) + 1
      BY <1>1, <1>2, <1>3, <1>5, <2>2
    <3> QED
      BY <1>6, <2>2, <3>1, LineSub
  <2> QED
    BY <2>1, <2>2
<1>9. Line(rx_buffer_fetch(s), t, n, D)
  BY <1>7, <1>8, LineEmpty
<1>10. ASSUME D = {} PROVE rx_buffer_fetch(s) = s
  <2>1. \A i \in 1 .. Len(s) : s[i].kind = "good"
    BY <1>10 DEF Line
  <2>2. I = 1 .. Len(s)
    BY <1>2, <2>1
  <2>3. CASE s = <<>>
    <3>1. Len(s) = 0
      BY <2>3
    <3>2. sync = 0
      BY <1>3, <2>2, <3>1
    <3>3. rest = s
      BY <1>6, <2>3, <3>2
    <3> QED
      BY <1>7, <2>3, <3>3
  <2>4. CASE s # <<>>
    <3>1. Len(s) # 0
      BY <1>1, <2>4, EmptySeq
    <3>2. 1 \in I /\ I # {}
      BY <1>1, <2>2, <3>1
    <3>3. sync = 1
      BY <1>1, <1>5, <2>2, <3>2
    <3>4. rest = SubSeq(s, 1, Len(s))
      BY <1>6, <3>3
    <3>5. rest = s
      BY <1>1, <3>4
    <3>6. ~ \E f \in Range(rest) : f.kind = "noise"
      BY <1>1, <2>1, <3>5 DEF Range
    <3> QED
      BY <1>7, <3>5, <3>6
  <2> QED
    BY <2>3, <2>4
<1> QED
  BY <1>9, <1>10

\* The packets lgw_receive parses in a call, if none fails
Asked(s) == IF Len(s) <= max_pkt THEN Len(s) ELSE max_pkt
Found(s) == [i \in 1 .. Asked(s) |-> sx1302_parse(s[i])]

LEMMA AskedFor ==
  ASSUME NEW s \in Seq(Frames)
  PROVE  Asked(s) \in 0 .. Len(s) /\ Asked(s) <= max_pkt /\ Asked(s) \in Nat
<1>1. Len(s) \in Nat /\ max_pkt \in Nat
  BY LenProperties, HalReceiveAssumption
<1> QED
  BY <1>1 DEF Asked

\* A packet that is not younger than the counter gets the time of its reception.
LEMMA FoundRight ==
  ASSUME RxTypes, RxCounter, RxLines, up = "updated"
  PROVE  /\ Found(rx_buffer) \in Seq(Pkts) /\ Len(Found(rx_buffer)) = Asked(rx_buffer)
         /\ \A i \in 1 .. Asked(rx_buffer) :
              /\ Found(rx_buffer)[i].id = rx_buffer[i].id
              /\ Found(rx_buffer)[i].at = rx_buffer[i].at
              /\ Found(rx_buffer)[i].crc = rx_buffer[i].crc
              /\ stale \/ Found(rx_buffer)[i].count_us = rx_buffer[i].at % R
         /\ \A i, j \in 1 .. Asked(rx_buffer) :
              rx_buffer[i].at = rx_buffer[j].at
                => Found(rx_buffer)[i].count_us = Found(rx_buffer)[j].count_us
<1>1. Line(rx_buffer, now, received, damaged)
  BY DEF RxLines
<1>2. /\ rx_buffer \in Seq(Frames) /\ Len(rx_buffer) \in Nat
      /\ \A i \in 1 .. Len(rx_buffer) : rx_buffer[i] \in Frames
  BY <1>1, LineIndex
<1>3. PICK n \in Nat : n = Asked(rx_buffer) /\ n <= Len(rx_buffer)
  BY <1>2, AskedFor
<1>4. PICK g : g = Found(rx_buffer)
  OBVIOUS
<1>5. \A i \in 1 .. n : i \in 1 .. Len(rx_buffer) /\ rx_buffer[i] \in Frames
  BY <1>2, <1>3
<1>6. g = [i \in 1 .. n |-> sx1302_parse(rx_buffer[i])]
  BY <1>3, <1>4 DEF Found
<1>7. \A i \in 1 .. n : g[i] = sx1302_parse(rx_buffer[i])
  BY <1>6
<1>8. ASSUME NEW at \in Nat PROVE timestamp_pkt_expand(at) \in Int
  <2>1. /\ at % C \in Int /\ wrap \in Int /\ ref \in Int /\ C \in Int
        /\ WRAPS \in Nat \ {0}
    BY Sizes DEF RxCounter, Counted
  <2>2. PICK d \in Int : d = (wrap - (IF ref >= at % C THEN 0 ELSE 1)) % WRAPS
    BY <2>1
  <2>3. timestamp_pkt_expand(at) = d * C + (at % C)
    BY <2>2 DEF timestamp_pkt_expand, C
  <2> QED
    BY <2>1, <2>2, <2>3
<1>9. ASSUME NEW i \in 1 .. n
      PROVE  /\ g[i] \in Pkts /\ g[i].id = rx_buffer[i].id /\ g[i].at = rx_buffer[i].at
             /\ g[i].crc = rx_buffer[i].crc
             /\ g[i].count_us = timestamp_pkt_expand(rx_buffer[i].at)
  <2>1. PICK f \in Frames : f = rx_buffer[i]
    BY <1>5
  <2>2. f.at \in Nat /\ f.id \in Nat /\ f.ftime \in BOOLEAN /\ f.crc \in BOOLEAN
    BY DEF Frames
  <2>3. PICK c \in Int : c = timestamp_pkt_expand(f.at)
    BY <1>8, <2>2
  <2>4. g[i] = [id |-> f.id, at |-> f.at, count_us |-> c, ftime |-> f.ftime /\ f.crc, crc |-> f.crc]
    BY <1>7, <2>1, <2>3 DEF sx1302_parse, count_us
  <2>5. PICK h \in BOOLEAN : h = (f.ftime /\ f.crc)
    BY <2>2
  <2>6. g[i] = [id |-> f.id, at |-> f.at, count_us |-> c, ftime |-> h, crc |-> f.crc]
    BY <2>4, <2>5
  <2> QED
    BY <2>1, <2>2, <2>3, <2>6 DEF Pkts
<1>10. g \in Seq(Pkts) /\ Len(g) = n
  <2>1. g \in [1 .. n -> Pkts]
    BY <1>6, <1>9
  <2> QED
    BY <1>3, <2>1, SeqDef, LenProperties
<1>11. ASSUME NEW i \in 1 .. n, ~stale
       PROVE  g[i].count_us = rx_buffer[i].at % R
  <2>1. PICK a \in Nat : a = rx_buffer[i].at /\ a <= readAt /\ now - a < C
    BY <1>1, <1>5, <1>11 DEF RxLines, Line, Frames
  <2>2. readAt \in Nat /\ now \in Nat /\ C \in Nat /\ readAt <= now
    BY Sizes DEF RxCounter, RxTypes
  <2>3. readAt - a < C
    BY <2>1, <2>2
  <2>4. Counted(readAt, ref, wrap)
    BY DEF RxCounter
  <2>5. ((wrap - (IF ref >= a % C THEN 0 ELSE 1)) % WRAPS) * C + (a % C) = a % R
    <3>1. a \in Int
      OBVIOUS
    <3> QED
      BY <2>1, <2>3, <2>4, <3>1, CountedBefore, Zenon
  <2>6. timestamp_pkt_expand(a) = a % R
    BY <2>5 DEF timestamp_pkt_expand, C
  <2> QED
    BY <1>9, <2>1, <2>6
<1> QED
  BY <1>3, <1>4, <1>9, <1>10, <1>11

\* compare_pkt_tmst tells the order of two packets less than a turn of the counter
\* apart, wherever the 32-bit time wraps between them.
LEMMA OrderTold ==
  ASSUME NEW u \in Int, NEW v \in Int, u - v < C, v - u < C
  PROVE  ((v % R) - (u % R)) % R \in 0 .. R \div 2 - 1 <=> u <= v
<1>1. R \in Nat \ {0} /\ C \in Nat /\ R >= 2 * C /\ C > 1
  BY Sizes
<1>2. u \in Int /\ v \in Int
  OBVIOUS
<1>3. PICK i \in Int : u % R \in 0 .. R - 1 /\ u = i * R + (u % R)
  BY <1>1, <1>2, Divided, Zenon
<1>4. PICK j \in Int : v % R \in 0 .. R - 1 /\ v = j * R + (v % R)
  BY <1>1, <1>2, Divided, Zenon
<1>5. PICK a \in Int, b \in Int, d \in Int : a = i * R /\ b = j * R /\ d = (v % R) - (u % R)
  <2>1. i * R \in Int /\ j * R \in Int
    BY <1>1
  <2>2. (v % R) - (u % R) \in Int
    BY <1>3, <1>4
  <2> QED
    BY <2>1, <2>2, Zenon
<1>6. d = (v - u) + (a - b)
  BY <1>1, <1>3, <1>4, <1>5
<1>7. a - b = (i - j) * R
  <2>1. (i - j) * R = i * R - j * R
    BY <1>1
  <2> QED
    BY <1>5, <2>1
<1>8. R \div 2 \in Int /\ 2 * (R \div 2) <= R /\ R < 2 * (R \div 2) + 2
  BY <1>1
<1>9. CASE u <= v
  <2>1. v - u \in 0 .. R - 1 /\ v - u <= R \div 2 - 1
    BY <1>1, <1>8, <1>9
  <2>2. d = (i - j) * R + (v - u) /\ i - j \in Int
    BY <1>6, <1>7
  <2>3. d % R = v - u
    BY <1>1, <2>1, <2>2, Residue
  <2> QED
    BY <1>1, <1>5, <1>8, <1>9, <2>1, <2>3
<1>10. CASE v < u
  <2>1. (v - u) + R \in 0 .. R - 1 /\ (v - u) + R > R \div 2 - 1
    BY <1>1, <1>8, <1>10
  <2>2. d = ((i - j) - 1) * R + ((v - u) + R) /\ (i - j) - 1 \in Int
    BY <1>1, <1>6, <1>7
  <2>3. d % R = (v - u) + R
    BY <1>1, <2>1, <2>2, Residue
  <2> QED
    BY <1>1, <1>5, <1>8, <1>10, <2>1, <2>3
<1> QED
  BY <1>9, <1>10

\* What lgw_receive may return for the packets it parsed
Merges(found) == IF FTIME THEN merge_packets(found) ELSE {found}

\* A returned packet is one of those parsed; of each one parsed a copy as good as any
\* is returned, one copy only, and they are in the order of reception.
Returned(b) ==
  /\ b \in Seq(Pkts) /\ Len(b) <= max_pkt
  /\ \A j \in 1 .. Len(b) : stale \/ b[j].count_us = b[j].at % R
  /\ \A i \in 1 .. Asked(rx_buffer) : \E j \in 1 .. Len(b) :
       b[j].id = rx_buffer[i].id /\ (rx_buffer[i].crc => b[j].crc)
  /\ \A j, k \in 1 .. Len(b) : j < k => b[j].id # b[k].id /\ (stale \/ b[j].at <= b[k].at)

\* b is q, sorted by f.
Sorts(f, q, b) ==
  /\ f \in [1 .. Len(q) -> 1 .. Len(q)]
  /\ b = [i \in 1 .. Len(q) |-> q[f[i]]]
  /\ \A i, j \in 1 .. Len(q) : f[i] = f[j] => i = j
  /\ \A n \in 1 .. Len(q) : \E i \in 1 .. Len(q) : f[i] = n
  /\ \A i, j \in 1 .. Len(q) : i < j => InOrder(q[f[i]], q[f[j]])

LEMMA SortedIs ==
  ASSUME NEW p, NEW b \in merge_packets(p)
  PROVE  \E f : Sorts(f, remove_duplicates(p), b)
<1>1. PICK q : q = remove_duplicates(p)
  OBVIOUS
<1>2. PICK f \in Bijection(1 .. Len(q), 1 .. Len(q)) :
        /\ \A i, j \in 1 .. Len(q) : i < j => InOrder(q[f[i]], q[f[j]])
        /\ b = [i \in 1 .. Len(q) |-> q[f[i]]]
  BY <1>1 DEF merge_packets
<1>3. /\ f \in [1 .. Len(q) -> 1 .. Len(q)]
      /\ \A i, j \in 1 .. Len(q) : f[i] = f[j] => i = j
      /\ \A n \in 1 .. Len(q) : \E i \in 1 .. Len(q) : f[i] = n
  BY <1>2 DEF Bijection, Injection, Surjection, IsInjective
<1>4. Sorts(f, q, b)
  BY <1>2, <1>3, Zenon DEF Sorts
<1> QED
  BY <1>1, <1>4

\* What is known of the packets left when the copies are removed
LEMMA LeftOver ==
  ASSUME RxTypes, RxCounter, RxLines, up = "updated",
         NEW q, q = remove_duplicates(Found(rx_buffer))
  PROVE  /\ q \in Seq(Pkts) /\ Len(q) \in Nat /\ Len(q) <= max_pkt
         /\ \A j \in 1 .. Len(q) : \E i \in 1 .. Asked(rx_buffer) :
              /\ i \in 1 .. Len(rx_buffer) /\ q[j] = Found(rx_buffer)[i]
              /\ q[j].id = rx_buffer[i].id /\ q[j].at = rx_buffer[i].at
              /\ stale \/ q[j].count_us = q[j].at % R
         /\ \A i \in 1 .. Asked(rx_buffer) : \E j \in 1 .. Len(q) :
              q[j].id = rx_buffer[i].id /\ (rx_buffer[i].crc => q[j].crc)
         /\ \A j, k \in 1 .. Len(q) : j # k => q[j].id # q[k].id
         /\ \A j, k \in 1 .. Len(q) : q[j].at - q[k].at < C
<1> DEFINE s == rx_buffer
           p == Found(s)
           n == Asked(s)
<1>1. Line(s, now, received, damaged) /\ s \in Seq(Frames)
  BY LineIndex DEF RxLines
<1>2. n \in 0 .. Len(s) /\ n <= max_pkt /\ n \in Nat /\ Len(s) \in Nat
  BY <1>1, AskedFor, LineIndex
<1>3. /\ p \in Seq(Pkts) /\ Len(p) = n
      /\ \A i \in 1 .. n : /\ p[i].id = s[i].id /\ p[i].at = s[i].at /\ p[i].crc = s[i].crc
                           /\ stale \/ p[i].count_us = s[i].at % R
      /\ \A i, j \in 1 .. n : s[i].at = s[j].at => p[i].count_us = p[j].count_us
  BY FoundRight
<1> HIDE DEF s, p, n
<1>4. q \in Seq(Pkts) /\ Kept(p, q) /\ Copies(q) = {}
  BY <1>3, MergeKeeps DEF p, s
<1>5. Len(q) \in Nat /\ Len(q) <= n
  BY <1>3, <1>4, LenProperties DEF Kept
<1>6. ASSUME NEW j \in 1 .. Len(q)
      PROVE  \E i \in 1 .. n : /\ i \in 1 .. Len(s) /\ q[j] = p[i]
                               /\ q[j].id = s[i].id /\ q[j].at = s[i].at
                               /\ stale \/ q[j].count_us = q[j].at % R
  <2>1. PICK i \in 1 .. n : q[j] = p[i]
    BY <1>3, <1>4 DEF Kept
  <2>2. i \in 1 .. Len(s)
    BY <1>2
  <2> QED
    BY <1>3, <2>1, <2>2
<1>7. ASSUME NEW i \in 1 .. n
      PROVE  \E j \in 1 .. Len(q) : q[j].id = s[i].id /\ (s[i].crc => q[j].crc)
  <2>1. PICK j \in 1 .. Len(q) : q[j].id = p[i].id /\ (p[i].crc => q[j].crc)
    BY <1>3, <1>4 DEF Kept
  <2> QED
    BY <1>3, <2>1, Zenon
<1>8. ASSUME NEW j \in 1 .. Len(q), NEW k \in 1 .. Len(q), j < k, q[j].id = q[k].id
      PROVE  FALSE
  <2>1. PICK x \in 1 .. n : x \in 1 .. Len(s) /\ q[j] = p[x] /\ q[j].id = s[x].id
    BY <1>6
  <2>2. PICK y \in 1 .. n : y \in 1 .. Len(s) /\ q[k] = p[y] /\ q[k].id = s[y].id
    BY <1>6
  <2>3. s[x].at = s[y].at
    <3>1. s[x].id = s[y].id
      BY <1>8, <2>1, <2>2
    <3>2. CASE x < y
      BY <1>1, <2>1, <2>2, <3>1, <3>2 DEF Line
    <3>3. CASE y < x
      BY <1>1, <2>1, <2>2, <3>1, <3>3 DEF Line
    <3> QED
      BY <1>2, <3>2, <3>3
  <2>4. is_same_pkt(q[j], q[k])
    BY <1>3, <1>8, <2>1, <2>2, <2>3 DEF is_same_pkt
  <2>5. <<j, k>> \in Copies(q)
    BY <1>5, <1>8, <2>4 DEF Copies
  <2> QED
    BY <1>4, <2>5
<1>9. ASSUME NEW j \in 1 .. Len(q), NEW k \in 1 .. Len(q) PROVE q[j].at - q[k].at < C
  <2>1. PICK x \in 1 .. Len(s) : q[j].at = s[x].at
    BY <1>6
  <2>2. PICK y \in 1 .. Len(s) : q[k].at = s[y].at
    BY <1>6
  <2>3. s[x].at \in Nat /\ s[y].at \in Nat /\ s[x].at <= now /\ now - s[y].at < C
    BY <1>1, LineIndex DEF Line, Frames
  <2>4. now \in Nat /\ C \in Nat
    BY Sizes DEF RxTypes
  <2> QED
    BY <2>1, <2>2, <2>3, <2>4
<1>10. \A j, k \in 1 .. Len(q) : j # k => q[j].id # q[k].id
  BY <1>5, <1>8
<1>11. Len(q) <= max_pkt
  BY <1>2, <1>5, HalReceiveAssumption
<1> USE DEF s, p, n
<1> QED
  BY <1>4, <1>5, <1>6, <1>7, <1>9, <1>10, <1>11, Zenon

LEMMA ReturnedSorted ==
  ASSUME RxTypes, RxCounter, RxLines, up = "updated", NEW b \in merge_packets(Found(rx_buffer))
  PROVE  Returned(b)
<1>1. PICK q : q = remove_duplicates(Found(rx_buffer))
  OBVIOUS
<1>2. /\ q \in Seq(Pkts) /\ Len(q) \in Nat /\ Len(q) <= max_pkt
      /\ \A j \in 1 .. Len(q) : \E i \in 1 .. Asked(rx_buffer) :
           /\ i \in 1 .. Len(rx_buffer) /\ q[j] = Found(rx_buffer)[i]
           /\ q[j].id = rx_buffer[i].id /\ q[j].at = rx_buffer[i].at
           /\ stale \/ q[j].count_us = q[j].at % R
      /\ \A i \in 1 .. Asked(rx_buffer) : \E j \in 1 .. Len(q) :
           q[j].id = rx_buffer[i].id /\ (rx_buffer[i].crc => q[j].crc)
      /\ \A j, k \in 1 .. Len(q) : j # k => q[j].id # q[k].id
      /\ \A j, k \in 1 .. Len(q) : q[j].at - q[k].at < C
  BY <1>1, LeftOver
<1>3. PICK f : Sorts(f, q, b)
  BY <1>1, SortedIs
<1> USE DEF Sorts
<1>4. \A i \in 1 .. Len(q) : q[i] \in Pkts
  BY <1>2, ElementOfSeq
<1>5. b \in Seq(Pkts) /\ Len(b) = Len(q)
  <2>1. b \in [1 .. Len(q) -> Pkts]
    BY <1>3, <1>4
  <2> QED
    BY <1>2, <2>1, SeqDef, LenProperties
<1>6. \A j \in 1 .. Len(b) : f[j] \in 1 .. Len(q) /\ b[j] = q[f[j]]
  BY <1>3, <1>5
<1>7. ASSUME NEW j \in 1 .. Len(b) PROVE stale \/ b[j].count_us = b[j].at % R
  <2>1. PICK n \in 1 .. Len(q) : b[j] = q[n]
    BY <1>6
  <2>2. stale \/ q[n].count_us = q[n].at % R
    BY <1>2
  <2> QED
    BY <2>1, <2>2
<1>8. ASSUME NEW i \in 1 .. Asked(rx_buffer)
      PROVE  \E j \in 1 .. Len(b) : b[j].id = rx_buffer[i].id /\ (rx_buffer[i].crc => b[j].crc)
  <2>1. PICK n \in 1 .. Len(q) : q[n].id = rx_buffer[i].id /\ (rx_buffer[i].crc => q[n].crc)
    BY <1>2
  <2>2. PICK j \in 1 .. Len(b) : f[j] = n
    BY <1>3, <1>5
  <2> QED
    BY <1>6, <2>1, <2>2
<1>9. ASSUME NEW j \in 1 .. Len(b), NEW k \in 1 .. Len(b), j < k
      PROVE  b[j].id # b[k].id /\ (stale \/ b[j].at <= b[k].at)
  <2>1. f[j] # f[k]
    BY <1>3, <1>5, <1>9
  <2>2. b[j].id # b[k].id
    <3>1. \A x, y \in 1 .. Len(q) : x # y => q[x].id # q[y].id
      BY <1>2
    <3>2. q[f[j]].id # q[f[k]].id
      BY <1>6, <2>1, <3>1
    <3> QED
      BY <1>6, <3>2
  <2>3. ASSUME ~stale PROVE b[j].at <= b[k].at
    <3>1. PICK u \in Nat, v \in Nat : u = b[j].at /\ v = b[k].at
      <4>1. b[j] \in Pkts /\ b[k] \in Pkts
        BY <1>4, <1>6
      <4> QED
        BY <4>1 DEF Pkts
    <3>2. q[f[j]].at - q[f[k]].at < C /\ q[f[k]].at - q[f[j]].at < C
      BY <1>2, <1>6, Zenon
    <3>3. InOrder(b[j], b[k])
      BY <1>3, <1>5, <1>6, <1>9
    <3>4. b[j].count_us = u % R /\ b[k].count_us = v % R
      BY <1>7, <2>3, <3>1
    <3>5. ((v % R) - (u % R)) % R \in 0 .. R \div 2 - 1
      BY <3>3, <3>4 DEF InOrder, R
    <3>6. u - v < C /\ v - u < C
      BY <1>6, <3>1, <3>2
    <3> QED
      BY <3>1, <3>5, <3>6, OrderTold
  <2> QED
    BY <2>2, <2>3
<1> QED
  BY <1>2, <1>5, <1>7, <1>8, <1>9 DEF Returned

LEMMA ReturnedIs ==
  ASSUME RxTypes, RxCounter, RxLines, up = "updated", NEW b \in Merges(Found(rx_buffer))
  PROVE  Returned(b)
<1>1. CASE FTIME
  BY <1>1, ReturnedSorted DEF Merges
<1>2. CASE ~FTIME
  <2> DEFINE s == rx_buffer
             n == Asked(s)
  <2>1. b = Found(s)
    BY <1>2 DEF Merges
  <2>2. Line(s, now, received, damaged) /\ s \in Seq(Frames)
    BY LineIndex DEF RxLines
  <2>3. n \in 0 .. Len(s) /\ n <= max_pkt /\ n \in Nat /\ Len(s) \in Nat
    BY <2>2, AskedFor, LineIndex
  <2>4. /\ b \in Seq(Pkts) /\ Len(b) = n
        /\ \A i \in 1 .. n : /\ b[i].id = s[i].id /\ b[i].at = s[i].at /\ b[i].crc = s[i].crc
                             /\ stale \/ b[i].count_us = s[i].at % R
    BY <2>1, FoundRight
  <2> HIDE DEF s, n
  <2>5. ASSUME NEW j \in 1 .. Len(b), NEW k \in 1 .. Len(b), j < k
        PROVE  b[j].id # b[k].id /\ (stale \/ b[j].at <= b[k].at)
    <3>1. j \in 1 .. Len(s) /\ k \in 1 .. Len(s)
      BY <2>3, <2>4
    <3>2. s[j].at <= s[k].at /\ (s[j].id = s[k].id => FTIME)
      BY <2>2, <2>5, <3>1 DEF Line
    <3> QED
      BY <1>2, <2>4, <3>2
  <2>6. \A j \in 1 .. Len(b) : stale \/ b[j].count_us = b[j].at % R
    BY <2>4
  <2>7. \A i \in 1 .. n : \E j \in 1 .. Len(b) : b[j].id = s[i].id /\ (s[i].crc => b[j].crc)
    BY <2>4
  <2>8. Len(b) <= max_pkt
    BY <2>3, <2>4
  <2> QED
    BY <2>4, <2>5, <2>6, <2>7, <2>8 DEF Returned, s, n
<1> QED
  BY <1>1, <1>2, HalReceiveAssumption

-----------------------------------------------------------------------------
(* Where every packet is                                                   *)

InLine(s) == {s[i].id : i \in 1 .. Len(s)}

\* PacketsAccounted, of two lines, the lost and the delivered ones
Accounted(s, r, n, D, l, d) ==
  /\ 1 .. n \ D \subseteq InLine(s) \cup InLine(r) \cup l \cup Range(d)
  /\ l # {} => D # {}

LEMMA AccountedIs ==
  ASSUME NEW s \in Seq(Frames), NEW r \in Seq(Frames)
  PROVE  {f.id : f \in Range(s) \cup Range(r)} = InLine(s) \cup InLine(r)
<1>1. DOMAIN s = 1 .. Len(s) /\ DOMAIN r = 1 .. Len(r)
  BY LenProperties
<1> QED
  BY <1>1 DEF Range, InLine

LEMMA PacketsAre ==
  ASSUME RxLines
  PROVE  PacketsAccounted <=> Accounted(fifo, rx_buffer, received, damaged, lost, delivered)
<1>1. fifo \in Seq(Frames) /\ rx_buffer \in Seq(Frames)
  BY DEF RxLines, Line
<1>2. {f.id : f \in Pending} = InLine(fifo) \cup InLine(rx_buffer)
  BY <1>1, AccountedIs DEF Pending
<1> QED
  BY <1>2, Zenon DEF PacketsAccounted, Accounted

LEMMA PacketsAreNext ==
  ASSUME RxLines'
  PROVE  PacketsAccounted' <=> Accounted(fifo', rx_buffer', received', damaged', lost', delivered')
<1>1. fifo' \in Seq(Frames) /\ rx_buffer' \in Seq(Frames)
  BY DEF RxLines, Line, Frames
<1>2. {f.id : f \in Pending'} = InLine(fifo') \cup InLine(rx_buffer')
  BY <1>1, AccountedIs DEF Pending
<1> QED
  BY <1>2, Zenon DEF PacketsAccounted, Accounted

\* A frame is good, or damaged.
LEMMA GoodAre ==
  ASSUME NEW s, NEW t, NEW n, NEW D, Line(s, t, n, D)
  PROVE  /\ InLine(s) \subseteq D \cup GoodIds(s)
         /\ GoodIds(s) \subseteq InLine(s) /\ InLine(s) \subseteq 1 .. n
<1>1. DOMAIN s = 1 .. Len(s)
  BY LineIndex
<1>2. ASSUME NEW i \in 1 .. Len(s) PROVE s[i].id \in D \cup GoodIds(s)
  <2>1. CASE s[i].kind # "good"
    BY <2>1 DEF Line
  <2>2. CASE s[i].kind = "good"
    <3>1. s[i] \in {g \in Range(s) : g.kind = "good"}
      BY <1>1, <2>2 DEF Range
    <3> QED
      BY <3>1 DEF GoodIds
  <2> QED
    BY <2>1, <2>2
<1>3. GoodIds(s) \subseteq InLine(s)
  BY <1>1 DEF GoodIds, InLine, Range
<1>4. InLine(s) \subseteq 1 .. n
  BY DEF InLine, Line
<1> QED
  BY <1>2, <1>3, <1>4 DEF InLine

\* What is taken out of a line is lost only along with a damaged frame.
LEMMA AccountedDrop ==
  ASSUME NEW s, NEW r, NEW n, NEW D, NEW l, NEW d, NEW t, NEW q,
         Accounted(s, r, n, D, l, d), Line(r, t, n, D), Line(q, t, n, D), r # q => D # {}
  PROVE  Accounted(s, q, n, D, l \cup (GoodIds(r) \ GoodIds(q)), d)
<1>1. InLine(r) \subseteq D \cup GoodIds(r) /\ GoodIds(q) \subseteq InLine(q)
  BY GoodAre
<1>2. r = q => GoodIds(r) \ GoodIds(q) = {}
  OBVIOUS
<1> QED
  BY <1>1, <1>2 DEF Accounted

-----------------------------------------------------------------------------
(* Every step keeps the invariant                                          *)

LEMMA RxFacts ==
  ASSUME RxTypes
  PROVE  /\ now \in Nat /\ received \in Nat /\ readAt \in Nat /\ C \in Nat /\ C > 1
         /\ MaxTime \in Nat /\ MaxFrames \in Nat /\ MaxBusFaults \in Nat
         /\ MAX_CONSECUTIVE_RX_ERRORS \in Nat \ {0} /\ FTIME \in BOOLEAN
  BY Sizes, HalReceiveAssumption DEF RxTypes

LEMMA RxInit == HalInit => RxInv
<1> SUFFICES ASSUME HalInit PROVE RxInv
  OBVIOUS
<1> USE DEF HalInit
<1>1. RxTypes
  <2>1. /\ now \in 0 .. MaxTime /\ readAt \in Nat /\ errors \in 0 .. MAX_CONSECUTIVE_RX_ERRORS
        /\ errors < MAX_CONSECUTIVE_RX_ERRORS /\ faults \in 0 .. MaxBusFaults
        /\ received \in 0 .. MaxFrames
    BY HalReceiveAssumption
  <2>2. /\ stale \in BOOLEAN /\ up \in {"idle", "fetched", "updated", "exited"}
        /\ lost \subseteq 1 .. received /\ damaged \subseteq 1 .. received
    BY Zenon
  <2> QED
    BY <2>1, <2>2 DEF RxTypes
<1>2. RxCounter
  <2>1. 0 \in Nat /\ 0 \in 0 .. C - 1 /\ 0 \in 0 .. WRAPS - 1 /\ 0 \in Int
    BY Sizes
  <2>2. 0 = 0 * WRAPS + 0 /\ 0 = 0 * C + 0
    BY Sizes
  <2>3. Counted(0, 0, 0)
    BY <2>1, <2>2, CountedAt, Zenon
  <2> QED
    BY <2>3, Sizes DEF RxCounter
<1>3. RxLines
  BY LineEmpty DEF RxLines
<1>4. RxBatch
  BY HalReceiveAssumption, EmptySeq DEF RxBatch
<1>5. CountRight /\ Merged
  BY DEF CountRight, Merged, Range
<1>6. PacketsAccounted
  BY DEF PacketsAccounted
<1> QED
  BY <1>1, <1>2, <1>3, <1>4, <1>5, <1>6 DEF RxInv

\* The steps that leave the packets returned alone
LEMMA RxBatchSame ==
  ASSUME CountRight, Merged, UNCHANGED <<batch, stale>>
  PROVE  CountRight' /\ Merged'
  BY DEF CountRight, Merged

LEMMA RxBatchNone ==
  ASSUME batch' = <<>>
  PROVE  CountRight' /\ Merged' /\ batch' \in Seq(Pkts) /\ Len(batch') <= max_pkt
<1>1. batch' \in Seq(Pkts) /\ Len(batch') = 0 /\ DOMAIN batch' = {}
  BY EmptySeq
<1> QED
  BY <1>1, HalReceiveAssumption DEF CountRight, Merged, Range

LEMMA TickRx == RxInv /\ Tick => RxInv'
<1> SUFFICES ASSUME RxInv, Tick PROVE RxInv'
  OBVIOUS
<1> USE DEF RxInv, Tick
<1>1. RxTypes'
  BY RxFacts DEF RxTypes
<1>2. RxCounter'
  BY RxFacts DEF RxCounter, Counted, C
<1>3. RxLines'
  <2>1. \A i \in 1 .. Len(fifo) : now + 1 - fifo[i].at < C
    <3>1. \A i \in 1 .. Len(fifo) : fifo[i] \in Pending
      BY LineIndex DEF RxLines, Pending, Range
    <3> QED
      BY <3>1 DEF C
  <2>2. \A i \in 1 .. Len(rx_buffer) : now + 1 - rx_buffer[i].at < C
    <3>1. \A i \in 1 .. Len(rx_buffer) : rx_buffer[i] \in Pending
      BY LineIndex DEF RxLines, Pending, Range
    <3> QED
      BY <3>1 DEF C
  <2>3. now + 1 \in Nat /\ now <= now + 1 /\ received <= received
    BY RxFacts
  <2>4. /\ now \in Nat /\ received \in Nat /\ damaged \subseteq damaged
        /\ Line(fifo, now, received, damaged) /\ Line(rx_buffer, now, received, damaged)
    BY RxFacts DEF RxLines
  <2>5. PICK u \in Nat : u = now + 1 /\ now <= u
    BY <2>3
  <2>6. Line(fifo, u, received, damaged)
    <3>1. \A i \in 1 .. Len(fifo) : u - fifo[i].at < C
      <4>1. \A i \in 1 .. Len(fifo) : fifo[i].at \in Nat
        BY <2>4, LineIndex DEF Frames
      <4> QED
        BY <2>1, <2>4, <2>5, <4>1, RxFacts
    <3> QED
      BY <2>3, <2>4, <2>5, <3>1, LineOlder, Zenon
  <2>7. Line(rx_buffer, u, received, damaged)
    <3>1. \A i \in 1 .. Len(rx_buffer) : u - rx_buffer[i].at < C
      <4>1. \A i \in 1 .. Len(rx_buffer) : rx_buffer[i].at \in Nat
        BY <2>4, LineIndex DEF Frames
      <4> QED
        BY <2>2, <2>4, <2>5, <4>1, RxFacts
    <3> QED
      BY <2>3, <2>4, <2>5, <3>1, LineOlder, Zenon, Zenon
  <2> QED
    BY <2>5, <2>6, <2>7 DEF RxLines, Line, Frames, C
<1>4. RxBatch'
  BY DEF RxBatch, Pkts
<1>5. PacketsAccounted'
  BY DEF PacketsAccounted, Pending
<1> QED
  BY <1>1, <1>2, <1>3, <1>4, <1>5, RxBatchSame

LEMMA ArriveRx == RxInv /\ Arrive => RxInv'
<1> SUFFICES ASSUME RxInv, Arrive PROVE RxInv'
  OBVIOUS
<1> USE DEF RxInv, Arrive
<1>1. PICK frames \in Arrivals :
        /\ fifo' = fifo \o frames
        /\ damaged' = IF frames[1].kind = "good" THEN damaged ELSE damaged \cup {received + 1}
  BY Zenon
<1>2. damaged \subseteq damaged' /\ (frames[1].kind # "good" => received + 1 \in damaged')
  BY <1>1
<1>3. Line(fifo, now, received, damaged)
  BY DEF RxLines
<1>4. /\ Line(fifo', now, received + 1, damaged')
      /\ \A i \in 1 .. Len(fifo) : \E j \in 1 .. Len(fifo') : fifo'[j] = fifo[i]
      /\ \E j \in 1 .. Len(fifo') : fifo'[j].id = received + 1
  BY <1>1, <1>2, <1>3, LineAppend
<1>5. RxTypes'
  BY <1>1, RxFacts DEF RxTypes
<1>6. RxCounter'
  BY DEF RxCounter, Counted, C
<1>7. RxLines'
  <2>1. \A i \in 1 .. Len(rx_buffer) : now - rx_buffer[i].at < C
    BY DEF RxLines, Line
  <2>2. /\ now \in Nat /\ received \in Nat /\ received + 1 \in Nat /\ now <= now
        /\ received <= received + 1 /\ Line(rx_buffer, now, received, damaged)
    BY RxFacts DEF RxLines
  <2>3. Line(rx_buffer, now, received + 1, damaged')
    BY <1>2, <2>1, <2>2, LineLater, Zenon
  <2>4. Line(fifo', now, received + 1, damaged')
    BY <1>4
  <2>5. Line(fifo', now', received', damaged') /\ Line(rx_buffer', now', received', damaged')
    BY <2>3, <2>4
  <2>6. (up = "updated" /\ ~stale => \A i \in 1 .. Len(rx_buffer) : rx_buffer[i].at <= readAt)'
    BY DEF RxLines
  <2> QED
    BY <2>5, <2>6 DEF RxLines, Line, Frames, C
<1>8. RxBatch'
  BY DEF RxBatch, Pkts
<1>9. PacketsAccounted'
  <2>1. Accounted(fifo, rx_buffer, received, damaged, lost, delivered)
    BY PacketsAre
  <2>2. InLine(fifo) \cup {received + 1} \subseteq InLine(fifo')
    BY <1>4 DEF InLine
  <2>3. 1 .. received + 1 = 1 .. received \cup {received + 1}
    BY RxFacts
  <2>4. Accounted(fifo', rx_buffer, received + 1, damaged', lost, delivered)
    BY <1>2, <2>1, <2>2, <2>3 DEF Accounted
  <2> QED
    BY <1>7, <2>4, PacketsAreNext
<1> QED
  BY <1>5, <1>6, <1>7, <1>8, <1>9, RxBatchSame

LEMMA FetchRx == RxInv /\ sx1302_fetch => RxInv'
<1> SUFFICES ASSUME RxInv, sx1302_fetch PROVE RxInv'
  OBVIOUS
<1> USE DEF RxInv, sx1302_fetch
<1>1. RxCounter'
  BY DEF RxCounter, Counted, C
<1>2. RxBatch'
  BY RxBatchNone DEF RxBatch, Pkts
<1>3. Line(fifo, now, received, damaged) /\ Line(rx_buffer, now, received, damaged)
  BY DEF RxLines
<1>4. Accounted(fifo, rx_buffer, received, damaged, lost, delivered)
  BY PacketsAre
<1>5. CASE rx_buffer # <<>>
  <2>1. UNCHANGED <<rx_buffer, fifo, lost>>
    BY <1>5
  <2>2. RxTypes'
    BY <2>1 DEF RxTypes
  <2>3. RxLines'
    BY <2>1 DEF RxLines, Line, Frames, C
  <2>4. PacketsAccounted'
    BY <1>4, <2>1, <2>3, PacketsAreNext
  <2> QED
    BY <1>1, <1>2, <2>2, <2>3, <2>4, RxBatchNone
<1>6. CASE rx_buffer = <<>>
  <2>1. /\ rx_buffer' = rx_buffer_fetch(fifo) /\ fifo' = <<>>
        /\ lost' = lost \cup (GoodIds(fifo) \ GoodIds(rx_buffer'))
    BY <1>6
  <2>2. Line(rx_buffer', now, received, damaged) /\ (fifo # rx_buffer' => damaged # {})
    BY <1>3, <2>1, FetchKeeps
  <2>3. RxLines'
    BY <2>1, <2>2, LineEmpty DEF RxLines, Line, Frames, C
  <2>4. Accounted(<<>>, fifo, received, damaged, lost, delivered)
    BY <1>4, <1>6 DEF Accounted
  <2>5. Accounted(<<>>, rx_buffer', received, damaged, lost', delivered)
    BY <1>3, <2>1, <2>2, <2>4, AccountedDrop
  <2>6. PacketsAccounted'
    BY <2>1, <2>3, <2>5, PacketsAreNext
  <2>7. lost' \subseteq 1 .. received
    BY <1>3, <2>1, GoodAre DEF RxTypes
  <2>8. RxTypes'
    BY <2>7 DEF RxTypes
  <2> QED
    BY <1>1, <1>2, <2>3, <2>6, <2>8, RxBatchNone
<1> QED
  BY <1>5, <1>6

LEMMA FetchFailsRx == RxInv /\ FetchFails => RxInv'
<1> SUFFICES ASSUME RxInv, FetchFails PROVE RxInv'
  OBVIOUS
<1> USE DEF RxInv, FetchFails
<1>1. RxTypes'
  BY RxFacts DEF RxTypes, Fail
<1>2. RxCounter'
  BY DEF RxCounter, Counted, C
<1>3. RxBatch'
  BY RxBatchNone DEF RxBatch, Pkts, Fail
<1>4. RxLines'
  BY DEF RxLines, Line, Frames, C, Fail
<1>5. PacketsAccounted'
  BY DEF PacketsAccounted, Pending
<1> QED
  BY <1>1, <1>2, <1>3, <1>4, <1>5, RxBatchNone

LEMMA UpdateCounter ==
  ASSUME RxTypes, RxCounter, timestamp_counter_update(now), now' = now
  PROVE  RxCounter' /\ readAt' = now
<1>1. Counted(readAt, ref, wrap) /\ now \in Nat /\ readAt <= now /\ now - readAt < C
  BY RxFacts DEF RxCounter
<1>2. Counted(now, now % C, IF now % C < ref THEN (wrap + 1) % WRAPS ELSE wrap)
  <2>1. now \in Int
    BY <1>1
  <2> QED
    BY <1>1, <2>1, CountedNext, Zenon
<1>3. /\ readAt' = now /\ ref' = now % C
      /\ wrap' = IF now % C < ref THEN (wrap + 1) % WRAPS ELSE wrap
  BY DEF timestamp_counter_update, C
<1>4. Counted(readAt', ref', wrap')
  BY <1>2, <1>3
<1> QED
  BY <1>1, <1>3, <1>4, RxFacts DEF RxCounter, Counted, C

LEMMA UpdateRx == RxInv /\ sx1302_update => RxInv'
<1> SUFFICES ASSUME RxInv, sx1302_update PROVE RxInv'
  OBVIOUS
<1> USE DEF RxInv, sx1302_update
<1>1. RxBatch' /\ batch' = <<>>
  BY DEF RxBatch, Pkts
<1>2. PacketsAccounted'
  BY DEF PacketsAccounted, Pending
<1>3. CASE timestamp_counter_update(now) /\ UNCHANGED <<stale, faults>>
  <2>1. RxCounter' /\ readAt' = now
    BY <1>3, UpdateCounter
  <2>2. RxTypes'
    BY <1>3, <2>1, RxFacts DEF RxTypes
  <2>3. RxLines'
    BY <2>1 DEF RxLines, Line, Frames, C
  <2> QED
    BY <1>1, <1>2, <2>1, <2>2, <2>3, RxBatchNone
<1>4. CASE /\ faults < MaxBusFaults /\ faults' = faults + 1
           /\ stale' = TRUE /\ UNCHANGED <<ref, wrap, readAt>>
  <2>1. RxCounter'
    BY <1>4 DEF RxCounter, Counted, C
  <2>2. RxTypes'
    BY <1>4, RxFacts DEF RxTypes
  <2>3. RxLines'
    BY <1>4 DEF RxLines, Line, Frames, C
  <2> QED
    BY <1>1, <1>2, <2>1, <2>2, <2>3, RxBatchNone
<1> QED
  BY <1>3, <1>4

LEMMA CounterRx == RxInv /\ sx1302_timestamp_counter => RxInv'
<1> SUFFICES ASSUME RxInv, sx1302_timestamp_counter PROVE RxInv'
  OBVIOUS
<1> USE DEF RxInv, sx1302_timestamp_counter
<1>1. RxCounter' /\ readAt' = now
  BY UpdateCounter
<1>2. RxTypes'
  BY <1>1, RxFacts DEF RxTypes
<1>3. RxLines'
  BY <1>1 DEF RxLines, Line, Frames, C
<1>4. RxBatch'
  BY DEF RxBatch, Pkts
<1>5. PacketsAccounted'
  BY DEF PacketsAccounted, Pending
<1> QED
  BY <1>1, <1>2, <1>3, <1>4, <1>5, RxBatchSame

\* The cases of lgw_receive: every frame asked for is good, or the first that fails
\* decides.
LEMMA ReceiveCases ==
  ASSUME RxInv, lgw_receive
  PROVE  \/ /\ batch' \in Merges(Found(rx_buffer))
            /\ delivered' = delivered \o [i \in DOMAIN batch' |-> batch'[i].id]
            /\ rx_buffer' = SubSeq(rx_buffer, Asked(rx_buffer) + 1, Len(rx_buffer))
            /\ up' = "idle" /\ errors' = 0 /\ UNCHANGED lost
         \/ \E k \in 1 .. Len(rx_buffer) :
              /\ rx_buffer[k].kind # "good"
              /\ \/ rx_buffer' = <<>>
                 \/ rx_buffer' = SubSeq(rx_buffer, k + 1, Len(rx_buffer))
                 \/ rx_buffer' = SubSeq(rx_buffer, k, Len(rx_buffer))
              /\ Fail \/ (up' = "idle" /\ errors' = 0)
              /\ lost' = lost \cup (GoodIds(rx_buffer) \ GoodIds(rx_buffer'))
              /\ batch' = <<>> /\ UNCHANGED delivered
<1>1. rx_buffer \in Seq(Frames) /\ Len(rx_buffer) \in Nat
  BY LineIndex DEF RxInv, RxLines
<1>2. PICK n \in Nat : n = Asked(rx_buffer) /\ n \in 0 .. Len(rx_buffer)
  BY <1>1, AskedFor
<1>3. PICK failing : failing = SelectInSeq(SubSeq(rx_buffer, 1, n), LAMBDA f : ParseResult(f) # "LGW_REG_SUCCESS")
  OBVIOUS
<1>4. failing # 0 => failing \in 1 .. Len(rx_buffer) /\ rx_buffer[failing].kind # "good"
  <2>1. PICK s : s = SubSeq(rx_buffer, 1, n)
    OBVIOUS
  <2>2. Len(s) = n /\ \A i \in 1 .. n : s[i] = rx_buffer[i]
    BY <1>1, <1>2, <2>1
  <2>3. PICK I : I = {i \in 1 .. Len(s) : ParseResult(s[i]) # "LGW_REG_SUCCESS"}
    OBVIOUS
  <2>4. failing = IF I # {} THEN Min(I) ELSE 0
    BY <1>3, <2>1, <2>3 DEF SelectInSeq
  <2>5. I \subseteq Nat
    BY <1>2, <2>2, <2>3
  <2>6. failing # 0 => failing \in I
    BY <2>4, <2>5, FirstIn
  <2>7. \A i \in I : i \in 1 .. Len(rx_buffer) /\ rx_buffer[i].kind # "good"
    BY <1>1, <1>2, <2>2, <2>3 DEF ParseResult
  <2> QED
    BY <2>6, <2>7
<1>5. CASE failing = 0
  <2>1. [i \in 1 .. n |-> sx1302_parse(rx_buffer[i])] = Found(rx_buffer)
    BY <1>2 DEF Found
  <2> QED
    BY <1>2, <1>3, <1>5, <2>1 DEF lgw_receive, Asked, Merges
<1>6. CASE failing # 0
  BY <1>2, <1>3, <1>4, <1>6 DEF lgw_receive, Asked
<1> QED
  BY <1>5, <1>6

\* The packets returned are those of Returned.
LEMMA RxBatchReturned ==
  ASSUME Returned(batch'), stale' = stale
  PROVE  CountRight' /\ Merged' /\ batch' \in Seq(Pkts) /\ Len(batch') <= max_pkt
<1>1. PICK b : b = batch'
  OBVIOUS
<1>2. b \in Seq(Pkts) /\ Len(b) <= max_pkt /\ DOMAIN b = 1 .. Len(b)
  BY <1>1, LenProperties DEF Returned
<1>3. \A p \in Range(b) : stale \/ p.count_us = p.at % R
  BY <1>1, <1>2 DEF Returned, Range
<1>4. \A j, k \in DOMAIN b : j < k => b[j].id # b[k].id /\ (stale \/ b[j].at <= b[k].at)
  BY <1>1, <1>2, Zenon DEF Returned
<1>5. CountRight'
  BY <1>1, <1>3 DEF CountRight, R
<1>6. Merged'
  BY <1>1, <1>4, Zenon DEF Merged
<1> QED
  BY <1>1, <1>2, <1>5, <1>6

LEMMA ReceiveRx == RxInv /\ lgw_receive => RxInv'
<1> SUFFICES ASSUME RxInv, lgw_receive PROVE RxInv'
  OBVIOUS
<1> DEFINE s == rx_buffer
<1>1. RxTypes /\ RxCounter /\ RxLines /\ RxBatch /\ PacketsAccounted /\ up = "updated"
  BY DEF RxInv, lgw_receive
<1>2. UNCHANGED <<now, fifo, ref, wrap, readAt, stale, received, damaged, faults>>
  BY DEF lgw_receive
<1>3. Line(fifo, now, received, damaged) /\ Line(s, now, received, damaged)
  BY <1>1 DEF RxLines
<1>4. s \in Seq(Frames) /\ Len(s) \in Nat
  BY <1>3, LineIndex
<1>5. RxCounter'
  BY <1>1, <1>2 DEF RxCounter, Counted, C
<1>6. Accounted(fifo, s, received, damaged, lost, delivered)
  BY <1>1, PacketsAre
<1>7. CASE /\ batch' \in Merges(Found(s))
           /\ delivered' = delivered \o [i \in DOMAIN batch' |-> batch'[i].id]
           /\ s' = SubSeq(s, Asked(s) + 1, Len(s))
           /\ up' = "idle" /\ errors' = 0 /\ UNCHANGED lost
  <2>1. Returned(batch')
    BY <1>1, <1>7, ReturnedIs
  <2>2. CountRight' /\ Merged' /\ batch' \in Seq(Pkts) /\ Len(batch') <= max_pkt
    BY <1>2, <2>1, RxBatchReturned
  <2>3. PICK n \in Nat : n = Asked(s) /\ n \in 0 .. Len(s) /\ n + 1 \in 1 .. Len(s) + 1
    BY <1>4, AskedFor
  <2>4. /\ Line(s', now, received, damaged)
        /\ \A i \in n + 1 .. Len(s) : \E j \in 1 .. Len(s') : s'[j] = s[i]
    BY <1>3, <1>7, <2>3, LineSub
  <2>5. RxLines'
    <3>1. up' # "updated"
      BY <1>7
    <3> QED
      BY <1>2, <1>3, <2>4, <3>1 DEF RxLines, Line, Frames, C
  <2>6. PICK ids : ids = [i \in DOMAIN batch' |-> batch'[i].id]
    OBVIOUS
  <2>7. ids \in Seq(Nat) /\ Len(ids) = Len(batch') /\ \A i \in 1 .. Len(batch') : ids[i] = batch'[i].id
    <3>1. DOMAIN batch' = 1 .. Len(batch') /\ Len(batch') \in Nat
      BY <2>2, LenProperties
    <3>2. ASSUME NEW i \in 1 .. Len(batch') PROVE batch'[i].id \in Nat
      <4>1. batch'[i] \in Pkts
        BY <2>2, ElementOfSeq
      <4> QED
        BY <4>1 DEF Pkts
    <3>3. ids \in [1 .. Len(batch') -> Nat]
      BY <2>6, <3>1, <3>2
    <3> QED
      BY <2>6, <3>1, <3>3, SeqDef, LenProperties
  <2>8. delivered' \in Seq(Nat) /\ Range(delivered) \cup Range(ids) \subseteq Range(delivered')
    <3>1. delivered \in Seq(Nat) /\ delivered' = delivered \o ids
      BY <1>1, <1>7, <2>6 DEF RxBatch
    <3>2. PICK d \in Seq(Nat) : d = delivered
      BY <3>1
    <3>3. /\ d \o ids \in Seq(Nat) /\ Len(d \o ids) = Len(d) + Len(ids)
          /\ \A i \in 1 .. Len(d) + Len(ids) :
               (d \o ids)[i] = IF i <= Len(d) THEN d[i] ELSE ids[i - Len(d)]
      BY <2>7, ConcatProperties
    <3>4. PICK e : e = d \o ids
      OBVIOUS
    <3>5. /\ DOMAIN d = 1 .. Len(d) /\ DOMAIN ids = 1 .. Len(ids) /\ DOMAIN e = 1 .. Len(d) + Len(ids)
          /\ Len(d) \in Nat /\ Len(ids) \in Nat
      BY <2>7, <3>3, <3>4, LenProperties
    <3>6. Range(d) \subseteq Range(e)
      <4>1. \A i \in 1 .. Len(d) : i \in DOMAIN e /\ e[i] = d[i]
        BY <3>3, <3>4, <3>5
      <4> QED
        BY <3>5, <4>1 DEF Range
    <3>7. Range(ids) \subseteq Range(e)
      <4>1. ASSUME NEW i \in 1 .. Len(ids) PROVE ids[i] \in Range(e)
        <5>1. /\ Len(d) + i \in DOMAIN e /\ Len(d) + i \in 1 .. Len(d) + Len(ids)
              /\ ~(Len(d) + i <= Len(d)) /\ (Len(d) + i) - Len(d) = i
          BY <3>5
        <5>2. e[Len(d) + i] = ids[i]
          BY <3>3, <3>4, <5>1
        <5> QED
          BY <5>1, <5>2 DEF Range
      <4> QED
        BY <3>5, <4>1 DEF Range
    <3> QED
      BY <3>1, <3>2, <3>3, <3>4, <3>6, <3>7
  <2>9. RxBatch'
    BY <1>7, <2>2, <2>8 DEF RxBatch, Pkts
  <2>10. RxTypes'
    BY <1>1, <1>2, <1>7, RxFacts DEF RxTypes
  <2>11. InLine(s) \subseteq InLine(s') \cup Range(ids)
    <3>1. ASSUME NEW i \in 1 .. Len(s) PROVE s[i].id \in InLine(s') \cup Range(ids)
      <4>1. CASE i \in 1 .. n
        <5>1. PICK j \in 1 .. Len(batch') : batch'[j].id = s[i].id
          BY <2>1, <2>3, <4>1 DEF Returned
        <5>2. j \in DOMAIN ids /\ ids[j] = s[i].id
          BY <2>7, <5>1, LenProperties
        <5> QED
          BY <5>2 DEF Range
      <4>2. CASE i \in n + 1 .. Len(s)
        BY <2>4, <4>2 DEF InLine
      <4> QED
        BY <1>4, <2>3, <4>1, <4>2
    <3> QED
      BY <3>1 DEF InLine
  <2>12. Accounted(fifo, s', received, damaged, lost, delivered')
    BY <1>6, <2>8, <2>11 DEF Accounted
  <2>13. PacketsAccounted'
    BY <1>2, <1>7, <2>5, <2>12, PacketsAreNext
  <2> QED
    BY <1>5, <2>2, <2>5, <2>9, <2>10, <2>13 DEF RxInv
<1>8. CASE \E k \in 1 .. Len(s) :
             /\ s[k].kind # "good"
             /\ \/ s' = <<>>
                \/ s' = SubSeq(s, k + 1, Len(s))
                \/ s' = SubSeq(s, k, Len(s))
             /\ Fail \/ (up' = "idle" /\ errors' = 0)
             /\ lost' = lost \cup (GoodIds(s) \ GoodIds(s'))
             /\ batch' = <<>> /\ UNCHANGED delivered
  <2>1. PICK k \in 1 .. Len(s) :
             /\ s[k].kind # "good"
             /\ \/ s' = <<>>
                \/ s' = SubSeq(s, k + 1, Len(s))
                \/ s' = SubSeq(s, k, Len(s))
    BY <1>8
  <2>2. /\ Fail \/ (up' = "idle" /\ errors' = 0)
        /\ lost' = lost \cup (GoodIds(s) \ GoodIds(s'))
        /\ batch' = <<>> /\ UNCHANGED delivered
    BY <1>8
  <2>3. Line(s', now, received, damaged)
    <3>1. k \in 1 .. Len(s) + 1 /\ k + 1 \in 1 .. Len(s) + 1
      BY <1>4
    <3> QED
      BY <1>3, <2>1, <3>1, LineEmpty, LineSub
  <2>4. damaged # {}
    BY <1>3, <2>1 DEF Line
  <2>5. Accounted(fifo, s', received, damaged, lost', delivered)
    BY <1>3, <1>6, <2>2, <2>3, <2>4, AccountedDrop
  <2>6. up' # "updated"
    BY <1>1, <2>2 DEF Fail
  <2>7. RxLines'
    BY <1>2, <1>3, <2>3, <2>6 DEF RxLines, Line, Frames, C
  <2>8. PacketsAccounted'
    BY <1>2, <2>2, <2>5, <2>7, PacketsAreNext
  <2>9. CountRight' /\ Merged' /\ batch' \in Seq(Pkts) /\ Len(batch') <= max_pkt
    BY <2>2, RxBatchNone
  <2>10. RxBatch'
    BY <1>1, <2>2, <2>9 DEF RxBatch, Pkts
  <2>11. lost' \subseteq 1 .. received
    BY <1>1, <1>3, <2>2, GoodAre DEF RxTypes
  <2>12. RxTypes'
    BY <1>1, <1>2, <2>2, <2>11, RxFacts DEF RxTypes, Fail
  <2> QED
    BY <1>5, <2>7, <2>8, <2>9, <2>10, <2>12 DEF RxInv
<1> QED
  BY <1>7, <1>8, ReceiveCases

LEMMA RxNext == RxInv /\ [HalNext]_rxVars => RxInv'
<1> SUFFICES ASSUME RxInv, [HalNext]_rxVars PROVE RxInv'
  OBVIOUS
<1>1. CASE UNCHANGED rxVars
  <2>1. RxTypes'
    BY <1>1 DEF RxInv, rxVars, RxTypes
  <2>2. RxCounter' /\ RxBatch'
    BY <1>1 DEF RxInv, rxVars, RxCounter, Counted, C, RxBatch, Pkts
  <2>3. RxLines'
    BY <1>1 DEF RxInv, rxVars, RxLines, Line, Frames, C
  <2>4. CountRight' /\ Merged' /\ PacketsAccounted'
    BY <1>1 DEF RxInv, rxVars, CountRight, Merged, PacketsAccounted, Pending
  <2> QED
    BY <2>1, <2>2, <2>3, <2>4 DEF RxInv
<1> QED
  BY <1>1, TickRx, ArriveRx, FetchRx, FetchFailsRx, UpdateRx, ReceiveRx, CounterRx DEF HalNext

\* The invariant holds of every reception, whatever the sizes of the two counters, of
\* the calls of lgw_receive and of the run.
THEOREM RxInvariant == HalSpec => []RxInv
  BY RxInit, RxNext, PTL DEF HalSpec

-----------------------------------------------------------------------------
(* The order qsort_r is given is one: packets can be sorted by it          *)

\* f sorts the first n of the keys.
SortedBy(f, n, key) ==
  /\ f \in [1 .. n -> 1 .. n]
  /\ \A i, j \in 1 .. n : f[i] = f[j] => i = j
  /\ \A m \in 1 .. n : \E i \in 1 .. n : f[i] = m
  /\ \A i, j \in 1 .. n : i < j => key[f[i]] <= key[f[j]]

\* One key more is inserted before the first that is greater.
LEMMA Insert ==
  ASSUME NEW n \in Nat, NEW N \in Nat, n + 1 <= N, NEW key \in [1 .. N -> Int], NEW f,
         SortedBy(f, n, key)
  PROVE  \E g : SortedBy(g, n + 1, key)
<1> DEFINE x == key[n + 1]
<1>1. PICK m \in 1 .. n + 1 :
        (\A i \in 1 .. n : i < m => key[f[i]] <= x) /\ (\A i \in 1 .. n : m <= i => x <= key[f[i]])
  <2> DEFINE I == {i \in 1 .. n : key[f[i]] > x}
  <2>1. x \in Int /\ \A i \in 1 .. n : f[i] \in 1 .. n /\ key[f[i]] \in Int
    <3>1. n + 1 \in 1 .. N /\ \A i \in 1 .. n : i \in 1 .. N
      OBVIOUS
    <3>2. \A i \in 1 .. n : f[i] \in 1 .. n
      BY DEF SortedBy
    <3> QED
      BY <3>1, <3>2
  <2>2. CASE I = {}
    <3>1. ASSUME NEW i \in 1 .. n PROVE key[f[i]] <= x
      <4>1. i \notin I
        BY <2>2
      <4>2. ~(key[f[i]] > x)
        BY <4>1
      <4> HIDE DEF x
      <4> QED
        BY <2>1, <4>2
    <3>2. n + 1 \in 1 .. n + 1 /\ \A i \in 1 .. n : ~(n + 1 <= i)
      OBVIOUS
    <3> QED
      BY <3>1, <3>2
  <2>3. CASE I # {}
    <3>1. I \subseteq Nat
      OBVIOUS
    <3>2. PICK m \in I : \A i \in I : m <= i
      BY <2>3, <3>1, LeastElement, Zenon
    <3>3. m \in 1 .. n + 1 /\ m \in 1 .. n /\ key[f[m]] > x
      BY <3>2
    <3>4. \A i \in 1 .. n : i < m => key[f[i]] <= x
      BY <2>1, <3>2
    <3>5. \A i \in 1 .. n : m < i => key[f[m]] <= key[f[i]]
      BY <3>3 DEF SortedBy
    <3>6. \A i \in 1 .. n : m <= i => x <= key[f[i]]
      BY <2>1, <3>3, <3>5
    <3> QED
      BY <3>3, <3>4, <3>6
  <2> QED
    BY <2>2, <2>3
<1>2. PICK g : g = [i \in 1 .. n + 1 |-> IF i < m THEN f[i] ELSE IF i = m THEN n + 1 ELSE f[i - 1]]
  OBVIOUS
<1>3. /\ \A i \in 1 .. n + 1 : i < m => i \in 1 .. n /\ g[i] = f[i]
      /\ m \in 1 .. n + 1 /\ g[m] = n + 1
      /\ \A i \in 1 .. n + 1 : m < i => i - 1 \in 1 .. n /\ m <= i - 1 /\ g[i] = f[i - 1]
  BY <1>2
<1>4. \A i \in 1 .. n : f[i] \in 1 .. n
  BY DEF SortedBy
<1>5. g \in [1 .. n + 1 -> 1 .. n + 1]
  <2>1. ASSUME NEW i \in 1 .. n + 1 PROVE g[i] \in 1 .. n + 1
    <3>1. CASE i < m
      <4>1. g[i] \in 1 .. n
        BY <1>3, <1>4, <3>1
      <4> QED
        BY <4>1
    <3>2. CASE i = m
      BY <1>3, <3>2
    <3>3. CASE m < i
      <4>1. g[i] \in 1 .. n
        BY <1>3, <1>4, <3>3
      <4> QED
        BY <4>1
    <3> QED
      BY <3>1, <3>2, <3>3
  <2> QED
    BY <1>2, <2>1
<1>6. ASSUME NEW i \in 1 .. n + 1, NEW j \in 1 .. n + 1, g[i] = g[j] PROVE i = j
  <2>1. \A a, b \in 1 .. n : f[a] = f[b] => a = b
    BY DEF SortedBy
  <2>2. CASE i = m \/ j = m
    <3>1. \A k \in 1 .. n + 1 : k # m => g[k] \in 1 .. n
      <4>1. \A k \in 1 .. n + 1 : k # m => k < m \/ m < k
        OBVIOUS
      <4> QED
        BY <1>3, <1>4, <4>1
    <3>2. n + 1 \notin 1 .. n
      OBVIOUS
    <3> QED
      BY <1>3, <1>6, <2>2, <3>1, <3>2
  <2>3. CASE i < m /\ j < m
    BY <1>3, <1>6, <2>1, <2>3
  <2>4. CASE m < i /\ m < j
    <3>1. i - 1 = j - 1
      BY <1>3, <1>6, <2>1, <2>4
    <3> QED
      BY <3>1
  <2>5. CASE i < m /\ m < j
    <3>1. i = j - 1
      BY <1>3, <1>6, <2>1, <2>5
    <3> QED
      BY <1>3, <2>5, <3>1
  <2>6. CASE m < i /\ j < m
    <3>1. i - 1 = j
      BY <1>3, <1>6, <2>1, <2>6
    <3> QED
      BY <1>3, <2>6, <3>1
  <2> QED
    BY <2>2, <2>3, <2>4, <2>5, <2>6
<1>7. ASSUME NEW k \in 1 .. n + 1 PROVE \E i \in 1 .. n + 1 : g[i] = k
  <2>1. CASE k = n + 1
    BY <1>3, <2>1
  <2>2. CASE k # n + 1
    <3>1. PICK i \in 1 .. n : f[i] = k
      BY <2>2 DEF SortedBy
    <3>2. CASE i < m
      <4>1. i \in 1 .. n + 1 /\ g[i] = k
        BY <1>3, <3>1, <3>2
      <4> QED
        BY <4>1
    <3>3. CASE ~(i < m)
      <4>1. i + 1 \in 1 .. n + 1 /\ m < i + 1 /\ (i + 1) - 1 = i
        BY <3>3
      <4>2. g[i + 1] = k
        BY <1>3, <3>1, <4>1
      <4> QED
        BY <4>1, <4>2
    <3> QED
      BY <3>2, <3>3
  <2> QED
    BY <2>1, <2>2
<1>8. ASSUME NEW i \in 1 .. n + 1, NEW j \in 1 .. n + 1, i < j PROVE key[g[i]] <= key[g[j]]
  <2>1. \A a, b \in 1 .. n : a < b => key[f[a]] <= key[f[b]]
    BY DEF SortedBy
  <2>2. CASE j < m
    <3>1. i \in 1 .. n /\ j \in 1 .. n /\ g[i] = f[i] /\ g[j] = f[j]
      <4>1. i < m
        BY <1>8, <2>2
      <4> QED
        BY <1>3, <2>2, <4>1
    <3> QED
      BY <1>8, <2>1, <3>1
  <2>3. CASE j = m
    BY <1>1, <1>3, <1>8, <2>3
  <2>4. CASE i = m
    BY <1>1, <1>3, <1>8, <2>4
  <2>5. CASE i < m /\ m < j
    <3>1. i \in 1 .. n /\ j - 1 \in 1 .. n /\ i < j - 1 /\ g[i] = f[i] /\ g[j] = f[j - 1]
      BY <1>3, <2>5
    <3> QED
      BY <2>1, <3>1
  <2>6. CASE m < i
    <3>1. i - 1 \in 1 .. n /\ j - 1 \in 1 .. n /\ i - 1 < j - 1 /\ g[i] = f[i - 1] /\ g[j] = f[j - 1]
      BY <1>3, <1>8, <2>6
    <3> QED
      BY <2>1, <3>1
  <2> QED
    BY <1>8, <2>2, <2>3, <2>4, <2>5, <2>6
<1>9. SortedBy(g, n + 1, key)
  BY <1>5, <1>6, <1>7, <1>8, Zenon DEF SortedBy
<1> QED
  BY <1>9

LEMMA SortExists ==
  ASSUME NEW N \in Nat, NEW key \in [1 .. N -> Int]
  PROVE  \E f : SortedBy(f, N, key)
<1> DEFINE S == {n \in 0 .. N : \E f : SortedBy(f, n, key)}
<1>1. 0 \in S
  <2>1. PICK f : f = [i \in 1 .. 0 |-> 0]
    OBVIOUS
  <2>2. f \in [1 .. 0 -> 1 .. 0] /\ 0 \in 0 .. N /\ \A i : i \notin 1 .. 0
    BY <2>1
  <2>3. SortedBy(f, 0, key)
    BY <2>2, Zenon DEF SortedBy
  <2> QED
    BY <2>2, <2>3
<1>2. ASSUME NEW n \in 0 .. N - 1, n \in S PROVE n + 1 \in S
  <2>1. PICK f : SortedBy(f, n, key)
    BY <1>2
  <2>2. n \in Nat /\ n + 1 <= N /\ n + 1 \in 0 .. N
    OBVIOUS
  <2>3. \E g : SortedBy(g, n + 1, key)
    BY <2>1, <2>2, Insert, Zenon
  <2> QED
    BY <2>2, <2>3
<1> HIDE DEF S
<1>3. 0 .. N \subseteq S
  BY <1>1, <1>2, UpTo, Zenon
<1>4. N \in S
  BY <1>3
<1> QED
  BY <1>4 DEF S

\* The number a packet gets is that of a time less than a turn before the counter,
\* also when the counter could not be read.
Stamp(u, c) == u \in Int /\ u <= readAt /\ readAt - u < C /\ c = u % R

LEMMA Stamped ==
  ASSUME RxTypes, RxCounter, NEW at \in Nat
  PROVE  \E u : Stamp(u, timestamp_pkt_expand(at))
<1>1. C \in Nat \ {0} /\ readAt \in Int /\ ref \in 0 .. C - 1 /\ wrap \in 0 .. WRAPS - 1
  BY Sizes DEF RxTypes, RxCounter, Counted
<1>2. PICK k \in Int : readAt = (k * WRAPS + wrap) * C + ref
  BY DEF RxCounter, Counted
<1>3. PICK a \in Int : a = k * WRAPS + wrap
  BY <1>1, Sizes
<1>4. PICK p \in 0 .. C - 1 : p = at % C
  BY <1>1
<1>5. PICK b \in Int : b = IF ref >= p THEN a ELSE a - 1
  BY <1>3
<1>6. PICK bc \in Int, ac \in Int : bc = b * C /\ ac = a * C
  BY <1>1
<1>7. bc = IF ref >= p THEN ac ELSE ac - C
  <2>1. (a - 1) * C = a * C - C
    BY <1>1
  <2> QED
    BY <1>5, <1>6, <2>1
<1>8. PICK u \in Int : u = bc + p
  BY <1>1, <1>6
<1>9. readAt = ac + ref
  BY <1>2, <1>3, <1>6
<1>10. u <= readAt /\ readAt - u < C
  BY <1>1, <1>4, <1>7, <1>8, <1>9
<1>11. u % C = p
  BY <1>1, <1>4, <1>6, <1>8, Residue
<1>12. Counted(readAt, ref, wrap)
  BY DEF RxCounter
<1>13. ((wrap - (IF ref >= u % C THEN 0 ELSE 1)) % WRAPS) * C + (u % C) = u % R
  BY <1>10, <1>12, CountedBefore, Zenon
<1>14. timestamp_pkt_expand(at) = ((wrap - (IF ref >= p THEN 0 ELSE 1)) % WRAPS) * C + p
  BY <1>4, Zenon DEF timestamp_pkt_expand, C
<1>15. timestamp_pkt_expand(at) = u % R
  BY <1>11, <1>13, <1>14
<1> QED
  BY <1>8, <1>10, <1>15 DEF Stamp

\* Packets parsed in one call can always be sorted: for them compare_pkt_tmst is an
\* order, although a comparison of numbers that wrap is none in general.
LEMMA SomeOrder ==
  ASSUME RxTypes, RxCounter, RxLines, up = "updated"
  PROVE  merge_packets(Found(rx_buffer)) # {}
<1>1. PICK q : q = remove_duplicates(Found(rx_buffer))
  OBVIOUS
<1>2. /\ Len(q) \in Nat
      /\ \A j \in 1 .. Len(q) : \E i \in 1 .. Asked(rx_buffer) :
           i \in 1 .. Len(rx_buffer) /\ q[j] = Found(rx_buffer)[i]
  BY <1>1, LeftOver
<1>3. ASSUME NEW j \in 1 .. Len(q) PROVE \E u : Stamp(u, q[j].count_us)
  <2>1. PICK i \in 1 .. Asked(rx_buffer) :
          i \in 1 .. Len(rx_buffer) /\ q[j] = Found(rx_buffer)[i]
    BY <1>2
  <2>2. rx_buffer[i].at \in Nat
    BY <2>1, LineIndex DEF RxLines, Frames
  <2>3. q[j].count_us = timestamp_pkt_expand(rx_buffer[i].at)
    BY <2>1 DEF Found, sx1302_parse, count_us
  <2> QED
    BY <2>2, <2>3, Stamped
<1>4. PICK key : key = [j \in 1 .. Len(q) |-> CHOOSE u : Stamp(u, q[j].count_us)]
  OBVIOUS
<1>5. \A j \in 1 .. Len(q) : Stamp(key[j], q[j].count_us)
  BY <1>3, <1>4, Zenon
<1>6. key \in [1 .. Len(q) -> Int]
  BY <1>4, <1>5 DEF Stamp
<1>7. PICK f : SortedBy(f, Len(q), key)
  BY <1>2, <1>6, SortExists, Zenon
<1>8. ASSUME NEW i \in 1 .. Len(q), NEW j \in 1 .. Len(q), i < j
      PROVE  InOrder(q[f[i]], q[f[j]])
  <2>1. f[i] \in 1 .. Len(q) /\ f[j] \in 1 .. Len(q) /\ key[f[i]] <= key[f[j]]
    BY <1>7, <1>8 DEF SortedBy
  <2>2. PICK u \in Int, v \in Int :
          /\ u = key[f[i]] /\ v = key[f[j]] /\ u <= v
          /\ u <= readAt /\ readAt - u < C /\ q[f[i]].count_us = u % R
          /\ v <= readAt /\ readAt - v < C /\ q[f[j]].count_us = v % R
    <3>1. Stamp(key[f[i]], q[f[i]].count_us) /\ Stamp(key[f[j]], q[f[j]].count_us)
      BY <1>5, <2>1
    <3> QED
      BY <2>1, <3>1 DEF Stamp
  <2>3. u - v < C /\ v - u < C
    <3>1. readAt \in Int /\ C \in Int /\ C > 1
      BY RxFacts
    <3>2. u <= v /\ v <= readAt /\ readAt - u < C
      BY <2>2
    <3> QED
      BY <3>1, <3>2
  <2>4. ((v % R) - (u % R)) % R \in 0 .. R \div 2 - 1
    BY <2>2, <2>3, OrderTold
  <2> QED
    BY <2>2, <2>4 DEF InOrder, R
<1>9. f \in Bijection(1 .. Len(q), 1 .. Len(q))
  BY <1>7 DEF SortedBy, Bijection, Injection, Surjection, IsInjective
<1>10. [i \in 1 .. Len(q) |-> q[f[i]]] \in merge_packets(Found(rx_buffer))
  BY <1>1, <1>8, <1>9 DEF merge_packets
<1> QED
  BY <1>10

-----------------------------------------------------------------------------
(* The theorems                                                            *)

\* timestamp_pkt_expand and timestamp_counter_expand give the times of reception and of
\* reading in 32 bits, for every width of the free-running counter and every number of
\* wraps, provided the counter is read once in each turn.
THEOREM RightTimes == HalSpec => []TimesRight
<1>1. RxInv => TimesRight
  <2>1. ASSUME RxInv PROVE CounterRight
    <3>1. Counted(readAt, ref, wrap)
      BY <2>1 DEF RxInv, RxCounter
    <3>2. wrap * C + ref = readAt % R
      BY <3>1, CountedIs
    <3> QED
      BY <3>2 DEF CounterRight, timestamp_counter_expand, C, R
  <2> QED
    BY <2>1 DEF TimesRight, RxInv
<1> QED
  BY <1>1, RxInvariant, PTL

\* What lgw_receive returns is typed, without copies, in the order of reception, and no
\* good packet goes missing unless a frame was damaged.
THEOREM RightBatches == HalSpec => []BatchRight
<1>1. RxInv => BatchRight
  <2>1. ASSUME RxInv PROVE HalTypeOK
    <3>1. ref \in 0 .. COUNTER - 1 /\ wrap \in 0 .. WRAPS - 1
      BY <2>1 DEF RxInv, RxCounter, Counted, C
    <3>2. lost \subseteq 1 .. MaxFrames
      BY <2>1, RxFacts DEF RxInv, RxTypes
    <3> QED
      BY <2>1, <3>1, <3>2 DEF RxInv, RxTypes, RxBatch, HalTypeOK
  <2> QED
    BY <2>1 DEF BatchRight, RxInv
<1> QED
  BY <1>1, RxInvariant, PTL

\* Of the demodulations of a packet parsed in one call, merge_packets keeps one with a
\* good CRC if there is one.
THEOREM BestIsKept == HalSpec => BestKept
<1> DEFINE Best == up = "updated" =>
       \A p \in Range(batch'), i \in 1 .. max_pkt :
         i \in DOMAIN rx_buffer /\ rx_buffer[i].id = p.id /\ rx_buffer[i].crc => p.crc
<1>1. ASSUME RxInv, HalNext, up = "updated" PROVE Best
  <2>1. CASE batch' = <<>>
    BY <2>1 DEF Range
  <2>2. CASE lgw_receive /\ batch' \in Merges(Found(rx_buffer))
    <3>1. PICK b : b = batch' /\ Returned(b)
      BY <1>1, <2>2, ReturnedIs DEF RxInv
    <3>2. DOMAIN b = 1 .. Len(b) /\ Len(b) \in Nat
      BY <3>1, LenProperties DEF Returned
    <3>3. rx_buffer \in Seq(Frames) /\ DOMAIN rx_buffer = 1 .. Len(rx_buffer) /\ Len(rx_buffer) \in Nat
      BY <1>1, LineIndex DEF RxInv, RxLines
    <3>4. ASSUME NEW k \in 1 .. Len(b), NEW i \in 1 .. max_pkt,
                 i \in DOMAIN rx_buffer, rx_buffer[i].id = b[k].id, rx_buffer[i].crc
          PROVE  b[k].crc
      <4>1. i \in 1 .. Asked(rx_buffer)
        BY <3>3, <3>4, HalReceiveAssumption DEF Asked
      <4>2. PICK j \in 1 .. Len(b) : b[j].id = rx_buffer[i].id /\ (rx_buffer[i].crc => b[j].crc)
        BY <3>1, <4>1 DEF Returned
      <4>3. ~(j < k) /\ ~(k < j)
        BY <3>1, <3>4, <4>2 DEF Returned
      <4>4. j = k
        BY <3>2, <4>3
      <4> QED
        BY <3>4, <4>2, <4>4
    <3> QED
      BY <3>1, <3>2, <3>4 DEF Range
  <2>3. CASE Tick \/ Arrive
    <3>1. batch' = <<>>
      BY <1>1, <2>3 DEF RxInv, RxBatch, Tick, Arrive
    <3> QED
      BY <2>1, <3>1
  <2>4. CASE lgw_receive
    BY <1>1, <2>1, <2>2, <2>4, ReceiveCases
  <2>5. Tick \/ Arrive \/ lgw_receive
    BY <1>1 DEF HalNext, sx1302_fetch, FetchFails, sx1302_update, sx1302_timestamp_counter
  <2> QED
    BY <2>3, <2>4, <2>5
<1>2. RxInv /\ [HalNext]_rxVars => [Best]_rxVars
  BY <1>1
<1> QED
  BY <1>2, RxInvariant, PTL DEF BestKept, HalSpec

\* The packets of a call can be put in order: there is a result for qsort_r to reach.
Sortable == up = "updated" => Merges(Found(rx_buffer)) # {}

\* compare_pkt_tmst, which compares numbers that wrap, is an order of the packets parsed
\* in one call, also when the counter could not be read.
THEOREM AlwaysSortable == HalSpec => []Sortable
<1>1. RxInv => Sortable
  BY SomeOrder DEF RxInv, Sortable, Merges
<1> QED
  BY <1>1, RxInvariant, PTL

-----------------------------------------------------------------------------
(* The memory of the device and the accesses to it                         *)

Vals == Values \cup RadioValues \cup Images \cup Nat
Bytes == [1 .. 2 -> Vals]
Mems == [Addresses -> Bytes]
Ops == [kind : {"w"}, addr : Addresses, val : Bytes]
       \cup [kind : {"rmw"}, addr : Addresses, field : 1 .. 2, val : Vals]
       \cup [kind : {"r"}, addr : Addresses]

LEMMA Pair ==
  ASSUME NEW a \in Vals, NEW b \in Vals
  PROVE  <<a, b>> \in Bytes
  BY DEF Bytes

LEMMA AddressesAre ==
  /\ {Reg, RadioReg, SxReg} \cup (1 .. Chunks) = Addresses
  /\ Reg # RadioReg /\ Reg # SxReg /\ RadioReg # SxReg
  /\ {Reg, RadioReg, SxReg} \cap (1 .. Chunks) = {}
  BY DEF Addresses, Reg, RadioReg, SxReg

LEMMA ZeroByte == <<0, 0>> \in Bytes /\ Reset \in Mems
  BY Pair DEF Vals, Reset, Mems

\* What an access does to the memory: nothing but at its address.
LEMMA AccessedIs ==
  ASSUME NEW m \in Mems, NEW op \in Ops
  PROVE  /\ Accessed(m, op) \in Mems /\ op.addr \in Addresses
         /\ \A x \in Addresses \ {op.addr} : Accessed(m, op)[x] = m[x]
<1>1. CASE op \in [kind : {"w"}, addr : Addresses, val : Bytes]
  BY <1>1 DEF Accessed, Mems
<1>2. CASE op \in [kind : {"rmw"}, addr : Addresses, field : 1 .. 2, val : Vals]
  <2>1. Accessed(m, op) = [m EXCEPT ![op.addr] = [m[op.addr] EXCEPT ![op.field] = op.val]]
    BY <1>2 DEF Accessed
  <2>2. m[op.addr] \in Bytes /\ op.addr \in Addresses
    BY <1>2 DEF Mems
  <2>3. [m[op.addr] EXCEPT ![op.field] = op.val] \in Bytes
    BY <1>2, <2>2 DEF Bytes
  <2> QED
    BY <2>1, <2>2, <2>3 DEF Mems
<1>3. CASE op \in [kind : {"r"}, addr : Addresses]
  BY <1>3 DEF Accessed
<1> QED
  BY <1>1, <1>2, <1>3 DEF Ops

\* The memory access by access
Accesses(g, m, ops) ==
  /\ g \in [0 .. Len(ops) -> Mems] /\ g[0] = m
  /\ \A n \in 1 .. Len(ops) : g[n] = Accessed(g[n - 1], ops[n])

LEMMA AllAccessedIs ==
  ASSUME NEW m \in Mems, NEW ops \in Seq(Ops)
  PROVE  \E g : Accesses(g, m, ops) /\ AllAccessed(m, ops) = g[Len(ops)]
<1> DEFINE N == Len(ops)
           After(g) == g = [n \in 0 .. N |-> IF n = 0 THEN m ELSE Accessed(g[n - 1], ops[n])]
<1>1. N \in Nat /\ \A n \in 1 .. N : ops[n] \in Ops
  BY LenProperties, ElementOfSeq
<1>2. \E g : After(g)
  <2>1. PICK step : step = [n \in 1 .. N |-> [q \in Mems |-> Accessed(q, ops[n])]]
    OBVIOUS
  <2>2. step \in [1 .. N -> [Mems -> Mems]]
    BY <1>1, <2>1, AccessedIs
  <2>3. \A n \in 1 .. N : \A q \in Mems : step[n][q] = Accessed(q, ops[n])
    BY <2>1
  <2>4. PICK g : Iteration(g, Mems, m, step, N)
    BY <1>1, <2>2, Iterated, Zenon
  <2>5. \A n \in 0 .. N : n # 0 => n \in 1 .. N /\ n - 1 \in 0 .. N
    BY <1>1
  <2>6. \A n \in 0 .. N : g[n] = IF n = 0 THEN m ELSE Accessed(g[n - 1], ops[n])
    BY <2>3, <2>4, <2>5 DEF Iteration
  <2>7. After(g)
    BY <2>4, <2>6 DEF Iteration
  <2> QED
    BY <2>7
<1>3. PICK g : g = CHOOSE h : After(h)
  OBVIOUS
<1>4. After(g)
  <2> HIDE DEF After
  <2> QED
    BY <1>2, <1>3
<1>5. AllAccessed(m, ops) = g[N]
  BY <1>3, Zenon DEF AllAccessed
<1>6. g[0] = m /\ \A n \in 1 .. N : g[n] = Accessed(g[n - 1], ops[n])
  BY <1>1, <1>4
<1> DEFINE S == {n \in 0 .. N : g[n] \in Mems}
<1>7. 0 \in S
  BY <1>1, <1>6
<1>8. ASSUME NEW n \in 0 .. N - 1, n \in S PROVE n + 1 \in S
  <2>1. n + 1 \in 1 .. N /\ (n + 1) - 1 = n
    BY <1>1
  <2>2. g[n + 1] = Accessed(g[n], ops[n + 1])
    BY <1>6, <2>1
  <2>3. g[n] \in Mems /\ ops[n + 1] \in Ops
    BY <1>1, <1>8, <2>1
  <2>4. g[n + 1] \in Mems
    BY <2>2, <2>3, AccessedIs
  <2> QED
    BY <1>1, <2>1, <2>4
<1> HIDE DEF S
<1>9. 0 .. N \subseteq S
  BY <1>1, <1>7, <1>8, UpTo, Zenon
<1>10. g \in [0 .. N -> Mems]
  BY <1>4, <1>9 DEF S
<1> QED
  BY <1>5, <1>6, <1>10 DEF Accesses

LEMMA NoAccess ==
  ASSUME NEW m \in Mems
  PROVE  AllAccessed(m, <<>>) = m
<1>1. <<>> \in Seq(Ops) /\ Len(<<>>) = 0
  BY EmptySeq
<1>2. PICK g : Accesses(g, m, <<>>) /\ AllAccessed(m, <<>>) = g[Len(<<>>)]
  BY <1>1, AllAccessedIs
<1> QED
  BY <1>1, <1>2 DEF Accesses

\* One more access is the last.
LEMMA OneMore ==
  ASSUME NEW m \in Mems, NEW ops \in Seq(Ops), NEW op \in Ops
  PROVE  AllAccessed(m, Append(ops, op)) = Accessed(AllAccessed(m, ops), op)
<1> DEFINE N == Len(ops)
<1>1. N \in Nat
  BY LenProperties
<1>2. PICK more \in Seq(Ops) : more = Append(ops, op)
  BY AppendProperties
<1>3. Len(more) = N + 1 /\ more[N + 1] = op /\ \A n \in 1 .. N : more[n] = ops[n]
  BY <1>2, AppendProperties
<1>4. PICK g : Accesses(g, m, ops) /\ AllAccessed(m, ops) = g[N]
  BY AllAccessedIs
<1>5. PICK h : Accesses(h, m, more) /\ AllAccessed(m, more) = h[N + 1]
  BY <1>3, AllAccessedIs
<1> DEFINE S == {n \in 0 .. N : h[n] = g[n]}
<1>6. 0 \in S
  BY <1>1, <1>4, <1>5 DEF Accesses
<1>7. ASSUME NEW n \in 0 .. N - 1, n \in S PROVE n + 1 \in S
  <2>1. n + 1 \in 1 .. N /\ n + 1 \in 1 .. N + 1 /\ (n + 1) - 1 = n
    BY <1>1
  <2>2. g[n + 1] = Accessed(g[n], ops[n + 1])
    BY <1>4, <2>1 DEF Accesses
  <2>3. h[n + 1] = Accessed(h[n], more[n + 1])
    BY <1>3, <1>5, <2>1 DEF Accesses
  <2> QED
    BY <1>1, <1>3, <1>7, <2>1, <2>2, <2>3
<1> HIDE DEF S
<1>8. 0 .. N \subseteq S
  BY <1>1, <1>6, <1>7, UpTo, Zenon
<1>9. h[N] = g[N]
  BY <1>1, <1>8 DEF S
<1>10. N + 1 \in 1 .. N + 1 /\ (N + 1) - 1 = N
  BY <1>1
<1>11. h[N + 1] = Accessed(h[N], op)
  BY <1>3, <1>5, <1>10 DEF Accesses
<1> QED
  BY <1>2, <1>4, <1>5, <1>9, <1>11

LEMMA OneAccess ==
  ASSUME NEW m \in Mems, NEW op \in Ops
  PROVE  AllAccessed(m, <<op>>) = Accessed(m, op) /\ <<op>> \in Seq(Ops)
<1>1. <<>> \in Seq(Ops)
  BY EmptySeq
<1>2. Append(<<>>, op) = <<op>> /\ <<op>> \in Seq(Ops)
  OBVIOUS
<1>3. AllAccessed(m, Append(<<>>, op)) = Accessed(AllAccessed(m, <<>>), op)
  BY <1>1, OneMore
<1> QED
  BY <1>2, <1>3, NoAccess

\* Accesses to the addresses of A change the memory there, and there only; the rest of
\* the memory does not matter to them.
Apart(A, ops, m, q) ==
  /\ AllAccessed(m, ops) \in Mems /\ AllAccessed(q, ops) \in Mems
  /\ \A x \in A : AllAccessed(q, ops)[x] = AllAccessed(m, ops)[x]
  /\ \A x \in Addresses \ A : AllAccessed(m, ops)[x] = m[x] /\ AllAccessed(q, ops)[x] = q[x]

LEMMA AccessesApart ==
  ASSUME NEW A \in SUBSET Addresses, NEW ops \in Seq(Ops), \A n \in 1 .. Len(ops) : ops[n].addr \in A,
         NEW m \in Mems, NEW q \in Mems, \A x \in A : q[x] = m[x]
  PROVE  Apart(A, ops, m, q)
<1> DEFINE N == Len(ops)
<1>1. N \in Nat /\ \A n \in 1 .. N : ops[n] \in Ops
  BY LenProperties, ElementOfSeq
<1>2. PICK g : Accesses(g, m, ops) /\ AllAccessed(m, ops) = g[N]
  BY AllAccessedIs
<1>3. PICK h : Accesses(h, q, ops) /\ AllAccessed(q, ops) = h[N]
  BY AllAccessedIs
<1> DEFINE Good(n) == /\ \A x \in A : h[n][x] = g[n][x]
                      /\ \A x \in Addresses \ A : g[n][x] = m[x] /\ h[n][x] = q[x]
           S == {n \in 0 .. N : Good(n)}
<1>4. 0 \in S
  BY <1>1, <1>2, <1>3 DEF Accesses
<1>5. ASSUME NEW n \in 0 .. N - 1, n \in S PROVE n + 1 \in S
  <2>1. n \in 0 .. N /\ n + 1 \in 0 .. N /\ n + 1 \in 1 .. N /\ (n + 1) - 1 = n
    BY <1>1
  <2>2. PICK op \in Ops : op = ops[n + 1] /\ op.addr \in A
    BY <1>1, <2>1
  <2>3. g[n] \in Mems /\ g[n + 1] = Accessed(g[n], op)
    BY <1>2, <2>1, <2>2 DEF Accesses
  <2>4. h[n] \in Mems /\ h[n + 1] = Accessed(h[n], op)
    BY <1>3, <2>1, <2>2 DEF Accesses
  <2>0. \A x \in Addresses \ {op.addr} : g[n + 1][x] = g[n][x] /\ h[n + 1][x] = h[n][x]
    <3>1. \A x \in Addresses \ {op.addr} : Accessed(g[n], op)[x] = g[n][x]
      BY <2>3, AccessedIs
    <3>2. \A x \in Addresses \ {op.addr} : Accessed(h[n], op)[x] = h[n][x]
      BY <2>4, AccessedIs
    <3> QED
      BY <2>3, <2>4, <3>1, <3>2
  <2>5. \A x \in Addresses \ A : g[n + 1][x] = m[x] /\ h[n + 1][x] = q[x]
    BY <1>5, <2>0, <2>2
  <2>6. h[n + 1][op.addr] = g[n + 1][op.addr]
    <3>1. h[n][op.addr] = g[n][op.addr] /\ op.addr \in Addresses
      BY <1>5, <2>2
    <3>2. CASE op \in [kind : {"w"}, addr : Addresses, val : Bytes]
      BY <2>3, <2>4, <3>1, <3>2 DEF Accessed, Mems
    <3>3. CASE op \in [kind : {"rmw"}, addr : Addresses, field : 1 .. 2, val : Vals]
      <4>1. /\ g[n + 1] = [g[n] EXCEPT ![op.addr] = [g[n][op.addr] EXCEPT ![op.field] = op.val]]
            /\ h[n + 1] = [h[n] EXCEPT ![op.addr] = [h[n][op.addr] EXCEPT ![op.field] = op.val]]
        BY <2>3, <2>4, <3>3 DEF Accessed
      <4> QED
        BY <2>3, <2>4, <3>1, <4>1 DEF Mems
    <3>4. CASE op \in [kind : {"r"}, addr : Addresses]
      BY <2>3, <2>4, <3>1, <3>4 DEF Accessed
    <3> QED
      BY <3>2, <3>3, <3>4 DEF Ops
  <2>7. \A x \in A \ {op.addr} : h[n + 1][x] = g[n + 1][x]
    BY <1>5, <2>0
  <2> QED
    BY <2>1, <2>5, <2>6, <2>7
<1> HIDE DEF S
<1>6. 0 .. N \subseteq S
  BY <1>1, <1>4, <1>5, UpTo, Zenon
<1>7. N \in S /\ N \in 0 .. N
  BY <1>1, <1>6
<1>8. Good(N)
  BY <1>7 DEF S
<1>9. g[N] \in Mems /\ h[N] \in Mems
  BY <1>2, <1>3, <1>7 DEF Accesses
<1> QED
  BY <1>2, <1>3, <1>8, <1>9 DEF Apart

-----------------------------------------------------------------------------
(* The state of the link                                                   *)

MsgKinds == {"rest", "gpio", "status", "ping", "spi"}
Answers == [kind : MsgKinds, good : BOOLEAN, val : Bytes]
Late == [kind : {"gpio", "spi"}, good : BOOLEAN, val : Bytes]
Targets == {"null", "open", "freed"}
Links ==
  [type : {"unknown", "SPI", "USB"}, target : Targets, mode : {"single", "bulk"}, nb : Nat,
   bulk : Seq(Ops), target61 : Targets, mode61 : {"single", "bulk"}, nb61 : Nat,
   tty : Seq(Answers), late : Seq(Late), alive : BOOLEAN, faults : Nat, mem : Mems]
Outs == [s : Links, ok : BOOLEAN, val : Bytes]

\* Only the tty and the device changed.
Static(s, t) ==
  /\ t \in Links /\ t.type = s.type /\ t.late = s.late
  /\ t.target = s.target /\ t.mode = s.mode /\ t.nb = s.nb /\ t.bulk = s.bulk
  /\ t.target61 = s.target61 /\ t.mode61 = s.mode61 /\ t.nb61 = s.nb61

\* While the device is there no answer waits in the tty.
Sync(s) == s.alive => s.tty = <<>>

LEMMA StaticTwice ==
  ASSUME NEW s, NEW t, NEW u, Static(s, t), Static(t, u)
  PROVE  Static(s, u)
  BY DEF Static

LEMMA StaticItself ==
  ASSUME NEW s \in Links
  PROVE  Static(s, s)
  BY DEF Static

LEMMA OutcomeIs ==
  ASSUME NEW s \in Links
  PROVE  /\ \A o \in Succeeds(s) : o \in Outs /\ o.s = s /\ o.ok = TRUE
         /\ \A o \in Fails(s) : o \in Outs /\ o.s = s /\ o.ok = FALSE
  BY ZeroByte DEF Succeeds, Fails, Result, Outs

\* The device is gone; its memory and the tty stay as they were.
LEMMA GoneIs ==
  ASSUME NEW s \in Links, NEW t \in Gone(s)
  PROVE  Static(s, t) /\ ~t.alive /\ t.mem = s.mem /\ t.tty = s.tty
<1>1. CASE ~s.alive
  BY <1>1 DEF Gone, Static
<1>2. CASE s.alive
  <2>0. PICK n \in Nat : n = s.faults + 1
    BY DEF Links
  <2>1. t = [s EXCEPT !.alive = FALSE, !.faults = n]
    BY <1>2, <2>0 DEF Gone
  <2> QED
    BY <2>1 DEF Links, Static
<1> QED
  BY <1>1, <1>2

Reqs == [kind : MsgKinds \ {"rest"}, ops : Seq(Ops)]

\* What the first access of a request reads
FirstRead(m, ops) == IF ops = <<>> THEN <<0, 0>> ELSE m[Head(ops).addr]

\* The answer a request gets, and what became of the memory
Answered(s, req, t, a) ==
  /\ Static(s, t) /\ t.alive = s.alive /\ a \in Answers /\ t.tty = Append(s.tty, a)
  /\ a.kind = req.kind /\ a.val = FirstRead(s.mem, req.ops)
  /\ req.kind # "gpio" => t.mem = IF a.good THEN AllAccessed(s.mem, req.ops) ELSE s.mem

LEMMA AllAccessedType ==
  ASSUME NEW m \in Mems, NEW ops \in Seq(Ops)
  PROVE  AllAccessed(m, ops) \in Mems
<1>1. PICK g : Accesses(g, m, ops) /\ AllAccessed(m, ops) = g[Len(ops)]
  BY AllAccessedIs
<1>2. Len(ops) \in 0 .. Len(ops)
  BY LenProperties
<1> QED
  BY <1>1, <1>2 DEF Accesses

LEMMA FirstReadType ==
  ASSUME NEW m \in Mems, NEW ops \in Seq(Ops)
  PROVE  FirstRead(m, ops) \in Bytes
<1>1. CASE ops = <<>>
  BY <1>1, ZeroByte DEF FirstRead
<1>2. CASE ops # <<>>
  <2>1. Head(ops) \in Ops
    BY <1>2, HeadTailProperties
  <2>2. Head(ops).addr \in Addresses
    BY <2>1 DEF Ops
  <2> QED
    BY <1>2, <2>2 DEF FirstRead, Mems
<1> QED
  BY <1>1, <1>2

LEMMA ServedIs ==
  ASSUME NEW s \in Links, NEW req \in Reqs, NEW t \in Served(s, req)
  PROVE  \E a \in Answers : Answered(s, req, t, a)
<1>1. PICK done \in Mems, v \in Bytes : done = AllAccessed(s.mem, req.ops) /\ v = FirstRead(s.mem, req.ops)
  BY AllAccessedType, FirstReadType DEF Links, Reqs
<1>2. PICK m \in Mems : m = IF req.kind = "gpio" THEN Reset ELSE done
  BY <1>1, ZeroByte
<1>3. CASE t = [[s EXCEPT !.mem = m] EXCEPT !.tty = Append(s.tty, [kind |-> req.kind, good |-> TRUE, val |-> v])]
  <2>1. PICK a \in Answers : a = [kind |-> req.kind, good |-> TRUE, val |-> v]
    BY DEF Answers, Reqs
  <2>2. Append(s.tty, a) \in Seq(Answers)
    BY AppendProperties DEF Links
  <2>3. t = [s EXCEPT !.mem = m, !.tty = Append(s.tty, a)]
    BY <1>3, <2>1 DEF Links
  <2>4. Static(s, t) /\ t.alive = s.alive /\ t.tty = Append(s.tty, a) /\ t.mem = m
    BY <2>2, <2>3 DEF Links, Static
  <2> QED
    BY <1>1, <1>2, <2>1, <2>4 DEF Answered
<1>4. CASE t = [[s EXCEPT !.faults = s.faults + 1] EXCEPT !.tty = Append(s.tty, [kind |-> req.kind, good |-> FALSE, val |-> v])]
  <2>1. PICK a \in Answers : a = [kind |-> req.kind, good |-> FALSE, val |-> v]
    BY DEF Answers, Reqs
  <2>2. Append(s.tty, a) \in Seq(Answers)
    BY AppendProperties DEF Links
  <2>5. PICK n \in Nat : n = s.faults + 1
    BY DEF Links
  <2>3. t = [s EXCEPT !.faults = n, !.tty = Append(s.tty, a)]
    BY <1>4, <2>1, <2>5 DEF Links
  <2>4. Static(s, t) /\ t.alive = s.alive /\ t.tty = Append(s.tty, a) /\ t.mem = s.mem
    BY <2>2, <2>3 DEF Links, Static
  <2> QED
    BY <1>1, <2>1, <2>4 DEF Answered
<1>5. t = [[s EXCEPT !.mem = m] EXCEPT !.tty = Append([s EXCEPT !.mem = m].tty, [kind |-> req.kind, good |-> TRUE, val |-> v])]
      \/ t = [[s EXCEPT !.faults = s.faults + 1] EXCEPT
                !.tty = Append([s EXCEPT !.faults = s.faults + 1].tty, [kind |-> req.kind, good |-> FALSE, val |-> v])]
  BY <1>1, <1>2 DEF Served, FirstRead
<1> QED
  BY <1>3, <1>4, <1>5 DEF Links

LEMMA WriteReqIs ==
  ASSUME NEW s \in Links, NEW req \in Reqs, NEW o \in write_req(s, req)
  PROVE  /\ o \in Outs /\ Static(s, o.s)
         /\ ~o.ok => ~o.s.alive /\ o.s.mem = s.mem /\ o.s.tty = s.tty
         /\ o.ok => s.alive /\ \E a \in Answers : Answered(s, req, o.s, a)
<1>1. CASE \E t \in Gone(s) : o \in Fails(t)
  <2>1. PICK t \in Gone(s) : o \in Fails(t)
    BY <1>1
  <2>2. Static(s, t) /\ ~t.alive /\ t.mem = s.mem /\ t.tty = s.tty /\ t \in Links
    BY GoneIs DEF Static
  <2>3. o \in Outs /\ o.s = t /\ ~o.ok
    BY <2>1, <2>2, OutcomeIs
  <2> QED
    BY <2>2, <2>3
<1>2. CASE s.alive /\ \E t \in Served(s, req) : o \in Succeeds(t)
  <2>1. PICK t \in Served(s, req) : o \in Succeeds(t)
    BY <1>2
  <2>2. \E a \in Answers : Answered(s, req, t, a)
    BY ServedIs
  <2>3. Static(s, t) /\ t \in Links
    BY <2>2 DEF Answered, Static
  <2>4. o \in Outs /\ o.s = t /\ o.ok
    BY <2>1, <2>3, OutcomeIs
  <2> QED
    BY <1>2, <2>2, <2>3, <2>4
<1>3. (\E t \in Gone(s) : o \in Fails(t)) \/ (s.alive /\ \E t \in Served(s, req) : o \in Succeeds(t))
  <2>1. o \in (UNION {Fails(t) : t \in Gone(s)}) \/ (s.alive /\ o \in UNION {Succeeds(t) : t \in Served(s, req)})
    <3>1. PICK G, A : G = UNION {Fails(t) : t \in Gone(s)} /\ A = UNION {Succeeds(t) : t \in Served(s, req)}
      OBVIOUS
    <3>2. write_req(s, req) = G \cup (IF s.alive THEN A ELSE {})
      BY <3>1, Zenon DEF write_req
    <3>3. o \in G \/ (s.alive /\ o \in A)
      BY <3>2
    <3> QED
      BY <3>1, <3>3
  <2> QED
    BY <2>1
<1> QED
  BY <1>1, <1>2, <1>3

\* An answer is read, or refused because it is too long; after the refusal its payload
\* waits in the tty, as an answer of its own.
LEMMA ReadAckIs ==
  ASSUME NEW s \in Links, s.tty # <<>>, NEW kind \in MsgKinds \ {"rest"}, NEW o \in read_ack(s, kind)
  PROVE  /\ o \in Outs /\ Static(s, o.s) /\ o.s.mem = s.mem
         /\ o.ok => s.alive /\ o.s.alive /\ o.s.tty = Tail(s.tty)
         /\ o.ok => Head(s.tty).kind # "rest" /\ AnswerSize[Head(s.tty).kind] <= AnswerSize[kind]
         /\ ~o.ok /\ Head(s.tty).kind = kind => ~o.s.alive
<1>1. PICK a \in Answers : a = Head(s.tty)
  BY HeadTailProperties DEF Links
<1>2. PICK left \in Seq(Answers) : left = Tail(s.tty)
  BY HeadTailProperties DEF Links
<1>3. PICK rest \in Links : rest = [s EXCEPT !.tty = left]
  BY DEF Links
<1>4. Static(s, rest) /\ rest.alive = s.alive /\ rest.mem = s.mem /\ rest.tty = left
  BY <1>3 DEF Links, Static
<1>5. CASE \E t \in Gone(s) : o \in Fails(t)
  <2>1. PICK t \in Gone(s) : o \in Fails(t)
    BY <1>5
  <2>2. Static(s, t) /\ ~t.alive /\ t.mem = s.mem /\ t \in Links
    BY GoneIs DEF Static
  <2>3. o \in Outs /\ o.s = t /\ ~o.ok
    BY <2>1, <2>2, OutcomeIs
  <2> QED
    BY <2>2, <2>3
<1>6. CASE s.alive /\ a.kind = "rest" /\ (o \in Fails(rest) \/ o \in Fails(s))
  <2>1. o \in Outs /\ (o.s = rest \/ o.s = s) /\ ~o.ok
    BY <1>6, OutcomeIs
  <2>2. Head(s.tty).kind # kind
    BY <1>1, <1>6
  <2> QED
    BY <1>4, <2>1, <2>2, StaticItself
<1>7. CASE s.alive /\ a.kind # "rest" /\ AnswerSize[a.kind] > AnswerSize[kind]
           /\ o \in Fails([s EXCEPT !.tty = <<[a EXCEPT !.kind = "rest"]>> \o left])
  <2>1. PICK b \in Answers : b = [a EXCEPT !.kind = "rest"]
    BY DEF Answers, MsgKinds
  <2>2. PICK tty \in Seq(Answers) : tty = <<b>> \o left
    <3>1. <<b>> \in Seq(Answers)
      BY <2>1
    <3> QED
      BY <3>1, ConcatProperties
  <2>3. PICK t \in Links : t = [s EXCEPT !.tty = tty]
    BY DEF Links
  <2>4. Static(s, t) /\ t.mem = s.mem
    BY <2>3 DEF Links, Static
  <2>5. o \in Outs /\ o.s = t /\ ~o.ok
    BY <1>7, <2>1, <2>2, <2>3, OutcomeIs
  <2>6. Head(s.tty).kind # kind
    BY <1>1, <1>7 DEF AnswerSize, MsgKinds
  <2> QED
    BY <2>4, <2>5, <2>6
<1>8. CASE s.alive /\ a.kind # "rest" /\ ~(AnswerSize[a.kind] > AnswerSize[kind]) /\ o \in Succeeds(rest)
  <2>1. o \in Outs /\ o.s = rest /\ o.ok
    BY <1>8, OutcomeIs
  <2>2. AnswerSize[a.kind] <= AnswerSize[kind]
    BY <1>8 DEF AnswerSize, MsgKinds, Answers
  <2> QED
    BY <1>1, <1>2, <1>4, <1>8, <2>1, <2>2
<1>9. (\E t \in Gone(s) : o \in Fails(t))
      \/ (/\ s.alive
          /\ o \in (IF a.kind = "rest" THEN Fails(rest) \cup Fails(s)
                    ELSE IF AnswerSize[a.kind] > AnswerSize[kind]
                         THEN Fails([s EXCEPT !.tty = <<[a EXCEPT !.kind = "rest"]>> \o left])
                         ELSE Succeeds(rest)))
  <2>1. o \in (UNION {Fails(t) : t \in Gone(s)})
        \/ (/\ s.alive
            /\ o \in (IF a.kind = "rest" THEN Fails(rest) \cup Fails(s)
                      ELSE IF AnswerSize[a.kind] > AnswerSize[kind]
                           THEN Fails([s EXCEPT !.tty = <<[a EXCEPT !.kind = "rest"]>> \o left])
                           ELSE Succeeds(rest)))
    <3>1. PICK G, A : /\ G = UNION {Fails(t) : t \in Gone(s)}
                       /\ A = (IF a.kind = "rest" THEN Fails(rest) \cup Fails(s)
                              ELSE IF AnswerSize[a.kind] > AnswerSize[kind]
                                   THEN Fails([s EXCEPT !.tty = <<[a EXCEPT !.kind = "rest"]>> \o left])
                                   ELSE Succeeds(rest))
      OBVIOUS
    <3>2. A = (IF a.kind = "rest" THEN Fails([s EXCEPT !.tty = Tail(@)]) \cup Fails(s)
               ELSE IF AnswerSize[a.kind] > AnswerSize[kind]
                    THEN Fails([s EXCEPT !.tty = <<[a EXCEPT !.kind = "rest"]>> \o Tail(@)])
                    ELSE Succeeds([s EXCEPT !.tty = Tail(@)]))
      BY <1>2, <1>3, <3>1
    <3>3. read_ack(s, kind) = G \cup (IF ~s.alive THEN {} ELSE A)
      BY <1>1, <3>1, <3>2 DEF read_ack
    <3>4. o \in G \/ (s.alive /\ o \in A)
      BY <3>3
    <3> QED
      BY <3>1, <3>4
  <2> QED
    BY <2>1
<1> QED
  BY <1>5, <1>6, <1>7, <1>8, <1>9

\* What is made of an answer
Decoded(q, a, kind, o) ==
  /\ o \in Outs /\ o.s = q.s /\ o.val = a.val /\ (o.ok => a.kind = kind)
  /\ kind = "spi" => (o.ok <=> a.kind = "spi" /\ a.good)

LEMMA DecodeAckIs ==
  ASSUME NEW q \in Outs, NEW a \in Answers, NEW kind
  PROVE  /\ decode_ack(q, a, kind) \in Outs /\ decode_ack(q, a, kind).s = q.s
         /\ decode_ack(q, a, kind).val = a.val /\ (decode_ack(q, a, kind).ok <=> a.kind = kind)
<1>1. PICK x \in BOOLEAN : x = (a.kind = kind)
  OBVIOUS
<1>2. decode_ack(q, a, kind) = [q EXCEPT !.ok = x, !.val = a.val]
  BY <1>1 DEF decode_ack
<1>3. a.val \in Bytes
  BY DEF Answers
<1> QED
  BY <1>1, <1>2, <1>3 DEF Outs

\* The status of the answer counts too.
LEMMA DecodeGoodIs ==
  ASSUME NEW q \in Outs, NEW a \in Answers, NEW d, d = [q EXCEPT !.ok = @ /\ a.good]
  PROVE  d \in Outs /\ d.s = q.s /\ d.val = q.val /\ (d.ok <=> q.ok /\ a.good)
<1>1. q.ok \in BOOLEAN /\ a.good \in BOOLEAN
  BY DEF Outs, Answers
<1>2. PICK x \in BOOLEAN : x = (q.ok /\ a.good)
  BY <1>1, Zenon
<1>3. d = [q EXCEPT !.ok = x]
  BY <1>2
<1> QED
  BY <1>1, <1>2, <1>3 DEF Outs

LEMMA DecodeIs ==
  ASSUME NEW q \in Outs, NEW a \in Answers
  PROVE  /\ Decoded(q, a, "spi", decode_ack_spi_bulk(q, a))
         /\ Decoded(q, a, "gpio", decode_ack_gpio_access(q, a))
         /\ Decoded(q, a, "ping", decode_ack_ping(q, a))
         /\ Decoded(q, a, "status", decode_ack_get_status(q, a))
<1>1. Decoded(q, a, "spi", decode_ack_spi_bulk(q, a))
  <2>1. PICK d \in Outs : d = decode_ack(q, a, "spi") /\ d.s = q.s /\ d.val = a.val /\ (d.ok <=> a.kind = "spi")
    BY DecodeAckIs
  <2>2. decode_ack_spi_bulk(q, a) = [d EXCEPT !.ok = @ /\ a.good]
    BY <2>1 DEF decode_ack_spi_bulk
  <2> QED
    BY <2>1, <2>2, DecodeGoodIs DEF Decoded
<1>2. Decoded(q, a, "gpio", decode_ack_gpio_access(q, a))
  <2>1. PICK d \in Outs : d = decode_ack(q, a, "gpio") /\ d.s = q.s /\ d.val = a.val /\ (d.ok <=> a.kind = "gpio")
    BY DecodeAckIs
  <2>2. decode_ack_gpio_access(q, a) = [d EXCEPT !.ok = @ /\ a.good]
    BY <2>1 DEF decode_ack_gpio_access
  <2> QED
    BY <2>1, <2>2, DecodeGoodIs DEF Decoded
<1>3. Decoded(q, a, "ping", decode_ack_ping(q, a)) /\ Decoded(q, a, "status", decode_ack_get_status(q, a))
  BY DecodeAckIs DEF Decoded, decode_ack_ping, decode_ack_get_status
<1> QED
  BY <1>1, <1>2, <1>3

\* A request, its answer, and what is made of the answer
Exchanged(s, req, o) ==
  \E p \in write_req(s, req) :
    IF ~p.ok THEN o = p
    ELSE \E q \in read_ack(p.s, req.kind) :
           IF ~q.ok THEN o = q ELSE Decoded(q, Head(p.s.tty), req.kind, o)

\* The answer that is read is one.
LEMMA HeadIs ==
  ASSUME NEW s \in Links, NEW req \in Reqs, NEW p \in write_req(s, req), p.ok
  PROVE  p.s \in Links /\ p.s.tty # <<>> /\ Head(p.s.tty) \in Answers
<1>1. PICK a \in Answers : Answered(s, req, p.s, a) /\ p.s \in Links
  BY WriteReqIs DEF Static
<1>2. p.s.tty = Append(s.tty, a) /\ s.tty \in Seq(Answers)
  BY <1>1 DEF Answered, Links
<1>3. p.s.tty \in Seq(Answers) /\ p.s.tty # <<>>
  BY <1>2, AppendProperties
<1> QED
  BY <1>1, <1>3, HeadTailProperties

LEMMA SpiExchanged ==
  ASSUME NEW s \in Links, NEW req \in Reqs, req.kind = "spi",
         NEW o \in UNION {IF p.ok THEN UNION {IF q.ok THEN {decode_ack_spi_bulk(q, Head(p.s.tty))} ELSE {q} : q \in read_ack(p.s, req.kind)} ELSE {p} :
                        p \in write_req(s, req)}
  PROVE  Exchanged(s, req, o)
<1>1. PICK p \in write_req(s, req) :
        o \in (IF p.ok THEN UNION {IF q.ok THEN {decode_ack_spi_bulk(q, Head(p.s.tty))} ELSE {q} : q \in read_ack(p.s, req.kind)} ELSE {p})
  OBVIOUS
<1>2. CASE ~p.ok
  BY <1>1, <1>2 DEF Exchanged
<1>3. CASE p.ok
  <2>1. PICK q \in read_ack(p.s, req.kind) :
          o \in (IF q.ok THEN {decode_ack_spi_bulk(q, Head(p.s.tty))} ELSE {q})
    BY <1>1, <1>3
  <2>2. p.s \in Links /\ p.s.tty # <<>> /\ Head(p.s.tty) \in Answers
    BY <1>3, HeadIs
  <2>3. q \in Outs
    BY <2>2, ReadAckIs DEF Reqs
  <2>4. CASE ~q.ok
    BY <1>3, <2>1, <2>4 DEF Exchanged
  <2>5. CASE q.ok
    BY <1>3, <2>1, <2>2, <2>3, <2>5, DecodeIs DEF Exchanged
  <2> QED
    BY <2>4, <2>5
<1> QED
  BY <1>2, <1>3

\* The requests of the MCU that access no memory are exchanges as well.
LEMMA OthersExchanged ==
  ASSUME NEW s \in Links, NEW req \in Reqs
  PROVE  /\ req.kind = "gpio" =>
              \A o \in UNION {IF p.ok THEN UNION {IF q.ok THEN {decode_ack_gpio_access(q, Head(p.s.tty))} ELSE {q} : q \in read_ack(p.s, req.kind)} ELSE {p} :
                        p \in write_req(s, req)} :
                Exchanged(s, req, o)
         /\ req.kind = "ping" =>
              \A o \in UNION {IF p.ok THEN UNION {IF q.ok THEN {decode_ack_ping(q, Head(p.s.tty))} ELSE {q} : q \in read_ack(p.s, req.kind)} ELSE {p} :
                        p \in write_req(s, req)} :
                Exchanged(s, req, o)
         /\ req.kind = "status" =>
              \A o \in UNION {IF p.ok THEN UNION {IF q.ok THEN {decode_ack_get_status(q, Head(p.s.tty))} ELSE {q} : q \in read_ack(p.s, req.kind)} ELSE {p} :
                        p \in write_req(s, req)} :
                Exchanged(s, req, o)
<1>1. ASSUME NEW p \in write_req(s, req), p.ok, NEW q \in read_ack(p.s, req.kind)
      PROVE  q \in Outs /\ Head(p.s.tty) \in Answers
  <2>1. p.s \in Links /\ p.s.tty # <<>> /\ Head(p.s.tty) \in Answers
    BY <1>1, HeadIs
  <2> QED
    BY <2>1, ReadAckIs DEF Reqs
<1>2. ASSUME req.kind = "gpio",
             NEW o \in UNION {IF p.ok THEN UNION {IF q.ok THEN {decode_ack_gpio_access(q, Head(p.s.tty))} ELSE {q} : q \in read_ack(p.s, req.kind)} ELSE {p} :
                        p \in write_req(s, req)}
      PROVE  Exchanged(s, req, o)
  <2>1. PICK p \in write_req(s, req) :
          o \in (IF p.ok THEN UNION {IF q.ok THEN {decode_ack_gpio_access(q, Head(p.s.tty))} ELSE {q} : q \in read_ack(p.s, req.kind)} ELSE {p})
    BY <1>2
  <2>2. CASE ~p.ok
    BY <2>1, <2>2 DEF Exchanged
  <2>3. CASE p.ok
    <3>1. PICK q \in read_ack(p.s, req.kind) :
            o \in (IF q.ok THEN {decode_ack_gpio_access(q, Head(p.s.tty))} ELSE {q})
      BY <2>1, <2>3
    <3> QED
      BY <1>1, <1>2, <2>3, <3>1, DecodeIs DEF Exchanged
  <2> QED
    BY <2>2, <2>3
<1>3. ASSUME req.kind = "ping",
             NEW o \in UNION {IF p.ok THEN UNION {IF q.ok THEN {decode_ack_ping(q, Head(p.s.tty))} ELSE {q} : q \in read_ack(p.s, req.kind)} ELSE {p} :
                        p \in write_req(s, req)}
      PROVE  Exchanged(s, req, o)
  <2>1. PICK p \in write_req(s, req) :
          o \in (IF p.ok THEN UNION {IF q.ok THEN {decode_ack_ping(q, Head(p.s.tty))} ELSE {q} : q \in read_ack(p.s, req.kind)} ELSE {p})
    BY <1>3
  <2>2. CASE ~p.ok
    BY <2>1, <2>2 DEF Exchanged
  <2>3. CASE p.ok
    <3>1. PICK q \in read_ack(p.s, req.kind) :
            o \in (IF q.ok THEN {decode_ack_ping(q, Head(p.s.tty))} ELSE {q})
      BY <2>1, <2>3
    <3> QED
      BY <1>1, <1>3, <2>3, <3>1, DecodeIs DEF Exchanged
  <2> QED
    BY <2>2, <2>3
<1>4. ASSUME req.kind = "status",
             NEW o \in UNION {IF p.ok THEN UNION {IF q.ok THEN {decode_ack_get_status(q, Head(p.s.tty))} ELSE {q} : q \in read_ack(p.s, req.kind)} ELSE {p} :
                        p \in write_req(s, req)}
      PROVE  Exchanged(s, req, o)
  <2>1. PICK p \in write_req(s, req) :
          o \in (IF p.ok THEN UNION {IF q.ok THEN {decode_ack_get_status(q, Head(p.s.tty))} ELSE {q} : q \in read_ack(p.s, req.kind)} ELSE {p})
    BY <1>4
  <2>2. CASE ~p.ok
    BY <2>1, <2>2 DEF Exchanged
  <2>3. CASE p.ok
    <3>1. PICK q \in read_ack(p.s, req.kind) :
            o \in (IF q.ok THEN {decode_ack_get_status(q, Head(p.s.tty))} ELSE {q})
      BY <2>1, <2>3
    <3> QED
      BY <1>1, <1>4, <2>3, <3>1, DecodeIs DEF Exchanged
  <2> QED
    BY <2>2, <2>3
<1> QED
  BY <1>2, <1>3, <1>4

\* What a request does: nothing but its accesses.  In a link without stale answers the
\* answer is its own; and a ping tells whether there are any, because no stale answer is
\* one to a ping.
LEMMA ExchangedIs ==
  ASSUME NEW s \in Links, NEW req \in Reqs, NEW o, Exchanged(s, req, o)
  PROVE  /\ o \in Outs /\ Static(s, o.s) /\ (o.ok => s.alive /\ o.s.alive)
         /\ Sync(s) => Sync(o.s)
         /\ Sync(s) /\ req.kind # "gpio" => o.s.mem \in {s.mem, AllAccessed(s.mem, req.ops)}
         /\ Sync(s) /\ req.kind = "spi" =>
              /\ o.ok => o.s.mem = AllAccessed(s.mem, req.ops) /\ o.val = FirstRead(s.mem, req.ops)
         /\ req.kind = "ping" /\ s.tty \in Seq(Late) /\ o.ok => Sync(o.s)
<1>1. PICK p \in write_req(s, req) :
        IF ~p.ok THEN o = p
        ELSE \E q \in read_ack(p.s, req.kind) :
               IF ~q.ok THEN o = q ELSE Decoded(q, Head(p.s.tty), req.kind, o)
  BY DEF Exchanged
<1>2. CASE ~p.ok
  <2>1. o \in Outs /\ Static(s, o.s) /\ ~o.ok /\ ~o.s.alive /\ o.s.mem = s.mem
    BY <1>1, <1>2, WriteReqIs
  <2> QED
    BY <2>1 DEF Sync
<1>3. CASE p.ok
  <2>1. PICK a \in Answers : Answered(s, req, p.s, a) /\ s.alive /\ Static(s, p.s)
    BY <1>3, WriteReqIs
  <2>2. PICK q \in read_ack(p.s, req.kind) : IF ~q.ok THEN o = q ELSE Decoded(q, Head(p.s.tty), req.kind, o)
    BY <1>1, <1>3
  <2>3. p.s \in Links /\ p.s.tty # <<>> /\ Head(p.s.tty) \in Answers /\ req.kind \in MsgKinds \ {"rest"}
    BY <1>3, HeadIs DEF Reqs
  <2>4. /\ q \in Outs /\ Static(p.s, q.s) /\ q.s.mem = p.s.mem
        /\ q.ok => q.s.alive /\ q.s.tty = Tail(p.s.tty)
        /\ q.ok => Head(p.s.tty).kind # "rest" /\ AnswerSize[Head(p.s.tty).kind] <= AnswerSize[req.kind]
        /\ ~q.ok /\ Head(p.s.tty).kind = req.kind => ~q.s.alive
    BY <2>3, ReadAckIs
  <2>5. o \in Outs /\ o.s = q.s /\ (o.ok => q.ok) /\ Static(s, o.s)
    BY <2>1, <2>2, <2>4, StaticTwice DEF Decoded
  <2>6. p.s.tty = Append(s.tty, a) /\ s.tty \in Seq(Answers)
    BY <2>1 DEF Answered, Links
  <2>7. CASE s.tty = <<>>
    <3>1. Head(p.s.tty) = a /\ Tail(p.s.tty) = <<>> /\ a.kind = req.kind
      BY <2>1, <2>6, <2>7 DEF Answered
    <3>2. Sync(o.s)
      BY <2>4, <2>5, <3>1 DEF Sync
    <3>3. req.kind # "gpio" => o.s.mem \in {s.mem, AllAccessed(s.mem, req.ops)}
      BY <2>1, <2>4, <2>5 DEF Answered
    <3>4. req.kind = "spi" /\ o.ok => o.s.mem = AllAccessed(s.mem, req.ops) /\ o.val = FirstRead(s.mem, req.ops)
      <4>1. ASSUME req.kind = "spi", o.ok PROVE a.good /\ o.val = a.val
        BY <2>2, <2>4, <2>5, <3>1, <4>1 DEF Decoded
      <4> QED
        BY <2>1, <2>4, <2>5, <4>1 DEF Answered
    <3> QED
      BY <2>1, <2>4, <2>5, <3>2, <3>3, <3>4
  <2>8. CASE s.tty # <<>>
    <3>1. ~Sync(s)
      BY <2>1, <2>8 DEF Sync
    <3>2. ASSUME req.kind = "ping", s.tty \in Seq(Late) PROVE ~o.ok
      <4>1. Head(p.s.tty) = Head(s.tty)
        BY <2>6, <2>8
      <4>2. Head(s.tty) \in Late
        BY <2>8, <3>2, HeadTailProperties
      <4>3. Head(p.s.tty).kind # req.kind
        BY <3>2, <4>1, <4>2 DEF Late
      <4> QED
        BY <2>2, <4>3 DEF Decoded
    <3> QED
      BY <2>1, <2>4, <2>5, <3>1, <3>2
  <2> QED
    BY <2>7, <2>8
<1> QED
  BY <1>2, <1>3

\* Requests of the four kinds
LEMMA SpiWriteIs ==
  ASSUME NEW s \in Links, NEW ops \in Seq(Ops), NEW o \in mcu_spi_write(s, ops)
  PROVE  /\ o \in Outs /\ Static(s, o.s) /\ (o.ok => s.alive /\ o.s.alive)
         /\ Sync(s) =>
              /\ Sync(o.s)
              /\ o.s.mem \in {s.mem, AllAccessed(s.mem, ops)}
              /\ o.ok => o.s.mem = AllAccessed(s.mem, ops) /\ o.val = FirstRead(s.mem, ops)
<1>1. PICK req \in Reqs : req = [kind |-> "spi", ops |-> ops] /\ req.kind = "spi" /\ req.ops = ops
  <2>1. [kind |-> "spi", ops |-> ops] \in Reqs
    BY DEF Reqs, MsgKinds
  <2> QED
    BY <2>1
<1>2. o \in UNION {IF p.ok THEN UNION {IF q.ok THEN {decode_ack_spi_bulk(q, Head(p.s.tty))} ELSE {q} : q \in read_ack(p.s, req.kind)} ELSE {p} :
                        p \in write_req(s, req)}
  BY <1>1 DEF mcu_spi_write, Exchange, AndThen, Then
<1>3. Exchanged(s, req, o)
  BY <1>1, <1>2, SpiExchanged
<1> QED
  BY <1>1, <1>3, ExchangedIs

LEMMA OtherRequests ==
  ASSUME NEW s \in Links, NEW o \in mcu_ping(s) \cup mcu_get_status(s) \cup mcu_gpio_write(s)
  PROVE  /\ o \in Outs /\ Static(s, o.s) /\ (o.ok => s.alive /\ o.s.alive)
         /\ Sync(s) => Sync(o.s)
         /\ o \in mcu_ping(s) /\ s.tty \in Seq(Late) /\ o.ok => Sync(o.s)
         /\ o \in mcu_get_status(s) /\ Sync(s) => o.s.mem = s.mem
<1>1. ASSUME NEW kind \in {"ping", "status", "gpio"}
      PROVE  Request(kind) \in Reqs /\ Request(kind).kind = kind
  BY EmptySeq DEF Request, Reqs, MsgKinds
<1>2. ASSUME NEW kind \in {"ping", "status", "gpio"} PROVE AllAccessed(s.mem, Request(kind).ops) = s.mem
  BY NoAccess DEF Request, Links
<1>3. ASSUME o \in mcu_ping(s)
      PROVE  /\ o \in Outs /\ Static(s, o.s) /\ (o.ok => s.alive /\ o.s.alive) /\ (Sync(s) => Sync(o.s))
             /\ s.tty \in Seq(Late) /\ o.ok => Sync(o.s)
  <2>1. PICK req \in Reqs : req = Request("ping") /\ req.kind = "ping"
    BY <1>1
  <2>2. o \in UNION {IF p.ok THEN UNION {IF q.ok THEN {decode_ack_ping(q, Head(p.s.tty))} ELSE {q} : q \in read_ack(p.s, req.kind)} ELSE {p} :
                        p \in write_req(s, req)}
    BY <1>3, <2>1 DEF mcu_ping, Exchange, AndThen, Then
  <2>3. Exchanged(s, req, o)
    BY <2>1, <2>2, OthersExchanged
  <2> QED
    BY <2>1, <2>3, ExchangedIs
<1>4. CASE o \in mcu_get_status(s)
  <2>1. PICK req \in Reqs : req = Request("status") /\ req.kind = "status"
    BY <1>1
  <2>2. o \in UNION {IF p.ok THEN UNION {IF q.ok THEN {decode_ack_get_status(q, Head(p.s.tty))} ELSE {q} : q \in read_ack(p.s, req.kind)} ELSE {p} :
                        p \in write_req(s, req)}
    BY <1>4, <2>1 DEF mcu_get_status, Exchange, AndThen, Then
  <2>3. Exchanged(s, req, o)
    BY <2>1, <2>2, OthersExchanged
  <2>4. Sync(s) => o.s.mem = s.mem
    BY <1>2, <2>1, <2>3, ExchangedIs
  <2>5. ASSUME o \in mcu_ping(s), s.tty \in Seq(Late), o.ok PROVE Sync(o.s)
    BY <1>3, <2>5
  <2> QED
    BY <1>4, <2>1, <2>3, <2>4, <2>5, ExchangedIs
<1>5. CASE o \in mcu_gpio_write(s) /\ o \notin mcu_ping(s) /\ o \notin mcu_get_status(s)
  <2>1. PICK req \in Reqs : req = Request("gpio") /\ req.kind = "gpio"
    BY <1>1
  <2>2. o \in UNION {IF p.ok THEN UNION {IF q.ok THEN {decode_ack_gpio_access(q, Head(p.s.tty))} ELSE {q} : q \in read_ack(p.s, req.kind)} ELSE {p} :
                        p \in write_req(s, req)}
    BY <1>5, <2>1 DEF mcu_gpio_write, Exchange, AndThen, Then
  <2>3. Exchanged(s, req, o)
    BY <2>1, <2>2, OthersExchanged
  <2> QED
    BY <1>5, <2>1, <2>3, ExchangedIs
<1> QED
  BY <1>4, <1>5, <1>3

-----------------------------------------------------------------------------
(* One access to the memory behind the link                                *)

\* An open link: over USB the answer that comes next is the one to the next request.
Ready(s) == s.type = "SPI" \/ (s.type = "USB" /\ Sync(s))

\* The access was made at once, or something failed; no other address changed.
Did(s, o, op) ==
  /\ o \in Outs /\ Static(s, o.s) /\ Ready(o.s)
  /\ \A x \in Addresses \ {op.addr} : o.s.mem[x] = s.mem[x]
  /\ op.kind = "r" => o.s.mem = s.mem /\ (o.ok => o.val = s.mem[op.addr])
  /\ o.ok => o.s.mem = Accessed(s.mem, op)

\* Operations that fail leave a link of the same type.
Sane(o) == o \in Outs /\ Ready(o.s)

WriteOp(addr, v) == [kind |-> "w", addr |-> addr, val |-> v]
FieldOp(addr, field, v) == [kind |-> "rmw", addr |-> addr, field |-> field, val |-> v]
ReadOp(addr) == [kind |-> "r", addr |-> addr]

LEMMA OpsAre ==
  ASSUME NEW addr \in Addresses
  PROVE  /\ \A v \in Bytes : WriteOp(addr, v) \in Ops
         /\ \A field \in 1 .. 2, v \in Vals : FieldOp(addr, field, v) \in Ops
         /\ ReadOp(addr) \in Ops
  BY DEF WriteOp, FieldOp, ReadOp, Ops

LEMMA ReadHarmless ==
  ASSUME NEW m, NEW op, op.kind = "r"
  PROVE  Accessed(m, op) = m
  BY DEF Accessed

LEMMA UnionOrIf ==
  ASSUME NEW o, NEW G, NEW c \in BOOLEAN, NEW A, o \in G \cup (IF c THEN A ELSE {})
  PROVE  o \in G \/ (c /\ o \in A)
  OBVIOUS

LEMMA TransferIs ==
  ASSUME NEW s \in Links, NEW op \in Ops, NEW o \in Transfer(s, op)
  PROVE  /\ o \in Outs /\ Static(s, o.s) /\ (~o.ok => o.s.mem = s.mem)
         /\ o.ok => o.s.mem = Accessed(s.mem, op) /\ o.val = s.mem[op.addr]
         /\ s.type = "SPI" => Did(s, o, op)
<1>1. PICK m \in Mems : m = Accessed(s.mem, op)
  BY AccessedIs DEF Links
<1>2. PICK v \in Bytes : v = s.mem[op.addr]
  BY AccessedIs DEF Links, Mems
<1>3. PICK G, x : G = UNION {Fails(t) : t \in Gone(s)} /\ x = [s |-> [s EXCEPT !.mem = m], ok |-> TRUE, val |-> v]
  OBVIOUS
<1>4. Transfer(s, op) = G \cup (IF s.alive THEN {x} ELSE {})
  BY <1>1, <1>2, <1>3 DEF Transfer, Links
<1>5. CASE \E t \in Gone(s) : o \in Fails(t)
  <2>1. PICK t \in Gone(s) : o \in Fails(t)
    BY <1>5
  <2>2. Static(s, t) /\ t.mem = s.mem /\ t \in Links
    BY GoneIs DEF Static
  <2>3. o \in Outs /\ o.s = t /\ ~o.ok
    BY <2>1, <2>2, OutcomeIs
  <2>4. s.type = "SPI" => Ready(t)
    BY <2>2 DEF Static, Ready
  <2> QED
    BY <2>2, <2>3, <2>4 DEF Did
<1>6. CASE o = x
  <2>1. o \in Outs /\ Static(s, o.s) /\ o.ok /\ o.s.mem = m /\ o.val = v
    BY <1>3, <1>6 DEF Outs, Links, Static
  <2>2. s.type = "SPI" => Ready(o.s)
    BY <2>1 DEF Static, Ready
  <2>3. \A y \in Addresses \ {op.addr} : o.s.mem[y] = s.mem[y]
    BY <1>1, <2>1, AccessedIs DEF Links
  <2>4. op.kind = "r" => m = s.mem
    BY <1>1, ReadHarmless
  <2> QED
    BY <1>1, <1>2, <2>1, <2>2, <2>3, <2>4 DEF Did
<1>7. o \in G \/ (s.alive /\ o \in {x})
  BY <1>4, UnionOrIf DEF Links
<1> QED
  BY <1>3, <1>5, <1>6, <1>7

LEMMA DirectUsb ==
  ASSUME NEW s \in Links, s.type = "USB", Sync(s), NEW op \in Ops, NEW o \in mcu_spi_write(s, <<op>>)
  PROVE  Did(s, o, op)
<1>1. <<op>> \in Seq(Ops) /\ AllAccessed(s.mem, <<op>>) = Accessed(s.mem, op)
  BY OneAccess DEF Links
<1>2. PICK ops \in Seq(Ops) : ops = <<op>>
  BY <1>1
<1>3. FirstRead(s.mem, ops) = s.mem[op.addr]
  BY <1>2 DEF FirstRead
<1>4. /\ o \in Outs /\ Static(s, o.s) /\ Sync(o.s)
      /\ o.s.mem \in {s.mem, Accessed(s.mem, op)}
      /\ o.ok => o.s.mem = Accessed(s.mem, op) /\ o.val = s.mem[op.addr]
  BY <1>1, <1>2, <1>3, SpiWriteIs
<1>5. Ready(o.s)
  BY <1>4 DEF Static, Ready
<1>6. \A y \in Addresses \ {op.addr} : o.s.mem[y] = s.mem[y]
  BY <1>4, AccessedIs DEF Links
<1>7. op.kind = "r" => o.s.mem = s.mem
  BY <1>4, ReadHarmless
<1> QED
  BY <1>4, <1>5, <1>6, <1>7 DEF Did

\* What a request of the USB driver does: stored in bulk mode, sent at once otherwise.
LEMMA UsbRequestIs ==
  ASSUME NEW s \in Links, s.type = "USB", Sync(s), NEW op \in Ops, NEW o \in UsbRequest(s, op), s.mode # "bulk"
  PROVE  Did(s, o, op)
<1>1. o \in mcu_spi_write(s, <<op>>)
  BY DEF UsbRequest
<1> QED
  BY <1>1, DirectUsb

\* The request is the last of the buffer, unless it was full.
LastStored(s, o, op) ==
  /\ Sane(o) /\ o.s.type = "USB"
  /\ o.ok => /\ Len(s.bulk) # MaxReqs
             /\ o.s.bulk = Append(s.bulk, op) /\ o.s.mem = s.mem
             /\ o.s.mode = s.mode /\ o.s.mode61 = s.mode61

\* Only the count of the requests changed.
LEMMA NbCountedIs ==
  ASSUME NEW s \in Links, NEW n \in Nat, NEW t, t = [s EXCEPT !.nb = n] \/ t = [s EXCEPT !.nb61 = n]
  PROVE  /\ t \in Links /\ t.type = s.type /\ t.tty = s.tty /\ t.alive = s.alive
         /\ t.bulk = s.bulk /\ t.mem = s.mem /\ t.mode = s.mode /\ t.mode61 = s.mode61
<1>1. CASE t = [s EXCEPT !.nb = n]
  BY <1>1 DEF Links
<1>2. CASE t = [s EXCEPT !.nb61 = n]
  BY <1>2 DEF Links
<1> QED
  BY <1>1, <1>2

LEMMA StoredIs ==
  ASSUME NEW s \in Links, s.type = "USB", Sync(s), NEW op \in Ops, NEW p \in mcu_spi_store(s, op),
         NEW n \in Nat, NEW o, NEW t, o = [p EXCEPT !.s = t],
         t = [p.s EXCEPT !.nb = n] \/ t = [p.s EXCEPT !.nb61 = n]
  PROVE  LastStored(s, o, op)
<1>1. PICK more \in Seq(Ops) : more = Append(s.bulk, op)
  BY AppendProperties DEF Links
<1>2. CASE Len(s.bulk) = MaxReqs
  <2>1. p \in Outs /\ p.s = s /\ ~p.ok
    BY <1>2, OutcomeIs DEF mcu_spi_store, spi_req_bulk_insert
  <2>2. t \in Links /\ t.type = s.type /\ t.tty = s.tty /\ t.alive = s.alive
    BY <2>1, NbCountedIs
  <2>3. o \in Outs /\ o.s = t /\ ~o.ok
    BY <2>1, <2>2 DEF Outs
  <2> QED
    BY <2>2, <2>3 DEF LastStored, Sane, Ready, Sync
<1>3. CASE Len(s.bulk) # MaxReqs
  <2>0. PICK u \in Links : u = [s EXCEPT !.bulk = more]
    BY DEF Links
  <2>1. p \in Outs /\ p.s = u /\ p.ok
    BY <1>1, <1>3, <2>0, OutcomeIs DEF mcu_spi_store, spi_req_bulk_insert
  <2>2. /\ u.type = s.type /\ u.tty = s.tty /\ u.alive = s.alive
        /\ u.bulk = more /\ u.mem = s.mem /\ u.mode = s.mode /\ u.mode61 = s.mode61
    BY <2>0 DEF Links
  <2>3. /\ t \in Links /\ t.type = s.type /\ t.tty = s.tty /\ t.alive = s.alive
        /\ t.bulk = more /\ t.mem = s.mem /\ t.mode = s.mode /\ t.mode61 = s.mode61
    BY <2>1, <2>2, NbCountedIs
  <2>4. o \in Outs /\ o.s = t /\ o.ok
    BY <2>1, <2>3 DEF Outs
  <2> QED
    BY <1>1, <1>3, <2>3, <2>4 DEF LastStored, Sane, Ready, Sync
<1> QED
  BY <1>2, <1>3

\* The counts are as they were before the request is counted.
LEMMA StoreCountsIs ==
  ASSUME NEW s \in Links, NEW op \in Ops, NEW p \in mcu_spi_store(s, op)
  PROVE  p \in Outs /\ p.s.nb = s.nb /\ p.s.nb61 = s.nb61
<1>1. PICK more \in Seq(Ops) : more = Append(s.bulk, op)
  BY AppendProperties DEF Links
<1>2. CASE Len(s.bulk) = MaxReqs
  BY <1>2, OutcomeIs DEF mcu_spi_store, spi_req_bulk_insert
<1>3. CASE Len(s.bulk) # MaxReqs
  <2>0. PICK u \in Links : u = [s EXCEPT !.bulk = more]
    BY DEF Links
  <2>1. u.nb = s.nb /\ u.nb61 = s.nb61
    BY <2>0 DEF Links
  <2> QED
    BY <1>1, <1>3, <2>0, <2>1, OutcomeIs DEF mcu_spi_store, spi_req_bulk_insert
<1> QED
  BY <1>2, <1>3

LEMMA CountIs ==
  ASSUME NEW n \in Nat
  PROVE  /\ (n + 1) % NbMod \in Nat
         /\ n < MaxReqs => (n + 1) % NbMod = n + 1
<1>1. MaxReqs \in Nat /\ NbMod = MaxReqs + 1
  BY LinkAssumption DEF NbMod
<1>2. (n + 1) % NbMod \in 0 .. NbMod - 1
  BY <1>1
<1> QED
  BY <1>1, <1>2

LEMMA UsbKeptIs ==
  ASSUME NEW s \in Links, s.type = "USB", Sync(s), NEW op \in Ops, NEW o \in UsbRequest(s, op), s.mode = "bulk"
  PROVE  LastStored(s, o, op) /\ (o.ok => o.s.nb = (s.nb + 1) % NbMod /\ o.s.nb61 = s.nb61)
<1>1. PICK p \in mcu_spi_store(s, op) : o = [p EXCEPT !.s.nb = (@ + 1) % NbMod]
  BY DEF UsbRequest
<1>2. s.nb \in Nat
  BY DEF Links
<1>3. PICK n \in Nat : n = (s.nb + 1) % NbMod
  BY <1>2, CountIs
<1>4. p \in Outs /\ p.s.nb = s.nb /\ p.s.nb61 = s.nb61
  BY StoreCountsIs
<1>5. PICK t \in Links : t = [p.s EXCEPT !.nb = n]
  BY <1>4 DEF Outs, Links
<1>7. t.nb = n /\ t.nb61 = s.nb61
  BY <1>4, <1>5 DEF Outs, Links
<1>6. o = [p EXCEPT !.s = t] /\ o.s = t
  BY <1>1, <1>3, <1>4, <1>5 DEF Outs
<1> QED
  BY <1>3, <1>5, <1>6, <1>7, StoredIs

LEMMA DispatchIs ==
  ASSUME NEW s, NEW spi, NEW usb
  PROVE  /\ s.type = "SPI" => Dispatch(s, spi, usb) = spi
         /\ s.type = "USB" => Dispatch(s, spi, usb) = usb
         /\ s.type \notin {"SPI", "USB"} => Dispatch(s, spi, usb) = Fails(s)
  BY DEF Dispatch

\* A byte written: the driver's request or transfer
LEMMA ComWriteIs ==
  ASSUME NEW s \in Links, Ready(s), NEW addr \in Addresses, NEW v \in Bytes,
         NEW o \in lgw_com_w(s, addr, v) \cup lgw_com_wb(s, addr, v)
  PROVE  /\ s.type = "SPI" \/ s.mode # "bulk" => Did(s, o, WriteOp(addr, v))
         /\ s.type = "USB" => o \in UsbRequest(s, WriteOp(addr, v))
<1>0. WriteOp(addr, v) \in Ops
  BY OpsAre
<1>1. CASE s.type = "SPI"
  <2>1. o \in Transfer(s, WriteOp(addr, v))
    BY <1>1, DispatchIs DEF lgw_com_w, lgw_com_wb, lgw_spi_w, lgw_spi_wb, WriteOp
  <2> QED
    BY <1>0, <1>1, <2>1, TransferIs
<1>2. CASE s.type = "USB"
  <2>1. o \in UsbRequest(s, WriteOp(addr, v))
    BY <1>2, DispatchIs DEF lgw_com_w, lgw_com_wb, lgw_usb_w, lgw_usb_wb, WriteOp
  <2> QED
    BY <1>0, <1>2, <2>1, UsbRequestIs DEF Ready
<1> QED
  BY <1>1, <1>2 DEF Ready

LEMMA ComReadIs ==
  ASSUME NEW s \in Links, Ready(s), NEW addr \in Addresses,
         NEW o \in lgw_com_r(s, addr) \cup lgw_com_rb(s, addr)
  PROVE  Did(s, o, ReadOp(addr))
<1>0. ReadOp(addr) \in Ops
  BY OpsAre
<1>1. CASE s.type = "SPI"
  <2>1. o \in Transfer(s, ReadOp(addr))
    BY <1>1, DispatchIs DEF lgw_com_r, lgw_com_rb, lgw_spi_r, lgw_spi_rb, ReadOp
  <2> QED
    BY <1>0, <1>1, <2>1, TransferIs
<1>2. CASE s.type = "USB"
  <2>1. o \in (IF s.mode = "bulk" THEN Fails(s) ELSE mcu_spi_write(s, <<ReadOp(addr)>>))
    BY <1>2, DispatchIs DEF lgw_com_r, lgw_com_rb, lgw_usb_r, lgw_usb_rb, ReadOp
  <2>2. CASE o \in Fails(s)
    <3>1. o \in Outs /\ o.s = s /\ ~o.ok
      BY <2>2, OutcomeIs
    <3> QED
      BY <3>1, StaticItself DEF Did
  <2>3. CASE o \in mcu_spi_write(s, <<ReadOp(addr)>>)
    BY <1>0, <1>2, <2>3, DirectUsb DEF Ready
  <2> QED
    BY <2>1, <2>2, <2>3
<1> QED
  BY <1>1, <1>2 DEF Ready

\* Writing back a byte with one of its fields changed is writing the field.
LEMMA FieldWritten ==
  ASSUME NEW m \in Mems, NEW addr \in Addresses, NEW field \in 1 .. 2, NEW v \in Vals, NEW b, b = [m[addr] EXCEPT ![field] = v]
  PROVE  b \in Bytes /\ Accessed(m, WriteOp(addr, b)) = Accessed(m, FieldOp(addr, field, v))
<1>1. b \in Bytes
  BY DEF Mems, Bytes
<1>2. Accessed(m, WriteOp(addr, b)) = [m EXCEPT ![addr] = b]
  BY DEF Accessed, WriteOp
<1>3. Accessed(m, FieldOp(addr, field, v)) = [m EXCEPT ![addr] = [m[addr] EXCEPT ![field] = v]]
  BY DEF Accessed, FieldOp, Mems
<1> QED
  BY <1>1, <1>2, <1>3

\* A read and a write of the byte at addr
ReadThenWrite(s, q, p, addr, field, v) ==
  /\ Did(s, q, ReadOp(addr))
  /\ \E b \in Bytes : Did(q.s, p, WriteOp(addr, b)) /\ (q.ok => b = [q.val EXCEPT ![field] = v])

LEMMA ReadThenWriteIs ==
  ASSUME NEW s \in Links, NEW q, NEW p, NEW addr \in Addresses, NEW field \in 1 .. 2, NEW v \in Vals,
         ReadThenWrite(s, q, p, addr, field, v),
         NEW o \in Outs, Static(p.s, o.s), o.s.mem = p.s.mem, Ready(o.s), o.ok => p.ok /\ q.ok
  PROVE  Did(s, o, FieldOp(addr, field, v))
<1>1. /\ q \in Outs /\ Static(s, q.s) /\ q.s.mem = s.mem /\ (q.ok => q.val = s.mem[addr])
  BY DEF ReadThenWrite, Did, ReadOp
<1>2. PICK b \in Bytes : Did(q.s, p, WriteOp(addr, b)) /\ (q.ok => b = [q.val EXCEPT ![field] = v])
  BY DEF ReadThenWrite
<1>3. /\ Static(q.s, p.s) /\ \A x \in Addresses \ {addr} : p.s.mem[x] = q.s.mem[x]
      /\ p.ok => p.s.mem = Accessed(q.s.mem, WriteOp(addr, b))
  BY <1>2 DEF Did, WriteOp
<1>4. Static(s, o.s)
  BY <1>1, <1>3, StaticTwice
<1>5. o.ok => o.s.mem = Accessed(s.mem, FieldOp(addr, field, v))
  BY <1>1, <1>2, <1>3, FieldWritten DEF Links
<1>6. FieldOp(addr, field, v).kind # "r" /\ FieldOp(addr, field, v).addr = addr
  BY DEF FieldOp
<1> QED
  BY <1>1, <1>3, <1>4, <1>5, <1>6 DEF Did

LEMMA SpiRmwIs ==
  ASSUME NEW s \in Links, s.type = "SPI", NEW addr \in Addresses, NEW field \in 1 .. 2, NEW v \in Vals,
         NEW o \in lgw_spi_rmw(s, addr, field, v)
  PROVE  Did(s, o, FieldOp(addr, field, v))
<1>1. PICK q \in lgw_spi_r(s, addr) :
        \E p \in lgw_spi_w(q.s, addr, [IF q.ok THEN q.val ELSE <<0, 0>> EXCEPT ![field] = v]) : o = [p EXCEPT !.ok = @ /\ q.ok]
  BY DEF lgw_spi_rmw
<1>2. PICK b : b = [IF q.ok THEN q.val ELSE <<0, 0>> EXCEPT ![field] = v]
  OBVIOUS
<1>3. PICK p \in lgw_spi_w(q.s, addr, b) : o = [p EXCEPT !.ok = @ /\ q.ok]
  BY <1>1, <1>2
<1>4. Did(s, q, ReadOp(addr))
  BY OpsAre, TransferIs DEF lgw_spi_r, ReadOp
<1>5. q \in Outs /\ q.s \in Links /\ q.s.type = "SPI" /\ q.ok \in BOOLEAN /\ q.val \in Bytes
  BY <1>4 DEF Did, Static, Outs
<1>6. b \in Bytes
  BY <1>2, <1>5, ZeroByte DEF Bytes
<1>7. Did(q.s, p, WriteOp(addr, b))
  BY <1>5, <1>6, OpsAre, TransferIs DEF lgw_spi_w, WriteOp
<1>8. p \in Outs /\ p.ok \in BOOLEAN /\ p.s \in Links /\ Ready(p.s)
  BY <1>7 DEF Did, Outs
<1>9. PICK c \in BOOLEAN : c = (p.ok /\ q.ok)
  BY <1>5, <1>8
<1>10. o \in Outs /\ o.s = p.s /\ o.ok = c
  BY <1>3, <1>8, <1>9 DEF Outs
<1>11. ReadThenWrite(s, q, p, addr, field, v)
  BY <1>2, <1>4, <1>6, <1>7 DEF ReadThenWrite
<1> QED
  BY <1>8, <1>9, <1>10, <1>11, ReadThenWriteIs, StaticItself

LEMMA ComRmwIs ==
  ASSUME NEW s \in Links, Ready(s), NEW addr \in Addresses, NEW field \in 1 .. 2, NEW v \in Vals,
         NEW o \in lgw_com_rmw(s, addr, field, v)
  PROVE  /\ s.type = "SPI" \/ s.mode # "bulk" => Did(s, o, FieldOp(addr, field, v))
         /\ s.type = "USB" => o \in UsbRequest(s, FieldOp(addr, field, v))
<1>0. FieldOp(addr, field, v) \in Ops
  BY OpsAre
<1>1. CASE s.type = "SPI"
  <2>1. o \in lgw_spi_rmw(s, addr, field, v)
    BY <1>1, DispatchIs DEF lgw_com_rmw
  <2> QED
    BY <1>1, <2>1, SpiRmwIs
<1>2. CASE s.type = "USB"
  <2>1. o \in UsbRequest(s, FieldOp(addr, field, v))
    BY <1>2, DispatchIs DEF lgw_com_rmw, lgw_usb_rmw, FieldOp
  <2> QED
    BY <1>0, <1>2, <2>1, UsbRequestIs DEF Ready
<1> QED
  BY <1>1, <1>2 DEF Ready

\* The radios: the requests are never stored.
LEMMA RadioWriteIs ==
  ASSUME NEW s \in Links, Ready(s), NEW v \in Bytes, NEW o \in sx1250_reg_w(s, v)
  PROVE  Did(s, o, WriteOp(RadioReg, v))
<1>0. WriteOp(RadioReg, v) \in Ops
  BY OpsAre, AddressesAre
<1>1. CASE s.type = "SPI"
  <2>1. o \in Transfer(s, WriteOp(RadioReg, v))
    BY <1>1, DispatchIs DEF sx1250_reg_w, sx1250_com_w, sx1250_spi_w, WriteOp
  <2> QED
    BY <1>0, <1>1, <2>1, TransferIs
<1>2. CASE s.type = "USB"
  <2>1. o \in mcu_spi_write(s, <<WriteOp(RadioReg, v)>>)
    BY <1>2, DispatchIs DEF sx1250_reg_w, sx1250_com_w, sx1250_usb_w, WriteOp
  <2> QED
    BY <1>0, <1>2, <2>1, DirectUsb DEF Ready
<1> QED
  BY <1>1, <1>2 DEF Ready

LEMMA RadioReadIs ==
  ASSUME NEW s \in Links, Ready(s), NEW o \in sx1250_reg_r(s)
  PROVE  Did(s, o, ReadOp(RadioReg))
<1>0. ReadOp(RadioReg) \in Ops
  BY OpsAre, AddressesAre
<1>1. CASE s.type = "SPI"
  <2>1. o \in Transfer(s, ReadOp(RadioReg))
    BY <1>1, DispatchIs DEF sx1250_reg_r, sx1250_com_r, sx1250_spi_r, ReadOp
  <2> QED
    BY <1>0, <1>1, <2>1, TransferIs
<1>2. CASE s.type = "USB"
  <2>1. o \in mcu_spi_write(s, <<ReadOp(RadioReg)>>)
    BY <1>2, DispatchIs DEF sx1250_reg_r, sx1250_com_r, sx1250_usb_r, ReadOp
  <2> QED
    BY <1>0, <1>2, <2>1, DirectUsb DEF Ready
<1> QED
  BY <1>1, <1>2 DEF Ready

LEMMA FailsDid ==
  ASSUME NEW s \in Links, Ready(s), NEW op, NEW o \in Fails(s)
  PROVE  Did(s, o, op)
<1>1. o \in Outs /\ o.s = s /\ ~o.ok
  BY OutcomeIs
<1> QED
  BY <1>1, StaticItself DEF Did

\* The field is changed by reading and writing the byte, then read back.
LEMMA Sx125xWriteIs ==
  ASSUME NEW s \in Links, Ready(s), NEW field \in 1 .. 2, NEW v \in Vals, NEW o \in sx125x_reg_w(s, field, v)
  PROVE  Did(s, o, FieldOp(RadioReg, field, v))
<1>0. RadioReg \in Addresses
  BY AddressesAre
<1>1. PICK q \in sx125x_com_r(s) :
        \E p \in sx125x_com_w(q.s, [q.val EXCEPT ![field] = v]) : \E r \in sx125x_reg_r(p.s) :
          o = [r EXCEPT !.ok = q.ok /\ p.ok /\ r.val[field] = v]
  <2>1. PICK q \in sx125x_com_r(s) :
          o \in UNION {{[r EXCEPT !.ok = q.ok /\ p.ok /\ r.val[field] = v] : r \in sx125x_reg_r(p.s)} :
                         p \in sx125x_com_w(q.s, [q.val EXCEPT ![field] = v])}
    BY Zenon DEF sx125x_reg_w
  <2> QED
    BY <2>1
<1>2. PICK b : b = [q.val EXCEPT ![field] = v]
  OBVIOUS
<1>3. PICK p \in sx125x_com_w(q.s, b) : \E r \in sx125x_reg_r(p.s) : o = [r EXCEPT !.ok = q.ok /\ p.ok /\ r.val[field] = v]
  BY <1>1, <1>2
<1>4. PICK r \in sx125x_reg_r(p.s) : o = [r EXCEPT !.ok = q.ok /\ p.ok /\ r.val[field] = v]
  BY <1>3
<1>5. ASSUME NEW t \in Links, Ready(t), NEW x \in sx125x_com_r(t) PROVE Did(t, x, ReadOp(RadioReg))
  <2>1. CASE t.type = "SPI"
    <3>1. x \in Transfer(t, ReadOp(RadioReg))
      BY <1>5, <2>1, DispatchIs DEF sx125x_com_r, sx125x_spi_r, ReadOp
    <3> QED
      BY <1>0, <2>1, <3>1, OpsAre, TransferIs
  <2>2. CASE t.type = "USB"
    <3>1. x \in Fails(t)
      BY <1>5, <2>2, DispatchIs DEF sx125x_com_r
    <3> QED
      BY <1>5, <3>1, FailsDid
  <2> QED
    BY <1>5, <2>1, <2>2 DEF Ready
<1>6. Did(s, q, ReadOp(RadioReg))
  BY <1>5
<1>7. q \in Outs /\ q.s \in Links /\ Ready(q.s) /\ q.ok \in BOOLEAN /\ q.val \in Bytes
  BY <1>6 DEF Did, Static, Outs
<1>8. b \in Bytes
  BY <1>2, <1>7 DEF Bytes
<1>9. Did(q.s, p, WriteOp(RadioReg, b))
  <2>1. CASE q.s.type = "SPI"
    <3>1. p \in Transfer(q.s, WriteOp(RadioReg, b))
      BY <2>1, DispatchIs DEF sx125x_com_w, sx125x_spi_w, WriteOp
    <3> QED
      BY <1>0, <1>7, <1>8, <2>1, <3>1, OpsAre, TransferIs
  <2>2. CASE q.s.type = "USB"
    <3>1. p \in Fails(q.s)
      BY <2>2, DispatchIs DEF sx125x_com_w
    <3> QED
      BY <1>7, <3>1, FailsDid
  <2> QED
    BY <1>7, <2>1, <2>2 DEF Ready
<1>10. p \in Outs /\ p.s \in Links /\ p.ok \in BOOLEAN /\ Ready(p.s)
  BY <1>9 DEF Did, Outs
<1>11. Did(p.s, r, ReadOp(RadioReg))
  BY <1>4, <1>5, <1>10 DEF sx125x_reg_r
<1>12. r \in Outs /\ Static(p.s, r.s) /\ r.s.mem = p.s.mem /\ Ready(r.s)
  BY <1>11 DEF Did, ReadOp
<1>13. PICK c \in BOOLEAN : c = (q.ok /\ p.ok /\ r.val[field] = v)
  BY <1>7, <1>10
<1>14. o \in Outs /\ o.s = r.s /\ o.ok = c
  BY <1>4, <1>12, <1>13 DEF Outs
<1>15. ReadThenWrite(s, q, p, RadioReg, field, v)
  BY <1>2, <1>6, <1>8, <1>9 DEF ReadThenWrite
<1> QED
  BY <1>0, <1>12, <1>13, <1>14, <1>15, ReadThenWriteIs

\* The SX1261 has a mode and a count of its own.
LEMMA SxWriteIs ==
  ASSUME NEW s \in Links, Ready(s), NEW v \in Bytes, NEW o \in sx1261_com_w(s, v)
  PROVE  /\ s.type = "SPI" \/ s.mode61 # "bulk" => Did(s, o, WriteOp(SxReg, v))
         /\ s.type = "USB" /\ s.mode61 = "bulk" =>
              LastStored(s, o, WriteOp(SxReg, v)) /\ (o.ok => o.s.nb61 = (s.nb61 + 1) % NbMod /\ o.s.nb = s.nb)
<1>0. WriteOp(SxReg, v) \in Ops
  BY OpsAre, AddressesAre
<1>1. CASE s.type = "SPI"
  <2>1. o \in Transfer(s, WriteOp(SxReg, v))
    BY <1>1, DispatchIs DEF sx1261_com_w, sx1261_spi_w, WriteOp
  <2> QED
    BY <1>0, <1>1, <2>1, TransferIs
<1>2. CASE s.type = "USB" /\ s.mode61 # "bulk"
  <2>1. o \in mcu_spi_write(s, <<WriteOp(SxReg, v)>>)
    BY <1>2, DispatchIs DEF sx1261_com_w, sx1261_usb_w, WriteOp
  <2> QED
    BY <1>0, <1>2, <2>1, DirectUsb DEF Ready
<1>3. CASE s.type = "USB" /\ s.mode61 = "bulk"
  <2>1. PICK p \in mcu_spi_store(s, WriteOp(SxReg, v)) : o = [p EXCEPT !.s.nb61 = (@ + 1) % NbMod]
    BY <1>3, DispatchIs DEF sx1261_com_w, sx1261_usb_w, WriteOp
  <2>2. s.nb61 \in Nat
    BY DEF Links
  <2>3. PICK n \in Nat : n = (s.nb61 + 1) % NbMod
    BY <2>2, CountIs
  <2>4. p \in Outs /\ p.s.nb = s.nb /\ p.s.nb61 = s.nb61
    BY <1>0, <2>1, StoreCountsIs
  <2>5. PICK t \in Links : t = [p.s EXCEPT !.nb61 = n]
    BY <2>4 DEF Outs, Links
  <2>6. t.nb61 = n /\ t.nb = s.nb
    BY <2>4, <2>5 DEF Outs, Links
  <2>7. o = [p EXCEPT !.s = t] /\ o.s = t
    BY <2>1, <2>3, <2>4, <2>5 DEF Outs
  <2>8. LastStored(s, o, WriteOp(SxReg, v))
    BY <1>0, <1>3, <2>1, <2>5, <2>7, StoredIs DEF Ready
  <2> QED
    BY <1>3, <2>3, <2>6, <2>7, <2>8
<1> QED
  BY <1>1, <1>2, <1>3 DEF Ready

LEMMA SxReadIs ==
  ASSUME NEW s \in Links, Ready(s), NEW o \in sx1261_com_r(s)
  PROVE  Did(s, o, ReadOp(SxReg))
<1>0. ReadOp(SxReg) \in Ops
  BY OpsAre, AddressesAre
<1>1. CASE s.type = "SPI"
  <2>1. o \in Transfer(s, ReadOp(SxReg))
    BY <1>1, DispatchIs DEF sx1261_com_r, sx1261_spi_r, ReadOp
  <2> QED
    BY <1>0, <1>1, <2>1, TransferIs
<1>2. CASE s.type = "USB"
  <2>1. o \in Fails(s) \/ o \in mcu_spi_write(s, <<ReadOp(SxReg)>>)
    BY <1>2, DispatchIs DEF sx1261_com_r, sx1261_usb_r, ReadOp
  <2> QED
    BY <1>0, <1>2, <2>1, DirectUsb, FailsDid DEF Ready
<1> QED
  BY <1>1, <1>2 DEF Ready

-----------------------------------------------------------------------------
(* The requests stored in the bulk buffer                                  *)

Nothing(s) == s.bulk = <<>> /\ s.nb = 0 /\ s.nb61 = 0 /\ s.mode = "single" /\ s.mode61 = "single"

AllAt(ops, addr) == \A n \in 1 .. Len(ops) : ops[n].addr = addr

\* Requests to the SX1302, or to the SX1261, are stored: all of them counted, and the other
\* of the two in single mode.
ForReg(s) ==
  /\ s.type = "USB" /\ s.mode = "bulk" /\ s.mode61 = "single"
  /\ s.nb = Len(s.bulk) /\ s.nb61 = 0 /\ Len(s.bulk) <= MaxReqs /\ AllAt(s.bulk, Reg)
ForSx(s) ==
  /\ s.type = "USB" /\ s.mode61 = "bulk" /\ s.mode = "single"
  /\ s.nb61 = Len(s.bulk) /\ s.nb = 0 /\ Len(s.bulk) <= MaxReqs /\ AllAt(s.bulk, SxReg)
Stored(s) == Nothing(s) \/ ForReg(s) \/ ForSx(s)

\* The memory once the stored requests are sent
Waiting(s) == AllAccessed(s.mem, s.bulk)

\* The operation did what it promises, now or once it is sent; or it failed.
Carried(s, o, op) ==
  Sane(o) /\ (o.ok => Stored(o.s) /\ Waiting(o.s) = Accessed(Waiting(s), op))

LEMMA StoredStatic ==
  ASSUME NEW s, NEW t, Static(s, t), Stored(s)
  PROVE  Stored(t)
  BY DEF Static, Stored, Nothing, ForReg, ForSx

\* An access changes its address in the same way whatever the rest of the memory holds.
LEMMA SameAccess ==
  ASSUME NEW m \in Mems, NEW q \in Mems, NEW op \in Ops, m[op.addr] = q[op.addr]
  PROVE  Accessed(m, op)[op.addr] = Accessed(q, op)[op.addr]
<1>1. PICK ops \in Seq(Ops) : ops = <<op>> /\ AllAccessed(m, ops) = Accessed(m, op) /\ AllAccessed(q, ops) = Accessed(q, op)
  BY OneAccess
<1>2. op.addr \in Addresses
  BY AccessedIs
<1>3. PICK A \in SUBSET Addresses : A = {op.addr}
  BY <1>2
<1>4. \A n \in 1 .. Len(ops) : ops[n].addr \in A
  BY <1>1, <1>3
<1>5. \A x \in A : q[x] = m[x]
  BY <1>3
<1>6. \A x \in A : AllAccessed(q, ops)[x] = AllAccessed(m, ops)[x]
  BY <1>4, <1>5, AccessesApart DEF Apart
<1> QED
  BY <1>1, <1>3, <1>6

\* An access that is made at once is made before the stored ones; they are to another
\* address, so it might as well have come after them.
LEMMA DirectIsCarried ==
  ASSUME NEW s \in Links, Stored(s), NEW op \in Ops, NEW o, Did(s, o, op),
         \A n \in 1 .. Len(s.bulk) : s.bulk[n].addr # op.addr
  PROVE  Carried(s, o, op)
<1>1. Static(s, o.s) /\ o.s.bulk = s.bulk /\ Sane(o) /\ (o.ok => o.s.mem = Accessed(s.mem, op))
  BY DEF Did, Static, Sane
<1>2. s.bulk \in Seq(Ops) /\ s.mem \in Mems /\ Accessed(s.mem, op) \in Mems /\ op.addr \in Addresses
  BY AccessedIs DEF Links
<1>3. Len(s.bulk) \in Nat /\ \A n \in 1 .. Len(s.bulk) : s.bulk[n] \in Ops
  BY <1>2, LenProperties, ElementOfSeq
<1>5. PICK A : A = {x \in Addresses : x # op.addr}
  OBVIOUS
<1>6. A \in SUBSET Addresses /\ op.addr \notin A /\ \A x \in Addresses : x \in A \/ x = op.addr
  BY <1>5
<1>7. \A n \in 1 .. Len(s.bulk) : s.bulk[n].addr \in A
  <2>1. ASSUME NEW n \in 1 .. Len(s.bulk) PROVE s.bulk[n].addr \in Addresses /\ s.bulk[n].addr # op.addr
    <3>1. s.bulk[n] \in Ops
      BY <1>3
    <3> QED
      BY <1>2, <3>1, AccessedIs
  <2> QED
    BY <1>5, <2>1
<1>8. \A x \in A : Accessed(s.mem, op)[x] = s.mem[x]
  BY <1>2, <1>5, AccessedIs
<1>9. PICK m \in Mems, q \in Mems : m = Waiting(s) /\ q = AllAccessed(Accessed(s.mem, op), s.bulk)
  BY <1>2, AllAccessedType DEF Waiting
<1>10. /\ \A x \in A : q[x] = m[x]
       /\ \A x \in Addresses \ A : m[x] = s.mem[x] /\ q[x] = Accessed(s.mem, op)[x]
  <2>1. PICK mem \in Mems, then \in Mems, bulk \in Seq(Ops) : mem = s.mem /\ then = Accessed(s.mem, op) /\ bulk = s.bulk
    BY <1>2
  <2>2. (\A n \in 1 .. Len(bulk) : bulk[n].addr \in A) /\ (\A x \in A : then[x] = mem[x])
    BY <1>7, <1>8, <2>1
  <2>0. A \in SUBSET Addresses
    BY <1>6
  <2>3. Apart(A, bulk, mem, then)
    BY <2>0, <2>2, AccessesApart
  <2> QED
    BY <1>9, <2>1, <2>3 DEF Waiting, Apart
<1>11. m[op.addr] = s.mem[op.addr] /\ q[op.addr] = Accessed(s.mem, op)[op.addr]
  BY <1>2, <1>6, <1>10
<1>12. q[op.addr] = Accessed(m, op)[op.addr]
  BY <1>2, <1>11, SameAccess
<1>13. \A x \in A : q[x] = Accessed(m, op)[x]
  BY <1>5, <1>10, AccessedIs
<1>14. q = Accessed(m, op)
  <2>1. Accessed(m, op) \in Mems
    BY AccessedIs
  <2> QED
    BY <1>6, <1>12, <1>13, <2>1 DEF Mems
<1> QED
  BY <1>1, <1>9, <1>14, StoredStatic DEF Carried, Waiting

LEMMA KeptIsCarried ==
  ASSUME NEW s \in Links, NEW op \in Ops, NEW o, LastStored(s, o, op),
         \/ ForReg(s) /\ op.addr = Reg /\ (o.ok => o.s.nb = (s.nb + 1) % NbMod /\ o.s.nb61 = s.nb61)
         \/ ForSx(s) /\ op.addr = SxReg /\ (o.ok => o.s.nb61 = (s.nb61 + 1) % NbMod /\ o.s.nb = s.nb)
  PROVE  Carried(s, o, op)
<1>1. SUFFICES ASSUME o.ok PROVE Stored(o.s) /\ Waiting(o.s) = Accessed(Waiting(s), op)
  BY DEF Carried, LastStored
<1>2. s.bulk \in Seq(Ops) /\ s.mem \in Mems
  BY DEF Links
<1>3. o.s.type = "USB" /\ o.s.bulk = Append(s.bulk, op) /\ o.s.mem = s.mem /\ Len(s.bulk) # MaxReqs
  BY <1>1 DEF LastStored
<1>4. Waiting(o.s) = Accessed(Waiting(s), op)
  BY <1>2, <1>3, OneMore DEF Waiting
<1>5. Len(s.bulk) \in Nat /\ Len(o.s.bulk) = Len(s.bulk) + 1 /\ MaxReqs \in Nat
  BY <1>2, <1>3, AppendProperties, LenProperties, LinkAssumption
<1>6. Len(s.bulk) <= MaxReqs => Len(o.s.bulk) <= MaxReqs /\ (Len(s.bulk) + 1) % NbMod = Len(o.s.bulk)
  <2>1. PICK n \in Nat : n = Len(s.bulk)
    BY <1>5
  <2>2. n < MaxReqs => (n + 1) % NbMod = n + 1
    BY CountIs
  <2> QED
    BY <1>3, <1>5, <2>1, <2>2
<1>7. AllAt(s.bulk, op.addr) => AllAt(o.s.bulk, op.addr)
  BY <1>2, <1>3, <1>5, AppendProperties DEF AllAt
<1>8. o.s.mode = s.mode /\ o.s.mode61 = s.mode61
  BY <1>1 DEF LastStored
<1>9. CASE ForReg(s) /\ op.addr = Reg /\ (o.ok => o.s.nb = (s.nb + 1) % NbMod /\ o.s.nb61 = s.nb61)
  BY <1>1, <1>3, <1>4, <1>6, <1>7, <1>8, <1>9 DEF Stored, ForReg
<1>10. CASE ForSx(s) /\ op.addr = SxReg /\ (o.ok => o.s.nb61 = (s.nb61 + 1) % NbMod /\ o.s.nb = s.nb)
  BY <1>1, <1>3, <1>4, <1>6, <1>7, <1>8, <1>10 DEF Stored, ForSx
<1> QED
  BY <1>9, <1>10

-----------------------------------------------------------------------------
(* The operations on an open link that has not failed                      *)

\* What an operation leaves: a link as good as before, and if it succeeded the memory w.
Leaves(o, w) == Sane(o) /\ (o.ok => Stored(o.s) /\ Waiting(o.s) = w)

LEMMA CarriedLeaves ==
  ASSUME NEW s, NEW o, NEW op, Carried(s, o, op)
  PROVE  Leaves(o, Accessed(Waiting(s), op))
  BY DEF Carried, Leaves

LEMMA ReadLeaves ==
  ASSUME NEW s \in Links, Stored(s), NEW op, op.kind = "r", NEW o, Did(s, o, op)
  PROVE  Leaves(o, Waiting(s)) /\ o.s.mem = s.mem /\ (o.ok => o.val = s.mem[op.addr])
<1>1. Static(s, o.s) /\ o.s.bulk = s.bulk /\ o.s.mem = s.mem /\ Sane(o) /\ (o.ok => o.val = s.mem[op.addr])
  BY DEF Did, Static, Sane
<1> QED
  BY <1>1, StoredStatic DEF Leaves, Waiting

RegOp(field, v) == IF field = 0 THEN WriteOp(Reg, <<v, v>>) ELSE FieldOp(Reg, field, v)

LEMMA RegOpIs ==
  ASSUME NEW field \in 0 .. 1, NEW v \in Vals
  PROVE  /\ RegOp(field, v) \in Ops /\ RegOp(field, v).addr = Reg /\ <<v, v>> \in Bytes
         /\ \A m \in Mems : Accessed(m, RegOp(field, v)) =
              IF field = 0 THEN [m EXCEPT ![Reg] = <<v, v>>] ELSE [m EXCEPT ![Reg][field] = v]
<1>1. <<v, v>> \in Bytes /\ Reg \in Addresses
  BY Pair, AddressesAre
<1>2. CASE field = 0
  <2>1. RegOp(field, v) = WriteOp(Reg, <<v, v>>)
    BY <1>2 DEF RegOp
  <2> QED
    BY <1>1, <1>2, <2>1, OpsAre DEF WriteOp, Accessed
<1>3. CASE field # 0
  <2>1. RegOp(field, v) = FieldOp(Reg, field, v) /\ field \in 1 .. 2
    BY <1>3 DEF RegOp
  <2>2. RegOp(field, v) \in Ops
    BY <1>1, <2>1, OpsAre
  <2> QED
    BY <1>1, <1>3, <2>1, <2>2 DEF FieldOp, Accessed
<1> QED
  BY <1>2, <1>3

LEMMA RegWriteIs ==
  ASSUME NEW s \in Links, Ready(s), NEW field \in 0 .. 1, NEW v \in Vals, NEW o \in lgw_reg_w(s, field, v)
  PROVE  /\ s.type = "SPI" \/ s.mode # "bulk" => Did(s, o, RegOp(field, v))
         /\ s.type = "USB" => o \in UsbRequest(s, RegOp(field, v))
<1>1. <<v, v>> \in Bytes /\ Reg \in Addresses
  BY Pair, AddressesAre
<1>2. CASE field = 0
  <2>1. o \in lgw_com_w(s, Reg, <<v, v>>)
    BY <1>2 DEF lgw_reg_w, reg_w
  <2> QED
    BY <1>1, <1>2, <2>1, ComWriteIs DEF RegOp
<1>3. CASE field # 0
  <2>1. o \in lgw_com_rmw(s, Reg, field, v) /\ field \in 1 .. 2
    BY <1>3 DEF lgw_reg_w, reg_w
  <2> QED
    BY <1>1, <1>3, <2>1, ComRmwIs DEF RegOp
<1> QED
  BY <1>2, <1>3

\* A request to the register, sent or stored
LEMMA RegCarried ==
  ASSUME NEW s \in Links, Ready(s), Stored(s), NEW op \in Ops, op.addr = Reg, NEW o,
         s.type = "SPI" \/ s.mode # "bulk" => Did(s, o, op),
         s.type = "USB" => o \in UsbRequest(s, op)
  PROVE  Leaves(o, Accessed(Waiting(s), op))
<1>1. CASE s.type = "SPI" \/ s.mode # "bulk"
  <2>1. \A n \in 1 .. Len(s.bulk) : s.bulk[n].addr # op.addr
    <3>1. CASE Nothing(s)
      BY <3>1 DEF Nothing
    <3>2. CASE ForSx(s)
      BY <3>2, AddressesAre DEF ForSx, AllAt
    <3>3. ~ForReg(s)
      BY <1>1 DEF ForReg
    <3> QED
      BY <3>1, <3>2, <3>3 DEF Stored
  <2> QED
    BY <1>1, <2>1, DirectIsCarried, CarriedLeaves
<1>2. CASE s.type = "USB" /\ s.mode = "bulk"
  <2>1. ForReg(s)
    BY <1>2 DEF Stored, Nothing, ForSx
  <2>2. LastStored(s, o, op) /\ (o.ok => o.s.nb = (s.nb + 1) % NbMod /\ o.s.nb61 = s.nb61)
    BY <1>2, UsbKeptIs DEF Ready
  <2> QED
    BY <2>1, <2>2, KeptIsCarried, CarriedLeaves
<1> QED
  BY <1>1, <1>2 DEF Ready

LEMMA WriteRegisterLeaves ==
  ASSUME NEW s \in Links, Ready(s), Stored(s), NEW field \in 0 .. 1, NEW v \in Vals, NEW o \in lgw_reg_w(s, field, v)
  PROVE  Leaves(o, Accessed(Waiting(s), RegOp(field, v)))
<1>1. RegOp(field, v) \in Ops /\ RegOp(field, v).addr = Reg
  BY RegOpIs
<1>2. /\ s.type = "SPI" \/ s.mode # "bulk" => Did(s, o, RegOp(field, v))
      /\ s.type = "USB" => o \in UsbRequest(s, RegOp(field, v))
  BY RegWriteIs
<1> QED
  BY <1>1, <1>2, RegCarried

LEMMA WriteBurstLeaves ==
  ASSUME NEW s \in Links, Ready(s), Stored(s), NEW v \in Vals, NEW o \in lgw_reg_wb(s, v)
  PROVE  Leaves(o, Accessed(Waiting(s), RegOp(0, v)))
<1>1. RegOp(0, v) \in Ops /\ RegOp(0, v).addr = Reg /\ RegOp(0, v) = WriteOp(Reg, <<v, v>>) /\ <<v, v>> \in Bytes
  BY RegOpIs DEF RegOp
<1>2. o \in lgw_com_wb(s, Reg, <<v, v>>)
  BY DEF lgw_reg_wb
<1>3. /\ s.type = "SPI" \/ s.mode # "bulk" => Did(s, o, RegOp(0, v))
      /\ s.type = "USB" => o \in UsbRequest(s, RegOp(0, v))
  BY <1>1, <1>2, AddressesAre, ComWriteIs
<1> QED
  BY <1>1, <1>3, RegCarried

LEMMA ReadRegisterLeaves ==
  ASSUME NEW s \in Links, Ready(s), Stored(s), NEW o \in lgw_reg_r(s) \cup lgw_reg_rb(s)
  PROVE  Leaves(o, Waiting(s)) /\ (o.ok => o.val = o.s.mem[Reg])
<1>1. o \in lgw_com_r(s, Reg) \cup lgw_com_rb(s, Reg)
  BY DEF lgw_reg_r, reg_r, lgw_reg_rb
<1>2. Did(s, o, ReadOp(Reg))
  BY <1>1, AddressesAre, ComReadIs
<1> QED
  BY <1>2, ReadLeaves DEF ReadOp

\* An access to an address no stored request is to
LEMMA ApartLeaves ==
  ASSUME NEW s \in Links, Stored(s), NEW op \in Ops, NEW o, Did(s, o, op),
         op.addr # Reg, op.addr # SxReg \/ s.mode61 # "bulk" \/ s.type = "SPI"
  PROVE  Leaves(o, Accessed(Waiting(s), op))
<1>1. \A n \in 1 .. Len(s.bulk) : s.bulk[n].addr # op.addr
  <2>1. CASE Nothing(s)
    BY <2>1 DEF Nothing
  <2>2. CASE ForReg(s)
    BY <2>2 DEF ForReg, AllAt
  <2>3. CASE ForSx(s)
    BY <2>3 DEF ForSx, AllAt
  <2> QED
    BY <2>1, <2>2, <2>3 DEF Stored
<1> QED
  BY <1>1, DirectIsCarried, CarriedLeaves

LEMMA WriteRadioLeaves ==
  ASSUME NEW s \in Links, Ready(s), Stored(s), NEW field \in 1 .. 2, NEW v \in Vals, NEW o
  PROVE  /\ o \in sx1250_reg_w(s, <<v, v>>) => Leaves(o, [Waiting(s) EXCEPT ![RadioReg] = <<v, v>>])
         /\ o \in sx125x_reg_w(s, field, v) => Leaves(o, [Waiting(s) EXCEPT ![RadioReg][field] = v])
         /\ o \in sx1250_reg_r(s) => Leaves(o, Waiting(s))
<1>1. RadioReg \in Addresses /\ RadioReg # Reg /\ RadioReg # SxReg /\ <<v, v>> \in Bytes
  BY AddressesAre, Pair
<1>2. ASSUME o \in sx1250_reg_w(s, <<v, v>>) PROVE Leaves(o, [Waiting(s) EXCEPT ![RadioReg] = <<v, v>>])
  <2>1. Did(s, o, WriteOp(RadioReg, <<v, v>>))
    BY <1>1, <1>2, RadioWriteIs
  <2>2. WriteOp(RadioReg, <<v, v>>) \in Ops /\ WriteOp(RadioReg, <<v, v>>).addr = RadioReg
    BY <1>1, OpsAre DEF WriteOp
  <2>3. Leaves(o, Accessed(Waiting(s), WriteOp(RadioReg, <<v, v>>)))
    BY <1>1, <2>1, <2>2, ApartLeaves
  <2> QED
    BY <2>3 DEF Accessed, WriteOp
<1>3. ASSUME o \in sx125x_reg_w(s, field, v) PROVE Leaves(o, [Waiting(s) EXCEPT ![RadioReg][field] = v])
  <2>1. Did(s, o, FieldOp(RadioReg, field, v))
    BY <1>3, Sx125xWriteIs
  <2>2. FieldOp(RadioReg, field, v) \in Ops /\ FieldOp(RadioReg, field, v).addr = RadioReg
    BY <1>1, OpsAre DEF FieldOp
  <2>3. Leaves(o, Accessed(Waiting(s), FieldOp(RadioReg, field, v)))
    BY <1>1, <2>1, <2>2, ApartLeaves
  <2> QED
    BY <2>3 DEF Accessed, FieldOp
<1>4. ASSUME o \in sx1250_reg_r(s) PROVE Leaves(o, Waiting(s))
  <2>1. Did(s, o, ReadOp(RadioReg))
    BY <1>4, RadioReadIs
  <2> QED
    BY <2>1, ReadLeaves DEF ReadOp
<1> QED
  BY <1>2, <1>3, <1>4

\* Only the target of the SX1261 changes.
LEMMA Target61Leaves ==
  ASSUME NEW s \in Links, Ready(s), Stored(s), NEW target \in Targets, NEW o \in Succeeds([s EXCEPT !.target61 = target])
  PROVE  Leaves(o, Waiting(s))
<1>1. PICK t \in Links : t = [s EXCEPT !.target61 = target]
  BY DEF Links
<1>2. o \in Outs /\ o.s = t
  BY <1>1, OutcomeIs
<1>3. /\ t.type = s.type /\ t.tty = s.tty /\ t.alive = s.alive /\ t.mem = s.mem /\ t.bulk = s.bulk
      /\ t.mode = s.mode /\ t.mode61 = s.mode61 /\ t.nb = s.nb /\ t.nb61 = s.nb61
  BY <1>1 DEF Links
<1> QED
  BY <1>2, <1>3 DEF Leaves, Sane, Ready, Sync, Stored, Nothing, ForReg, ForSx, Waiting

LEMMA WriteSx1261Leaves ==
  ASSUME NEW s \in Links, Ready(s), Stored(s), NEW v \in Vals, NEW o
  PROVE  /\ o \in sx1261_com_open(s) \cup sx1261_com_close(s) \cup sx1261_com_r(s) => Leaves(o, Waiting(s))
         /\ o \in sx1261_com_w(s, <<v, v>>) => Leaves(o, [Waiting(s) EXCEPT ![SxReg] = <<v, v>>])
<1>1. SxReg \in Addresses /\ SxReg # Reg /\ <<v, v>> \in Bytes
  BY AddressesAre, Pair
<1>2. ASSUME o \in sx1261_com_open(s) PROVE Leaves(o, Waiting(s))
  <2>1. CASE s.type = "SPI"
    <3>1. PICK G, A : G = UNION {Fails(t) : t \in Gone(s)} /\ A = Succeeds([s EXCEPT !.target61 = "open"])
      OBVIOUS
    <3>2. o \in A \cup G
      BY <1>2, <2>1, <3>1, DispatchIs, Zenon DEF sx1261_com_open
    <3>3. CASE o \in A
      BY <3>1, <3>3, Target61Leaves DEF Targets
    <3>4. CASE o \in G
      <4>1. PICK t \in Gone(s) : o \in Fails(t)
        BY <3>1, <3>4
      <4>2. t \in Links /\ t.type = s.type
        BY GoneIs DEF Static
      <4>3. o \in Outs /\ o.s = t /\ ~o.ok
        BY <4>1, <4>2, OutcomeIs
      <4> QED
        BY <2>1, <4>2, <4>3 DEF Leaves, Sane, Ready
    <3> QED
      BY <3>2, <3>3, <3>4
  <2>2. CASE s.type = "USB"
    <3>1. o \in Succeeds([s EXCEPT !.target61 = s.target]) /\ s.target \in Targets
      BY <1>2, <2>2, DispatchIs DEF sx1261_com_open, Links
    <3> QED
      BY <3>1, Target61Leaves
  <2> QED
    BY <2>1, <2>2 DEF Ready
<1>3. ASSUME o \in sx1261_com_close(s) PROVE Leaves(o, Waiting(s))
  BY <1>3, Target61Leaves DEF sx1261_com_close, Targets
<1>4. ASSUME o \in sx1261_com_r(s) PROVE Leaves(o, Waiting(s))
  <2>1. Did(s, o, ReadOp(SxReg))
    BY <1>4, SxReadIs
  <2> QED
    BY <2>1, ReadLeaves DEF ReadOp
<1>5. ASSUME o \in sx1261_com_w(s, <<v, v>>) PROVE Leaves(o, [Waiting(s) EXCEPT ![SxReg] = <<v, v>>])
  <2>1. WriteOp(SxReg, <<v, v>>) \in Ops /\ WriteOp(SxReg, <<v, v>>).addr = SxReg
    BY <1>1, OpsAre DEF WriteOp
  <2>2. CASE s.type = "SPI" \/ s.mode61 # "bulk"
    <3>1. Did(s, o, WriteOp(SxReg, <<v, v>>))
      BY <1>1, <1>5, <2>2, SxWriteIs
    <3> QED
      BY <1>1, <2>1, <2>2, <3>1, ApartLeaves DEF Accessed, WriteOp
  <2>3. CASE s.type = "USB" /\ s.mode61 = "bulk"
    <3>1. LastStored(s, o, WriteOp(SxReg, <<v, v>>)) /\ (o.ok => o.s.nb61 = (s.nb61 + 1) % NbMod /\ o.s.nb = s.nb)
      BY <1>1, <1>5, <2>3, SxWriteIs
    <3>2. ForSx(s)
      BY <2>3 DEF Stored, Nothing, ForReg
    <3>3. Leaves(o, Accessed(Waiting(s), WriteOp(SxReg, <<v, v>>)))
      BY <2>1, <3>1, <3>2, KeptIsCarried, CarriedLeaves
    <3> QED
      BY <3>3 DEF Accessed, WriteOp
  <2> QED
    BY <2>2, <2>3 DEF Ready
<1> QED
  BY <1>2, <1>3, <1>4, <1>5

LEMMA StartBulkLeaves ==
  ASSUME NEW s \in Links, Ready(s), Stored(s), NEW o
  PROVE  /\ s.mode61 = "single" /\ o \in lgw_com_set_write_mode(s, "bulk") => Leaves(o, Waiting(s))
         /\ s.mode = "single" /\ o \in sx1261_com_set_write_mode(s, "bulk") => Leaves(o, Waiting(s))
<1>1. ASSUME o \in Succeeds(s) PROVE Leaves(o, Waiting(s))
  <2>1. o \in Outs /\ o.s = s
    BY <1>1, OutcomeIs
  <2> QED
    BY <2>1 DEF Leaves, Sane
<1>0. MaxReqs \in Nat /\ Len(<<>>) = 0 /\ \A addr : AllAt(<<>>, addr)
  BY LinkAssumption DEF AllAt
<1>2. ASSUME s.type = "USB", s.mode61 = "single", o \in lgw_com_set_write_mode(s, "bulk") PROVE Leaves(o, Waiting(s))
  <2>1. PICK t \in Links : t = [s EXCEPT !.mode = "bulk"]
    BY DEF Links
  <2>0. o \in Succeeds(t)
    BY <1>2, <2>1, DispatchIs DEF lgw_com_set_write_mode, lgw_usb_set_write_mode
  <2>2. o \in Outs /\ o.s = t
    BY <2>0, OutcomeIs
  <2>3. /\ t.type = s.type /\ t.tty = s.tty /\ t.alive = s.alive /\ t.mem = s.mem /\ t.bulk = s.bulk
        /\ t.mode = "bulk" /\ t.mode61 = s.mode61 /\ t.nb = s.nb /\ t.nb61 = s.nb61
    BY <2>1 DEF Links
  <2>4. ForReg(t)
    BY <1>0, <1>2, <2>3 DEF Stored, Nothing, ForReg, ForSx
  <2> QED
    BY <2>2, <2>3, <2>4 DEF Leaves, Sane, Ready, Sync, Stored, Waiting
<1>3. ASSUME s.type = "USB", s.mode = "single", o \in sx1261_com_set_write_mode(s, "bulk") PROVE Leaves(o, Waiting(s))
  <2>1. PICK t \in Links : t = [s EXCEPT !.mode61 = "bulk"]
    BY DEF Links
  <2>0. o \in Succeeds(t)
    BY <1>3, <2>1, DispatchIs DEF sx1261_com_set_write_mode, sx1261_usb_set_write_mode
  <2>2. o \in Outs /\ o.s = t
    BY <2>0, OutcomeIs
  <2>3. /\ t.type = s.type /\ t.tty = s.tty /\ t.alive = s.alive /\ t.mem = s.mem /\ t.bulk = s.bulk
        /\ t.mode = s.mode /\ t.mode61 = "bulk" /\ t.nb = s.nb /\ t.nb61 = s.nb61
    BY <2>1 DEF Links
  <2>4. ForSx(t)
    BY <1>0, <1>3, <2>3 DEF Stored, Nothing, ForReg, ForSx
  <2> QED
    BY <2>2, <2>3, <2>4 DEF Leaves, Sane, Ready, Sync, Stored, Waiting
<1>4. s.type = "SPI" => /\ o \in lgw_com_set_write_mode(s, "bulk") => o \in Succeeds(s)
                        /\ o \in sx1261_com_set_write_mode(s, "bulk") => o \in Succeeds(s)
  BY DispatchIs DEF lgw_com_set_write_mode, sx1261_com_set_write_mode
<1> QED
  BY <1>1, <1>2, <1>3, <1>4 DEF Ready

\* The stored requests are sent, and the buffer is empty if that succeeded.
LEMMA SentIs ==
  ASSUME NEW t \in Links, t.type = "USB", Sync(t), NEW p \in mcu_spi_flush(t)
  PROVE  /\ p \in Outs /\ p.s.type = "USB" /\ Sync(p.s)
         /\ p.s.mode = t.mode /\ p.s.mode61 = t.mode61 /\ p.s.nb = t.nb /\ p.s.nb61 = t.nb61
         /\ p.ok => p.s.bulk = <<>> /\ p.s.mem = Waiting(t)
<1>1. PICK q \in mcu_spi_write(t, t.bulk) : p \in (IF q.ok THEN Succeeds([q.s EXCEPT !.bulk = <<>>]) ELSE {q})
  BY DEF mcu_spi_flush, Then
<1>2. t.bulk \in Seq(Ops)
  BY DEF Links
<1>3. q \in Outs /\ Static(t, q.s) /\ Sync(q.s) /\ (q.ok => q.s.mem = Waiting(t))
  BY <1>2, SpiWriteIs DEF Waiting
<1>4. CASE ~q.ok
  BY <1>1, <1>3, <1>4 DEF Static
<1>5. CASE q.ok
  <2>0. <<>> \in Seq(Ops)
    BY EmptySeq
  <2>1. PICK u \in Links : u = [q.s EXCEPT !.bulk = <<>>]
    BY <1>3, <2>0 DEF Static, Links
  <2>2. p \in Outs /\ p.s = u
    BY <1>1, <1>5, <2>1, OutcomeIs
  <2>3. /\ u.type = q.s.type /\ u.tty = q.s.tty /\ u.alive = q.s.alive /\ u.mem = q.s.mem /\ u.bulk = <<>>
        /\ u.mode = q.s.mode /\ u.mode61 = q.s.mode61 /\ u.nb = q.s.nb /\ u.nb61 = q.s.nb61
    BY <1>3, <2>1 DEF Static, Links
  <2> QED
    BY <1>3, <1>5, <2>2, <2>3 DEF Static, Sync
<1> QED
  BY <1>4, <1>5

\* After a flush nothing is stored and the memory is what it was to become.
LEMMA FlushedLeaves ==
  ASSUME NEW t \in Links, t.type = "USB", Sync(t), t.mode = "single", t.mode61 = "single",
         NEW p \in mcu_spi_flush(t), NEW o, NEW u \in Links, o = [p EXCEPT !.s = u],
         (u = [p.s EXCEPT !.nb = 0] /\ t.nb61 = 0) \/ (u = [p.s EXCEPT !.nb61 = 0] /\ t.nb = 0)
  PROVE  Leaves(o, Waiting(t))
<1>1. /\ p \in Outs /\ p.s.type = "USB" /\ Sync(p.s)
      /\ p.s.mode = "single" /\ p.s.mode61 = "single" /\ p.s.nb = t.nb /\ p.s.nb61 = t.nb61
      /\ p.ok => p.s.bulk = <<>> /\ p.s.mem = Waiting(t)
  BY SentIs
<1>2. /\ u.type = "USB" /\ u.tty = p.s.tty /\ u.alive = p.s.alive /\ u.mem = p.s.mem /\ u.bulk = p.s.bulk
      /\ u.mode = "single" /\ u.mode61 = "single" /\ u.nb = 0 /\ u.nb61 = 0
  <2>1. CASE u = [p.s EXCEPT !.nb = 0] /\ t.nb61 = 0
    BY <1>1, <2>1 DEF Outs, Links
  <2>2. CASE u = [p.s EXCEPT !.nb61 = 0] /\ t.nb = 0
    BY <1>1, <2>2 DEF Outs, Links
  <2> QED
    BY <2>1, <2>2
<1>3. o \in Outs /\ o.s = u /\ o.ok = p.ok
  BY <1>1 DEF Outs
<1>4. ASSUME o.ok PROVE Nothing(u) /\ Waiting(u) = Waiting(t)
  <2>1. u.bulk = <<>> /\ u.mem = Waiting(t) /\ u.mem \in Mems
    BY <1>1, <1>2, <1>3, <1>4 DEF Links
  <2>2. AllAccessed(u.mem, <<>>) = u.mem
    BY <2>1, NoAccess
  <2> QED
    BY <1>2, <2>1, <2>2 DEF Nothing, Waiting
<1> QED
  BY <1>1, <1>2, <1>3, <1>4 DEF Leaves, Sane, Ready, Sync, Stored

LEMMA FlushLeaves ==
  ASSUME NEW s \in Links, Ready(s), Stored(s), NEW o
  PROVE  /\ s.mode = "bulk" /\ o \in lgw_com_flush(s) => Leaves(o, Waiting(s))
         /\ s.mode61 = "bulk" /\ o \in sx1261_com_flush(s) => Leaves(o, Waiting(s))
<1>0. ASSUME NEW t \in Links, t.type = "USB", Sync(t), t.mode = "single", t.mode61 = "single",
             t.nb = 0, t.nb61 = 0, Len(t.bulk) = 0, o \in Succeeds(t)
      PROVE  Leaves(o, Waiting(t))
  <2>1. o \in Outs /\ o.s = t
    BY <1>0, OutcomeIs
  <2>2. t.bulk = <<>>
    BY <1>0, EmptySeq DEF Links
  <2>3. Nothing(t) /\ Ready(t)
    BY <1>0, <2>2 DEF Ready, Nothing
  <2> QED
    BY <2>1, <2>3 DEF Leaves, Sane, Stored
<1>1. ASSUME s.mode = "bulk", o \in lgw_com_flush(s) PROVE Leaves(o, Waiting(s))
  <2>1. ForReg(s)
    BY <1>1 DEF Stored, Nothing, ForSx
  <2>2. PICK t \in Links : t = [s EXCEPT !.mode = "single"]
    BY DEF Links
  <2>3. /\ t.type = "USB" /\ Sync(t) /\ t.mode = "single" /\ t.mode61 = "single"
        /\ t.nb = s.nb /\ t.nb61 = 0 /\ t.bulk = s.bulk /\ t.mem = s.mem
    BY <2>1, <2>2 DEF ForReg, Ready, Sync, Links
  <2>4. o \in lgw_usb_flush(s)
    BY <1>1, <2>1, DispatchIs DEF lgw_com_flush, ForReg
  <2>5. Waiting(t) = Waiting(s)
    BY <2>3 DEF Waiting
  <2>6. CASE s.nb = 0
    <3>1. o \in Succeeds(t)
      BY <1>1, <2>2, <2>4, <2>6 DEF lgw_usb_flush
    <3> QED
      BY <1>0, <2>1, <2>3, <2>5, <2>6, <3>1 DEF ForReg
  <2>7. CASE s.nb # 0
    <3>1. PICK p \in mcu_spi_flush(t) : o = [p EXCEPT !.s.nb = 0]
      BY <1>1, <2>2, <2>4, <2>7 DEF lgw_usb_flush
    <3>2. p \in Outs
      BY <2>3, SentIs
    <3>3. PICK u \in Links : u = [p.s EXCEPT !.nb = 0]
      BY <3>2 DEF Outs, Links
    <3>4. o = [p EXCEPT !.s = u]
      BY <3>1, <3>2, <3>3 DEF Outs
    <3>5. (u = [p.s EXCEPT !.nb = 0] /\ t.nb61 = 0) \/ (u = [p.s EXCEPT !.nb61 = 0] /\ t.nb = 0)
      BY <2>3, <3>3
    <3>6. Leaves(o, Waiting(t))
      BY <2>3, <3>3, <3>4, <3>5, FlushedLeaves
    <3> QED
      BY <2>5, <3>6
  <2> QED
    BY <2>6, <2>7
<1>2. ASSUME s.mode61 = "bulk", o \in sx1261_com_flush(s) PROVE Leaves(o, Waiting(s))
  <2>1. ForSx(s)
    BY <1>2 DEF Stored, Nothing, ForReg
  <2>2. PICK t \in Links : t = [s EXCEPT !.mode61 = "single"]
    BY DEF Links
  <2>3. /\ t.type = "USB" /\ Sync(t) /\ t.mode = "single" /\ t.mode61 = "single"
        /\ t.nb61 = s.nb61 /\ t.nb = 0 /\ t.bulk = s.bulk /\ t.mem = s.mem
    BY <2>1, <2>2 DEF ForSx, Ready, Sync, Links
  <2>4. o \in sx1261_usb_flush(s)
    BY <1>2, <2>1, DispatchIs DEF sx1261_com_flush, ForSx
  <2>5. Waiting(t) = Waiting(s)
    BY <2>3 DEF Waiting
  <2>6. CASE s.nb61 = 0
    <3>1. o \in Succeeds(t)
      BY <1>2, <2>2, <2>4, <2>6 DEF sx1261_usb_flush
    <3> QED
      BY <1>0, <2>1, <2>3, <2>5, <2>6, <3>1 DEF ForSx
  <2>7. CASE s.nb61 # 0
    <3>1. PICK p \in mcu_spi_flush(t) : o = [p EXCEPT !.s.nb61 = 0]
      BY <1>2, <2>2, <2>4, <2>7 DEF sx1261_usb_flush
    <3>2. p \in Outs
      BY <2>3, SentIs
    <3>3. PICK u \in Links : u = [p.s EXCEPT !.nb61 = 0]
      BY <3>2 DEF Outs, Links
    <3>4. o = [p EXCEPT !.s = u]
      BY <3>1, <3>2, <3>3 DEF Outs
    <3>5. (u = [p.s EXCEPT !.nb = 0] /\ t.nb61 = 0) \/ (u = [p.s EXCEPT !.nb61 = 0] /\ t.nb = 0)
      BY <2>3, <3>3
    <3>6. Leaves(o, Waiting(t))
      BY <2>3, <3>3, <3>4, <3>5, FlushedLeaves
    <3> QED
      BY <2>5, <3>6
  <2> QED
    BY <2>6, <2>7
<1> QED
  BY <1>1, <1>2

LEMMA TemperatureLeaves ==
  ASSUME NEW s \in Links, Ready(s), Stored(s), NEW o \in lgw_com_get_temperature(s)
  PROVE  Leaves(o, Waiting(s))
<1>1. CASE s.type = "SPI"
  <2>1. o \in Fails(s)
    BY <1>1, DispatchIs DEF lgw_com_get_temperature
  <2>2. o \in Outs /\ o.s = s /\ ~o.ok
    BY <2>1, OutcomeIs
  <2> QED
    BY <2>2 DEF Leaves, Sane
<1>2. CASE s.type = "USB"
  <2>1. o \in mcu_get_status(s)
    BY <1>2, DispatchIs DEF lgw_com_get_temperature, lgw_usb_get_temperature
  <2>2. o \in Outs /\ Static(s, o.s) /\ Sync(o.s) /\ o.s.mem = s.mem
    BY <1>2, <2>1, OtherRequests DEF Ready
  <2>3. o.s.type = s.type /\ o.s.bulk = s.bulk
    BY <2>2 DEF Static
  <2> QED
    BY <1>2, <2>2, <2>3, StoredStatic DEF Leaves, Sane, Ready, Waiting
<1> QED
  BY <1>1, <1>2 DEF Ready

-----------------------------------------------------------------------------
(* The loading of the firmware                                             *)

\* The memory outside the memory of the MCUs is as it was.
Framed(s, o) ==
  /\ o \in Outs /\ Static(s, o.s) /\ Ready(o.s)
  /\ \A x \in Addresses \ (1 .. Chunks) : o.s.mem[x] = s.mem[x]

LEMMA MemWriteIs ==
  ASSUME NEW s \in Links, Ready(s), s.mode # "bulk", NEW img \in Images, NEW o \in lgw_mem_wb(s, img)
  PROVE  Framed(s, o)
<1>0. Chunks \in Nat /\ 1 .. Chunks \subseteq Addresses
  BY LinkAssumption, AddressesAre
<1> DEFINE V == SUBSET {x \in Outs : Framed(s, x)}
           Next1(n, X) == UNION {lgw_com_wb(x.s, n, <<img, n>>) : x \in X}
           Burst(g) == g = [n \in 0 .. Chunks |-> IF n = 0 THEN Succeeds(s) ELSE Next1(n, g[n - 1])]
<1>1. Succeeds(s) \in V
  <2>1. \A x \in Succeeds(s) : x \in Outs /\ x.s = s
    BY OutcomeIs
  <2> QED
    BY <2>1, StaticItself DEF Framed
<1>2. ASSUME NEW n \in 1 .. Chunks, NEW X \in V PROVE Next1(n, X) \in V
  <2>1. ASSUME NEW x \in X, NEW y \in lgw_com_wb(x.s, n, <<img, n>>) PROVE y \in Outs /\ Framed(s, y)
    <3>1. x \in Outs /\ Framed(s, x) /\ x.s \in Links /\ Ready(x.s) /\ x.s.mode # "bulk"
      BY <2>1 DEF Framed, Static
    <3>2. n \in Addresses /\ <<img, n>> \in Bytes
      <4>1. img \in Vals /\ n \in Vals
        BY <1>2, <1>0 DEF Vals
      <4> QED
        BY <1>0, <1>2, <4>1, Pair
    <3>3. Did(x.s, y, WriteOp(n, <<img, n>>))
      BY <2>1, <3>1, <3>2, ComWriteIs
    <3>4. y \in Outs /\ Static(x.s, y.s) /\ Ready(y.s) /\ \A z \in Addresses \ {n} : y.s.mem[z] = x.s.mem[z]
      BY <3>3 DEF Did, WriteOp
    <3>5. Static(s, y.s)
      BY <3>1, <3>4, StaticTwice DEF Framed
    <3> QED
      BY <1>2, <3>1, <3>4, <3>5 DEF Framed
  <2> QED
    BY <2>1
<1> HIDE DEF V, Next1
<1>3. \E g : Burst(g)
  <2>1. PICK step : step = [n \in 1 .. Chunks |-> [X \in V |-> Next1(n, X)]]
    OBVIOUS
  <2>2. step \in [1 .. Chunks -> [V -> V]]
    BY <1>2, <2>1
  <2>3. PICK g : Iteration(g, V, Succeeds(s), step, Chunks)
    BY <1>0, <1>1, <2>2, Iterated
  <2>4. \A n \in 0 .. Chunks : n # 0 => n \in 1 .. Chunks /\ n - 1 \in 0 .. Chunks
    BY <1>0
  <2>5. \A n \in 0 .. Chunks : g[n] = IF n = 0 THEN Succeeds(s) ELSE Next1(n, g[n - 1])
    BY <2>1, <2>3, <2>4 DEF Iteration
  <2>6. Burst(g)
    BY <2>3, <2>5 DEF Iteration
  <2> QED
    BY <2>6
<1>4. PICK g : g = CHOOSE h : Burst(h)
  OBVIOUS
<1>5. Burst(g)
  <2> HIDE DEF Burst
  <2> QED
    BY <1>3, <1>4
<1>6. o \in g[Chunks]
  BY <1>4, Zenon DEF lgw_mem_wb, Next1
<1> DEFINE S == {n \in 0 .. Chunks : g[n] \in V}
<1>7. 0 \in S
  BY <1>0, <1>1, <1>5
<1>8. ASSUME NEW n \in 0 .. Chunks - 1, n \in S PROVE n + 1 \in S
  <2>1. n + 1 \in 1 .. Chunks /\ n + 1 \in 0 .. Chunks /\ (n + 1) - 1 = n /\ n + 1 # 0
    BY <1>0
  <2>2. g[n + 1] = Next1(n + 1, g[n])
    BY <1>5, <2>1
  <2> QED
    BY <1>2, <1>8, <2>1, <2>2
<1> HIDE DEF S
<1>9. 0 .. Chunks \subseteq S
  BY <1>0, <1>7, <1>8, UpTo, Zenon
<1>10. Chunks \in S
  BY <1>0, <1>9
<1> QED
  BY <1>6, <1>10 DEF S, V

Bufs == [1 .. Chunks -> Bytes]
Reads == [s : Links, ok : BOOLEAN, val : Bufs]

\* What the buffer holds was there before, or was read from the device.
Buffered(s, buf, o) ==
  /\ o \in Reads /\ Static(s, o.s) /\ Ready(o.s) /\ o.s.mem = s.mem
  /\ \A k \in 1 .. Chunks : o.val[k] \in {buf[k], s.mem[k]}

LEMMA MemReadIs ==
  ASSUME NEW s \in Links, Ready(s), NEW buf \in Bufs, NEW o \in lgw_mem_rb(s, buf)
  PROVE  Buffered(s, buf, o)
<1>0. Chunks \in Nat /\ 1 .. Chunks \subseteq Addresses
  BY LinkAssumption, AddressesAre
<1> DEFINE V == SUBSET {x \in Reads : Buffered(s, buf, x)}
           First == {[s |-> s, ok |-> TRUE, val |-> buf]}
           Next1(n, X) == UNION {{[r EXCEPT !.val = IF r.ok THEN [x.val EXCEPT ![n] = r.val] ELSE x.val] :
                                    r \in lgw_com_rb(x.s, n)} : x \in X}
           Burst(g) == g = [n \in 0 .. Chunks |-> IF n = 0 THEN First ELSE Next1(n, g[n - 1])]
<1>1. First \in V
  <2>1. PICK x \in Reads : x = [s |-> s, ok |-> TRUE, val |-> buf]
    BY DEF Reads
  <2> QED
    BY <2>1, StaticItself DEF Buffered
<1>2. ASSUME NEW n \in 1 .. Chunks, NEW X \in V PROVE Next1(n, X) \in V
  <2>1. ASSUME NEW x \in X, NEW r \in lgw_com_rb(x.s, n), NEW y,
               y = [r EXCEPT !.val = IF r.ok THEN [x.val EXCEPT ![n] = r.val] ELSE x.val]
        PROVE  y \in Reads /\ Buffered(s, buf, y)
    <3>1. x \in Reads /\ Buffered(s, buf, x) /\ x.s \in Links /\ Ready(x.s) /\ x.val \in Bufs
      BY <2>1 DEF Buffered, Static, Reads
    <3>2. Did(x.s, r, ReadOp(n)) /\ n \in Addresses
      BY <1>0, <1>2, <2>1, <3>1, ComReadIs
    <3>3. r \in Outs /\ Static(x.s, r.s) /\ Ready(r.s) /\ r.s.mem = x.s.mem /\ (r.ok => r.val = x.s.mem[n])
      BY <3>2 DEF Did, ReadOp
    <3>4. PICK b : b = IF r.ok THEN [x.val EXCEPT ![n] = r.val] ELSE x.val
      OBVIOUS
    <3>5. b \in Bufs /\ \A k \in 1 .. Chunks : b[k] \in {buf[k], s.mem[k]}
      BY <1>2, <3>1, <3>3, <3>4 DEF Buffered, Bufs, Outs
    <3>6. y \in Reads /\ y.s = r.s /\ y.val = b
      BY <2>1, <3>3, <3>4, <3>5 DEF Reads, Outs
    <3>7. Static(s, y.s)
      BY <3>1, <3>3, <3>6, StaticTwice DEF Buffered
    <3> QED
      BY <3>1, <3>3, <3>5, <3>6, <3>7 DEF Buffered
  <2> QED
    BY <2>1
<1> HIDE DEF V, Next1, First
<1>3. \E g : Burst(g)
  <2>1. PICK step : step = [n \in 1 .. Chunks |-> [X \in V |-> Next1(n, X)]]
    OBVIOUS
  <2>2. step \in [1 .. Chunks -> [V -> V]]
    BY <1>2, <2>1
  <2>3. PICK g : Iteration(g, V, First, step, Chunks)
    BY <1>0, <1>1, <2>2, Iterated
  <2>4. \A n \in 0 .. Chunks : n # 0 => n \in 1 .. Chunks /\ n - 1 \in 0 .. Chunks
    BY <1>0
  <2>5. \A n \in 0 .. Chunks : g[n] = IF n = 0 THEN First ELSE Next1(n, g[n - 1])
    BY <2>1, <2>3, <2>4 DEF Iteration
  <2>6. Burst(g)
    BY <2>3, <2>5 DEF Iteration
  <2> QED
    BY <2>6
<1>4. PICK g : g = CHOOSE h : Burst(h)
  OBVIOUS
<1>5. Burst(g)
  <2> HIDE DEF Burst
  <2> QED
    BY <1>3, <1>4
<1>6. o \in g[Chunks]
  BY <1>4, Zenon DEF lgw_mem_rb, Next1, First
<1> DEFINE S == {n \in 0 .. Chunks : g[n] \in V}
<1>7. 0 \in S
  BY <1>0, <1>1, <1>5
<1>8. ASSUME NEW n \in 0 .. Chunks - 1, n \in S PROVE n + 1 \in S
  <2>1. n + 1 \in 1 .. Chunks /\ n + 1 \in 0 .. Chunks /\ (n + 1) - 1 = n /\ n + 1 # 0
    BY <1>0
  <2>2. g[n + 1] = Next1(n + 1, g[n])
    BY <1>5, <2>1
  <2> QED
    BY <1>2, <1>8, <2>1, <2>2
<1> HIDE DEF S
<1>9. 0 .. Chunks \subseteq S
  BY <1>0, <1>7, <1>8, UpTo, Zenon
<1>10. Chunks \in S
  BY <1>0, <1>9
<1> QED
  BY <1>6, <1>10 DEF S, V
\* A load that succeeds left the whole image, and the field of the register that stops the
\* MCU is zero again.
Loaded(s, img, o) ==
  /\ \A n \in 1 .. Chunks : o.s.mem[n] = <<img, n>>
  /\ o.s.mem[Reg] = [s.mem[Reg] EXCEPT ![1] = 0]
  /\ \A x \in Addresses \ (1 .. Chunks) : x # Reg => o.s.mem[x] = s.mem[x]

LEMMA LoadIs ==
  ASSUME NEW s \in Links, Ready(s), s.mode # "bulk", NEW img \in Images, NEW o \in sx1302_agc_load_firmware(s, img)
  PROVE  Sane(o) /\ Static(s, o.s) /\ (o.ok => Loaded(s, img, o))
<1>0. Reg \in Addresses /\ Reg \notin 1 .. Chunks /\ 1 .. Chunks \subseteq Addresses /\ Chunks \in Nat /\ 0 \notin Images
  BY AddressesAre, LinkAssumption
<1>1. PICK read : /\ read = Also(Also(lgw_reg_w(s, 1, 1), LAMBDA t : lgw_mem_wb(t, img)), LAMBDA t : lgw_mem_rb(t, Garbage))
                  /\ o \in UNION {IF q.val # Image(img) THEN Fails(q.s)
                                  ELSE {[p EXCEPT !.ok = @ /\ q.ok] : p \in lgw_reg_w(q.s, 1, 0)} : q \in read}
  BY Zenon DEF sx1302_agc_load_firmware
<1>2. PICK q \in read : o \in (IF q.val # Image(img) THEN Fails(q.s)
                               ELSE {[p EXCEPT !.ok = @ /\ q.ok] : p \in lgw_reg_w(q.s, 1, 0)})
  BY <1>1
<1>3. PICK a \in lgw_reg_w(s, 1, 1) :
         \E x : /\ x \in {[b EXCEPT !.ok = b.ok /\ a.ok] : b \in lgw_mem_wb(a.s, img)}
                /\ q \in {[c EXCEPT !.ok = c.ok /\ x.ok] : c \in lgw_mem_rb(x.s, Garbage)}
  <2>1. PICK written : /\ written = UNION {{[b EXCEPT !.ok = b.ok /\ a.ok] : b \in lgw_mem_wb(a.s, img)} : a \in lgw_reg_w(s, 1, 1)}
                       /\ read = UNION {{[c EXCEPT !.ok = c.ok /\ x.ok] : c \in lgw_mem_rb(x.s, Garbage)} : x \in written}
    BY <1>1, Zenon DEF Also
  <2>2. PICK x \in written : q \in {[c EXCEPT !.ok = c.ok /\ x.ok] : c \in lgw_mem_rb(x.s, Garbage)}
    BY <1>2, <2>1
  <2>3. PICK a \in lgw_reg_w(s, 1, 1) : x \in {[b EXCEPT !.ok = b.ok /\ a.ok] : b \in lgw_mem_wb(a.s, img)}
    BY <2>1, <2>2
  <2> QED
    BY <2>2, <2>3
<1>4. PICK x : /\ x \in {[b EXCEPT !.ok = b.ok /\ a.ok] : b \in lgw_mem_wb(a.s, img)}
                /\ q \in {[c EXCEPT !.ok = c.ok /\ x.ok] : c \in lgw_mem_rb(x.s, Garbage)}
  BY <1>3
<1>5. PICK b \in lgw_mem_wb(a.s, img), c \in lgw_mem_rb(x.s, Garbage) :
        x = [b EXCEPT !.ok = b.ok /\ a.ok] /\ q = [c EXCEPT !.ok = c.ok /\ x.ok]
  BY <1>4
\* The MCU is stopped.
<1>6. Did(s, a, FieldOp(Reg, 1, 1))
  <2>1. 1 \in 0 .. 1 /\ 1 \in Vals
    BY DEF Vals
  <2>2. Did(s, a, RegOp(1, 1))
    BY <2>1, RegWriteIs DEF Ready
  <2> QED
    BY <2>2 DEF RegOp
<1>7. /\ a \in Outs /\ Static(s, a.s) /\ Ready(a.s) /\ a.s \in Links /\ a.s.mode # "bulk"
      /\ \A y \in Addresses \ {Reg} : a.s.mem[y] = s.mem[y]
      /\ a.ok => a.s.mem = [s.mem EXCEPT ![Reg][1] = 1]
  BY <1>6 DEF Did, Static, FieldOp, Accessed
\* The image is written.
<1>8. Framed(a.s, b)
  BY <1>7, MemWriteIs
<1>9. b \in Outs /\ Static(a.s, b.s) /\ Ready(b.s) /\ b.s \in Links /\ b.ok \in BOOLEAN /\ a.ok \in BOOLEAN
  BY <1>7, <1>8 DEF Framed, Static, Outs
<1>10. x \in Outs /\ x.s = b.s /\ (x.ok <=> b.ok /\ a.ok)
  <2>1. PICK y \in BOOLEAN : y = (b.ok /\ a.ok)
    BY <1>9
  <2>2. x = [b EXCEPT !.ok = y]
    BY <1>5, <2>1
  <2> QED
    BY <1>9, <2>1, <2>2 DEF Outs
\* It is read back.
<1>11. Garbage \in Bufs
  BY ZeroByte DEF Garbage, Bufs
<1>12. Buffered(b.s, Garbage, c)
  BY <1>9, <1>10, <1>11, MemReadIs
<1>13. c \in Reads /\ Static(b.s, c.s) /\ Ready(c.s) /\ c.s \in Links /\ c.s.mem = b.s.mem
  BY <1>12 DEF Buffered, Static
<1>14. q \in Reads /\ q.s = c.s /\ q.val = c.val /\ (q.ok <=> c.ok /\ b.ok /\ a.ok)
  <2>1. PICK y \in BOOLEAN : y = (c.ok /\ x.ok)
    BY <1>10, <1>13 DEF Outs, Reads
  <2>2. q = [c EXCEPT !.ok = y]
    BY <1>5, <2>1
  <2> QED
    BY <1>10, <1>13, <2>1, <2>2 DEF Reads
<1>15. Static(s, q.s) /\ Ready(q.s) /\ q.s \in Links /\ q.s.mode # "bulk"
  <2>1. Static(s, b.s)
    BY <1>7, <1>9, StaticTwice
  <2>2. Static(s, q.s)
    BY <1>13, <1>14, <2>1, StaticTwice
  <2> QED
    BY <1>13, <1>14, <2>2 DEF Static
<1>16. CASE q.val # Image(img)
  <2>1. o \in Fails(q.s)
    BY <1>2, <1>16
  <2>2. o \in Outs /\ o.s = q.s /\ ~o.ok
    BY <1>15, <2>1, OutcomeIs
  <2> QED
    BY <1>15, <2>2 DEF Sane
<1>17. CASE q.val = Image(img)
  <2>1. PICK p \in lgw_reg_w(q.s, 1, 0) : o = [p EXCEPT !.ok = p.ok /\ q.ok]
    BY <1>2, <1>17
  \* The MCU is released.
  <2>2. Did(q.s, p, FieldOp(Reg, 1, 0))
    <3>1. 1 \in 0 .. 1 /\ 0 \in Vals
      BY DEF Vals
    <3>2. Did(q.s, p, RegOp(1, 0))
      BY <1>15, <3>1, RegWriteIs DEF Ready
    <3> QED
      BY <3>2 DEF RegOp
  <2>3. /\ p \in Outs /\ Static(q.s, p.s) /\ Ready(p.s)
        /\ \A y \in Addresses \ {Reg} : p.s.mem[y] = q.s.mem[y]
        /\ p.ok => p.s.mem = [q.s.mem EXCEPT ![Reg][1] = 0]
    BY <2>2 DEF Did, FieldOp, Accessed
  <2>4. o \in Outs /\ o.s = p.s /\ (o.ok <=> p.ok /\ q.ok)
    <3>1. PICK y \in BOOLEAN : y = (p.ok /\ q.ok)
      BY <1>14, <2>3 DEF Outs, Reads
    <3>2. o = [p EXCEPT !.ok = y]
      BY <2>1, <3>1
    <3> QED
      BY <2>3, <3>1, <3>2 DEF Outs
  <2>5. Static(s, o.s)
    BY <1>15, <2>3, <2>4, StaticTwice
  <2>6. ASSUME o.ok PROVE Loaded(s, img, o)
    <3>1. \A n \in 1 .. Chunks : o.s.mem[n] = <<img, n>>
      <4>1. ASSUME NEW n \in 1 .. Chunks PROVE o.s.mem[n] = <<img, n>>
        <5>1. c.val[n] = <<img, n>>
          BY <1>14, <1>17, <4>1 DEF Image
        <5>2. Garbage[n] = <<0, 0>> /\ <<img, n>> # <<0, 0>>
          BY <1>0, <4>1 DEF Garbage
        <5>3. b.s.mem[n] = <<img, n>>
          BY <1>12, <4>1, <5>1, <5>2 DEF Buffered
        <5> QED
          BY <1>0, <1>13, <1>14, <2>3, <2>4, <5>3
      <4> QED
        BY <4>1
    <3>2. \A y \in Addresses \ (1 .. Chunks) : q.s.mem[y] = a.s.mem[y]
      BY <1>8, <1>13, <1>14 DEF Framed
    <3>3. \A y \in Addresses \ (1 .. Chunks) : y # Reg => o.s.mem[y] = s.mem[y]
      BY <1>7, <2>3, <2>4, <3>2
    <3>4. o.s.mem[Reg] = [q.s.mem[Reg] EXCEPT ![1] = 0] /\ q.s.mem[Reg] = [s.mem[Reg] EXCEPT ![1] = 1]
      <4>1. p.s.mem = [q.s.mem EXCEPT ![Reg] = [q.s.mem[Reg] EXCEPT ![1] = 0]]
        BY <2>3, <2>4, <2>6
      <4>2. a.s.mem = [s.mem EXCEPT ![Reg] = [s.mem[Reg] EXCEPT ![1] = 1]]
        BY <1>7, <1>14, <2>4, <2>6
      <4>3. q.s.mem \in Mems /\ s.mem \in Mems
        BY <1>15 DEF Links
      <4>4. p.s.mem[Reg] = [q.s.mem[Reg] EXCEPT ![1] = 0]
        BY <1>0, <4>1, <4>3 DEF Mems
      <4>5. a.s.mem[Reg] = [s.mem[Reg] EXCEPT ![1] = 1]
        BY <1>0, <4>2, <4>3 DEF Mems
      <4> QED
        BY <1>0, <2>4, <3>2, <4>4, <4>5
    <3>5. s.mem[Reg] \in Bytes
      BY <1>0 DEF Links, Mems
    <3>6. [[s.mem[Reg] EXCEPT ![1] = 1] EXCEPT ![1] = 0] = [s.mem[Reg] EXCEPT ![1] = 0]
      BY <3>5 DEF Bytes
    <3> QED
      BY <3>1, <3>3, <3>4, <3>6 DEF Loaded
  <2> QED
    BY <2>3, <2>4, <2>5, <2>6 DEF Sane
<1> QED
  BY <1>16, <1>17

\* The memory as a load leaves it
ImageIn(w, img) ==
  [a \in Addresses |-> IF a \in 1 .. Chunks THEN <<img, a>>
                       ELSE IF a = Reg THEN [w[Reg] EXCEPT ![1] = 0] ELSE w[a]]

\* The requests stored meanwhile are to the SX1261.
LEMMA LoadLeaves ==
  ASSUME NEW s \in Links, Ready(s), Stored(s), s.mode # "bulk", NEW img \in Images, NEW o \in sx1302_agc_load_firmware(s, img)
  PROVE  Leaves(o, ImageIn(Waiting(s), img))
<1>1. Sane(o) /\ Static(s, o.s) /\ (o.ok => Loaded(s, img, o))
  BY LoadIs
<1>2. SUFFICES ASSUME o.ok PROVE Waiting(o.s) = ImageIn(Waiting(s), img)
  BY <1>1, StoredStatic DEF Leaves
<1>3. PICK m \in Mems, q \in Mems, bulk \in Seq(Ops) : m = s.mem /\ q = o.s.mem /\ bulk = s.bulk /\ bulk = o.s.bulk
  BY <1>1 DEF Static, Links
<1>4. AllAt(bulk, SxReg)
  BY <1>3 DEF Stored, Nothing, ForReg, ForSx, AllAt
<1>5. PICK A \in SUBSET Addresses : A = {SxReg}
  BY AddressesAre
<1>6. \A n \in 1 .. Len(bulk) : bulk[n].addr \in A
  BY <1>4, <1>5 DEF AllAt
<1>7. SxReg \in Addresses \ (1 .. Chunks) /\ SxReg # Reg
  BY AddressesAre
<1>8. \A x \in A : q[x] = m[x]
  BY <1>1, <1>2, <1>3, <1>5, <1>7 DEF Loaded
<1>9. Apart(A, bulk, m, q)
  BY <1>6, <1>8, AccessesApart
<1>10. Reg \in Addresses \ A /\ Reg \notin 1 .. Chunks /\ (1 .. Chunks) \cap A = {} /\ 1 .. Chunks \subseteq Addresses
  BY <1>5, AddressesAre
<1>11. \A x \in Addresses : AllAccessed(q, bulk)[x] = ImageIn(AllAccessed(m, bulk), img)[x]
  <2>1. /\ \A x \in A : AllAccessed(q, bulk)[x] = AllAccessed(m, bulk)[x]
        /\ \A x \in Addresses \ A : AllAccessed(m, bulk)[x] = m[x] /\ AllAccessed(q, bulk)[x] = q[x]
    BY <1>9 DEF Apart
  <2>2. /\ \A n \in 1 .. Chunks : q[n] = <<img, n>>
        /\ q[Reg] = [m[Reg] EXCEPT ![1] = 0]
        /\ \A x \in Addresses \ (1 .. Chunks) : x # Reg => q[x] = m[x]
    BY <1>1, <1>2, <1>3 DEF Loaded
  <2>3. PICK w : w = AllAccessed(m, bulk)
    OBVIOUS
  <2>4. ASSUME NEW x \in Addresses
        PROVE  ImageIn(w, img)[x] = IF x \in 1 .. Chunks THEN <<img, x>>
                                   ELSE IF x = Reg THEN [w[Reg] EXCEPT ![1] = 0] ELSE w[x]
    BY DEF ImageIn
  <2>5. ASSUME NEW x \in Addresses PROVE AllAccessed(q, bulk)[x] = ImageIn(w, img)[x]
    <3>1. CASE x \in 1 .. Chunks
      BY <1>10, <2>1, <2>2, <2>4, <3>1
    <3>2. CASE x = Reg
      BY <1>10, <2>1, <2>2, <2>3, <2>4, <3>2
    <3>3. CASE x \in A
      BY <1>5, <1>7, <2>1, <2>3, <2>4, <3>3
    <3>4. CASE x \notin 1 .. Chunks /\ x # Reg /\ x \notin A
      BY <2>1, <2>2, <2>3, <2>4, <3>4
    <3> QED
      BY <3>1, <3>2, <3>3, <3>4
  <2> QED
    BY <2>3, <2>5
<1>12. AllAccessed(q, bulk) = ImageIn(AllAccessed(m, bulk), img)
  BY <1>9, <1>11 DEF Apart, Mems, ImageIn
<1> QED
  BY <1>3, <1>12 DEF Waiting

-----------------------------------------------------------------------------
(* The opening and closing of the link                                     *)

\* The stored requests, the modes and the counts are as they were.
Stores(s, t) ==
  /\ t \in Links /\ t.bulk = s.bulk
  /\ t.mode = s.mode /\ t.nb = s.nb /\ t.mode61 = s.mode61 /\ t.nb61 = s.nb61

LEMMA StaticStores ==
  ASSUME NEW s, NEW t, Static(s, t)
  PROVE  Stores(s, t) /\ t.type = s.type
  BY DEF Static, Stores

LEMMA StoresTwice ==
  ASSUME NEW s, NEW t, NEW u, Stores(s, t), Stores(t, u)
  PROVE  Stores(s, u)
  BY DEF Stores

Pinned(s, o) == o \in Outs /\ Static(s, o.s) /\ (Sync(s) => Sync(o.s))

AlsoPin(outs) == UNION {{[p EXCEPT !.ok = p.ok /\ o.ok] : p \in mcu_gpio_write(o.s)} : o \in outs}

LEMMA AlsoPinned ==
  ASSUME NEW s \in Links, NEW outs, \A o \in outs : Pinned(s, o), NEW x \in AlsoPin(outs)
  PROVE  Pinned(s, x)
<1>1. PICK o \in outs : x \in {[p EXCEPT !.ok = p.ok /\ o.ok] : p \in mcu_gpio_write(o.s)}
  BY DEF AlsoPin
<1>2. PICK p \in mcu_gpio_write(o.s) : x = [p EXCEPT !.ok = p.ok /\ o.ok]
  BY <1>1
<1>3. o \in Outs /\ o.s \in Links /\ Static(s, o.s) /\ (Sync(s) => Sync(o.s)) /\ o.ok \in BOOLEAN
  BY DEF Pinned, Outs
<1>4. p \in Outs /\ Static(o.s, p.s) /\ (Sync(o.s) => Sync(p.s)) /\ p.ok \in BOOLEAN
  BY <1>3, OtherRequests DEF Outs
<1>5. x \in Outs /\ x.s = p.s
  <2>1. PICK y \in BOOLEAN : y = (p.ok /\ o.ok)
    BY <1>3, <1>4
  <2>2. x = [p EXCEPT !.ok = y]
    BY <1>2, <2>1
  <2> QED
    BY <1>4, <2>2 DEF Outs
<1> QED
  BY <1>3, <1>4, <1>5, StaticTwice DEF Pinned

LEMMA ResetPinsIs ==
  ASSUME NEW s \in Links, NEW o \in ResetPins(s)
  PROVE  Pinned(s, o)
<1>1. \A x \in mcu_gpio_write(s) : Pinned(s, x)
  BY OtherRequests DEF Pinned
<1>2. \A x \in AlsoPin(mcu_gpio_write(s)) : Pinned(s, x)
  BY <1>1, AlsoPinned
<1>3. \A x \in AlsoPin(AlsoPin(mcu_gpio_write(s))) : Pinned(s, x)
  BY <1>2, AlsoPinned
<1>4. \A x \in AlsoPin(AlsoPin(AlsoPin(mcu_gpio_write(s)))) : Pinned(s, x)
  BY <1>3, AlsoPinned
<1>5. \A x \in AlsoPin(AlsoPin(AlsoPin(AlsoPin(mcu_gpio_write(s))))) : Pinned(s, x)
  BY <1>4, AlsoPinned
<1>6. ResetPins(s) = AlsoPin(AlsoPin(AlsoPin(AlsoPin(mcu_gpio_write(s)))))
  BY Zenon DEF ResetPins, Also, AlsoPin
<1> QED
  BY <1>5, <1>6

LEMMA AttribsIs ==
  ASSUME NEW s \in Links, NEW o \in set_interface_attribs_linux(s)
  PROVE  o \in Outs /\ Static(s, o.s) /\ (o.ok => o.s = s /\ s.alive)
<1>1. PICK G : G = UNION {Fails(t) : t \in Gone(s)}
  OBVIOUS
<1>2. set_interface_attribs_linux(s) = G \cup (IF s.alive THEN Succeeds(s) ELSE {})
  BY <1>1, Zenon DEF set_interface_attribs_linux
<1>3. o \in G \/ (s.alive /\ o \in Succeeds(s))
  BY <1>2
<1>4. CASE o \in G
  <2>1. PICK t \in Gone(s) : o \in Fails(t)
    BY <1>1, <1>4
  <2>2. Static(s, t) /\ t \in Links
    BY GoneIs DEF Static
  <2>3. o \in Outs /\ o.s = t /\ ~o.ok
    BY <2>1, <2>2, OutcomeIs
  <2> QED
    BY <2>2, <2>3
<1>5. CASE s.alive /\ o \in Succeeds(s)
  <2>1. o \in Outs /\ o.s = s
    BY <1>5, OutcomeIs
  <2> QED
    BY <1>5, <2>1, StaticItself
<1> QED
  BY <1>3, <1>4, <1>5

\* What opening a link leaves
Opened(s, o) == o \in Outs /\ Stores(s, o.s) /\ o.s.type = s.type /\ (o.ok => Ready(o.s))
\* The answers that waited are thrown away, and a ping that is answered shows that none
\* came late.
LEMMA UsbOpenIs ==
  ASSUME NEW s \in Links, s.type = "USB", NEW o \in lgw_usb_open(s)
  PROVE  Opened(s, o)
<1> DEFINE Pins(d) == {IF x.ok THEN x ELSE [x EXCEPT !.s.target = "freed"] : x \in ResetPins(d.s)}
           Status(c) == UNION {IF d.ok THEN Pins(d) ELSE {d} : d \in mcu_get_status(c.s)}
           Ping(b) == UNION {IF c.ok THEN Status(c) ELSE {c} : c \in mcu_ping([b.s EXCEPT !.target = "open"])}
           Blocking(a) == UNION {IF b.ok THEN Ping(b) ELSE {b} : b \in set_blocking_linux(EmptyTty(a.s))}
<1>1. PICK powered \in Links : powered = [s EXCEPT !.alive = TRUE]
  BY DEF Links
<1>2. Stores(s, powered) /\ powered.type = "USB"
  BY <1>1 DEF Links, Stores
<1>3. o \in UNION {IF a.ok THEN Blocking(a) ELSE {a} : a \in set_interface_attribs_linux(powered)}
  BY <1>1, Zenon DEF lgw_usb_open, Then
<1>4. PICK a \in set_interface_attribs_linux(powered) : o \in (IF a.ok THEN Blocking(a) ELSE {a})
  BY <1>3
<1>5. a \in Outs /\ Stores(s, a.s) /\ a.s.type = "USB" /\ (a.ok => a.s = powered) /\ a.s \in Links
  BY <1>2, <1>4, AttribsIs, StaticStores, StoresTwice DEF Outs
<1>6. CASE ~a.ok
  BY <1>4, <1>5, <1>6 DEF Opened
<1>7. CASE a.ok
  <2>1. PICK b \in set_blocking_linux(EmptyTty(a.s)) : o \in (IF b.ok THEN Ping(b) ELSE {b})
    BY <1>4, <1>7
  <2>2. PICK tty \in Seq(Late) : tty = a.s.late
    BY <1>5 DEF Links
  <2>3. tty \in Seq(Answers) /\ <<>> \in Seq(Late)
    <3>1. Late \subseteq Answers
      BY DEF Late, Answers, MsgKinds
    <3> QED
      BY <3>1, EmptySeq
  <2>4. PICK e \in Links : e = EmptyTty(a.s) /\ e.tty \in Seq(Late) /\ Stores(a.s, e) /\ e.type = "USB"
    <3>1. PICK e : e = [a.s EXCEPT !.tty = tty, !.late = <<>>]
      OBVIOUS
    <3>2. e \in Links /\ e.tty = tty /\ Stores(a.s, e) /\ e.type = "USB"
      BY <1>5, <2>3, <3>1 DEF Links, Stores
    <3>3. e = EmptyTty(a.s)
      BY <2>2, <3>1 DEF EmptyTty
    <3> QED
      BY <3>2, <3>3
  <2>5. b \in Outs /\ Static(e, b.s) /\ (b.ok => b.s = e)
    BY <2>1, <2>4, AttribsIs DEF set_blocking_linux
  <2>6. Stores(s, e)
    BY <1>5, <2>4, StoresTwice
  <2>7. CASE ~b.ok
    <3>1. o = b /\ Stores(s, b.s) /\ b.s.type = "USB"
      BY <2>1, <2>4, <2>5, <2>6, <2>7, StaticStores, StoresTwice
    <3> QED
      BY <2>5, <2>7, <3>1 DEF Opened
  <2>8. CASE b.ok
    <3>1. PICK f \in Links : f = [e EXCEPT !.target = "open"]
      BY <2>4 DEF Links, Targets
    <3>2. Stores(e, f) /\ f.type = "USB" /\ f.tty \in Seq(Late)
      BY <2>4, <3>1 DEF Links, Stores
    <3>3. PICK c \in mcu_ping(f) : o \in (IF c.ok THEN Status(c) ELSE {c})
      BY <2>1, <2>5, <2>8, <3>1
    <3>4. c \in Outs /\ Static(f, c.s) /\ (c.ok => Sync(c.s)) /\ c.s \in Links
      BY <3>2, <3>3, OtherRequests DEF Outs
    <3>5. Stores(s, c.s) /\ c.s.type = "USB"
      BY <2>6, <3>2, <3>4, StaticStores, StoresTwice
    <3>6. CASE ~c.ok
      BY <1>2, <3>3, <3>4, <3>5, <3>6 DEF Opened
    <3>7. CASE c.ok
      <4>1. PICK d \in mcu_get_status(c.s) : o \in (IF d.ok THEN Pins(d) ELSE {d})
        BY <3>3, <3>7
      <4>2. d \in Outs /\ Static(c.s, d.s) /\ Sync(d.s) /\ d.s \in Links
        BY <3>4, <3>7, <4>1, OtherRequests DEF Outs
      <4>3. Stores(s, d.s) /\ d.s.type = "USB"
        BY <3>5, <4>2, StaticStores, StoresTwice
      <4>4. CASE ~d.ok
        BY <4>1, <4>2, <4>3, <4>4 DEF Opened
      <4>5. CASE d.ok
        <5>1. PICK x \in ResetPins(d.s) : o = IF x.ok THEN x ELSE [x EXCEPT !.s.target = "freed"]
          BY <4>1, <4>5
        <5>2. x \in Outs /\ Static(d.s, x.s) /\ Sync(x.s) /\ x.s \in Links
          BY <4>2, ResetPinsIs DEF Pinned, Outs
        <5>3. Stores(s, x.s) /\ x.s.type = "USB"
          BY <4>3, <5>2, StaticStores, StoresTwice
        <5>4. CASE x.ok
          BY <5>1, <5>2, <5>3, <5>4 DEF Opened, Ready
        <5>5. CASE ~x.ok
          <6>1. PICK u \in Links : u = [x.s EXCEPT !.target = "freed"]
            BY <5>2 DEF Links, Targets
          <6>2. Stores(x.s, u) /\ u.type = "USB"
            BY <5>2, <5>3, <6>1 DEF Links, Stores
          <6>3. o \in Outs /\ o.s = u /\ ~o.ok
            BY <5>1, <5>2, <5>5, <6>1 DEF Outs
          <6>4. Stores(s, u)
            BY <5>3, <6>2, StoresTwice
          <6> QED
            BY <6>2, <6>3, <6>4 DEF Opened
        <5> QED
          BY <5>4, <5>5
      <4> QED
        BY <4>4, <4>5
    <3> QED
      BY <3>6, <3>7
  <2> QED
    BY <2>7, <2>8
<1> QED
  BY <1>6, <1>7

LEMMA SpiOpenIs ==
  ASSUME NEW s \in Links, s.type = "SPI", NEW o \in lgw_spi_open(s)
  PROVE  Opened(s, o)
<1>1. PICK powered \in Links : powered = [s EXCEPT !.alive = TRUE]
  BY DEF Links
<1>2. Stores(s, powered) /\ powered.type = "SPI"
  BY <1>1 DEF Links, Stores
<1>3. PICK G, A : G = UNION {Fails(t) : t \in Gone(powered)} /\ A = Succeeds([powered EXCEPT !.target = "open"])
  OBVIOUS
<1>4. o \in A \cup G
  BY <1>1, <1>3, Zenon DEF lgw_spi_open
<1>5. CASE o \in A
  <2>1. PICK t \in Links : t = [powered EXCEPT !.target = "open"]
    BY DEF Links, Targets
  <2>2. Stores(powered, t) /\ t.type = "SPI"
    BY <1>2, <2>1 DEF Links, Stores
  <2>3. o \in Outs /\ o.s = t
    BY <1>3, <1>5, <2>1, OutcomeIs
  <2> QED
    BY <1>2, <2>2, <2>3, StoresTwice DEF Opened, Ready
<1>6. CASE o \in G
  <2>1. PICK t \in Gone(powered) : o \in Fails(t)
    BY <1>3, <1>6
  <2>2. Static(powered, t) /\ t \in Links
    BY GoneIs DEF Static
  <2>3. o \in Outs /\ o.s = t /\ ~o.ok
    BY <2>1, <2>2, OutcomeIs
  <2> QED
    BY <1>2, <2>2, <2>3, StaticStores, StoresTwice DEF Opened
<1> QED
  BY <1>4, <1>5, <1>6

\* Closing a link: nothing but the tty, the device and the target changes.
LEMMA ComCloseIs ==
  ASSUME NEW s \in Links, NEW o \in lgw_com_close(s)
  PROVE  o \in Outs /\ Stores(s, o.s) /\ o.s.type = s.type
<1>1. ASSUME NEW x \in Fails(s) PROVE x \in Outs /\ Static(s, x.s)
  BY <1>1, OutcomeIs, StaticItself
<1>2. CASE s.target = "null"
  BY <1>1, <1>2, StaticStores DEF lgw_com_close
<1>3. CASE s.target # "null"
  <2>1. PICK x \in Dispatch(s, lgw_spi_close(s), lgw_usb_close(s)) : o = [x EXCEPT !.s.target = "null"]
    BY <1>3 DEF lgw_com_close
  <2>2. x \in Outs /\ Static(s, x.s) /\ x.s \in Links
    <3>1. CASE s.type = "SPI"
      <4>1. PICK G : G = UNION {Fails(t) : t \in Gone(s)}
        OBVIOUS
      <4>2. x \in Succeeds(s) \cup G
        BY <2>1, <3>1, <4>1, DispatchIs, Zenon DEF lgw_spi_close
      <4>3. CASE x \in Succeeds(s)
        BY <4>3, OutcomeIs, StaticItself
      <4>4. CASE x \in G
        <5>1. PICK t \in Gone(s) : x \in Fails(t)
          BY <4>1, <4>4
        <5>2. Static(s, t) /\ t \in Links
          BY GoneIs DEF Static
        <5> QED
          BY <5>1, <5>2, OutcomeIs
      <4> QED
        BY <4>2, <4>3, <4>4
    <3>2. CASE s.type = "USB"
      <4>1. x \in ResetPins(s)
        BY <2>1, <3>2, DispatchIs DEF lgw_usb_close
      <4> QED
        BY <4>1, ResetPinsIs DEF Pinned, Outs
    <3>3. CASE s.type \notin {"SPI", "USB"}
      <4>1. x \in Fails(s)
        BY <2>1, <3>3, DispatchIs
      <4> QED
        BY <1>1, <4>1 DEF Outs
    <3> QED
      BY <3>1, <3>2, <3>3
  <2>3. PICK u \in Links : u = [x.s EXCEPT !.target = "null"]
    BY <2>2 DEF Links, Targets
  <2>4. Stores(x.s, u) /\ u.type = x.s.type
    BY <2>2, <2>3 DEF Links, Stores
  <2>5. o \in Outs /\ o.s = u
    BY <2>1, <2>2, <2>3 DEF Outs
  <2> QED
    BY <2>2, <2>4, <2>5, StaticStores, StoresTwice
<1> QED
  BY <1>2, <1>3

LEMMA ComOpenIs ==
  ASSUME NEW s \in Links, NEW type \in {"SPI", "USB"}, NEW o \in lgw_com_open(s, type)
  PROVE  o \in Outs /\ Stores(s, o.s) /\ o.s.type = type /\ (o.ok => Ready(o.s))
<1> DEFINE Closed == IF s.target = "null" THEN {s} ELSE {x.s : x \in lgw_com_close(s)}
<1>1. PICK c \in Closed : o \in Dispatch([c EXCEPT !.type = type], lgw_spi_open([c EXCEPT !.type = type]), lgw_usb_open([c EXCEPT !.type = type]))
  BY DEF lgw_com_open
<1>2. c \in Links /\ Stores(s, c)
  <2>1. CASE c = s
    BY <2>1, StaticItself, StaticStores
  <2>2. CASE \E x \in lgw_com_close(s) : c = x.s
    BY <2>2, ComCloseIs DEF Stores
  <2> QED
    BY <2>1, <2>2
<1>3. PICK t \in Links : t = [c EXCEPT !.type = type]
  BY <1>2 DEF Links
<1>4. Stores(c, t) /\ t.type = type
  BY <1>2, <1>3 DEF Links, Stores
<1>5. o \in Dispatch(t, lgw_spi_open(t), lgw_usb_open(t))
  BY <1>1, <1>3
<1>6. Opened(t, o)
  BY <1>4, <1>5, DispatchIs, SpiOpenIs, UsbOpenIs
<1> QED
  BY <1>2, <1>4, <1>6, StoresTwice DEF Opened

LEMMA ConnectIs ==
  ASSUME NEW s \in Links, NEW type \in {"SPI", "USB"}, NEW o \in lgw_connect(s, type)
  PROVE  o \in Outs /\ Stores(s, o.s) /\ o.ok \in BOOLEAN /\ (o.ok => Ready(o.s))
<1>1. PICK p \in lgw_com_open(s, type) : o \in (IF p.ok THEN lgw_com_r(p.s, Reg) ELSE {p})
  BY DEF lgw_connect, Then
<1>2. p \in Outs /\ Stores(s, p.s) /\ (p.ok => Ready(p.s)) /\ p.s \in Links
  BY ComOpenIs DEF Stores
<1>3. CASE ~p.ok
  BY <1>1, <1>2, <1>3 DEF Outs
<1>4. CASE p.ok
  <2>1. Did(p.s, o, ReadOp(Reg))
    BY <1>1, <1>2, <1>4, AddressesAre, ComReadIs
  <2>2. o \in Outs /\ Static(p.s, o.s) /\ Ready(o.s)
    BY <2>1 DEF Did
  <2> QED
    BY <1>2, <2>2, StaticStores, StoresTwice DEF Outs
<1> QED
  BY <1>3, <1>4

-----------------------------------------------------------------------------
(* The process that uses the link                                          *)

\* While nothing failed, the stored requests are those of one of the two modes, and none
\* once the link is closed; an open link gets the answer to its request.
LinkInv ==
  /\ link \in Links /\ open \in BOOLEAN /\ failed \in BOOLEAN
  /\ open => Ready(link)
  /\ ~failed => Stored(link)
  /\ ~failed /\ ~open => Nothing(link)
  /\ LinkRight

LEMMA LinkStarts == LinkInit => LinkInv
<1> SUFFICES ASSUME LinkInit PROVE LinkInv
  OBVIOUS
<1>1. link \in Links
  <2>1. <<>> \in Seq(Answers) /\ <<>> \in Seq(Late) /\ <<>> \in Seq(Ops)
    BY EmptySeq
  <2> QED
    BY <2>1, ZeroByte DEF LinkInit, FreshLink, NewProcess, Links, Targets
<1>2. Nothing(link)
  BY DEF LinkInit, FreshLink, NewProcess, Nothing
<1> QED
  BY <1>1, <1>2 DEF LinkInit, LinkInv, Stored, LinkRight, LinkFaithful, FirmwareIntact

\* An operation on an open link
LEMMA OperationKeeps ==
  ASSUME LinkInv, open, open' = open, NEW name, NEW outs, NEW w, Operation(name, outs, w),
         \A o \in outs : /\ Sane(o) /\ (~failed => Leaves(o, w))
                         /\ name = "read" /\ o.ok => o.val = o.s.mem[Reg]
                         /\ name = "load" /\ o.ok => \E img \in Images : \A n \in 1 .. Chunks : o.s.mem[n] = <<img, n>>
  PROVE  LinkInv'
<1>1. PICK o \in outs :
        /\ link' = o.s
        /\ ret' = [op |-> name, ok |-> o.ok, val |-> IF name = "read" THEN o.val ELSE <<0, 0>>]
        /\ failed' = (failed \/ ~o.ok)
        /\ want' = IF failed' THEN Reset ELSE w
  BY DEF Operation
<1>2. Sane(o) /\ (~failed => Leaves(o, w))
  BY <1>1
<1>3. link' \in Links /\ o.ok \in BOOLEAN /\ Ready(link') /\ failed' \in BOOLEAN /\ open' \in BOOLEAN
  BY <1>1, <1>2 DEF Sane, Outs, LinkInv
<1>4. ~failed' => o.ok /\ Stored(link') /\ want' = w /\ Waiting(link') = w
  BY <1>1, <1>2 DEF Leaves
<1>5. LinkFaithful'
  <2>1. ASSUME ~failed', ret'.op = "read" PROVE ret'.val = link'.mem[Reg]
    BY <1>1, <1>4, <2>1
  <2> QED
    BY <1>4, <2>1 DEF LinkFaithful, Waiting
<1>6. FirmwareIntact'
  <2>1. ASSUME ret'.op = "load", ret'.ok PROVE \E img \in Images : \A n \in 1 .. Chunks : link'.mem[n] = <<img, n>>
    <3>1. name = "load" /\ o.ok
      BY <1>1, <2>1
    <3>2. \E img \in Images : \A n \in 1 .. Chunks : o.s.mem[n] = <<img, n>>
      BY <3>1
    <3> QED
      BY <1>1, <3>2
  <2> QED
    BY <2>1 DEF FirmwareIntact
<1>7. open' = TRUE
  BY DEF LinkInv
<1> QED
  BY <1>3, <1>4, <1>5, <1>6, <1>7 DEF LinkInv, LinkRight

\* What the operations on a usable link find
LEMMA UsableIs ==
  ASSUME LinkInv, Usable
  PROVE  link \in Links /\ Ready(link) /\ Stored(link) /\ want = Waiting(link) /\ want \in Mems /\ open /\ ~failed
<1>1. link \in Links /\ Ready(link) /\ Stored(link) /\ want = Waiting(link)
  BY DEF LinkInv, Usable, LinkRight, LinkFaithful, Waiting
<1>2. link.mem \in Mems /\ link.bulk \in Seq(Ops)
  BY <1>1 DEF Links
<1> QED
  BY <1>1, <1>2, AllAccessedType DEF Usable, Waiting

\* An operation of which the outcomes are known by what they leave
LEMMA OtherKeeps ==
  ASSUME LinkInv, Usable, open' = open, NEW outs, NEW w, Operation("other", outs, w), \A o \in outs : Leaves(o, w)
  PROVE  LinkInv'
<1>1. \A o \in outs : Sane(o)
  BY DEF Leaves
<1>2. PICK name : name = "other"
  OBVIOUS
<1> QED
  BY <1>1, <1>2, OperationKeeps DEF Usable

LEMMA ValuesAre == Values \cup RadioValues \cup Images \subseteq Vals
  BY DEF Vals

LEMMA ConnectKeeps ==
  ASSUME LinkInv, NEW type \in {"SPI", "USB"}, Connect(type)
  PROVE  LinkInv'
<1>1. PICK o \in lgw_connect(link, type) :
        /\ link' = o.s /\ open' = o.ok
        /\ ret' = [op |-> "other", ok |-> o.ok, val |-> <<0, 0>>]
        /\ failed' = (failed \/ ~o.ok)
        /\ want' = IF failed' THEN Reset ELSE o.s.mem
  BY DEF Connect
<1>2. o \in Outs /\ Stores(link, o.s) /\ o.ok \in BOOLEAN /\ (o.ok => Ready(o.s))
  BY ConnectIs DEF LinkInv
<1>3. link' \in Links /\ open' \in BOOLEAN /\ failed' \in BOOLEAN /\ (open' => Ready(link'))
  BY <1>1, <1>2 DEF Stores, LinkInv
<1>4. ~failed' => Nothing(link') /\ Stored(link')
  <2>1. ~open
    BY DEF Connect
  <2> QED
    BY <1>1, <1>2, <2>1 DEF LinkInv, Nothing, Stores, Stored
<1>5. LinkFaithful'
  <2>1. SUFFICES ASSUME open', ~failed' PROVE AllAccessed(link'.mem, link'.bulk) = want' /\ ret'.op # "read"
    BY DEF LinkFaithful
  <2>2. link'.bulk = <<>> /\ link'.mem \in Mems /\ want' = link'.mem /\ ret'.op = "other"
    BY <1>1, <1>3, <1>4, <2>1 DEF Nothing, Links
  <2> QED
    BY <2>2, NoAccess
<1>6. FirmwareIntact'
  BY <1>1 DEF FirmwareIntact
<1> QED
  BY <1>3, <1>4, <1>5, <1>6 DEF LinkInv, LinkRight

LEMMA DisconnectKeeps ==
  ASSUME LinkInv, Disconnect
  PROVE  LinkInv'
<1>1. PICK o \in lgw_com_close(link) :
        link' = o.s /\ ret'.op = "other" /\ failed' = (failed \/ ~o.ok)
  BY DEF Disconnect, Operation, lgw_disconnect
<1>2. o \in Outs /\ Stores(link, o.s)
  BY ComCloseIs DEF LinkInv
<1>3. link' \in Links /\ open' = FALSE /\ failed' \in BOOLEAN
  BY <1>1, <1>2 DEF Stores, LinkInv, Disconnect, Outs
<1>4. ~failed' => Nothing(link') /\ Stored(link')
  <2>1. ASSUME ~failed' PROVE Nothing(link)
    <3>1. ~failed /\ Stored(link) /\ link.mode # "bulk" /\ link.mode61 # "bulk"
      BY <1>1, <2>1 DEF LinkInv, Disconnect
    <3> QED
      BY <3>1 DEF Stored, ForReg, ForSx
  <2> QED
    BY <1>1, <1>2, <2>1 DEF Nothing, Stores, Stored
<1> QED
  BY <1>1, <1>3, <1>4 DEF LinkInv, LinkRight, LinkFaithful, FirmwareIntact

LEMMA CrashKeeps ==
  ASSUME LinkInv, Crash
  PROVE  LinkInv'
<1>1. PICK kind \in {"none", "gpio", "spi"}, late \in BOOLEAN :
        LET answer == IF kind = "none" THEN <<>> ELSE <<[kind |-> kind, good |-> TRUE, val |-> <<0, 0>>]>>
            waiting == link.tty \o link.late
        IN  link' = NewProcess(IF late THEN link.tty ELSE waiting \o answer,
                               IF late THEN link.late \o answer ELSE <<>>, link.faults, link.mem)
  BY DEF Crash
<1>2. PICK answer \in Seq(Late) : answer = IF kind = "none" THEN <<>> ELSE <<[kind |-> kind, good |-> TRUE, val |-> <<0, 0>>]>>
  <2>1. CASE kind = "none"
    BY <2>1, EmptySeq
  <2>2. CASE kind # "none"
    <3>1. PICK a \in Late : a = [kind |-> kind, good |-> TRUE, val |-> <<0, 0>>]
      BY <2>2, ZeroByte DEF Late
    <3>2. <<a>> \in Seq(Late)
      OBVIOUS
    <3> QED
      BY <2>2, <3>1, <3>2
  <2> QED
    BY <2>1, <2>2
<1>3. link \in Links /\ Late \subseteq Answers
  BY DEF LinkInv, Late, Answers, MsgKinds
<1>4. link.tty \in Seq(Answers) /\ link.late \in Seq(Late) /\ link.late \in Seq(Answers) /\ answer \in Seq(Answers)
  BY <1>2, <1>3 DEF Links
<1>5. PICK waiting \in Seq(Answers) : waiting = link.tty \o link.late
  BY <1>4, ConcatProperties
<1>6. PICK tty \in Seq(Answers) : tty = IF late THEN link.tty ELSE waiting \o answer
  BY <1>4, <1>5, ConcatProperties
<1>7. PICK after \in Seq(Late) : after = IF late THEN link.late \o answer ELSE <<>>
  BY <1>2, <1>4, ConcatProperties, EmptySeq
<1>8. link' = NewProcess(tty, after, link.faults, link.mem)
  BY <1>1, <1>2, <1>5, <1>6, <1>7
<1>9. link' \in Links /\ Nothing(link')
  <2>1. link.faults \in Nat /\ link.mem \in Mems /\ <<>> \in Seq(Ops)
    BY <1>3, EmptySeq DEF Links
  <2> QED
    BY <1>8, <2>1 DEF NewProcess, Links, Targets, Nothing
<1>10. open' = FALSE /\ failed' = FALSE /\ ret'.op = "crash"
  BY DEF Crash
<1> QED
  BY <1>9, <1>10 DEF LinkInv, Stored, LinkRight, LinkFaithful, FirmwareIntact

LEMMA RegistersKeep ==
  ASSUME LinkInv, \/ \E f \in 0 .. 1, v \in Values : WriteRegister(f, v)
                  \/ \E v \in Values : WriteBurst(v)
                  \/ ReadRegister
  PROVE  LinkInv'
<1>1. ASSUME NEW f \in 0 .. 1, NEW v \in Values, WriteRegister(f, v) PROVE LinkInv'
  <2>1. Usable /\ open' = open /\ v \in Vals
    BY <1>1, ValuesAre DEF WriteRegister
  <2>2. link \in Links /\ Ready(link) /\ Stored(link) /\ want = Waiting(link) /\ want \in Mems
    BY <2>1, UsableIs
  <2>3. PICK w : w = IF f = 0 THEN [want EXCEPT ![Reg] = <<v, v>>] ELSE [want EXCEPT ![Reg][f] = v]
    OBVIOUS
  <2>4. Operation("other", lgw_reg_w(link, f, v), w)
    BY <1>1, <2>3 DEF WriteRegister
  <2>5. w = Accessed(want, RegOp(f, v))
    BY <2>1, <2>2, <2>3, RegOpIs
  <2>6. \A o \in lgw_reg_w(link, f, v) : Leaves(o, w)
    BY <2>1, <2>2, <2>5, WriteRegisterLeaves
  <2> QED
    BY <2>1, <2>4, <2>6, OtherKeeps
<1>2. ASSUME NEW v \in Values, WriteBurst(v) PROVE LinkInv'
  <2>1. Usable /\ open' = open /\ v \in Vals
    BY <1>2, ValuesAre DEF WriteBurst
  <2>2. link \in Links /\ Ready(link) /\ Stored(link) /\ want = Waiting(link) /\ want \in Mems
    BY <2>1, UsableIs
  <2>3. PICK w : w = [want EXCEPT ![Reg] = <<v, v>>]
    OBVIOUS
  <2>4. Operation("other", lgw_reg_wb(link, v), w)
    BY <1>2, <2>3 DEF WriteBurst
  <2>5. w = Accessed(want, RegOp(0, v))
    <3>1. PICK f \in 0 .. 1 : f = 0
      OBVIOUS
    <3>2. Accessed(want, RegOp(f, v)) = IF f = 0 THEN [want EXCEPT ![Reg] = <<v, v>>] ELSE [want EXCEPT ![Reg][f] = v]
      BY <2>1, <2>2, RegOpIs
    <3> QED
      BY <2>3, <3>1, <3>2
  <2>6. \A o \in lgw_reg_wb(link, v) : Leaves(o, w)
    BY <2>1, <2>2, <2>5, WriteBurstLeaves
  <2> QED
    BY <2>1, <2>4, <2>6, OtherKeeps
<1>3. ASSUME ReadRegister PROVE LinkInv'
  <2>1. Usable /\ open' = open /\ open /\ Operation("read", lgw_reg_r(link) \cup lgw_reg_rb(link), want)
    BY <1>3 DEF ReadRegister, Usable
  <2>2. link \in Links /\ Ready(link) /\ Stored(link) /\ want = Waiting(link)
    BY <2>1, UsableIs
  <2>3. \A o \in lgw_reg_r(link) \cup lgw_reg_rb(link) : Leaves(o, want) /\ (o.ok => o.val = o.s.mem[Reg]) /\ Sane(o)
    BY <2>2, ReadRegisterLeaves DEF Leaves
  <2>4. PICK name : name = "read"
    OBVIOUS
  <2> QED
    BY <2>1, <2>3, <2>4, OperationKeeps
<1> QED
  BY <1>1, <1>2, <1>3

LEMMA OthersKeep ==
  ASSUME LinkInv, \/ \E v \in RadioValues : WriteRadio(1, v)
                  \/ \E v \in RadioValues : WriteSx1261(v)
                  \/ StartBulk
                  \/ Flush
                  \/ Temperature
  PROVE  LinkInv'
<1>1. Usable /\ open' = open
  BY DEF WriteRadio, WriteSx1261, StartBulk, Flush, Temperature
<1>2. link \in Links /\ Ready(link) /\ Stored(link) /\ want = Waiting(link)
  BY <1>1, UsableIs
<1>3. ASSUME NEW v \in RadioValues, WriteRadio(1, v) PROVE LinkInv'
  <2>1. v \in Vals /\ 1 \in 1 .. 2
    BY <1>3, ValuesAre
  <2>2. /\ \A o \in sx1250_reg_w(link, <<v, v>>) : Leaves(o, [want EXCEPT ![RadioReg] = <<v, v>>])
        /\ \A o \in sx125x_reg_w(link, 1, v) : Leaves(o, [want EXCEPT ![RadioReg][1] = v])
        /\ \A o \in sx1250_reg_r(link) : Leaves(o, want)
    BY <1>2, <2>1, WriteRadioLeaves
  <2>3. CASE Operation("other", sx1250_reg_w(link, <<v, v>>), [want EXCEPT ![RadioReg] = <<v, v>>])
    BY <1>1, <2>2, <2>3, OtherKeeps
  <2>4. CASE Operation("other", sx125x_reg_w(link, 1, v), [want EXCEPT ![RadioReg][1] = v])
    BY <1>1, <2>2, <2>4, OtherKeeps
  <2>5. CASE Operation("other", sx1250_reg_r(link), want)
    BY <1>1, <2>2, <2>5, OtherKeeps
  <2> QED
    BY <1>3, <2>3, <2>4, <2>5 DEF WriteRadio
<1>4. ASSUME NEW v \in RadioValues, WriteSx1261(v) PROVE LinkInv'
  <2>1. v \in Vals
    BY <1>4, ValuesAre
  <2>2. /\ \A o \in sx1261_com_open(link) : Leaves(o, want)
        /\ \A o \in sx1261_com_close(link) : Leaves(o, want)
        /\ \A o \in sx1261_com_r(link) : Leaves(o, want)
        /\ \A o \in sx1261_com_w(link, <<v, v>>) : Leaves(o, [want EXCEPT ![SxReg] = <<v, v>>])
    BY <1>2, <2>1, WriteSx1261Leaves
  <2>3. CASE Operation("other", sx1261_com_open(link), want)
    BY <1>1, <2>2, <2>3, OtherKeeps
  <2>4. CASE Operation("other", sx1261_com_w(link, <<v, v>>), [want EXCEPT ![SxReg] = <<v, v>>])
    BY <1>1, <2>2, <2>4, OtherKeeps
  <2>5. CASE Operation("other", sx1261_com_r(link), want)
    BY <1>1, <2>2, <2>5, OtherKeeps
  <2>6. CASE Operation("other", sx1261_com_close(link), want)
    BY <1>1, <2>2, <2>6, OtherKeeps
  <2> QED
    BY <1>4, <2>3, <2>4, <2>5, <2>6 DEF WriteSx1261
<1>5. ASSUME StartBulk PROVE LinkInv'
  <2>1. CASE link.mode61 = "single" /\ Operation("other", lgw_com_set_write_mode(link, "bulk"), want)
    <3>1. \A o \in lgw_com_set_write_mode(link, "bulk") : Leaves(o, want)
      BY <1>2, <2>1, StartBulkLeaves
    <3> QED
      BY <1>1, <2>1, <3>1, OtherKeeps
  <2>2. CASE link.mode = "single" /\ Operation("other", sx1261_com_set_write_mode(link, "bulk"), want)
    <3>1. \A o \in sx1261_com_set_write_mode(link, "bulk") : Leaves(o, want)
      BY <1>2, <2>2, StartBulkLeaves
    <3> QED
      BY <1>1, <2>2, <3>1, OtherKeeps
  <2> QED
    BY <1>5, <2>1, <2>2 DEF StartBulk
<1>6. ASSUME Flush PROVE LinkInv'
  <2>1. CASE link.mode = "bulk" /\ Operation("other", lgw_com_flush(link), want)
    <3>1. \A o \in lgw_com_flush(link) : Leaves(o, want)
      BY <1>2, <2>1, FlushLeaves
    <3> QED
      BY <1>1, <2>1, <3>1, OtherKeeps
  <2>2. CASE link.mode61 = "bulk" /\ Operation("other", sx1261_com_flush(link), want)
    <3>1. \A o \in sx1261_com_flush(link) : Leaves(o, want)
      BY <1>2, <2>2, FlushLeaves
    <3> QED
      BY <1>1, <2>2, <3>1, OtherKeeps
  <2> QED
    BY <1>6, <2>1, <2>2 DEF Flush
<1>7. ASSUME Temperature PROVE LinkInv'
  <2>1. \A o \in lgw_com_get_temperature(link) : Leaves(o, want)
    BY <1>2, TemperatureLeaves
  <2>2. Operation("other", lgw_com_get_temperature(link), want)
    BY <1>7 DEF Temperature
  <2> QED
    BY <1>1, <2>1, <2>2, OtherKeeps
<1> QED
  BY <1>3, <1>4, <1>5, <1>6, <1>7

LEMMA LoadKeeps ==
  ASSUME LinkInv, NEW img \in Images, LoadFirmware(img)
  PROVE  LinkInv'
<1>1. PICK outs : outs = sx1302_agc_load_firmware(link, img) \cup sx1302_arb_load_firmware(link, img)
  OBVIOUS
<1>2. outs = sx1302_agc_load_firmware(link, img)
  BY <1>1 DEF sx1302_arb_load_firmware
<1>3. open /\ open' = open /\ link \in Links /\ Ready(link) /\ link.mode # "bulk"
      /\ Operation("load", outs, ImageIn(want, img))
  BY <1>1 DEF LoadFirmware, LinkInv, ImageIn
<1>4. ASSUME NEW o \in outs
      PROVE  Sane(o) /\ (o.ok => \A n \in 1 .. Chunks : o.s.mem[n] = <<img, n>>)
  BY <1>2, <1>3, LoadIs DEF Loaded
<1>5. ASSUME ~failed, NEW o \in outs PROVE Leaves(o, ImageIn(want, img))
  <2>1. Stored(link) /\ want = Waiting(link)
    BY <1>3, <1>5, UsableIs DEF Usable
  <2> QED
    BY <1>2, <1>3, <2>1, LoadLeaves
<1>6. PICK name : name = "load"
  OBVIOUS
<1> QED
  BY <1>3, <1>4, <1>5, <1>6, OperationKeeps

\* What the HAL believes of the memory behind the link is so: the writes it was told have
\* succeeded are in it, the reads return what is in it, and a load that reported success
\* left the whole image, although lgw_mem_wb and lgw_mem_rb forget the failure of every
\* burst but the last.
THEOREM LinkStaysRight == LinkSpec => []LinkRight
<1>1. LinkInit => LinkInv
  BY LinkStarts
<1>2. LinkInv /\ [LinkNext]_linkVars => LinkInv'
  <2> SUFFICES ASSUME LinkInv, [LinkNext]_linkVars PROVE LinkInv'
    OBVIOUS
  <2>1. CASE \E type \in {"SPI", "USB"} : Connect(type)
    BY <2>1, ConnectKeeps
  <2>2. CASE Disconnect
    BY <2>2, DisconnectKeeps
  <2>3. CASE \/ \E f \in 0 .. 1, v \in Values : WriteRegister(f, v)
             \/ \E v \in Values : WriteBurst(v)
             \/ ReadRegister
    BY <2>3, RegistersKeep
  <2>4. CASE \/ \E v \in RadioValues : WriteRadio(1, v)
             \/ \E v \in RadioValues : WriteSx1261(v)
             \/ StartBulk
             \/ Flush
             \/ Temperature
    BY <2>4, OthersKeep
  <2>5. CASE \E img \in Images : LoadFirmware(img)
    BY <2>5, LoadKeeps
  <2>6. CASE Crash
    BY <2>6, CrashKeeps
  <2>7. CASE UNCHANGED linkVars
    BY <2>7 DEF linkVars, LinkInv, LinkRight, LinkFaithful, FirmwareIntact
  <2> QED
    BY <2>1, <2>2, <2>3, <2>4, <2>5, <2>6, <2>7, Zenon DEF LinkNext
<1>3. LinkInv => LinkRight
  BY DEF LinkInv
<1> QED
  BY <1>1, <1>2, <1>3, PTL DEF LinkSpec
=============================================================================
