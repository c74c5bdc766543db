------------------------------ MODULE HalProofs ------------------------------
(***************************************************************************)
(* Five parts of what the host does with the concentrator.                 *)
(*                                                                         *)
(* The start of the MCUs: a stage the host has gone past was taken by the  *)
(* AGC with the parameters the host chose.  The host compares the echo of  *)
(* the AGC, not the mailbox, so one failed access in a stage could spoil   *)
(* the mailbox, or the reading of the echo, but not both.  That the        *)
(* reading of a byte cannot fail unnoticed where the mailbox was not       *)
(* written either rests on the bytes of the stages, which the first lemmas *)
(* are about: the one byte the host checks without writing it differs from *)
(* the byte before it, which val still holds.  And a notification that is  *)
(* lost cannot be mistaken for that of another stage, because no two       *)
(* stages have the same.                                                   *)
(*                                                                         *)
(* The configuration: whatever the file holds, the program and the HAL     *)
(* agree on it.                                                            *)
(*                                                                         *)
(* The fine timestamp: the ring of pulses holds them in order and a second *)
(* apart or more, so one of them is the last before the packet, or none is *)
(* and the host finds none.                                                *)
(*                                                                         *)
(* Listening: a decision of the AGC that lgw_send has not yet fetched is   *)
(* one on its own packet, because the status is cleared and acknowledged   *)
(* before the call returns; and every way of tuning the SX1261 aborts a    *)
(* scan first, also when the commands were only stored and are sent later. *)
(*                                                                         *)
(* The control: between two calls the tables of gains are right, the radio *)
(* the chip is clocked by is not held in reset, and a concentrator that    *)
(* runs has the configuration the HAL holds.  A start writes its blocks in *)
(* an order in which none spoils another; a start that fails, the stop and *)
(* an emission leave at least the tables and the clock right.              *)
(***************************************************************************)
EXTENDS HalMcu, FineTime, Config, Listen, HalControl, SequenceTheorems, FiniteSetTheorems,
        WellFoundedInduction, TLAPS

\* The stages of the AGC's start, one by one.
LEMMA StageList ==
  LET gains == <<255, 255, FullDuplex>>
  IN  /\ Stages[1] = Stage(gains, P(2, 3), 3, 128, 2) /\ Stages[2] = Stage(gains, P(2, 3), 3, 32, 3)
      /\ Stages[3] = Stage(<<P(1, 0), P(13, 9)>>, 2, 2, 3, 4)
      /\ Stages[4] = Stage(<<P(3, 16), P(12, 35)>>, 2, 2, 4, 5)
      /\ Stages[5] = Stage(<<P(4, 7), P(15, 11)>>, 2, 2, 5, 6)
      /\ Stages[6] = Stage(<<P(40, 45), P(80, 100), P(90, 115)>>, 3, 3, 6, 7)
      /\ Stages[7] = Stage(<<4, 14>>, 2, 2, 7, 8) /\ Stages[8] = Stage(<<52, 132>>, 2, 2, 8, 9)
      /\ Sx1250 => /\ Len(Stages) = 11 /\ Stages[9] = Stage(<<0, 7, 4>>, 3, 3, 9, 10)
                   /\ Stages[10] = Stage(<<8>>, 1, 1, 10, 11) /\ Stages[11] = Stage(<<Lbt>>, 1, 1, 11, 15)
      /\ ~Sx1250 => /\ Len(Stages) = 10 /\ Stages[9] = Stage(<<8>>, 1, 1, 10, 11)
                    /\ Stages[10] = Stage(<<Lbt>>, 1, 1, 11, 15)
<1> USE DEF Stages, RadioGains, AnalogParams, DecimatorParams, ChannelParams, PaParams, AutoGain
<1>1. CASE Sx1250
  BY <1>1
<1>2. CASE ~Sx1250
  BY <1>2
<1> QED
  BY <1>1, <1>2

\* What the handshake rests on: every byte of a stage is checked; a byte that is not
\* written differs from the one before it; no two stages have the same notification or
\* the same status.
StageShape(s) ==
  /\ Len(s.bytes) \in 1 .. 3 /\ s.bytes \in Seq(Int)
  /\ s.checked = Len(s.bytes) /\ s.written \in 1 .. s.checked
  /\ \A k \in s.written + 1 .. s.checked : s.bytes[k] # s.bytes[k - 1]
  /\ s.note \in 3 .. 128 /\ s.next \in 2 .. 15

\* The shape follows from the bytes, for a stage of one, two or three of them.
LEMMA ShapeOf ==
  ASSUME NEW bytes \in Seq(Int), NEW w \in Nat, NEW c \in Nat,
         NEW note \in 3 .. 128, NEW next \in 2 .. 15,
         c = Len(bytes), c \in 1 .. 3, w \in 1 .. c,
         \A k \in w + 1 .. c : bytes[k] # bytes[k - 1]
  PROVE  StageShape(Stage(bytes, w, c, note, next))
<1>1. PICK s : s = Stage(bytes, w, c, note, next)
  OBVIOUS
<1>2. s.bytes = bytes /\ s.written = w /\ s.checked = c /\ s.note = note /\ s.next = next
  BY <1>1 DEF Stage
<1>3. Len(s.bytes) \in 1 .. 3 /\ s.bytes \in Seq(Int)
  BY <1>2
<1>4. s.checked = Len(s.bytes) /\ s.written \in 1 .. s.checked
  BY <1>2
<1>5. \A k \in s.written + 1 .. s.checked : s.bytes[k] # s.bytes[k - 1]
  BY <1>2
<1>6. s.note \in 3 .. 128 /\ s.next \in 2 .. 15
  BY <1>2
<1>7. StageShape(s)
  BY <1>3, <1>4, <1>5, <1>6, Zenon DEF StageShape
<1> QED
  BY <1>1, <1>7

LEMMA ShapeOne ==
  ASSUME NEW a \in Int, NEW note \in 3 .. 128, NEW next \in 2 .. 15
  PROVE  StageShape(Stage(<<a>>, 1, 1, note, next))
<1>1. /\ <<a>> \in Seq(Int) /\ Len(<<a>>) = 1 /\ Len(<<a>>) \in 1 .. 3
      /\ 1 \in 1 .. Len(<<a>>) /\ \A k \in 1 + 1 .. 1 : <<a>>[k] # <<a>>[k - 1]
  OBVIOUS
<1> QED
  BY <1>1, ShapeOf

LEMMA ShapeTwo ==
  ASSUME NEW a \in Int, NEW b \in Int, NEW note \in 3 .. 128, NEW next \in 2 .. 15
  PROVE  StageShape(Stage(<<a, b>>, 2, 2, note, next))
<1>1. /\ <<a, b>> \in Seq(Int) /\ Len(<<a, b>>) = 2 /\ Len(<<a, b>>) \in 1 .. 3
      /\ 2 \in 1 .. Len(<<a, b>>) /\ \A k \in 2 + 1 .. 2 : <<a, b>>[k] # <<a, b>>[k - 1]
  OBVIOUS
<1> QED
  BY <1>1, ShapeOf

LEMMA ShapeThree ==
  ASSUME NEW a \in Int, NEW b \in Int, NEW c \in Int, NEW note \in 3 .. 128, NEW next \in 2 .. 15
  PROVE  StageShape(Stage(<<a, b, c>>, 3, 3, note, next))
<1>1. /\ <<a, b, c>> \in Seq(Int) /\ Len(<<a, b, c>>) = 3 /\ Len(<<a, b, c>>) \in 1 .. 3
      /\ 3 \in 1 .. Len(<<a, b, c>>) /\ \A k \in 3 + 1 .. 3 : <<a, b, c>>[k] # <<a, b, c>>[k - 1]
  OBVIOUS
<1> QED
  BY <1>1, ShapeOf

\* The gains: the duplex mode, which SX1250 does not write, is not the gain before it.
LEMMA ShapeGains ==
  ASSUME NEW note \in 3 .. 128, NEW next \in 2 .. 15
  PROVE  StageShape(Stage(<<255, 255, FullDuplex>>, P(2, 3), 3, note, next))
<1> DEFINE gains == <<255, 255, FullDuplex>>
<1>1. FullDuplex \in 0 .. 1 /\ FullDuplex # 255
  BY McuAssumption
<1>2. /\ gains \in Seq(Int) /\ 3 = Len(gains) /\ 3 \in 1 .. 3 /\ 2 \in 1 .. 3
      /\ 2 \in Nat /\ 3 \in Nat
  BY <1>1
<1>3. /\ \A k \in 2 + 1 .. 3 : gains[k] # gains[k - 1]
      /\ \A k \in 3 + 1 .. 3 : gains[k] # gains[k - 1]
  BY <1>1
<1> HIDE DEF gains
<1>4. StageShape(Stage(gains, 2, 3, note, next))
  BY <1>2, <1>3, ShapeOf, Zenon
<1>5. StageShape(Stage(gains, 3, 3, note, next))
  BY <1>2, <1>3, ShapeOf, Zenon
<1> QED
  BY <1>4, <1>5 DEF P, gains

\* Every stage has the shape, and no notification or status is used twice.
LEMMA StagesRight ==
  /\ Len(Stages) \in Nat /\ Len(Stages) >= 2
  /\ \A i \in 1 .. Len(Stages) : StageShape(Stages[i])
  /\ \A i, j \in 1 .. Len(Stages) :
       i # j => Stages[i].note # Stages[j].note /\ Stages[i].next # Stages[j].next
<1>1. \A bytes, w, c, note, next :
        /\ Stage(bytes, w, c, note, next).note = note /\ Stage(bytes, w, c, note, next).next = next
        /\ Stage(bytes, w, c, note, next).bytes = bytes
        /\ Stage(bytes, w, c, note, next).written = w /\ Stage(bytes, w, c, note, next).checked = c
  BY DEF Stage
<1> DEFINE N == Len(Stages)
           Note(i) == IF i = 1 THEN 128 ELSE IF i = 2 THEN 32 ELSE IF Sx1250 \/ i < 9 THEN i ELSE i + 1
           Next(i) == IF i = N THEN 15 ELSE IF Sx1250 \/ i < 9 THEN i + 1 ELSE i + 2
<1>2. N = IF Sx1250 THEN 11 ELSE 10
  BY StageList
<1>3. \A i \in 1 .. N : Stages[i].note = Note(i) /\ Stages[i].next = Next(i)
  <2>1. ASSUME NEW i \in 1 .. 8 PROVE Stages[i].note = Note(i) /\ Stages[i].next = Next(i)
    BY <1>1, <1>2, StageList
  <2>2. ASSUME NEW i \in 9 .. N PROVE Stages[i].note = Note(i) /\ Stages[i].next = Next(i)
    <3>1. CASE Sx1250
      BY <1>1, <1>2, <3>1, StageList
    <3>2. CASE ~Sx1250
      BY <1>1, <1>2, <3>2, StageList
    <3> QED
      BY <3>1, <3>2
  <2> QED
    BY <1>2, <2>1, <2>2
<1>4. \A i, j \in 1 .. N : i # j => Note(i) # Note(j) /\ Next(i) # Next(j)
  BY <1>2
<1>5. ASSUME NEW i \in 1 .. N PROVE StageShape(Stages[i])
  <2>1. Lbt \in Int
    BY McuAssumption
  <2>2. StageShape(Stages[1]) /\ StageShape(Stages[2])
    <3>1. 128 \in 3 .. 128 /\ 32 \in 3 .. 128 /\ 2 \in 2 .. 15 /\ 3 \in 2 .. 15
      OBVIOUS
    <3>2. /\ StageShape(Stage(<<255, 255, FullDuplex>>, P(2, 3), 3, 128, 2))
          /\ StageShape(Stage(<<255, 255, FullDuplex>>, P(2, 3), 3, 32, 3))
      BY <3>1, ShapeGains, ZenonT(60)
    <3> QED
      BY <3>2, StageList
  <2>3. StageShape(Stages[3]) /\ StageShape(Stages[4]) /\ StageShape(Stages[5])
    <3>1. /\ P(1, 0) \in Int /\ P(13, 9) \in Int /\ P(3, 16) \in Int /\ P(12, 35) \in Int
          /\ P(4, 7) \in Int /\ P(15, 11) \in Int /\ 3 \in 3 .. 128 /\ 4 \in 3 .. 128 /\ 5 \in 3 .. 128
          /\ 4 \in 2 .. 15 /\ 5 \in 2 .. 15 /\ 6 \in 2 .. 15
      BY DEF P
    <3>2. StageShape(Stage(<<P(1, 0), P(13, 9)>>, 2, 2, 3, 4))
      BY <3>1, ShapeTwo, Zenon
    <3>3. StageShape(Stage(<<P(3, 16), P(12, 35)>>, 2, 2, 4, 5))
      BY <3>1, ShapeTwo, Zenon
    <3>4. StageShape(Stage(<<P(4, 7), P(15, 11)>>, 2, 2, 5, 6))
      BY <3>1, ShapeTwo, Zenon
    <3> QED
      BY <3>2, <3>3, <3>4, StageList
  <2>4. StageShape(Stages[6]) /\ StageShape(Stages[7]) /\ StageShape(Stages[8])
    <3>1. StageShape(Stage(<<P(40, 45), P(80, 100), P(90, 115)>>, 3, 3, 6, 7))
      <4>1. /\ P(40, 45) \in Int /\ P(80, 100) \in Int /\ P(90, 115) \in Int
            /\ 6 \in 3 .. 128 /\ 7 \in 2 .. 15
        BY DEF P
      <4> QED
        BY <4>1, ShapeThree, ZenonT(60)
    <3>2. StageShape(Stage(<<4, 14>>, 2, 2, 7, 8)) /\ StageShape(Stage(<<52, 132>>, 2, 2, 8, 9))
      BY ShapeTwo, SMTT(30)
    <3> QED
      BY <3>1, <3>2, StageList
  <2>5. StageShape(Stage(<<8>>, 1, 1, 10, 11)) /\ StageShape(Stage(<<Lbt>>, 1, 1, 11, 15))
    BY <2>1, ShapeOne, SMTT(30)
  <2>6. StageShape(Stage(<<0, 7, 4>>, 3, 3, 9, 10))
    BY ShapeThree, SMTT(30)
  <2>7. \A j \in 9 .. N : StageShape(Stages[j])
    BY <1>2, <2>5, <2>6, StageList
  <2> QED
    BY <2>2, <2>3, <2>4, <2>7
<1> QED
  BY <1>2, <1>3, <1>4, <1>5

-----------------------------------------------------------------------------
McuTypes ==
  /\ at \in [stage : 0 .. Arbiter, n : 1 .. 4,
             step : {"write", "wait", "check", "version", "debug", "resume", "error", "success"}]
  /\ box \in [1 .. 4 -> Int] /\ echo \in [1 .. 3 -> Int]
  /\ agc \in Seq(Seq(Int)) /\ Len(agc) <= Len(Stages)
  /\ status \in Nat /\ faults \in Nat /\ blind \in BOOLEAN

\* Where the host can be.
AtRight ==
  /\ at.step = "write" => at.stage > 0 /\ (at.stage < Arbiter => at.n <= Stages[at.stage].written + 1)
  /\ at.step = "check" => at.stage < Arbiter /\ at.n <= Checked
  /\ at.step \in {"version", "debug", "resume", "success"} => at.stage = Arbiter

\* The last notification came from one of the first j stages.
NotedBy(j) == box[4] = 0 \/ \E i \in 1 .. j : box[4] = Stages[i].note

\* The host and the AGC go through the stages in step: the AGC is behind only while the
\* host prepares or awaits a stage, so no notification is taken for that of another stage.
InStep ==
  /\ IF Len(agc) = 0 THEN status \in {0, 1} ELSE status = Stages[Len(agc)].next
  /\ at.stage = 0 => Len(agc) = 0
  /\ at.stage = Arbiter => Len(agc) = Len(Stages)
  /\ at.stage \in 1 .. Len(Stages) =>
       /\ at.step = "write" => Len(agc) = at.stage - 1
       /\ at.step = "wait" => Len(agc) \in {at.stage - 1, at.stage}
       /\ at.step \in {"check", "error"} => Len(agc) = at.stage
  /\ at.stage < Arbiter => NotedBy(IF at.step = "write" THEN at.stage - 1 ELSE at.stage)

\* What the AGC took and echoed of the stage is what is in the mailbox.
Echoed ==
  at.stage \in 1 .. Len(Stages) /\ at.step \in {"wait", "check"} /\ Len(agc) = at.stage =>
    /\ agc[at.stage] = SubSeq(box, 1, Len(Stages[at.stage].bytes))
    /\ \A k \in 1 .. 3 : echo[k] = box[k]

\* The bytes before the n-th that the host writes have arrived; its n-th echo is next.
Arrived(n) == \A k \in 1 .. Stages[at.stage].written : k < n => box[k] = Stages[at.stage].bytes[k]
EchoRight == \A k \in 1 .. Checked : k < at.n => echo[k] = Stages[at.stage].bytes[k]

\* One fault in the stage leaves either the mailbox or the reading of the echo right.  A
\* byte that is not written must have been read: val still holds the byte before it.
StageSound ==
  at.stage \in 1 .. Len(Stages) =>
    /\ at.step = "write" /\ faults = 0 => Arrived(at.n)
    /\ at.step \in {"wait", "check"} /\ faults = 0 => Arrived(4)
    /\ at.step = "check" =>
         /\ faults = 1 => Arrived(4) \/ EchoRight
         /\ faults <= 1 => \A k \in Stages[at.stage].written + 1 .. Checked :
                             k < at.n => echo[k] = Stages[at.stage].bytes[k]
         /\ at.n > 1 => val = Stages[at.stage].bytes[at.n - 1]

Past ==
  faults <= 1 =>
    \A i \in 1 .. Len(Stages) : i < at.stage => i <= Len(agc) /\ agc[i] = Stages[i].bytes

\* The registers of the arbiter before the n-th write of its configuration.
Regs(n) == <<IF n > 1 THEN 7 ELSE 0, IF n > 4 THEN 1 ELSE 0,
             IF n > 3 THEN 3 ELSE 0, IF n > 2 THEN DoubleDemod ELSE 0>>

Arb(st, n, runs) == [status |-> st, regs |-> Regs(n), runs |-> runs]

ArbSound ==
  faults = 0 =>
    /\ at.stage < Arbiter \/ at.step = "write" => arb = Arb(0, 1, <<>>)
    /\ at.stage = Arbiter =>
         /\ at.step = "wait" => arb \in {Arb(0, 1, <<>>), Arb(1, 1, <<>>)}
         /\ at.step = "version" => arb = Arb(1, 1, <<>>)
         /\ at.step = "debug" => arb = Arb(1, at.n, <<>>)
         /\ at.step = "resume" => arb \in {Arb(1, 5, <<>>), Arb(0, 5, Regs(5))}
         /\ at.step = "success" => arb = Arb(0, 5, Regs(5))

McuInv ==
  /\ McuTypes /\ AtRight
  /\ ~blind => InStep /\ Echoed /\ StageSound /\ Past /\ ArbSound

\* The invariant holds at the start.
LEMMA McuInitInv == McuInit => McuInv
<1> SUFFICES ASSUME McuInit PROVE McuInv
  OBVIOUS
<1> USE DEF McuInit
<1>1. Len(Stages) \in Nat /\ Arbiter \in Nat /\ Arbiter > 0
  BY StagesRight DEF Arbiter
<1>2. McuTypes /\ AtRight
  <2>1. at \in [stage : 0 .. Arbiter, n : 1 .. 4,
                step : {"write", "wait", "check", "version", "debug", "resume", "error", "success"}]
    BY <1>1
  <2>2. box \in [1 .. 4 -> Int] /\ echo \in [1 .. 3 -> Int]
    BY DEF Version
  <2>3. agc \in Seq(Seq(Int)) /\ Len(agc) = 0
    OBVIOUS
  <2>4. at.step = "wait"
    OBVIOUS
  <2>5. AtRight
    BY <2>4 DEF AtRight
  <2>6. status \in Nat /\ faults \in Nat /\ Len(agc) <= Len(Stages)
    BY <1>1, <2>3
  <2>7. blind \in BOOLEAN
    BY Zenon
  <2> HIDE DEF McuInit
  <2> QED
    BY <2>1, <2>2, <2>3, <2>5, <2>6, <2>7, Zenon DEF McuTypes
<1>3. InStep /\ Echoed /\ StageSound
  BY <1>1 DEF InStep, NotedBy, Echoed, StageSound
<1>4. Past
  BY <1>1 DEF Past
<1>5. ArbSound
  BY <1>1 DEF ArbSound, Arb, Regs
<1> QED
  BY <1>2, <1>3, <1>4, <1>5 DEF McuInv

\* The shape, spelled out for a stage in hand.
LEMMA StageFacts ==
  ASSUME NEW s \in 1 .. Len(Stages), NEW st, st = Stages[s]
  PROVE  /\ st.written \in 1 .. 3 /\ st.checked \in 1 .. 3 /\ st.written <= st.checked
         /\ st.note \in Int /\ st.note # 0 /\ st.next \in Nat /\ st.next > 1
         /\ st.bytes \in Seq(Int) /\ Len(st.bytes) = st.checked
         /\ \A k \in 1 .. st.checked : st.bytes[k] \in Int
         /\ \A k \in st.written + 1 .. st.checked : st.bytes[k] # st.bytes[k - 1]
<1>1. StageShape(st)
  BY StagesRight
<1>2. /\ st.written \in 1 .. 3 /\ st.checked \in 1 .. 3 /\ st.written <= st.checked
      /\ st.note \in Int /\ st.note # 0 /\ st.next \in Nat /\ st.next > 1
      /\ st.bytes \in Seq(Int) /\ Len(st.bytes) = st.checked
      /\ \A k \in st.written + 1 .. st.checked : st.bytes[k] # st.bytes[k - 1]
  <2>1. /\ Len(st.bytes) \in 1 .. 3 /\ st.bytes \in Seq(Int) /\ st.checked = Len(st.bytes)
        /\ st.written \in 1 .. st.checked /\ st.note \in 3 .. 128 /\ st.next \in 2 .. 15
        /\ \A k \in st.written + 1 .. st.checked : st.bytes[k] # st.bytes[k - 1]
    BY <1>1, Zenon DEF StageShape
  <2>2. ASSUME NEW c \in 1 .. 3, NEW w \in 1 .. c PROVE w \in 1 .. 3 /\ w <= c
    OBVIOUS
  <2>3. st.checked \in 1 .. 3
    BY <2>1, Zenon
  <2>4. st.written \in 1 .. 3 /\ st.written <= st.checked
    BY <2>1, <2>2, <2>3, Zenon
  <2>5. \A n \in 3 .. 128 : n \in Int /\ n # 0
    OBVIOUS
  <2>6. \A n \in 2 .. 15 : n \in Nat /\ n > 1
    OBVIOUS
  <2> QED
    BY <2>1, <2>3, <2>4, <2>5, <2>6, Zenon
<1> QED
  BY <1>2

\* The mailbox is written.
LEMMA WriteKeeps ==
  ASSUME McuInv, sx1302_agc_mailbox_write
  PROVE  McuInv'
<1>1. PICK s \in 1 .. Len(Stages), n \in 1 .. 4, st \in {Stages[at.stage]} :
        s = at.stage /\ n = at.n /\ st = Stages[s]
  BY DEF McuInv, McuTypes, sx1302_agc_mailbox_write
<1> DEFINE last == n > st.written
           byte == IF last THEN 4 ELSE n
           value == IF last THEN st.note ELSE st.bytes[n]
<1>2. /\ at.step = "write" /\ n <= st.written + 1
      /\ Len(Stages) \in Nat /\ Arbiter = Len(Stages) + 1 /\ faults \in Nat
  BY <1>1, StagesRight DEF McuInv, McuTypes, AtRight, Arbiter, sx1302_agc_mailbox_write
<1>3. /\ st.written \in 1 .. 3 /\ st.note \in Int /\ st.written <= st.checked /\ st.checked \in 1 .. 3
      /\ \A k \in 1 .. st.checked : st.bytes[k] \in Int
  BY <1>1, StageFacts
<1>4. /\ UNCHANGED <<val, echo, status, agc, arb, blind>>
      /\ \/ box' = [box EXCEPT ![byte] = value] /\ faults' = faults
         \/ box' = box /\ faults' = faults + 1
      /\ at' = IF last THEN [stage |-> s, step |-> "wait", n |-> 1]
               ELSE [stage |-> s, step |-> "write", n |-> n + 1]
  BY <1>1 DEF sx1302_agc_mailbox_write, Go, Fault, NoFault
<1>5. value \in Int /\ byte \in 1 .. 4
  BY <1>1, <1>2, <1>3
<1>6. /\ at'.stage = s /\ at'.step = IF last THEN "wait" ELSE "write"
      /\ at'.n = IF last THEN 1 ELSE n + 1
  BY <1>4
<1>7. McuTypes'
  <2>1. box' \in [1 .. 4 -> Int]
    BY <1>4, <1>5 DEF McuInv, McuTypes
  <2>2. faults' \in Nat
    BY <1>2, <1>4
  <2>3. at' \in [stage : 0 .. Arbiter, n : 1 .. 4,
                 step : {"write", "wait", "check", "version", "debug", "resume", "error", "success"}]
    BY <1>2, <1>3, <1>4
  <2> QED
    BY <1>4, <2>1, <2>2, <2>3 DEF McuInv, McuTypes
<1>8. AtRight'
  BY <1>1, <1>2, <1>3, <1>6 DEF AtRight
<1>9. ASSUME ~blind PROVE InStep' /\ Echoed' /\ StageSound' /\ Past' /\ ArbSound'
  <2>1. Len(agc) = s - 1 /\ NotedBy(s - 1)
    BY <1>1, <1>2, <1>9 DEF McuInv, InStep
  <2>2. IF last THEN NotedBy(s)' ELSE NotedBy(s - 1)'
    <3>1. CASE last
      <4>1. box'[4] \in {box[4], st.note}
        BY <1>4, <1>5, <3>1 DEF McuInv, McuTypes
      <4>2. box'[4] = 0 \/ \E i \in 1 .. s : box'[4] = Stages[i].note
        BY <1>1, <2>1, <4>1 DEF NotedBy
      <4> QED
        BY <3>1, <4>2 DEF NotedBy
    <3>2. CASE ~last
      <4>1. byte # 4
        BY <1>3, <3>2
      <4>2. box'[4] = box[4]
        BY <1>4, <4>1, SMTT(30) DEF McuInv, McuTypes
      <4> QED
        BY <2>1, <3>2, <4>2 DEF NotedBy
    <3> QED
      BY <3>1, <3>2
  <2>3. InStep'
    <3>1. IF Len(agc') = 0 THEN status' \in {0, 1} ELSE status' = Stages[Len(agc')].next
      BY <1>4, <1>9 DEF McuInv, InStep
    <3>2. NotedBy(IF at.step = "write" THEN at.stage - 1 ELSE at.stage)'
      BY <1>6, <2>2 DEF NotedBy
    <3> QED
      BY <1>2, <1>4, <1>6, <2>1, <3>1, <3>2 DEF InStep
  <2>4. Echoed'
    BY <1>4, <1>6, <2>1 DEF Echoed
  <2>5. StageSound'
    <3>1. ASSUME faults' = 0, NEW k \in 1 .. st.written, k < n + 1
          PROVE  box'[k] = st.bytes[k]
      <4>1. faults = 0 /\ box' = [box EXCEPT ![byte] = value]
        BY <1>2, <1>4, <3>1
      <4>2. k < n => box[k] = st.bytes[k]
        BY <1>1, <1>2, <1>9, <3>1, <4>1 DEF McuInv, StageSound, Arrived
      <4>3. k \in 1 .. 3 /\ k \in 1 .. 4
        BY <1>3
      <4>6. k < n \/ (k = n /\ ~last)
        BY <1>3, <3>1
      <4>4. CASE k = n /\ ~last
        BY <4>1, <4>3, <4>4 DEF McuInv, McuTypes
      <4>5. CASE k < n
        <5>1. k # byte
          BY <4>3, <4>5
        <5> QED
          BY <4>1, <4>2, <4>3, <4>5, <5>1 DEF McuInv, McuTypes
      <4> QED
        BY <4>4, <4>5, <4>6
    <3>2. faults' = 0 => IF last THEN Arrived(4)' ELSE Arrived(n + 1)'
      BY <1>1, <1>2, <1>3, <1>6, <3>1 DEF Arrived
    <3>3. faults' = 0 => IF last THEN Arrived(4)' ELSE Arrived(at.n)'
      BY <1>6, <3>2 DEF Arrived
    <3> QED
      BY <1>6, <3>3 DEF StageSound
  <2>6. Past'
    <3>1. faults' <= 1 => faults <= 1
      BY <1>2, <1>4
    <3> QED
      BY <1>1, <1>4, <1>6, <1>9, <3>1 DEF McuInv, Past
  <2>7. ArbSound'
    <3>1. faults' = 0 => faults = 0
      BY <1>2, <1>4
    <3> QED
      BY <1>1, <1>2, <1>4, <1>6, <1>9, <3>1 DEF McuInv, ArbSound
  <2> QED
    BY <2>3, <2>4, <2>5, <2>6, <2>7
<1> QED
  BY <1>4, <1>7, <1>8, <1>9 DEF McuInv

\* The status of the AGC tells how far it is.
LEMMA StatusTells ==
  ASSUME McuInv, ~blind, NEW s \in 1 .. Len(Stages), status = Stages[s].next
  PROVE  Len(agc) = s
<1>1. Stages[s].next > 1 /\ Stages[s].next \in Nat
  BY StageFacts
<1>2. Len(agc) # 0 /\ status = Stages[Len(agc)].next
  BY <1>1 DEF McuInv, InStep
<1>3. Len(agc) \in 1 .. Len(Stages)
  BY <1>2, StagesRight DEF McuInv, McuTypes
<1> QED
  BY <1>2, <1>3, StagesRight

\* The host waits for the AGC.
LEMMA WaitKeeps ==
  ASSUME McuInv, sx1302_agc_wait_status
  PROVE  McuInv'
<1>1. PICK s \in 0 .. Len(Stages) : s = at.stage
  BY StagesRight DEF McuInv, McuTypes, sx1302_agc_wait_status, Arbiter
<1>2. /\ at.step = "wait" /\ Len(Stages) \in Nat /\ Arbiter = Len(Stages) + 1 /\ faults \in Nat
      /\ UNCHANGED <<val, box, echo, status, agc, arb>>
      /\ at' = [stage |-> s, step |-> "check", n |-> 1]
      /\ \/ status = Awaited /\ UNCHANGED faults /\ UNCHANGED blind
         \/ faults' = faults + 1 /\ blind' = TRUE
  BY <1>1, StagesRight DEF sx1302_agc_wait_status, Go, Fault, NoFault, Arbiter, McuInv, McuTypes
<1>3. at'.stage = s /\ at'.step = "check" /\ at'.n = 1
  BY <1>2
<1>4. McuTypes'
  <2>1. at' \in [stage : 0 .. Arbiter, n : 1 .. 4,
                 step : {"write", "wait", "check", "version", "debug", "resume", "error", "success"}]
    BY <1>2
  <2>2. faults' \in Nat
    BY <1>2
  <2>3. blind' \in BOOLEAN
    BY <1>2, Zenon DEF McuInv, McuTypes
  <2> QED
    BY <1>2, <2>1, <2>2, <2>3 DEF McuInv, McuTypes
<1>5. AtRight'
  <2>1. 1 <= Checked'
    BY <1>1, <1>3, StageFacts, SMTT(30) DEF Checked
  <2> QED
    BY <1>2, <1>3, <2>1 DEF AtRight
<1>6. ASSUME ~blind' PROVE InStep' /\ Echoed' /\ StageSound' /\ Past' /\ ArbSound'
  <2>1. ~blind /\ status = Awaited /\ UNCHANGED faults
    BY <1>2, <1>6
  <2>2. s # 0 => Len(agc) = s
    BY <1>1, <2>1, StatusTells DEF Awaited
  <2>3. InStep'
    BY <1>1, <1>2, <1>3, <2>1, <2>2 DEF McuInv, InStep, NotedBy
  <2>4. Echoed'
    BY <1>1, <1>2, <1>3, <2>1, <2>2 DEF McuInv, Echoed
  <2>5. StageSound'
    <3>1. faults = 0 /\ s # 0 => Arrived(4)
      BY <1>1, <1>2, <2>1 DEF McuInv, StageSound
    <3>2. faults = 0 /\ s # 0 => Arrived(4)'
      BY <1>1, <1>2, <1>3, <3>1 DEF Arrived
    <3>3. EchoRight'
      BY <1>1, <1>3, StageFacts DEF EchoRight, Checked
    <3>4. s # 0 => \A k \in Stages[s].written + 1 .. Checked' : ~(k < 1)
      <4> SUFFICES ASSUME s # 0 PROVE \A k \in Stages[s].written + 1 .. Checked' : ~(k < 1)
        OBVIOUS
      <4>1. PICK w \in 1 .. 3, c \in 1 .. 3 : w = Stages[s].written /\ c = Checked'
        BY <1>1, <1>3, StageFacts DEF Checked
      <4> QED
        BY <4>1
    <3> QED
      BY <1>3, <2>1, <3>2, <3>3, <3>4 DEF StageSound
  <2>6. Past' /\ ArbSound'
    BY <1>1, <1>2, <1>3, <2>1 DEF McuInv, Past, ArbSound
  <2> QED
    BY <2>3, <2>4, <2>5, <2>6
<1> QED
  BY <1>4, <1>5, <1>6 DEF McuInv

\* The firmware boots.
LEMMA BootKeeps ==
  ASSUME McuInv, AgcBoots
  PROVE  McuInv'
<1>1. status = 0 /\ status' = 1 /\ UNCHANGED <<at, val, box, echo, agc, arb, faults, blind>>
  BY DEF AgcBoots
<1>2. McuTypes' /\ AtRight'
  BY <1>1 DEF McuInv, McuTypes, AtRight, Checked
<1>3. ASSUME ~blind PROVE Len(agc) = 0
  <2>1. SUFFICES ASSUME Len(agc) # 0 PROVE FALSE
    OBVIOUS
  <2>2. Len(agc) \in 1 .. Len(Stages) /\ status = Stages[Len(agc)].next
    BY <1>3, <2>1, StagesRight DEF McuInv, McuTypes, InStep
  <2> QED
    BY <1>1, <2>2, StageFacts
<1>4. ~blind => InStep'
  BY <1>1, <1>3 DEF McuInv, InStep, NotedBy
<1>5. ~blind => Echoed' /\ Past' /\ ArbSound'
  BY <1>1 DEF McuInv, Echoed, Past, ArbSound
<1>6. ~blind => StageSound'
  BY <1>1 DEF McuInv, StageSound, Arrived, EchoRight, Checked
<1> QED
  BY <1>1, <1>2, <1>4, <1>5, <1>6 DEF McuInv

\* The AGC takes a stage, and only the one that the host waits for.
LEMMA TakeKeeps ==
  ASSUME McuInv, AgcTakes
  PROVE  McuInv'
<1>1. /\ Len(agc) < Len(Stages) /\ Len(agc) \in Nat /\ Len(Stages) \in Nat
      /\ Arbiter = Len(Stages) + 1
  BY StagesRight DEF AgcTakes, McuInv, McuTypes, Arbiter
<1>2. PICK s \in 1 .. Len(Stages), st \in {Stages[Len(agc) + 1]} :
        s = Len(agc) + 1 /\ st = Stages[s]
  BY <1>1
<1> DEFINE bytes == SubSeq(box, 1, Len(st.bytes))
<1>3. /\ box[4] = st.note /\ agc' = Append(agc, bytes) /\ echo' = [i \in 1 .. 3 |-> box[i]]
      /\ status' = st.next /\ UNCHANGED <<at, val, box, arb, faults, blind>>
  BY <1>2 DEF AgcTakes
<1>4. /\ st.next \in Nat /\ Len(st.bytes) \in 1 .. 3 /\ st.note # 0
  BY <1>2, StageFacts
<1>5. box \in [1 .. 4 -> Int]
  BY DEF McuInv, McuTypes
<1>6. bytes \in Seq(Int)
  <2>1. \A k \in 1 .. Len(st.bytes) : box[k] \in Int
    <3>1. \A m \in 1 .. 3 : \A k \in 1 .. m : k \in 1 .. 4
      OBVIOUS
    <3> QED
      BY <1>4, <1>5, <3>1, Zenon
  <2>2. 1 \in Int /\ Len(st.bytes) \in Int
    BY <1>4
  <2> QED
    BY <2>1, <2>2, SubSeqProperties, Zenon
<1>7. agc \in Seq(Seq(Int))
  BY DEF McuInv, McuTypes
<1> HIDE DEF bytes
<1>8. /\ agc' \in Seq(Seq(Int)) /\ Len(agc') = s /\ agc'[s] = bytes
      /\ \A i \in 1 .. s - 1 : agc'[i] = agc[i]
  BY <1>1, <1>2, <1>3, <1>6, <1>7
<1>9. McuTypes' /\ AtRight'
  <2>1. echo' \in [1 .. 3 -> Int]
    BY <1>3, <1>5
  <2> QED
    BY <1>1, <1>2, <1>3, <1>4, <1>8, <2>1 DEF McuInv, McuTypes, AtRight, Checked
<1>10. ASSUME ~blind PROVE InStep' /\ Echoed' /\ StageSound' /\ Past' /\ ArbSound'
  <2>1. at.stage = s /\ at.step = "wait"
    <3>1. at.stage # Arbiter /\ at.stage \in 0 .. Len(Stages)
      BY <1>1, <1>10, SMTT(30) DEF McuInv, McuTypes, InStep
    <3>2. NotedBy(IF at.step = "write" THEN at.stage - 1 ELSE at.stage)
      BY <1>1, <1>10, <3>1 DEF McuInv, InStep
    <3>3. PICK i \in 1 .. (IF at.step = "write" THEN at.stage - 1 ELSE at.stage) :
            box[4] = Stages[i].note
      BY <1>3, <1>4, <3>2 DEF NotedBy
    <3>4. i \in 1 .. Len(Stages)
      BY <1>1, <3>1
    <3>5. i = s
      BY <1>2, <1>3, <3>3, <3>4, StagesRight
    <3>6. s <= at.stage /\ at.stage \in 1 .. Len(Stages) /\ (at.step = "write" => s <= at.stage - 1)
      BY <3>1, <3>3, <3>5
    <3>7. at.step \in {"write", "wait", "check", "error"}
      BY <1>1, <3>6 DEF McuInv, McuTypes, AtRight
    <3>8. /\ at.step = "write" => Len(agc) = at.stage - 1
          /\ at.step = "wait" => Len(agc) \in {at.stage - 1, at.stage}
          /\ at.step \in {"check", "error"} => Len(agc) = at.stage
      BY <1>10, <3>6 DEF McuInv, InStep
    <3> QED
      BY <1>1, <1>2, <3>6, <3>7, <3>8
  <2>2. InStep'
    <3>1. NotedBy(s)'
      BY <1>2, <1>3 DEF NotedBy
    <3> QED
      BY <1>1, <1>2, <1>3, <1>8, <2>1, <3>1 DEF InStep
  <2>3. Echoed'
    <3>1. \A k \in 1 .. 3 : echo'[k] = box[k]
      BY <1>3
    <3> QED
      BY <1>2, <1>3, <1>8, <2>1, <3>1 DEF Echoed, bytes
  <2>4. StageSound'
    BY <1>3, <1>10, <2>1 DEF McuInv, StageSound, Arrived
  <2>5. Past'
    <3>1. ASSUME faults <= 1, NEW i \in 1 .. Len(Stages), i < at.stage
          PROVE  i <= Len(agc') /\ agc'[i] = Stages[i].bytes
      <4>1. i <= Len(agc) /\ agc[i] = Stages[i].bytes
        BY <1>10, <3>1 DEF McuInv, Past
      <4>2. i \in 1 .. s - 1
        BY <1>1, <1>2, <4>1
      <4> QED
        BY <1>8, <4>1, <4>2
    <3> QED
      BY <1>3, <3>1 DEF Past
  <2>6. ArbSound'
    BY <1>3, <1>10 DEF McuInv, ArbSound
  <2> QED
    BY <2>2, <2>3, <2>4, <2>5, <2>6
<1> QED
  BY <1>3, <1>9, <1>10 DEF McuInv

\* The echo of a byte is read and compared.
LEMMA CheckKeeps ==
  ASSUME McuInv, CheckParams
  PROVE  McuInv'
<1>1. PICK s \in 0 .. Len(Stages), n \in 1 .. 3, c \in 1 .. 3 : s = at.stage /\ n = at.n /\ c = Checked
  <2>1. at.stage \in 0 .. Len(Stages)
    BY StagesRight DEF McuInv, McuTypes, CheckParams, Arbiter
  <2>2. Checked \in 1 .. 3
    BY <2>1, StageFacts DEF Checked
  <2> QED
    BY <2>1, <2>2 DEF McuInv, McuTypes, AtRight, CheckParams
<1>2. PICK wrong \in BOOLEAN : wrong <=> val' # Expected(n)
  OBVIOUS
<1>3. /\ at.step = "check" /\ n <= c /\ Len(Stages) \in Nat /\ Arbiter = Len(Stages) + 1
      /\ faults \in Nat /\ UNCHANGED <<box, echo, status, agc, arb, blind>>
      /\ \/ val' = echo[n] /\ UNCHANGED faults
         \/ val' = val /\ faults' = faults + 1
      /\ at' = IF wrong THEN [stage |-> s, step |-> "error", n |-> 1]
               ELSE IF n < c THEN [stage |-> s, step |-> "check", n |-> n + 1]
               ELSE [stage |-> s + 1, step |-> "write", n |-> 1]
  BY <1>1, <1>2, StagesRight
     DEF CheckParams, Return, Go, Fault, NoFault, Arbiter, McuInv, McuTypes, AtRight
<1>4. McuTypes'
  <2>1. at' \in [stage : 0 .. Arbiter, n : 1 .. 4,
                 step : {"write", "wait", "check", "version", "debug", "resume", "error", "success"}]
    BY <1>3
  <2>2. faults' \in Nat
    BY <1>3
  <2> QED
    BY <1>3, <2>1, <2>2 DEF McuInv, McuTypes
<1>5. CASE wrong
  <2>1. at'.stage = s /\ at'.step = "error"
    BY <1>3, <1>5
  <2>2. AtRight'
    BY <2>1 DEF AtRight
  <2>3. ~blind => InStep'
    BY <1>1, <1>3, <2>1 DEF McuInv, InStep, NotedBy
  <2>4. Echoed' /\ StageSound'
    BY <2>1 DEF Echoed, StageSound
  <2>5. ASSUME ~blind PROVE Past' /\ ArbSound'
    <3>1. (faults' <= 1 => faults <= 1) /\ (faults' = 0 => faults = 0)
      BY <1>3
    <3> QED
      BY <1>1, <1>3, <2>1, <2>5, <3>1 DEF McuInv, Past, ArbSound
  <2> QED
    BY <1>3, <1>4, <2>2, <2>3, <2>4, <2>5 DEF McuInv
<1>6. CASE ~wrong /\ s = 0
  <2>1. c = 1
    BY <1>1, <1>6 DEF Checked
  <2>2. at'.stage = 1 /\ at'.step = "write" /\ at'.n = 1
    BY <1>3, <1>6, <2>1
  <2>3. AtRight'
    BY <1>3, <2>2, StagesRight, StageFacts, SMTT(30) DEF AtRight
  <2>4. ASSUME ~blind PROVE InStep' /\ Echoed' /\ StageSound' /\ Past' /\ ArbSound'
    <3>1. Len(agc) = 0 /\ NotedBy(0) /\ (faults' = 0 => faults = 0)
      BY <1>1, <1>3, <1>6, <2>4 DEF McuInv, InStep
    <3>2. InStep'
      BY <1>3, <2>2, <2>4, <3>1, StagesRight DEF McuInv, InStep, NotedBy
    <3>3. Echoed' /\ Past'
      BY <2>2 DEF Echoed, Past
    <3>4. Arrived(at.n)'
      BY <2>2, StagesRight, StageFacts DEF Arrived
    <3>5. StageSound'
      BY <2>2, <3>4 DEF StageSound
    <3>6. ArbSound'
      BY <1>1, <1>3, <1>6, <2>2, <2>4, <3>1 DEF McuInv, ArbSound
    <3> QED
      BY <3>2, <3>3, <3>5, <3>6
  <2> QED
    BY <1>3, <1>4, <2>3, <2>4 DEF McuInv
<1>7. CASE ~wrong /\ s # 0
  <2>1. PICK st : st = Stages[s]
    OBVIOUS
  <2>2. /\ s \in 1 .. Len(Stages) /\ c = st.checked /\ Len(st.bytes) = c /\ st.bytes \in Seq(Int)
        /\ st.written \in 1 .. 3 /\ st.written <= c
        /\ \A k \in st.written + 1 .. c : st.bytes[k] # st.bytes[k - 1]
    <3>1. s \in 1 .. Len(Stages) /\ c = st.checked
      BY <1>1, <1>7, <2>1, StagesRight DEF Checked
    <3>2. /\ st.written \in 1 .. 3 /\ st.written <= st.checked
          /\ st.bytes \in Seq(Int) /\ Len(st.bytes) = st.checked
          /\ \A k \in st.written + 1 .. st.checked : st.bytes[k] # st.bytes[k - 1]
      BY <2>1, <3>1, StageFacts, Zenon
    <3> QED
      BY <3>1, <3>2, Zenon
  <2>3. val' = st.bytes[n]
    BY <1>1, <1>2, <1>7, <2>1 DEF Expected
  <2> DEFINE EchoIs(k) == echo[k] = st.bytes[k]
  <2>4. ASSUME ~blind
        PROVE  /\ Len(agc) = s /\ agc[s] = SubSeq(box, 1, c) /\ \A k \in 1 .. 3 : echo[k] = box[k]
               /\ NotedBy(s)
    BY <1>1, <1>3, <2>1, <2>2, <2>4 DEF McuInv, InStep, Echoed
  <2>5. ASSUME ~blind
        PROVE  /\ faults = 0 => \A k \in 1 .. st.written : box[k] = st.bytes[k]
               /\ faults = 1 => \/ \A k \in 1 .. st.written : box[k] = st.bytes[k]
                                \/ \A k \in 1 .. c : k < n => EchoIs(k)
               /\ faults <= 1 => \A k \in st.written + 1 .. c : k < n => EchoIs(k)
               /\ n > 1 => val = st.bytes[n - 1]
    <3>1. StageSound /\ at.stage \in 1 .. Len(Stages) /\ at.step = "check"
      BY <1>1, <1>3, <2>1, <2>2, <2>5 DEF McuInv
    <3>2. /\ Arrived(4) => \A k \in 1 .. st.written : box[k] = st.bytes[k]
          /\ EchoRight => \A k \in 1 .. c : k < n => EchoIs(k)
      BY <1>1, <2>1, <2>2 DEF Arrived, EchoRight
    <3>3. /\ faults = 0 => Arrived(4)
          /\ faults = 1 => Arrived(4) \/ EchoRight
          /\ faults <= 1 => \A k \in st.written + 1 .. c : k < n => EchoIs(k)
          /\ n > 1 => val = st.bytes[n - 1]
      BY <1>1, <2>1, <2>2, <3>1 DEF StageSound
    <3> QED
      BY <3>2, <3>3
  <2>6. ASSUME ~blind
        PROVE  /\ faults' = 0 => \A k \in 1 .. st.written : box[k] = st.bytes[k]
               /\ faults' = 1 => \/ \A k \in 1 .. st.written : box[k] = st.bytes[k]
                                 \/ \A k \in 1 .. c : k < n + 1 => EchoIs(k)
               /\ faults' <= 1 => \A k \in st.written + 1 .. c : k < n + 1 => EchoIs(k)
    <3>1. CASE val' = echo[n] /\ UNCHANGED faults
      <4>1. EchoIs(n)
        BY <2>3, <3>1
      <4>2. \A k \in 1 .. c : k < n + 1 => k < n \/ k = n
        OBVIOUS
      <4>3. \A k \in st.written + 1 .. c : k < n + 1 => k < n \/ k = n
        BY <2>2
      <4> QED
        BY <2>5, <2>6, <3>1, <4>1, <4>2, <4>3
    <3>2. CASE val' = val /\ faults' = faults + 1
      <4>1. faults' # 0 /\ (faults' <= 1 => faults = 0 /\ faults' = 1)
        BY <1>3, <3>2
      <4>2. n <= st.written
        <5>1. SUFFICES ASSUME ~(n <= st.written) PROVE FALSE
          OBVIOUS
        <5>2. n \in st.written + 1 .. c /\ n > 1
          BY <1>3, <2>2, <5>1
        <5>3. val = st.bytes[n - 1]
          BY <2>5, <2>6, <5>2
        <5>4. st.bytes[n] # st.bytes[n - 1]
          BY <2>2, <5>2
        <5> QED
          BY <2>3, <3>2, <5>3, <5>4
      <4>3. \A k \in st.written + 1 .. c : ~(k < n + 1)
        BY <2>2, <4>2
      <4> QED
        BY <2>5, <2>6, <4>1, <4>3
    <3> QED
      BY <1>3, <3>1, <3>2
  <2>7. ASSUME ~blind PROVE ArbSound'
    <3>1. faults' = 0 => faults = 0
      BY <1>3
    <3> QED
      BY <1>1, <1>3, <1>7, <2>7, <3>1 DEF McuInv, ArbSound
  <2>8. CASE n < c
    <3>1. at'.stage = s /\ at'.step = "check" /\ at'.n = n + 1
      BY <1>3, <1>7, <2>8
    <3>2. AtRight'
      BY <1>1, <1>3, <2>8, <3>1 DEF AtRight, Checked
    <3>3. ASSUME ~blind PROVE InStep' /\ Echoed' /\ StageSound' /\ Past'
      <4>1. InStep'
        BY <1>1, <1>3, <3>1, <3>3 DEF McuInv, InStep, NotedBy
      <4>2. Echoed'
        BY <1>1, <1>3, <3>1, <3>3 DEF McuInv, Echoed
      <4>3. Checked' = c
        BY <2>1, <2>2, <3>1 DEF Checked
      <4>4. (\A k \in 1 .. st.written : box[k] = st.bytes[k]) => Arrived(4)'
        BY <1>3, <2>1, <3>1 DEF Arrived
      <4>5. (\A k \in 1 .. c : k < n + 1 => EchoIs(k)) => EchoRight'
        BY <1>3, <2>1, <3>1, <4>3 DEF EchoRight
      <4>6. StageSound'
        BY <1>3, <2>1, <2>3, <2>6, <3>1, <3>3, <4>3, <4>4, <4>5 DEF StageSound
      <4>7. faults' <= 1 => faults <= 1
        BY <1>3
      <4>8. Past'
        BY <1>1, <1>3, <3>1, <3>3, <4>7 DEF McuInv, Past
      <4> QED
        BY <4>1, <4>2, <4>6, <4>8
    <3> QED
      BY <1>3, <1>4, <2>7, <3>2, <3>3 DEF McuInv
  <2>9. CASE n = c
    <3>1. at'.stage = s + 1 /\ at'.step = "write" /\ at'.n = 1
      BY <1>3, <1>7, <2>9
    <3>2. AtRight'
      <4>1. s + 1 < Arbiter => s + 1 \in 1 .. Len(Stages)
        BY <1>3
      <4>2. s + 1 < Arbiter => 1 <= Stages[s + 1].written + 1
        <5>1. ASSUME NEW i \in 1 .. Len(Stages) PROVE 1 <= Stages[i].written + 1
          <6>1. Stages[i].written \in 1 .. 3
            BY StageFacts
          <6> QED
            BY <6>1
        <5> QED
          BY <4>1, <5>1
      <4> QED
        BY <3>1, <4>2 DEF AtRight
    <3>3. ASSUME ~blind PROVE InStep' /\ Echoed' /\ StageSound' /\ Past'
      <4>1. InStep'
        BY <1>3, <2>2, <2>4, <3>1, <3>3 DEF McuInv, InStep, NotedBy
      <4>2. Echoed'
        BY <3>1 DEF Echoed
      <4>3. s + 1 \in 1 .. Len(Stages) => Arrived(1)'
        BY <3>1, StageFacts DEF Arrived
      <4>4. StageSound'
        BY <3>1, <4>3 DEF StageSound
      <4>5. faults' <= 1 => agc[s] = st.bytes
        <5>1. SUFFICES ASSUME faults' <= 1 PROVE agc[s] = st.bytes
          OBVIOUS
        <5>2. faults' = 0 \/ faults' = 1
          BY <1>3, <5>1
        <5>3. \A k \in 1 .. c : box[k] = st.bytes[k]
          <6>1. ASSUME NEW k \in 1 .. c PROVE k \in 1 .. 3 /\ k < n + 1 /\ (k \in 1 .. st.written \/ k \in st.written + 1 .. c)
            BY <2>2, <2>9, SMTT(30)
          <6> QED
            BY <2>4, <2>6, <3>3, <5>1, <5>2, <6>1
        <5>4. /\ agc[s] \in Seq(Int) /\ Len(agc[s]) = c
              /\ \A k \in 1 .. c : agc[s][k] = box[k]
          <6>1. box \in [1 .. 4 -> Int]
            BY DEF McuInv, McuTypes
          <6>2. \A k \in 1 .. c : box[k] \in Int
            BY <6>1
          <6>3. 1 \in Int /\ c \in Int
            OBVIOUS
          <6>4. /\ SubSeq(box, 1, c) \in Seq(Int)
                /\ Len(SubSeq(box, 1, c)) = IF 1 <= c THEN c - 1 + 1 ELSE 0
                /\ \A k \in 1 .. c - 1 + 1 : SubSeq(box, 1, c)[k] = box[1 + k - 1]
            BY <6>2, <6>3, SubSeqProperties
          <6>5. c - 1 + 1 = c /\ 1 <= c /\ \A k \in 1 .. c : 1 + k - 1 = k
            OBVIOUS
          <6> QED
            BY <2>4, <3>3, <6>4, <6>5
        <5>5. Len(agc[s]) = Len(st.bytes) /\ \A k \in 1 .. Len(agc[s]) : agc[s][k] = st.bytes[k]
          BY <2>2, <5>3, <5>4
        <5> QED
          BY <2>2, <5>4, <5>5, SeqEqual, Zenon
      <4>6. Past'
        <5>1. ASSUME faults' <= 1, NEW i \in 1 .. Len(Stages), i < s + 1
              PROVE  i <= Len(agc) /\ agc[i] = Stages[i].bytes
          <6>1. CASE i = s
            BY <2>1, <2>4, <3>3, <4>5, <5>1, <6>1
          <6>2. CASE i < s
            BY <1>1, <1>3, <3>3, <5>1, <6>2 DEF McuInv, Past
          <6> QED
            BY <5>1, <6>1, <6>2
        <5> QED
          BY <1>3, <3>1, <5>1 DEF Past
      <4> QED
        BY <4>1, <4>2, <4>4, <4>6
    <3> QED
      BY <1>3, <1>4, <2>7, <3>2, <3>3 DEF McuInv
  <2> QED
    BY <1>3, <2>8, <2>9
<1> QED
  BY <1>5, <1>6, <1>7

\* The steps of the arbiter's start leave the AGC's part alone.
LEMMA AgcStays ==
  ASSUME McuInv, at.stage = Arbiter, at'.stage = Arbiter, at'.step # "write" \/ at'.n = 1,
         UNCHANGED <<echo, status, agc>>, faults \in Nat, faults' \in Nat, faults <= faults'
  PROVE  ~blind => InStep' /\ Echoed' /\ StageSound' /\ Past'
<1>1. Len(Stages) \in Nat /\ Arbiter = Len(Stages) + 1
  BY StagesRight DEF Arbiter
<1>2. Echoed' /\ StageSound'
  BY <1>1 DEF Echoed, StageSound
<1>3. ~blind => InStep'
  BY <1>1 DEF McuInv, InStep
<1>4. faults' <= 1 => faults <= 1
  OBVIOUS
<1>5. ~blind => Past'
  BY <1>4 DEF McuInv, Past
<1> QED
  BY <1>2, <1>3, <1>5

\* The AGC runs, and the arbiter is started.
LEMMA ArbKeeps ==
  ASSUME McuInv, FinishAgc \/ sx1302_arb_start
  PROVE  McuInv'
<1>1. PICK n \in 1 .. 4 : n = at.n
  BY DEF McuInv, McuTypes
<1>2. /\ at.stage = Arbiter /\ at.step \in {"write", "wait", "version", "debug", "resume"}
      /\ UNCHANGED <<echo, status, agc>> /\ Arbiter \in Nat /\ faults \in Nat
  BY StagesRight, SMTT(30) DEF FinishAgc, sx1302_arb_start, sx1302_arb_wait_status, sx1302_arb_debug_read,
                     sx1302_arb_debug_write, Arbiter, McuInv, McuTypes
<1>3. Len(ArbConf) = 4
  BY DEF ArbConf
<1> DEFINE To(step, m) == at' = [stage |-> Arbiter, step |-> step, n |-> m]
<1>4. CASE FinishAgc
  <2>1. /\ To("wait", 1) /\ at.step = "write" /\ UNCHANGED <<arb, blind>>
        /\ faults' \in {faults, faults + 1} /\ box' \in {box, [box EXCEPT ![4] = 15]}
    BY <1>4 DEF FinishAgc, Go, Fault, NoFault
  <2>2. box' \in [1 .. 4 -> Int]
    BY <2>1 DEF McuInv, McuTypes
  <2>3. /\ at' \in [stage : 0 .. Arbiter, n : 1 .. 4,
                    step : {"write", "wait", "check", "version", "debug", "resume", "error", "success"}]
        /\ faults' \in Nat
    BY <1>2, <2>1
  <2>4. McuTypes'
    BY <1>2, <2>1, <2>2, <2>3 DEF McuInv, McuTypes
  <2>5. AtRight'
    BY <2>1 DEF AtRight
  <2>6. McuTypes' /\ AtRight'
    BY <2>4, <2>5
  <2>7. ~blind => ArbSound'
    BY <1>2, <2>1 DEF McuInv, ArbSound
  <2>8. ~blind => InStep' /\ Echoed' /\ StageSound' /\ Past'
    <3>1. at'.stage = Arbiter /\ at'.step # "write" /\ faults' \in Nat /\ faults <= faults'
      BY <1>2, <2>1
    <3> QED
      BY <1>2, <3>1, AgcStays
  <2>9. blind' = blind
    BY <2>1
  <2> QED
    BY <2>6, <2>7, <2>8, <2>9, Zenon DEF McuInv
<1>5. CASE sx1302_arb_wait_status
  <2>1. /\ at.step \in {"wait", "resume"} /\ UNCHANGED <<box, arb>>
        /\ IF at.step = "wait" THEN To("version", 1) ELSE To("success", 1)
        /\ \/ /\ arb.status = IF at.step = "wait" THEN 1 ELSE 0
              /\ faults' = faults /\ blind' = blind
           \/ faults' = faults + 1 /\ blind' = TRUE
    BY <1>2, <1>5 DEF sx1302_arb_wait_status, Go, Return, Fault, NoFault
  <2>2. blind' \in BOOLEAN
    BY <2>1, Zenon DEF McuInv, McuTypes
  <2>3. McuTypes' /\ AtRight'
    BY <1>2, <2>1, <2>2, SMTT(30) DEF McuInv, McuTypes, AtRight
  <2>4. ~blind' => ArbSound'
    BY <1>2, <2>1 DEF McuInv, ArbSound, Arb
  <2> QED
    BY <1>2, <2>1, <2>3, <2>4, AgcStays DEF McuInv
<1>6. CASE sx1302_arb_debug_read
  <2>1. /\ at.step = "version" /\ UNCHANGED <<box, arb, blind>>
        /\ (To("error", 1) \/ To("debug", 1)) /\ faults' \in {faults, faults + 1}
    BY <1>2, <1>6 DEF sx1302_arb_debug_read, Go, Return, Fault, NoFault
  <2>2. faults' \in {faults, faults + 1}
    BY <1>6 DEF sx1302_arb_debug_read, Fault, NoFault
  <2>3. McuTypes' /\ AtRight'
    BY <1>2, <2>1, <2>2, SMTT(30) DEF McuInv, McuTypes, AtRight
  <2>4. ~blind => ArbSound'
    BY <1>2, <2>1, <2>2 DEF McuInv, ArbSound
  <2>5. ~blind => InStep' /\ Echoed' /\ StageSound' /\ Past'
    <3>1. at'.stage = Arbiter /\ at'.step # "write" /\ faults' \in Nat /\ faults <= faults'
      BY <1>2, <2>1, <2>2
    <3> QED
      BY <1>2, <3>1, AgcStays
  <2>6. blind' = blind
    BY <2>1
  <2> QED
    BY <2>3, <2>4, <2>5, <2>6, Zenon DEF McuInv
<1>7. CASE sx1302_arb_debug_write
  <2>1. /\ at.step = "debug" /\ UNCHANGED <<box, blind>>
        /\ \/ /\ arb' = [arb EXCEPT !.regs[ArbConf[n].reg] = ArbConf[n].value]
              /\ faults' = faults
           \/ faults' = faults + 1
        /\ IF n < 4 THEN To("debug", n + 1) ELSE To("resume", 1)
    BY <1>1, <1>2, <1>3, <1>7 DEF sx1302_arb_debug_write, Go, Fault, NoFault
  <2>2. at'.stage = Arbiter /\ at'.step \in {"debug", "resume"} /\ at'.n \in 1 .. 4
    BY <1>1, <2>1
  <2>3. /\ at' \in [stage : 0 .. Arbiter, n : 1 .. 4,
                    step : {"write", "wait", "check", "version", "debug", "resume", "error", "success"}]
        /\ faults' \in Nat
    BY <1>1, <1>2, <2>1
  <2>4. McuTypes'
    BY <1>2, <2>1, <2>3 DEF McuInv, McuTypes
  <2>5. AtRight'
    BY <2>2 DEF AtRight
  <2>6. McuTypes' /\ AtRight'
    BY <2>4, <2>5
  <2>7. ASSUME ~blind, faults' = 0 PROVE arb' = Arb(1, n + 1, <<>>)
    <3>1. arb = Arb(1, n, <<>>) /\ arb' = [arb EXCEPT !.regs[ArbConf[n].reg] = ArbConf[n].value]
      BY <1>1, <1>2, <2>1, <2>7 DEF McuInv, ArbSound
    <3>2. [Regs(n) EXCEPT ![ArbConf[n].reg] = ArbConf[n].value] = Regs(n + 1)
      <4>1. CASE n = 1
        BY <4>1 DEF Regs, ArbConf
      <4>2. CASE n = 2
        BY <4>2 DEF Regs, ArbConf
      <4>3. CASE n = 3
        BY <4>3 DEF Regs, ArbConf
      <4>4. CASE n = 4
        BY <4>4 DEF Regs, ArbConf
      <4> QED
        BY <4>1, <4>2, <4>3, <4>4
    <3> QED
      BY <3>1, <3>2 DEF Arb
  <2>8. ~blind => ArbSound'
    BY <1>2, <2>1, <2>7 DEF ArbSound
  <2> QED
    BY <1>2, <2>1, <2>6, <2>8, AgcStays DEF McuInv
<1> QED
  BY <1>4, <1>5, <1>6, <1>7 DEF sx1302_arb_start

\* The firmware of the arbiter boots, and resumes when all its registers are written.
LEMMA ArbiterKeeps ==
  ASSUME McuInv, ArbBoots \/ ArbResumes
  PROVE  McuInv'
<1>1. UNCHANGED <<at, val, box, echo, status, agc, faults, blind>>
  BY DEF ArbBoots, ArbResumes
<1>2. McuTypes' /\ AtRight'
  BY <1>1 DEF McuInv, McuTypes, AtRight, Checked
<1>3. ~blind => InStep' /\ Echoed' /\ StageSound' /\ Past'
  BY <1>1 DEF McuInv, InStep, NotedBy, Echoed, StageSound, Arrived, EchoRight, Checked, Past
<1>4. ASSUME ~blind, faults = 0 PROVE ArbSound'
  <2>1. ArbSound
    BY <1>4 DEF McuInv
  <2>2. CASE ArbBoots
    <3>1. /\ at.stage = Arbiter /\ at.step = "wait" /\ arb.status = 0
          /\ arb' = [arb EXCEPT !.status = 1]
      BY <2>2 DEF ArbBoots
    <3>2. arb = Arb(0, 1, <<>>)
      BY <1>4, <2>1, <3>1 DEF ArbSound, Arb
    <3>3. arb' = Arb(1, 1, <<>>)
      BY <3>1, <3>2 DEF Arb
    <3> QED
      BY <1>1, <3>1, <3>3, StagesRight DEF ArbSound, Arbiter
  <2>3. CASE ArbResumes
    <3>1. /\ arb.status = 1 /\ arb.regs[2] = 1
          /\ arb' = [arb EXCEPT !.status = 0, !.runs = arb.runs \o arb.regs]
      BY <2>3 DEF ArbResumes
    <3>2. \A m \in 1 .. 4 : Regs(m)[2] = 0
      BY DEF Regs
    <3>3. /\ at.stage = Arbiter /\ Arbiter \in Nat
          /\ at.step = "error" \/ (at.step = "resume" /\ arb = Arb(1, 5, <<>>))
      <4>1. at.stage \in 0 .. Arbiter /\ at.n \in 1 .. 4 /\ Arbiter \in Nat
            /\ at.step \in {"write", "wait", "check", "version", "debug", "resume", "error", "success"}
        BY StagesRight DEF McuInv, McuTypes, Arbiter
      <4>2. \A st, m, runs : Arb(st, m, runs).status = st /\ Arb(st, m, runs).regs = Regs(m)
        BY DEF Arb
      <4>3. at.stage = Arbiter /\ at.step # "write"
        BY <1>4, <2>1, <3>1, <4>1, <4>2 DEF ArbSound
      <4>4. at.step \notin {"wait", "version", "debug", "success"}
        <5>1. \A m \in 1 .. 4 : arb # Arb(1, m, <<>>)
          BY <3>1, <3>2, <4>2
        <5> QED
          BY <1>4, <2>1, <3>1, <4>1, <4>2, <4>3, <5>1 DEF ArbSound
      <4>5. at.step # "check"
        BY <4>1, <4>3 DEF McuInv, AtRight
      <4> QED
        BY <1>4, <2>1, <3>1, <4>1, <4>2, <4>3, <4>4, <4>5 DEF ArbSound
    <3>4. arb = Arb(1, 5, <<>>) => arb' = Arb(0, 5, Regs(5))
      <4>1. <<>> \o Regs(5) = Regs(5)
        <5>1. Regs(5) \in Seq({7, 1, 3, DoubleDemod})
          BY DEF Regs
        <5> QED
          BY <5>1, ConcatEmptySeq
      <4>2. arb = Arb(1, 5, <<>>) => arb.runs = <<>> /\ arb.regs = Regs(5)
        BY DEF Arb
      <4>3. ASSUME NEW r, NEW old, NEW new, old = [status |-> 1, regs |-> r, runs |-> <<>>],
                   new = [old EXCEPT !.status = 0, !.runs = r]
            PROVE  new = [status |-> 0, regs |-> r, runs |-> r]
        BY <4>3
      <4>4. arb = Arb(1, 5, <<>>) => arb' = [arb EXCEPT !.status = 0, !.runs = Regs(5)]
        BY <3>1, <4>1, <4>2
      <4> QED
        BY <4>3, <4>4 DEF Arb
    <3> QED
      BY <1>1, <3>3, <3>4 DEF ArbSound
  <2> QED
    BY <2>2, <2>3
<1>5. faults # 0 => ArbSound'
  BY <1>1 DEF ArbSound
<1> QED
  BY <1>1, <1>2, <1>3, <1>4, <1>5 DEF McuInv

\* sx1302_agc_start ignores the result of every register access and relies on the echo
\* alone.  As long as no status was unreadable and at most one other access failed, a
\* stage it has gone past was taken by the AGC with exactly the bytes it chose; and when
\* no access failed, a start that succeeds (sx1302_arb_start) leaves the arbiter running
\* with its configuration.  This holds for both kinds of radio, both duplex modes, with
\* and without LBT, and whatever bound is put on the failed accesses.
THEOREM McuAgcConfigured == McuSpec => []AgcConfigured
<1>1. McuInv /\ [McuNext]_mcuVars => McuInv'
  <2> SUFFICES ASSUME McuInv, [McuNext]_mcuVars PROVE McuInv'
    OBVIOUS
  <2>1. CASE UNCHANGED mcuVars
    BY <2>1 DEF mcuVars, McuInv, McuTypes, AtRight, InStep, NotedBy, Echoed, StageSound, Arrived,
                EchoRight, Checked, Past, ArbSound
  <2>2. CASE McuNext
    BY <2>2, WriteKeeps, WaitKeeps, CheckKeeps, ArbKeeps, BootKeeps, TakeKeeps, ArbiterKeeps
       DEF McuNext
  <2> QED
    BY <2>1, <2>2
<1>2. McuInv => AgcConfigured
  <2>1. Regs(5) = <<7, 1, 3, DoubleDemod>>
    BY DEF Regs
  <2>2. ASSUME McuInv, ~blind, faults = 0, at.step = "success" PROVE arb.runs = Regs(5)
    BY <2>2 DEF McuInv, AtRight, ArbSound, Arb
  <2> QED
    BY <2>1, <2>2 DEF McuInv, Past, AgcConfigured
<1> QED
  BY <1>1, <1>2, McuInitInv, PTL DEF McuSpec

-----------------------------------------------------------------------------
(* Least and greatest elements: what takes the place of an induction *)

\* A set of natural numbers has a least element.
LEMMA LeastElement ==
  ASSUME NEW T, T \subseteq Nat, T # {}
  PROVE  \E x \in T : \A y \in T : x <= y
<1> DEFINE R == OpToRel(<, Nat)
<1>1. IsWellFoundedOn(R, Nat)
  BY NatLessThanWellFounded, Zenon
<1>2. \A x, y \in Nat : y < x => <<y, x>> \in R
  BY SMT DEF OpToRel
<1> HIDE DEF R
<1>3. PICK x \in T : \A y \in T : ~(<<y, x>> \in R)
  BY <1>1, WFMin, Zenon
<1>4. x \in Nat /\ \A y \in T : y \in Nat /\ ~(y < x)
  BY <1>2, <1>3
<1>5. \A y \in T : x <= y
  BY <1>4
<1> QED
  BY <1>5

\* A set of indexes has a greatest element.
LEMMA GreatestIndex ==
  ASSUME NEW n \in Nat, NEW T, T \subseteq 1 .. n, T # {}
  PROVE  \E x \in T : \A y \in T : y <= x
<1> DEFINE D == {n - y : y \in T}
<1>1. D \subseteq Nat /\ D # {}
  <2>1. \A y \in T : n - y \in Nat
    OBVIOUS
  <2>2. D # {}
    OBVIOUS
  <2> QED
    BY <2>1, <2>2
<1>2. PICK d \in D : \A e \in D : d <= e
  BY <1>1, LeastElement, Zenon
<1>3. PICK x \in T : d = n - x
  BY <1>2
<1>4. ASSUME NEW y \in T PROVE y <= x
  <2>1. n - y \in D
    OBVIOUS
  <2> QED
    BY <1>2, <1>3, <2>1
<1> QED
  BY <1>4

-----------------------------------------------------------------------------
(* The configuration: the power of a packet                                *)

\* thread_down finds an entry when the table has one that does not exceed the power,
\* and it is one of the strongest of these.
LEMMA ChosenIsStrongest ==
  ASSUME NEW lut \in Seq(GainEntries), NEW power \in Int, NotAbove(lut, power) # {}
  PROVE  \E j \in NotAbove(lut, power) :
           /\ ChosenPower(lut, power) = lut[j].rf_power
           /\ \A k \in NotAbove(lut, power) : lut[k].rf_power <= lut[j].rf_power
<1> DEFINE low == NotAbove(lut, power)
           best == get_tx_gain_lut_index(lut, power)
<1>1. \A j \in low : j \in Nat /\ j \in 1 .. Len(lut) /\ lut[j].rf_power \in Int /\ lut[j].rf_power <= power
  <2>1. \A j \in 1 .. Len(lut) : lut[j] \in GainEntries
    OBVIOUS
  <2>2. \A e \in GainEntries : e.rf_power \in Int
    BY DEF GainEntries
  <2>3. \A j \in low : j \in 1 .. Len(lut) /\ lut[j].rf_power <= power
    BY DEF NotAbove
  <2> QED
    BY <2>1, <2>2, <2>3
<1>2. low # {}
  OBVIOUS
<1>3. \A j : j \in best <=>
        /\ j \in low
        /\ \A k \in low : \/ lut[k].rf_power < lut[j].rf_power
                         \/ (lut[k].rf_power = lut[j].rf_power /\ j <= k)
  BY DEF get_tx_gain_lut_index
<1>4. best # {} => ChosenPower(lut, power) = lut[CHOOSE j \in best : TRUE].rf_power
  BY DEF ChosenPower
<1> HIDE DEF low, best
<1> DEFINE gaps == {power - lut[j].rf_power : j \in low}
<1>5. \A j \in low : power - lut[j].rf_power \in Nat
  BY <1>1
<1>6. gaps \subseteq Nat /\ gaps # {}
  BY <1>2, <1>5
<1>7. PICK g \in gaps : \A h \in gaps : g <= h
  BY <1>6, LeastElement, Zenon
<1>8. PICK j0 \in low : g = power - lut[j0].rf_power
  BY <1>7
<1>9. \A k \in low : lut[k].rf_power <= lut[j0].rf_power
  <2>1. ASSUME NEW k \in low PROVE lut[k].rf_power <= lut[j0].rf_power
    <3>1. power - lut[k].rf_power \in gaps
      OBVIOUS
    <3>2. power - lut[j0].rf_power <= power - lut[k].rf_power
      BY <1>7, <1>8, <3>1
    <3> QED
      BY <1>1, <3>2
  <2> QED
    BY <2>1
<1> DEFINE top == {k \in low : lut[k].rf_power = lut[j0].rf_power}
<1>10. top \subseteq Nat /\ top # {}
  BY <1>1, <1>8
<1>11. PICK j1 \in top : \A k \in top : j1 <= k
  BY <1>10, LeastElement, Zenon
<1>12. j1 \in best
  <2>1. ASSUME NEW k \in low
        PROVE  \/ lut[k].rf_power < lut[j1].rf_power
               \/ (lut[k].rf_power = lut[j1].rf_power /\ j1 <= k)
    <3>1. lut[j1].rf_power = lut[j0].rf_power /\ j1 \in low
      BY <1>11
    <3>2. CASE lut[k].rf_power = lut[j0].rf_power
      BY <1>11, <3>1, <3>2
    <3>3. CASE lut[k].rf_power # lut[j0].rf_power
      BY <1>1, <1>8, <1>9, <3>1, <3>3, SMTT(30)
    <3> QED
      BY <3>2, <3>3
  <2> QED
    BY <1>3, <1>11, <2>1
<1>13. PICK j \in best : ChosenPower(lut, power) = lut[j].rf_power
  BY <1>4, <1>12
<1>14. j \in low /\ \A k \in low : lut[k].rf_power <= lut[j].rf_power
  BY <1>1, <1>3, <1>13, SMTT(30)
<1> QED
  BY <1>13, <1>14 DEF low

\* sx1302_send then emits with a power that does not exceed it, and with no less when
\* the table is sorted.
LEMMA EmittedIsChosen ==
  ASSUME NEW lut \in Seq(GainEntries), NEW power \in Int, NotAbove(lut, power) # {}
  PROVE  LET emitted == EmittedPower(lut, ChosenPower(lut, power))
         IN  /\ emitted <= power
             /\ Ascending(lut) => \A j \in NotAbove(lut, power) : lut[j].rf_power <= emitted
<1> DEFINE c == ChosenPower(lut, power)
           low == NotAbove(lut, c) \ {1}
           emitted == EmittedPower(lut, c)
<1>1. PICK j0 \in NotAbove(lut, power) :
        /\ c = lut[j0].rf_power
        /\ \A k \in NotAbove(lut, power) : lut[k].rf_power <= lut[j0].rf_power
  BY ChosenIsStrongest
<1>2. /\ Len(lut) \in Nat /\ \A j \in 1 .. Len(lut) : lut[j].rf_power \in Int
      /\ j0 \in 1 .. Len(lut) /\ lut[j0].rf_power <= power
  <2>1. \A j \in 1 .. Len(lut) : lut[j] \in GainEntries
    OBVIOUS
  <2>2. \A e \in GainEntries : e.rf_power \in Int
    BY DEF GainEntries
  <2>3. j0 \in 1 .. Len(lut) /\ lut[j0].rf_power <= power
    BY <1>1 DEF NotAbove
  <2> QED
    BY <2>1, <2>2, <2>3
<1>3. j0 \in NotAbove(lut, c) /\ \A j : j \in NotAbove(lut, c) <=> j \in 1 .. Len(lut) /\ lut[j].rf_power <= c
  BY <1>1, <1>2 DEF NotAbove
<1>4. emitted = IF low = {} THEN lut[1].rf_power
                ELSE lut[CHOOSE j \in low : \A k \in low : k <= j].rf_power
  BY DEF EmittedPower
<1>5. low \subseteq 1 .. Len(lut) /\ \A j \in low : lut[j].rf_power <= c /\ j # 1
  BY <1>3
<1>6. c \in Int /\ c <= power
  BY <1>1, <1>2
<1>7. \A j \in NotAbove(lut, c) : j = 1 \/ j \in low
  OBVIOUS
<1> HIDE DEF c, low, emitted
<1>8. CASE low = {}
  <2>1. j0 = 1 /\ emitted = c
    BY <1>1, <1>3, <1>4, <1>7, <1>8
  <2>2. emitted <= power /\ \A j \in NotAbove(lut, power) : lut[j].rf_power <= emitted
    BY <1>1, <1>6, <2>1
  <2> QED
    BY <2>2 DEF c, emitted
<1>9. CASE low # {}
  <2>1. \E x \in low : \A y \in low : y <= x
    BY <1>2, <1>5, <1>9, GreatestIndex, Zenon
  <2>2. PICK m \in low : (\A k \in low : k <= m) /\ emitted = lut[m].rf_power
    BY <1>4, <1>9, <2>1
  <2>3. emitted \in Int /\ emitted <= power
    BY <1>2, <1>5, <1>6, <2>2
  <2>4. ASSUME Ascending(lut), NEW j \in NotAbove(lut, power) PROVE lut[j].rf_power <= emitted
    <3>1. m \in 1 .. Len(lut) /\ m # 1 /\ j0 <= m
      BY <1>2, <1>3, <1>5, <1>7, <2>2
    <3>2. lut[j0].rf_power <= lut[m].rf_power
      <4>1. CASE j0 = m
        BY <1>2, <4>1
      <4>2. CASE j0 < m
        BY <1>2, <2>4, <3>1, <4>2 DEF Ascending
      <4> QED
        BY <1>2, <3>1, <4>1, <4>2
    <3>3. j \in 1 .. Len(lut) /\ lut[j].rf_power <= lut[j0].rf_power
      BY <1>1 DEF NotAbove
    <3>4. lut[j].rf_power \in Int /\ lut[j0].rf_power \in Int /\ lut[m].rf_power \in Int
      BY <1>2, <3>1, <3>3
    <3> QED
      BY <2>2, <3>2, <3>3, <3>4
  <2> QED
    BY <2>3, <2>4 DEF c, emitted
<1> QED
  BY <1>8, <1>9

-----------------------------------------------------------------------------
(* The configuration: the program and the HAL                              *)

ReceiveChannels == [on : BOOLEAN, freq : Int, bw : Int, given : BOOLEAN]
ParsedChannels == [freq_hz : Int, bandwidth : Int, scan_time_us : Int, transmit_time_ms : Int]

ConfTypes ==
  [com_type : {"SPI", "USB"}, scan : BOOLEAN, tx_enable : [RfChain -> BOOLEAN],
   tx_freq_max : [RfChain -> Nat], txlut : [RfChain -> Seq(GainEntries)],
   gps_tty_path : BOOLEAN, mqtt_enabled : BOOLEAN]

CtxTypes ==
  [ftime : {"off", "none", "high_capacity", "all_sf", "other"}, sx1261 : BOOLEAN,
   lbt : Seq(ParsedChannels), tx_enable : [RfChain -> BOOLEAN],
   tx_gain_lut : [RfChain -> Seq(GainEntries)], multisf : SUBSET Int,
   service : ReceiveChannels, fsk : ReceiveChannels]

\* The sections that are read before chain i is.
Until(i) == {"file", "board", "ftime", "sx1261", "radio0"} \cup (IF i = 0 THEN {} ELSE {"radio1"})

\* A chain has no settings before its section is read; after it, the program has
\* the HAL's: the table, if it has one.
RadiosAgree ==
  \A i \in RfChain :
    /\ section \in Until(i) =>
         conf.tx_enable[i] = FALSE /\ conf.tx_freq_max[i] = 0 /\ conf.txlut[i] = <<>>
    /\ conf.tx_enable[i] = ctx.tx_enable[i]
    /\ conf.tx_freq_max[i] > 0 => ctx.tx_enable[i]
    /\ conf.txlut[i] # <<>> => ctx.tx_gain_lut[i] = conf.txlut[i]

Going == section \notin {"failed", "crashed"}

ListenAgrees ==
  /\ conf.scan => ctx.sx1261
  /\ Going /\ Len(ctx.lbt) <= LGW_LBT_CHANNEL_NB_MAX =>
       \A k \in 1 .. Len(ctx.lbt) : ChannelAccepted(ctx.lbt[k])

InTheBand(c) == c.given => InBand(c.freq, c.bw)

ChannelsInBand == Going => InTheBand(ctx.service) /\ InTheBand(ctx.fsk)

\* What was refused is not looked at again: no action follows "failed" and "crashed".
ConfigInv ==
  /\ conf \in ConfTypes /\ ctx \in CtxTypes
  /\ RadiosAgree /\ ListenAgrees /\ ChannelsInBand

\* Before the file is read there is nothing to disagree about.
LEMMA ConfigInitInv == ConfigInit => ConfigInv
<1> SUFFICES ASSUME ConfigInit PROVE ConfigInv
  OBVIOUS
<1>1. conf \in ConfTypes
  BY DEF ConfigInit, ConfTypes, RfChain
<1>2. ctx \in CtxTypes
  <2>1. DefaultLut \in Seq(GainEntries)
    BY DEF DefaultLut, GainEntries
  <2>2. NoChannel \in ReceiveChannels
    BY DEF NoChannel, ReceiveChannels
  <2>3. <<>> \in Seq(ParsedChannels) /\ 5 .. 12 \in SUBSET Int
    OBVIOUS
  <2> QED
    BY <2>1, <2>2, <2>3 DEF ConfigInit, CtxTypes, RfChain
<1>3. RadiosAgree
  BY DEF ConfigInit, RadiosAgree
<1>4. ListenAgrees
  BY DEF ConfigInit, ListenAgrees
<1>5. ChannelsInBand
  BY DEF ConfigInit, ChannelsInBand, InTheBand, NoChannel
<1> QED
  BY <1>1, <1>2, <1>3, <1>4, <1>5 DEF ConfigInv

\* The settings of the radios are left alone by the other sections.
LEMMA RadiosStay ==
  ASSUME ConfigInv, section \in {"file", "board", "ftime", "sx1261"} \/ section' \notin Until(1),
         section' \in Until(1) => section' # "radio1",
         conf'.tx_enable = conf.tx_enable, conf'.tx_freq_max = conf.tx_freq_max,
         conf'.txlut = conf.txlut, ctx'.tx_enable = ctx.tx_enable,
         ctx'.tx_gain_lut = ctx.tx_gain_lut
  PROVE  RadiosAgree'
<1>1. ASSUME NEW i \in RfChain PROVE section' \in Until(i) => section \in Until(i)
  BY DEF Until, RfChain
<1> QED
  BY <1>1 DEF ConfigInv, RadiosAgree

\* main, the board, the time stamps, the filter of the demodulators.
LEMMA HeadKeeps ==
  ASSUME ConfigInv, OpenFile \/ ParseBoard \/ ParseFineTimestamp \/ ParseDemod \/ ParseMultiSf
  PROVE  ConfigInv'
<1>1. /\ section \in {"file", "board", "ftime", "demod", "channels"}
      /\ section' \in {"board", "ftime", "sx1261", "channels", "lora_std", "failed"}
      /\ section \in {"demod", "channels"} => section' \in {"channels", "lora_std", "failed"}
  BY DEF OpenFile, ParseBoard, ParseFineTimestamp, ParseDemod, ParseMultiSf, Continue
<1>2. /\ conf' \in ConfTypes
      /\ \/ conf' = conf
         \/ \E t \in {"SPI", "USB"} : conf' = [conf EXCEPT !.com_type = t]
  BY ZenonT(60) DEF OpenFile, ParseBoard, ParseFineTimestamp, ParseDemod, ParseMultiSf, ConfigInv, ConfTypes
<1>3. \/ ctx' = ctx
      \/ \E m \in {"none", "high_capacity", "all_sf", "other"} : ctx' = [ctx EXCEPT !.ftime = m]
      \/ \E m \in SUBSET Int : ctx' = [ctx EXCEPT !.multisf = m]
  <2>1. ASSUME NEW list \in SfLists PROVE EnabledFactors(list) \in SUBSET Int
    <3>1. list \in Seq(Int)
      BY ConfigAssumption
    <3> QED
      BY <3>1 DEF EnabledFactors
  <2>2. 5 .. 12 \in SUBSET Int
    OBVIOUS
  <2>3. CASE ParseDemod
    BY <2>1, <2>2, <2>3 DEF ParseDemod
  <2>4. CASE ParseFineTimestamp
    BY <2>4 DEF ParseFineTimestamp
  <2> QED
    BY <2>3, <2>4 DEF OpenFile, ParseBoard, ParseMultiSf
<1>4. /\ ctx' \in CtxTypes
      /\ ctx'.tx_enable = ctx.tx_enable /\ ctx'.tx_gain_lut = ctx.tx_gain_lut
      /\ ctx'.sx1261 = ctx.sx1261 /\ ctx'.lbt = ctx.lbt
      /\ ctx'.service = ctx.service /\ ctx'.fsk = ctx.fsk
  BY <1>3 DEF ConfigInv, CtxTypes
<1>5. /\ conf'.tx_enable = conf.tx_enable /\ conf'.tx_freq_max = conf.tx_freq_max
      /\ conf'.txlut = conf.txlut /\ conf'.scan = conf.scan
  BY <1>2 DEF ConfigInv, ConfTypes
<1>6. RadiosAgree'
  BY <1>1, <1>4, <1>5, RadiosStay DEF Until
<1>7. ListenAgrees' /\ ChannelsInBand'
  BY <1>1, <1>4, <1>5 DEF ConfigInv, ListenAgrees, ChannelsInBand, Going
<1> QED
  BY <1>2, <1>4, <1>6, <1>7 DEF ConfigInv

\* The list of LBT channels the HAL is handed.
LEMMA ParsedListTyped ==
  ASSUME NEW list \in LbtLists
  PROVE  ParsedList(list) \in Seq(ParsedChannels)
<1>1. list \in Seq(LbtEntries)
  BY ConfigAssumption
<1>2. ASSUME NEW c \in LbtEntries PROVE ParsedChannel(c) \in ParsedChannels
  <2>1. \A v \in JsonValues : Number(v) \in Int /\ v.n \in Int
    BY DEF JsonValues, Number
  <2>2. /\ c.freq_hz \in JsonValues /\ c.bandwidth \in JsonValues
        /\ c.scan_time_us \in JsonValues /\ c.transmit_time_ms \in JsonValues
    BY DEF LbtEntries
  <2> QED
    BY <2>1, <2>2 DEF ParsedChannel, ParsedChannels
<1>3. Garbage \in ParsedChannels
  BY DEF Garbage, ParsedChannels
<1>4. \A i \in 1 .. Len(list) : list[i] \in LbtEntries
  BY <1>1
<1>5. Len(list) \in Nat
  BY <1>1
<1>6. \A i \in 1 .. Len(list) :
        (IF i <= LGW_LBT_CHANNEL_NB_MAX THEN ParsedChannel(list[i]) ELSE Garbage) \in ParsedChannels
  BY <1>2, <1>3, <1>4
<1>7. ParsedList(list) \in [1 .. Len(list) -> ParsedChannels]
  BY <1>6 DEF ParsedList
<1> QED
  BY <1>5, <1>7

\* sx1261_conf: what the HAL accepts is right as far as it is known.
LEMMA Sx1261Keeps ==
  ASSUME ConfigInv, ParseSx1261
  PROVE  ConfigInv'
<1>1. section = "sx1261" /\ section' \in {"radio0", "failed"}
  BY DEF ParseSx1261, Continue
<1>2. CASE UNCHANGED <<conf, ctx>>
  <2>1. RadiosAgree'
    BY <1>1, <1>2, RadiosStay DEF Until
  <2> QED
    BY <1>1, <1>2, <2>1 DEF ConfigInv, ListenAgrees, ChannelsInBand, Going
<1>3. ASSUME NEW scan \in Flags, NEW lbt \in Flags, NEW list \in LbtLists, NEW luck \in BOOLEAN,
             NEW parsed, parsed = IF IsTrue(lbt) THEN ParsedList(list) ELSE <<>>,
             conf' = [conf EXCEPT !.scan = IsTrue(scan)],
             ctx' = [ctx EXCEPT !.sx1261 = IsTrue(scan) \/ IsTrue(lbt), !.lbt = parsed],
             Continue(IsTrue(lbt) =>
                        ~ListFails(list) /\ ListAccepted(parsed)
                          /\ (Len(parsed) <= LGW_LBT_CHANNEL_NB_MAX \/ luck), "radio0")
      PROVE  ConfigInv'
  <2>1. parsed \in Seq(ParsedChannels)
    BY <1>3, ParsedListTyped
  <2>2. IsTrue(scan) \in BOOLEAN /\ (IsTrue(scan) \/ IsTrue(lbt)) \in BOOLEAN
    BY DEF IsTrue
  <2>3. conf \in ConfTypes /\ ctx \in CtxTypes
    BY DEF ConfigInv
  <2>4. /\ conf' \in ConfTypes /\ conf'.scan = IsTrue(scan)
        /\ conf'.tx_enable = conf.tx_enable /\ conf'.tx_freq_max = conf.tx_freq_max
        /\ conf'.txlut = conf.txlut
    BY <1>3, <2>2, <2>3 DEF ConfTypes
  <2>5. /\ ctx' \in CtxTypes /\ ctx'.sx1261 = (IsTrue(scan) \/ IsTrue(lbt)) /\ ctx'.lbt = parsed
        /\ ctx'.tx_enable = ctx.tx_enable /\ ctx'.tx_gain_lut = ctx.tx_gain_lut
        /\ ctx'.service = ctx.service /\ ctx'.fsk = ctx.fsk
    BY <1>3, <2>1, <2>2, <2>3 DEF CtxTypes
  <2>6. RadiosAgree'
    BY <1>1, <2>4, <2>5, RadiosStay DEF Until
  <2>7. (conf.scan => ctx.sx1261)'
    BY <2>4, <2>5
  <2>8. ASSUME section' # "failed", Len(parsed) <= LGW_LBT_CHANNEL_NB_MAX,
               NEW k \in 1 .. Len(parsed)
        PROVE  ChannelAccepted(parsed[k])
    <3>1. IsTrue(lbt)
      BY <1>3, <2>8
    <3>2. ListAccepted(parsed)
      BY <1>3, <2>8, <3>1 DEF Continue
    <3>3. Len(parsed) \in Nat /\ LGW_LBT_CHANNEL_NB_MAX \in Nat
      BY <2>1, ConfigAssumption
    <3> QED
      BY <2>8, <3>2, <3>3 DEF ListAccepted
  <2>9. ListenAgrees'
    BY <2>5, <2>7, <2>8 DEF ListenAgrees, Going
  <2>10. ChannelsInBand'
    BY <1>1, <2>5 DEF ConfigInv, ChannelsInBand, Going
  <2> QED
    BY <2>4, <2>5, <2>6, <2>9, <2>10 DEF ConfigInv
<1> QED
  BY <1>2, <1>3, ZenonT(60) DEF ParseSx1261

\* A radio that is skipped.
LEMMA SkipKeeps ==
  ASSUME ConfigInv, NEW i \in RfChain, SkipRadio(i)
  PROVE  ConfigInv'
<1>1. UNCHANGED <<conf, ctx>> /\ section = Section(i) /\ section' \in {AfterRadio(i), "crashed"}
  BY DEF SkipRadio
<1>2. \A k \in RfChain : section' \in Until(k) => section \in Until(k)
  BY <1>1 DEF Section, AfterRadio, Until, RfChain
<1>3. RadiosAgree'
  BY <1>1, <1>2 DEF ConfigInv, RadiosAgree
<1>4. Going
  BY <1>1 DEF Going, Section
<1> QED
  BY <1>1, <1>3, <1>4 DEF ConfigInv, ListenAgrees, ChannelsInBand

\* radio_<i>: the chain gets the same table on both sides, or has none.
LEMMA RadioKeeps ==
  ASSUME ConfigInv, NEW i \in RfChain, ParseRadio(i)
  PROVE  ConfigInv'
<1>1. /\ section = Section(i) /\ section' \in {AfterRadio(i), "failed"}
  BY DEF ParseRadio, Continue
<1>2. PICK tx \in Flags, max \in {0, 1}, lut \in GainTables :
        /\ conf' = IF ~IsTrue(tx) THEN conf
                   ELSE [conf EXCEPT !.tx_enable[i] = TRUE, !.tx_freq_max[i] = max,
                                     !.txlut[i] = lut]
        /\ ctx' = [ctx EXCEPT !.tx_enable[i] = IsTrue(tx),
                              !.tx_gain_lut[i] = IF IsTrue(tx) /\ lut # <<>> THEN lut ELSE @]
  BY DEF ParseRadio
<1>3. lut \in Seq(GainEntries)
  BY ConfigAssumption
<1>4. conf \in ConfTypes /\ ctx \in CtxTypes
  BY DEF ConfigInv
<1>5. /\ conf.tx_enable[i] = FALSE /\ conf.tx_freq_max[i] = 0 /\ conf.txlut[i] = <<>>
  BY <1>1 DEF ConfigInv, RadiosAgree, Until, Section, RfChain
<1>6. /\ conf.tx_enable \in [RfChain -> BOOLEAN] /\ conf.tx_freq_max \in [RfChain -> Nat]
      /\ conf.txlut \in [RfChain -> Seq(GainEntries)]
      /\ ctx.tx_enable \in [RfChain -> BOOLEAN] /\ ctx.tx_gain_lut \in [RfChain -> Seq(GainEntries)]
  BY <1>4 DEF ConfTypes, CtxTypes
<1>7. /\ conf' \in ConfTypes /\ conf'.scan = conf.scan
      /\ conf'.tx_enable = [conf.tx_enable EXCEPT ![i] = IsTrue(tx)]
      /\ conf'.tx_freq_max = [conf.tx_freq_max EXCEPT ![i] = IF IsTrue(tx) THEN max ELSE 0]
      /\ conf'.txlut = [conf.txlut EXCEPT ![i] = IF IsTrue(tx) THEN lut ELSE <<>>]
  <2>1. CASE IsTrue(tx)
    <3>1. IsTrue(tx) = TRUE
      BY <2>1 DEF IsTrue
    <3>2. conf' = [conf EXCEPT !.tx_enable = [conf.tx_enable EXCEPT ![i] = TRUE],
                               !.tx_freq_max = [conf.tx_freq_max EXCEPT ![i] = max],
                               !.txlut = [conf.txlut EXCEPT ![i] = lut]]
      BY <1>2, <1>4, <2>1 DEF ConfTypes
    <3>3. /\ [conf.tx_enable EXCEPT ![i] = TRUE] \in [RfChain -> BOOLEAN]
          /\ [conf.tx_freq_max EXCEPT ![i] = max] \in [RfChain -> Nat]
          /\ [conf.txlut EXCEPT ![i] = lut] \in [RfChain -> Seq(GainEntries)]
      BY <1>3, <1>6
    <3>4. /\ conf' \in ConfTypes /\ conf'.scan = conf.scan
          /\ conf'.tx_enable = [conf.tx_enable EXCEPT ![i] = TRUE]
          /\ conf'.tx_freq_max = [conf.tx_freq_max EXCEPT ![i] = max]
          /\ conf'.txlut = [conf.txlut EXCEPT ![i] = lut]
      BY <1>4, <3>2, <3>3 DEF ConfTypes
    <3> QED
      BY <2>1, <3>1, <3>4
  <2>2. CASE ~IsTrue(tx)
    <3>1. conf' = conf
      BY <1>2, <2>2
    <3>2. IsTrue(tx) = FALSE
      BY <2>2 DEF IsTrue
    <3> QED
      BY <1>4, <1>5, <1>6, <3>1, <3>2
  <2> QED
    BY <2>1, <2>2
<1>8. /\ ctx' \in CtxTypes
      /\ ctx'.sx1261 = ctx.sx1261 /\ ctx'.lbt = ctx.lbt
      /\ ctx'.service = ctx.service /\ ctx'.fsk = ctx.fsk
      /\ ctx'.tx_enable = [ctx.tx_enable EXCEPT ![i] = IsTrue(tx)]
      /\ ctx'.tx_gain_lut = [ctx.tx_gain_lut EXCEPT ![i] =
                               IF IsTrue(tx) /\ lut # <<>> THEN lut ELSE @]
  <2>1. IsTrue(tx) \in BOOLEAN
    BY DEF IsTrue
  <2> QED
    BY <1>2, <1>3, <1>4, <1>6, <2>1 DEF CtxTypes
<1>9. ASSUME NEW k \in RfChain
      PROVE  /\ section' \in Until(k) =>
                  conf'.tx_enable[k] = FALSE /\ conf'.tx_freq_max[k] = 0 /\ conf'.txlut[k] = <<>>
             /\ conf'.tx_enable[k] = ctx'.tx_enable[k]
             /\ conf'.tx_freq_max[k] > 0 => ctx'.tx_enable[k]
             /\ conf'.txlut[k] # <<>> => ctx'.tx_gain_lut[k] = conf'.txlut[k]
  <2>1. CASE k = i
    <3>1. section' \notin Until(k)
      BY <1>1, <2>1 DEF AfterRadio, Until, RfChain
    <3> QED
      BY <1>6, <1>7, <1>8, <2>1, <3>1
  <2>2. CASE k # i
    <3>1. section' \in Until(k) => section \in Until(k)
      BY <1>1, <2>2 DEF AfterRadio, Section, Until, RfChain
    <3>2. /\ conf'.tx_enable[k] = conf.tx_enable[k] /\ conf'.tx_freq_max[k] = conf.tx_freq_max[k]
          /\ conf'.txlut[k] = conf.txlut[k] /\ ctx'.tx_enable[k] = ctx.tx_enable[k]
          /\ ctx'.tx_gain_lut[k] = ctx.tx_gain_lut[k]
      BY <1>6, <1>7, <1>8, <2>2
    <3> QED
      BY <3>1, <3>2 DEF ConfigInv, RadiosAgree
  <2> QED
    BY <2>1, <2>2
<1>10. RadiosAgree'
  BY <1>9 DEF RadiosAgree
<1>11. Going
  BY <1>1 DEF Going, Section
<1>12. ListenAgrees' /\ ChannelsInBand'
  BY <1>7, <1>8, <1>11 DEF ConfigInv, ListenAgrees, ChannelsInBand
<1> QED
  BY <1>7, <1>8, <1>10, <1>12 DEF ConfigInv

\* A channel that the HAL accepted lies in the band of its radio if its bandwidth is given.
LEMMA ChannelSet ==
  ASSUME NEW c \in [radio : Int, freq : Int, bw : Int]
  PROVE  /\ Channel(c) \in ReceiveChannels
         /\ IfAccepted(c) => InTheBand(Channel(c))
<1>1. c.freq \in Int /\ c.bw \in Int /\ (c.bw # 0) \in BOOLEAN
  OBVIOUS
<1>2. Channel(c) \in ReceiveChannels
  BY <1>1 DEF Channel, ReceiveChannels
<1>3. /\ Channel(c).freq = c.freq /\ Channel(c).given = (c.bw # 0)
      /\ c.bw # 0 => Channel(c).bw = c.bw
  BY DEF Channel
<1>4. IfAccepted(c) /\ c.bw # 0 => InBand(c.freq, c.bw)
  BY DEF IfAccepted
<1> QED
  BY <1>2, <1>3, <1>4 DEF InTheBand

\* chan_Lora_std and chan_FSK.
LEMMA ChannelsKeep ==
  ASSUME ConfigInv, ParseLoraStd \/ ParseFsk
  PROVE  ConfigInv'
<1>1. /\ section \in {"lora_std", "fsk"} /\ section' \in {"fsk", "gateway", "failed"}
      /\ UNCHANGED conf
  BY DEF ParseLoraStd, ParseFsk, Continue
<1>2. \/ UNCHANGED ctx
      \/ \E known \in [radio : Int, freq : Int, bw : Int] :
           /\ \/ ctx' = [ctx EXCEPT !.service = Channel(known)]
              \/ ctx' = [ctx EXCEPT !.fsk = Channel(known)]
           /\ section' # "failed" => IfAccepted(known)
  <2>1. ASSUME NEW c \in IfChannels PROVE c \in [radio : Int, freq : Int, bw : Nat]
    BY ConfigAssumption
  <2>2. CASE ParseLoraStd
    <3>1. ASSUME NEW c \in IfChannels
          PROVE  [c EXCEPT !.bw = IF @ \in {125, 250, 500} THEN @ ELSE 0]
                   \in [radio : Int, freq : Int, bw : Int]
      BY <2>1
    <3>2. CASE UNCHANGED ctx
      BY <3>2
    <3>3. CASE ~UNCHANGED ctx
      <4>1. PICK c \in IfChannels, complete \in BOOLEAN :
              LET known == [c EXCEPT !.bw = IF @ \in {125, 250, 500} THEN @ ELSE 0]
              IN  /\ Continue(complete /\ IfAccepted(known), "fsk")
                  /\ ctx' = [ctx EXCEPT !.service = Channel(known)]
        BY <2>2, <3>3, Zenon DEF ParseLoraStd
      <4> DEFINE known == [c EXCEPT !.bw = IF @ \in {125, 250, 500} THEN @ ELSE 0]
      <4>2. known \in [radio : Int, freq : Int, bw : Int]
        BY <3>1
      <4>3. /\ Continue(complete /\ IfAccepted(known), "fsk")
            /\ ctx' = [ctx EXCEPT !.service = Channel(known)]
        BY <4>1, Zenon
      <4> HIDE DEF known
      <4>4. section' # "failed" => IfAccepted(known)
        BY <4>3 DEF Continue
      <4> QED
        BY <4>2, <4>3, <4>4
    <3> QED
      BY <3>2, <3>3
  <2>3. CASE ParseFsk
    <3>1. ASSUME NEW bw \in Nat, NEW fdev \in {0, 25}, NEW datarate \in {50, 251}
          PROVE  FskBandwidth(bw, fdev, datarate) \in Int
      BY DEF FskBandwidth
    <3>2. CASE UNCHANGED ctx
      BY <3>2
    <3>3. CASE ~UNCHANGED ctx
      <4>1. PICK c \in IfChannels, fdev \in {0, 25}, datarate \in {50, 251} :
              LET known == [c EXCEPT !.bw = FskBandwidth(@, fdev, datarate)]
              IN  /\ Continue(IfAccepted(known) /\ datarate <= DR_FSK_MAX, "gateway")
                  /\ ctx' = [ctx EXCEPT !.fsk = Channel(known)]
        BY <2>3, <3>3, Zenon DEF ParseFsk
      <4> DEFINE known == [c EXCEPT !.bw = FskBandwidth(@, fdev, datarate)]
      <4>2. known \in [radio : Int, freq : Int, bw : Int]
        <5>1. PICK bw \in Int : bw = FskBandwidth(c.bw, fdev, datarate)
          BY <2>1, <3>1
        <5> QED
          BY <2>1, <5>1
      <4>3. /\ Continue(IfAccepted(known) /\ datarate <= DR_FSK_MAX, "gateway")
            /\ ctx' = [ctx EXCEPT !.fsk = Channel(known)]
        BY <4>1, Zenon
      <4> HIDE DEF known
      <4>4. section' # "failed" => IfAccepted(known)
        BY <4>3, Zenon DEF Continue
      <4> QED
        BY <4>2, <4>3, <4>4
    <3> QED
      BY <3>2, <3>3
  <2> QED
    BY <2>2, <2>3
<1>3. /\ ctx' \in CtxTypes
      /\ ctx'.tx_enable = ctx.tx_enable /\ ctx'.tx_gain_lut = ctx.tx_gain_lut
      /\ ctx'.sx1261 = ctx.sx1261 /\ ctx'.lbt = ctx.lbt
  BY <1>2, ChannelSet, ZenonT(60) DEF ConfigInv, CtxTypes
<1>4. ChannelsInBand'
  <2>1. InTheBand(ctx.service) /\ InTheBand(ctx.fsk)
    BY <1>1 DEF ConfigInv, ChannelsInBand, Going
  <2>2. section' # "failed" => InTheBand(ctx'.service) /\ InTheBand(ctx'.fsk)
    BY <1>2, <2>1, ChannelSet DEF ConfigInv, CtxTypes
  <2> QED
    BY <2>2 DEF ChannelsInBand, Going, InTheBand
<1>5. RadiosAgree'
  BY <1>1, <1>3, RadiosStay DEF Until
<1>6. ListenAgrees'
  BY <1>1, <1>3 DEF ConfigInv, ListenAgrees, Going
<1> QED
  BY <1>1, <1>3, <1>4, <1>5, <1>6 DEF ConfigInv

\* gateway_conf, mqtt_conf and debug_conf.
LEMMA TailKeeps ==
  ASSUME ConfigInv, ParseGateway \/ ParseMqtt \/ ParseDebug
  PROVE  ConfigInv'
<1>1. /\ section \in {"gateway", "mqtt", "debug"} /\ UNCHANGED ctx
      /\ section' \in {"mqtt", "debug", "parsed", "failed", "crashed"}
  BY DEF ParseGateway, ParseMqtt, ParseDebug, Continue
<1>2. \/ conf' = conf
      \/ \E b \in BOOLEAN : conf' = [conf EXCEPT !.gps_tty_path = b]
      \/ \E b \in BOOLEAN : conf' = [conf EXCEPT !.mqtt_enabled = b]
  BY DEF ParseGateway, ParseMqtt, ParseDebug, IsTrue
<1>3. /\ conf' \in ConfTypes /\ conf'.scan = conf.scan
      /\ conf'.tx_enable = conf.tx_enable /\ conf'.tx_freq_max = conf.tx_freq_max
      /\ conf'.txlut = conf.txlut
  BY <1>2 DEF ConfigInv, ConfTypes
<1>4. RadiosAgree'
  BY <1>1, <1>3, RadiosStay DEF Until
<1>5. ListenAgrees' /\ ChannelsInBand'
  BY <1>1, <1>3 DEF ConfigInv, ListenAgrees, ChannelsInBand, Going
<1> QED
  BY <1>1, <1>3, <1>4, <1>5 DEF ConfigInv

\* Whatever the file holds, once it is read the threads' settings and the HAL's fit
\* together: the power thread_down chooses in the program's table is the one that the
\* HAL's table gives, for tables of any content and length.
THEOREM ConfigProgramMatchesHal == ConfigSpec => []ProgramMatchesHal
<1>1. ConfigInv /\ [ConfigNext]_configVars => ConfigInv'
  <2> SUFFICES ASSUME ConfigInv, [ConfigNext]_configVars PROVE ConfigInv'
    OBVIOUS
  <2>1. CASE UNCHANGED configVars
    BY <2>1 DEF configVars, ConfigInv, RadiosAgree, ListenAgrees, ChannelsInBand, Going
  <2>2. CASE ConfigNext
    BY <2>2, HeadKeeps, Sx1261Keeps, SkipKeeps, RadioKeeps, ChannelsKeep, TailKeeps
       DEF ConfigNext
  <2> QED
    BY <2>1, <2>2
<1>2. ConfigInv => ProgramMatchesHal
  <2> SUFFICES ASSUME ConfigInv, section = "parsed"
               PROVE  /\ conf.scan => ctx.sx1261
                      /\ \A i \in RfChain :
                           /\ conf.tx_enable[i] = ctx.tx_enable[i]
                           /\ conf.tx_freq_max[i] > 0 => ctx.tx_enable[i]
                           /\ \A p \in Powers : PowerRight(i, p)
                      /\ Len(ctx.lbt) <= LGW_LBT_CHANNEL_NB_MAX =>
                           \A k \in 1 .. Len(ctx.lbt) : ChannelAccepted(ctx.lbt[k])
                      /\ \A c \in {ctx.service, ctx.fsk} : c.given => InBand(c.freq, c.bw)
    BY DEF ProgramMatchesHal
  <2>1. Going
    BY DEF Going
  <2>2. ASSUME NEW i \in RfChain, NEW p \in Powers PROVE PowerRight(i, p)
    <3> DEFINE lut == conf.txlut[i]
    <3>1. lut \in Seq(GainEntries) /\ p \in Int
      BY ConfigAssumption DEF ConfigInv, ConfTypes
    <3>2. SUFFICES ASSUME NotAbove(lut, p) # {}
          PROVE  LET emitted == EmittedPower(ctx.tx_gain_lut[i], ChosenPower(lut, p))
                 IN  /\ emitted <= p
                     /\ Ascending(lut) => \A j \in NotAbove(lut, p) : lut[j].rf_power <= emitted
      BY DEF PowerRight
    <3>3. lut # <<>>
      BY <3>2 DEF NotAbove
    <3>4. ctx.tx_gain_lut[i] = lut
      BY <3>3 DEF ConfigInv, RadiosAgree
    <3> HIDE DEF lut
    <3> QED
      BY <3>1, <3>2, <3>4, EmittedIsChosen
  <2>3. \A c \in {ctx.service, ctx.fsk} : c.given => InBand(c.freq, c.bw)
    BY <2>1 DEF ConfigInv, ChannelsInBand, InTheBand
  <2> QED
    BY <2>1, <2>2, <2>3 DEF ConfigInv, RadiosAgree, ListenAgrees
<1> QED
  BY <1>1, <1>2, ConfigInitInv, PTL DEF ConfigSpec

-----------------------------------------------------------------------------
(* The fine timestamp *)

Ring == 0 .. MAX_TIMESTAMP_PPS_HISTORY - 1
Gap == SECOND * MaxGap

\* How many entries were saved after the i-th.
Dist(i) == IF i <= idx THEN idx - i ELSE idx - i + MAX_TIMESTAMP_PPS_HISTORY

\* The ring holds the pulses in the order they came, each at most MaxGap seconds after the
\* one before.  Only the first thing ever saved may be no pulse, and then the entries after
\* it are a second apart or more.
RingInv ==
  /\ ticks \in Nat /\ pulse \in Nat /\ pulse <= ticks /\ (pulse = 0 \/ OnSecond(pulse))
  /\ history \in [Ring -> Nat] /\ idx \in Ring /\ size \in 0 .. MAX_TIMESTAMP_PPS_HISTORY
  /\ size < MAX_TIMESTAMP_PPS_HISTORY => idx = IF size = 0 THEN 0 ELSE size - 1
  /\ size > 0 => history[idx] <= pulse
  /\ size > 1 \/ (size = 1 /\ pulse # history[idx]) => ticks - history[idx] < Gap
  /\ \A i \in 0 .. size - 1 :
       /\ history[i] <= history[idx] /\ history[idx] - history[i] <= Gap * Dist(i)
       /\ OnSecond(history[i]) \/ (i = 0 /\ history[i] = 0)
  /\ size > 0 /\ history[0] = 0 =>
       /\ idx = size - 1
       /\ \A i \in 1 .. size - 1 : history[i] >= history[1] + (i - 1) * SECOND

\* Two times on the second are a second apart or more.
LEMMA NextSecond ==
  ASSUME NEW a \in Nat, NEW b \in Nat, a % SECOND = 1, b % SECOND = 1, a < b
  PROVE  a + SECOND <= b
<1>1. PICK S \in Nat : S = SECOND /\ S > 1
  BY FineTimeAssumption
<1>2. PICK p \in Nat, q \in Nat : a = S * p + 1 /\ b = S * q + 1
  <2>1. a \div S \in Nat /\ b \div S \in Nat
    BY <1>1
  <2>2. PICK p \in Nat : p = a \div S
    BY <2>1
  <2>3. PICK q \in Nat : q = b \div S
    BY <2>1
  <2>4. a = S * p + 1
    BY <1>1, <2>2
  <2>5. b = S * q + 1
    BY <1>1, <2>3
  <2> QED
    BY <2>4, <2>5
<1>3. p < q
  BY <1>1, <1>2
<1>4. S * (p + 1) <= S * q
  BY <1>1, <1>3
<1>5. S * (p + 1) = S * p + S
  BY <1>1
<1> QED
  BY <1>1, <1>2, <1>4, <1>5

\* The counter does not come round while an entry is in the ring.
LEMMA Constants ==
  /\ SECOND \in Nat /\ SECOND > 1 /\ MaxGap \in Nat /\ Gap \in Nat /\ MaxAge \in Nat
  /\ MAX_TIMESTAMP_PPS_HISTORY \in Nat /\ MAX_TIMESTAMP_PPS_HISTORY > 2
  /\ MaxAge < SECOND * (MAX_TIMESTAMP_PPS_HISTORY - 2)
  /\ COUNTER_RANGE \in Nat
  /\ COUNTER_RANGE > Gap * MAX_TIMESTAMP_PPS_HISTORY + 2 * SECOND + MaxAge
<1>1. PICK S \in Nat, M \in Nat, G \in Nat, A \in Nat, C \in Nat :
        /\ S = SECOND /\ M = MAX_TIMESTAMP_PPS_HISTORY /\ G = MaxGap /\ A = MaxAge /\ C = COUNTER_RANGE
        /\ S > 1 /\ M > 1 /\ C > S * (M * G + 2) + A /\ A < S * (M - 2)
  BY FineTimeAssumption
<1>2. M > 2
  <2>1. M - 2 # 0
    <3>1. M - 2 = 0 => S * (M - 2) = 0
      BY <1>1
    <3> QED
      BY <1>1, <3>1
  <2> QED
    BY <1>1, <2>1
<1>3. S * G \in Nat
  BY <1>1
<1>4. S * (M * G + 2) = (S * G) * M + 2 * S
  BY <1>1
<1> QED
  BY <1>1, <1>2, <1>3, <1>4 DEF Gap

\* A pulse is saved in the next place of the ring, or it is there.
LEMMA SaveKeeps ==
  ASSUME RingInv, timestamp_pps_history_save, UNCHANGED <<ticks, pulse>>
  PROVE  RingInv' /\ history'[idx'] = pulse /\ (size = MAX_TIMESTAMP_PPS_HISTORY => size' = size)
<1> DEFINE M == MAX_TIMESTAMP_PPS_HISTORY
<1>1. /\ ticks \in Nat /\ pulse \in Nat /\ pulse <= ticks /\ (pulse = 0 \/ OnSecond(pulse))
      /\ history \in [Ring -> Nat] /\ idx \in Ring /\ size \in 0 .. M /\ M \in Nat /\ M > 2
      /\ Gap \in Nat /\ Gap * M < COUNTER_RANGE /\ COUNTER_RANGE \in Nat
      /\ history[idx] \in Nat /\ idx \in Nat
  <2>1. RingInv
    OBVIOUS
  <2>2. Gap * M < COUNTER_RANGE
    <3>1. Gap * M \in Nat
      BY Constants
    <3> QED
      BY <3>1, Constants
  <2> QED
    BY <2>1, <2>2, Constants DEF RingInv, Ring
<1>2. CASE pulse = history[idx] /\ size > 0
  BY <1>2 DEF timestamp_pps_history_save, RingInv, Dist
<1>3. CASE size = 0
  <2>1. idx = 0 /\ NextIndex = 0
    BY <1>1, <1>3 DEF RingInv, NextIndex
  <2>2. /\ idx' = 0 /\ history' = [history EXCEPT ![0] = pulse] /\ size' = 1
    BY <1>1, <1>3, <2>1 DEF timestamp_pps_history_save
  <2>3. history'[0] = pulse /\ history' \in [Ring -> Nat] /\ 0 \in Ring
    BY <1>1, <2>1, <2>2
  <2>4. \A i \in 0 .. size' - 1 : i = 0 /\ Dist(i)' = 0
    <3>1. \A i \in 0 .. size' - 1 : i = 0
      BY <2>2
    <3>2. Dist(0)' = 0
      BY <2>2 DEF Dist
    <3> QED
      BY <3>1, <3>2
  <2>5. Gap * 0 = 0
    BY <1>1
  <2>6. \A i \in 0 .. size' - 1 :
          /\ history'[i] <= history'[idx'] /\ history'[idx'] - history'[i] <= Gap * Dist(i)'
          /\ OnSecond(history'[i]) \/ (i = 0 /\ history'[i] = 0)
    BY <1>1, <2>2, <2>3, <2>4, <2>5
  <2>7. RingInv'
    BY <1>1, <2>2, <2>3, <2>6 DEF RingInv
  <2> QED
    BY <1>1, <1>3, <2>2, <2>3, <2>7
<1>4. CASE size > 0 /\ pulse # history[idx]
  <2>1. /\ history[idx] < pulse /\ ticks - history[idx] < Gap /\ OnSecond(pulse)
    BY <1>1, <1>4 DEF RingInv
  <2>2. pulse % COUNTER_RANGE # history[idx] % COUNTER_RANGE
    <3>1. PICK C \in Nat, a \in Nat, b \in Nat :
            C = COUNTER_RANGE /\ a = history[idx] /\ b = pulse /\ a < b /\ b - a < C
      <4>1. Gap <= Gap * M
        BY <1>1
      <4> QED
        BY <1>1, <2>1, <4>1
    <3>2. a % C # b % C
      <4>1. PICK p \in Nat : p = a \div C
        BY <3>1
      <4>2. PICK q \in Nat : q = b \div C
        BY <3>1
      <4>3. PICK r \in Nat : r = a % C
        BY <3>1
      <4>4. SUFFICES ASSUME b % C = r PROVE FALSE
        BY <4>3
      <4>5. a = C * p + r
        BY <3>1, <4>1, <4>3
      <4>6. b = C * q + r
        BY <3>1, <4>2, <4>4
      <4>7. p < q
        BY <3>1, <4>5, <4>6
      <4>8. C * (p + 1) <= C * q /\ C * (p + 1) = C * p + C
        BY <3>1, <4>7
      <4> QED
        BY <3>1, <4>5, <4>6, <4>8
    <3> QED
      BY <3>1, <3>2
  <2>13. PICK n : n = NextIndex
    OBVIOUS
  <2>3. /\ n = (idx + 1) % M /\ idx' = n /\ history' = [history EXCEPT ![n] = pulse]
        /\ size' = IF size < M THEN size + 1 ELSE size
    BY <1>4, <2>2, <2>13 DEF timestamp_pps_history_save, NextIndex
  <2>4. /\ n = IF idx = M - 1 THEN 0 ELSE idx + 1
        /\ n \in Ring /\ (size < M => n = size)
    <3>1. idx \in 0 .. M - 1
      BY <1>1 DEF Ring
    <3>2. idx = M - 1 => (idx + 1) % M = 0
      BY <1>1
    <3>3. idx # M - 1 => (idx + 1) % M = idx + 1
      BY <1>1, <3>1
    <3>4. size < M => idx = size - 1
      BY <1>1, <1>4 DEF RingInv
    <3> QED
      BY <1>1, <2>3, <3>1, <3>2, <3>3, <3>4 DEF Ring
  <2>5. /\ history' \in [Ring -> Nat] /\ history'[n] = pulse
        /\ \A i \in Ring : i # n => history'[i] = history[i]
    BY <1>1, <2>3, <2>4
  <2>6. \A i \in 0 .. size' - 1 : i \in Ring /\ (i # n => i \in 0 .. size - 1)
    BY <1>1, <1>4, <2>3, <2>4 DEF Ring
  <2>7. \A i \in 0 .. size' - 1 : i # n => Dist(i)' = Dist(i) + 1 /\ Dist(i) \in Nat
    <3>1. ASSUME NEW i \in 0 .. size' - 1, i # n PROVE Dist(i)' = Dist(i) + 1 /\ Dist(i) \in Nat
      <4>1. i \in 0 .. M - 1 /\ i \in 0 .. size - 1 /\ idx \in 0 .. M - 1
        BY <1>1, <2>6, <3>1 DEF Ring
      <4>2. CASE i <= idx
        <5>1. Dist(i) = idx - i
          BY <4>2 DEF Dist
        <5>2. CASE idx = M - 1
          <6>1. Dist(i)' = 0 - i + M
            BY <1>1, <2>3, <2>4, <3>1, <4>1, <5>2 DEF Dist
          <6> QED
            BY <1>1, <4>1, <4>2, <5>1, <5>2, <6>1
        <5>3. CASE idx # M - 1
          <6>1. Dist(i)' = idx + 1 - i
            BY <1>1, <2>3, <2>4, <4>1, <4>2, <5>3 DEF Dist
          <6> QED
            BY <1>1, <4>1, <4>2, <5>1, <6>1
        <5> QED
          BY <5>2, <5>3
      <4>3. CASE ~(i <= idx)
        <5>1. Dist(i) = idx - i + M
          BY <4>3 DEF Dist
        <5>2. n = idx + 1 /\ ~(i <= n)
          <6>1. idx # M - 1
            BY <1>1, <4>1, <4>3
          <6>2. n = idx + 1
            BY <2>4, <6>1
          <6>3. i > idx /\ i # idx + 1
            BY <3>1, <4>1, <4>3, <6>2
          <6> QED
            BY <4>1, <6>2, <6>3
        <5>3. Dist(i)' = idx + 1 - i + M
          <6>1. idx' = idx + 1 /\ ~(i <= idx')
            BY <2>3, <5>2
          <6>2. Dist(i)' = IF i <= idx' THEN idx' - i ELSE idx' - i + M
            BY Zenon DEF Dist
          <6>3. PICK j \in Int : j = idx'
            BY <1>1, <6>1
          <6>4. Dist(i)' = j - i + M
            BY <6>1, <6>2, <6>3
          <6>5. j = idx + 1
            BY <6>1, <6>3
          <6> QED
            BY <1>1, <4>1, <6>4, <6>5
        <5> QED
          BY <1>1, <4>1, <4>3, <5>1, <5>3
      <4> QED
        BY <4>2, <4>3
    <3> QED
      BY <3>1
  <2>8. Dist(n)' = 0
    BY <2>3 DEF Dist
  <2>9. ASSUME NEW i \in 0 .. size' - 1
        PROVE  /\ history'[i] <= history'[n] /\ history'[n] - history'[i] <= Gap * Dist(i)'
               /\ OnSecond(history'[i]) \/ (i = 0 /\ history'[i] = 0)
    <3>1. CASE i = n
      <4>1. Gap * 0 = 0
        BY <1>1
      <4> QED
        BY <1>1, <2>1, <2>5, <2>8, <3>1, <4>1
    <3>2. CASE i # n
      <4>1. /\ history[i] <= history[idx] /\ history[idx] - history[i] <= Gap * Dist(i)
            /\ OnSecond(history[i]) \/ (i = 0 /\ history[i] = 0)
            /\ history'[i] = history[i] /\ history[i] \in Nat
        BY <1>1, <2>5, <2>6, <3>2 DEF RingInv
      <4>2. Gap * (Dist(i) + 1) = Gap * Dist(i) + Gap /\ Gap * Dist(i) \in Nat
        BY <1>1, <2>7, <3>2
      <4> QED
        BY <1>1, <2>1, <2>5, <2>7, <3>2, <4>1, <4>2
    <3> QED
      BY <3>1, <3>2
  <2>10. ASSUME history'[0] = 0
         PROVE  /\ n = size' - 1
                /\ \A i \in 1 .. size' - 1 : history'[i] >= history'[1] + (i - 1) * SECOND
    <3>1. n # 0 /\ history[0] = 0
      BY <1>1, <2>1, <2>4, <2>5, <2>10 DEF Ring
    <3>2. /\ idx = size - 1
          /\ \A i \in 1 .. size - 1 : history[i] >= history[1] + (i - 1) * SECOND
      BY <1>4, <3>1 DEF RingInv
    <3>3. n = idx + 1 /\ n = size /\ size' = size + 1
      BY <1>1, <2>3, <2>4, <3>1, <3>2 DEF Ring
    <3>4. ASSUME NEW i \in 1 .. size' - 1 PROVE history'[i] >= history'[1] + (i - 1) * SECOND
      <4>1. i \in Ring /\ 1 \in Ring /\ (i # n => i \in 1 .. size - 1)
        BY <1>1, <2>6, <3>3 DEF Ring
      <4>2. CASE i = n /\ n = 1
        <5>1. (1 - 1) * SECOND = 0
          BY Constants
        <5> QED
          BY <1>1, <2>5, <4>2, <5>1
      <4>3. CASE i = n /\ n > 1
        <5>1. /\ idx \in 1 .. size - 1 /\ history[idx] >= history[1] + (idx - 1) * SECOND
              /\ history[idx] \in Nat /\ history[1] \in Nat /\ history'[1] = history[1]
          BY <1>1, <2>5, <3>2, <3>3, <4>1, <4>3
        <5>2. OnSecond(history[idx])
          BY <5>1 DEF RingInv
        <5>3. history[idx] + SECOND <= pulse
          BY <1>1, <2>1, <5>1, <5>2, NextSecond DEF OnSecond
        <5>4. (i - 1) * SECOND = (idx - 1) * SECOND + SECOND /\ (idx - 1) * SECOND \in Int
          BY <3>3, <4>3, <1>1, Constants
        <5> QED
          BY <1>1, <2>5, <4>3, <5>1, <5>3, <5>4, Constants
      <4>4. CASE i # n
        <5>1. 1 # n /\ history'[i] = history[i] /\ history'[1] = history[1]
          BY <2>5, <3>3, <4>1, <4>4
        <5> QED
          BY <3>2, <4>1, <4>4, <5>1
      <4> QED
        BY <1>1, <3>3, <4>2, <4>3, <4>4
    <3> QED
      BY <3>3, <3>4
  <2>11. /\ size' \in 0 .. M /\ size' > 1 /\ (size' < M => n = size' - 1)
         /\ ticks - pulse < Gap
    BY <1>1, <1>4, <2>1, <2>3, <2>4
  <2>12. RingInv'
    <3>1. idx' = n /\ history'[idx'] = pulse /\ UNCHANGED <<ticks, pulse>>
      BY <2>3, <2>5
    <3>2. /\ size' < M => idx' = IF size' = 0 THEN 0 ELSE size' - 1
          /\ size' > 0 => history'[idx'] <= pulse
          /\ size' > 1 \/ (size' = 1 /\ pulse # history'[idx']) => ticks - history'[idx'] < Gap
      BY <1>1, <2>11, <3>1
    <3>3. \A i \in 0 .. size' - 1 :
            /\ history'[i] <= history'[idx'] /\ history'[idx'] - history'[i] <= Gap * Dist(i)'
            /\ OnSecond(history'[i]) \/ (i = 0 /\ history'[i] = 0)
      BY <2>9, <3>1
    <3>4. size' > 0 /\ history'[0] = 0 =>
            /\ idx' = size' - 1
            /\ \A i \in 1 .. size' - 1 : history'[i] >= history'[1] + (i - 1) * SECOND
      BY <2>10, <3>1
    <3> QED
      BY <1>1, <2>4, <2>5, <2>11, <3>1, <3>2, <3>3, <3>4 DEF RingInv
  <2> QED
    BY <1>1, <2>3, <2>5, <2>12
<1> QED
  BY <1>1, <1>2, <1>3, <1>4

\* The unsigned difference of the counters tells how long ago a pulse was.
LEMMA SinceRight ==
  ASSUME NEW tk \in Nat, NEW a \in 0 .. tk, NEW x \in 0 .. tk, tk - a <= MaxAge,
         tk - x <= Gap * MAX_TIMESTAMP_PPS_HISTORY, Since(a, x) <= SECOND
  PROVE  Since(a, x) = a - x /\ a - x \in 0 .. SECOND
<1>1. PICK C \in Nat, B \in Nat, S \in Nat, A \in Nat :
        /\ C = COUNTER_RANGE /\ B = Gap * MAX_TIMESTAMP_PPS_HISTORY /\ S = SECOND /\ A = MaxAge
        /\ C > B + 2 * S + A /\ S > 1
  <2>1. Gap * MAX_TIMESTAMP_PPS_HISTORY \in Nat
    BY Constants
  <2> QED
    BY <2>1, Constants
<1>2. PICK d \in Int : d = a - x /\ d <= B /\ d >= 0 - A
  BY <1>1
<1>3. CASE d >= 0
  <2>1. d < C /\ d \in Nat
    BY <1>1, <1>2, <1>3
  <2>2. d % C = d
    BY <1>1, <2>1
  <2> QED
    BY <1>1, <1>2, <2>1, <2>2 DEF Since
<1>4. CASE d < 0
  <2>1. d + C \in Nat /\ d + C < C /\ d + C > S
    BY <1>1, <1>2, <1>4
  <2>2. d % C = d + C
    BY <1>1, <1>2, <1>4, <2>1
  <2> QED
    BY <1>1, <1>2, <2>1, <2>2 DEF Since
<1> QED
  BY <1>2, <1>3, <1>4

\* What the rewinding finds in a full ring.
LEMMA RewoundRight ==
  ASSUME NEW tk \in Nat, NEW a \in 0 .. tk, tk - a <= MaxAge, NEW h \in [Ring -> Nat],
         NEW r, r = Rewound(a, h), r # -1,
         \A i \in Ring : h[i] <= tk /\ tk - h[i] <= Gap * MAX_TIMESTAMP_PPS_HISTORY,
         \A i \in Ring : OnSecond(h[i]) \/ (i = 0 /\ h[i] = 0),
         h[0] = 0 => \A i \in 1 .. MAX_TIMESTAMP_PPS_HISTORY - 1 :
                       h[i] >= h[1] + (i - 1) * SECOND
  PROVE  OnSecond(r) /\ a - r \in 0 .. SECOND
<1> DEFINE fits == {i \in DOMAIN h : Before(a, h[i])}
<1>1. PICK i : i = CHOOSE j \in fits : \A k \in fits : j <= k
  OBVIOUS
<1>2. fits # {} /\ r = h[i] /\ ValidSecond(h[i], h[(i + 1) % MAX_TIMESTAMP_PPS_HISTORY])
  BY <1>1 DEF Rewound
<1>3. fits \subseteq Nat
  BY DEF Ring
<1> HIDE DEF fits
<1>4. i \in fits
  BY <1>1, <1>2, <1>3, LeastElement
<1>5. i \in Ring /\ Since(a, h[i]) < SECOND /\ h[i] \in 0 .. tk /\ h[i] \in Nat
  BY <1>4 DEF fits, Before
<1>6. Since(a, h[i]) = a - h[i] /\ a - h[i] \in 0 .. SECOND
  <2>1. Since(a, h[i]) \in Int
    BY <1>5, Constants DEF Since
  <2>2. Since(a, h[i]) <= SECOND
    BY <1>5, <2>1, Constants
  <2> QED
    BY <1>5, <2>2, SinceRight
<1>7. CASE OnSecond(h[i])
  BY <1>2, <1>6, <1>7
<1>8. CASE i = 0 /\ h[i] = 0
  <2>1. PICK S \in Nat, M \in Nat : S = SECOND /\ M = MAX_TIMESTAMP_PPS_HISTORY /\ S > 1 /\ M > 2
    BY Constants
  <2>2. 1 \in Ring /\ M - 1 \in Ring /\ h[1] \in Nat /\ h[M - 1] \in Nat /\ OnSecond(h[1]) /\ h[1] <= tk
    BY <2>1 DEF Ring
  <2>3. 10 * S <= 12 * h[1]
    <3>1. (i + 1) % M = 1
      BY <1>8, <2>1
    <3>2. Since(h[1], 0) = h[1]
      <4>1. h[1] < COUNTER_RANGE /\ COUNTER_RANGE \in Nat
        <5>1. tk <= Gap * MAX_TIMESTAMP_PPS_HISTORY
          BY <1>5, <1>8
        <5>2. Gap * MAX_TIMESTAMP_PPS_HISTORY \in Nat
          BY Constants
        <5> QED
          BY <2>1, <2>2, <5>1, <5>2, Constants
      <4>2. h[1] % COUNTER_RANGE = h[1]
        BY <2>2, <4>1
      <4> QED
        BY <2>2, <4>2 DEF Since
    <3> QED
      BY <1>2, <1>8, <2>1, <3>1, <3>2 DEF ValidSecond
  <2>4. h[1] >= S + 1
    <3>1. 1 % S = 1
      BY <2>1
    <3>2. h[1] > 1
      BY <2>1, <2>2, <2>3
    <3> QED
      BY <2>1, <2>2, <3>1, <3>2, NextSecond DEF OnSecond
  <2>5. h[M - 1] >= h[1] + (M - 2) * S /\ (M - 2) * S \in Nat /\ MaxAge < (M - 2) * S /\ MaxAge \in Nat
    <3>1. M - 1 \in 1 .. MAX_TIMESTAMP_PPS_HISTORY - 1 /\ (M - 1) - 1 = M - 2
      BY <2>1
    <3>2. h[M - 1] >= h[1] + ((M - 1) - 1) * S
      BY <1>8, <2>1, <3>1
    <3>3. MaxAge < S * (M - 2) /\ MaxAge \in Nat
      BY <2>1, Constants
    <3>4. S * (M - 2) = (M - 2) * S /\ (M - 2) * S \in Nat
      BY <2>1
    <3> QED
      BY <3>1, <3>2, <3>3, <3>4
  <2>6. a > S
    BY <2>1, <2>2, <2>4, <2>5
  <2> QED
    BY <1>6, <1>8, <2>1, <2>6
<1> QED
  BY <1>5, <1>7, <1>8

\* What a packet is dated from is right, from a ring that is full and holds the last pulse.
LEMMA DatedRight ==
  ASSUME RingInv, size = MAX_TIMESTAMP_PPS_HISTORY, timestamp_pps_history_save,
         UNCHANGED <<ticks, pulse>>, NEW a \in 0 .. ticks, ticks - a <= MaxAge,
         NEW r, r # -1,
         r = IF Since(a, pulse) > SECOND THEN Rewound(a, history') ELSE Latest(history', idx')
  PROVE  OnSecond(r) /\ a - r \in 0 .. SECOND
<1>1. RingInv' /\ history'[idx'] = pulse /\ size' = MAX_TIMESTAMP_PPS_HISTORY
  BY SaveKeeps
<1>2. PICK M \in Nat, h \in [Ring -> Nat], k \in Ring, B \in Nat :
        /\ M = MAX_TIMESTAMP_PPS_HISTORY /\ h = history' /\ k = idx' /\ B = Gap * M /\ M > 2
  <2>1. Gap * MAX_TIMESTAMP_PPS_HISTORY \in Nat
    BY Constants
  <2> QED
    BY <1>1, <2>1, Constants DEF RingInv
<1>3. /\ ticks \in Nat /\ pulse \in Nat /\ pulse <= ticks /\ ticks - pulse < Gap /\ h[k] = pulse
      /\ Gap \in Nat
  <2>1. ticks' - history'[idx'] < Gap
    BY <1>1, <1>2 DEF RingInv
  <2> QED
    BY <1>1, <1>2, <2>1, Constants DEF RingInv
<1>4. ASSUME NEW i \in Ring PROVE h[i] \in Nat /\ h[i] <= ticks /\ ticks - h[i] <= B
  <2>1. i \in 0 .. size' - 1
    BY <1>1, <1>2 DEF Ring
  <2>2. h[i] <= h[k] /\ h[k] - h[i] <= Gap * Dist(i)'
    BY <1>1, <1>2, <2>1 DEF RingInv
  <2>3. Dist(i)' \in 0 .. M - 1
    <3>1. k \in 0 .. M - 1 /\ i \in 0 .. M - 1
      BY <1>2 DEF Ring
    <3>2. Dist(i)' = IF i <= k THEN k - i ELSE k - i + M
      BY <1>2 DEF Dist
    <3>3. PICK e : e = Dist(i)'
      OBVIOUS
    <3>4. e = IF i <= k THEN k - i ELSE k - i + M
      BY <3>2, <3>3
    <3>5. e \in 0 .. M - 1
      <4>1. CASE i <= k
        <5>1. e = k - i
          BY <3>4, <4>1
        <5>2. k \in Int /\ i \in Int /\ M \in Int /\ 0 <= i /\ k <= M - 1
          BY <1>2, <3>1
        <5> QED
          BY <4>1, <5>1, <5>2
      <4>2. CASE ~(i <= k)
        <5>1. e = k - i + M
          BY <3>4, <4>2
        <5>2. k \in Int /\ i \in Int /\ M \in Int /\ 0 <= k /\ i <= M - 1
          BY <1>2, <3>1
        <5> QED
          BY <4>2, <5>1, <5>2
      <4> QED
        BY <4>1, <4>2
    <3> QED
      BY <3>3, <3>5
  <2>4. PICK d \in 0 .. M - 1 : d = Dist(i)'
    BY <2>3
  <2>5. Gap * d + Gap <= B /\ Gap * d \in Nat
    <3>1. Gap * (d + 1) <= Gap * M
      BY <1>2, <1>3, <2>4
    <3>2. Gap * (d + 1) = Gap * d + Gap /\ Gap * d \in Nat
      BY <1>3, <2>4
    <3> QED
      BY <1>2, <3>1, <3>2
  <2>6. h[i] \in Nat
    OBVIOUS
  <2> QED
    BY <1>2, <1>3, <2>2, <2>4, <2>5, <2>6
<1>5. \A i \in Ring : OnSecond(h[i]) \/ (i = 0 /\ h[i] = 0)
  BY <1>1, <1>2 DEF RingInv, Ring
<1>6. h[0] = 0 => k = M - 1 /\ \A i \in 1 .. M - 1 : h[i] >= h[1] + (i - 1) * SECOND
  BY <1>1, <1>2 DEF RingInv
<1>7. CASE Since(a, pulse) > SECOND
  <2>1. r = Rewound(a, h)
    BY <1>2, <1>7
  <2> QED
    BY <1>2, <1>3, <1>4, <1>5, <1>6, <2>1, RewoundRight
<1>8. CASE ~(Since(a, pulse) > SECOND)
  <2>1. r = pulse
    BY <1>2, <1>8 DEF Latest
  <2>2. Since(a, pulse) <= SECOND
    <3>1. Since(a, pulse) \in Int
      BY <1>3, Constants DEF Since
    <3> QED
      BY <1>8, <3>1, Constants
  <2>3. a - pulse \in 0 .. SECOND
    BY <1>2, <1>3, <1>4, <2>2, SinceRight
  <2>4. OnSecond(pulse)
    <3>1. k = 0 => h[0] # 0
      BY <1>2, <1>6
    <3> QED
      BY <1>3, <1>5, <3>1
  <2> QED
    BY <2>1, <2>3, <2>4
<1> QED
  BY <1>7, <1>8

\* Whatever the size of the ring, the pulses missed and the places where the counter wrapped,
\* precise_timestamp_calculate dates a packet from a pulse, and from one at most a second
\* before it: timestamp_pps_history_save never loses the order the search relies on.
THEOREM FineTimeRight == FineSpec => []FineRight
<1>1. FineInit => RingInv /\ FineRight
  <2> SUFFICES ASSUME FineInit PROVE RingInv /\ FineRight
    OBVIOUS
  <2>1. RingInv
    <3>1. /\ ticks = 0 /\ pulse = 0 /\ history = [i \in Ring |-> 0] /\ idx = 0 /\ size = 0
          /\ history \in [Ring -> Nat] /\ 0 \in Ring
      BY Constants DEF FineInit, Ring
    <3>2. \A i \in 0 .. 0 - 1 : FALSE
      OBVIOUS
    <3> QED
      BY <3>1, <3>2, Constants DEF RingInv
  <2> QED
    BY <2>1 DEF FineInit, FineRight, NoResult
<1>2. RingInv /\ FineRight /\ [FineNext]_fineVars => RingInv' /\ FineRight'
  <2> SUFFICES ASSUME RingInv, FineRight, [FineNext]_fineVars PROVE RingInv' /\ FineRight'
    OBVIOUS
  <2>1. CASE Second
    <3>1. /\ ticks' = ticks + 1 /\ fine' = NoResult /\ UNCHANGED <<history, idx, size>>
          /\ size > 0 => ticks' - history[idx] < Gap
          /\ pulse' = pulse \/ (OnSecond(ticks') /\ pulse' = ticks')
      BY <2>1 DEF Second, Gap
    <3>2. /\ ticks \in Nat /\ pulse \in Nat /\ pulse <= ticks
          /\ size > 0 => history[idx] <= pulse /\ history[idx] \in Nat
      BY DEF RingInv
    <3>3. pulse' \in Nat /\ pulse' <= ticks' /\ pulse <= pulse' /\ (pulse' = 0 \/ OnSecond(pulse'))
      BY <3>1, <3>2 DEF RingInv
    <3>4. RingInv'
      BY <3>1, <3>2, <3>3 DEF RingInv, Dist
    <3> QED
      BY <3>1, <3>4 DEF FineRight, NoResult
  <2>2. CASE timestamp_counter_get
    BY <2>2, SaveKeeps DEF timestamp_counter_get, FineRight, NoResult
  <2>3. CASE precise_timestamp_calculate
    <3>1. PICK a \in 0 .. ticks :
            /\ ticks - a <= MaxAge
            /\ IF size < MAX_TIMESTAMP_PPS_HISTORY
               THEN fine' = [at |-> a, ref |-> -1] /\ UNCHANGED <<ticks, pulse, history, idx, size>>
               ELSE /\ timestamp_pps_history_save
                    /\ fine' = [at |-> a,
                                ref |-> IF Since(a, pulse) > SECOND THEN Rewound(a, history')
                                        ELSE Latest(history', idx')]
                    /\ UNCHANGED <<ticks, pulse>>
      BY <2>3 DEF precise_timestamp_calculate
    <3>2. CASE size < MAX_TIMESTAMP_PPS_HISTORY
      BY <3>1, <3>2 DEF RingInv, Dist, FineRight
    <3>3. CASE ~(size < MAX_TIMESTAMP_PPS_HISTORY)
      <4>1. size = MAX_TIMESTAMP_PPS_HISTORY
        BY <3>3, Constants DEF RingInv
      <4>2. PICK r : r = IF Since(a, pulse) > SECOND THEN Rewound(a, history')
                         ELSE Latest(history', idx')
        OBVIOUS
      <4>3. fine' = [at |-> a, ref |-> r] /\ timestamp_pps_history_save /\ UNCHANGED <<ticks, pulse>>
        BY <3>1, <3>3, <4>2
      <4>4. RingInv'
        BY <4>3, SaveKeeps
      <4>5. r # -1 => OnSecond(r) /\ a - r \in 0 .. SECOND
        BY <3>1, <4>1, <4>2, <4>3, DatedRight
      <4> QED
        BY <4>3, <4>4, <4>5 DEF FineRight
    <3> QED
      BY <3>2, <3>3
  <2>4. CASE UNCHANGED fineVars
    BY <2>4 DEF fineVars, RingInv, Dist, FineRight
  <2> QED
    BY <2>1, <2>2, <2>3, <2>4 DEF FineNext
<1> QED
  BY <1>1, <1>2, PTL DEF FineSpec

-----------------------------------------------------------------------------
(* Listening before talking, and the scan in the background: the invariant *)

\* The commands stored for the SX1261 over USB
Cmds == [c : {"abort", "fs", "freq", "fsk", "rx"}, f : Nat]

SxStates ==
  [usb : BOOLEAN, bulk : BOOLEAN, pending : Seq(Cmds), freq : Nat, rx : BOOLEAN, lbt : BOOLEAN,
   scan : {"NONE", "ON_GOING", "COMPLETED", "ABORTED"}, seen : SUBSET Nat, faults : Nat]

\* What a flush that failed has left stored begins with the abort of a scan.
StoredOK(cmds) == cmds = <<>> \/ cmds[1].c = "abort"

\* Between two calls nothing is being collected over USB.
SxOK(d) == d \in SxStates /\ (d.usb => ~d.bulk) /\ StoredOK(d.pending)

Talks ==
  [pc : {"idle", "send", "verdict", "clear", "stop"},
   pkt : [freq : Nat, bw : Nat, chain : {0, 1}, toa_ms : Nat], done : SUBSET Downlinks,
   tx_ok : BOOLEAN, timeout : BOOLEAN, result : {"none", "error", "success", "not_allowed"},
   slipped : BOOLEAN]
TalkTypes == talk \in Talks

EarTypes ==
  /\ ear \in [phase : {"ready", "told", "cleared"}, init : [{0, 1} -> BOOLEAN],
              blocked : [{0, 1} -> BOOLEAN], mbox : {0, 255},
              decided : {"none", "success", "not_allowed"}, heard : Nat]
  /\ fsm \in [{0, 1} -> {"free", "scheduled", "emitting"}]

ProbeTypes ==
  probe \in [pc : {"pace", "wait", "waited"}, freq : Nat,
             scanStatus : {"UNKNOWN", "NONE", "ON_GOING", "COMPLETED", "ABORTED"}, over : BOOLEAN]

\* As long as no wait failed: the AGC has decided on the packet of this call or has
\* nothing to tell; until it decides, the SX1261 listens on the packet's frequency.
Verdict ==
  /\ ~talk.timeout
  /\ ear.mbox = IF talk.pc = "clear" THEN 255 ELSE 0
  /\ \A r \in {0, 1} : fsm[r] = "scheduled" =>
       talk.pc = "verdict" /\ r = talk.pkt.chain /\ ear.phase # "told"
  /\ ear.phase = "told" => talk.pc \in {"verdict", "clear"}
  /\ ear.phase # "told" <=> \A r \in {0, 1} : ~ear.init[r]
  /\ talk.pc = "send" \/ (talk.pc = "verdict" /\ ear.phase # "told") =>
       sx.rx /\ sx.lbt /\ sx.freq = talk.pkt.freq
  /\ talk.pc = "verdict" /\ ear.phase = "told" =>
       /\ ear.decided = IF ear.blocked[talk.pkt.chain] THEN "not_allowed" ELSE "success"
       /\ ear.heard = talk.pkt.freq
  /\ talk.pc \in {"clear", "stop"} =>
       /\ ear.decided = IF talk.tx_ok THEN "success" ELSE "not_allowed"
       /\ ear.heard = talk.pkt.freq
  /\ talk.result \in {"success", "not_allowed"} =>
       talk.pc = "idle" /\ talk.result = ear.decided /\ ear.heard = talk.pkt.freq

\* A scan that runs, or is complete, has seen the frequency of the scanning thread
\* and no other.
Probing ==
  /\ probe.pc = "wait" =>
       /\ probe.scanStatus # "COMPLETED"
       /\ sx.scan \in {"ON_GOING", "COMPLETED"} => sx.seen = {probe.freq}
  /\ probe.pc = "waited" /\ probe.scanStatus = "COMPLETED" =>
       sx.scan # "ON_GOING" /\ sx.seen = {probe.freq}

ListenInv ==
  /\ SxOK(sx) /\ TalkTypes /\ EarTypes /\ ProbeTypes
  /\ ~talk.slipped => Verdict
  /\ Probing /\ ShownIsMeasured /\ ~probe.over

-----------------------------------------------------------------------------
(* The commands that are stored, and a flush                               *)

\* Induction over the numbers up to N, as a fact about a set.
LEMMA UpTo ==
  ASSUME NEW N \in Nat, NEW S, 0 \in S, \A n \in 0 .. N - 1 : n \in S => n + 1 \in S
  PROVE  0 .. N \subseteq S
<1> DEFINE T == {n \in 0 .. N : n \notin S}
<1>1. SUFFICES ASSUME T # {} PROVE FALSE
  OBVIOUS
<1>2. T \subseteq Nat
  OBVIOUS
<1>3. PICK x \in T : \A y \in T : x <= y
  BY <1>1, <1>2, LeastElement, Zenon
<1>4. x \in 1 .. N /\ x - 1 \in 0 .. N - 1
  BY <1>3
<1>5. x - 1 \in S
  BY <1>3, <1>4
<1>6. (x - 1) + 1 \in S
  BY <1>4, <1>5
<1> QED
  BY <1>3, <1>4, <1>6

\* The states of the SX1261 after 0, 1, ... of the commands
Course(g, d, cmds, n) ==
  g = [m \in 0 .. n |-> IF m = 0 THEN d ELSE Obeys(g[m - 1], cmds[m])]

\* What the recursive definition names exists.
LEMMA CourseExists ==
  ASSUME NEW d, NEW cmds, NEW N \in Nat
  PROVE  \E g : Course(g, d, cmds, N)
<1> DEFINE S == {n \in 0 .. N : \E g : Course(g, d, cmds, n)}
<1>1. 0 \in S
  <2>1. PICK g : g = [m \in 0 .. 0 |-> d]
    OBVIOUS
  <2>2. g = [m \in 0 .. 0 |-> IF m = 0 THEN d ELSE Obeys(g[m - 1], cmds[m])]
    BY <2>1
  <2>3. Course(g, d, cmds, 0)
    BY <2>2, Zenon DEF Course
  <2>4. 0 \in 0 .. N
    OBVIOUS
  <2> QED
    BY <2>3, <2>4, Zenon
<1>2. ASSUME NEW n \in 0 .. N - 1, n \in S PROVE n + 1 \in S
  <2>1. PICK g : Course(g, d, cmds, n)
    BY <1>2
  <2>2. PICK h : h = [m \in 0 .. n + 1 |-> IF m = n + 1 THEN Obeys(g[n], cmds[n + 1]) ELSE g[m]]
    OBVIOUS
  <2>3. \A m \in 0 .. n : h[m] = g[m]
    BY <2>2
  <2>4. \A m \in 0 .. n : g[m] = IF m = 0 THEN d ELSE Obeys(g[m - 1], cmds[m])
    BY <2>1 DEF Course
  <2>5. ASSUME NEW m \in 0 .. n + 1
        PROVE  h[m] = IF m = 0 THEN d ELSE Obeys(h[m - 1], cmds[m])
    <3>1. CASE m = n + 1
      <4>1. h[m] = Obeys(g[n], cmds[m]) /\ m # 0 /\ m - 1 = n /\ n \in 0 .. n
        BY <2>2, <3>1
      <4> QED
        BY <2>3, <4>1
    <3>2. CASE m # n + 1
      <4>1. m \in 0 .. n /\ (m # 0 => m - 1 \in 0 .. n)
        BY <3>2
      <4> QED
        BY <2>3, <2>4, <4>1
    <3> QED
      BY <3>1, <3>2
  <2>6. h = [m \in 0 .. n + 1 |-> IF m = 0 THEN d ELSE Obeys(h[m - 1], cmds[m])]
    <3>1. h = [m \in 0 .. n + 1 |-> h[m]]
      BY <2>2
    <3> QED
      BY <2>5, <3>1
  <2>7. Course(h, d, cmds, n + 1)
    BY <2>6, Zenon DEF Course
  <2>8. n + 1 \in 0 .. N
    OBVIOUS
  <2> QED
    BY <2>7, <2>8, Zenon
<1> HIDE DEF S
<1>3. 0 .. N \subseteq S
  BY <1>1, <1>2, UpTo, Zenon
<1>4. N \in S
  BY <1>3
<1> QED
  BY <1>4 DEF S

\* The states up to the last command, and the state then
CourseTo(g, d, cmds, n, e) ==
  /\ g[0] = d /\ e = g[n]
  /\ \A m \in 1 .. n : g[m] = Obeys(g[m - 1], cmds[m])

LEMMA ExecutedIs ==
  ASSUME NEW d, NEW cmds, NEW N \in Nat, N = Len(cmds)
  PROVE  \E g : CourseTo(g, d, cmds, N, Executed(d, cmds))
<1>2. PICK g : g = CHOOSE h : Course(h, d, cmds, N)
  OBVIOUS
<1>3. Course(g, d, cmds, N)
  BY <1>2, CourseExists, Zenon
<1>4. Executed(d, cmds) = g[N]
  BY <1>2, Zenon DEF Executed, Course
<1>5. g[0] = d /\ \A m \in 1 .. N : g[m] = Obeys(g[m - 1], cmds[m])
  BY <1>3 DEF Course
<1> QED
  BY <1>4, <1>5, Zenon DEF CourseTo

\* The same link, the same measurements, and a scan that is at most aborted
Harmless(d, e) ==
  /\ e \in SxStates /\ e.usb = d.usb /\ e.seen = d.seen /\ d.faults <= e.faults
  /\ e.scan = d.scan \/ (d.scan = "ON_GOING" /\ e.scan = "ABORTED")

\* What a command leaves alone
SameLink(d, e) ==
  e.usb = d.usb /\ e.bulk = d.bulk /\ e.pending = d.pending /\ e.faults = d.faults

\* What a command c(f) does
ObeysTo(d, c, f, e) ==
  /\ e \in SxStates /\ SameLink(d, e)
  /\ e.freq = IF c = "freq" THEN f ELSE d.freq
  /\ e.rx = IF c = "rx" THEN TRUE ELSE IF c = "fs" THEN FALSE ELSE d.rx
  /\ c = "lbt" => e.lbt
  /\ c = "abort" => e.seen = d.seen /\ e.scan = IF d.scan = "ON_GOING" THEN "ABORTED" ELSE d.scan
  /\ c = "scan" => e.scan = "ON_GOING" /\ e.seen = {d.freq}
  /\ c \notin {"abort", "scan"} =>
       e.scan = d.scan /\ (c # "freq" \/ d.scan # "ON_GOING" => e.seen = d.seen)

LEMMA Obeyed ==
  ASSUME NEW d \in SxStates, NEW c \in {"abort", "fs", "freq", "fsk", "rx", "lbt", "scan"}, NEW f \in Nat,
         NEW e, e = Obeys(d, Cmd(c, f))
  PROVE  ObeysTo(d, c, f, e)
<1> USE DEF ObeysTo, SxStates, SameLink, Obeys, Cmd
<1>1. CASE c = "abort"
  BY <1>1
<1>2. CASE c = "fs"
  BY <1>2
<1>3. CASE c = "freq"
  BY <1>3
<1>4. CASE c = "fsk"
  BY <1>4
<1>5. CASE c = "rx"
  BY <1>5
<1>6. CASE c = "lbt"
  BY <1>6
<1>7. CASE c = "scan"
  BY <1>7
<1> QED
  BY <1>1, <1>2, <1>3, <1>4, <1>5, <1>6, <1>7

\* A command that is not stored: done, or failed and done or not.
LEMMA Written ==
  ASSUME NEW d \in SxStates, ~(d.usb /\ d.bulk), NEW cmd, NEW o \in sx1261_reg_w(d, cmd)
  PROVE  \E b \in SxStates : /\ b = d \/ (~o.ok /\ b = Fault1(d))
                             /\ o.ok \in BOOLEAN
                             /\ o.s = Obeys(b, cmd) \/ (~o.ok /\ o.s = b)
<1>1. Fault1(d) \in SxStates
  BY DEF Fault1, SxStates
<1>2. \/ o = [s |-> Obeys(d, cmd), ok |-> TRUE, val |-> <<0, 0>>]
      \/ o = [s |-> Fault1(d), ok |-> FALSE, val |-> <<0, 0>>]
      \/ o = [s |-> Obeys(Fault1(d), cmd), ok |-> FALSE, val |-> <<0, 0>>]
  BY DEF sx1261_reg_w, Succeeds, Fails, Result
<1>3. CASE o = [s |-> Obeys(d, cmd), ok |-> TRUE, val |-> <<0, 0>>]
  BY <1>3
<1>4. CASE o = [s |-> Fault1(d), ok |-> FALSE, val |-> <<0, 0>>]
  <2>1. o.s = Fault1(d) /\ o.ok = FALSE
    BY <1>4
  <2> QED
    BY <1>1, <2>1, Zenon
<1>5. CASE o = [s |-> Obeys(Fault1(d), cmd), ok |-> FALSE, val |-> <<0, 0>>]
  <2>1. o.s = Obeys(Fault1(d), cmd) /\ o.ok = FALSE
    BY <1>5
  <2> QED
    BY <1>1, <2>1, Zenon
<1> QED
  BY <1>2, <1>3, <1>4, <1>5, Zenon

\* A command that is stored
LEMMA Stored ==
  ASSUME NEW d \in SxStates, d.usb, d.bulk, NEW cmd, NEW o \in sx1261_reg_w(d, cmd)
  PROVE  o.ok = TRUE /\ o.s = [d EXCEPT !.pending = Append(@, cmd)]
  BY DEF sx1261_reg_w, Succeeds, Result

\* What a command that is not stored comes to, done or failed
DirectTo(d, c, f, o) ==
  /\ o.ok \in BOOLEAN /\ o.s \in SxStates
  /\ o.s.usb = d.usb /\ o.s.bulk = d.bulk /\ o.s.pending = d.pending /\ d.faults <= o.s.faults
  /\ o.ok => /\ o.s.freq = IF c = "freq" THEN f ELSE d.freq
             /\ o.s.rx = IF c = "rx" THEN TRUE ELSE IF c = "fs" THEN FALSE ELSE d.rx
             /\ c = "lbt" => o.s.lbt
             /\ c = "scan" => o.s.scan = "ON_GOING" /\ o.s.seen = {d.freq}
  /\ c = "abort" => /\ Harmless(d, o.s)
                    /\ o.ok => o.s.scan # "ON_GOING"
  /\ c \notin {"abort", "scan"} /\ (c # "freq" \/ d.scan # "ON_GOING") =>
       Harmless(d, o.s) /\ o.s.scan = d.scan

LEMMA Direct ==
  ASSUME NEW d \in SxStates, ~(d.usb /\ d.bulk),
         NEW c \in {"abort", "fs", "freq", "fsk", "rx", "lbt", "scan"}, NEW f \in Nat,
         NEW o \in sx1261_reg_w(d, Cmd(c, f))
  PROVE  DirectTo(d, c, f, o)
<1>1. PICK b \in SxStates : /\ b = d \/ (~o.ok /\ b = Fault1(d))
                            /\ o.ok \in BOOLEAN
                            /\ o.s = Obeys(b, Cmd(c, f)) \/ (~o.ok /\ o.s = b)
  BY Written, Zenon
<1>2. /\ b.usb = d.usb /\ b.bulk = d.bulk /\ b.pending = d.pending /\ b.scan = d.scan /\ b.seen = d.seen
      /\ b.freq = d.freq /\ b.rx = d.rx /\ d.faults <= b.faults /\ (o.ok => b = d)
  BY <1>1 DEF Fault1, SxStates
<1>3. CASE o.s = b /\ ~o.ok
  BY <1>1, <1>2, <1>3 DEF Harmless, DirectTo
<1>4. CASE o.s = Obeys(b, Cmd(c, f))
  <2> DEFINE e == o.s
  <2>1. e = Obeys(b, Cmd(c, f))
    BY <1>4
  <2> HIDE DEF e
  <2>2. ObeysTo(b, c, f, e)
    BY <2>1, Obeyed, Zenon
  <2>3. /\ e \in SxStates /\ e.usb = d.usb /\ e.bulk = d.bulk /\ e.pending = d.pending /\ d.faults <= e.faults
        /\ e.freq = IF c = "freq" THEN f ELSE d.freq
        /\ e.rx = IF c = "rx" THEN TRUE ELSE IF c = "fs" THEN FALSE ELSE d.rx
        /\ c = "lbt" => e.lbt
        /\ c = "scan" => e.scan = "ON_GOING" /\ e.seen = {d.freq}
    BY <1>2, <2>2 DEF SameLink, ObeysTo
  <2>4. c = "abort" => Harmless(d, e) /\ e.scan # "ON_GOING"
    BY <1>2, <2>2, <2>3 DEF Harmless, ObeysTo
  <2>5. c \notin {"abort", "scan"} /\ (c # "freq" \/ d.scan # "ON_GOING") =>
          Harmless(d, e) /\ e.scan = d.scan
    BY <1>2, <2>2, <2>3 DEF Harmless, ObeysTo
  <2> QED
    BY <1>1, <2>3, <2>4, <2>5 DEF e, DirectTo
<1> QED
  BY <1>1, <1>3, <1>4

\* One more command of a flush
MoreTo(d, cmd, e) ==
  /\ e \in SxStates /\ SameLink(d, e)
  /\ e.freq = IF cmd.c = "freq" THEN cmd.f ELSE d.freq
  /\ cmd.c = "rx" => e.rx
  /\ cmd.c = "abort" => e.seen = d.seen /\ e.scan = IF d.scan = "ON_GOING" THEN "ABORTED" ELSE d.scan
  /\ d.scan # "ON_GOING" => e.scan = d.scan /\ e.seen = d.seen

LEMMA OneMore ==
  ASSUME NEW d \in SxStates, NEW cmd \in Cmds, NEW e, e = Obeys(d, cmd)
  PROVE  MoreTo(d, cmd, e)
<1>1. PICK c \in {"abort", "fs", "freq", "fsk", "rx"}, f \in Nat : cmd = Cmd(c, f) /\ cmd.c = c /\ cmd.f = f
  BY DEF Cmds, Cmd
<1>2. c \in {"abort", "fs", "freq", "fsk", "rx", "lbt", "scan"} /\ e = Obeys(d, Cmd(c, f))
  BY <1>1
<1>3. ObeysTo(d, c, f, e)
  BY <1>2, Obeyed, Zenon
<1> QED
  BY <1>1, <1>3 DEF ObeysTo, MoreTo

\* Commands of which the first aborts a scan
FlushedTo(d, cmds, e) ==
  /\ e \in SxStates /\ SameLink(d, e) /\ e.seen = d.seen
  /\ e.scan = IF d.scan = "ON_GOING" THEN "ABORTED" ELSE d.scan
  /\ Len(cmds) > 4 => LET n == Len(cmds) IN
       cmds[n - 3].c = "freq" /\ cmds[n - 2].c = "fsk" /\ cmds[n - 1].c = "fsk" /\ cmds[n].c = "rx" =>
         e.rx /\ e.freq = cmds[n - 3].f

LEMMA Flushed ==
  ASSUME NEW d \in SxStates, NEW cmds \in Seq(Cmds), Len(cmds) > 0, cmds[1].c = "abort",
         NEW e, e = Executed(d, cmds)
  PROVE  FlushedTo(d, cmds, e)
<1> DEFINE N == Len(cmds)
<1>1. N \in Nat /\ \A m \in 1 .. N : cmds[m] \in Cmds
  OBVIOUS
<1> HIDE DEF N
<1>2. PICK g : /\ g[0] = d /\ e = g[N]
               /\ \A m \in 1 .. N : g[m] = Obeys(g[m - 1], cmds[m])
  <2>1. N = Len(cmds)
    BY DEF N
  <2>2. PICK g : CourseTo(g, d, cmds, N, Executed(d, cmds))
    BY <1>1, <2>1, ExecutedIs, Zenon
  <2> QED
    BY <2>2, Zenon DEF CourseTo
<1> DEFINE Q(x) == /\ x \in SxStates /\ SameLink(d, x) /\ x.seen = d.seen
                   /\ x.scan = IF d.scan = "ON_GOING" THEN "ABORTED" ELSE d.scan
           S == {n \in Nat : n + 1 \in 1 .. N => Q(g[n + 1])}
<1>3. 0 \in S
  <2>1. 1 \in 1 .. N /\ 1 - 1 = 0 /\ 0 + 1 = 1
    BY <1>1 DEF N
  <2>2. g[1] = Obeys(d, cmds[1]) /\ cmds[1] \in Cmds
    BY <1>1, <1>2, <2>1
  <2>3. MoreTo(d, cmds[1], g[1])
    BY <2>2, OneMore, Zenon
  <2>4. Q(g[1])
    BY <2>3 DEF MoreTo
  <2> QED
    BY <2>4
<1>4. ASSUME NEW n \in 0 .. N - 1, n \in S PROVE n + 1 \in S
  <2>1. SUFFICES ASSUME (n + 1) + 1 \in 1 .. N PROVE Q(g[(n + 1) + 1])
    BY <1>1
  <2>2. PICK x, y, k : x = g[n + 1] /\ y = g[(n + 1) + 1] /\ k = cmds[(n + 1) + 1]
    OBVIOUS
  <2>3. n + 1 \in 1 .. N /\ ((n + 1) + 1) - 1 = n + 1
    BY <1>1, <2>1
  <2>4. Q(x)
    BY <1>4, <2>2, <2>3
  <2>5. y = Obeys(x, k) /\ k \in Cmds
    BY <1>1, <1>2, <2>1, <2>2, <2>3
  <2>6. MoreTo(x, k, y)
    BY <2>4, <2>5, OneMore, Zenon
  <2>7. Q(y)
    BY <2>4, <2>6 DEF SameLink, MoreTo
  <2> QED
    BY <2>2, <2>7
<1> HIDE DEF S
<1>5. 0 .. N \subseteq S
  BY <1>1, <1>3, <1>4, UpTo, Zenon
<1>6. ASSUME NEW m \in 1 .. N PROVE Q(g[m])
  <2>1. m - 1 \in 0 .. N /\ (m - 1) + 1 = m
    BY <1>1
  <2>2. m - 1 \in S
    BY <1>5, <2>1
  <2> QED
    BY <2>1, <2>2 DEF S
<1> HIDE DEF Q
<1>7. Q(e)
  <2>1. N \in 1 .. N
    BY <1>1 DEF N
  <2> QED
    BY <1>2, <1>6, <2>1
<1>8. ASSUME N > 4, cmds[N - 3].c = "freq", cmds[N - 2].c = "fsk", cmds[N - 1].c = "fsk", cmds[N].c = "rx"
      PROVE  e.rx /\ e.freq = cmds[N - 3].f
  <2>1. N - 3 \in 1 .. N /\ N - 2 \in 1 .. N /\ N - 1 \in 1 .. N /\ N \in 1 .. N /\ N - 4 \in 1 .. N
    BY <1>1, <1>8, SMTT(30)
  <2>2. (N - 3) - 1 = N - 4 /\ (N - 2) - 1 = N - 3 /\ (N - 1) - 1 = N - 2
    BY <1>1
  <2>3. PICK a0, a1, a2, a3, c1, c2, c3, c4 :
          /\ a0 = g[N - 4] /\ a1 = g[N - 3] /\ a2 = g[N - 2] /\ a3 = g[N - 1]
          /\ c1 = cmds[N - 3] /\ c2 = cmds[N - 2] /\ c3 = cmds[N - 1] /\ c4 = cmds[N]
    OBVIOUS
  <2>4. a0 \in SxStates /\ a1 \in SxStates /\ a2 \in SxStates /\ a3 \in SxStates
    BY <1>6, <2>1, <2>3 DEF Q
  <2>5. c1 \in Cmds /\ c2 \in Cmds /\ c3 \in Cmds /\ c4 \in Cmds
    BY <1>1, <2>1, <2>3
  <2>6. a1 = Obeys(a0, c1) /\ a2 = Obeys(a1, c2) /\ a3 = Obeys(a2, c3) /\ e = Obeys(a3, c4)
    BY <1>2, <2>1, <2>2, <2>3
  <2>7. MoreTo(a0, c1, a1) /\ MoreTo(a1, c2, a2) /\ MoreTo(a2, c3, a3) /\ MoreTo(a3, c4, e)
    BY <2>4, <2>5, <2>6, OneMore, Zenon
  <2> QED
    BY <1>8, <2>3, <2>7 DEF MoreTo
<1> QED
  BY <1>7, <1>8 DEF Q, N, FlushedTo

-----------------------------------------------------------------------------
(* The calls of the two threads on the SX1261                              *)

\* o is the outcome of a call that is made when p succeeded.
After(p, o, outs) == IF p.ok THEN o \in outs ELSE o = p

Single(d) == SetWriteMode(d, FALSE)

\* The course of TuneTo, from the outcome q of what comes before it
Tuning(q, f, bw, o) ==
  \E a, b, c, e, g, h :
    /\ After(q, a, sx1261_reg_w(q.s, Cmd("fs", 0)))
    /\ After(a, b, sx1261_reg_w(a.s, Cmd("freq", f)))
    /\ After(b, c, sx1261_reg_w(b.s, Cmd("fsk", 0)))
    /\ After(c, e, sx1261_reg_w(c.s, Cmd("fsk", bw)))
    /\ After(e, g, sx1261_reg_w(e.s, Cmd("rx", 0)))
    /\ After(g, h, FlushPending(g.s))
    /\ After(h, o, Single(h.s))

LEMMA TuneSteps ==
  ASSUME NEW quiet, NEW f, NEW bw \in {125, 250}, NEW o \in TuneTo(quiet, f, bw)
  PROVE  \E q \in quiet : Tuning(q, f, bw, o)
<1> DEFINE idle == AndThen(quiet, LAMBDA e : sx1261_reg_w(e, Cmd("fs", 0)))
           tuned == AndThen(idle, LAMBDA e : sx1261_reg_w(e, Cmd("freq", f)))
           params == AndThen(tuned, LAMBDA e : sx1261_set_fsk(e, bw))
           receiving == AndThen(params, LAMBDA e : sx1261_reg_w(e, Cmd("rx", 0)))
           flushed == AndThen(receiving, FlushPending)
           all == AndThen(flushed, Single)
<1>1. o \in all
  BY Zenon DEF TuneTo, Single
<1>2. PICK h \in flushed : After(h, o, Single(h.s))
  <2> HIDE DEF flushed
  <2> QED
    BY <1>1 DEF AndThen, After
<1>3. PICK g \in receiving : After(g, h, FlushPending(g.s))
  <2> HIDE DEF receiving
  <2> QED
    BY <1>2 DEF AndThen, After
<1>4. PICK e \in params : After(e, g, sx1261_reg_w(e.s, Cmd("rx", 0)))
  <2> HIDE DEF params
  <2> QED
    BY <1>3 DEF AndThen, After
<1>5. PICK b \in tuned : After(b, e, sx1261_set_fsk(b.s, bw))
  <2> HIDE DEF tuned
  <2> QED
    BY <1>4 DEF AndThen, After
<1>6. PICK a \in idle : After(a, b, sx1261_reg_w(a.s, Cmd("freq", f)))
  <2> HIDE DEF idle
  <2> QED
    BY <1>5 DEF AndThen, After
<1>7. PICK q \in quiet : After(q, a, sx1261_reg_w(q.s, Cmd("fs", 0)))
  BY <1>6 DEF AndThen, After
<1>8. PICK c : After(b, c, sx1261_reg_w(b.s, Cmd("fsk", 0))) /\ After(c, e, sx1261_reg_w(c.s, Cmd("fsk", bw)))
  <2>1. CASE b.ok
    <3>1. e \in AndThen(sx1261_reg_w(b.s, Cmd("fsk", 0)), LAMBDA x : sx1261_reg_w(x, Cmd("fsk", bw)))
      BY <1>5, <2>1 DEF After, sx1261_set_fsk, AndThen
    <3> QED
      BY <2>1, <3>1 DEF AndThen, After
  <2>2. CASE ~b.ok
    BY <1>5, <2>2 DEF After
  <2> QED
    BY <2>1, <2>2
<1> HIDE DEF idle, tuned, params, receiving, flushed
<1>9. /\ After(q, a, sx1261_reg_w(q.s, Cmd("fs", 0)))
      /\ After(a, b, sx1261_reg_w(a.s, Cmd("freq", f)))
      /\ After(b, c, sx1261_reg_w(b.s, Cmd("fsk", 0)))
      /\ After(c, e, sx1261_reg_w(c.s, Cmd("fsk", bw)))
      /\ After(e, g, sx1261_reg_w(e.s, Cmd("rx", 0)))
      /\ After(g, h, FlushPending(g.s))
      /\ After(h, o, Single(h.s))
  BY <1>2, <1>3, <1>4, <1>6, <1>7, <1>8, Zenon
<1>10. Tuning(q, f, bw, o)
  BY <1>9 DEF Tuning
<1> QED
  BY <1>7, <1>10, Zenon

\* Not over USB: where the tuning has come
Reached(d, o) ==
  /\ o.ok \in BOOLEAN /\ Harmless(d, o.s) /\ ~o.s.usb /\ o.s.pending = d.pending
  /\ o.ok => o.s.scan # "ON_GOING"

StepTo(d, p, c, f, o) ==
  /\ Reached(d, o)
  /\ o.ok => /\ p.ok /\ (c = "freq" => o.s.freq = f) /\ (c # "freq" => o.s.freq = p.s.freq)
             /\ c = "rx" => o.s.rx

LEMMA DirectStep ==
  ASSUME NEW d \in SxStates, NEW p, Reached(d, p), NEW c \in {"fs", "freq", "fsk", "rx"}, NEW f \in Nat,
         NEW o, After(p, o, sx1261_reg_w(p.s, Cmd(c, f)))
  PROVE  StepTo(d, p, c, f, o)
<1> USE DEF StepTo
<1>1. CASE ~p.ok
  BY <1>1 DEF After
<1>2. CASE p.ok
  <2>1. /\ p.s \in SxStates /\ ~(p.s.usb /\ p.s.bulk) /\ o \in sx1261_reg_w(p.s, Cmd(c, f))
        /\ c \in {"abort", "fs", "freq", "fsk", "rx", "lbt", "scan"}
    BY <1>2 DEF After, Reached, Harmless
  <2>2. DirectTo(p.s, c, f, o)
    BY <2>1, Direct, Zenon
  <2>3. Harmless(p.s, o.s) /\ o.s.scan = p.s.scan
    BY <1>2, <2>2 DEF DirectTo, Reached
  <2>4. d.faults \in Nat /\ p.s.faults \in Nat /\ o.s.faults \in Nat
    BY <2>3, <2>1 DEF Harmless, SxStates
  <2>5. Harmless(d, o.s)
    BY <2>3, <2>4 DEF Harmless, Reached
  <2> QED
    BY <1>2, <2>2, <2>3, <2>5 DEF DirectTo, Reached
<1> QED
  BY <1>1, <1>2 DEF Reached

InBulk(d) == [d EXCEPT !.bulk = TRUE]
OutOfBulk(d) == [d EXCEPT !.bulk = FALSE]

LEMMA SingleIs ==
  ASSUME NEW h, h.ok, NEW o, After(h, o, Single(h.s))
  PROVE  o.ok /\ o.ok \in BOOLEAN /\ o.s = OutOfBulk(h.s)
<1>1. o = [s |-> OutOfBulk(h.s), ok |-> TRUE, val |-> <<0, 0>>]
  BY Zenon DEF After, Single, SetWriteMode, Succeeds, Result, OutOfBulk
<1> QED
  BY <1>1

\* Everything but the mode
Leaves(d, e) ==
  /\ e \in SxStates /\ ~e.bulk /\ e.usb = d.usb /\ e.pending = d.pending /\ e.scan = d.scan
  /\ e.seen = d.seen /\ e.faults = d.faults /\ e.freq = d.freq /\ e.rx = d.rx

LEMMA OutOfBulkIs ==
  ASSUME NEW d \in SxStates
  PROVE  Leaves(d, OutOfBulk(d))
  BY DEF Leaves, OutOfBulk, SxStates

\* The radio is tuned, or nothing but a scan is disturbed.
TunedTo(d, f, o) ==
  /\ o.ok \in BOOLEAN /\ Harmless(d, o.s) /\ SxOK(o.s)
  /\ o.ok => o.s.freq = f /\ o.s.rx /\ o.s.scan # "ON_GOING"

LEMMA TunedDirectly ==
  ASSUME NEW d, SxOK(d), ~d.usb, NEW f \in Nat, NEW bw \in {125, 250},
         NEW q \in sx1261_reg_w(InBulk(d), Cmd("abort", 0)), NEW o, Tuning(q, f, bw, o)
  PROVE  TunedTo(d, f, o)
<1> DEFINE m == InBulk(d)
<1>1. m \in SxStates /\ ~(m.usb /\ m.bulk) /\ d \in SxStates
  BY DEF InBulk, SxOK, SxStates
<1>2. /\ m.usb = d.usb /\ m.pending = d.pending /\ m.seen = d.seen /\ m.scan = d.scan /\ m.faults = d.faults
  BY <1>1 DEF InBulk, SxStates
<1>3. q \in sx1261_reg_w(m, Cmd("abort", 0)) /\ 0 \in Nat /\ bw \in Nat
  OBVIOUS
<1> HIDE DEF m
<1>4. DirectTo(m, "abort", 0, q)
  BY <1>1, <1>3, Direct
<1>5. Reached(d, q)
  BY <1>2, <1>4 DEF DirectTo, Reached, Harmless
<1>6. PICK a, b, c, e, g, h :
        /\ After(q, a, sx1261_reg_w(q.s, Cmd("fs", 0)))
        /\ After(a, b, sx1261_reg_w(a.s, Cmd("freq", f)))
        /\ After(b, c, sx1261_reg_w(b.s, Cmd("fsk", 0)))
        /\ After(c, e, sx1261_reg_w(c.s, Cmd("fsk", bw)))
        /\ After(e, g, sx1261_reg_w(e.s, Cmd("rx", 0)))
        /\ After(g, h, FlushPending(g.s))
        /\ After(h, o, Single(h.s))
  BY DEF Tuning
<1>7. StepTo(d, q, "fs", 0, a)
  BY <1>1, <1>3, <1>5, <1>6, DirectStep
<1>8. StepTo(d, a, "freq", f, b)
  BY <1>1, <1>6, <1>7, DirectStep DEF StepTo
<1>9. StepTo(d, b, "fsk", 0, c)
  BY <1>1, <1>3, <1>6, <1>8, DirectStep DEF StepTo
<1>10. StepTo(d, c, "fsk", bw, e)
  BY <1>1, <1>3, <1>6, <1>9, DirectStep DEF StepTo
<1>11. StepTo(d, e, "rx", 0, g)
  BY <1>1, <1>3, <1>6, <1>10, DirectStep DEF StepTo
<1>12. Reached(d, g) /\ (g.ok => g.s.freq = f /\ g.s.rx)
  BY <1>8, <1>9, <1>10, <1>11 DEF StepTo
<1>13. CASE ~g.ok
  <2>1. o = g
    BY <1>6, <1>13 DEF After
  <2>2. SxOK(o.s)
    BY <1>12, <2>1 DEF Reached, Harmless, SxOK
  <2> QED
    BY <1>12, <1>13, <2>1, <2>2 DEF TunedTo, Reached
<1>14. CASE g.ok
  <2>1. h.s = g.s /\ h.ok
    BY <1>6, <1>12, <1>14 DEF After, FlushPending, Reached, Succeeds, Result
  <2>2. o.ok /\ o.s = OutOfBulk(g.s)
    <3>1. o.ok /\ o.ok \in BOOLEAN /\ o.s = OutOfBulk(h.s)
      BY <1>6, <2>1, SingleIs
    <3> QED
      BY <2>1, <3>1
  <2>3. g.s \in SxStates /\ Harmless(d, g.s) /\ g.s.pending = d.pending /\ g.s.scan # "ON_GOING"
    BY <1>12, <1>14 DEF Reached, Harmless
  <2>4. Leaves(g.s, o.s)
    BY <2>2, <2>3, OutOfBulkIs
  <2> QED
    BY <1>12, <1>14, <2>2, <2>3, <2>4 DEF TunedTo, Harmless, SxOK, Leaves
<1> QED
  BY <1>13, <1>14

\* Over USB: the commands p are stored, and nothing else has happened.
Collecting(d, p) == [d EXCEPT !.bulk = TRUE, !.pending = p]
Holding(d, x, p) == p \in Seq(Cmds) /\ x.ok /\ x.s = Collecting(d, p)

\* The states of the link that differ in what is stored, and in the faults
AllBut(d, e) ==
  /\ e \in SxStates /\ e.usb = d.usb /\ e.scan = d.scan /\ e.seen = d.seen /\ e.freq = d.freq /\ e.rx = d.rx
Storing(d, p) == [d EXCEPT !.pending = p]

LEMMA StoringIs ==
  ASSUME NEW d \in SxStates, NEW p \in Seq(Cmds)
  PROVE  /\ AllBut(d, Storing(d, p)) /\ Storing(d, p).pending = p
         /\ Storing(d, p).bulk = d.bulk /\ Storing(d, p).faults = d.faults
  BY DEF AllBut, Storing, SxStates

LEMMA CollectingIs ==
  ASSUME NEW d \in SxStates, NEW p \in Seq(Cmds)
  PROVE  /\ AllBut(d, Collecting(d, p)) /\ Collecting(d, p).pending = p
         /\ Collecting(d, p).faults = d.faults /\ Collecting(d, p).bulk
         /\ Collecting(d, p) = Storing(InBulk(d), p)
  BY DEF AllBut, Collecting, Storing, InBulk, SxStates

LEMMA Fault1Is ==
  ASSUME NEW d \in SxStates
  PROVE  /\ AllBut(d, Fault1(d)) /\ Fault1(d).pending = d.pending
         /\ Fault1(d).bulk = d.bulk /\ Fault1(d).lbt = d.lbt /\ d.faults <= Fault1(d).faults
  BY DEF AllBut, Fault1, SxStates

LEMMA StoreStep ==
  ASSUME NEW d \in SxStates, d.usb, NEW x, NEW p, Holding(d, x, p), NEW k \in Cmds,
         NEW y, After(x, y, sx1261_reg_w(x.s, k))
  PROVE  Holding(d, y, Append(p, k))
<1>1. PICK w : w = Collecting(d, p)
  OBVIOUS
<1>2. w \in SxStates /\ w.usb /\ w.bulk /\ w.pending = p /\ [w EXCEPT !.pending = Append(p, k)] = Collecting(d, Append(p, k))
  BY <1>1 DEF Holding, Collecting, SxStates
<1>3. y \in sx1261_reg_w(w, k)
  BY <1>1, Zenon DEF Holding, After
<1>4. y.ok = TRUE /\ y.s = [w EXCEPT !.pending = Append(p, k)]
  BY <1>2, <1>3 DEF sx1261_reg_w, Succeeds, Result
<1>5. Append(p, k) \in Seq(Cmds)
  BY DEF Holding
<1> QED
  BY <1>2, <1>4, <1>5, Zenon DEF Holding

LEMMA TunedOverUsb ==
  ASSUME NEW d, SxOK(d), d.usb, NEW f \in Nat, NEW bw \in {125, 250},
         NEW q \in sx1261_reg_w(InBulk(d), Cmd("abort", 0)), NEW o, Tuning(q, f, bw, o)
  PROVE  TunedTo(d, f, o)
<1>1. d \in SxStates /\ d.pending \in Seq(Cmds)
  BY DEF SxOK, SxStates
<1>2. /\ Cmd("abort", 0) \in Cmds /\ Cmd("fs", 0) \in Cmds /\ Cmd("freq", f) \in Cmds
      /\ Cmd("fsk", 0) \in Cmds /\ Cmd("fsk", bw) \in Cmds /\ Cmd("rx", 0) \in Cmds
  BY DEF Cmd, Cmds
<1>3. PICK a, b, c, e, g, h :
        /\ After(q, a, sx1261_reg_w(q.s, Cmd("fs", 0)))
        /\ After(a, b, sx1261_reg_w(a.s, Cmd("freq", f)))
        /\ After(b, c, sx1261_reg_w(b.s, Cmd("fsk", 0)))
        /\ After(c, e, sx1261_reg_w(c.s, Cmd("fsk", bw)))
        /\ After(e, g, sx1261_reg_w(e.s, Cmd("rx", 0)))
        /\ After(g, h, FlushPending(g.s))
        /\ After(h, o, Single(h.s))
  BY DEF Tuning
<1>5. PICK P1, P2, P3, P4, P5, P6 :
        /\ P1 = Append(d.pending, Cmd("abort", 0)) /\ P2 = Append(P1, Cmd("fs", 0))
        /\ P3 = Append(P2, Cmd("freq", f)) /\ P4 = Append(P3, Cmd("fsk", 0))
        /\ P5 = Append(P4, Cmd("fsk", bw)) /\ P6 = Append(P5, Cmd("rx", 0))
  OBVIOUS
<1>7. Holding(d, q, P1)
  <2>1. PICK m, k : m = InBulk(d) /\ k = Cmd("abort", 0)
    OBVIOUS
  <2>2. P1 \in Seq(Cmds)
    BY <1>1, <1>2, <1>5
  <2>3. m \in SxStates /\ m.usb /\ m.bulk /\ m.pending = d.pending
    BY <1>1, <2>1 DEF InBulk, SxStates
  <2>4. q \in sx1261_reg_w(m, k) /\ P1 = Append(m.pending, k)
    BY <1>5, <2>1, <2>3
  <2>5. q.ok = TRUE /\ q.s = Storing(m, P1)
    BY <2>3, <2>4 DEF sx1261_reg_w, Succeeds, Result, Storing
  <2>6. Collecting(d, P1) = Storing(m, P1)
    BY <1>1, <2>1, <2>2, CollectingIs
  <2> QED
    BY <2>2, <2>5, <2>6, Zenon DEF Holding
<1>8. Holding(d, a, P2)
  BY <1>1, <1>2, <1>3, <1>5, <1>7, StoreStep
<1>9. Holding(d, b, P3)
  BY <1>1, <1>2, <1>3, <1>5, <1>8, StoreStep
<1>10. Holding(d, c, P4)
  BY <1>1, <1>2, <1>3, <1>5, <1>9, StoreStep
<1>11. Holding(d, e, P5)
  BY <1>1, <1>2, <1>3, <1>5, <1>10, StoreStep
<1>12. Holding(d, g, P6)
  BY <1>1, <1>2, <1>3, <1>5, <1>11, StoreStep
<1>13. /\ Len(P6) = Len(d.pending) + 6 /\ P6[1].c = "abort"
       /\ P6[Len(P6)].c = "rx" /\ P6[Len(P6) - 1].c = "fsk" /\ P6[Len(P6) - 2].c = "fsk"
       /\ P6[Len(P6) - 3].c = "freq" /\ P6[Len(P6) - 3].f = f
  <2>1. P1 \in Seq(Cmds) /\ P2 \in Seq(Cmds) /\ P3 \in Seq(Cmds) /\ P4 \in Seq(Cmds) /\ P5 \in Seq(Cmds)
    BY <1>7, <1>8, <1>9, <1>10, <1>11 DEF Holding
  <2>2. PICK n \in Nat : n = Len(d.pending)
    BY <1>1
  <2>3. Len(P1) = n + 1 /\ P1[1].c = "abort"
    BY <1>1, <1>2, <1>5, <2>2 DEF SxOK, StoredOK, Cmd
  <2>4. Len(P2) = n + 2 /\ P2[1] = P1[1]
    BY <1>2, <1>5, <2>1, <2>2, <2>3
  <2>5. Len(P3) = n + 3 /\ P3[1] = P1[1] /\ P3[n + 3] = Cmd("freq", f)
    <3>1. PICK k : k = Cmd("freq", f)
      OBVIOUS
    <3>2. P3 = Append(P2, k) /\ Len(P2) = n + 2
      BY <1>5, <2>4, <3>1
    <3> QED
      BY <2>1, <2>2, <2>4, <3>1, <3>2, SMTT(30)
  <2>6. Len(P4) = n + 4 /\ P4[1] = P1[1] /\ P4[n + 3] = Cmd("freq", f) /\ P4[n + 4] = Cmd("fsk", 0)
    BY <1>2, <1>5, <2>1, <2>2, <2>5
  <2>7. /\ Len(P5) = n + 5 /\ P5[1] = P1[1] /\ P5[n + 3] = Cmd("freq", f) /\ P5[n + 4] = Cmd("fsk", 0)
        /\ P5[n + 5] = Cmd("fsk", bw)
    BY <1>2, <1>5, <2>1, <2>2, <2>6
  <2>8. /\ Len(P6) = n + 6 /\ P6[1] = P1[1] /\ P6[n + 3] = Cmd("freq", f) /\ P6[n + 4] = Cmd("fsk", 0)
        /\ P6[n + 5] = Cmd("fsk", bw) /\ P6[n + 6] = Cmd("rx", 0)
    BY <1>2, <1>5, <2>1, <2>2, <2>7
  <2>9. (n + 6) - 1 = n + 5 /\ (n + 6) - 2 = n + 4 /\ (n + 6) - 3 = n + 3
    OBVIOUS
  <2> QED
    BY <2>2, <2>3, <2>8, <2>9 DEF Cmd
<1>14. PICK t, x, done : /\ t = OutOfBulk(g.s) /\ x = Storing(t, <<>>) /\ done = Executed(x, P6)
  OBVIOUS
<1>15. /\ t \in SxStates /\ x \in SxStates /\ t.pending = P6 /\ ~t.bulk /\ ~x.bulk /\ t.usb /\ x.usb
       /\ t.seen = d.seen /\ t.scan = d.scan /\ t.faults = d.faults
       /\ x.seen = d.seen /\ x.scan = d.scan /\ x.faults = d.faults
       /\ g.s.usb /\ g.s.pending = P6 /\ P6 \in Seq(Cmds) /\ g.ok
  <2>1. PICK y : y = g.s /\ y = Collecting(d, P6) /\ P6 \in Seq(Cmds) /\ g.ok
    BY <1>12 DEF Holding
  <2>2. /\ y \in SxStates /\ y.usb /\ y.pending = P6 /\ y.seen = d.seen /\ y.scan = d.scan /\ y.faults = d.faults
    <3>1. /\ AllBut(d, Collecting(d, P6)) /\ Collecting(d, P6).pending = P6
          /\ Collecting(d, P6).faults = d.faults
      BY <1>1, <2>1, CollectingIs
    <3> QED
      BY <2>1, <3>1 DEF AllBut
  <2>3. Leaves(y, t)
    BY <1>14, <2>1, <2>2, OutOfBulkIs
  <2>4. /\ x \in SxStates /\ ~x.bulk /\ x.usb = t.usb /\ x.seen = t.seen /\ x.scan = t.scan /\ x.faults = t.faults
    <3>1. <<>> \in Seq(Cmds) /\ t \in SxStates
      BY <2>3 DEF Leaves
    <3> QED
      BY <1>14, <2>3, <3>1, StoringIs DEF Leaves, AllBut
  <2> QED
    BY <2>1, <2>2, <2>3, <2>4 DEF Leaves
<1>16. FlushedTo(x, P6, done)
  <2>1. Len(P6) > 0 /\ P6[1].c = "abort"
    BY <1>1, <1>13
  <2> QED
    BY <1>14, <1>15, <2>1, Flushed
<1>17. /\ done \in SxStates /\ ~done.bulk /\ done.usb /\ done.pending = <<>> /\ done.seen = d.seen
       /\ done.faults = d.faults /\ done.scan = IF d.scan = "ON_GOING" THEN "ABORTED" ELSE d.scan
       /\ done.rx /\ done.freq = f
  <2>1. x.pending = <<>>
    <3>1. <<>> \in Seq(Cmds)
      OBVIOUS
    <3> QED
      BY <1>14, <1>15, <3>1, StoringIs
  <2>2. Len(P6) > 4
    BY <1>1, <1>13
  <2> QED
    BY <1>13, <1>15, <1>16, <2>1, <2>2 DEF FlushedTo, SameLink
<1>18. StoredOK(P6) /\ StoredOK(<<>>)
  BY <1>13 DEF StoredOK
<1>19. \/ h.ok = TRUE /\ h.s = done
       \/ h.ok = FALSE /\ h.s = Fault1(t)
       \/ h.ok = FALSE /\ h.s = Storing(Fault1(done), P6)
  <2>1. h \in FlushPending(g.s)
    BY <1>3, <1>15 DEF After
  <2>2. /\ t = [g.s EXCEPT !.bulk = FALSE]
        /\ FlushPending(g.s) = Succeeds(done)
             \cup (IF HasBudget(g.s) THEN Fails(Fault1(t)) \cup Fails(Storing(Fault1(done), P6)) ELSE {})
    BY <1>14, <1>15, Zenon DEF FlushPending, OutOfBulk, Storing
  <2> QED
    BY <2>1, <2>2 DEF Succeeds, Fails, Result
<1>20. CASE h.ok = TRUE /\ h.s = done
  <2>1. o.ok /\ o.ok \in BOOLEAN /\ o.s = OutOfBulk(done)
    <3>1. o.ok /\ o.ok \in BOOLEAN /\ o.s = OutOfBulk(h.s)
      BY <1>3, <1>20, SingleIs
    <3> QED
      BY <1>20, <3>1
  <2>2. Leaves(done, o.s)
    BY <1>17, <2>1, OutOfBulkIs
  <2>3. o.ok \in BOOLEAN
    BY <2>1
  <2> QED
    <3>1. /\ o.s \in SxStates /\ ~o.s.bulk /\ o.s.usb /\ o.s.pending = <<>> /\ o.s.seen = d.seen
          /\ d.faults <= o.s.faults /\ o.s.freq = f /\ o.s.rx
      BY <1>1, <1>17, <2>2 DEF Leaves, SxStates
    <3>2. o.s.scan # "ON_GOING" /\ (o.s.scan = d.scan \/ (d.scan = "ON_GOING" /\ o.s.scan = "ABORTED"))
      BY <1>17, <2>2 DEF Leaves
    <3> QED
      BY <1>18, <2>3, <3>1, <3>2 DEF TunedTo, Harmless, SxOK
<1>21. CASE h.ok = FALSE /\ h.s = Fault1(t)
  <2>1. o = h
    BY <1>3, <1>21 DEF After
  <2>2. /\ o.s \in SxStates /\ ~o.s.bulk /\ o.s.usb /\ o.s.pending = P6 /\ o.s.seen = d.seen /\ o.s.scan = d.scan
        /\ d.faults <= o.s.faults
    BY <1>15, <1>21, <2>1, Fault1Is DEF AllBut
  <2> QED
    <3>1. o.ok \in BOOLEAN /\ ~o.ok
      BY <1>21, <2>1
    <3> QED
      BY <1>18, <2>2, <3>1 DEF TunedTo, Harmless, SxOK
<1>22. CASE h.ok = FALSE /\ h.s = Storing(Fault1(done), P6)
  <2>1. o = h
    BY <1>3, <1>22 DEF After
  <2>2. /\ o.s \in SxStates /\ ~o.s.bulk /\ o.s.usb /\ o.s.pending = P6 /\ o.s.seen = d.seen /\ o.s.scan = done.scan
        /\ d.faults <= o.s.faults
    <3>1. Fault1(done) \in SxStates
      BY <1>17, Fault1Is DEF AllBut
    <3> QED
      BY <1>15, <1>17, <1>22, <2>1, <3>1, Fault1Is, StoringIs DEF AllBut
  <2> QED
    <3>1. o.ok \in BOOLEAN /\ ~o.ok
      BY <1>22, <2>1
    <3>2. o.s.scan = d.scan \/ (d.scan = "ON_GOING" /\ o.s.scan = "ABORTED")
      BY <1>17, <2>2
    <3> QED
      BY <1>18, <2>2, <3>1, <3>2 DEF TunedTo, Harmless, SxOK
<1> QED
  BY <1>19, <1>20, <1>21, <1>22

LEMMA Tuned ==
  ASSUME NEW d, SxOK(d), NEW f \in Nat, NEW bw \in {125, 250}, NEW o \in sx1261_set_rx_params(d, f, bw)
  PROVE  TunedTo(d, f, o)
<1>1. PICK q \in AndThen(SetWriteMode(d, TRUE), sx1261_spectral_scan_abort) : Tuning(q, f, bw, o)
  <2>1. PICK quiet : quiet = AndThen(SetWriteMode(d, TRUE), sx1261_spectral_scan_abort)
    BY Zenon
  <2>2. o \in TuneTo(quiet, f, bw)
    BY <2>1, Zenon DEF sx1261_set_rx_params
  <2>3. PICK q \in quiet : Tuning(q, f, bw, o)
    BY <2>2, TuneSteps
  <2> QED
    BY <2>1, <2>3, Zenon
<1>2. q \in sx1261_reg_w(InBulk(d), Cmd("abort", 0))
  <2>1. PICK p \in Succeeds(InBulk(d)) : After(p, q, sx1261_spectral_scan_abort(p.s))
    <3>1. q \in AndThen(Succeeds(InBulk(d)), sx1261_spectral_scan_abort)
      BY <1>1, Zenon DEF SetWriteMode, InBulk
    <3> QED
      BY <3>1 DEF AndThen, After
  <2>2. p.ok = TRUE /\ p.s = InBulk(d)
    BY <2>1 DEF Succeeds, Result
  <2> QED
    BY <2>1, <2>2 DEF After, sx1261_spectral_scan_abort
<1>3. CASE d.usb
  BY <1>1, <1>2, <1>3, TunedOverUsb
<1>4. CASE ~d.usb
  BY <1>1, <1>2, <1>4, TunedDirectly
<1> QED
  BY <1>3, <1>4

-----------------------------------------------------------------------------
(* The calls of loragw_lbt.c and of the scan *)

LEMMA AbortSteps ==
  ASSUME NEW d, SxOK(d), NEW c \in {"abort", "fs", "lbt"}, NEW o \in sx1261_reg_w(d, Cmd(c, 0))
  PROVE  /\ o.ok \in BOOLEAN /\ Harmless(d, o.s) /\ SxOK(o.s)
         /\ c = "lbt" /\ o.ok => o.s.freq = d.freq /\ o.s.rx = d.rx /\ o.s.lbt
<1>1. d \in SxStates /\ ~(d.usb /\ d.bulk)
  BY DEF SxOK
<1>2. DirectTo(d, c, 0, o)
  BY <1>1, Direct
<1>3. o.ok \in BOOLEAN /\ Harmless(d, o.s) /\ o.s.usb = d.usb /\ o.s.bulk = d.bulk /\ o.s.pending = d.pending
  BY <1>2 DEF DirectTo
<1>4. SxOK(o.s)
  BY <1>3 DEF SxOK, Harmless
<1> QED
  BY <1>2, <1>3, <1>4 DEF DirectTo

LEMMA HarmlessTwice ==
  ASSUME NEW d \in SxStates, NEW e, Harmless(d, e), NEW g, Harmless(e, g)
  PROVE  Harmless(d, g)
<1>1. d.faults \in Nat /\ e.faults \in Nat /\ g.faults \in Nat
  BY DEF Harmless, SxStates
<1> QED
  BY <1>1 DEF Harmless

\* The listening stops, or not, and a scan with it.
LEMMA LbtStops ==
  ASSUME NEW d, SxOK(d), NEW o \in lgw_lbt_stop(d)
  PROVE  o.ok \in BOOLEAN /\ Harmless(d, o.s) /\ SxOK(o.s)
<1>1. PICK p \in sx1261_reg_w(d, Cmd("abort", 0)) : After(p, o, sx1261_reg_w(p.s, Cmd("fs", 0)))
  BY DEF lgw_lbt_stop, sx1261_lbt_stop, AndThen, After
<1>2. p.ok \in BOOLEAN /\ Harmless(d, p.s) /\ SxOK(p.s)
  BY <1>1, AbortSteps
<1>3. CASE p.ok
  <2>1. o \in sx1261_reg_w(p.s, Cmd("fs", 0))
    BY <1>1, <1>3 DEF After
  <2>2. o.ok \in BOOLEAN /\ Harmless(p.s, o.s) /\ SxOK(o.s)
    BY <1>2, <2>1, AbortSteps
  <2>3. d \in SxStates
    BY DEF SxOK
  <2> QED
    BY <1>2, <2>2, <2>3, HarmlessTwice
<1>4. CASE ~p.ok
  BY <1>1, <1>2, <1>4 DEF After
<1> QED
  BY <1>3, <1>4

\* The SX1261 listens on the frequency of the packet, or the call fails.
ListensTo(d, p, o) ==
  /\ o.ok \in BOOLEAN /\ Harmless(d, o.s) /\ SxOK(o.s)
  /\ o.ok => o.s.rx /\ o.s.lbt /\ o.s.freq = p.freq

LEMMA LbtStarts ==
  ASSUME NEW d, SxOK(d), NEW p \in Downlinks, NEW o \in lgw_lbt_start(d, p)
  PROVE  ListensTo(d, p, o)
<1>1. d \in SxStates /\ p.freq \in Nat /\ p.bw \in Nat
  BY ListenAssumption DEF SxOK
<1>2. CASE o \in Fails(d)
  <2>1. o.ok = FALSE /\ o.s = d
    BY <1>2 DEF Fails, Result
  <2>2. d.faults <= d.faults
    BY <1>1 DEF SxStates
  <2> QED
    BY <1>1, <2>1, <2>2 DEF ListensTo, Harmless
<1>3. CASE is_lbt_channel(p) # {} /\ o \in AndThen(sx1261_set_rx_params(d, p.freq, p.bw), sx1261_lbt_start)
  <2>1. p.bw \in {125, 250}
    BY <1>3, ListenAssumption DEF is_lbt_channel
  <2>2. PICK q \in sx1261_set_rx_params(d, p.freq, p.bw) : After(q, o, sx1261_reg_w(q.s, Cmd("lbt", 0)))
    BY <1>3 DEF AndThen, After, sx1261_lbt_start
  <2>3. TunedTo(d, p.freq, q)
    BY <1>1, <2>1, <2>2, Tuned
  <2>4. CASE q.ok
    <3>1. o \in sx1261_reg_w(q.s, Cmd("lbt", 0)) /\ SxOK(q.s)
      BY <2>2, <2>3, <2>4 DEF After, TunedTo
    <3>2. /\ o.ok \in BOOLEAN /\ Harmless(q.s, o.s) /\ SxOK(o.s)
          /\ o.ok => o.s.freq = q.s.freq /\ o.s.rx = q.s.rx /\ o.s.lbt
      BY <3>1, AbortSteps
    <3>3. Harmless(d, o.s)
      BY <1>1, <2>3, <3>2, HarmlessTwice DEF TunedTo
    <3> QED
      BY <2>3, <2>4, <3>2, <3>3 DEF TunedTo, ListensTo
  <2>5. CASE ~q.ok
    BY <2>2, <2>3, <2>5 DEF After, TunedTo, ListensTo
  <2> QED
    BY <2>4, <2>5
<1> QED
  BY <1>2, <1>3 DEF lgw_lbt_start

\* The scan measures the frequency the call was made for, or the call fails.
LEMMA ScanStarts ==
  ASSUME NEW d, SxOK(d), NEW f \in Nat, NEW o \in lgw_spectral_scan_start(d, f)
  PROVE  /\ o.ok \in BOOLEAN /\ SxOK(o.s) /\ d.faults <= o.s.faults
         /\ o.ok => o.s.seen = {f}
<1>1. PICK q \in sx1261_set_rx_params(d, f, 125) : After(q, o, sx1261_reg_w(q.s, Cmd("scan", 0)))
  BY DEF lgw_spectral_scan_start, AndThen, After, sx1261_spectral_scan_start
<1>2. TunedTo(d, f, q) /\ d \in SxStates
  BY <1>1, Tuned DEF SxOK
<1>3. CASE ~q.ok
  BY <1>1, <1>2, <1>3 DEF After, TunedTo, Harmless
<1>4. CASE q.ok
  <2>1. o \in sx1261_reg_w(q.s, Cmd("scan", 0)) /\ q.s \in SxStates /\ ~(q.s.usb /\ q.s.bulk) /\ q.s.freq = f
    BY <1>1, <1>2, <1>4 DEF After, TunedTo, SxOK
  <2>2. DirectTo(q.s, "scan", 0, o)
    BY <2>1, Direct
  <2>3. d.faults \in Nat /\ q.s.faults \in Nat /\ o.s.faults \in Nat
    BY <1>2, <2>1, <2>2 DEF SxStates, DirectTo
  <2>4. SxOK(o.s)
    BY <1>2, <2>2 DEF DirectTo, TunedTo, SxOK
  <2> QED
    BY <1>2, <2>1, <2>2, <2>3, <2>4 DEF DirectTo, TunedTo, Harmless
<1> QED
  BY <1>2, <1>3, <1>4 DEF TunedTo

-----------------------------------------------------------------------------
(* The actions keep the invariant *)

LEMMA ListenInitInv == ListenInit => ListenInv
<1>1. SUFFICES ASSUME ListenInit PROVE ListenInv
  OBVIOUS
<1>2. PICK usb \in BOOLEAN : sx = NewSx(usb)
  BY <1>1 DEF ListenInit
<1>3. SxOK(sx) /\ sx.scan = "NONE"
  <2>1. <<>> \in Seq(Cmds)
    OBVIOUS
  <2> QED
    BY <1>2, <2>1 DEF NewSx, SxOK, SxStates, StoredOK
<1>4. TalkTypes
  BY <1>1 DEF ListenInit, TalkTypes, Talks, NoPacket
<1>5. EarTypes
  BY <1>1 DEF ListenInit, EarTypes
<1>6. ProbeTypes
  BY <1>1, ListenAssumption DEF ListenInit, ProbeTypes
<1>7. Verdict
  BY <1>1 DEF ListenInit, Verdict
<1>8. Probing /\ ShownIsMeasured /\ ~probe.over
  BY <1>1 DEF ListenInit, Probing, ShownIsMeasured
<1> QED
  BY <1>3, <1>4, <1>5, <1>6, <1>7, <1>8 DEF ListenInv

\* What a step of the emission leaves to the scanning thread
LEMMA ProbingKept ==
  ASSUME Probing, Harmless(sx, sx'), UNCHANGED probe
  PROVE  Probing'
  BY DEF Probing, Harmless

LEMMA FaultHarmless ==
  ASSUME NEW d, SxOK(d)
  PROVE  SxOK(Fault1(d)) /\ Harmless(d, Fault1(d)) /\ Fault1(d).faults = d.faults + 1
<1>1. d \in SxStates
  BY DEF SxOK
<1>2. PICK e : e = Fault1(d)
  OBVIOUS
<1>3. /\ AllBut(d, e) /\ e.pending = d.pending /\ e.bulk = d.bulk /\ d.faults <= e.faults
  BY <1>1, <1>2, Fault1Is
<1>4. e.faults = d.faults + 1
  BY <1>1, <1>2 DEF Fault1, SxStates
<1> QED
  BY <1>2, <1>3, <1>4 DEF AllBut, SxOK, Harmless

LEMMA JitSendKeeps ==
  ASSUME ListenInv, NEW p \in Downlinks, JitSend(p)
  PROVE  ListenInv'
<1> USE DEF ListenInv
<1>1. PICK o \in Anyway(sx1261_spectral_scan_abort(sx), LAMBDA d : lgw_lbt_start(d, p)) :
        /\ sx' = o.s
        /\ talk' = [talk EXCEPT !.pc = IF o.ok THEN "send" ELSE "idle", !.pkt = p, !.done = @ \cup {p},
                                !.result = IF o.ok THEN "none" ELSE "error"]
  BY Zenon DEF JitSend
<1>2. PICK a \in sx1261_reg_w(sx, Cmd("abort", 0)) : o \in lgw_lbt_start(a.s, p)
  BY <1>1 DEF Anyway, sx1261_spectral_scan_abort
<1>3. Harmless(sx, a.s) /\ SxOK(a.s)
  BY <1>2, AbortSteps
<1>4. ListensTo(a.s, p, o)
  BY <1>2, <1>3, LbtStarts
<1>5. SxOK(sx') /\ Harmless(sx, sx') /\ (o.ok => sx'.rx /\ sx'.lbt /\ sx'.freq = p.freq) /\ o.ok \in BOOLEAN
  <2>1. sx \in SxStates
    BY DEF SxOK
  <2> QED
    BY <1>1, <1>3, <1>4, <2>1, HarmlessTwice DEF ListensTo
<1>6. /\ talk' \in Talks
      /\ talk'.pc = (IF o.ok THEN "send" ELSE "idle") /\ talk'.pkt = p /\ talk'.result \in {"none", "error"}
      /\ talk'.slipped = talk.slipped /\ talk'.timeout = talk.timeout
  <2>1. PICK pc, res : pc = (IF o.ok THEN "send" ELSE "idle") /\ res = (IF o.ok THEN "none" ELSE "error")
    OBVIOUS
  <2>2. talk' = [talk EXCEPT !.pc = pc, !.pkt = p, !.done = @ \cup {p}, !.result = res]
    BY <1>1, <2>1, Zenon
  <2>3. pc \in {"send", "idle"} /\ res \in {"none", "error"}
    BY <2>1
  <2>4. p \in [freq : Nat, bw : Nat, chain : {0, 1}, toa_ms : Nat]
    BY ListenAssumption
  <2>5. talk \in Talks
    BY DEF TalkTypes
  <2>6. /\ talk' \in Talks /\ talk'.pc = pc /\ talk'.pkt = p /\ talk'.result = res
        /\ talk'.slipped = talk.slipped /\ talk'.timeout = talk.timeout
    BY <2>2, <2>3, <2>4, <2>5 DEF Talks
  <2> QED
    BY <2>1, <2>3, <2>6
<1>7. /\ ear'.phase = ear.phase /\ ear'.init = ear.init /\ ear'.mbox = ear.mbox /\ EarTypes'
      /\ fsm' = fsm /\ probe' = probe /\ shown' = shown /\ talk.pc = "idle"
  BY DEF JitSend, EarTypes, Talking
<1>8. ASSUME ~talk'.slipped PROVE Verdict'
  <2>1. Verdict
    BY <1>6, <1>8
  <2>2. /\ ~talk'.timeout /\ ear'.mbox = 0 /\ ear'.phase # "told" /\ (\A r \in {0, 1} : ~ear'.init[r])
        /\ \A r \in {0, 1} : fsm'[r] # "scheduled"
    BY <1>6, <1>7, <2>1 DEF Verdict
  <2> QED
    BY <1>5, <1>6, <2>2 DEF Verdict
<1>9. Probing'
  BY <1>5, <1>7, ProbingKept
<1>10. TalkTypes'
  BY <1>6 DEF TalkTypes
<1>11. ProbeTypes' /\ ShownIsMeasured' /\ ~probe'.over
  BY <1>7 DEF ProbeTypes, ShownIsMeasured
<1> QED
  BY <1>5, <1>7, <1>8, <1>9, <1>10, <1>11

\* A step that leaves the scanning thread alone
LEMMA EmissionKeeps ==
  ASSUME ListenInv, SxOK(sx'), Harmless(sx, sx'), UNCHANGED <<probe, shown>>, TalkTypes', EarTypes',
         ~talk'.slipped => Verdict'
  PROVE  ListenInv'
<1>1. Probing'
  BY ProbingKept DEF ListenInv
<1>2. ProbeTypes' /\ ShownIsMeasured' /\ ~probe'.over
  BY DEF ListenInv, ProbeTypes, ShownIsMeasured
<1> QED
  BY <1>1, <1>2 DEF ListenInv

LEMMA NothingHarmless ==
  ASSUME NEW d, SxOK(d)
  PROVE  Harmless(d, d)
<1>1. d \in SxStates /\ d.faults \in Nat
  BY DEF SxOK, SxStates
<1> QED
  BY <1>1 DEF Harmless

\* The step only counts a fault, or nothing.
LEMMA SxStays ==
  ASSUME SxOK(sx), UNCHANGED sx \/ sx' = Fault1(sx)
  PROVE  /\ SxOK(sx') /\ Harmless(sx, sx') /\ sx'.rx = sx.rx /\ sx'.lbt = sx.lbt /\ sx'.freq = sx.freq
         /\ sx'.scan = sx.scan /\ sx'.seen = sx.seen
<1>1. CASE UNCHANGED sx
  BY <1>1, NothingHarmless
<1>2. CASE sx' = Fault1(sx)
  <2>1. sx \in SxStates
    BY DEF SxOK
  <2>2. AllBut(sx, Fault1(sx)) /\ Fault1(sx).lbt = sx.lbt
    BY <2>1, Fault1Is
  <2>3. SxOK(Fault1(sx)) /\ Harmless(sx, Fault1(sx))
    BY FaultHarmless
  <2> QED
    BY <1>2, <2>2, <2>3 DEF AllBut
<1> QED
  BY <1>1, <1>2

\* The end of lgw_send
LEMMA FinishKeeps ==
  ASSUME SxOK(sx), TalkTypes, NEW d, d = sx \/ d = Fault1(sx), NEW res \in {"error", "success", "not_allowed"},
         Finish(d, res)
  PROVE  /\ SxOK(sx') /\ Harmless(sx, sx') /\ TalkTypes'
         /\ talk'.pc = "idle" /\ talk'.pkt = talk.pkt /\ talk'.result \in {res, "error"}
         /\ talk'.slipped = talk.slipped /\ talk'.timeout = talk.timeout /\ talk'.tx_ok = talk.tx_ok
<1>1. SxOK(d) /\ Harmless(sx, d) /\ sx \in SxStates
  BY FaultHarmless, NothingHarmless DEF SxOK
<1>2. PICK o \in lgw_lbt_stop(d) :
        /\ sx' = o.s
        /\ talk' = [talk EXCEPT !.pc = "idle", !.result = IF o.ok THEN res ELSE "error"]
  BY Zenon DEF Finish
<1>3. SxOK(o.s) /\ Harmless(d, o.s)
  BY <1>1, <1>2, LbtStops
<1>4. SxOK(sx') /\ Harmless(sx, sx')
  BY <1>1, <1>2, <1>3, HarmlessTwice
<1>5. PICK x : x = IF o.ok THEN res ELSE "error"
  OBVIOUS
<1>6. x \in {res, "error"}
  BY <1>5
<1>7. talk' = [talk EXCEPT !.pc = "idle", !.result = x] /\ talk \in Talks
  BY <1>2, <1>5, Zenon DEF TalkTypes
<1>8. /\ talk' \in Talks /\ talk'.pc = "idle" /\ talk'.pkt = talk.pkt /\ talk'.result = x
      /\ talk'.slipped = talk.slipped /\ talk'.timeout = talk.timeout /\ talk'.tx_ok = talk.tx_ok
  BY <1>6, <1>7 DEF Talks
<1> QED
  BY <1>4, <1>6, <1>8 DEF TalkTypes

LEMMA SendKeeps ==
  ASSUME ListenInv, sx1302_send_step
  PROVE  ListenInv'
<1>1. /\ talk.pc = "send" /\ UNCHANGED <<ear, probe, shown>>
      /\ SxOK(sx) /\ TalkTypes /\ EarTypes
  BY DEF sx1302_send_step, ListenInv
<1>2. CASE /\ fsm' = [fsm EXCEPT ![talk.pkt.chain] = "scheduled"]
           /\ talk' = [talk EXCEPT !.pc = "verdict"] /\ UNCHANGED sx
  <2>1. talk \in Talks
    BY <1>1 DEF TalkTypes
  <2>2. /\ talk' \in Talks /\ talk'.pc = "verdict" /\ talk'.pkt = talk.pkt /\ talk'.slipped = talk.slipped
        /\ talk'.timeout = talk.timeout /\ talk'.result = talk.result /\ talk'.tx_ok = talk.tx_ok
        /\ talk.pkt.chain \in {0, 1}
    BY <1>2, <2>1 DEF Talks
  <2>3. EarTypes'
    BY <1>1, <1>2, <2>2 DEF EarTypes
  <2>4. ASSUME ~talk'.slipped PROVE Verdict'
    <3>1. Verdict
      BY <2>2, <2>4 DEF ListenInv
    <3>2. ear.phase # "told" /\ (\A r \in {0, 1} : ~ear.init[r]) /\ ear.mbox = 0 /\ ~talk.timeout
      BY <1>1, <3>1 DEF Verdict
    <3>3. \A r \in {0, 1} : fsm'[r] = "scheduled" => r = talk.pkt.chain
      BY <1>1, <1>2, <3>1 DEF Verdict, EarTypes
    <3>4. sx.rx /\ sx.lbt /\ sx.freq = talk.pkt.freq /\ talk.result \notin {"success", "not_allowed"}
      BY <1>1, <3>1 DEF Verdict
    <3> QED
      BY <1>1, <1>2, <2>2, <3>2, <3>3, <3>4 DEF Verdict
  <2> QED
    BY <1>1, <1>2, <2>2, <2>3, <2>4, SxStays, EmissionKeeps DEF TalkTypes
<1>3. CASE Finish(Fault1(sx), "error") /\ UNCHANGED fsm
  <2>1. /\ SxOK(sx') /\ Harmless(sx, sx') /\ TalkTypes'
        /\ talk'.pc = "idle" /\ talk'.pkt = talk.pkt /\ talk'.result \in {"error", "error"}
        /\ talk'.slipped = talk.slipped /\ talk'.timeout = talk.timeout
    BY <1>1, <1>3, FinishKeeps
  <2>2. EarTypes'
    BY <1>1, <1>3 DEF EarTypes
  <2>3. ASSUME ~talk'.slipped PROVE Verdict'
    <3>1. Verdict
      BY <2>1, <2>3 DEF ListenInv
    <3> QED
      BY <1>1, <1>3, <2>1, <3>1 DEF Verdict
  <2> QED
    BY <1>1, <2>1, <2>2, <2>3, EmissionKeeps
<1> QED
  BY <1>2, <1>3 DEF sx1302_send_step

LEMMA GiveUpKeeps ==
  ASSUME ListenInv, GiveUp
  PROVE  ListenInv'
<1>1. /\ UNCHANGED <<ear, probe, shown>> /\ fsm' = [fsm EXCEPT ![talk.pkt.chain] = "free"]
      /\ SxOK(sx) /\ TalkTypes /\ EarTypes
  BY DEF GiveUp, ListenInv
<1>2. PICK o \in lgw_lbt_stop(Fault1(sx)) :
        sx' = o.s /\ talk' = [talk EXCEPT !.pc = "idle", !.result = "error", !.slipped = TRUE]
  BY Zenon DEF GiveUp
<1>3. SxOK(Fault1(sx)) /\ Harmless(sx, Fault1(sx)) /\ sx \in SxStates
  BY <1>1, FaultHarmless DEF SxOK
<1>4. SxOK(o.s) /\ Harmless(Fault1(sx), o.s)
  BY <1>2, <1>3, LbtStops
<1>5. SxOK(sx') /\ Harmless(sx, sx')
  BY <1>2, <1>3, <1>4, HarmlessTwice
<1>6. TalkTypes' /\ talk'.slipped
  BY <1>1, <1>2 DEF TalkTypes, Talks
<1>7. EarTypes'
  BY <1>1 DEF EarTypes
<1> QED
  BY <1>1, <1>5, <1>6, <1>7, EmissionKeeps

LEMMA TxStatusKeeps ==
  ASSUME ListenInv, lgw_lbt_tx_status
  PROVE  ListenInv'
<1>1. /\ UNCHANGED <<sx, fsm, probe, shown>> /\ talk.pc = "verdict" /\ ear.init[talk.pkt.chain]
      /\ SxOK(sx) /\ TalkTypes /\ EarTypes
  BY DEF lgw_lbt_tx_status, ListenInv
<1>2. PICK allowed \in BOOLEAN : allowed = ~ear.blocked[talk.pkt.chain]
  OBVIOUS
<1>3. talk' = [talk EXCEPT !.pc = "clear", !.tx_ok = allowed] /\ ear' = [ear EXCEPT !.mbox = 255]
  BY <1>2, Zenon DEF lgw_lbt_tx_status
<1>4. talk \in Talks /\ talk.pkt.chain \in {0, 1}
  BY <1>1 DEF TalkTypes, Talks
<1>5. /\ talk' \in Talks /\ talk'.pc = "clear" /\ talk'.pkt = talk.pkt /\ talk'.slipped = talk.slipped
      /\ talk'.timeout = talk.timeout /\ talk'.result = talk.result /\ talk'.tx_ok = allowed
  BY <1>3, <1>4 DEF Talks
<1>6. /\ EarTypes' /\ ear'.mbox = 255 /\ ear'.phase = ear.phase /\ ear'.init = ear.init
      /\ ear'.decided = ear.decided /\ ear'.heard = ear.heard
  BY <1>1, <1>3 DEF EarTypes
<1>7. ASSUME ~talk'.slipped PROVE Verdict'
  <2>1. Verdict
    BY <1>5, <1>7 DEF ListenInv
  <2>2. ear.phase = "told"
    BY <1>1, <1>4, <2>1 DEF Verdict
  <2>3. /\ ear.decided = (IF allowed THEN "success" ELSE "not_allowed") /\ ear.heard = talk.pkt.freq
    BY <1>1, <1>2, <2>1, <2>2 DEF Verdict
  <2>4. \A r \in {0, 1} : fsm[r] # "scheduled"
    BY <2>1, <2>2 DEF Verdict
  <2>5. ~talk.timeout /\ talk.result \notin {"success", "not_allowed"}
    BY <1>1, <2>1 DEF Verdict
  <2>6. ~(\A r \in {0, 1} : ~ear.init[r])
    BY <1>1, <1>4
  <2> QED
    BY <1>1, <1>5, <1>6, <2>2, <2>3, <2>4, <2>5, <2>6 DEF Verdict
<1> QED
  BY <1>1, <1>5, <1>6, <1>7, SxStays, EmissionKeeps DEF TalkTypes

LEMMA TimeoutKeeps ==
  ASSUME ListenInv, VerdictTimeout
  PROVE  ListenInv'
<1>1. /\ UNCHANGED <<fsm, probe, shown>> /\ sx' = Fault1(sx) /\ SxOK(sx) /\ TalkTypes /\ EarTypes
      /\ talk' = [talk EXCEPT !.pc = "clear", !.timeout = TRUE, !.slipped = TRUE]
      /\ ear' = [ear EXCEPT !.mbox = 255]
  BY DEF VerdictTimeout, ListenInv
<1>2. TalkTypes' /\ talk'.slipped
  BY <1>1 DEF TalkTypes, Talks
<1>3. EarTypes'
  BY <1>1 DEF EarTypes
<1> QED
  BY <1>1, <1>2, <1>3, SxStays, EmissionKeeps

LEMMA AcknowledgeKeeps ==
  ASSUME ListenInv, Acknowledge
  PROVE  ListenInv'
<1>1. /\ UNCHANGED <<sx, fsm, probe, shown>> /\ talk.pc = "clear" /\ (\A r \in {0, 1} : ~ear.init[r])
      /\ SxOK(sx) /\ TalkTypes /\ EarTypes
      /\ talk' = [talk EXCEPT !.pc = "stop"] /\ ear' = [ear EXCEPT !.mbox = 0]
  BY DEF Acknowledge, ListenInv
<1>2. /\ talk' \in Talks /\ talk'.pc = "stop" /\ talk'.pkt = talk.pkt /\ talk'.slipped = talk.slipped
      /\ talk'.timeout = talk.timeout /\ talk'.result = talk.result /\ talk'.tx_ok = talk.tx_ok
  BY <1>1 DEF TalkTypes, Talks
<1>3. /\ EarTypes' /\ ear'.mbox = 0 /\ ear'.phase = ear.phase /\ ear'.init = ear.init
      /\ ear'.decided = ear.decided /\ ear'.heard = ear.heard
  BY <1>1 DEF EarTypes
<1>4. ASSUME ~talk'.slipped PROVE Verdict'
  <2>1. Verdict
    BY <1>2, <1>4 DEF ListenInv
  <2>2. ear.phase # "told"
    BY <1>1, <2>1 DEF Verdict
  <2>3. /\ ear.decided = (IF talk.tx_ok THEN "success" ELSE "not_allowed") /\ ear.heard = talk.pkt.freq
    BY <1>1, <2>1 DEF Verdict
  <2>4. \A r \in {0, 1} : fsm[r] # "scheduled"
    BY <1>1, <2>1 DEF Verdict
  <2>5. ~talk.timeout /\ talk.result \notin {"success", "not_allowed"}
    BY <1>1, <2>1 DEF Verdict
  <2> QED
    BY <1>1, <1>2, <1>3, <2>2, <2>3, <2>4, <2>5 DEF Verdict
<1> QED
  BY <1>1, <1>2, <1>3, <1>4, SxStays, EmissionKeeps DEF TalkTypes

LEMMA StopKeeps ==
  ASSUME ListenInv, LbtStop
  PROVE  ListenInv'
<1>1. /\ UNCHANGED <<ear, probe, shown>> /\ talk.pc = "stop" /\ SxOK(sx) /\ TalkTypes /\ EarTypes
  BY DEF LbtStop, ListenInv
<1>2. CASE talk.timeout
  <2>1. PICK o \in lgw_lbt_stop(sx) :
          sx' = o.s /\ talk' = [talk EXCEPT !.pc = "idle", !.timeout = FALSE, !.result = "error"]
    BY <1>2, Zenon DEF LbtStop
  <2>2. SxOK(sx') /\ Harmless(sx, sx')
    BY <1>1, <2>1, LbtStops
  <2>3. talk' \in Talks /\ talk'.slipped = talk.slipped
    BY <1>1, <2>1 DEF TalkTypes, Talks
  <2>4. fsm' = [fsm EXCEPT ![talk.pkt.chain] = "free"]
    BY <1>2 DEF LbtStop
  <2>5. EarTypes'
    BY <1>1, <2>4 DEF EarTypes
  <2>6. talk.slipped
    BY <1>2 DEF ListenInv, Verdict
  <2> QED
    BY <1>1, <2>2, <2>3, <2>5, <2>6, EmissionKeeps DEF TalkTypes
<1>3. CASE ~talk.timeout
  <2>1. PICK res : res = IF talk.tx_ok THEN "success" ELSE "not_allowed"
    OBVIOUS
  <2>2. Finish(sx, res) /\ UNCHANGED fsm
    BY <1>3, <2>1, Zenon DEF LbtStop
  <2>3. res \in {"error", "success", "not_allowed"}
    BY <2>1
  <2>4. /\ SxOK(sx') /\ Harmless(sx, sx') /\ TalkTypes'
        /\ talk'.pc = "idle" /\ talk'.pkt = talk.pkt /\ talk'.result \in {res, "error"}
        /\ talk'.slipped = talk.slipped /\ talk'.timeout = talk.timeout
    BY <1>1, <2>2, <2>3, FinishKeeps
  <2>5. EarTypes'
    BY <1>1, <2>2 DEF EarTypes
  <2>6. ASSUME ~talk'.slipped PROVE Verdict'
    <3>1. Verdict
      BY <2>4, <2>6 DEF ListenInv
    <3>2. ear.phase # "told" /\ ear.mbox = 0 /\ (\A r \in {0, 1} : fsm[r] # "scheduled" /\ ~ear.init[r])
      BY <1>1, <3>1 DEF Verdict
    <3>3. ear.decided = res /\ ear.heard = talk.pkt.freq
      BY <1>1, <2>1, <3>1 DEF Verdict
    <3> QED
      BY <1>1, <1>3, <2>2, <2>4, <3>2, <3>3 DEF Verdict
  <2> QED
    BY <1>1, <2>4, <2>5, <2>6, EmissionKeeps
<1> QED
  BY <1>2, <1>3

LEMMA DecideKeeps ==
  ASSUME ListenInv, NEW r \in {0, 1}, AgcDecides(r)
  PROVE  ListenInv'
<1>1. /\ UNCHANGED <<sx, talk, probe, shown>> /\ ear.phase = "ready" /\ fsm[r] = "scheduled"
      /\ SxOK(sx) /\ TalkTypes /\ EarTypes
  BY DEF AgcDecides, ListenInv
<1>2. PICK blocked \in BOOLEAN :
        /\ ear' = [ear EXCEPT !.phase = "told", !.init[r] = TRUE, !.blocked[r] = blocked,
                              !.decided = IF blocked THEN "not_allowed" ELSE "success",
                              !.heard = IF sx.rx /\ sx.lbt THEN sx.freq ELSE 0]
        /\ fsm' = [fsm EXCEPT ![r] = IF blocked THEN "free" ELSE "emitting"]
  BY Zenon DEF AgcDecides
<1>3. PICK decided, heard, state :
        /\ decided = (IF blocked THEN "not_allowed" ELSE "success")
        /\ heard = (IF sx.rx /\ sx.lbt THEN sx.freq ELSE 0)
        /\ state = (IF blocked THEN "free" ELSE "emitting")
  OBVIOUS
<1>4. /\ ear' = [ear EXCEPT !.phase = "told", !.init[r] = TRUE, !.blocked[r] = blocked,
                            !.decided = decided, !.heard = heard]
      /\ fsm' = [fsm EXCEPT ![r] = state]
  BY <1>2, <1>3, Zenon
<1>5. heard \in Nat /\ decided \in {"not_allowed", "success"} /\ state \in {"free", "emitting"}
  BY <1>1, <1>3 DEF SxOK, SxStates
<1>6. /\ EarTypes' /\ ear'.phase = "told" /\ ear'.init[r] /\ ear'.blocked[r] = blocked
      /\ ear'.decided = decided /\ ear'.heard = heard /\ ear'.mbox = ear.mbox
      /\ \A q \in {0, 1} : fsm'[q] = IF q = r THEN state ELSE fsm[q]
  BY <1>1, <1>4, <1>5 DEF EarTypes
<1>7. ASSUME ~talk'.slipped PROVE Verdict'
  <2>1. Verdict
    BY <1>1, <1>7 DEF ListenInv
  <2>2. talk.pc = "verdict" /\ r = talk.pkt.chain /\ ~talk.timeout /\ ear.mbox = 0
    BY <1>1, <2>1 DEF Verdict
  <2>3. heard = talk.pkt.freq /\ talk.result \notin {"success", "not_allowed"}
    BY <1>1, <1>3, <2>1, <2>2 DEF Verdict
  <2>4. \A q \in {0, 1} : fsm'[q] # "scheduled"
    BY <1>1, <1>5, <1>6, <2>1, <2>2 DEF Verdict
  <2>5. ~(\A q \in {0, 1} : ~ear'.init[q])
    BY <1>6
  <2>6. ear'.decided = (IF ear'.blocked[talk.pkt.chain] THEN "not_allowed" ELSE "success")
    BY <1>3, <1>6, <2>2
  <2> QED
    BY <1>1, <1>6, <2>2, <2>3, <2>4, <2>5, <2>6 DEF Verdict
<1> QED
  BY <1>1, <1>6, <1>7, SxStays, EmissionKeeps DEF TalkTypes

LEMMA HandshakeKeeps ==
  ASSUME ListenInv, AgcHandshake
  PROVE  ListenInv'
<1>1. UNCHANGED <<sx, fsm, talk, probe, shown>> /\ SxOK(sx) /\ TalkTypes /\ EarTypes
  BY DEF AgcHandshake, ListenInv
<1>2. PICK none : none = [r \in {0, 1} |-> FALSE]
  OBVIOUS
<1>3. none \in [{0, 1} -> BOOLEAN] /\ \A r \in {0, 1} : ~none[r]
  BY <1>2
<1>4. CASE ear.phase = "told" /\ ear.mbox = 255 /\ ear' = [ear EXCEPT !.phase = "cleared", !.init = none, !.blocked = none]
  <2>1. /\ EarTypes' /\ ear'.phase = "cleared" /\ ear'.init = none /\ ear'.mbox = ear.mbox
        /\ ear'.decided = ear.decided /\ ear'.heard = ear.heard
    BY <1>1, <1>3, <1>4 DEF EarTypes
  <2>2. ASSUME ~talk'.slipped PROVE Verdict'
    <3>1. Verdict
      BY <1>1, <2>2 DEF ListenInv
    <3>2. talk.pc = "clear" /\ \A r \in {0, 1} : fsm[r] # "scheduled"
      BY <1>4, <3>1 DEF Verdict
    <3> QED
      BY <1>1, <1>3, <2>1, <3>1, <3>2 DEF Verdict
  <2> QED
    BY <1>1, <2>1, <2>2, SxStays, EmissionKeeps DEF TalkTypes
<1>5. CASE ear.phase = "cleared" /\ ear' = [ear EXCEPT !.phase = "ready"]
  <2>1. /\ EarTypes' /\ ear'.phase = "ready" /\ ear'.init = ear.init /\ ear'.mbox = ear.mbox
        /\ ear'.decided = ear.decided /\ ear'.heard = ear.heard /\ ear'.blocked = ear.blocked
    BY <1>1, <1>5 DEF EarTypes
  <2>2. ASSUME ~talk'.slipped PROVE Verdict'
    <3>1. Verdict
      BY <1>1, <2>2 DEF ListenInv
    <3> QED
      BY <1>1, <1>5, <2>1, <3>1 DEF Verdict
  <2> QED
    BY <1>1, <2>1, <2>2, SxStays, EmissionKeeps DEF TalkTypes
<1> QED
  BY <1>2, <1>4, <1>5, Zenon DEF AgcHandshake

LEMMA EmittedKeeps ==
  ASSUME ListenInv, NEW r \in {0, 1}, Emitted(r)
  PROVE  ListenInv'
<1>1. UNCHANGED <<sx, ear, talk, probe, shown>> /\ fsm' = [fsm EXCEPT ![r] = "free"] /\ SxOK(sx) /\ TalkTypes /\ EarTypes
  BY DEF Emitted, ListenInv
<1>2. EarTypes' /\ \A q \in {0, 1} : fsm'[q] = "scheduled" => fsm[q] = "scheduled"
  BY <1>1 DEF EarTypes
<1>3. ASSUME ~talk'.slipped PROVE Verdict'
  <2>1. Verdict
    BY <1>1, <1>3 DEF ListenInv
  <2> QED
    BY <1>1, <1>2, <2>1 DEF Verdict
<1> QED
  BY <1>1, <1>2, <1>3, SxStays, EmissionKeeps DEF TalkTypes

-----------------------------------------------------------------------------
(* The scanning thread *)

\* A step that leaves the emission alone.  It may only tune the SX1261 while no packet
\* is on its way.
LEMMA ScanningKeeps ==
  ASSUME ListenInv, SxOK(sx'), UNCHANGED <<ear, fsm, talk>>,
         talk.pc = "idle" \/ (sx'.rx = sx.rx /\ sx'.lbt = sx.lbt /\ sx'.freq = sx.freq),
         ProbeTypes', Probing', ShownIsMeasured', ~probe'.over
  PROVE  ListenInv'
<1>1. TalkTypes' /\ EarTypes'
  BY DEF ListenInv, TalkTypes, EarTypes
<1>2. ASSUME ~talk'.slipped PROVE Verdict'
  <2>1. Verdict
    BY <1>2 DEF ListenInv
  <2> QED
    BY <2>1 DEF Verdict
<1> QED
  BY <1>1, <1>2 DEF ListenInv

LEMMA CompletesKeeps ==
  ASSUME ListenInv, ScanCompletes
  PROVE  ListenInv'
<1>1. /\ UNCHANGED <<ear, fsm, talk, probe, shown>> /\ sx.scan = "ON_GOING"
      /\ sx' = [sx EXCEPT !.scan = "COMPLETED"] /\ sx \in SxStates
      /\ SxOK(sx) /\ ProbeTypes /\ Probing /\ ShownIsMeasured /\ ~probe.over
  BY DEF ScanCompletes, ListenInv, SxOK
<1>2. /\ sx' \in SxStates /\ sx'.usb = sx.usb /\ sx'.bulk = sx.bulk /\ sx'.pending = sx.pending
      /\ sx'.rx = sx.rx /\ sx'.lbt = sx.lbt /\ sx'.freq = sx.freq /\ sx'.seen = sx.seen
  BY <1>1 DEF SxStates
<1>3. SxOK(sx')
  BY <1>1, <1>2 DEF SxOK
<1>4. Probing'
  BY <1>1, <1>2 DEF Probing
<1> QED
  BY <1>1, <1>2, <1>3, <1>4, ScanningKeeps DEF ProbeTypes, ShownIsMeasured

\* What the loop over the chains found, and that it found both free when it read both.
TxRead(t) ==
  /\ SxOK(t.s) /\ t.s.rx = sx.rx /\ t.s.lbt = sx.lbt /\ t.s.freq = sx.freq /\ Harmless(sx, t.s)
  /\ ~Busy(t.tx) /\ t.s.faults = sx.faults => \A r \in {0, 1} : ~Busy(fsm[r])

LEMMA StatusRead ==
  ASSUME SxOK(sx), NEW t \in TxStatusOf(sx)
  PROVE  TxRead(t)
<1> DEFINE Read(o, s, r) == \/ o.tx = fsm[r] /\ o.s = s
                            \/ o.tx = "unknown" /\ o.s = Fault1(s)
<1>1. \E o : /\ Read(o, sx, 0)
             /\ \/ Busy(o.tx) /\ t = o
                \/ ~Busy(o.tx) /\ Read(t, o.s, 1)
  BY DEF TxStatusOf
<1>2. PICK o : /\ Read(o, sx, 0)
               /\ \/ Busy(o.tx) /\ t = o
                  \/ ~Busy(o.tx) /\ Read(t, o.s, 1)
  BY <1>1
<1> DEFINE Near(s) == /\ SxOK(s) /\ s.rx = sx.rx /\ s.lbt = sx.lbt /\ s.freq = sx.freq /\ Harmless(sx, s)
                      /\ s.faults \in Nat /\ sx.faults <= s.faults
<1>3. sx \in SxStates /\ Near(sx)
  BY NothingHarmless DEF SxOK, SxStates
<1>4. ASSUME NEW s, Near(s) PROVE Near(Fault1(s)) /\ Fault1(s).faults > sx.faults
  <2>1. s \in SxStates
    BY <1>4 DEF SxOK
  <2>2. AllBut(s, Fault1(s)) /\ Fault1(s).lbt = s.lbt
    BY <2>1, Fault1Is
  <2>3. SxOK(Fault1(s)) /\ Harmless(s, Fault1(s)) /\ Fault1(s).faults = s.faults + 1
    BY <1>4, FaultHarmless
  <2>4. Harmless(sx, Fault1(s))
    BY <1>3, <1>4, <2>3, HarmlessTwice
  <2>5. sx.faults \in Nat
    BY <1>3 DEF SxStates
  <2> QED
    BY <1>4, <2>2, <2>3, <2>4, <2>5 DEF AllBut
<1>5. Near(o.s) /\ (o.s.faults = sx.faults => o.tx = fsm[0])
  <2>1. sx.faults \in Nat
    BY <1>3
  <2>2. CASE o.tx = fsm[0] /\ o.s = sx
    BY <1>3, <2>2
  <2>3. CASE o.s = Fault1(sx)
    <3> HIDE DEF Near
    <3>1. Near(Fault1(sx)) /\ Fault1(sx).faults > sx.faults
      BY <1>3, <1>4
    <3> QED
      BY <2>1, <2>3, <3>1
  <2> QED
    BY <1>2, <2>2, <2>3
<1>6. CASE Busy(o.tx) /\ t = o
  BY <1>5, <1>6 DEF TxRead
<1>7. CASE ~Busy(o.tx) /\ Read(t, o.s, 1)
  <2>1. sx.faults \in Nat
    BY <1>3
  <2>2. CASE t.tx = fsm[1] /\ t.s = o.s
    BY <1>5, <1>7, <2>2 DEF TxRead
  <2>3. CASE t.s = Fault1(o.s)
    <3>1. Near(t.s) /\ t.s.faults > sx.faults
      <4> HIDE DEF Near
      <4> QED
        BY <1>4, <1>5, <2>3
    <3> QED
      BY <2>1, <3>1 DEF TxRead
  <2> QED
    BY <1>7, <2>2, <2>3
<1> QED
  BY <1>2, <1>6, <1>7

LEMMA StartScanKeeps ==
  ASSUME ListenInv, StartScan
  PROVE  ListenInv'
<1>1. /\ UNCHANGED <<ear, fsm, talk, shown>> /\ talk.pc = "idle" /\ probe.pc = "pace"
      /\ SxOK(sx) /\ ProbeTypes /\ ShownIsMeasured /\ ~probe.over
  BY DEF StartScan, ListenInv, Talking
<1>2. PICK t \in TxStatusOf(sx) :
        IF Busy(t.tx) THEN sx' = t.s /\ UNCHANGED probe
        ELSE \E o \in lgw_spectral_scan_start(t.s, probe.freq) :
               /\ sx' = o.s
               /\ probe' = [probe EXCEPT !.pc = IF o.ok THEN "wait" ELSE "pace", !.scanStatus = "UNKNOWN",
                              !.over = t.s.faults = sx.faults /\ \E r \in {0, 1} : Busy(fsm[r])]
  BY Zenon DEF StartScan
<1>3. TxRead(t)
  BY <1>1, <1>2, StatusRead
<1>4. ShownIsMeasured'
  BY <1>1 DEF ShownIsMeasured
<1>5. CASE Busy(t.tx)
  <2>1. SxOK(sx') /\ UNCHANGED probe
    BY <1>2, <1>3, <1>5 DEF TxRead
  <2>2. ProbeTypes' /\ Probing' /\ ~probe'.over
    BY <1>1, <2>1 DEF ProbeTypes, Probing
  <2> QED
    BY <1>1, <1>4, <2>1, <2>2, ScanningKeeps
<1>6. CASE ~Busy(t.tx)
  <2>1. PICK over \in BOOLEAN : over = (t.s.faults = sx.faults /\ \E r \in {0, 1} : Busy(fsm[r]))
    BY Zenon
  <2>2. PICK o \in lgw_spectral_scan_start(t.s, probe.freq) :
          /\ sx' = o.s
          /\ probe' = [probe EXCEPT !.pc = IF o.ok THEN "wait" ELSE "pace", !.scanStatus = "UNKNOWN", !.over = over]
    BY <1>2, <1>6, <2>1, Zenon
  <2>3. ~over
    BY <1>3, <1>6, <2>1 DEF TxRead
  <2>4. SxOK(t.s) /\ probe.freq \in Nat
    BY <1>1, <1>3 DEF TxRead, ProbeTypes
  <2>5. o.ok \in BOOLEAN /\ SxOK(o.s) /\ (o.ok => o.s.seen = {probe.freq})
    BY <2>2, <2>4, ScanStarts
  <2>6. PICK pc : pc = IF o.ok THEN "wait" ELSE "pace"
    OBVIOUS
  <2>7. probe' = [probe EXCEPT !.pc = pc, !.scanStatus = "UNKNOWN", !.over = over] /\ pc \in {"wait", "pace"}
    BY <2>2, <2>6
  <2>8. /\ ProbeTypes' /\ probe'.pc = pc /\ probe'.scanStatus = "UNKNOWN" /\ probe'.freq = probe.freq
        /\ ~probe'.over
    BY <1>1, <2>3, <2>7 DEF ProbeTypes
  <2>9. Probing'
    BY <2>2, <2>5, <2>6, <2>7, <2>8 DEF Probing
  <2> QED
    BY <1>1, <1>4, <2>2, <2>5, <2>8, <2>9, ScanningKeeps
<1> QED
  BY <1>5, <1>6

\* A register is read, or one fault more is counted.
LEMMA ReadOnce ==
  ASSUME SxOK(sx), NEW o \in sx1261_reg_r(sx)
  PROVE  o.ok \in BOOLEAN /\ (o.s = sx \/ (~o.ok /\ o.s = Fault1(sx)))
<1>1. \/ o = [s |-> sx, ok |-> TRUE, val |-> <<0, 0>>]
      \/ o = [s |-> Fault1(sx), ok |-> FALSE, val |-> <<0, 0>>]
  BY DEF SxOK, sx1261_reg_r, Succeeds, Fails, Result
<1>2. CASE o = [s |-> sx, ok |-> TRUE, val |-> <<0, 0>>]
  BY <1>2
<1>3. CASE o = [s |-> Fault1(sx), ok |-> FALSE, val |-> <<0, 0>>]
  <2>1. o.ok = FALSE /\ o.s = Fault1(sx)
    BY <1>3
  <2> QED
    BY <2>1, Zenon
<1> QED
  BY <1>1, <1>2, <1>3

LEMMA PollKeeps ==
  ASSUME ListenInv, PollScan
  PROVE  ListenInv'
<1>1. /\ UNCHANGED <<ear, fsm, talk, shown>> /\ probe.pc = "wait"
      /\ SxOK(sx) /\ ProbeTypes /\ Probing /\ ShownIsMeasured /\ ~probe.over
  BY DEF PollScan, ListenInv
<1>2. PICK o \in sx1261_reg_r(sx) :
        /\ sx' = o.s
        /\ probe' = [probe EXCEPT !.scanStatus = IF o.ok THEN o.s.scan ELSE @,
                                  !.pc = IF ~o.ok \/ o.s.scan \in {"COMPLETED", "ABORTED"} THEN "waited" ELSE @]
  BY Zenon DEF PollScan, sx1261_spectral_scan_status
<1>3. o.ok \in BOOLEAN /\ (o.s = sx \/ (~o.ok /\ o.s = Fault1(sx)))
  BY <1>1, <1>2, ReadOnce
<1>4. UNCHANGED sx \/ sx' = Fault1(sx)
  BY <1>2, <1>3
<1>5. /\ SxOK(sx') /\ Harmless(sx, sx') /\ sx'.rx = sx.rx /\ sx'.lbt = sx.lbt /\ sx'.freq = sx.freq
      /\ sx'.scan = sx.scan /\ sx'.seen = sx.seen
  BY <1>1, <1>4, SxStays
<1>6. PICK read, pc : /\ read = (IF o.ok THEN sx.scan ELSE probe.scanStatus)
                        /\ pc = IF ~o.ok \/ sx.scan \in {"COMPLETED", "ABORTED"} THEN "waited" ELSE "wait"
  OBVIOUS
<1>7. probe' = [probe EXCEPT !.scanStatus = read, !.pc = pc]
  BY <1>1, <1>2, <1>5, <1>6 DEF ProbeTypes
<1>8. sx.scan \in {"NONE", "ON_GOING", "COMPLETED", "ABORTED"}
  BY <1>1 DEF SxOK, SxStates
<1>9. pc \in {"wait", "waited"} /\ read \in {"UNKNOWN", "NONE", "ON_GOING", "COMPLETED", "ABORTED"}
  BY <1>1, <1>6, <1>8 DEF ProbeTypes
<1>10. ProbeTypes' /\ probe'.pc = pc /\ probe'.scanStatus = read /\ probe'.freq = probe.freq /\ ~probe'.over
  BY <1>1, <1>7, <1>9 DEF ProbeTypes
<1>11. Probing'
  BY <1>1, <1>5, <1>6, <1>10 DEF Probing
<1>12. ShownIsMeasured'
  BY <1>1 DEF ShownIsMeasured
<1> QED
  BY <1>1, <1>5, <1>10, <1>11, <1>12, ScanningKeeps

LEMMA ScanTimeoutKeeps ==
  ASSUME ListenInv, ScanTimeout
  PROVE  ListenInv'
<1>1. /\ UNCHANGED <<ear, fsm, talk, shown>> /\ probe.pc = "wait" /\ sx' = Fault1(sx)
      /\ probe' = [probe EXCEPT !.pc = "waited"]
      /\ SxOK(sx) /\ ProbeTypes /\ Probing /\ ShownIsMeasured /\ ~probe.over
  BY DEF ScanTimeout, ListenInv
<1>2. /\ SxOK(sx') /\ sx'.rx = sx.rx /\ sx'.lbt = sx.lbt /\ sx'.freq = sx.freq
  BY <1>1, SxStays
<1>3. ProbeTypes' /\ probe'.pc = "waited" /\ probe'.scanStatus = probe.scanStatus /\ ~probe'.over
  BY <1>1 DEF ProbeTypes
<1>4. Probing' /\ ShownIsMeasured'
  BY <1>1, <1>3 DEF Probing, ShownIsMeasured
<1> QED
  BY <1>1, <1>2, <1>3, <1>4, ScanningKeeps

LEMMA EndScanKeeps ==
  ASSUME ListenInv, EndScan
  PROVE  ListenInv'
<1>1. /\ UNCHANGED <<ear, fsm, talk>> /\ probe.pc = "waited"
      /\ SxOK(sx) /\ ProbeTypes /\ Probing /\ ShownIsMeasured /\ ~probe.over
  BY DEF EndScan, ListenInv
<1>2. CASE probe.scanStatus # "COMPLETED"
  <2>1. probe' = [probe EXCEPT !.pc = "pace"] /\ UNCHANGED <<sx, shown>>
    BY <1>2 DEF EndScan
  <2>2. ProbeTypes' /\ probe'.pc = "pace" /\ ~probe'.over
    BY <1>1, <2>1 DEF ProbeTypes
  <2>3. Probing' /\ ShownIsMeasured' /\ SxOK(sx')
    BY <1>1, <2>1, <2>2 DEF Probing, ShownIsMeasured
  <2> QED
    BY <1>1, <2>1, <2>2, <2>3, ScanningKeeps
<1>3. CASE probe.scanStatus = "COMPLETED"
  <2>1. PICK o \in sx1261_reg_r(sx) :
          /\ sx' = o.s
          /\ shown' = IF o.ok THEN [freq |-> probe.freq, seen |-> o.s.seen] ELSE shown
          /\ probe' = [probe EXCEPT !.pc = "pace", !.freq = IF o.ok THEN NextFreq(@) ELSE @]
    BY <1>3, Zenon DEF EndScan, sx1261_spectral_scan_get_results
  <2>2. o.ok \in BOOLEAN /\ (o.s = sx \/ (~o.ok /\ o.s = Fault1(sx)))
    BY <1>1, <2>1, ReadOnce
  <2>3. UNCHANGED sx \/ sx' = Fault1(sx)
    BY <2>1, <2>2
  <2>4. /\ SxOK(sx') /\ sx'.rx = sx.rx /\ sx'.lbt = sx.lbt /\ sx'.freq = sx.freq /\ sx'.seen = sx.seen
    BY <1>1, <2>3, SxStays
  <2>5. sx.seen = {probe.freq}
    BY <1>1, <1>3 DEF Probing
  <2>6. ShownIsMeasured'
    BY <1>1, <2>1, <2>4, <2>5 DEF ShownIsMeasured
  <2>7. PICK f : f = IF o.ok THEN NextFreq(probe.freq) ELSE probe.freq
    OBVIOUS
  <2>8. f \in Nat
    BY <1>1, <2>7, ListenAssumption DEF ProbeTypes, NextFreq
  <2>9. probe' = [probe EXCEPT !.pc = "pace", !.freq = f]
    BY <1>1, <2>1, <2>7 DEF ProbeTypes
  <2>10. ProbeTypes' /\ probe'.pc = "pace" /\ ~probe'.over
    BY <1>1, <2>8, <2>9 DEF ProbeTypes
  <2>11. Probing'
    BY <2>10 DEF Probing
  <2> QED
    BY <1>1, <2>4, <2>6, <2>10, <2>11, ScanningKeeps
<1> QED
  BY <1>2, <1>3

\* The invariant of the two threads that share the SX1261.
THEOREM ListenInvariant == ListenSpec => []ListenInv
<1>1. ListenInv /\ [ListenNext]_listenVars => ListenInv'
  <2>1. SUFFICES ASSUME ListenInv, [ListenNext]_listenVars PROVE ListenInv'
    OBVIOUS
  <2>2. CASE UNCHANGED listenVars
    BY <2>1, <2>2 DEF listenVars, ListenInv, TalkTypes, EarTypes, ProbeTypes, Verdict, Probing, ShownIsMeasured
  <2>3. CASE \E p \in Downlinks : JitSend(p)
    BY <2>1, <2>3, JitSendKeeps
  <2>4. CASE sx1302_send_step \/ GiveUp
    BY <2>1, <2>4, SendKeeps, GiveUpKeeps
  <2>5. CASE lgw_lbt_tx_status \/ VerdictTimeout \/ Acknowledge \/ LbtStop
    BY <2>1, <2>5, TxStatusKeeps, TimeoutKeeps, AcknowledgeKeeps, StopKeeps
  <2>6. CASE \E r \in {0, 1} : AgcDecides(r) \/ Emitted(r)
    BY <2>1, <2>6, DecideKeeps, EmittedKeeps
  <2>7. CASE AgcHandshake \/ ScanCompletes
    BY <2>1, <2>7, HandshakeKeeps, CompletesKeeps
  <2>8. CASE StartScan \/ PollScan \/ ScanTimeout \/ EndScan
    BY <2>1, <2>8, StartScanKeeps, PollKeeps, ScanTimeoutKeeps, EndScanKeeps
  <2> QED
    BY <2>1, <2>2, <2>3, <2>4, <2>5, <2>6, <2>7, <2>8 DEF ListenNext
<1> QED
  BY <1>1, ListenInitInv, PTL DEF ListenSpec

\* What lgw_send answers is what the AGC decided on this very packet, while the SX1261
\* was listening on its frequency, unless a wait for a decision failed before.
THEOREM ListenVerdictIsOwn == ListenSpec => []VerdictIsOwn
<1>1. ListenInv => VerdictIsOwn
  BY DEF ListenInv, Verdict, VerdictIsOwn
<1> QED
  BY <1>1, ListenInvariant, PTL

\* A spectrum is shown for the one frequency it was measured on, and no scan starts
\* while a packet is scheduled or emitted and the chains can be read.
THEOREM ListenScanHarmless == ListenSpec => []ScanHarmless
<1>1. ListenInv => ScanHarmless
  BY DEF ListenInv, ScanHarmless, ScanSparesDownlink
<1> QED
  BY <1>1, ListenInvariant, PTL

-----------------------------------------------------------------------------
(* Control of the concentrator: the state of the HAL, and what an access    *)
(* leaves alone                                                            *)

TxStates == [fsm : {"free", "scheduled", "emitting"}, trig : SUBSET {"imm", "delayed", "gps"}]
BitStates == [Bits -> {0, 1}]
BlkStates == [Blocks -> Seq(Int)]
TxsStates == [RfChains -> TxStates]
Sent == SUBSET [chain : RfChains, gain : Nat, offset : Nat]
\* The registers of the transmitter that a packet is written to
TxRegs ==
  {"type", "source", "offsets", "power", "gain", "freq", "agc_bw", "dev", "agc_dev", "test_freq", "bw",
   "preamble", "sf", "lowpass", "cr", "modem", "options", "sync", "fine_sync", "size", "ppm", "delay",
   "fsk_mode", "fsk_sync", "fsk_rate", "fsk_preamble", "fsk_size", "open", "payload", "close",
   "size_byte", "time"}

Hals ==
  [bit : BitStates, blk : BlkStates, tx : TxsStates, conf : BoardConfs, started : BOOLEAN,
   ready : BOOLEAN, ts : Int, ad : Int, faults : Nat, clkFault : BOOLEAN, pllFault : BOOLEAN,
   lost : BOOLEAN, sent : Sent, fresh : SUBSET TxRegs, whole : BOOLEAN]

\* The same configuration and the same packet
Kept(s, t) ==
  /\ t \in Hals /\ t.conf = s.conf /\ t.pllFault = s.pllFault
  /\ t.sent = s.sent /\ t.whole = s.whole

\* And nothing about the clock and the radios' pins
Quiet(s, t) == Kept(s, t) /\ t.bit = s.bit /\ t.clkFault = s.clkFault /\ t.lost = s.lost

\* And nothing in the chip
Untouched(s, t) ==
  /\ Quiet(s, t) /\ t.blk = s.blk /\ t.tx = s.tx
  /\ t.started = s.started /\ t.ready = s.ready

LEMMA KeptTwice ==
  ASSUME NEW s, NEW t, NEW u
  PROVE  /\ Kept(s, t) /\ Kept(t, u) => Kept(s, u)
         /\ Quiet(s, t) /\ Quiet(t, u) => Quiet(s, u)
         /\ Untouched(s, t) /\ Untouched(t, u) => Untouched(s, u)
  BY DEF Kept, Quiet, Untouched

LEMMA KeptItself ==
  ASSUME NEW s \in Hals
  PROVE  Kept(s, s) /\ Quiet(s, s) /\ Untouched(s, s)
  BY DEF Kept, Quiet, Untouched

Outcome(o) == o = [s |-> o.s, ok |-> o.ok, val |-> o.val] /\ o.ok \in BOOLEAN

\* p follows o, or o failed; both were called, and the errors are added up.
Follows(o, p, outs) == IF o.ok THEN p \in outs ELSE p = o
Both(o, p, q) == q = [p EXCEPT !.ok = @ /\ o.ok]

LEMMA BothIs ==
  ASSUME NEW o, NEW p, NEW q, Outcome(o), Outcome(p), Both(o, p, q)
  PROVE  Outcome(q) /\ q.s = p.s /\ (q.ok <=> o.ok /\ p.ok)
<1>1. PICK x : x = (p.ok /\ o.ok)
  OBVIOUS
<1>2. x \in BOOLEAN /\ (x <=> o.ok /\ p.ok)
  BY <1>1, Zenon DEF Outcome
<1>3. q = [p EXCEPT !.ok = x]
  BY <1>1 DEF Both
<1>4. q = [s |-> p.s, ok |-> x, val |-> p.val]
  BY <1>3 DEF Outcome
<1> QED
  BY <1>2, <1>4 DEF Outcome

\* The outcomes of one call
LEMMA OutcomeIs ==
  ASSUME NEW s
  PROVE  /\ \A o \in Succeeds(s) : o.s = s /\ o.ok = TRUE /\ Outcome(o)
         /\ \A o \in Fails(s) : o.s = s /\ o.ok = FALSE /\ Outcome(o)
  BY DEF Succeeds, Fails, Result, Outcome

LEMMA FailingIs ==
  ASSUME NEW s \in Hals
  PROVE  Untouched(s, Failing(s))
  BY DEF Untouched, Quiet, Kept, Hals, Failing

LEMMA AccessIs ==
  ASSUME NEW s \in Hals, NEW o \in Access(s)
  PROVE  Outcome(o) /\ Untouched(s, o.s)
<1>1. o \in Succeeds(s) \/ o \in Fails(Failing(s))
  BY DEF Access
<1> QED
  BY <1>1, FailingIs, KeptItself, OutcomeIs

\* A block is written, or some of its registers are; nothing else changes.
LEMMA WriteBlockIs ==
  ASSUME NEW s \in Hals, NEW b \in Blocks, NEW v \in Seq(Int), NEW o \in WriteBlock(s, b, v)
  PROVE  /\ Outcome(o) /\ Quiet(s, o.s)
         /\ o.ok => o.s.blk = [s.blk EXCEPT ![b] = v]
<1>0. Partial \in Seq(Int)
  BY DEF Partial
<1>1. [s.blk EXCEPT ![b] = v] \in BlkStates /\ [s.blk EXCEPT ![b] = Partial] \in BlkStates
  BY <1>0 DEF Hals, BlkStates
<1>2. CASE o \in Succeeds([s EXCEPT !.blk[b] = v])
  <2>1. Outcome(o) /\ o.ok = TRUE /\ o.s = [s EXCEPT !.blk = [s.blk EXCEPT ![b] = v]]
    BY <1>2, OutcomeIs
  <2> QED
    BY <1>1, <2>1 DEF Quiet, Kept, Hals
<1>3. CASE o \in Fails([Failing(s) EXCEPT !.blk[b] = Partial])
  <2>1. Outcome(o) /\ o.ok = FALSE /\ o.s = [Failing(s) EXCEPT !.blk = [Failing(s).blk EXCEPT ![b] = Partial]]
    BY <1>3, OutcomeIs
  <2>2. Untouched(s, Failing(s))
    BY FailingIs
  <2>3. PICK t : t = Failing(s)
    OBVIOUS
  <2>4. t.blk = s.blk /\ Quiet(s, t) /\ t \in Hals
    BY <2>2, <2>3 DEF Untouched, Quiet, Kept
  <2>5. o.s = [t EXCEPT !.blk = [s.blk EXCEPT ![b] = Partial]]
    BY <2>1, <2>3, <2>4
  <2>6. Quiet(t, o.s)
    BY <1>1, <2>4, <2>5 DEF Quiet, Kept, Hals
  <2> QED
    BY <2>1, <2>4, <2>6, KeptTwice
<1> QED
  BY <1>2, <1>3 DEF WriteBlock

LEMMA BlockWritten ==
  ASSUME NEW s \in Hals, NEW b \in Blocks, NEW v \in Seq(Int), NEW o \in WriteBlock(s, b, v)
  PROVE  o.s.blk = [s.blk EXCEPT ![b] = v] \/ o.s.blk = [s.blk EXCEPT ![b] = Partial]
<1>1. CASE o \in Succeeds([s EXCEPT !.blk[b] = v])
  <2>1. o.s = [s EXCEPT !.blk = [s.blk EXCEPT ![b] = v]]
    BY <1>1, OutcomeIs
  <2> QED
    BY <2>1 DEF Hals
<1>2. CASE o \in Fails([Failing(s) EXCEPT !.blk[b] = Partial])
  <2>1. o.s = [Failing(s) EXCEPT !.blk = [Failing(s).blk EXCEPT ![b] = Partial]]
    BY <1>2, OutcomeIs
  <2>2. Failing(s) \in Hals /\ Failing(s).blk = s.blk
    BY FailingIs DEF Untouched, Quiet, Kept
  <2> QED
    BY <2>1, <2>2 DEF Hals
<1> QED
  BY <1>1, <1>2 DEF WriteBlock

\* A write to the clock or a reset pin is safe when the SPI clocks the chip afterwards,
\* or a radio that is not held in reset does.
Clocks == {"clk", "selB", "rst0", "rst1"}
Stuck(s) == s.bit["clk"] = 1 /\ s.conf.enable[s.bit["selB"]] /\ HeldInReset(s, s.bit["selB"])

Wrote(s, t, b, v) ==
  /\ t.bit = [s.bit EXCEPT ![b] = v] /\ t.clkFault = s.clkFault
  /\ t.lost <=> s.lost \/ (b \in Clocks /\ Stuck(t))
Missed(s, t, b) ==
  /\ t.bit = s.bit /\ t.lost = s.lost
  /\ t.clkFault <=> s.clkFault \/ b = "clk"

\* A bit is written or the access fails; that a clocked radio is held in reset is recorded.
LEMMA WriteBitIs ==
  ASSUME NEW s \in Hals, NEW b \in Bits, NEW v \in {0, 1}, NEW o \in WriteBit(s, b, v)
  PROVE  /\ Outcome(o) /\ Kept(s, o.s) /\ o.s.blk = s.blk
         /\ IF o.ok THEN Wrote(s, o.s, b, v) ELSE Missed(s, o.s, b)
<1>0. [s.bit EXCEPT ![b] = v] \in BitStates
  BY DEF Hals, BitStates
<1>1. CASE o \in Succeeds(Clocked([s EXCEPT !.bit[b] = v], b))
  <2>0. PICK t : t = [s EXCEPT !.bit = [s.bit EXCEPT ![b] = v]]
    OBVIOUS
  <2>1. /\ t \in Hals /\ Kept(s, t) /\ t.blk = s.blk /\ t.bit = [s.bit EXCEPT ![b] = v]
        /\ t.clkFault = s.clkFault /\ t.lost = s.lost
    BY <1>0, <2>0 DEF Kept, Hals
  <2>2. PICK x \in BOOLEAN : x <=> (b \in Clocks /\ Stuck(t))
    <3>1. CASE b \in Clocks /\ Stuck(t)
      BY <3>1
    <3>2. CASE ~(b \in Clocks /\ Stuck(t))
      BY <3>2
    <3> QED
      BY <3>1, <3>2
  <2>3. Outcome(o) /\ o.ok = TRUE /\ o.s = Clocked(t, b)
    BY <1>1, <2>0, OutcomeIs
  <2>4. o.s = [t EXCEPT !.lost = t.lost \/ x]
    BY <2>2, <2>3, Zenon DEF Clocked, Clocks, Stuck
  <2>5. /\ Kept(t, o.s) /\ o.s.bit = t.bit /\ o.s.clkFault = t.clkFault /\ o.s.lost = (t.lost \/ x)
        /\ o.s.blk = t.blk /\ o.s.conf = t.conf
    BY <2>1, <2>2, <2>4 DEF Hals, Kept
  <2>6. Stuck(o.s) <=> Stuck(t)
    BY <2>5 DEF Stuck, HeldInReset
  <2> QED
    BY <2>1, <2>2, <2>3, <2>5, <2>6, KeptTwice DEF Wrote
<1>2. CASE o \in Fails([Failing(s) EXCEPT !.clkFault = @ \/ b = "clk"])
  <2>1. Outcome(o) /\ o.ok = FALSE /\ o.s = [Failing(s) EXCEPT !.clkFault = Failing(s).clkFault \/ b = "clk"]
    BY <1>2, OutcomeIs
  <2>2. Untouched(s, Failing(s))
    BY FailingIs
  <2>3. PICK t, y : t = Failing(s) /\ y = (Failing(s).clkFault \/ b = "clk")
    OBVIOUS
  <2>4. /\ t.blk = s.blk /\ Kept(s, t) /\ t \in Hals /\ t.bit = s.bit /\ t.lost = s.lost
        /\ t.clkFault = s.clkFault /\ s.clkFault \in BOOLEAN
    BY <2>2, <2>3 DEF Untouched, Quiet, Kept, Hals
  <2>5. o.s = [t EXCEPT !.clkFault = y] /\ y \in BOOLEAN /\ (y <=> s.clkFault \/ b = "clk")
    BY <2>1, <2>3, <2>4, Zenon
  <2>6. /\ Kept(t, o.s) /\ o.s.blk = t.blk /\ o.s.bit = t.bit /\ o.s.lost = t.lost
        /\ o.s.clkFault = y
    BY <2>4, <2>5 DEF Kept, Hals
  <2> QED
    BY <2>1, <2>4, <2>5, <2>6, KeptTwice DEF Missed
<1> QED
  BY <1>1, <1>2 DEF WriteBit

\* Bits that have nothing to do with the clock
LEMMA WriteOtherBit ==
  ASSUME NEW s \in Hals, NEW b \in Bits \ Clocks, NEW v \in {0, 1}, NEW o \in WriteBit(s, b, v)
  PROVE  /\ Outcome(o) /\ Kept(s, o.s) /\ o.s.blk = s.blk
         /\ o.s.clkFault = s.clkFault /\ o.s.lost = s.lost
         /\ \A c \in Bits \ {b} : o.s.bit[c] = s.bit[c]
         /\ o.ok => o.s.bit[b] = v
<1>1. /\ Outcome(o) /\ Kept(s, o.s) /\ o.s.blk = s.blk
      /\ IF o.ok THEN Wrote(s, o.s, b, v) ELSE Missed(s, o.s, b)
  BY WriteBitIs
<1>2. /\ s.bit \in [Bits -> {0, 1}] /\ s.lost \in BOOLEAN /\ s.clkFault \in BOOLEAN
      /\ o.s.lost \in BOOLEAN /\ o.s.clkFault \in BOOLEAN
  BY <1>1 DEF Hals, BitStates, Kept
<1>3. b \notin Clocks /\ b # "clk"
  BY DEF Clocks
<1>4. CASE o.ok
  <2>1. /\ o.s.bit = [s.bit EXCEPT ![b] = v] /\ o.s.clkFault = s.clkFault /\ (o.s.lost <=> s.lost)
    BY <1>1, <1>3, <1>4, Zenon DEF Wrote
  <2> QED
    BY <1>1, <1>2, <1>4, <2>1
<1>5. CASE ~o.ok
  <2>1. /\ o.s.bit = s.bit /\ o.s.lost = s.lost /\ (o.s.clkFault <=> s.clkFault)
    BY <1>1, <1>3, <1>5, Zenon DEF Missed
  <2> QED
    BY <1>1, <1>2, <1>5, <2>1
<1> QED
  BY <1>4, <1>5

-----------------------------------------------------------------------------
(* The radios                                                              *)

\* Writes to the reset pin of radio r
PinMoved(s, t, r) ==
  /\ Kept(s, t) /\ t.blk = s.blk /\ t.clkFault = s.clkFault
  /\ \A c \in Bits \ {Rst(r)} : t.bit[c] = s.bit[c]
  /\ s.bit["clk"] = 0 => t.lost = s.lost

\* The pins of the two radios and the bits of the clock are different bits.
LEMMA PinNames ==
  ASSUME NEW r \in RfChains
  PROVE  /\ Rst(r) \in Bits \cap Clocks /\ Rst(r) # "clk" /\ Rst(r) # "selB" /\ "clk" \in Bits
         /\ Mode(r) \in Bits \ Clocks /\ RadioBlock(r) \in Blocks /\ "selB" \in Bits
         /\ "fe" \in Bits \ Clocks /\ "host" \in Bits \ Clocks /\ "gpio" \in Bits \ Clocks
         /\ "div" \in Bits \ Clocks
         /\ \A q \in RfChains : q # r => Rst(q) # Rst(r)
  BY DEF RfChains, Rst, Mode, RadioBlock, Bits, Clocks, Blocks

\* Moving the reset pin of a radio is recorded only while the chip runs on a radio.
LEMMA WritePin ==
  ASSUME NEW s \in Hals, NEW r \in RfChains, NEW v \in {0, 1}, NEW o \in WriteBit(s, Rst(r), v)
  PROVE  Outcome(o) /\ PinMoved(s, o.s, r) /\ (o.ok => o.s.bit[Rst(r)] = v)
<1>1. PICK b \in Bits : b = Rst(r) /\ b # "clk"
  BY PinNames
<1>2. /\ Outcome(o) /\ Kept(s, o.s) /\ o.s.blk = s.blk
      /\ IF o.ok THEN Wrote(s, o.s, b, v) ELSE Missed(s, o.s, b)
  BY <1>1, WriteBitIs
<1>3. /\ s.bit \in [Bits -> {0, 1}] /\ s.clkFault \in BOOLEAN /\ o.s.clkFault \in BOOLEAN
      /\ s.lost \in BOOLEAN /\ o.s.lost \in BOOLEAN /\ "clk" \in Bits
  BY <1>2, PinNames DEF Hals, BitStates, Kept
<1>4. CASE o.ok
  <2>1. o.s.bit = [s.bit EXCEPT ![b] = v] /\ o.s.clkFault = s.clkFault
    BY <1>2, <1>4 DEF Wrote
  <2>2. (\A c \in Bits \ {b} : o.s.bit[c] = s.bit[c]) /\ o.s.bit[b] = v
    BY <1>3, <2>1
  <2>3. s.bit["clk"] = 0 => ~Stuck(o.s)
    BY <1>1, <1>3, <2>2 DEF Stuck
  <2>4. s.bit["clk"] = 0 => o.s.lost = s.lost
    BY <1>2, <1>3, <1>4, <2>3 DEF Wrote
  <2> QED
    BY <1>1, <1>2, <2>1, <2>2, <2>4 DEF PinMoved
<1>5. CASE ~o.ok
  <2>1. o.s.bit = s.bit /\ o.s.lost = s.lost /\ (o.s.clkFault <=> s.clkFault)
    BY <1>1, <1>2, <1>5, Zenon DEF Missed
  <2>2. o.s.clkFault = s.clkFault
    BY <1>3, <2>1
  <2> QED
    BY <1>1, <1>2, <1>5, <2>1, <2>2 DEF PinMoved
<1> QED
  BY <1>4, <1>5

LEMMA PinMovedTwice ==
  ASSUME NEW s, NEW t, NEW u, NEW r \in RfChains, PinMoved(s, t, r), PinMoved(t, u, r)
  PROVE  PinMoved(s, u, r)
<1>1. t.bit["clk"] = s.bit["clk"]
  BY PinNames DEF PinMoved
<1> QED
  BY <1>1, KeptTwice DEF PinMoved

\* After the pulse the radio is out of reset, when every write was made.
LEMMA ResetPulseIs ==
  ASSUME NEW s \in Hals, NEW r \in RfChains, NEW o \in ResetPulse(s, r)
  PROVE  Outcome(o) /\ PinMoved(s, o.s, r) /\ (o.ok => ~HeldInReset(o.s, r))
<1> DEFINE pulsed == Also(WriteBit(s, Rst(r), 1), LAMBDA t : WriteBit(t, Rst(r), 0))
<1>1. ASSUME NEW q \in pulsed
      PROVE  Outcome(q) /\ PinMoved(s, q.s, r) /\ (q.ok => q.s.bit[Rst(r)] = 0)
  <2>1. PICK a \in WriteBit(s, Rst(r), 1) : \E b \in WriteBit(a.s, Rst(r), 0) : Both(a, b, q)
    BY <1>1 DEF Also, Both
  <2>2. PICK b \in WriteBit(a.s, Rst(r), 0) : Both(a, b, q)
    BY <2>1
  <2>3. Outcome(a) /\ PinMoved(s, a.s, r) /\ a.s \in Hals
    BY WritePin DEF PinMoved, Kept
  <2>4. Outcome(b) /\ PinMoved(a.s, b.s, r) /\ (b.ok => b.s.bit[Rst(r)] = 0)
    BY <2>3, WritePin
  <2>5. Outcome(q) /\ q.s = b.s /\ (q.ok <=> a.ok /\ b.ok)
    BY <2>2, <2>3, <2>4, BothIs
  <2> QED
    BY <2>3, <2>4, <2>5, PinMovedTwice
<1>2. CASE s.conf.sx1250
  <2>1. o \in Also(pulsed, LAMBDA t : WriteBit(t, Rst(r), 1))
    BY <1>2 DEF ResetPulse
  <2>2. PICK q \in pulsed : \E c \in WriteBit(q.s, Rst(r), 1) : Both(q, c, o)
    BY <2>1 DEF Also, Both
  <2>3. PICK c \in WriteBit(q.s, Rst(r), 1) : Both(q, c, o)
    BY <2>2
  <2>4. Outcome(q) /\ PinMoved(s, q.s, r) /\ q.s \in Hals
    BY <1>1 DEF PinMoved, Kept
  <2>5. Outcome(c) /\ PinMoved(q.s, c.s, r) /\ (c.ok => c.s.bit[Rst(r)] = 1)
    BY <2>4, WritePin
  <2>6. Outcome(o) /\ o.s = c.s /\ (o.ok <=> q.ok /\ c.ok)
    BY <2>3, <2>4, <2>5, BothIs
  <2>7. PinMoved(s, o.s, r) /\ (o.ok => o.s.bit[Rst(r)] = 1)
    BY <2>4, <2>5, <2>6, PinMovedTwice
  <2>8. o.s.conf.sx1250
    BY <1>2, <2>7 DEF PinMoved, Kept
  <2> QED
    BY <2>6, <2>7, <2>8 DEF HeldInReset
<1>3. CASE ~s.conf.sx1250
  <2>1. o \in pulsed
    BY <1>3 DEF ResetPulse
  <2>2. Outcome(o) /\ PinMoved(s, o.s, r) /\ (o.ok => o.s.bit[Rst(r)] = 0)
    BY <1>1, <2>1
  <2>3. ~o.s.conf.sx1250
    BY <1>3, <2>2 DEF PinMoved, Kept
  <2> QED
    BY <2>2, <2>3 DEF HeldInReset
<1> QED
  BY <1>2, <1>3

\* After a reset, unless the write to the clock failed, the SPI clocks the chip.
Reset1(s, t, r) ==
  /\ Kept(s, t) /\ t.blk = s.blk /\ (s.clkFault => t.clkFault)
  /\ \A c \in Bits \ {"clk", Rst(r)} : t.bit[c] = s.bit[c]
  /\ ~t.clkFault => t.lost = s.lost /\ t.bit["clk"] = 0

\* A radio is reset while the chip is on the clock of the SPI, or the write that
\* switches the clock failed: nothing is lost unnoticed.
LEMMA RadioResetIs ==
  ASSUME NEW s \in Hals, NEW r \in RfChains, NEW o \in sx1302_radio_reset(s, r)
  PROVE  Outcome(o) /\ Reset1(s, o.s, r) /\ (o.ok => ~HeldInReset(o.s, r))
<1>1. PICK a \in WriteBit(s, "clk", 0) : \E b \in ResetPulse(a.s, r) : Both(a, b, o)
  BY DEF sx1302_radio_reset, Also, Both
<1>2. PICK b \in ResetPulse(a.s, r) : Both(a, b, o)
  BY <1>1
<1>3. "clk" \in Bits
  BY DEF Bits
<1>4. /\ Outcome(a) /\ Kept(s, a.s) /\ a.s.blk = s.blk
      /\ IF a.ok THEN Wrote(s, a.s, "clk", 0) ELSE Missed(s, a.s, "clk")
  BY <1>3, WriteBitIs
<1>5. /\ s.bit \in [Bits -> {0, 1}] /\ s.clkFault \in BOOLEAN /\ a.s.clkFault \in BOOLEAN
      /\ s.lost \in BOOLEAN /\ a.s.lost \in BOOLEAN /\ a.s \in Hals
  BY <1>4 DEF Hals, BitStates, Kept
<1>6. \A c \in Bits \ {"clk"} : a.s.bit[c] = s.bit[c]
  BY <1>4, <1>5 DEF Wrote, Missed
<1>7. ~a.s.clkFault => a.s.bit["clk"] = 0 /\ a.s.lost = s.lost
  <2>1. SUFFICES ASSUME ~a.s.clkFault PROVE a.s.bit["clk"] = 0 /\ a.s.lost = s.lost
    OBVIOUS
  <2>2. a.ok
    BY <1>4, <2>1 DEF Missed
  <2>3. a.s.bit["clk"] = 0
    BY <1>3, <1>4, <1>5, <2>2 DEF Wrote
  <2>4. ~Stuck(a.s)
    BY <2>3 DEF Stuck
  <2> QED
    BY <1>4, <1>5, <2>2, <2>3, <2>4 DEF Wrote
<1>8. s.clkFault => a.s.clkFault
  BY <1>4 DEF Wrote, Missed
<1>9. Outcome(b) /\ PinMoved(a.s, b.s, r) /\ (b.ok => ~HeldInReset(b.s, r))
  BY <1>5, ResetPulseIs
<1>10. Outcome(o) /\ o.s = b.s /\ (o.ok <=> a.ok /\ b.ok)
  BY <1>2, <1>4, <1>9, BothIs
<1>11. /\ Kept(s, b.s) /\ b.s.blk = s.blk /\ b.s.clkFault = a.s.clkFault
       /\ b.s.bit["clk"] = a.s.bit["clk"] /\ (a.s.bit["clk"] = 0 => b.s.lost = a.s.lost)
       /\ \A c \in Bits \ {"clk", Rst(r)} : b.s.bit[c] = s.bit[c]
  BY <1>3, <1>4, <1>6, <1>9, PinNames, KeptTwice DEF PinMoved
<1>12. Reset1(s, b.s, r)
  BY <1>7, <1>8, <1>11 DEF Reset1
<1> QED
  BY <1>9, <1>10, <1>12

\* No enabled radio is held in reset; writes that move no pin keep it so.
AllOut(s) == \A r \in RfChains : s.conf.enable[r] => ~HeldInReset(s, r)

LEMMA OutStays ==
  ASSUME NEW s, NEW t, t.conf = s.conf, AllOut(s),
         \A r \in RfChains : t.bit[Rst(r)] = s.bit[Rst(r)]
  PROVE  AllOut(t)
  BY DEF AllOut, HeldInReset

LEMMA OutNotStuck ==
  ASSUME NEW s \in Hals, AllOut(s)
  PROVE  ~Stuck(s)
<1>1. s.bit["selB"] \in RfChains
  BY DEF Hals, BitStates, Bits, RfChains
<1> QED
  BY <1>1 DEF AllOut, Stuck

\* Writes to the clock while every enabled radio runs
Selected(s, t) ==
  /\ Kept(s, t) /\ t.blk = s.blk /\ (s.clkFault => t.clkFault) /\ t.lost = s.lost /\ AllOut(t)
  /\ \A c \in Bits \ {"clk", "selB", "div"} : t.bit[c] = s.bit[c]

\* The clock of a radio is selected while no enabled radio is held in reset.
LEMMA WriteClock ==
  ASSUME NEW s \in Hals, AllOut(s), NEW b \in {"clk", "selB", "div"}, NEW v \in {0, 1},
         NEW o \in WriteBit(s, b, v)
  PROVE  /\ Outcome(o) /\ Selected(s, o.s)
         /\ o.ok => o.s.bit = [s.bit EXCEPT ![b] = v]
<1>1. b \in Bits /\ \A r \in RfChains : Rst(r) \in Bits \ {"clk", "selB", "div"}
  BY DEF Bits, Rst
<1>2. /\ Outcome(o) /\ Kept(s, o.s) /\ o.s.blk = s.blk
      /\ IF o.ok THEN Wrote(s, o.s, b, v) ELSE Missed(s, o.s, b)
  BY <1>1, WriteBitIs
<1>3. /\ s.bit \in [Bits -> {0, 1}] /\ s.lost \in BOOLEAN /\ o.s.lost \in BOOLEAN
      /\ o.s \in Hals /\ o.s.conf = s.conf
  BY <1>2 DEF Hals, BitStates, Kept
<1>4. \A c \in Bits \ {b} : o.s.bit[c] = s.bit[c]
  BY <1>2, <1>3 DEF Wrote, Missed
<1>5. AllOut(o.s)
  <2>1. \A r \in RfChains : o.s.bit[Rst(r)] = s.bit[Rst(r)]
    BY <1>1, <1>4
  <2> QED
    BY <1>3, <2>1, OutStays
<1>6. ~Stuck(o.s)
  BY <1>3, <1>5, OutNotStuck
<1>7. o.s.lost = s.lost /\ (s.clkFault => o.s.clkFault)
  BY <1>2, <1>3, <1>6 DEF Wrote, Missed
<1>8. o.ok => o.s.bit = [s.bit EXCEPT ![b] = v]
  BY <1>2 DEF Wrote
<1> QED
  BY <1>2, <1>4, <1>5, <1>7, <1>8 DEF Selected

LEMMA SelectedTwice ==
  ASSUME NEW s, NEW t, NEW u, Selected(s, t), Selected(t, u)
  PROVE  Selected(s, u)
  BY KeptTwice DEF Selected

\* After the selection the chip runs on the clock of radio r.
LEMMA ClockSelectIs ==
  ASSUME NEW s \in Hals, AllOut(s), NEW r \in RfChains,
         NEW o \in sx1302_radio_clock_select(s, r)
  PROVE  /\ Outcome(o) /\ Selected(s, o.s)
         /\ o.ok => o.s.bit["clk"] = 1 /\ o.s.bit["selB"] = r
<1>0. r \in {0, 1}
  BY DEF RfChains
<1> DEFINE two == Also(WriteBit(s, "selB", r), LAMBDA t : WriteBit(t, "div", 1))
<1>1. PICK q \in two : \E c \in WriteBit(q.s, "clk", 1) : Both(q, c, o)
  BY DEF sx1302_radio_clock_select, Also, Both
<1>2. PICK c \in WriteBit(q.s, "clk", 1) : Both(q, c, o)
  BY <1>1
<1>3. PICK a \in WriteBit(s, "selB", r) : \E b \in WriteBit(a.s, "div", 1) : Both(a, b, q)
  BY <1>1 DEF Also, Both
<1>4. PICK b \in WriteBit(a.s, "div", 1) : Both(a, b, q)
  BY <1>3
<1> HIDE DEF two
<1>5. Outcome(a) /\ Selected(s, a.s) /\ (a.ok => a.s.bit = [s.bit EXCEPT !["selB"] = r])
  <2>1. CASE r = 0
    <3>1. a \in WriteBit(s, "selB", 0)
      BY <1>3, <2>1
    <3> QED
      BY <2>1, <3>1, WriteClock
  <2>2. CASE r = 1
    <3>1. a \in WriteBit(s, "selB", 1)
      BY <1>3, <2>2
    <3> QED
      BY <2>2, <3>1, WriteClock
  <2> QED
    BY <1>0, <2>1, <2>2
<1>6. a.s \in Hals /\ AllOut(a.s)
  BY <1>5 DEF Selected, Kept
<1>7. Outcome(b) /\ Selected(a.s, b.s) /\ (b.ok => b.s.bit = [a.s.bit EXCEPT !["div"] = 1])
  BY <1>4, <1>6, WriteClock
<1>8. Outcome(q) /\ q.s = b.s /\ (q.ok <=> a.ok /\ b.ok)
  BY <1>4, <1>5, <1>7, BothIs
<1>9. q.s \in Hals /\ AllOut(q.s) /\ Selected(s, q.s)
  BY <1>5, <1>7, <1>8, SelectedTwice DEF Selected, Kept
<1>10. Outcome(c) /\ Selected(q.s, c.s) /\ (c.ok => c.s.bit = [q.s.bit EXCEPT !["clk"] = 1])
  BY <1>2, <1>9, WriteClock
<1>11. Outcome(o) /\ o.s = c.s /\ (o.ok <=> q.ok /\ c.ok)
  BY <1>2, <1>8, <1>10, BothIs
<1>12. Selected(s, o.s)
  BY <1>9, <1>10, <1>11, SelectedTwice
<1>13. "clk" \in Bits /\ "selB" \in Bits /\ s.bit \in [Bits -> {0, 1}] /\ a.s.bit \in [Bits -> {0, 1}]
       /\ q.s.bit \in [Bits -> {0, 1}]
  BY <1>6, <1>9 DEF Bits, Hals, BitStates
<1>14. o.ok => o.s.bit["clk"] = 1 /\ o.s.bit["selB"] = r
  BY <1>5, <1>7, <1>8, <1>10, <1>11, <1>13
<1> QED
  BY <1>11, <1>12, <1>14

-----------------------------------------------------------------------------
(* What a start keeps right wherever it ends                               *)

\* The same configuration but for the gain tables
SameBoard(c, d) ==
  /\ d.com = c.com /\ d.sx1250 = c.sx1250 /\ d.sx1303 = c.sx1303 /\ d.clksrc = c.clksrc
  /\ d.duplex = c.duplex /\ d.public = c.public /\ d.enable = c.enable /\ d.freq = c.freq
  /\ d.txen = c.txen /\ d.ifs = c.ifs /\ d.service = c.service /\ d.fsk = c.fsk
  /\ d.demod = c.demod /\ d.ftime = c.ftime /\ d.sx1261 = c.sx1261 /\ d.lbt = c.lbt

\* A table the HAL may hold: its offsets are those of the gain settings or none yet
LutRight(lut, r, calibrated) ==
  /\ 1 <= lut.size /\ lut.size <= Len(lut.entries)
  /\ \A g \in TxGains : Len(g) <= Len(lut.entries)
  /\ calibrated => \A i \in 1 .. Len(lut.entries) :
       lut.entries[i].offset \in {Offset(r, lut.entries[i].gain), Uncalibrated}
LutsRight(s) ==
  \A r \in RfChains : LutRight(s.conf.lut[r], r, s.conf.txen[r] /\ ~s.pllFault)

Safe(s) == ~s.clkFault => ~s.lost

Ran(s, t) ==
  /\ t \in Hals /\ SameBoard(s.conf, t.conf) /\ t.sent = s.sent /\ t.whole = s.whole
  /\ s.pllFault => t.pllFault
  /\ Safe(s) => Safe(t)
  /\ LutsRight(s) => LutsRight(t)

LEMMA RanTwice ==
  ASSUME NEW s, NEW t, NEW u, Ran(s, t), Ran(t, u)
  PROVE  Ran(s, u)
  BY DEF Ran, SameBoard

LEMMA KeptRan ==
  ASSUME NEW s, NEW t, Kept(s, t), s.clkFault => t.clkFault, ~t.clkFault => t.lost = s.lost
  PROVE  Ran(s, t)
  BY DEF Ran, Kept, SameBoard, Safe, LutsRight

LEMMA QuietRan ==
  ASSUME NEW s, NEW t, Quiet(s, t)
  PROVE  Ran(s, t)
  BY KeptRan DEF Quiet

LEMMA RanItself ==
  ASSUME NEW s \in Hals
  PROVE  Ran(s, s)
  BY KeptItself, QuietRan

LEMMA ResetRan ==
  ASSUME NEW s, NEW t, NEW r, Reset1(s, t, r)
  PROVE  Ran(s, t)
  BY KeptRan DEF Reset1

LEMMA SelectedRan ==
  ASSUME NEW s, NEW t, Selected(s, t)
  PROVE  Ran(s, t)
  BY KeptRan DEF Selected

LEMMA OtherBitRan ==
  ASSUME NEW s \in Hals, NEW b \in Bits \ Clocks, NEW v \in {0, 1}, NEW o \in WriteBit(s, b, v)
  PROVE  Outcome(o) /\ Ran(s, o.s)
  BY WriteOtherBit, KeptRan

\* A radio that is reset and given its mode
LEMMA ModeIs ==
  ASSUME NEW s \in Hals, NEW r \in RfChains, NEW o \in sx1302_radio_set_mode(s, r)
  PROVE  /\ Outcome(o) /\ Ran(s, o.s) /\ Kept(s, o.s) /\ o.s.blk = s.blk
         /\ \A c \in Bits \ {Mode(r)} : o.s.bit[c] = s.bit[c]
         /\ \A q \in RfChains : o.s.bit[Rst(q)] = s.bit[Rst(q)]
<1>1. PICK v \in {0, 1} : o \in WriteBit(s, Mode(r), v)
  BY DEF sx1302_radio_set_mode
<1>2. PICK b \in Bits \ Clocks : b = Mode(r)
  BY PinNames
<1>3. /\ Outcome(o) /\ Kept(s, o.s) /\ o.s.blk = s.blk
      /\ o.s.clkFault = s.clkFault /\ o.s.lost = s.lost
      /\ \A c \in Bits \ {b} : o.s.bit[c] = s.bit[c]
  BY <1>1, <1>2, WriteOtherBit
<1>4. \A q \in RfChains : Rst(q) \in Bits \ {b}
  BY <1>2, PinNames
<1> QED
  BY <1>2, <1>3, <1>4, KeptRan

LEMMA HeldStays ==
  ASSUME NEW s, NEW t, NEW r \in RfChains, t.conf = s.conf, t.bit[Rst(r)] = s.bit[Rst(r)]
  PROVE  HeldInReset(t, r) <=> HeldInReset(s, r)
  BY DEF HeldInReset

\* Radio r was reset, the other one was not.
ResetOne(s, t, r) ==
  /\ Ran(s, t) /\ t.conf = s.conf /\ t.blk = s.blk /\ t.bit["fe"] = s.bit["fe"]
  /\ \A q \in RfChains : q # r => t.bit[Rst(q)] = s.bit[Rst(q)]

LEMMA ResetIsOne ==
  ASSUME NEW s \in Hals, NEW r \in RfChains, NEW o \in sx1302_radio_reset(s, r)
  PROVE  Outcome(o) /\ ResetOne(s, o.s, r) /\ (o.ok => ~HeldInReset(o.s, r)) /\ o.s \in Hals
<1>1. Outcome(o) /\ Reset1(s, o.s, r) /\ (o.ok => ~HeldInReset(o.s, r))
  BY RadioResetIs
<1>2. "fe" \in Bits \ {"clk", Rst(r)} /\ \A q \in RfChains : q # r => Rst(q) \in Bits \ {"clk", Rst(r)}
  BY DEF Bits, Rst, RfChains
<1>3. Ran(s, o.s) /\ o.s \in Hals
  BY <1>1, ResetRan DEF Ran
<1> QED
  BY <1>1, <1>2, <1>3 DEF Reset1, Kept, ResetOne

LEMMA ResetRadioIs ==
  ASSUME NEW s \in Hals, NEW r \in RfChains,
         NEW o \in ResetRadio(s, r)
  PROVE  Outcome(o) /\ ResetOne(s, o.s, r) /\ (o.ok => ~HeldInReset(o.s, r)) /\ o.s \in Hals
<1>1. PICK a \in sx1302_radio_reset(s, r) : Follows(a, o, sx1302_radio_set_mode(a.s, r))
  BY DEF ResetRadio, AndThen, Follows
<1>2. Outcome(a) /\ ResetOne(s, a.s, r) /\ (a.ok => ~HeldInReset(a.s, r)) /\ a.s \in Hals
  BY ResetIsOne
<1>3. CASE a.ok
  <2>1. o \in sx1302_radio_set_mode(a.s, r)
    BY <1>1, <1>3 DEF Follows
  <2>2. /\ Outcome(o) /\ Ran(a.s, o.s) /\ Kept(a.s, o.s) /\ o.s.blk = a.s.blk
        /\ \A c \in Bits \ {Mode(r)} : o.s.bit[c] = a.s.bit[c]
        /\ \A q \in RfChains : o.s.bit[Rst(q)] = a.s.bit[Rst(q)]
    BY <1>2, <2>1, ModeIs
  <2>3. "fe" \in Bits \ {Mode(r)}
    BY DEF Bits, Mode
  <2>4. o.s \in Hals /\ o.s.conf = a.s.conf
    BY <2>2 DEF Kept
  <2>5. ~HeldInReset(o.s, r)
    BY <1>2, <1>3, <2>2, <2>4, HeldStays
  <2>6. ResetOne(s, o.s, r)
    BY <1>2, <2>2, <2>3, <2>4, RanTwice DEF ResetOne
  <2> QED
    BY <2>2, <2>4, <2>5, <2>6
<1>4. CASE ~a.ok
  BY <1>1, <1>2, <1>4 DEF Follows
<1> QED
  BY <1>3, <1>4

\* After the enabled radios were reset, none of them is held in reset.
LEMMA RadiosReset ==
  ASSUME NEW s \in Hals, NEW o \in EachEnabled(s, ResetRadio)
  PROVE  Outcome(o) /\ Ran(s, o.s) /\ o.s.conf = s.conf /\ (o.ok => AllOut(o.s))
<1> DEFINE on(t, r) == IF t.conf.enable[r] THEN ResetRadio(t, r) ELSE Succeeds(t)
<1>1. PICK a \in on(s, 0) : Follows(a, o, on(a.s, 1))
  BY DEF EachEnabled, AndThen, Follows
<1>2. ASSUME NEW t \in Hals, NEW r \in RfChains, NEW p \in on(t, r)
      PROVE  /\ Outcome(p) /\ Ran(t, p.s) /\ p.s.conf = t.conf /\ p.s \in Hals
             /\ p.ok /\ p.s.conf.enable[r] => ~HeldInReset(p.s, r)
             /\ \A q \in RfChains : q # r => (HeldInReset(p.s, q) <=> HeldInReset(t, q))
  <2>1. CASE t.conf.enable[r]
    <3>1. Outcome(p) /\ ResetOne(t, p.s, r) /\ (p.ok => ~HeldInReset(p.s, r)) /\ p.s \in Hals
      BY <1>2, <2>1, ResetRadioIs
    <3> QED
      BY <3>1, HeldStays DEF ResetOne
  <2>2. CASE ~t.conf.enable[r]
    <3>1. p.s = t /\ p.ok = TRUE /\ Outcome(p)
      BY <1>2, <2>2, OutcomeIs
    <3> QED
      BY <1>2, <2>2, <3>1, RanItself
  <2> QED
    BY <2>1, <2>2
<1> HIDE DEF on
<1>3. 0 \in RfChains /\ 1 \in RfChains /\ \A q \in RfChains : q = 0 \/ q = 1
  BY DEF RfChains
<1>4. /\ Outcome(a) /\ Ran(s, a.s) /\ a.s.conf = s.conf /\ a.s \in Hals
      /\ a.ok /\ a.s.conf.enable[0] => ~HeldInReset(a.s, 0)
  BY <1>1, <1>2, <1>3
<1>5. CASE a.ok
  <2>1. o \in on(a.s, 1)
    BY <1>1, <1>5 DEF Follows
  <2>2. /\ Outcome(o) /\ Ran(a.s, o.s) /\ o.s.conf = a.s.conf
        /\ o.ok /\ o.s.conf.enable[1] => ~HeldInReset(o.s, 1)
        /\ HeldInReset(o.s, 0) <=> HeldInReset(a.s, 0)
    BY <1>2, <1>3, <1>4, <2>1
  <2>3. o.ok => AllOut(o.s)
    BY <1>3, <1>4, <1>5, <2>2 DEF AllOut
  <2> QED
    BY <1>4, <2>2, <2>3, RanTwice
<1>6. CASE ~a.ok
  BY <1>1, <1>4, <1>6 DEF Follows
<1> QED
  BY <1>5, <1>6

-----------------------------------------------------------------------------
(* The calibration of the transmitters                                     *)

Entries == [gain : Nat, offset : Nat]

LEMMA LutType ==
  ASSUME NEW lut \in Luts
  PROVE  /\ lut = [size |-> lut.size, entries |-> lut.entries] /\ lut.size \in Nat
         /\ lut.entries \in Seq(Entries) /\ DOMAIN lut.entries = 1 .. Len(lut.entries)
         /\ Len(lut.entries) \in Nat
         /\ \A i \in 1 .. Len(lut.entries) : lut.entries[i] \in Entries
<1> DEFINE e == lut.entries
<1>1. lut = [size |-> lut.size, entries |-> e] /\ lut.size \in Nat /\ e \in Seq(Entries)
  BY DEF Luts, Entries
<1> HIDE DEF e
<1>2. /\ DOMAIN e = 1 .. Len(e) /\ Len(e) \in Nat /\ \A i \in 1 .. Len(e) : e[i] \in Entries
  BY <1>1
<1> QED
  BY <1>1, <1>2 DEF e

\* Every gain setting of a table is measured, at its first entry.
LEMMA FirstGain ==
  ASSUME NEW lut \in Luts, lut.size <= Len(lut.entries), NEW i \in 1 .. lut.size
  PROVE  \E j \in UniqueGains(lut) : lut.entries[j].gain = lut.entries[i].gain
<1> DEFINE T == {k \in 1 .. lut.size : lut.entries[k].gain = lut.entries[i].gain}
<1>0. lut.size \in Nat
  BY LutType
<1>1. T \subseteq Nat /\ T # {}
  <2>1. i \in T
    OBVIOUS
  <2>2. 1 .. lut.size \subseteq Nat
    BY <1>0
  <2> QED
    BY <2>1, <2>2
<1>2. PICK j \in T : \A k \in T : j <= k
  BY <1>1, LeastElement, Zenon
<1>3. j \in 1 .. lut.size /\ lut.entries[j].gain = lut.entries[i].gain
  BY <1>2
<1>4. ASSUME NEW k \in 1 .. j - 1 PROVE lut.entries[k].gain # lut.entries[j].gain
  <2>1. k \in 1 .. lut.size /\ ~(j <= k)
    BY <1>0, <1>3
  <2>2. k \notin T
    BY <1>2, <2>1
  <2> QED
    BY <1>3, <2>1, <2>2
<1> QED
  BY <1>3, <1>4 DEF UniqueGains

\* The offset of a setting: of its own when every measurement was good
LEMMA OffsetIs ==
  ASSUME NEW lut \in Luts, lut.size <= Len(lut.entries), NEW r \in RfChains,
         NEW m \in SUBSET (1 .. lut.size), NEW u \in SUBSET m, NEW i \in 1 .. lut.size
  PROVE  /\ sx125x_cal_tx_dc_offset(lut, r, m, u, i) \in Nat
         /\ m = UniqueGains(lut) /\ u = {} =>
              sx125x_cal_tx_dc_offset(lut, r, m, u, i) = Offset(r, lut.entries[i].gain)
<1> DEFINE SameGain(j) == lut.entries[j].gain = lut.entries[i].gain
           first == CHOOSE j \in UniqueGains(lut) : SameGain(j)
           good == {j \in m \ u : j <= first}
           off == sx125x_cal_tx_dc_offset(lut, r, m, u, i)
<1>0. lut.size \in Nat /\ \A j \in 1 .. lut.size : lut.entries[j].gain \in Nat
  <2>1. lut.size \in Nat /\ Len(lut.entries) \in Nat
    BY LutType
  <2>2. ASSUME NEW j \in 1 .. lut.size PROVE lut.entries[j].gain \in Nat
    <3>1. j \in 1 .. Len(lut.entries)
      BY <2>1
    <3>2. lut.entries[j] \in Entries
      BY <3>1, LutType
    <3> QED
      BY <3>2 DEF Entries
  <2> QED
    BY <2>1, <2>2
<1>1. first \in UniqueGains(lut) /\ SameGain(first)
  <2>1. \E j \in UniqueGains(lut) : SameGain(j)
    BY FirstGain
  <2> QED
    BY <2>1
<1>2. first \in 1 .. lut.size
  <2>1. UniqueGains(lut) \subseteq 1 .. lut.size
    BY DEF UniqueGains
  <2> HIDE DEF first
  <2> QED
    BY <1>1, <2>1
<1>3. off = IF good = {} THEN Garbage8 ELSE Offset(r, lut.entries[Max(good)].gain)
  BY DEF sx125x_cal_tx_dc_offset
<1> HIDE DEF first, off
<1>4. good \subseteq 1 .. lut.size
  OBVIOUS
<1>5. good # {} => Max(good) \in good /\ \A y \in good : Max(good) >= y
  <2>1. SUFFICES ASSUME good # {} PROVE Max(good) \in good /\ \A y \in good : Max(good) >= y
    OBVIOUS
  <2>2. PICK x \in good : \A y \in good : y <= x
    BY <1>0, <1>4, <2>1, GreatestIndex, Zenon
  <2>3. x \in Int /\ good \subseteq Int
    BY <1>4, <2>2
  <2>4. \A y \in good : x >= y
    BY <2>2, <2>3
  <2> HIDE DEF good
  <2> QED
    BY <2>2, <2>4, Zenon DEF Max
<1>6. off \in Nat
  <2>1. CASE good = {}
    BY <1>3, <2>1 DEF Garbage8
  <2>2. CASE good # {}
    <3>1. Max(good) \in 1 .. lut.size
      BY <1>4, <1>5, <2>2
    <3>2. PICK g \in Nat : lut.entries[Max(good)].gain = g
      BY <1>0, <3>1
    <3> HIDE DEF good
    <3>3. off = Offset(r, g)
      BY <1>3, <2>2, <3>2
    <3> QED
      BY <3>2, <3>3 DEF Offset, RfChains
  <2> QED
    BY <2>1, <2>2
<1>7. ASSUME m = UniqueGains(lut), u = {}
      PROVE  off = Offset(r, lut.entries[i].gain)
  <2>1. first \in good
    BY <1>1, <1>2, <1>7
  <2>2. Max(good) >= first /\ Max(good) <= first
    BY <1>5, <2>1
  <2>3. Max(good) = first
    BY <1>2, <1>4, <1>5, <2>1, <2>2
  <2> HIDE DEF good
  <2>4. off = Offset(r, lut.entries[first].gain)
    BY <1>3, <2>1, <2>3
  <2> QED
    BY <1>1, <2>4
<1> QED
  BY <1>6, <1>7 DEF off

\* A table filled by a calibration is right when every setting was measured.
LEMMA FilledIs ==
  ASSUME NEW lut \in Luts, NEW r \in RfChains, LutRight(lut, r, FALSE),
         NEW m \in SUBSET (1 .. lut.size), NEW u \in SUBSET m
  PROVE  /\ FilledLut(lut, r, m, u) \in Luts /\ LutRight(FilledLut(lut, r, m, u), r, FALSE)
         /\ m = UniqueGains(lut) /\ u = {} /\ LutRight(lut, r, TRUE) =>
              LutRight(FilledLut(lut, r, m, u), r, TRUE)
<1> DEFINE n == Len(lut.entries)
           off(i) == sx125x_cal_tx_dc_offset(lut, r, m, u, i)
           E == [i \in 1 .. n |-> IF i > lut.size THEN lut.entries[i] ELSE [lut.entries[i] EXCEPT !.offset = off(i)]]
           new == [size |-> lut.size, entries |-> E]
<1>0. /\ lut = [size |-> lut.size, entries |-> lut.entries] /\ lut.size \in Nat /\ n \in Nat
      /\ DOMAIN lut.entries = 1 .. n /\ \A i \in 1 .. n : lut.entries[i] \in Entries
  BY LutType
<1>1. lut.size <= n /\ 1 <= lut.size /\ \A g \in TxGains : Len(g) <= n
  BY DEF LutRight
<1>2. FilledLut(lut, r, m, u) = new
  <2>1. FilledLut(lut, r, m, u) = [lut EXCEPT !.entries = E]
    BY <1>0, Zenon DEF FilledLut
  <2> HIDE DEF E
  <2> QED
    BY <1>0, <2>1
<1>3. ASSUME NEW i \in 1 .. n
      PROVE  E[i] \in Entries /\ E[i].gain = lut.entries[i].gain
  <2>0. lut.entries[i] \in Entries
    BY <1>0
  <2>1. CASE i > lut.size
    BY <2>0, <2>1
  <2>2. CASE ~(i > lut.size)
    <3>1. i \in 1 .. lut.size
      BY <1>0, <2>2
    <3>2. off(i) \in Nat
      BY <1>1, <3>1, OffsetIs
    <3>3. E[i] = [lut.entries[i] EXCEPT !.offset = off(i)]
      BY <2>2
    <3> HIDE DEF E, off
    <3> QED
      BY <2>0, <3>2, <3>3 DEF Entries
  <2> QED
    BY <2>1, <2>2
<1>4. E \in Seq(Entries) /\ Len(E) = n
  <2>1. E \in [1 .. n -> Entries]
    BY <1>3
  <2> HIDE DEF E
  <2> QED
    BY <1>0, <2>1
<1>5. ASSUME m = UniqueGains(lut), u = {}, LutRight(lut, r, TRUE), NEW i \in 1 .. n
      PROVE  E[i].offset \in {Offset(r, E[i].gain), Uncalibrated}
  <2>0. lut.entries[i] \in Entries
    BY <1>0
  <2>1. CASE i > lut.size
    <3>1. E[i] = lut.entries[i]
      BY <2>1
    <3> QED
      BY <1>5, <3>1 DEF LutRight
  <2>2. CASE ~(i > lut.size)
    <3>1. i \in 1 .. lut.size
      BY <1>0, <2>2
    <3>2. off(i) = Offset(r, lut.entries[i].gain)
      BY <1>1, <1>5, <3>1, OffsetIs
    <3>3. E[i] = [lut.entries[i] EXCEPT !.offset = off(i)]
      BY <2>2
    <3> HIDE DEF E, off
    <3>4. E[i].offset = off(i)
      BY <2>0, <3>3 DEF Entries
    <3> QED
      BY <1>3, <3>2, <3>4
  <2> QED
    BY <2>1, <2>2
<1> HIDE DEF E
<1>6. new \in Luts
  BY <1>0, <1>4 DEF Luts, Entries
<1>7. LutRight(new, r, FALSE)
  BY <1>1, <1>4 DEF LutRight
<1>8. m = UniqueGains(lut) /\ u = {} /\ LutRight(lut, r, TRUE) => LutRight(new, r, TRUE)
  BY <1>4, <1>5, <1>7 DEF LutRight
<1> QED
  BY <1>2, <1>6, <1>7, <1>8

LEMMA BoardType ==
  ASSUME NEW c \in BoardConfs, NEW r \in RfChains, NEW lut \in Luts
  PROVE  /\ [c EXCEPT !.lut[r] = lut] \in BoardConfs /\ SameBoard(c, [c EXCEPT !.lut[r] = lut])
         /\ [c EXCEPT !.lut[r] = lut].lut = [c.lut EXCEPT ![r] = lut] /\ c.lut \in [RfChains -> Luts]
<1>0. c.lut \in [RfChains -> Luts]
  BY DEF BoardConfs
<1>1. PICK l : l = [c.lut EXCEPT ![r] = lut]
  OBVIOUS
<1>2. l \in [RfChains -> Luts]
  BY <1>0, <1>1
<1>3. [c EXCEPT !.lut[r] = lut] = [c EXCEPT !.lut = l]
  BY <1>1
<1>4. [c EXCEPT !.lut = l] \in BoardConfs /\ SameBoard(c, [c EXCEPT !.lut = l]) /\ [c EXCEPT !.lut = l].lut = l
  BY <1>2 DEF BoardConfs, SameBoard
<1> QED
  BY <1>0, <1>1, <1>3, <1>4

\* The state after a calibration with the settings of u not measured: n more faults
LEMMA CalibratedIs ==
  ASSUME NEW s \in Hals, NEW n \in Nat, NEW y \in BOOLEAN, NEW r \in RfChains, NEW lut \in Luts,
         LutsRight(s) => /\ LutRight(lut, r, FALSE)
                         /\ s.conf.txen[r] /\ ~s.pllFault /\ ~y => LutRight(lut, r, TRUE)
  PROVE  /\ Ran(s, [[s EXCEPT !.faults = @ + n, !.pllFault = @ \/ y] EXCEPT !.conf.lut[r] = lut])
         /\ Ran(s, [s EXCEPT !.faults = @ + n, !.pllFault = @ \/ y])
<1>1. PICK z : z = (s.pllFault \/ y)
  OBVIOUS
<1>2. z \in BOOLEAN /\ (z <=> s.pllFault \/ y)
  <2>1. s.pllFault \in BOOLEAN
    BY DEF Hals
  <2> QED
    BY <1>1, <2>1, Zenon
<1>3. PICK t : t = [s EXCEPT !.faults = @ + n, !.pllFault = z]
  OBVIOUS
<1>4. /\ t \in Hals /\ t.conf = s.conf /\ t.sent = s.sent /\ t.whole = s.whole /\ t.pllFault = z
      /\ t.clkFault = s.clkFault /\ t.lost = s.lost
  <2>1. PICK k \in Nat : k = s.faults + n
    BY DEF Hals
  <2>2. PICK w : w = [s EXCEPT !.faults = k]
    OBVIOUS
  <2>3. /\ w \in Hals /\ w.conf = s.conf /\ w.sent = s.sent /\ w.whole = s.whole
        /\ w.clkFault = s.clkFault /\ w.lost = s.lost
    BY <2>1, <2>2 DEF Hals
  <2>4. t = [w EXCEPT !.pllFault = z]
    BY <1>3, <2>1, <2>2
  <2> QED
    BY <1>2, <2>3, <2>4 DEF Hals
<1>5. Ran(s, t)
  <2>1. SameBoard(s.conf, t.conf)
    BY <1>4 DEF SameBoard
  <2>2. LutsRight(s) => LutsRight(t)
    BY <1>2, <1>4 DEF LutsRight, LutRight
  <2> QED
    BY <1>2, <1>4, <2>1, <2>2 DEF Ran, Safe
<1>6. PICK c : c = [t.conf EXCEPT !.lut[r] = lut]
  OBVIOUS
<1>7. t.conf \in BoardConfs
  BY <1>4 DEF Hals
<1>8. c \in BoardConfs /\ SameBoard(t.conf, c) /\ c.lut = [t.conf.lut EXCEPT ![r] = lut]
      /\ t.conf.lut \in [RfChains -> Luts]
  BY <1>6, <1>7, BoardType
<1>9. PICK v : v = [t EXCEPT !.conf = c]
  OBVIOUS
<1>10. /\ v \in Hals /\ v.conf = c /\ v.sent = t.sent /\ v.whole = t.whole /\ v.pllFault = t.pllFault
       /\ v.clkFault = t.clkFault /\ v.lost = t.lost
  BY <1>4, <1>8, <1>9 DEF Hals
<1>11. LutsRight(s) => LutsRight(v)
  <2>1. SUFFICES ASSUME LutsRight(s), NEW q \in RfChains
                 PROVE  LutRight(c.lut[q], q, c.txen[q] /\ ~z)
    BY <1>4, <1>10 DEF LutsRight
  <2>2. LutsRight(t)
    BY <1>5, <2>1 DEF Ran
  <2>3. CASE q = r
    <3>1. c.lut[q] = lut /\ c.txen[q] = s.conf.txen[q]
      BY <1>4, <1>8, <2>3 DEF SameBoard
    <3> QED
      BY <1>2, <2>1, <2>3, <3>1 DEF LutRight
  <2>4. CASE q # r
    <3>1. c.lut[q] = t.conf.lut[q] /\ c.txen[q] = t.conf.txen[q]
      BY <1>8, <2>4 DEF SameBoard
    <3> QED
      BY <1>4, <2>2, <3>1 DEF LutsRight, LutRight
  <2> QED
    BY <2>3, <2>4
<1>12. Ran(s, v)
  <2>1. SameBoard(s.conf, v.conf)
    BY <1>4, <1>8, <1>10
  <2> QED
    BY <1>2, <1>4, <1>10, <1>11, <2>1 DEF Ran, Safe
<1>13. [s EXCEPT !.faults = @ + n, !.pllFault = @ \/ y] = t
  BY <1>1, <1>3, Zenon
<1>14. [t EXCEPT !.conf.lut[r] = lut] = v
  BY <1>6, <1>9
<1> QED
  BY <1>5, <1>12, <1>13, <1>14

\* A calibration leaves right tables wherever it ends, unless a PLL did not lock.
LEMMA CalibrateTxIs ==
  ASSUME NEW s \in Hals, LutsRight(s), NEW r \in RfChains, NEW o \in CalibrateTx(s, r)
  PROVE  Outcome(o) /\ Ran(s, o.s)
<1> DEFINE lut == s.conf.lut[r]
           m == IF s.conf.txen[r] THEN UniqueGains(lut) ELSE {}
           after(n, u) == [s EXCEPT !.faults = @ + n, !.pllFault = @ \/ u # {}]
           filled(u) == [after(Cardinality(u), u) EXCEPT !.conf.lut[r] = FilledLut(lut, r, m, u)]
<1>0. s.conf \in BoardConfs /\ lut \in Luts
  BY BoardType DEF Hals, BoardConfs
<1>1. /\ LutRight(lut, r, FALSE) /\ (s.conf.txen[r] /\ ~s.pllFault => LutRight(lut, r, TRUE))
  BY DEF LutsRight, LutRight
<1>2. m \in SUBSET (1 .. lut.size) /\ (s.conf.txen[r] => m = UniqueGains(lut))
  BY DEF UniqueGains
<1>3. ASSUME NEW u \in SUBSET m
      PROVE  Cardinality(u) \in Nat /\ Cardinality(u) + 1 \in Nat
  <2>0. 1 \in Int /\ lut.size \in Int
    BY <1>0, LutType
  <2>1. IsFiniteSet(1 .. lut.size)
    BY <2>0, FS_Interval
  <2>2. IsFiniteSet(u)
    BY <1>2, <2>1, FS_Subset
  <2>3. Cardinality(u) \in Nat
    BY <2>2, FS_CardinalityType
  <2> QED
    BY <2>3
<1>4. PICK u \in SUBSET m :
        \/ o = Result(filled(u), TRUE)
        \/ o = Result(after(Cardinality(u) + 1, u), FALSE)
  <2> DEFINE done == {filled(u) : u \in SUBSET m}
             failed == {after(Cardinality(u) + 1, u) : u \in {v \in SUBSET m : \E i \in m : \A j \in v : j < i}}
  <2>1. \/ o \in {Result(t, TRUE) : t \in {d \in done : d.faults <= MaxChipFaults}}
        \/ o \in {Result(t, FALSE) : t \in {f \in failed : f.faults <= MaxChipFaults}}
    BY Zenon DEF CalibrateTx
  <2> HIDE DEF m
  <2>2. CASE o \in {Result(t, TRUE) : t \in {d \in done : d.faults <= MaxChipFaults}}
    <3>1. PICK t \in done : o = Result(t, TRUE)
      BY <2>2
    <3>2. PICK u \in SUBSET m : t = filled(u)
      BY <3>1
    <3> QED
      BY <3>1, <3>2
  <2>3. CASE o \in {Result(t, FALSE) : t \in {f \in failed : f.faults <= MaxChipFaults}}
    <3>1. PICK t \in failed : o = Result(t, FALSE)
      BY <2>3
    <3>2. PICK u \in SUBSET m : t = after(Cardinality(u) + 1, u)
      BY <3>1
    <3> QED
      BY <3>1, <3>2
  <2> QED
    BY <2>1, <2>2, <2>3
<1> HIDE DEF lut, m
<1>5. PICK f : f = FilledLut(lut, r, m, u)
  OBVIOUS
<1>6. f \in Luts /\ LutRight(f, r, FALSE)
      /\ (m = UniqueGains(lut) /\ u = {} /\ LutRight(lut, r, TRUE) => LutRight(f, r, TRUE))
  BY <1>0, <1>1, <1>2, <1>5, FilledIs
<1>7. PICK y \in BOOLEAN : y <=> u # {}
  <2>1. CASE u = {}
    BY <2>1
  <2>2. CASE u # {}
    BY <2>2
  <2> QED
    BY <2>1, <2>2
<1>8. y = (u # {})
  BY <1>7, Zenon
<1>9. s.conf.txen[r] /\ ~s.pllFault /\ ~y => LutRight(f, r, TRUE)
  BY <1>1, <1>2, <1>6, <1>7
<1>10. CASE o = Result(filled(u), TRUE)
  <2>1. PICK n \in Nat : n = Cardinality(u)
    BY <1>3
  <2>2. Ran(s, [[s EXCEPT !.faults = @ + n, !.pllFault = @ \/ y] EXCEPT !.conf.lut[r] = f])
    BY <1>6, <1>9, CalibratedIs
  <2>3. Ran(s, filled(u))
    BY <1>5, <1>8, <2>1, <2>2
  <2> HIDE DEF filled
  <2> QED
    BY <1>10, <2>3 DEF Result, Outcome
<1>11. CASE o = Result(after(Cardinality(u) + 1, u), FALSE)
  <2>1. PICK n \in Nat : n = Cardinality(u) + 1
    BY <1>3
  <2>2. Ran(s, [s EXCEPT !.faults = @ + n, !.pllFault = @ \/ y])
    BY <1>6, <1>9, CalibratedIs
  <2>3. Ran(s, after(Cardinality(u) + 1, u))
    BY <1>8, <2>1, <2>2
  <2> HIDE DEF after
  <2> QED
    BY <1>11, <2>3 DEF Result, Outcome
<1> QED
  BY <1>4, <1>10, <1>11

-----------------------------------------------------------------------------
(* The calibration of the radios                                           *)

LEMMA IgnoredIs ==
  ASSUME NEW p, Outcome(p), NEW o, o = [p EXCEPT !.ok = TRUE]
  PROVE  Outcome(o) /\ o.s = p.s /\ o.ok = TRUE
<1>1. o = [s |-> p.s, ok |-> TRUE, val |-> p.val]
  BY DEF Outcome
<1> QED
  BY <1>1 DEF Outcome

LEMMA AccessRan ==
  ASSUME NEW s \in Hals, NEW o \in Access(s)
  PROVE  Outcome(o) /\ Ran(s, o.s) /\ o.s \in Hals /\ o.s.conf = s.conf
  BY AccessIs, QuietRan DEF Untouched, Quiet, Kept

LEMMA BlockRan ==
  ASSUME NEW s \in Hals, NEW b \in Blocks, NEW v \in Seq(Int), NEW o \in WriteBlock(s, b, v)
  PROVE  Outcome(o) /\ Ran(s, o.s) /\ o.s \in Hals /\ o.s.conf = s.conf
<1>1. Outcome(o) /\ Quiet(s, o.s)
  BY WriteBlockIs
<1> QED
  BY <1>1, QuietRan DEF Quiet, Kept

LEMMA ImageIs ==
  ASSUME NEW s \in Hals, NEW r \in RfChains, NEW o \in CalibrateRx(s, r)
  PROVE  Outcome(o) /\ Ran(s, o.s) /\ o.s \in Hals
<1>1. PICK a \in Access(s) : IF a.ok THEN o = a ELSE o \in Access(a.s)
  BY DEF CalibrateRx, sx125x_cal_rx_image
<1>2. Outcome(a) /\ Ran(s, a.s) /\ a.s \in Hals
  BY AccessRan
<1> QED
  BY <1>1, <1>2, AccessRan, RanTwice

LEMMA ImagesAre ==
  ASSUME NEW s \in Hals, NEW o \in EachEnabled(s, CalibrateRx)
  PROVE  Outcome(o) /\ Ran(s, o.s) /\ o.s \in Hals
<1> DEFINE on(t, r) == IF t.conf.enable[r] THEN CalibrateRx(t, r) ELSE Succeeds(t)
<1>1. PICK a \in on(s, 0) : Follows(a, o, on(a.s, 1))
  BY DEF EachEnabled, AndThen, Follows
<1>2. ASSUME NEW t \in Hals, NEW r \in RfChains, NEW p \in on(t, r)
      PROVE  Outcome(p) /\ Ran(t, p.s) /\ p.s \in Hals
  BY <1>2, ImageIs, OutcomeIs, RanItself
<1>3. 0 \in RfChains /\ 1 \in RfChains
  BY DEF RfChains
<1> HIDE DEF on
<1> QED
  BY <1>1, <1>2, <1>3, RanTwice DEF Follows

LEMMA OffsetsAre ==
  ASSUME NEW s \in Hals, LutsRight(s), NEW o \in EachChain(s, CalibrateTx)
  PROVE  Outcome(o) /\ Ran(s, o.s) /\ o.s \in Hals
<1>1. PICK a \in CalibrateTx(s, 0) : Follows(a, o, CalibrateTx(a.s, 1))
  BY DEF EachChain, AndThen, Follows
<1>2. 0 \in RfChains /\ 1 \in RfChains
  BY DEF RfChains
<1>3. Outcome(a) /\ Ran(s, a.s)
  BY <1>1, <1>2, CalibrateTxIs
<1>4. a.s \in Hals /\ LutsRight(a.s)
  BY <1>3 DEF Ran
<1>5. CASE a.ok
  <2>1. Outcome(o) /\ Ran(a.s, o.s)
    BY <1>1, <1>2, <1>4, <1>5, CalibrateTxIs DEF Follows
  <2> QED
    BY <1>3, <2>1, RanTwice DEF Ran
<1>6. CASE ~a.ok
  BY <1>1, <1>3, <1>4, <1>6 DEF Follows
<1> QED
  BY <1>5, <1>6

LEMMA CalStartIs ==
  ASSUME NEW s \in Hals, LutsRight(s), NEW o \in sx1302_cal_start(s)
  PROVE  Outcome(o) /\ Ran(s, o.s) /\ o.s \in Hals
<1> DEFINE images == AndThen(Access(s), LAMBDA t : EachEnabled(t, CalibrateRx))
           applied == AndThen(images, LAMBDA t : Ignoring(WriteBlock(t, "image", <<1>>)))
<1>1. PICK c \in applied : Follows(c, o, EachChain(c.s, CalibrateTx))
  BY DEF sx1302_cal_start, AndThen, Follows
<1>2. PICK b \in images : Follows(b, c, Ignoring(WriteBlock(b.s, "image", <<1>>)))
  BY DEF AndThen, Follows
<1>3. PICK a \in Access(s) : Follows(a, b, EachEnabled(a.s, CalibrateRx))
  BY DEF AndThen, Follows
<1> HIDE DEF images, applied
<1>4. Outcome(a) /\ Ran(s, a.s) /\ a.s \in Hals
  BY <1>3, AccessRan
<1>5. Outcome(b) /\ Ran(s, b.s) /\ b.s \in Hals
  BY <1>3, <1>4, ImagesAre, RanTwice DEF Follows
<1>6. Outcome(c) /\ Ran(s, c.s) /\ c.s \in Hals
  <2>1. CASE b.ok
    <3>1. c \in Ignoring(WriteBlock(b.s, "image", <<1>>))
      BY <1>2, <2>1 DEF Follows
    <3>2. PICK p \in WriteBlock(b.s, "image", <<1>>) : c = [p EXCEPT !.ok = TRUE]
      BY <3>1 DEF Ignoring
    <3>3. "image" \in Blocks /\ <<1>> \in Seq(Int)
      BY DEF Blocks
    <3>4. Outcome(p) /\ Ran(b.s, p.s) /\ p.s \in Hals
      BY <1>5, <3>3, BlockRan
    <3> QED
      BY <1>5, <3>2, <3>4, IgnoredIs, RanTwice
  <2>2. CASE ~b.ok
    BY <1>2, <1>5, <2>2 DEF Follows
  <2> QED
    BY <2>1, <2>2
<1>7. LutsRight(c.s)
  BY <1>6 DEF Ran
<1> QED
  BY <1>1, <1>6, <1>7, OffsetsAre, RanTwice DEF Follows

LEMMA CalibrateSx1250 ==
  ASSUME NEW s \in Hals, NEW r \in RfChains, NEW o \in sx1250_calibrate(s, r)
  PROVE  Outcome(o) /\ Ran(s, o.s) /\ o.s \in Hals
<1>1. CASE s.conf.freq[r] = 0
  <2>1. PICK a \in Access(s) : o \in Fails(a.s)
    BY <1>1 DEF sx1250_calibrate, Anyway
  <2> QED
    BY <2>1, AccessRan, OutcomeIs
<1>2. CASE s.conf.freq[r] # 0
  <2>1. o \in WriteBlock(s, RadioBlock(r), Unset)
    BY <1>2 DEF sx1250_calibrate
  <2>2. RadioBlock(r) \in Blocks /\ Unset \in Seq(Int)
    BY PinNames DEF Unset
  <2> QED
    BY <2>1, <2>2, BlockRan
<1> QED
  BY <1>1, <1>2

LEMMA CalibratedSx1250 ==
  ASSUME NEW s \in Hals, NEW o \in EachEnabled(s, sx1250_calibrate)
  PROVE  Outcome(o) /\ Ran(s, o.s) /\ o.s \in Hals
<1> DEFINE on(t, r) == IF t.conf.enable[r] THEN sx1250_calibrate(t, r) ELSE Succeeds(t)
<1>1. PICK a \in on(s, 0) : Follows(a, o, on(a.s, 1))
  BY DEF EachEnabled, AndThen, Follows
<1>2. ASSUME NEW t \in Hals, NEW r \in RfChains, NEW p \in on(t, r)
      PROVE  Outcome(p) /\ Ran(t, p.s) /\ p.s \in Hals
  BY <1>2, CalibrateSx1250, OutcomeIs, RanItself
<1>3. 0 \in RfChains /\ 1 \in RfChains
  BY DEF RfChains
<1> HIDE DEF on
<1> QED
  BY <1>1, <1>2, <1>3, RanTwice DEF Follows

LEMMA CalibratedSx125x ==
  ASSUME NEW s \in Hals, LutsRight(s), NEW o \in CalibrateSx125x(s)
  PROVE  Outcome(o) /\ Ran(s, o.s) /\ o.s \in Hals
<1> DEFINE reset(t) == Anyway(sx1302_radio_reset(t, 0), LAMBDA u : sx1302_radio_reset(u, 1))
           tried(t) == UNION {IF p.ok THEN {p} ELSE Anyway(reset(p.s), Fails) : p \in sx1302_cal_start(t)}
<1>1. PICK a \in LoadMcu(s, "agc", CalFirmware) : Follows(a, o, tried(a.s))
  BY DEF CalibrateSx125x, AndThen, Follows
<1>2. Outcome(a) /\ Ran(s, a.s) /\ a.s \in Hals
  <2>1. "agc" \in Blocks /\ CalFirmware \in Seq(Int)
    BY DEF Blocks, CalFirmware
  <2> QED
    BY <1>1, <2>1, BlockRan DEF LoadMcu
<1>3. LutsRight(a.s)
  BY <1>2 DEF Ran
<1>4. CASE a.ok
  <2>1. PICK p \in sx1302_cal_start(a.s) : IF p.ok THEN o = p ELSE o \in Anyway(reset(p.s), Fails)
    BY <1>1, <1>4 DEF Follows
  <2>2. Outcome(p) /\ Ran(s, p.s) /\ p.s \in Hals
    BY <1>2, <1>3, <2>1, CalStartIs, RanTwice
  <2>3. CASE p.ok
    BY <2>1, <2>2, <2>3
  <2>4. CASE ~p.ok
    <3>1. PICK q \in reset(p.s) : o \in Fails(q.s)
      BY <2>1, <2>4 DEF Anyway
    <3>2. PICK b \in sx1302_radio_reset(p.s, 0) : q \in sx1302_radio_reset(b.s, 1)
      BY <3>1 DEF Anyway
    <3>3. 0 \in RfChains /\ 1 \in RfChains
      BY DEF RfChains
    <3>4. Ran(p.s, b.s) /\ b.s \in Hals
      BY <2>2, <3>2, <3>3, ResetIsOne DEF ResetOne
    <3>5. Ran(b.s, q.s) /\ q.s \in Hals
      BY <3>2, <3>3, <3>4, ResetIsOne DEF ResetOne
    <3>6. Outcome(o) /\ o.s = q.s
      BY <3>1, OutcomeIs
    <3> QED
      BY <2>2, <3>4, <3>5, <3>6, RanTwice
  <2> QED
    BY <2>3, <2>4
<1>5. CASE ~a.ok
  BY <1>1, <1>2, <1>5 DEF Follows
<1> QED
  BY <1>4, <1>5

\* The front end is given back when the calibration succeeds.
LEMMA RadioCalibrateIs ==
  ASSUME NEW s \in Hals, LutsRight(s), NEW o \in sx1302_radio_calibrate(s)
  PROVE  Outcome(o) /\ Ran(s, o.s) /\ o.s \in Hals /\ (o.ok => o.s.bit["fe"] = 0)
<1> DEFINE clocked == AndThen(EachEnabled(s, ResetRadio),
                              LAMBDA t : sx1302_radio_clock_select(t, t.conf.clksrc))
           forced == AndThen(clocked, LAMBDA t : Ignoring(WriteBit(t, "fe", 1)))
           cal(t) == IF t.conf.sx1250 THEN EachEnabled(t, sx1250_calibrate) ELSE CalibrateSx125x(t)
           calibrated == AndThen(forced, cal)
<1>1. PICK d \in calibrated : Follows(d, o, WriteBit(d.s, "fe", 0))
  BY DEF sx1302_radio_calibrate, AndThen, Follows
<1>2. PICK c \in forced : Follows(c, d, cal(c.s))
  BY DEF AndThen, Follows
<1>3. PICK b \in clocked : Follows(b, c, Ignoring(WriteBit(b.s, "fe", 1)))
  BY DEF AndThen, Follows
<1>4. PICK a \in EachEnabled(s, ResetRadio) : Follows(a, b, sx1302_radio_clock_select(a.s, a.s.conf.clksrc))
  BY DEF AndThen, Follows
<1> HIDE DEF clocked, forced, calibrated, cal
<1>5. Outcome(a) /\ Ran(s, a.s) /\ a.s.conf = s.conf /\ (a.ok => AllOut(a.s)) /\ a.s \in Hals
  BY <1>4, RadiosReset DEF Ran
<1>6. Outcome(b) /\ Ran(s, b.s) /\ b.s \in Hals
  <2>1. CASE a.ok
    <3>1. a.s.conf.clksrc \in RfChains
      BY <1>5 DEF Hals, BoardConfs
    <3>2. Outcome(b) /\ Selected(a.s, b.s)
      BY <1>4, <1>5, <2>1, <3>1, ClockSelectIs DEF Follows
    <3> QED
      BY <1>5, <3>2, SelectedRan, RanTwice DEF Ran
  <2>2. CASE ~a.ok
    BY <1>4, <1>5, <2>2 DEF Follows
  <2> QED
    BY <2>1, <2>2
<1>7. "fe" \in Bits \ Clocks
  BY PinNames DEF RfChains
<1>8. Outcome(c) /\ Ran(s, c.s) /\ c.s \in Hals
  <2>1. CASE b.ok
    <3>1. PICK p \in WriteBit(b.s, "fe", 1) : c = [p EXCEPT !.ok = TRUE]
      BY <1>3, <2>1 DEF Follows, Ignoring
    <3>2. Outcome(p) /\ Ran(b.s, p.s)
      BY <1>6, <1>7, <3>1, OtherBitRan
    <3> QED
      <4>1. Outcome(c) /\ c.s = p.s
        BY <3>1, <3>2, IgnoredIs
      <4>2. p.s \in Hals
        BY <3>2 DEF Ran
      <4> QED
        BY <1>6, <3>2, <4>1, <4>2, RanTwice
  <2>2. CASE ~b.ok
    BY <1>3, <1>6, <2>2 DEF Follows
  <2> QED
    BY <2>1, <2>2
<1>9. LutsRight(c.s)
  BY <1>8 DEF Ran
<1>10. Outcome(d) /\ Ran(s, d.s) /\ d.s \in Hals
  <2>1. CASE c.ok
    <3>1. d \in EachEnabled(c.s, sx1250_calibrate) \/ d \in CalibrateSx125x(c.s)
      BY <1>2, <2>1 DEF Follows, cal
    <3>2. Outcome(d) /\ Ran(c.s, d.s) /\ d.s \in Hals
      BY <1>8, <1>9, <3>1, CalibratedSx1250, CalibratedSx125x
    <3> QED
      BY <1>8, <3>2, RanTwice
  <2>2. CASE ~c.ok
    BY <1>2, <1>8, <2>2 DEF Follows
  <2> QED
    BY <2>1, <2>2
<1>11. CASE d.ok
  <2>1. o \in WriteBit(d.s, "fe", 0)
    BY <1>1, <1>11 DEF Follows
  <2>2. Outcome(o) /\ Ran(d.s, o.s) /\ (o.ok => o.s.bit["fe"] = 0)
    BY <1>7, <1>10, <2>1, OtherBitRan, WriteOtherBit
  <2> QED
    BY <1>10, <2>2, RanTwice DEF Ran
<1>12. CASE ~d.ok
  BY <1>1, <1>10, <1>12 DEF Follows
<1> QED
  BY <1>11, <1>12

-----------------------------------------------------------------------------
(* The start of the radios                                                 *)

\* Radio r is set up, the other one and the front end are left alone.
SetupOne(s, t, r) ==
  /\ Ran(s, t) /\ t \in Hals /\ t.conf = s.conf /\ t.bit["fe"] = s.bit["fe"]
  /\ \A q \in RfChains : q # r => /\ t.bit[Rst(q)] = s.bit[Rst(q)]
                                  /\ t.blk[RadioBlock(q)] = s.blk[RadioBlock(q)]

\* Radio r runs, tuned to its frequency when it is an SX1250.
RadioTuned(s, r) ==
  ~HeldInReset(s, r) /\ (s.conf.sx1250 => s.blk[RadioBlock(r)] = <<s.conf.freq[r]>>)

LEMMA FreqType ==
  ASSUME NEW s \in Hals, NEW r \in RfChains
  PROVE  <<s.conf.freq[r]>> \in Seq(Int) /\ s.conf.freq[r] \in Nat
<1>1. s.conf.freq[r] \in Nat
  BY DEF Hals, BoardConfs
<1> QED
  BY <1>1

\* The writes to a radio
LEMMA RadioWrites ==
  ASSUME NEW s \in Hals, NEW r \in RfChains,
         NEW o \in IF s.conf.sx1250 THEN sx1250_setup(s, r) ELSE sx125x_setup(s, r)
  PROVE  /\ Outcome(o) /\ Ran(s, o.s) /\ Quiet(s, o.s)
         /\ \A q \in RfChains : q # r => o.s.blk[RadioBlock(q)] = s.blk[RadioBlock(q)]
         /\ o.ok /\ s.conf.sx1250 => o.s.blk[RadioBlock(r)] = <<s.conf.freq[r]>>
<1> DEFINE v == <<s.conf.freq[r]>>
<1>0. v \in Seq(Int) /\ RadioBlock(r) \in Blocks
  BY FreqType, PinNames
<1>1. \A q \in RfChains : q # r => RadioBlock(q) # RadioBlock(r) /\ RadioBlock(q) \in Blocks
  BY DEF RadioBlock, RfChains, Blocks
<1> HIDE DEF v
<1>2. ASSUME NEW t \in Hals, NEW p \in WriteBlock(t, RadioBlock(r), v)
      PROVE  /\ Outcome(p) /\ Quiet(t, p.s)
             /\ \A q \in RfChains : q # r => p.s.blk[RadioBlock(q)] = t.blk[RadioBlock(q)]
             /\ p.ok => p.s.blk[RadioBlock(r)] = v
  <2>1. Outcome(p) /\ Quiet(t, p.s) /\ (p.ok => p.s.blk = [t.blk EXCEPT ![RadioBlock(r)] = v])
    BY <1>0, <1>2, WriteBlockIs
  <2>2. t.blk \in [Blocks -> Seq(Int)]
    BY DEF Hals, BlkStates
  <2>3. p.s.blk = [t.blk EXCEPT ![RadioBlock(r)] = v] \/ p.s.blk = [t.blk EXCEPT ![RadioBlock(r)] = Partial]
    BY <1>0, <1>2, BlockWritten
  <2> QED
    BY <1>0, <1>1, <2>1, <2>2, <2>3
<1>3. CASE s.conf.sx1250
  <2>1. PICK a \in Access(s) : Follows(a, o, WriteBlock(a.s, RadioBlock(r), <<a.s.conf.freq[r]>>))
    BY <1>3 DEF sx1250_setup, AndThen, Follows
  <2>2. Outcome(a) /\ Untouched(s, a.s)
    BY AccessIs
  <2>3. a.s \in Hals /\ a.s.conf = s.conf /\ a.s.blk = s.blk /\ Quiet(s, a.s)
    BY <2>2 DEF Untouched, Quiet, Kept
  <2>4. CASE a.ok
    <3>1. o \in WriteBlock(a.s, RadioBlock(r), v)
      BY <2>1, <2>3, <2>4 DEF Follows, v
    <3>2. /\ Outcome(o) /\ Quiet(a.s, o.s)
          /\ \A q \in RfChains : q # r => o.s.blk[RadioBlock(q)] = a.s.blk[RadioBlock(q)]
          /\ o.ok => o.s.blk[RadioBlock(r)] = v
      BY <1>2, <2>3, <3>1
    <3> QED
      BY <2>3, <3>2, KeptTwice, QuietRan DEF v
  <2>5. CASE ~a.ok
    BY <2>1, <2>2, <2>3, <2>5, QuietRan DEF Follows
  <2> QED
    BY <2>4, <2>5
<1>4. CASE ~s.conf.sx1250
  <2>1. PICK a \in Ignoring(WriteBlock(s, RadioBlock(r), v)) : Follows(a, o, Access(a.s))
    BY <1>4 DEF sx125x_setup, AndThen, Follows, v
  <2>2. PICK p \in WriteBlock(s, RadioBlock(r), v) : a = [p EXCEPT !.ok = TRUE]
    BY <2>1 DEF Ignoring
  <2>3. /\ Outcome(p) /\ Quiet(s, p.s)
        /\ \A q \in RfChains : q # r => p.s.blk[RadioBlock(q)] = s.blk[RadioBlock(q)]
    BY <1>2, <2>2
  <2>4. Outcome(a) /\ a.s = p.s /\ a.ok = TRUE
    BY <2>2, <2>3, IgnoredIs
  <2>5. a.s \in Hals
    BY <2>3, <2>4 DEF Quiet, Kept
  <2>6. o \in Access(a.s)
    BY <2>1, <2>4 DEF Follows
  <2>7. Outcome(o) /\ Untouched(a.s, o.s)
    BY <2>5, <2>6, AccessIs
  <2>8. Quiet(a.s, o.s) /\ o.s.blk = a.s.blk
    BY <2>7 DEF Untouched
  <2>9. Quiet(s, o.s)
    BY <2>3, <2>4, <2>8, KeptTwice
  <2> QED
    BY <1>4, <2>3, <2>4, <2>7, <2>8, <2>9, QuietRan
<1> QED
  BY <1>3, <1>4

\* A radio is reset, tuned, and left in the mode of its type.
LEMMA SetupRadioIs ==
  ASSUME NEW s \in Hals, NEW r \in RfChains, NEW o \in SetupRadio(s, r)
  PROVE  Outcome(o) /\ SetupOne(s, o.s, r) /\ (o.ok => RadioTuned(o.s, r))
<1> DEFINE setup(t) == IF t.conf.sx1250 THEN sx1250_setup(t, r) ELSE sx125x_setup(t, r)
           written == AndThen(sx1302_radio_reset(s, r), setup)
<1>1. PICK b \in written : Follows(b, o, sx1302_radio_set_mode(b.s, r))
  BY DEF SetupRadio, AndThen, Follows
<1>2. PICK a \in sx1302_radio_reset(s, r) : Follows(a, b, setup(a.s))
  BY DEF AndThen, Follows
<1> HIDE DEF written
<1>3. Outcome(a) /\ ResetOne(s, a.s, r) /\ (a.ok => ~HeldInReset(a.s, r)) /\ a.s \in Hals
  BY <1>2, ResetIsOne
<1>4. SetupOne(s, a.s, r)
  BY <1>3 DEF ResetOne, SetupOne
<1>5. CASE ~a.ok
  <2>1. b = a /\ o = a
    BY <1>1, <1>2, <1>5 DEF Follows
  <2> QED
    BY <1>3, <1>4, <1>5, <2>1
<1>6. CASE a.ok
  <2>1. b \in setup(a.s)
    BY <1>2, <1>6 DEF Follows
  <2>2. /\ Outcome(b) /\ Ran(a.s, b.s) /\ Quiet(a.s, b.s)
        /\ \A q \in RfChains : q # r => b.s.blk[RadioBlock(q)] = a.s.blk[RadioBlock(q)]
        /\ b.ok /\ a.s.conf.sx1250 => b.s.blk[RadioBlock(r)] = <<a.s.conf.freq[r]>>
    BY <1>3, <2>1, RadioWrites
  <2>3. b.s \in Hals /\ b.s.conf = a.s.conf /\ b.s.bit = a.s.bit
    BY <2>2 DEF Quiet, Kept
  <2>4. ~HeldInReset(b.s, r)
    BY <1>3, <1>6, <2>3, HeldStays
  <2>5. SetupOne(s, b.s, r)
    BY <1>4, <2>2, <2>3, RanTwice DEF SetupOne
  <2>6. b.ok => RadioTuned(b.s, r)
    BY <2>2, <2>3, <2>4 DEF RadioTuned
  <2>7. CASE ~b.ok
    BY <1>1, <2>2, <2>5, <2>7 DEF Follows
  <2>8. CASE b.ok
    <3>1. o \in sx1302_radio_set_mode(b.s, r)
      BY <1>1, <2>8 DEF Follows
    <3>2. /\ Outcome(o) /\ Ran(b.s, o.s) /\ Kept(b.s, o.s) /\ o.s.blk = b.s.blk
          /\ \A c \in Bits \ {Mode(r)} : o.s.bit[c] = b.s.bit[c]
          /\ \A q \in RfChains : o.s.bit[Rst(q)] = b.s.bit[Rst(q)]
      BY <2>3, <3>1, ModeIs
    <3>3. o.s.bit["fe"] = b.s.bit["fe"]
      <4>1. "fe" \in Bits \ {Mode(r)}
        BY DEF Bits, Mode
      <4> QED
        BY <3>2, <4>1
    <3>4. o.s \in Hals /\ o.s.conf = b.s.conf
      BY <3>2 DEF Kept
    <3>5. SetupOne(s, o.s, r)
      BY <2>5, <3>2, <3>3, <3>4, RanTwice DEF SetupOne
    <3>6. RadioTuned(o.s, r)
      BY <2>6, <2>8, <3>2, <3>4, HeldStays DEF RadioTuned
    <3> QED
      BY <3>2, <3>5, <3>6
  <2> QED
    BY <2>7, <2>8
<1> QED
  BY <1>5, <1>6

LEMMA RadiosTuned ==
  ASSUME NEW s \in Hals, NEW o \in EachEnabled(s, SetupRadio)
  PROVE  /\ Outcome(o) /\ Ran(s, o.s) /\ o.s \in Hals /\ o.s.conf = s.conf
         /\ o.s.bit["fe"] = s.bit["fe"]
         /\ o.ok => \A r \in RfChains : o.s.conf.enable[r] => RadioTuned(o.s, r)
<1> DEFINE on(t, r) == IF t.conf.enable[r] THEN SetupRadio(t, r) ELSE Succeeds(t)
<1>1. PICK a \in on(s, 0) : Follows(a, o, on(a.s, 1))
  BY DEF EachEnabled, AndThen, Follows
<1>2. ASSUME NEW t \in Hals, NEW r \in RfChains, NEW p \in on(t, r)
      PROVE  /\ Outcome(p) /\ SetupOne(t, p.s, r)
             /\ p.ok /\ p.s.conf.enable[r] => RadioTuned(p.s, r)
  <2>1. CASE t.conf.enable[r]
    BY <1>2, <2>1, SetupRadioIs
  <2>2. CASE ~t.conf.enable[r]
    <3>1. p.s = t /\ p.ok = TRUE /\ Outcome(p)
      BY <1>2, <2>2, OutcomeIs
    <3> QED
      BY <1>2, <2>2, <3>1, RanItself DEF SetupOne
  <2> QED
    BY <2>1, <2>2
<1> HIDE DEF on
<1>3. 0 \in RfChains /\ 1 \in RfChains /\ \A q \in RfChains : q = 0 \/ q = 1
  BY DEF RfChains
<1>4. Outcome(a) /\ SetupOne(s, a.s, 0) /\ (a.ok /\ a.s.conf.enable[0] => RadioTuned(a.s, 0))
  BY <1>1, <1>2, <1>3
<1>5. /\ Ran(s, a.s) /\ a.s \in Hals /\ a.s.conf = s.conf /\ a.s.bit["fe"] = s.bit["fe"]
  BY <1>4 DEF SetupOne
<1>6. CASE a.ok
  <2>1. o \in on(a.s, 1)
    BY <1>1, <1>6 DEF Follows
  <2>2. Outcome(o) /\ SetupOne(a.s, o.s, 1) /\ (o.ok /\ o.s.conf.enable[1] => RadioTuned(o.s, 1))
    BY <1>2, <1>3, <1>5, <2>1
  <2>3. /\ Ran(a.s, o.s) /\ o.s \in Hals /\ o.s.conf = a.s.conf /\ o.s.bit["fe"] = a.s.bit["fe"]
        /\ o.s.bit[Rst(0)] = a.s.bit[Rst(0)] /\ o.s.blk[RadioBlock(0)] = a.s.blk[RadioBlock(0)]
    BY <1>3, <2>2 DEF SetupOne
  <2>4. RadioTuned(a.s, 0) => RadioTuned(o.s, 0)
    BY <1>3, <2>3, HeldStays DEF RadioTuned
  <2>5. o.ok => \A r \in RfChains : o.s.conf.enable[r] => RadioTuned(o.s, r)
    BY <1>3, <1>4, <1>6, <2>2, <2>3, <2>4
  <2> QED
    BY <1>5, <2>2, <2>3, <2>5, RanTwice
<1>7. CASE ~a.ok
  BY <1>1, <1>4, <1>5, <1>7 DEF Follows
<1> QED
  BY <1>6, <1>7

LEMMA ResetType ==
  ASSUME NEW s \in Hals
  PROVE  /\ ChipReset(s) \in Hals /\ Ran(s, ChipReset(s)) /\ ChipReset(s).conf = s.conf
         /\ ChipReset(s).tx = NewChip.tx /\ Quiet([s EXCEPT !.bit = NewChip.bit], ChipReset(s))
         /\ ChipReset(s).started = s.started /\ ChipReset(s).ready = s.ready
<1>1. NewChip.bit \in BitStates
  BY DEF NewChip, BitStates
<1>2. NewChip.blk \in BlkStates
  <2>1. Unset \in Seq(Int)
    BY DEF Unset
  <2> QED
    BY <2>1 DEF NewChip, BlkStates
<1>3. NewChip.tx \in TxsStates
  BY DEF NewChip, TxsStates, TxStates
<1>4. PICK x \in BitStates, y \in BlkStates, z \in TxsStates :
        x = NewChip.bit /\ y = NewChip.blk /\ z = NewChip.tx
  BY <1>1, <1>2, <1>3
<1>5. PICK t : t = [s EXCEPT !.bit = x]
  OBVIOUS
<1>6. /\ t \in Hals /\ Kept(s, t) /\ t.clkFault = s.clkFault /\ t.lost = s.lost
      /\ t.started = s.started /\ t.ready = s.ready
  BY <1>5 DEF Hals, Kept
<1>7. PICK u : u = [t EXCEPT !.blk = y]
  OBVIOUS
<1>8. u \in Hals /\ Quiet(t, u) /\ u.started = t.started /\ u.ready = t.ready
  BY <1>6, <1>7 DEF Hals, Quiet, Kept
<1>9. PICK v : v = [u EXCEPT !.tx = z]
  OBVIOUS
<1>10. v \in Hals /\ Quiet(u, v) /\ v.tx = z /\ v.started = u.started /\ v.ready = u.ready
  BY <1>8, <1>9 DEF Hals, Quiet, Kept
<1>11. v = ChipReset(s)
  BY <1>4, <1>5, <1>7, <1>9 DEF ChipReset
<1>12. Quiet(t, v)
  BY <1>8, <1>10, KeptTwice
<1>13. Ran(s, t) /\ Ran(t, v) /\ v.conf = s.conf
  BY <1>6, <1>12, KeptRan, QuietRan DEF Quiet, Kept
<1> QED
  BY <1>4, <1>5, <1>6, <1>8, <1>10, <1>11, <1>12, <1>13, RanTwice

LEMMA ConnectIs ==
  ASSUME NEW s \in Hals, NEW o \in lgw_connect_chip(s)
  PROVE  Outcome(o) /\ Ran(s, o.s) /\ o.s \in Hals
<1>1. PICK a \in Access(s) : o = IF a.ok /\ s.conf.com = "USB" THEN [a EXCEPT !.s = ChipReset(a.s)] ELSE a
  BY DEF lgw_connect_chip
<1>2. Outcome(a) /\ Ran(s, a.s) /\ a.s \in Hals
  BY AccessRan
<1>3. CASE o = a
  BY <1>2, <1>3
<1>4. CASE o = [a EXCEPT !.s = ChipReset(a.s)]
  <2>1. ChipReset(a.s) \in Hals /\ Ran(a.s, ChipReset(a.s))
    BY <1>2, ResetType
  <2>2. o = [s |-> ChipReset(a.s), ok |-> a.ok, val |-> a.val] /\ a.ok \in BOOLEAN
    BY <1>2, <1>4 DEF Outcome
  <2>3. Outcome(o) /\ o.s = ChipReset(a.s)
    BY <2>2 DEF Outcome
  <2> QED
    BY <1>2, <2>1, <2>3, RanTwice
<1> QED
  BY <1>1, <1>3, <1>4

\* What the radios and the clock are once their start succeeded
RadiosReady(s) ==
  /\ \A r \in RfChains : s.conf.enable[r] => RadioTuned(s, r)
  /\ s.bit["clk"] = 1 /\ s.bit["selB"] = s.conf.clksrc /\ s.bit["fe"] = 0 /\ s.bit["host"] = 0

\* The first part of the start: the radios and the clock.
LEMMA StartRadiosIs ==
  ASSUME NEW s \in Hals, LutsRight(s), NEW o \in StartRadios(s)
  PROVE  Outcome(o) /\ Ran(s, o.s) /\ o.s \in Hals /\ (o.ok => RadiosReady(o.s))
<1> DEFINE connected == AndThen(lgw_connect_chip(s), LAMBDA t : sx1302_set_gpio(t, 0))
           calibrated == AndThen(connected, sx1302_radio_calibrate)
           tuned == AndThen(calibrated, LAMBDA t : EachEnabled(t, SetupRadio))
           clocked == AndThen(tuned, LAMBDA t : sx1302_radio_clock_select(t, t.conf.clksrc))
<1>1. PICK e \in clocked : Follows(e, o, sx1302_radio_host_ctrl(e.s, 0))
  BY DEF StartRadios, AndThen, Follows
<1>2. PICK d \in tuned : Follows(d, e, sx1302_radio_clock_select(d.s, d.s.conf.clksrc))
  BY DEF AndThen, Follows
<1>3. PICK c \in calibrated : Follows(c, d, EachEnabled(c.s, SetupRadio))
  BY DEF AndThen, Follows
<1>4. PICK b \in connected : Follows(b, c, sx1302_radio_calibrate(b.s))
  BY DEF AndThen, Follows
<1>5. PICK a \in lgw_connect_chip(s) : Follows(a, b, sx1302_set_gpio(a.s, 0))
  BY DEF AndThen, Follows
<1> HIDE DEF connected, calibrated, tuned, clocked
<1>6. Outcome(a) /\ Ran(s, a.s) /\ a.s \in Hals
  BY <1>5, ConnectIs
<1>0. /\ "gpio" \in Bits \ Clocks /\ "host" \in Bits \ Clocks
      /\ {"clk", "selB", "fe"} \subseteq Bits \ {"host"} /\ {"fe"} \subseteq Bits \ {"clk", "selB", "div"}
      /\ \A r \in RfChains : Rst(r) \in Bits \ {"host"} /\ Rst(r) \in Bits \ {"clk", "selB", "div"}
  BY DEF Bits, Clocks, Rst
<1>7. Outcome(b) /\ Ran(s, b.s) /\ b.s \in Hals
  <2>1. CASE a.ok
    <3>1. b \in WriteBit(a.s, "gpio", 0)
      BY <1>5, <2>1 DEF Follows, sx1302_set_gpio
    <3>2. Outcome(b) /\ Ran(a.s, b.s)
      BY <1>0, <1>6, <3>1, OtherBitRan
    <3> QED
      BY <1>6, <3>2, RanTwice DEF Ran
  <2>2. CASE ~a.ok
    BY <1>5, <1>6, <2>2 DEF Follows
  <2> QED
    BY <2>1, <2>2
<1>8. LutsRight(b.s)
  BY <1>7 DEF Ran
<1>9. Outcome(c) /\ Ran(s, c.s) /\ c.s \in Hals /\ (c.ok => c.s.bit["fe"] = 0)
  <2>1. CASE b.ok
    <3>1. Outcome(c) /\ Ran(b.s, c.s) /\ c.s \in Hals /\ (c.ok => c.s.bit["fe"] = 0)
      BY <1>4, <1>7, <1>8, <2>1, RadioCalibrateIs DEF Follows
    <3> QED
      BY <1>7, <3>1, RanTwice
  <2>2. CASE ~b.ok
    BY <1>4, <1>7, <2>2 DEF Follows
  <2> QED
    BY <2>1, <2>2
<1>10. /\ Outcome(d) /\ Ran(s, d.s) /\ d.s \in Hals
       /\ d.ok => /\ d.s.bit["fe"] = 0
                  /\ \A r \in RfChains : d.s.conf.enable[r] => RadioTuned(d.s, r)
  <2>1. CASE c.ok
    <3>1. /\ Outcome(d) /\ Ran(c.s, d.s) /\ d.s \in Hals /\ d.s.conf = c.s.conf
          /\ d.s.bit["fe"] = c.s.bit["fe"]
          /\ d.ok => \A r \in RfChains : d.s.conf.enable[r] => RadioTuned(d.s, r)
      BY <1>3, <1>9, <2>1, RadiosTuned DEF Follows
    <3> QED
      BY <1>9, <2>1, <3>1, RanTwice
  <2>2. CASE ~c.ok
    BY <1>3, <1>9, <2>2 DEF Follows
  <2> QED
    BY <2>1, <2>2
<1>11. /\ Outcome(e) /\ Ran(s, e.s) /\ e.s \in Hals
       /\ e.ok => /\ e.s.bit["fe"] = 0 /\ e.s.bit["clk"] = 1 /\ e.s.bit["selB"] = e.s.conf.clksrc
                  /\ \A r \in RfChains : e.s.conf.enable[r] => RadioTuned(e.s, r)
  <2>1. CASE d.ok
    <3>1. AllOut(d.s)
      BY <1>10, <2>1 DEF AllOut, RadioTuned
    <3>2. d.s.conf.clksrc \in RfChains
      BY <1>10 DEF Hals, BoardConfs
    <3>3. /\ Outcome(e) /\ Selected(d.s, e.s)
          /\ e.ok => e.s.bit["clk"] = 1 /\ e.s.bit["selB"] = d.s.conf.clksrc
      BY <1>2, <1>10, <2>1, <3>1, <3>2, ClockSelectIs DEF Follows
    <3>4. /\ Ran(d.s, e.s) /\ e.s \in Hals /\ e.s.conf = d.s.conf /\ e.s.blk = d.s.blk
          /\ e.s.bit["fe"] = d.s.bit["fe"] /\ \A r \in RfChains : e.s.bit[Rst(r)] = d.s.bit[Rst(r)]
      BY <1>0, <3>3, SelectedRan DEF Selected, Kept
    <3>5. \A r \in RfChains : e.s.conf.enable[r] => RadioTuned(e.s, r)
      BY <1>10, <2>1, <3>4, HeldStays DEF RadioTuned
    <3> QED
      BY <1>10, <2>1, <3>3, <3>4, <3>5, RanTwice
  <2>2. CASE ~d.ok
    BY <1>2, <1>10, <2>2 DEF Follows
  <2> QED
    BY <2>1, <2>2
<1>12. CASE e.ok
  <2>1. o \in WriteBit(e.s, "host", 0)
    BY <1>1, <1>12 DEF Follows, sx1302_radio_host_ctrl
  <2>2. /\ Outcome(o) /\ Kept(e.s, o.s) /\ o.s.blk = e.s.blk
        /\ \A c1 \in Bits \ {"host"} : o.s.bit[c1] = e.s.bit[c1]
        /\ o.ok => o.s.bit["host"] = 0
    BY <1>0, <1>11, <2>1, WriteOtherBit
  <2>3. Ran(e.s, o.s) /\ o.s \in Hals /\ o.s.conf = e.s.conf
    BY <1>0, <1>11, <2>1, <2>2, OtherBitRan DEF Kept
  <2>4. /\ \A r \in RfChains : o.s.bit[Rst(r)] = e.s.bit[Rst(r)]
        /\ o.s.bit["fe"] = e.s.bit["fe"] /\ o.s.bit["clk"] = e.s.bit["clk"] /\ o.s.bit["selB"] = e.s.bit["selB"]
    BY <1>0, <2>2
  <2>5. \A r \in RfChains : o.s.conf.enable[r] => RadioTuned(o.s, r)
    BY <1>11, <1>12, <2>2, <2>3, <2>4, HeldStays DEF RadioTuned
  <2>6. o.ok => RadiosReady(o.s)
    BY <1>11, <1>12, <2>2, <2>3, <2>4, <2>5 DEF RadiosReady
  <2> QED
    BY <1>11, <2>2, <2>3, <2>6, RanTwice
<1>13. CASE ~e.ok
  BY <1>1, <1>11, <1>13 DEF Follows
<1> QED
  BY <1>12, <1>13

-----------------------------------------------------------------------------
(* The blocks                                                              *)

\* The calls so far wrote the blocks of W, if all of them succeeded, and no others.
Filled(s, o, W) ==
  /\ Outcome(o) /\ Quiet(s, o.s)
  /\ o.ok => /\ \A b \in Blocks \ W : o.s.blk[b] = s.blk[b]
             /\ \A b \in Blocks \cap W : o.s.blk[b] # Partial

LEMMA FilledNone ==
  ASSUME NEW s \in Hals, NEW o, Outcome(o), Untouched(s, o.s)
  PROVE  Filled(s, o, {})
  BY DEF Filled, Untouched

\* The last of them wrote v.
StoredAs(a, o, b, v) ==
  o.ok => a.ok /\ o.s.blk[b] = v /\ \A c \in Blocks \ {b} : o.s.blk[c] = a.s.blk[c]

LEMMA FillStep ==
  ASSUME NEW s \in Hals, NEW W, NEW a, Filled(s, a, W), NEW b \in Blocks, NEW v \in Seq(Int), v # Partial,
         NEW o, Follows(a, o, WriteBlock(a.s, b, v))
  PROVE  Filled(s, o, W \cup {b}) /\ StoredAs(a, o, b, v)
<1>1. a.s \in Hals /\ Outcome(a) /\ Quiet(s, a.s)
  BY DEF Filled, Quiet, Kept
<1>2. CASE a.ok
  <2>1. o \in WriteBlock(a.s, b, v)
    BY <1>2 DEF Follows
  <2>2. Outcome(o) /\ Quiet(a.s, o.s) /\ (o.ok => o.s.blk = [a.s.blk EXCEPT ![b] = v])
    BY <1>1, <2>1, WriteBlockIs
  <2>3. a.s.blk \in [Blocks -> Seq(Int)]
    BY <1>1 DEF Hals, BlkStates
  <2>4. o.ok => o.s.blk[b] = v /\ \A c \in Blocks \ {b} : o.s.blk[c] = a.s.blk[c]
    BY <2>2, <2>3
  <2>5. Quiet(s, o.s)
    BY <1>1, <2>2, KeptTwice
  <2>6. o.ok => /\ \A c \in Blocks \ (W \cup {b}) : o.s.blk[c] = s.blk[c]
                /\ \A c \in Blocks \cap (W \cup {b}) : o.s.blk[c] # Partial
    BY <1>2, <2>4 DEF Filled
  <2> QED
    BY <1>2, <2>2, <2>4, <2>5, <2>6 DEF Filled, StoredAs
<1>3. CASE ~a.ok
  <2>1. o = a
    BY <1>3 DEF Follows
  <2> QED
    BY <1>1, <1>3, <2>1 DEF Filled, StoredAs
<1> QED
  BY <1>2, <1>3

\* A call that leaves the chip alone
Aside(s, t) == Quiet(s, t) /\ t.blk = s.blk

LEMMA AccessAside ==
  ASSUME NEW s \in Hals, NEW o \in Access(s)
  PROVE  Outcome(o) /\ Aside(s, o.s) /\ o.s \in Hals
  BY AccessIs DEF Untouched, Aside, Quiet, Kept

LEMMA AsideTwice ==
  ASSUME NEW s, NEW t, NEW u, Aside(s, t), Aside(t, u)
  PROVE  Aside(s, u)
  BY KeptTwice DEF Aside

LEMMA AsideItself ==
  ASSUME NEW s \in Hals
  PROVE  Aside(s, s)
  BY KeptItself DEF Aside

LEMMA PassStep ==
  ASSUME NEW s \in Hals, NEW W, NEW a, Filled(s, a, W), NEW o, NEW outs, Follows(a, o, outs),
         a.ok /\ o \in outs => Outcome(o) /\ Aside(a.s, o.s)
  PROVE  Filled(s, o, W) /\ (o.ok => a.ok /\ o.s.blk = a.s.blk)
<1>1. CASE a.ok
  <2>1. Outcome(o) /\ Quiet(a.s, o.s) /\ o.s.blk = a.s.blk
    BY <1>1 DEF Follows, Aside
  <2>2. Quiet(s, o.s)
    BY <2>1, KeptTwice DEF Filled
  <2> QED
    BY <1>1, <2>1, <2>2 DEF Filled
<1>2. CASE ~a.ok
  BY <1>2 DEF Follows, Filled
<1> QED
  BY <1>1, <1>2

LEMMA ConfType ==
  ASSUME NEW s \in Hals
  PROVE  /\ s.conf \in BoardConfs /\ s.conf.ifs \in Nat /\ s.conf.service \in Nat /\ s.conf.fsk \in Nat
         /\ s.conf.demod \in Nat /\ s.conf.freq[0] \in Nat
<1>1. s.conf \in BoardConfs
  BY DEF Hals
<1> QED
  BY <1>1 DEF BoardConfs, RfChains

\* A block is written with one value or two, none of which is that of a failed write.
LEMMA ValueType ==
  ASSUME NEW x \in Nat, NEW y \in Nat
  PROVE  /\ <<x>> \in Seq(Int) /\ <<x>> # Partial
         /\ <<x, y>> \in Seq(Int) /\ <<x, y>> # Partial
<1>1. <<x>> \in Seq(Int) /\ <<x, y>> \in Seq(Int) /\ Len(<<x, y>>) = 2 /\ Len(<<-1>>) = 1
      /\ <<x>>[1] = x /\ <<-1>>[1] = -1
  OBVIOUS
<1>2. <<x>> # <<-1>> /\ <<x, y>> # <<-1>>
  BY <1>1
<1> QED
  BY <1>1, <1>2 DEF Partial

ChannelBlocks == {"init", "pa_lna", "frontend", "channelizer", "correlator", "modem"}

LEMMA InitIs ==
  ASSUME NEW s \in Hals, NEW o \in sx1302_init(s)
  PROVE  Filled(s, o, {} \cup {"init"})
<1> DEFINE check(t) == IF t.conf.sx1303 THEN Succeeds(t) ELSE Fails(t)
           model == IF ~s.conf.ftime THEN Succeeds(s) ELSE AndThen(sx1302_get_model_id(s), check)
           stamped == AndThen(model, timestamp_counter_mode)
<1>1. PICK b \in stamped : Follows(b, o, sx1302_config_gpio(b.s))
  BY DEF sx1302_init, AndThen, Follows
<1>2. PICK a \in model : Follows(a, b, timestamp_counter_mode(a.s))
  BY DEF AndThen, Follows
<1> HIDE DEF stamped
<1>3. Outcome(a) /\ Untouched(s, a.s)
  <2>1. CASE ~s.conf.ftime
    BY <1>2, <2>1, OutcomeIs, KeptItself
  <2>2. CASE s.conf.ftime
    <3>1. PICK p \in Access(s) : Follows(p, a, check(p.s))
      BY <1>2, <2>2 DEF AndThen, Follows, sx1302_get_model_id
    <3>2. Outcome(p) /\ Untouched(s, p.s)
      BY <3>1, AccessIs
    <3>3. p.ok => Outcome(a) /\ a.s = p.s
      BY <3>1, OutcomeIs DEF Follows
    <3> QED
      BY <3>1, <3>2, <3>3 DEF Follows
  <2> QED
    BY <2>1, <2>2
<1>4. Filled(s, a, {})
  BY <1>3, FilledNone
<1>5. PICK x \in Nat : timestamp_counter_mode(a.s) = WriteBlock(a.s, "init", <<1, x>>)
  BY DEF timestamp_counter_mode
<1>6. <<1, x>> \in Seq(Int) /\ <<1, x>> # Partial /\ "init" \in Blocks
  BY ValueType DEF Blocks
<1>7. Filled(s, b, {} \cup {"init"})
  <2>1. PICK v \in Seq(Int) : v = <<1, x>> /\ v # Partial
    BY <1>6
  <2>2. Follows(a, b, WriteBlock(a.s, "init", v))
    BY <1>2, <1>5, <2>1
  <2> QED
    BY <1>4, <1>6, <2>1, <2>2, FillStep
<1>8. b.s \in Hals
  BY <1>7 DEF Filled, Quiet, Kept
<1>9. b.ok /\ o \in sx1302_config_gpio(b.s) => Outcome(o) /\ Aside(b.s, o.s)
  BY <1>8, AccessAside DEF sx1302_config_gpio
<1> QED
  BY <1>1, <1>7, <1>9, PassStep

LEMMA FilledConf ==
  ASSUME NEW s, NEW o, NEW W, Filled(s, o, W)
  PROVE  o.s \in Hals /\ o.s.conf = s.conf /\ Outcome(o)
  BY DEF Filled, Quiet, Kept

\* The second: the receivers.
LEMMA StartChannelsIs ==
  ASSUME NEW s \in Hals, NEW o \in StartChannels(s)
  PROVE  /\ Filled(s, o, ChannelBlocks)
         /\ o.ok => o.s.blk["channelizer"] = <<s.conf.ifs>> /\ o.s.blk["modem"] = <<s.conf.freq[0]>>
<1> DEFINE A1 == AndThen(sx1302_init(s), sx1302_pa_lna_lut_configure)
           A2 == AndThen(A1, sx1302_radio_fe_configure)
           A3 == AndThen(A2, sx1302_channelizer_configure)
           A4 == AndThen(A3, sx1302_lora_correlator_configure)
<1>1. PICK e \in A4 : Follows(e, o, sx1302_lora_modem_configure(e.s))
  BY DEF StartChannels, AndThen, Follows
<1>2. PICK d \in A3 : Follows(d, e, sx1302_lora_correlator_configure(d.s))
  BY DEF AndThen, Follows
<1>3. PICK c \in A2 : Follows(c, d, sx1302_channelizer_configure(c.s))
  BY DEF AndThen, Follows
<1>4. PICK b \in A1 : Follows(b, c, sx1302_radio_fe_configure(b.s))
  BY DEF AndThen, Follows
<1>5. PICK a \in sx1302_init(s) : Follows(a, b, sx1302_pa_lna_lut_configure(a.s))
  BY DEF AndThen, Follows
<1> HIDE DEF A1, A2, A3, A4
<1>0. {"pa_lna", "frontend", "channelizer", "correlator", "modem"} \subseteq Blocks
  BY DEF Blocks
<1> DEFINE W1 == {} \cup {"init"}
           W2 == W1 \cup {"pa_lna"}
           W3 == W2 \cup {"frontend"}
           W4 == W3 \cup {"channelizer"}
           W5 == W4 \cup {"correlator"}
           W6 == W5 \cup {"modem"}
<1>6. W6 = ChannelBlocks
  BY DEF ChannelBlocks
<1>7. Filled(s, a, W1)
  BY InitIs
<1> HIDE DEF W1, W2, W3, W4, W5, W6
<1>8. Filled(s, b, W2)
  <2>1. PICK x \in Nat : sx1302_pa_lna_lut_configure(a.s) = WriteBlock(a.s, "pa_lna", <<1, x>>)
    BY DEF sx1302_pa_lna_lut_configure
  <2>2. PICK v \in Seq(Int) : v = <<1, x>> /\ v # Partial
    BY ValueType
  <2>3. Follows(a, b, WriteBlock(a.s, "pa_lna", v))
    BY <1>5, <2>1, <2>2
  <2>4. Filled(s, b, W1 \cup {"pa_lna"})
    BY <1>0, <1>7, <2>2, <2>3, FillStep
  <2> QED
    BY <2>4 DEF W2
<1>9. Filled(s, c, W3)
  <2>1. <<1>> \in Seq(Int) /\ <<1>> # Partial
    BY ValueType
  <2> QED
    BY <1>0, <1>4, <1>8, <2>1, FillStep DEF W3, sx1302_radio_fe_configure
<1>10. Filled(s, d, W4) /\ StoredAs(c, d, "channelizer", <<s.conf.ifs>>)
  <2>1. PICK v \in Seq(Int) : v = <<s.conf.ifs>> /\ v # Partial
    BY ConfType, ValueType
  <2>2. Follows(c, d, WriteBlock(c.s, "channelizer", v))
    BY <1>3, <1>9, <2>1, FilledConf DEF sx1302_channelizer_configure
  <2>3. Filled(s, d, W3 \cup {"channelizer"}) /\ StoredAs(c, d, "channelizer", v)
    BY <1>0, <1>9, <2>1, <2>2, FillStep
  <2> QED
    BY <2>1, <2>3 DEF W4
<1>11. Filled(s, e, W5) /\ StoredAs(d, e, "correlator", <<s.conf.ifs, s.conf.demod>>)
  <2>1. PICK v \in Seq(Int) : v = <<s.conf.ifs, s.conf.demod>> /\ v # Partial
    BY ConfType, ValueType
  <2>2. Follows(d, e, WriteBlock(d.s, "correlator", v))
    BY <1>2, <1>10, <2>1, FilledConf DEF sx1302_lora_correlator_configure
  <2>3. Filled(s, e, W4 \cup {"correlator"}) /\ StoredAs(d, e, "correlator", v)
    <3>1. v # Partial /\ Filled(s, d, W4) /\ "correlator" \in Blocks
      BY <1>0, <1>10, <2>1
    <3> QED
      BY <2>2, <3>1, FillStep
  <2> QED
    BY <2>1, <2>3 DEF W5
<1>12. Filled(s, o, W6) /\ StoredAs(e, o, "modem", <<s.conf.freq[0]>>)
  <2>1. PICK v \in Seq(Int) : v = <<s.conf.freq[0]>> /\ v # Partial
    BY ConfType, ValueType
  <2>2. Follows(e, o, WriteBlock(e.s, "modem", v))
    BY <1>1, <1>11, <2>1, FilledConf DEF sx1302_lora_modem_configure
  <2>3. Filled(s, o, W5 \cup {"modem"}) /\ StoredAs(e, o, "modem", v)
    BY <1>0, <1>11, <2>1, <2>2, FillStep
  <2> QED
    BY <2>1, <2>3 DEF W6
<1>13. o.ok => o.s.blk["channelizer"] = <<s.conf.ifs>>
  <2>1. "channelizer" \in Blocks \ {"modem"} /\ "channelizer" \in Blocks \ {"correlator"}
    BY DEF Blocks
  <2> QED
    BY <1>10, <1>11, <1>12, <2>1 DEF StoredAs
<1> QED
  BY <1>6, <1>12, <1>13 DEF StoredAs

\* The optional modems: their blocks are written when they are enabled.
LEMMA ServiceIs ==
  ASSUME NEW s \in Hals,
         NEW o \in IF s.conf.service = 0 THEN Succeeds(s)
                   ELSE AndThen(sx1302_lora_service_correlator_configure(s), sx1302_lora_service_modem_configure)
  PROVE  /\ Outcome(o) /\ Quiet(s, o.s)
         /\ o.ok => /\ \A b \in Blocks \ {"service"} : o.s.blk[b] = s.blk[b]
                    /\ s.conf.service # 0 => o.s.blk["service"] = <<s.conf.service, s.conf.freq[0]>>
<1>1. CASE s.conf.service = 0
  BY <1>1, OutcomeIs, KeptItself
<1>2. CASE s.conf.service # 0
  <2>1. PICK a \in Access(s) : Follows(a, o, sx1302_lora_service_modem_configure(a.s))
    BY <1>2 DEF AndThen, Follows, sx1302_lora_service_correlator_configure
  <2>2. Outcome(a) /\ Aside(s, a.s) /\ a.s \in Hals
    BY <2>1, AccessAside
  <2>3. Quiet(s, a.s) /\ a.s.blk = s.blk /\ a.s.conf = s.conf
    BY <2>2 DEF Aside, Quiet, Kept
  <2>4. CASE ~a.ok
    BY <2>1, <2>2, <2>3, <2>4 DEF Follows
  <2>5. CASE a.ok
    <3>1. PICK v \in Seq(Int) : v = <<s.conf.service, s.conf.freq[0]>>
      BY ConfType, ValueType
    <3>2. o \in WriteBlock(a.s, "service", v)
      BY <2>1, <2>3, <2>5, <3>1 DEF Follows, sx1302_lora_service_modem_configure
    <3>3. "service" \in Blocks
      BY DEF Blocks
    <3>4. Outcome(o) /\ Quiet(a.s, o.s) /\ (o.ok => o.s.blk = [a.s.blk EXCEPT !["service"] = v])
      BY <2>2, <3>2, <3>3, WriteBlockIs
    <3>5. s.blk \in [Blocks -> Seq(Int)]
      BY DEF Hals, BlkStates
    <3>6. Quiet(s, o.s)
      BY <2>3, <3>4, KeptTwice
    <3>7. o.ok => (\A b \in Blocks \ {"service"} : o.s.blk[b] = s.blk[b]) /\ o.s.blk["service"] = v
      BY <2>3, <3>3, <3>4, <3>5
    <3> QED
      BY <3>1, <3>4, <3>6, <3>7
  <2> QED
    BY <2>4, <2>5
<1> QED
  BY <1>1, <1>2

LEMMA FskIs ==
  ASSUME NEW s \in Hals, NEW o \in IF s.conf.fsk = 0 THEN Succeeds(s) ELSE sx1302_fsk_configure(s)
  PROVE  /\ Outcome(o) /\ Quiet(s, o.s)
         /\ o.ok => \A b \in Blocks \ {"fsk"} : o.s.blk[b] = s.blk[b]
<1>1. CASE s.conf.fsk = 0
  BY <1>1, OutcomeIs, KeptItself
<1>2. CASE s.conf.fsk # 0
  <2>1. PICK v \in Seq(Int) : v = <<s.conf.fsk>>
    BY ConfType, ValueType
  <2>2. o \in WriteBlock(s, "fsk", v) /\ "fsk" \in Blocks
    BY <1>2, <2>1 DEF sx1302_fsk_configure, Blocks
  <2>3. Outcome(o) /\ Quiet(s, o.s) /\ (o.ok => o.s.blk = [s.blk EXCEPT !["fsk"] = v])
    BY <2>2, WriteBlockIs
  <2>4. s.blk \in [Blocks -> Seq(Int)]
    BY DEF Hals, BlkStates
  <2> QED
    BY <2>3, <2>4
<1> QED
  BY <1>1, <1>2

LEMMA FilledStart ==
  ASSUME NEW o, Outcome(o), o.s \in Hals
  PROVE  Filled(o.s, o, {})
  BY KeptItself, FilledNone

\* The third: the LoRa service, the FSK channel, the modems.
LEMMA StartModemsIs ==
  ASSUME NEW s \in Hals, NEW o \in StartModems(s)
  PROVE  /\ Outcome(o) /\ Quiet(s, o.s)
         /\ o.ok => /\ \A b \in Blocks \ {"service", "fsk", "syncword", "enable"} : o.s.blk[b] = s.blk[b]
                    /\ o.s.blk["syncword"] # Partial /\ o.s.blk["enable"] # Partial
                    /\ s.conf.service # 0 => o.s.blk["service"] = <<s.conf.service, s.conf.freq[0]>>
<1> DEFINE service(t) == IF t.conf.service = 0 THEN Succeeds(t)
                         ELSE AndThen(sx1302_lora_service_correlator_configure(t),
                                      sx1302_lora_service_modem_configure)
           fsk(t) == IF t.conf.fsk = 0 THEN Succeeds(t) ELSE sx1302_fsk_configure(t)
           A1 == AndThen(service(s), fsk)
           A2 == AndThen(A1, sx1302_lora_syncword)
<1>1. PICK c \in A2 : Follows(c, o, sx1302_modem_enable(c.s))
  BY DEF StartModems, AndThen, Follows
<1>2. PICK b \in A1 : Follows(b, c, sx1302_lora_syncword(b.s))
  BY DEF AndThen, Follows
<1>3. PICK a \in service(s) : Follows(a, b, fsk(a.s))
  BY DEF AndThen, Follows
<1> HIDE DEF A1, A2
<1>4. /\ Outcome(a) /\ Quiet(s, a.s)
      /\ a.ok => /\ \A x \in Blocks \ {"service"} : a.s.blk[x] = s.blk[x]
                 /\ s.conf.service # 0 => a.s.blk["service"] = <<s.conf.service, s.conf.freq[0]>>
  BY <1>3, ServiceIs
<1>5. a.s \in Hals
  BY <1>4 DEF Quiet, Kept
<1>6. a.ok => /\ Outcome(b) /\ Quiet(a.s, b.s)
              /\ b.ok => \A x \in Blocks \ {"fsk"} : b.s.blk[x] = a.s.blk[x]
  BY <1>3, <1>5, FskIs DEF Follows
<1> HIDE DEF service, fsk
<1>0. /\ {"syncword", "enable", "service"} \subseteq Blocks /\ "service" \in Blocks \ {"fsk"}
      /\ "service" \in Blocks \ ({"syncword"} \cup {"enable"})
  BY DEF Blocks
<1>7. /\ Outcome(b) /\ Quiet(s, b.s)
      /\ b.ok => /\ \A x \in Blocks \ {"service", "fsk"} : b.s.blk[x] = s.blk[x]
                 /\ s.conf.service # 0 => b.s.blk["service"] = <<s.conf.service, s.conf.freq[0]>>
  <2>1. CASE a.ok
    <3>1. Quiet(s, b.s)
      BY <1>4, <1>6, <2>1, KeptTwice
    <3> QED
      BY <1>0, <1>4, <1>6, <2>1, <3>1
  <2>2. CASE ~a.ok
    BY <1>3, <1>4, <2>2 DEF Follows
  <2> QED
    BY <2>1, <2>2
<1>8. b.s \in Hals /\ Filled(b.s, b, {})
  BY <1>7, FilledStart DEF Quiet, Kept
<1>9. Filled(b.s, c, {} \cup {"syncword"})
  <2>1. PICK x \in Nat : sx1302_lora_syncword(b.s) = WriteBlock(b.s, "syncword", <<x, b.s.conf.service>>)
    BY DEF sx1302_lora_syncword
  <2>2. PICK v \in Seq(Int) : v = <<x, b.s.conf.service>> /\ v # Partial
    BY <1>8, ConfType, ValueType
  <2>3. v # Partial /\ Follows(b, c, WriteBlock(b.s, "syncword", v)) /\ "syncword" \in Blocks
    BY <1>0, <1>2, <2>1, <2>2
  <2> QED
    BY <1>8, <2>3, FillStep
<1>10. Filled(b.s, o, {"syncword"} \cup {"enable"}) /\ StoredAs(c, o, "enable", <<1>>)
  <2>1. {} \cup {"syncword"} = {"syncword"}
    OBVIOUS
  <2>2. Filled(b.s, c, {"syncword"})
    BY <1>9, <2>1
  <2>3. <<1>> \in Seq(Int) /\ <<1>> # Partial
    BY ValueType
  <2>4. Follows(c, o, WriteBlock(c.s, "enable", <<1>>))
    BY <1>1 DEF sx1302_modem_enable
  <2> QED
    BY <1>0, <1>8, <2>2, <2>3, <2>4, FillStep
<1>11. o.ok => b.ok
  BY <1>1, <1>2 DEF Follows
<1>12. Outcome(o) /\ Quiet(b.s, o.s)
  BY <1>10 DEF Filled
<1>13. Quiet(s, o.s)
  BY <1>7, <1>12, KeptTwice
<1>14. o.ok => /\ \A x \in Blocks \ ({"syncword"} \cup {"enable"}) : o.s.blk[x] = b.s.blk[x]
               /\ o.s.blk["syncword"] # Partial /\ o.s.blk["enable"] # Partial
  BY <1>0, <1>10 DEF Filled
<1>15. o.ok => \A x \in Blocks \ {"service", "fsk", "syncword", "enable"} : o.s.blk[x] = s.blk[x]
  BY <1>7, <1>11, <1>14
<1> QED
  BY <1>0, <1>7, <1>11, <1>12, <1>13, <1>14, <1>15

\* The fourth: the firmware of the MCUs, which replaces that of the calibration.
LEMMA StartMcusAre ==
  ASSUME NEW s \in Hals, NEW o \in StartMcus(s)
  PROVE  /\ Filled(s, o, {"agc", "arb"})
         /\ o.ok => o.s.blk["agc"] = AgcFirmware(s) /\ o.s.blk["arb"] = ArbFirmware
<1> DEFINE A1 == AndThen(LoadMcu(s, "agc", AgcFirmware(s)), Access)
           A2 == AndThen(A1, LAMBDA t : LoadMcu(t, "arb", ArbFirmware))
<1>1. PICK c \in A2 : Follows(c, o, Access(c.s))
  BY DEF StartMcus, AndThen, Follows
<1>2. PICK b \in A1 : Follows(b, c, LoadMcu(b.s, "arb", ArbFirmware))
  BY DEF AndThen, Follows
<1>3. PICK a \in LoadMcu(s, "agc", AgcFirmware(s)) : Follows(a, b, Access(a.s))
  BY DEF AndThen, Follows
<1> HIDE DEF A1, A2
<1>0. "agc" \in Blocks /\ "arb" \in Blocks /\ "agc" # "arb"
  BY DEF Blocks
<1>4. /\ AgcFirmware(s) \in Seq(Int) /\ AgcFirmware(s) # Partial
      /\ ArbFirmware \in Seq(Int) /\ ArbFirmware # Partial
  BY ValueType DEF AgcFirmware, ArbFirmware
<1>5. PICK z : z = Result(s, TRUE)
  OBVIOUS
<1>6. Outcome(z) /\ z.s = s /\ z.ok = TRUE
  BY <1>5 DEF Result, Outcome
<1>7. Filled(s, z, {})
  BY <1>6, FilledStart
<1>8. Follows(z, a, WriteBlock(z.s, "agc", AgcFirmware(s)))
  BY <1>3, <1>6 DEF Follows, LoadMcu
<1>9. Filled(s, a, {} \cup {"agc"}) /\ StoredAs(z, a, "agc", AgcFirmware(s))
  BY <1>0, <1>4, <1>7, <1>8, FillStep
<1>10. {} \cup {"agc"} = {"agc"} /\ {"agc"} \cup {"arb"} = {"agc", "arb"}
  OBVIOUS
<1>11. Filled(s, a, {"agc"}) /\ a.s \in Hals
  BY <1>9, <1>10, FilledConf
<1>12. Filled(s, b, {"agc"}) /\ (b.ok => a.ok /\ b.s.blk = a.s.blk)
  BY <1>3, <1>11, AccessAside, PassStep
<1>13. Filled(s, c, {"agc"} \cup {"arb"}) /\ StoredAs(b, c, "arb", ArbFirmware)
  BY <1>0, <1>2, <1>4, <1>12, FillStep DEF LoadMcu
<1>14. Filled(s, c, {"agc", "arb"}) /\ c.s \in Hals
  BY <1>10, <1>13, FilledConf
<1>15. Filled(s, o, {"agc", "arb"}) /\ (o.ok => c.ok /\ o.s.blk = c.s.blk)
  BY <1>1, <1>14, AccessAside, PassStep
<1> QED
  BY <1>0, <1>9, <1>12, <1>13, <1>15 DEF StoredAs

-----------------------------------------------------------------------------
(* The peripherals                                                         *)

LEMMA SensorConfigured ==
  ASSUME NEW s \in Hals, NEW o \in stts751_configure(s)
  PROVE  Outcome(o) /\ Aside(s, o.s) /\ o.s \in Hals
<1> USE DEF i2c_linuxdev_read, i2c_linuxdev_write
<1>1. CASE o \in Fails(s)
  BY <1>1, OutcomeIs, AsideItself
<1>2. CASE o \in AndThen(AndThen(i2c_linuxdev_read(s), i2c_linuxdev_write), i2c_linuxdev_write)
  <2>1. PICK b \in AndThen(Access(s), i2c_linuxdev_write) : Follows(b, o, Access(b.s))
    BY <1>2 DEF AndThen, Follows
  <2>2. PICK a \in Access(s) : Follows(a, b, Access(a.s))
    BY <2>1 DEF AndThen, Follows
  <2>3. Outcome(a) /\ Aside(s, a.s) /\ a.s \in Hals
    BY <2>2, AccessAside
  <2>4. Outcome(b) /\ Aside(s, b.s) /\ b.s \in Hals
    BY <2>2, <2>3, AccessAside, AsideTwice DEF Follows
  <2> QED
    BY <2>1, <2>4, AccessAside, AsideTwice DEF Follows
<1> QED
  BY <1>1, <1>2 DEF stts751_configure

\* The descriptors of the I2C devices
LEMMA DescriptorSet ==
  ASSUME NEW p, Outcome(p), p.s \in Hals, NEW n \in Int, NEW o,
         o = [p EXCEPT !.s.ts = n] \/ o = [p EXCEPT !.s.ad = n]
  PROVE  Outcome(o) /\ Aside(p.s, o.s) /\ o.ok = p.ok /\ o.s \in Hals
<1>1. PICK t : t = o.s
  OBVIOUS
<1>2. PICK u : (u = [p.s EXCEPT !.ts = n] \/ u = [p.s EXCEPT !.ad = n]) /\ o = [p EXCEPT !.s = u]
  OBVIOUS
<1>3. o = [s |-> u, ok |-> p.ok, val |-> p.val] /\ p.ok \in BOOLEAN
  BY <1>2 DEF Outcome
<1>4. u \in Hals /\ Aside(p.s, u)
  BY <1>2 DEF Hals, Aside, Quiet, Kept
<1> QED
  BY <1>3, <1>4 DEF Outcome

LEMMA FindIs ==
  ASSUME NEW s \in Hals, NEW p \in AndThen(i2c_linuxdev_open(s), stts751_configure), NEW o,
         o = [p EXCEPT !.s.ts = IF p.ok THEN 1 ELSE -1]
  PROVE  Outcome(o) /\ Aside(s, o.s) /\ o.s \in Hals
<1>1. PICK a \in Access(s) : Follows(a, p, stts751_configure(a.s))
  BY DEF AndThen, Follows, i2c_linuxdev_open
<1>2. Outcome(a) /\ Aside(s, a.s) /\ a.s \in Hals
  BY <1>1, AccessAside
<1>3. Outcome(p) /\ Aside(s, p.s) /\ p.s \in Hals
  BY <1>1, <1>2, SensorConfigured, AsideTwice DEF Follows
<1>4. PICK n \in Int : n = IF p.ok THEN 1 ELSE -1
  OBVIOUS
<1>5. Outcome(o) /\ Aside(p.s, o.s) /\ o.s \in Hals
  BY <1>3, <1>4, DescriptorSet
<1> QED
  BY <1>3, <1>5, AsideTwice

LEMMA FindSensorIs ==
  ASSUME NEW s \in Hals, NEW o \in FindSensor(s)
  PROVE  Outcome(o) /\ Aside(s, o.s)
<1> DEFINE find(t) == {[p EXCEPT !.s.ts = IF p.ok THEN 1 ELSE -1] :
                         p \in AndThen(i2c_linuxdev_open(t), stts751_configure)}
<1>1. CASE s.conf.com # "SPI"
  BY <1>1, OutcomeIs, AsideItself DEF FindSensor
<1>2. CASE s.conf.com = "SPI"
  <2>1. PICK a \in find(s) : IF a.ok THEN o = a ELSE o \in Ignoring(find(a.s))
    BY <1>2 DEF FindSensor
  <2>2. Outcome(a) /\ Aside(s, a.s) /\ a.s \in Hals
    BY <2>1, FindIs
  <2>3. CASE a.ok
    BY <2>1, <2>2, <2>3
  <2>4. CASE ~a.ok
    <3>1. PICK q \in find(a.s) : o = [q EXCEPT !.ok = TRUE]
      BY <2>1, <2>4 DEF Ignoring
    <3>2. Outcome(q) /\ Aside(a.s, q.s)
      BY <2>2, <3>1, FindIs
    <3>3. Outcome(o) /\ o.s = q.s
      BY <3>1, <3>2, IgnoredIs
    <3> QED
      BY <2>2, <3>2, <3>3, AsideTwice
  <2> QED
    BY <2>3, <2>4
<1> QED
  BY <1>1, <1>2

LEMMA DacConfigured ==
  ASSUME NEW s \in Hals, NEW o \in ad5338r_configure(s)
  PROVE  Outcome(o) /\ Aside(s, o.s) /\ o.s \in Hals
<1> USE DEF i2c_linuxdev_write, ad5338r_write, i2c_linuxdev_write_buffer
<1>1. PICK b \in AndThen(Access(s), ad5338r_write) : Follows(b, o, Access(b.s))
  BY DEF AndThen, Follows, ad5338r_configure
<1>2. PICK a \in Access(s) : Follows(a, b, Access(a.s))
  BY <1>1 DEF AndThen, Follows
<1>3. Outcome(a) /\ Aside(s, a.s) /\ a.s \in Hals
  BY <1>2, AccessAside
<1>4. Outcome(b) /\ Aside(s, b.s) /\ b.s \in Hals
  BY <1>2, <1>3, AccessAside, AsideTwice DEF Follows
<1> QED
  BY <1>1, <1>4, AccessAside, AsideTwice DEF Follows

LEMMA ConfigureDacIs ==
  ASSUME NEW s \in Hals, NEW o \in ConfigureDac(s)
  PROVE  Outcome(o) /\ Aside(s, o.s)
<1> DEFINE configured(t) == {[p EXCEPT !.s.ad = IF p.ok THEN 1 ELSE -1] : p \in ad5338r_configure(t)}
           opened == AndThen(i2c_linuxdev_open(s), configured)
<1>1. CASE s.conf.com # "SPI" \/ ~s.conf.duplex
  BY <1>1, OutcomeIs, AsideItself DEF ConfigureDac
<1>2. CASE ~(s.conf.com # "SPI" \/ ~s.conf.duplex)
  <2>1. PICK b \in opened : Follows(b, o, Access(b.s))
    BY <1>2 DEF ConfigureDac, AndThen, Follows, ad5338r_write, i2c_linuxdev_write_buffer
  <2>2. PICK a \in Access(s) : Follows(a, b, configured(a.s))
    BY <2>1 DEF AndThen, Follows, i2c_linuxdev_open
  <2>3. Outcome(a) /\ Aside(s, a.s) /\ a.s \in Hals
    BY <2>2, AccessAside
  <2>4. Outcome(b) /\ Aside(s, b.s) /\ b.s \in Hals
    <3>1. CASE a.ok
      <4>1. PICK p \in ad5338r_configure(a.s) : b = [p EXCEPT !.s.ad = IF p.ok THEN 1 ELSE -1]
        BY <2>2, <3>1 DEF Follows
      <4>2. Outcome(p) /\ Aside(a.s, p.s) /\ p.s \in Hals
        BY <2>3, <4>1, DacConfigured
      <4>3. PICK n \in Int : n = IF p.ok THEN 1 ELSE -1
        <5> HIDE DEF opened, configured
        <5>1. CASE p.ok
          <6>1. (IF p.ok THEN 1 ELSE -1) = 1
            BY <5>1
          <6> QED
            BY <6>1
        <5>2. CASE ~p.ok
          <6>1. (IF p.ok THEN 1 ELSE -1) = -1
            BY <5>2
          <6> QED
            BY <6>1
        <5> QED
          BY <5>1, <5>2
      <4>4. Outcome(b) /\ Aside(p.s, b.s) /\ b.s \in Hals
        BY <4>1, <4>2, <4>3, DescriptorSet
      <4> QED
        BY <2>3, <4>2, <4>4, AsideTwice
    <3>2. CASE ~a.ok
      BY <2>2, <2>3, <3>2 DEF Follows
    <3> QED
      BY <3>1, <3>2
  <2> HIDE DEF opened, configured
  <2> QED
    BY <2>1, <2>4, AccessAside, AsideTwice DEF Follows
<1> QED
  BY <1>1, <1>2

\* The start of the SX1261 writes its own block only.
OnlySx1261(s, t) ==
  /\ Quiet(s, t) /\ t \in Hals /\ \A b \in Blocks \ {"sx1261"} : t.blk[b] = s.blk[b]

LEMMA OnlyTwice ==
  ASSUME NEW s, NEW t, NEW u, OnlySx1261(s, t), OnlySx1261(t, u)
  PROVE  OnlySx1261(s, u)
  BY KeptTwice DEF OnlySx1261

LEMMA OnlyAccess ==
  ASSUME NEW s \in Hals, NEW o \in Access(s)
  PROVE  Outcome(o) /\ OnlySx1261(s, o.s) /\ o.s \in Hals
  BY AccessAside DEF Aside, OnlySx1261

LEMMA OnlyWrite ==
  ASSUME NEW s \in Hals, NEW x \in Nat, NEW o \in WriteBlock(s, "sx1261", <<x>>)
  PROVE  Outcome(o) /\ OnlySx1261(s, o.s)
<1>1. PICK v \in Seq(Int) : v = <<x>>
  BY ValueType
<1>2. "sx1261" \in Blocks /\ s.blk \in [Blocks -> Seq(Int)]
  BY DEF Blocks, Hals, BlkStates
<1>3. Outcome(o) /\ Quiet(s, o.s)
  BY <1>1, <1>2, WriteBlockIs
<1>4. o.s.blk = [s.blk EXCEPT !["sx1261"] = v] \/ o.s.blk = [s.blk EXCEPT !["sx1261"] = Partial]
  BY <1>1, <1>2, BlockWritten
<1> QED
  BY <1>2, <1>3, <1>4 DEF OnlySx1261, Quiet, Kept

LEMMA Sx1261Loaded ==
  ASSUME NEW s \in Hals, NEW x \in Nat, NEW o, NEW a \in Access(s),
         Follows(a, o, WriteBlock(a.s, "sx1261", <<x>>))
  PROVE  Outcome(o) /\ OnlySx1261(s, o.s) /\ o.s \in Hals
<1>1. Outcome(a) /\ OnlySx1261(s, a.s) /\ a.s \in Hals
  BY OnlyAccess
<1>2. CASE a.ok
  <2>1. Outcome(o) /\ OnlySx1261(a.s, o.s)
    BY <1>1, <1>2, OnlyWrite DEF Follows
  <2> QED
    BY <1>1, <2>1, OnlyTwice DEF OnlySx1261
<1>3. CASE ~a.ok
  BY <1>1, <1>3 DEF Follows
<1> QED
  BY <1>2, <1>3

LEMMA StartSx1261Is ==
  ASSUME NEW s \in Hals, NEW o \in StartSx1261(s)
  PROVE  Outcome(o) /\ OnlySx1261(s, o.s)
<1> DEFINE A1 == AndThen(sx1261_connect(s), sx1261_load_pram)
           A2 == AndThen(A1, sx1261_calibrate)
<1>1. CASE ~s.conf.sx1261
  BY <1>1, OutcomeIs, AsideItself DEF StartSx1261, Aside, OnlySx1261
<1>2. CASE s.conf.sx1261
  <2>1. PICK c \in A2 : Follows(c, o, sx1261_setup(c.s))
    BY <1>2 DEF StartSx1261, AndThen, Follows
  <2>2. PICK b \in A1 : Follows(b, c, sx1261_calibrate(b.s))
    BY DEF AndThen, Follows
  <2>3. PICK a \in Access(s) : Follows(a, b, sx1261_load_pram(a.s))
    BY DEF AndThen, Follows, sx1261_connect
  <2> HIDE DEF A1, A2
  <2>4. Outcome(a) /\ OnlySx1261(s, a.s) /\ a.s \in Hals
    BY <2>3, OnlyAccess
  <2>5. Outcome(b) /\ OnlySx1261(s, b.s) /\ b.s \in Hals
    <3>1. CASE a.ok
      <4>1. PICK p \in Access(a.s) : Follows(p, b, WriteBlock(p.s, "sx1261", <<1>>))
        BY <2>3, <3>1 DEF Follows, AndThen, sx1261_load_pram
      <4>2. Outcome(b) /\ OnlySx1261(a.s, b.s) /\ b.s \in Hals
        BY <2>4, <4>1, Sx1261Loaded
      <4> QED
        BY <2>4, <4>2, OnlyTwice
    <3>2. CASE ~a.ok
      BY <2>3, <2>4, <3>2 DEF Follows
    <3> QED
      BY <3>1, <3>2
  <2>6. Outcome(c) /\ OnlySx1261(s, c.s) /\ c.s \in Hals
    <3>1. CASE b.ok
      <4>1. c \in Access(b.s) \/ \E p \in Access(b.s) : c \in Fails(p.s)
        BY <2>2, <3>1 DEF Follows, sx1261_calibrate, Anyway
      <4>2. Outcome(c) /\ OnlySx1261(b.s, c.s) /\ c.s \in Hals
        BY <2>5, <4>1, OnlyAccess, OutcomeIs
      <4> QED
        BY <2>5, <4>2, OnlyTwice
    <3>2. CASE ~b.ok
      BY <2>2, <2>5, <3>2 DEF Follows
    <3> QED
      BY <3>1, <3>2
  <2>7. CASE c.ok
    <3>1. PICK p \in Access(c.s) : Follows(p, o, WriteBlock(p.s, "sx1261", <<2>>))
      BY <2>1, <2>7 DEF Follows, AndThen, sx1261_setup
    <3>2. Outcome(o) /\ OnlySx1261(c.s, o.s)
      BY <2>6, <3>1, Sx1261Loaded
    <3> QED
      BY <2>6, <3>2, OnlyTwice
  <2>8. CASE ~c.ok
    BY <2>1, <2>6, <2>8 DEF Follows
  <2> QED
    BY <2>7, <2>8
<1> QED
  BY <1>1, <1>2

\* The last: the transmitter, the GPS, the sensor, the DAC and the SX1261.
LEMMA StartPeripheralsAre ==
  ASSUME NEW s \in Hals, NEW o \in StartPeripherals(s)
  PROVE  /\ Outcome(o) /\ Kept(s, o.s) /\ o.s.clkFault = s.clkFault /\ o.s.lost = s.lost
         /\ \A c \in Bits \ {"gpio"} : o.s.bit[c] = s.bit[c]
         /\ o.ok => /\ \A b \in Blocks \ {"tx", "gps", "sx1261"} : o.s.blk[b] = s.blk[b]
                    /\ o.s.blk["tx"] # Partial /\ o.s.blk["gps"] # Partial
<1> DEFINE A1 == AndThen(sx1302_tx_configure(s), sx1302_gps_enable)
           A2 == AndThen(A1, FindSensor)
           A3 == AndThen(A2, ConfigureDac)
           A4 == AndThen(A3, StartSx1261)
<1>1. PICK e \in A4 : Follows(e, o, sx1302_set_gpio(e.s, 1))
  BY DEF StartPeripherals, AndThen, Follows
<1>2. PICK d \in A3 : Follows(d, e, StartSx1261(d.s))
  BY DEF AndThen, Follows
<1>3. PICK c \in A2 : Follows(c, d, ConfigureDac(c.s))
  BY DEF AndThen, Follows
<1>4. PICK b \in A1 : Follows(b, c, FindSensor(b.s))
  BY DEF AndThen, Follows
<1>5. PICK a \in sx1302_tx_configure(s) : Follows(a, b, sx1302_gps_enable(a.s))
  BY DEF AndThen, Follows
<1> HIDE DEF A1, A2, A3, A4
<1>0. /\ "tx" \in Blocks /\ "gps" \in Blocks /\ "tx" # "gps" /\ "gpio" \in Bits \ Clocks
      /\ "tx" \in Blocks \ {"sx1261"} /\ "gps" \in Blocks \ {"sx1261"}
      /\ {} \cup {"tx"} = {"tx"} /\ {"tx"} \cup {"gps"} = {"tx", "gps"}
  BY DEF Blocks, Bits, Clocks
<1>6. PICK z : z = Result(s, TRUE)
  OBVIOUS
<1>7. Outcome(z) /\ z.s = s /\ z.ok = TRUE
  BY <1>6 DEF Result, Outcome
<1>8. Filled(s, z, {})
  BY <1>7, FilledStart
<1>9. Filled(s, a, {"tx"})
  <2>1. PICK x \in Nat : sx1302_tx_configure(s) = WriteBlock(s, "tx", <<x>>)
    BY DEF sx1302_tx_configure
  <2>2. PICK v \in Seq(Int) : v = <<x>> /\ v # Partial
    BY ValueType
  <2>3. v # Partial /\ Follows(z, a, WriteBlock(z.s, "tx", v))
    BY <1>5, <1>7, <2>1, <2>2 DEF Follows
  <2>4. Filled(s, a, {} \cup {"tx"})
    BY <1>0, <1>8, <2>3, FillStep
  <2> QED
    BY <1>0, <2>4
<1>10. Filled(s, b, {"tx", "gps"})
  <2>1. <<1>> \in Seq(Int) /\ <<1>> # Partial
    BY ValueType
  <2>2. Follows(a, b, WriteBlock(a.s, "gps", <<1>>))
    BY <1>5 DEF sx1302_gps_enable
  <2>3. Filled(s, b, {"tx"} \cup {"gps"})
    BY <1>0, <1>9, <2>1, <2>2, FillStep
  <2> QED
    BY <1>0, <2>3
<1>11. b.s \in Hals
  BY <1>10, FilledConf
<1>12. Filled(s, c, {"tx", "gps"})
  BY <1>4, <1>10, <1>11, FindSensorIs, PassStep
<1>13. c.s \in Hals
  BY <1>12, FilledConf
<1>14. Filled(s, d, {"tx", "gps"})
  BY <1>3, <1>12, <1>13, ConfigureDacIs, PassStep
<1>15. d.s \in Hals /\ Outcome(d) /\ Quiet(s, d.s)
  BY <1>14, FilledConf DEF Filled
<1>16. /\ Outcome(e) /\ Quiet(s, e.s) /\ e.s \in Hals
       /\ e.ok => d.ok /\ \A x \in Blocks \ {"sx1261"} : e.s.blk[x] = d.s.blk[x]
  <2>1. CASE d.ok
    <3>1. Outcome(e) /\ OnlySx1261(d.s, e.s)
      BY <1>2, <1>15, <2>1, StartSx1261Is DEF Follows
    <3>2. Quiet(d.s, e.s) /\ e.s \in Hals /\ \A x \in Blocks \ {"sx1261"} : e.s.blk[x] = d.s.blk[x]
      BY <3>1 DEF OnlySx1261
    <3>3. Quiet(s, e.s)
      BY <1>15, <3>2, KeptTwice
    <3> QED
      BY <2>1, <3>1, <3>2, <3>3
  <2>2. CASE ~d.ok
    BY <1>2, <1>15, <2>2 DEF Follows
  <2> QED
    BY <2>1, <2>2
<1>17. Kept(s, e.s) /\ e.s.clkFault = s.clkFault /\ e.s.lost = s.lost /\ e.s.bit = s.bit
  BY <1>16 DEF Quiet
<1>18. /\ Outcome(o) /\ Kept(s, o.s) /\ o.s.clkFault = s.clkFault /\ o.s.lost = s.lost
       /\ \A x \in Bits \ {"gpio"} : o.s.bit[x] = s.bit[x]
       /\ o.ok => e.ok /\ o.s.blk = e.s.blk
  <2>1. CASE e.ok
    <3>1. o \in WriteBit(e.s, "gpio", 1)
      BY <1>1, <2>1 DEF Follows, sx1302_set_gpio
    <3>2. /\ Outcome(o) /\ Kept(e.s, o.s) /\ o.s.blk = e.s.blk
          /\ o.s.clkFault = e.s.clkFault /\ o.s.lost = e.s.lost
          /\ \A x \in Bits \ {"gpio"} : o.s.bit[x] = e.s.bit[x]
      BY <1>0, <1>16, <3>1, WriteOtherBit
    <3>3. Kept(s, o.s)
      BY <1>17, <3>2, KeptTwice
    <3> QED
      BY <1>17, <2>1, <3>2, <3>3
  <2>2. CASE ~e.ok
    BY <1>1, <1>16, <1>17, <2>2 DEF Follows
  <2> QED
    BY <2>1, <2>2
<1>19. o.ok => /\ \A x \in Blocks \ {"tx", "gps", "sx1261"} : o.s.blk[x] = s.blk[x]
               /\ o.s.blk["tx"] # Partial /\ o.s.blk["gps"] # Partial
  <2>1. d.ok => /\ \A x \in Blocks \ {"tx", "gps"} : d.s.blk[x] = s.blk[x]
                /\ d.s.blk["tx"] # Partial /\ d.s.blk["gps"] # Partial
    BY <1>0, <1>14 DEF Filled
  <2> QED
    BY <1>0, <1>16, <1>18, <2>1
<1> QED
  BY <1>18, <1>19

-----------------------------------------------------------------------------
(* The start                                                               *)

\* The blocks that every start writes
StartBlocks == Blocks \ {"radio0", "radio1", "image", "service", "fsk", "sx1261"}

Ready(s) ==
  LET c == s.conf IN
    /\ \A r \in RfChains : c.sx1250 /\ c.enable[r] => s.blk[RadioBlock(r)] = <<c.freq[r]>> /\ ~HeldInReset(s, r)
    /\ s.bit["clk"] = 1 /\ s.bit["selB"] = c.clksrc
    /\ s.bit["fe"] = 0 /\ s.bit["host"] = 0
    /\ s.blk["channelizer"] = <<c.ifs>>
    /\ s.blk["modem"] = <<c.freq[0]>>
    /\ c.service # 0 => s.blk["service"] = <<c.service, c.freq[0]>>
    /\ s.blk["agc"] = AgcFirmware(s) /\ s.blk["arb"] = ArbFirmware
    /\ \A b \in StartBlocks : s.blk[b] # Partial

\* A start keeps what is right, and one that succeeds leaves the chip configured.
LEMMA StartRuns ==
  ASSUME NEW s \in Hals, LutsRight(s),
         NEW o \in AndThen(AndThen(AndThen(AndThen(StartRadios(s), StartChannels), StartModems), StartMcus),
                           StartPeripherals)
  PROVE  Outcome(o) /\ Ran(s, o.s) /\ o.s \in Hals /\ (o.ok => Ready(o.s))
<1> DEFINE A1 == AndThen(StartRadios(s), StartChannels)
           A2 == AndThen(A1, StartModems)
           A3 == AndThen(A2, StartMcus)
<1>1. PICK d \in A3 : Follows(d, o, StartPeripherals(d.s))
  BY DEF AndThen, Follows
<1>2. PICK c \in A2 : Follows(c, d, StartMcus(c.s))
  BY DEF AndThen, Follows
<1>3. PICK b \in A1 : Follows(b, c, StartModems(b.s))
  BY DEF AndThen, Follows
<1>4. PICK a \in StartRadios(s) : Follows(a, b, StartChannels(a.s))
  BY DEF AndThen, Follows
<1> HIDE DEF A1, A2, A3
<1>5. Outcome(a) /\ Ran(s, a.s) /\ a.s \in Hals /\ (a.ok => RadiosReady(a.s))
  BY <1>4, StartRadiosIs
<1>6. CASE ~a.ok
  <2>1. o = a
    BY <1>1, <1>2, <1>3, <1>4, <1>6 DEF Follows
  <2> QED
    BY <1>5, <1>6, <2>1
<1>7. CASE a.ok
  <2>1. /\ Filled(a.s, b, ChannelBlocks)
        /\ b.ok => b.s.blk["channelizer"] = <<a.s.conf.ifs>> /\ b.s.blk["modem"] = <<a.s.conf.freq[0]>>
    BY <1>4, <1>5, <1>7, StartChannelsIs DEF Follows
  <2>2. Outcome(b) /\ Quiet(a.s, b.s) /\ b.s \in Hals
    BY <2>1, FilledConf DEF Filled
  <2>3. Ran(s, b.s)
    BY <1>5, <2>2, QuietRan, RanTwice
  <2>4. CASE ~b.ok
    <3>1. o = b
      BY <1>1, <1>2, <1>3, <2>4 DEF Follows
    <3> QED
      BY <2>2, <2>3, <2>4, <3>1
  <2>5. CASE b.ok
    <3>1. /\ Outcome(c) /\ Quiet(b.s, c.s)
          /\ c.ok => /\ \A x \in Blocks \ {"service", "fsk", "syncword", "enable"} : c.s.blk[x] = b.s.blk[x]
                     /\ c.s.blk["syncword"] # Partial /\ c.s.blk["enable"] # Partial
                     /\ b.s.conf.service # 0 => c.s.blk["service"] = <<b.s.conf.service, b.s.conf.freq[0]>>
      BY <1>3, <2>2, <2>5, StartModemsIs DEF Follows
    <3>2. c.s \in Hals /\ Ran(s, c.s) /\ Quiet(a.s, c.s)
      BY <2>2, <2>3, <3>1, QuietRan, RanTwice, KeptTwice DEF Quiet, Kept
    <3>3. CASE ~c.ok
      <4>1. o = c
        BY <1>1, <1>2, <3>3 DEF Follows
      <4> QED
        BY <3>1, <3>2, <3>3, <4>1
    <3>4. CASE c.ok
      <4>1. /\ Filled(c.s, d, {"agc", "arb"})
            /\ d.ok => d.s.blk["agc"] = AgcFirmware(c.s) /\ d.s.blk["arb"] = ArbFirmware
        BY <1>2, <3>2, <3>4, StartMcusAre DEF Follows
      <4>2. Outcome(d) /\ Quiet(c.s, d.s) /\ d.s \in Hals
        BY <4>1, FilledConf DEF Filled
      <4>3. Ran(s, d.s) /\ Quiet(a.s, d.s)
        BY <3>2, <4>2, QuietRan, RanTwice, KeptTwice
      <4>4. CASE ~d.ok
        <5>1. o = d
          BY <1>1, <4>4 DEF Follows
        <5> QED
          BY <4>2, <4>3, <4>4, <5>1
      <4>5. CASE d.ok
        <5>1. /\ Outcome(o) /\ Kept(d.s, o.s) /\ o.s.clkFault = d.s.clkFault /\ o.s.lost = d.s.lost
              /\ \A x \in Bits \ {"gpio"} : o.s.bit[x] = d.s.bit[x]
              /\ o.ok => /\ \A x \in Blocks \ {"tx", "gps", "sx1261"} : o.s.blk[x] = d.s.blk[x]
                         /\ o.s.blk["tx"] # Partial /\ o.s.blk["gps"] # Partial
          BY <1>1, <4>2, <4>5, StartPeripheralsAre DEF Follows
        <5>2. Ran(d.s, o.s) /\ o.s \in Hals /\ o.s.conf = d.s.conf
          BY <5>1, KeptRan DEF Kept
        <5>3. Ran(s, o.s)
          BY <4>3, <5>2, RanTwice
        <5>4. /\ o.s.conf = a.s.conf /\ d.s.conf = a.s.conf /\ c.s.conf = a.s.conf /\ b.s.conf = a.s.conf
              /\ d.s.bit = a.s.bit
          BY <2>2, <3>2, <4>3, <5>2 DEF Quiet, Kept
        <5>5. /\ \A x \in Blocks \ ChannelBlocks : b.s.blk[x] = a.s.blk[x]
              /\ \A x \in Blocks \cap ChannelBlocks : b.s.blk[x] # Partial
          BY <2>1, <2>5 DEF Filled
        <5>6. /\ \A x \in Blocks \ {"agc", "arb"} : d.s.blk[x] = c.s.blk[x]
              /\ \A x \in Blocks \cap {"agc", "arb"} : d.s.blk[x] # Partial
          BY <4>1, <4>5 DEF Filled
        <5>7. ASSUME o.ok PROVE Ready(o.s)
          <6>1. \A r \in RfChains : o.s.blk[RadioBlock(r)] = a.s.blk[RadioBlock(r)]
            <7>1. \A r \in RfChains : /\ RadioBlock(r) \in Blocks \ ChannelBlocks
                                      /\ RadioBlock(r) \in Blocks \ {"service", "fsk", "syncword", "enable"}
                                      /\ RadioBlock(r) \in Blocks \ {"agc", "arb"}
                                      /\ RadioBlock(r) \in Blocks \ {"tx", "gps", "sx1261"}
              BY DEF RadioBlock, Blocks, ChannelBlocks
            <7> QED
              BY <3>1, <3>4, <5>1, <5>5, <5>6, <5>7, <7>1
          <6>2. /\ \A r \in RfChains : o.s.bit[Rst(r)] = a.s.bit[Rst(r)]
                /\ o.s.bit["clk"] = a.s.bit["clk"] /\ o.s.bit["selB"] = a.s.bit["selB"]
                /\ o.s.bit["fe"] = a.s.bit["fe"] /\ o.s.bit["host"] = a.s.bit["host"]
            <7>1. /\ \A r \in RfChains : Rst(r) \in Bits \ {"gpio"}
                  /\ "clk" \in Bits \ {"gpio"} /\ "selB" \in Bits \ {"gpio"} /\ "fe" \in Bits \ {"gpio"}
                  /\ "host" \in Bits \ {"gpio"}
              BY DEF Bits, Rst
            <7> QED
              BY <5>1, <5>4, <7>1
          <6>3. ASSUME NEW r \in RfChains, o.s.conf.sx1250, o.s.conf.enable[r]
                PROVE  o.s.blk[RadioBlock(r)] = <<o.s.conf.freq[r]>> /\ ~HeldInReset(o.s, r)
            <7>1. RadioTuned(a.s, r)
              BY <1>5, <1>7, <5>4, <6>3 DEF RadiosReady
            <7> QED
              BY <5>4, <6>1, <6>2, <6>3, <7>1, HeldStays DEF RadioTuned
          <6>4. /\ o.s.bit["clk"] = 1 /\ o.s.bit["selB"] = o.s.conf.clksrc
                /\ o.s.bit["fe"] = 0 /\ o.s.bit["host"] = 0
            BY <1>5, <1>7, <5>4, <6>2 DEF RadiosReady
          <6>5. /\ o.s.blk["channelizer"] = <<o.s.conf.ifs>> /\ o.s.blk["modem"] = <<o.s.conf.freq[0]>>
            <7>1. /\ {"channelizer", "modem"} \subseteq Blocks \ {"service", "fsk", "syncword", "enable"}
                  /\ {"channelizer", "modem"} \subseteq Blocks \ {"agc", "arb"}
                  /\ {"channelizer", "modem"} \subseteq Blocks \ {"tx", "gps", "sx1261"}
              BY DEF Blocks
            <7>2. /\ o.s.blk["channelizer"] = b.s.blk["channelizer"] /\ o.s.blk["modem"] = b.s.blk["modem"]
              BY <3>1, <3>4, <5>1, <5>6, <5>7, <7>1
            <7> QED
              BY <2>1, <2>5, <5>4, <7>2
          <6>6. o.s.conf.service # 0 => o.s.blk["service"] = <<o.s.conf.service, o.s.conf.freq[0]>>
            <7>1. "service" \in Blocks \ {"agc", "arb"} /\ "service" \in Blocks \ {"tx", "gps", "sx1261"}
              BY DEF Blocks
            <7>2. o.s.blk["service"] = c.s.blk["service"]
              BY <5>1, <5>6, <5>7, <7>1
            <7> QED
              BY <3>1, <3>4, <5>4, <7>2
          <6>7. o.s.blk["agc"] = AgcFirmware(o.s) /\ o.s.blk["arb"] = ArbFirmware
            <7>1. {"agc", "arb"} \subseteq Blocks \ {"tx", "gps", "sx1261"}
              BY DEF Blocks
            <7>2. o.s.blk["agc"] = d.s.blk["agc"] /\ o.s.blk["arb"] = d.s.blk["arb"]
              BY <5>1, <5>7, <7>1
            <7>3. AgcFirmware(o.s) = AgcFirmware(c.s)
              BY <5>4 DEF AgcFirmware
            <7> QED
              BY <4>1, <4>5, <7>2, <7>3
          <6>8. ASSUME NEW x \in StartBlocks PROVE o.s.blk[x] # Partial
            <7>0. x \in Blocks /\ x \in ChannelBlocks \cup {"syncword", "enable", "agc", "arb", "tx", "gps"}
              BY DEF StartBlocks, Blocks, ChannelBlocks
            <7>1. CASE x \in ChannelBlocks
              <8>1. /\ x \in Blocks \ {"service", "fsk", "syncword", "enable"} /\ x \in Blocks \ {"agc", "arb"}
                    /\ x \in Blocks \ {"tx", "gps", "sx1261"}
                BY <7>0, <7>1 DEF ChannelBlocks
              <8> QED
                BY <3>1, <3>4, <5>1, <5>5, <5>6, <5>7, <7>1, <8>1
            <7>2. CASE x \in {"syncword", "enable"}
              <8>1. x \in Blocks \ {"agc", "arb"} /\ x \in Blocks \ {"tx", "gps", "sx1261"}
                BY <7>0, <7>2
              <8> QED
                BY <3>1, <3>4, <5>1, <5>6, <5>7, <7>2, <8>1
            <7>3. CASE x \in {"agc", "arb"}
              <8>1. x \in Blocks \ {"tx", "gps", "sx1261"}
                BY <7>0, <7>3
              <8> QED
                BY <5>1, <5>6, <5>7, <7>0, <7>3, <8>1
            <7>4. CASE x \in {"tx", "gps"}
              BY <5>1, <5>7, <7>4
            <7> QED
              BY <7>0, <7>1, <7>2, <7>3, <7>4
          <6> QED
            BY <6>3, <6>4, <6>5, <6>6, <6>7, <6>8 DEF Ready
        <5> QED
          BY <5>1, <5>2, <5>3, <5>7
      <4> QED
        BY <4>4, <4>5
    <3> QED
      BY <3>3, <3>4
  <2> QED
    BY <2>4, <2>5
<1> QED
  BY <1>6, <1>7

-----------------------------------------------------------------------------
(* The state between two calls                                             *)

SentRight(s) ==
  ~s.pllFault => \A p \in s.sent : p.offset \in {Offset(p.chain, p.gain), Uncalibrated}

Sound(s) ==
  /\ s \in Hals /\ Safe(s) /\ LutsRight(s) /\ s.whole /\ SentRight(s)
  /\ s.started /\ s.ready => Ready(s)

\* What a start keeps right is what must hold between calls, but for the blocks.
LEMMA RanSound ==
  ASSUME NEW s, NEW t, Sound(s), Ran(s, t), t.started /\ t.ready => Ready(t)
  PROVE  Sound(t)
<1>1. t.whole
  BY DEF Sound, Ran
<1>2. SentRight(t)
  BY DEF Sound, Ran, SentRight
<1> QED
  BY <1>1, <1>2 DEF Sound, Ran

LEMMA ReadySame ==
  ASSUME NEW s, NEW t, t.bit = s.bit, t.blk = s.blk, t.conf = s.conf, Ready(s)
  PROVE  Ready(t)
  BY DEF Ready, HeldInReset, AgcFirmware

\* Calls that concern the transmitters or nothing at all
Calm(s, t) == Aside(s, t) /\ t.started = s.started /\ t.ready = s.ready

\* Calls that change the transmitters only, or nothing, keep all that is right.
LEMMA CalmSound ==
  ASSUME NEW s, NEW t, Sound(s), Calm(s, t)
  PROVE  Sound(t) /\ t \in Hals
<1>1. Ran(s, t) /\ t.bit = s.bit /\ t.blk = s.blk /\ t.conf = s.conf
  BY QuietRan DEF Calm, Aside, Quiet, Kept
<1>2. t.started /\ t.ready => Ready(t)
  BY <1>1, ReadySame DEF Sound, Calm
<1> QED
  BY <1>1, <1>2, RanSound DEF Sound

LEMMA CalmTwice ==
  ASSUME NEW s, NEW t, NEW u, Calm(s, t), Calm(t, u)
  PROVE  Calm(s, u)
  BY AsideTwice DEF Calm

LEMMA CalmItself ==
  ASSUME NEW s \in Hals
  PROVE  Calm(s, s)
  BY AsideItself DEF Calm

LEMMA CalmAccess ==
  ASSUME NEW s \in Hals, NEW o \in Access(s)
  PROVE  Outcome(o) /\ Calm(s, o.s) /\ o.s \in Hals /\ o.s.tx = s.tx
  BY AccessIs DEF Untouched, Calm, Aside, Quiet, Kept

\* A start
LEMMA StartSound ==
  ASSUME NEW s, Sound(s), NEW o \in lgw_start(s)
  PROVE  Sound(o.s)
<1> DEFINE chain == AndThen(AndThen(AndThen(AndThen(StartRadios(s), StartChannels), StartModems), StartMcus),
                            StartPeripherals)
<1>0. s \in Hals /\ LutsRight(s)
  BY DEF Sound
<1>1. PICK p \in chain :
        o = IF p.ok THEN [p EXCEPT !.s.started = TRUE, !.s.ready = TRUE] ELSE [p EXCEPT !.s.ready = FALSE]
  BY DEF lgw_start
<1>2. Outcome(p) /\ Ran(s, p.s) /\ p.s \in Hals /\ (p.ok => Ready(p.s))
  BY <1>0, StartRuns
<1> HIDE DEF chain
<1>3. CASE p.ok
  <2>1. PICK t : t = [p.s EXCEPT !.started = TRUE]
    OBVIOUS
  <2>2. PICK u : u = [t EXCEPT !.ready = TRUE]
    OBVIOUS
  <2>3. t \in Hals /\ Quiet(p.s, t) /\ t.blk = p.s.blk /\ t.bit = p.s.bit /\ t.conf = p.s.conf
    BY <1>2, <2>1 DEF Hals, Quiet, Kept
  <2>4. u \in Hals /\ Quiet(t, u) /\ u.blk = t.blk /\ u.bit = t.bit /\ u.conf = t.conf
    BY <2>2, <2>3 DEF Hals, Quiet, Kept
  <2>5. o = [p EXCEPT !.s = u]
    BY <1>1, <1>2, <1>3, <2>1, <2>2 DEF Outcome
  <2>6. o.s = u
    BY <1>2, <2>5 DEF Outcome
  <2>7. Ran(s, u)
    BY <1>2, <2>3, <2>4, QuietRan, RanTwice
  <2>8. Ready(u)
    BY <1>2, <1>3, <2>3, <2>4, ReadySame
  <2> QED
    BY <2>6, <2>7, <2>8, RanSound
<1>4. CASE ~p.ok
  <2>1. PICK u : u = [p.s EXCEPT !.ready = FALSE]
    OBVIOUS
  <2>2. u \in Hals /\ Quiet(p.s, u) /\ u.ready = FALSE
    BY <1>2, <2>1 DEF Hals, Quiet, Kept
  <2>3. o = [p EXCEPT !.s = u]
    BY <1>1, <1>4, <2>1
  <2>4. o.s = u
    BY <1>2, <2>3 DEF Outcome
  <2>5. Ran(s, u)
    BY <1>2, <2>2, QuietRan, RanTwice
  <2> QED
    BY <2>2, <2>4, <2>5, RanSound
<1> QED
  BY <1>3, <1>4

\* An emission that is aborted
TxBecomes(s, t, r, x) == t = [s EXCEPT !.tx[r] = x]
TxIs(s, t, r, x) ==
  t \in Hals /\ Calm(s, t) /\ t.tx = [s.tx EXCEPT ![r] = x] /\ t.fresh = s.fresh /\ t.faults = s.faults

LEMMA TxSet ==
  ASSUME NEW s \in Hals, NEW r \in RfChains, NEW x \in TxStates, NEW t, TxBecomes(s, t, r, x)
  PROVE  TxIs(s, t, r, x)
<1>1. [s.tx EXCEPT ![r] = x] \in TxsStates
  BY DEF Hals, TxsStates
<1>2. PICK z \in TxsStates : z = [s.tx EXCEPT ![r] = x]
  BY <1>1
<1>3. t = [s EXCEPT !.tx = z]
  BY <1>2 DEF TxBecomes
<1> QED
  BY <1>2, <1>3 DEF Hals, Calm, Aside, Quiet, Kept, TxIs

LEMMA TxType ==
  ASSUME NEW s \in Hals, NEW r \in RfChains
  PROVE  /\ s.tx[r] \in TxStates /\ s.tx \in [RfChains -> TxStates]
         /\ s.tx[r] = [fsm |-> s.tx[r].fsm, trig |-> s.tx[r].trig]
<1>1. s.tx \in [RfChains -> TxStates] /\ s.tx[r] \in TxStates
  BY DEF Hals, TxsStates
<1> QED
  BY <1>1 DEF TxStates

LEMMA TxCleared ==
  ASSUME NEW s \in Hals, NEW r \in RfChains, NEW t, t = [s EXCEPT !.tx[r].trig = {}]
  PROVE  /\ t \in Hals /\ Calm(s, t) /\ t.tx \in [RfChains -> TxStates]
         /\ \A q \in RfChains : q # r => t.tx[q] = s.tx[q]
<1>0. s.tx[r] \in TxStates /\ s.tx \in [RfChains -> TxStates]
  BY TxType
<1>1. PICK w \in TxStates : w = s.tx[r]
  BY <1>0
<1>2. PICK x \in TxStates : x = [w EXCEPT !.trig = {}]
  BY DEF TxStates
<1>3. TxBecomes(s, t, r, x)
  BY <1>1, <1>2 DEF TxBecomes
<1>4. TxIs(s, t, r, x)
  BY <1>3, TxSet
<1> QED
  BY <1>0, <1>4, SMTT(30) DEF TxIs

LEMMA TxFsm ==
  ASSUME NEW s \in Hals, NEW r \in RfChains, NEW f \in {"free", "scheduled", "emitting"},
         NEW t, t = [s EXCEPT !.tx[r].fsm = f]
  PROVE  /\ t \in Hals /\ Calm(s, t) /\ t.tx \in [RfChains -> TxStates] /\ t.tx[r].fsm = f
         /\ t.fresh = s.fresh
         /\ \A q \in RfChains : q # r => t.tx[q] = s.tx[q]
<1>0. s.tx[r] \in TxStates /\ s.tx \in [RfChains -> TxStates]
  BY TxType
<1>1. PICK w \in TxStates : w = s.tx[r]
  BY <1>0
<1>2. PICK x \in TxStates : x = [w EXCEPT !.fsm = f] /\ x.fsm = f
  <2>1. w = [fsm |-> w.fsm, trig |-> w.trig] /\ w.trig \in SUBSET {"imm", "delayed", "gps"}
    BY DEF TxStates
  <2>2. [fsm |-> f, trig |-> w.trig] \in TxStates
    BY <2>1 DEF TxStates
  <2> QED
    BY <2>1, <2>2
<1>3. TxBecomes(s, t, r, x)
  BY <1>1, <1>2 DEF TxBecomes
<1>4. TxIs(s, t, r, x)
  BY <1>3, TxSet
<1> QED
  BY <1>0, <1>2, <1>4 DEF TxIs

LEMMA CalmFailing ==
  ASSUME NEW s \in Hals
  PROVE  Calm(s, Failing(s)) /\ Failing(s) \in Hals /\ Failing(s).tx = s.tx
  BY FailingIs DEF Untouched, Calm, Aside, Quiet, Kept

\* An abort that succeeds frees its chain and spares the other.
LEMMA AbortIs ==
  ASSUME NEW s \in Hals, NEW r \in RfChains, NEW o \in sx1302_tx_abort(s, r)
  PROVE  /\ Outcome(o) /\ Calm(s, o.s) /\ o.s \in Hals
         /\ o.ok => o.s.tx[r].fsm = "free" /\ \A q \in RfChains : q # r => o.s.tx[q] = s.tx[q]
<1>1. PICK c : c = [s EXCEPT !.tx[r].trig = {}]
  OBVIOUS
<1>2. PICK d : d = [c EXCEPT !.tx[r].fsm = "free"]
  OBVIOUS
<1>3. o \in Succeeds(d) \/ o \in Fails(c) \/ o \in Fails(Failing(s))
  BY <1>1, <1>2 DEF sx1302_tx_abort
<1>4. /\ c \in Hals /\ Calm(s, c) /\ \A q \in RfChains : q # r => c.tx[q] = s.tx[q]
  BY <1>1, TxCleared
<1>5. /\ d \in Hals /\ Calm(c, d) /\ d.tx[r].fsm = "free"
      /\ \A q \in RfChains : q # r => d.tx[q] = c.tx[q]
  BY <1>2, <1>4, TxFsm
<1>6. Calm(s, d)
  BY <1>4, <1>5, CalmTwice
<1>7. CASE o \in Succeeds(d)
  <2>1. o.s = d /\ Outcome(o)
    BY <1>7, OutcomeIs
  <2> QED
    BY <1>4, <1>5, <1>6, <2>1
<1>8. CASE o \in Fails(c)
  BY <1>4, <1>8, OutcomeIs
<1>9. CASE o \in Fails(Failing(s))
  <2>1. o.s = Failing(s) /\ Outcome(o) /\ ~o.ok
    BY <1>9, OutcomeIs
  <2> QED
    BY <2>1, CalmFailing
<1> QED
  BY <1>3, <1>7, <1>8, <1>9

Silent(s) == \A r \in RfChains : s.tx[r].fsm = "free"

\* A call of lgw_stop that leaves the transmitters alone
SparesTx(s, o) == Outcome(o) /\ Calm(s, o.s) /\ o.s \in Hals /\ o.s.tx = s.tx

LEMMA SparesTxTwice ==
  ASSUME NEW s, NEW a, NEW b, NEW o, SparesTx(s, a), SparesTx(a.s, b), Both(a, b, o)
  PROVE  SparesTx(s, o)
<1>1. Outcome(o) /\ o.s = b.s
  BY BothIs DEF SparesTx
<1> QED
  BY <1>1, CalmTwice DEF SparesTx

LEMMA ClosedIs ==
  ASSUME NEW s \in Hals, NEW fd, NEW o \in IF fd = -1 THEN Fails(s) ELSE i2c_linuxdev_close(s)
  PROVE  SparesTx(s, o)
<1>1. CASE o \in Fails(s)
  BY <1>1, OutcomeIs, CalmItself DEF SparesTx
<1>2. CASE o \in Access(s)
  BY <1>2, CalmAccess DEF SparesTx
<1> QED
  BY <1>1, <1>2 DEF i2c_linuxdev_close

\* Both chains are silent when both aborts succeeded, in whatever order they were
\* scheduled.
LEMMA AbortedIs ==
  ASSUME NEW s \in Hals, NEW o \in Also(lgw_abort_tx(s, 0), LAMBDA t : lgw_abort_tx(t, 1))
  PROVE  Outcome(o) /\ Calm(s, o.s) /\ o.s \in Hals /\ (o.ok => Silent(o.s))
<1>1. PICK a \in sx1302_tx_abort(s, 0) : \E b \in sx1302_tx_abort(a.s, 1) : Both(a, b, o)
  BY DEF Also, Both, lgw_abort_tx
<1>2. PICK b \in sx1302_tx_abort(a.s, 1) : Both(a, b, o)
  BY <1>1
<1>3. 0 \in RfChains /\ 1 \in RfChains /\ \A r \in RfChains : r = 0 \/ r = 1
  BY DEF RfChains
<1>4. Outcome(a) /\ Calm(s, a.s) /\ a.s \in Hals /\ (a.ok => a.s.tx[0].fsm = "free")
  BY <1>1, <1>3, AbortIs
<1>5. /\ Outcome(b) /\ Calm(a.s, b.s) /\ b.s \in Hals
      /\ b.ok => b.s.tx[1].fsm = "free" /\ \A q \in RfChains : q # 1 => b.s.tx[q] = a.s.tx[q]
  BY <1>2, <1>3, <1>4, AbortIs
<1>6. Outcome(o) /\ o.s = b.s /\ (o.ok <=> a.ok /\ b.ok)
  BY <1>2, <1>4, <1>5, BothIs
<1>7. Calm(s, o.s)
  BY <1>4, <1>5, <1>6, CalmTwice
<1>8. ASSUME o.ok PROVE Silent(o.s)
  <2>1. b.s.tx[0].fsm = "free" /\ b.s.tx[1].fsm = "free"
    <3>1. b.s.tx[0] = a.s.tx[0]
      BY <1>3, <1>5, <1>6, <1>8
    <3> QED
      BY <1>4, <1>5, <1>6, <1>8, <3>1
  <2> QED
    BY <1>3, <1>6, <2>1 DEF Silent
<1> QED
  BY <1>5, <1>6, <1>7, <1>8

\* Closing the devices leaves the transmitters alone.
LEMMA SensorClosed ==
  ASSUME NEW s \in Hals, NEW o,
         o \in LET close(t, fd) == IF fd = -1 THEN Fails(t) ELSE i2c_linuxdev_close(t)
                    dac(t) == IF t.conf.duplex THEN close(t, t.ad) ELSE Succeeds(t)
                IN  IF s.conf.com # "SPI" THEN Succeeds(s) ELSE Also(close(s, s.ts), dac)
  PROVE  SparesTx(s, o)
<1> DEFINE close(t, fd) == IF fd = -1 THEN Fails(t) ELSE i2c_linuxdev_close(t)
           dac(t) == IF t.conf.duplex THEN close(t, t.ad) ELSE Succeeds(t)
<1>1. CASE o \in Succeeds(s)
  BY <1>1, OutcomeIs, CalmItself DEF SparesTx
<1>2. CASE o \in Also(close(s, s.ts), dac)
  <2>1. PICK a \in close(s, s.ts) : \E b \in dac(a.s) : Both(a, b, o)
    BY <1>2 DEF Also, Both
  <2>2. PICK b \in dac(a.s) : Both(a, b, o)
    BY <2>1
  <2>3. SparesTx(s, a)
    BY <2>1, ClosedIs
  <2>4. SparesTx(a.s, b)
    <3>1. CASE b \in Succeeds(a.s)
      BY <2>3, <3>1, OutcomeIs, CalmItself DEF SparesTx
    <3>2. CASE b \in close(a.s, a.s.ad)
      BY <2>3, <3>2, ClosedIs DEF SparesTx
    <3> QED
      BY <2>2, <3>1, <3>2
  <2> QED
    BY <2>2, <2>3, <2>4, SparesTxTwice
<1> QED
  BY <1>1, <1>2

LEMMA StopRuns ==
  ASSUME NEW s \in Hals, NEW o,
         o \in LET aborted == Also(lgw_abort_tx(s, 0), LAMBDA t : lgw_abort_tx(t, 1))
                   closed == Also(aborted, Access)
                   close(t, fd) == IF fd = -1 THEN Fails(t) ELSE i2c_linuxdev_close(t)
                   dac(t) == IF t.conf.duplex THEN close(t, t.ad) ELSE Succeeds(t)
                   sensor(t) == IF t.conf.com # "SPI" THEN Succeeds(t) ELSE Also(close(t, t.ts), dac)
               IN  Also(closed, sensor)
  PROVE  Outcome(o) /\ Calm(s, o.s) /\ o.s \in Hals /\ (o.ok => Silent(o.s))
<1> DEFINE aborted == Also(lgw_abort_tx(s, 0), LAMBDA t : lgw_abort_tx(t, 1))
           closed == Also(aborted, Access)
           close(t, fd) == IF fd = -1 THEN Fails(t) ELSE i2c_linuxdev_close(t)
           dac(t) == IF t.conf.duplex THEN close(t, t.ad) ELSE Succeeds(t)
           sensor(t) == IF t.conf.com # "SPI" THEN Succeeds(t) ELSE Also(close(t, t.ts), dac)
<1>1. PICK c \in closed : \E d \in sensor(c.s) : Both(c, d, o)
  BY DEF Also, Both
<1>2. PICK d \in sensor(c.s) : Both(c, d, o)
  BY <1>1
<1>3. PICK a \in aborted : \E b \in Access(a.s) : Both(a, b, c)
  BY <1>1 DEF Also, Both
<1>4. PICK b \in Access(a.s) : Both(a, b, c)
  BY <1>3
<1>5. Outcome(a) /\ Calm(s, a.s) /\ a.s \in Hals /\ (a.ok => Silent(a.s))
  BY <1>3, AbortedIs
<1>6. SparesTx(a.s, b)
  BY <1>4, <1>5, CalmAccess DEF SparesTx
<1>7. Outcome(c) /\ c.s = b.s /\ (c.ok <=> a.ok /\ b.ok)
  BY <1>4, <1>5, <1>6, BothIs DEF SparesTx
<1>8. c.s \in Hals /\ Calm(a.s, c.s) /\ c.s.tx = a.s.tx
  BY <1>6, <1>7 DEF SparesTx
<1>9. SparesTx(c.s, d)
  BY <1>2, <1>8, SensorClosed
<1>10. Outcome(o) /\ o.s = d.s /\ (o.ok <=> c.ok /\ d.ok)
  BY <1>2, <1>7, <1>9, BothIs DEF SparesTx
<1>11. o.s \in Hals /\ Calm(c.s, o.s) /\ o.s.tx = c.s.tx
  BY <1>9, <1>10 DEF SparesTx
<1>12. Calm(s, o.s)
  BY <1>5, <1>8, <1>11, CalmTwice
<1> QED
  BY <1>5, <1>7, <1>8, <1>10, <1>11, <1>12 DEF Silent

LEMMA ResetSilent ==
  ASSUME NEW s, s.tx = NewChip.tx
  PROVE  Silent(s)
  BY DEF Silent, NewChip

Carries(o, p, u) == o = [p EXCEPT !.s = u]
Carried(o, p, u) == Outcome(o) /\ o.s = u /\ (o.ok <=> p.ok)

LEMMA OutcomeSet ==
  ASSUME NEW p, Outcome(p), NEW u, NEW o, Carries(o, p, u)
  PROVE  Carried(o, p, u)
<1>1. o = [s |-> u, ok |-> p.ok, val |-> p.val]
  BY DEF Outcome, Carries
<1>2. o.s = u /\ o.ok = p.ok /\ o.val = p.val
  BY <1>1
<1> QED
  BY <1>1, <1>2 DEF Outcome, Carried

LEMMA StoppedIs ==
  ASSUME NEW p, Outcome(p), p.s \in Hals, NEW o, o = [p EXCEPT !.s.started = FALSE, !.s.ready = FALSE]
  PROVE  Outcome(o) /\ Quiet(p.s, o.s) /\ o.s \in Hals /\ o.s.ready = FALSE /\ o.s.tx = p.s.tx /\ (o.ok <=> p.ok)
<1>1. PICK t : t = [p.s EXCEPT !.started = FALSE]
  OBVIOUS
<1>2. PICK u : u = [t EXCEPT !.ready = FALSE]
  OBVIOUS
<1>3. t \in Hals /\ Quiet(p.s, t) /\ t.tx = p.s.tx
  BY <1>1 DEF Hals, Quiet, Kept
<1>4. u \in Hals /\ Quiet(t, u) /\ u.ready = FALSE /\ u.tx = t.tx
  BY <1>2, <1>3 DEF Hals, Quiet, Kept
<1>5. Carries(o, p, u)
  BY <1>1, <1>2 DEF Carries
<1>6. Carried(o, p, u)
  BY <1>5, OutcomeSet
<1>7. Outcome(o) /\ o.s = u /\ (o.ok <=> p.ok)
  BY <1>6 DEF Carried
<1> QED
  BY <1>3, <1>4, <1>7, KeptTwice

\* A stop that succeeds leaves a running concentrator silent: over SPI because both
\* aborts succeeded, over USB because the chip is reset.
LEMMA StopSound ==
  ASSUME NEW s, Sound(s), NEW o \in lgw_stop(s)
  PROVE  Sound(o.s) /\ o.ok \in BOOLEAN /\ (s.started /\ o.ok => Silent(o.s))
<1> DEFINE aborted == Also(lgw_abort_tx(s, 0), LAMBDA t : lgw_abort_tx(t, 1))
           closed == Also(aborted, Access)
           close(t, fd) == IF fd = -1 THEN Fails(t) ELSE i2c_linuxdev_close(t)
           dac(t) == IF t.conf.duplex THEN close(t, t.ad) ELSE Succeeds(t)
           sensor(t) == IF t.conf.com # "SPI" THEN Succeeds(t) ELSE Also(close(t, t.ts), dac)
           chain == Also(closed, sensor)
           stopped == {[q EXCEPT !.s.started = FALSE, !.s.ready = FALSE] : q \in chain}
<1>0. s \in Hals
  BY DEF Sound
<1>1. \/ ~s.started /\ o \in Succeeds(s)
      \/ o \in stopped
      \/ \E q \in stopped : o = [q EXCEPT !.s = ChipReset(q.s)]
  BY DEF lgw_stop
<1>2. ASSUME NEW q \in stopped
      PROVE  Outcome(q) /\ q.s \in Hals /\ Ran(s, q.s) /\ q.s.ready = FALSE /\ (q.ok => Silent(q.s))
  <2>1. PICK p \in chain : q = [p EXCEPT !.s.started = FALSE, !.s.ready = FALSE]
    OBVIOUS
  <2>2. Outcome(p) /\ Calm(s, p.s) /\ p.s \in Hals /\ (p.ok => Silent(p.s))
    BY <1>0, <2>1, StopRuns
  <2> HIDE DEF chain
  <2>3. Outcome(q) /\ Quiet(p.s, q.s) /\ q.s \in Hals /\ q.s.ready = FALSE /\ q.s.tx = p.s.tx /\ (q.ok <=> p.ok)
    BY <2>1, <2>2, StoppedIs
  <2>4. Ran(s, q.s)
    BY <1>0, <2>2, <2>3, QuietRan, RanTwice DEF Calm, Aside
  <2> QED
    BY <2>2, <2>3, <2>4 DEF Silent
<1> HIDE DEF stopped
<1>3. CASE ~s.started /\ o \in Succeeds(s)
  BY <1>3, OutcomeIs
<1>4. CASE o \in stopped
  BY <1>2, <1>4, RanSound DEF Outcome
<1>5. CASE \E q \in stopped : o = [q EXCEPT !.s = ChipReset(q.s)]
  <2>1. PICK q \in stopped : o = [q EXCEPT !.s = ChipReset(q.s)]
    BY <1>5
  <2>2. PICK t : t = ChipReset(q.s)
    OBVIOUS
  <2>3. o = [q EXCEPT !.s = t]
    BY <2>1, <2>2
  <2>4. Outcome(q) /\ q.s \in Hals /\ Ran(s, q.s) /\ q.s.ready = FALSE
    BY <1>2
  <2>5. o.s = t /\ o.ok \in BOOLEAN
    BY <2>3, <2>4 DEF Outcome
  <2>6. Ran(q.s, t) /\ t.tx = NewChip.tx /\ t.ready = FALSE
    BY <2>2, <2>4, ResetType
  <2>7. Ran(s, t) /\ Silent(t)
    BY <2>4, <2>6, RanTwice, ResetSilent
  <2> QED
    BY <2>5, <2>6, <2>7, RanSound
<1> QED
  BY <1>1, <1>3, <1>4, <1>5

-----------------------------------------------------------------------------
(* The configuration                                                       *)

ConfBecomes(s, t, c) == t = [s EXCEPT !.conf = c]

\* What a running concentrator was started with
SameStart(c, d) ==
  /\ d.sx1250 = c.sx1250 /\ d.enable = c.enable /\ d.freq = c.freq /\ d.clksrc = c.clksrc
  /\ d.ifs = c.ifs /\ d.service = c.service

\* A setting keeps what is right when it leaves the tables right and, while the
\* concentrator runs, does not touch what it was started with.
LEMMA ConfSet ==
  ASSUME NEW s, Sound(s), NEW c \in BoardConfs, NEW t, ConfBecomes(s, t, c),
         LutsRight(t), s.started => SameStart(s.conf, c)
  PROVE  Sound(t) /\ t.conf = c
<1>1. /\ t \in Hals /\ t.conf = c /\ t.bit = s.bit /\ t.blk = s.blk /\ t.started = s.started
      /\ t.ready = s.ready /\ t.pllFault = s.pllFault /\ t.clkFault = s.clkFault /\ t.lost = s.lost
      /\ t.sent = s.sent /\ t.whole = s.whole
  BY DEF ConfBecomes, Sound, Hals
<1>2. Safe(t) /\ SentRight(t) /\ t.whole
  BY <1>1 DEF Sound, Safe, SentRight
<1>3. ASSUME t.started, t.ready
      PROVE  Ready(t)
  <2>1. Ready(s) /\ SameStart(s.conf, t.conf)
    BY <1>1, <1>3 DEF Sound
  <2> QED
    BY <1>1, <2>1 DEF Ready, SameStart, HeldInReset, AgcFirmware
<1> QED
  BY <1>1, <1>2, <1>3 DEF Sound

LEMMA LutsKept ==
  ASSUME NEW s, Sound(s), NEW c, NEW t, ConfBecomes(s, t, c), c.lut = s.conf.lut, c.txen = s.conf.txen
  PROVE  LutsRight(t)
<1>1. t.conf = c /\ t.pllFault = s.pllFault
  BY DEF ConfBecomes, Sound, Hals
<1> QED
  BY <1>1 DEF LutsRight, Sound

\* The board is not changed while the concentrator runs.
LEMMA BoardSet ==
  ASSUME NEW s, Sound(s), NEW r \in RfChains, NEW o \in lgw_board_setconf(s, r, FALSE)
  PROVE  Sound(o.s)
<1>1. CASE s.started
  BY <1>1, OutcomeIs DEF lgw_board_setconf
<1>2. CASE ~s.started
  <2>1. PICK d : d = [s.conf EXCEPT !.clksrc = r]
    OBVIOUS
  <2>2. PICK c : c = [d EXCEPT !.public = FALSE]
    OBVIOUS
  <2>3. d \in BoardConfs /\ d.lut = s.conf.lut /\ d.txen = s.conf.txen
    BY <2>1 DEF Sound, Hals, BoardConfs
  <2>4. c \in BoardConfs /\ c.lut = s.conf.lut /\ c.txen = s.conf.txen
    BY <2>2, <2>3 DEF BoardConfs
  <2>5. PICK t : t = [s EXCEPT !.conf.clksrc = r, !.conf.public = FALSE]
    OBVIOUS
  <2>6. ConfBecomes(s, t, c)
    BY <2>1, <2>2, <2>5 DEF ConfBecomes
  <2>7. o.s = t
    BY <1>2, <2>5, OutcomeIs DEF lgw_board_setconf
  <2> QED
    BY <1>2, <2>4, <2>6, <2>7, ConfSet, LutsKept
<1> QED
  BY <1>1, <1>2

\* Nor are the radios.
LEMMA RadioSet ==
  ASSUME NEW s, Sound(s), NEW r \in RfChains, NEW on \in BOOLEAN, NEW f \in Nat,
         NEW o \in lgw_rxrf_setconf(s, r, on, f)
  PROVE  Sound(o.s)
<1>1. CASE s.started
  BY <1>1, OutcomeIs DEF lgw_rxrf_setconf
<1>2. CASE ~s.started /\ ~on
  BY <1>2, OutcomeIs DEF lgw_rxrf_setconf
<1>3. CASE ~s.started /\ on
  <2>1. PICK e \in [RfChains -> BOOLEAN] : e = [s.conf.enable EXCEPT ![r] = TRUE]
    BY DEF Sound, Hals, BoardConfs
  <2>2. PICK g \in [RfChains -> Nat] : g = [s.conf.freq EXCEPT ![r] = f]
    BY DEF Sound, Hals, BoardConfs
  <2>3. PICK d : d = [s.conf EXCEPT !.enable = e]
    OBVIOUS
  <2>4. PICK c : c = [d EXCEPT !.freq = g]
    OBVIOUS
  <2>5. d \in BoardConfs /\ d.lut = s.conf.lut /\ d.txen = s.conf.txen /\ d.freq = s.conf.freq
    BY <2>3 DEF Sound, Hals, BoardConfs
  <2>6. c \in BoardConfs /\ c.lut = s.conf.lut /\ c.txen = s.conf.txen
    BY <2>4, <2>5 DEF BoardConfs
  <2>7. PICK t : t = [s EXCEPT !.conf.enable[r] = TRUE, !.conf.freq[r] = f]
    OBVIOUS
  <2>8. ConfBecomes(s, t, c)
    <3>1. PICK u : u = [s EXCEPT !.conf.enable[r] = TRUE]
      OBVIOUS
    <3>2. u = [s EXCEPT !.conf = d]
      BY <2>1, <2>3, <3>1
    <3>3. u.conf = d /\ u \in Hals
      BY <2>5, <3>2 DEF Sound, Hals
    <3>4. t = [u EXCEPT !.conf.freq[r] = f]
      BY <2>7, <3>1
    <3>5. c = [d EXCEPT !.freq[r] = f]
      BY <2>2, <2>4, <2>5
    <3>6. t = [u EXCEPT !.conf = c]
      BY <3>3, <3>4, <3>5
    <3> QED
      BY <3>2, <3>6 DEF ConfBecomes
  <2>9. o.s = t
    BY <1>3, <2>7, OutcomeIs DEF lgw_rxrf_setconf
  <2> QED
    BY <1>3, <2>6, <2>8, <2>9, ConfSet, LutsKept
<1> QED
  BY <1>1, <1>2, <1>3

\* Nor are the channels.
LEMMA ChannelsSet ==
  ASSUME NEW s, Sound(s), NEW n \in Nat, NEW v \in Nat, NEW o \in lgw_rxif_setconf(s, n, v)
  PROVE  Sound(o.s)
<1>1. CASE s.started
  BY <1>1, OutcomeIs DEF lgw_rxif_setconf
<1>2. CASE ~s.started
  <2>1. PICK t : /\ t = [s EXCEPT !.conf.ifs = v] \/ t = [s EXCEPT !.conf.service = v] \/ t = [s EXCEPT !.conf.fsk = v]
                 /\ o \in Succeeds(t)
    BY <1>2 DEF lgw_rxif_setconf
  <2>2. PICK c : /\ c = [s.conf EXCEPT !.ifs = v] \/ c = [s.conf EXCEPT !.service = v] \/ c = [s.conf EXCEPT !.fsk = v]
                 /\ t = [s EXCEPT !.conf = c]
    BY <2>1
  <2>3. c \in BoardConfs /\ c.lut = s.conf.lut /\ c.txen = s.conf.txen
    BY <2>2 DEF Sound, Hals, BoardConfs
  <2>4. ConfBecomes(s, t, c)
    BY <2>2 DEF ConfBecomes
  <2>5. o.s = t
    BY <2>1, OutcomeIs
  <2> QED
    BY <1>2, <2>3, <2>4, <2>5, ConfSet, LutsKept
<1> QED
  BY <1>1, <1>2

\* The settings that a running concentrator may be given
LEMMA OtherSet ==
  ASSUME NEW s, Sound(s), NEW v \in Nat, NEW on \in BOOLEAN,
         NEW o \in lgw_demod_setconf(s, v) \cup lgw_ftime_setconf(s, on) \cup lgw_sx1261_setconf(s, on)
  PROVE  Sound(o.s)
<1>1. PICK t : /\ \/ t = [s EXCEPT !.conf.demod = v] \/ t = [s EXCEPT !.conf.ftime = on]
                  \/ t = [s EXCEPT !.conf.sx1261 = on, !.conf.lbt = on]
               /\ o \in Succeeds(t)
  BY DEF lgw_demod_setconf, lgw_ftime_setconf, lgw_sx1261_setconf
<1>2. PICK c : /\ \/ c = [s.conf EXCEPT !.demod = v] \/ c = [s.conf EXCEPT !.ftime = on]
                  \/ c = [[s.conf EXCEPT !.sx1261 = on] EXCEPT !.lbt = on]
               /\ t = [s EXCEPT !.conf = c]
  BY <1>1
<1>3. PICK d : d = [s.conf EXCEPT !.sx1261 = on]
  OBVIOUS
<1>4. d \in BoardConfs /\ d.lut = s.conf.lut /\ d.txen = s.conf.txen /\ SameStart(s.conf, d)
  BY <1>3 DEF Sound, Hals, BoardConfs, SameStart
<1>5. CASE c = [s.conf EXCEPT !.demod = v] \/ c = [s.conf EXCEPT !.ftime = on]
  <2>1. c \in BoardConfs /\ c.lut = s.conf.lut /\ c.txen = s.conf.txen /\ SameStart(s.conf, c)
    BY <1>5 DEF Sound, Hals, BoardConfs, SameStart
  <2>2. ConfBecomes(s, t, c)
    BY <1>2 DEF ConfBecomes
  <2>3. o.s = t
    BY <1>1, OutcomeIs
  <2> QED
    BY <2>1, <2>2, <2>3, ConfSet, LutsKept
<1>6. CASE c = [d EXCEPT !.lbt = on]
  <2>1. c \in BoardConfs /\ c.lut = d.lut /\ c.txen = d.txen /\ SameStart(d, c)
    BY <1>4, <1>6 DEF BoardConfs, SameStart
  <2>2. SameStart(s.conf, c)
    BY <1>4, <2>1 DEF SameStart
  <2>3. ConfBecomes(s, t, c)
    BY <1>2 DEF ConfBecomes
  <2>4. o.s = t
    BY <1>1, OutcomeIs
  <2> QED
    BY <1>4, <2>1, <2>2, <2>3, <2>4, ConfSet, LutsKept
<1> QED
  BY <1>2, <1>3, <1>5, <1>6

LEMMA SequenceOf ==
  ASSUME NEW n \in Nat, NEW S, NEW f \in [1 .. n -> S]
  PROVE  f \in Seq(S) /\ Len(f) = n
  OBVIOUS

LEMMA LutMade ==
  ASSUME NEW k \in Nat, NEW f \in Seq(Entries)
  PROVE  [size |-> k, entries |-> f] \in Luts
  BY DEF Luts, Entries

\* The gains before the first bad one are stored.
Stores(lut, old, gains, bad) ==
  lut = [size |-> Len(gains),
         entries |-> [i \in DOMAIN old.entries |->
                        IF i <= Len(gains) /\ \A b \in bad : i < b
                        THEN [gain |-> gains[i], offset |-> Uncalibrated] ELSE old.entries[i]]]

\* A table of which only some entries were replaced is still right: each entry has the
\* offset of its own setting or none.
LEMMA GainsStored ==
  ASSUME NEW old \in Luts, NEW gains \in Seq(Nat), NEW r, NEW y \in BOOLEAN, NEW bad,
         LutRight(old, r, y), gains # <<>>, gains \in TxGains, NEW lut, Stores(lut, old, gains, bad)
  PROVE  lut \in Luts /\ LutRight(lut, r, y)
<1> DEFINE e == old.entries
           n == Len(e)
           good(i) == i <= Len(gains) /\ \A b \in bad : i < b
           E == [i \in 1 .. n |-> IF good(i) THEN [gain |-> gains[i], offset |-> Uncalibrated] ELSE e[i]]
<1>0. n \in Nat /\ DOMAIN e = 1 .. n /\ (\A i \in 1 .. n : e[i] \in Entries)
      /\ Len(gains) \in Nat /\ 1 <= Len(gains) /\ \A i \in 1 .. Len(gains) : gains[i] \in Nat
  <2>1. Len(gains) \in Nat /\ 1 <= Len(gains) /\ \A i \in 1 .. Len(gains) : gains[i] \in Nat
    OBVIOUS
  <2> QED
    BY <2>1, LutType
<1>1. /\ \A g \in TxGains : Len(g) <= n
      /\ y => \A i \in 1 .. n : e[i].offset \in {Offset(r, e[i].gain), Uncalibrated}
  BY DEF LutRight
<1>2. lut = [size |-> Len(gains), entries |-> E]
  BY <1>0 DEF Stores
<1>3. ASSUME NEW i \in 1 .. n
      PROVE  /\ E[i] \in Entries
             /\ y => E[i].offset \in {Offset(r, E[i].gain), Uncalibrated}
  <2>1. CASE good(i)
    <3>1. gains[i] \in Nat
      BY <1>0, <2>1
    <3>2. E[i] = [gain |-> gains[i], offset |-> Uncalibrated]
      BY <2>1
    <3> HIDE DEF E
    <3> QED
      BY <3>1, <3>2 DEF Entries, Uncalibrated
  <2>2. CASE ~good(i)
    <3>1. E[i] = e[i]
      BY <2>2
    <3> HIDE DEF E
    <3> QED
      BY <1>0, <1>1, <3>1
  <2> QED
    BY <2>1, <2>2
<1>4. E \in Seq(Entries) /\ Len(E) = n
  <2>1. E \in [1 .. n -> Entries]
    BY <1>3
  <2> HIDE DEF E
  <2> QED
    BY <1>0, <2>1, SequenceOf
<1> HIDE DEF E
<1>5. lut \in Luts
  BY <1>0, <1>2, <1>4, LutMade
<1>6. lut.size = Len(gains) /\ lut.entries = E
  BY <1>2
<1>7. Len(gains) <= n
  BY <1>1
<1> QED
  BY <1>0, <1>1, <1>3, <1>4, <1>5, <1>6, <1>7 DEF LutRight

\* The gains may be set at any time, also with a bad entry among them.
LEMMA GainsSet ==
  ASSUME NEW s, Sound(s), NEW r \in RfChains, NEW gains \in TxGains, NEW o \in lgw_txgain_setconf(s, r, gains)
  PROVE  Sound(o.s)
<1> DEFINE bad == {i \in 1 .. Len(gains) : gains[i] = 0}
<1>0. gains \in Seq(Nat) /\ gains # <<>>
  BY ControlAssumption
<1>1. PICK lut : Stores(lut, s.conf.lut[r], gains, bad)
  BY DEF Stores
<1>2. PICK t : t = [s EXCEPT !.conf.lut[r] = lut] /\ o.s = t
  BY <1>1 DEF lgw_txgain_setconf, Result, Stores
<1>3. s \in Hals /\ s.conf \in BoardConfs
  BY DEF Sound, Hals
<1>4. s.conf.lut[r] \in Luts
  BY <1>3 DEF BoardConfs
<1>5. PICK y \in BOOLEAN : y <=> s.conf.txen[r] /\ ~s.pllFault
  <2>1. CASE s.conf.txen[r] /\ ~s.pllFault
    BY <2>1
  <2>2. CASE ~(s.conf.txen[r] /\ ~s.pllFault)
    BY <2>2
  <2> QED
    BY <2>1, <2>2
<1>6. LutRight(s.conf.lut[r], r, y)
  BY <1>5 DEF LutRight, LutsRight, Sound
<1>7. lut \in Luts /\ LutRight(lut, r, y)
  <2> HIDE DEF bad
  <2> QED
    BY <1>0, <1>1, <1>4, <1>6, GainsStored
<1> HIDE DEF bad
<1>8. PICK c : c = [s.conf EXCEPT !.lut[r] = lut]
  OBVIOUS
<1>9. /\ c \in BoardConfs /\ SameBoard(s.conf, c) /\ c.lut = [s.conf.lut EXCEPT ![r] = lut]
      /\ s.conf.lut \in [RfChains -> Luts]
  BY <1>3, <1>7, <1>8, BoardType
<1>10. ConfBecomes(s, t, c)
  BY <1>2, <1>8 DEF ConfBecomes
<1>11. t.conf = c /\ t.pllFault = s.pllFault
  BY <1>3, <1>10 DEF ConfBecomes, Hals
<1>12. LutsRight(t)
  <2>1. SUFFICES ASSUME NEW q \in RfChains
                 PROVE  LutRight(c.lut[q], q, c.txen[q] /\ ~s.pllFault)
    BY <1>11 DEF LutsRight
  <2>2. CASE q = r
    <3>1. c.lut[q] = lut /\ c.txen[q] = s.conf.txen[q]
      BY <1>9, <2>2 DEF SameBoard
    <3> QED
      BY <1>5, <1>7, <2>2, <3>1 DEF LutRight
  <2>3. CASE q # r
    <3>1. c.lut[q] = s.conf.lut[q] /\ c.txen[q] = s.conf.txen[q]
      BY <1>9, <2>3 DEF SameBoard
    <3> QED
      BY <3>1 DEF LutsRight, LutRight, Sound
  <2> QED
    BY <2>2, <2>3
<1>13. SameStart(s.conf, c)
  BY <1>9 DEF SameStart, SameBoard
<1> QED
  BY <1>2, <1>9, <1>10, <1>12, <1>13, ConfSet

-----------------------------------------------------------------------------
(* Emission                                                                *)

\* A call that writes registers of the transmitter: regs, when it succeeds
Adds(s, o, regs) ==
  /\ Outcome(o) /\ Calm(s, o.s) /\ o.s \in Hals
  /\ s.fresh \subseteq o.s.fresh /\ (o.ok => regs \subseteq o.s.fresh)

\* Two calls in a row write the registers of both.
LEMMA AddsNext ==
  ASSUME NEW s, NEW a, NEW o, NEW Q, NEW R, NEW outs, Adds(s, a, Q), Follows(a, o, outs),
         o \in outs => Adds(a.s, o, R)
  PROVE  Adds(s, o, Q \cup R)
<1>1. CASE a.ok
  <2>1. Adds(a.s, o, R)
    BY <1>1 DEF Follows
  <2> QED
    BY <1>1, <2>1, CalmTwice DEF Adds
<1>2. CASE ~a.ok
  BY <1>2 DEF Follows, Adds
<1> QED
  BY <1>1, <1>2

LEMMA AddsNone ==
  ASSUME NEW s \in Hals, NEW o \in Succeeds(s)
  PROVE  Adds(s, o, {})
  BY OutcomeIs, CalmItself DEF Adds

LEMMA FreshSet ==
  ASSUME NEW s \in Hals, NEW x \in SUBSET TxRegs, NEW t, t = [s EXCEPT !.fresh = x]
  PROVE  t \in Hals /\ Calm(s, t) /\ t.fresh = x /\ t.tx = s.tx
  BY DEF Hals, Calm, Aside, Quiet, Kept

LEMMA WriteTxIs ==
  ASSUME NEW s \in Hals, NEW regs \in SUBSET TxRegs, NEW o \in WriteTx(s, regs)
  PROVE  Adds(s, o, regs)
<1>1. PICK x \in SUBSET TxRegs : x = s.fresh \cup regs
  BY DEF Hals
<1>2. PICK t : t = [s EXCEPT !.fresh = x]
  OBVIOUS
<1>3. o \in Succeeds(t) \/ o \in Fails(Failing(s))
  BY <1>1, <1>2 DEF WriteTx
<1>4. CASE o \in Succeeds(t)
  <2>1. t \in Hals /\ Calm(s, t) /\ t.fresh = x
    BY <1>2, FreshSet
  <2>2. o.s = t /\ Outcome(o)
    BY <1>4, OutcomeIs
  <2> QED
    BY <1>1, <2>1, <2>2 DEF Adds
<1>5. CASE o \in Fails(Failing(s))
  <2>1. Failing(s).fresh = s.fresh
    BY DEF Failing, Hals
  <2>2. o.s = Failing(s) /\ Outcome(o) /\ ~o.ok
    BY <1>5, OutcomeIs
  <2> QED
    BY <2>1, <2>2, CalmFailing DEF Adds
<1> QED
  BY <1>3, <1>4, <1>5

TxModes == {"imm", "delayed", "gps"}

TrigBecomes(s, t, r, g) == t = [s EXCEPT !.tx[r].trig = g]
TrigIs(s, t, r, g) == t \in Hals /\ Calm(s, t) /\ t.fresh = s.fresh /\ t.tx[r].trig = g

LEMMA TriggerSet ==
  ASSUME NEW s \in Hals, NEW r \in RfChains, NEW g \in SUBSET TxModes, NEW t, TrigBecomes(s, t, r, g)
  PROVE  TrigIs(s, t, r, g)
<1>1. PICK w \in TxStates : w = s.tx[r]
  BY TxType
<1>2. PICK x \in TxStates : x = [w EXCEPT !.trig = g] /\ x.trig = g
  <2>1. w = [fsm |-> w.fsm, trig |-> w.trig] /\ w.fsm \in {"free", "scheduled", "emitting"}
    BY DEF TxStates
  <2>2. [fsm |-> w.fsm, trig |-> g] \in TxStates
    BY <2>1 DEF TxStates, TxModes
  <2> QED
    BY <2>1, <2>2
<1>3. TxBecomes(s, t, r, x)
  BY <1>1, <1>2 DEF TxBecomes, TrigBecomes
<1>4. TxIs(s, t, r, x)
  BY <1>3, TxSet
<1>5. s.tx \in [RfChains -> TxStates]
  BY TxType
<1> QED
  BY <1>2, <1>4, <1>5 DEF TxIs, TrigIs

\* Arming the trigger writes no register the modem uses.
LEMMA TriggerIs ==
  ASSUME NEW s \in Hals, NEW r \in RfChains, NEW mode \in TxModes, NEW o \in TriggerTx(s, r, mode)
  PROVE  Adds(s, o, {})
<1> DEFINE timed == IF mode = "delayed" THEN WriteTx(s, {"time"}) ELSE Succeeds(s)
           cleared(t) == [t EXCEPT !.tx[r].trig = @ \ {mode}]
           armed(t) == [cleared(t) EXCEPT !.tx[r].trig = @ \cup {mode},
                                          !.tx[r].fsm = IF mode = "imm" THEN "emitting" ELSE "scheduled"]
           trigger(t) == Succeeds(armed(t))
             \cup (IF CanFail(t) THEN Fails(Failing(t)) \cup Fails(Failing(cleared(t))) ELSE {})
<1>1. o \in AndThen(timed, trigger)
  BY DEF TriggerTx
<1>2. PICK a \in timed : Follows(a, o, trigger(a.s))
  BY <1>1 DEF AndThen, Follows
<1>3. Adds(s, a, {})
  <2>1. CASE a \in Succeeds(s)
    BY <2>1, AddsNone
  <2>2. CASE a \in WriteTx(s, {"time"})
    <3>1. {"time"} \in SUBSET TxRegs
      BY DEF TxRegs
    <3> QED
      BY <2>2, <3>1, WriteTxIs DEF Adds
  <2> QED
    BY <1>2, <2>1, <2>2
<1>4. PICK t \in Hals : t = a.s
  BY <1>3 DEF Adds
<1>5. PICK g \in SUBSET TxModes : g = t.tx[r].trig
  <2>1. t.tx[r] \in TxStates
    BY TxType
  <2> QED
    BY <2>1 DEF TxStates, TxModes
<1>6. PICK h \in SUBSET TxModes : h = g \ {mode}
  OBVIOUS
<1>7. PICK c : TrigBecomes(t, c, r, h)
  BY DEF TrigBecomes
<1>8. TrigIs(t, c, r, h) /\ c \in Hals /\ Calm(t, c) /\ c.fresh = t.fresh
  BY <1>7, TriggerSet DEF TrigIs
<1>9. PICK k \in SUBSET TxModes : k = h \cup {mode}
  OBVIOUS
<1>10. PICK d : TrigBecomes(c, d, r, k)
  BY DEF TrigBecomes
<1>11. d \in Hals /\ Calm(c, d) /\ d.fresh = c.fresh
  BY <1>8, <1>10, TriggerSet DEF TrigIs
<1>12. PICK f \in {"free", "scheduled", "emitting"} : f = IF mode = "imm" THEN "emitting" ELSE "scheduled"
  OBVIOUS
<1>13. PICK e : e = [d EXCEPT !.tx[r].fsm = f]
  OBVIOUS
<1>14. e \in Hals /\ Calm(d, e) /\ e.fresh = d.fresh
  BY <1>11, <1>13, TxFsm
<1>15. cleared(t) = c
  BY <1>5, <1>6, <1>7 DEF TrigBecomes
<1>16. armed(t) = e
  <2>1. c.tx[r].trig = h
    BY <1>8 DEF TrigIs
  <2> QED
    BY <1>10, <1>12, <1>13, <1>15, <1>9, <2>1 DEF TrigBecomes
<1> HIDE DEF cleared, armed
<1>17. ASSUME o \in trigger(a.s)
       PROVE  Adds(a.s, o, {})
  <2>1. o \in Succeeds(e) \/ o \in Fails(Failing(t)) \/ o \in Fails(Failing(c))
    BY <1>4, <1>15, <1>16, <1>17
  <2>2. CASE o \in Succeeds(e)
    <3>1. Calm(t, e)
      BY <1>8, <1>11, <1>14, CalmTwice
    <3>2. o.s = e /\ Outcome(o)
      BY <2>2, OutcomeIs
    <3> QED
      BY <1>4, <1>8, <1>11, <1>14, <3>1, <3>2 DEF Adds
  <2>3. ASSUME NEW u \in Hals, Calm(t, u), u.fresh = t.fresh, o \in Fails(Failing(u))
        PROVE  Adds(t, o, {})
    <3>1. Failing(u).fresh = u.fresh
      BY DEF Failing, Hals
    <3>2. o.s = Failing(u) /\ Outcome(o)
      BY <2>3, OutcomeIs
    <3>3. Calm(t, Failing(u)) /\ Failing(u) \in Hals
      BY <2>3, CalmFailing, CalmTwice
    <3> QED
      BY <2>3, <3>1, <3>2, <3>3 DEF Adds
  <2> QED
    BY <1>4, <1>8, <2>1, <2>2, <2>3, CalmItself
<1> HIDE DEF trigger
<1>18. Adds(s, o, {} \cup {})
  BY <1>2, <1>3, <1>17, AddsNext
<1> QED
  BY <1>18, Zenon DEF Adds

\* The entry for a power is one of the table.
LEMMA PowerIsEntry ==
  ASSUME NEW lut \in Luts, 1 <= lut.size, NEW power \in Nat
  PROVE  PowerIndex(lut, power) \in 1 .. lut.size
<1> DEFINE low == {i \in 2 .. lut.size : i <= power}
<1>0. lut.size \in Nat
  BY LutType
<1>1. low \subseteq 1 .. lut.size
  BY <1>0
<1>2. CASE low = {}
  BY <1>0, <1>2 DEF PowerIndex
<1>3. CASE low # {}
  <2>1. PowerIndex(lut, power) = CHOOSE i \in low : \A j \in low : j <= i
    BY <1>3 DEF PowerIndex
  <2>2. \E i \in low : \A j \in low : j <= i
    <3> HIDE DEF low
    <3> QED
      BY <1>0, <1>1, <1>3, GreatestIndex
  <2>3. PowerIndex(lut, power) \in low
    BY <2>1, <2>2, Zenon
  <2> QED
    BY <1>1, <2>3
<1> QED
  BY <1>2, <1>3

Modulations == {"cw", "lora", "fsk"}

\* The registers a modulation takes beside those of every packet
ModRegs(mod) ==
  IF mod = "cw" THEN {"dev", "agc_dev", "test_freq"}
  ELSE IF mod = "lora"
       THEN {"dev", "bw", "preamble", "sf", "lowpass", "cr", "modem", "options", "sync", "fine_sync", "size",
             "ppm", "delay"}
       ELSE {"dev", "agc_dev", "fsk_mode", "fsk_sync", "fsk_rate", "fsk_preamble", "fsk_size"}

\* Each modulation writes its own registers; the delay only LoRa.
LEMMA ModulatedIs ==
  ASSUME NEW t \in Hals, NEW mod \in Modulations, NEW o,
         o \in LET modulated(u) == CASE mod = "cw" -> ConfigureCw(u) [] mod = "lora" -> ConfigureLora(u)
                                     [] OTHER -> ConfigureFsk(u)
               IN  AndThen(modulated(t), LAMBDA u : sx1302_tx_set_start_delay(u, mod))
  PROVE  Adds(t, o, ModRegs(mod))
<1> DEFINE loraRegs == {"dev", "bw", "preamble", "sf", "lowpass", "cr", "modem", "options", "sync", "fine_sync",
                        "size", "ppm"}
<1>1. CASE mod = "cw"
  <2>1. PICK a \in WriteTx(t, ModRegs(mod)) : Follows(a, o, Succeeds(a.s))
    BY <1>1 DEF AndThen, Follows, ConfigureCw, ModRegs, sx1302_tx_set_start_delay
  <2>2. ModRegs(mod) \in SUBSET TxRegs
    BY <1>1 DEF ModRegs, TxRegs
  <2>3. Adds(t, a, ModRegs(mod))
    BY <2>1, <2>2, WriteTxIs
  <2>4. o \in Succeeds(a.s) => Adds(a.s, o, {})
    BY <2>3, AddsNone DEF Adds
  <2>5. Adds(t, o, ModRegs(mod) \cup {})
    BY <2>1, <2>3, <2>4, AddsNext
  <2> QED
    BY <2>5 DEF Adds
<1>2. CASE mod = "fsk"
  <2>1. PICK a \in WriteTx(t, ModRegs(mod)) : Follows(a, o, Succeeds(a.s))
    BY <1>2 DEF AndThen, Follows, ConfigureFsk, ModRegs, sx1302_tx_set_start_delay
  <2>2. ModRegs(mod) \in SUBSET TxRegs
    BY <1>2 DEF ModRegs, TxRegs
  <2>3. Adds(t, a, ModRegs(mod))
    BY <2>1, <2>2, WriteTxIs
  <2>4. o \in Succeeds(a.s) => Adds(a.s, o, {})
    BY <2>3, AddsNone DEF Adds
  <2>5. Adds(t, o, ModRegs(mod) \cup {})
    BY <2>1, <2>3, <2>4, AddsNext
  <2> QED
    BY <2>5 DEF Adds
<1>3. CASE mod = "lora"
  <2>1. PICK a \in WriteTx(t, loraRegs) : Follows(a, o, WriteTx(a.s, {"delay"}))
    BY <1>3 DEF AndThen, Follows, ConfigureLora, sx1302_tx_set_start_delay
  <2>2. loraRegs \in SUBSET TxRegs /\ {"delay"} \in SUBSET TxRegs /\ ModRegs(mod) = loraRegs \cup {"delay"}
    BY <1>3 DEF ModRegs, TxRegs
  <2> HIDE DEF loraRegs
  <2>3. Adds(t, a, loraRegs)
    BY <2>1, <2>2, WriteTxIs
  <2>4. o \in WriteTx(a.s, {"delay"}) => Adds(a.s, o, {"delay"})
    BY <2>2, <2>3, WriteTxIs DEF Adds
  <2>5. Adds(t, o, loraRegs \cup {"delay"})
    BY <2>1, <2>3, <2>4, AddsNext
  <2> QED
    BY <2>2, <2>5
<1> QED
  BY <1>1, <1>2, <1>3 DEF Modulations

\* A packet that gets as far as its trigger has every register its modem uses.
LEMMA WrittenIs ==
  ASSUME NEW s \in Hals, NEW mod \in Modulations, NEW o,
         o \in LET modulated(t) == CASE mod = "cw" -> ConfigureCw(t) [] mod = "lora" -> ConfigureLora(t)
                                     [] OTHER -> ConfigureFsk(t)
                   delayed(t) == AndThen(modulated(t), LAMBDA u : sx1302_tx_set_start_delay(u, mod))
                   selected == AndThen(SelectModem(s), SetPower)
               IN  AndThen(AndThen(selected, delayed), LAMBDA t : WritePayload(t, mod))
  PROVE  Adds(s, o, UsedTx(mod))
<1> DEFINE modulated(t) == CASE mod = "cw" -> ConfigureCw(t) [] mod = "lora" -> ConfigureLora(t)
                             [] OTHER -> ConfigureFsk(t)
           delayed(t) == AndThen(modulated(t), LAMBDA u : sx1302_tx_set_start_delay(u, mod))
           selected == AndThen(SelectModem(s), SetPower)
           A == {"type", "source"}
           B == {"offsets", "power", "gain", "freq", "agc_bw"}
           D == {"open", "payload", "close"} \cup IF mod = "fsk" THEN {"size_byte"} ELSE {}
<1>1. PICK c \in AndThen(selected, delayed) : Follows(c, o, WritePayload(c.s, mod))
  BY DEF AndThen, Follows
<1>2. PICK b \in selected : Follows(b, c, delayed(b.s))
  BY <1>1 DEF AndThen, Follows
<1>3. PICK a \in WriteTx(s, A) : Follows(a, b, WriteTx(a.s, B))
  BY <1>2 DEF AndThen, Follows, SelectModem, SetPower
<1>4. A \in SUBSET TxRegs /\ B \in SUBSET TxRegs /\ D \in SUBSET TxRegs
  BY DEF TxRegs
<1>5. UsedTx(mod) \subseteq ((A \cup B) \cup ModRegs(mod)) \cup D
  <2>1. CASE mod = "cw"
    BY <2>1 DEF UsedTx, ModRegs
  <2>2. CASE mod = "lora"
    BY <2>2 DEF UsedTx, ModRegs
  <2>3. CASE mod = "fsk"
    BY <2>3 DEF UsedTx, ModRegs
  <2> QED
    BY <2>1, <2>2, <2>3 DEF Modulations
<1>6. WritePayload(c.s, mod) = WriteTx(c.s, D)
  BY DEF WritePayload
<1> HIDE DEF A, B, D, selected, delayed
<1>7. Adds(s, a, A)
  BY <1>3, <1>4, WriteTxIs
<1>8. b \in WriteTx(a.s, B) => Adds(a.s, b, B)
  BY <1>4, <1>7, WriteTxIs DEF Adds
<1>9. Adds(s, b, A \cup B)
  BY <1>3, <1>7, <1>8, AddsNext
<1>10. c \in delayed(b.s) => Adds(b.s, c, ModRegs(mod))
  BY <1>9, ModulatedIs DEF Adds, delayed
<1>11. Adds(s, c, (A \cup B) \cup ModRegs(mod))
  BY <1>2, <1>9, <1>10, AddsNext
<1>12. o \in WriteTx(c.s, D) => Adds(c.s, o, D)
  BY <1>4, <1>11, WriteTxIs DEF Adds
<1>13. Adds(s, o, ((A \cup B) \cup ModRegs(mod)) \cup D)
  BY <1>1, <1>6, <1>11, <1>12, AddsNext
<1> QED
  BY <1>5, <1>13, Zenon DEF Adds

WholeBecomes(s, t) == t = [s EXCEPT !.whole = TRUE]
WholeIs(s, t) ==
  /\ t \in Hals /\ t.conf = s.conf /\ t.bit = s.bit /\ t.blk = s.blk /\ t.started = s.started
  /\ t.ready = s.ready /\ t.pllFault = s.pllFault /\ t.clkFault = s.clkFault /\ t.lost = s.lost
  /\ t.sent = s.sent /\ t.whole

LEMMA WholeSet ==
  ASSUME NEW s \in Hals, NEW t, WholeBecomes(s, t)
  PROVE  WholeIs(s, t)
  BY DEF Hals, WholeBecomes, WholeIs

LEMMA PacketSet ==
  ASSUME NEW s \in Hals, NEW p \in Sent, NEW t, t = [s EXCEPT !.sent = p]
  PROVE  /\ t \in Hals /\ t.conf = s.conf /\ t.bit = s.bit /\ t.blk = s.blk /\ t.started = s.started
         /\ t.ready = s.ready /\ t.pllFault = s.pllFault /\ t.clkFault = s.clkFault /\ t.lost = s.lost
         /\ t.sent = p /\ t.whole = s.whole /\ t.fresh = s.fresh
  BY DEF Hals

\* The packet that was written with every register of its modulation, corrected by
\* an entry of the table
Records(s, t, r, e, mod) ==
  t = [s EXCEPT !.sent = IF s.conf.sx1250 THEN @ ELSE
                         {[chain |-> r, gain |-> e.gain, offset |-> e.offset]},
                !.whole = UsedTx(mod) \subseteq s.fresh]

LEMMA RecordedIs ==
  ASSUME NEW s, Sound(s), NEW mod \in Modulations, UsedTx(mod) \subseteq s.fresh, NEW r \in RfChains,
         s.conf.txen[r], NEW i \in 1 .. s.conf.lut[r].size, NEW e, e = s.conf.lut[r].entries[i], NEW t,
         Records(s, t, r, e, mod)
  PROVE  Sound(t)
<1>0. s \in Hals /\ s.conf \in BoardConfs /\ s.conf.lut[r] \in Luts
  <2>1. s.conf \in BoardConfs
    BY DEF Sound, Hals
  <2> QED
    BY <2>1 DEF Sound, BoardConfs
<1>1. PICK lut \in Luts : lut = s.conf.lut[r]
  BY <1>0
<1>2. LutRight(lut, r, s.conf.txen[r] /\ ~s.pllFault)
  BY <1>1 DEF Sound, LutsRight
<1>3. e \in Entries /\ (~s.pllFault => e.offset \in {Offset(r, e.gain), Uncalibrated})
  <2>1. i \in 1 .. Len(lut.entries)
    BY <1>1, <1>2, LutType DEF LutRight
  <2> QED
    BY <1>1, <1>2, <2>1, LutType DEF LutRight
<1>4. PICK p : p = IF s.conf.sx1250 THEN s.sent ELSE {[chain |-> r, gain |-> e.gain, offset |-> e.offset]}
  OBVIOUS
<1>5. p \in Sent /\ (~s.pllFault => \A q \in p : q.offset \in {Offset(q.chain, q.gain), Uncalibrated})
  <2>1. CASE s.conf.sx1250
    BY <1>0, <1>4, <2>1 DEF Sound, SentRight, Hals
  <2>2. CASE ~s.conf.sx1250
    <3>1. PICK q : q = [chain |-> r, gain |-> e.gain, offset |-> e.offset]
      OBVIOUS
    <3>2. q \in [chain : RfChains, gain : Nat, offset : Nat]
      BY <1>3, <3>1 DEF Entries
    <3>3. q.chain = r /\ q.gain = e.gain /\ q.offset = e.offset
      BY <3>1
    <3>4. p = {q}
      BY <1>4, <2>2, <3>1
    <3> QED
      BY <1>3, <3>2, <3>3, <3>4 DEF Sent
  <2> QED
    BY <2>1, <2>2
<1>6. PICK u : u = [s EXCEPT !.sent = p]
  OBVIOUS
<1>7. WholeBecomes(u, t)
  <2>1. (UsedTx(mod) \subseteq s.fresh) = TRUE
    BY Zenon
  <2> QED
    BY <1>4, <1>6, <2>1 DEF Records, WholeBecomes
<1>8. /\ u \in Hals /\ u.conf = s.conf /\ u.bit = s.bit /\ u.blk = s.blk /\ u.started = s.started
      /\ u.ready = s.ready /\ u.pllFault = s.pllFault /\ u.clkFault = s.clkFault /\ u.lost = s.lost
      /\ u.sent = p
  BY <1>0, <1>5, <1>6, PacketSet
<1>9. /\ t \in Hals /\ t.conf = s.conf /\ t.bit = s.bit /\ t.blk = s.blk /\ t.started = s.started
      /\ t.ready = s.ready /\ t.pllFault = s.pllFault /\ t.clkFault = s.clkFault /\ t.lost = s.lost
      /\ t.sent = p /\ t.whole
  <2>1. WholeIs(u, t)
    BY <1>7, <1>8, WholeSet
  <2> QED
    BY <1>8, <2>1 DEF WholeIs
<1>10. LutsRight(t) /\ Safe(t)
  BY <1>9 DEF Sound, LutsRight, Safe
<1>11. SentRight(t)
  BY <1>5, <1>9 DEF SentRight
<1>12. t.started /\ t.ready => Ready(t)
  BY <1>9, ReadySame DEF Sound
<1> QED
  BY <1>9, <1>10, <1>12, <1>11 DEF Sound

LEMMA CleanIs ==
  ASSUME NEW p, Outcome(p), Sound(p.s), NEW o, o = [p EXCEPT !.s.fresh = {}]
  PROVE  Outcome(o) /\ Sound(o.s)
<1>0. p.s \in Hals
  BY DEF Sound
<1>1. PICK x \in SUBSET TxRegs : x = {}
  OBVIOUS
<1>2. PICK t : t = [p.s EXCEPT !.fresh = x]
  OBVIOUS
<1>3. Sound(t)
  BY <1>0, <1>2, FreshSet, CalmSound
<1>4. Carries(o, p, t)
  BY <1>1, <1>2 DEF Carries
<1>5. Carried(o, p, t)
  BY <1>4, OutcomeSet
<1> QED
  BY <1>3, <1>5 DEF Carried

\* An emission: what is recorded of it is right.
LEMMA SendSound ==
  ASSUME NEW s, Sound(s), NEW r \in RfChains, s.conf.txen[r], NEW mod \in Modulations, NEW mode \in TxModes,
         NEW power \in Nat, NEW o \in sx1302_send(s, r, mod, mode, power)
  PROVE  Outcome(o) /\ Sound(o.s)
<1> DEFINE entry == s.conf.lut[r].entries[PowerIndex(s.conf.lut[r], power)]
           modulated(t) == CASE mod = "cw" -> ConfigureCw(t) [] mod = "lora" -> ConfigureLora(t)
                             [] OTHER -> ConfigureFsk(t)
           delayed(t) == AndThen(modulated(t), LAMBDA u : sx1302_tx_set_start_delay(u, mod))
           selected == AndThen(SelectModem(s), SetPower)
           written == AndThen(AndThen(selected, delayed), LAMBDA t : WritePayload(t, mod))
           recorded(t) == [t EXCEPT !.sent = IF t.conf.sx1250 THEN @ ELSE
                                             {[chain |-> r, gain |-> entry.gain, offset |-> entry.offset]},
                                    !.whole = UsedTx(mod) \subseteq t.fresh]
           done == AndThen(AndThen(written, LAMBDA t : TriggerTx(t, r, mode)),
                           LAMBDA t : Succeeds(recorded(t)))
<1>0. s \in Hals
  BY DEF Sound
<1>1. PICK d \in done : o = [d EXCEPT !.s.fresh = {}]
  BY DEF sx1302_send
<1>2. PICK b \in AndThen(written, LAMBDA t : TriggerTx(t, r, mode)) : Follows(b, d, Succeeds(recorded(b.s)))
  BY <1>1 DEF AndThen, Follows
<1>3. PICK a \in written : Follows(a, b, TriggerTx(a.s, r, mode))
  BY <1>2 DEF AndThen, Follows
<1>4. Adds(s, a, UsedTx(mod))
  BY <1>0, <1>3, WrittenIs
<1> HIDE DEF written
<1>5. b \in TriggerTx(a.s, r, mode) => Adds(a.s, b, {})
  BY <1>4, TriggerIs DEF Adds
<1>6. Adds(s, b, UsedTx(mod) \cup {})
  BY <1>3, <1>4, <1>5, AddsNext
<1>7. Outcome(b) /\ Calm(s, b.s) /\ b.s \in Hals /\ (b.ok => UsedTx(mod) \subseteq b.s.fresh)
  BY <1>6 DEF Adds
<1>8. Sound(b.s) /\ b.s.conf = s.conf
  BY <1>7, CalmSound DEF Calm, Aside, Quiet, Kept
<1>9. CASE ~b.ok
  <2>1. d = b
    BY <1>2, <1>9 DEF Follows
  <2> QED
    BY <1>1, <1>7, <1>8, <2>1, CleanIs
<1>10. CASE b.ok
  <2>1. PICK lut \in Luts : lut = s.conf.lut[r]
    BY <1>0 DEF Hals, BoardConfs
  <2>2. 1 <= lut.size
    BY <2>1 DEF Sound, LutsRight, LutRight
  <2>3. PICK i \in 1 .. lut.size : i = PowerIndex(s.conf.lut[r], power)
    BY <2>1, <2>2, PowerIsEntry
  <2>4. PICK e : e = entry /\ e = b.s.conf.lut[r].entries[i]
    BY <1>8, <2>3
  <2>5. PICK t : t = recorded(b.s)
    OBVIOUS
  <2>6. Records(b.s, t, r, e, mod)
    BY <2>4, <2>5 DEF Records
  <2> HIDE DEF recorded
  <2>7. Sound(t)
    BY <1>7, <1>8, <1>10, <2>1, <2>3, <2>4, <2>6, RecordedIs
  <2>8. d.s = t /\ Outcome(d)
    BY <1>2, <1>10, <2>5, OutcomeIs DEF Follows
  <2> QED
    BY <1>1, <2>7, <2>8, CleanIs
<1> QED
  BY <1>9, <1>10

Calms(s, o) == Outcome(o) /\ Calm(s, o.s) /\ o.s \in Hals

LEMMA CalmsTwice ==
  ASSUME NEW s, NEW a, NEW o, NEW outs, Calms(s, a), Follows(a, o, outs), o \in outs => Calms(a.s, o)
  PROVE  Calms(s, o)
  BY CalmTwice DEF Calms, Follows

LEMMA CalmsBoth ==
  ASSUME NEW s, NEW a, NEW b, NEW o, Calms(s, a), Calms(a.s, b), Both(a, b, o)
  PROVE  Calms(s, o)
<1>1. Outcome(o) /\ o.s = b.s
  BY BothIs DEF Calms
<1> QED
  BY <1>1, CalmTwice DEF Calms

LEMMA CalmsOne ==
  ASSUME NEW s \in Hals, NEW o
  PROVE  o \in Succeeds(s) \/ o \in Fails(s) \/ o \in Access(s) => Calms(s, o)
  BY CalmAccess, CalmItself, OutcomeIs DEF Calms

LEMMA VoltageIs ==
  ASSUME NEW s \in Hals, NEW o \in SetPaVoltage(s)
  PROVE  Calms(s, o)
<1>1. o \in Succeeds(s) \/ o \in Fails(s) \/ o \in Access(s)
  BY DEF SetPaVoltage, ad5338r_write, i2c_linuxdev_write_buffer
<1> QED
  BY <1>1, CalmsOne

\* What follows the wait for the AGC concerns the transmitter only.
LEMMA AfterLbtIs ==
  ASSUME NEW s \in Hals, NEW r \in RfChains, NEW o \in AfterLbt(s, r)
  PROVE  Calms(s, o)
<1>1. PICK c : c = [s EXCEPT !.tx[r].trig = {}]
  OBVIOUS
<1>2. PICK d : d = [c EXCEPT !.tx[r].fsm = "free"]
  OBVIOUS
<1>3. [s EXCEPT !.tx[r].trig = {}, !.tx[r].fsm = "free"] = d
  BY <1>1, <1>2
<1>4. \/ o \in Succeeds(s)
      \/ o \in Also(Access(s), Access)
      \/ o \in Fails(d)
      \/ \E a \in sx1302_tx_abort(Failing(s), r) : o = Result(a.s, FALSE)
  BY <1>3 DEF AfterLbt
<1>5. CASE o \in Succeeds(s)
  BY <1>5, CalmsOne
<1>6. CASE o \in Also(Access(s), Access)
  <2>1. PICK a \in Access(s) : \E b \in Access(a.s) : Both(a, b, o)
    BY <1>6 DEF Also, Both
  <2>2. PICK b \in Access(a.s) : Both(a, b, o)
    BY <2>1
  <2>3. Calms(s, a)
    BY CalmsOne
  <2>4. Calms(a.s, b)
    BY <2>3, CalmsOne DEF Calms
  <2> QED
    BY <2>2, <2>3, <2>4, CalmsBoth
<1>7. CASE o \in Fails(d)
  <2>1. TxBecomes(s, c, r, [s.tx[r] EXCEPT !.trig = {}]) /\ c \in Hals /\ Calm(s, c)
    BY <1>1, TxCleared DEF TxBecomes
  <2>2. d \in Hals /\ Calm(c, d)
    <3>1. PICK f \in {"free", "scheduled", "emitting"} : f = "free"
      OBVIOUS
    <3> QED
      BY <1>2, <2>1, <3>1, TxFsm
  <2>3. Calm(s, d)
    BY <2>1, <2>2, CalmTwice
  <2>4. o.s = d /\ Outcome(o)
    BY <1>7, OutcomeIs
  <2> QED
    BY <2>2, <2>3, <2>4 DEF Calms
<1>8. CASE \E a \in sx1302_tx_abort(Failing(s), r) : o = Result(a.s, FALSE)
  <2>1. PICK a \in sx1302_tx_abort(Failing(s), r) : o = Result(a.s, FALSE)
    BY <1>8
  <2>2. Calm(s, Failing(s)) /\ Failing(s) \in Hals
    BY CalmFailing
  <2>3. Calm(Failing(s), a.s) /\ a.s \in Hals
    BY <2>2, AbortIs
  <2>4. Calm(s, a.s)
    BY <2>2, <2>3, CalmTwice
  <2>5. o \in Fails(a.s)
    BY <2>1 DEF Fails
  <2>6. o.s = a.s /\ Outcome(o)
    BY <2>5, OutcomeIs
  <2> QED
    BY <2>3, <2>4, <2>6 DEF Calms
<1> QED
  BY <1>4, <1>5, <1>6, <1>7, <1>8

\* lgw_send as a whole; it refuses a chain that may not transmit, whose table was
\* never calibrated.
LEMMA EmissionSound ==
  ASSUME NEW s, Sound(s), NEW r \in RfChains, NEW mod \in Modulations, NEW mode \in TxModes,
         NEW power \in Nat, NEW o \in lgw_send(s, r, mod, mode, power)
  PROVE  Sound(o.s)
<1> DEFINE listening == AndThen(SetPaVoltage(s), LAMBDA t : IF t.conf.lbt THEN Access(t) ELSE Succeeds(t))
<1>0. s \in Hals
  BY DEF Sound
<1>1. CASE ~s.started \/ ~s.conf.txen[r] \/ ~s.conf.enable[r]
  BY <1>1, OutcomeIs DEF lgw_send
<1>2. CASE ~(~s.started \/ ~s.conf.txen[r] \/ ~s.conf.enable[r])
  <2>1. o \in AndThen(AndThen(listening, LAMBDA t : sx1302_send(t, r, mod, mode, power)), LAMBDA t : AfterLbt(t, r))
    BY <1>2 DEF lgw_send
  <2>2. PICK c \in AndThen(listening, LAMBDA t : sx1302_send(t, r, mod, mode, power)) :
          Follows(c, o, AfterLbt(c.s, r))
    BY <2>1 DEF AndThen, Follows
  <2>3. PICK b \in listening : Follows(b, c, sx1302_send(b.s, r, mod, mode, power))
    BY <2>2 DEF AndThen, Follows
  <2>4. PICK a \in SetPaVoltage(s) : Follows(a, b, IF a.s.conf.lbt THEN Access(a.s) ELSE Succeeds(a.s))
    BY <2>3 DEF AndThen, Follows
  <2>5. Calms(s, a)
    BY <1>0, VoltageIs
  <2>6. b \in (IF a.s.conf.lbt THEN Access(a.s) ELSE Succeeds(a.s)) => Calms(a.s, b)
    BY <2>5, CalmsOne DEF Calms
  <2>7. Calms(s, b)
    BY <2>4, <2>5, <2>6, CalmsTwice
  <2>8. Sound(b.s) /\ b.s.conf = s.conf
    BY <2>7, CalmSound DEF Calms, Calm, Aside, Quiet, Kept
  <2>9. Sound(c.s) /\ c.s \in Hals
    BY <1>2, <2>3, <2>8, SendSound DEF Follows, Sound
  <2>10. o = c \/ Calms(c.s, o)
    BY <2>2, <2>9, AfterLbtIs DEF Follows
  <2> QED
    BY <2>9, <2>10, CalmSound DEF Calms
<1> QED
  BY <1>1, <1>2

-----------------------------------------------------------------------------
(* The calls that ask something                                            *)

\* lgw_status, lgw_abort_tx, lgw_get_eui and lgw_get_temperature
LEMMA QuerySound ==
  ASSUME NEW s, Sound(s), NEW r \in RfChains, NEW o,
         o \in lgw_status(s, r) \cup lgw_abort_tx(s, r) \cup lgw_get_eui(s) \cup lgw_get_temperature(s)
  PROVE  Sound(o.s)
<1>0. s \in Hals
  BY DEF Sound
<1>1. CASE o \in lgw_status(s, r)
  <2>1. CASE o \in Succeeds(s)
    BY <2>1, OutcomeIs
  <2>2. CASE o \in Ignoring(Access(s))
    <3>1. PICK a \in Access(s) : o = [a EXCEPT !.ok = TRUE]
      BY <2>2 DEF Ignoring
    <3>2. Calms(s, a)
      BY <1>0, CalmsOne
    <3>3. o.s = a.s
      BY <3>1, <3>2, IgnoredIs DEF Calms
    <3> QED
      BY <3>2, <3>3, CalmSound DEF Calms
  <2> QED
    BY <1>1, <2>1, <2>2 DEF lgw_status, sx1302_tx_status
<1>2. CASE o \in lgw_abort_tx(s, r)
  BY <1>0, <1>2, AbortIs, CalmSound DEF lgw_abort_tx
<1>3. CASE o \in Fails(s) \/ o \in Access(s)
  BY <1>0, <1>3, CalmsOne, CalmSound DEF Calms
<1>4. CASE o \in AndThen(Access(s), Access)
  <2>1. PICK a \in Access(s) : Follows(a, o, Access(a.s))
    BY <1>4 DEF AndThen, Follows
  <2>2. Calms(s, a)
    BY <1>0, CalmsOne
  <2>3. o \in Access(a.s) => Calms(a.s, o)
    BY <2>2, CalmsOne DEF Calms
  <2>4. Calms(s, o)
    BY <2>1, <2>2, <2>3, CalmsTwice
  <2> QED
    BY <2>4, CalmSound DEF Calms
<1>5. lgw_get_eui(s) = Access(s)
  BY DEF lgw_get_eui, sx1302_get_eui
<1>6. ASSUME o \in lgw_get_temperature(s)
      PROVE  (o \in Fails(s) \/ o \in Access(s)) \/ o \in AndThen(Access(s), Access)
  <2>1. CASE s.conf.com # "SPI"
    BY <1>6, <2>1 DEF lgw_get_temperature
  <2>2. CASE s.conf.com = "SPI" /\ s.ts = -1
    BY <1>6, <2>2 DEF lgw_get_temperature, stts751_get_temperature
  <2>3. CASE s.conf.com = "SPI" /\ s.ts # -1
    BY <1>6, <2>3 DEF lgw_get_temperature, stts751_get_temperature, i2c_linuxdev_read, AndThen
  <2> QED
    BY <2>1, <2>2, <2>3
<1> QED
  BY <1>1, <1>2, <1>3, <1>4, <1>5, <1>6

-----------------------------------------------------------------------------
(* The invariant                                                           *)

ControlInv == Sound(hal) /\ (halted => Silent(hal))

\* The state after the program read its file
LEMMA NewSound ==
  ASSUME NEW c \in Confs
  PROVE  Sound(NewHal(c))
<1>1. PICK s : s = NewHal(c)
  OBVIOUS
<1>2. c \in BoardConfs /\ \A r \in RfChains : /\ 1 <= c.lut[r].size /\ c.lut[r].size <= Len(c.lut[r].entries)
                                              /\ \A i \in 1 .. Len(c.lut[r].entries) : c.lut[r].entries[i].offset = Uncalibrated
                                              /\ \A g \in TxGains : Len(g) <= Len(c.lut[r].entries)
  BY ControlAssumption
<1>3. NewChip.bit \in BitStates /\ NewChip.blk \in BlkStates /\ NewChip.tx \in TxsStates
  <2>1. NewChip.bit \in BitStates
    BY DEF NewChip, BitStates
  <2>2. NewChip.blk \in BlkStates
    <3>1. Unset \in Seq(Int)
      BY DEF Unset
    <3> QED
      BY <3>1 DEF NewChip, BlkStates
  <2>3. NewChip.tx \in TxsStates
    BY DEF NewChip, TxsStates, TxStates
  <2> QED
    BY <2>1, <2>2, <2>3
<1>4. PICK x \in BitStates, y \in BlkStates, z \in TxsStates :
        x = NewChip.bit /\ y = NewChip.blk /\ z = NewChip.tx
  BY <1>3
<1>5. s = [bit |-> x, blk |-> y, tx |-> z, conf |-> c, started |-> FALSE,
           ready |-> FALSE, ts |-> -1, ad |-> -1, faults |-> 0, clkFault |-> FALSE, pllFault |-> FALSE,
           lost |-> FALSE, sent |-> {}, fresh |-> {}, whole |-> TRUE]
  BY <1>1, <1>4 DEF NewHal
<1>6. s \in Hals
  BY <1>2, <1>5 DEF Hals, Sent
<1>7. /\ s.conf = c /\ s.started = FALSE /\ s.lost = FALSE /\ s.sent = {} /\ s.whole = TRUE
  BY <1>5
<1>8. LutsRight(s)
  BY <1>2, <1>7 DEF LutsRight, LutRight
<1>9. Safe(s) /\ SentRight(s)
  BY <1>7 DEF Safe, SentRight
<1> QED
  BY <1>1, <1>6, <1>7, <1>8, <1>9 DEF Sound

LEMMA ControlInitInv ==
  ControlInit => ControlInv
<1> SUFFICES ASSUME ControlInit PROVE ControlInv
  OBVIOUS
<1>1. PICK c \in Confs : hal = NewHal(c)
  BY DEF ControlInit
<1>2. Sound(hal)
  BY <1>1, NewSound
<1> QED
  BY <1>2 DEF ControlInv, ControlInit

\* The transmitter goes on by itself.
LEMMA TxStepSound ==
  ASSUME NEW s, Sound(s), NEW r \in RfChains, NEW t,
         t = [s EXCEPT !.tx[r].fsm = "emitting"] \/ t = [s EXCEPT !.tx[r].fsm = "free"]
  PROVE  Sound(t)
<1>1. PICK f \in {"free", "scheduled", "emitting"} : t = [s EXCEPT !.tx[r].fsm = f]
  OBVIOUS
<1>2. s \in Hals
  BY DEF Sound
<1>3. Calm(s, t)
  BY <1>1, <1>2, TxFsm
<1> QED
  BY <1>3, CalmSound

\* A call other than lgw_stop
LEMMA CallInv ==
  ASSUME NEW outs, Call(outs), \A o \in outs : Sound(o.s)
  PROVE  ControlInv'
<1>1. PICK o \in outs : hal' = o.s
  BY DEF Call
<1>2. Sound(hal')
  BY <1>1
<1>3. halted' = FALSE
  BY DEF Call
<1> QED
  BY <1>2, <1>3 DEF ControlInv, Sound, Silent

LEMMA ConfigureInv ==
  ASSUME ControlInv, Configure
  PROVE  ControlInv'
<1>0. Sound(hal)
  BY DEF ControlInv
<1>1. CASE \E r \in RfChains : Call(lgw_board_setconf(hal, r, FALSE))
  <2>1. PICK r \in RfChains : Call(lgw_board_setconf(hal, r, FALSE))
    BY <1>1
  <2> QED
    BY <1>0, <2>1, BoardSet, CallInv
<1>2. CASE \E r \in RfChains, f \in Freqs : Call(lgw_rxrf_setconf(hal, r, TRUE, f))
  <2>1. PICK r \in RfChains, f \in Freqs : Call(lgw_rxrf_setconf(hal, r, TRUE, f))
    BY <1>2
  <2>2. f \in Nat
    BY ControlAssumption
  <2> QED
    BY <1>0, <2>1, <2>2, RadioSet, CallInv
<1>3. CASE \E r \in RfChains : Call(lgw_rxrf_setconf(hal, r, FALSE, 1))
  <2>1. PICK r \in RfChains : Call(lgw_rxrf_setconf(hal, r, FALSE, 1))
    BY <1>3
  <2> QED
    BY <1>0, <2>1, RadioSet, CallInv
<1>4. CASE \E c \in IfSettings : Call(lgw_rxif_setconf(hal, c[1], c[2]))
  <2>1. PICK c \in IfSettings : Call(lgw_rxif_setconf(hal, c[1], c[2]))
    BY <1>4
  <2>2. c[1] \in Nat /\ c[2] \in Nat
    BY ControlAssumption
  <2> QED
    BY <1>0, <2>1, <2>2, ChannelsSet, CallInv
<1>5. CASE Call(lgw_demod_setconf(hal, 2))
  <2>1. \A o \in lgw_demod_setconf(hal, 2) : Sound(o.s)
    BY <1>0, OtherSet
  <2> QED
    BY <1>5, <2>1, CallInv
<1>6. CASE Call(lgw_ftime_setconf(hal, TRUE))
  <2>1. \A o \in lgw_ftime_setconf(hal, TRUE) : Sound(o.s)
    BY <1>0, OtherSet
  <2> QED
    BY <1>6, <2>1, CallInv
<1>7. CASE Call(lgw_sx1261_setconf(hal, ~hal.conf.lbt))
  <2>1. PICK on \in BOOLEAN : on = ~hal.conf.lbt
    OBVIOUS
  <2>2. \A o \in lgw_sx1261_setconf(hal, on) : Sound(o.s)
    BY <1>0, OtherSet
  <2> QED
    BY <1>7, <2>1, <2>2, CallInv
<1>8. CASE \E gains \in TxGains : Call(lgw_txgain_setconf(hal, 0, gains))
  <2>1. PICK gains \in TxGains : Call(lgw_txgain_setconf(hal, 0, gains))
    BY <1>8
  <2>2. 0 \in RfChains
    BY DEF RfChains
  <2> QED
    BY <1>0, <2>1, <2>2, GainsSet, CallInv
<1> QED
  BY <1>1, <1>2, <1>3, <1>4, <1>5, <1>6, <1>7, <1>8 DEF Configure

LEMMA QueryInv ==
  ASSUME ControlInv, Query
  PROVE  ControlInv'
<1>0. Sound(hal) /\ 0 \in RfChains
  BY DEF ControlInv, RfChains
<1>1. CASE \E r \in RfChains : Call(lgw_status(hal, r)) \/ Call(lgw_abort_tx(hal, r))
  <2>1. PICK r \in RfChains : Call(lgw_status(hal, r)) \/ Call(lgw_abort_tx(hal, r))
    BY <1>1
  <2>2. \A o \in lgw_status(hal, r) \cup lgw_abort_tx(hal, r) : Sound(o.s)
    BY <1>0, QuerySound
  <2> QED
    BY <2>1, <2>2, CallInv
<1>2. CASE Call(lgw_get_eui(hal)) \/ Call(lgw_get_temperature(hal))
  <2>1. \A o \in lgw_get_eui(hal) \cup lgw_get_temperature(hal) : Sound(o.s)
    BY <1>0, QuerySound
  <2> QED
    BY <1>2, <2>1, CallInv
<1> QED
  BY <1>1, <1>2 DEF Query

LEMMA ControlNextInv ==
  ControlInv /\ [ControlNext]_controlVars => ControlInv'
<1> SUFFICES ASSUME ControlInv, [ControlNext]_controlVars
             PROVE  ControlInv'
  OBVIOUS
<1>0. Sound(hal)
  BY DEF ControlInv
<1>1. CASE Start
  <2>1. \A o \in lgw_start(hal) : Sound(o.s)
    BY <1>0, StartSound
  <2> QED
    BY <1>1, <2>1, CallInv DEF Start
<1>2. CASE Stop
  <2>1. PICK o \in lgw_stop(hal) : hal' = o.s /\ halted' = (hal.started /\ o.ok)
    BY <1>2 DEF Stop
  <2>2. Sound(o.s) /\ (hal.started /\ o.ok => Silent(o.s))
    BY <1>0, StopSound
  <2> QED
    BY <2>1, <2>2, Zenon DEF ControlInv
<1>3. CASE Configure
  BY <1>3, ConfigureInv
<1>4. CASE Send
  <2>1. PICK r \in RfChains, e \in Emissions : Call(lgw_send(hal, r, e[1], e[2], e[3]))
    BY <1>4 DEF Send
  <2>2. e[1] \in Modulations /\ e[2] \in TxModes /\ e[3] \in Nat
    BY ControlAssumption DEF Modulations, TxModes
  <2>3. \A o \in lgw_send(hal, r, e[1], e[2], e[3]) : Sound(o.s)
    BY <1>0, <2>2, EmissionSound
  <2> QED
    BY <2>1, <2>3, CallInv
<1>5. CASE Query
  BY <1>5, QueryInv
<1>6. ASSUME NEW r \in RfChains, TxStep(r)
      PROVE  ControlInv'
  <2>1. Sound(hal')
    BY <1>0, <1>6, TxStepSound DEF TxStep
  <2>2. ~halted /\ ~halted'
    BY <1>6 DEF TxStep, ControlInv, Silent
  <2> QED
    BY <2>1, <2>2 DEF ControlInv
<1>7. CASE UNCHANGED controlVars
  BY <1>7 DEF controlVars, ControlInv
<1> QED
  BY <1>1, <1>2, <1>3, <1>4, <1>5, <1>6, <1>7 DEF ControlNext

\* The invariant holds in every state: what is right between two calls of the HAL stays
\* right whatever call comes next and wherever it fails, and silence is kept until the
\* next emission.
LEMMA ControlInvariant == ControlSpec => []ControlInv
  BY ControlInitInv, ControlNextInv, PTL DEF ControlSpec

\* lgw_start and the calibration reset the radios only after the chip went back to the
\* clock of the SPI, so in no sequence of calls does the chip run on the clock of a radio
\* held in reset, unless the write that switches the clock failed itself.
THEOREM ClockStaysSafe == ControlSpec => []ClockSafe
<1>1. ControlInv => ClockSafe
  BY DEF ControlInv, Sound, Safe, ClockSafe
<1> QED
  BY <1>1, ControlInvariant, PTL

\* In every sequence of calls and failures: a concentrator whose last start succeeded runs
\* with the configuration the HAL holds; a packet is emitted with every register of its
\* modulation and with the offset of its own gain setting or none; and after an lgw_stop
\* that succeeded no packet waits or is on the air.
THEOREM ControlStaysRight == ControlSpec => []ControlRight
<1>1. ASSUME ControlInv PROVE ControlRight
  <2>1. HalReady
    BY <1>1 DEF ControlInv, Sound, Ready, HalReady, StartBlocks
  <2>2. SentCalibrated
    BY <1>1 DEF ControlInv, Sound, SentRight, SentCalibrated
  <2>3. StopSilent
    BY <1>1 DEF ControlInv, Silent, StopSilent
  <2> QED
    BY <2>1, <2>2, <2>3 DEF ControlRight
<1> QED
  BY <1>1, ControlInvariant, PTL
=============================================================================
