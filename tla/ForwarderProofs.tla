--------------------------- MODULE ForwarderProofs ---------------------------
(***************************************************************************)
(* What the packet forwarder concludes from the acknowledgements it gets,  *)
(* for every traffic, any number of lost and duplicated datagrams and any  *)
(* set of tokens: its reports do not count an acknowledgement without its  *)
(* datagram, and it gives up only on a server that was silent.             *)
(*                                                                         *)
(* The two threads share nothing the argument needs but the network, so    *)
(* there is one invariant for thread_up and its statistics and one for     *)
(* thread_down and its requests.                                           *)
(***************************************************************************)
EXTENDS Forwarder, SequenceTheorems, FiniteSetTheorems, TLAPS

Statuses == {"CRC_OK", "CRC_BAD", "NO_CRC", "UNDEFINED", "STRANGE"}

Counts == [rcv : Nat, ok : Nat, fwd : Nat, dgram_sent : Nat, ack_rcv : Nat]

\* Counted within their bounds
Sound(m) == m.ack_rcv <= m.dgram_sent /\ m.fwd <= m.rcv /\ m.ok <= m.rcv

upVars == <<load, rx, report_ready, up, meas_up, mx_meas_up, report>>

UpTypeOK ==
  /\ load \in Loads /\ rx \in Nat /\ report_ready \in BOOLEAN
  /\ up \in [at : {"off", "fetch", "compose", "send", "ack1", "ack2", "ended"},
             batch : Seq(Statuses), token : Tokens \cup {0}, report : BOOLEAN]
  /\ meas_up \in Counts /\ report.up \in Counts

\* While thread_up waits for an acknowledgement the statistics are locked, and its
\* datagram is among those sent and not among those acknowledged: no report comes
\* between the two.
WaitsLocked ==
  up.at \in {"ack1", "ack2"} => mx_meas_up /\ meas_up.ack_rcv < meas_up.dgram_sent

UpInv == UpTypeOK /\ WaitsLocked /\ Sound(meas_up) /\ Sound(report.up)

\* At the start nothing is counted.
LEMMA UpInitInv == ForwarderInit => UpInv
<1> SUFFICES ASSUME ForwarderInit PROVE UpInv
  OBVIOUS
<1>1. NoUp \in Counts /\ Sound(NoUp)
  BY DEF NoUp, Counts, Sound
<1>2. <<>> \in Seq(Statuses)
  OBVIOUS
<1> QED BY <1>1, <1>2 DEF ForwarderInit, UpInv, UpTypeOK, WaitsLocked

\* What is counted of a batch does not exceed it.
LEMMA BatchCounts ==
  ASSUME NEW batch \in Seq(Statuses)
  PROVE  /\ Cardinality(Intact(batch)) \in 0 .. Len(batch)
         /\ Cardinality(Forwarded(batch)) \in 0 .. Len(batch)
<1>1. DOMAIN batch = 1 .. Len(batch) /\ Len(batch) \in Nat
  OBVIOUS
<1>2. IsFiniteSet(DOMAIN batch) /\ Cardinality(DOMAIN batch) = Len(batch)
  BY <1>1, FS_Interval
<1>3. ASSUME NEW S, S \subseteq DOMAIN batch PROVE Cardinality(S) \in 0 .. Len(batch)
  <2>1. IsFiniteSet(S) /\ Cardinality(S) <= Cardinality(DOMAIN batch)
    BY <1>2, <1>3, FS_Subset
  <2>2. Cardinality(S) \in Nat
    BY <2>1, FS_CardinalityType
  <2> QED BY <1>1, <1>2, <2>1, <2>2
<1>4. Intact(batch) \subseteq DOMAIN batch /\ Forwarded(batch) \subseteq DOMAIN batch
  BY DEF Intact, Forwarded
<1> QED BY <1>3, <1>4

\* lgw_receive: a batch of the packets received.
LEMMA FetchUpKeeps ==
  ASSUME UpInv, FetchUp
  PROVE  UpInv'
<1>1. UNCHANGED <<load, report_ready, meas_up, mx_meas_up, report>> /\ up.at = "fetch"
  BY DEF FetchUp, UpOnly
<1>2. CASE up' = [up EXCEPT !.at = "ended"] /\ rx' = rx
  BY <1>1, <1>2 DEF UpInv, UpTypeOK, WaitsLocked
<1>3. CASE up' = up /\ rx' = rx
  BY <1>1, <1>3 DEF UpInv, UpTypeOK, WaitsLocked
<1>4. ASSUME NEW n \in 0 .. NB_PKT_MAX, rx + n <= Len(load.received), rx' = rx + n,
             up' = [up EXCEPT !.batch = SubSeq(load.received, rx + 1, rx + n),
                              !.report = report_ready,
                              !.at = IF n = 0 /\ ~report_ready THEN "fetch" ELSE "compose"]
      PROVE  UpInv'
  <2> DEFINE s == load.received
             b == SubSeq(s, rx + 1, rx + n)
  <2>1. n \in Nat /\ rx \in Nat /\ s \in Seq(Statuses)
    BY ForwarderAssumption DEF UpInv, UpTypeOK, Statuses
  <2>2. b \in Seq(Statuses)
    <3> HIDE DEF s
    <3>1. \A i \in rx + 1 .. rx + n : i \in 1 .. Len(s)
      BY <1>4, <2>1 DEF s
    <3>2. \A i \in rx + 1 .. rx + n : s[i] \in Statuses
      BY <2>1, <3>1
    <3> QED BY <2>1, <3>2, SubSeqProperties
  <2> HIDE DEF b
  <2>3. /\ up' \in [at : {"off", "fetch", "compose", "send", "ack1", "ack2", "ended"},
                    batch : Seq(Statuses), token : Tokens \cup {0}, report : BOOLEAN]
        /\ up'.at \in {"fetch", "compose"}
    <3>1. up' = [up EXCEPT !.batch = b, !.report = report_ready,
                           !.at = IF n = 0 /\ ~report_ready THEN "fetch" ELSE "compose"]
      BY <1>4 DEF b
    <3> QED BY <2>2, <3>1 DEF UpInv, UpTypeOK
  <2>4. rx' \in Nat
    BY <1>4, <2>1
  <2> QED BY <1>1, <2>3, <2>4 DEF UpInv, UpTypeOK, WaitsLocked
<1> QED BY <1>2, <1>3, <1>4 DEF FetchUp

\* The packets of a batch are counted.
LEMMA SerialiseKeeps ==
  ASSUME UpInv, Serialise
  PROVE  UpInv'
<1> DEFINE b == up.batch
           ok == Cardinality(Intact(b))
           fwd == Cardinality(Forwarded(b))
<1>1. UNCHANGED <<load, rx, report_ready, mx_meas_up, report>> /\ up.at = "compose"
  BY DEF Serialise, UpOnly
<1>2. b \in Seq(Statuses) /\ Len(b) \in Nat
  BY DEF UpInv, UpTypeOK
<1>3. ok \in 0 .. Len(b) /\ fwd \in 0 .. Len(b)
  BY <1>2, BatchCounts
<1>4. meas_up' = [meas_up EXCEPT !.rcv = @ + Len(b), !.ok = @ + ok, !.fwd = @ + fwd]
  BY DEF Serialise
<1>5. up' = [up EXCEPT !.at = IF Forwarded(b) = {} /\ ~up.report THEN "fetch" ELSE "send"]
  BY DEF Serialise
<1> HIDE DEF b, ok, fwd
<1>6. meas_up' \in Counts /\ Sound(meas_up)'
  <2>1. meas_up \in Counts /\ Sound(meas_up)
    BY DEF UpInv, UpTypeOK
  <2>2. /\ meas_up'.rcv = meas_up.rcv + Len(b) /\ meas_up'.ok = meas_up.ok + ok
        /\ meas_up'.fwd = meas_up.fwd + fwd
        /\ meas_up'.dgram_sent = meas_up.dgram_sent /\ meas_up'.ack_rcv = meas_up.ack_rcv
    BY <1>4, <2>1 DEF Counts
  <2>3. Len(b) \in Nat /\ ok \in Nat /\ fwd \in Nat /\ ok <= Len(b) /\ fwd <= Len(b)
    BY <1>2, <1>3
  <2>5. /\ meas_up.rcv \in Nat /\ meas_up.ok \in Nat /\ meas_up.fwd \in Nat
        /\ meas_up.dgram_sent \in Nat /\ meas_up.ack_rcv \in Nat
    BY <2>1 DEF Counts
  <2>4. meas_up' \in Counts
    <3>0. meas_up.rcv + Len(b) \in Nat /\ meas_up.ok + ok \in Nat /\ meas_up.fwd + fwd \in Nat
      BY <2>3, <2>5, SMTT(30)
    <3>1. PICK x \in Nat, y \in Nat, z \in Nat :
            x = meas_up.rcv + Len(b) /\ y = meas_up.ok + ok /\ z = meas_up.fwd + fwd
      BY <3>0, Zenon
    <3>2. meas_up' = [meas_up EXCEPT !.rcv = x, !.ok = y, !.fwd = z]
      BY <1>4, <3>1
    <3> QED BY <2>1, <3>2 DEF Counts
  <2>6. Sound(meas_up)'
    BY <2>1, <2>2, <2>3, <2>5 DEF Sound
  <2> QED BY <2>4, <2>6
<1>7. /\ up' \in [at : {"off", "fetch", "compose", "send", "ack1", "ack2", "ended"},
                  batch : Seq(Statuses), token : Tokens \cup {0}, report : BOOLEAN]
      /\ up'.at \in {"fetch", "send"}
  BY <1>5 DEF UpInv, UpTypeOK
<1> QED BY <1>1, <1>6, <1>7 DEF UpInv, UpTypeOK, WaitsLocked, Sound

\* A datagram is sent, and the statistics stay locked.
LEMMA PushDataKeeps ==
  ASSUME UpInv, PushData
  PROVE  UpInv'
<1>1. /\ UNCHANGED <<load, rx, report>>
      /\ meas_up' = [meas_up EXCEPT !.dgram_sent = @ + 1] /\ mx_meas_up' = TRUE
      /\ report_ready' = (report_ready /\ ~up.report)
  BY DEF PushData, UpOnly, HoldsMutex
<1>2. report_ready' \in BOOLEAN
  BY <1>1, Zenon
<1>3. PICK token \in Tokens :
        up' = [at |-> "ack1", batch |-> <<>>, token |-> token, report |-> FALSE]
  BY DEF PushData
<1>4. /\ up' \in [at : {"off", "fetch", "compose", "send", "ack1", "ack2", "ended"},
                  batch : Seq(Statuses), token : Tokens \cup {0}, report : BOOLEAN]
  <2>1. <<>> \in Seq(Statuses)
    OBVIOUS
  <2> QED BY <1>3, <2>1
<1>5. meas_up' \in Counts /\ Sound(meas_up)' /\ meas_up'.ack_rcv < meas_up'.dgram_sent
  BY <1>1, SMTT(30) DEF UpInv, UpTypeOK, Counts, Sound
<1> QED BY <1>1, <1>2, <1>4, <1>5 DEF UpInv, UpTypeOK, WaitsLocked, Sound

\* An acknowledgement, the wrong one or a timeout: the mutex is given back with the
\* end of the wait, and only one acknowledgement is counted for a datagram.
LEMMA AwaitAckKeeps ==
  ASSUME UpInv, AwaitAck
  PROVE  UpInv'
<1>1. /\ UNCHANGED <<load, rx, report_ready, report>>
      /\ mx_meas_up' = (mx_meas_up /\ up'.at = "ack2")
      /\ up.at \in {"ack1", "ack2"}
  BY DEF AwaitAck, UpOnly
<1>2. mx_meas_up /\ meas_up.ack_rcv < meas_up.dgram_sent
  BY <1>1 DEF UpInv, WaitsLocked
<1>3. NextTry \in {"ack2", "fetch"}
  BY <1>1 DEF NextTry
<1>4. \/ meas_up' = [meas_up EXCEPT !.ack_rcv = @ + 1] /\ up' = [up EXCEPT !.at = "fetch"]
      \/ meas_up' = meas_up /\ up' = [up EXCEPT !.at = "fetch"]
      \/ meas_up' = meas_up /\ up' = [up EXCEPT !.at = "ack2"]
  <2>1. \/ meas_up' = [meas_up EXCEPT !.ack_rcv = @ + 1] /\ up' = [up EXCEPT !.at = "fetch"]
        \/ meas_up' = meas_up /\ \E next \in {NextTry, "fetch"} : up' = [up EXCEPT !.at = next]
    BY DEF AwaitAck
  <2> QED BY <1>3, <2>1
<1>5. meas_up' \in Counts /\ Sound(meas_up)'
  <2>1. meas_up \in Counts /\ Sound(meas_up)
    BY DEF UpInv, UpTypeOK
  <2>2. ASSUME meas_up' = [meas_up EXCEPT !.ack_rcv = @ + 1]
        PROVE  meas_up' \in Counts /\ Sound(meas_up)'
    BY <1>2, <2>1, <2>2 DEF Counts, Sound
  <2> QED BY <1>4, <2>1, <2>2 DEF Sound
<1>6. /\ up' \in [at : {"off", "fetch", "compose", "send", "ack1", "ack2", "ended"},
                  batch : Seq(Statuses), token : Tokens \cup {0}, report : BOOLEAN]
      /\ up'.at = "fetch" \/ (up'.at = "ack2" /\ meas_up' = meas_up)
  BY <1>4 DEF UpInv, UpTypeOK
<1>7. WaitsLocked'
  BY <1>1, <1>2, <1>6 DEF WaitsLocked
<1> QED BY <1>1, <1>5, <1>6, <1>7 DEF UpInv, UpTypeOK, Sound

\* main copies the statistics and resets them, when thread_up does not wait.
LEMMA StatisticsKeeps ==
  ASSUME UpInv, Statistics
  PROVE  UpInv'
<1>1. /\ UNCHANGED <<load, rx, up, mx_meas_up>> /\ ~mx_meas_up /\ report_ready' = TRUE
      /\ report'.up = meas_up /\ meas_up' = NoUp
  BY DEF Statistics
<1>2. NoUp \in Counts /\ Sound(NoUp)
  BY DEF NoUp, Counts, Sound
<1> QED BY <1>1, <1>2 DEF UpInv, UpTypeOK, WaitsLocked, Sound

\* Every step keeps the invariant of thread_up.
LEMMA UpStep == UpInv /\ [ForwarderNext]_fwdVars => UpInv'
<1> SUFFICES ASSUME UpInv, [ForwarderNext]_fwdVars PROVE UpInv'
  OBVIOUS
<1>1. ASSUME UNCHANGED upVars PROVE UpInv'
  BY <1>1 DEF upVars, UpInv, UpTypeOK, WaitsLocked, Sound
<1>2. CASE UNCHANGED fwdVars
  BY <1>1, <1>2 DEF fwdVars, gatewayVars, upVars
<1>3. CASE SpawnThreads
  <2>1. UNCHANGED <<load, rx, report_ready, meas_up, mx_meas_up, report>>
        /\ up' = [up EXCEPT !.at = "fetch"]
    BY <1>3 DEF SpawnThreads, MainOnly
  <2> QED BY <2>1 DEF UpInv, UpTypeOK, WaitsLocked, Sound
<1>4. CASE Configure \/ OpenSockets \/ StartConcentrator \/ sig_handler \/ JoinThreads
  BY <1>1, <1>4 DEF Configure, OpenSockets, StartConcentrator, sig_handler, JoinThreads,
                    MainOnly, upVars
<1>5. CASE PullData \/ Keepalive \/ ReceivePullAck \/ PullResp \/ ThreadJit
  BY <1>1, <1>5 DEF PullData, Keepalive, ReceivePullAck, PullResp, ThreadJit, DownOnly, upVars
<1>6. CASE ServerReceives \/ ServerAcks \/ (\E rf \in Chains : thread_down_rf(rf))
  BY <1>1, <1>6 DEF ServerReceives, ServerAcks, thread_down_rf, ServerOnly, gatewayVars, upVars
<1>7. CASE Lose \/ Duplicate
  BY <1>1, <1>7 DEF Lose, Duplicate, gatewayVars, upVars
<1> QED
  BY <1>2, <1>3, <1>4, <1>5, <1>6, <1>7, FetchUpKeeps, SerialiseKeeps, PushDataKeeps,
     AwaitAckKeeps, StatisticsKeeps DEF ForwarderNext

-----------------------------------------------------------------------------
(* thread_down and the requests it counts                                  *)

pullVars == <<down, autoquit_cnt, net, server, pulls>>

PullTypeOK ==
  /\ down \in [at : {"off", "pull", "listen", "ended"}, token : Tokens \cup {0}, req_ack : BOOLEAN]
  /\ pulls \in Seq(BOOLEAN) /\ autoquit_cnt \in 0 .. Len(pulls)
  /\ server # Idle => server.type \in {"PUSH_DATA", "PULL_DATA", "TX_ACK"}

\* A request or its acknowledgement belongs to a request that was made; to the last one
\* only with the token thread_down compares with.
OwnToken(d) ==
  d.type \in {"PULL_DATA", "PULL_ACK"} =>
    d.n \in 1 .. Len(pulls) /\ (d.n = Len(pulls) => d.token = down.token)

\* None of the requests that are counted was acknowledged before the next one; a
\* request that counts as acknowledged ended the counting, whoever's token it had.
Silence ==
  /\ \A i \in (Len(pulls) - autoquit_cnt) + 1 .. Len(pulls) : ~pulls[i]
  /\ down.req_ack => autoquit_cnt = 0

PullInv ==
  /\ PullTypeOK /\ Silence
  /\ OwnToken(server) /\ \A d \in net : OwnToken(d)

\* At the start there is no request.
LEMMA PullInitInv == ForwarderInit => PullInv
<1> SUFFICES ASSUME ForwarderInit PROVE PullInv
  OBVIOUS
<1>1. pulls = <<>> /\ Len(pulls) = 0 /\ pulls \in Seq(BOOLEAN)
  BY DEF ForwarderInit
<1> QED BY <1>1 DEF ForwarderInit, PullInv, PullTypeOK, Silence, OwnToken, Idle

\* Datagrams that are lost, answered or added: each that is new is none of a request's or
\* belongs to one, and thread_down is not concerned.
LEMMA NetworkKeeps ==
  ASSUME PullInv, UNCHANGED <<down, autoquit_cnt, pulls>>,
         server' # Idle => server'.type \in {"PUSH_DATA", "PULL_DATA", "TX_ACK"},
         OwnToken(server'), \A d \in net' : d \in net \/ OwnToken(d)
  PROVE  PullInv'
BY DEF PullInv, PullTypeOK, Silence, OwnToken

\* A new request: the datagrams under way belong to earlier ones.
LEMMA PullDataKeeps ==
  ASSUME PullInv, PullData
  PROVE  PullInv'
<1>1. server' = server
  BY DEF PullData, DownOnly, serverVars
<1>2. CASE down' = [down EXCEPT !.at = "ended"] /\ UNCHANGED <<autoquit_cnt, net, pulls>>
  BY <1>1, <1>2 DEF PullInv, PullTypeOK, Silence, OwnToken
<1>3. ASSUME NEW token \in Tokens, pulls' = Append(pulls, FALSE),
             net' = net \cup {Datagram("PULL_DATA", "down", token, Len(pulls'))},
             down' = [at |-> "listen", token |-> token, req_ack |-> FALSE],
             autoquit_cnt' = autoquit_cnt + 1
      PROVE  PullInv'
  <2>1. pulls \in Seq(BOOLEAN) /\ Len(pulls) \in Nat /\ autoquit_cnt \in 0 .. Len(pulls)
    BY DEF PullInv, PullTypeOK
  <2>2. /\ pulls' \in Seq(BOOLEAN) /\ Len(pulls') = Len(pulls) + 1
        /\ \A i \in 1 .. Len(pulls) : pulls'[i] = pulls[i]
        /\ pulls'[Len(pulls) + 1] = FALSE
    BY <1>3, <2>1
  <2>3. PullTypeOK'
    BY <1>1, <1>3, <2>1, <2>2 DEF PullInv, PullTypeOK
  <2>4. Silence'
    BY <1>3, <2>1, <2>2 DEF PullInv, Silence
  <2>5. \A d : OwnToken(d) => OwnToken(d)'
    BY <2>1, <2>2 DEF OwnToken
  <2>6. PICK new : new = Datagram("PULL_DATA", "down", token, Len(pulls'))
    OBVIOUS
  <2>7. OwnToken(new)'
    BY <1>3, <2>1, <2>2, <2>6 DEF OwnToken, Datagram
  <2>8. \A d \in net' : d \in net \/ d = new
    BY <1>3, <2>6
  <2>9. \A d \in net' : OwnToken(d)'
    BY <2>5, <2>7, <2>8 DEF PullInv
  <2>10. OwnToken(server)'
    BY <1>1, <2>5 DEF PullInv, OwnToken
  <2> QED BY <2>3, <2>4, <2>9, <2>10 DEF PullInv
<1> QED BY <1>2, <1>3 DEF PullData

\* A PULL_ACK: one of the last request has its token, so it ends the counting unless
\* the counting has ended already.
LEMMA ReceivePullAckKeeps ==
  ASSUME PullInv, ReceivePullAck
  PROVE  PullInv'
<1>1. server' = server
  BY DEF ReceivePullAck, DownOnly, serverVars
<1>2. PICK d \in net : /\ d.type = "PULL_ACK" /\ net' = net \ {d} /\ OnPullAck(d)
                       /\ pulls' = IF d.n = Len(pulls) THEN [pulls EXCEPT ![d.n] = TRUE] ELSE pulls
  BY DEF ReceivePullAck
<1>3. pulls \in Seq(BOOLEAN) /\ Len(pulls) \in Nat /\ autoquit_cnt \in 0 .. Len(pulls)
  BY DEF PullInv, PullTypeOK
<1>4. d.n \in 1 .. Len(pulls) /\ (d.n = Len(pulls) => d.token = down.token)
  BY <1>2 DEF PullInv, OwnToken
<1>5. /\ pulls' \in Seq(BOOLEAN) /\ Len(pulls') = Len(pulls)
      /\ d.n # Len(pulls) => pulls' = pulls
  <2>1. PICK n \in 1 .. Len(pulls) : n = d.n
    BY <1>4
  <2>2. [pulls EXCEPT ![n] = TRUE] \in Seq(BOOLEAN) /\ Len([pulls EXCEPT ![n] = TRUE]) = Len(pulls)
    BY <1>3, ExceptSeq
  <2> QED BY <1>2, <1>3, <2>1, <2>2
<1>6. \/ down' = [down EXCEPT !.req_ack = TRUE] /\ autoquit_cnt' = 0
      \/ UNCHANGED <<down, autoquit_cnt>> /\ (d.token = down.token => down.req_ack)
  BY <1>2 DEF OnPullAck
<1>7. down'.token = down.token /\ autoquit_cnt' \in 0 .. Len(pulls')
      /\ down' \in [at : {"off", "pull", "listen", "ended"}, token : Tokens \cup {0}, req_ack : BOOLEAN]
  <2>1. down \in [at : {"off", "pull", "listen", "ended"}, token : Tokens \cup {0}, req_ack : BOOLEAN]
    BY DEF PullInv, PullTypeOK
  <2>2. down' = [down EXCEPT !.req_ack = TRUE] \/ down' = down
    BY <1>6
  <2>3. autoquit_cnt' = 0 \/ autoquit_cnt' = autoquit_cnt
    BY <1>6
  <2>4. down'.token = down.token
        /\ down' \in [at : {"off", "pull", "listen", "ended"}, token : Tokens \cup {0}, req_ack : BOOLEAN]
    BY <2>1, <2>2
  <2>5. autoquit_cnt' \in 0 .. Len(pulls')
    BY <1>3, <1>5, <2>3
  <2> QED BY <2>4, <2>5
<1>8. PullTypeOK'
  BY <1>1, <1>5, <1>7 DEF PullInv, PullTypeOK
<1>9. Silence'
  <2>1. CASE autoquit_cnt' = 0
    BY <1>3, <1>5, <2>1 DEF Silence
  <2>2. CASE UNCHANGED <<down, autoquit_cnt>> /\ d.n # Len(pulls)
    BY <1>5, <2>2 DEF PullInv, Silence
  <2>3. CASE UNCHANGED <<down, autoquit_cnt>> /\ d.n = Len(pulls) /\ down.req_ack
    BY <2>1, <2>3 DEF PullInv, Silence
  <2> QED BY <1>4, <1>6, <2>1, <2>2, <2>3
<1>10. \A e : OwnToken(e) => OwnToken(e)'
  BY <1>5, <1>7 DEF OwnToken
<1> QED BY <1>1, <1>2, <1>8, <1>9, <1>10 DEF PullInv

\* The server answers a request with its number and token.
LEMMA ServerAcksKeeps ==
  ASSUME PullInv, ServerAcks
  PROVE  PullInv'
<1>1. /\ server # Idle /\ server' = Idle /\ UNCHANGED <<down, autoquit_cnt, pulls>>
      /\ net' = IF server.type = "TX_ACK" THEN net
                ELSE net \cup {Datagram(Ack[server.type], server.sock, server.token, server.n)}
  BY DEF ServerAcks, ServerOnly, gatewayVars
<1>2. server.type \in {"PUSH_DATA", "PULL_DATA", "TX_ACK"} /\ OwnToken(server)
  BY <1>1 DEF PullInv, PullTypeOK
<1>3. Ack["PUSH_DATA"] = "PUSH_ACK" /\ Ack["PULL_DATA"] = "PULL_ACK"
  BY DEF Ack
<1>4. server.type # "TX_ACK" =>
        OwnToken(Datagram(Ack[server.type], server.sock, server.token, server.n))
  <2>1. CASE server.type = "PUSH_DATA"
    BY <1>3, <2>1 DEF OwnToken, Datagram
  <2>2. CASE server.type = "PULL_DATA"
    BY <1>2, <1>3, <2>2 DEF OwnToken, Datagram
  <2> QED BY <1>2, <2>1, <2>2
<1>5. \A d \in net' : d \in net \/ OwnToken(d)
  BY <1>1, <1>4
<1>6. OwnToken(server')
  BY <1>1 DEF OwnToken, Idle
<1> QED BY <1>1, <1>5, <1>6, NetworkKeeps

\* Every step keeps the invariant of the requests.
LEMMA PullStep == PullInv /\ [ForwarderNext]_fwdVars => PullInv'
<1> SUFFICES ASSUME PullInv, [ForwarderNext]_fwdVars PROVE PullInv'
  OBVIOUS
<1>1. ASSUME UNCHANGED pullVars PROVE PullInv'
  BY <1>1 DEF pullVars, PullInv, PullTypeOK, Silence, OwnToken
<1>2. CASE UNCHANGED fwdVars
  BY <1>1, <1>2 DEF fwdVars, gatewayVars, serverVars, pullVars
<1>3. ASSUME NEW step \in {"pull", "off", "listen", "ended"},
             UNCHANGED <<autoquit_cnt, net, server, pulls>>, down' = [down EXCEPT !.at = step]
      PROVE  PullInv'
  BY <1>3 DEF PullInv, PullTypeOK, Silence, OwnToken
<1>4. CASE SpawnThreads \/ Keepalive
  BY <1>3, <1>4 DEF SpawnThreads, Keepalive, MainOnly, DownOnly, serverVars
<1>5. CASE Configure \/ OpenSockets \/ StartConcentrator \/ sig_handler \/ JoinThreads \/ Statistics
  BY <1>1, <1>5 DEF Configure, OpenSockets, StartConcentrator, sig_handler, JoinThreads,
                    Statistics, MainOnly, serverVars, pullVars
<1>6. CASE FetchUp \/ Serialise \/ ThreadJit
  BY <1>1, <1>6 DEF FetchUp, Serialise, ThreadJit, UpOnly, DownOnly, serverVars, pullVars
<1>7. ASSUME UNCHANGED <<down, autoquit_cnt, pulls, server>>,
             \A d \in net' : d \in net \/ d.type \notin {"PULL_DATA", "PULL_ACK"}
      PROVE  PullInv'
  BY <1>7 DEF PullInv, PullTypeOK, Silence, OwnToken
<1>8. CASE PushData
  <2>1. UNCHANGED <<down, autoquit_cnt, pulls, server>>
    BY <1>8 DEF PushData, UpOnly, serverVars
  <2>2. \A d \in net' : d \in net \/ d.type = "PUSH_DATA"
    BY <1>8 DEF PushData, Datagram
  <2> QED BY <1>7, <2>1, <2>2
<1>9. CASE AwaitAck \/ Lose
  <2>1. UNCHANGED <<down, autoquit_cnt, pulls, server>> /\ net' \subseteq net
    BY <1>9 DEF AwaitAck, Lose, UpOnly, gatewayVars, serverVars
  <2> QED BY <1>7, <2>1
<1>10. CASE PullResp
  <2>1. UNCHANGED <<down, autoquit_cnt, pulls, server>>
    BY <1>10 DEF PullResp, DownOnly, serverVars
  <2>2. \A d \in net' : d \in net \/ d.type = "TX_ACK"
    <3>1. PICK d \in net :
            IF Ignored(d.n) THEN net' = net \ {d}
            ELSE \E r \in TxResults(d.n) :
                   net' = (net \ {d}) \cup
                     {send_tx_ack(d.token, IF r = "OK" /\ ~Supported(d.n) THEN "TX_POWER" ELSE r)}
      BY <1>10 DEF PullResp
    <3>2. \A token, error : send_tx_ack(token, error).type = "TX_ACK"
      BY DEF send_tx_ack, Datagram
    <3> QED BY <3>1, <3>2
  <2> QED BY <1>7, <2>1, <2>2
<1>11. CASE \E rf \in Chains : thread_down_rf(rf)
  <2>1. UNCHANGED <<down, autoquit_cnt, pulls, server>>
    BY <1>11 DEF thread_down_rf, ServerOnly, gatewayVars
  <2>2. \A d \in net' : d \in net \/ d.type = "PULL_RESP"
    BY <1>11 DEF thread_down_rf, Datagram
  <2> QED BY <1>7, <2>1, <2>2
<1>12. CASE ServerReceives
  <2>1. PICK d \in net : /\ d.type \in {"PUSH_DATA", "PULL_DATA", "TX_ACK"}
                         /\ net' = net \ {d} /\ server' = d
    BY <1>12 DEF ServerReceives
  <2>2. UNCHANGED <<down, autoquit_cnt, pulls>>
    BY <1>12 DEF ServerReceives, ServerOnly, gatewayVars
  <2>3. OwnToken(server')
    BY <2>1 DEF PullInv
  <2> QED BY <2>1, <2>2, <2>3, NetworkKeeps
<1>13. CASE Duplicate
  <2>1. UNCHANGED <<down, autoquit_cnt, pulls, server>> /\ net' = net \cup {server}
    BY <1>13 DEF Duplicate, gatewayVars, serverVars
  <2>2. OwnToken(server) /\ (server # Idle => server.type \in {"PUSH_DATA", "PULL_DATA", "TX_ACK"})
    BY DEF PullInv, PullTypeOK
  <2> QED BY <2>1, <2>2, NetworkKeeps
<1> QED
  BY <1>2, <1>4, <1>5, <1>6, <1>8, <1>9, <1>10, <1>11, <1>12, <1>13, PullDataKeeps,
     ReceivePullAckKeeps, ServerAcksKeeps DEF ForwarderNext

\* A report never says that more datagrams were acknowledged than sent, or more packets
\* forwarded or intact than received; and the forwarder gives up only when none of its
\* last autoquit_threshold requests was answered before the next one.  This holds with
\* datagrams lost, duplicated and reordered at will, and with tokens that repeat.
THEOREM ForwarderAcksReadRight == ForwarderSpec => []AcksReadRight
<1>1. UpInv => AcksWithinSent
  BY DEF UpInv, Sound, AcksWithinSent
<1>2. PullInv => QuitMeansSilence
  BY ForwarderAssumption DEF PullInv, PullTypeOK, Silence, QuitMeansSilence
<1>3. ForwarderSpec => []UpInv
  BY UpInitInv, UpStep, PTL DEF ForwarderSpec
<1>4. ForwarderSpec => []PullInv
  BY PullInitInv, PullStep, PTL DEF ForwarderSpec
<1> QED BY <1>1, <1>2, <1>3, <1>4, PTL DEF AcksReadRight
=============================================================================
