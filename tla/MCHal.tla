-------------------------------- MODULE MCHal -------------------------------
(* The HAL, one part at a time: the links, the start of the MCUs, the control  *)
(* of the concentrator, and listening.  The parts share no variable; the one   *)
(* that runs is chosen at the start, the others stay in an initial state.      *)
EXTENDS ComLink, HalMcu, HalControl, Listen

VARIABLE part

\* Three boards; the SX125x are not supported over USB.  Every table starts with its
\* entries uncalibrated, in the order 1, 2, 1.
MCLut == [size |-> 3, entries |-> [i \in 1 .. 3 |-> [gain |-> 1 + ((i + 1) % 2), offset |-> Uncalibrated]]]
MCConfs ==
  {[com |-> b[1], sx1250 |-> b[2], sx1303 |-> FALSE, clksrc |-> 0, duplex |-> b[2] /\ ~b[3], public |-> TRUE,
    enable |-> [r \in RfChains |-> r = 0 \/ ~b[3]], freq |-> [r \in RfChains |-> 1],
    txen |-> [r \in RfChains |-> r = 0], ifs |-> 1, service |-> 7, fsk |-> 0, demod |-> 1,
    ftime |-> FALSE, sx1261 |-> b[3], lbt |-> b[3], lut |-> [r \in RfChains |-> MCLut]] :
     b \in {<<"SPI", TRUE, FALSE>>, <<"SPI", FALSE, FALSE>>, <<"USB", TRUE, TRUE>>}}

\* A table in another order, and one with a bad entry.
MCGains == {<<2, 1>>, <<1, 0, 1>>}
MCIfSettings == {<<0, 2>>, <<8, 0>>, <<8, 5>>, <<9, 1>>}
MCEmissions == {<<"cw", "imm", 3>>, <<"lora", "delayed", 0>>, <<"fsk", "imm", 0>>, <<"lora", "gps", 3>>}

MCLbtChannels == {[freq |-> 1000, bw |-> 125, transmit_time_ms |-> 10],
                  [freq |-> 1200, bw |-> 125, transmit_time_ms |-> 1]}

\* Two on the same channel and chain, one on the other chain, one without transmit time.
MCDownlinks == {[freq |-> 1005, bw |-> 125, chain |-> 0, toa_ms |-> 8],
                [freq |-> 995, bw |-> 125, chain |-> 0, toa_ms |-> 5],
                [freq |-> 1000, bw |-> 125, chain |-> 1, toa_ms |-> 8],
                [freq |-> 1195, bw |-> 125, chain |-> 1, toa_ms |-> 1]}

FirstConf == CHOOSE c \in Confs : TRUE

Init ==
  /\ part \in {"link", "mcu", "control", "listen"}
  /\ LinkInit /\ McuInit /\ ControlInit /\ ListenInit
  /\ part # "control" => hal = NewHal(FirstConf)
  /\ part # "listen" => sx = NewSx(TRUE)

Next ==
  /\ \/ part = "link" /\ LinkNext /\ UNCHANGED <<mcuVars, controlVars, listenVars>>
     \/ part = "mcu" /\ McuNext /\ UNCHANGED <<linkVars, controlVars, listenVars>>
     \/ part = "control" /\ ControlNext /\ UNCHANGED <<linkVars, mcuVars, listenVars>>
     \/ part = "listen" /\ ListenNext /\ UNCHANGED <<linkVars, mcuVars, controlVars>>
  /\ UNCHANGED part

Spec == Init /\ [][Next]_<<linkVars, mcuVars, controlVars, listenVars, part>>
=============================================================================
