----------------------------- MODULE Timestamp -----------------------------
(***************************************************************************)
(* The durations libloragw computes for LoRa packets: the time on air      *)
(* (loragw_aux.c), from which the JIT queue keeps packets apart, and the   *)
(* corrections that turn the instant latched by the modem into the end of  *)
(* the packet (loragw_sx1302_timestamp.c).                                 *)
(*                                                                         *)
(* A packet is a record of bandwidth bw (1, 2, 4 for 125, 250, 500 kHz),   *)
(* spreading factor sf, coding rate cr, crc and size.  The code computes   *)
(* delays in picoseconds; here the unit is 31250 ps, of which all its      *)
(* constants are multiples, so that 32 of them make a microsecond.         *)
(***************************************************************************)
EXTENDS Integers

Bandwidths == {1, 2, 4}
SpreadingFactors == 5 .. 12
CodingRates == 1 .. 4

CeilDiv(a, b) == (a + b - 1) \div b

\* SET_PPM_ON: the modem's low data rate optimisation, for symbols of 16 ms or more
SET_PPM_ON(bw, sf) == \/ bw = 1 /\ sf \in {11, 12}
                      \/ bw = 2 /\ sf = 12

t_symbol_us(p) == (2 ^ p.sf * 8) \div p.bw

\* Mutant: the optimisation is never taken into account.
DE_Never(p) == 0

\* DE in lora_packet_time_on_air
DE(p) == IF p.sf >= 11 THEN 1 ELSE 0

\* The symbols of the payload, with 4 * (sf - 2 * de) bits in cr + 4 of them
SymbolsWith(p, de, header) ==
  LET bits == 8 * p.size + (IF p.crc THEN 16 ELSE 0) - 4 * p.sf
                + (IF p.sf >= 7 THEN 8 ELSE 0) + (IF header THEN 20 ELSE 0)
  IN  CeilDiv(IF bits > 0 THEN bits ELSE 0, 4 * (p.sf - 2 * de)) * (p.cr + 4)

n_symbol_payload(p, header) == SymbolsWith(p, DE(p), header)

\* Four times the number of symbols before the payload
Lead(p, preamble) == 4 * preamble + (IF p.sf >= 7 THEN 17 ELSE 25) + 32

lora_packet_time_on_air(p, preamble, header) ==
  ((Lead(p, preamble) + 4 * n_symbol_payload(p, header)) * t_symbol_us(p)) \div 4

-----------------------------------------------------------------------------
(* The corrections                                                         *)

clk_period(p) == 8 \div p.bw
filtering_delay(p) == 512 \div p.bw + 65

\* The payload fits in the eight symbols of the header.
payload_fits_in_header(p) ==
  LET bytes == p.size + (IF p.crc THEN 2 ELSE 0)
  IN  2 * bytes - (p.sf - 7) <= 0 \/ bytes = 0

\* Nibbles in the last block of the interleaver.  When the header holds everything,
\* the unsigned difference has wrapped around, and the result is overwritten.
nb_nibble_in_last_block(p) ==
  LET ppm == IF SET_PPM_ON(p.bw, p.sf) THEN 1 ELSE 0
      nb_nibble == (p.size + (IF p.crc THEN 2 ELSE 0)) * 2 + 5
      after == nb_nibble - (IF p.sf \in {5, 6} THEN p.sf ELSE p.sf - 2)
      block == p.sf - 2 * ppm
  IN  IF payload_fits_in_header(p) THEN IF p.sf > 6 THEN p.sf - 2 ELSE p.sf
      ELSE IF after % block = 0 THEN block ELSE after - block * (after \div block)

demap_delay(p) ==
  LET c == clk_period(p)  ppm == IF SET_PPM_ON(p.bw, p.sf) THEN 1 ELSE 0
  IN  IF payload_fits_in_header(p)
      THEN c + (2 ^ p.sf * c * 3) \div 4 + 3 * c + (p.sf - 2) * c
      ELSE c + 2 ^ p.sf * c + 3 * c + (p.sf - 2 * ppm) * c     \* 1 - ppm / 4 is 1

fft_delay(p) ==
  LET c == clk_period(p)  ppm == IF SET_PPM_ON(p.bw, p.sf) THEN 1 ELSE 0
      state3 == c * (2 ^ p.sf - 6 + 2 * (2 ^ p.sf * ((p.sf + 1) \div 2 - 1) + 6)) + 4 * c
  IN  state3 + IF payload_fits_in_header(p)         \* the DFT peak mode is disabled
               THEN 2 ^ p.sf * 2 * c + 3 * c
               ELSE (5 - 2 * ppm) * (2 ^ p.sf * c + 7 * c) + 2 * c

decode_delay(p) ==
  LET c == clk_period(p)  cr == IF payload_fits_in_header(p) THEN 4 ELSE p.cr
  IN  5 * c + (9 * c + c * cr) * nb_nibble_in_last_block(p) + 3 * c

legacy_timestamp_correction(p) ==
  -((filtering_delay(p) + fft_delay(p) + demap_delay(p) + decode_delay(p) + 16) \div 32)

\* From the end of the header, which the modem latches, to the end of the packet, less
\* the filtering delay: a difference of doubles, cut off towards zero.
precision_timestamp_correction(p) ==
  LET payload == 32 * n_symbol_payload(p, TRUE) * t_symbol_us(p)
      filter == filtering_delay(p) + 16
  IN  IF payload >= filter THEN (payload - filter) \div 32 ELSE -((filter - payload) \div 32)

timestamp_counter_correction(p, ftime) ==
  IF ftime THEN precision_timestamp_correction(p) ELSE legacy_timestamp_correction(p)

-----------------------------------------------------------------------------
(* Properties of every packet                                              *)

\* The duration the JIT queue reserves is never shorter than what the modem needs
\* with the optimisation it really applies, which depends on the bandwidth too.
ToaNeverShort(p) ==
  LET ppm == IF SET_PPM_ON(p.bw, p.sf) THEN 1 ELSE 0
      Real(h) == ((Lead(p, 8) + 4 * SymbolsWith(p, ppm, h)) * t_symbol_us(p)) \div 4
  IN  \A h \in BOOLEAN : lora_packet_time_on_air(p, 8, h) >= Real(h)

\* A longer payload never takes less time on air, nor a slower rate.
ToaMonotone(p) ==
  /\ lora_packet_time_on_air(p, 8, TRUE)
       <= lora_packet_time_on_air([p EXCEPT !.size = @ + 1], 8, TRUE)
  /\ p.bw < 4 => lora_packet_time_on_air(p, 8, TRUE)
                   >= lora_packet_time_on_air([p EXCEPT !.bw = @ * 2], 8, TRUE)

\* The wrapped difference never reaches the delay: a last block has at least one
\* nibble and at most as many as its symbols have rows.
LastBlockFits(p) == nb_nibble_in_last_block(p) \in 1 .. p.sf

\* The corrected time lies within the packet: the decoding delay taken off a plain
\* timestamp is less than the packet, and what a precise one, taken at the end of the
\* header, is moved by is less than the packet either way.
CorrectedWithinPacket(p) ==
  LET toa == lora_packet_time_on_air(p, 8, TRUE)
  IN  /\ timestamp_counter_correction(p, FALSE) \in -(toa - 1) .. -1
      /\ timestamp_counter_correction(p, TRUE) \in -(toa - 1) .. toa - 1
=============================================================================
