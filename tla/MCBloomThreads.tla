--------------------------- MODULE MCBloomThreads ---------------------------
(* Four identifiers over six bits in three sectors of two: m1 and m2 have a  *)
(* bit in one sector, m3 meets both filters' other sectors, m4 needs the     *)
(* probe.                                                                    *)
EXTENDS BloomThreads

MCMuid == {"m1", "m2", "m3", "m4"}

MCDjb2 == [m \in MCMuid |->
  CASE m = "m1" -> <<0, 2>>
    [] m = "m2" -> <<1, 4>>
    [] m = "m3" -> <<3, 5>>
    [] m = "m4" -> <<5, 11>>]
=============================================================================
