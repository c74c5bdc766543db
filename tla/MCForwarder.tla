----------------------------- MODULE MCForwarder ----------------------------
(* A small gateway and server for Forwarder *)
EXTENDS Forwarder, TLC

Both(x, y) == (0 :> x) @@ (1 :> y)
Good == [time |-> "imme", wellformed |-> TRUE, freq |-> 1, power |-> 4]

Load(pkts, first, second, loops, nbPull, nbReport, nbLost, nbDup) ==
  [received |-> pkts, request |-> Both(first, second), nb_loop |-> loops, pulls |-> nbPull,
   reports |-> nbReport, lost |-> nbLost, dup |-> nbDup]

MCLoads ==
  { \* uplinks and reports only
    Load(<<"CRC_OK", "CRC_BAD">>, Good, Good, Both(0, 0), 0, 2, 1, 0),
    \* requests that go unanswered
    Load(<<>>, Good, Good, Both(0, 0), 3, 0, 0, 1),
    \* downlinks: an unknown power, one too fast for the queue, one refused, one ignored
    Load(<<>>, [Good EXCEPT !.power = 5], [Good EXCEPT !.freq = 2], Both(2, 1), 1, 0, 1, 0),
    Load(<<>>, [Good EXCEPT !.time = "gps"], [Good EXCEPT !.wellformed = FALSE], Both(1, 1), 1, 1, 1, 0),
    \* both directions, with a packet that cannot be serialised
    Load(<<"STRANGE">>, Good, Good, Both(1, 0), 1, 0, 0, 0) }

MCtx_enable == Both(TRUE, TRUE)
MCtxlut == <<0, 4>>
=============================================================================
