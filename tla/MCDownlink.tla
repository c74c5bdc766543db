----------------------------- MODULE MCDownlink -----------------------------
(* Downlink for TLC, with the sizes and topics of the code.                  *)
EXTENDS Downlink

Command(topic, length) == [topic |-> topic, length |-> length]

\* Data that fit exactly, one byte too many, none at all, a topic no operator
\* may use, and 256, the longest command hub_send_data lets pass and 0 as a
\* uint8_t.
MixedCommands ==
  <<Command(20, 1), Command(255, 230), Command(20, 229), Command(5, 4), Command(20, 0),
    Command(20, 256), Command(27, 10)>>
=============================================================================
