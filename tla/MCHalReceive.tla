---------------------------- MODULE MCHalReceive ----------------------------
EXTENDS HalReceive

AllKinds == {"good", "noise", "bad", "alien", "crc16"}
=============================================================================
