------------------------------ MODULE MCDaemon ------------------------------
(* Daemon for TLC: everything that can be configured, and nothing optional.  *)
EXTENDS Daemon

MCSettings == {[spi |-> TRUE, scan |-> TRUE, gps |-> TRUE],
               [spi |-> FALSE, scan |-> FALSE, gps |-> FALSE]}
=============================================================================
