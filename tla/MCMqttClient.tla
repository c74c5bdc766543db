---------------------------- MODULE MCMqttClient ----------------------------
(* MqttClient for TLC: a ring of two for three messages, so that it fills    *)
(* and wraps, and delays that double past their limit.                       *)
EXTENDS MqttClient

AllMessages == Uplink \cup Response
=============================================================================
