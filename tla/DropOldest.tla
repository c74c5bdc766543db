----------------------------- MODULE DropOldest -----------------------------
(***************************************************************************)
(* What a bounded queue of the gateway promises: first in, first out, and  *)
(* when it is full a new element displaces the oldest one.  The ring of    *)
(* queued MQTT messages and the bridge's queue of received packets are     *)
(* both such queues.                                                       *)
(***************************************************************************)
EXTENDS Naturals, Sequences

CONSTANTS
  Element,   \* what is queued
  Capacity   \* elements it holds at most

VARIABLE queue

Room(q) == IF Len(q) >= Capacity THEN Tail(q) ELSE q

Put == \E e \in Element : queue' = Append(Room(queue), e)

\* The new element could not be stored; room was made for it all the same.
PutFails == queue' = Room(queue)

Take == queue # <<>> /\ queue' = Tail(queue)

QueueInit == queue = <<>>

QueueNext == Put \/ PutFails \/ Take

QueueSpec == QueueInit /\ [][QueueNext]_queue
=============================================================================
