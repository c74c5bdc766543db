------------------------------- MODULE MCMesh -------------------------------
(***************************************************************************)
(* The mesh, and the duplicate filter that each of its ducks relies on.    *)
(* They share no variable (Mesh uses the filter as an exact set); the part *)
(* that runs is chosen at the start.                                       *)
(*                                                                         *)
(* The mesh: a link behind a mama; that mama, another one and papa hear    *)
(* each other.  A detector and a duck that gives commands are in reach.    *)
(* The filter: five identifiers over seven bits with two hash functions;   *)
(* some collide on one bit, m4 and m5 exactly (a false positive), m3 needs *)
(* the probe.                                                              *)
(***************************************************************************)
EXTENDS Mesh, BloomFilter

VARIABLE part

MCType == [L |-> "LINK", A |-> "MAMA", B |-> "MAMA", P |-> "PAPA", D |-> "DETECTOR", O |-> "OTHER"]
MCLinks == {{"L", "A"}, {"A", "B"}, {"A", "P"}, {"B", "P"}, {"D", "P"}, {"O", "B"}}
MCJoined == {"A", "B", "O"}
MCTraffic == {<<"L", "PAPADUCK">>, <<"L", "B">>, <<"P", "L">>, <<"O", "A">>, <<"O", "BROADCAST">>}

MCMuid == {"m1", "m2", "m3", "m4", "m5"}

MCDjb2 == [m \in MCMuid |->
  CASE m = "m1" -> <<0, 9>>
    [] m = "m2" -> <<2, 3>>
    [] m = "m3" -> <<6, 13>>
    [] m = "m4" -> <<4, 5>>
    [] m = "m5" -> <<12, 11>>]

Init == part \in {"mesh", "filter"} /\ MeshInit /\ BloomInit

Next ==
  /\ \/ part = "mesh" /\ MeshNext /\ UNCHANGED bloomVars
     \/ part = "filter" /\ BloomNext /\ UNCHANGED meshVars
  /\ UNCHANGED part

\* With the fairness of Mesh, in the behaviours where it runs.
Spec ==
  /\ Init /\ [][Next]_<<meshVars, bloomVars, part>>
  /\ WF_meshVars(part = "mesh" /\ \E d \in Ducks : handleReceivedPacket(d))
=============================================================================
