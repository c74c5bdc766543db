-------------------------------- MODULE Mesh --------------------------------
(***************************************************************************)
(* A mesh of ducks: how the duck types of clusterduck/src/Ducks handle a   *)
(* packet they hear (relay it, answer it, learn a route from it), with the *)
(* routing table of routing/DuckRouter.cpp and the way a duck joins.       *)
(*                                                                         *)
(* What a handler does is an outcome: the packet it puts on the air, the   *)
(* destinations it learns, whether it crashes.  A transmission reaches     *)
(* its neighbours one by one, in any order; one that is lost is never read.*)
(*                                                                         *)
(* The duplicate filter is the set of identifiers added to it: BloomFilter *)
(* shows that nothing recent is missing from it.  Neighbor keeps no next   *)
(* hop and getBestNextHop returns the destination itself, so the routing   *)
(* table is the set of its keys; that an entry is older than the TTL is    *)
(* decided by chance whenever entries are evicted.  Of a route's path only *)
(* the last duck is ever read.                                             *)
(***************************************************************************)
EXTENDS Naturals, FiniteSets

CONSTANTS
  Type,      \* Type[d]: "PAPA", "MAMA", "LINK", "DETECTOR", or "OTHER" for a
             \* duck of other firmware, which only sends
  Links,     \* the pairs {d, e} of ducks in radio range of each other
  Joined,    \* ducks that have founded a network before the first step
  Traffic,   \* the pairs <<d, dduid>> that an application on d may send to
  MaxMuid,   \* bound on the identifiers drawn
  MaxAsked   \* bound on the sends asked for by applications and on searches

Ducks == DOMAIN Type
Ids == 1 .. MaxMuid
Topics == {"rreq", "rrep", "ping", "pong", "cmd", "data"}
Address == Ducks \cup {"BROADCAST", "PAPADUCK"}

ASSUME MeshAssumption ==
  /\ \A l \in Links : l \subseteq Ducks /\ Cardinality(l) = 2
  /\ Joined \subseteq Ducks /\ Traffic \subseteq Ducks \X Address
  /\ MaxMuid \in Nat /\ MaxAsked \in Nat

VARIABLES
  state,      \* NetworkState of each duck
  table,      \* its routing table: the destinations it has an entry for
  seen,       \* its duplicate filter
  crashed,    \* ducks whose process has died
  air,        \* transmissions on their way: [to, from, packet]
  next,       \* the identifier assignUniqueMessageId draws next
  sent,       \* history: sent[d][i], how often d transmitted packet i
  delivered,  \* history: delivered[d][i], how often papa d's callback got packet i
  asked,      \* history: the number of sends asked for and of searches
  forPapa     \* history: the data packets addressed to PAPADUCK

meshVars == <<state, table, seen, crashed, air, next, sent, delivered, asked, forPapa>>

MeshInit ==
  /\ state = [d \in Ducks |-> IF Type[d] = "PAPA" \/ d \in Joined
                              THEN "PUBLIC" ELSE "SEARCHING"]
  /\ table = [d \in Ducks |-> {}] /\ seen = [d \in Ducks |-> {}]
  /\ crashed = {} /\ air = {} /\ next = 1
  /\ sent = [d \in Ducks |-> [i \in Ids |-> 0]]
  /\ delivered = [d \in Ducks |-> [i \in Ids |-> 0]] /\ asked = 0 /\ forPapa = {}

Neighbours(d) == {e \in Ducks : {d, e} \in Links}

\* A new packet of duck d; route topics carry origin, destination and path.
Packet(d, dduid, topic) ==
  [sduid |-> d, dduid |-> dduid, muid |-> next, topic |-> topic, hopCount |-> 0,
   origin |-> "none", destination |-> "none", last |-> "none"]

Route(d, dduid, topic, origin, destination, last) ==
  [Packet(d, dduid, topic) EXCEPT !.origin = origin, !.destination = destination, !.last = last]

-----------------------------------------------------------------------------
(* Outcomes                                                                *)

Quiet == [tx |-> {}, learn |-> {}, crash |-> FALSE, callback |-> 0]
Sends(p) == [Quiet EXCEPT !.tx = {p}]

getBestNextHop(d, dest) == dest \in table[d]   \* std::optional has a value

\* Mutant: the filter is not asked.
broadcastPacket_Always(filter, p) == Sends([p EXCEPT !.hopCount = @ + 1])

broadcastPacket(filter, p) ==
  IF p.muid \in filter THEN Quiet ELSE Sends([p EXCEPT !.hopCount = @ + 1])

\* Mutant: without a route nothing is forwarded, to papa either.
forwardPacket_OnlyRouted(d, filter, p) ==
  IF getBestNextHop(d, p.dduid) THEN broadcastPacket(filter, p) ELSE Quiet

forwardPacket(d, filter, p) ==
  IF getBestNextHop(d, p.dduid) \/ p.dduid = "PAPADUCK"
  THEN broadcastPacket(filter, p) ELSE Quiet

LastInPath(p) == IF p.last = "none" THEN p.sduid ELSE p.last

\* A neighbour's search for a network.  A DuckLink answers with an empty path.
AnswerSearch(d, p) ==
  IF p.hopCount > 0 \/ (Type[d] = "PAPA" /\ p.sduid = d) THEN Quiet
  ELSE [Sends(Route(d, p.sduid, "rrep", d, p.sduid, IF Type[d] = "LINK" THEN "none" ELSE d))
          EXCEPT !.learn = {p.sduid}]

\* A route request that ends here; convertReqToRep swaps origin and destination.
AnswerRreq(d, p) ==
  Sends(Route(d, LastInPath(p), "rrep", p.destination, p.origin, p.last))

\* A route response, whoever it is addressed to.  The duck replaces the last of
\* the path by itself, which is fatal when the path is empty.
HandleRrep(d, p) ==
  IF Type[d] = "PAPA" /\ p.sduid = d THEN Quiet
  ELSE IF p.destination # d /\ getBestNextHop(d, p.destination) /\ p.destination # p.sduid
  THEN IF p.last = "none" THEN [Quiet EXCEPT !.crash = TRUE]
       ELSE [Sends(Route(d, p.destination, "rrep", p.origin, p.destination, d))
               EXCEPT !.learn = {p.sduid}]
  ELSE [Quiet EXCEPT !.learn = {p.origin}]

Pong(d) == Sends(Packet(d, "BROADCAST", "pong"))

\* PapaDuck and MamaDuck: ifBroadcast
ifBroadcast(d, filter, p) ==
  CASE p.topic = "rreq" -> AnswerSearch(d, p)
    [] p.topic = "ping" -> Pong(d)
    [] p.topic = "pong" -> Quiet
    [] OTHER -> broadcastPacket(filter, p)

\* PapaDuck and MamaDuck: ifNotBroadcast.  A command is relayed by its target too.
ifNotBroadcast(d, filter, p, relay) ==
  CASE p.topic = "rreq" /\ ~relay -> AnswerRreq(d, p)
    [] p.topic = "rreq" /\ relay -> forwardPacket(d, filter, [p EXCEPT !.last = d])
    [] p.topic = "rrep" -> HandleRrep(d, p)
    [] p.topic = "ping" -> Pong(d)
    [] p.topic = "pong" -> Quiet
    [] p.topic = "cmd" /\ Type[d] = "MAMA" -> broadcastPacket(filter, p)
    [] OTHER -> IF relay THEN forwardPacket(d, filter, p) ELSE Quiet

\* What papa does with a packet its filter has just taken.
PapaDispatch(d, p) ==
  LET filter == seen[d] \cup {p.muid}
  IN  [(IF p.dduid = "BROADCAST" THEN ifBroadcast(d, filter, p)
        ELSE ifNotBroadcast(d, filter, p, p.dduid \notin {d, "PAPADUCK"}))
         EXCEPT !.callback = 1]

\* PapaDuck: what was seen is dropped before anything else; the rest is added to
\* the filter first, so that papa never relays, and is given to the callback.
PapaHandles(d, p) == IF p.muid \in seen[d] THEN Quiet ELSE PapaDispatch(d, p)

\* MamaDuck: the filter only keeps it from relaying twice.
MamaHandles(d, p) ==
  IF p.dduid = "BROADCAST" THEN ifBroadcast(d, seen[d], p)
  ELSE ifNotBroadcast(d, seen[d], p, p.dduid # d)

\* DuckLink: it relays nothing but broadcast commands; an empty path throws.
LinkHandles(d, p) ==
  CASE p.dduid = "BROADCAST" /\ p.topic = "rreq" -> AnswerSearch(d, p)
    [] p.dduid = "BROADCAST" /\ p.topic = "ping" -> Pong(d)
    [] p.dduid = "BROADCAST" /\ p.topic = "cmd" -> broadcastPacket(seen[d], p)
    [] p.dduid # "BROADCAST" /\ p.dduid = d /\ p.topic = "rreq" ->
         [AnswerRreq(d, p) EXCEPT !.learn = {p.sduid}]
    [] p.dduid # "BROADCAST" /\ p.topic = "rrep" ->
         IF p.last = "none" THEN [Quiet EXCEPT !.crash = TRUE]
                            ELSE [Quiet EXCEPT !.learn = {p.origin}]
    [] OTHER -> Quiet

Handles(d, p) ==
  CASE Type[d] = "PAPA" -> PapaHandles(d, p)
    [] Type[d] = "MAMA" -> MamaHandles(d, p)
    [] Type[d] = "LINK" -> LinkHandles(d, p)
    [] OTHER -> Quiet

-----------------------------------------------------------------------------
(* Steps                                                                   *)

\* The transmission of the packets of an outcome, at most one; a new packet's
\* identifier is in the filter before it is sent, a relayed one's as well.
Transmit(d, tx, rest) ==
  /\ \A p \in tx : p.muid = next => next \in Ids
  /\ next' = IF \E p \in tx : p.muid = next THEN next + 1 ELSE next
  /\ air' = rest \cup {[to |-> e, from |-> d, packet |-> p] : e \in Neighbours(d), p \in tx}
  /\ sent' = [sent EXCEPT ![d] = [i \in Ids |-> IF \E p \in tx : p.muid = i
                                               THEN @[i] + 1 ELSE @[i]]]

\* insertIntoRoutingTable: what is found stale goes, then the entry is made.
insertIntoRoutingTable(d, learn) ==
  \E stale \in SUBSET table[d] :
    table' = [table EXCEPT ![d] = IF learn = {} THEN @ ELSE (@ \ stale) \cup learn]

\* A public duck reads what its radio received and handles it.
handleReceivedPacket(d) ==
  /\ state[d] = "PUBLIC" /\ d \notin crashed
  /\ \E m \in air :
       LET p == m.packet
           o == Handles(d, p)
           heard == Type[d] \in {"PAPA", "MAMA", "LINK"}
       IN  /\ m.to = d
           /\ Transmit(d, o.tx, air \ {m})
           /\ insertIntoRoutingTable(d, o.learn)
           /\ seen' = [seen EXCEPT ![d] = @ \cup {q.muid : q \in o.tx}
                                             \cup (IF heard THEN {p.muid} ELSE {})]
           /\ delivered' = [delivered EXCEPT ![d][p.muid] = @ + o.callback]
           /\ crashed' = IF o.crash THEN crashed \cup {d} ELSE crashed
  /\ UNCHANGED <<state, asked, forPapa>>

\* A searching duck reads packets too, and only looks for an answer to its search.
attemptNetworkJoin(d) ==
  /\ state[d] = "SEARCHING" /\ Type[d] \in {"MAMA", "LINK"}
  /\ \E m \in air :
       LET found == m.packet.topic = "rrep" /\ m.packet.dduid = d
       IN  /\ m.to = d /\ air' = air \ {m}
           /\ state' = IF found THEN [state EXCEPT ![d] = "PUBLIC"] ELSE state
           /\ insertIntoRoutingTable(d, IF found THEN {m.packet.sduid} ELSE {})
  /\ UNCHANGED <<seen, crashed, next, sent, delivered, asked, forPapa>>

Asked == asked < MaxAsked /\ asked' = asked + 1

\* It searches by a broadcast request every 15 seconds ...
Search(d) ==
  /\ state[d] = "SEARCHING" /\ Type[d] \in {"MAMA", "LINK"}
  /\ Transmit(d, {Route(d, "BROADCAST", "rreq", d, "BROADCAST", d)}, air)
  /\ seen' = [seen EXCEPT ![d] = @ \cup {next}]
  /\ Asked /\ UNCHANGED <<state, table, crashed, delivered, forPapa>>

\* ... and founds a network of its own after 80; a detector does so at once.
FoundNetwork(d) ==
  /\ state[d] = "SEARCHING"
  /\ state' = [state EXCEPT ![d] = "PUBLIC"]
  /\ UNCHANGED <<table, seen, crashed, air, next, sent, delivered, asked, forPapa>>

\* sendData: with a route, or none needed, the data; else a request for a route.
sendData(d, dduid) ==
  /\ state[d] = "PUBLIC" /\ d \notin crashed /\ Type[d] \in {"PAPA", "MAMA", "LINK"}
  /\ <<d, dduid>> \in Traffic /\ d # dduid
  /\ LET direct == Type[d] = "PAPA" \/ getBestNextHop(d, dduid)
                   \/ dduid \in {"PAPADUCK", "BROADCAST"}
     IN  Transmit(d, {IF direct THEN Packet(d, dduid, "data")
                      ELSE Route(d, dduid, "rreq", d, dduid, d)}, air)
  /\ seen' = [seen EXCEPT ![d] = @ \cup {next}]
  /\ forPapa' = IF dduid = "PAPADUCK" THEN forPapa \cup {next} ELSE forPapa
  /\ Asked /\ UNCHANGED <<state, table, crashed, delivered>>

\* sendPing, which is what a detector does.
sendPing(d) ==
  /\ state[d] = "PUBLIC" /\ Type[d] = "DETECTOR"
  /\ Transmit(d, {Packet(d, "BROADCAST", "ping")}, air)
  /\ seen' = [seen EXCEPT ![d] = @ \cup {next}]
  /\ Asked /\ UNCHANGED <<state, table, crashed, delivered, forPapa>>

\* A command, which no duck of this firmware may send, from another one.
Command(d, dduid) ==
  /\ Type[d] = "OTHER" /\ <<d, dduid>> \in Traffic
  /\ Transmit(d, {Packet(d, dduid, "cmd")}, air)
  /\ Asked /\ UNCHANGED <<state, table, seen, crashed, delivered, forPapa>>

MeshNext ==
  \E d \in Ducks :
       \/ handleReceivedPacket(d) \/ attemptNetworkJoin(d) \/ Search(d) \/ FoundNetwork(d)
       \/ sendPing(d)
       \/ \E dduid \in Address : sendData(d, dduid) \/ Command(d, dduid)

MeshSpec == MeshInit /\ [][MeshNext]_meshVars

\* Ducks keep reading what their radio received.
FairMeshSpec == MeshSpec /\ WF_meshVars(\E d \in Ducks : handleReceivedPacket(d))

-----------------------------------------------------------------------------
(* Properties                                                              *)

\* Types; in particular a routing table has entries for ducks only.
MeshTypeOK ==
  /\ state \in [Ducks -> {"SEARCHING", "PUBLIC"}]
  /\ table \in [Ducks -> SUBSET Ducks]
  /\ seen \in [Ducks -> SUBSET Ids] /\ crashed \subseteq Ducks
  /\ next \in 1 .. MaxMuid + 1 /\ asked \in 0 .. MaxAsked
  /\ \A m \in air : /\ m.to \in Ducks /\ m.from \in Ducks /\ {m.to, m.from} \in Links
                     /\ m.packet.topic \in Topics /\ m.packet.dduid \in Address

\* However many neighbours echo a packet back, broadcastPacket lets a duck put it
\* on the air at most once: relaying ends.
TransmittedOnce == \A d \in Ducks, i \in Ids : sent[d][i] <= 1

\* Papa hears a packet from the sender and from every relay; its callback, and
\* with it the hub, gets it at most once.
DeliveredOnce == \A d \in Ducks, i \in Ids : delivered[d][i] <= 1

\* Some papa's hub got packet i.
Reached(i) == \E d \in Ducks : delivered[d][i] = 1

\* Data for papa gets there, through ducks that know no route: forwardPacket lets
\* PAPADUCK through.  A duck that sends has joined, so some relay is in reach.
UplinkReaches ==
  (\E i \in forPapa : ~Reached(i)) ~> (\A i \in forPapa : Reached(i))

\* However the echoes of a packet interleave, relaying ends and papa's hub sees one.
RelayedOnce == MeshTypeOK /\ TransmittedOnce /\ DeliveredOnce
=============================================================================
