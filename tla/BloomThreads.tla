---------------------------- MODULE BloomThreads ----------------------------
(***************************************************************************)
(* The Bloom filter as the daemon's threads really use it.  Nothing locks  *)
(* it, and it has two users: thread_duck, which checks and adds what the   *)
(* radio received, and the MQTT client's callback thread, on which a       *)
(* command from the operator becomes a packet (hub_send_data, sendData,    *)
(* assignUniqueMessageId).  A call is split into its loads and stores of   *)
(* nMsg, of the filters' sectors and of activeFilter.  A check only reads  *)
(* and stays one step.                                                     *)
(***************************************************************************)
EXTENDS BloomFilter

CONSTANTS
  Threads,        \* the threads that use the filter
  bitsPerSector,  \* bits of an unsigned int of filter1 and filter2
  MaxAttempts     \* draws of a new identifier before any will do (100)

ASSUME ThreadsAssumption ==
  /\ bitsPerSector \in Nat \ {0} /\ totalBits % bitsPerSector = 0
  /\ MaxAttempts \in Nat

VARIABLES
  at,     \* at[t]: the access t makes next, "idle" between calls
  own,    \* own[t]: its locals
  saved   \* history: the filter as the latest call to return left it

threadVars == <<filter, activeFilter, nMsg, age, at, own, saved>>

NoCall == [muid |-> "none", attempts |-> 0, i |-> 0, tmp |-> 0, word |-> {}, f |-> 0]

State == [filter |-> filter, activeFilter |-> activeFilter, nMsg |-> nMsg]

sectors == 0 .. totalBits \div bitsPerSector - 1

SectorBits(s) == {b \in Bits : b \div bitsPerSector = s}

ThreadsInit ==
  /\ BloomInit
  /\ at = [t \in Threads |-> "idle"]
  /\ own = [t \in Threads |-> NoCall]
  /\ saved = State

Goto(t, step, locals) ==
  /\ at' = [at EXCEPT ![t] = step]
  /\ own' = [own EXCEPT ![t] = locals]

BeginAdd(t, m) == Goto(t, "load_nMsg", [NoCall EXCEPT !.muid = m])

\* handleReceivedPacket: a packet seen before is dropped, any other is added.
Receive(t) ==
  /\ at[t] = "idle"
  /\ \E m \in Muid : ~bloom_check(m) /\ BeginAdd(t, m)
  /\ UNCHANGED <<bloomVars, saved>>

\* assignUniqueMessageId: draw identifiers until the filter reports one as new,
\* or for MaxAttempts + 1 draws, and add the last one drawn.
assignUniqueMessageId(t) ==
  /\ at[t] \in {"idle", "draw"}
  /\ \E m \in Muid :
       IF bloom_check(m) /\ own[t].attempts + 1 <= MaxAttempts
       THEN Goto(t, "draw", [own[t] EXCEPT !.attempts = @ + 1])
       ELSE BeginAdd(t, m)
  /\ UNCHANGED <<bloomVars, saved>>

\* nMsg += 1
LoadCount(t) ==
  /\ at[t] = "load_nMsg"
  /\ Goto(t, "store_nMsg", [own[t] EXCEPT !.tmp = nMsg + 1])
  /\ UNCHANGED <<bloomVars, saved>>

StoreCount(t) ==
  /\ at[t] = "store_nMsg"
  /\ nMsg' = own[t].tmp
  /\ Goto(t, "load_sector", [own[t] EXCEPT !.i = 1])
  /\ UNCHANGED <<filter, activeFilter, age, saved>>

\* filter[sectors[i]] = filter[sectors[i]] | slots[i], in the filter that is
\* active when the iteration starts
Bit(t) == HashResults[own[t].muid][own[t].i]
Sector(t) == SectorBits(Bit(t) \div bitsPerSector)

LoadSector(t) ==
  /\ at[t] = "load_sector"
  /\ Goto(t, "store_sector", [own[t] EXCEPT !.f = activeFilter,
                                !.word = filter[activeFilter] \cap Sector(t)])
  /\ UNCHANGED <<bloomVars, saved>>

StoreSector(t) ==
  /\ at[t] = "store_sector"
  /\ filter' = [filter EXCEPT ![own[t].f] = (@ \ Sector(t)) \cup own[t].word \cup {Bit(t)}]
  /\ IF own[t].i < numHashes
     THEN Goto(t, "load_sector", [own[t] EXCEPT !.i = @ + 1, !.word = {}])
     ELSE Goto(t, "test", [own[t] EXCEPT !.i = 0, !.word = {}])
  /\ UNCHANGED <<activeFilter, nMsg, age, saved>>

Return(t) ==
  /\ Goto(t, "idle", NoCall)
  /\ saved' = State'
  /\ age' = Grown(own[t].muid)

\* Mutant: the swap is missed.
Test_Never(t) ==
  /\ at[t] = "test"
  /\ UNCHANGED <<filter, activeFilter, nMsg>>
  /\ Return(t)

\* nMsg >= maxMsgs, and which filter to clear
Test(t) ==
  /\ at[t] = "test"
  /\ UNCHANGED <<filter, activeFilter, nMsg>>
  /\ IF nMsg >= maxMsgs
     THEN /\ Goto(t, "clear", [own[t] EXCEPT !.f = Other(activeFilter)])
          /\ UNCHANGED <<age, saved>>
     ELSE Return(t)

Clear(t) ==
  /\ at[t] = "clear"
  /\ filter' = [filter EXCEPT ![own[t].f] = @ \ SectorBits(own[t].i)]
  /\ IF own[t].i + 1 \in sectors THEN Goto(t, "clear", [own[t] EXCEPT !.i = @ + 1])
                                 ELSE Goto(t, "switch", own[t])
  /\ UNCHANGED <<activeFilter, nMsg, age, saved>>

Switch(t) ==
  /\ at[t] = "switch"
  /\ activeFilter' = own[t].f
  /\ Goto(t, "reset", own[t])
  /\ UNCHANGED <<filter, nMsg, age, saved>>

Reset(t) ==
  /\ at[t] = "reset"
  /\ nMsg' = 0
  /\ UNCHANGED <<filter, activeFilter>>
  /\ Return(t)

ThreadsNext ==
  \E t \in Threads :
    \/ Receive(t) \/ assignUniqueMessageId(t)
    \/ LoadCount(t) \/ StoreCount(t) \/ LoadSector(t) \/ StoreSector(t)
    \/ Test(t) \/ Clear(t) \/ Switch(t) \/ Reset(t)

ThreadsSpec == ThreadsInit /\ [][ThreadsNext]_threadVars

-----------------------------------------------------------------------------
Idle == \A t \in Threads : at[t] = "idle"

\* "Add own MUID to bloom so if a relay echoes this packet back, we recognise
\* it as seen" (assignUniqueMessageId): once its call has returned and nobody is
\* inside another, an identifier added within the last maxMsgs calls is seen.
OwnIsRecognised == Idle => RecentIsSeen

\* With one thread the accesses implement the atomic bloom_add of BloomFilter:
\* the caller sees the state before the call or the state after it.
Atomic == INSTANCE BloomFilter WITH
  filter       <- saved.filter,
  activeFilter <- saved.activeFilter,
  nMsg         <- saved.nMsg

CallsAreAtomic == Atomic!BloomSpec
=============================================================================
