--------------------------- MODULE DandelionManager ---------------------------
(* Dandelion++ stem relay: DandelionManager (dandelion.cpp) and the handlers    *)
(* that use it, which run on five threads:                                      *)
(*   msg    the message handler: DLTX and TX messages (net_processing.cpp);      *)
(*   rpc    BroadcastTransaction (node/transaction.cpp);                         *)
(*   sched  the scheduler: the embargo monitor, every MONITOR_INTERVAL, and the   *)
(*          queue of validation notifications;                                   *)
(*   net    the socket thread: peers come and go, FinalizeNode;                  *)
(*   valid  validation: blocks connect, NewPoWValidBlock announces one.          *)
(*                                                                              *)
(* A step is what a thread does between two acquisitions of a lock.  Three locks *)
(* are held over several steps and can make another thread wait: m_mutex of the  *)
(* manager, m_nodes_mutex of CConnman and cs_main.  Who holds them follows from  *)
(* where the threads are (HoldsMutex, HoldsNodes, HoldsMain).                    *)
(*                                                                              *)
(* Time is abstract: an embargo is due or not, an epoch ends at any time, and  *)
(* an entry arrives in the same second as the one before it or in a later      *)
(* one.  Notifications of different transactions may be handled in any order.  *)
(* The relay pools of a source (RelayAssignment) are left out: they only       *)
(* choose among the connected relays, and any of those may be chosen here.     *)
(* The rate limit counts transactions, not bytes.  The seen filter is exact    *)
(* and may forget a transaction the manager no longer holds.  The unbroadcast  *)
(* set of the mempool, which nothing in the manager reads, is left out.  The   *)
(* looks one call of the manager takes at the node list are taken together.    *)
(* The node is past the activation height and its initial block download.      *)
EXTENDS Naturals, Sequences, FiniteSets, FiniteSetsExt, SequencesExt, Functions, TLC

CONSTANTS
    Tx,                \* transactions
    LocalTx,           \* those the wallet or a user broadcasts
    Size,              \* their serialized sizes
    Peer,              \* connections; a NodeId is never used twice
    Outbound,          \* the peers of a preferred connection type, the rest inbound
    Netgroup,          \* nKeyedNetGroup of each peer
    NoPeer,            \* NodeId -1: a transaction of the local wallet
    MAX_DESTINATIONS,
    MAX_STEM_TXS_PER_PEER,
    MAX_STEMPOOL_SIZE,
    MAX_STEMPOOL_BYTES,
    InitialPeers,      \* the connections the node may start with
    MaxInputs          \* bound on what peers, users, blocks and the mempool do

(* A transaction alone fits the stempool, so EvictStemPool never fails: the     *)
(* 15 MiB of MAX_STEMPOOL_BYTES are far above what the mempool accepts.         *)
ASSUME StempoolAssumption ==
    /\ MAX_STEMPOOL_SIZE \in Nat \ {0}
    /\ Size \in [Tx -> 1 .. MAX_STEMPOOL_BYTES]
    /\ NoPeer \notin Peer

VARIABLES
    peer,                  \* each peer's connection: "new"; "up", that is
                           \* fSuccessfullyConnected; "capable", DANDELIONACC has
                           \* come; "gone", out of m_nodes; "final", finalized
    m_stem_mode,
    m_relay_destinations,
    m_peer_state,          \* stem_tx_count of each peer, 0 without an entry
    m_stempool,            \* the entries by transaction: the rank of the second of
                           \* its arrival_time, and whether its embargo is due
    m_stempool_bytes,
    m_pending_fluff,
    m_stem_seen_filter,
    place,                 \* where the node has a transaction: "none", "mempool",
                           \* "block" (its BlockConnected is queued) or "chain"
    added,                 \* those whose TransactionAddedToMempool is queued
    msg, rpc, sched,       \* where the three threads are, with their locals
    reseating,             \* the net thread is in PeerDisconnected, under m_mutex
    announcing,            \* NewPoWValidBlock has cs_main and wants the nodes
    inputs,                \* how many inputs there have been
    owed                   \* history: stemmed and not yet relayed, refused, ...

managerVars == <<m_stem_mode, m_relay_destinations, m_peer_state, m_stempool,
                 m_stempool_bytes, m_pending_fluff, m_stem_seen_filter>>
poolVars == <<m_stempool, m_stempool_bytes>>
mempoolVars == <<place, added>>
threadVars == <<msg, rpc, sched, reseating, announcing>>
vars == <<peer, managerVars, mempoolVars, threadVars, inputs, owed>>

-------------------------------------------------------------------------------
(* The peers that support Dandelion++. *)
Capable == {p \in Peer : peer[p] = "capable"}

(* IsRelayPeerConnected, and what ForEachNode and ForNode find. *)
Connected == {p \in Peer : peer[p] \in {"up", "capable"}}

(* Locks.  m_mutex is kept while the manager asks CConnman about its nodes,      *)
(* m_nodes_mutex while ForNode runs its callback, cs_main while a TX message is   *)
(* processed and while a block is announced.                                     *)
HoldsMutex(th) ==
    \/ th = "msg" /\ msg.pc = "route"
    \/ th = "rpc" /\ rpc.pc = "route"
    \/ th = "sched" /\ sched.pc = "rotate"
    \/ th = "net" /\ reseating

HoldsNodes(th) == th = "msg" /\ msg.pc \in {"cb_remove", "cb_fluff"}

HoldsMain(th) ==
    \/ th = "msg" /\ msg.pc = "graduate"
    \/ th = "valid" /\ announcing

Threads == {"msg", "rpc", "sched", "net", "valid"}
MutexFree == \A th \in Threads : ~ HoldsMutex(th)
NodesFree == \A th \in Threads : ~ HoldsNodes(th)
MainFree == \A th \in Threads : ~ HoldsMain(th)

-------------------------------------------------------------------------------
(* Relay selection. *)

(* What select_candidates may add to the relays already selected: candidates in  *)
(* any order, one of a netgroup, as long as there is room.                       *)
Selections(selected, candidates) ==
    {R \in {selected \cup A : A \in SUBSET candidates} :
        /\ Cardinality(R) <= MAX_DESTINATIONS
        /\ \A p, q \in R : Netgroup[p] = Netgroup[q] => p = q
        /\ \A c \in candidates \ R :
            \/ Cardinality(R) = MAX_DESTINATIONS
            \/ \E p \in R : Netgroup[p] = Netgroup[c]}

(* SelectNewRelays: outbound peers that support Dandelion++, then inbound ones,   *)
(* and outbound peers without support only if neither gave a relay.              *)
NewRelays ==
    LET preferred == Capable \cap Outbound
        reserve == Capable \ Outbound
        fallback == {p \in Outbound : peer[p] = "up"}
        selected == UNION {Selections(R, reserve) : R \in Selections({}, preferred)}
    IN  IF selected = {{}} THEN Selections({}, fallback) ELSE selected

(* What SelectRelayDestination gives, after a new selection when none of the     *)
(* relays is connected: the relays and the destination, or NoPeer.               *)
Routes ==
    LET live == m_relay_destinations \cap Connected
        To(R) == {<<R, p>> : p \in R}
    IN  IF live # {}
        THEN {<<m_relay_destinations, p>> : p \in live}
        ELSE UNION {IF R = {} THEN {<<R, NoPeer>>} ELSE To(R) : R \in NewRelays}

-------------------------------------------------------------------------------
(* The stempool. *)
Stemming == DOMAIN m_stempool

Bytes(S) == MapThenSumSet(LAMBDA t : Size[t], S)

(* m_stempool_bytes less the size of the transactions taken out, never below 0. *)
BytesLess(S) == IF Bytes(S) <= m_stempool_bytes THEN m_stempool_bytes - Bytes(S) ELSE 0

(* Mutant: the bytes of an erased entry are not given back. *)
EraseKeepsBytes(S) ==
    /\ m_stempool' = Restrict(m_stempool, Stemming \ S)
    /\ UNCHANGED m_stempool_bytes

(* The transactions of S leave the stempool. *)
Erase(S) ==
    /\ m_stempool' = Restrict(m_stempool, Stemming \ S)
    /\ m_stempool_bytes' = BytesLess(S \cap Stemming)

(* by_arrival: sorted by arrival_time, a whole number of seconds, so entries of   *)
(* one second come in any order.                                                 *)
ByArrival ==
    {s \in SetToSeqs(Stemming) :
        \A i, j \in DOMAIN s :
            i < j => m_stempool[s[i]].arrival <= m_stempool[s[j]].arrival}

(* EvictStemPool: the oldest entries go until the new transaction fits. *)
Evicted(t, by_arrival) ==
    LET Oldest(n) == {by_arrival[i] : i \in 1 .. n}
        Fits(n) == /\ Len(by_arrival) - n < MAX_STEMPOOL_SIZE
                   /\ BytesLess(Oldest(n)) + Size[t] <= MAX_STEMPOOL_BYTES
    IN  SubSeq(by_arrival, 1, Min({n \in 0 .. Len(by_arrival) : Fits(n)}))

(* Mutant: an evicted transaction is dropped. *)
DeferredNone(gone) == {}

(* m_pending_fluff takes the evicted transactions it has room for. *)
Room == MAX_STEMPOOL_SIZE - Cardinality(m_pending_fluff)
Deferred(gone) == {gone[i] : i \in DOMAIN gone \cap 1 .. Room}
Dropped(gone) == {gone[i] : i \in DOMAIN gone \ 1 .. Room}

(* The rank of the current second, after the arrivals of the entries. *)
Arrivals ==
    LET latest == Max({m_stempool[t].arrival : t \in Stemming})
    IN  IF Stemming = {} THEN {0} ELSE {latest, latest + 1}

(* Eviction, accounting and the new entry of AcceptStemTransaction. *)
AddStem(t, from) ==
    \E by_arrival \in ByArrival, arrival \in Arrivals :
        LET gone == Evicted(t, by_arrival)
        IN  /\ m_stempool' = (t :> [arrival |-> arrival, due |-> FALSE])
                                 @@ Restrict(m_stempool, Stemming \ ToSet(gone))
            /\ m_stempool_bytes' = BytesLess(ToSet(gone)) + Size[t]
            /\ m_pending_fluff' = m_pending_fluff \cup Deferred(gone)
            /\ m_stem_seen_filter' = m_stem_seen_filter \cup {t}
            /\ m_peer_state' = [p \in Peer |-> m_peer_state[p] + IF p = from THEN 1 ELSE 0]
            /\ owed' = (owed \ Dropped(gone)) \cup {t}

(* The FLUFF_IMMEDIATELY returns of AcceptStemTransaction. *)
FluffImmediately(t, from) ==
    /\ m_stem_seen_filter' = m_stem_seen_filter \cup {t}
    /\ m_peer_state' = [p \in Peer |-> m_peer_state[p] + IF p = from THEN 1 ELSE 0]
    /\ UNCHANGED <<poolVars, m_pending_fluff>>

AlreadyKnown(t) == t \in Stemming \/ t \in m_stem_seen_filter

RateLimited(from) == from # NoPeer /\ m_peer_state[from] >= MAX_STEM_TXS_PER_PEER

-------------------------------------------------------------------------------
Idle == [pc |-> "idle"]

Init ==
    /\ peer \in InitialPeers
    /\ m_stem_mode = TRUE
    /\ m_relay_destinations = {}
    /\ m_peer_state = [p \in Peer |-> 0]
    /\ m_stempool = << >> /\ m_stempool_bytes = 0
    /\ m_pending_fluff = {} /\ m_stem_seen_filter = {}
    /\ place = [t \in Tx |-> "none"] /\ added = {}
    /\ msg = Idle /\ rpc = Idle /\ sched = Idle
    /\ reseating = FALSE /\ announcing = FALSE
    /\ inputs = 0 /\ owed = {}

(* Something from outside the threads happens, one of MaxInputs. *)
Input == inputs < MaxInputs /\ inputs' = inputs + 1

(* The mempool accepts a transaction and queues the notification of it. *)
AddToMempool(t) ==
    /\ place' = [place EXCEPT ![t] = "mempool"]
    /\ added' = added \cup {t}

-------------------------------------------------------------------------------
(* The message handler thread. *)

(* A DLTX message passes its checks and ProcessTransaction(test_accept). *)
ReceiveDltx(p, t) ==
    /\ Input /\ msg.pc = "idle" /\ MainFree
    /\ peer[p] = "capable"
    /\ place[t] = "none"
    /\ msg' = [pc |-> "accept", tx |-> t, from |-> p, dest |-> NoPeer, refs |-> Connected]
    /\ UNCHANGED <<peer, managerVars, mempoolVars, rpc, sched, reseating,
                   announcing, owed>>

(* AcceptStemTransaction up to where it needs the nodes: ALREADY_KNOWN and        *)
(* RATE_LIMITED end the handler, a fluff epoch fluffs.                           *)
AcceptDltx ==
    /\ msg.pc = "accept" /\ MutexFree
    /\ IF AlreadyKnown(msg.tx) \/ RateLimited(msg.from)
       THEN msg' = Idle /\ UNCHANGED <<managerVars, owed>>
       ELSE IF ~ m_stem_mode
       THEN /\ FluffImmediately(msg.tx, msg.from)
            /\ msg' = [msg EXCEPT !.pc = "fluff"]
            /\ UNCHANGED <<m_stem_mode, m_relay_destinations, owed>>
       ELSE msg' = [msg EXCEPT !.pc = "route"] /\ UNCHANGED <<managerVars, owed>>
    /\ UNCHANGED <<peer, mempoolVars, rpc, sched, reseating, announcing, inputs>>

(* The rest of it, with the nodes: a destination is found, or the transaction    *)
(* is fluffed.                                                                   *)
RouteDltx ==
    /\ msg.pc = "route" /\ NodesFree
    /\ \E r \in Routes :
        /\ m_relay_destinations' = r[1]
        /\ IF r[2] = NoPeer
           THEN /\ FluffImmediately(msg.tx, msg.from)
                /\ msg' = [msg EXCEPT !.pc = "fluff"]
                /\ UNCHANGED owed
           ELSE /\ AddStem(msg.tx, msg.from)
                /\ msg' = [msg EXCEPT !.pc = "send", !.dest = r[2]]
    /\ UNCHANGED <<peer, m_stem_mode, mempoolVars, rpc, sched, reseating,
                   announcing, inputs>>

(* ForNode looks for the destination.  A capable one is sent the transaction; for *)
(* another the callback goes on under m_nodes_mutex; one that left gives ~sent.   *)
SendDltx ==
    /\ msg.pc = "send" /\ NodesFree
    /\ msg' = CASE peer[msg.dest] = "capable" -> Idle
                [] peer[msg.dest] = "up" -> [msg EXCEPT !.pc = "cb_remove"]
                [] OTHER -> [msg EXCEPT !.pc = "remove"]
    /\ UNCHANGED <<peer, managerVars, mempoolVars, rpc, sched, reseating,
                   announcing, owed, inputs>>

(* RemoveFromStemPool, in the callback or after it. *)
RemoveDltx ==
    /\ msg.pc \in {"remove", "cb_remove"} /\ MutexFree
    /\ Erase({msg.tx})
    /\ msg' = [msg EXCEPT !.pc = IF msg.pc = "remove" THEN "fluff" ELSE "cb_fluff"]
    /\ UNCHANGED <<peer, m_stem_mode, m_relay_destinations, m_peer_state,
                   m_pending_fluff, m_stem_seen_filter, mempoolVars, rpc, sched,
                   reseating, announcing, owed, inputs>>

(* ProcessTransaction, and RelayTransaction if it is valid. *)
FluffDltx ==
    /\ msg.pc \in {"fluff", "cb_fluff"} /\ MainFree
    /\ \/ place[msg.tx] = "none" /\ AddToMempool(msg.tx)
       \/ UNCHANGED mempoolVars
    /\ owed' = owed \ {msg.tx}
    /\ msg' = Idle
    /\ UNCHANGED <<peer, managerVars, rpc, sched, reseating, announcing, inputs>>

(* A TX message is accepted and reaches ProcessValidTx, which relays it unless    *)
(* it is in the stempool.  cs_main stays locked.                                 *)
ReceiveTx(p, t) ==
    /\ Input /\ msg.pc = "idle" /\ MainFree /\ MutexFree
    /\ p \in Connected
    /\ place[t] = "none"
    /\ AddToMempool(t)
    /\ IF t \in Stemming
       THEN /\ msg' = [pc |-> "graduate", tx |-> t, refs |-> Connected]
            /\ UNCHANGED owed
       ELSE msg' = msg /\ owed' = owed \ {t}
    /\ UNCHANGED <<peer, managerVars, rpc, sched, reseating, announcing>>

(* TxAddedToMempool from ProcessValidTx: the entry is erased, and the queued      *)
(* notification is what relays the transaction.                                  *)
Graduate ==
    /\ msg.pc = "graduate" /\ MutexFree
    /\ Erase({msg.tx})
    /\ msg' = Idle
    /\ UNCHANGED <<peer, m_stem_mode, m_relay_destinations, m_peer_state,
                   m_pending_fluff, m_stem_seen_filter, mempoolVars, rpc, sched,
                   reseating, announcing, owed, inputs>>

-------------------------------------------------------------------------------
(* BroadcastTransaction, one call at a time. *)

(* The part under cs_main: the transaction is in the mempool or is accepted.  The *)
(* wallet does not wait for the notification of it.                              *)
BroadcastTransaction(t) ==
    /\ Input /\ rpc.pc = "idle" /\ MainFree
    /\ \/ place[t] = "none" /\ AddToMempool(t)
       \/ place[t] = "mempool" /\ UNCHANGED mempoolVars
    /\ rpc' = [pc |-> "accept", tx |-> t]
    /\ UNCHANGED <<peer, managerVars, msg, sched, reseating, announcing, owed>>

(* AcceptStemTransaction for the local wallet, which no epoch and no rate limit   *)
(* turns away.  What it knows already is relayed.                                *)
AcceptLocal ==
    /\ rpc.pc = "accept" /\ MutexFree
    /\ IF AlreadyKnown(rpc.tx)
       THEN rpc' = Idle /\ owed' = owed \ {rpc.tx}
       ELSE rpc' = [rpc EXCEPT !.pc = "route"] /\ UNCHANGED owed
    /\ UNCHANGED <<peer, managerVars, mempoolVars, msg, sched, reseating,
                   announcing, inputs>>

(* It finds a destination; without one the transaction is relayed. *)
RouteLocal ==
    /\ rpc.pc = "route" /\ NodesFree
    /\ \E r \in Routes :
        /\ m_relay_destinations' = r[1]
        /\ IF r[2] = NoPeer
           THEN /\ FluffImmediately(rpc.tx, NoPeer)
                /\ rpc' = Idle
                /\ owed' = owed \ {rpc.tx}
           ELSE /\ AddStem(rpc.tx, NoPeer)
                /\ rpc' = [pc |-> "send", tx |-> rpc.tx, dest |-> r[2]]
    /\ UNCHANGED <<peer, m_stem_mode, mempoolVars, msg, sched, reseating,
                   announcing, inputs>>

(* ForNode sends it to a capable destination; its callback does nothing else. *)
SendLocal ==
    /\ rpc.pc = "send" /\ NodesFree
    /\ rpc' = IF rpc.dest \in Capable THEN Idle ELSE [rpc EXCEPT !.pc = "remove"]
    /\ UNCHANGED <<peer, managerVars, mempoolVars, msg, sched, reseating,
                   announcing, owed, inputs>>

(* It could not be sent: RemoveFromStemPool and RelayTransaction. *)
RemoveLocal ==
    /\ rpc.pc = "remove" /\ MutexFree
    /\ Erase({rpc.tx})
    /\ rpc' = Idle
    /\ owed' = owed \ {rpc.tx}
    /\ UNCHANGED <<peer, m_stem_mode, m_relay_destinations, m_peer_state,
                   m_pending_fluff, m_stem_seen_filter, mempoolVars, msg, sched,
                   reseating, announcing, inputs>>

-------------------------------------------------------------------------------
(* The scheduler thread. *)

(* Mutant: m_pending_fluff is drained only when an embargo is due. *)
CheckEmbargoesDueOnly ==
    /\ sched.pc = "idle" /\ MutexFree
    /\ LET expired == {t \in Stemming : m_stempool[t].due}
       IN  /\ expired # {}
           /\ Erase(expired)
           /\ sched' = [pc |-> "fluff", to_fluff |-> expired \cup m_pending_fluff]
    /\ m_pending_fluff' = {}
    /\ UNCHANGED <<peer, m_stem_mode, m_relay_destinations, m_peer_state,
                   m_stem_seen_filter, mempoolVars, msg, rpc, reseating, announcing,
                   owed, inputs>>

(* CheckEmbargoes: the due entries and everything in m_pending_fluff.  A round    *)
(* that finds none changes nothing.                                              *)
CheckEmbargoes ==
    /\ sched.pc = "idle" /\ MutexFree
    /\ LET expired == {t \in Stemming : m_stempool[t].due}
           to_fluff == expired \cup m_pending_fluff
       IN  /\ to_fluff # {}
           /\ Erase(expired)
           /\ sched' = [pc |-> "fluff", to_fluff |-> to_fluff]
    /\ m_pending_fluff' = {}
    /\ UNCHANGED <<peer, m_stem_mode, m_relay_destinations, m_peer_state,
                   m_stem_seen_filter, mempoolVars, msg, rpc, reseating, announcing,
                   owed, inputs>>

(* One of them is in the mempool or is accepted, and is relayed; or it is        *)
(* refused.  The code relays them after the loop.                                *)
FluffExpired(t) ==
    /\ sched.pc = "fluff" /\ t \in sched.to_fluff
    /\ \/ place[t] = "mempool" /\ UNCHANGED mempoolVars
       \/ MainFree /\ place[t] = "none" /\ AddToMempool(t)
       \/ MainFree /\ place[t] # "mempool" /\ UNCHANGED mempoolVars
    /\ sched' = IF sched.to_fluff = {t} THEN Idle ELSE [sched EXCEPT !.to_fluff = @ \ {t}]
    /\ owed' = owed \ {t}
    /\ UNCHANGED <<peer, managerVars, msg, rpc, reseating, announcing, inputs>>

(* MaybeRotateEpoch, the end of a round, finds the epoch over. *)
MaybeRotateEpoch ==
    /\ Input /\ sched.pc = "idle" /\ MutexFree
    /\ sched' = [pc |-> "rotate"]
    /\ UNCHANGED <<peer, managerVars, mempoolVars, msg, rpc, reseating, announcing,
                   owed>>

RotateEpochInternal ==
    /\ sched.pc = "rotate" /\ NodesFree
    /\ m_stem_mode' \in BOOLEAN
    /\ m_relay_destinations' \in NewRelays
    /\ m_peer_state' = [p \in Peer |-> 0]
    /\ sched' = Idle
    /\ UNCHANGED <<peer, poolVars, m_pending_fluff, m_stem_seen_filter, mempoolVars,
                   msg, rpc, reseating, announcing, owed, inputs>>

-------------------------------------------------------------------------------
(* The net thread, with the two messages that change a connection. *)
Verack(p) ==
    /\ Input /\ peer[p] = "new" /\ msg.pc = "idle"
    /\ peer' = [peer EXCEPT ![p] = "up"]
    /\ UNCHANGED <<managerVars, mempoolVars, threadVars, owed>>

DandelionAcc(p) ==
    /\ Input /\ peer[p] = "up" /\ msg.pc = "idle"
    /\ peer' = [peer EXCEPT ![p] = "capable"]
    /\ UNCHANGED <<managerVars, mempoolVars, threadVars, owed>>

Disconnect(p) ==
    /\ Input /\ p \in Connected /\ NodesFree /\ ~ reseating
    /\ peer' = [peer EXCEPT ![p] = "gone"]
    /\ UNCHANGED <<managerVars, mempoolVars, threadVars, owed>>

(* FinalizeNode calls PeerDisconnected once the message handler has dropped its   *)
(* references to the nodes.  The last relay to go makes it select new ones.       *)
PeerDisconnected(p) ==
    /\ peer[p] = "gone" /\ MutexFree
    /\ msg.pc # "idle" => p \notin msg.refs
    /\ peer' = [peer EXCEPT ![p] = "final"]
    /\ m_peer_state' = [m_peer_state EXCEPT ![p] = 0]
    /\ m_relay_destinations' = m_relay_destinations \ {p}
    /\ reseating' = (m_relay_destinations = {p})
    /\ UNCHANGED <<m_stem_mode, poolVars, m_pending_fluff, m_stem_seen_filter,
                   mempoolVars, msg, rpc, sched, announcing, owed, inputs>>

ReseatRelays ==
    /\ reseating /\ NodesFree
    /\ m_relay_destinations' \in NewRelays
    /\ reseating' = FALSE
    /\ UNCHANGED <<peer, m_stem_mode, m_peer_state, poolVars, m_pending_fluff,
                   m_stem_seen_filter, mempoolVars, msg, rpc, sched, announcing,
                   owed, inputs>>

-------------------------------------------------------------------------------
(* Validation, the mempool and time. *)

(* A block with the transaction connects; its notification is queued. *)
ConnectBlock(t) ==
    /\ Input /\ MainFree /\ place[t] \in {"none", "mempool"}
    /\ place' = [place EXCEPT ![t] = "block"]
    /\ UNCHANGED <<peer, added, managerVars, threadVars, owed>>

(* The notification of a transaction the mempool has accepted calls              *)
(* RelayTransaction, whatever the stempool has.                                  *)
TransactionAddedToMempool(t) ==
    /\ sched.pc = "idle" /\ t \in added
    /\ added' = added \ {t}
    /\ owed' = owed \ {t}
    /\ UNCHANGED <<peer, managerVars, place, threadVars, inputs>>

(* BlockConnected, queued after it, removes the transaction from the stempool. *)
BlockConnected(t) ==
    /\ sched.pc = "idle" /\ place[t] = "block" /\ t \notin added /\ MutexFree
    /\ Erase({t})
    /\ owed' = owed \ ({t} \cap Stemming)
    /\ place' = [place EXCEPT ![t] = "chain"]
    /\ UNCHANGED <<peer, added, m_stem_mode, m_relay_destinations, m_peer_state,
                   m_pending_fluff, m_stem_seen_filter, threadVars, inputs>>

(* NewPoWValidBlock locks cs_main, then goes over the nodes. *)
NewPoWValidBlock ==
    /\ Input /\ ~ announcing /\ MainFree
    /\ announcing' = TRUE
    /\ UNCHANGED <<peer, managerVars, mempoolVars, msg, rpc, sched, reseating,
                   owed>>

AnnounceToNodes ==
    /\ announcing /\ NodesFree
    /\ announcing' = FALSE
    /\ UNCHANGED <<peer, managerVars, mempoolVars, msg, rpc, sched, reseating, owed,
                   inputs>>

(* The mempool evicts or replaces a transaction. *)
MempoolRemove(t) ==
    /\ Input /\ MainFree /\ place[t] = "mempool"
    /\ place' = [place EXCEPT ![t] = "none"]
    /\ UNCHANGED <<peer, added, managerVars, threadVars, owed>>

(* The rolling filter forgets a transaction after many newer ones. *)
FilterRolls(t) ==
    /\ Input /\ t \in m_stem_seen_filter /\ MutexFree
    /\ t \notin Stemming \cup m_pending_fluff
    /\ m_stem_seen_filter' = m_stem_seen_filter \ {t}
    /\ UNCHANGED <<peer, m_stem_mode, m_relay_destinations, m_peer_state, poolVars,
                   m_pending_fluff, mempoolVars, threadVars, owed>>

(* The clock passes the embargo_deadline of an entry. *)
EmbargoExpires(t) ==
    /\ t \in Stemming /\ ~ m_stempool[t].due
    /\ m_stempool' = [m_stempool EXCEPT ![t].due = TRUE]
    /\ UNCHANGED <<peer, m_stem_mode, m_relay_destinations, m_peer_state,
                   m_stempool_bytes, m_pending_fluff, m_stem_seen_filter,
                   mempoolVars, threadVars, owed, inputs>>

-------------------------------------------------------------------------------
(* What the threads do by themselves once they have work. *)
Internal ==
    \/ AcceptDltx \/ RouteDltx \/ SendDltx \/ RemoveDltx \/ FluffDltx \/ Graduate
    \/ AcceptLocal \/ RouteLocal \/ SendLocal \/ RemoveLocal
    \/ CheckEmbargoes \/ RotateEpochInternal \/ ReseatRelays \/ AnnounceToNodes
    \/ \E t \in Tx : FluffExpired(t) \/ EmbargoExpires(t)
                      \/ TransactionAddedToMempool(t) \/ BlockConnected(t)
    \/ \E p \in Peer : PeerDisconnected(p)

Next ==
    \/ Internal
    \/ \E p \in Peer, t \in Tx : ReceiveDltx(p, t) \/ ReceiveTx(p, t)
    \/ \E p \in Peer : Verack(p) \/ DandelionAcc(p) \/ Disconnect(p)
    \/ \E t \in LocalTx : BroadcastTransaction(t)
    \/ \E t \in Tx : ConnectBlock(t) \/ MempoolRemove(t) \/ FilterRolls(t)
    \/ MaybeRotateEpoch \/ NewPoWValidBlock

Spec == Init /\ [][Next]_vars

(* Threads run: as long as one can take a step, one of them does, and time        *)
(* reaches every deadline.  No thread can go on for ever without inputs, so this  *)
(* lets each of them finish.  Nothing is assumed of peers, users or blocks.       *)
FairSpec == Spec /\ WF_vars(Internal)

-------------------------------------------------------------------------------
(* The lock a thread waits for while it holds another. *)
WantsNodes(th) == HoldsMutex(th) \/ (th = "valid" /\ announcing)
WantsMutex(th) == th = "msg" /\ msg.pc \in {"cb_remove", "graduate"}
WantsMain(th) == th = "msg" /\ msg.pc = "cb_fluff"

(* cs_main is locked before m_nodes_mutex, and a callback that runs under         *)
(* m_nodes_mutex does not lock cs_main ("Never nest cs_main inside ForEachNode/    *)
(* ForNode", net_processing.cpp): no thread holds the nodes and waits for cs_main  *)
(* while the one that holds cs_main waits for the nodes.                         *)
MainBeforeNodes ==
    ~ \E a, b \in Threads : /\ HoldsNodes(a) /\ WantsMain(a)
                           /\ HoldsMain(b) /\ WantsNodes(b)

(* Two threads wait for each other, over cs_main or over m_mutex. *)
CircularWait ==
    \E a, b \in Threads :
        /\ HoldsNodes(a) /\ WantsNodes(b)
        /\ (WantsMain(a) /\ HoldsMain(b)) \/ (WantsMutex(a) /\ HoldsMutex(b))

(* The hands a stemmed transaction can be in. *)
Held(t) ==
    \/ t \in Stemming \cup m_pending_fluff \cup added
    \/ sched.pc = "fluff" /\ t \in sched.to_fluff
    \/ msg.pc \in {"fluff", "cb_fluff"} /\ msg.tx = t

(* A transaction AcceptStemTransaction has accepted stays in somebody's hands     *)
(* until it is relayed, refused by the mempool, confirmed, or dropped because      *)
(* m_pending_fluff is full: eviction, expiry, a relay that left, a TX message that *)
(* brings it and their races never lose it silently.                             *)
StemNotLost == \A t \in Tx : t \in owed => Held(t)

(* The accounting of the stempool: none of its transactions also waits in          *)
(* m_pending_fluff, m_stempool_bytes is the sum of the sizes, and size, bytes and  *)
(* m_pending_fluff keep to their limits.                                         *)
StempoolConsistent ==
    /\ Stemming \cap m_pending_fluff = {}
    /\ m_stempool_bytes = Bytes(Stemming)
    /\ m_stempool_bytes <= MAX_STEMPOOL_BYTES
    /\ Cardinality(Stemming) <= MAX_STEMPOOL_SIZE
    /\ Cardinality(m_pending_fluff) <= MAX_STEMPOOL_SIZE

(* Unless the threads lock each other out, a stem phase ends: the embargo or an   *)
(* eviction brings every stemmed transaction to one of its fates.                 *)
StemEnds == \A t \in Tx : []<>(t \notin owed \/ CircularWait)
===============================================================================
