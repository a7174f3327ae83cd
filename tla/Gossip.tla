-------------------------------- MODULE Gossip --------------------------------
(***************************************************************************)
(* The gossip of transactions and instruction names: P2PService, its       *)
(* peers, and the handlers the unified runner registers with it, which put *)
(* a transaction into the mempool.  A socket delivers chunks of several    *)
(* messages; those of a chunk are handled in one go, message by message    *)
(* here (reading), and nothing else runs between two of them.  A handler   *)
(* of an item awaits, and other messages are handled meanwhile.            *)
(***************************************************************************)
EXTENDS Naturals, FiniteSets, Sequences

CONSTANTS
    Conns,          \* connections; each is accepted once, under an id of its own
    Items,          \* ids of transactions and names
    Txs,            \* the items that are transactions
    Hooked,         \* the items whose kind has a handler
    MaxChunk,       \* bound: messages in a chunk
    MaxChunks,      \* bound: chunks of a connection
    NoConn          \* no connection is being read

ASSUME GossipAssumption ==
    /\ Hooked \subseteq Items /\ Txs \subseteq Items /\ NoConn \notin Conns
    /\ MaxChunk \in Nat \ {0} /\ MaxChunks \in Nat

Messages == [type : {"HELLO", "OTHER", "INVALID"}] \cup [type : {"INV"}, ids : SUBSET Items \ {{}}]
              \cup [type : {"DATA"}, id : Items]

VARIABLES
    service,    \* is the service up, and the connections stop did not disconnect
    conn,       \* of each connection: its socket, was there a hello, chunks left
    list,       \* P2PService.peers
    reading,    \* the chunk being handled and its connection
    saw,        \* seenTxs and seenIns
    awaited,    \* handlers that were called and whose relay is still to come
    held,       \* transactions in the mempool
    requested,  \* the items each connection was asked for
    told,       \* of each connection and item: times announced by relay, and by the pool
    source,     \* of each item: the connections it was taken from
    settled     \* items that were relayed

pubVars == <<held, told, settled>>
gossipVars == <<service, conn, list, reading, saw, awaited, requested, source, pubVars>>

Idle == [conn |-> NoConn, left |-> <<>>]
NotUp == {"closed", "none"}

GossipTypeOK ==
    /\ service \in [at : {"up", "closing", "stopped", "crashed"}, spared : SUBSET Conns]
    /\ conn \in [Conns -> [at : {"none", "open", "destroyed", "closed"}, hello : BOOLEAN, chunks : 0..MaxChunks]]
    /\ list \subseteq Conns /\ reading.conn \in Conns \cup {NoConn}
    /\ \A i \in DOMAIN reading.left : reading.left[i] \in Messages
    /\ saw \subseteq Items /\ awaited \subseteq Conns \X Items \X {"called", "done"}
    /\ held \subseteq Txs /\ settled \subseteq Items /\ requested \subseteq Conns \X Items
    /\ \A c \in Conns, i \in Items : {told[c][i].relay, told[c][i].pool} \subseteq Nat
    /\ \A i \in Items : source[i] \in Seq(Conns)

GossipInit ==
    /\ service = [at |-> "up", spared |-> {}]
    /\ conn = [c \in Conns |-> [at |-> "none", hello |-> FALSE, chunks |-> MaxChunks]]
    /\ list = {} /\ reading = Idle /\ saw = {} /\ awaited = {} /\ held = {} /\ requested = {}
    /\ told = [c \in Conns |-> [i \in Items |-> [relay |-> 0, pool |-> 0]]]
    /\ source = [i \in Items |-> <<>>] /\ settled = {}

Free == reading = Idle /\ service.at # "crashed"

-----------------------------------------------------------------------------
(* Connections come while the server listens, and end by either side.       *)
Accept(c) ==
    /\ Free /\ service.at = "up" /\ conn[c].at = "none"
    /\ conn' = [conn EXCEPT ![c].at = "open"]
    /\ UNCHANGED <<service, list, reading, saw, awaited, requested, source, pubVars>>

CloseBug(c) ==    \* the peer stays listed
    /\ Free /\ conn[c].at \in {"open", "destroyed"}
    /\ conn' = [conn EXCEPT ![c].at = "closed"]
    /\ UNCHANGED <<service, list, reading, saw, awaited, requested, source, pubVars>>
Close(c) ==
    /\ Free /\ conn[c].at \in {"open", "destroyed"}
    /\ conn' = [conn EXCEPT ![c].at = "closed"]
    /\ list' = list \ {c}
    /\ UNCHANGED <<service, reading, saw, awaited, requested, source, pubVars>>

(* stop disconnects the listed peers; the server is closed once the last    *)
(* connection is.                                                          *)
StopBug ==    \* forgets the peers before it disconnects them
    /\ Free /\ service.at = "up"
    /\ service' = [at |-> "closing", spared |-> {c \in Conns \ list : conn[c].at = "open"}]
    /\ list' = {}
    /\ UNCHANGED <<conn, reading, saw, awaited, requested, source, pubVars>>
StopService ==
    /\ Free /\ service.at = "up"
    /\ service' = [at |-> "closing", spared |-> {c \in Conns \ list : conn[c].at = "open"}]
    /\ conn' = [c \in Conns |-> IF c \in list THEN [conn[c] EXCEPT !.at = "destroyed"] ELSE conn[c]]
    /\ UNCHANGED <<list, reading, saw, awaited, requested, source, pubVars>>
ServerClosed ==
    /\ Free /\ service.at = "closing" /\ \A c \in Conns : conn[c].at \in NotUp
    /\ service' = [service EXCEPT !.at = "stopped"]
    /\ UNCHANGED <<conn, list, reading, saw, awaited, requested, source, pubVars>>

-----------------------------------------------------------------------------
(* A chunk arrives, and its messages are taken one after the other.         *)
Receive(c) ==
    /\ Free /\ conn[c].at = "open" /\ conn[c].chunks > 0
    /\ conn' = [conn EXCEPT ![c].chunks = @ - 1]
    /\ \E n \in 1..MaxChunk : \E ms \in [1..n -> Messages] : reading' = [conn |-> c, left |-> ms]
    /\ UNCHANGED <<service, list, saw, awaited, requested, source, pubVars>>

Taken == IF Len(reading.left) = 1 THEN Idle ELSE [reading EXCEPT !.left = Tail(@)]
Reads(c, type) == reading.conn = c /\ Head(reading.left).type = type
Destroyed(c) == conn' = [conn EXCEPT ![c].at = "destroyed"]

(* A message over the limits of RateLimiter, or one that cannot be decoded,  *)
(* ends the connection and the reading of the chunk.                       *)
Refuse(c) ==
    /\ reading.conn = c
    /\ Destroyed(c) /\ reading' = Idle
    /\ UNCHANGED <<service, list, saw, awaited, requested, source, pubVars>>

(* The handshake lists the peer, also one that was destroyed by an earlier  *)
(* message of the chunk.                                                   *)
Hello(c) ==
    /\ Reads(c, "HELLO")
    /\ conn' = [conn EXCEPT ![c].hello = TRUE] /\ list' = list \cup {c}
    /\ reading' = Taken
    /\ UNCHANGED <<service, saw, awaited, requested, source, pubVars>>

(* Any other message before it destroys the socket; the chunk is read on.    *)
Early(c) ==
    /\ reading.conn = c /\ Head(reading.left).type \notin {"HELLO", "INVALID"} /\ ~conn[c].hello
    /\ Destroyed(c) /\ reading' = Taken
    /\ UNCHANGED <<service, list, saw, awaited, requested, source, pubVars>>

(* Pings, requests and kinds nobody handles: handleGetData serves nothing.   *)
Other(c) ==
    /\ Reads(c, "OTHER") /\ conn[c].hello
    /\ reading' = Taken
    /\ UNCHANGED <<service, conn, list, saw, awaited, requested, source, pubVars>>

(* handleInv asks for what was not seen, whoever was asked for it before.    *)
Inv(c) ==
    /\ Reads(c, "INV") /\ conn[c].hello
    /\ requested' = requested \cup {c} \X (Head(reading.left).ids \ saw)
    /\ reading' = Taken
    /\ UNCHANGED <<service, conn, list, saw, awaited, source, pubVars>>

(* broadcast writes to the listed peers whose socket is not destroyed.       *)
Broadcast(i, why, but) ==
    told' = [c \in Conns |-> IF c \in list /\ c # but /\ conn[c].at = "open"
                             THEN [told[c] EXCEPT ![i][why] = @ + 1] ELSE told[c]]
RelayBug(i, from) == Broadcast(i, "relay", NoConn) /\ settled' = settled \cup {i}    \* to all
Relay(i, from) == Broadcast(i, "relay", from) /\ settled' = settled \cup {i}

(* handleData up to the await of the handler; without a handler it relays.   *)
DataBug(c) ==    \* does not mark the item before it awaits the handler
    /\ Reads(c, "DATA") /\ conn[c].hello
    /\ LET i == Head(reading.left).id IN
       \/ i \in saw /\ UNCHANGED <<awaited, source>>
       \/ i \notin saw /\ awaited' = awaited \cup {<<c, i, "called">>} /\ source' = [source EXCEPT ![i] = Append(@, c)]
    /\ reading' = Taken
    /\ UNCHANGED <<service, conn, list, saw, requested, pubVars>>
Data(c) ==
    /\ Reads(c, "DATA") /\ conn[c].hello
    /\ LET i == Head(reading.left).id IN
       \/ i \in saw /\ UNCHANGED <<saw, awaited, source, pubVars>>
       \/ /\ i \notin saw /\ saw' = saw \cup {i}
          /\ source' = [source EXCEPT ![i] = Append(@, c)]
          /\ \/ i \in Hooked /\ awaited' = awaited \cup {<<c, i, "called">>} /\ UNCHANGED pubVars
             \/ i \notin Hooked /\ Relay(i, c) /\ UNCHANGED <<awaited, held>>
    /\ reading' = Taken
    /\ UNCHANGED <<service, conn, list, requested>>

-----------------------------------------------------------------------------
(* MempoolService.submit announces a transaction it takes to every listed    *)
(* peer.  What a client submits is not marked as seen.                      *)
PutIntoPool(i) == i \in Txs \ held /\ held' = held \cup {i} /\ Broadcast(i, "pool", NoConn)

SubmitLocally(i) ==
    /\ Free /\ PutIntoPool(i)
    /\ UNCHANGED <<service, conn, list, reading, saw, awaited, requested, source, settled>>

(* The handler of a transaction submits it, and goes on in the same way when *)
(* the mempool does not take it; that of a name changes nothing here.       *)
HandlerRuns(c, i) ==
    /\ Free /\ <<c, i, "called">> \in awaited
    /\ awaited' = (awaited \ {<<c, i, "called">>}) \cup {<<c, i, "done">>}
    /\ PutIntoPool(i) \/ UNCHANGED <<held, told>>
    /\ UNCHANGED <<service, conn, list, reading, saw, requested, source, settled>>
HandlerReturns(c, i) ==
    /\ Free /\ <<c, i, "done">> \in awaited
    /\ awaited' = awaited \ {<<c, i, "done">>}
    /\ Relay(i, c)
    /\ UNCHANGED <<service, conn, list, reading, saw, requested, source, held>>

(* A handler that throws: nobody handles the rejection, which ends the       *)
(* process.                                                                *)
HandlerThrows(c, i) ==
    /\ Free /\ <<c, i, "called">> \in awaited
    /\ service' = [service EXCEPT !.at = "crashed"]
    /\ UNCHANGED <<conn, list, reading, saw, awaited, requested, source, pubVars>>

Handle(c) == Refuse(c) \/ Hello(c) \/ Early(c) \/ Other(c) \/ Inv(c) \/ Data(c)
Handler(c, i) == HandlerRuns(c, i) \/ HandlerReturns(c, i) \/ HandlerThrows(c, i)
GossipNext ==
    \/ StopService \/ ServerClosed
    \/ \E c \in Conns : Accept(c) \/ Close(c) \/ Receive(c) \/ Handle(c)
    \/ \E i \in Items : SubmitLocally(i) \/ \E c \in Conns : Handler(c, i)

(* What Node.js and the handlers owe: a chunk is read to its end, a socket   *)
(* that was destroyed reports its close, a server without connections its   *)
(* own, and the awaits of a handler return or throw.  Peers owe nothing.     *)
GossipFairness ==
    /\ WF_gossipVars(ServerClosed)
    /\ \A c \in Conns : /\ WF_gossipVars(Handle(c))
                        /\ WF_gossipVars(conn[c].at = "destroyed" /\ Close(c))
                        /\ \A i \in Items : WF_gossipVars(Handler(c, i))
GossipSpec == GossipInit /\ [][GossipNext]_gossipVars /\ GossipFairness

-----------------------------------------------------------------------------
(* However many peers send an item, while its handler is awaited or later,   *)
(* it is taken once, announced at most once by the relay and once by the    *)
(* mempool to any peer, and not relayed to the peer it was taken from; and   *)
(* who is listed said hello and has not closed (handleData, broadcast,      *)
(* handleConnection: "duplicate suppression", "gossip once").               *)
GossipOnce ==
    /\ GossipTypeOK
    /\ \A i \in Items :
         /\ Len(source[i]) = IF i \in saw THEN 1 ELSE 0
         /\ \A c \in Conns : /\ told[c][i].relay <= 1 /\ told[c][i].pool <= 1
                             /\ \A k \in DOMAIN source[i] : told[source[i][k]][i].relay = 0
    /\ \A c \in list : conn[c].hello /\ conn[c].at \in {"open", "destroyed"}

(* An item that was marked as seen is relayed in the end, and stop returns   *)
(* unless it was called with a connection open that had not said hello:     *)
(* such a one is never disconnected (handleData, stop).                     *)
GossipSettles ==
    /\ \A i \in Items : i \in saw ~> i \in settled \/ service.at = "crashed"
    /\ service.at = "closing" /\ service.spared = {} ~> service.at \in {"stopped", "crashed"}
=============================================================================
