----------------------------- MODULE EventStream -----------------------------
(***************************************************************************)
(* The event stream of the node (src/events/sse.service.ts): events are     *)
(* broadcast to the clients whose filter they match, and kept for a while so *)
(* that a client which comes back names the last event it has and is sent   *)
(* those after it.  A write may be refused, and the event waits in the       *)
(* client's buffer for the next heartbeat, or it may throw, and the client is *)
(* removed.  An event stands for its id, which is its place in tape.        *)
(***************************************************************************)
EXTENDS Naturals, SequencesExt, FiniteSetsExt, Filters

CONSTANTS
    Clients,                \* the ids clients are given, any that is free
    Ips, EventFilters,      \* a filter has a set of types (empty: all) and sets addr and
                            \* txId of at most one
    Events,                 \* what is broadcast: [type, from, txId]
    MaxClientsPerIp, MaxTotalClients, MaxBufferSize,        \* of SSEConfig
    MaxLoad, MaxTimers      \* bounds: events broadcast and twice the clients; intervals

ASSUME StreamAssumption ==
    /\ MaxBufferSize \in Nat \ {0}
    /\ {MaxClientsPerIp, MaxTotalClients, MaxLoad, MaxTimers} \subseteq Nat

VARIABLES
    clients,    \* SSEService.clients: id -> client
    byIp,       \* clientsByIp
    tape,       \* history: every event broadcast
    expired,    \* recentEvents holds those after the first so many
    timers,     \* the intervals started and not cleared
    held        \* whether heartbeatInterval refers to one of them

stream == <<clients, byIp, tape, expired, timers, held>>

Load == Len(tape) + 2 * Cardinality(DOMAIN clients)
Retained == {n \in DOMAIN tape : n > expired}

StreamInit ==
    /\ clients = [c \in {} |-> 0] /\ byIp = [ip \in Ips |-> {}]
    /\ tape = <<>> /\ expired = 0 /\ timers = 0 /\ held = FALSE

-----------------------------------------------------------------------------
MatchesFilter(e, f) ==
    /\ f.types = {} \/ e.type \in f.types
    /\ \A a \in f.addr : e.from = a
    /\ \A t \in f.txId : e.txId = t

\* What the socket answers to a write.
Answers == {"sent", "refused", "throws"}
Failures == Answers \ {"sent"}

\* An SSEClient, and what the properties remember of it: `due`, the event after which
\* it is owed everything, what it got (each event where it first arrived; `again`
\* when one arrived twice), and whether it was refused or its buffer overflowed.
NewClient(ip, f, due) ==
    [ip |-> ip, filter |-> f, buffer |-> <<>>, due |-> due, got |-> <<>>,
     again |-> FALSE, refused |-> FALSE, overflow |-> FALSE, removed |-> FALSE]

Buffered(c, n) ==
    IF Len(c.buffer) < MaxBufferSize THEN [c EXCEPT !.buffer = Append(@, n)]
    ELSE [c EXCEPT !.buffer = Append(Tail(@), n), !.overflow = TRUE]

\* sendToClient.  A client that was removed is written to all the same.
SendToClient(c, n, answer) ==
    CASE answer = "sent"    -> IF Contains(c.got, n) THEN [c EXCEPT !.again = TRUE]
                               ELSE [c EXCEPT !.got = Append(@, n)]
      [] answer = "refused" -> [Buffered(c, n) EXCEPT !.refused = TRUE]
      [] answer = "throws"  -> [c EXCEPT !.removed = TRUE]

\* The socket takes `room` writes and answers `after` to the others until the call ends.
SendNth(c, ids, i, room, after) == SendToClient(c, ids[i], IF i <= room THEN "sent" ELSE after)
Sends(c, ids, room, after) ==
    FoldLeft(LAMBDA d, i : SendNth(d, ids, i, room, after), c, [i \in DOMAIN ids |-> i])

\* The calls end with these clients: those whose writes threw went through removeClient.
\* `listed` is clientsByIp before that.
CallsEnd(all, listed) ==
    LET gone == {c \in DOMAIN all : all[c].removed} IN
    /\ clients' = [c \in DOMAIN all \ gone |-> all[c]]
    /\ byIp' = [ip \in Ips |-> listed[ip] \ {c \in gone : all[c].ip = ip}]

-----------------------------------------------------------------------------
Broadcast(e) ==
    /\ Load + 1 <= MaxLoad
    /\ tape' = Append(tape, e)
    /\ \E answer \in [{c \in DOMAIN clients : MatchesFilter(e, clients[c].filter)} -> Answers] :
          CallsEnd([c \in DOMAIN clients |->
                      IF c \in DOMAIN answer THEN SendToClient(clients[c], Len(tape'), answer[c]) ELSE clients[c]], byIp)
    /\ UNCHANGED <<expired, timers, held>>

\* The events with these ids, in the order they were broadcast.
Sequenced(ids) == Filtered([n \in DOMAIN tape |-> n], ids)

\* (bug) the event that is named is sent again
ReplayBug(f, last) ==
    IF last \in Retained THEN Sequenced({n \in Retained : n >= last /\ MatchesFilter(tape[n], f)}) ELSE <<>>
\* replayEvents: the events after the one named, if it is still kept.
Replay(f, last) ==
    IF last \in Retained THEN Sequenced({n \in Retained : n > last /\ MatchesFilter(tape[n], f)}) ELSE <<>>

\* addClient; last = 0 is a client that names no event.
AddClient(ip, f, last) ==
    /\ Clients \ DOMAIN clients # {} /\ Load + 2 <= MaxLoad
    /\ Cardinality(DOMAIN clients) < MaxTotalClients /\ Cardinality(byIp[ip]) < MaxClientsPerIp
    /\ LET id == CHOOSE i \in Clients : i \notin DOMAIN clients
           ids == Replay(f, last)
           new == NewClient(ip, f, IF last \in Retained THEN last ELSE Len(tape))
       IN  \E room \in 0..Len(ids), after \in Failures :
              CallsEnd([c \in DOMAIN clients \cup {id} |->
                          IF c = id THEN Sends(new, ids, room, after) ELSE clients[c]],
                       [byIp EXCEPT ![ip] = @ \cup {id}])
    /\ UNCHANGED <<tape, expired, timers, held>>

\* removeClient, when the connection ends.
RemoveClient(id) ==
    /\ id \in DOMAIN clients
    /\ CallsEnd([clients EXCEPT ![id].removed = TRUE], byIp)
    /\ UNCHANGED <<tape, expired, timers, held>>

\* (bug) an event leaves the buffer before it is sent
FlushedBug(c, room, after) ==
    LET rest == SubSeq(c.buffer, room + 1, Len(c.buffer))
        sent == Sends([c EXCEPT !.buffer = rest], SubSeq(c.buffer, 1, room), room, after)
    IN  IF rest = <<>> THEN sent
        ELSE [SendToClient(sent, Head(rest), after) EXCEPT !.buffer = Tail(rest)]
\* The loop of sendHeartbeat: the first write that is refused ends it, and its event
\* is then in the buffer twice.
Flushed(c, room, after) ==
    LET rest == SubSeq(c.buffer, room + 1, Len(c.buffer))
        sent == Sends([c EXCEPT !.buffer = rest], SubSeq(c.buffer, 1, room), room, after)
    IN  IF rest = <<>> THEN sent ELSE SendToClient(sent, Head(rest), after)

\* The heartbeat itself may throw; whether it is refused is not looked at.
Beats(c) ==
    {[c EXCEPT !.removed = TRUE]}
        \cup {Flushed(c, room, after) : room \in 0..Len(c.buffer), after \in Failures}

\* The interval: sendHeartbeat to each client, then cleanupOldEvents.
Heartbeat ==
    /\ timers > 0
    /\ LET beats == [c \in DOMAIN clients |-> Beats(clients[c])]
       IN  \E all \in [DOMAIN clients -> UNION Range(beats)] :
              (\A c \in DOMAIN clients : all[c] \in beats[c]) /\ CallsEnd(all, byIp)
    /\ expired' \in expired..Len(tape)
    /\ UNCHANGED <<tape, timers, held>>

\* start keeps no interval from running twice, and stop clears the last one.
StartStream ==
    /\ timers < MaxTimers
    /\ timers' = timers + 1 /\ held' = TRUE
    /\ UNCHANGED <<clients, byIp, tape, expired>>

StopStream ==
    /\ held \/ DOMAIN clients # {}
    /\ timers' = IF held THEN timers - 1 ELSE timers
    /\ held' = FALSE
    /\ clients' = [c \in {} |-> 0] /\ byIp' = [ip \in Ips |-> {}]
    /\ UNCHANGED <<tape, expired>>

StreamNext ==
    \/ \E e \in Events : Broadcast(e)
    \/ \E ip \in Ips, f \in EventFilters, last \in 0..Len(tape) : AddClient(ip, f, last)
    \/ \E id \in Clients : RemoveClient(id)
    \/ Heartbeat \/ StartStream \/ StopStream

StreamSpec == StreamInit /\ [][StreamNext]_stream

-----------------------------------------------------------------------------
(* Properties.                                                             *)

Owed(c) == {n \in DOMAIN tape : n > c.due /\ MatchesFilter(tape[n], c.filter)}
Has(c) == ToSet(c.got) \cup ToSet(c.buffer)

\* Both maps tell the same clients, within their limits.
ClientsAgree ==
    /\ \A ip \in Ips : byIp[ip] = {c \in DOMAIN clients : clients[c].ip = ip} /\ Cardinality(byIp[ip]) <= MaxClientsPerIp
    /\ Cardinality(DOMAIN clients) <= MaxTotalClients
    /\ \A c \in DOMAIN clients : Len(clients[c].buffer) <= MaxBufferSize

\* A client that named an event still kept, or none, has every event it asked for since,
\* once and in order, as long as no write to it was refused; after that each of
\* them reached it or waits in its buffer, unless an overflow was reported, whatever was
\* broadcast, flushed in part, replayed or expired in between (broadcast,
\* replayEvents, sendHeartbeat).
StreamIsWhole ==
    /\ ClientsAgree
    /\ \A id \in DOMAIN clients : LET c == clients[id] IN
          /\ ~ c.refused => c.got = Sequenced(Owed(c)) /\ c.buffer = <<>> /\ ~ c.again
          /\ ~ c.overflow => Owed(c) \subseteq Has(c)
          /\ Has(c) \subseteq Owed(c)
=============================================================================
