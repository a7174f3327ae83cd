----------------------------- MODULE MCNode ---------------------------------
(* Two senders: alice with two transactions of nonce 0 (a0, x0) or one each    *)
(* of nonce 0 and 1 (a0, a1), bob with one.  a0, b0 and x0 expect the same      *)
(* state at its first version, x0 without touching it, as the code allows; a1   *)
(* expects the version a0 leaves; b0 touches another state, of which it expects *)
(* no version.  One node has the two of nonce 0 and full syncs, one the two     *)
(* nonces and one place per list of a state, one the ring, one the tracker and  *)
(* one the indexer and the logs; of these a1 emits more than is allowed.        *)
EXTENDS EventLogs, TLC

CONSTANTS a0, x0, a1, b0, alice, bob, state, other, key, topic

Node(txs, perSender, perState, with, blocks) ==
    [txs |-> txs, perSender |-> perSender, perState |-> perState, with |-> with, blocks |-> blocks]
MCNodes == {Node({a0, x0, b0}, 1, 3, {"clients", "orphans", "sync"}, 2),
            Node({a0, a1, b0}, 2, 1, {"clients", "orphans"}, 2),
            Node({a0, x0, b0}, 1, 2, {"ring"}, 2),
            Node({a0, b0}, 1, 2, {"clients", "tracker"}, 2),
            Node({a0, a1, b0}, 2, 1, {"indexer", "logs"}, 3)}

MCSender == [t \in {a0, x0, a1, b0} |-> IF t = b0 THEN bob ELSE alice]
MCNonce == [t \in {a0, x0, a1, b0} |-> IF t = a1 THEN 1 ELSE 0]
MCExpected == [t \in {a0, x0, a1, b0} |-> IF t = a1 THEN state :> a0 ELSE state :> Initial]
MCTouches == [t \in {a0, x0, a1, b0} |-> CASE t = x0 -> {} [] t = b0 -> {state, other} [] OTHER -> {state}]
MCEmits == [t \in {a0, x0, a1, b0} |-> CASE t = a0 -> <<{key, topic}, {key}>>
                            [] t = a1 -> <<{key}, {key}, {topic}>> [] OTHER -> <<{key, topic}>>]
MCKDepth == [t \in {a0, x0, a1, b0} |-> 1]
MCRequiredTier == [t \in {a0, x0, a1, b0} |-> IF t = a0 THEN INCLUDED ELSE K_DEPTH]
=============================================================================
