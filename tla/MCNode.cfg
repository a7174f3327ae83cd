CONSTANTS
    a0 = a0 x0 = x0 a1 = a1 b0 = b0
    alice = alice bob = bob state = state other = other key = key topic = topic
    Txs = {a0, x0, a1, b0}
    Senders = {alice, bob}
    States = {state, other}
    Sender <- MCSender
    Nonce <- MCNonce
    Touches <- MCTouches
    Expects <- MCExpected
    NoVersion = noVersion
    Lock = {a0}
    Initial = init
    MaxPool = 2
    MaxReorgDepth = 2
    MaxOrphans = 1
    MaxBlockTxs = 2
    Nodes <- MCNodes
    RingSize = 2
    QueueDepth = 2
    QueryLimit = 2
    KDepth <- MCKDepth
    RequiredTier <- MCRequiredTier
    MaxIndexedTxs = 2
    MaxStateChanges = 2
    Labels = {key, topic}
    Emits <- MCEmits
    MaxEventsPerTx = 2
SPECIFICATION ListenersSpec
CHECK_DEADLOCK FALSE
INVARIANTS NodeIndexesAgree PreflightForesees ListenersTellTheChain
PROPERTIES NodeFollowsChain
