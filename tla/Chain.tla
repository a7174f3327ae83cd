------------------------------- MODULE Chain -------------------------------
(***************************************************************************)
(* Block validation and fork choice: BlockValidator.validateBlock over     *)
(* ChainStore and ForkChoice (src/src/chain).                              *)
(*                                                                         *)
(* validateBlock is an async function whose every call of the store is an  *)
(* await, so several calls may be in flight and interleave at the awaits:  *)
(* a validator is one call in flight and an action is what runs between    *)
(* two awaits that another call can tell apart.  Validators with one       *)
(* element is a node that validates one block at a time.                   *)
(*                                                                         *)
(* The blocks on offer are a constant tree.  The state that programs read  *)
(* and write is one cell, and what matters of it is which block wrote it   *)
(* last: a block of kind "read" commits in its header to effects computed  *)
(* from the value its own branch left, so its effectsRoot is right only    *)
(* when it is executed on that value.                                      *)
(***************************************************************************)
EXTENDS Integers, FiniteSets

CONSTANTS
    Validators, \* calls of validateBlock that may be in flight together
    Blocks,     \* every block that may be offered, Genesis included
    Genesis,    \* the block initGenesis stores
    Zero,       \* the parentHash of a block without a parent
    Parent,     \* header.parentHash
    Height,     \* header.height
    Work,       \* computeWork(header.target)
    Time,       \* header.time
    Mined,      \* blocks whose hash meets their target
    Kind,       \* "empty", "write", "read" or "bad": what its program does
    Window,     \* how many recent headers the median time is taken of (11)
    NoBlock     \* no call in flight

ASSUME TreeAssumption ==
    /\ Genesis \in Blocks /\ Zero \notin Blocks
    /\ Parent \in [Blocks -> Blocks \cup {Zero}]
    /\ Parent[Genesis] = Zero
ASSUME HeaderAssumption ==
    /\ Height \in [Blocks -> Nat]
    /\ Work \in [Blocks -> Nat]
    /\ Time \in [Blocks -> Nat]
    /\ Mined \subseteq Blocks
    /\ Kind \in [Blocks -> {"empty", "write", "read", "bad"}]
    /\ Window \in Nat \ {0}
    /\ NoBlock \notin Blocks

VARIABLES
    headers,    \* hashes with a stored header
    metas,      \* hash -> chainwork
    index,      \* height -> hash
    tip,        \* the stored tip
    cell,       \* deps.stateStore: the block that wrote last
    job         \* validator -> the call in flight

vars == <<headers, metas, index, tip, cell, job>>

Idle == [pc |-> "idle", block |-> NoBlock, seen |-> Genesis, total |-> 0, rival |-> Genesis]

Put(f, x, y) == [z \in DOMAIN f \cup {x} |-> IF z = x THEN y ELSE f[z]]

Init ==
    /\ headers = {Genesis}
    /\ metas = [b \in {Genesis} |-> 0]
    /\ index = [h \in {Height[Genesis]} |-> Genesis]
    /\ tip = Genesis
    /\ cell = Genesis
    /\ job = [v \in Validators |-> Idle]

Goto(v, pc) == job' = [job EXCEPT ![v].pc = pc]
Return(v) == job' = [job EXCEPT ![v] = Idle]

-----------------------------------------------------------------------------
(* validateBlock, from await to await.                                     *)

HeaderOK(b) ==
    /\ Parent[b] \in headers \/ Parent[b] = Zero
    /\ Parent[b] \in headers => Height[b] = Height[Parent[b]] + 1
    /\ b \in Mined

\* validateBlock is called and the header's parent, height and proof of work
\* pass.  A header that fails is refused without a trace, which is no step.
Offer(v, b) ==
    /\ job[v].pc = "idle"
    /\ HeaderOK(b)
    /\ job' = [job EXCEPT ![v] = [Idle EXCEPT !.pc = "time", !.block = b]]
    /\ UNCHANGED <<headers, metas, index, tip, cell>>

\* getRecentHeaders, the walk along parentHash: b and its ancestors.
Recent(b) ==
    LET Up[n \in 0..(Window - 1)] ==
            IF n = 0 THEN b
            ELSE IF Up[n-1] \in headers THEN Parent[Up[n-1]] ELSE Zero
    IN  {Up[n] : n \in 0..(Window - 1)} \cap headers

\* getMedianTimePast: element n \div 2, counted from 0, of the sorted times.
MedianTime(recent) ==
    LET mid == Cardinality(recent) \div 2
        Below(t) == Cardinality({b \in recent : Time[b] < t})
        UpTo(t) == Cardinality({b \in recent : Time[b] <= t})
    IN  CHOOSE t \in {Time[b] : b \in recent} : Below(t) <= mid /\ mid < UpTo(t)

\* validateBlockTime.  The median is that of the tip's branch, whichever
\* branch the block is on.
CheckTime(v) ==
    /\ job[v].pc = "time"
    /\ IF Time[job[v].block] >= MedianTime(Recent(tip)) THEN Goto(v, "read") ELSE Return(v)
    /\ UNCHANGED <<headers, metas, index, tip, cell>>

\* The program's getState calls.
Read(v) ==
    /\ job[v].pc = "read"
    /\ job' = [job EXCEPT ![v].pc = "write", ![v].seen = cell]
    /\ UNCHANGED <<headers, metas, index, tip, cell>>

Writes(b) == Kind[b] # "empty"

\* The last writer on the branch that ends in b: what a program in a block on
\* top of b reads if only that branch was executed.
LastWriter[b \in Blocks] ==
    IF b = Genesis \/ Writes(b) \/ Parent[b] = Zero THEN b ELSE LastWriter[Parent[b]]

\* computeEffectsRoot against header.effectsRoot.
RootOK(b, seen) ==
    \/ Kind[b] \in {"empty", "write"}
    \/ Kind[b] = "read" /\ Parent[b] # Zero /\ seen = LastWriter[Parent[b]]

\* The writes reach the state before the effects root is compared.
Execute(v) ==
    LET b == job[v].block
    IN  /\ job[v].pc = "write"
        /\ cell' = IF Writes(b) THEN b ELSE cell
        /\ IF RootOK(b, job[v].seen) THEN Goto(v, "meta") ELSE Return(v)
        /\ UNCHANGED <<headers, metas, index, tip>>

\* (bug) a block whose parent is unknown starts a chain of its own
LoadMetaBug(v) ==
    LET b == job[v].block
    IN  /\ job[v].pc = "meta"
        /\ job' = [job EXCEPT ![v].pc = "header", ![v].total =
                     (IF Parent[b] \in DOMAIN metas THEN metas[Parent[b]] ELSE 0) + Work[b]]
        /\ UNCHANGED <<headers, metas, index, tip, cell>>
\* (bug) the block's work is added to the tip's
LoadMetaBug2(v) ==
    LET b == job[v].block
    IN  /\ job[v].pc = "meta"
        /\ IF Parent[b] \in DOMAIN metas
           THEN job' = [job EXCEPT ![v].pc = "header", ![v].total = metas[tip] + Work[b]]
           ELSE Return(v)
        /\ UNCHANGED <<headers, metas, index, tip, cell>>

\* getMeta of the parent, after the body was executed.
LoadMeta(v) ==
    LET b == job[v].block
    IN  /\ job[v].pc = "meta"
        /\ IF Parent[b] \in DOMAIN metas
           THEN job' = [job EXCEPT ![v].pc = "header",
                                   ![v].total = metas[Parent[b]] + Work[b]]
           ELSE Return(v)
        /\ UNCHANGED <<headers, metas, index, tip, cell>>

\* putBlock is four awaits; the body is put between the header and the meta,
\* where no other call looks for it.
PutHeader(v) ==
    /\ job[v].pc = "header"
    /\ headers' = headers \cup {job[v].block}
    /\ Goto(v, "putMeta")
    /\ UNCHANGED <<metas, index, tip, cell>>

PutMeta(v) ==
    /\ job[v].pc = "putMeta"
    /\ metas' = Put(metas, job[v].block, job[v].total)
    /\ Goto(v, "index")
    /\ UNCHANGED <<headers, index, tip, cell>>

\* (bug) the index counts from one
PutIndexBug2(v) ==
    /\ job[v].pc = "index"
    /\ index' = Put(index, Height[job[v].block] + 1, job[v].block)
    /\ Goto(v, "choose")
    /\ UNCHANGED <<headers, metas, tip, cell>>

PutIndex(v) ==
    /\ job[v].pc = "index"
    /\ index' = Put(index, Height[job[v].block], job[v].block)
    /\ Goto(v, "choose")
    /\ UNCHANGED <<headers, metas, tip, cell>>

\* (bug) a chain as heavy as the tip's is preferred
HeavierBug(v) == job[v].total >= metas[tip]
\* (bug) the longer chain is preferred, not the heavier one
HeavierBug2(v) == Height[job[v].block] > Height[tip]

Heavier(v) == job[v].total > metas[tip]

\* processBlock reads the tip and compares.
ChooseTip(v) ==
    /\ job[v].pc = "choose"
    /\ IF Heavier(v) THEN job' = [job EXCEPT ![v].pc = "set", ![v].rival = tip] ELSE Return(v)
    /\ UNCHANGED <<headers, metas, index, tip, cell>>

\* setTip. The awaits of computeReorgDepth before it walk headers and return a
\* number that is only reported; they are part of the wait for this step, and
\* nothing is said here of how long they take.
SetTip(v) ==
    /\ job[v].pc = "set"
    /\ tip' = job[v].block
    /\ Return(v)
    /\ UNCHANGED <<headers, metas, index, cell>>

Step(v) == CheckTime(v) \/ Read(v) \/ Execute(v) \/ LoadMeta(v) \/ PutHeader(v)
           \/ PutMeta(v) \/ PutIndex(v) \/ ChooseTip(v) \/ SetTip(v)

Next == \E v \in Validators : Step(v) \/ \E b \in Blocks \ {Genesis} : Offer(v, b)

Spec == Init /\ [][Next]_vars

-----------------------------------------------------------------------------
(* Properties.                                                             *)

Jobs == [pc : {"idle", "time", "read", "write", "meta", "header", "putMeta",
               "index", "choose", "set"},
         block : Blocks \cup {NoBlock}, seen : Blocks, total : Nat, rival : Blocks]

TypeOK ==
    /\ headers \subseteq Blocks
    /\ DOMAIN metas \subseteq headers /\ metas \in [DOMAIN metas -> Nat]
    /\ DOMAIN index \subseteq Nat /\ index \in [DOMAIN index -> headers]
    /\ tip \in DOMAIN metas
    /\ cell \in Blocks
    /\ job \in [Validators -> Jobs]
    /\ \A v \in Validators : job[v].pc # "idle" => job[v].block \in Blocks \ {Genesis}

Quiet == \A v \in Validators : job[v].pc = "idle"

\* The parent of a stored block is stored, so a walk along parentHash, as in
\* getRecentHeaders and computeReorgDepth, ends in the genesis block and
\* nowhere else.
StoredIsRooted == \A b \in headers \ {Genesis} : Parent[b] \in headers

\* The recorded chainwork of a block is its parent's plus its own work, however
\* the calls interleave (validateBlock step 3).
ChainworkAddsUp ==
    /\ metas[Genesis] = 0
    /\ \A b \in DOMAIN metas \ {Genesis} :
          Parent[b] \in DOMAIN metas /\ metas[b] = metas[Parent[b]] + Work[b]

\* The stored blocks are branches from the genesis block, each with the work of its
\* blocks, at every await of every call.
BranchesAddUp == StoredIsRooted /\ ChainworkAddsUp

\* Between two calls no stored block has more work than the tip (ForkChoice:
\* "select best chain tip based on cumulative work").
TipHasMostWork == Quiet => \A b \in headers : b \in DOMAIN metas /\ metas[b] <= metas[tip]

\* No step replaces the tip by a block with no more work.
TipNeverLosesWork == [][tip' # tip => metas'[tip'] > metas[tip]]_vars

\* The tip loses work only to a call that compared its block with another tip: one
\* that a second call replaced between the read of the tip and setTip
\* (processBlock, forkChoice.ts:45 and :61).
TipLosesOnlyToOverlap ==
    [][tip' # tip => \/ metas'[tip'] > metas[tip]
                     \/ \E v \in Validators : /\ job[v].pc = "set" /\ tip' = job[v].block
                                              /\ job[v].rival # tip]_vars

\* Between two calls every height up to the tip's is in the height index, under
\* a block of that height (getBlockAtHeight, which the locator and the
\* HEADERS handler of the sync service walk).
IndexCoversTip ==
    Quiet => \A h \in Height[Genesis]..Height[tip] :
                h \in DOMAIN index /\ Height[index[h]] = h

\* Fork choice promises what BestChain promises: a stored block counts as
\* accepted from the moment the tip has at least its work.
Settled == {b \in DOMAIN metas : metas[b] <= metas[tip]}
Best == INSTANCE BestChain WITH accepted <- [b \in Settled |-> metas[b]]
ImplementsBestChain == Best!Spec
=============================================================================
