----------------------------- MODULE ChainProofs ------------------------------
(* Proofs about the chain and what its blocks execute: reorgs, validation and   *)
(* execution of blocks keep the chain whole, and the account instructions of    *)
(* their programs keep the permission gate within the store of organisations     *)
(* (GateWithinStore) and approve by a quorum (ApprovedByQuorum); the mempool, its  *)
(* pending index and the ring of a node agree (NodeIndexesAgree) and its preflight *)
(* overlooks nothing they know (PreflightForesees), and its mempool and tracker   *)
(* follow the chain through blocks and reorgs (NodeFollowsChain); for any trees of *)
(* blocks, programs, policies, nodes, transactions and bounds.                *)
EXTENDS Chain, Accounts, FastPath, CollectionProofs

(* The chain.                                                                *)

Stored == {"index", "choose", "set"}
Storing == {"putMeta"} \cup Stored
Loaded == {"header"} \cup Storing

\* Once getMeta found the parent, it stays there with the same chainwork; what a
\* call has put stays put.
JobsAddUp ==
    \A v \in Validators :
       LET b == job[v].block IN
       /\ job[v].pc \in Loaded => Parent[b] \in DOMAIN metas /\ job[v].total = metas[Parent[b]] + Work[b]
       /\ job[v].pc \in Storing => b \in headers
       /\ job[v].pc \in Stored => b \in DOMAIN metas

\* The genesis block is never removed.
GenesisStays == Genesis \in DOMAIN metas

IInv == TypeOK /\ StoredIsRooted /\ ChainworkAddsUp /\ JobsAddUp /\ GenesisStays

-----------------------------------------------------------------------------
\* The initial state: only the genesis block, no call in flight.
LEMMA InitIInv == Init => IInv
<1> SUFFICES ASSUME Init PROVE IInv
    OBVIOUS
<1> USE TreeAssumption, HeaderAssumption
<1>1. TypeOK /\ GenesisStays
    BY DEF Init, TypeOK, Jobs, Idle, GenesisStays
<1>2. StoredIsRooted /\ ChainworkAddsUp /\ JobsAddUp
    BY DEF Init, StoredIsRooted, ChainworkAddsUp, JobsAddUp, Idle, Loaded, Storing, Stored
<1> QED BY <1>1, <1>2 DEF IInv

\* A step that stores nothing and moves one call to a place where it knows no
\* more than it did keeps the invariant: calls, refusals, reads, executions.
LEMMA QuietStep ==
    ASSUME IInv, NEW v \in Validators, NEW j \in Jobs,
           job' = [job EXCEPT ![v] = j], j.pc # "idle" => j.block \in Blocks \ {Genesis},
           UNCHANGED <<headers, metas, index, tip>>, cell' \in Blocks,
           j.pc \notin Loaded \/ (job[v].pc \in Stored /\ j.pc \in Stored /\ j.block = job[v].block
                                  /\ j.total = job[v].total)
    PROVE  IInv'
<1>1. TypeOK'
    BY DEF IInv, TypeOK
<1>2. StoredIsRooted' /\ ChainworkAddsUp' /\ GenesisStays'
    BY DEF IInv, StoredIsRooted, ChainworkAddsUp, GenesisStays
<1>3. JobsAddUp'
    BY DEF IInv, TypeOK, JobsAddUp, Loaded, Storing
<1> QED BY <1>1, <1>2, <1>3 DEF IInv

\* What the job of a call becomes, as one record.
LEMMA GotoIs ==
    ASSUME TypeOK, NEW v \in Validators, NEW pc
    PROVE  Goto(v, pc) <=> job' = [job EXCEPT ![v] = [job[v] EXCEPT !.pc = pc]]
BY DEF Goto, TypeOK, Jobs

\* A validator that does nothing has a well-typed job.
LEMMA IdleIsJob == Idle \in Jobs /\ Idle.pc = "idle"
BY TreeAssumption DEF Idle, Jobs

\* The actions before anything is stored: an offer, the time check, the read,
\* the execution, and the return of a call that was refused or lost.
LEMMA EarlySteps ==
    ASSUME IInv, NEW v \in Validators,
           \/ \E b \in Blocks \ {Genesis} : Offer(v, b)
           \/ CheckTime(v) \/ Read(v) \/ Execute(v)
    PROVE  IInv'
<1> USE TreeAssumption, HeaderAssumption
<1> DEFINE to(j) == job' = [job EXCEPT ![v] = j]
<1>0. TypeOK /\ job[v] \in Jobs /\ (job[v].pc # "idle" => job[v].block \in Blocks \ {Genesis}) /\ cell \in Blocks
    BY DEF IInv, TypeOK
<1> DEFINE Early(j) == /\ to(j)
                       /\ j.pc \notin Loaded
                       /\ j.pc # "idle" => j.block \in Blocks \ {Genesis}
                       /\ UNCHANGED <<headers, metas, index, tip>>
                       /\ cell' \in Blocks
<1>1. \E j \in Jobs : Early(j)
  <2>1. ASSUME NEW b \in Blocks \ {Genesis}, Offer(v, b) PROVE \E j \in Jobs : Early(j)
    <3> DEFINE j == [Idle EXCEPT !.pc = "time", !.block = b]
    <3>1. j \in Jobs /\ j.pc = "time" /\ j.block = b
        BY DEF Idle, Jobs
    <3> QED BY <1>0, <2>1, <3>1 DEF Offer, Loaded, Storing, Stored
  <2> DEFINE k(pc) == [job[v] EXCEPT !.pc = pc]
  <2>2. ASSUME NEW pc \in {"read", "meta"} PROVE k(pc) \in Jobs /\ k(pc).pc = pc /\ k(pc).block = job[v].block
      BY <1>0 DEF Jobs
  <2>3. \A pc \in {"read", "meta"} : Goto(v, pc) => to(k(pc))
      BY <1>0, GotoIs
  <2>4. Return(v) => to(Idle)
      BY DEF Return
  <2>5. CASE CheckTime(v)
    <3>1. to(k("read")) \/ to(Idle)
        BY <2>3, <2>4, <2>5 DEF CheckTime
    <3> HIDE DEF k
    <3> QED BY <1>0, <2>2, <2>5, <3>1, IdleIsJob DEF CheckTime, Loaded, Storing, Stored
  <2>6. CASE Read(v)
    <3> DEFINE j == [job[v] EXCEPT !.pc = "write", !.seen = cell]
    <3>1. j \in Jobs /\ j.pc = "write" /\ j.block = job[v].block
        BY <1>0 DEF Jobs
    <3>2. to(j)
        BY <1>0, <2>6 DEF Read, TypeOK, Jobs
    <3> HIDE DEF j
    <3> QED BY <1>0, <2>6, <3>1, <3>2 DEF Read, Loaded, Storing, Stored
  <2>7. CASE Execute(v)
    <3>1. to(k("meta")) \/ to(Idle)
        BY <2>3, <2>4, <2>7 DEF Execute
    <3>2. cell' \in Blocks
        BY <1>0, <2>7 DEF Execute
    <3> HIDE DEF k
    <3> QED BY <1>0, <2>2, <2>7, <3>1, <3>2, IdleIsJob DEF Execute, Loaded, Storing, Stored
  <2> HIDE DEF Early
  <2> QED BY <2>1, <2>5, <2>6, <2>7
<1> QED BY <1>1, QuietStep

\* getMeta of the parent: the call returns, or goes on with the parent's total.
LEMMA LoadMetaStep == ASSUME IInv, NEW v \in Validators, LoadMeta(v) PROVE IInv'
<1> USE TreeAssumption, HeaderAssumption
<1> DEFINE b == job[v].block
           j == [job[v] EXCEPT !.pc = "header", !.total = metas[Parent[b]] + Work[b]]
<1>0. /\ job \in [Validators -> Jobs] /\ job[v] \in Jobs /\ b \in Blocks \ {Genesis}
      /\ metas \in [DOMAIN metas -> Nat] /\ DOMAIN metas \subseteq headers /\ cell \in Blocks
    BY DEF IInv, TypeOK, LoadMeta
<1>1. CASE Parent[b] \notin DOMAIN metas
  <2>1. job' = [job EXCEPT ![v] = Idle]
      BY <1>1 DEF LoadMeta, Return
  <2> QED BY <1>0, <1>1, <2>1, IdleIsJob, QuietStep DEF LoadMeta, Loaded, Storing, Stored
<1>2. CASE Parent[b] \in DOMAIN metas
  <2>1. metas[Parent[b]] + Work[b] \in Nat
      BY <1>0, <1>2
  <2>2. j \in Jobs /\ j.pc = "header" /\ j.block = b /\ j.total = metas[Parent[b]] + Work[b]
      BY <1>0, <2>1 DEF Jobs
  <2>3. job' = [job EXCEPT ![v] = j] /\ UNCHANGED <<headers, metas, index, tip, cell>>
      BY <1>0, <1>2 DEF LoadMeta, Jobs
  <2> HIDE DEF j, b
  <2>4. TypeOK'
      BY <1>0, <2>2, <2>3 DEF IInv, TypeOK
  <2>5. StoredIsRooted' /\ ChainworkAddsUp' /\ GenesisStays'
      BY <2>3 DEF IInv, StoredIsRooted, ChainworkAddsUp, GenesisStays
  <2>6. JobsAddUp'
      BY <1>0, <1>2, <2>2, <2>3 DEF IInv, JobsAddUp, Loaded, Storing, Stored
  <2> QED BY <2>4, <2>5, <2>6 DEF IInv
<1> QED BY <1>1, <1>2

\* The header of a block whose parent has its meta, and so its header.
LEMMA PutHeaderStep == ASSUME IInv, NEW v \in Validators, PutHeader(v) PROVE IInv'
<1> USE TreeAssumption, HeaderAssumption
<1> DEFINE j == [job[v] EXCEPT !.pc = "putMeta"]
<1>0. TypeOK /\ job[v] \in Jobs /\ job[v].block \in Blocks \ {Genesis} /\ job[v].pc = "header"
    BY DEF IInv, TypeOK, PutHeader
<1>1. j \in Jobs /\ j.pc = "putMeta" /\ j.block = job[v].block /\ j.total = job[v].total
    BY <1>0 DEF Jobs
<1>2. job' = [job EXCEPT ![v] = j]
    BY <1>0, GotoIs DEF PutHeader
<1>3. headers' = headers \cup {job[v].block} /\ UNCHANGED <<metas, index, tip, cell>>
    BY DEF PutHeader
<1>4. Parent[job[v].block] \in DOMAIN metas /\ job[v].total = metas[Parent[job[v].block]] + Work[job[v].block]
    BY <1>0 DEF IInv, JobsAddUp, Loaded
<1> HIDE DEF j
<1>5. TypeOK'
    BY <1>0, <1>1, <1>2, <1>3 DEF TypeOK
<1>6. StoredIsRooted' /\ ChainworkAddsUp' /\ GenesisStays'
    BY <1>0, <1>3, <1>4 DEF IInv, TypeOK, StoredIsRooted, ChainworkAddsUp, GenesisStays
<1>7. JobsAddUp'
    BY <1>0, <1>1, <1>2, <1>3, <1>4 DEF IInv, TypeOK, JobsAddUp, Loaded, Storing, Stored
<1> QED BY <1>5, <1>6, <1>7 DEF IInv

\* The meta: a block stored before keeps the chainwork it has.
LEMMA PutMetaStep == ASSUME IInv, NEW v \in Validators, PutMeta(v) PROVE IInv'
<1> USE TreeAssumption, HeaderAssumption
<1> DEFINE j == [job[v] EXCEPT !.pc = "index"]
           b == job[v].block
<1>0. TypeOK /\ job[v] \in Jobs /\ b \in Blocks \ {Genesis} /\ job[v].pc = "putMeta" /\ job[v].total \in Nat
    BY DEF IInv, TypeOK, PutMeta, Jobs
<1>1. j \in Jobs /\ j.pc = "index" /\ j.block = b /\ j.total = job[v].total
    BY <1>0 DEF Jobs
<1>2. job' = [job EXCEPT ![v] = j]
    BY <1>0, GotoIs DEF PutMeta
<1>3. /\ DOMAIN metas' = DOMAIN metas \cup {b} /\ metas'[b] = job[v].total
      /\ \A x \in DOMAIN metas : x # b => metas'[x] = metas[x]
      /\ metas' = [x \in DOMAIN metas' |-> metas'[x]]
    BY DEF PutMeta, Put
<1>4. UNCHANGED <<headers, index, tip, cell>>
    BY DEF PutMeta
<1>5. /\ Parent[b] \in DOMAIN metas /\ job[v].total = metas[Parent[b]] + Work[b]
      /\ b \in headers
    BY <1>0 DEF IInv, JobsAddUp, Loaded, Storing
<1> HIDE DEF j, b
<1>6. \A x \in DOMAIN metas : metas'[x] = metas[x]
    BY <1>0, <1>3, <1>5 DEF IInv, ChainworkAddsUp
<1>7. TypeOK'
  <2>1. DOMAIN metas' \subseteq headers /\ \A x \in DOMAIN metas' : metas'[x] \in Nat
      BY <1>0, <1>3, <1>5, <1>6 DEF TypeOK
  <2>2. metas' \in [DOMAIN metas' -> Nat]
      BY <1>3, <2>1
  <2>3. job' \in [Validators -> Jobs] /\ \A w \in Validators : job'[w].pc # "idle" => job'[w].block \in Blocks \ {Genesis}
      BY <1>0, <1>1, <1>2 DEF TypeOK
  <2> QED BY <1>0, <1>3, <1>4, <2>1, <2>2, <2>3 DEF TypeOK
<1>8. StoredIsRooted'
    BY <1>4 DEF IInv, StoredIsRooted
<1>9. ChainworkAddsUp' /\ GenesisStays'
  <2>1. GenesisStays' /\ metas'[Genesis] = 0
      BY <1>3, <1>6 DEF IInv, ChainworkAddsUp, GenesisStays
  <2>2. metas'[b] = metas'[Parent[b]] + Work[b] /\ Parent[b] \in DOMAIN metas'
      BY <1>3, <1>5, <1>6
  <2>3. ASSUME NEW x \in DOMAIN metas \ {Genesis}
        PROVE  Parent[x] \in DOMAIN metas' /\ metas'[x] = metas'[Parent[x]] + Work[x]
      BY <1>3, <1>6 DEF IInv, ChainworkAddsUp
  <2> QED BY <1>3, <2>1, <2>2, <2>3 DEF ChainworkAddsUp
<1>10. JobsAddUp'
    BY <1>0, <1>1, <1>2, <1>3, <1>4, <1>5, <1>6 DEF IInv, TypeOK, JobsAddUp, Loaded, Storing, Stored
<1> QED BY <1>7, <1>8, <1>9, <1>10 DEF IInv

\* The height index and the tip hold blocks that are stored.
LEMMA LateSteps ==
    ASSUME IInv, NEW v \in Validators, PutIndex(v) \/ ChooseTip(v) \/ SetTip(v) PROVE IInv'
<1> USE TreeAssumption, HeaderAssumption
<1> DEFINE b == job[v].block
           k(pc) == [job[v] EXCEPT !.pc = pc]
<1>0. /\ TypeOK /\ job[v] \in Jobs /\ b \in Blocks \ {Genesis} /\ job[v].pc \in Stored
      /\ b \in headers /\ b \in DOMAIN metas /\ cell \in Blocks
    BY DEF IInv, TypeOK, JobsAddUp, PutIndex, ChooseTip, SetTip, Storing, Stored
<1>1. ASSUME NEW pc \in Stored
      PROVE /\ k(pc) \in Jobs /\ k(pc).pc = pc /\ k(pc).block = b /\ k(pc).total = job[v].total
            /\ Goto(v, pc) => job' = [job EXCEPT ![v] = k(pc)]
    BY <1>0, GotoIs DEF Jobs, Stored
<1> HIDE DEF k
<1>2. Return(v) => job' = [job EXCEPT ![v] = Idle]
    BY DEF Return
<1>3. CASE PutIndex(v)
  <2>1. job' = [job EXCEPT ![v] = k("choose")] /\ UNCHANGED <<headers, metas, tip, cell>>
      BY <1>1, <1>3 DEF PutIndex, Stored
  <2>2. k("choose") \in Jobs /\ k("choose").pc = "choose" /\ k("choose").block = b /\ k("choose").total = job[v].total
      BY <1>1 DEF Stored
  <2>3. index' = [z \in DOMAIN index \cup {Height[b]} |-> IF z = Height[b] THEN b ELSE index[z]]
      BY <1>3 DEF PutIndex, Put
  <2>4. DOMAIN index' \subseteq Nat /\ index' \in [DOMAIN index' -> headers']
      BY <1>0, <2>1, <2>3 DEF TypeOK
  <2>5. TypeOK'
      BY <1>0, <2>1, <2>2, <2>4 DEF TypeOK
  <2>6. StoredIsRooted' /\ ChainworkAddsUp' /\ GenesisStays'
      BY <2>1 DEF IInv, StoredIsRooted, ChainworkAddsUp, GenesisStays
  <2>7. JobsAddUp'
      BY <1>0, <2>1, <2>2 DEF IInv, TypeOK, JobsAddUp, Loaded, Storing, Stored
  <2> QED BY <2>5, <2>6, <2>7 DEF IInv
<1>4. CASE ChooseTip(v)
  <2> DEFINE j == [job[v] EXCEPT !.pc = "set", !.rival = tip]
  <2>3. j \in Jobs /\ j.pc = "set" /\ j.block = b /\ j.total = job[v].total
      BY <1>0 DEF Jobs, TypeOK
  <2>4. job' = [job EXCEPT ![v] = j] \/ job' = [job EXCEPT ![v] = Idle]
      BY <1>0, <1>2, <1>4 DEF ChooseTip, TypeOK, Jobs
  <2> HIDE DEF j
  <2>1. CASE job' = [job EXCEPT ![v] = j]
      BY <1>0, <1>4, <2>1, <2>3, QuietStep DEF ChooseTip, Stored
  <2>2. CASE job' = [job EXCEPT ![v] = Idle]
      BY <1>0, <1>4, <2>2, QuietStep, IdleIsJob DEF ChooseTip, Loaded, Storing, Stored
  <2> QED BY <2>1, <2>2, <2>4
<1>5. CASE SetTip(v)
  <2>1. job' = [job EXCEPT ![v] = Idle] /\ tip' = b /\ UNCHANGED <<headers, metas, index, cell>>
      BY <1>2, <1>5 DEF SetTip
  <2>2. TypeOK'
      BY <1>0, <2>1, IdleIsJob DEF TypeOK
  <2>3. StoredIsRooted' /\ ChainworkAddsUp' /\ GenesisStays'
      BY <2>1 DEF IInv, StoredIsRooted, ChainworkAddsUp, GenesisStays
  <2>4. JobsAddUp'
      BY <1>0, <2>1, IdleIsJob DEF IInv, TypeOK, JobsAddUp, Loaded, Storing, Stored
  <2> QED BY <2>2, <2>3, <2>4 DEF IInv
<1> QED BY <1>3, <1>4, <1>5

-----------------------------------------------------------------------------
\* Every step keeps the invariant.
LEMMA NextIInv == IInv /\ [Next]_vars => IInv'
<1> SUFFICES ASSUME IInv, [Next]_vars PROVE IInv'
    OBVIOUS
<1>1. ASSUME NEW v \in Validators, Step(v) \/ \E b \in Blocks \ {Genesis} : Offer(v, b)
      PROVE  IInv'
    BY <1>1, EarlySteps, LoadMetaStep, PutHeaderStep, PutMetaStep, LateSteps DEF Step
<1>2. CASE UNCHANGED vars
    BY <1>2 DEF vars, IInv, TypeOK, StoredIsRooted, ChainworkAddsUp, JobsAddUp, GenesisStays
<1> QED BY <1>1, <1>2 DEF Next

\* The invariant of every reachable state.
LEMMA SpecIInv == Spec => []IInv
BY InitIInv, NextIInv, PTL DEF Spec

\* Every reachable state is well typed (chainStore.ts, blockValidator.ts).
THEOREM TypeCorrectness == Spec => []TypeOK
<1>1. IInv => TypeOK
    BY DEF IInv
<1> QED BY <1>1, SpecIInv, PTL

\* The parent of every stored block is stored, and the recorded chainwork of a block
\* is its parent's and its own, however calls interleave and however often a block
\* is offered.
THEOREM BranchesAreSound == Spec => []BranchesAddUp
<1>1. IInv => BranchesAddUp
    BY DEF IInv, BranchesAddUp
<1> QED BY <1>1, SpecIInv, PTL

-----------------------------------------------------------------------------
(* A node that validates one block at a time. Between its awaits every block    *)
(* it stored, but the one it is storing, has at most the work of the tip.       *)
OneCall == \A v, w \in Validators : v = w

TipInv ==
    /\ \A b \in DOMAIN metas :
          metas[b] <= metas[tip] \/ \E v \in Validators : job[v].block = b /\ job[v].pc \in Stored
    /\ \A b \in headers :
          b \in DOMAIN metas \/ \E v \in Validators : job[v].block = b /\ job[v].pc = "putMeta"
    /\ \A v \in Validators :
          /\ job[v].pc = "set" => job[v].total > metas[tip]
          /\ job[v].pc # "idle" => Parent[job[v].block] # job[v].block

\* What IInv says of one call, its block and the tip, as facts to cite.
LEMMA JobFacts ==
    ASSUME IInv, NEW v \in Validators
    PROVE  /\ job[v].pc # "idle" => job[v].block \in Blocks \ {Genesis}
           /\ job[v].pc \in Loaded => /\ Parent[job[v].block] \in DOMAIN metas
                                      /\ job[v].total = metas[Parent[job[v].block]] + Work[job[v].block]
           /\ job[v].pc \in Storing => job[v].block \in headers
           /\ job[v].pc \in Loaded /\ job[v].block \in DOMAIN metas => metas[job[v].block] = job[v].total
           /\ job[v].pc \in Stored => job[v].block \in DOMAIN metas
           /\ job[v].total \in Nat /\ tip \in DOMAIN metas
           /\ \A b \in DOMAIN metas : metas[b] \in Nat
<1>1. TypeOK /\ job[v] \in Jobs
    BY DEF IInv, TypeOK
<1>2. /\ job[v].pc # "idle" => job[v].block \in Blocks \ {Genesis}
      /\ job[v].total \in Nat /\ tip \in DOMAIN metas
      /\ \A b \in DOMAIN metas : metas[b] \in Nat
    BY <1>1 DEF TypeOK, Jobs
<1>3. job[v].pc \in Loaded => job[v].pc # "idle"
    BY DEF Loaded, Storing, Stored
<1> QED BY <1>2, <1>3 DEF IInv, ChainworkAddsUp, JobsAddUp

\* PutMeta adds the one block and changes the work of none.
LEMMA PutMetaFacts ==
    ASSUME IInv, NEW v \in Validators, PutMeta(v)
    PROVE  /\ DOMAIN metas' = DOMAIN metas \cup {job[v].block}
           /\ metas'[job[v].block] = job[v].total
           /\ \A x \in DOMAIN metas : metas'[x] = metas[x]
<1>1. /\ DOMAIN metas' = DOMAIN metas \cup {job[v].block} /\ metas'[job[v].block] = job[v].total
      /\ \A x \in DOMAIN metas : x # job[v].block => metas'[x] = metas[x]
    BY DEF PutMeta, Put
<1>2. job[v].block \in DOMAIN metas => metas[job[v].block] = job[v].total
    BY JobFacts DEF PutMeta, Loaded, Storing
<1> QED BY <1>1, <1>2

\* The initial tip is the only block there is.
LEMMA InitTipInv == Init => TipInv
BY TreeAssumption DEF Init, TipInv, Idle

\* While one block is validated at a time, every step keeps TipInv.
LEMMA NextTipInv ==
    ASSUME OneCall, IInv, IInv', TipInv, [Next]_vars PROVE TipInv'
<1> USE TreeAssumption, HeaderAssumption
<1>1. CASE UNCHANGED vars
    BY <1>1 DEF vars, TipInv
<1> SUFFICES ASSUME NEW v \in Validators,
                    Step(v) \/ \E b \in Blocks \ {Genesis} : Offer(v, b)
             PROVE  TipInv'
    BY <1>1 DEF Next
<1>0. /\ \A w \in Validators : w = v
      /\ job \in [Validators -> Jobs]
    BY DEF OneCall, IInv, TypeOK
<1>2. ASSUME NEW b \in Blocks \ {Genesis}, Offer(v, b) PROVE TipInv'
  <2>1. job'[v].pc = "time" /\ job'[v].block = b /\ job[v].pc = "idle"
        /\ UNCHANGED <<headers, metas, tip>>
      BY <1>0, <1>2 DEF Offer, Idle
  <2>2. Parent[b] # b
    <3>1. CASE Parent[b] \in headers
      <4>1. Height[b] = Height[Parent[b]] + 1 /\ Parent[b] \in Blocks /\ Height[b] \in Nat
          BY <1>2, <3>1 DEF Offer, HeaderOK, IInv, TypeOK
      <4> QED BY <4>1
    <3>2. CASE Parent[b] = Zero
        BY <3>2
    <3> QED BY <1>2, <3>1, <3>2 DEF Offer, HeaderOK
  <2> QED BY <1>0, <2>1, <2>2 DEF TipInv, Stored
<1>3. CASE CheckTime(v) \/ Read(v) \/ Execute(v) \/ LoadMeta(v)
  <2>1. /\ job[v].pc \notin Storing /\ job'[v].pc \notin Storing
        /\ job[v].pc # "idle"
        /\ job'[v].pc = "idle" \/ job'[v].block = job[v].block
        /\ UNCHANGED <<headers, metas, tip>>
      BY <1>0, <1>3 DEF CheckTime, Read, Execute, LoadMeta, Goto, Return, Idle, Jobs, Storing, Stored
  <2> QED BY <1>0, <2>1 DEF TipInv, Storing, Stored
<1>4. CASE PutHeader(v)
  <2>1. /\ job[v].pc = "header" /\ job'[v].pc = "putMeta" /\ job'[v].block = job[v].block
        /\ headers' = headers \cup {job[v].block} /\ UNCHANGED <<metas, tip>>
      BY <1>0, <1>4 DEF PutHeader, Goto, Jobs
  <2> QED BY <1>0, <2>1 DEF TipInv, Stored
<1>5. CASE PutMeta(v)
  <2>1. /\ job[v].pc = "putMeta" /\ job'[v].pc = "index" /\ job'[v].block = job[v].block
        /\ UNCHANGED <<headers, tip>>
      BY <1>0, <1>5 DEF PutMeta, Goto, Jobs
  <2>2. /\ DOMAIN metas' = DOMAIN metas \cup {job[v].block}
        /\ \A x \in DOMAIN metas : metas'[x] = metas[x]
      BY <1>5, PutMetaFacts
  <2>3. tip \in DOMAIN metas
      BY JobFacts
  <2>4. ASSUME NEW b \in DOMAIN metas'
        PROVE  metas'[b] <= metas'[tip'] \/ \E w \in Validators : job'[w].block = b /\ job'[w].pc \in Stored
    <3>1. CASE b = job[v].block
        BY <2>1, <3>1 DEF Stored
    <3>2. CASE b # job[v].block
        BY <1>0, <2>1, <2>2, <2>3, <3>2 DEF TipInv, Stored
    <3> QED BY <3>1, <3>2
  <2>5. ASSUME NEW b \in headers'
        PROVE  b \in DOMAIN metas' \/ \E w \in Validators : job'[w].block = b /\ job'[w].pc = "putMeta"
      BY <1>0, <2>1, <2>2 DEF TipInv
  <2> QED BY <1>0, <2>1, <2>4, <2>5 DEF TipInv
<1>6. CASE PutIndex(v)
  <2>1. /\ job[v].pc = "index" /\ job'[v].pc = "choose" /\ job'[v].block = job[v].block
        /\ UNCHANGED <<headers, metas, tip>>
      BY <1>0, <1>6 DEF PutIndex, Goto, Jobs
  <2> QED BY <1>0, <2>1 DEF TipInv, Stored
<1>7. CASE ChooseTip(v)
  <2>1. job[v].pc = "choose" /\ UNCHANGED <<headers, metas, tip>>
      BY <1>7 DEF ChooseTip
  <2>2. CASE Heavier(v)
    <3>1. job'[v].pc = "set" /\ job'[v].block = job[v].block /\ job'[v].total = job[v].total
        BY <1>0, <1>7, <2>2 DEF ChooseTip, Jobs
    <3> QED BY <1>0, <2>1, <2>2, <3>1 DEF TipInv, Stored, Heavier
  <2>3. CASE ~ Heavier(v)
    <3>1. job'[v].pc = "idle"
        BY <1>0, <1>7, <2>3 DEF ChooseTip, Return, Idle
    <3>2. metas[job[v].block] <= metas[tip]
        BY <2>1, <2>3, JobFacts DEF Heavier, Loaded, Storing, Stored
    <3> QED BY <1>0, <2>1, <3>1, <3>2 DEF TipInv, Stored
  <2> QED BY <2>2, <2>3
<1>8. CASE SetTip(v)
  <2>1. /\ job[v].pc = "set" /\ job'[v].pc = "idle" /\ tip' = job[v].block
        /\ UNCHANGED <<headers, metas>>
      BY <1>0, <1>8 DEF SetTip, Return, Idle
  <2>2. metas[tip'] > metas[tip]
      BY <2>1, JobFacts DEF TipInv, Loaded, Storing, Stored
  <2>3. \A b \in DOMAIN metas : metas[b] <= metas[tip']
      BY <1>0, <2>1, <2>2, JobFacts DEF TipInv, Stored
  <2> QED BY <1>0, <2>1, <2>3 DEF TipInv
<1> QED BY <1>2, <1>3, <1>4, <1>5, <1>6, <1>7, <1>8 DEF Step

\* TipInv in every reachable state, while one block is validated at a time.
LEMMA SpecTipInv == ASSUME OneCall PROVE Spec => [](IInv /\ TipInv)
<1>1. Init => IInv /\ TipInv
    BY InitIInv, InitTipInv
<1>2. (IInv /\ TipInv) /\ [Next]_vars => (IInv /\ TipInv)'
    BY NextIInv, NextTipInv
<1> QED BY <1>1, <1>2, PTL DEF Spec

\* When one block is validated at a time, no stored block has more work than
\* the tip between two calls (forkChoice.ts, processBlock).
THEOREM TipIsHeaviest == ASSUME OneCall PROVE Spec => []TipHasMostWork
<1>1. IInv /\ TipInv => TipHasMostWork
    BY DEF TipHasMostWork, TipInv, Quiet, Stored
<1> QED BY <1>1, SpecTipInv, PTL

\* What the one step that moves the tip knows: SetTip takes a heavier block.
LEMMA SetTipFacts ==
    ASSUME IInv, TipInv, NEW v \in Validators, SetTip(v)
    PROVE  /\ job[v].pc = "set" /\ tip' = job[v].block /\ UNCHANGED metas
           /\ tip' \in DOMAIN metas /\ metas[tip'] = job[v].total /\ metas[tip'] > metas[tip]
<1>1. job[v].pc = "set" /\ tip' = job[v].block /\ UNCHANGED metas
    BY DEF SetTip
<1> QED BY <1>1, JobFacts DEF TipInv, Loaded, Storing, Stored

\* Every other step leaves the tip alone, and only PutMeta changes the metas.
LEMMA OtherSteps ==
    ASSUME [Next]_vars, \A v \in Validators : ~ SetTip(v)
    PROVE  /\ UNCHANGED tip
           /\ UNCHANGED metas \/ \E v \in Validators : PutMeta(v)
BY DEF Next, Step, vars, Offer, CheckTime, Read, Execute, LoadMeta, PutHeader, PutIndex, ChooseTip, PutMeta

\* When one block is validated at a time, no step replaces the tip by a block
\* with no more work: no reorg to a lighter or an equal chain.
THEOREM TipOnlyGains == ASSUME OneCall PROVE Spec => TipNeverLosesWork
<1>1. (IInv /\ TipInv) /\ [Next]_vars => [tip' # tip => metas'[tip'] > metas[tip]]_vars
  <2> SUFFICES ASSUME IInv, TipInv, [Next]_vars, tip' # tip PROVE metas'[tip'] > metas[tip]
      OBVIOUS
  <2>1. PICK v \in Validators : SetTip(v)
      BY OtherSteps
  <2> QED BY <2>1, SetTipFacts
<1> QED BY <1>1, SpecTipInv, PTL DEF Spec, TipNeverLosesWork

-----------------------------------------------------------------------------
(* Any number of calls.  A call about to set the tip has more work than the tip *)
(* it read, whatever the tip is by now.                                        *)
RivalInv ==
    \A v \in Validators : job[v].pc = "set" =>
        job[v].rival \in DOMAIN metas /\ job[v].total > metas[job[v].rival]

\* Every step keeps the rival of a new tip within its work.
LEMMA NextRivalInv == ASSUME IInv, RivalInv, [Next]_vars PROVE RivalInv'
<1> USE TreeAssumption, HeaderAssumption
<1>1. CASE UNCHANGED vars
    BY <1>1 DEF vars, RivalInv
<1> SUFFICES ASSUME NEW v \in Validators,
                    Step(v) \/ \E b \in Blocks \ {Genesis} : Offer(v, b)
             PROVE  RivalInv'
    BY <1>1 DEF Next
<1>0. job \in [Validators -> Jobs] /\ tip \in DOMAIN metas
    BY DEF IInv, TypeOK
<1>2. CASE PutMeta(v)
  <2>1. \A x \in DOMAIN metas : x \in DOMAIN metas' /\ metas'[x] = metas[x]
      BY <1>2, PutMetaFacts
  <2>2. job' = [job EXCEPT ![v].pc = "index"]
      BY <1>2 DEF PutMeta, Goto
  <2> QED BY <1>0, <2>1, <2>2 DEF RivalInv
<1>3. CASE ChooseTip(v)
  <2>1. UNCHANGED metas
      BY <1>3 DEF ChooseTip
  <2>2. CASE Heavier(v)
    <3>1. job' = [job EXCEPT ![v].pc = "set", ![v].rival = tip] /\ job[v].total > metas[tip]
        BY <1>3, <2>2 DEF ChooseTip, Heavier
    <3> QED BY <1>0, <2>1, <3>1 DEF RivalInv, Jobs
  <2>3. CASE ~ Heavier(v)
      BY <1>0, <1>3, <2>1, <2>3 DEF ChooseTip, Return, Idle, RivalInv
  <2> QED BY <2>2, <2>3
<1>4. CASE \/ \E b \in Blocks \ {Genesis} : Offer(v, b)
           \/ CheckTime(v) \/ Read(v) \/ Execute(v) \/ LoadMeta(v) \/ PutHeader(v)
           \/ PutIndex(v) \/ SetTip(v)
  <2>1. UNCHANGED metas /\ job'[v].pc # "set" /\ \A w \in Validators \ {v} : job'[w] = job[w]
    <3>1. CASE \E b \in Blocks \ {Genesis} : Offer(v, b)
        BY <1>0, <3>1, ZenonT(30) DEF Offer, Idle
    <3>2. CASE CheckTime(v) \/ Read(v) \/ Execute(v)
        BY <1>0, <3>2 DEF CheckTime, Read, Execute, Goto, Return, Idle, Jobs
    <3>3. CASE LoadMeta(v)
        BY <1>0, <3>3 DEF LoadMeta, Return, Idle, Jobs
    <3>4. CASE PutHeader(v) \/ PutIndex(v) \/ SetTip(v)
        BY <1>0, <3>4 DEF PutHeader, PutIndex, SetTip, Goto, Return, Idle, Jobs
    <3> QED BY <1>4, <3>1, <3>2, <3>3, <3>4
  <2> QED BY <2>1 DEF RivalInv
<1> QED BY <1>2, <1>3, <1>4 DEF Step

\* What the one step that moves the tip knows, if the tip is the one it read.
LEMMA SetTipBeatsRival ==
    ASSUME IInv, RivalInv, NEW v \in Validators, SetTip(v), job[v].rival = tip
    PROVE  metas'[tip'] > metas[tip]
<1>1. job[v].pc = "set" /\ tip' = job[v].block /\ UNCHANGED metas
    BY DEF SetTip
<1>2. metas[job[v].block] = job[v].total
    BY <1>1, JobFacts DEF Loaded, Storing, Stored
<1> QED BY <1>1, <1>2 DEF RivalInv

\* However many calls are in flight, a step that takes work from the tip is the
\* setTip of a call whose rival another call replaced (processBlock).
THEOREM TipLosesToNoOther == Spec => TipLosesOnlyToOverlap
<1>1. Init => RivalInv
    BY DEF Init, RivalInv, Idle
<1>2. (IInv /\ RivalInv) /\ [Next]_vars =>
        [tip' # tip => \/ metas'[tip'] > metas[tip]
                       \/ \E v \in Validators : /\ job[v].pc = "set" /\ tip' = job[v].block
                                                /\ job[v].rival # tip]_vars
  <2> SUFFICES ASSUME IInv, RivalInv, [Next]_vars, tip' # tip
               PROVE  \/ metas'[tip'] > metas[tip]
                      \/ \E v \in Validators : /\ job[v].pc = "set" /\ tip' = job[v].block
                                               /\ job[v].rival # tip
      OBVIOUS
  <2>1. PICK v \in Validators : SetTip(v)
      BY OtherSteps
  <2>2. job[v].pc = "set" /\ tip' = job[v].block
      BY <2>1 DEF SetTip
  <2> QED BY <2>1, <2>2, SetTipBeatsRival
<1>3. (IInv /\ RivalInv) /\ [Next]_vars => (IInv /\ RivalInv)'
    BY NextIInv, NextRivalInv
<1> QED BY <1>1, <1>2, <1>3, InitIInv, PTL DEF Spec, TipLosesOnlyToOverlap

-----------------------------------------------------------------------------
(* The height index.  A stored header is in it, or the call that stores the      *)
(* block has still to put it there; the heights of stored headers have no gap.   *)
Indexing == {"putMeta", "index"}

IndexInv ==
    /\ \A h \in DOMAIN index : Height[index[h]] = h
    /\ \A b \in headers :
          \/ Height[b] \in DOMAIN index
          \/ \E v \in Validators : job[v].block = b /\ job[v].pc \in Indexing
    /\ \A b \in headers : \A h \in Height[Genesis]..Height[b] : \E c \in headers : Height[c] = h
    /\ \A v \in Validators : job[v].pc # "idle" =>
          \/ Parent[job[v].block] = Zero
          \/ Height[job[v].block] = Height[Parent[job[v].block]] + 1

\* The genesis block is in the index.
LEMMA InitIndexInv == Init => IndexInv
<1> SUFFICES ASSUME Init PROVE IndexInv
    OBVIOUS
<1> USE TreeAssumption, HeaderAssumption
<1>1. \A h \in Height[Genesis]..Height[Genesis] : h = Height[Genesis]
    OBVIOUS
<1> QED BY <1>1 DEF Init, IndexInv, Idle

\* A step of one call that stores no header and puts nothing into the index, and
\* after which the call still has to if it had to before.
LEMMA UnindexedStep ==
    ASSUME IInv, IndexInv, NEW v \in Validators, UNCHANGED <<headers, index>>,
           \A w \in Validators \ {v} : job'[w] = job[w],
           job[v].pc \in Indexing => job'[v].pc \in Indexing,
           \/ job'[v].pc = "idle"
           \/ job[v].pc # "idle" /\ job'[v].block = job[v].block
           \/ job[v].pc = "idle" /\ (\/ Parent[job'[v].block] = Zero
                                     \/ Height[job'[v].block] = Height[Parent[job'[v].block]] + 1)
    PROVE  IndexInv'
<1>1. \A b \in headers' :
          \/ Height[b] \in DOMAIN index'
          \/ \E w \in Validators : job'[w].block = b /\ job'[w].pc \in Indexing
  <2> SUFFICES ASSUME NEW b \in headers, Height[b] \notin DOMAIN index
               PROVE  \E w \in Validators : job'[w].block = b /\ job'[w].pc \in Indexing
      OBVIOUS
  <2>1. PICK w \in Validators : job[w].block = b /\ job[w].pc \in Indexing
      BY DEF IndexInv
  <2>2. CASE w = v
      BY <2>1, <2>2 DEF Indexing
  <2>3. CASE w # v
      BY <2>1, <2>3
  <2> QED BY <2>2, <2>3
<1>2. \A w \in Validators : job'[w].pc # "idle" =>
          \/ Parent[job'[w].block] = Zero
          \/ Height[job'[w].block] = Height[Parent[job'[w].block]] + 1
    BY DEF IndexInv
<1> QED BY <1>1, <1>2 DEF IndexInv

\* The steps that leave headers and index alone.
LEMMA UnindexedSteps ==
    ASSUME IInv, IndexInv, NEW v \in Validators,
           \/ \E b \in Blocks \ {Genesis} : Offer(v, b)
           \/ CheckTime(v) \/ Read(v) \/ Execute(v) \/ LoadMeta(v) \/ PutMeta(v)
           \/ ChooseTip(v) \/ SetTip(v)
    PROVE  IndexInv'
<1>0. job \in [Validators -> Jobs] /\ Zero \notin headers
    BY TreeAssumption DEF IInv, TypeOK
<1>1. ASSUME NEW b \in Blocks \ {Genesis}, Offer(v, b) PROVE IndexInv'
  <2>1. /\ job[v].pc = "idle" /\ job'[v].block = b /\ UNCHANGED <<headers, index>>
        /\ \A w \in Validators \ {v} : job'[w] = job[w]
      BY <1>0, <1>1 DEF Offer, Idle
  <2>2. Parent[b] = Zero \/ Height[b] = Height[Parent[b]] + 1
      BY <1>1 DEF Offer, HeaderOK
  <2> QED BY <2>1, <2>2, UnindexedStep DEF Indexing
<1>2. CASE CheckTime(v) \/ Read(v) \/ Execute(v) \/ LoadMeta(v) \/ ChooseTip(v) \/ SetTip(v)
  <2>1. /\ job[v].pc # "idle" /\ job[v].pc \notin Indexing /\ UNCHANGED <<headers, index>>
        /\ \A w \in Validators \ {v} : job'[w] = job[w]
        /\ job'[v].pc = "idle" \/ job'[v].block = job[v].block
    <3>1. CASE CheckTime(v)
        BY <1>0, <3>1 DEF CheckTime, Goto, Return, Idle, Jobs, Indexing
    <3>2. CASE Read(v) \/ Execute(v)
        BY <1>0, <3>2 DEF Read, Execute, Goto, Return, Idle, Jobs, Indexing
    <3>3. CASE LoadMeta(v)
        BY <1>0, <3>3 DEF LoadMeta, Return, Idle, Jobs, Indexing
    <3>4. CASE ChooseTip(v) \/ SetTip(v)
        BY <1>0, <3>4 DEF ChooseTip, SetTip, Return, Idle, Jobs, Indexing
    <3> QED BY <1>2, <3>1, <3>2, <3>3, <3>4
  <2> QED BY <2>1, UnindexedStep
<1>3. CASE PutMeta(v)
  <2>1. /\ job[v].pc # "idle" /\ job'[v].pc = "index" /\ job'[v].block = job[v].block
        /\ UNCHANGED <<headers, index>> /\ \A w \in Validators \ {v} : job'[w] = job[w]
      BY <1>0, <1>3 DEF PutMeta, Goto, Jobs
  <2> QED BY <2>1, UnindexedStep DEF Indexing
<1> QED BY <1>1, <1>2, <1>3

\* A header is stored one above its parent's, by a call that indexes it later.
LEMMA PutHeaderIndex ==
    ASSUME IInv, IndexInv, NEW v \in Validators, PutHeader(v) PROVE IndexInv'
<1> USE TreeAssumption, HeaderAssumption
<1> DEFINE b == job[v].block
<1>0. /\ job \in [Validators -> Jobs] /\ b \in Blocks \ {Genesis} /\ job[v].pc = "header"
      /\ headers \subseteq Blocks /\ Parent[b] \in headers /\ Genesis \in Blocks
    BY JobFacts DEF PutHeader, IInv, TypeOK, Loaded
<1>1. /\ job'[v].pc = "putMeta" /\ job'[v].block = b /\ UNCHANGED index
      /\ headers' = headers \cup {b} /\ \A w \in Validators \ {v} : job'[w] = job[w]
    BY <1>0 DEF PutHeader, Goto, Jobs
<1>2. Height[b] = Height[Parent[b]] + 1 /\ Height[b] \in Nat /\ Height[Parent[b]] \in Nat
      /\ Height[Genesis] \in Nat
    BY <1>0 DEF IndexInv
<1> HIDE DEF b
<1>3. ASSUME NEW c \in headers'
      PROVE  \/ Height[c] \in DOMAIN index'
             \/ \E w \in Validators : job'[w].block = c /\ job'[w].pc \in Indexing
  <2>1. CASE c = b
      BY <1>1, <2>1 DEF Indexing
  <2>2. CASE c # b
    <3>1. CASE Height[c] \in DOMAIN index
        BY <1>1, <3>1
    <3>2. CASE Height[c] \notin DOMAIN index
      <4>1. PICK w \in Validators : job[w].block = c /\ job[w].pc \in Indexing
          BY <1>1, <2>2, <3>2 DEF IndexInv
      <4>2. w # v
          BY <1>0, <4>1 DEF Indexing
      <4> QED BY <1>1, <4>1, <4>2
    <3> QED BY <3>1, <3>2
  <2> QED BY <2>1, <2>2
<1>4. ASSUME NEW c \in headers', NEW h \in Height[Genesis]..Height[c]
      PROVE  \E d \in headers' : Height[d] = h
  <2>1. CASE c # b
      BY <1>1, <2>1 DEF IndexInv
  <2>2. CASE c = b /\ h = Height[b]
      BY <1>1, <2>2
  <2>3. CASE c = b /\ h # Height[b]
    <3>1. h \in Height[Genesis]..Height[Parent[b]]
        BY <1>2, <2>3
    <3> QED BY <1>0, <1>1, <3>1 DEF IndexInv
  <2> QED BY <2>1, <2>2, <2>3
<1>5. \A w \in Validators : job'[w].pc # "idle" =>
          \/ Parent[job'[w].block] = Zero
          \/ Height[job'[w].block] = Height[Parent[job'[w].block]] + 1
    BY <1>1, <1>2 DEF IndexInv
<1> QED BY <1>1, <1>3, <1>4, <1>5 DEF IndexInv

\* A block is put under its own height; another one of that height may leave.
LEMMA PutIndexIndex ==
    ASSUME IInv, IndexInv, NEW v \in Validators, PutIndex(v) PROVE IndexInv'
<1> DEFINE b == job[v].block
<1>0. job \in [Validators -> Jobs] /\ job[v].pc = "index"
    BY DEF PutIndex, IInv, TypeOK
<1>1. /\ job'[v].pc = "choose" /\ job'[v].block = b /\ UNCHANGED headers
      /\ \A w \in Validators \ {v} : job'[w] = job[w]
    BY <1>0 DEF PutIndex, Goto, Jobs
<1>2. /\ DOMAIN index' = DOMAIN index \cup {Height[b]} /\ index'[Height[b]] = b
      /\ \A h \in DOMAIN index : h # Height[b] => index'[h] = index[h]
    BY DEF PutIndex, Put
<1> HIDE DEF b
<1>3. \A h \in DOMAIN index' : Height[index'[h]] = h
    BY <1>2 DEF IndexInv
<1>4. ASSUME NEW c \in headers'
      PROVE  \/ Height[c] \in DOMAIN index'
             \/ \E w \in Validators : job'[w].block = c /\ job'[w].pc \in Indexing
  <2>1. CASE Height[c] \in DOMAIN index'
      BY <2>1
  <2>2. CASE Height[c] \notin DOMAIN index'
    <3>1. PICK w \in Validators : job[w].block = c /\ job[w].pc \in Indexing
        BY <1>1, <1>2, <2>2 DEF IndexInv
    <3>2. w # v
        BY <1>2, <2>2, <3>1 DEF b
    <3> QED BY <1>1, <3>1, <3>2
  <2> QED BY <2>1, <2>2
<1>5. \A w \in Validators : job'[w].pc # "idle" =>
          \/ Parent[job'[w].block] = Zero
          \/ Height[job'[w].block] = Height[Parent[job'[w].block]] + 1
    BY <1>0, <1>1 DEF IndexInv, b
<1> QED BY <1>1, <1>3, <1>4, <1>5 DEF IndexInv

\* However many calls are in flight, once they are through every height up to the
\* tip's is indexed, under a block of that height (putBlock, getBlockAtHeight).
THEOREM IndexHasNoGap == Spec => []IndexCoversTip
<1>1. (IInv /\ IndexInv) /\ [Next]_vars => (IInv /\ IndexInv)'
  <2> SUFFICES ASSUME IInv, IndexInv, [Next]_vars PROVE IndexInv'
      BY NextIInv
  <2>1. CASE UNCHANGED vars
      BY <2>1 DEF vars, IndexInv
  <2>2. ASSUME NEW v \in Validators, Step(v) \/ \E b \in Blocks \ {Genesis} : Offer(v, b)
        PROVE  IndexInv'
      BY <2>2, UnindexedSteps, PutHeaderIndex, PutIndexIndex DEF Step
  <2> QED BY <2>1, <2>2 DEF Next
<1>2. IInv /\ IndexInv => IndexCoversTip
  <2> SUFFICES ASSUME IInv, IndexInv, Quiet, NEW h \in Height[Genesis]..Height[tip]
               PROVE  h \in DOMAIN index /\ Height[index[h]] = h
      BY DEF IndexCoversTip
  <2>1. tip \in headers
      BY DEF IInv, TypeOK
  <2>2. PICK c \in headers : Height[c] = h
      BY <2>1 DEF IndexInv
  <2>3. h \in DOMAIN index
      BY <2>2 DEF IndexInv, Quiet, Indexing
  <2> QED BY <2>3 DEF IndexInv
<1> QED BY <1>1, <1>2, InitIInv, InitIndexInv, PTL DEF Spec

-----------------------------------------------------------------------------
(* Chain implements BestChain: a block counts as accepted when PutMeta stores   *)
(* it with at most the tip's work, or when SetTip makes it the tip.            *)
Accepted == [b \in Settled |-> metas[b]]

\* The genesis block is the chain of the abstract specification's first state.
LEMMA InitRefines == Init => Best!Init
<1> SUFFICES ASSUME Init PROVE Best!Init
    OBVIOUS
<1>1. metas = [b \in {Genesis} |-> 0] /\ tip = Genesis
    BY DEF Init
<1>2. Settled = {Genesis}
    BY <1>1 DEF Settled
<1> QED BY <1>1, <1>2 DEF Best!Init

\* A step after which the settled blocks are the same, with the same work, and
\* the tip too, is no step of BestChain.
LEMMA Stutter ==
    ASSUME UNCHANGED tip, Settled' = Settled, \A b \in Settled : metas'[b] = metas[b]
    PROVE  UNCHANGED Best!vars
BY DEF Best!vars

\* PutMeta: the block is accepted unless it is heavier than the tip.
LEMMA PutMetaRefines ==
    ASSUME OneCall, IInv, TipInv, NEW v \in Validators, PutMeta(v)
    PROVE  [Best!Next]_Best!vars
<1> USE TreeAssumption, HeaderAssumption
<1> DEFINE b == job[v].block
<1>1. /\ job[v].pc = "putMeta" /\ UNCHANGED tip /\ tip \in DOMAIN metas /\ b \in Blocks \ {Genesis}
      /\ Parent[b] \in DOMAIN metas /\ job[v].total = metas[Parent[b]] + Work[b] /\ job[v].total \in Nat
      /\ \A x \in DOMAIN metas : metas[x] \in Nat
    BY JobFacts DEF PutMeta, Loaded, Storing
<1>2. /\ DOMAIN metas' = DOMAIN metas \cup {b} /\ metas'[b] = job[v].total
      /\ \A x \in DOMAIN metas : metas'[x] = metas[x]
    BY PutMetaFacts
<1>3. \A x \in DOMAIN metas : metas[x] <= metas[tip]
    BY <1>1 DEF TipInv, OneCall, Stored
<1> HIDE DEF b
<1>4. CASE b \in DOMAIN metas \/ job[v].total > metas[tip]
  <2>1. Settled' = Settled
      BY <1>1, <1>2, <1>4 DEF Settled
  <2>2. \A x \in Settled : metas'[x] = metas[x]
      BY <1>2 DEF Settled
  <2> QED BY <1>1, <2>1, <2>2, Stutter
<1>5. CASE b \notin DOMAIN metas /\ ~ (job[v].total > metas[tip])
  <2>1. Settled = DOMAIN metas /\ Settled' = Settled \cup {b}
      BY <1>1, <1>2, <1>3, <1>5 DEF Settled
  <2>2. Accepted' = [x \in DOMAIN Accepted \cup {b} |-> IF x = b THEN Accepted[Parent[b]] + Work[b] ELSE Accepted[x]]
      BY <1>1, <1>2, <1>5, <2>1 DEF Accepted
  <2>3. ~ (Accepted[Parent[b]] + Work[b] > Accepted[tip])
      BY <1>1, <1>5, <2>1 DEF Accepted
  <2>4. b \notin DOMAIN Accepted /\ Parent[b] \in DOMAIN Accepted
      BY <1>1, <1>5, <2>1 DEF Accepted
  <2>5. Best!Next
      BY <1>1, <2>2, <2>3, <2>4 DEF Best!Next, Best!Accept, Accepted
  <2> QED BY <2>5
<1> QED BY <1>4, <1>5

\* SetTip: the heavier block is accepted and becomes the tip at once.
LEMMA SetTipRefines ==
    ASSUME OneCall, IInv, TipInv, NEW v \in Validators, SetTip(v)
    PROVE  [Best!Next]_Best!vars
<1> USE TreeAssumption, HeaderAssumption
<1> DEFINE b == job[v].block
<1>1. /\ job[v].pc = "set" /\ tip' = b /\ UNCHANGED metas /\ b \in DOMAIN metas
      /\ metas[b] = job[v].total /\ metas[b] > metas[tip]
    BY SetTipFacts
<1>2. /\ b \in Blocks \ {Genesis} /\ tip \in DOMAIN metas /\ Parent[b] \in DOMAIN metas
      /\ metas[b] = metas[Parent[b]] + Work[b] /\ \A x \in DOMAIN metas : metas[x] \in Nat
    BY <1>1, JobFacts DEF Loaded, Storing, Stored
<1>3. Parent[b] # b /\ \A x \in DOMAIN metas : x # b => metas[x] <= metas[tip]
    BY <1>1 DEF TipInv, OneCall
<1> HIDE DEF b
<1>4. Settled = DOMAIN metas \ {b} /\ Settled' = DOMAIN metas
    BY <1>1, <1>2, <1>3 DEF Settled
<1>5. Accepted' = [x \in DOMAIN Accepted \cup {b} |-> IF x = b THEN Accepted[Parent[b]] + Work[b] ELSE Accepted[x]]
    BY <1>1, <1>2, <1>3, <1>4 DEF Accepted
<1>6. Accepted[Parent[b]] + Work[b] > Accepted[tip]
    BY <1>1, <1>2, <1>3, <1>4 DEF Accepted
<1>7. b \notin DOMAIN Accepted /\ Parent[b] \in DOMAIN Accepted
    BY <1>2, <1>3, <1>4 DEF Accepted
<1>8. Best!Next
    BY <1>1, <1>2, <1>5, <1>6, <1>7 DEF Best!Next, Best!Accept, Accepted
<1> QED BY <1>8

\* A node that validates one block at a time keeps the promise of BestChain:
\* parents first, cumulative work, and the tip moves only to a heavier chain
\* and as soon as there is one.
THEOREM Refinement == ASSUME OneCall PROVE Spec => ImplementsBestChain
<1>1. (IInv /\ TipInv) /\ [Next]_vars => [Best!Next]_Best!vars
  <2> SUFFICES ASSUME IInv, TipInv, [Next]_vars PROVE [Best!Next]_Best!vars
      OBVIOUS
  <2>1. CASE \E v \in Validators : SetTip(v)
      BY <2>1, SetTipRefines
  <2>2. CASE \E v \in Validators : PutMeta(v)
      BY <2>2, PutMetaRefines
  <2>3. CASE UNCHANGED <<metas, tip>>
    <3>1. Settled' = Settled
        BY <2>3 DEF Settled
    <3> QED BY <2>3, <3>1, Stutter
  <2> QED BY <2>1, <2>2, <2>3, OtherSteps
<1> QED BY InitRefines, <1>1, SpecTipInv, PTL DEF Spec, ImplementsBestChain, Best!Spec

-----------------------------------------------------------------------------
(* Account instructions: what handlers may write.                            *)

\* What a handler may ask to write of a request: it starts it, adds a signature to it,
\* or closes it.
Started(id, v) ==
    ~Exists(id) /\ v.status = "pending" /\ v.signatures = <<>> /\ Exists(v.policy)
SignedBy(id, v, address) ==
    /\ Exists(id) /\ state[id].status = "pending" /\ state[id].expires > now
    /\ v.policy = state[id].policy /\ ~Signed(id, address)
    /\ \E tier \in Claims : v.signatures = Append(state[id].signatures, [by |-> address, tier |-> tier])
    /\ v.status = IF IsPolicySatisfied(state[v.policy], v.signatures) THEN "approved" ELSE "pending"
Closed(id, v) ==
    /\ Exists(id) /\ v.policy = state[id].policy /\ v.signatures = state[id].signatures
    /\ \/ state[id].status = "pending" /\ v.status \in {"rejected", "cancelled"}
       \/ state[id].status = "approved" /\ v.status = "executed"
Advances(id, v) == Started(id, v) \/ (\E address \in Addresses : SignedBy(id, v, address)) \/ Closed(id, v)

\* A write is of the kind of its id.
Fits(w) ==
    /\ w.id \in OrgIds => w.value \in Organisations
    /\ w.id \in RoleIds => w.value \in Roles
    /\ w.id \in UnitIds => w.value \in Units
    /\ w.id \in MemberIds => w.value \in Members \cup {Absent}
    /\ w.id \in PolicyIds => w.value \in Policies
    /\ w.id \in ApprovalIds => w.value \in Requested /\ Advances(w.id, w.value)

LEMMA KindsFit ==
    ASSUME NEW w
    PROVE  /\ w.id \in OrgIds /\ w.value \in Organisations => Fits(w)
           /\ w.id \in RoleIds /\ w.value \in Roles => Fits(w)
           /\ w.id \in UnitIds /\ w.value \in Units => Fits(w)
           /\ w.id \in MemberIds /\ w.value \in Members \cup {Absent} => Fits(w)
           /\ w.id \in PolicyIds /\ w.value \in Policies => Fits(w)
           /\ w.id \in ApprovalIds /\ w.value \in Requested /\ Advances(w.id, w.value) => Fits(w)
           /\ w.id = None => Fits(w)
<1>1. /\ OrgIds \cap (RoleIds \cup UnitIds \cup MemberIds \cup PolicyIds \cup ApprovalIds) = {}
      /\ RoleIds \cap (UnitIds \cup MemberIds \cup PolicyIds \cup ApprovalIds) = {}
      /\ UnitIds \cap (MemberIds \cup PolicyIds \cup ApprovalIds) = {}
      /\ MemberIds \cap (PolicyIds \cup ApprovalIds) = {}
      /\ PolicyIds \cap ApprovalIds = {} /\ None \notin Ids
  BY AccountsAssumption
<1> HIDE DEF Organisations, Roles, Units, Members, Policies, Requested, MemberIds, Advances
<1> QED BY <1>1 DEF Fits, Ids

\* Versions that programs expect leave room for the next one.
LEMMA NextVersion ==
    ASSUME NEW v \in Expected
    PROVE  v + 1 \in Versions
BY AccountsAssumption DEF Expected, Versions

LEMMA ZeroVersion == 0 \in Versions
BY AccountsAssumption DEF Versions

\* What is stored is not Absent, and is of the kind of its id.
LEMMA StoredAre ==
    ASSUME AccountsTypeOK
    PROVE  /\ \A id \in OrgIds : Exists(id) => state[id] \in Organisations
           /\ \A id \in RoleIds : Exists(id) => state[id] \in Roles
           /\ \A id \in UnitIds : Exists(id) => state[id] \in Units
           /\ \A id \in MemberIds : Exists(id) => state[id] \in Members
           /\ \A id \in PolicyIds : Exists(id) => state[id] \in Policies
           /\ \A id \in ApprovalIds : Exists(id) => state[id] \in Requested
BY DEF AccountsTypeOK, Holds, Exists

LEMMA OrganisationsFit ==
    ASSUME AccountsTypeOK, NEW from \in Addresses, NEW ir \in Instructions, NEW w \in Handler(from, ir),
           ir.op \in {"ORG_CREATE", "ORG_UPDATE"}
    PROVE  Fits(w)
<1>1. CASE ir.op = "ORG_CREATE"
  <2>1. ir \in [op : {"ORG_CREATE"}, org : OrgIds]
    BY <1>1 DEF Instructions
  <2>2. w \in ORG_CREATE(from, ir)
    BY <1>1 DEF Handler
  <2>3. w = StateWrite(ir.org, [owner |-> from, active |-> TRUE, version |-> 0])
    BY <2>2 DEF ORG_CREATE, If
  <2>4. w.id \in OrgIds /\ w.value \in Organisations
    BY <2>1, <2>3, ZeroVersion DEF StateWrite, Organisations
  <2> QED BY <2>4, KindsFit
<1>2. CASE ir.op = "ORG_UPDATE"
  <2>1. ir \in [op : {"ORG_UPDATE"}, org : OrgIds, owner : Addresses, active : BOOLEAN, version : Expected]
    BY <1>2 DEF Instructions
  <2>2. w \in ORG_UPDATE(from, ir)
    BY <1>2 DEF Handler
  <2>3. w = StateWrite(ir.org, [owner |-> ir.owner, active |-> ir.active, version |-> ir.version + 1])
    BY <2>2 DEF ORG_UPDATE, If
  <2>4. w.id \in OrgIds /\ w.value \in Organisations
    BY <2>1, <2>3, NextVersion DEF StateWrite, Organisations
  <2> QED BY <2>4, KindsFit
<1> QED BY <1>1, <1>2

LEMMA RolesFit ==
    ASSUME AccountsTypeOK, NEW from \in Addresses, NEW ir \in Instructions, NEW w \in Handler(from, ir),
           ir.op \in {"ORG_ROLE_CREATE", "ORG_ROLE_UPDATE"}
    PROVE  Fits(w)
<1>1. CASE ir.op = "ORG_ROLE_CREATE"
  <2>1. ir \in [op : {"ORG_ROLE_CREATE"}, role : RoleIds, perms : SUBSET Perms, inherits : SUBSET RoleIds]
    BY <1>1 DEF Instructions
  <2>2. w \in ORG_ROLE_CREATE(from, ir)
    BY <1>1 DEF Handler
  <2>3. w = StateWrite(ir.role, [perms |-> ir.perms, inherits |-> ir.inherits, active |-> TRUE, version |-> 0])
    BY <2>2 DEF ORG_ROLE_CREATE, If
  <2>4. w.id \in RoleIds /\ w.value \in Roles
    BY <2>1, <2>3, ZeroVersion DEF StateWrite, Roles
  <2> QED BY <2>4, KindsFit
<1>2. CASE ir.op = "ORG_ROLE_UPDATE"
  <2>1. ir \in [op : {"ORG_ROLE_UPDATE"}, role : RoleIds, perms : SUBSET Perms, inherits : SUBSET RoleIds,
                active : BOOLEAN, version : Expected]
    BY <1>2 DEF Instructions
  <2>2. w \in ORG_ROLE_UPDATE(from, ir)
    BY <1>2 DEF Handler
  <2>3. w = StateWrite(ir.role, [perms |-> ir.perms, inherits |-> ir.inherits, active |-> ir.active,
                                 version |-> ir.version + 1])
    BY <2>2 DEF ORG_ROLE_UPDATE, If
  <2>4. w.id \in RoleIds /\ w.value \in Roles
    BY <2>1, <2>3, NextVersion DEF StateWrite, Roles
  <2> QED BY <2>4, KindsFit
<1> QED BY <1>1, <1>2

LEMMA UnitsFit ==
    ASSUME AccountsTypeOK, NEW from \in Addresses, NEW ir \in Instructions, NEW w \in Handler(from, ir),
           ir.op \in {"ORG_UNIT_CREATE", "ORG_UNIT_UPDATE"}
    PROVE  Fits(w)
<1>1. CASE ir.op = "ORG_UNIT_CREATE"
  <2>1. ir \in [op : {"ORG_UNIT_CREATE"}, unit : UnitIds, parent : UnitIds \cup {None}]
    BY <1>1 DEF Instructions
  <2>2. w \in ORG_UNIT_CREATE(from, ir)
    BY <1>1 DEF Handler
  <2>3. w = StateWrite(ir.unit, [parent |-> ir.parent, active |-> TRUE, version |-> 0])
    BY <2>2 DEF ORG_UNIT_CREATE, If
  <2>4. w.id \in UnitIds /\ w.value \in Units
    BY <2>1, <2>3, ZeroVersion DEF StateWrite, Units
  <2> QED BY <2>4, KindsFit
<1>2. CASE ir.op = "ORG_UNIT_UPDATE"
  <2>1. ir \in [op : {"ORG_UNIT_UPDATE"}, unit : UnitIds, parent : UnitIds \cup {None}, active : BOOLEAN,
                version : Expected]
    BY <1>2 DEF Instructions
  <2>2. w \in ORG_UNIT_UPDATE(from, ir)
    BY <1>2 DEF Handler
  <2>3. w = StateWrite(ir.unit, [parent |-> ir.parent, active |-> ir.active, version |-> ir.version + 1])
    BY <2>2 DEF ORG_UNIT_UPDATE, If
  <2>4. w.id \in UnitIds /\ w.value \in Units
    BY <2>1, <2>3, NextVersion DEF StateWrite, Units
  <2> QED BY <2>4, KindsFit
<1> QED BY <1>1, <1>2

LEMMA MembersFit ==
    ASSUME AccountsTypeOK, NEW from \in Addresses, NEW ir \in Instructions, NEW w \in Handler(from, ir),
           ir.op \in {"ORG_MEMBER_ADD", "ORG_MEMBER_UPDATE", "ORG_MEMBER_REMOVE", "ORG_CHECK_PERM"}
    PROVE  Fits(w)
<1>1. CASE ir.op = "ORG_MEMBER_ADD"
  <2>1. ir \in [op : {"ORG_MEMBER_ADD"}, org : OrgIds, address : Addresses, add : SUBSET Assignments]
    BY <1>1 DEF Instructions
  <2>2. w \in ORG_MEMBER_ADD(from, ir)
    BY <1>1 DEF Handler
  <2>3. w = StateWrite(<<ir.org, ir.address>>, [assigned |-> ir.add, version |-> 0])
    BY <2>2 DEF ORG_MEMBER_ADD, If
  <2>4. w.id \in MemberIds /\ w.value \in Members
    BY <2>1, <2>3, ZeroVersion DEF StateWrite, Members, MemberIds
  <2> QED BY <2>4, KindsFit
<1>2. CASE ir.op = "ORG_MEMBER_UPDATE"
  <2>1. ir \in [op : {"ORG_MEMBER_UPDATE"}, org : OrgIds, address : Addresses, add : SUBSET Assignments,
                remove : SUBSET RoleIds, version : Expected]
    BY <1>2 DEF Instructions
  <2>2. w \in ORG_MEMBER_UPDATE(from, ir)
    BY <1>2 DEF Handler
  <2> DEFINE id == <<ir.org, ir.address>>
             assigned == {x \in state[id].assigned : x.role \notin ir.remove} \cup ir.add
  <2>3. w = StateWrite(id, [assigned |-> assigned, version |-> ir.version + 1]) /\ Exists(id)
    BY <2>2 DEF ORG_MEMBER_UPDATE, If
  <2>4. id \in MemberIds
    BY <2>1 DEF MemberIds
  <2>5. state[id].assigned \in SUBSET Assignments
    BY <2>3, <2>4, StoredAre DEF Members
  <2>6. assigned \in SUBSET Assignments /\ ir.version + 1 \in Versions
    BY <2>1, <2>5, NextVersion
  <2>7. w.id \in MemberIds /\ w.value \in Members
    <3> HIDE DEF id, assigned
    <3> QED BY <2>3, <2>4, <2>6 DEF StateWrite, Members
  <2> QED BY <2>7, KindsFit
<1>3. CASE ir.op = "ORG_MEMBER_REMOVE"
  <2>1. ir \in [op : {"ORG_MEMBER_REMOVE"}, org : OrgIds, address : Addresses]
    BY <1>3 DEF Instructions
  <2>2. w \in ORG_MEMBER_REMOVE(from, ir)
    BY <1>3 DEF Handler
  <2>3. w = StateWrite(<<ir.org, ir.address>>, Absent)
    BY <2>2 DEF ORG_MEMBER_REMOVE, If
  <2>4. w.id \in MemberIds /\ w.value = Absent
    BY <2>1, <2>3 DEF StateWrite, MemberIds
  <2> QED BY <2>4, KindsFit
<1>4. CASE ir.op = "ORG_CHECK_PERM"
  <2>1. w \in ORG_CHECK_PERM(from, ir)
    BY <1>4 DEF Handler
  <2>2. w.id = None
    BY <2>1 DEF ORG_CHECK_PERM, If, NoWrite, StateWrite
  <2> QED BY <2>2, KindsFit
<1> QED BY <1>1, <1>2, <1>3, <1>4

LEMMA PoliciesFit ==
    ASSUME AccountsTypeOK, NEW from \in Addresses, NEW ir \in Instructions, NEW w \in Handler(from, ir),
           ir.op \in {"APPROVAL_POLICY_CREATE", "APPROVAL_POLICY_UPDATE"}
    PROVE  Fits(w)
<1>1. CASE ir.op = "APPROVAL_POLICY_CREATE"
  <2> DEFINE d == ir.draft
  <2>1. /\ ir \in [op : {"APPROVAL_POLICY_CREATE"}, policy : PolicyIds,
                   draft : [type : Kinds, threshold : Nat, signers : Signers, tiers : Seq(Tiers)]]
    BY <1>1 DEF Instructions
  <2>2. w \in APPROVAL_POLICY_CREATE(from, ir)
    BY <1>1 DEF Handler
  <2>3. w = StateWrite(ir.policy, [type |-> d.type, threshold |-> d.threshold, signers |-> d.signers,
                                   tiers |-> d.tiers, active |-> TRUE, version |-> 0])
    BY <2>2 DEF APPROVAL_POLICY_CREATE, If
  <2>4. w.id \in PolicyIds /\ w.value \in Policies
    BY <2>1, <2>3, ZeroVersion DEF StateWrite, Policies
  <2> QED BY <2>4, KindsFit
<1>2. CASE ir.op = "APPROVAL_POLICY_UPDATE"
  <2>1. ir \in [op : {"APPROVAL_POLICY_UPDATE"}, policy : PolicyIds, threshold : Nat, signers : Signers,
                active : BOOLEAN, version : Expected]
    BY <1>2 DEF Instructions
  <2>2. w \in APPROVAL_POLICY_UPDATE(from, ir)
    BY <1>2 DEF Handler
  <2>3. PICK p : p = state[ir.policy]
    OBVIOUS
  <2>4. /\ w = StateWrite(ir.policy, [p EXCEPT !.threshold = ir.threshold, !.signers = ir.signers,
                                               !.active = ir.active, !.version = @ + 1])
        /\ p.version = ir.version /\ p \in Policies
    <3>1. Exists(ir.policy)
      BY <2>2 DEF APPROVAL_POLICY_UPDATE, If
    <3>2. p \in Policies
      BY <2>1, <2>3, <3>1, StoredAre
    <3> QED BY <2>2, <2>3, <3>2 DEF APPROVAL_POLICY_UPDATE, If
  <2>5. p.version + 1 \in Versions
    BY <2>1, <2>4, NextVersion
  <2>6. w.id \in PolicyIds /\ w.value \in Policies
    BY <2>1, <2>4, <2>5 DEF StateWrite, Policies
  <2> QED BY <2>6, KindsFit
<1> QED BY <1>1, <1>2

LEMMA RequestsFit ==
    ASSUME AccountsTypeOK, NEW from \in Addresses, NEW ir \in Instructions, NEW w \in Handler(from, ir),
           ir.op \in {"APPROVAL_REQUEST", "APPROVAL_REJECT", "APPROVAL_CANCEL", "APPROVAL_EXECUTE"}
    PROVE  Fits(w)
<1>1. CASE ir.op = "APPROVAL_REQUEST"
  <2>1. ir \in [op : {"APPROVAL_REQUEST"}, approval : ApprovalIds, policy : PolicyIds, expires : Nat]
    BY <1>1 DEF Instructions
  <2>2. w \in APPROVAL_REQUEST(from, ir)
    BY <1>1 DEF Handler
  <2>3. /\ w = StateWrite(ir.approval, [policy |-> ir.policy, status |-> "pending", signatures |-> <<>>,
                                        expires |-> ir.expires])
        /\ ~Exists(ir.approval) /\ Exists(ir.policy)
    BY <2>2 DEF APPROVAL_REQUEST, If
  <2>4. <<>> \in Signatures
    BY DEF Signatures
  <2>5. w.id \in ApprovalIds /\ w.value \in Requested /\ Started(w.id, w.value)
    BY <2>1, <2>3, <2>4 DEF StateWrite, Requested, Statuses, Started, Exists
  <2> QED BY <2>5, KindsFit DEF Advances
<1>2. CASE ir.op \in {"APPROVAL_REJECT", "APPROVAL_CANCEL", "APPROVAL_EXECUTE"}
  <2>1. ir.approval \in ApprovalIds
    BY <1>2 DEF Instructions
  <2>2. w \in APPROVAL_REJECT(from, ir) \/ w \in APPROVAL_CANCEL(from, ir) \/ w \in APPROVAL_EXECUTE(from, ir)
    BY <1>2 DEF Handler
  <2>3. PICK a : a = state[ir.approval]
    OBVIOUS
  <2>4. Exists(ir.approval)
    BY <2>2 DEF APPROVAL_REJECT, APPROVAL_CANCEL, APPROVAL_EXECUTE, If, Pending
  <2>5. PICK status \in {"rejected", "cancelled", "executed"} :
           /\ w = StateWrite(ir.approval, [a EXCEPT !.status = status])
           /\ \/ a.status = "pending" /\ status \in {"rejected", "cancelled"}
              \/ a.status = "approved" /\ status = "executed"
    BY <2>2, <2>3 DEF APPROVAL_REJECT, APPROVAL_CANCEL, APPROVAL_EXECUTE, If, Pending, SetStatus
  <2>6. a \in Requested
    BY <2>1, <2>3, <2>4, StoredAre
  <2>7. w.id = ir.approval /\ w.value = [a EXCEPT !.status = status]
    BY <2>5 DEF StateWrite
  <2>8. w.value \in Requested /\ w.value.policy = a.policy /\ w.value.signatures = a.signatures
        /\ w.value.status = status
    BY <2>6, <2>7 DEF Requested, Statuses
  <2>9. Closed(w.id, w.value)
    BY <2>3, <2>4, <2>5, <2>7, <2>8 DEF Closed
  <2> QED BY <2>1, <2>7, <2>8, <2>9, KindsFit DEF Advances
<1> QED BY <1>1, <1>2

LEMMA SignaturesFit ==
    ASSUME AccountsTypeOK, NEW from \in Addresses, NEW ir \in Instructions, NEW w \in Handler(from, ir),
           ir.op = "APPROVAL_SIGN"
    PROVE  Fits(w)
<1>1. ir \in [op : {"APPROVAL_SIGN"}, approval : ApprovalIds, tier : Claims]
  BY DEF Instructions
<1>2. w \in APPROVAL_SIGN(from, ir)
  BY DEF Handler
<1>3. PICK a : a = state[ir.approval]
  OBVIOUS
<1>4. PICK signed : signed = Append(a.signatures, [by |-> from, tier |-> ir.tier])
  OBVIOUS
<1>5. PICK status \in {"approved", "pending"} :
         status = IF IsPolicySatisfied(state[a.policy], signed) THEN "approved" ELSE "pending"
  OBVIOUS
<1>6. /\ Exists(ir.approval) /\ a.status = "pending" /\ a.expires > now /\ ~Signed(ir.approval, from)
      /\ w = StateWrite(ir.approval, [a EXCEPT !.signatures = signed, !.status = status])
  BY <1>2, <1>3, <1>4, <1>5 DEF APPROVAL_SIGN, If, Pending
<1>7. a \in Requested
  BY <1>1, <1>3, <1>6, StoredAre
<1>8. signed \in Signatures
  <2>1. a.signatures \in Signatures /\ [by |-> from, tier |-> ir.tier] \in [by : Addresses, tier : Claims]
    BY <1>1, <1>7 DEF Requested
  <2> QED BY <1>4, <2>1, AppendProperties DEF Signatures
<1>9. w.id = ir.approval /\ w.value = [a EXCEPT !.signatures = signed, !.status = status]
  BY <1>6 DEF StateWrite
<1>10. /\ w.value \in Requested /\ w.value.policy = a.policy
       /\ w.value.signatures = signed /\ w.value.status = status
  BY <1>7, <1>8, <1>9 DEF Requested, Statuses
<1>11. SignedBy(w.id, w.value, from)
  <2>1. Append(state[w.id].signatures, [by |-> from, tier |-> ir.tier]) = signed
    BY <1>3, <1>4, <1>9
  <2>2. \E tier \in Claims : signed = Append(state[w.id].signatures, [by |-> from, tier |-> tier])
    BY <1>1, <2>1
  <2> QED BY <1>3, <1>5, <1>6, <1>9, <1>10, <2>2 DEF SignedBy
<1> QED BY <1>1, <1>9, <1>10, <1>11, KindsFit DEF Advances

LEMMA HandlersFit ==
    ASSUME AccountsTypeOK, NEW from \in Addresses, NEW ir \in Instructions, NEW w \in Handler(from, ir)
    PROVE  Fits(w)
<1>1. ir.op \in {"ORG_CREATE", "ORG_UPDATE", "ORG_ROLE_CREATE", "ORG_ROLE_UPDATE", "ORG_UNIT_CREATE",
                 "ORG_UNIT_UPDATE", "ORG_MEMBER_ADD", "ORG_MEMBER_UPDATE", "ORG_MEMBER_REMOVE",
                 "ORG_CHECK_PERM", "APPROVAL_POLICY_CREATE", "APPROVAL_POLICY_UPDATE",
                 "APPROVAL_REQUEST", "APPROVAL_SIGN", "APPROVAL_REJECT", "APPROVAL_CANCEL",
                 "APPROVAL_EXECUTE"}
  BY DEF Instructions
<1> QED BY <1>1, OrganisationsFit, RolesFit, UnitsFit, MembersFit, PoliciesFit, RequestsFit, SignaturesFit

\* A step of a program leaves an id as it is or as a handler that fits it writes it.
LEMMA ProgramsFit ==
    ASSUME AccountsTypeOK, NEW from \in Addresses, NEW program \in Programs, ExecuteProgram(from, program)
    PROVE  /\ DOMAIN state' = Ids /\ now' = now
           /\ \A id \in Ids : state'[id] = state[id] \/ \E w : Fits(w) /\ w.id = id /\ state'[id] = w.value
<1> DEFINE outcome == [i \in DOMAIN program |-> Handler(from, program[i])]
           ws == [i \in DOMAIN program |-> CHOOSE w \in outcome[i] : TRUE]
<1>1. /\ \A i \in DOMAIN program : outcome[i] # {}
      /\ state' = Applied(ws) /\ now' = now
  BY DEF ExecuteProgram
<1>2. program \in Seq(Instructions)
  BY AccountsAssumption
<1>3. ASSUME NEW i \in DOMAIN program PROVE Fits(ws[i])
  <2>1. program[i] \in Instructions
    BY <1>2
  <2>2. ws[i] \in Handler(from, program[i])
    BY <1>1
  <2> QED BY <2>1, <2>2, HandlersFit
<1>4. ASSUME NEW id \in Ids
      PROVE  state'[id] = state[id] \/ \E w : Fits(w) /\ w.id = id /\ state'[id] = w.value
  <2>0. PICK v : v = ws
    OBVIOUS
  <2>1. CASE Writers(v, id) = {}
    BY <1>1, <2>0, <2>1 DEF Applied
  <2>2. CASE Writers(v, id) # {}
    <3> DEFINE S == Writers(v, id)
    <3>1. DOMAIN v = DOMAIN program
      BY <2>0
    <3>2. S \in SUBSET Nat /\ \A k \in S : k <= Len(program)
      BY <1>2, <3>1 DEF Writers
    <3>3. \E m \in S : \A k \in S : k <= m
      <4> HIDE DEF S
      <4>1. Len(program) \in Nat
        BY <1>2
      <4> QED BY <2>2, <3>2, <4>1, GreatestElement DEF S
    <3>4. Newest(S) \in S
      BY <3>3 DEF Newest
    <3>5. Fits(v[Newest(S)]) /\ v[Newest(S)].id = id
      BY <1>3, <2>0, <3>1, <3>4 DEF Writers
    <3>6. state'[id] = v[Newest(S)].value
      BY <1>1, <2>0, <2>2 DEF Applied
    <3> QED BY <3>5, <3>6
  <2> QED BY <2>1, <2>2
<1>5. DOMAIN state' = Ids
  BY <1>1 DEF Applied
<1> QED BY <1>1, <1>4, <1>5

-----------------------------------------------------------------------------
(* The permission gate.                                                     *)

\* What is reached includes where it starts from.
LEMMA ReachesItself ==
    /\ \A r \in RoleIds : r \in InheritedRoles(r)
    /\ \A u \in UnitIds \cup {None} : u \in UnitsAbove(u)
BY DEF InheritedRoles, UnitsAbove, Reached

\* Whatever the types allow, the gate grants no more than the store does.
LEMMA GateHolds ==
    ASSUME AccountsTypeOK
    PROVE  GateWithinStore
<1>1. ASSUME NEW org \in OrgIds, NEW address \in Addresses, NEW unit \in UnitIds \cup {None}, NEW perm \in Perms,
             Exists(org), state[org].active, Granted(org, address, perm, unit)
      PROVE  CheckPermission(org, address, perm, unit)
  <2>1. CASE state[org].owner = address
    BY <1>1, <2>1 DEF CheckPermission
  <2>2. CASE state[org].owner # address
    <3>1. PICK x \in Live(org, address) :
             (unit = None \/ x.unit = None \/ x.unit = unit) /\ perm \in state[x.role].perms
      BY <1>1, <2>2 DEF Granted
    <3>2. Exists(<<org, address>>) /\ x \in state[<<org, address>>].assigned
      BY <3>1 DEF Live
    <3>3. x \in Assignments
      <4>1. <<org, address>> \in MemberIds
        BY DEF MemberIds
      <4>2. state[<<org, address>>] \in Members
        BY <3>2, <4>1, StoredAre
      <4> QED BY <3>2, <4>2 DEF Members
    <3>4. x.role \in InheritedRoles(x.role) /\ unit \in UnitsAbove(unit)
      BY <3>3, ReachesItself DEF Assignments
    <3> QED BY <1>1, <3>1, <3>4 DEF CheckPermission
  <2> QED BY <2>1, <2>2
<1> QED BY <1>1 DEF GateWithinStore

-----------------------------------------------------------------------------
(* The quorum.                                                             *)

\* Nobody's signature is there twice.
SignedOnce(signatures) ==
    \A i, j \in DOMAIN signatures : signatures[i].by = signatures[j].by => i = j

\* Thresholds of tiers that are met by signatures of their own add up to no more than
\* there are signatures.
LEMMA TiersAddUp ==
    ASSUME NEW n \in Nat, NEW f \in [1..n -> Nat], NEW V, IsFiniteSet(V), NEW t,
           \A k \in 1..n : Cardinality({i \in V : t[i] = k - 1}) >= f[k]
    PROVE  Cardinality(V) \in Nat /\ SumFunctionOnSet(f, 1..n) <= Cardinality(V)
<1> DEFINE U(m) == {i \in V : \E k \in 1..m : t[i] = k - 1}
           Sum(m) == SumFunctionOnSet(f, 1..m)
           T == {m \in 0..n : ~(Sum(m) <= Cardinality(U(m)))}
<1>1. ASSUME NEW m \in 0..n
      PROVE  IsFiniteSet(U(m)) /\ Cardinality(U(m)) \in Nat /\ Summable(f, 1..m) /\ Sum(m) \in Int
  <2>1. IsFiniteSet(U(m)) /\ Cardinality(U(m)) \in Nat
    BY FS_Subset, FS_CardinalityType
  <2>2. Summable(f, 1..m)
    BY FS_Interval DEF Summable
  <2> QED BY <2>1, <2>2, SumFacts
<1>2. T = {}
  <2> SUFFICES ASSUME T # {} PROVE FALSE
    OBVIOUS
  <2>1. PICK m \in T : \A k \in T : m <= k
    <3>1. T \in SUBSET Nat
      OBVIOUS
    <3> HIDE DEF T
    <3> QED BY <3>1, LeastElement
  <2>2. CASE m = 0
    <3>1. 1..0 = {}
      OBVIOUS
    <3>2. Summable(f, {})
      BY FS_EmptySet DEF Summable
    <3>3. Sum(m) = 0
      BY <2>2, <3>1, <3>2, SumFacts
    <3>4. m \in 0..n /\ ~(Sum(m) <= Cardinality(U(m))) /\ Cardinality(U(m)) \in Nat
      BY <1>1, <2>1
    <3> HIDE DEF U, Sum, T
    <3> QED BY <3>3, <3>4
  <2>3. CASE m # 0
    <3> DEFINE A == {i \in V : t[i] = m - 1}
    <3>1. m - 1 \in 0..n /\ m \in 1..n /\ ~(m <= m - 1)
      BY <2>1, <2>3
    <3>2. Sum(m - 1) <= Cardinality(U(m - 1))
      <4>1. m - 1 \notin T
        <5> HIDE DEF T
        <5> QED BY <2>1, <3>1
      <4> QED BY <3>1, <4>1
    <3>3. Sum(m) = f[m] + Sum(m - 1)
      <4>1. m \in 1..m /\ (1..m) \ {m} = 1..(m - 1)
        BY <3>1
      <4>2. Summable(f, 1..m)
        BY <1>1, <2>1
      <4>3. SumFunctionOnSet(f, 1..m) = f[m] + SumFunctionOnSet(f, (1..m) \ {m})
        BY <4>1, <4>2, SumSplit
      <4> QED BY <4>1, <4>3
    <3>4. U(m) = U(m - 1) \cup A /\ U(m - 1) \cap A = {}
      <4>1. ASSUME NEW i \in V PROVE i \in U(m) <=> i \in U(m - 1) \/ t[i] = m - 1
        BY <3>1
      <4>2. ASSUME NEW i \in U(m - 1) PROVE t[i] # m - 1
        BY <3>1
      <4> QED BY <4>1, <4>2
    <3>5. IsFiniteSet(A) /\ Cardinality(A) \in Nat
      BY FS_Subset, FS_CardinalityType
    <3>6. Cardinality(U(m)) = Cardinality(U(m - 1)) + Cardinality(A)
      <4> HIDE DEF U, A
      <4>1. IsFiniteSet(U(m - 1)) /\ Cardinality(U(m - 1)) \in Nat
        BY <1>1, <3>1
      <4>2. Cardinality(U(m - 1) \cap A) = 0
        BY <3>4, FS_EmptySet
      <4>3. Cardinality(U(m - 1) \cup A) = Cardinality(U(m - 1)) + Cardinality(A) - Cardinality(U(m - 1) \cap A)
        BY <3>5, <4>1, FS_Union
      <4> QED BY <3>4, <3>5, <4>1, <4>2, <4>3
    <3>7. Cardinality(A) >= f[m] /\ f[m] \in Nat
      BY <3>1
    <3>8. ~(Sum(m) <= Cardinality(U(m))) /\ Sum(m - 1) \in Int /\ Cardinality(U(m - 1)) \in Nat
      BY <1>1, <2>1, <3>1
    <3> HIDE DEF U, A, Sum, T
    <3> QED BY <3>2, <3>3, <3>5, <3>6, <3>7, <3>8
  <2> QED BY <2>2, <2>3
<1>3. Sum(n) <= Cardinality(U(n))
  <2>1. n \in 0..n
    OBVIOUS
  <2> HIDE DEF U, Sum
  <2> QED BY <1>2, <2>1
<1>4. U(n) \in SUBSET V /\ Cardinality(U(n)) <= Cardinality(V) /\ Cardinality(V) \in Nat
  BY FS_Subset, FS_CardinalityType
<1>5. Sum(n) \in Int /\ Cardinality(U(n)) \in Nat
  <2>1. n \in 0..n
    OBVIOUS
  <2> HIDE DEF U, Sum
  <2> QED BY <1>1, <2>1
<1> HIDE DEF U, Sum
<1>6. Sum(n) <= Cardinality(V)
  BY <1>3, <1>4, <1>5
<1> QED BY <1>4, <1>6 DEF Sum

\* The signatures that count are as many as those who gave them.
LEMMA SignersAreCounted ==
    ASSUME NEW signatures \in Signatures, SignedOnce(signatures), NEW S,
           NEW valid, valid = {i \in DOMAIN signatures : signatures[i].by \in S}
    PROVE  /\ IsFiniteSet(valid) /\ Cardinality(valid) \in Nat
           /\ Cardinality({s.by : s \in Range(signatures)} \cap S) = Cardinality(valid)
<1> DEFINE B == {s.by : s \in Range(signatures)} \cap S
           g == [i \in valid |-> signatures[i].by]
<1>1. DOMAIN signatures = 1..Len(signatures) /\ Len(signatures) \in Nat
  BY DEF Signatures
<1>2. IsFiniteSet(valid) /\ Cardinality(valid) \in Nat
  <2>1. IsFiniteSet(1..Len(signatures)) /\ valid \subseteq 1..Len(signatures)
    BY <1>1, FS_Interval
  <2> QED BY <2>1, FS_Subset, FS_CardinalityType
<1>3. g \in Bijection(valid, B)
  <2>1. ASSUME NEW i \in valid PROVE g[i] \in B
    BY DEF Range
  <2>2. ASSUME NEW i \in valid, NEW j \in valid, g[i] = g[j] PROVE i = j
    BY <2>2 DEF SignedOnce
  <2>3. ASSUME NEW b \in B PROVE \E i \in valid : g[i] = b
    BY DEF Range
  <2> HIDE DEF g, B
  <2>4. g \in [valid -> B]
    BY <2>1 DEF g
  <2> QED BY <2>2, <2>3, <2>4, Fun_IsBij
<1>4. Cardinality(B) = Cardinality(valid)
  <2> HIDE DEF g, B
  <2> QED BY <1>2, <1>3, FS_Bijection DEF ExistsBijection
<1> QED BY <1>2, <1>4

\* Signatures that satisfy a policy are of as many of its signers as it requires, when
\* nobody signed twice.
LEMMA SatisfiedIsQuorum ==
    ASSUME NEW policy \in Policies, NEW signatures \in Signatures, SignedOnce(signatures),
           IsPolicySatisfied(policy, signatures)
    PROVE  Cardinality({s.by : s \in Range(signatures)} \cap SignerAddresses(policy)) >= RequiredSignatures(policy)
<1>1. PICK S : S = SignerAddresses(policy)
  OBVIOUS
<1>2. PICK V : V = {i \in DOMAIN signatures : signatures[i].by \in S}
  OBVIOUS
<1>3. /\ IsFiniteSet(V) /\ Cardinality(V) \in Nat
      /\ Cardinality({s.by : s \in Range(signatures)} \cap S) = Cardinality(V)
  BY <1>2, SignersAreCounted
<1>4. PICK t : t = [i \in V |-> signatures[i].tier]
  OBVIOUS
<1> DEFINE OfTier(k) == Cardinality({i \in V : t[i] = k})
<1>5. ASSUME NEW k PROVE {i \in V : signatures[i].tier = k} = {i \in V : t[i] = k}
  BY <1>4
<1>6. /\ policy.type = "threshold" => Cardinality(V) >= policy.threshold
      /\ policy.type = "any" => Cardinality(V) >= 1
      /\ policy.type = "all" => Cardinality(V) >= Len(policy.signers)
      /\ policy.type = "sequential" => \A k \in 0..Len(policy.signers) - 1 : OfTier(k) > 0
      /\ policy.type = "tiered" => \A n \in DOMAIN policy.tiers : OfTier(n - 1) >= policy.tiers[n].threshold
  BY <1>1, <1>2, <1>5 DEF IsPolicySatisfied
<1>7. policy.type \in Kinds /\ policy.signers \in Signers /\ policy.tiers \in Seq(Tiers)
  BY DEF Policies
<1>8. Cardinality(V) >= RequiredSignatures(policy)
  <2>1. CASE policy.type \in {"threshold", "any", "all"}
    BY <1>6, <2>1 DEF RequiredSignatures
  <2>2. CASE policy.type = "sequential"
    <3>1. PICK n \in Nat : n = Len(policy.signers)
      BY <1>7 DEF Signers
    <3>2. ASSUME NEW k \in 0..n - 1 PROVE \E i \in V : t[i] = k
      <4>1. Cardinality({i \in V : t[i] = k}) > 0
        BY <1>6, <2>2, <3>1
      <4>2. Cardinality({}) = 0
        BY FS_EmptySet
      <4>3. {i \in V : t[i] = k} # {}
        BY <4>1, <4>2
      <4> QED BY <4>3
    <3>3. PICK f : f = [k \in 0..n - 1 |-> CHOOSE i \in V : t[i] = k]
      OBVIOUS
    <3>4. ASSUME NEW k \in 0..n - 1 PROVE f[k] \in V /\ t[f[k]] = k
      BY <3>2, <3>3
    <3>5. f \in [0..n - 1 -> V]
      BY <3>3, <3>4
    <3>6. f \in Injection(0..n - 1, V)
      BY <3>4, <3>5, Fun_IsInj
    <3>7. Cardinality(0..n - 1) <= Cardinality(V)
      BY <1>3, <3>6, FS_Injection
    <3>8. Cardinality(0..n - 1) = n
      <4>1. 0 \in Int /\ n - 1 \in Int
        OBVIOUS
      <4>2. Cardinality(0..n - 1) = IF 0 > n - 1 THEN 0 ELSE n - 1 - 0 + 1
        BY <4>1, FS_Interval
      <4> QED BY <4>2
    <3>9. RequiredSignatures(policy) = n
      BY <2>2, <3>1 DEF RequiredSignatures
    <3> QED BY <1>3, <3>7, <3>8, <3>9
  <2>3. CASE policy.type = "tiered"
    <3>1. PICK n \in Nat : DOMAIN policy.tiers = 1..n
      BY <1>7
    <3>2. PICK f : f = [k \in DOMAIN policy.tiers |-> policy.tiers[k].threshold]
      OBVIOUS
    <3>3. f \in [1..n -> Nat]
      <4>1. ASSUME NEW k \in 1..n PROVE policy.tiers[k].threshold \in Nat
        <5>1. policy.tiers[k] \in Tiers
          BY <1>7, <3>1
        <5> QED BY <5>1 DEF Tiers
      <4> QED BY <3>1, <3>2, <4>1
    <3>4. \A k \in 1..n : Cardinality({i \in V : t[i] = k - 1}) >= f[k]
      BY <1>6, <2>3, <3>1, <3>2
    <3>5. SumFunctionOnSet(f, 1..n) <= Cardinality(V)
      BY <1>3, <3>3, <3>4, TiersAddUp
    <3>6. RequiredSignatures(policy) = SumFunctionOnSet(f, 1..n)
      BY <2>3, <3>1, <3>2 DEF RequiredSignatures
    <3>7. SumFunctionOnSet(f, 1..n) \in Nat
      <4>1. IsFiniteSet(1..n)
        BY FS_Interval
      <4>2. \A k \in 1..n : f[k] \in Nat
        BY <3>3
      <4> QED BY <4>1, <4>2, SumPositive
    <3> QED BY <1>3, <3>5, <3>6, <3>7
  <2> QED BY <1>7, <2>1, <2>2, <2>3 DEF Kinds
<1> QED BY <1>1, <1>3, <1>8

-----------------------------------------------------------------------------
(* What every step keeps.                                                  *)

\* A request is under a policy that exists, and nobody signed it twice.
RequestsSound ==
    \A id \in ApprovalIds : Exists(id) => Exists(state[id].policy) /\ SignedOnce(state[id].signatures)

AccountsIInv == AccountsTypeOK /\ RequestsSound

LEMMA StepsFit ==
    ASSUME AccountsTypeOK, [AccountsNext]_accounts
    PROVE  /\ DOMAIN state' = Ids /\ now' \in 1..MaxTime
           /\ \A id \in Ids : state'[id] = state[id] \/ \E w : Fits(w) /\ w.id = id /\ state'[id] = w.value
<1>1. now \in 1..MaxTime /\ DOMAIN state = Ids /\ MaxTime \in Nat
  BY AccountsAssumption DEF AccountsTypeOK
<1>2. CASE Clock
  BY <1>1, <1>2 DEF Clock
<1>3. ASSUME NEW from \in Addresses, NEW program \in Programs, ExecuteProgram(from, program)
      PROVE  /\ DOMAIN state' = Ids /\ now' \in 1..MaxTime
             /\ \A id \in Ids : state'[id] = state[id] \/ \E w : Fits(w) /\ w.id = id /\ state'[id] = w.value
  BY <1>1, <1>3, ProgramsFit
<1>4. CASE UNCHANGED accounts
  BY <1>1, <1>4 DEF accounts
<1> QED BY <1>2, <1>3, <1>4 DEF AccountsNext

LEMMA TypesKept ==
    ASSUME AccountsTypeOK, [AccountsNext]_accounts
    PROVE  AccountsTypeOK'
<1>1. /\ \A id \in Ids : state'[id] = state[id] \/ \E w : Fits(w) /\ w.id = id /\ state'[id] = w.value
      /\ DOMAIN state' = Ids /\ now' \in 1..MaxTime
  BY StepsFit
<1>2. Holds(OrgIds, Organisations) /\ Holds(RoleIds, Roles) /\ Holds(UnitIds, Units)
      /\ Holds(MemberIds, Members) /\ Holds(PolicyIds, Policies) /\ Holds(ApprovalIds, Requested)
  BY DEF AccountsTypeOK
<1>3. \A id \in OrgIds : state'[id] \in Organisations \cup {Absent}
  BY <1>1, <1>2 DEF Fits, Ids, Holds
<1>4. \A id \in RoleIds : state'[id] \in Roles \cup {Absent}
  BY <1>1, <1>2 DEF Fits, Ids, Holds
<1>5. \A id \in UnitIds : state'[id] \in Units \cup {Absent}
  BY <1>1, <1>2 DEF Fits, Ids, Holds
<1>6. \A id \in MemberIds : state'[id] \in Members \cup {Absent}
  BY <1>1, <1>2 DEF Fits, Ids, Holds
<1>7. \A id \in PolicyIds : state'[id] \in Policies \cup {Absent}
  BY <1>1, <1>2 DEF Fits, Ids, Holds
<1>8. \A id \in ApprovalIds : state'[id] \in Requested \cup {Absent}
  BY <1>1, <1>2 DEF Fits, Ids, Holds
<1> QED BY <1>1, <1>3, <1>4, <1>5, <1>6, <1>7, <1>8 DEF AccountsTypeOK, Holds

\* A policy that exists stays.
LEMMA PoliciesStay ==
    ASSUME AccountsTypeOK, [AccountsNext]_accounts, NEW p \in PolicyIds, Exists(p)
    PROVE  state'[p] # Absent
<1>1. state'[p] = state[p] \/ state'[p] \in Policies
  BY StepsFit DEF Fits, Ids
<1>2. Absent \notin Policies
  BY AccountsAssumption
<1> QED BY <1>1, <1>2 DEF Exists

\* A request changes only as handlers do it.
LEMMA RequestsChange ==
    ASSUME AccountsTypeOK, [AccountsNext]_accounts, NEW id \in ApprovalIds, state'[id] # state[id]
    PROVE  state'[id] \in Requested /\ Advances(id, state'[id])
<1>1. PICK w : Fits(w) /\ w.id = id /\ state'[id] = w.value
  BY StepsFit DEF Ids
<1> QED BY <1>1 DEF Fits

\* A signature of somebody who has not signed.
LEMMA SignedOnceMore ==
    ASSUME AccountsTypeOK, NEW id \in ApprovalIds, Exists(id), SignedOnce(state[id].signatures),
           NEW v \in Requested, NEW address \in Addresses, SignedBy(id, v, address)
    PROVE  SignedOnce(v.signatures)
<1>1. PICK q \in Signatures : q = state[id].signatures
  BY StoredAre DEF Requested
<1>2. PICK tier \in Claims : v.signatures = Append(q, [by |-> address, tier |-> tier])
  BY <1>1 DEF SignedBy
<1>3. PICK r : r = v.signatures
  OBVIOUS
<1>4. /\ Len(q) \in Nat /\ DOMAIN q = 1..Len(q) /\ DOMAIN r = 1..(Len(q) + 1)
      /\ \A i \in 1..Len(q) : r[i] = q[i]
      /\ r[Len(q) + 1].by = address
  BY <1>2, <1>3 DEF Signatures
<1>5. \A i \in 1..Len(q) : q[i].by # address
  BY <1>1, <1>4 DEF SignedBy, Signed
<1>6. \A i, j \in 1..Len(q) : q[i].by = q[j].by => i = j
  BY <1>1, <1>4 DEF SignedOnce
<1>7. ASSUME NEW i \in 1..(Len(q) + 1), NEW j \in 1..(Len(q) + 1), r[i].by = r[j].by PROVE i = j
  <2>1. CASE i \in 1..Len(q) /\ j \in 1..Len(q)
    BY <1>4, <1>6, <1>7, <2>1
  <2>2. CASE i = Len(q) + 1 /\ j \in 1..Len(q)
    BY <1>4, <1>5, <1>7, <2>2
  <2>3. CASE j = Len(q) + 1 /\ i \in 1..Len(q)
    BY <1>4, <1>5, <1>7, <2>3
  <2>4. CASE i = Len(q) + 1 /\ j = Len(q) + 1
    BY <2>4
  <2> QED BY <1>4, <2>1, <2>2, <2>3, <2>4
<1> QED BY <1>3, <1>4, <1>7 DEF SignedOnce

LEMMA RequestsStaySound ==
    ASSUME AccountsIInv, [AccountsNext]_accounts
    PROVE  RequestsSound'
<1> USE DEF AccountsIInv
<1>1. ASSUME NEW id \in ApprovalIds, state'[id] # Absent
      PROVE  state'[state'[id].policy] # Absent /\ SignedOnce(state'[id].signatures)
  <2>1. PICK v : v = state'[id]
    OBVIOUS
  <2>2. v \in Requested
    BY <1>1, <2>1, TypesKept DEF AccountsTypeOK, Holds
  <2>3. v.policy \in PolicyIds
    BY <2>2 DEF Requested
  <2>4. Exists(v.policy) /\ SignedOnce(v.signatures)
    <3>1. CASE v = state[id]
      BY <1>1, <2>1, <3>1 DEF RequestsSound, Exists
    <3>2. CASE v # state[id]
      <4>1. Advances(id, v)
        BY <2>1, <3>2, RequestsChange
      <4>2. CASE Started(id, v)
        BY <4>2 DEF Started, SignedOnce
      <4>3. ASSUME NEW address \in Addresses, SignedBy(id, v, address)
            PROVE  Exists(v.policy) /\ SignedOnce(v.signatures)
        <5>1. Exists(id) /\ v.policy = state[id].policy
          BY <4>3 DEF SignedBy
        <5>2. Exists(v.policy) /\ SignedOnce(state[id].signatures)
          BY <5>1 DEF RequestsSound
        <5> QED BY <2>2, <4>3, <5>1, <5>2, SignedOnceMore
      <4>4. CASE Closed(id, v)
        BY <4>4 DEF Closed, RequestsSound
      <4> QED BY <4>1, <4>2, <4>3, <4>4 DEF Advances
    <3> QED BY <3>1, <3>2
  <2>5. state'[v.policy] # Absent
    BY <2>3, <2>4, PoliciesStay
  <2> QED BY <2>1, <2>4, <2>5
<1> QED BY <1>1 DEF RequestsSound, Exists, SignedOnce

LEMMA AccountsStart == AccountsInit => AccountsIInv
<1> SUFFICES ASSUME AccountsInit PROVE AccountsIInv
  OBVIOUS
<1>1. \A id \in Ids : state[id] = Absent
  BY DEF AccountsInit
<1>2. now \in 1..MaxTime /\ DOMAIN state = Ids
  BY AccountsAssumption DEF AccountsInit
<1>3. AccountsTypeOK
  BY <1>1, <1>2 DEF AccountsTypeOK, Holds, Ids
<1>4. RequestsSound
  BY <1>1 DEF RequestsSound, Exists, Ids
<1> QED BY <1>3, <1>4 DEF AccountsIInv

\* What is stored is of its kind, requests are under policies that exist, and nobody
\* signs twice.
THEOREM AccountsInvariant == AccountsSpec => []AccountsIInv
<1>1. AccountsInit => AccountsIInv
  BY AccountsStart
<1>2. AccountsIInv /\ [AccountsNext]_accounts => AccountsIInv'
  BY TypesKept, RequestsStaySound DEF AccountsIInv
<1> QED BY <1>1, <1>2, PTL DEF AccountsSpec

\* The gate that programs put before an instruction lets nothing through that the store
\* of organisations would refuse (handleORG_CHECK_PERM against checkPermission).
THEOREM GateIsWithinStore == AccountsSpec => []GateWithinStore
<1>1. AccountsIInv => GateWithinStore
  BY GateHolds DEF AccountsIInv
<1> QED BY <1>1, AccountsInvariant, PTL

LEMMA ApprovalHasQuorum ==
    ASSUME AccountsIInv, [AccountsNext]_accounts, NEW id \in ApprovalIds,
           Status(id)' = "approved", Status(id) # "approved"
    PROVE  Quorum(id)
<1> USE DEF AccountsIInv
<1>1. PICK v : v = state'[id]
  OBVIOUS
<1>2. v # Absent /\ v.status = "approved"
  BY <1>1 DEF Status, Exists
<1>3. v # state[id]
  BY <1>1, <1>2 DEF Status, Exists
<1>4. v \in Requested /\ Advances(id, v)
  BY <1>1, <1>3, RequestsChange
<1>5. PICK address \in Addresses : SignedBy(id, v, address)
  BY <1>2, <1>4 DEF Advances, Started, Closed
<1>6. Exists(id) /\ v.policy = state[id].policy /\ state[id].expires > now
  BY <1>5 DEF SignedBy
<1>7. PICK policy : policy = state[v.policy]
  OBVIOUS
<1>8. IsPolicySatisfied(policy, v.signatures)
  BY <1>2, <1>5, <1>7 DEF SignedBy
<1>9. policy \in Policies
  BY <1>4, <1>6, <1>7, StoredAre DEF RequestsSound, Requested
<1>10. SignedOnce(v.signatures) /\ v.signatures \in Signatures
  BY <1>4, <1>5, <1>6, SignedOnceMore DEF RequestsSound, Requested
<1>11. Cardinality({s.by : s \in Range(v.signatures)} \cap SignerAddresses(policy)) >= RequiredSignatures(policy)
  BY <1>8, <1>9, <1>10, SatisfiedIsQuorum
<1> QED BY <1>1, <1>6, <1>7, <1>11 DEF Quorum

\* A request becomes approved only before it expires and by a quorum of its policy
\* (handleAPPROVAL_SIGN, isPolicySatisfied).
THEOREM ApprovalsHaveQuorums == AccountsSpec => ApprovedByQuorum
<1>1. AccountsIInv /\ [AccountsNext]_accounts
        => [\A id \in ApprovalIds : Status(id)' = "approved" /\ Status(id) # "approved" => Quorum(id)]_accounts
  BY ApprovalHasQuorum
<1> QED BY <1>1, AccountsInvariant, PTL DEF AccountsSpec, ApprovedByQuorum

LEMMA RequestAdvances ==
    ASSUME AccountsIInv, [AccountsNext]_accounts, NEW id \in ApprovalIds, Exists(id), state'[id] # state[id]
    PROVE  TakesSignature(id) \/ Closes(id)
<1> USE DEF AccountsIInv
<1>1. PICK v : v = state'[id]
  OBVIOUS
<1>2. v \in Requested /\ Advances(id, v)
  BY <1>1, RequestsChange
<1>3. v # Absent
  BY <1>2, AccountsAssumption
<1>4. Status(id) = state[id].status /\ Status(id)' = v.status
  BY <1>1, <1>3 DEF Status, Exists
<1>5. ASSUME NEW address \in Addresses, SignedBy(id, v, address)
      PROVE  TakesSignature(id)
  <2>1. Status(id) = "pending" /\ Status(id)' \in {"pending", "approved"} /\ ~Signed(id, address)
    BY <1>4, <1>5 DEF SignedBy
  <2>2. PICK s : s.by = address /\ v.signatures = Append(state[id].signatures, s)
    BY <1>5 DEF SignedBy
  <2>3. PICK q \in Signatures : q = state[id].signatures
    BY StoredAre DEF Requested
  <2>4. Len(q) + 1 \in DOMAIN Append(q, s) /\ Append(q, s)[Len(q) + 1] = s
    BY <2>3 DEF Signatures
  <2>5. s \in Range(v.signatures)
    BY <2>2, <2>3, <2>4 DEF Range
  <2> QED BY <1>1, <2>1, <2>2, <2>5 DEF TakesSignature
<1>6. CASE Closed(id, v)
  BY <1>1, <1>4, <1>6 DEF Closed, Closes
<1> QED BY <1>2, <1>5, <1>6 DEF Advances, Started

\* A program moves a request by one signature or by one change of its status, however many
\* of its instructions name it (handleAPPROVAL, execute).
THEOREM RequestsOnlyAdvance == AccountsSpec => RequestsAdvance
<1>1. AccountsIInv /\ [AccountsNext]_accounts
        => [\A id \in ApprovalIds : Exists(id) /\ state'[id] # state[id] =>
              TakesSignature(id) \/ Closes(id)]_accounts
  BY RequestAdvances
<1> QED BY <1>1, AccountsInvariant, PTL DEF AccountsSpec, RequestsAdvance

-----------------------------------------------------------------------------
(* The node: sequences without repeats, sorted values.                       *)

\* Sequences that list each element once.
LEMMA WithoutOne ==
    ASSUME NEW X, NEW q \in Seq(X), NEW x
    PROVE  LET r == Filtered(q, ToSet(q) \ {x}) IN
           /\ r \in Seq(X) /\ Len(r) <= Len(q) /\ ToSet(r) = ToSet(q) \ {x}
           /\ IsInjective(q) => IsInjective(r)
<1> DEFINE r == Filtered(q, ToSet(q) \ {x})
<1>1. /\ r \in Seq(X) /\ Len(r) <= Len(q)
      /\ \A k \in DOMAIN r : \E i \in DOMAIN q : r[k] = q[i] /\ q[i] \in ToSet(q) \ {x}
      /\ \A i \in DOMAIN q : q[i] \in ToSet(q) \ {x} => \E k \in DOMAIN r : r[k] = q[i]
      /\ IsInjective(q) => IsInjective(r)
  BY FilteredProperties
<1> HIDE DEF r
<1>2. ToSet(r) = {r[k] : k \in DOMAIN r} /\ ToSet(q) = {q[i] : i \in DOMAIN q}
  BY DEF ToSet
<1>3. ToSet(r) \subseteq ToSet(q) \ {x}
  BY <1>1, <1>2
<1>4. ToSet(q) \ {x} \subseteq ToSet(r)
  BY <1>1, <1>2
<1> QED BY <1>1, <1>3, <1>4 DEF r

LEMMA WithOneMore ==
    ASSUME NEW X, NEW q \in Seq(X), NEW x \in X
    PROVE  LET r == Append(q, x) IN
           /\ r \in Seq(X) /\ Len(r) = Len(q) + 1 /\ ToSet(r) = ToSet(q) \cup {x}
           /\ IsInjective(q) /\ x \notin ToSet(q) => IsInjective(r)
<1>1. PICK l \in Nat : l = Len(q) /\ DOMAIN q = 1..l
  BY LenProperties
<1>2. PICK r \in Seq(X) : /\ r = Append(q, x) /\ Len(r) = l + 1 /\ DOMAIN r = 1..l + 1
                          /\ \A i \in 1..l : r[i] = q[i]
                          /\ r[l + 1] = x
  <2>1. PICK r : r = Append(q, x)
    OBVIOUS
  <2>2. r \in Seq(X) /\ Len(r) = l + 1 /\ (\A i \in 1..l : r[i] = q[i]) /\ r[l + 1] = x
    BY <1>1, <2>1, AppendProperties
  <2>3. DOMAIN r = 1..l + 1
    BY <2>2, LenProperties
  <2> QED BY <2>1, <2>2, <2>3
<1>3. ToSet(r) = {r[k] : k \in 1..l + 1} /\ ToSet(q) = {q[i] : i \in 1..l}
  BY <1>1, <1>2 DEF ToSet
<1>4. \A k \in 1..l + 1 : k \in 1..l \/ k = l + 1
  OBVIOUS
<1>5. \A k \in 1..l : k \in 1..l + 1
  OBVIOUS
<1>6. l + 1 \in 1..l + 1
  OBVIOUS
<1>7. ToSet(r) = ToSet(q) \cup {x}
  BY <1>2, <1>3, <1>4, <1>5, <1>6
<1>8. ASSUME IsInjective(q), x \notin ToSet(q) PROVE IsInjective(r)
  <2>1. \A i, j \in 1..l : q[i] = q[j] => i = j
    BY <1>1, <1>8 DEF IsInjective
  <2>2. \A i \in 1..l : q[i] # x
    BY <1>3, <1>8
  <2>3. \A i, j \in 1..l + 1 : r[i] = r[j] => i = j
    BY <1>2, <1>4, <2>1, <2>2
  <2> QED BY <1>2, <2>3 DEF IsInjective
<1> QED BY <1>1, <1>2, <1>7, <1>8

LEMMA WithoutFirst ==
    ASSUME NEW X, NEW q \in Seq(X), q # <<>>
    PROVE  LET r == Tail(q) IN
           /\ r \in Seq(X) /\ Len(r) = Len(q) - 1 /\ ToSet(r) \subseteq ToSet(q)
           /\ IsInjective(q) => IsInjective(r)
<1>1. PICK l \in Nat : l = Len(q) /\ DOMAIN q = 1..l
  BY LenProperties
<1>2. PICK r \in Seq(X) : /\ r = Tail(q) /\ Len(r) = l - 1 /\ DOMAIN r = 1..l - 1
                          /\ \A i \in 1..l - 1 : r[i] = q[i + 1]
  <2>1. PICK r : r = Tail(q)
    OBVIOUS
  <2>2. r \in Seq(X) /\ Len(r) = l - 1 /\ (\A i \in 1..l - 1 : r[i] = q[i + 1])
    BY <1>1, <2>1, HeadTailProperties
  <2>3. DOMAIN r = 1..l - 1
    BY <2>2, LenProperties
  <2> QED BY <2>1, <2>2, <2>3
<1>3. ToSet(r) = {r[k] : k \in 1..l - 1} /\ ToSet(q) = {q[i] : i \in 1..l}
  BY <1>1, <1>2 DEF ToSet
<1>4. \A k \in 1..l - 1 : k + 1 \in 1..l
  OBVIOUS
<1>5. ToSet(r) \subseteq ToSet(q)
  BY <1>2, <1>3, <1>4
<1>6. ASSUME IsInjective(q) PROVE IsInjective(r)
  <2>1. \A i, j \in 1..l : q[i] = q[j] => i = j
    BY <1>1, <1>6 DEF IsInjective
  <2>2. ASSUME NEW i \in 1..l - 1, NEW j \in 1..l - 1, r[i] = r[j] PROVE i = j
    <3>1. i + 1 = j + 1
      BY <1>2, <1>4, <2>1, <2>2
    <3> QED BY <3>1
  <2> QED BY <1>2, <2>2 DEF IsInjective
<1> QED BY <1>1, <1>2, <1>5, <1>6

LEMMA LengthOfList ==
    ASSUME NEW X, NEW q \in Seq(X), IsInjective(q)
    PROVE  IsFiniteSet(ToSet(q)) /\ Cardinality(ToSet(q)) = Len(q)
<1>1. PICK l \in Nat : l = Len(q) /\ DOMAIN q = 1..l
  BY LenProperties
<1>2. q \in [1..l -> ToSet(q)] /\ \A x \in ToSet(q) : \E i \in 1..l : q[i] = x
  <2>1. ToSet(q) = {q[i] : i \in 1..l}
    BY <1>1 DEF ToSet
  <2>2. q = [i \in 1..l |-> q[i]]
    BY <1>1
  <2> QED BY <2>1, <2>2
<1>3. q \in Bijection(1..l, ToSet(q))
  <2>1. q \in Injection(1..l, ToSet(q))
    BY <1>1, <1>2 DEF IsInjective, Injection
  <2>2. q \in Surjection(1..l, ToSet(q))
    BY <1>2 DEF Surjection
  <2> QED BY <2>1, <2>2 DEF Bijection
<1>4. IsFiniteSet(1..l) /\ Cardinality(1..l) = l
  BY FS_Interval
<1>5. ExistsBijection(1..l, ToSet(q))
  BY <1>3 DEF ExistsBijection
<1>6. Cardinality(ToSet(q)) = l
  BY <1>4, <1>5, FS_Bijection, FS_CountingElements
<1>7. IsFiniteSet(ToSet(q))
  BY <1>4, <1>5, FS_Bijection
<1> QED BY <1>1, <1>6, <1>7

\* The elements of a finite set, one after the other.
LEMMA SetInSequence ==
    ASSUME NEW S, IsFiniteSet(S)
    PROVE  /\ SetToSeq(S) \in Seq(S) /\ ToSet(SetToSeq(S)) = S /\ IsInjective(SetToSeq(S))
           /\ Len(SetToSeq(S)) = Cardinality(S)
<1>1. PICK n \in Nat : n = Cardinality(S) /\ ExistsBijection(1..n, S)
  BY FS_CardinalityType
<1>2. \E q \in [1..n -> S] : IsInjective(q)
  BY <1>1 DEF ExistsBijection, Bijection, Injection, IsInjective
<1>3. PICK q \in [1..n -> S] : q = SetToSeq(S) /\ IsInjective(q)
  BY <1>1, <1>2 DEF SetToSeq
<1>4. q \in Seq(S) /\ Len(q) = n
  BY <1>3, SeqDef, LenProperties
<1>5. IsFiniteSet(ToSet(q)) /\ Cardinality(ToSet(q)) = n
  BY <1>3, <1>4, LengthOfList
<1>6. ToSet(q) \subseteq S
  BY <1>3 DEF ToSet
<1>7. ToSet(q) = S
  BY <1>1, <1>5, <1>6, FS_Subset
<1> QED BY <1>1, <1>3, <1>4, <1>7

\* A finite set of numbers has a greatest.
LEMMA FiniteHasGreatest ==
    ASSUME NEW N \in SUBSET Nat, N # {}, IsFiniteSet(N)
    PROVE  \E m \in N : \A k \in N : k <= m
<1>1. PICK l \in Nat : ExistsBijection(1..l, N)
  BY FS_NatBijection
<1>2. PICK f \in [1..l -> N] : \A x \in N : \E i \in 1..l : f[i] = x
  BY <1>1 DEF ExistsBijection, Bijection, Surjection
<1>3. l # 0
  <2>1. PICK x : x \in N
    OBVIOUS
  <2>2. PICK i \in 1..l : f[i] = x
    BY <1>2, <2>1
  <2> QED BY <2>2
<1>4. f \in [1..l -> Nat] /\ l \in Nat \ {0}
  BY <1>2, <1>3
<1>5. PICK i \in 1..l : \A k \in 1..l : f[k] < f[i] \/ (f[k] = f[i] /\ i <= k)
  BY <1>4, FirstGreatest
<1>6. \A k \in 1..l : f[k] <= f[i]
  <2> SUFFICES ASSUME NEW k \in 1..l PROVE f[k] <= f[i]
    OBVIOUS
  <2>1. f[k] \in Nat /\ f[i] \in Nat
    BY <1>4
  <2> QED BY <1>5, <2>1
<1>7. f[i] \in N
  BY <1>2
<1>8. \A x \in N : x <= f[i]
  BY <1>2, <1>6
<1> QED BY <1>7, <1>8

\* What a function makes of a finite set.
LEMMA ImageOf ==
    ASSUME NEW S, IsFiniteSet(S), NEW f, NEW T, T = {f[x] : x \in S}
    PROVE  IsFiniteSet(T) /\ Cardinality(T) <= Cardinality(S)
<1>1. PICK g : g = [x \in S |-> f[x]]
  OBVIOUS
<1>2. g \in Surjection(S, T)
  BY <1>1 DEF Surjection
<1> QED BY <1>2, FS_Surjection

-----------------------------------------------------------------------------
(* The pending index.                                                        *)

Ixs == [pending : SUBSET Txs, next : [Senders -> Nat], slot : UNION {[D -> Txs] : D \in SUBSET Slots},
        byState : [States -> Seq(Txs)]]

\* A list of a state: pending transactions that expect it, each once, no more than fit.
ListOK(q, pending, s) ==
    /\ ToSet(q) \subseteq {t \in pending : s \in Touches[t]}
    /\ IsInjective(q) /\ Len(q) <= node.perState

\* No list can reach its limit.
Roomy == IsFiniteSet(node.txs) /\ Cardinality(node.txs) <= node.perState

\* The pending index agrees with itself, and no list that has room for all has
\* dropped one.
IxOK(ix) ==
    /\ ix.pending \subseteq node.txs /\ IsFiniteSet(DOMAIN ix.slot)
    /\ \A x \in DOMAIN ix.slot : ix.slot[x] \in ix.pending /\ Slot(ix.slot[x]) = x
    /\ \A s \in States : ListOK(ix.byState[s], ix.pending, s)
    /\ Roomy => \A p \in ix.pending : \A s \in Touches[p] : p \in ToSet(ix.byState[s])
GoodIxs == {ix \in Ixs : IxOK(ix)}

LEMMA NodeTypes ==
    ASSUME node \in Nodes
    PROVE  /\ node.txs \subseteq Txs /\ node.perSender \in Nat \ {0} /\ node.perState \in Nat \ {0}
           /\ MaxPool \in Nat \ {0} /\ MaxOrphans \in Nat \ {0}
BY LimitAssumption

LEMMA TxTypes ==
    ASSUME NEW t \in Txs
    PROVE  /\ Sender[t] \in Senders /\ Nonce[t] \in Nat /\ Slot(t) \in Slots
           /\ Touches[t] \subseteq States /\ IsFiniteSet(Touches[t])
BY TxAssumption DEF Slot, Slots

LEMMA IxTypes ==
    ASSUME NEW ix \in GoodIxs
    PROVE  /\ ix \in Ixs /\ IxOK(ix)
           /\ ix = [pending |-> ix.pending, next |-> ix.next, slot |-> ix.slot, byState |-> ix.byState]
           /\ ix.pending \subseteq Txs /\ ix.next \in [Senders -> Nat] /\ ix.byState \in [States -> Seq(Txs)]
           /\ DOMAIN ix.slot \subseteq Slots /\ \A x \in DOMAIN ix.slot : ix.slot[x] \in Txs
           /\ ix.slot = [x \in DOMAIN ix.slot |-> ix.slot[x]]
<1>1. ix \in Ixs /\ IxOK(ix)
  BY DEF GoodIxs
<1>2. PICK D \in SUBSET Slots : ix.slot \in [D -> Txs]
  BY <1>1 DEF Ixs
<1> QED BY <1>1, <1>2 DEF Ixs

\* What an index is made of.
LEMMA IxMade ==
    ASSUME NEW p \in SUBSET Txs, NEW n \in [Senders -> Nat], NEW D \in SUBSET Slots, NEW sl \in [D -> Txs],
           NEW by \in [States -> Seq(Txs)]
    PROVE  [pending |-> p, next |-> n, slot |-> sl, byState |-> by] \in Ixs
<1>1. sl \in UNION {[E -> Txs] : E \in SUBSET Slots}
  OBVIOUS
<1> QED BY <1>1 DEF Ixs

LEMMA NoIndexGood ==
    ASSUME node \in Nodes
    PROVE  NoIndex \in GoodIxs
<1>1. [x \in {} |-> 0] \in [{} -> Txs] /\ {} \in SUBSET Slots
  OBVIOUS
<1>2. [s \in Senders |-> 0] \in [Senders -> Nat] /\ [s \in States |-> <<>>] \in [States -> Seq(Txs)]
  OBVIOUS
<1>3. NoIndex \in Ixs
  BY <1>1, <1>2, IxMade DEF NoIndex
<1>4. \A s \in States : ListOK(<<>>, {}, s)
  BY NodeTypes DEF ListOK, ToSet, IsInjective
<1>5. IxOK(NoIndex)
  BY <1>4, FS_EmptySet DEF IxOK, NoIndex
<1> QED BY <1>3, <1>5 DEF GoodIxs

\* setBaseNonce.
LEMMA BaseGood ==
    ASSUME NEW ix \in GoodIxs, NEW s \in Senders, NEW n \in Nat
    PROVE  /\ SetBaseNonce(ix, s, n) \in GoodIxs
           /\ SetBaseNonce(ix, s, n).next[s] >= n
           /\ \A u \in Senders \ {s} : SetBaseNonce(ix, s, n).next[u] = ix.next[u]
<1>1. PICK k \in Nat : k = Cardinality(InFlight(ix, s))
  <2>1. InFlight(ix, s) \in SUBSET DOMAIN ix.slot /\ IsFiniteSet(DOMAIN ix.slot)
    BY DEF InFlight, GoodIxs, IxOK
  <2> QED BY <2>1, FS_Subset, FS_CardinalityType
<1>2. PICK m \in [Senders -> Nat] : m = [ix.next EXCEPT ![s] = n + k]
  <2>1. ix.next \in [Senders -> Nat]
    BY IxTypes
  <2>2. n + k \in Nat
    OBVIOUS
  <2>3. [ix.next EXCEPT ![s] = n + k] \in [Senders -> Nat]
    BY <2>1, <2>2
  <2> QED BY <2>3
<1>3. SetBaseNonce(ix, s, n) = [ix EXCEPT !.next = m]
  <2>1. ix \in Ixs
    BY IxTypes
  <2> QED BY <1>1, <1>2, <2>1 DEF SetBaseNonce, Ixs
<1>4. PICK r : r = [ix EXCEPT !.next = m]
  OBVIOUS
<1>5. r \in Ixs /\ r.pending = ix.pending /\ r.slot = ix.slot /\ r.byState = ix.byState /\ r.next = m
  BY <1>4, IxTypes DEF Ixs
<1>6. IxOK(r)
  BY <1>5, IxTypes DEF IxOK
<1>7. m[s] >= n /\ \A u \in Senders \ {s} : m[u] = ix.next[u]
  BY <1>1, <1>2, IxTypes
<1> QED BY <1>3, <1>4, <1>5, <1>6, <1>7 DEF GoodIxs

\* onRemove.
LEMMA RemoveGood ==
    ASSUME node \in Nodes, NEW ix \in GoodIxs, NEW t \in Txs
    PROVE  OnRemove(ix, t) \in GoodIxs /\ OnRemove(ix, t).next = ix.next
<1>1. PICK r : r = OnRemove(ix, t)
  OBVIOUS
<1>2. PICK D \in SUBSET Slots : D = DOMAIN ix.slot \ {Slot(t)}
  BY IxTypes
<1>3. r = [pending |-> ix.pending \ {t}, next |-> ix.next, slot |-> [x \in D |-> ix.slot[x]],
           byState |-> [s \in States |-> Filtered(ix.byState[s], ToSet(ix.byState[s]) \ {t})]]
  <2>1. r = [ix EXCEPT !.pending = ix.pending \ {t}, !.slot = Drop(ix.slot, {Slot(t)}),
                       !.byState = [s \in States |-> Filtered(ix.byState[s], ToSet(ix.byState[s]) \ {t})]]
    BY <1>1, IxTypes DEF OnRemove
  <2>2. Drop(ix.slot, {Slot(t)}) = [x \in D |-> ix.slot[x]]
    BY <1>2 DEF Drop
  <2>3. ix \in Ixs
    BY IxTypes
  <2> QED BY <2>1, <2>2, <2>3 DEF Ixs
<1>4. ASSUME NEW s \in States
      PROVE  /\ r.byState[s] \in Seq(Txs) /\ Len(r.byState[s]) <= Len(ix.byState[s])
             /\ ToSet(r.byState[s]) = ToSet(ix.byState[s]) \ {t}
             /\ IsInjective(ix.byState[s]) => IsInjective(r.byState[s])
  <2>1. ix.byState[s] \in Seq(Txs)
    BY IxTypes
  <2>2. r.byState[s] = Filtered(ix.byState[s], ToSet(ix.byState[s]) \ {t})
    BY <1>3
  <2> QED BY <2>1, <2>2, WithoutOne, ZenonT(40)
<1>5. r \in Ixs
  <2>1. PICK by : by = [s \in States |-> Filtered(ix.byState[s], ToSet(ix.byState[s]) \ {t})]
    OBVIOUS
  <2>2. by \in [States -> Seq(Txs)]
    BY <1>3, <1>4, <2>1
  <2>3. [x \in D |-> ix.slot[x]] \in [D -> Txs]
    BY <1>2, IxTypes
  <2>4. ix.pending \ {t} \in SUBSET Txs /\ ix.next \in [Senders -> Nat]
    BY IxTypes
  <2> QED BY <1>3, <2>1, <2>2, <2>3, <2>4, IxMade
<1>6. IxOK(ix)
  BY IxTypes
<1>7. \A s \in States : ListOK(r.byState[s], r.pending, s)
  <2> SUFFICES ASSUME NEW s \in States PROVE ListOK(r.byState[s], r.pending, s)
    OBVIOUS
  <2>1. ListOK(ix.byState[s], ix.pending, s)
    BY <1>6 DEF IxOK
  <2>2. Len(r.byState[s]) <= node.perState
    <3>1. ix.byState[s] \in Seq(Txs)
      BY IxTypes
    <3>2. Len(r.byState[s]) \in Nat /\ Len(ix.byState[s]) \in Nat /\ node.perState \in Nat
      BY <1>4, <3>1, LenProperties, NodeTypes
    <3> QED BY <1>4, <2>1, <3>2 DEF ListOK
  <2>3. r.pending = ix.pending \ {t}
    BY <1>3
  <2> QED BY <1>4, <2>1, <2>2, <2>3 DEF ListOK
<1>8. \A x \in DOMAIN r.slot : r.slot[x] \in r.pending /\ Slot(r.slot[x]) = x
  <2>1. \A x \in DOMAIN ix.slot : ix.slot[x] \in ix.pending /\ Slot(ix.slot[x]) = x
    BY <1>6 DEF IxOK
  <2>2. DOMAIN r.slot = D /\ (\A x \in D : r.slot[x] = ix.slot[x] /\ x # Slot(t)) /\ D \subseteq DOMAIN ix.slot
    BY <1>2, <1>3
  <2> QED BY <1>3, <2>1, <2>2
<1>9. IsFiniteSet(DOMAIN r.slot)
  <2>1. DOMAIN r.slot \in SUBSET DOMAIN ix.slot
    BY <1>2, <1>3
  <2> QED BY <1>6, <2>1, FS_Subset DEF IxOK
<1>10. Roomy => \A p \in r.pending : \A s \in Touches[p] : p \in ToSet(r.byState[s])
  <2> SUFFICES ASSUME Roomy, NEW p \in r.pending, NEW s \in Touches[p] PROVE p \in ToSet(r.byState[s])
    OBVIOUS
  <2>1. p \in ix.pending /\ p # t
    BY <1>3
  <2>2. p \in ToSet(ix.byState[s])
    BY <1>6, <2>1 DEF IxOK
  <2>3. s \in States
    BY <2>1, IxTypes, TxTypes
  <2> QED BY <1>4, <2>1, <2>2, <2>3
<1>11. r.pending \subseteq node.txs
  BY <1>3, <1>6 DEF IxOK
<1>12. IxOK(r)
  BY <1>7, <1>8, <1>9, <1>10, <1>11 DEF IxOK
<1> QED BY <1>1, <1>3, <1>5, <1>12 DEF GoodIxs

\* A list with one more entry.
LEMMA EntryGood ==
    ASSUME node \in Nodes, NEW pending \in SUBSET Txs, pending \subseteq node.txs, NEW s \in States, NEW q \in Seq(Txs),
           ListOK(q, pending, s), NEW t \in node.txs \ pending, s \in Touches[t]
    PROVE  /\ AppendEntry(q, t) \in Seq(Txs) /\ ListOK(AppendEntry(q, t), pending \cup {t}, s)
           /\ t \in ToSet(AppendEntry(q, t))
           /\ Roomy => ToSet(q) \subseteq ToSet(AppendEntry(q, t))
<1>1. t \in Txs /\ node.perState \in Nat \ {0} /\ Len(q) \in Nat
  BY NodeTypes, LenProperties
<1>2. t \notin ToSet(q) /\ IsInjective(q) /\ Len(q) <= node.perState
  BY DEF ListOK
<1>3. CASE Len(q) < node.perState
  <2>1. ~(Len(q) >= node.perState)
    BY <1>1, <1>3
  <2>2. PICK r : r = Append(q, t)
    OBVIOUS
  <2>3. r = AppendEntry(q, t)
    BY <2>1, <2>2 DEF AppendEntry
  <2>4. r \in Seq(Txs) /\ Len(r) = Len(q) + 1 /\ ToSet(r) = ToSet(q) \cup {t} /\ IsInjective(r)
    BY <1>1, <1>2, <2>2, WithOneMore
  <2>5. Len(r) <= node.perState
    BY <1>1, <1>3, <2>4
  <2> QED BY <2>3, <2>4, <2>5 DEF ListOK
<1>4. CASE ~(Len(q) < node.perState)
  <2>1. Len(q) >= node.perState /\ Len(q) = node.perState
    BY <1>1, <1>2, <1>4
  <2>2. q # <<>>
    BY <1>1, <2>1, EmptySeq
  <2>3. PICK u \in Seq(Txs) : /\ u = Tail(q) /\ Len(u) = Len(q) - 1 /\ ToSet(u) \subseteq ToSet(q) /\ IsInjective(u)
    BY <1>2, <2>2, WithoutFirst
  <2>4. t \notin ToSet(u)
    BY <1>2, <2>3
  <2>5. PICK r : r = Append(u, t)
    OBVIOUS
  <2>6. r = AppendEntry(q, t)
    BY <2>1, <2>3, <2>5 DEF AppendEntry
  <2>7. r \in Seq(Txs) /\ Len(r) = Len(u) + 1 /\ ToSet(r) = ToSet(u) \cup {t} /\ IsInjective(r)
    <3>1. t \in Txs /\ u \in Seq(Txs) /\ IsInjective(u)
      BY <1>1, <2>3
    <3> QED BY <2>4, <2>5, <3>1, WithOneMore
  <2>8. Len(r) <= node.perState
    BY <1>1, <1>2, <2>3, <2>7
  <2>9. ~ Roomy
    <3> SUFFICES ASSUME Roomy PROVE FALSE
      OBVIOUS
    <3>1. IsFiniteSet(ToSet(q)) /\ Cardinality(ToSet(q)) = Len(q)
      BY <1>2, LengthOfList
    <3>2. ToSet(q) \in SUBSET (node.txs \ {t})
      BY <1>2 DEF ListOK
    <3>3. IsFiniteSet(node.txs) /\ Cardinality(node.txs) \in Nat /\ Cardinality(node.txs) <= node.perState
      BY FS_CardinalityType DEF Roomy
    <3>4. IsFiniteSet(node.txs \ {t}) /\ Cardinality(node.txs \ {t}) = Cardinality(node.txs) - 1
      BY <3>3, FS_RemoveElement
    <3>5. Cardinality(ToSet(q)) <= Cardinality(node.txs \ {t})
      BY <3>2, <3>4, FS_Subset
    <3> QED BY <1>1, <2>1, <3>1, <3>3, <3>4, <3>5
  <2> QED BY <2>3, <2>6, <2>7, <2>8, <2>9 DEF ListOK
<1> QED BY <1>3, <1>4

\* onAdmit.
LEMMA AdmitGood ==
    ASSUME node \in Nodes, NEW ix \in GoodIxs, NEW t \in node.txs
    PROVE  /\ OnAdmit(ix, t) \in GoodIxs
           /\ \A s \in Senders : OnAdmit(ix, t).next[s] >= ix.next[s]
           /\ OnAdmit(ix, t).pending = ix.pending \cup {t}
<1>1. t \in Txs /\ Sender[t] \in Senders /\ Nonce[t] \in Nat /\ Slot(t) \in Slots
  BY NodeTypes, TxTypes
<1>2. CASE t \in ix.pending
  <2>1. OnAdmit(ix, t) = ix /\ ix.next \in [Senders -> Nat]
    BY <1>2, IxTypes DEF OnAdmit
  <2> QED BY <1>2, <2>1
<1>3. CASE t \notin ix.pending
  <2>1. PICK n : n = [ix.next EXCEPT ![Sender[t]] = IF Nonce[t] >= @ THEN Nonce[t] + 1 ELSE @]
    OBVIOUS
  <2>2. n \in [Senders -> Nat] /\ \A s \in Senders : n[s] >= ix.next[s]
    <3>1. ix.next \in [Senders -> Nat]
      BY IxTypes
    <3> QED BY <1>1, <2>1, <3>1
  <2>3. PICK D \in SUBSET Slots : D = DOMAIN ix.slot \cup {Slot(t)}
    BY <1>1, IxTypes
  <2>4. PICK sl : sl = [x \in D |-> IF x = Slot(t) THEN t ELSE ix.slot[x]]
    OBVIOUS
  <2>5. sl \in [D -> Txs]
    BY <1>1, <2>3, <2>4, IxTypes
  <2>6. PICK by : by = [s \in States |-> IF s \in Touches[t] THEN AppendEntry(ix.byState[s], t) ELSE ix.byState[s]]
    OBVIOUS
  <2>7. PICK p \in SUBSET Txs : p = ix.pending \cup {t}
    BY <1>1, IxTypes
  <2>8. PICK r : r = OnAdmit(ix, t)
    OBVIOUS
  <2>9. r = [pending |-> p, slot |-> sl, next |-> n, byState |-> by]
    BY <1>3, <2>1, <2>3, <2>4, <2>6, <2>7, <2>8 DEF OnAdmit
  <2>10. IxOK(ix) /\ ix.pending \in SUBSET Txs /\ ix.pending \subseteq node.txs
    BY IxTypes DEF IxOK
  <2>11. ASSUME NEW s \in States
         PROVE  /\ by[s] \in Seq(Txs) /\ ListOK(by[s], p, s)
                /\ s \in Touches[t] => t \in ToSet(by[s])
                /\ Roomy => ToSet(ix.byState[s]) \subseteq ToSet(by[s])
    <3>1. ListOK(ix.byState[s], ix.pending, s) /\ ix.byState[s] \in Seq(Txs)
      BY <2>10, IxTypes DEF IxOK
    <3>2. CASE s \in Touches[t]
      <4>1. by[s] = AppendEntry(ix.byState[s], t) /\ t \in node.txs \ ix.pending
        BY <1>3, <2>6, <3>2
      <4>2. PICK q \in Seq(Txs) : q = ix.byState[s]
        BY <3>1
      <4>3. /\ AppendEntry(q, t) \in Seq(Txs) /\ ListOK(AppendEntry(q, t), ix.pending \cup {t}, s)
            /\ t \in ToSet(AppendEntry(q, t))
            /\ Roomy => ToSet(q) \subseteq ToSet(AppendEntry(q, t))
        BY <2>10, <3>1, <3>2, <4>1, <4>2, EntryGood
      <4> QED BY <2>7, <4>1, <4>2, <4>3
    <3>3. CASE s \notin Touches[t]
      <4>1. by[s] = ix.byState[s]
        BY <2>6, <3>3
      <4> QED BY <2>7, <3>1, <3>3, <4>1 DEF ListOK
    <3> QED BY <3>2, <3>3
  <2>12. r \in Ixs
    <3>1. by \in [States -> Seq(Txs)]
      BY <2>6, <2>11
    <3> QED BY <2>2, <2>5, <2>9, <3>1, IxMade
  <2>13. r.pending = p /\ r.slot = sl /\ r.next = n /\ r.byState = by
    BY <2>9
  <2>14. \A x \in D : sl[x] \in p /\ Slot(sl[x]) = x
    BY <2>3, <2>4, <2>7, <2>10 DEF IxOK
  <2>15. IsFiniteSet(D)
    BY <2>3, <2>10, FS_AddElement DEF IxOK
  <2>16. p \subseteq node.txs
    BY <2>7, <2>10
  <2>17. Roomy => \A u \in p : \A s \in Touches[u] : u \in ToSet(by[s])
    <3> SUFFICES ASSUME Roomy, NEW u \in p, NEW s \in Touches[u] PROVE u \in ToSet(by[s])
      OBVIOUS
    <3>1. s \in States
      BY TxTypes
    <3>2. CASE u = t
      BY <2>11, <3>1, <3>2
    <3>3. CASE u \in ix.pending
      <4>1. u \in ToSet(ix.byState[s])
        BY <2>10, <3>3 DEF IxOK
      <4> QED BY <2>11, <3>1, <4>1
    <3> QED BY <2>7, <3>2, <3>3
  <2>18. DOMAIN sl = D
    BY <2>4
  <2>19. IxOK(r)
    BY <2>11, <2>13, <2>14, <2>15, <2>16, <2>17, <2>18 DEF IxOK
  <2> QED BY <2>2, <2>7, <2>8, <2>12, <2>13, <2>19 DEF GoodIxs
<1> QED BY <1>2, <1>3

\* onCommit.
LEMMA CommitGood ==
    ASSUME node \in Nodes, NEW ix \in GoodIxs, NEW s \in Senders, NEW n \in Nat
    PROVE  /\ OnCommit(ix, s, n) \in GoodIxs
           /\ OnCommit(ix, s, n).next[s] >= n + 1
           /\ \A u \in Senders \ {s} : OnCommit(ix, s, n).next[u] = ix.next[u]
<1>1. PICK left : left = IF <<s, n>> \in DOMAIN ix.slot THEN OnRemove(ix, ix.slot[<<s, n>>]) ELSE ix
  OBVIOUS
<1>2. left \in GoodIxs /\ left.next = ix.next
  BY <1>1, RemoveGood, IxTypes
<1>3. OnCommit(ix, s, n) = SetBaseNonce(left, s, n + 1)
  BY <1>1 DEF OnCommit
<1>4. n + 1 \in Nat
  OBVIOUS
<1> QED BY <1>2, <1>3, <1>4, BaseGood

\* Blocks, as the reconciler is told of them.
LEMMA BlockTypes ==
    ASSUME node \in Nodes, NEW b \in Seq(node.txs)
    PROVE  /\ IsFiniteSet(TxsOf(b)) /\ TxsOf(b) \subseteq node.txs
           /\ IsFiniteSet(BlockSenders(b)) /\ BlockSenders(b) \subseteq Senders
           /\ \A s \in BlockSenders(b) : /\ SenderNonce(b, s) \in Nat
                                         /\ \A t \in TxsOf(b) : Sender[t] = s => Nonce[t] <= SenderNonce(b, s)
<1>1. PICK l \in Nat : l = Len(b) /\ DOMAIN b = 1..l
  BY LenProperties
<1>2. IsFiniteSet(1..l)
  BY FS_Interval
<1>3. TxsOf(b) = {b[i] : i \in 1..l} /\ \A i \in 1..l : b[i] \in node.txs
  BY <1>1, ElementOfSeq DEF TxsOf, ToSet
<1>4. IsFiniteSet(TxsOf(b)) /\ TxsOf(b) \subseteq node.txs
  <2>1. IsFiniteSet({b[i] : i \in 1..l})
    BY <1>2, ImageOf
  <2> QED BY <1>3, <2>1
<1>5. TxsOf(b) \subseteq Txs
  BY <1>4, NodeTypes
<1>6. IsFiniteSet(BlockSenders(b)) /\ BlockSenders(b) \subseteq Senders
  <2>1. IsFiniteSet({Sender[t] : t \in TxsOf(b)})
    BY <1>4, ImageOf
  <2> QED BY <1>5, <2>1, TxTypes DEF BlockSenders
<1>7. ASSUME NEW s \in BlockSenders(b)
      PROVE  SenderNonce(b, s) \in Nat /\ \A t \in TxsOf(b) : Sender[t] = s => Nonce[t] <= SenderNonce(b, s)
  <2>1. PICK own : own = {u \in TxsOf(b) : Sender[u] = s}
    OBVIOUS
  <2>2. PICK N : N = {Nonce[t] : t \in own}
    OBVIOUS
  <2>3. own \in SUBSET TxsOf(b) /\ own # {}
    BY <1>7, <2>1 DEF BlockSenders
  <2>4. IsFiniteSet(own)
    BY <1>4, <2>3, FS_Subset
  <2>5. IsFiniteSet(N)
    <3>1. IsFiniteSet({Nonce[t] : t \in own})
      BY <2>4, ImageOf
    <3> QED BY <2>2, <3>1
  <2>6. N \in SUBSET Nat /\ N # {}
    BY <1>5, <2>2, <2>3, TxTypes
  <2>7. \E m \in N : \A k \in N : k <= m
    BY <2>5, <2>6, FiniteHasGreatest
  <2>8. Top(N) \in N /\ \A k \in N : k <= Top(N)
    BY <2>7 DEF Top
  <2>9. SenderNonce(b, s) = Top(N)
    BY <2>1, <2>2 DEF SenderNonce
  <2> QED BY <2>1, <2>2, <2>6, <2>8, <2>9
<1> QED BY <1>4, <1>6, <1>7

-----------------------------------------------------------------------------
(* The folds of the node.                                                    *)

(* Each fold of the models goes from its base to its value step by step, in any   *)
(* set P that the steps do not leave.                                         *)

\* fullSync.
AdmitsStay(P, T) == \A x \in P, t \in T : OnAdmit(x, t) \in P
AdmitsTrace(P, T, base, q, r) ==
    /\ r \in [0..Len(q) -> P] /\ r[0] = base
    /\ \A n \in 1..Len(q) : q[n] \in T /\ r[n - 1] \in P /\ r[n] = OnAdmit(r[n - 1], q[n])

LEMMA AdmitsLead ==
    ASSUME NEW P, NEW T, AdmitsStay(P, T), NEW base \in P, NEW q \in Seq(T)
    PROVE  \E r : AdmitsTrace(P, T, base, q, r) /\ r[Len(q)] = FoldLeft(OnAdmit, base, q)
<1> DEFINE F == [x \in P |-> [t \in T |-> OnAdmit(x, t)]]
           Unfolds(h) ==
               h = [D \in SUBSET DOMAIN q |-> IF D = {} THEN base
                                              ELSE OnAdmit(h[D \ {LastIn(D)}], q[LastIn(D)])]
<1>1. Stepwise(F, P, T)
  BY DEF Stepwise, AdmitsStay
<1>2. \A x \in P, t \in T : F[x][t] = OnAdmit(x, t)
  OBVIOUS
<1>3. PICK g : g = CHOOSE h : Unfolds(h)
  OBVIOUS
<1>4. FoldLeft(OnAdmit, base, q) = g[DOMAIN q]
  BY <1>3 DEF FoldLeft, MapThenFoldSet, Max, LastIn
<1> HIDE DEF F
<1>5. PICK h : Folds(F, P, T, base, q, h)
  BY <1>1, FoldsTyped
<1>6. Unfolds(h)
  <2>1. \A D \in SUBSET DOMAIN q : D # {} => h[D] = OnAdmit(h[D \ {LastIn(D)}], q[LastIn(D)])
    BY <1>2, <1>5 DEF Folds, Leads
  <2>2. h \in [SUBSET DOMAIN q -> P] /\ h[{}] = base
    BY <1>5 DEF Folds, Leads
  <2> QED BY <2>1, <2>2
<1>7. Unfolds(g)
  BY <1>3, <1>6
<1>8. Unrolls(F, P, base, q, g)
  <2>1. ASSUME NEW D \in SUBSET DOMAIN q, D # {}, g[D \ {LastIn(D)}] \in P
        PROVE  g[D] = F[g[D \ {LastIn(D)}]][q[LastIn(D)]]
    <3>1. q[LastIn(D)] \in T
      BY <1>5, <2>1 DEF Folds
    <3>2. g[D] = OnAdmit(g[D \ {LastIn(D)}], q[LastIn(D)])
      BY <1>7, <2>1
    <3> QED BY <1>2, <2>1, <3>1, <3>2
  <2>2. g[{}] = base
    BY <1>7
  <2> QED BY <2>1, <2>2 DEF Unrolls
<1>9. PICK r : Trace(F, P, T, base, q, r) /\ r[Len(q)] = g[DOMAIN q]
  BY <1>1, <1>8, FoldsLead
<1>10. \A n \in 1..Len(q) : q[n] \in T /\ r[n - 1] \in P /\ r[n] = OnAdmit(r[n - 1], q[n])
  BY <1>2, <1>9 DEF Trace
<1> QED BY <1>4, <1>9, <1>10 DEF Trace, AdmitsTrace

\* The base nonces of one block.
BasesStay(b, P, T) == \A x \in P, t \in T : BaseNonce(x, b, t) \in P
BasesTrace(b, P, T, base, q, r) ==
    /\ r \in [0..Len(q) -> P] /\ r[0] = base
    /\ \A n \in 1..Len(q) : q[n] \in T /\ r[n - 1] \in P /\ r[n] = BaseNonce(r[n - 1], b, q[n])

LEMMA BasesLead ==
    ASSUME NEW P, NEW T, NEW b, BasesStay(b, P, T), NEW base \in P, NEW q \in Seq(T),
           q = SetToSeq(BlockSenders(b))
    PROVE  \E r : BasesTrace(b, P, T, base, q, r) /\ r[Len(q)] = BaseNonces(base, b)
<1> DEFINE F == [x \in P |-> [t \in T |-> BaseNonce(x, b, t)]]
           Unfolds(h) ==
               h = [D \in SUBSET DOMAIN q |-> IF D = {} THEN base
                                              ELSE BaseNonce(h[D \ {LastIn(D)}], b, q[LastIn(D)])]
<1>1. Stepwise(F, P, T)
  BY DEF Stepwise, BasesStay
<1>2. \A x \in P, t \in T : F[x][t] = BaseNonce(x, b, t)
  OBVIOUS
<1>3. PICK g : g = CHOOSE h : Unfolds(h)
  OBVIOUS
<1>4. BaseNonces(base, b) = g[DOMAIN q]
  BY <1>3 DEF BaseNonces, FoldLeft, MapThenFoldSet, Max, LastIn
<1> HIDE DEF F
<1>5. PICK h : Folds(F, P, T, base, q, h)
  BY <1>1, FoldsTyped
<1>6. Unfolds(h)
  <2>1. \A D \in SUBSET DOMAIN q : D # {} => h[D] = BaseNonce(h[D \ {LastIn(D)}], b, q[LastIn(D)])
    BY <1>2, <1>5 DEF Folds, Leads
  <2>2. h \in [SUBSET DOMAIN q -> P] /\ h[{}] = base
    BY <1>5 DEF Folds, Leads
  <2> QED BY <2>1, <2>2
<1>7. Unfolds(g)
  BY <1>3, <1>6
<1>8. Unrolls(F, P, base, q, g)
  <2>1. ASSUME NEW D \in SUBSET DOMAIN q, D # {}, g[D \ {LastIn(D)}] \in P
        PROVE  g[D] = F[g[D \ {LastIn(D)}]][q[LastIn(D)]]
    <3>1. q[LastIn(D)] \in T
      BY <1>5, <2>1 DEF Folds
    <3>2. g[D] = BaseNonce(g[D \ {LastIn(D)}], b, q[LastIn(D)])
      BY <1>7, <2>1
    <3> QED BY <1>2, <2>1, <3>1, <3>2
  <2>2. g[{}] = base
    BY <1>7
  <2> QED BY <2>1, <2>2 DEF Unrolls
<1>9. PICK r : Trace(F, P, T, base, q, r) /\ r[Len(q)] = g[DOMAIN q]
  BY <1>1, <1>8, FoldsLead
<1>10. \A n \in 1..Len(q) : q[n] \in T /\ r[n - 1] \in P /\ r[n] = BaseNonce(r[n - 1], b, q[n])
  BY <1>2, <1>9 DEF Trace
<1> QED BY <1>4, <1>9, <1>10 DEF Trace, BasesTrace

\* The nonces of a block.
CommitsStay(b, P, T) == \A x \in P, t \in T : CommitNonce(x, b, t) \in P
CommitsTrace(b, P, T, base, q, r) ==
    /\ r \in [0..Len(q) -> P] /\ r[0] = base
    /\ \A n \in 1..Len(q) : q[n] \in T /\ r[n - 1] \in P /\ r[n] = CommitNonce(r[n - 1], b, q[n])

LEMMA CommitsLead ==
    ASSUME NEW P, NEW T, NEW b, CommitsStay(b, P, T), NEW base \in P, NEW q \in Seq(T),
           q = SetToSeq(BlockSenders(b))
    PROVE  \E r : CommitsTrace(b, P, T, base, q, r) /\ r[Len(q)] = CommitAll(base, b)
<1> DEFINE F == [x \in P |-> [t \in T |-> CommitNonce(x, b, t)]]
           Unfolds(h) ==
               h = [D \in SUBSET DOMAIN q |-> IF D = {} THEN base
                                              ELSE CommitNonce(h[D \ {LastIn(D)}], b, q[LastIn(D)])]
<1>1. Stepwise(F, P, T)
  BY DEF Stepwise, CommitsStay
<1>2. \A x \in P, t \in T : F[x][t] = CommitNonce(x, b, t)
  OBVIOUS
<1>3. PICK g : g = CHOOSE h : Unfolds(h)
  OBVIOUS
<1>4. CommitAll(base, b) = g[DOMAIN q]
  BY <1>3 DEF CommitAll, FoldLeft, MapThenFoldSet, Max, LastIn
<1> HIDE DEF F
<1>5. PICK h : Folds(F, P, T, base, q, h)
  BY <1>1, FoldsTyped
<1>6. Unfolds(h)
  <2>1. \A D \in SUBSET DOMAIN q : D # {} => h[D] = CommitNonce(h[D \ {LastIn(D)}], b, q[LastIn(D)])
    BY <1>2, <1>5 DEF Folds, Leads
  <2>2. h \in [SUBSET DOMAIN q -> P] /\ h[{}] = base
    BY <1>5 DEF Folds, Leads
  <2> QED BY <2>1, <2>2
<1>7. Unfolds(g)
  BY <1>3, <1>6
<1>8. Unrolls(F, P, base, q, g)
  <2>1. ASSUME NEW D \in SUBSET DOMAIN q, D # {}, g[D \ {LastIn(D)}] \in P
        PROVE  g[D] = F[g[D \ {LastIn(D)}]][q[LastIn(D)]]
    <3>1. q[LastIn(D)] \in T
      BY <1>5, <2>1 DEF Folds
    <3>2. g[D] = CommitNonce(g[D \ {LastIn(D)}], b, q[LastIn(D)])
      BY <1>7, <2>1
    <3> QED BY <1>2, <2>1, <3>1, <3>2
  <2>2. g[{}] = base
    BY <1>7
  <2> QED BY <2>1, <2>2 DEF Unrolls
<1>9. PICK r : Trace(F, P, T, base, q, r) /\ r[Len(q)] = g[DOMAIN q]
  BY <1>1, <1>8, FoldsLead
<1>10. \A n \in 1..Len(q) : q[n] \in T /\ r[n - 1] \in P /\ r[n] = CommitNonce(r[n - 1], b, q[n])
  BY <1>2, <1>9 DEF Trace
<1> QED BY <1>4, <1>9, <1>10 DEF Trace, CommitsTrace

\* The base nonces of several blocks.
BlocksStay(P, T) == \A x \in P, t \in T : BaseNonces(x, t) \in P
BlocksTrace(P, T, base, q, r) ==
    /\ r \in [0..Len(q) -> P] /\ r[0] = base
    /\ \A n \in 1..Len(q) : q[n] \in T /\ r[n - 1] \in P /\ r[n] = BaseNonces(r[n - 1], q[n])

LEMMA BlocksLead ==
    ASSUME NEW P, NEW T, BlocksStay(P, T), NEW base \in P, NEW q \in Seq(T)
    PROVE  \E r : BlocksTrace(P, T, base, q, r) /\ r[Len(q)] = FoldLeft(BaseNonces, base, q)
<1> DEFINE F == [x \in P |-> [t \in T |-> BaseNonces(x, t)]]
           Unfolds(h) ==
               h = [D \in SUBSET DOMAIN q |-> IF D = {} THEN base
                                              ELSE BaseNonces(h[D \ {LastIn(D)}], q[LastIn(D)])]
<1>1. Stepwise(F, P, T)
  BY DEF Stepwise, BlocksStay
<1>2. \A x \in P, t \in T : F[x][t] = BaseNonces(x, t)
  OBVIOUS
<1>3. PICK g : g = CHOOSE h : Unfolds(h)
  OBVIOUS
<1>4. FoldLeft(BaseNonces, base, q) = g[DOMAIN q]
  BY <1>3 DEF FoldLeft, MapThenFoldSet, Max, LastIn
<1> HIDE DEF F
<1>5. PICK h : Folds(F, P, T, base, q, h)
  BY <1>1, FoldsTyped
<1>6. Unfolds(h)
  <2>1. \A D \in SUBSET DOMAIN q : D # {} => h[D] = BaseNonces(h[D \ {LastIn(D)}], q[LastIn(D)])
    BY <1>2, <1>5 DEF Folds, Leads
  <2>2. h \in [SUBSET DOMAIN q -> P] /\ h[{}] = base
    BY <1>5 DEF Folds, Leads
  <2> QED BY <2>1, <2>2
<1>7. Unfolds(g)
  BY <1>3, <1>6
<1>8. Unrolls(F, P, base, q, g)
  <2>1. ASSUME NEW D \in SUBSET DOMAIN q, D # {}, g[D \ {LastIn(D)}] \in P
        PROVE  g[D] = F[g[D \ {LastIn(D)}]][q[LastIn(D)]]
    <3>1. q[LastIn(D)] \in T
      BY <1>5, <2>1 DEF Folds
    <3>2. g[D] = BaseNonces(g[D \ {LastIn(D)}], q[LastIn(D)])
      BY <1>7, <2>1
    <3> QED BY <1>2, <2>1, <3>1, <3>2
  <2>2. g[{}] = base
    BY <1>7
  <2> QED BY <2>1, <2>2 DEF Unrolls
<1>9. PICK r : Trace(F, P, T, base, q, r) /\ r[Len(q)] = g[DOMAIN q]
  BY <1>1, <1>8, FoldsLead
<1>10. \A n \in 1..Len(q) : q[n] \in T /\ r[n - 1] \in P /\ r[n] = BaseNonces(r[n - 1], q[n])
  BY <1>2, <1>9 DEF Trace
<1> QED BY <1>4, <1>9, <1>10 DEF Trace, BlocksTrace

\* One orphaned block is put back.
ReinsertsStay(new, P, T) == \A x \in P, t \in T : Reinsert(x, t, new) \in P
ReinsertsTrace(new, P, T, base, q, r) ==
    /\ r \in [0..Len(q) -> P] /\ r[0] = base
    /\ \A n \in 1..Len(q) : q[n] \in T /\ r[n - 1] \in P /\ r[n] = Reinsert(r[n - 1], q[n], new)

LEMMA ReinsertsLead ==
    ASSUME NEW P, NEW T, NEW new, ReinsertsStay(new, P, T), NEW base \in P, NEW q \in Seq(T)
    PROVE  \E r : ReinsertsTrace(new, P, T, base, q, r) /\ r[Len(q)] = ReinsertAll(base, q, new)
<1> DEFINE F == [x \in P |-> [t \in T |-> Reinsert(x, t, new)]]
           Unfolds(h) ==
               h = [D \in SUBSET DOMAIN q |-> IF D = {} THEN base
                                              ELSE Reinsert(h[D \ {LastIn(D)}], q[LastIn(D)], new)]
<1>1. Stepwise(F, P, T)
  BY DEF Stepwise, ReinsertsStay
<1>2. \A x \in P, t \in T : F[x][t] = Reinsert(x, t, new)
  OBVIOUS
<1>3. PICK g : g = CHOOSE h : Unfolds(h)
  OBVIOUS
<1>4. ReinsertAll(base, q, new) = g[DOMAIN q]
  BY <1>3 DEF ReinsertAll, FoldLeft, MapThenFoldSet, Max, LastIn
<1> HIDE DEF F
<1>5. PICK h : Folds(F, P, T, base, q, h)
  BY <1>1, FoldsTyped
<1>6. Unfolds(h)
  <2>1. \A D \in SUBSET DOMAIN q : D # {} => h[D] = Reinsert(h[D \ {LastIn(D)}], q[LastIn(D)], new)
    BY <1>2, <1>5 DEF Folds, Leads
  <2>2. h \in [SUBSET DOMAIN q -> P] /\ h[{}] = base
    BY <1>5 DEF Folds, Leads
  <2> QED BY <2>1, <2>2
<1>7. Unfolds(g)
  BY <1>3, <1>6
<1>8. Unrolls(F, P, base, q, g)
  <2>1. ASSUME NEW D \in SUBSET DOMAIN q, D # {}, g[D \ {LastIn(D)}] \in P
        PROVE  g[D] = F[g[D \ {LastIn(D)}]][q[LastIn(D)]]
    <3>1. q[LastIn(D)] \in T
      BY <1>5, <2>1 DEF Folds
    <3>2. g[D] = Reinsert(g[D \ {LastIn(D)}], q[LastIn(D)], new)
      BY <1>7, <2>1
    <3> QED BY <1>2, <2>1, <3>1, <3>2
  <2>2. g[{}] = base
    BY <1>7
  <2> QED BY <2>1, <2>2 DEF Unrolls
<1>9. PICK r : Trace(F, P, T, base, q, r) /\ r[Len(q)] = g[DOMAIN q]
  BY <1>1, <1>8, FoldsLead
<1>10. \A n \in 1..Len(q) : q[n] \in T /\ r[n - 1] \in P /\ r[n] = Reinsert(r[n - 1], q[n], new)
  BY <1>2, <1>9 DEF Trace
<1> QED BY <1>4, <1>9, <1>10 DEF Trace, ReinsertsTrace

\* All orphaned blocks are.
OrphansStay(new, P, T) == \A x \in P, t \in T : ReinsertAll(x, t, new) \in P
OrphansTrace(new, P, T, base, q, r) ==
    /\ r \in [0..Len(q) -> P] /\ r[0] = base
    /\ \A n \in 1..Len(q) : q[n] \in T /\ r[n - 1] \in P /\ r[n] = ReinsertAll(r[n - 1], q[n], new)

LEMMA OrphansLead ==
    ASSUME NEW P, NEW T, NEW new, OrphansStay(new, P, T), NEW base \in P, NEW q \in Seq(T)
    PROVE  \E r : OrphansTrace(new, P, T, base, q, r) /\ r[Len(q)] = ReinsertBlocks(base, q, new)
<1> DEFINE F == [x \in P |-> [t \in T |-> ReinsertAll(x, t, new)]]
           Unfolds(h) ==
               h = [D \in SUBSET DOMAIN q |-> IF D = {} THEN base
                                              ELSE ReinsertAll(h[D \ {LastIn(D)}], q[LastIn(D)], new)]
<1>1. Stepwise(F, P, T)
  BY DEF Stepwise, OrphansStay
<1>2. \A x \in P, t \in T : F[x][t] = ReinsertAll(x, t, new)
  OBVIOUS
<1>3. PICK g : g = CHOOSE h : Unfolds(h)
  OBVIOUS
<1>4. ReinsertBlocks(base, q, new) = g[DOMAIN q]
  BY <1>3 DEF ReinsertBlocks, FoldLeft, MapThenFoldSet, Max, LastIn
<1> HIDE DEF F
<1>5. PICK h : Folds(F, P, T, base, q, h)
  BY <1>1, FoldsTyped
<1>6. Unfolds(h)
  <2>1. \A D \in SUBSET DOMAIN q : D # {} => h[D] = ReinsertAll(h[D \ {LastIn(D)}], q[LastIn(D)], new)
    BY <1>2, <1>5 DEF Folds, Leads
  <2>2. h \in [SUBSET DOMAIN q -> P] /\ h[{}] = base
    BY <1>5 DEF Folds, Leads
  <2> QED BY <2>1, <2>2
<1>7. Unfolds(g)
  BY <1>3, <1>6
<1>8. Unrolls(F, P, base, q, g)
  <2>1. ASSUME NEW D \in SUBSET DOMAIN q, D # {}, g[D \ {LastIn(D)}] \in P
        PROVE  g[D] = F[g[D \ {LastIn(D)}]][q[LastIn(D)]]
    <3>1. q[LastIn(D)] \in T
      BY <1>5, <2>1 DEF Folds
    <3>2. g[D] = ReinsertAll(g[D \ {LastIn(D)}], q[LastIn(D)], new)
      BY <1>7, <2>1
    <3> QED BY <1>2, <2>1, <3>1, <3>2
  <2>2. g[{}] = base
    BY <1>7
  <2> QED BY <2>1, <2>2 DEF Unrolls
<1>9. PICK r : Trace(F, P, T, base, q, r) /\ r[Len(q)] = g[DOMAIN q]
  BY <1>1, <1>8, FoldsLead
<1>10. \A n \in 1..Len(q) : q[n] \in T /\ r[n - 1] \in P /\ r[n] = ReinsertAll(r[n - 1], q[n], new)
  BY <1>2, <1>9 DEF Trace
<1> QED BY <1>4, <1>9, <1>10 DEF Trace, OrphansTrace

\* A block enters the ring.
EntersStay(hash, P, T) == \A x \in P, t \in T : Entered(x, t, Len(hash)) \in P
EntersTrace(hash, P, T, base, q, r) ==
    /\ r \in [0..Len(q) -> P] /\ r[0] = base
    /\ \A n \in 1..Len(q) : q[n] \in T /\ r[n - 1] \in P /\ r[n] = Entered(r[n - 1], q[n], Len(hash))

LEMMA EntersLead ==
    ASSUME NEW P, NEW T, NEW hash, EntersStay(hash, P, T), NEW base \in P, NEW q \in Seq(T),
           q = Last(hash)
    PROVE  \E r : EntersTrace(hash, P, T, base, q, r) /\ r[Len(q)] = BlockEntered(base, hash)
<1> DEFINE F == [x \in P |-> [t \in T |-> Entered(x, t, Len(hash))]]
           Unfolds(h) ==
               h = [D \in SUBSET DOMAIN q |-> IF D = {} THEN base
                                              ELSE Entered(h[D \ {LastIn(D)}], q[LastIn(D)], Len(hash))]
<1>1. Stepwise(F, P, T)
  BY DEF Stepwise, EntersStay
<1>2. \A x \in P, t \in T : F[x][t] = Entered(x, t, Len(hash))
  OBVIOUS
<1>3. PICK g : g = CHOOSE h : Unfolds(h)
  OBVIOUS
<1>4. BlockEntered(base, hash) = g[DOMAIN q]
  BY <1>3 DEF BlockEntered, FoldLeft, MapThenFoldSet, Max, LastIn
<1> HIDE DEF F
<1>5. PICK h : Folds(F, P, T, base, q, h)
  BY <1>1, FoldsTyped
<1>6. Unfolds(h)
  <2>1. \A D \in SUBSET DOMAIN q : D # {} => h[D] = Entered(h[D \ {LastIn(D)}], q[LastIn(D)], Len(hash))
    BY <1>2, <1>5 DEF Folds, Leads
  <2>2. h \in [SUBSET DOMAIN q -> P] /\ h[{}] = base
    BY <1>5 DEF Folds, Leads
  <2> QED BY <2>1, <2>2
<1>7. Unfolds(g)
  BY <1>3, <1>6
<1>8. Unrolls(F, P, base, q, g)
  <2>1. ASSUME NEW D \in SUBSET DOMAIN q, D # {}, g[D \ {LastIn(D)}] \in P
        PROVE  g[D] = F[g[D \ {LastIn(D)}]][q[LastIn(D)]]
    <3>1. q[LastIn(D)] \in T
      BY <1>5, <2>1 DEF Folds
    <3>2. g[D] = Entered(g[D \ {LastIn(D)}], q[LastIn(D)], Len(hash))
      BY <1>7, <2>1
    <3> QED BY <1>2, <2>1, <3>1, <3>2
  <2>2. g[{}] = base
    BY <1>7
  <2> QED BY <2>1, <2>2 DEF Unrolls
<1>9. PICK r : Trace(F, P, T, base, q, r) /\ r[Len(q)] = g[DOMAIN q]
  BY <1>1, <1>8, FoldsLead
<1>10. \A n \in 1..Len(q) : q[n] \in T /\ r[n - 1] \in P /\ r[n] = Entered(r[n - 1], q[n], Len(hash))
  BY <1>2, <1>9 DEF Trace
<1> QED BY <1>4, <1>9, <1>10 DEF Trace, EntersTrace

\* The blocks of a step enter the ring.
RingsStay(P, T) == \A x \in P, t \in T : BlockEntered(x, t) \in P
RingsTrace(P, T, base, q, r) ==
    /\ r \in [0..Len(q) -> P] /\ r[0] = base
    /\ \A n \in 1..Len(q) : q[n] \in T /\ r[n - 1] \in P /\ r[n] = BlockEntered(r[n - 1], q[n])

LEMMA RingsLead ==
    ASSUME NEW P, NEW T, RingsStay(P, T), NEW base \in P, NEW q \in Seq(T)
    PROVE  \E r : RingsTrace(P, T, base, q, r) /\ r[Len(q)] = FoldLeft(BlockEntered, base, q)
<1> DEFINE F == [x \in P |-> [t \in T |-> BlockEntered(x, t)]]
           Unfolds(h) ==
               h = [D \in SUBSET DOMAIN q |-> IF D = {} THEN base
                                              ELSE BlockEntered(h[D \ {LastIn(D)}], q[LastIn(D)])]
<1>1. Stepwise(F, P, T)
  BY DEF Stepwise, RingsStay
<1>2. \A x \in P, t \in T : F[x][t] = BlockEntered(x, t)
  OBVIOUS
<1>3. PICK g : g = CHOOSE h : Unfolds(h)
  OBVIOUS
<1>4. FoldLeft(BlockEntered, base, q) = g[DOMAIN q]
  BY <1>3 DEF FoldLeft, MapThenFoldSet, Max, LastIn
<1> HIDE DEF F
<1>5. PICK h : Folds(F, P, T, base, q, h)
  BY <1>1, FoldsTyped
<1>6. Unfolds(h)
  <2>1. \A D \in SUBSET DOMAIN q : D # {} => h[D] = BlockEntered(h[D \ {LastIn(D)}], q[LastIn(D)])
    BY <1>2, <1>5 DEF Folds, Leads
  <2>2. h \in [SUBSET DOMAIN q -> P] /\ h[{}] = base
    BY <1>5 DEF Folds, Leads
  <2> QED BY <2>1, <2>2
<1>7. Unfolds(g)
  BY <1>3, <1>6
<1>8. Unrolls(F, P, base, q, g)
  <2>1. ASSUME NEW D \in SUBSET DOMAIN q, D # {}, g[D \ {LastIn(D)}] \in P
        PROVE  g[D] = F[g[D \ {LastIn(D)}]][q[LastIn(D)]]
    <3>1. q[LastIn(D)] \in T
      BY <1>5, <2>1 DEF Folds
    <3>2. g[D] = BlockEntered(g[D \ {LastIn(D)}], q[LastIn(D)])
      BY <1>7, <2>1
    <3> QED BY <1>2, <2>1, <3>1, <3>2
  <2>2. g[{}] = base
    BY <1>7
  <2> QED BY <2>1, <2>2 DEF Unrolls
<1>9. PICK r : Trace(F, P, T, base, q, r) /\ r[Len(q)] = g[DOMAIN q]
  BY <1>1, <1>8, FoldsLead
<1>10. \A n \in 1..Len(q) : q[n] \in T /\ r[n - 1] \in P /\ r[n] = BlockEntered(r[n - 1], q[n])
  BY <1>2, <1>9 DEF Trace
<1> QED BY <1>4, <1>9, <1>10 DEF Trace, RingsTrace

\* The slots of a queue are looked at.
FindsStay(P, T) == \A x \in P, t \in T : Found(x, t) \in P
FindsTrace(P, T, base, q, r) ==
    /\ r \in [0..Len(q) -> P] /\ r[0] = base
    /\ \A n \in 1..Len(q) : q[n] \in T /\ r[n - 1] \in P /\ r[n] = Found(r[n - 1], q[n])

LEMMA FindsLead ==
    ASSUME NEW P, NEW T, FindsStay(P, T), NEW base \in P, NEW q \in Seq(T)
    PROVE  \E r : FindsTrace(P, T, base, q, r) /\ r[Len(q)] = FoldLeft(Found, base, q)
<1> DEFINE F == [x \in P |-> [t \in T |-> Found(x, t)]]
           Unfolds(h) ==
               h = [D \in SUBSET DOMAIN q |-> IF D = {} THEN base
                                              ELSE Found(h[D \ {LastIn(D)}], q[LastIn(D)])]
<1>1. Stepwise(F, P, T)
  BY DEF Stepwise, FindsStay
<1>2. \A x \in P, t \in T : F[x][t] = Found(x, t)
  OBVIOUS
<1>3. PICK g : g = CHOOSE h : Unfolds(h)
  OBVIOUS
<1>4. FoldLeft(Found, base, q) = g[DOMAIN q]
  BY <1>3 DEF FoldLeft, MapThenFoldSet, Max, LastIn
<1> HIDE DEF F
<1>5. PICK h : Folds(F, P, T, base, q, h)
  BY <1>1, FoldsTyped
<1>6. Unfolds(h)
  <2>1. \A D \in SUBSET DOMAIN q : D # {} => h[D] = Found(h[D \ {LastIn(D)}], q[LastIn(D)])
    BY <1>2, <1>5 DEF Folds, Leads
  <2>2. h \in [SUBSET DOMAIN q -> P] /\ h[{}] = base
    BY <1>5 DEF Folds, Leads
  <2> QED BY <2>1, <2>2
<1>7. Unfolds(g)
  BY <1>3, <1>6
<1>8. Unrolls(F, P, base, q, g)
  <2>1. ASSUME NEW D \in SUBSET DOMAIN q, D # {}, g[D \ {LastIn(D)}] \in P
        PROVE  g[D] = F[g[D \ {LastIn(D)}]][q[LastIn(D)]]
    <3>1. q[LastIn(D)] \in T
      BY <1>5, <2>1 DEF Folds
    <3>2. g[D] = Found(g[D \ {LastIn(D)}], q[LastIn(D)])
      BY <1>7, <2>1
    <3> QED BY <1>2, <2>1, <3>1, <3>2
  <2>2. g[{}] = base
    BY <1>7
  <2> QED BY <2>1, <2>2 DEF Unrolls
<1>9. PICK r : Trace(F, P, T, base, q, r) /\ r[Len(q)] = g[DOMAIN q]
  BY <1>1, <1>8, FoldsLead
<1>10. \A n \in 1..Len(q) : q[n] \in T /\ r[n - 1] \in P /\ r[n] = Found(r[n - 1], q[n])
  BY <1>2, <1>9 DEF Trace
<1> QED BY <1>4, <1>9, <1>10 DEF Trace, FindsTrace

\* The queues of several states are.
QueriesStay(P, T) == \A x \in P, t \in T : FoundUnder(x, t) \in P
QueriesTrace(P, T, base, q, r) ==
    /\ r \in [0..Len(q) -> P] /\ r[0] = base
    /\ \A n \in 1..Len(q) : q[n] \in T /\ r[n - 1] \in P /\ r[n] = FoundUnder(r[n - 1], q[n])

LEMMA QueriesLead ==
    ASSUME NEW P, NEW T, QueriesStay(P, T), NEW base \in P, NEW q \in Seq(T)
    PROVE  \E r : QueriesTrace(P, T, base, q, r) /\ r[Len(q)] = FoldLeft(FoundUnder, base, q)
<1> DEFINE F == [x \in P |-> [t \in T |-> FoundUnder(x, t)]]
           Unfolds(h) ==
               h = [D \in SUBSET DOMAIN q |-> IF D = {} THEN base
                                              ELSE FoundUnder(h[D \ {LastIn(D)}], q[LastIn(D)])]
<1>1. Stepwise(F, P, T)
  BY DEF Stepwise, QueriesStay
<1>2. \A x \in P, t \in T : F[x][t] = FoundUnder(x, t)
  OBVIOUS
<1>3. PICK g : g = CHOOSE h : Unfolds(h)
  OBVIOUS
<1>4. FoldLeft(FoundUnder, base, q) = g[DOMAIN q]
  BY <1>3 DEF FoldLeft, MapThenFoldSet, Max, LastIn
<1> HIDE DEF F
<1>5. PICK h : Folds(F, P, T, base, q, h)
  BY <1>1, FoldsTyped
<1>6. Unfolds(h)
  <2>1. \A D \in SUBSET DOMAIN q : D # {} => h[D] = FoundUnder(h[D \ {LastIn(D)}], q[LastIn(D)])
    BY <1>2, <1>5 DEF Folds, Leads
  <2>2. h \in [SUBSET DOMAIN q -> P] /\ h[{}] = base
    BY <1>5 DEF Folds, Leads
  <2> QED BY <2>1, <2>2
<1>7. Unfolds(g)
  BY <1>3, <1>6
<1>8. Unrolls(F, P, base, q, g)
  <2>1. ASSUME NEW D \in SUBSET DOMAIN q, D # {}, g[D \ {LastIn(D)}] \in P
        PROVE  g[D] = F[g[D \ {LastIn(D)}]][q[LastIn(D)]]
    <3>1. q[LastIn(D)] \in T
      BY <1>5, <2>1 DEF Folds
    <3>2. g[D] = FoundUnder(g[D \ {LastIn(D)}], q[LastIn(D)])
      BY <1>7, <2>1
    <3> QED BY <1>2, <2>1, <3>1, <3>2
  <2>2. g[{}] = base
    BY <1>7
  <2> QED BY <2>1, <2>2 DEF Unrolls
<1>9. PICK r : Trace(F, P, T, base, q, r) /\ r[Len(q)] = g[DOMAIN q]
  BY <1>1, <1>8, FoldsLead
<1>10. \A n \in 1..Len(q) : q[n] \in T /\ r[n - 1] \in P /\ r[n] = FoundUnder(r[n - 1], q[n])
  BY <1>2, <1>9 DEF Trace
<1> QED BY <1>4, <1>9, <1>10 DEF Trace, QueriesTrace

\* The tracker is told of a block.
MarksStay(hash, P, T) == \A x \in P, t \in T : MarkIncluded(x, t, hash) \in P
MarksTrace(hash, P, T, base, q, r) ==
    /\ r \in [0..Len(q) -> P] /\ r[0] = base
    /\ \A n \in 1..Len(q) : q[n] \in T /\ r[n - 1] \in P /\ r[n] = MarkIncluded(r[n - 1], q[n], hash)

LEMMA MarksLead ==
    ASSUME NEW P, NEW T, NEW hash, MarksStay(hash, P, T), NEW base \in P, NEW q \in Seq(T),
           q = Last(hash)
    PROVE  \E r : MarksTrace(hash, P, T, base, q, r) /\ r[Len(q)] = MarkAll(base, hash)
<1> DEFINE F == [x \in P |-> [t \in T |-> MarkIncluded(x, t, hash)]]
           Unfolds(h) ==
               h = [D \in SUBSET DOMAIN q |-> IF D = {} THEN base
                                              ELSE MarkIncluded(h[D \ {LastIn(D)}], q[LastIn(D)], hash)]
<1>1. Stepwise(F, P, T)
  BY DEF Stepwise, MarksStay
<1>2. \A x \in P, t \in T : F[x][t] = MarkIncluded(x, t, hash)
  OBVIOUS
<1>3. PICK g : g = CHOOSE h : Unfolds(h)
  OBVIOUS
<1>4. MarkAll(base, hash) = g[DOMAIN q]
  BY <1>3 DEF MarkAll, FoldLeft, MapThenFoldSet, Max, LastIn
<1> HIDE DEF F
<1>5. PICK h : Folds(F, P, T, base, q, h)
  BY <1>1, FoldsTyped
<1>6. Unfolds(h)
  <2>1. \A D \in SUBSET DOMAIN q : D # {} => h[D] = MarkIncluded(h[D \ {LastIn(D)}], q[LastIn(D)], hash)
    BY <1>2, <1>5 DEF Folds, Leads
  <2>2. h \in [SUBSET DOMAIN q -> P] /\ h[{}] = base
    BY <1>5 DEF Folds, Leads
  <2> QED BY <2>1, <2>2
<1>7. Unfolds(g)
  BY <1>3, <1>6
<1>8. Unrolls(F, P, base, q, g)
  <2>1. ASSUME NEW D \in SUBSET DOMAIN q, D # {}, g[D \ {LastIn(D)}] \in P
        PROVE  g[D] = F[g[D \ {LastIn(D)}]][q[LastIn(D)]]
    <3>1. q[LastIn(D)] \in T
      BY <1>5, <2>1 DEF Folds
    <3>2. g[D] = MarkIncluded(g[D \ {LastIn(D)}], q[LastIn(D)], hash)
      BY <1>7, <2>1
    <3> QED BY <1>2, <2>1, <3>1, <3>2
  <2>2. g[{}] = base
    BY <1>7
  <2> QED BY <2>1, <2>2 DEF Unrolls
<1>9. PICK r : Trace(F, P, T, base, q, r) /\ r[Len(q)] = g[DOMAIN q]
  BY <1>1, <1>8, FoldsLead
<1>10. \A n \in 1..Len(q) : q[n] \in T /\ r[n - 1] \in P /\ r[n] = MarkIncluded(r[n - 1], q[n], hash)
  BY <1>2, <1>9 DEF Trace
<1> QED BY <1>4, <1>9, <1>10 DEF Trace, MarksTrace

\* The tracker is told of the blocks of a step.
ToldsStay(P, T) == \A x \in P, t \in T : Told(x, t) \in P
ToldsTrace(P, T, base, q, r) ==
    /\ r \in [0..Len(q) -> P] /\ r[0] = base
    /\ \A n \in 1..Len(q) : q[n] \in T /\ r[n - 1] \in P /\ r[n] = Told(r[n - 1], q[n])

LEMMA ToldsLead ==
    ASSUME NEW P, NEW T, ToldsStay(P, T), NEW base \in P, NEW q \in Seq(T)
    PROVE  \E r : ToldsTrace(P, T, base, q, r) /\ r[Len(q)] = FoldLeft(Told, base, q)
<1> DEFINE F == [x \in P |-> [t \in T |-> Told(x, t)]]
           Unfolds(h) ==
               h = [D \in SUBSET DOMAIN q |-> IF D = {} THEN base
                                              ELSE Told(h[D \ {LastIn(D)}], q[LastIn(D)])]
<1>1. Stepwise(F, P, T)
  BY DEF Stepwise, ToldsStay
<1>2. \A x \in P, t \in T : F[x][t] = Told(x, t)
  OBVIOUS
<1>3. PICK g : g = CHOOSE h : Unfolds(h)
  OBVIOUS
<1>4. FoldLeft(Told, base, q) = g[DOMAIN q]
  BY <1>3 DEF FoldLeft, MapThenFoldSet, Max, LastIn
<1> HIDE DEF F
<1>5. PICK h : Folds(F, P, T, base, q, h)
  BY <1>1, FoldsTyped
<1>6. Unfolds(h)
  <2>1. \A D \in SUBSET DOMAIN q : D # {} => h[D] = Told(h[D \ {LastIn(D)}], q[LastIn(D)])
    BY <1>2, <1>5 DEF Folds, Leads
  <2>2. h \in [SUBSET DOMAIN q -> P] /\ h[{}] = base
    BY <1>5 DEF Folds, Leads
  <2> QED BY <2>1, <2>2
<1>7. Unfolds(g)
  BY <1>3, <1>6
<1>8. Unrolls(F, P, base, q, g)
  <2>1. ASSUME NEW D \in SUBSET DOMAIN q, D # {}, g[D \ {LastIn(D)}] \in P
        PROVE  g[D] = F[g[D \ {LastIn(D)}]][q[LastIn(D)]]
    <3>1. q[LastIn(D)] \in T
      BY <1>5, <2>1 DEF Folds
    <3>2. g[D] = Told(g[D \ {LastIn(D)}], q[LastIn(D)])
      BY <1>7, <2>1
    <3> QED BY <1>2, <2>1, <3>1, <3>2
  <2>2. g[{}] = base
    BY <1>7
  <2> QED BY <2>1, <2>2 DEF Unrolls
<1>9. PICK r : Trace(F, P, T, base, q, r) /\ r[Len(q)] = g[DOMAIN q]
  BY <1>1, <1>8, FoldsLead
<1>10. \A n \in 1..Len(q) : q[n] \in T /\ r[n - 1] \in P /\ r[n] = Told(r[n - 1], q[n])
  BY <1>2, <1>9 DEF Trace
<1> QED BY <1>4, <1>9, <1>10 DEF Trace, ToldsTrace

\* The tracker is told of admitted transactions.
AdmittedStay(P, T) == \A x \in P, t \in T : MarkAdmitted(x, t) \in P
AdmittedTrace(P, T, base, q, r) ==
    /\ r \in [0..Len(q) -> P] /\ r[0] = base
    /\ \A n \in 1..Len(q) : q[n] \in T /\ r[n - 1] \in P /\ r[n] = MarkAdmitted(r[n - 1], q[n])

LEMMA AdmittedLead ==
    ASSUME NEW P, NEW T, AdmittedStay(P, T), NEW base \in P, NEW q \in Seq(T)
    PROVE  \E r : AdmittedTrace(P, T, base, q, r) /\ r[Len(q)] = FoldLeft(MarkAdmitted, base, q)
<1> DEFINE F == [x \in P |-> [t \in T |-> MarkAdmitted(x, t)]]
           Unfolds(h) ==
               h = [D \in SUBSET DOMAIN q |-> IF D = {} THEN base
                                              ELSE MarkAdmitted(h[D \ {LastIn(D)}], q[LastIn(D)])]
<1>1. Stepwise(F, P, T)
  BY DEF Stepwise, AdmittedStay
<1>2. \A x \in P, t \in T : F[x][t] = MarkAdmitted(x, t)
  OBVIOUS
<1>3. PICK g : g = CHOOSE h : Unfolds(h)
  OBVIOUS
<1>4. FoldLeft(MarkAdmitted, base, q) = g[DOMAIN q]
  BY <1>3 DEF FoldLeft, MapThenFoldSet, Max, LastIn
<1> HIDE DEF F
<1>5. PICK h : Folds(F, P, T, base, q, h)
  BY <1>1, FoldsTyped
<1>6. Unfolds(h)
  <2>1. \A D \in SUBSET DOMAIN q : D # {} => h[D] = MarkAdmitted(h[D \ {LastIn(D)}], q[LastIn(D)])
    BY <1>2, <1>5 DEF Folds, Leads
  <2>2. h \in [SUBSET DOMAIN q -> P] /\ h[{}] = base
    BY <1>5 DEF Folds, Leads
  <2> QED BY <2>1, <2>2
<1>7. Unfolds(g)
  BY <1>3, <1>6
<1>8. Unrolls(F, P, base, q, g)
  <2>1. ASSUME NEW D \in SUBSET DOMAIN q, D # {}, g[D \ {LastIn(D)}] \in P
        PROVE  g[D] = F[g[D \ {LastIn(D)}]][q[LastIn(D)]]
    <3>1. q[LastIn(D)] \in T
      BY <1>5, <2>1 DEF Folds
    <3>2. g[D] = MarkAdmitted(g[D \ {LastIn(D)}], q[LastIn(D)])
      BY <1>7, <2>1
    <3> QED BY <1>2, <2>1, <3>1, <3>2
  <2>2. g[{}] = base
    BY <1>7
  <2> QED BY <2>1, <2>2 DEF Unrolls
<1>9. PICK r : Trace(F, P, T, base, q, r) /\ r[Len(q)] = g[DOMAIN q]
  BY <1>1, <1>8, FoldsLead
<1>10. \A n \in 1..Len(q) : q[n] \in T /\ r[n - 1] \in P /\ r[n] = MarkAdmitted(r[n - 1], q[n])
  BY <1>2, <1>9 DEF Trace
<1> QED BY <1>4, <1>9, <1>10 DEF Trace, AdmittedTrace

-----------------------------------------------------------------------------
(* The nonces of blocks.                                                     *)

\* What a step of a walk reaches it keeps.
LEMMA Persists ==
    ASSUME NEW r, NEW k \in Nat, NEW l \in Nat, k <= l, NEW W, r[k] \in W, \A n \in k + 1..l : r[n - 1] \in W => r[n] \in W
    PROVE  r[l] \in W
<1> DEFINE B == {n \in k..l : r[n] \notin W}
<1>1. B = {}
  <2> SUFFICES ASSUME B # {} PROVE FALSE
    OBVIOUS
  <2>1. PICK m \in B : \A n \in B : m <= n
    <3>1. B \in SUBSET Nat /\ B # {}
      OBVIOUS
    <3> HIDE DEF B
    <3> QED BY <3>1, LeastElement
  <2>2. m # k /\ m \in k..l
    BY <2>1
  <2>3. m \in k + 1..l /\ m - 1 \in k..l /\ ~(m <= m - 1)
    BY <2>2
  <2>4. m - 1 \notin B
    <3> HIDE DEF B
    <3> QED BY <2>1, <2>3
  <2> QED BY <2>1, <2>3, <2>4
<1>2. l \in k..l
  OBVIOUS
<1> QED BY <1>1, <1>2

LEMMA SendersInSequence ==
    ASSUME node \in Nodes, NEW b \in Seq(node.txs)
    PROVE  /\ SetToSeq(BlockSenders(b)) \in Seq(BlockSenders(b))
           /\ \A s \in BlockSenders(b) : \E k \in 1..Len(SetToSeq(BlockSenders(b))) : SetToSeq(BlockSenders(b))[k] = s
<1>1. IsFiniteSet(BlockSenders(b))
  BY BlockTypes
<1>2. PICK q \in Seq(BlockSenders(b)) : q = SetToSeq(BlockSenders(b)) /\ ToSet(q) = BlockSenders(b)
  BY <1>1, SetInSequence
<1>3. DOMAIN q = 1..Len(q)
  BY LenProperties
<1>4. \A s \in BlockSenders(b) : \E k \in 1..Len(q) : q[k] = s
  BY <1>2, <1>3 DEF ToSet
<1> QED BY <1>2, <1>4

\* What the nonces of a block's senders become.
Raised(ix, jx, b) ==
    /\ jx \in GoodIxs
    /\ \A s \in Senders : IF s \in BlockSenders(b) THEN jx.next[s] >= SenderNonce(b, s) + 1
                                                   ELSE jx.next[s] = ix.next[s]

LEMMA OneBase ==
    ASSUME node \in Nodes, NEW ix \in GoodIxs, NEW b \in Seq(node.txs), NEW s \in BlockSenders(b)
    PROVE  /\ BaseNonce(ix, b, s) \in GoodIxs
           /\ BaseNonce(ix, b, s).next[s] >= SenderNonce(b, s) + 1
           /\ \A u \in Senders \ {s} : BaseNonce(ix, b, s).next[u] = ix.next[u]
<1>1. s \in Senders /\ SenderNonce(b, s) + 1 \in Nat
  BY BlockTypes
<1> QED BY <1>1, BaseGood DEF BaseNonce

LEMMA OneCommit ==
    ASSUME node \in Nodes, NEW ix \in GoodIxs, NEW b \in Seq(node.txs), NEW s \in BlockSenders(b)
    PROVE  /\ CommitNonce(ix, b, s) \in GoodIxs
           /\ CommitNonce(ix, b, s).next[s] >= SenderNonce(b, s) + 1
           /\ \A u \in Senders \ {s} : CommitNonce(ix, b, s).next[u] = ix.next[u]
<1>1. s \in Senders /\ SenderNonce(b, s) \in Nat
  BY BlockTypes
<1>2. PICK jx \in GoodIxs : jx = BaseNonce(ix, b, s) /\ \A u \in Senders \ {s} : jx.next[u] = ix.next[u]
  BY OneBase
<1>3. CommitNonce(ix, b, s) = OnCommit(jx, s, SenderNonce(b, s))
  BY <1>2 DEF CommitNonce
<1>4. /\ OnCommit(jx, s, SenderNonce(b, s)) \in GoodIxs
      /\ OnCommit(jx, s, SenderNonce(b, s)).next[s] >= SenderNonce(b, s) + 1
      /\ \A u \in Senders \ {s} : OnCommit(jx, s, SenderNonce(b, s)).next[u] = jx.next[u]
  BY <1>1, CommitGood
<1> QED BY <1>2, <1>3, <1>4

LEMMA BasesRaise ==
    ASSUME node \in Nodes, NEW ix \in GoodIxs, NEW b \in Seq(node.txs)
    PROVE  Raised(ix, BaseNonces(ix, b), b)
<1>1. PICK q \in Seq(BlockSenders(b)) : /\ q = SetToSeq(BlockSenders(b))
                                        /\ \A s \in BlockSenders(b) : \E k \in 1..Len(q) : q[k] = s
  BY SendersInSequence
<1>3. PICK l \in Nat : l = Len(q)
  BY LenProperties
<1>4. PICK r : /\ r \in [0..l -> GoodIxs] /\ r[0] = ix
               /\ \A n \in 1..l : q[n] \in BlockSenders(b) /\ r[n - 1] \in GoodIxs /\ r[n] = BaseNonce(r[n - 1], b, q[n])
               /\ r[l] = BaseNonces(ix, b)
  <2>1. PICK P : P = GoodIxs
    OBVIOUS
  <2>2. PICK T : T = BlockSenders(b)
    OBVIOUS
  <2>3. BasesStay(b, P, T)
    BY <2>1, <2>2, OneBase DEF BasesStay
  <2>4. ix \in P /\ q \in Seq(T) /\ q = SetToSeq(BlockSenders(b))
    BY <1>1, <2>1, <2>2
  <2>5. PICK r : BasesTrace(b, P, T, ix, q, r) /\ r[Len(q)] = BaseNonces(ix, b)
    BY <2>3, <2>4, BasesLead
  <2> QED BY <1>3, <2>1, <2>2, <2>5 DEF BasesTrace
<1>5. \A n \in 1..l : /\ r[n].next[q[n]] >= SenderNonce(b, q[n]) + 1
                      /\ \A u \in Senders \ {q[n]} : r[n].next[u] = r[n - 1].next[u]
  BY <1>4, OneBase
<1>6. ASSUME NEW s \in Senders, s \notin BlockSenders(b) PROVE r[l].next[s] = ix.next[s]
  <2>1. PICK W : W = {x \in GoodIxs : x.next[s] = ix.next[s]}
    OBVIOUS
  <2>2. \A n \in 0 + 1..l : r[n - 1] \in W => r[n] \in W
    <3> SUFFICES ASSUME NEW n \in 1..l, r[n - 1] \in W PROVE r[n] \in W
      OBVIOUS
    <3>1. q[n] # s /\ n \in 0..l
      BY <1>4, <1>6
    <3>2. r[n] \in GoodIxs /\ r[n].next[s] = r[n - 1].next[s]
      BY <1>4, <1>5, <3>1
    <3> QED BY <2>1, <3>2
  <2>3. r[0] \in W /\ 0 <= l
    BY <1>4, <2>1
  <2>4. r[l] \in W
    BY <2>2, <2>3, Persists
  <2> QED BY <2>1, <2>4
<1>7. ASSUME NEW s \in BlockSenders(b) PROVE r[l].next[s] >= SenderNonce(b, s) + 1
  <2>1. PICK W : W = {x \in GoodIxs : x.next[s] >= SenderNonce(b, s) + 1}
    OBVIOUS
  <2>2. PICK k \in 1..l : q[k] = s
    BY <1>1, <1>3
  <2>3. k \in Nat /\ k <= l /\ k \in 0..l
    BY <2>2
  <2>4. r[k] \in W
    BY <1>4, <1>5, <2>1, <2>2, <2>3
  <2>5. \A n \in k + 1..l : r[n - 1] \in W => r[n] \in W
    <3> SUFFICES ASSUME NEW n \in k + 1..l, r[n - 1] \in W PROVE r[n] \in W
      OBVIOUS
    <3>1. n \in 1..l /\ n \in 0..l
      BY <2>3
    <3>2. CASE q[n] = s
      BY <1>4, <1>5, <2>1, <3>1, <3>2
    <3>3. CASE q[n] # s
      <4>1. s \in Senders \ {q[n]}
        BY <3>3, BlockTypes
      <4>2. r[n].next[s] = r[n - 1].next[s]
        BY <1>5, <3>1, <4>1
      <4> QED BY <1>4, <2>1, <3>1, <4>2
    <3> QED BY <3>2, <3>3
  <2>6. r[l] \in W
    BY <2>3, <2>4, <2>5, Persists
  <2> QED BY <2>1, <2>6
<1>8. r[l] \in GoodIxs
  <2>1. l \in 0..l
    OBVIOUS
  <2> QED BY <1>4, <2>1
<1> QED BY <1>4, <1>6, <1>7, <1>8 DEF Raised
LEMMA CommitsRaise ==
    ASSUME node \in Nodes, NEW ix \in GoodIxs, NEW b \in Seq(node.txs)
    PROVE  Raised(ix, CommitAll(ix, b), b)
<1>1. PICK q \in Seq(BlockSenders(b)) : /\ q = SetToSeq(BlockSenders(b))
                                        /\ \A s \in BlockSenders(b) : \E k \in 1..Len(q) : q[k] = s
  BY SendersInSequence
<1>3. PICK l \in Nat : l = Len(q)
  BY LenProperties
<1>4. PICK r : /\ r \in [0..l -> GoodIxs] /\ r[0] = ix
               /\ \A n \in 1..l : q[n] \in BlockSenders(b) /\ r[n - 1] \in GoodIxs /\ r[n] = CommitNonce(r[n - 1], b, q[n])
               /\ r[l] = CommitAll(ix, b)
  <2>1. PICK P : P = GoodIxs
    OBVIOUS
  <2>2. PICK T : T = BlockSenders(b)
    OBVIOUS
  <2>3. CommitsStay(b, P, T)
    BY <2>1, <2>2, OneCommit DEF CommitsStay
  <2>4. ix \in P /\ q \in Seq(T) /\ q = SetToSeq(BlockSenders(b))
    BY <1>1, <2>1, <2>2
  <2>5. PICK r : CommitsTrace(b, P, T, ix, q, r) /\ r[Len(q)] = CommitAll(ix, b)
    BY <2>3, <2>4, CommitsLead
  <2> QED BY <1>3, <2>1, <2>2, <2>5 DEF CommitsTrace
<1>5. \A n \in 1..l : /\ r[n].next[q[n]] >= SenderNonce(b, q[n]) + 1
                      /\ \A u \in Senders \ {q[n]} : r[n].next[u] = r[n - 1].next[u]
  BY <1>4, OneCommit
<1>6. ASSUME NEW s \in Senders, s \notin BlockSenders(b) PROVE r[l].next[s] = ix.next[s]
  <2>1. PICK W : W = {x \in GoodIxs : x.next[s] = ix.next[s]}
    OBVIOUS
  <2>2. \A n \in 0 + 1..l : r[n - 1] \in W => r[n] \in W
    <3> SUFFICES ASSUME NEW n \in 1..l, r[n - 1] \in W PROVE r[n] \in W
      OBVIOUS
    <3>1. q[n] # s /\ n \in 0..l
      BY <1>4, <1>6
    <3>2. r[n] \in GoodIxs /\ r[n].next[s] = r[n - 1].next[s]
      BY <1>4, <1>5, <3>1
    <3> QED BY <2>1, <3>2
  <2>3. r[0] \in W /\ 0 <= l
    BY <1>4, <2>1
  <2>4. r[l] \in W
    BY <2>2, <2>3, Persists
  <2> QED BY <2>1, <2>4
<1>7. ASSUME NEW s \in BlockSenders(b) PROVE r[l].next[s] >= SenderNonce(b, s) + 1
  <2>1. PICK W : W = {x \in GoodIxs : x.next[s] >= SenderNonce(b, s) + 1}
    OBVIOUS
  <2>2. PICK k \in 1..l : q[k] = s
    BY <1>1, <1>3
  <2>3. k \in Nat /\ k <= l /\ k \in 0..l
    BY <2>2
  <2>4. r[k] \in W
    BY <1>4, <1>5, <2>1, <2>2, <2>3
  <2>5. \A n \in k + 1..l : r[n - 1] \in W => r[n] \in W
    <3> SUFFICES ASSUME NEW n \in k + 1..l, r[n - 1] \in W PROVE r[n] \in W
      OBVIOUS
    <3>1. n \in 1..l /\ n \in 0..l
      BY <2>3
    <3>2. CASE q[n] = s
      BY <1>4, <1>5, <2>1, <3>1, <3>2
    <3>3. CASE q[n] # s
      <4>1. s \in Senders \ {q[n]}
        BY <3>3, BlockTypes
      <4>2. r[n].next[s] = r[n - 1].next[s]
        BY <1>5, <3>1, <4>1
      <4> QED BY <1>4, <2>1, <3>1, <4>2
    <3> QED BY <3>2, <3>3
  <2>6. r[l] \in W
    BY <2>3, <2>4, <2>5, Persists
  <2> QED BY <2>1, <2>6
<1>8. r[l] \in GoodIxs
  <2>1. l \in 0..l
    OBVIOUS
  <2> QED BY <1>4, <2>1
<1> QED BY <1>4, <1>6, <1>7, <1>8 DEF Raised

Chains == Seq(Seq(node.txs))
OnChainOf(c, s) == {t \in ChainTxs(c) : Sender[t] = s}

\* A chain holds finitely many transactions.
LEMMA ChainTypes ==
    ASSUME node \in Nodes, NEW c \in Chains
    PROVE  /\ IsFiniteSet(ChainTxs(c)) /\ ChainTxs(c) \subseteq node.txs
           /\ \A s : IsFiniteSet(OnChainOf(c, s)) /\ NextOnChain(c, s) = Cardinality(OnChainOf(c, s)) /\ NextOnChain(c, s) \in Nat
           /\ \A i \in 1..Len(c) : c[i] \in Seq(node.txs) /\ TxsOf(c[i]) \subseteq ChainTxs(c)
           /\ Len(c) \in Nat /\ DOMAIN c = 1..Len(c)
<1>1. PICK l \in Nat : l = Len(c) /\ DOMAIN c = 1..l
  BY LenProperties DEF Chains
<1>2. \A i \in 1..l : c[i] \in Seq(node.txs)
  BY <1>1, ElementOfSeq DEF Chains
<1>3. PICK U : U = {TxsOf(c[i]) : i \in 1..l}
  OBVIOUS
<1>4. ChainTxs(c) = UNION U
  BY <1>1, <1>3 DEF ChainTxs
<1>5. IsFiniteSet(U)
  <2>1. IsFiniteSet(1..l)
    BY FS_Interval
  <2>2. IsFiniteSet({TxsOf(c[i]) : i \in 1..l})
    <3>1. PICK f : f = [i \in 1..l |-> TxsOf(c[i])]
      OBVIOUS
    <3>2. {TxsOf(c[i]) : i \in 1..l} = {f[i] : i \in 1..l}
      BY <3>1
    <3>3. PICK V : V = {f[i] : i \in 1..l}
      OBVIOUS
    <3>4. IsFiniteSet(V)
      BY <2>1, <3>3, ImageOf
    <3> QED BY <3>2, <3>3, <3>4
  <2> QED BY <1>3, <2>2
<1>6. \A T \in U : IsFiniteSet(T) /\ T \subseteq node.txs
  BY <1>2, <1>3, BlockTypes
<1>7. IsFiniteSet(ChainTxs(c)) /\ ChainTxs(c) \subseteq node.txs
  <2>1. IsFiniteSet(UNION U)
    BY <1>5, <1>6, FS_UNION
  <2>2. UNION U \subseteq node.txs
    BY <1>6
  <2> QED BY <1>4, <2>1, <2>2
<1>8. ASSUME NEW s
      PROVE  IsFiniteSet(OnChainOf(c, s)) /\ NextOnChain(c, s) = Cardinality(OnChainOf(c, s)) /\ NextOnChain(c, s) \in Nat
  <2>1. OnChainOf(c, s) \in SUBSET ChainTxs(c)
    BY DEF OnChainOf
  <2>2. IsFiniteSet(OnChainOf(c, s))
    BY <1>7, <2>1, FS_Subset
  <2> QED BY <2>2, FS_CardinalityType DEF NextOnChain, OnChainOf
<1>9. \A i \in 1..l : TxsOf(c[i]) \subseteq ChainTxs(c)
  BY <1>3, <1>4
<1> QED BY <1>1, <1>2, <1>7, <1>8, <1>9

\* What a longer chain holds.
LEMMA MoreOnChain ==
    ASSUME node \in Nodes, NEW c \in Chains, NEW b \in Seq(node.txs)
    PROVE  /\ Append(c, b) \in Chains /\ Append(c, b) # <<>> /\ ChainTxs(Append(c, b)) = ChainTxs(c) \cup TxsOf(b)
           /\ Len(Append(c, b)) = Len(c) + 1
<1>1. PICK l \in Nat : l = Len(c) /\ DOMAIN c = 1..l
  BY ChainTypes
<1>2. PICK r \in Chains : r = Append(c, b) /\ Len(r) = l + 1 /\ DOMAIN r = 1..l + 1 /\ (\A i \in 1..l : r[i] = c[i]) /\ r[l + 1] = b
  <2>1. PICK r : r = Append(c, b)
    OBVIOUS
  <2>2. /\ r \in Chains /\ Len(r) = l + 1 /\ (\A i \in 1..l : r[i] = c[i]) /\ r[l + 1] = b
    BY <1>1, <2>1, AppendProperties DEF Chains
  <2>3. DOMAIN r = 1..l + 1
    BY <2>2, LenProperties DEF Chains
  <2> QED BY <2>1, <2>2, <2>3
<1>3. ChainTxs(r) = UNION {TxsOf(r[i]) : i \in 1..l + 1} /\ ChainTxs(c) = UNION {TxsOf(c[i]) : i \in 1..l}
  BY <1>1, <1>2 DEF ChainTxs
<1>4. l + 1 \in 1..l + 1 /\ \A i \in 1..l + 1 : i \in 1..l \/ i = l + 1
  OBVIOUS
<1>5. ChainTxs(r) \subseteq ChainTxs(c) \cup TxsOf(b)
  BY <1>2, <1>3, <1>4
<1>6. ChainTxs(c) \cup TxsOf(b) \subseteq ChainTxs(r)
  <2>1. \A i \in 1..l : i \in 1..l + 1
    OBVIOUS
  <2> QED BY <1>2, <1>3, <1>4, <2>1
<1>7. r # <<>>
  BY <1>2, <1>4
<1> QED BY <1>1, <1>2, <1>5, <1>6, <1>7

LEMMA BlocksFit ==
    ASSUME node \in Nodes, NEW c \in Chains, NEW b \in BlocksAfter(c)
    PROVE  /\ b \in Seq(node.txs)
           /\ \A i \in 1..Len(b) : Nonce[b[i]] = NextOnChain(c, Sender[b[i]])
                                    + Cardinality({j \in 1..(i-1) : Sender[b[j]] = Sender[b[i]]})
<1>1. PICK n \in 0..MaxBlockTxs : b \in [1..n -> node.txs]
  BY DEF BlocksAfter
<1>2. b \in Seq(node.txs)
  BY <1>1, SeqDef, LimitAssumption
<1>3. DOMAIN b = 1..Len(b)
  BY <1>2, LenProperties
<1> QED BY <1>2, <1>3 DEF BlocksAfter

\* A block of the chain brings, of each of its senders, the nonces up to the last
\* that the reconciler is told.
LEMMA OneMoreBlock ==
    ASSUME node \in Nodes, NEW c \in Chains, NEW b \in BlocksAfter(c), NEW s \in Senders
    PROVE  IF s \in BlockSenders(b) THEN NextOnChain(Append(c, b), s) <= SenderNonce(b, s) + 1
                                    ELSE NextOnChain(Append(c, b), s) = NextOnChain(c, s)
<1>1. PICK l \in Nat : l = Len(b) /\ DOMAIN b = 1..l /\ b \in Seq(node.txs)
  BY BlocksFit, LenProperties
<1>2. PICK d \in Chains : d = Append(c, b) /\ ChainTxs(d) = ChainTxs(c) \cup TxsOf(b)
  BY <1>1, MoreOnChain
<1>3. PICK own : own = {t \in TxsOf(b) : Sender[t] = s}
  OBVIOUS
<1>4. OnChainOf(d, s) = OnChainOf(c, s) \cup own
  BY <1>2, <1>3 DEF OnChainOf
<1>5. CASE s \notin BlockSenders(b)
  <2>1. own = {}
    BY <1>3, <1>5 DEF BlockSenders
  <2>2. NextOnChain(d, s) = Cardinality(OnChainOf(d, s)) /\ NextOnChain(c, s) = Cardinality(OnChainOf(c, s))
    BY ChainTypes
  <2> QED BY <1>2, <1>4, <1>5, <2>1, <2>2
<1>6. CASE s \in BlockSenders(b)
  <2>1. PICK K : K = {i \in 1..l : Sender[b[i]] = s}
    OBVIOUS
  <2>2. TxsOf(b) = {b[i] : i \in 1..l}
    BY <1>1 DEF TxsOf, ToSet
  <2>3. own = {b[i] : i \in K}
    BY <1>3, <2>1, <2>2
  <2>4. K \in SUBSET Nat /\ K \in SUBSET (1..l) /\ IsFiniteSet(1..l) /\ IsFiniteSet(K)
    <3>1. K \in SUBSET Nat /\ K \in SUBSET (1..l)
      BY <2>1
    <3>2. IsFiniteSet(1..l)
      BY FS_Interval
    <3>3. IsFiniteSet(K)
      BY <3>1, <3>2, FS_Subset
    <3> QED BY <3>1, <3>2, <3>3
  <2>5. K # {}
    BY <1>6, <2>1, <2>2 DEF BlockSenders
  <2>6. PICK m \in K : \A k \in K : k <= m
    BY <2>4, <2>5, FiniteHasGreatest
  <2>7. {j \in 1..(m-1) : Sender[b[j]] = Sender[b[m]]} = K \ {m}
    <3>1. m \in 1..l /\ Sender[b[m]] = s
      BY <2>1
    <3>2. \A j \in 1..(m-1) : j \in 1..l /\ j # m
      BY <3>1
    <3>3. \A j \in K \ {m} : j \in 1..(m-1) /\ Sender[b[j]] = s
      BY <2>1, <2>4, <2>6, <3>1
    <3> QED BY <2>1, <3>1, <3>2, <3>3
  <2>8. PICK k \in Nat : k = Cardinality(K) /\ Cardinality(K \ {m}) = k - 1
    BY <2>4, <2>6, FS_CardinalityType, FS_RemoveElement
  <2>9. PICK n \in Nat : n = NextOnChain(c, s) /\ n = Cardinality(OnChainOf(c, s)) /\ IsFiniteSet(OnChainOf(c, s))
    BY ChainTypes
  <2>10. Nonce[b[m]] = n + (k - 1)
    <3>1. m \in 1..Len(b) /\ Sender[b[m]] = s
      BY <1>1, <2>1
    <3>2. Nonce[b[m]] = NextOnChain(c, Sender[b[m]]) + Cardinality({j \in 1..(m-1) : Sender[b[j]] = Sender[b[m]]})
      BY <3>1, BlocksFit
    <3> QED BY <2>7, <2>8, <2>9, <3>1, <3>2
  <2>11. SenderNonce(b, s) \in Nat /\ Nonce[b[m]] <= SenderNonce(b, s)
    <3>1. b[m] \in TxsOf(b) /\ Sender[b[m]] = s
      BY <2>1, <2>2
    <3> QED BY <1>1, <1>6, <3>1, BlockTypes
  <2>12. IsFiniteSet(own) /\ Cardinality(own) <= k
    <3>1. IsFiniteSet({b[i] : i \in K}) /\ Cardinality({b[i] : i \in K}) <= Cardinality(K)
      BY <2>4, ImageOf
    <3> QED BY <2>3, <2>8, <3>1
  <2>13. PICK o \in Nat : o = Cardinality(own)
    BY <2>12, FS_CardinalityType
  <2>14. Cardinality(OnChainOf(c, s) \cup own) <= n + o
    <3>1. /\ Cardinality(OnChainOf(c, s) \cup own) = n + o - Cardinality(OnChainOf(c, s) \cap own)
          /\ IsFiniteSet(OnChainOf(c, s) \cap own)
      BY <2>9, <2>12, <2>13, FS_Union, FS_Intersection
    <3>2. Cardinality(OnChainOf(c, s) \cap own) \in Nat
      BY <3>1, FS_CardinalityType
    <3> QED BY <3>1, <3>2
  <2>15. NextOnChain(d, s) = Cardinality(OnChainOf(c, s) \cup own) /\ NextOnChain(d, s) \in Nat
    BY <1>4, ChainTypes
  <2>16. NextOnChain(d, s) <= SenderNonce(b, s) + 1
    <3> HIDE DEF NextOnChain
    <3> QED BY <2>10, <2>11, <2>12, <2>13, <2>14, <2>15
  <2> QED BY <1>2, <1>6, <2>16
<1> QED BY <1>5, <1>6

\* A chain without its last blocks.
LEMMA LessOnChain ==
    ASSUME node \in Nodes, NEW c \in Chains, NEW d \in 0..Len(c)
    PROVE  /\ SubSeq(c, 1, Len(c) - d) \in Chains
           /\ Len(SubSeq(c, 1, Len(c) - d)) = Len(c) - d
           /\ \A i \in 1..Len(c) - d : SubSeq(c, 1, Len(c) - d)[i] = c[i]
           /\ ChainTxs(SubSeq(c, 1, Len(c) - d)) \subseteq ChainTxs(c)
           /\ \A s : NextOnChain(SubSeq(c, 1, Len(c) - d), s) <= NextOnChain(c, s)
<1>1. PICK l \in Nat : l = Len(c) /\ DOMAIN c = 1..l
  BY ChainTypes
<1>2. PICK r : r = SubSeq(c, 1, Len(c) - d)
  OBVIOUS
<1>3. PICK n \in 0..l : n = l - d
  BY <1>1
<1>4. r \in Chains /\ Len(r) = n /\ \A i \in 1..n : r[i] = c[i]
  <2>1. r = SubSeq(c, 1, n)
    BY <1>1, <1>2, <1>3
  <2>2. \A i \in 1..n : c[i] \in Seq(node.txs)
    BY <1>1, <1>3, ChainTypes
  <2>3. PICK T : T = Seq(node.txs)
    OBVIOUS
  <2>4. \A i \in 1..n : c[i] \in T
    BY <2>2, <2>3
  <2>5. /\ r \in Seq(T) /\ Len(r) = IF 1 <= n THEN n - 1 + 1 ELSE 0
        /\ \A i \in 1..n - 1 + 1 : r[i] = c[1 + i - 1]
    BY <2>1, <2>4, SubSeqProperties
  <2> QED BY <2>3, <2>5 DEF Chains
<1>5. DOMAIN r = 1..n
  BY <1>4, ChainTypes
<1>6. ChainTxs(r) \subseteq ChainTxs(c)
  <2>1. ChainTxs(r) = UNION {TxsOf(r[i]) : i \in 1..n} /\ ChainTxs(c) = UNION {TxsOf(c[i]) : i \in 1..l}
    BY <1>1, <1>5 DEF ChainTxs
  <2>2. \A i \in 1..n : i \in 1..l /\ r[i] = c[i]
    BY <1>3, <1>4
  <2> QED BY <2>1, <2>2
<1>7. ASSUME NEW s PROVE NextOnChain(r, s) <= NextOnChain(c, s)
  <2>1. OnChainOf(r, s) \in SUBSET OnChainOf(c, s)
    BY <1>6 DEF OnChainOf
  <2>2. Cardinality(OnChainOf(r, s)) <= Cardinality(OnChainOf(c, s))
    BY <2>1, ChainTypes, FS_Subset
  <2>3. NextOnChain(r, s) = Cardinality(OnChainOf(r, s)) /\ NextOnChain(c, s) = Cardinality(OnChainOf(c, s))
    BY <1>4, ChainTypes
  <2> QED BY <2>2, <2>3
<1> QED BY <1>1, <1>2, <1>3, <1>4, <1>6, <1>7

-----------------------------------------------------------------------------
(* The pool: submissions, blocks, reorgs, full syncs.                        *)

\* A store within its limits, with its index by sender.
PoolOK(p, by) ==
    /\ p \subseteq node.txs /\ IsFiniteSet(p) /\ Cardinality(p) <= MaxPool
    /\ by \in [Senders -> SUBSET Txs]
    /\ \A s \in Senders : by[s] = {t \in p : Sender[t] = s} /\ Cardinality(by[s]) <= node.perSender

LEMMA OwnFinite ==
    ASSUME NEW p, NEW by, PoolOK(p, by), NEW s \in Senders
    PROVE  IsFiniteSet(by[s]) /\ Cardinality(by[s]) \in Nat /\ Cardinality(p) \in Nat
<1>1. by[s] \in SUBSET p /\ IsFiniteSet(p)
  BY DEF PoolOK
<1>2. IsFiniteSet(by[s])
  BY <1>1, FS_Subset
<1> QED BY <1>1, <1>2, FS_CardinalityType

\* store.add
LEMMA AddedGood ==
    ASSUME node \in Nodes, NEW p, NEW by, PoolOK(p, by), NEW t \in node.txs, AddOK(p, by, t)
    PROVE  PoolOK(p \cup {t}, [by EXCEPT ![Sender[t]] = @ \cup {t}])
<1>1. t \in Txs /\ Sender[t] \in Senders /\ node.txs \subseteq Txs
  BY NodeTypes, TxTypes
<1>2. PICK B : B = [by EXCEPT ![Sender[t]] = by[Sender[t]] \cup {t}]
  OBVIOUS
<1>3. /\ by \in [Senders -> SUBSET Txs]
      /\ \A s \in Senders : by[s] = {u \in p : Sender[u] = s} /\ Cardinality(by[s]) <= node.perSender
      /\ p \subseteq node.txs /\ IsFiniteSet(p)
  BY DEF PoolOK
<1>4. B \in [Senders -> SUBSET Txs] /\ \A s \in Senders : B[s] = IF s = Sender[t] THEN by[s] \cup {t} ELSE by[s]
  BY <1>1, <1>2, <1>3
<1>5. t \notin p /\ Cardinality(p) < MaxPool /\ Cardinality(by[Sender[t]]) < node.perSender
  BY DEF AddOK
<1>6. IsFiniteSet(p \cup {t}) /\ Cardinality(p \cup {t}) <= MaxPool
  <2>1. Cardinality(p \cup {t}) = Cardinality(p) + 1 /\ IsFiniteSet(p \cup {t})
    BY <1>3, <1>5, FS_AddElement
  <2>2. Cardinality(p) \in Nat /\ MaxPool \in Nat
    BY <1>3, FS_CardinalityType, NodeTypes
  <2> QED BY <1>5, <2>1, <2>2
<1>7. ASSUME NEW s \in Senders
      PROVE  B[s] = {u \in p \cup {t} : Sender[u] = s} /\ Cardinality(B[s]) <= node.perSender
  <2>1. by[s] = {u \in p : Sender[u] = s} /\ Cardinality(by[s]) <= node.perSender
    BY <1>3
  <2>2. CASE s # Sender[t]
    BY <1>4, <2>1, <2>2
  <2>3. CASE s = Sender[t]
    <3>1. B[s] = by[s] \cup {t} /\ t \notin by[s]
      BY <1>4, <1>5, <2>1, <2>3
    <3>2. IsFiniteSet(by[s]) /\ Cardinality(by[s]) \in Nat
      BY OwnFinite
    <3>3. Cardinality(by[s] \cup {t}) = Cardinality(by[s]) + 1
      BY <3>1, <3>2, FS_AddElement
    <3>4. Cardinality(B[s]) <= node.perSender
      BY <1>5, <2>3, <3>1, <3>2, <3>3, NodeTypes
    <3> QED BY <2>1, <2>3, <3>1, <3>4
  <2> QED BY <2>2, <2>3
<1> QED BY <1>2, <1>3, <1>4, <1>6, <1>7 DEF PoolOK

\* What leaves the store leaves the index of its senders.
LEMMA RemovedGood ==
    ASSUME node \in Nodes, NEW p, NEW by, PoolOK(p, by), NEW T
    PROVE  PoolOK(p \ T, WithoutBySender(by, T))
<1>1. PICK B : B = WithoutBySender(by, T)
  OBVIOUS
<1>2. /\ by \in [Senders -> SUBSET Txs]
      /\ \A s \in Senders : by[s] = {u \in p : Sender[u] = s} /\ Cardinality(by[s]) <= node.perSender
      /\ p \subseteq node.txs /\ IsFiniteSet(p) /\ Cardinality(p) <= MaxPool
  BY DEF PoolOK
<1>3. B = [s \in Senders |-> by[s] \ T]
  BY <1>1 DEF WithoutBySender
<1>4. B \in [Senders -> SUBSET Txs]
  BY <1>2, <1>3
<1>5. p \ T \in SUBSET p
  OBVIOUS
<1>6. IsFiniteSet(p \ T) /\ Cardinality(p \ T) <= MaxPool
  <2>1. IsFiniteSet(p \ T) /\ Cardinality(p \ T) <= Cardinality(p)
    BY <1>2, <1>5, FS_Subset
  <2>2. Cardinality(p) \in Nat /\ Cardinality(p \ T) \in Nat /\ MaxPool \in Nat
    BY <1>2, <2>1, FS_CardinalityType, NodeTypes
  <2> QED BY <1>2, <2>1, <2>2
<1>7. ASSUME NEW s \in Senders
      PROVE  B[s] = {u \in p \ T : Sender[u] = s} /\ Cardinality(B[s]) <= node.perSender
  <2>1. B[s] = by[s] \ T /\ by[s] = {u \in p : Sender[u] = s}
    BY <1>2, <1>3
  <2>2. IsFiniteSet(by[s]) /\ Cardinality(by[s]) \in Nat /\ B[s] \in SUBSET by[s]
    BY <2>1, OwnFinite
  <2>3. IsFiniteSet(B[s]) /\ Cardinality(B[s]) <= Cardinality(by[s])
    BY <2>2, FS_Subset
  <2>4. Cardinality(B[s]) \in Nat /\ node.perSender \in Nat
    BY <2>3, FS_CardinalityType, NodeTypes
  <2> QED BY <1>2, <2>1, <2>2, <2>3, <2>4
<1> QED BY <1>1, <1>2, <1>4, <1>6, <1>7 DEF PoolOK

\* The store and the index after a reorg, with nonces that are not below need.
GoodSts(need) ==
    {st \in [pool : SUBSET Txs, by : [Senders -> SUBSET Txs], ix : GoodIxs] :
        PoolOK(st.pool, st.by) /\ \A s \in Senders : st.ix.next[s] >= need[s]}

LEMMA ReinsertGood ==
    ASSUME node \in Nodes, NEW need \in [Senders -> Nat], NEW st \in GoodSts(need), NEW t \in node.txs, NEW new
    PROVE  Reinsert(st, t, new) \in GoodSts(need)
<1>1. CASE t \in new \/ t \notin ToSet(orphans) \/ ~ AddOK(st.pool, st.by, t)
  BY <1>1 DEF Reinsert
<1>2. CASE ~(t \in new \/ t \notin ToSet(orphans) \/ ~ AddOK(st.pool, st.by, t))
  <2>1. PICK r : r = Reinsert(st, t, new)
    OBVIOUS
  <2>2. r = [pool |-> st.pool \cup {t}, by |-> [st.by EXCEPT ![Sender[t]] = @ \cup {t}], ix |-> OnAdmit(st.ix, t)]
    BY <1>2, <2>1 DEF Reinsert
  <2>3. PoolOK(st.pool, st.by) /\ AddOK(st.pool, st.by, t) /\ st.ix \in GoodIxs /\ \A s \in Senders : st.ix.next[s] >= need[s]
    BY <1>2 DEF GoodSts
  <2>4. PoolOK(r.pool, r.by)
    BY <2>2, <2>3, AddedGood
  <2>5. r.ix \in GoodIxs /\ \A s \in Senders : r.ix.next[s] >= st.ix.next[s]
    BY <2>2, <2>3, AdmitGood
  <2>6. \A s \in Senders : r.ix.next[s] >= need[s]
    <3> SUFFICES ASSUME NEW s \in Senders PROVE r.ix.next[s] >= need[s]
      OBVIOUS
    <3>1. r.ix.next[s] \in Nat /\ st.ix.next[s] \in Nat /\ need[s] \in Nat
      BY <2>3, <2>5, IxTypes
    <3> QED BY <2>3, <2>5, <3>1
  <2>7. r.pool \in SUBSET Txs /\ r.by \in [Senders -> SUBSET Txs]
    BY <2>4, NodeTypes DEF PoolOK
  <2>8. r \in [pool : SUBSET Txs, by : [Senders -> SUBSET Txs], ix : GoodIxs]
    <3> HIDE DEF GoodIxs
    <3> QED BY <2>2, <2>5, <2>7
  <2> QED BY <2>1, <2>4, <2>6, <2>8 DEF GoodSts
<1> QED BY <1>1, <1>2

LEMMA ReinsertAllGood ==
    ASSUME node \in Nodes, NEW need \in [Senders -> Nat], NEW st \in GoodSts(need), NEW b \in Seq(node.txs), NEW new
    PROVE  ReinsertAll(st, b, new) \in GoodSts(need)
<1>1. PICK P : P = GoodSts(need)
  OBVIOUS
<1>2. PICK T : T = node.txs
  OBVIOUS
<1>3. ReinsertsStay(new, P, T)
  BY <1>1, <1>2, ReinsertGood DEF ReinsertsStay
<1>4. st \in P /\ b \in Seq(T)
  BY <1>1, <1>2
<1>5. PICK r : ReinsertsTrace(new, P, T, st, b, r) /\ r[Len(b)] = ReinsertAll(st, b, new)
  BY <1>3, <1>4, ReinsertsLead
<1>6. Len(b) \in 0..Len(b)
  BY <1>4, LenProperties
<1> QED BY <1>1, <1>5, <1>6 DEF ReinsertsTrace

LEMMA ReinsertBlocksGood ==
    ASSUME node \in Nodes, NEW need \in [Senders -> Nat], NEW st \in GoodSts(need), NEW q \in Chains, NEW new
    PROVE  ReinsertBlocks(st, q, new) \in GoodSts(need)
<1>1. PICK P : P = GoodSts(need)
  OBVIOUS
<1>2. PICK T : T = Seq(node.txs)
  OBVIOUS
<1>3. OrphansStay(new, P, T)
  BY <1>1, <1>2, ReinsertAllGood DEF OrphansStay
<1>4. st \in P /\ q \in Seq(T)
  BY <1>1, <1>2 DEF Chains
<1>5. PICK r : OrphansTrace(new, P, T, st, q, r) /\ r[Len(q)] = ReinsertBlocks(st, q, new)
  BY <1>3, <1>4, OrphansLead
<1>6. Len(q) \in 0..Len(q)
  BY <1>4, LenProperties
<1> QED BY <1>1, <1>5, <1>6 DEF OrphansTrace

\* fullSync
LEMMA RebuiltGood ==
    ASSUME node \in Nodes, NEW p \in SUBSET node.txs, IsFiniteSet(p)
    PROVE  FoldLeft(OnAdmit, NoIndex, SetToSeq(p)) \in GoodIxs
<1>1. PICK P : P = GoodIxs
  OBVIOUS
<1>2. PICK q \in Seq(p) : q = SetToSeq(p)
  BY SetInSequence
<1>3. AdmitsStay(P, p)
  BY <1>1, AdmitGood DEF AdmitsStay
<1>4. NoIndex \in P
  BY <1>1, NoIndexGood
<1>5. PICK r : AdmitsTrace(P, p, NoIndex, q, r) /\ r[Len(q)] = FoldLeft(OnAdmit, NoIndex, q)
  BY <1>3, <1>4, AdmitsLead
<1>6. Len(q) \in 0..Len(q)
  BY LenProperties
<1> QED BY <1>1, <1>2, <1>5, <1>6 DEF AdmitsTrace

\* The index names no nonce that the chain c has.
NoncesAreNew(ix, c) == "sync" \notin node.with => \A s \in Senders : ix.next[s] >= NextOnChain(c, s)

PoolIInv ==
    /\ node \in Nodes /\ chain \in Chains
    /\ PoolOK(pool, bySender)
    /\ pendingIndex \in GoodIxs
    /\ NoncesAreNew(pendingIndex, chain)
    /\ orphans \in Seq(Txs) /\ Len(orphans) <= MaxOrphans

\* What a step leaves, at the same node.
PoolLeft ==
    /\ chain' \in Chains
    /\ PoolOK(pool', bySender')
    /\ pendingIndex' \in GoodIxs
    /\ NoncesAreNew(pendingIndex', chain')
    /\ orphans' \in Seq(Txs) /\ Len(orphans') <= MaxOrphans

LEMMA PoolStarts == PoolInit => PoolIInv
<1> SUFFICES ASSUME PoolInit PROVE PoolIInv
  OBVIOUS
<1>1. node \in Nodes /\ chain = <<>> /\ pool = {} /\ bySender = [s \in Senders |-> {}] /\ pendingIndex = NoIndex /\ orphans = <<>>
  BY DEF PoolInit
<1>2. chain \in Chains /\ orphans \in Seq(Txs) /\ Len(orphans) <= MaxOrphans
  <2>1. Len(orphans) = 0 /\ MaxOrphans \in Nat
    BY <1>1, NodeTypes
  <2> QED BY <1>1, <2>1 DEF Chains
<1>3. PoolOK(pool, bySender)
  <2>1. Cardinality({}) = 0 /\ IsFiniteSet({}) /\ MaxPool \in Nat /\ node.perSender \in Nat
    BY <1>1, FS_EmptySet, NodeTypes
  <2> QED BY <1>1, <2>1 DEF PoolOK
<1>4. pendingIndex \in GoodIxs
  BY <1>1, NoIndexGood
<1>5. NoncesAreNew(pendingIndex, chain)
  <2> SUFFICES ASSUME NEW s \in Senders PROVE pendingIndex.next[s] >= NextOnChain(chain, s)
    BY DEF NoncesAreNew
  <2>1. ChainTxs(chain) = {}
    BY <1>1 DEF ChainTxs
  <2>2. OnChainOf(chain, s) = {}
    BY <2>1 DEF OnChainOf
  <2>3. NextOnChain(chain, s) = 0
    BY <1>1, <1>2, <2>2, ChainTypes, FS_EmptySet
  <2> QED BY <1>1, <2>3 DEF NoIndex
<1> QED BY <1>1, <1>2, <1>3, <1>4, <1>5 DEF PoolIInv

LEMMA SubmitKeeps ==
    ASSUME PoolIInv, NEW t \in node.txs, Submit(t)
    PROVE  PoolLeft
<1>1. /\ node \in Nodes /\ PoolOK(pool, bySender) /\ pendingIndex \in GoodIxs /\ chain \in Chains
      /\ NoncesAreNew(pendingIndex, chain)
  BY DEF PoolIInv
<1>2. /\ AddOK(pool, bySender, t) /\ pool' = pool \cup {t} /\ bySender' = [bySender EXCEPT ![Sender[t]] = @ \cup {t}]
      /\ pendingIndex' = OnAdmit(pendingIndex, t) /\ chain' = chain /\ orphans' = orphans
  BY DEF Submit
<1>3. PoolOK(pool', bySender')
  BY <1>1, <1>2, AddedGood
<1>4. pendingIndex' \in GoodIxs /\ \A s \in Senders : pendingIndex'.next[s] >= pendingIndex.next[s]
  BY <1>1, <1>2, AdmitGood
<1>5. NoncesAreNew(pendingIndex', chain')
  <2> SUFFICES ASSUME "sync" \notin node.with, NEW s \in Senders PROVE pendingIndex'.next[s] >= NextOnChain(chain, s)
    BY <1>2 DEF NoncesAreNew
  <2>1. pendingIndex.next[s] >= NextOnChain(chain, s)
    BY <1>1 DEF NoncesAreNew
  <2>2. pendingIndex'.next[s] \in Nat /\ pendingIndex.next[s] \in Nat /\ NextOnChain(chain, s) \in Nat
    BY <1>1, <1>4, IxTypes, ChainTypes
  <2> QED BY <1>4, <2>1, <2>2
<1> QED BY <1>1, <1>2, <1>3, <1>4, <1>5 DEF PoolLeft, PoolIInv

LEMMA StoreOrphanKeeps ==
    ASSUME PoolIInv, NEW t \in node.txs, StoreOrphan(t)
    PROVE  PoolLeft
<1>1. PICK all : all = IF t \in ToSet(orphans) THEN orphans ELSE Append(orphans, t)
  OBVIOUS
<1>2. /\ orphans' = (IF Len(all) > MaxOrphans THEN Tail(all) ELSE all)
      /\ chain' = chain /\ pool' = pool /\ bySender' = bySender /\ pendingIndex' = pendingIndex
  BY <1>1 DEF StoreOrphan
<1>3. /\ node \in Nodes /\ orphans \in Seq(Txs) /\ Len(orphans) <= MaxOrphans /\ t \in Txs /\ MaxOrphans \in Nat \ {0}
      /\ Len(orphans) \in Nat
  BY NodeTypes, LenProperties DEF PoolIInv
<1>4. all \in Seq(Txs) /\ Len(all) \in Nat /\ Len(all) <= MaxOrphans + 1
  <2>1. CASE t \in ToSet(orphans)
    BY <1>1, <1>3, <2>1
  <2>2. CASE t \notin ToSet(orphans)
    <3>1. all = Append(orphans, t)
      BY <1>1, <2>2
    <3>2. all \in Seq(Txs) /\ Len(all) = Len(orphans) + 1
      BY <1>3, <3>1, WithOneMore
    <3> QED BY <1>3, <3>2
  <2> QED BY <2>1, <2>2
<1>5. orphans' \in Seq(Txs) /\ Len(orphans') <= MaxOrphans
  <2>1. CASE Len(all) > MaxOrphans
    <3>1. all # <<>>
      BY <1>3, <1>4, <2>1, EmptySeq
    <3>2. Tail(all) \in Seq(Txs) /\ Len(Tail(all)) = Len(all) - 1
      BY <1>4, <3>1, WithoutFirst
    <3> QED BY <1>2, <1>3, <1>4, <2>1, <3>2
  <2>2. CASE ~(Len(all) > MaxOrphans)
    BY <1>2, <1>3, <1>4, <2>2
  <2> QED BY <2>1, <2>2
<1> QED BY <1>2, <1>5 DEF PoolIInv, PoolLeft

\* The nonces that a block leaves are new to the chain it is on.
LEMMA RaisedIsNew ==
    ASSUME node \in Nodes, NEW c \in Chains, NEW b \in BlocksAfter(c), NEW ix \in GoodIxs, NoncesAreNew(ix, c),
           NEW jx, Raised(ix, jx, b)
    PROVE  jx \in GoodIxs /\ Append(c, b) \in Chains /\ NoncesAreNew(jx, Append(c, b))
<1>1. b \in Seq(node.txs)
  BY BlocksFit
<1>2. jx \in GoodIxs
  BY DEF Raised
<1>3. Append(c, b) \in Chains
  BY <1>1, MoreOnChain
<1>4. NoncesAreNew(jx, Append(c, b))
  <2> SUFFICES ASSUME "sync" \notin node.with, NEW s \in Senders PROVE jx.next[s] >= NextOnChain(Append(c, b), s)
    BY DEF NoncesAreNew
  <2>1. ix.next[s] >= NextOnChain(c, s)
    BY DEF NoncesAreNew
  <2>2. /\ jx.next[s] \in Nat /\ ix.next[s] \in Nat /\ NextOnChain(c, s) \in Nat
        /\ NextOnChain(Append(c, b), s) \in Nat
    BY <1>2, <1>3, IxTypes, ChainTypes
  <2>3. CASE s \in BlockSenders(b)
    <3>1. jx.next[s] >= SenderNonce(b, s) + 1 /\ SenderNonce(b, s) \in Nat
      BY <1>1, <2>3, BlockTypes DEF Raised
    <3>2. NextOnChain(Append(c, b), s) <= SenderNonce(b, s) + 1
      BY <2>3, OneMoreBlock
    <3> QED BY <2>2, <3>1, <3>2
  <2>4. CASE s \notin BlockSenders(b)
    <3>1. jx.next[s] = ix.next[s]
      BY <2>4 DEF Raised
    <3>2. NextOnChain(Append(c, b), s) = NextOnChain(c, s)
      BY <2>4, OneMoreBlock
    <3> QED BY <2>1, <3>1, <3>2
  <2> QED BY <2>3, <2>4
<1> QED BY <1>2, <1>3, <1>4

LEMMA CommitKeeps ==
    ASSUME PoolIInv, NEW b \in BlocksAfter(chain), Commit(b)
    PROVE  PoolLeft
<1>1. /\ node \in Nodes /\ PoolOK(pool, bySender) /\ pendingIndex \in GoodIxs /\ chain \in Chains
      /\ NoncesAreNew(pendingIndex, chain) /\ orphans \in Seq(Txs) /\ Len(orphans) <= MaxOrphans
  BY DEF PoolIInv
<1>2. b \in Seq(node.txs)
  BY <1>1, BlocksFit
<1>3. PICK gone : gone = TxsOf(b) \cup Invalidated(pool \ TxsOf(b), b)
  OBVIOUS
<1>4. /\ chain' = Append(chain, b) /\ pool' = pool \ gone /\ bySender' = WithoutBySender(bySender, gone)
      /\ pendingIndex' = CommitAll(pendingIndex, b) /\ orphans' = orphans
  BY <1>3 DEF Commit
<1>5. PoolOK(pool', bySender')
  BY <1>1, <1>4, RemovedGood
<1>6. Raised(pendingIndex, pendingIndex', b)
  BY <1>1, <1>2, <1>4, CommitsRaise
<1>7. pendingIndex' \in GoodIxs /\ Append(chain, b) \in Chains /\ NoncesAreNew(pendingIndex', Append(chain, b))
  BY <1>1, <1>6, RaisedIsNew
<1> QED BY <1>1, <1>4, <1>5, <1>7 DEF PoolLeft

LEMMA FullSyncKeeps ==
    ASSUME PoolIInv, FullSync
    PROVE  PoolLeft
<1>1. /\ node \in Nodes /\ PoolOK(pool, bySender) /\ chain \in Chains /\ orphans \in Seq(Txs) /\ Len(orphans) <= MaxOrphans
  BY DEF PoolIInv
<1>2. /\ "sync" \in node.with /\ pendingIndex' = FoldLeft(OnAdmit, NoIndex, SetToSeq(pool))
      /\ chain' = chain /\ pool' = pool /\ bySender' = bySender /\ orphans' = orphans
  BY DEF FullSync
<1>3. pendingIndex' \in GoodIxs
  BY <1>1, <1>2, RebuiltGood DEF PoolOK
<1> QED BY <1>1, <1>2, <1>3 DEF PoolLeft, NoncesAreNew

\* The nonces of the blocks of a reorg.
LEMMA NewerNonces ==
    ASSUME node \in Nodes, NEW c \in Chains, NEW b \in BlocksAfter(c), NEW ix \in GoodIxs, NoncesAreNew(ix, c)
    PROVE  /\ BaseNonces(ix, b) \in GoodIxs /\ Append(c, b) \in Chains /\ b \in Seq(node.txs)
           /\ NoncesAreNew(BaseNonces(ix, b), Append(c, b))
<1>1. b \in Seq(node.txs)
  BY BlocksFit
<1>2. Raised(ix, BaseNonces(ix, b), b)
  BY <1>1, BasesRaise
<1> QED BY <1>1, <1>2, RaisedIsNew

\* Other blocks at the end of the chain, and the nonces they leave.
Replaces(d, news) ==
    /\ news \in Chains /\ SubSeq(chain, 1, Len(chain) - d) \o news \in Chains
    /\ FoldLeft(BaseNonces, pendingIndex, news) \in GoodIxs
    /\ NoncesAreNew(FoldLeft(BaseNonces, pendingIndex, news), SubSeq(chain, 1, Len(chain) - d) \o news)

LEMMA TwoMore ==
    ASSUME NEW T, NEW c \in Seq(T), NEW q \in Seq(T)
    PROVE  /\ Len(q) = 1 => c \o q = Append(c, q[1])
           /\ Len(q) = 2 => c \o q = Append(Append(c, q[1]), q[2])
<1>1. PICK r \in Seq(T) : r = c \o q
  BY ConcatProperties
<1>2. PICK m \in Nat, l \in Nat : m = Len(c) /\ l = Len(q)
  BY LenProperties
<1>3. Len(r) = m + l /\ (\A i \in 1..m : r[i] = c[i]) /\ \A i \in m + 1..m + l : r[i] = q[i - m]
  BY <1>1, <1>2, ConcatProperties
<1>4. \A i \in 1..l : q[i] \in T
  BY <1>2, ElementOfSeq
<1>5. ASSUME l = 1 PROVE r = Append(c, q[1])
  <2>1. PICK s \in Seq(T) : s = Append(c, q[1]) /\ Len(s) = m + 1 /\ (\A i \in 1..m : s[i] = c[i]) /\ s[m + 1] = q[1]
    <3>1. PICK s : s = Append(c, q[1])
      OBVIOUS
    <3>2. q[1] \in T
      BY <1>4, <1>5
    <3> QED BY <1>2, <3>1, <3>2, AppendProperties, ZenonT(40)
  <2>2. \A i \in 1..m + 1 : s[i] = r[i]
    <3> SUFFICES ASSUME NEW i \in 1..m + 1 PROVE s[i] = r[i]
      OBVIOUS
    <3>1. CASE i \in 1..m
      BY <1>3, <2>1, <3>1
    <3>2. CASE i = m + 1
      <4>1. i \in m + 1..m + l /\ i - m = 1
        BY <1>5, <3>2
      <4> QED BY <1>3, <2>1, <3>2, <4>1
    <3> QED BY <3>1, <3>2
  <2>3. Len(s) = Len(r)
    BY <1>3, <1>5, <2>1
  <2> QED BY <2>1, <2>2, <2>3, SeqEqual
<1>6. ASSUME l = 2 PROVE r = Append(Append(c, q[1]), q[2])
  <2>1. PICK s \in Seq(T) : s = Append(c, q[1]) /\ Len(s) = m + 1 /\ (\A i \in 1..m : s[i] = c[i]) /\ s[m + 1] = q[1]
    <3>1. PICK s : s = Append(c, q[1])
      OBVIOUS
    <3>2. q[1] \in T
      BY <1>4, <1>6
    <3> QED BY <1>2, <3>1, <3>2, AppendProperties, ZenonT(40)
  <2>2. PICK u \in Seq(T) : /\ u = Append(s, q[2]) /\ Len(u) = m + 1 + 1 /\ (\A i \in 1..m + 1 : u[i] = s[i])
                            /\ u[m + 1 + 1] = q[2]
    <3>1. PICK u : u = Append(s, q[2])
      OBVIOUS
    <3>2. q[2] \in T
      BY <1>4, <1>6
    <3>3. /\ u \in Seq(T) /\ Len(u) = Len(s) + 1 /\ (\A i \in 1..Len(s) : u[i] = s[i])
          /\ u[Len(s) + 1] = q[2]
      BY <3>1, <3>2, AppendProperties
    <3> QED BY <2>1, <3>1, <3>3
  <2>3. \A i \in 1..m + 2 : u[i] = r[i]
    <3> SUFFICES ASSUME NEW i \in 1..m + 2 PROVE u[i] = r[i]
      OBVIOUS
    <3>1. CASE i \in 1..m
      <4>1. i \in 1..m + 1
        BY <3>1
      <4> QED BY <1>3, <2>1, <2>2, <3>1, <4>1
    <3>2. CASE i = m + 1
      <4>1. i \in m + 1..m + l /\ i - m = 1 /\ i \in 1..m + 1
        BY <1>6, <3>2
      <4> QED BY <1>3, <2>1, <2>2, <3>2, <4>1
    <3>3. CASE i = m + 2
      <4>1. i \in m + 1..m + l /\ i - m = 2 /\ m + 1 + 1 = m + 2
        BY <1>6, <3>3
      <4> QED BY <1>3, <2>2, <3>3, <4>1
    <3>4. i \in 1..m \/ i = m + 1 \/ i = m + 2
      OBVIOUS
    <3> QED BY <3>1, <3>2, <3>3, <3>4
  <2>4. Len(u) = Len(r)
    BY <1>3, <1>6, <2>2
  <2>5. m + 2 = Len(r)
    BY <1>3, <1>6
  <2> QED BY <2>1, <2>2, <2>3, <2>4, <2>5, SeqEqual
<1> QED BY <1>1, <1>2, <1>5, <1>6

LEMMA BlocksFold ==
    ASSUME node \in Nodes, NEW ix \in GoodIxs, NEW news \in Chains, NEW c \in Chains
    PROVE  /\ Len(news) = 1 => /\ FoldLeft(BaseNonces, ix, news) = BaseNonces(ix, news[1])
                               /\ c \o news = Append(c, news[1])
           /\ Len(news) = 2 => /\ FoldLeft(BaseNonces, ix, news) = BaseNonces(BaseNonces(ix, news[1]), news[2])
                               /\ c \o news = Append(Append(c, news[1]), news[2])
<1>1. PICK P : P = GoodIxs
  OBVIOUS
<1>2. PICK T : T = Seq(node.txs)
  OBVIOUS
<1>3. BlocksStay(P, T)
  BY <1>1, <1>2, BasesRaise DEF BlocksStay, Raised
<1>4. ix \in P /\ news \in Seq(T)
  BY <1>1, <1>2 DEF Chains
<1>5. PICK r : BlocksTrace(P, T, ix, news, r) /\ r[Len(news)] = FoldLeft(BaseNonces, ix, news)
  BY <1>3, <1>4, BlocksLead
<1> PICK v : v = FoldLeft(BaseNonces, ix, news)
  OBVIOUS
<1> PICK l \in Nat : l = Len(news)
  BY <1>4, LenProperties
<1>6. r[0] = ix /\ r[l] = v /\ \A n \in 1..l : r[n] = BaseNonces(r[n - 1], news[n])
  BY <1>5 DEF BlocksTrace
<1>9. l = 1 => c \o news = Append(c, news[1])
  BY <1>2, <1>4, TwoMore DEF Chains
<1>10. l = 2 => c \o news = Append(Append(c, news[1]), news[2])
  BY <1>2, <1>4, TwoMore DEF Chains
<1>7. ASSUME l = 1
      PROVE  v = BaseNonces(ix, news[1]) /\ c \o news = Append(c, news[1])
  <2>1. 1 \in 1..l /\ 1 - 1 = 0
    BY <1>7
  <2>2. v = BaseNonces(ix, news[1])
    BY <1>6, <1>7, <2>1
  <2> QED BY <1>7, <1>9, <2>2
<1>8. ASSUME l = 2
      PROVE  v = BaseNonces(BaseNonces(ix, news[1]), news[2]) /\ c \o news = Append(Append(c, news[1]), news[2])
  <2>1. 1 \in 1..l /\ 2 \in 1..l /\ 1 - 1 = 0 /\ 2 - 1 = 1
    BY <1>8
  <2>2. r[1] = BaseNonces(ix, news[1])
    BY <1>6, <2>1
  <2>3. v = BaseNonces(r[1], news[2])
    BY <1>6, <1>8, <2>1
  <2> QED BY <1>8, <1>10, <2>2, <2>3
<1> QED BY <1>7, <1>8

LEMMA OneReplaces ==
    ASSUME PoolIInv, NEW d \in 1..Len(chain), NEW b \in BlocksAfter(SubSeq(chain, 1, Len(chain) - d))
    PROVE  /\ Replaces(d, <<b>>)
           /\ \A c \in BlocksAfter(Append(SubSeq(chain, 1, Len(chain) - d), b)) : Replaces(d, <<b, c>>)
<1>1. node \in Nodes /\ chain \in Chains /\ pendingIndex \in GoodIxs /\ NoncesAreNew(pendingIndex, chain)
  BY DEF PoolIInv
<1>2. PICK base \in Chains : base = SubSeq(chain, 1, Len(chain) - d) /\ \A s : NextOnChain(base, s) <= NextOnChain(chain, s)
  <2>1. d \in 0..Len(chain)
    BY <1>1, ChainTypes
  <2> QED BY <1>1, <2>1, LessOnChain
<1>3. NoncesAreNew(pendingIndex, base)
  <2> SUFFICES ASSUME "sync" \notin node.with, NEW s \in Senders PROVE pendingIndex.next[s] >= NextOnChain(base, s)
    BY DEF NoncesAreNew
  <2>1. pendingIndex.next[s] >= NextOnChain(chain, s)
    BY <1>1 DEF NoncesAreNew
  <2>2. NextOnChain(base, s) <= NextOnChain(chain, s)
    BY <1>2
  <2>3. pendingIndex.next[s] \in Nat /\ NextOnChain(chain, s) \in Nat /\ NextOnChain(base, s) \in Nat
    BY <1>1, IxTypes, ChainTypes
  <2> HIDE DEF NextOnChain
  <2> QED BY <2>1, <2>2, <2>3
<1>4. PICK ix \in GoodIxs : ix = BaseNonces(pendingIndex, b) /\ NoncesAreNew(ix, Append(base, b))
  BY <1>1, <1>2, <1>3, NewerNonces
<1>5. Append(base, b) \in Chains /\ b \in Seq(node.txs)
  BY <1>1, <1>2, <1>3, NewerNonces
<1>6. Replaces(d, <<b>>)
  <2>1. PICK news \in Chains : news = <<b>> /\ Len(news) = 1 /\ news[1] = b
    <3>1. PICK T : T = Seq(node.txs)
      OBVIOUS
    <3>2. b \in T
      BY <1>5, <3>1
    <3>3. <<b>> \in Seq(T)
      BY <3>2
    <3> QED BY <3>1, <3>3 DEF Chains
  <2>2. FoldLeft(BaseNonces, pendingIndex, news) = ix /\ base \o news = Append(base, b)
    BY <1>1, <1>4, <2>1, BlocksFold
  <2> QED BY <1>2, <1>4, <1>5, <2>1, <2>2 DEF Replaces
<1>7. ASSUME NEW c \in BlocksAfter(Append(SubSeq(chain, 1, Len(chain) - d), b))
      PROVE  Replaces(d, <<b, c>>)
  <2>1. c \in BlocksAfter(Append(base, b))
    BY <1>2
  <2>2. PICK jx \in GoodIxs : /\ jx = BaseNonces(ix, c) /\ NoncesAreNew(jx, Append(Append(base, b), c))
                              /\ Append(Append(base, b), c) \in Chains /\ c \in Seq(node.txs)
    BY <1>1, <1>4, <1>5, <2>1, NewerNonces
  <2>3. PICK news \in Chains : news = <<b, c>> /\ Len(news) = 2 /\ news[1] = b /\ news[2] = c
    <3>1. PICK T : T = Seq(node.txs)
      OBVIOUS
    <3>2. b \in T /\ c \in T
      BY <1>5, <2>2, <3>1
    <3>3. <<b, c>> \in Seq(T)
      BY <3>2
    <3> QED BY <3>1, <3>3 DEF Chains
  <2>4. FoldLeft(BaseNonces, pendingIndex, news) = jx /\ base \o news = Append(Append(base, b), c)
    BY <1>1, <1>4, <2>2, <2>3, BlocksFold
  <2> QED BY <1>2, <2>2, <2>3, <2>4 DEF Replaces
<1> QED BY <1>6, <1>7

\* What onReorg puts back, and where it starts: need bounds the nonces.
Restores(d, news, need, start, old) ==
    /\ need \in [Senders -> Nat] /\ start \in GoodSts(need) /\ old \in Chains
    /\ \A s \in Senders : need[s] = IF "sync" \in node.with THEN 0 ELSE NextOnChain(chain', s)
    /\ start.pool = pool \ ChainTxs(news)
    /\ old = [i \in 1..d |-> chain[Len(chain) - i + 1]]
    /\ \E done : /\ done = ReinsertBlocks(start, old, ChainTxs(news))
                 /\ pool' = done.pool /\ bySender' = done.by /\ pendingIndex' = done.ix
    /\ chain' = SubSeq(chain, 1, Len(chain) - d) \o news /\ chain' \in Chains
    /\ orphans' = orphans

LEMMA ReorgRestores ==
    ASSUME PoolIInv, NEW d \in 1..Len(chain), NEW news, Replaces(d, news), Reorg(d, news)
    PROVE  \E need, start, old : Restores(d, news, need, start, old)
<1>1. /\ node \in Nodes /\ PoolOK(pool, bySender) /\ chain \in Chains /\ orphans \in Seq(Txs) /\ Len(orphans) <= MaxOrphans
  BY DEF PoolIInv
<1>2. PICK new : new = ChainTxs(news)
  OBVIOUS
<1>3. PICK old : old = [i \in 1..d |-> chain[Len(chain) - i + 1]]
  OBVIOUS
<1>4. PICK ix \in GoodIxs : ix = FoldLeft(BaseNonces, pendingIndex, news)
  BY DEF Replaces
<1>5. PICK start : start = [pool |-> pool \ new, by |-> WithoutBySender(bySender, new), ix |-> ix]
  OBVIOUS
<1>6. PICK c \in Chains : c = SubSeq(chain, 1, Len(chain) - d) \o news
  BY DEF Replaces
<1>7. PICK done : done = ReinsertBlocks(start, old, new)
  OBVIOUS
<1>8. chain' = c /\ pool' = done.pool /\ bySender' = done.by /\ pendingIndex' = done.ix /\ orphans' = orphans
  BY <1>2, <1>3, <1>4, <1>5, <1>6, <1>7 DEF Reorg
<1>9. old \in Chains
  <2>1. \A i \in 1..d : Len(chain) - i + 1 \in 1..Len(chain)
    BY <1>1, ChainTypes
  <2>2. \A i \in 1..d : chain[Len(chain) - i + 1] \in Seq(node.txs)
    BY <1>1, <2>1, ChainTypes
  <2>3. d \in Nat
    BY <1>1, ChainTypes
  <2>4. PICK T : T = Seq(node.txs)
    OBVIOUS
  <2>5. old \in Seq(T)
    BY <1>3, <2>2, <2>3, <2>4, SeqDef
  <2> QED BY <2>4, <2>5 DEF Chains
<1>10. PICK need \in [Senders -> Nat] : \A s \in Senders : need[s] = IF "sync" \in node.with THEN 0 ELSE NextOnChain(c, s)
  <2>1. \A s \in Senders : NextOnChain(c, s) \in Nat
    BY <1>1, <1>6, ChainTypes
  <2>2. PICK f : f = [s \in Senders |-> IF "sync" \in node.with THEN 0 ELSE NextOnChain(c, s)]
    OBVIOUS
  <2>3. f \in [Senders -> Nat] /\ \A s \in Senders : f[s] = IF "sync" \in node.with THEN 0 ELSE NextOnChain(c, s)
    <3> HIDE DEF NextOnChain
    <3> QED BY <2>1, <2>2
  <2> QED BY <2>3
<1>11. start \in GoodSts(need)
  <2>1. PoolOK(start.pool, start.by)
    BY <1>1, <1>5, RemovedGood
  <2>2. \A s \in Senders : start.ix.next[s] >= need[s]
    <3> SUFFICES ASSUME NEW s \in Senders PROVE ix.next[s] >= need[s]
      BY <1>5
    <3>1. ix.next[s] \in Nat
      BY IxTypes
    <3>2. "sync" \notin node.with => ix.next[s] >= NextOnChain(c, s)
      BY <1>4, <1>6 DEF Replaces, NoncesAreNew
    <3> HIDE DEF NextOnChain
    <3> QED BY <1>10, <3>1, <3>2
  <2>3. start.pool \in SUBSET Txs /\ start.by \in [Senders -> SUBSET Txs]
    BY <1>1, <2>1, NodeTypes DEF PoolOK
  <2>4. start \in [pool : SUBSET Txs, by : [Senders -> SUBSET Txs], ix : GoodIxs]
    <3> HIDE DEF GoodIxs
    <3> QED BY <1>5, <2>3
  <2> QED BY <2>1, <2>2, <2>4 DEF GoodSts
<1>12. start.pool = pool \ ChainTxs(news)
  BY <1>2, <1>5
<1>13. \A s \in Senders : need[s] = IF "sync" \in node.with THEN 0 ELSE NextOnChain(chain', s)
  <2> HIDE DEF NextOnChain
  <2> QED BY <1>8, <1>10
<1>14. chain' = SubSeq(chain, 1, Len(chain) - d) \o news /\ chain' \in Chains
  BY <1>6, <1>8
<1>15. done = ReinsertBlocks(start, old, ChainTxs(news))
  BY <1>2, <1>7
<1>16. Restores(d, news, need, start, old)
  <2> HIDE DEF NextOnChain
  <2> QED BY <1>3, <1>8, <1>9, <1>11, <1>12, <1>13, <1>14, <1>15 DEF Restores
<1> QED BY <1>16

LEMMA ReorgKeeps ==
    ASSUME PoolIInv, NEW d \in 1..Len(chain), NEW news, Replaces(d, news), Reorg(d, news)
    PROVE  PoolLeft
<1>1. /\ node \in Nodes /\ orphans \in Seq(Txs) /\ Len(orphans) <= MaxOrphans
  BY DEF PoolIInv
<1>2. PICK need, start, old : Restores(d, news, need, start, old)
  BY ReorgRestores
<1>3. PICK done : /\ done = ReinsertBlocks(start, old, ChainTxs(news))
                  /\ pool' = done.pool /\ bySender' = done.by /\ pendingIndex' = done.ix
  BY <1>2 DEF Restores
<1>4. done \in GoodSts(need)
  BY <1>1, <1>2, <1>3, ReinsertBlocksGood DEF Restores
<1>5. PoolOK(done.pool, done.by) /\ done.ix \in GoodIxs /\ \A s \in Senders : done.ix.next[s] >= need[s]
  BY <1>4 DEF GoodSts
<1>6. NoncesAreNew(done.ix, chain')
  <2> SUFFICES ASSUME "sync" \notin node.with, NEW s \in Senders PROVE done.ix.next[s] >= NextOnChain(chain', s)
    BY DEF NoncesAreNew
  <2>1. need[s] = NextOnChain(chain', s)
    BY <1>2 DEF Restores
  <2> HIDE DEF NextOnChain
  <2> QED BY <1>5, <2>1
<1> QED BY <1>1, <1>2, <1>3, <1>5, <1>6 DEF PoolLeft, Restores

LEMMA PoolSteps ==
    ASSUME PoolIInv, PoolNext
    PROVE  node' = node /\ PoolLeft
<1>1. node' = node
  BY DEF PoolNext
<1>2. ASSUME NEW t \in node.txs, Submit(t) \/ StoreOrphan(t) PROVE PoolLeft
  BY <1>2, SubmitKeeps, StoreOrphanKeeps
<1>3. ASSUME NEW b \in BlocksAfter(chain), Commit(b) PROVE PoolLeft
  BY <1>3, CommitKeeps
<1>4. ASSUME NEW d \in 1..Len(chain), NEW b \in BlocksAfter(SubSeq(chain, 1, Len(chain) - d)), Reorg(d, <<b>>)
      PROVE  PoolLeft
  BY <1>4, OneReplaces, ReorgKeeps
<1>5. ASSUME NEW d \in 1..Len(chain), NEW b \in BlocksAfter(SubSeq(chain, 1, Len(chain) - d)),
             NEW c \in BlocksAfter(Append(SubSeq(chain, 1, Len(chain) - d), b)), Reorg(d, <<b, c>>)
      PROVE  PoolLeft
  BY <1>5, OneReplaces, ReorgKeeps
<1>6. ASSUME FullSync PROVE PoolLeft
  BY <1>6, FullSyncKeeps
<1> QED BY <1>1, <1>2, <1>3, <1>4, <1>5, <1>6 DEF PoolNext

LEMMA PoolHolds ==
    ASSUME PoolIInv, node' = node, PoolLeft
    PROVE  PoolIInv'
BY DEF PoolIInv, PoolLeft, Chains, PoolOK, GoodIxs, IxOK, Ixs, ListOK, Roomy, NoncesAreNew

-----------------------------------------------------------------------------
(* The ring: its queues, a push, the blocks of a step.                       *)

\* A queue that lists, from old to new, the newest of the slots S; a gives ages.
KeepsNewest(q, S, a) ==
    /\ ToSet(q) \subseteq S /\ Len(q) <= QueueDepth
    /\ \A j, k \in DOMAIN q : j < k => a[q[j]] < a[q[k]]
    /\ \A i \in S \ ToSet(q) : Len(q) = QueueDepth /\ \A j \in ToSet(q) : a[i] < a[j]

Ages == [RingSlots -> Int]

\* Order is all that matters of ages.
LEMMA OtherAges ==
    ASSUME NEW q \in Seq(RingSlots), NEW S \in SUBSET RingSlots, NEW a \in Ages, NEW b \in Ages, KeepsNewest(q, S, a),
           \A x, y \in S : a[x] < a[y] => b[x] < b[y]
    PROVE  KeepsNewest(q, S, b)
<1>1. \A k \in DOMAIN q : q[k] \in ToSet(q)
  BY DEF ToSet
<1> QED BY <1>1 DEF KeepsNewest

\* The oldest slot leaves its queue.
LEMMA OldestLeaves ==
    ASSUME NEW q \in Seq(RingSlots), NEW S \in SUBSET RingSlots, NEW a \in Ages, KeepsNewest(q, S, a),
           NEW i \in S, \A x \in S \ {i} : a[i] < a[x]
    PROVE  Without(q, i) \in Seq(RingSlots) /\ KeepsNewest(Without(q, i), S \ {i}, a)
<1>1. PICK l \in Nat : l = Len(q) /\ DOMAIN q = 1..l
  BY LenProperties
<1>2. PICK K : K = KeptIn(q, ToSet(q) \ {i})
  OBVIOUS
<1>3. PICK r : r = Without(q, i)
  OBVIOUS
<1>4. PICK n \in Nat : n <= l /\ DOMAIN r = 1..n
  BY <1>1, <1>2, <1>3, FilteredEnumerates DEF Without
<1>5. PICK f \in [1..n -> K] : /\ \A k \in 1..n : r[k] = q[f[k]]
                               /\ \A k, m \in 1..n : k < m => f[k] < f[m]
  <2>1. PICK T : T = ToSet(q) \ {i}
    OBVIOUS
  <2>2. K = KeptIn(q, T) /\ r = Filtered(q, T)
    BY <1>2, <1>3, <2>1 DEF Without
  <2>3. DOMAIN r = 1..Cardinality(K)
    BY <2>2, FilteredEnumerates
  <2>4. \E f \in [1..Cardinality(K) -> K] : /\ \A k \in 1..Cardinality(K) : r[k] = q[f[k]]
                               /\ \A k, m \in 1..Cardinality(K) : k < m => f[k] < f[m]
    BY <2>2, FilteredEnumerates
  <2> QED BY <1>4, <2>3, <2>4
<1>6. r \in Seq(RingSlots) /\ ToSet(r) = ToSet(q) \ {i} /\ Len(r) = n
  <2>1. r \in Seq(RingSlots) /\ ToSet(r) = ToSet(q) \ {i}
    BY <1>3, WithoutOne DEF Without
  <2> QED BY <1>4, <2>1, LenProperties
<1>7. \A k, m \in DOMAIN r : k < m => a[r[k]] < a[r[m]]
  <2>1. \A k \in 1..n : f[k] \in DOMAIN q
    BY <1>2, <1>5 DEF KeptIn
  <2> QED BY <1>4, <1>5, <2>1 DEF KeepsNewest
<1>8. \A x \in (S \ {i}) \ ToSet(r) : Len(r) = QueueDepth /\ \A y \in ToSet(r) : a[x] < a[y]
  <2> SUFFICES ASSUME NEW x \in (S \ {i}) \ ToSet(r)
               PROVE  Len(r) = QueueDepth /\ \A y \in ToSet(r) : a[x] < a[y]
    OBVIOUS
  <2>1. x \in S \ ToSet(q)
    BY <1>6
  <2>2. i \notin ToSet(q)
    <3> SUFFICES ASSUME i \in ToSet(q) PROVE FALSE
      OBVIOUS
    <3>1. a[x] < a[i]
      BY <2>1 DEF KeepsNewest
    <3>2. a[i] < a[x] /\ a[i] \in Int /\ a[x] \in Int
      BY DEF Ages
    <3> QED BY <3>1, <3>2
  <2>3. ToSet(r) = ToSet(q)
    BY <1>6, <2>2
  <2>4. K = 1..l
    BY <1>1, <1>2, <2>2 DEF KeptIn, ToSet
  <2>5. n = l
    <3>1. n = Cardinality(K)
      <4>1. DOMAIN r = 1..Cardinality(K) /\ Cardinality(K) \in Nat
        BY <1>2, <1>3, FilteredEnumerates DEF Without
      <4>2. PICK m \in Nat : m = Cardinality(K)
        BY <4>1
      <4> QED BY <1>4, <4>1, <4>2
    <3>2. Cardinality(1..l) = l
      BY FS_Interval
    <3> QED BY <2>4, <3>1, <3>2
  <2> QED BY <1>1, <1>6, <2>1, <2>3, <2>5 DEF KeepsNewest
<1>9. ToSet(r) \subseteq S \ {i} /\ Len(r) <= QueueDepth
  <2>1. ToSet(q) \subseteq S /\ l <= QueueDepth /\ QueueDepth \in Nat
    BY <1>1, FastPathAssumption DEF KeepsNewest
  <2> QED BY <1>4, <1>6, <2>1
<1> QED BY <1>3, <1>6, <1>7, <1>8, <1>9 DEF KeepsNewest

\* A new slot enters its queue.
LEMMA NewestEnters ==
    ASSUME NEW q \in Seq(RingSlots), NEW S \in SUBSET RingSlots, NEW a \in Ages, KeepsNewest(q, S, a),
           NEW i \in RingSlots \ S, \A x \in S : a[x] < a[i]
    PROVE  Pushed(q, i) \in Seq(RingSlots) /\ KeepsNewest(Pushed(q, i), S \cup {i}, a)
<1>1. PICK l \in Nat : l = Len(q) /\ DOMAIN q = 1..l
  BY LenProperties
<1>2. QueueDepth \in Nat \ {0}
  BY FastPathAssumption
<1>3. PICK q1 : q1 = IF Len(q) >= QueueDepth THEN Tail(q) ELSE q
  OBVIOUS
<1>4. l <= QueueDepth /\ ToSet(q) \subseteq S
  BY <1>1 DEF KeepsNewest
<1>5. CASE l < QueueDepth
  <2>1. q1 = q
    BY <1>1, <1>2, <1>3, <1>5
  <2>2. PICK r : r = Append(q, i)
    OBVIOUS
  <2>3. r \in Seq(RingSlots) /\ Len(r) = l + 1 /\ ToSet(r) = ToSet(q) \cup {i}
    BY <1>1, <2>2, WithOneMore
  <2>4. (\A k \in 1..l : r[k] = q[k]) /\ r[l + 1] = i
    BY <1>1, <2>2, AppendProperties
  <2>5. DOMAIN r = 1..l + 1
    BY <2>3, LenProperties
  <2>6. \A j, k \in DOMAIN r : j < k => a[r[j]] < a[r[k]]
    <3> SUFFICES ASSUME NEW j \in 1..l + 1, NEW k \in 1..l + 1, j < k PROVE a[r[j]] < a[r[k]]
      BY <2>5
    <3>1. j \in 1..l
      OBVIOUS
    <3>2. CASE k \in 1..l
      BY <1>1, <2>4, <3>1, <3>2 DEF KeepsNewest
    <3>3. CASE k = l + 1
      <4>1. q[j] \in S
        BY <1>1, <1>4, <3>1 DEF ToSet
      <4> QED BY <2>4, <3>1, <3>3, <4>1
    <3> QED BY <3>2, <3>3
  <2>7. \A x \in (S \cup {i}) \ ToSet(r) : FALSE
    BY <1>1, <1>5, <2>3 DEF KeepsNewest
  <2>8. Len(r) <= QueueDepth /\ ToSet(r) \subseteq S \cup {i}
    BY <1>2, <1>4, <1>5, <2>3
  <2> QED BY <1>3, <2>1, <2>2, <2>3, <2>6, <2>7, <2>8 DEF KeepsNewest, Pushed
<1>6. CASE l = QueueDepth
  <2>1. q # <<>>
    BY <1>1, <1>2, <1>6, EmptySeq
  <2>2. PICK u \in Seq(RingSlots) : /\ u = Tail(q) /\ Len(u) = l - 1 /\ ToSet(u) \subseteq ToSet(q)
                                   /\ \A k \in 1..l - 1 : u[k] = q[k + 1]
    <3>1. PICK u : u = Tail(q)
      OBVIOUS
    <3>2. u \in Seq(RingSlots) /\ Len(u) = l - 1 /\ ToSet(u) \subseteq ToSet(q)
      BY <1>1, <2>1, <3>1, WithoutFirst
    <3>3. \A k \in 1..Len(u) : u[k] = q[k + 1]
      BY <2>1, <3>1, HeadTailProperties
    <3> QED BY <3>1, <3>2, <3>3
  <2>3. q1 = u
    BY <1>1, <1>2, <1>3, <1>6, <2>2
  <2>4. PICK r : r = Append(u, i)
    OBVIOUS
  <2>5. r \in Seq(RingSlots) /\ Len(r) = l /\ ToSet(r) = ToSet(u) \cup {i} /\ DOMAIN r = 1..l
    <3>1. r \in Seq(RingSlots) /\ Len(r) = Len(u) + 1 /\ ToSet(r) = ToSet(u) \cup {i}
      BY <2>4, WithOneMore
    <3>2. Len(r) = l
      BY <1>2, <1>6, <2>2, <3>1
    <3> QED BY <3>1, <3>2, LenProperties
  <2>6. (\A k \in 1..l - 1 : r[k] = q[k + 1]) /\ r[l] = i
    <3>1. (\A k \in 1..Len(u) : r[k] = u[k]) /\ r[Len(u) + 1] = i
      BY <2>4, AppendProperties
    <3>2. Len(u) = l - 1 /\ l - 1 + 1 = l
      BY <2>2
    <3> QED BY <2>2, <3>1, <3>2
  <2>7. \A j, k \in DOMAIN r : j < k => a[r[j]] < a[r[k]]
    <3> SUFFICES ASSUME NEW j \in 1..l, NEW k \in 1..l, j < k PROVE a[r[j]] < a[r[k]]
      BY <2>5
    <3>1. j \in 1..l - 1 /\ j + 1 \in 1..l
      OBVIOUS
    <3>2. CASE k \in 1..l - 1
      <4>1. k + 1 \in 1..l /\ j + 1 < k + 1
        BY <3>2
      <4>2. a[q[j + 1]] < a[q[k + 1]]
        BY <1>1, <3>1, <4>1 DEF KeepsNewest
      <4> QED BY <2>6, <3>1, <3>2, <4>2
    <3>3. CASE k = l
      <4>1. q[j + 1] \in S
        BY <1>1, <1>4, <3>1 DEF ToSet
      <4> QED BY <2>6, <3>1, <3>3, <4>1
    <3> QED BY <3>2, <3>3
  <2>8. ASSUME NEW x \in (S \cup {i}) \ ToSet(r), NEW y \in ToSet(r) PROVE a[x] < a[y]
    <3>1. x \in S /\ x \notin ToSet(u)
      BY <2>5, <2>8
    <3>2. CASE y = i
      BY <3>1, <3>2
    <3>3. CASE y \in ToSet(u)
      <4>1. y \in ToSet(q)
        BY <2>2, <3>3
      <4>2. CASE x \notin ToSet(q)
        BY <3>1, <4>1, <4>2 DEF KeepsNewest
      <4>3. CASE x \in ToSet(q)
        <5>1. PICK k \in 1..l : q[k] = x
          BY <1>1, <4>3 DEF ToSet
        <5>2. k = 1
          <6> SUFFICES ASSUME k # 1 PROVE FALSE
            OBVIOUS
          <6>1. k - 1 \in 1..l - 1 /\ (k - 1) + 1 = k
            OBVIOUS
          <6>2. u[k - 1] = x
            BY <2>2, <5>1, <6>1
          <6>3. DOMAIN u = 1..l - 1
            BY <2>2, LenProperties
          <6> QED BY <3>1, <6>1, <6>2, <6>3 DEF ToSet
        <5>3. PICK m \in 1..l - 1 : u[m] = y
          <6>1. DOMAIN u = 1..l - 1
            BY <2>2, LenProperties
          <6> QED BY <3>3, <6>1 DEF ToSet
        <5>4. q[m + 1] = y /\ m + 1 \in 1..l /\ 1 \in 1..l /\ 1 < m + 1
          BY <2>2, <5>3
        <5> QED BY <1>1, <5>1, <5>2, <5>4 DEF KeepsNewest
      <4> QED BY <4>2, <4>3
    <3> QED BY <2>5, <2>8, <3>2, <3>3
  <2>9. Len(r) = QueueDepth /\ ToSet(r) \subseteq S \cup {i}
    BY <1>4, <1>6, <2>2, <2>5
  <2>10. r = Pushed(q, i)
    BY <1>3, <2>3, <2>4 DEF Pushed
  <2>11. KeepsNewest(r, S \cup {i}, a)
    <3>1. \A x \in (S \cup {i}) \ ToSet(r) : Len(r) = QueueDepth /\ \A y \in ToSet(r) : a[x] < a[y]
      BY <2>8, <2>9
    <3>2. Len(r) <= QueueDepth
      BY <1>2, <2>9
    <3> QED BY <2>7, <2>9, <3>1, <3>2 DEF KeepsNewest
  <2> QED BY <2>5, <2>10, <2>11
<1> QED BY <1>1, <1>2, <1>4, <1>5, <1>6

Entries == [tx : Txs, height : Nat]
Rings == [entries : [RingSlots -> {Free} \cup Entries], head : RingSlots, count : 0..RingSize,
          byTxId : UNION {[D -> RingSlots] : D \in SUBSET Txs},
          bySender : [Senders -> Seq(RingSlots)], byStateId : [States -> Seq(RingSlots)]]

AgesOf(r) == [x \in RingSlots |-> Age(r, x)]

LEMMA FreeIsNoEntry ==
    ASSUME NEW t, NEW h
    PROVE  [tx |-> t, height |-> h] # Free
<1>1. "tx" \in DOMAIN [tx |-> t, height |-> h] /\ "tx" \notin DOMAIN Free
  BY DEF Free
<1> QED BY <1>1

LEMMA SlotTypes == RingSize \in Nat \ {0} /\ 0 \in RingSlots /\ RingSlots \subseteq Nat /\ \A i \in RingSlots : i < RingSize
BY FastPathAssumption DEF RingSlots

LEMMA RingTypes ==
    ASSUME NEW r \in Rings
    PROVE  /\ \A i \in Used(r) : i \in RingSlots /\ r.entries[i] \in Entries /\ r.entries[i].tx \in Txs
           /\ \A i \in RingSlots \ Used(r) : r.entries[i] = Free
           /\ r.head \in RingSlots /\ r.count \in 0..RingSize /\ r.entries \in [RingSlots -> {Free} \cup Entries]
           /\ r.bySender \in [Senders -> Seq(RingSlots)] /\ r.byStateId \in [States -> Seq(RingSlots)]
           /\ DOMAIN r.byTxId \subseteq Txs /\ \A t \in DOMAIN r.byTxId : r.byTxId[t] \in RingSlots
           /\ r = [entries |-> r.entries, head |-> r.head, count |-> r.count, byTxId |-> r.byTxId,
                   bySender |-> r.bySender, byStateId |-> r.byStateId]
<1>1. /\ r.head \in RingSlots /\ r.count \in 0..RingSize /\ r.entries \in [RingSlots -> {Free} \cup Entries]
      /\ r.bySender \in [Senders -> Seq(RingSlots)] /\ r.byStateId \in [States -> Seq(RingSlots)]
      /\ r.byTxId \in UNION {[D -> RingSlots] : D \in SUBSET Txs}
      /\ r = [entries |-> r.entries, head |-> r.head, count |-> r.count, byTxId |-> r.byTxId,
              bySender |-> r.bySender, byStateId |-> r.byStateId]
  BY DEF Rings
<1>2. DOMAIN r.byTxId \subseteq Txs /\ \A t \in DOMAIN r.byTxId : r.byTxId[t] \in RingSlots
  BY <1>1
<1>3. \A i \in Used(r) : i \in RingSlots /\ r.entries[i] \in Entries /\ r.entries[i].tx \in Txs
  <2>1. \A i \in Used(r) : i \in RingSlots /\ r.entries[i] \in Entries
    BY <1>1 DEF Used
  <2>2. \A e \in Entries : e.tx \in Txs
    BY DEF Entries
  <2> QED BY <2>1, <2>2
<1> QED BY <1>1, <1>2, <1>3 DEF Used

\* How old the slots of a ring are.
LEMMA AgesFrom ==
    ASSUME NEW r \in Rings, NEW i \in RingSlots, i = (r.head + r.count) % RingSize
    PROVE  /\ AgesOf(r) \in [RingSlots -> 0..RingSize - 1]
           /\ \A x, y \in RingSlots : AgesOf(r)[x] = AgesOf(r)[y] => x = y
           /\ r.count < RingSize => AgesOf(r)[i] = r.count
           /\ r.count = RingSize => i = r.head /\ AgesOf(r)[i] = 0
<1>1. PICK n \in Nat \ {0} : n = RingSize /\ RingSlots = 0..n - 1
  BY SlotTypes DEF RingSlots
<1>2. PICK h \in 0..n - 1, c \in 0..n : h = r.head /\ c = r.count
  BY <1>1, RingTypes
<1>3. \A x \in RingSlots : AgesOf(r)[x] = IF x >= h THEN x - h ELSE x + n - h
  BY <1>1, <1>2 DEF AgesOf, Age
<1>4. AgesOf(r) = [x \in RingSlots |-> AgesOf(r)[x]]
  BY DEF AgesOf
<1>5. \A x \in RingSlots : AgesOf(r)[x] \in 0..n - 1
  BY <1>1, <1>2, <1>3, SMTT(30)
<1>6. AgesOf(r) \in [RingSlots -> 0..n - 1]
  BY <1>4, <1>5
<1>7. \A x, y \in RingSlots : AgesOf(r)[x] = AgesOf(r)[y] => x = y
  BY <1>1, <1>2, <1>3
<1>8. i = IF h + c < n THEN h + c ELSE h + c - n
  <2>1. i = (h + c) % n
    BY <1>1, <1>2
  <2>2. CASE h + c < n
    BY <1>2, <2>1, <2>2
  <2>3. CASE ~(h + c < n)
    <3>1. PICK x \in Nat : x = h + c
      BY <1>2
    <3>2. n <= x /\ x < n + n
      BY <1>2, <2>3, <3>1
    <3>3. x % n = x - n
      BY <3>2
    <3> QED BY <2>1, <2>3, <3>1, <3>3
  <2> QED BY <2>2, <2>3
<1> PICK a : a = AgesOf(r)[i]
  OBVIOUS
<1>11. i \in 0..n - 1 /\ a = IF i >= h THEN i - h ELSE i + n - h
  BY <1>1, <1>3
<1>9. c < n => a = c
  BY <1>2, <1>8, <1>11
<1>10. c = n => i = h /\ a = 0
  BY <1>2, <1>8, <1>11
<1> QED BY <1>1, <1>2, <1>6, <1>7, <1>9, <1>10

\* A ring in which i became the newest slot: the others keep their order.
LEMMA AgesAfter ==
    ASSUME NEW r \in Rings, NEW i \in RingSlots, i = (r.head + r.count) % RingSize, NEW u,
           u.head = (IF r.count = RingSize THEN (r.head + 1) % RingSize ELSE r.head)
    PROVE  /\ u.head \in RingSlots
           /\ r.count < RingSize => AgesOf(u) = AgesOf(r)
           /\ r.count = RingSize => /\ AgesOf(u)[i] = RingSize - 1
                                    /\ \A x \in RingSlots \ {i} : AgesOf(u)[x] = AgesOf(r)[x] - 1
<1>1. PICK n \in Nat \ {0} : n = RingSize /\ RingSlots = 0..n - 1
  BY SlotTypes DEF RingSlots
<1>2. PICK h \in 0..n - 1, c \in 0..n : h = r.head /\ c = r.count
  BY <1>1, RingTypes
<1>3. \A x \in RingSlots : AgesOf(r)[x] = IF x >= h THEN x - h ELSE x + n - h
  BY <1>1, <1>2 DEF AgesOf, Age
<1>4. CASE c < n
  <2>1. u.head = h
    BY <1>1, <1>2, <1>4
  <2>2. AgesOf(u) = AgesOf(r)
    BY <1>2, <2>1 DEF AgesOf, Age
  <2> QED BY <1>1, <1>2, <1>4, <2>1, <2>2
<1>5. CASE c = n
  <2>1. u.head = (h + 1) % n
    BY <1>1, <1>2, <1>5
  <2>2. PICK g \in 0..n - 1 : g = u.head /\ g = IF h + 1 < n THEN h + 1 ELSE 0
    <3>1. CASE h + 1 < n
      <4>1. (h + 1) % n = h + 1
        BY <3>1
      <4> QED BY <2>1, <3>1, <4>1
    <3>2. CASE ~(h + 1 < n)
      <4>1. h + 1 = n
        BY <3>2
      <4>2. n % n = 0
        OBVIOUS
      <4> QED BY <2>1, <3>2, <4>1, <4>2
    <3> QED BY <3>1, <3>2
  <2>3. \A x \in RingSlots : AgesOf(u)[x] = IF x >= g THEN x - g ELSE x + n - g
    BY <1>1, <2>2 DEF AgesOf, Age
  <2>4. i = h
    BY <1>1, <1>2, <1>5, AgesFrom
  <2>5. AgesOf(u)[h] = n - 1
    <3>1. h \in RingSlots
      BY <1>1
    <3>2. PICK a : a = AgesOf(u)[h]
      OBVIOUS
    <3>3. a = IF h >= g THEN h - g ELSE h + n - g
      BY <2>3, <3>1, <3>2
    <3>4. a = n - 1
      BY <1>2, <2>2, <3>3
    <3> QED BY <3>2, <3>4
  <2>6. \A x \in RingSlots \ {h} : AgesOf(u)[x] = AgesOf(r)[x] - 1
    <3> SUFFICES ASSUME NEW x \in RingSlots \ {h} PROVE AgesOf(u)[x] = AgesOf(r)[x] - 1
      OBVIOUS
    <3>1. PICK a, b : a = AgesOf(u)[x] /\ b = AgesOf(r)[x]
      OBVIOUS
    <3>2. a = (IF x >= g THEN x - g ELSE x + n - g) /\ b = IF x >= h THEN x - h ELSE x + n - h
      BY <1>3, <2>3, <3>1
    <3>3. x \in 0..n - 1 /\ x # h
      BY <1>1
    <3>4. a = b - 1
      BY <1>2, <2>2, <3>2, <3>3
    <3> QED BY <3>1, <3>4
  <2>7. u.head \in RingSlots
    BY <1>1, <2>2
  <2>8. AgesOf(u)[i] = RingSize - 1 /\ \A x \in RingSlots \ {i} : AgesOf(u)[x] = AgesOf(r)[x] - 1
    BY <1>1, <2>4, <2>5, <2>6
  <2> QED BY <1>1, <1>2, <1>5, <2>7, <2>8
<1> QED BY <1>1, <1>2, <1>4, <1>5

\* A queue when slot i is used again.
Cleared(q, S, i) == IF i \in S THEN Without(q, i) ELSE q

LEMMA QueueAfter ==
    ASSUME NEW q \in Seq(RingSlots), NEW S \in SUBSET RingSlots, NEW a \in Ages, NEW b \in Ages, KeepsNewest(q, S, a),
           NEW i \in RingSlots, i \in S => \A x \in S \ {i} : a[i] < a[x],
           \A x, y \in S \ {i} : a[x] < a[y] => b[x] < b[y],
           \A x \in S \ {i} : b[x] < b[i]
    PROVE  /\ Cleared(q, S, i) \in Seq(RingSlots) /\ KeepsNewest(Cleared(q, S, i), S \ {i}, b)
           /\ Pushed(Cleared(q, S, i), i) \in Seq(RingSlots) /\ KeepsNewest(Pushed(Cleared(q, S, i), i), S \cup {i}, b)
<1>1. PICK q1 : q1 = Cleared(q, S, i)
  OBVIOUS
<1>2. q1 \in Seq(RingSlots) /\ KeepsNewest(q1, S \ {i}, a)
  <2>1. CASE i \in S
    BY <1>1, <2>1, OldestLeaves DEF Cleared
  <2>2. CASE i \notin S
    <3>1. q1 = q /\ S \ {i} = S
      BY <1>1, <2>2 DEF Cleared
    <3> QED BY <3>1
  <2> QED BY <2>1, <2>2
<1>3. S \ {i} \in SUBSET RingSlots
  OBVIOUS
<1>4. KeepsNewest(q1, S \ {i}, b)
  BY <1>2, <1>3, OtherAges
<1>5. i \in RingSlots \ (S \ {i})
  OBVIOUS
<1>6. Pushed(q1, i) \in Seq(RingSlots) /\ KeepsNewest(Pushed(q1, i), (S \ {i}) \cup {i}, b)
  BY <1>2, <1>3, <1>4, <1>5, NewestEnters
<1>7. (S \ {i}) \cup {i} = S \cup {i}
  OBVIOUS
<1> QED BY <1>1, <1>2, <1>4, <1>6, <1>7

\* What the ring's listing of slots says in terms of their ages.
LEMMA NewestOfRing ==
    ASSUME NEW r, NEW q \in Seq(RingSlots), NEW S \in SUBSET RingSlots
    PROVE  ListsNewest(r, q, S) <=> KeepsNewest(q, S, AgesOf(r))
<1>1. \A k \in DOMAIN q : q[k] \in RingSlots
  BY LenProperties, ElementOfSeq
<1>2. ToSet(q) \subseteq RingSlots
  BY <1>1 DEF ToSet
<1>3. \A x \in RingSlots : AgesOf(r)[x] = Age(r, x)
  BY DEF AgesOf
<1> QED BY <1>1, <1>2, <1>3 DEF ListsNewest, KeepsNewest

\* How a push orders the slots in use.
LEMMA OrderAfter ==
    ASSUME NEW r \in Rings, Used(r) = {x \in RingSlots : Age(r, x) < r.count},
           NEW i \in RingSlots, i = (r.head + r.count) % RingSize, NEW u,
           u.head = (IF r.count = RingSize THEN (r.head + 1) % RingSize ELSE r.head),
           u.count = (IF r.count = RingSize THEN r.count ELSE r.count + 1)
    PROVE  /\ AgesOf(r) \in Ages /\ AgesOf(u) \in Ages /\ u.head \in RingSlots /\ u.count \in 0..RingSize
           /\ i \in Used(r) => \A x \in Used(r) \ {i} : AgesOf(r)[i] < AgesOf(r)[x]
           /\ \A x, y \in Used(r) \ {i} : AgesOf(r)[x] < AgesOf(r)[y] => AgesOf(u)[x] < AgesOf(u)[y]
           /\ \A x \in Used(r) \ {i} : AgesOf(u)[x] < AgesOf(u)[i]
           /\ Used(r) \cup {i} = {x \in RingSlots : Age(u, x) < u.count}
<1>1. PICK n \in Nat \ {0} : n = RingSize
  BY SlotTypes
<1>2. PICK c \in 0..n : c = r.count
  BY <1>1, RingTypes
<1>3. PICK a : a = AgesOf(r)
  OBVIOUS
<1>4. PICK b : b = AgesOf(u)
  OBVIOUS
<1>5. /\ a \in [RingSlots -> 0..n - 1]
      /\ \A x, y \in RingSlots : a[x] = a[y] => x = y
      /\ c < n => a[i] = c
      /\ c = n => a[i] = 0
  BY <1>1, <1>2, <1>3, AgesFrom
<1>6. /\ u.head \in RingSlots
      /\ c < n => b = a
      /\ c = n => b[i] = n - 1 /\ \A x \in RingSlots \ {i} : b[x] = a[x] - 1
  BY <1>1, <1>2, <1>3, <1>4, AgesAfter
<1>7. \A x \in RingSlots : a[x] \in 0..n - 1
  BY <1>5
<1>8. b = [x \in RingSlots |-> b[x]] /\ a = [x \in RingSlots |-> a[x]]
  BY <1>3, <1>4 DEF AgesOf
<1>9. a \in Ages /\ b \in Ages
  <2>1. CASE c < n
    BY <1>6, <1>7, <1>8, <2>1 DEF Ages
  <2>2. CASE c = n
    <3>1. \A x \in RingSlots : b[x] \in Int
      <4> SUFFICES ASSUME NEW x \in RingSlots PROVE b[x] \in Int
        OBVIOUS
      <4>1. CASE x = i
        BY <1>6, <2>2, <4>1
      <4>2. CASE x # i
        BY <1>6, <1>7, <2>2, <4>2
      <4> QED BY <4>1, <4>2
    <3> QED BY <1>7, <1>8, <3>1 DEF Ages
  <2> QED BY <1>2, <2>1, <2>2
<1>10. \A x \in RingSlots : x \in Used(r) <=> a[x] < c
  BY <1>2, <1>3 DEF AgesOf
<1>11. Used(r) \subseteq RingSlots
  BY DEF Used
<1>12. i \in Used(r) => c = n
  BY <1>2, <1>5, <1>10
<1>13. i \in Used(r) => \A x \in Used(r) \ {i} : a[i] < a[x]
  <2> SUFFICES ASSUME i \in Used(r), NEW x \in Used(r) \ {i} PROVE a[i] < a[x]
    OBVIOUS
  <2>1. x \in RingSlots /\ a[x] # a[i] /\ a[x] \in 0..n - 1 /\ a[i] = 0
    BY <1>5, <1>7, <1>11, <1>12
  <2> QED BY <2>1
<1>14. \A x, y \in Used(r) \ {i} : a[x] < a[y] => b[x] < b[y]
  <2> SUFFICES ASSUME NEW x \in Used(r) \ {i}, NEW y \in Used(r) \ {i}, a[x] < a[y] PROVE b[x] < b[y]
    OBVIOUS
  <2>1. x \in RingSlots \ {i} /\ y \in RingSlots \ {i} /\ a[x] \in 0..n - 1 /\ a[y] \in 0..n - 1
    BY <1>7, <1>11
  <2>2. CASE c < n
    BY <1>6, <2>2
  <2>3. CASE c = n
    BY <1>6, <2>1, <2>3
  <2> QED BY <1>2, <2>2, <2>3
<1>15. \A x \in Used(r) \ {i} : b[x] < b[i]
  <2> SUFFICES ASSUME NEW x \in Used(r) \ {i} PROVE b[x] < b[i]
    OBVIOUS
  <2>1. x \in RingSlots \ {i} /\ a[x] \in 0..n - 1 /\ a[x] < c
    BY <1>7, <1>10, <1>11
  <2>2. CASE c < n
    BY <1>5, <1>6, <2>1, <2>2
  <2>3. CASE c = n
    BY <1>6, <2>1, <2>3
  <2> QED BY <1>2, <2>2, <2>3
<1>16. PICK d \in 0..n : d = u.count /\ d = IF c = n THEN c ELSE c + 1
  BY <1>1, <1>2
<1>17. \A x \in RingSlots : (x \in Used(r) \/ x = i) <=> b[x] < d
  <2> SUFFICES ASSUME NEW x \in RingSlots PROVE (x \in Used(r) \/ x = i) <=> b[x] < d
    OBVIOUS
  <2>1. a[x] \in 0..n - 1 /\ a[i] \in 0..n - 1 /\ (x \in Used(r) <=> a[x] < c) /\ (a[x] = a[i] => x = i)
    BY <1>5, <1>7, <1>10
  <2>2. CASE c < n
    BY <1>5, <1>6, <1>16, <2>1, <2>2
  <2>3. CASE c = n
    <3>1. CASE x = i
      BY <1>6, <1>16, <2>3, <3>1
    <3>2. CASE x # i
      BY <1>6, <1>16, <2>1, <2>3, <3>2
    <3> QED BY <3>1, <3>2
  <2> QED BY <1>2, <2>2, <2>3
<1>18. Used(r) \cup {i} = {x \in RingSlots : Age(u, x) < u.count}
  <2>1. \A x \in RingSlots : b[x] = Age(u, x)
    BY <1>4 DEF AgesOf
  <2> QED BY <1>11, <1>16, <1>17, <2>1
<1> QED BY <1>1, <1>3, <1>4, <1>6, <1>9, <1>13, <1>14, <1>15, <1>16, <1>18

\* The ring when the entry in slot i is forgotten.
ClearedRing(r, i) == IF r.entries[i] = Free THEN r ELSE RemoveFromIndexes(r, i)

LEMMA HoldingIs ==
    ASSUME NEW r \in Rings
    PROVE  /\ \A X, i : i \in Holding(r, X) <=> i \in Used(r) /\ r.entries[i].tx \in X
           /\ \A X : Holding(r, X) \subseteq Used(r) /\ Holding(r, X) \subseteq RingSlots
BY RingTypes DEF Holding

LEMMA ClearedIs ==
    ASSUME NEW r \in Rings, NEW i \in RingSlots, NEW c, c = ClearedRing(r, i)
    PROVE  /\ c.entries = r.entries
           /\ \A s \in Senders : c.bySender[s] = Cleared(r.bySender[s], Holding(r, SentBy(s)), i)
           /\ \A s \in States : c.byStateId[s] = Cleared(r.byStateId[s], Holding(r, ThatTouch({s})), i)
           /\ DOMAIN c.bySender = Senders /\ DOMAIN c.byStateId = States
           /\ DOMAIN c.byTxId = {t \in DOMAIN r.byTxId : ~(i \in Used(r) /\ t = r.entries[i].tx)}
           /\ \A t \in DOMAIN c.byTxId : c.byTxId[t] = r.byTxId[t]
<1>1. /\ r.bySender \in [Senders -> Seq(RingSlots)] /\ r.byStateId \in [States -> Seq(RingSlots)]
      /\ r = [entries |-> r.entries, head |-> r.head, count |-> r.count, byTxId |-> r.byTxId,
              bySender |-> r.bySender, byStateId |-> r.byStateId]
  BY RingTypes
<1>2. i \in Used(r) <=> r.entries[i] # Free
  BY DEF Used
<1>3. CASE i \notin Used(r)
  <2>1. c = r
    BY <1>2, <1>3 DEF ClearedRing
  <2>2. \A X : i \notin Holding(r, X)
    BY <1>3 DEF Holding
  <2> QED BY <1>1, <1>3, <2>1, <2>2 DEF Cleared
<1>4. CASE i \in Used(r)
  <2>1. c = RemoveFromIndexes(r, i)
    BY <1>2, <1>4 DEF ClearedRing
  <2>2. PICK t \in Txs : t = r.entries[i].tx
    BY <1>4, RingTypes
  <2>3. PICK B : B = [r.bySender EXCEPT ![Sender[t]] = Without(@, i)]
    OBVIOUS
  <2>4. PICK Y : Y = [s \in States |-> IF s \in Touches[t] THEN Without(r.byStateId[s], i) ELSE r.byStateId[s]]
    OBVIOUS
  <2>5. c = [r EXCEPT !.byTxId = Drop(r.byTxId, {t}), !.bySender = B, !.byStateId = Y]
    BY <1>1, <2>1, <2>2, <2>3, <2>4 DEF RemoveFromIndexes
  <2>6. c.entries = r.entries /\ c.bySender = B /\ c.byStateId = Y /\ c.byTxId = Drop(r.byTxId, {t})
    BY <1>1, <2>5 DEF Rings
  <2>7. \A s \in Senders : i \in Holding(r, SentBy(s)) <=> s = Sender[t]
    BY <1>4, <2>2, HoldingIs DEF SentBy
  <2>8. \A s \in States : i \in Holding(r, ThatTouch({s})) <=> s \in Touches[t]
    BY <1>4, <2>2, HoldingIs DEF ThatTouch
  <2>9. DOMAIN B = Senders /\ \A s \in Senders : B[s] = Cleared(r.bySender[s], Holding(r, SentBy(s)), i)
    BY <1>1, <2>3, <2>7 DEF Cleared
  <2>10. DOMAIN Y = States /\ \A s \in States : Y[s] = Cleared(r.byStateId[s], Holding(r, ThatTouch({s})), i)
    BY <2>4, <2>8 DEF Cleared
  <2>11. /\ DOMAIN Drop(r.byTxId, {t}) = {u \in DOMAIN r.byTxId : ~(i \in Used(r) /\ u = r.entries[i].tx)}
         /\ \A u \in DOMAIN Drop(r.byTxId, {t}) : Drop(r.byTxId, {t})[u] = r.byTxId[u]
    BY <1>4, <2>2 DEF Drop
  <2> QED BY <2>6, <2>9, <2>10, <2>11
<1> QED BY <1>3, <1>4

\* What a push makes of the ring.
LEMMA PushIs ==
    ASSUME NEW r \in Rings, NEW t \in Txs, NEW h \in Nat, NEW i \in RingSlots, i = (r.head + r.count) % RingSize,
           NEW c, c = ClearedRing(r, i), NEW u, u = Push(r, t, h)
    PROVE  /\ u.entries = [r.entries EXCEPT ![i] = [tx |-> t, height |-> h]]
           /\ u.head = (IF r.count = RingSize THEN (r.head + 1) % RingSize ELSE r.head)
           /\ u.count = (IF r.count = RingSize THEN r.count ELSE r.count + 1)
           /\ DOMAIN u.byTxId = DOMAIN c.byTxId \cup {t}
           /\ \A x \in DOMAIN u.byTxId : u.byTxId[x] = IF x = t THEN i ELSE c.byTxId[x]
           /\ DOMAIN u.bySender = Senders /\ DOMAIN u.byStateId = States
           /\ \A s \in Senders : u.bySender[s] = IF s = Sender[t] THEN Pushed(c.bySender[s], i) ELSE c.bySender[s]
           /\ \A s \in States : u.byStateId[s] = IF s \in Touches[t] THEN Pushed(c.byStateId[s], i)
                                                 ELSE c.byStateId[s]
           /\ u.byTxId = [x \in DOMAIN u.byTxId |-> u.byTxId[x]] /\ u.bySender = [s \in Senders |-> u.bySender[s]]
           /\ u.byStateId = [s \in States |-> u.byStateId[s]]
           /\ u = [entries |-> u.entries, head |-> u.head, count |-> u.count, byTxId |-> u.byTxId,
                   bySender |-> u.bySender, byStateId |-> u.byStateId]
<1>1. c.entries = r.entries /\ DOMAIN c.bySender = Senders
  BY ClearedIs
<1>2. PICK B : B = [c.bySender EXCEPT ![Sender[t]] = Pushed(@, i)]
  OBVIOUS
<1>3. DOMAIN B = Senders /\ \A s \in Senders : B[s] = IF s = Sender[t] THEN Pushed(c.bySender[s], i) ELSE c.bySender[s]
  BY <1>1, <1>2
<1>4. PICK Y : Y = [s \in States |-> IF s \in Touches[t] THEN Pushed(c.byStateId[s], i) ELSE c.byStateId[s]]
  OBVIOUS
<1>5. PICK K : K = [x \in DOMAIN c.byTxId \cup {t} |-> IF x = t THEN i ELSE c.byTxId[x]]
  OBVIOUS
<1>6. u = [entries |-> [r.entries EXCEPT ![i] = [tx |-> t, height |-> h]],
           head |-> IF r.count = RingSize THEN (r.head + 1) % RingSize ELSE r.head,
           count |-> IF r.count = RingSize THEN r.count ELSE r.count + 1,
           byTxId |-> K, bySender |-> B, byStateId |-> Y]
  BY <1>1, <1>2, <1>4, <1>5, Zenon DEF Push, ClearedRing
<1>7. K = [x \in DOMAIN K |-> K[x]] /\ B = [s \in Senders |-> B[s]] /\ Y = [s \in States |-> Y[s]]
  BY <1>1, <1>2, <1>4, <1>5
<1>8. /\ u.entries = [r.entries EXCEPT ![i] = [tx |-> t, height |-> h]]
      /\ u.head = (IF r.count = RingSize THEN (r.head + 1) % RingSize ELSE r.head)
      /\ u.count = (IF r.count = RingSize THEN r.count ELSE r.count + 1)
      /\ u.byTxId = K /\ u.bySender = B /\ u.byStateId = Y
  BY ONLY <1>6
<1>9. u = [entries |-> u.entries, head |-> u.head, count |-> u.count, byTxId |-> u.byTxId,
           bySender |-> u.bySender, byStateId |-> u.byStateId]
  BY ONLY <1>6
<1>10. /\ DOMAIN K = DOMAIN c.byTxId \cup {t} /\ \A x \in DOMAIN K : K[x] = IF x = t THEN i ELSE c.byTxId[x]
       /\ DOMAIN Y = States
       /\ \A x \in States : Y[x] = IF x \in Touches[t] THEN Pushed(c.byStateId[x], i) ELSE c.byStateId[x]
  BY ONLY <1>4, <1>5
<1> QED BY ONLY <1>3, <1>7, <1>8, <1>9, <1>10

LEMMA PushMoves ==
    ASSUME NEW r, NEW t, NEW h
    PROVE  /\ Push(r, t, h).head = (IF r.count = RingSize THEN (r.head + 1) % RingSize ELSE r.head)
           /\ Push(r, t, h).count = (IF r.count = RingSize THEN r.count ELSE r.count + 1)
BY DEF Push

\* A queue of the ring r, of the slots that hold transactions of X, after a push of t.
LEMMA QueuePushed ==
    ASSUME NEW r \in Rings, Used(r) = {x \in RingSlots : Age(r, x) < r.count}, NEW t \in Txs, NEW h \in Nat,
           NEW i \in RingSlots, i = (r.head + r.count) % RingSize, NEW u, u = Push(r, t, h),
           NEW q \in Seq(RingSlots), NEW X, ListsNewest(r, q, Holding(r, X)), Used(u) = Used(r) \cup {i},
           \A x \in Used(r) \ {i} : u.entries[x] = r.entries[x], u.entries[i].tx = t,
           NEW p, p = IF t \in X THEN Pushed(Cleared(q, Holding(r, X), i), i) ELSE Cleared(q, Holding(r, X), i)
    PROVE  p \in Seq(RingSlots) /\ ListsNewest(u, p, Holding(u, X))
<1>1. PICK S \in SUBSET RingSlots : S = Holding(r, X) /\ S \subseteq Used(r)
  BY HoldingIs
<1>2. PICK a : a = AgesOf(r)
  OBVIOUS
<1>3. PICK b : b = AgesOf(u)
  OBVIOUS
<1>4. /\ a \in Ages /\ b \in Ages
      /\ i \in Used(r) => \A x \in Used(r) \ {i} : a[i] < a[x]
      /\ \A x, y \in Used(r) \ {i} : a[x] < a[y] => b[x] < b[y]
      /\ \A x \in Used(r) \ {i} : b[x] < b[i]
  <2>1. /\ u.head = (IF r.count = RingSize THEN (r.head + 1) % RingSize ELSE r.head)
        /\ u.count = (IF r.count = RingSize THEN r.count ELSE r.count + 1)
    BY PushMoves
  <2> QED BY <1>2, <1>3, <2>1, OrderAfter
<1>5. KeepsNewest(q, S, a)
  BY <1>1, <1>2, NewestOfRing
<1>6. /\ Cleared(q, S, i) \in Seq(RingSlots) /\ KeepsNewest(Cleared(q, S, i), S \ {i}, b)
      /\ Pushed(Cleared(q, S, i), i) \in Seq(RingSlots) /\ KeepsNewest(Pushed(Cleared(q, S, i), i), S \cup {i}, b)
  <2>1. i \in S => \A x \in S \ {i} : a[i] < a[x]
    BY <1>1, <1>4
  <2>2. \A x, y \in S \ {i} : a[x] < a[y] => b[x] < b[y]
    BY <1>1, <1>4
  <2>3. \A x \in S \ {i} : b[x] < b[i]
    BY <1>1, <1>4
  <2> QED BY <1>4, <1>5, <2>1, <2>2, <2>3, QueueAfter, ZenonT(40)
<1>7. Holding(u, X) = (S \ {i}) \cup (IF t \in X THEN {i} ELSE {})
  BY <1>1 DEF Holding
<1>8. CASE t \in X
  <2>1. p = Pushed(Cleared(q, S, i), i) /\ Holding(u, X) = S \cup {i}
    BY <1>1, <1>7, <1>8
  <2>2. S \cup {i} \in SUBSET RingSlots
    OBVIOUS
  <2> QED BY <1>3, <1>6, <2>1, <2>2, NewestOfRing
<1>9. CASE t \notin X
  <2>1. p = Cleared(q, S, i) /\ Holding(u, X) = S \ {i}
    BY <1>1, <1>7, <1>9
  <2>2. S \ {i} \in SUBSET RingSlots
    OBVIOUS
  <2> QED BY <1>3, <1>6, <2>1, <2>2, NewestOfRing
<1> QED BY <1>8, <1>9

\* The ring is indexed, but for what was pushed while the ring had it.
GoodWs == {w \in [ring : Rings, again : SUBSET Txs] : Indexed(w.ring, w.again)}

LEMMA EnteredGood ==
    ASSUME NEW w \in GoodWs, NEW t \in Txs, NEW h \in Nat
    PROVE  Entered(w, t, h) \in GoodWs
<1>1. PICK r \in Rings : r = w.ring /\ Indexed(r, w.again)
  BY DEF GoodWs
<1>2. PICK u : u = Push(r, t, h)
  OBVIOUS
<1>3. PICK i \in RingSlots : i = (r.head + r.count) % RingSize
  <2>1. PICK n \in Nat \ {0} : n = RingSize /\ RingSlots = 0..n - 1
    BY SlotTypes DEF RingSlots
  <2>2. PICK x \in Nat : x = r.head + r.count
    <3>1. r.head \in 0..n - 1 /\ r.count \in 0..n
      BY <2>1, RingTypes
    <3>2. r.head + r.count \in Nat
      BY <3>1
    <3> QED BY <3>2
  <2>3. x % n \in 0..n - 1
    OBVIOUS
  <2> QED BY <2>1, <2>2, <2>3
<1>4. PICK c : c = ClearedRing(r, i)
  OBVIOUS
<1>5. Used(r) = {x \in RingSlots : Age(r, x) < r.count}
  BY <1>1 DEF Indexed
<1>6. /\ u.entries = [r.entries EXCEPT ![i] = [tx |-> t, height |-> h]]
      /\ u.head = (IF r.count = RingSize THEN (r.head + 1) % RingSize ELSE r.head)
      /\ u.count = (IF r.count = RingSize THEN r.count ELSE r.count + 1)
      /\ DOMAIN u.byTxId = DOMAIN c.byTxId \cup {t}
      /\ \A x \in DOMAIN u.byTxId : u.byTxId[x] = IF x = t THEN i ELSE c.byTxId[x]
      /\ DOMAIN u.bySender = Senders /\ DOMAIN u.byStateId = States
      /\ \A s \in Senders : u.bySender[s] = IF s = Sender[t] THEN Pushed(c.bySender[s], i) ELSE c.bySender[s]
      /\ \A s \in States : u.byStateId[s] = IF s \in Touches[t] THEN Pushed(c.byStateId[s], i)
                                            ELSE c.byStateId[s]
      /\ u = [entries |-> u.entries, head |-> u.head, count |-> u.count, byTxId |-> u.byTxId,
              bySender |-> u.bySender, byStateId |-> u.byStateId]
      /\ u.byTxId = [x \in DOMAIN u.byTxId |-> u.byTxId[x]] /\ u.bySender = [s \in Senders |-> u.bySender[s]]
      /\ u.byStateId = [s \in States |-> u.byStateId[s]]
  BY <1>2, <1>3, <1>4, PushIs
<1>7. /\ \A s \in Senders : c.bySender[s] = Cleared(r.bySender[s], Holding(r, SentBy(s)), i)
      /\ \A s \in States : c.byStateId[s] = Cleared(r.byStateId[s], Holding(r, ThatTouch({s})), i)
      /\ DOMAIN c.byTxId = {x \in DOMAIN r.byTxId : ~(i \in Used(r) /\ x = r.entries[i].tx)}
      /\ \A x \in DOMAIN c.byTxId : c.byTxId[x] = r.byTxId[x]
  BY <1>4, ClearedIs
<1>8. u.head \in RingSlots /\ u.count \in 0..RingSize /\ Used(r) \cup {i} = {x \in RingSlots : Age(u, x) < u.count}
  BY <1>3, <1>5, <1>6, OrderAfter
<1>9. /\ u.entries \in [RingSlots -> {Free} \cup Entries]
      /\ u.entries[i] = [tx |-> t, height |-> h] /\ u.entries[i].tx = t
      /\ \A x \in RingSlots \ {i} : u.entries[x] = r.entries[x]
  <2>1. r.entries \in [RingSlots -> {Free} \cup Entries]
    BY RingTypes
  <2>2. PICK e \in Entries : e = [tx |-> t, height |-> h]
    BY DEF Entries
  <2>3. u.entries = [r.entries EXCEPT ![i] = e]
    BY <1>6, <2>2
  <2>4. e.tx = t
    BY <2>2
  <2> HIDE DEF Entries, Free
  <2> QED BY <2>1, <2>2, <2>3, <2>4
<1>10. Used(u) = Used(r) \cup {i}
  <2>1. u.entries[i] # Free
    BY <1>9, FreeIsNoEntry
  <2>2. \A x \in RingSlots : x \in Used(u) <=> x \in Used(r) \/ x = i
    BY <1>9, <2>1 DEF Used
  <2>3. Used(u) \subseteq RingSlots /\ Used(r) \subseteq RingSlots
    BY DEF Used
  <2> QED BY <2>2, <2>3
<1>11. \A x \in Used(r) \ {i} : u.entries[x] = r.entries[x]
  BY <1>9, RingTypes
<1>12. ASSUME NEW s \in Senders
       PROVE  u.bySender[s] \in Seq(RingSlots) /\ ListsNewest(u, u.bySender[s], Holding(u, SentBy(s)))
  <2>1. PICK q \in Seq(RingSlots) : q = r.bySender[s] /\ ListsNewest(r, q, Holding(r, SentBy(s)))
    BY <1>1, RingTypes DEF Indexed
  <2>2. PICK X : X = SentBy(s)
    OBVIOUS
  <2>3. u.bySender[s] = IF t \in X THEN Pushed(Cleared(q, Holding(r, X), i), i) ELSE Cleared(q, Holding(r, X), i)
    BY <1>6, <1>7, <2>1, <2>2 DEF SentBy
  <2>4. u.entries[i].tx = t
    BY <1>9
  <2> QED BY ONLY <1>2, <1>3, <1>5, <1>10, <1>11, <2>1, <2>2, <2>3, <2>4,
                  r \in Rings, t \in Txs, h \in Nat, i \in RingSlots, QueuePushed
<1>13. ASSUME NEW s \in States
       PROVE  u.byStateId[s] \in Seq(RingSlots) /\ ListsNewest(u, u.byStateId[s], Holding(u, ThatTouch({s})))
  <2>1. PICK q \in Seq(RingSlots) : q = r.byStateId[s] /\ ListsNewest(r, q, Holding(r, ThatTouch({s})))
    BY <1>1, RingTypes DEF Indexed
  <2>2. PICK X : X = ThatTouch({s})
    OBVIOUS
  <2>3. u.byStateId[s] = IF t \in X THEN Pushed(Cleared(q, Holding(r, X), i), i) ELSE Cleared(q, Holding(r, X), i)
    BY <1>6, <1>7, <2>1, <2>2 DEF ThatTouch
  <2>4. u.entries[i].tx = t
    BY <1>9
  <2> QED BY ONLY <1>2, <1>3, <1>5, <1>10, <1>11, <2>1, <2>2, <2>3, <2>4,
                  r \in Rings, t \in Txs, h \in Nat, i \in RingSlots, QueuePushed
<1>14. /\ DOMAIN r.byTxId \subseteq Txs
       /\ \A x \in DOMAIN r.byTxId : r.byTxId[x] \in RingSlots /\ r.byTxId[x] \in Used(r) /\ r.entries[r.byTxId[x]].tx = x
  <2>1. DOMAIN r.byTxId \subseteq Txs /\ \A x \in DOMAIN r.byTxId : r.byTxId[x] \in RingSlots
    BY RingTypes
  <2>2. \A x \in DOMAIN r.byTxId : r.byTxId[x] \in Holding(r, {x})
    BY <1>1 DEF Indexed
  <2> QED BY <2>1, <2>2 DEF Holding
<1>15. \A x \in DOMAIN u.byTxId : u.byTxId[x] \in RingSlots /\ u.byTxId[x] \in Holding(u, {x})
  <2> SUFFICES ASSUME NEW x \in DOMAIN u.byTxId PROVE u.byTxId[x] \in RingSlots /\ u.byTxId[x] \in Holding(u, {x})
    OBVIOUS
  <2>1. CASE x = t
    BY <1>6, <1>9, <1>10, <2>1 DEF Holding
  <2>2. CASE x # t
    <3>1. x \in DOMAIN r.byTxId /\ u.byTxId[x] = r.byTxId[x] /\ ~(i \in Used(r) /\ x = r.entries[i].tx)
      BY <1>6, <1>7, <2>2
    <3>2. u.byTxId[x] # i
      BY <1>14, <3>1
    <3> QED BY <1>9, <1>10, <1>14, <3>1, <3>2 DEF Holding
  <2> QED BY <2>1, <2>2
<1>16. u.byTxId \in UNION {[D -> RingSlots] : D \in SUBSET Txs}
  <2>1. DOMAIN u.byTxId \in SUBSET Txs
    BY <1>6, <1>7, <1>14
  <2>2. u.byTxId \in [DOMAIN u.byTxId -> RingSlots]
    BY <1>6, <1>15
  <2> QED BY <2>1, <2>2
<1>17. u \in Rings
  <2>1. u.bySender \in [Senders -> Seq(RingSlots)]
    BY <1>6, <1>12
  <2>2. u.byStateId \in [States -> Seq(RingSlots)]
    BY <1>6, <1>13
  <2> HIDE DEF Entries, Free
  <2> QED BY <1>6, <1>8, <1>9, <1>16, <2>1, <2>2 DEF Rings
<1>18. PICK more \in SUBSET Txs : more = {x \in RingTxs(u) : x \in w.again \/ (x = t /\ t \in RingTxs(r))}
  <2>1. RingTxs(u) \subseteq Txs
    BY <1>17, RingTypes DEF RingTxs
  <2> QED BY <2>1
<1>19. ASSUME NEW j \in Used(u), u.entries[j].tx \notin more
       PROVE  u.entries[j].tx \in DOMAIN u.byTxId /\ u.byTxId[u.entries[j].tx] = j
  <2>1. PICK x : x = u.entries[j].tx /\ x \in RingTxs(u)
    BY DEF RingTxs
  <2>2. CASE j = i
    BY <1>6, <1>9, <2>2
  <2>3. CASE j # i
    <3>1. j \in Used(r) /\ r.entries[j].tx = x
      BY <1>10, <1>11, <2>1, <2>3
    <3>2. x # t
      <4> SUFFICES ASSUME x = t PROVE FALSE
        OBVIOUS
      <4>1. t \in RingTxs(r)
        BY <3>1 DEF RingTxs
      <4> QED BY <1>18, <1>19, <2>1, <4>1
    <3>3. x \notin w.again
      BY <1>18, <1>19, <2>1
    <3>4. x \in DOMAIN r.byTxId /\ r.byTxId[x] = j
      BY <1>1, <3>1, <3>3 DEF Indexed
    <3>5. ~(i \in Used(r) /\ x = r.entries[i].tx)
      <4> SUFFICES ASSUME i \in Used(r), x = r.entries[i].tx PROVE FALSE
        OBVIOUS
      <4>1. r.byTxId[x] = i
        BY <1>1, <3>3 DEF Indexed
      <4> QED BY <2>3, <3>4, <4>1
    <3> QED BY <1>6, <1>7, <2>1, <3>2, <3>4, <3>5
  <2> QED BY <2>2, <2>3
<1>20. Indexed(u, more)
  <2>1. Used(u) = {x \in RingSlots : Age(u, x) < u.count}
    BY <1>8, <1>10
  <2> QED BY <1>12, <1>13, <1>15, <1>19, <2>1 DEF Indexed
<1>21. Entered(w, t, h) = [ring |-> u, again |-> more]
  BY <1>1, <1>2, <1>18 DEF Entered
<1> QED BY <1>17, <1>18, <1>20, <1>21 DEF GoodWs

\* What the ring hears of a block, and of the blocks of a step.
Hashes1 == {hash \in Seq(Seq(Txs)) : hash # <<>>}

LEMMA LastOf ==
    ASSUME NEW X, NEW q \in Seq(X), q # <<>>
    PROVE  Last(q) \in X /\ Len(q) \in Nat \ {0}
<1>1. PICK l \in Nat : l = Len(q)
  BY LenProperties
<1>2. l # 0
  BY <1>1, EmptySeq
<1>3. q[l] \in X
  BY <1>1, <1>2, ElementOfSeq
<1> QED BY <1>1, <1>2, <1>3 DEF Last

LEMMA BlockEnteredGood ==
    ASSUME NEW w \in GoodWs, NEW hash \in Hashes1
    PROVE  BlockEntered(w, hash) \in GoodWs
<1>1. Last(hash) \in Seq(Txs) /\ Len(hash) \in Nat
  <2>1. PICK X : X = Seq(Txs)
    OBVIOUS
  <2>2. hash \in Seq(X) /\ hash # <<>>
    BY <2>1 DEF Hashes1
  <2> QED BY <2>1, <2>2, LastOf
<1>2. PICK P : P = GoodWs
  OBVIOUS
<1>3. EntersStay(hash, P, Txs)
  BY <1>1, <1>2, EnteredGood DEF EntersStay
<1>4. PICK q \in Seq(Txs) : q = Last(hash)
  BY <1>1
<1>5. PICK r : EntersTrace(hash, P, Txs, w, q, r) /\ r[Len(q)] = BlockEntered(w, hash)
  BY <1>2, <1>3, <1>4, EntersLead
<1>6. Len(q) \in 0..Len(q)
  BY LenProperties
<1> QED BY <1>2, <1>5, <1>6 DEF EntersTrace

LEMMA BlocksEnteredGood ==
    ASSUME NEW w \in GoodWs, NEW q \in Seq(Hashes1)
    PROVE  FoldLeft(BlockEntered, w, q) \in GoodWs
<1>1. PICK P : P = GoodWs
  OBVIOUS
<1>2. RingsStay(P, Hashes1)
  BY <1>1, BlockEnteredGood DEF RingsStay
<1>3. PICK r : RingsTrace(P, Hashes1, w, q, r) /\ r[Len(q)] = FoldLeft(BlockEntered, w, q)
  BY <1>1, <1>2, RingsLead
<1>4. Len(q) \in 0..Len(q)
  BY LenProperties
<1> QED BY <1>1, <1>3, <1>4 DEF RingsTrace

\* Where two chains part.
LEMMA CommonIs ==
    ASSUME NEW X, NEW c \in Seq(X), NEW d \in Seq(X)
    PROVE  /\ Common(c, d) \in 0..Len(c) /\ Common(c, d) <= Len(d)
           /\ SubSeq(c, 1, Common(c, d)) = SubSeq(d, 1, Common(c, d))
           /\ \A n \in 0..Len(c) : n <= Len(d) /\ SubSeq(c, 1, n) = SubSeq(d, 1, n) => n <= Common(c, d)
<1>1. PICK l \in Nat, m \in Nat : l = Len(c) /\ m = Len(d)
  BY LenProperties
<1>2. PICK N : N = {n \in 0..l : n <= m /\ SubSeq(c, 1, n) = SubSeq(d, 1, n)}
  OBVIOUS
<1>3. 0 \in N
  <2>1. SubSeq(c, 1, 0) = <<>> /\ SubSeq(d, 1, 0) = <<>>
    BY SubSeqEmpty
  <2> QED BY <1>1, <1>2, <2>1
<1>4. IsFiniteSet(N)
  <2>1. IsFiniteSet(0..l) /\ N \in SUBSET (0..l)
    BY <1>2, FS_Interval
  <2> QED BY <2>1, FS_Subset
<1>5. \E n \in N : \A k \in N : k <= n
  <2>1. N \in SUBSET Nat /\ N # {}
    BY <1>2, <1>3
  <2> QED BY <1>4, <2>1, FiniteHasGreatest
<1>6. Top(N) \in N /\ \A k \in N : k <= Top(N)
  BY <1>5 DEF Top
<1>7. Common(c, d) = Top(N)
  BY <1>1, <1>2 DEF Common
<1> QED BY <1>1, <1>2, <1>6, <1>7

\* The ring of a step.
LEMMA FollowGood ==
    ASSUME NEW X, X = Seq(Txs), chain \in Seq(X), chain' \in Seq(X), [ring |-> ring, again |-> again] \in GoodWs, node' = node,
           Follow
    PROVE  [ring |-> ring', again |-> again'] \in GoodWs
<1>1. PICK fork \in {Common(chain, chain')}, new \in {chain'} :
        LET hashes == [i \in 1..Len(new) - fork |-> SubSeq(new, 1, fork + i)]
            entered == FoldLeft(BlockEntered, [ring |-> ring, again |-> again], hashes)
        IN  /\ ring' = IF "ring" \in node.with THEN entered.ring ELSE ring
            /\ again' = IF "ring" \in node.with THEN entered.again ELSE again
  BY DEF Follow
<1>9. PICK l \in Nat : l = Len(new)
  BY <1>1, LenProperties
<1>2. PICK f \in 0..l : f = fork
  <2>1. Common(chain, chain') \in 0..Len(chain) /\ Common(chain, chain') <= Len(chain') /\ Len(chain) \in Nat
    BY CommonIs, LenProperties
  <2> QED BY <1>1, <1>9, <2>1
<1>3. PICK hashes : hashes = [i \in 1..Len(new) - fork |-> SubSeq(new, 1, fork + i)]
  OBVIOUS
<1>4. \A i \in 1..l - f : hashes[i] \in Hashes1
  <2> SUFFICES ASSUME NEW i \in 1..l - f PROVE hashes[i] \in Hashes1
    OBVIOUS
  <2>1. hashes[i] = SubSeq(new, 1, f + i) /\ f + i \in 1..l /\ 1 <= f + i
    BY <1>2, <1>3, <1>9
  <2>2. \A k \in 1..f + i : new[k] \in X
    <3>1. new \in Seq(X)
      BY <1>1
    <3>2. \A k \in 1..l : new[k] \in X
      BY <1>9, <3>1, ElementOfSeq
    <3> QED BY <2>1, <3>2
  <2>3. PICK r : r = SubSeq(new, 1, f + i)
    OBVIOUS
  <2>4. r \in Seq(X) /\ Len(r) = f + i
    <3>1. PICK e \in 1..l : e = f + i
      BY <2>1
    <3>2. SubSeq(new, 1, e) \in Seq(X) /\ Len(SubSeq(new, 1, e)) = IF 1 <= e THEN e - 1 + 1 ELSE 0
      BY <2>2, <3>1, SubSeqProperties
    <3> QED BY <2>3, <3>1, <3>2
  <2>5. r # <<>>
    <3>1. Len(<<>>) = 0 /\ Len(r) # 0
      BY <2>1, <2>4
    <3> QED BY <3>1
  <2> QED BY <2>1, <2>3, <2>4, <2>5 DEF Hashes1
<1>5. hashes \in Seq(Hashes1)
  <2>1. l - f \in Nat /\ hashes = [i \in 1..l - f |-> hashes[i]]
    BY <1>2, <1>3, <1>9
  <2>2. PICK n \in Nat : n = l - f
    BY <2>1
  <2>3. hashes \in [1..n -> Hashes1]
    BY <1>4, <2>1, <2>2
  <2> QED BY <2>3, SeqDef
<1>6. PICK w \in GoodWs : w = FoldLeft(BlockEntered, [ring |-> ring, again |-> again], hashes)
  BY <1>5, BlocksEnteredGood
<1>7. ring' = (IF "ring" \in node.with THEN w.ring ELSE ring) /\ again' = (IF "ring" \in node.with THEN w.again ELSE again)
  BY <1>1, <1>3, <1>6
<1>8. w = [ring |-> w.ring, again |-> w.again]
  BY DEF GoodWs
<1> QED BY <1>7, <1>8

LEMMA NoRingGood == [ring |-> NoRing, again |-> {}] \in GoodWs
<1>1. PICK n \in Nat \ {0} : n = RingSize /\ RingSlots = 0..n - 1
  BY SlotTypes DEF RingSlots
<1>2. NoRing \in Rings
  <2>1. [i \in RingSlots |-> Free] \in [RingSlots -> {Free} \cup Entries]
    OBVIOUS
  <2>2. [t \in {} |-> 0] \in [{} -> RingSlots] /\ {} \in SUBSET Txs
    OBVIOUS
  <2>3. 0 \in RingSlots /\ 0 \in 0..RingSize
    BY <1>1
  <2>4. [t \in {} |-> 0] \in UNION {[D -> RingSlots] : D \in SUBSET Txs}
    BY <2>2
  <2>5. [s \in Senders |-> <<>>] \in [Senders -> Seq(RingSlots)] /\ [s \in States |-> <<>>] \in [States -> Seq(RingSlots)]
    OBVIOUS
  <2> QED BY <2>1, <2>3, <2>4, <2>5 DEF NoRing, Rings
<1>3. Used(NoRing) = {}
  BY DEF Used, NoRing
<1>4. \A X : Holding(NoRing, X) = {}
  BY <1>3 DEF Holding
<1>5. \A i \in RingSlots : ~(Age(NoRing, i) < NoRing.count)
  BY <1>1 DEF Age, NoRing
<1>6. ListsNewest(NoRing, <<>>, {})
  BY FastPathAssumption DEF ListsNewest, ToSet
<1>7. Indexed(NoRing, {})
  <2>1. NoRing.bySender = [s \in Senders |-> <<>>] /\ NoRing.byStateId = [s \in States |-> <<>>] /\ DOMAIN NoRing.byTxId = {}
    BY DEF NoRing
  <2> QED BY <1>3, <1>4, <1>5, <1>6, <2>1 DEF Indexed
<1> QED BY <1>2, <1>7 DEF GoodWs

-----------------------------------------------------------------------------
(* What a preflight finds in the ring.                                       *)

RingOK == [ring |-> ring, again |-> again] \in GoodWs

LEMMA RingOKIs == RingOK => ring \in Rings /\ again \in SUBSET Txs /\ Indexed(ring, again)
<1> SUFFICES ASSUME RingOK PROVE ring \in Rings /\ again \in SUBSET Txs /\ Indexed(ring, again)
  OBVIOUS
<1>1. PICK w \in GoodWs : w = [ring |-> ring, again |-> again]
  BY DEF RingOK
<1>2. w \in [ring : Rings, again : SUBSET Txs] /\ Indexed(w.ring, w.again)
  BY DEF GoodWs
<1>3. w.ring = ring /\ w.again = again
  BY <1>1
<1> HIDE DEF Rings
<1> QED BY <1>2, <1>3

\* What a query of the states S may find, each transaction once.
TouchTxs(S) == {ring.entries[i].tx : i \in Touching(S)}
Finds(S) == {q \in Seq(Txs) : IsInjective(q) /\ ToSet(q) \subseteq TouchTxs(S)}

LEMMA TouchTypes ==
    ASSUME RingOK, NEW S
    PROVE  /\ Touching(S) \subseteq RingSlots /\ IsFiniteSet(Touching(S)) /\ Cardinality(Touching(S)) \in Nat
           /\ TouchTxs(S) \subseteq Txs /\ IsFiniteSet(TouchTxs(S)) /\ Cardinality(TouchTxs(S)) <= Cardinality(Touching(S))
           /\ Cardinality(TouchTxs(S)) \in Nat
<1>1. ring \in Rings
  BY RingOKIs
<1>2. Touching(S) \subseteq RingSlots /\ \A i \in Touching(S) : ring.entries[i].tx \in Txs
  BY <1>1, RingTypes DEF Touching, Holding
<1>3. IsFiniteSet(RingSlots)
  <2>1. RingSize - 1 \in Int
    BY SlotTypes
  <2> QED BY <2>1, FS_Interval DEF RingSlots
<1>4. IsFiniteSet(Touching(S)) /\ Cardinality(Touching(S)) \in Nat
  <2>1. Touching(S) \in SUBSET RingSlots
    BY <1>2
  <2> QED BY <1>3, <2>1, FS_Subset, FS_CardinalityType
<1>5. IsFiniteSet(TouchTxs(S)) /\ Cardinality(TouchTxs(S)) <= Cardinality(Touching(S))
  <2>1. PICK K : K = Touching(S)
    OBVIOUS
  <2>2. PICK f : f = [i \in K |-> ring.entries[i].tx]
    OBVIOUS
  <2>3. PICK T : T = {f[i] : i \in K}
    OBVIOUS
  <2>4. IsFiniteSet(T) /\ Cardinality(T) <= Cardinality(K)
    BY <1>4, <2>1, <2>3, ImageOf
  <2>5. T = TouchTxs(S)
    BY <2>1, <2>2, <2>3 DEF TouchTxs
  <2> QED BY <2>1, <2>4, <2>5
<1>6. TouchTxs(S) \subseteq Txs
  BY <1>2 DEF TouchTxs
<1> QED BY <1>2, <1>4, <1>5, <1>6, FS_CardinalityType

\* One slot is looked at.
LEMMA FoundGood ==
    ASSUME RingOK, NEW S, Cardinality(Touching(S)) <= QueryLimit, NEW q \in Finds(S), NEW i \in Touching(S)
    PROVE  /\ Found(q, i) \in Finds(S) /\ ToSet(q) \subseteq ToSet(Found(q, i))
           /\ ring.entries[i].tx \in ToSet(Found(q, i))
<1>1. PICK u : u = ring.entries[i].tx
  OBVIOUS
<1>2. q \in Seq(Txs) /\ IsInjective(q) /\ ToSet(q) \subseteq TouchTxs(S) /\ Len(q) \in Nat
  BY LenProperties DEF Finds
<1>3. u \in TouchTxs(S) /\ u \in Txs /\ TouchTxs(S) \subseteq Txs
  BY <1>1, TouchTypes DEF TouchTxs
<1>4. CASE u \in ToSet(q)
  <2>1. Found(q, i) = q
    BY <1>1, <1>4 DEF Found
  <2> QED BY <1>1, <1>4, <2>1
<1>5. CASE u \notin ToSet(q)
  <2>1. Len(q) < QueryLimit
    <3>1. IsFiniteSet(ToSet(q)) /\ Cardinality(ToSet(q)) = Len(q)
      BY <1>2, LengthOfList
    <3>2. Cardinality(ToSet(q) \cup {u}) = Len(q) + 1
      BY <1>5, <3>1, FS_AddElement
    <3>3. ToSet(q) \cup {u} \in SUBSET TouchTxs(S)
      BY <1>2, <1>3
    <3>4. Cardinality(ToSet(q) \cup {u}) <= Cardinality(TouchTxs(S))
      BY <3>3, TouchTypes, FS_Subset
    <3>5. Cardinality(TouchTxs(S)) <= Cardinality(Touching(S)) /\ Cardinality(TouchTxs(S)) \in Nat /\ Cardinality(Touching(S)) \in Nat
      BY TouchTypes
    <3>6. QueryLimit \in Nat
      BY FastPathAssumption
    <3> QED BY <1>2, <3>2, <3>4, <3>5, <3>6
  <2>2. PICK r : r = Append(q, u)
    OBVIOUS
  <2>3. Found(q, i) = r
    <3>1. ~(Len(q) >= QueryLimit)
      BY <1>2, <2>1, FastPathAssumption
    <3> QED BY <1>1, <1>5, <2>2, <3>1 DEF Found
  <2>4. r \in Seq(Txs) /\ ToSet(r) = ToSet(q) \cup {u} /\ IsInjective(r)
    BY <1>2, <1>3, <1>5, <2>2, WithOneMore
  <2> QED BY <1>1, <1>2, <1>3, <2>3, <2>4 DEF Finds
<1> QED BY <1>4, <1>5

\* The queue of one state is.
LEMMA FoundUnderGood ==
    ASSUME RingOK, NEW S \in SUBSET States, Cardinality(Touching(S)) <= QueryLimit, NEW q \in Finds(S), NEW s \in S
    PROVE  /\ FoundUnder(q, s) \in Finds(S) /\ ToSet(q) \subseteq ToSet(FoundUnder(q, s))
           /\ \A i \in ToSet(ring.byStateId[s]) : ring.entries[i].tx \in ToSet(FoundUnder(q, s))
<1>1. PICK P : P = Finds(S)
  OBVIOUS
<1>2. PICK T : T = Touching(S)
  OBVIOUS
<1>3. PICK p : p = ring.byStateId[s]
  OBVIOUS
<1>4. p \in Seq(T)
  <2>1. ring \in Rings /\ Indexed(ring, again) /\ s \in States
    BY RingOKIs
  <2>2. p \in Seq(RingSlots) /\ ListsNewest(ring, p, Holding(ring, ThatTouch({s})))
    BY <1>3, <2>1, RingTypes DEF Indexed
  <2>3. ToSet(p) \subseteq Holding(ring, ThatTouch({s}))
    BY <2>2 DEF ListsNewest
  <2>4. Holding(ring, ThatTouch({s})) \subseteq T
    BY <1>2 DEF Touching, Holding, ThatTouch
  <2>5. DOMAIN p = 1..Len(p) /\ Len(p) \in Nat /\ p = [k \in 1..Len(p) |-> p[k]]
    BY <2>2, LenProperties
  <2>6. \A k \in 1..Len(p) : p[k] \in T
    BY <2>3, <2>4, <2>5 DEF ToSet
  <2>7. PICK n \in Nat : n = Len(p)
    BY <2>5
  <2>8. p \in [1..n -> T]
    BY <2>5, <2>6, <2>7
  <2> QED BY <2>8, SeqDef
<1>5. FindsStay(P, T)
  BY <1>1, <1>2, FoundGood DEF FindsStay
<1>6. PICK r : FindsTrace(P, T, q, p, r) /\ r[Len(p)] = FoldLeft(Found, q, p)
  BY <1>1, <1>4, <1>5, FindsLead
<1>7. PICK l \in Nat : l = Len(p) /\ DOMAIN p = 1..l
  BY <1>4, LenProperties
<1>8. /\ r \in [0..l -> P] /\ r[0] = q
      /\ \A n \in 1..l : p[n] \in T /\ r[n - 1] \in P /\ r[n] = Found(r[n - 1], p[n])
  BY <1>6, <1>7 DEF FindsTrace
<1>9. FoundUnder(q, s) = r[l]
  BY <1>3, <1>6, <1>7 DEF FoundUnder
<1>10. \A n \in 1..l : ToSet(r[n - 1]) \subseteq ToSet(r[n]) /\ ring.entries[p[n]].tx \in ToSet(r[n])
  BY <1>1, <1>2, <1>8, FoundGood
<1>11. ASSUME NEW k \in 0..l, NEW x \in ToSet(r[k]) PROVE x \in ToSet(r[l])
  <2>1. PICK W : W = {e \in P : x \in ToSet(e)}
    OBVIOUS
  <2>2. r[k] \in W
    BY <1>8, <1>11, <2>1
  <2>3. \A n \in k + 1..l : r[n - 1] \in W => r[n] \in W
    <3> SUFFICES ASSUME NEW n \in k + 1..l, r[n - 1] \in W PROVE r[n] \in W
      OBVIOUS
    <3>1. n \in 1..l /\ n \in 0..l
      OBVIOUS
    <3> QED BY <1>8, <1>10, <2>1, <3>1
  <2>4. r[l] \in W
    <3>1. k \in Nat /\ k <= l
      OBVIOUS
    <3> QED BY <2>2, <2>3, <3>1, Persists
  <2> QED BY <2>1, <2>4
<1>12. r[l] \in P
  <2>1. l \in 0..l
    OBVIOUS
  <2> QED BY <1>8, <2>1
<1>13. ToSet(q) \subseteq ToSet(r[l])
  <2>1. 0 \in 0..l
    OBVIOUS
  <2> QED BY <1>8, <1>11, <2>1
<1>14. \A i \in ToSet(p) : ring.entries[i].tx \in ToSet(r[l])
  <2> SUFFICES ASSUME NEW i \in ToSet(p) PROVE ring.entries[i].tx \in ToSet(r[l])
    OBVIOUS
  <2>1. PICK k \in 1..l : p[k] = i
    BY <1>7 DEF ToSet
  <2>2. k \in 0..l
    OBVIOUS
  <2> QED BY <1>10, <1>11, <2>1, <2>2
<1> QED BY <1>1, <1>3, <1>9, <1>12, <1>13, <1>14

\* The queues of several states are.
LEMMA QueryFinds ==
    ASSUME RingOK, NEW S \in SUBSET States, Cardinality(Touching(S)) <= QueryLimit, NEW q \in Seq(S), NEW s \in ToSet(q),
           NEW i \in ToSet(ring.byStateId[s])
    PROVE  ring.entries[i].tx \in ToSet(GetByStates(q))
<1>1. PICK P : P = Finds(S)
  OBVIOUS
<1>2. QueriesStay(P, S)
  BY <1>1, FoundUnderGood DEF QueriesStay
<1>3. <<>> \in P
  BY <1>1 DEF Finds, ToSet, IsInjective
<1>4. PICK r : QueriesTrace(P, S, <<>>, q, r) /\ r[Len(q)] = FoldLeft(FoundUnder, <<>>, q)
  BY <1>2, <1>3, QueriesLead
<1>5. PICK l \in Nat : l = Len(q) /\ DOMAIN q = 1..l
  BY LenProperties
<1>6. /\ r \in [0..l -> P]
      /\ \A n \in 1..l : q[n] \in S /\ r[n - 1] \in P /\ r[n] = FoundUnder(r[n - 1], q[n])
  BY <1>4, <1>5 DEF QueriesTrace
<1>7. GetByStates(q) = r[l]
  BY <1>4, <1>5 DEF GetByStates
<1>8. \A n \in 1..l : /\ ToSet(r[n - 1]) \subseteq ToSet(r[n])
                      /\ \A j \in ToSet(ring.byStateId[q[n]]) : ring.entries[j].tx \in ToSet(r[n])
  BY <1>1, <1>6, FoundUnderGood
<1>9. PICK k \in 1..l : q[k] = s
  BY <1>5 DEF ToSet
<1>10. PICK u : u = ring.entries[i].tx
  OBVIOUS
<1>11. u \in ToSet(r[k])
  BY <1>8, <1>9, <1>10
<1>12. PICK W : W = {e \in P : u \in ToSet(e)}
  OBVIOUS
<1>13. r[k] \in W
  <2>1. k \in 0..l
    OBVIOUS
  <2> QED BY <1>6, <1>11, <1>12, <2>1
<1>14. \A n \in k + 1..l : r[n - 1] \in W => r[n] \in W
  <2> SUFFICES ASSUME NEW n \in k + 1..l, r[n - 1] \in W PROVE r[n] \in W
    OBVIOUS
  <2>1. n \in 1..l /\ n \in 0..l
    OBVIOUS
  <2> QED BY <1>6, <1>8, <1>12, <2>1
<1>15. r[l] \in W
  <2>1. k \in Nat /\ k <= l
    OBVIOUS
  <2> QED BY <1>13, <1>14, <2>1, Persists
<1> QED BY <1>7, <1>10, <1>12, <1>15

\* A slot is in the queue of its state, unless more than fit there touch it.
LEMMA QueueHolds ==
    ASSUME RingOK, NEW s \in States, Cardinality(Touching({s})) <= QueueDepth, NEW i \in Touching({s})
    PROVE  i \in ToSet(ring.byStateId[s])
<1> SUFFICES ASSUME i \notin ToSet(ring.byStateId[s]) PROVE FALSE
  OBVIOUS
<1>1. ring \in Rings /\ Indexed(ring, again)
  BY RingOKIs
<1>2. PICK p \in Seq(RingSlots) : p = ring.byStateId[s] /\ ListsNewest(ring, p, Touching({s}))
  BY <1>1, RingTypes DEF Indexed, Touching
<1>3. Len(p) = QueueDepth /\ ToSet(p) \subseteq Touching({s}) \ {i}
  BY <1>2 DEF ListsNewest
<1>4. IsInjective(p)
  <2>1. \A j, k \in DOMAIN p : j < k => Age(ring, p[j]) < Age(ring, p[k])
    BY <1>2 DEF ListsNewest
  <2>2. \A j \in DOMAIN p : Age(ring, p[j]) \in Int /\ j \in Int
    <3>1. \A j \in DOMAIN p : p[j] \in RingSlots /\ j \in Int
      BY LenProperties, ElementOfSeq
    <3>2. PICK h \in Int, n \in Int : h = ring.head /\ n = RingSize
      BY <1>1, RingTypes, SlotTypes
    <3>3. \A x \in RingSlots : x \in Int
      BY SlotTypes
    <3>4. \A x \in RingSlots : Age(ring, x) \in Int
      BY <3>2, <3>3 DEF Age
    <3> QED BY <3>1, <3>4
  <2> HIDE DEF Age
  <2>3. ASSUME NEW j \in DOMAIN p, NEW k \in DOMAIN p, p[j] = p[k], j # k PROVE FALSE
    <3>1. j < k \/ k < j
      BY <2>2, <2>3
    <3>2. Age(ring, p[j]) < Age(ring, p[j])
      BY <2>1, <2>3, <3>1
    <3> QED BY <2>2, <3>2
  <2> QED BY <2>3 DEF IsInjective
<1>5. IsFiniteSet(ToSet(p)) /\ Cardinality(ToSet(p)) = QueueDepth
  BY <1>3, <1>4, LengthOfList
<1>6. ToSet(p) \cup {i} \in SUBSET Touching({s}) /\ i \notin ToSet(p)
  BY <1>3
<1>7. Cardinality(ToSet(p) \cup {i}) = QueueDepth + 1
  BY <1>5, <1>6, FS_AddElement
<1>8. Cardinality(ToSet(p) \cup {i}) <= Cardinality(Touching({s})) /\ Cardinality(Touching({s})) \in Nat
  BY <1>6, TouchTypes, FS_Subset
<1>9. QueueDepth \in Nat
  BY FastPathAssumption
<1> QED BY <1>7, <1>8, <1>9

LEMMA RecentSeen ==
    ASSUME RingOK, node \in Nodes
    PROVE  RecentIsSeen
<1> SUFFICES ASSUME NEW t \in node.txs, NEW i \in Used(ring), NEW u, u = ring.entries[i].tx,
                    Sender[u] = Sender[t], Nonce[u] >= Nonce[t],
                    Cardinality(Touching(Touches[t])) <= QueryLimit,
                    NEW s \in Touches[t] \cap Touches[u], Cardinality(Touching({s})) <= QueueDepth,
                    PreflightOK(t)
             PROVE  FALSE
  BY DEF RecentIsSeen
<1>1. t \in Txs /\ Touches[t] \in SUBSET States /\ IsFiniteSet(Touches[t]) /\ Nonce[t] \in Nat
  BY NodeTypes, TxTypes
<1>2. PICK S \in SUBSET States : S = Touches[t]
  BY <1>1
<1>3. PICK q \in Seq(S) : q = SetToSeq(S) /\ ToSet(q) = S
  BY <1>1, <1>2, SetInSequence
<1>4. u \in Txs /\ Nonce[u] \in Nat
  BY RingOKIs, RingTypes, TxTypes
<1>5. i \in Touching({s})
  BY <1>4 DEF Touching, Holding, ThatTouch
<1>6. s \in S /\ s \in States
  BY <1>2
<1>7. i \in ToSet(ring.byStateId[s])
  BY <1>5, <1>6, QueueHolds
<1>8. u \in ToSet(GetByStates(q))
  <2>1. Cardinality(Touching(S)) <= QueryLimit
    BY <1>2
  <2>2. s \in ToSet(q)
    BY <1>3, <1>6
  <2>3. ring.entries[i].tx \in ToSet(GetByStates(q))
    BY <1>7, <2>1, <2>2, QueryFinds
  <2> QED BY <2>3
<1>9. Nonce[u] < Nonce[t]
  BY <1>2, <1>3, <1>8 DEF PreflightOK
<1> QED BY <1>1, <1>4, <1>9

-----------------------------------------------------------------------------
(* The node.                                                                 *)

\* The inductive invariant of the node.
FastIInv == PoolIInv /\ RingOK

LEMMA SeqOfSubset ==
    ASSUME NEW X, NEW Y, X \subseteq Y
    PROVE  Seq(X) \subseteq Seq(Y)
<1> SUFFICES ASSUME NEW q \in Seq(X) PROVE q \in Seq(Y)
  OBVIOUS
<1>1. PICK n \in Nat : n = Len(q) /\ q \in [1..n -> X]
  BY SeqDef, LenProperties
<1>2. q \in [1..n -> Y]
  BY <1>1
<1> QED BY <1>2, SeqDef

LEMMA ChainsOfTxs ==
    ASSUME node \in Nodes, NEW c \in Chains
    PROVE  c \in Seq(Seq(Txs))
<1>1. node.txs \subseteq Txs
  BY NodeTypes
<1>2. PICK X, Y : X = Seq(node.txs) /\ Y = Seq(Txs)
  OBVIOUS
<1>3. X \subseteq Y
  BY <1>1, <1>2, SeqOfSubset
<1>4. Seq(X) \subseteq Seq(Y)
  BY <1>3, SeqOfSubset
<1> QED BY <1>2, <1>4 DEF Chains

LEMMA FastStarts == FastInit => FastIInv
BY PoolStarts, NoRingGood DEF FastInit, FastIInv, RingOK

LEMMA FastSteps == FastIInv /\ [FastNext]_<<poolVars, fast>> => FastIInv'
<1> SUFFICES ASSUME FastIInv, [FastNext]_<<poolVars, fast>> PROVE FastIInv'
  OBVIOUS
<1>1. PoolIInv /\ RingOK
  BY DEF FastIInv
<1>2. CASE PoolNext /\ Follow
  <2>1. node' = node /\ PoolLeft
    BY <1>1, <1>2, PoolSteps
  <2>2. PoolIInv'
    BY <1>1, <2>1, PoolHolds
  <2>3. PICK X : X = Seq(Txs)
    OBVIOUS
  <2>4. chain \in Seq(X) /\ chain' \in Seq(X)
    BY <1>1, <2>1, <2>3, ChainsOfTxs DEF PoolIInv, PoolLeft
  <2>5. [ring |-> ring', again |-> again'] \in GoodWs
    BY <1>1, <1>2, <2>1, <2>3, <2>4, FollowGood DEF RingOK
  <2> QED BY <2>2, <2>5 DEF FastIInv, RingOK
<1>3. CASE UNCHANGED <<poolVars, ring, again>>
  <2>1. PoolIInv'
    <3>1. node' = node /\ PoolLeft
      BY <1>1, <1>3 DEF PoolIInv, PoolLeft, poolVars
    <3> QED BY <1>1, <3>1, PoolHolds
  <2>2. RingOK'
    BY <1>1, <1>3 DEF RingOK
  <2> QED BY <2>1, <2>2 DEF FastIInv
<1>4. ASSUME NEW t \in Txs, TrackPreflight(t) \/ Cleanup(t) PROVE UNCHANGED <<poolVars, ring, again>>
  BY <1>4 DEF TrackPreflight, Cleanup
<1>5. CASE UNCHANGED <<poolVars, fast>>
  BY <1>3, <1>5 DEF fast
<1> QED BY <1>2, <1>3, <1>4, <1>5 DEF FastNext

LEMMA FastHolds == FastSpec => []FastIInv
<1>1. FastInit => FastIInv
  BY FastStarts
<1>2. FastIInv /\ [FastNext]_<<poolVars, fast>> => FastIInv'
  BY FastSteps
<1> QED BY <1>1, <1>2, PTL DEF FastSpec

LEMMA IndexesHold == PoolIInv => IndexesAgree /\ NextNonceIsNew
<1> SUFFICES ASSUME PoolIInv PROVE IndexesAgree /\ NextNonceIsNew
  OBVIOUS
<1>1. node \in Nodes /\ chain \in Chains /\ PoolOK(pool, bySender) /\ pendingIndex \in GoodIxs /\ node.txs \subseteq Txs
  BY NodeTypes DEF PoolIInv
<1>2. IxOK(pendingIndex)
  BY <1>1, IxTypes
<1>3. PoolTypeOK
  <2>1. ChainTxs(chain) \subseteq Txs /\ pool \subseteq Txs /\ bySender \in [Senders -> SUBSET Txs]
    BY <1>1, ChainTypes DEF PoolOK
  <2>2. /\ pendingIndex.pending \subseteq Txs
        /\ DOMAIN pendingIndex.slot \subseteq Slots /\ \A x \in DOMAIN pendingIndex.slot : pendingIndex.slot[x] \in Txs
        /\ pendingIndex.next \in [Senders -> Nat]
    BY <1>1, IxTypes
  <2>3. \A s \in States : ToSet(pendingIndex.byState[s]) \subseteq Txs
    BY <1>2, <2>2 DEF IxOK, ListOK
  <2>4. ToSet(orphans) \subseteq Txs /\ Len(orphans) <= MaxOrphans
    BY LenProperties, ElementOfSeq DEF PoolIInv, ToSet
  <2> QED BY <2>1, <2>2, <2>3, <2>4 DEF PoolTypeOK
<1>4. PoolWithinLimits
  BY <1>1 DEF PoolWithinLimits, PoolOK
<1>5. IndexAgrees
  BY <1>2 DEF IndexAgrees, IxOK, ListOK
<1>6. NextNonceIsNew
  BY DEF NextNonceIsNew, PoolIInv, NoncesAreNew
<1> QED BY <1>3, <1>4, <1>5, <1>6 DEF IndexesAgree

LEMMA ConflictsSeen == PoolIInv => ConflictsAreSeen
<1> SUFFICES ASSUME PoolIInv, Roomy, NEW t \in node.txs, Check(pendingIndex, t), NEW p \in pendingIndex.pending,
                    NEW s \in DOMAIN Expects[t] \cap DOMAIN Expects[p] \cap Touches[p]
             PROVE  Expects[t][s] # Expects[p][s]
  BY DEF ConflictsAreSeen, Roomy
<1>1. pendingIndex \in GoodIxs /\ IxOK(pendingIndex) /\ t \in Txs /\ s \in States
  BY IxTypes, NodeTypes, TxTypes DEF PoolIInv
<1>2. p \in ToSet(pendingIndex.byState[s])
  BY <1>1 DEF IxOK
<1>3. pendingIndex.byState[s] \in Seq(Txs)
  BY <1>1, IxTypes
<1>4. PICK k \in 1..Len(pendingIndex.byState[s]) : pendingIndex.byState[s][k] = p
  BY <1>2, <1>3, LenProperties DEF ToSet
<1> QED BY <1>4 DEF Check, Version

\* The mempool, its index by sender, the pending index and the ring agree at every
\* time (MempoolStore.add, PendingIndex.onAdmit, MempoolReconciler, RecentTxRing.push).
THEOREM NodeIndexesAlwaysAgree == FastSpec => []NodeIndexesAgree
<1>1. FastIInv => NodeIndexesAgree
  <2>1. RingOK => RingIsIndexed
    BY RingOKIs DEF RingIsIndexed
  <2> QED BY <2>1, IndexesHold DEF FastIInv, NodeIndexesAgree
<1> QED BY <1>1, FastHolds, PTL

\* A preflight overlooks no conflict with a pending transaction, no nonce the chain
\* has, and no later transaction of its sender that the ring still lists
\* (PendingIndex.check, PreflightService.check).
THEOREM PreflightAlwaysForesees == FastSpec => []PreflightForesees
<1>1. FastIInv => PreflightForesees
  <2>1. PoolIInv => node \in Nodes
    BY DEF PoolIInv
  <2> QED BY <2>1, IndexesHold, ConflictsSeen, RecentSeen DEF FastIInv, PreflightForesees
<1> QED BY <1>1, FastHolds, PTL

-----------------------------------------------------------------------------
(* The chain holds every transaction once; the chain a step leaves.          *)

Upto(c, n) == SubSeq(c, 1, n)

\* Every block of c brings transactions that were not there, with nonces that its
\* senders have reached with it.
Once(c) ==
    \A i \in 1..Len(c) : \A t \in TxsOf(c[i]) :
        t \notin ChainTxs(Upto(c, i - 1)) /\ Nonce[t] < NextOnChain(Upto(c, i), Sender[t])

LEMMA UptoIs ==
    ASSUME node \in Nodes, NEW c \in Chains, NEW n \in 0..Len(c)
    PROVE  /\ Upto(c, n) \in Chains /\ Len(Upto(c, n)) = n
           /\ \A i \in 1..n : Upto(c, n)[i] = c[i]
           /\ ChainTxs(Upto(c, n)) = UNION {TxsOf(c[i]) : i \in 1..n}
<1>1. PICK l \in Nat : l = Len(c)
  BY ChainTypes
<1>2. l - n \in 0..Len(c) /\ l - (l - n) = n
  BY <1>1
<1>3. PICK d \in 0..Len(c) : d = l - n /\ Len(c) - d = n
  BY <1>1, <1>2
<1>4. PICK r \in Chains : r = Upto(c, n) /\ Len(r) = n /\ \A i \in 1..n : r[i] = c[i]
  BY <1>3, LessOnChain DEF Upto
<1>5. DOMAIN r = 1..n
  BY <1>4, ChainTypes
<1>6. ChainTxs(r) = UNION {TxsOf(c[i]) : i \in 1..n}
  BY <1>4, <1>5 DEF ChainTxs
<1> QED BY <1>4, <1>6

\* A chain up to a block of a longer one.
LEMMA UptoOfLonger ==
    ASSUME node \in Nodes, NEW c \in Chains, NEW d \in Chains, NEW n \in 0..Len(c), n <= Len(d), \A i \in 1..n : c[i] = d[i]
    PROVE  Upto(c, n) = Upto(d, n)
<1>1. n \in 0..Len(d)
  BY ChainTypes
<1>2. PICK r, s : r = Upto(c, n) /\ s = Upto(d, n)
  OBVIOUS
<1>3. r \in Chains /\ s \in Chains /\ Len(r) = n /\ Len(s) = n /\ \A i \in 1..n : r[i] = s[i]
  BY <1>1, <1>2, UptoIs
<1>4. PICK X : X = Seq(node.txs)
  OBVIOUS
<1>5. r \in Seq(X) /\ s \in Seq(X) /\ Len(r) = Len(s) /\ \A i \in 1..Len(r) : r[i] = s[i]
  BY <1>3, <1>4 DEF Chains
<1>6. r = s
  BY <1>5, SeqEqual
<1> QED BY <1>2, <1>6

LEMMA UptoAll ==
    ASSUME node \in Nodes, NEW c \in Chains
    PROVE  Upto(c, Len(c)) = c
<1>1. PICK l \in Nat : l = Len(c)
  BY ChainTypes
<1>2. PICK X : X = Seq(node.txs)
  OBVIOUS
<1>3. PICK r : r = Upto(c, l)
  OBVIOUS
<1>4. r \in Seq(X) /\ c \in Seq(X) /\ Len(r) = Len(c) /\ \A i \in 1..Len(r) : r[i] = c[i]
  <2>1. l \in 0..Len(c)
    BY <1>1
  <2> QED BY <1>1, <1>2, <1>3, <2>1, UptoIs DEF Chains
<1>5. r = c
  BY <1>4, SeqEqual
<1> QED BY <1>1, <1>3, <1>5

\* The nonces of a chain's transactions have been reached.
LEMMA NoncesReached ==
    ASSUME node \in Nodes, NEW c \in Chains, Once(c), NEW t \in ChainTxs(c)
    PROVE  Nonce[t] < NextOnChain(c, Sender[t])
<1>1. PICK l \in Nat : l = Len(c) /\ DOMAIN c = 1..l
  BY ChainTypes
<1>2. PICK i \in 1..l : t \in TxsOf(c[i])
  BY <1>1 DEF ChainTxs
<1>3. Nonce[t] < NextOnChain(Upto(c, i), Sender[t])
  BY <1>1, <1>2 DEF Once
<1>4. PICK d \in 0..Len(c) : d = l - i /\ Upto(c, i) = SubSeq(c, 1, Len(c) - d)
  <2>1. l - i \in 0..Len(c) /\ Len(c) - (l - i) = i
    BY <1>1
  <2> QED BY <2>1 DEF Upto
<1>5. NextOnChain(Upto(c, i), Sender[t]) <= NextOnChain(c, Sender[t])
  BY <1>4, LessOnChain
<1>6. i \in 0..Len(c)
  BY <1>1
<1>7. NextOnChain(Upto(c, i), Sender[t]) \in Nat /\ NextOnChain(c, Sender[t]) \in Nat
  BY <1>6, UptoIs, ChainTypes
<1>8. Nonce[t] \in Nat
  BY ChainTypes, NodeTypes, TxTypes
<1> HIDE DEF NextOnChain
<1> QED BY <1>3, <1>5, <1>7, <1>8

LEMMA OnceLess ==
    ASSUME node \in Nodes, NEW c \in Chains, Once(c), NEW n \in 0..Len(c)
    PROVE  Once(Upto(c, n))
<1>1. PICK l \in Nat : l = Len(c) /\ n \in 0..l
  BY ChainTypes
<1>2. PICK r \in Chains : r = Upto(c, n) /\ Len(r) = n /\ \A i \in 1..n : r[i] = c[i]
  BY UptoIs
<1>3. \A i \in 0..n : Upto(r, i) = Upto(c, i)
  <2> SUFFICES ASSUME NEW i \in 0..n PROVE Upto(r, i) = Upto(c, i)
    OBVIOUS
  <2>1. i \in 0..Len(r) /\ i <= Len(c) /\ \A k \in 1..i : r[k] = c[k]
    BY <1>1, <1>2
  <2> QED BY <2>1, UptoOfLonger
<1>4. \A i \in 1..n : i \in 1..Len(c) /\ i - 1 \in 0..n /\ i \in 0..n
  BY <1>1
<1>5. Once(r)
  <2> SUFFICES ASSUME NEW i \in 1..n, NEW t \in TxsOf(r[i])
               PROVE  t \notin ChainTxs(Upto(r, i - 1)) /\ Nonce[t] < NextOnChain(Upto(r, i), Sender[t])
    BY <1>2 DEF Once
  <2>1. r[i] = c[i] /\ Upto(r, i - 1) = Upto(c, i - 1) /\ Upto(r, i) = Upto(c, i)
    BY <1>2, <1>3, <1>4
  <2>2. i \in 1..Len(c) /\ t \in TxsOf(c[i])
    BY <1>4, <2>1
  <2>3. t \notin ChainTxs(Upto(c, i - 1)) /\ Nonce[t] < NextOnChain(Upto(c, i), Sender[t])
    BY <2>2 DEF Once
  <2> HIDE DEF NextOnChain, ChainTxs
  <2> QED BY <2>1, <2>3
<1> QED BY <1>2, <1>5

\* A new block brings other transactions, each with a nonce of its own.
LEMMA NewBlockIsNew ==
    ASSUME node \in Nodes, NEW c \in Chains, Once(c), NEW b \in BlocksAfter(c), NEW t \in TxsOf(b)
    PROVE  t \notin ChainTxs(c) /\ Nonce[t] < NextOnChain(Append(c, b), Sender[t])
<1>1. PICK l \in Nat : l = Len(b) /\ DOMAIN b = 1..l /\ b \in Seq(node.txs)
  BY BlocksFit, LenProperties
<1>2. PICK i \in 1..l : b[i] = t
  BY <1>1 DEF TxsOf, ToSet
<1>3. PICK s \in Senders : s = Sender[t]
  BY <1>1, BlockTypes, NodeTypes, TxTypes
<1>4. PICK n \in Nat : n = NextOnChain(c, s) /\ n = Cardinality(OnChainOf(c, s)) /\ IsFiniteSet(OnChainOf(c, s))
  BY ChainTypes
<1>5. PICK K : K = {j \in 1..l : Sender[b[j]] = s /\ j <= i}
  OBVIOUS
<1>6. K \in SUBSET (1..l) /\ K \in SUBSET Nat /\ IsFiniteSet(1..l) /\ IsFiniteSet(K) /\ i \in K
  <2>1. K \in SUBSET (1..l) /\ K \in SUBSET Nat /\ i \in K
    BY <1>2, <1>3, <1>5
  <2>2. IsFiniteSet(1..l)
    BY FS_Interval
  <2>3. IsFiniteSet(K)
    BY <2>1, <2>2, FS_Subset
  <2> QED BY <2>1, <2>2, <2>3
<1>7. \A j \in K : {k \in 1..(j-1) : Sender[b[k]] = Sender[b[j]]} = Before(K, j)
  <2> SUFFICES ASSUME NEW j \in K PROVE {k \in 1..(j-1) : Sender[b[k]] = Sender[b[j]]} = Before(K, j)
    OBVIOUS
  <2>1. j \in 1..l /\ Sender[b[j]] = s /\ j <= i
    BY <1>5
  <2>2. \A k \in 1..(j-1) : k \in 1..l /\ k <= i /\ k < j
    BY <2>1
  <2>3. \A k \in K : k < j => k \in 1..(j-1)
    BY <1>5, <2>1
  <2> QED BY <1>5, <2>1, <2>2, <2>3 DEF Before
<1>8. \A j \in K : Nonce[b[j]] = n + Cardinality(Before(K, j))
  <2> SUFFICES ASSUME NEW j \in K PROVE Nonce[b[j]] = n + Cardinality(Before(K, j))
    OBVIOUS
  <2>1. j \in 1..Len(b) /\ Sender[b[j]] = s
    BY <1>1, <1>5
  <2>2. Nonce[b[j]] = NextOnChain(c, Sender[b[j]]) + Cardinality({k \in 1..(j-1) : Sender[b[k]] = Sender[b[j]]})
    BY <2>1, BlocksFit
  <2> QED BY <1>4, <1>7, <2>1, <2>2
<1>9. /\ Cardinality(K) \in Nat
      /\ \A j \in K : Cardinality(Before(K, j)) \in 0..Cardinality(K) - 1
      /\ \A j, k \in K : j < k => Cardinality(Before(K, j)) < Cardinality(Before(K, k))
  BY <1>6, RankOfElements
<1>10. t \notin ChainTxs(c)
  <2> SUFFICES ASSUME t \in ChainTxs(c) PROVE FALSE
    OBVIOUS
  <2>1. Nonce[t] < n
    BY <1>3, <1>4, NoncesReached
  <2>2. Nonce[t] = n + Cardinality(Before(K, i)) /\ Cardinality(Before(K, i)) \in 0..Cardinality(K) - 1
    BY <1>2, <1>6, <1>8, <1>9
  <2> QED BY <1>4, <1>9, <2>1, <2>2
<1>11. PICK own : own = {u \in TxsOf(b) : Sender[u] = s}
  OBVIOUS
<1>12. IsFiniteSet(own)
  <2>1. IsFiniteSet(TxsOf(b)) /\ own \in SUBSET TxsOf(b)
    BY <1>1, <1>11, BlockTypes
  <2> QED BY <2>1, FS_Subset
<1>13. Cardinality(K) <= Cardinality(own)
  <2>1. PICK f : f = [j \in K |-> b[j]]
    OBVIOUS
  <2>2. f \in [K -> own]
    <3>1. \A j \in K : b[j] \in TxsOf(b) /\ Sender[b[j]] = s
      BY <1>1, <1>5 DEF TxsOf, ToSet
    <3> QED BY <1>11, <2>1, <3>1
  <2>3. \A j, k \in K : f[j] = f[k] => j = k
    <3> SUFFICES ASSUME NEW j \in K, NEW k \in K, b[j] = b[k], j # k PROVE FALSE
      BY <2>1
    <3>1. Cardinality(Before(K, j)) = Cardinality(Before(K, k))
      <4>1. PICK x, y : x = Cardinality(Before(K, j)) /\ y = Cardinality(Before(K, k))
        OBVIOUS
      <4>2. x \in Int /\ y \in Int
        BY <1>9, <4>1
      <4>3. n + x = n + y
        BY <1>8, <4>1
      <4> QED BY <1>4, <4>1, <4>2, <4>3
    <3>2. j < k \/ k < j
      BY <1>6
    <3>3. Cardinality(Before(K, j)) \in Int /\ Cardinality(Before(K, k)) \in Int
      BY <1>9
    <3> QED BY <1>9, <3>1, <3>2, <3>3
  <2>4. f \in Injection(K, own)
    <3>1. \A x \in [K -> own] : (\A j, k \in K : x[j] = x[k] => j = k) => x \in Injection(K, own)
      BY DEF Injection, IsInjective
    <3> QED BY <2>2, <2>3, <3>1
  <2> QED BY <1>12, <2>4, FS_Injection
<1>14. PICK d \in Chains : d = Append(c, b) /\ OnChainOf(d, s) = OnChainOf(c, s) \cup own
  <2>1. PICK d \in Chains : d = Append(c, b) /\ ChainTxs(d) = ChainTxs(c) \cup TxsOf(b)
    BY <1>1, MoreOnChain
  <2> QED BY <1>11, <2>1 DEF OnChainOf
<1>15. ASSUME NEW u \in OnChainOf(c, s) \cap own PROVE FALSE
  <2>1. u \in ChainTxs(c) /\ Sender[u] = s /\ u \in TxsOf(b)
    BY <1>11 DEF OnChainOf
  <2>2. Nonce[u] < n
    BY <1>4, <2>1, NoncesReached
  <2>3. PICK j \in 1..l : b[j] = u
    <3>1. \E j \in DOMAIN b : b[j] = u
      BY <2>1, Zenon DEF TxsOf, ToSet
    <3>2. DOMAIN b = 1..l
      BY <1>1
    <3> QED BY ONLY <3>1, <3>2
  <2>4. Nonce[u] = n + Cardinality({k \in 1..(j-1) : Sender[b[k]] = Sender[b[j]]})
    BY <1>1, <1>4, <2>1, <2>3, BlocksFit, ZenonT(40)
  <2>5. Cardinality({k \in 1..(j-1) : Sender[b[k]] = Sender[b[j]]}) \in Nat
    <3>1. PICK D : D = {k \in 1..(j-1) : Sender[b[k]] = Sender[b[j]]}
      OBVIOUS
    <3>2. IsFiniteSet(1..(j-1))
      <4>1. 1 \in Int /\ j - 1 \in Int
        BY <2>3
      <4> QED BY <4>1, FS_Interval
    <3>3. D \in SUBSET (1..(j-1))
      BY <3>1
    <3>4. IsFiniteSet(D)
      BY <3>2, <3>3, FS_Subset
    <3> QED BY <3>1, <3>4, FS_CardinalityType
  <2> QED BY <1>4, <2>2, <2>4, <2>5
<1>16. Cardinality(OnChainOf(d, s)) = n + Cardinality(own)
  <2>1. OnChainOf(c, s) \cap own = {}
    BY <1>15
  <2>2. Cardinality(OnChainOf(c, s) \cup own) = n + Cardinality(own) - Cardinality(OnChainOf(c, s) \cap own)
    BY <1>4, <1>12, FS_Union
  <2>3. Cardinality(own) \in Nat /\ Cardinality({}) = 0
    BY <1>12, FS_CardinalityType, FS_EmptySet
  <2>4. PICK o \in Nat : o = Cardinality(own)
    BY <2>3
  <2>5. n + o - 0 = n + o
    BY <1>4, <2>4
  <2> QED BY <1>14, <2>1, <2>2, <2>3, <2>4, <2>5
<1>17. Nonce[t] < NextOnChain(d, s)
  <2>1. Nonce[t] = n + Cardinality(Before(K, i)) /\ Cardinality(Before(K, i)) \in 0..Cardinality(K) - 1
    BY <1>2, <1>6, <1>8, <1>9
  <2>2. NextOnChain(d, s) = n + Cardinality(own)
    BY <1>14, <1>16, ChainTypes
  <2>3. Cardinality(own) \in Nat
    BY <1>12, FS_CardinalityType
  <2> HIDE DEF NextOnChain
  <2> QED BY <1>4, <1>9, <1>13, <2>1, <2>2, <2>3
<1> QED BY <1>3, <1>10, <1>14, <1>17

LEMMA OnceMore ==
    ASSUME node \in Nodes, NEW c \in Chains, Once(c), NEW b \in BlocksAfter(c)
    PROVE  Once(Append(c, b))
<1>1. PICK l \in Nat : l = Len(c)
  BY ChainTypes
<1>2. PICK d \in Chains : d = Append(c, b) /\ Len(d) = l + 1 /\ (\A i \in 1..l : d[i] = c[i]) /\ d[l + 1] = b
  <2>1. b \in Seq(node.txs)
    BY BlocksFit
  <2>2. PICK X : X = Seq(node.txs)
    OBVIOUS
  <2>3. PICK d : d = Append(c, b)
    OBVIOUS
  <2>4. c \in Seq(X) /\ b \in X
    BY <2>1, <2>2 DEF Chains
  <2>5. Len(d) = Len(c) + 1 /\ (\A i \in 1..Len(c) : d[i] = c[i]) /\ d[Len(c) + 1] = b
    BY <2>3, <2>4, AppendProperties
  <2>6. d \in Chains
    BY <2>1, <2>3, MoreOnChain
  <2> QED BY <1>1, <2>3, <2>5, <2>6
<1>3. \A i \in 0..l : Upto(d, i) = Upto(c, i)
  <2> SUFFICES ASSUME NEW i \in 0..l PROVE Upto(d, i) = Upto(c, i)
    OBVIOUS
  <2>1. i \in 0..Len(d) /\ i <= Len(c) /\ \A k \in 1..i : d[k] = c[k]
    BY <1>1, <1>2
  <2> QED BY <2>1, UptoOfLonger
<1>4. Upto(d, l) = c /\ Upto(d, l + 1) = d
  <2>1. Upto(d, l) = Upto(c, l) /\ Upto(c, l) = c
    BY <1>1, <1>3, UptoAll
  <2> QED BY <1>2, <2>1, UptoAll
<1>5. Once(d)
  <2> SUFFICES ASSUME NEW i \in 1..l + 1, NEW t \in TxsOf(d[i])
               PROVE  t \notin ChainTxs(Upto(d, i - 1)) /\ Nonce[t] < NextOnChain(Upto(d, i), Sender[t])
    BY <1>2 DEF Once
  <2>1. CASE i \in 1..l
    <3>1. d[i] = c[i] /\ Upto(d, i - 1) = Upto(c, i - 1) /\ Upto(d, i) = Upto(c, i)
      <4>1. i \in 0..l /\ i - 1 \in 0..l
        BY <2>1
      <4> QED BY <1>2, <1>3, <2>1, <4>1
    <3>2. i \in 1..Len(c) /\ t \in TxsOf(c[i])
      BY <1>1, <2>1, <3>1
    <3>3. t \notin ChainTxs(Upto(c, i - 1)) /\ Nonce[t] < NextOnChain(Upto(c, i), Sender[t])
      BY <3>2 DEF Once
    <3> HIDE DEF NextOnChain, ChainTxs
    <3> QED BY <3>1, <3>3
  <2>2. CASE i = l + 1
    <3>1. d[i] = b /\ Upto(d, i - 1) = c /\ Upto(d, i) = d
      <4>1. i - 1 = l
        BY <2>2
      <4> QED BY <1>2, <1>4, <2>2, <4>1
    <3>2. t \notin ChainTxs(c) /\ Nonce[t] < NextOnChain(d, Sender[t])
      BY <1>2, <3>1, NewBlockIsNew
    <3> HIDE DEF NextOnChain, ChainTxs
    <3> QED BY <3>1, <3>2
  <2> QED BY <2>1, <2>2
<1> QED BY <1>2, <1>5

\* What a block and a reorg make of the chain: one or two blocks above its first n.
Grown(n, b, new) ==
    /\ n \in 0..Len(chain) /\ b \in BlocksAfter(Upto(chain, n)) /\ (n < Len(chain) => b # chain[n + 1])
    /\ \/ new = Append(Upto(chain, n), b)
       \/ \E c \in BlocksAfter(Append(Upto(chain, n), b)) : new = Append(Append(Upto(chain, n), b), c)

LEMMA NewChains ==
    ASSUME PoolIInv, PoolNext
    PROVE  chain' = chain \/ \E n, b : Grown(n, b, chain')
<1>1. node \in Nodes /\ chain \in Chains /\ pendingIndex \in GoodIxs
  BY DEF PoolIInv
<1>2. PICK l \in Nat : l = Len(chain)
  BY <1>1, ChainTypes
<1>3. ASSUME NEW b \in BlocksAfter(chain), Commit(b) PROVE Grown(l, b, chain')
  <2>1. chain' = Append(chain, b)
    BY <1>3 DEF Commit
  <2>2. Upto(chain, l) = chain
    BY <1>1, <1>2, UptoAll
  <2> QED BY <1>2, <1>3, <2>1, <2>2 DEF Grown
<1>4. ASSUME NEW d \in 1..l, NEW n, n = l - d
      PROVE  n \in 0..l /\ Upto(chain, n) = SubSeq(chain, 1, l - d) /\ n + 1 = l - d + 1 /\ Upto(chain, n) \in Chains
  <2>1. n \in 0..l /\ Upto(chain, n) = SubSeq(chain, 1, l - d) /\ n + 1 = l - d + 1
    BY <1>4 DEF Upto
  <2> QED BY <1>1, <1>2, <2>1, UptoIs
<1>5. ASSUME NEW d \in 1..l, NEW b \in BlocksAfter(SubSeq(chain, 1, l - d)) \ {chain[l - d + 1]}, Reorg(d, <<b>>)
      PROVE  Grown(l - d, b, chain')
  <2>1. PICK n : n = l - d
    OBVIOUS
  <2>2. n \in 0..l /\ Upto(chain, n) = SubSeq(chain, 1, l - d) /\ n + 1 = l - d + 1 /\ Upto(chain, n) \in Chains
    BY <1>4, <2>1
  <2>3. b \in BlocksAfter(Upto(chain, n)) /\ b # chain[n + 1] /\ b \in Seq(node.txs)
    BY <1>1, <2>2, BlocksFit
  <2>4. PICK news \in Chains : news = <<b>> /\ Len(news) = 1 /\ news[1] = b
    <3>1. PICK T : T = Seq(node.txs)
      OBVIOUS
    <3>2. b \in T
      BY <2>3, <3>1
    <3>3. <<b>> \in Seq(T)
      BY <3>2
    <3> QED BY <3>1, <3>3 DEF Chains
  <2>5. chain' = Upto(chain, n) \o news
    BY <1>2, <1>5, <2>2, <2>4 DEF Reorg
  <2>6. Upto(chain, n) \o news = Append(Upto(chain, n), b)
    BY <1>1, <2>2, <2>4, BlocksFold
  <2> QED BY <1>2, <2>1, <2>2, <2>3, <2>5, <2>6 DEF Grown
<1>6. ASSUME NEW d \in 1..l, NEW b \in BlocksAfter(SubSeq(chain, 1, l - d)) \ {chain[l - d + 1]},
             NEW c \in BlocksAfter(Append(SubSeq(chain, 1, l - d), b)), Reorg(d, <<b, c>>)
      PROVE  Grown(l - d, b, chain')
  <2>1. PICK n : n = l - d
    OBVIOUS
  <2>2. n \in 0..l /\ Upto(chain, n) = SubSeq(chain, 1, l - d) /\ n + 1 = l - d + 1 /\ Upto(chain, n) \in Chains
    BY <1>4, <2>1
  <2>3. b \in BlocksAfter(Upto(chain, n)) /\ b # chain[n + 1] /\ b \in Seq(node.txs)
    BY <1>1, <2>2, BlocksFit
  <2>4. c \in BlocksAfter(Append(Upto(chain, n), b)) /\ c \in Seq(node.txs)
    <3>1. Append(Upto(chain, n), b) \in Chains
      BY <1>1, <2>2, <2>3, MoreOnChain
    <3> QED BY <1>1, <2>2, <3>1, BlocksFit
  <2>5. PICK news \in Chains : news = <<b, c>> /\ Len(news) = 2 /\ news[1] = b /\ news[2] = c
    <3>1. PICK T : T = Seq(node.txs)
      OBVIOUS
    <3>2. b \in T /\ c \in T
      BY <2>3, <2>4, <3>1
    <3>3. <<b, c>> \in Seq(T)
      BY <3>2
    <3> QED BY <3>1, <3>3 DEF Chains
  <2>6. chain' = Upto(chain, n) \o news
    BY <1>2, <1>6, <2>2, <2>5 DEF Reorg
  <2>7. Upto(chain, n) \o news = Append(Append(Upto(chain, n), b), c)
    BY <1>1, <2>2, <2>5, BlocksFold
  <2> QED BY <1>2, <2>1, <2>2, <2>3, <2>4, <2>6, <2>7 DEF Grown
<1>7. ASSUME (\E t \in node.txs : Submit(t) \/ StoreOrphan(t)) \/ FullSync PROVE chain' = chain
  BY <1>7 DEF Submit, StoreOrphan, FullSync
<1>8. CASE \E b \in BlocksAfter(chain) : Commit(b)
  BY <1>3, <1>8
<1>9. CASE \E d \in 1..Len(chain) :
             \E b \in BlocksAfter(SubSeq(chain, 1, Len(chain) - d)) \ {chain[Len(chain) - d + 1]} :
                \/ Reorg(d, <<b>>)
                \/ \E c \in BlocksAfter(Append(SubSeq(chain, 1, Len(chain) - d), b)) : Reorg(d, <<b, c>>)
  BY <1>2, <1>5, <1>6, <1>9
<1> QED BY <1>7, <1>8, <1>9 DEF PoolNext

LEMMA GrownTypes ==
    ASSUME node \in Nodes, chain \in Chains, Once(chain), NEW n, NEW b, NEW new, Grown(n, b, new)
    PROVE  /\ Upto(chain, n) \in Chains /\ Once(Upto(chain, n)) /\ n \in Nat /\ n <= Len(chain)
           /\ Append(Upto(chain, n), b) \in Chains /\ Once(Append(Upto(chain, n), b))
           /\ new \in Chains /\ Once(new) /\ Len(new) > n /\ Upto(new, n) = Upto(chain, n) /\ new[n + 1] = b
           /\ Len(Upto(chain, n)) = n
           /\ b \in BlocksAfter(Upto(chain, n))
<1>1. n \in 0..Len(chain) /\ b \in BlocksAfter(Upto(chain, n)) /\ Len(chain) \in Nat
  BY ChainTypes DEF Grown
<1>2. PICK base \in Chains : base = Upto(chain, n) /\ Once(base) /\ Len(base) = n
  BY <1>1, UptoIs, OnceLess
<1>3. PICK m \in Chains : m = Append(base, b) /\ Once(m) /\ b \in BlocksAfter(base) /\ b \in Seq(node.txs)
  BY <1>1, <1>2, OnceMore, MoreOnChain, BlocksFit
<1>4. ASSUME NEW r \in Chains, NEW x \in Seq(node.txs)
      PROVE  /\ Len(Append(r, x)) = Len(r) + 1 /\ Append(r, x)[Len(r) + 1] = x
             /\ \A i \in 1..Len(r) : Append(r, x)[i] = r[i]
  <2>1. PICK T : T = Seq(node.txs)
    OBVIOUS
  <2>2. r \in Seq(T) /\ x \in T
    BY <1>4, <2>1 DEF Chains
  <2> QED BY <2>2, AppendProperties
<1>5. Len(m) = n + 1 /\ m[n + 1] = b /\ \A i \in 1..n : m[i] = base[i]
  BY <1>2, <1>3, <1>4
<1>6. new \in Chains /\ Once(new) /\ Len(new) > n /\ new[n + 1] = b /\ \A i \in 1..n : new[i] = base[i]
  <2>1. CASE new = m
    BY <1>1, <1>3, <1>5, <2>1
  <2>2. CASE \E c \in BlocksAfter(m) : new = Append(m, c)
    <3>1. PICK c \in BlocksAfter(m) : new = Append(m, c)
      BY <2>2
    <3>2. new \in Chains /\ Once(new) /\ c \in Seq(node.txs)
      BY <1>3, <3>1, OnceMore, MoreOnChain, BlocksFit
    <3>3. PICK k : k = Len(m)
      OBVIOUS
    <3>4. Len(new) = k + 1 /\ \A i \in 1..k : new[i] = m[i]
      BY <1>3, <1>4, <3>1, <3>2, <3>3
    <3>5. n + 1 \in 1..k /\ \A i \in 1..n : i \in 1..k
      BY <1>1, <1>5, <3>3
    <3> QED BY <1>1, <1>5, <3>2, <3>3, <3>4, <3>5
  <2> QED BY <1>2, <1>3, <2>1, <2>2 DEF Grown
<1>7. Upto(new, n) = base
  <2>1. \A i \in 1..n : new[i] = base[i]
    BY <1>6
  <2>2. n \in 0..Len(new) /\ n <= Len(base) /\ n = Len(base)
    BY <1>1, <1>2, <1>6, ChainTypes
  <2>3. Upto(new, n) = Upto(base, n)
    BY <1>2, <1>6, <2>1, <2>2, UptoOfLonger
  <2> QED BY <1>2, <2>2, <2>3, UptoAll
<1> QED BY <1>1, <1>2, <1>3, <1>6, <1>7

LEMMA GrownParts ==
    ASSUME node \in Nodes, chain \in Chains, Once(chain), NEW n, NEW b, NEW new, Grown(n, b, new)
    PROVE  /\ Common(chain, new) = n /\ new # chain
           /\ n < Len(chain) => ~ IsPrefix(chain, new)
<1>1. /\ new \in Chains /\ Len(new) > n /\ Upto(new, n) = Upto(chain, n) /\ new[n + 1] = b /\ n \in 0..Len(chain)
      /\ n < Len(chain) => b # chain[n + 1]
  BY GrownTypes DEF Grown
<1>2. PICK l \in Nat, m \in Nat : l = Len(chain) /\ m = Len(new)
  BY <1>1, ChainTypes
<1>3. n \in 0..l /\ n < m
  BY <1>1, <1>2
<1>4. ASSUME NEW k \in 0..l, k <= m, Upto(chain, k) = Upto(new, k), k > n PROVE FALSE
  <2>1. n + 1 \in 1..k /\ k \in 0..Len(chain) /\ k \in 0..Len(new) /\ n < l
    BY <1>2, <1>3, <1>4
  <2>2. Upto(chain, k)[n + 1] = chain[n + 1] /\ Upto(new, k)[n + 1] = new[n + 1]
    BY <1>1, <2>1, UptoIs
  <2> QED BY <1>1, <1>2, <1>4, <2>1, <2>2
<1>5. Common(chain, new) = n
  <2>1. PICK X : X = Seq(node.txs)
    OBVIOUS
  <2>2. chain \in Seq(X) /\ new \in Seq(X)
    BY <1>1, <2>1 DEF Chains
  <2>3. PICK k : k = Common(chain, new)
    OBVIOUS
  <2>4. /\ k \in 0..l /\ k <= m /\ Upto(chain, k) = Upto(new, k)
        /\ \A j \in 0..l : j <= m /\ Upto(chain, j) = Upto(new, j) => j <= k
    BY <1>2, <2>2, <2>3, CommonIs DEF Upto
  <2>5. n <= k
    BY <1>1, <1>3, <2>4
  <2>6. ~(k > n)
    BY <1>4, <2>4
  <2> QED BY <1>3, <2>3, <2>4, <2>5, <2>6
<1>6. new # chain
  <2> SUFFICES ASSUME new = chain PROVE FALSE
    OBVIOUS
  <2>1. l = m /\ n < l /\ b = chain[n + 1]
    BY <1>1, <1>2, <1>3
  <2> QED BY <1>1, <1>2, <2>1
<1>7. ASSUME n < l, IsPrefix(chain, new) PROVE FALSE
  <2>1. l <= m /\ \A i \in 1..l : chain[i] = new[i]
    BY <1>2, <1>7 DEF IsPrefix
  <2>2. n + 1 \in 1..l
    BY <1>3, <1>7
  <2> QED BY <1>1, <1>2, <1>7, <2>1, <2>2
<1> QED BY <1>2, <1>5, <1>6, <1>7

-----------------------------------------------------------------------------
(* What reorgs put back and blocks take out.                                 *)

\* u is in the store st, or has no place in it.
Spent(st, u) ==
    \/ u \in st.pool
    \/ Cardinality(st.pool) = MaxPool
    \/ Cardinality(st.by[Sender[u]]) = node.perSender

\* What putting back transactions of S makes of the store.
Gains(st, r, S, new) ==
    /\ st.pool \subseteq r.pool /\ r.pool \subseteq st.pool \cup (S \ new)
    /\ \A u \in node.txs : Spent(st, u) => Spent(r, u)
    /\ \A u \in (S \ new) \cap ToSet(orphans) : Spent(r, u)

LEMMA OneGains ==
    ASSUME node \in Nodes, NEW need \in [Senders -> Nat], NEW st \in GoodSts(need), NEW t \in node.txs, NEW new
    PROVE  Gains(st, Reinsert(st, t, new), {t}, new)
<1>1. PICK r \in GoodSts(need) : r = Reinsert(st, t, new)
  BY ReinsertGood
<1>2. PoolOK(st.pool, st.by) /\ PoolOK(r.pool, r.by)
  BY DEF GoodSts
<1>3. t \in Txs /\ Sender[t] \in Senders
  BY NodeTypes, TxTypes
<1>4. CASE t \in new \/ t \notin ToSet(orphans) \/ ~ AddOK(st.pool, st.by, t)
  <2>1. r = st
    BY <1>1, <1>4 DEF Reinsert
  <2>2. t \notin new /\ t \in ToSet(orphans) => Spent(st, t)
    <3> SUFFICES ASSUME ~ AddOK(st.pool, st.by, t) PROVE Spent(st, t)
      BY <1>4
    <3>1. Cardinality(st.pool) \in Nat /\ Cardinality(st.by[Sender[t]]) \in Nat
      BY <1>2, <1>3, OwnFinite
    <3>2. Cardinality(st.pool) <= MaxPool /\ Cardinality(st.by[Sender[t]]) <= node.perSender /\ MaxPool \in Nat /\ node.perSender \in Nat
      BY <1>2, <1>3, NodeTypes DEF PoolOK
    <3> QED BY <3>1, <3>2 DEF AddOK, Spent
  <2> QED BY <1>1, <2>1, <2>2 DEF Gains
<1>5. CASE ~(t \in new \/ t \notin ToSet(orphans) \/ ~ AddOK(st.pool, st.by, t))
  <2>1. r = [pool |-> st.pool \cup {t}, by |-> [st.by EXCEPT ![Sender[t]] = @ \cup {t}], ix |-> OnAdmit(st.ix, t)]
    BY <1>1, <1>5 DEF Reinsert
  <2>2. r.pool = st.pool \cup {t} /\ r.by = [st.by EXCEPT ![Sender[t]] = st.by[Sender[t]] \cup {t}]
    BY <2>1
  <2>3. ASSUME NEW u \in node.txs, Spent(st, u) PROVE Spent(r, u)
    <3>1. Sender[u] \in Senders
      BY NodeTypes, TxTypes
    <3>2. CASE u \in st.pool
      BY <2>2, <3>2 DEF Spent
    <3>3. CASE Cardinality(st.pool) = MaxPool
      <4>1. FALSE
        BY <1>5, <3>3, NodeTypes DEF AddOK
      <4> QED BY <4>1
    <3>4. CASE Cardinality(st.by[Sender[u]]) = node.perSender
      <4>1. Sender[u] # Sender[t]
        BY <1>5, <3>4, NodeTypes DEF AddOK
      <4>2. r.by[Sender[u]] = st.by[Sender[u]]
        BY <1>2, <2>2, <3>1, <4>1 DEF PoolOK
      <4> QED BY <3>4, <4>2 DEF Spent
    <3> QED BY <2>3, <3>2, <3>3, <3>4 DEF Spent
  <2> QED BY <1>1, <1>5, <2>2, <2>3 DEF Gains, Spent
<1> QED BY <1>4, <1>5

\* Gains add up.
LEMMA GainsLead ==
    ASSUME NEW l \in Nat, NEW r, NEW s, NEW new,
           \A n \in 1..l : s[n] \subseteq node.txs /\ Gains(r[n - 1], r[n], s[n], new)
    PROVE  Gains(r[0], r[l], UNION {s[n] : n \in 1..l}, new)
<1>1. PICK S : S = UNION {s[n] : n \in 1..l}
  OBVIOUS
<1>2. PICK R : R = {r[n] : n \in 0..l}
  OBVIOUS
<1>3. PICK W : W = {x \in R : r[0].pool \subseteq x.pool /\ x.pool \subseteq r[0].pool \cup (S \ new)}
  OBVIOUS
<1>4. \A n \in 0 + 1..l : n \in 1..l /\ n - 1 \in 0..l /\ n \in 0..l /\ r[n] \in R
  BY <1>2
<1>5. r[l] \in W
  <2>1. r[0] \in W
    BY <1>2, <1>3
  <2>2. ASSUME NEW n \in 0 + 1..l, r[n - 1] \in W PROVE r[n] \in W
    <3>1. s[n] \subseteq S /\ r[n] \in R /\ Gains(r[n - 1], r[n], s[n], new)
      BY <1>1, <1>4
    <3> QED BY <1>3, <2>2, <3>1 DEF Gains
  <2> QED BY <2>1, <2>2, Persists
<1>6. ASSUME NEW u \in node.txs, NEW k \in 0..l, Spent(r[k], u) PROVE Spent(r[l], u)
  <2>1. PICK V : V = {x \in R : Spent(x, u)}
    OBVIOUS
  <2>2. r[k] \in V
    BY <1>2, <1>6, <2>1
  <2>3. ASSUME NEW n \in k + 1..l, r[n - 1] \in V PROVE r[n] \in V
    <3>1. n \in 1..l /\ r[n] \in R
      BY <1>2
    <3>2. Spent(r[n - 1], u) /\ Gains(r[n - 1], r[n], s[n], new)
      BY <2>1, <2>3, <3>1
    <3> QED BY <2>1, <3>1, <3>2 DEF Gains
  <2>4. k \in Nat /\ k <= l
    OBVIOUS
  <2>5. r[l] \in V
    BY <2>2, <2>3, <2>4, Persists
  <2> QED BY <2>1, <2>5
<1>7. ASSUME NEW u \in (S \ new) \cap ToSet(orphans) PROVE Spent(r[l], u)
  <2>1. PICK n \in 1..l : u \in s[n]
    BY <1>1
  <2>2. Spent(r[n], u) /\ n \in 0..l /\ u \in node.txs
    BY <1>7, <2>1 DEF Gains
  <2> QED BY <1>6, <2>2
<1>8. 0 \in 0..l
  OBVIOUS
<1>9. \A u \in node.txs : Spent(r[0], u) => Spent(r[l], u)
  BY <1>6, <1>8
<1> QED BY <1>1, <1>3, <1>5, <1>7, <1>9 DEF Gains

LEMMA BlockGains ==
    ASSUME node \in Nodes, NEW need \in [Senders -> Nat], NEW st \in GoodSts(need), NEW b \in Seq(node.txs), NEW new
    PROVE  Gains(st, ReinsertAll(st, b, new), TxsOf(b), new)
<1>1. PICK P : P = GoodSts(need)
  OBVIOUS
<1>2. ReinsertsStay(new, P, node.txs)
  BY <1>1, ReinsertGood DEF ReinsertsStay
<1>3. PICK r : ReinsertsTrace(new, P, node.txs, st, b, r) /\ r[Len(b)] = ReinsertAll(st, b, new)
  BY <1>1, <1>2, ReinsertsLead
<1>4. PICK l \in Nat : l = Len(b) /\ DOMAIN b = 1..l
  BY LenProperties
<1>5. PICK s : s = [n \in 1..l |-> {b[n]}]
  OBVIOUS
<1>6. ASSUME NEW n \in 1..l PROVE s[n] \subseteq node.txs /\ Gains(r[n - 1], r[n], s[n], new)
  <2>1. b[n] \in node.txs /\ r[n - 1] \in P /\ r[n] = Reinsert(r[n - 1], b[n], new)
    BY <1>3, <1>4 DEF ReinsertsTrace
  <2>2. Gains(r[n - 1], r[n], {b[n]}, new)
    BY <1>1, <2>1, OneGains
  <2> QED BY <1>5, <2>1, <2>2
<1>7. Gains(r[0], r[l], UNION {s[n] : n \in 1..l}, new)
  BY <1>6, GainsLead
<1>8. UNION {s[n] : n \in 1..l} = TxsOf(b)
  <2>1. TxsOf(b) = {b[n] : n \in 1..l}
    BY <1>4 DEF TxsOf, ToSet
  <2> QED BY <1>5, <2>1
<1>9. r[0] = st
  BY <1>3 DEF ReinsertsTrace
<1> QED BY <1>3, <1>4, <1>7, <1>8, <1>9

LEMMA BlocksGain ==
    ASSUME node \in Nodes, NEW need \in [Senders -> Nat], NEW st \in GoodSts(need), NEW q \in Chains, NEW new
    PROVE  Gains(st, ReinsertBlocks(st, q, new), ChainTxs(q), new)
<1>1. PICK P : P = GoodSts(need)
  OBVIOUS
<1>2. PICK T : T = Seq(node.txs)
  OBVIOUS
<1>3. OrphansStay(new, P, T)
  BY <1>1, <1>2, ReinsertAllGood DEF OrphansStay
<1>4. st \in P /\ q \in Seq(T)
  BY <1>1, <1>2 DEF Chains
<1>5. PICK r : OrphansTrace(new, P, T, st, q, r) /\ r[Len(q)] = ReinsertBlocks(st, q, new)
  BY <1>3, <1>4, OrphansLead
<1>6. PICK l \in Nat : l = Len(q) /\ DOMAIN q = 1..l
  BY <1>4, LenProperties
<1>7. PICK s : s = [n \in 1..l |-> TxsOf(q[n])]
  OBVIOUS
<1>8. ASSUME NEW n \in 1..l PROVE s[n] \subseteq node.txs /\ Gains(r[n - 1], r[n], s[n], new)
  <2>1. q[n] \in T /\ r[n - 1] \in P /\ r[n] = ReinsertAll(r[n - 1], q[n], new)
    BY <1>5, <1>6 DEF OrphansTrace
  <2>2. Gains(r[n - 1], r[n], TxsOf(q[n]), new)
    BY <1>1, <1>2, <2>1, BlockGains
  <2>3. TxsOf(q[n]) \subseteq node.txs
    BY <1>2, <2>1, BlockTypes
  <2> QED BY <1>7, <2>2, <2>3
<1>9. Gains(r[0], r[l], UNION {s[n] : n \in 1..l}, new)
  BY <1>8, GainsLead
<1>10. UNION {s[n] : n \in 1..l} = ChainTxs(q)
  BY <1>6, <1>7 DEF ChainTxs
<1>11. r[0] = st
  BY <1>5 DEF OrphansTrace
<1> QED BY <1>5, <1>6, <1>9, <1>10, <1>11

LEMMA ChainsJoin ==
    ASSUME node \in Nodes, NEW c \in Chains, NEW q \in Chains
    PROVE  ChainTxs(c \o q) = ChainTxs(c) \cup ChainTxs(q)
<1>1. PICK T : T = Seq(node.txs)
  OBVIOUS
<1>2. c \in Seq(T) /\ q \in Seq(T)
  BY <1>1 DEF Chains
<1>3. PICK r \in Seq(T) : r = c \o q
  BY <1>2, ConcatProperties
<1>4. PICK m \in Nat, l \in Nat : m = Len(c) /\ l = Len(q) /\ DOMAIN c = 1..m /\ DOMAIN q = 1..l
  BY <1>2, LenProperties
<1>5. Len(r) = m + l /\ (\A i \in 1..m : r[i] = c[i]) /\ \A i \in m + 1..m + l : r[i] = q[i - m]
  BY <1>2, <1>3, <1>4, ConcatProperties
<1>6. DOMAIN r = 1..m + l
  BY <1>5, LenProperties
<1>7. ASSUME NEW t \in ChainTxs(r) PROVE t \in ChainTxs(c) \cup ChainTxs(q)
  <2>1. PICK i \in 1..m + l : t \in TxsOf(r[i])
    BY <1>6, <1>7 DEF ChainTxs
  <2>2. CASE i \in 1..m
    <3>1. t \in TxsOf(c[i])
      BY <1>5, <2>1, <2>2
    <3> QED BY <1>4, <2>2, <3>1 DEF ChainTxs
  <2>3. CASE i \in m + 1..m + l
    <3>1. t \in TxsOf(q[i - m]) /\ i - m \in 1..l
      BY <1>5, <2>1, <2>3
    <3> QED BY <1>4, <3>1 DEF ChainTxs
  <2>4. i \in 1..m \/ i \in m + 1..m + l
    OBVIOUS
  <2> QED BY <2>2, <2>3, <2>4
<1>8. ASSUME NEW t \in ChainTxs(c) PROVE t \in ChainTxs(r)
  <2>1. PICK i \in 1..m : t \in TxsOf(c[i])
    BY <1>4, <1>8 DEF ChainTxs
  <2>2. i \in 1..m + l /\ t \in TxsOf(r[i])
    BY <1>5, <2>1
  <2> QED BY <1>6, <2>2 DEF ChainTxs
<1>9. ASSUME NEW t \in ChainTxs(q) PROVE t \in ChainTxs(r)
  <2>1. PICK i \in 1..l : t \in TxsOf(q[i])
    BY <1>4, <1>9 DEF ChainTxs
  <2>2. PICK j : j = m + i
    OBVIOUS
  <2>3. j \in m + 1..m + l /\ j - m = i /\ j \in 1..m + l
    BY <2>2
  <2>4. t \in TxsOf(r[j])
    BY <1>5, <2>1, <2>3
  <2> QED BY <1>6, <2>3, <2>4 DEF ChainTxs
<1> QED BY <1>3, <1>7, <1>8, <1>9

NewestFirst(c, d, old) == old = [i \in 1..d |-> c[Len(c) - i + 1]]

\* The last d blocks, newest first: what they hold the blocks before them do not.
LEMMA LastBlocks ==
    ASSUME node \in Nodes, NEW c \in Chains, Once(c), NEW d \in 1..Len(c), NEW old \in Chains, NewestFirst(c, d, old)
    PROVE  /\ ChainTxs(c) = ChainTxs(SubSeq(c, 1, Len(c) - d)) \cup ChainTxs(old)
           /\ ChainTxs(SubSeq(c, 1, Len(c) - d)) \cap ChainTxs(old) = {}
<1>1. PICK l \in Nat : l = Len(c) /\ DOMAIN c = 1..l
  BY ChainTypes
<1>2. PICK n \in Nat : n = l - d /\ n \in 0..l /\ n + d = l
  <2>1. d \in 1..l
    BY <1>1
  <2>2. l - d \in Nat /\ l - d \in 0..l /\ (l - d) + d = l
    BY <2>1
  <2> QED BY <2>2
<1>3. PICK base : base = ChainTxs(Upto(c, n))
  OBVIOUS
<1>4. base = UNION {TxsOf(c[i]) : i \in 1..n}
  BY <1>1, <1>2, <1>3, UptoIs
<1> USE DEF NewestFirst
<1>5. DOMAIN old = 1..d
  OBVIOUS
<1>6. ASSUME NEW t PROVE t \in ChainTxs(old) <=> \E k \in n + 1..l : t \in TxsOf(c[k])
  <2>1. ASSUME NEW i \in 1..d, t \in TxsOf(old[i]) PROVE \E k \in n + 1..l : t \in TxsOf(c[k])
    <3>1. l - i + 1 \in n + 1..l /\ old[i] = c[l - i + 1]
      BY <1>1, <1>2
    <3> QED BY <2>1, <3>1
  <2>2. ASSUME NEW k \in n + 1..l, t \in TxsOf(c[k]) PROVE \E i \in 1..d : t \in TxsOf(old[i])
    <3>1. PICK i : i = l - k + 1
      OBVIOUS
    <3>2. i \in 1..d /\ l - i + 1 = k
      BY <1>1, <1>2, <3>1
    <3>3. old[i] = c[k]
      BY <1>1, <3>2
    <3> QED BY <2>2, <3>2, <3>3
  <2> QED BY <1>5, <2>1, <2>2 DEF ChainTxs
<1>7. ASSUME NEW t PROVE t \in ChainTxs(c) <=> t \in base \cup ChainTxs(old)
  <2>1. t \in ChainTxs(c) <=> \E k \in 1..l : t \in TxsOf(c[k])
    BY <1>1 DEF ChainTxs
  <2>2. \A k : k \in 1..l <=> k \in 1..n \/ k \in n + 1..l
    BY <1>2
  <2>3. t \in base <=> \E k \in 1..n : t \in TxsOf(c[k])
    BY <1>4
  <2> HIDE DEF ChainTxs
  <2> QED BY <1>6, <2>1, <2>2, <2>3
<1>8. ASSUME NEW t \in base, t \in ChainTxs(old) PROVE FALSE
  <2>1. PICK k \in n + 1..l : t \in TxsOf(c[k])
    BY <1>6, <1>8
  <2>2. k \in 1..l /\ k - 1 \in 0..l /\ n <= k - 1
    BY <1>2
  <2>3. t \notin ChainTxs(Upto(c, k - 1))
    BY <1>1, <2>1, <2>2 DEF Once
  <2>4. ChainTxs(Upto(c, k - 1)) = UNION {TxsOf(c[i]) : i \in 1..k - 1}
    BY <1>1, <2>2, UptoIs
  <2>5. PICK j \in 1..n : t \in TxsOf(c[j])
    BY <1>4, <1>8
  <2>6. j \in 1..k - 1
    BY <2>2
  <2> QED BY <2>3, <2>4, <2>5, <2>6
<1> QED BY <1>1, <1>2, <1>3, <1>7, <1>8 DEF Upto

LEMMA ReorgMoves ==
    ASSUME PoolIInv, Once(chain), NEW d \in 1..Len(chain), NEW news, Replaces(d, news), Reorg(d, news)
    PROVE  ReorgKeepsTransactions /\ LeavesForAReason
<1>1. node \in Nodes /\ chain \in Chains /\ news \in Chains
  BY DEF PoolIInv, Replaces
<1>2. PICK need, start, old : Restores(d, news, need, start, old)
  BY ReorgRestores
<1>3. PICK done : /\ done = ReinsertBlocks(start, old, ChainTxs(news))
                  /\ pool' = done.pool /\ bySender' = done.by /\ pendingIndex' = done.ix
  BY <1>2 DEF Restores
<1>4. Gains(start, done, ChainTxs(old), ChainTxs(news))
  BY <1>1, <1>2, <1>3, BlocksGain DEF Restores
<1>5. PICK N, O, B : N = ChainTxs(news) /\ O = ChainTxs(old) /\ B = ChainTxs(SubSeq(chain, 1, Len(chain) - d))
  OBVIOUS
<1>6. ChainTxs(chain) = B \cup O /\ B \cap O = {}
  <2>1. old \in Chains /\ NewestFirst(chain, d, old)
    BY <1>2 DEF Restores, NewestFirst
  <2>2. /\ ChainTxs(chain) = ChainTxs(SubSeq(chain, 1, Len(chain) - d)) \cup ChainTxs(old)
        /\ ChainTxs(SubSeq(chain, 1, Len(chain) - d)) \cap ChainTxs(old) = {}
    BY <1>1, <2>1, LastBlocks
  <2> QED BY <1>5, <2>2
<1>7. ChainTxs(chain') = B \cup N
  <2>1. SubSeq(chain, 1, Len(chain) - d) \in Chains
    BY <1>1, ChainTypes, LessOnChain
  <2> QED BY <1>1, <1>2, <1>5, <2>1, ChainsJoin DEF Restores
<1>8. pool \ N \subseteq pool' /\ pool' \subseteq (pool \ N) \cup (O \ N)
  BY <1>2, <1>3, <1>4, <1>5 DEF Gains, Restores
<1>9. ASSUME NEW t \in O \ N, t \in ToSet(orphans), t \notin pool'
      PROVE  Cardinality(pool') = MaxPool \/ Cardinality(bySender'[Sender[t]]) = node.perSender
  <2>1. Spent(done, t)
    BY <1>4, <1>5, <1>9 DEF Gains
  <2> QED BY <1>3, <1>9, <2>1 DEF Spent
<1>10. LeavesForAReason
  BY <1>7, <1>8 DEF LeavesForAReason
<1>11. ReorgKeepsTransactions
  <2>1. pool' \ pool \subseteq ChainTxs(chain) \ ChainTxs(chain')
    BY <1>6, <1>7, <1>8
  <2>2. pool \ pool' \subseteq ChainTxs(chain')
    BY <1>7, <1>8
  <2>3. ChainTxs(chain) \ ChainTxs(chain') \subseteq O \ N
    BY <1>6, <1>7
  <2> HIDE DEF ChainTxs
  <2> QED BY <1>9, <2>1, <2>2, <2>3 DEF ReorgKeepsTransactions
<1> QED BY <1>10, <1>11

LEMMA CommitMoves ==
    ASSUME PoolIInv, NEW b \in BlocksAfter(chain), Commit(b)
    PROVE  ReorgKeepsTransactions /\ LeavesForAReason
<1>1. node \in Nodes /\ chain \in Chains /\ b \in Seq(node.txs) /\ chain' = Append(chain, b)
  BY BlocksFit DEF PoolIInv, Commit
<1>2. PICK l, T : l \in Nat /\ l = Len(chain) /\ T = Seq(node.txs)
  BY <1>1, ChainTypes
<1>3. PICK c \in Chains : c = Append(chain, b) /\ ChainTxs(c) = ChainTxs(chain) \cup TxsOf(b)
  BY <1>1, MoreOnChain
<1>4. Len(c) = l + 1 /\ c[l + 1] = b /\ \A i \in 1..l : c[i] = chain[i]
  <2>1. chain \in Seq(T) /\ b \in T
    BY <1>1, <1>2 DEF Chains
  <2> QED BY <1>2, <1>3, <2>1, AppendProperties
<1>5. IsPrefix(chain, c)
  <2>1. l \in 0..Len(chain) /\ l <= Len(c)
    BY <1>2, <1>4
  <2>2. Upto(chain, l) = Upto(c, l)
    BY <1>1, <1>2, <1>4, <2>1, UptoOfLonger
  <2> QED BY <1>2, <2>1, <2>2 DEF IsPrefix, Upto
<1>6. ASSUME NEW t \in pool, t \notin pool'
      PROVE  \/ t \in ChainTxs(c)
             \/ \E i \in DOMAIN c : \E u \in TxsOf(c[i]) : \E s \in DOMAIN Expects[t] \cap Touches[u] : Expects[t][s] # u
  <2>1. t \in TxsOf(b) \cup Invalidated(pool \ TxsOf(b), b)
    BY <1>6 DEF Commit
  <2>2. CASE t \in TxsOf(b)
    BY <1>3, <2>2
  <2>3. CASE t \in Invalidated(pool \ TxsOf(b), b)
    <3>1. PICK s \in DOMAIN Expects[t] \cap Changed(b) : Expects[t][s] # Writer(b, s)
      BY <2>3 DEF Invalidated
    <3>2. PICK k \in Nat : k = Len(b) /\ DOMAIN b = 1..k
      BY <1>1, LenProperties
    <3>3. PICK I : I = {i \in 1..k : s \in Touches[b[i]]}
      OBVIOUS
    <3>4. \E i : i \in I
      <4>1. PICK u \in TxsOf(b) : s \in Touches[u]
        BY <3>1 DEF Changed
      <4>2. PICK i \in 1..k : b[i] = u
        BY <3>2, <4>1 DEF TxsOf, ToSet
      <4> QED BY <3>3, <4>1, <4>2
    <3>5. Top(I) \in I
      <4>1. I \in SUBSET Nat /\ I # {} /\ \A i \in I : i <= k
        BY <3>3, <3>4
      <4>2. \E m \in I : \A i \in I : i <= m
        BY <4>1, GreatestElement
      <4> QED BY <4>2 DEF Top
    <3>6. PICK u : u = b[Top(I)]
      OBVIOUS
    <3>7. u = Writer(b, s)
      BY <3>2, <3>3, <3>6 DEF Writer
    <3>8. u \in TxsOf(b) /\ s \in Touches[u]
      BY <3>2, <3>3, <3>5, <3>6 DEF TxsOf, ToSet
    <3>9. l + 1 \in DOMAIN c /\ c[l + 1] = b
      <4>1. DOMAIN c = 1..Len(c)
        BY <1>1, ChainTypes
      <4> QED BY <1>2, <1>4, <4>1
    <3> QED BY <3>1, <3>7, <3>8, <3>9
  <2> QED BY <2>1, <2>2, <2>3
<1>7. chain' = c
  BY <1>1, <1>3
<1>8. LeavesForAReason
  BY <1>6, <1>7 DEF LeavesForAReason
<1> QED BY <1>5, <1>7, <1>8 DEF ReorgKeepsTransactions

LEMMA PoolMoves ==
    ASSUME PoolIInv, Once(chain), PoolNext
    PROVE  ReorgKeepsTransactions /\ LeavesForAReason
<1>1. node \in Nodes /\ chain \in Chains
  BY DEF PoolIInv
<1>2. ASSUME NEW b \in BlocksAfter(chain), Commit(b) PROVE ReorgKeepsTransactions /\ LeavesForAReason
  BY <1>2, CommitMoves
<1>3. ASSUME NEW d \in 1..Len(chain), NEW b \in BlocksAfter(SubSeq(chain, 1, Len(chain) - d)), Reorg(d, <<b>>)
      PROVE  ReorgKeepsTransactions /\ LeavesForAReason
  BY <1>3, OneReplaces, ReorgMoves
<1>4. ASSUME NEW d \in 1..Len(chain), NEW b \in BlocksAfter(SubSeq(chain, 1, Len(chain) - d)),
             NEW c \in BlocksAfter(Append(SubSeq(chain, 1, Len(chain) - d), b)), Reorg(d, <<b, c>>)
      PROVE  ReorgKeepsTransactions /\ LeavesForAReason
  BY <1>4, OneReplaces, ReorgMoves
<1>5. ASSUME (\E t \in node.txs : Submit(t) \/ StoreOrphan(t)) \/ FullSync
      PROVE  ReorgKeepsTransactions /\ LeavesForAReason
  <2>1. chain' = chain /\ pool \subseteq pool'
    BY <1>5 DEF Submit, StoreOrphan, FullSync
  <2>2. IsPrefix(chain, chain)
    BY <1>1, ChainTypes DEF IsPrefix
  <2> QED BY <2>1, <2>2 DEF ReorgKeepsTransactions, LeavesForAReason
<1> QED BY <1>2, <1>3, <1>4, <1>5 DEF PoolNext

-----------------------------------------------------------------------------
(* The tracker: what it is told of blocks and reorgs.                        *)

TkTiers == {Untracked, PREFLIGHT, ADMITTED, INCLUDED, K_DEPTH}
Tks == [tier : [Txs -> TkTiers], block : [Txs -> Chains], byBlock : UNION {[D -> SUBSET Txs] : D \in SUBSET Chains}]

LEMMA TkTypes ==
    ASSUME NEW tk \in Tks
    PROVE  /\ tk.tier \in [Txs -> TkTiers] /\ tk.block \in [Txs -> Chains]
           /\ DOMAIN tk.byBlock \subseteq Chains /\ \A h \in DOMAIN tk.byBlock : tk.byBlock[h] \subseteq Txs
           /\ tk.byBlock = [h \in DOMAIN tk.byBlock |-> tk.byBlock[h]]
           /\ tk = [tier |-> tk.tier, block |-> tk.block, byBlock |-> tk.byBlock]
<1>1. PICK D \in SUBSET Chains : tk.byBlock \in [D -> SUBSET Txs]
  BY DEF Tks
<1> QED BY <1>1 DEF Tks

LEMMA IsTk ==
    ASSUME NEW tier \in [Txs -> TkTiers], NEW block \in [Txs -> Chains], NEW D \in SUBSET Chains, NEW by \in [D -> SUBSET Txs]
    PROVE  [tier |-> tier, block |-> block, byBlock |-> by] \in Tks
<1>1. by \in UNION {[E -> SUBSET Txs] : E \in SUBSET Chains}
  OBVIOUS
<1> QED BY <1>1 DEF Tks

-----------------------------------------------------------------------------
(* The hash of a block is the chain up to it.                               *)

LEMMA HashIs ==
    ASSUME node \in Nodes, NEW c \in Chains, NEW i \in 1..Len(c)
    PROVE  /\ Upto(c, i) \in Chains /\ Upto(c, i) # <<>> /\ Last(Upto(c, i)) = c[i] /\ Len(Upto(c, i)) = i
           /\ OnChain(Upto(c, i), c)
<1>1. PICK l \in Nat : l = Len(c)
  BY ChainTypes
<1>2. i \in 0..Len(c) /\ i \in 1..i /\ i \in 1..l /\ i <= l
  BY <1>1
<1>3. PICK h \in Chains : h = Upto(c, i) /\ Len(h) = i /\ \A k \in 1..i : h[k] = c[k]
  BY <1>2, UptoIs
<1>4. Last(h) = c[i]
  BY <1>2, <1>3 DEF Last
<1>5. h # <<>>
  <2>1. Len(<<>>) = 0 /\ i # 0
    BY <1>2
  <2> QED BY <1>3, <2>1
<1>6. IsPrefix(h, c)
  <2>1. SubSeq(h, 1, i) = h
    BY <1>3, UptoAll DEF Upto
  <2> QED BY <1>1, <1>2, <1>3, <2>1 DEF IsPrefix, Upto
<1> QED BY <1>3, <1>4, <1>5, <1>6 DEF OnChain

LEMMA OnChainIs ==
    ASSUME node \in Nodes, NEW c \in Chains, NEW h \in Chains
    PROVE  OnChain(h, c) <=> \E i \in 1..Len(c) : h = Upto(c, i)
<1>1. PICK l \in Nat : l = Len(c)
  BY ChainTypes
<1>2. ASSUME OnChain(h, c) PROVE \E i \in 1..Len(c) : h = Upto(c, i)
  <2>1. PICK i \in Nat : i = Len(h)
    BY ChainTypes
  <2>2. i <= l /\ SubSeq(h, 1, i) = SubSeq(c, 1, i) /\ h # <<>>
    BY <1>1, <1>2, <2>1 DEF OnChain, IsPrefix
  <2>3. SubSeq(h, 1, i) = h
    BY <2>1, UptoAll DEF Upto
  <2>4. i # 0
    <3>1. PICK X : X = Seq(node.txs)
      OBVIOUS
    <3>2. h \in Seq(X)
      BY <3>1 DEF Chains
    <3> QED BY <2>1, <2>2, <3>2, EmptySeq
  <2>5. i \in 1..Len(c)
    BY <1>1, <2>2, <2>4
  <2> QED BY <2>2, <2>3, <2>5 DEF Upto
<1>3. ASSUME NEW i \in 1..Len(c), h = Upto(c, i) PROVE OnChain(h, c)
  BY <1>3, HashIs
<1> QED BY <1>2, <1>3

\* A transaction is in one block of the chain.
LEMMA OneBlockEach ==
    ASSUME node \in Nodes, NEW c \in Chains, Once(c), NEW g \in Chains, NEW h \in Chains, OnChain(g, c), OnChain(h, c),
           NEW t \in TxsOf(Last(g)), t \in TxsOf(Last(h))
    PROVE  g = h
<1>1. PICK l \in Nat : l = Len(c)
  BY ChainTypes
<1>2. PICK i \in 1..l, j \in 1..l : g = Upto(c, i) /\ h = Upto(c, j)
  BY <1>1, OnChainIs
<1>3. t \in TxsOf(c[i]) /\ t \in TxsOf(c[j])
  BY <1>1, <1>2, HashIs
<1>4. ASSUME NEW a \in 1..l, NEW b \in 1..l, t \in TxsOf(c[a]), t \in TxsOf(c[b]), a < b PROVE FALSE
  <2>1. t \notin ChainTxs(Upto(c, b - 1))
    BY <1>1, <1>4 DEF Once
  <2>2. PICK k : k = b - 1
    OBVIOUS
  <2>3. k \in 0..Len(c) /\ a \in 1..k
    BY <1>1, <1>4, <2>2
  <2>4. ChainTxs(Upto(c, k)) = UNION {TxsOf(c[x]) : x \in 1..k}
    BY <2>3, UptoIs
  <2> QED BY <1>4, <2>1, <2>2, <2>3, <2>4
<1>5. i = j
  BY <1>3, <1>4
<1> QED BY <1>2, <1>5

LEMMA OnChainTxs ==
    ASSUME node \in Nodes, NEW c \in Chains, NEW h \in Chains, OnChain(h, c)
    PROVE  TxsOf(Last(h)) \subseteq ChainTxs(c) /\ Len(h) \in Nat /\ Len(h) <= Len(c)
<1>1. PICK i \in 1..Len(c) : h = Upto(c, i)
  BY OnChainIs
<1>2. Last(h) = c[i] /\ Len(h) = i /\ Len(c) \in Nat /\ i \in DOMAIN c
  BY <1>1, HashIs, ChainTypes
<1>3. TxsOf(c[i]) \subseteq ChainTxs(c)
  BY <1>2, ChainTypes
<1> QED BY <1>2, <1>3

\* k is tk with the tracked transactions of S included in the block hash.
Marked(tk, k, S, hash) ==
    /\ tk \in Tks /\ k \in Tks
    /\ \A u \in Txs :
          IF u \in S /\ tk.tier[u] # Untracked
          THEN /\ k.tier[u] = INCLUDED /\ k.block[u] = hash
               /\ hash \in DOMAIN k.byBlock /\ u \in k.byBlock[hash]
          ELSE k.tier[u] = tk.tier[u] /\ k.block[u] = tk.block[u]
    /\ \A h : h # hash => /\ h \in DOMAIN k.byBlock <=> h \in DOMAIN tk.byBlock
                          /\ h \in DOMAIN tk.byBlock => k.byBlock[h] = tk.byBlock[h]
    /\ hash \in DOMAIN tk.byBlock => hash \in DOMAIN k.byBlock /\ tk.byBlock[hash] \subseteq k.byBlock[hash]
    /\ hash \in DOMAIN k.byBlock => \A u \in k.byBlock[hash] :
          u \in S \/ (hash \in DOMAIN tk.byBlock /\ u \in tk.byBlock[hash])

LEMMA TierValues == Untracked = -1 /\ PREFLIGHT = 0 /\ ADMITTED = 1 /\ INCLUDED = 2 /\ K_DEPTH = 3
BY DEF Untracked, PREFLIGHT, ADMITTED, INCLUDED, K_DEPTH

LEMMA MarkOne ==
    ASSUME NEW tk \in Tks, NEW t \in Txs, NEW hash \in Chains
    PROVE  Marked(tk, MarkIncluded(tk, t, hash), {t}, hash)
<1>1. CASE tk.tier[t] = Untracked
  <2>1. MarkIncluded(tk, t, hash) = tk
    BY <1>1 DEF MarkIncluded
  <2> QED BY <1>1, <2>1 DEF Marked
<1>2. CASE tk.tier[t] # Untracked
  <2>1. PICK k : k = MarkIncluded(tk, t, hash)
    OBVIOUS
  <2>2. PICK D : D = DOMAIN tk.byBlock \cup {hash}
    OBVIOUS
  <2>3. PICK by : by = [h \in D |-> (IF h \in DOMAIN tk.byBlock THEN tk.byBlock[h] ELSE {})
                                     \cup (IF h = hash THEN {t} ELSE {})]
    OBVIOUS
  <2>4. k = [tier |-> [tk.tier EXCEPT ![t] = INCLUDED], block |-> [tk.block EXCEPT ![t] = hash], byBlock |-> by]
    BY <1>2, <2>1, <2>2, <2>3 DEF MarkIncluded
  <2>5. /\ tk.tier \in [Txs -> TkTiers] /\ tk.block \in [Txs -> Chains]
        /\ DOMAIN tk.byBlock \subseteq Chains /\ \A h \in DOMAIN tk.byBlock : tk.byBlock[h] \subseteq Txs
    BY TkTypes
  <2>6. D \in SUBSET Chains /\ by \in [D -> SUBSET Txs]
    BY <2>2, <2>3, <2>5
  <2>7. [tk.tier EXCEPT ![t] = INCLUDED] \in [Txs -> TkTiers] /\ [tk.block EXCEPT ![t] = hash] \in [Txs -> Chains]
    BY <2>5 DEF TkTiers
  <2>8. k \in Tks
    BY <2>4, <2>6, <2>7, IsTk
  <2>9. k.tier = [tk.tier EXCEPT ![t] = INCLUDED] /\ k.block = [tk.block EXCEPT ![t] = hash] /\ k.byBlock = by
    BY <2>4
  <2>10. \A u \in Txs : /\ k.tier[u] = (IF u = t THEN INCLUDED ELSE tk.tier[u])
                        /\ k.block[u] = (IF u = t THEN hash ELSE tk.block[u])
    BY <2>5, <2>9
  <2>11. hash \in DOMAIN by /\ t \in by[hash] /\ DOMAIN by = D
    BY <2>2, <2>3
  <2>12. \A h : h # hash => /\ h \in DOMAIN by <=> h \in DOMAIN tk.byBlock
                            /\ h \in DOMAIN tk.byBlock => by[h] = tk.byBlock[h]
    BY <2>2, <2>3
  <2>13. by[hash] = (IF hash \in DOMAIN tk.byBlock THEN tk.byBlock[hash] ELSE {}) \cup {t}
    BY <2>2, <2>3
  <2> QED BY <1>2, <2>1, <2>8, <2>9, <2>10, <2>11, <2>12, <2>13 DEF Marked
<1> QED BY <1>1, <1>2

LEMMA MarkedMore ==
    ASSUME NEW a, NEW b, NEW c, NEW S, NEW R, NEW hash, Marked(a, b, S, hash), Marked(b, c, R, hash)
    PROVE  Marked(a, c, S \cup R, hash)
<1>1. INCLUDED # Untracked
  BY TierValues
<1>2. ASSUME NEW u \in Txs
      PROVE  IF u \in S \cup R /\ a.tier[u] # Untracked
             THEN c.tier[u] = INCLUDED /\ c.block[u] = hash /\ hash \in DOMAIN c.byBlock /\ u \in c.byBlock[hash]
             ELSE c.tier[u] = a.tier[u] /\ c.block[u] = a.block[u]
  <2>1. CASE u \in S /\ a.tier[u] # Untracked
    BY <1>1, <2>1 DEF Marked
  <2>2. CASE u \notin S \/ a.tier[u] = Untracked
    <3>1. b.tier[u] = a.tier[u] /\ b.block[u] = a.block[u]
      BY <2>2 DEF Marked
    <3> QED BY <2>2, <3>1 DEF Marked
  <2> QED BY <2>1, <2>2
<1>3. \A h : h # hash => /\ h \in DOMAIN c.byBlock <=> h \in DOMAIN a.byBlock
                         /\ h \in DOMAIN a.byBlock => c.byBlock[h] = a.byBlock[h]
  BY DEF Marked
<1>4. hash \in DOMAIN a.byBlock => hash \in DOMAIN c.byBlock /\ a.byBlock[hash] \subseteq c.byBlock[hash]
  BY DEF Marked
<1>5. hash \in DOMAIN c.byBlock => \A u \in c.byBlock[hash] :
          u \in S \cup R \/ (hash \in DOMAIN a.byBlock /\ u \in a.byBlock[hash])
  BY DEF Marked
<1> QED BY <1>2, <1>3, <1>4, <1>5 DEF Marked

LEMMA MarkedNone ==
    ASSUME NEW tk \in Tks, NEW hash
    PROVE  Marked(tk, tk, {}, hash)
BY DEF Marked

LEMMA BlockMarked ==
    ASSUME node \in Nodes, NEW tk \in Tks, NEW hash \in Chains, hash # <<>>
    PROVE  Marked(tk, MarkAll(tk, hash), TxsOf(Last(hash)), hash)
<1>1. PICK P : P = Tks
  OBVIOUS
<1>2. MarksStay(hash, P, Txs)
  BY <1>1, MarkOne DEF MarksStay, Marked
<1>3. PICK q \in Seq(Txs) : q = Last(hash)
  <2>1. PICK X : X = Seq(node.txs)
    OBVIOUS
  <2>2. Last(hash) \in X
    BY <2>1, LastOf DEF Chains
  <2>3. node.txs \subseteq Txs
    BY NodeTypes
  <2> QED BY <2>1, <2>2, <2>3, SeqOfSubset
<1>4. PICK r : MarksTrace(hash, P, Txs, tk, q, r) /\ r[Len(q)] = MarkAll(tk, hash)
  BY <1>1, <1>2, <1>3, MarksLead
<1>5. PICK l \in Nat : l = Len(q) /\ DOMAIN q = 1..l
  BY LenProperties
<1>6. PICK s : s = [n \in 0..l |-> {q[i] : i \in 1..n}]
  OBVIOUS
<1>7. PICK B : B = {n \in 0..l : ~Marked(tk, r[n], s[n], hash)}
  OBVIOUS
<1>8. B = {}
  <2> SUFFICES ASSUME B # {} PROVE FALSE
    OBVIOUS
  <2>1. PICK n \in B : \A k \in B : n <= k
    <3>1. B \in SUBSET Nat
      BY <1>7
    <3> QED BY <3>1, LeastElement
  <2>2. CASE n = 0
    <3>1. s[0] = {} /\ r[0] = tk
      BY <1>4, <1>6 DEF MarksTrace
    <3> QED BY <1>7, <2>2, <3>1, MarkedNone
  <2>3. CASE n # 0
    <3>1. PICK m : m = n - 1
      OBVIOUS
    <3>2. n \in 1..l /\ m \in 0..l /\ m < n /\ m + 1 = n /\ n \in 0..l
      BY <1>7, <2>3, <3>1
    <3>3. Marked(tk, r[m], s[m], hash)
      BY <1>7, <2>1, <3>2
    <3>4. q[n] \in Txs /\ r[m] \in P /\ r[n] = MarkIncluded(r[m], q[n], hash)
      BY <1>4, <1>5, <3>1, <3>2 DEF MarksTrace
    <3>5. Marked(r[m], r[n], {q[n]}, hash)
      BY <1>1, <3>4, MarkOne
    <3>6. s[n] = s[m] \cup {q[n]}
      <4>1. \A i : i \in 1..n <=> i \in 1..m \/ i = n
        BY <3>2
      <4>2. s[n] = {q[i] : i \in 1..n} /\ s[m] = {q[i] : i \in 1..m}
        BY <1>6, <3>2
      <4> QED BY <4>1, <4>2
    <3>7. Marked(tk, r[n], s[m] \cup {q[n]}, hash)
      BY <3>3, <3>5, MarkedMore
    <3> QED BY <1>7, <3>6, <3>7
  <2> QED BY <2>2, <2>3
<1>9. Marked(tk, r[l], s[l], hash)
  <2>1. l \in 0..l
    OBVIOUS
  <2> QED BY <1>7, <1>8, <2>1
<1>10. s[l] = TxsOf(Last(hash))
  <2>1. l \in 0..l
    OBVIOUS
  <2>2. s[l] = {q[i] : i \in 1..l}
    BY <1>6, <2>1
  <2> QED BY <1>3, <1>5, <2>2 DEF TxsOf, ToSet
<1> QED BY <1>4, <1>5, <1>9, <1>10

\* The tracker tk tells of the chain c what is so ...
TrackedIn(tk, c) ==
    /\ tk \in Tks
    /\ \A h \in DOMAIN tk.byBlock : OnChain(h, c) /\ tk.byBlock[h] \subseteq TxsOf(Last(h))
    /\ \A t \in Txs : tk.tier[t] >= INCLUDED =>
          /\ OnChain(tk.block[t], c) /\ t \in TxsOf(Last(tk.block[t]))
          /\ tk.block[t] \in DOMAIN tk.byBlock /\ t \in tk.byBlock[tk.block[t]]

\* ... and of no block that is k high that it is not deep enough.
Deep(tk, k) == \A t \in Txs : tk.tier[t] = INCLUDED => DepthAt(tk, t, k) < KDepth[t]

\* Who is tracked stays tracked, nobody else is.
SameTracked(tk, k) == \A t \in Txs : k.tier[t] = Untracked <=> tk.tier[t] = Untracked

LEMMA TierRange ==
    ASSUME NEW tk \in Tks, NEW t \in Txs
    PROVE  tk.tier[t] \in {-1, 0, 1, 2, 3} /\ tk.block[t] \in Chains
BY TkTypes, TierValues DEF TkTiers

LEMMA AppendedChain ==
    ASSUME node \in Nodes, NEW c \in Chains, NEW b \in Seq(node.txs), NEW d, d = Append(c, b)
    PROVE  /\ d \in Chains /\ d # <<>> /\ Last(d) = b /\ Len(d) = Len(c) + 1 /\ OnChain(d, d)
           /\ \A h \in Chains : OnChain(h, c) => OnChain(h, d) /\ h # d
<1>1. PICK l, T : l \in Nat /\ l = Len(c) /\ T = Seq(node.txs)
  BY ChainTypes
<1>2. d \in Chains /\ Len(d) = l + 1 /\ d[l + 1] = b /\ \A i \in 1..l : d[i] = c[i]
  <2>1. c \in Seq(T) /\ b \in T
    BY <1>1 DEF Chains
  <2> QED BY <1>1, <2>1, AppendProperties, MoreOnChain
<1>3. Upto(d, l + 1) = d
  BY <1>2, UptoAll
<1>4. l + 1 \in 1..Len(d)
  BY <1>2
<1>5. d # <<>> /\ Last(d) = b /\ OnChain(d, d)
  BY <1>2, <1>3, <1>4, HashIs
<1>6. ASSUME NEW h \in Chains, OnChain(h, c) PROVE OnChain(h, d) /\ h # d
  <2>1. PICK i \in 1..l : h = Upto(c, i)
    BY <1>1, <1>6, OnChainIs
  <2>2. i \in 0..Len(c) /\ i <= Len(d) /\ (\A k \in 1..i : c[k] = d[k]) /\ i \in 1..Len(d)
    BY <1>1, <1>2
  <2>3. Upto(c, i) = Upto(d, i)
    BY <1>2, <2>2, UptoOfLonger
  <2>4. Len(h) = i
    BY <1>1, <2>1, HashIs
  <2>5. h # d
    BY <1>2, <2>2, <2>4
  <2>6. OnChain(h, d)
    BY <1>2, <2>1, <2>2, <2>3, OnChainIs
  <2> QED BY <2>5, <2>6
<1> QED BY <1>1, <1>2, <1>5, <1>6

\* k is m with what is deep enough at the height n.
Deepened(m, k, n) ==
    /\ k \in Tks /\ k.block = m.block /\ k.byBlock = m.byBlock
    /\ \A t \in Txs : /\ k.tier[t] = (IF m.tier[t] = INCLUDED /\ DepthAt(m, t, n) >= KDepth[t] THEN K_DEPTH ELSE m.tier[t])
                      /\ DepthAt(m, t, n) = DepthAt(k, t, n)

LEMMA ToldIs ==
    ASSUME node \in Nodes, NEW tk \in Tks, NEW d \in Chains, d # <<>>, NEW k, k = Told(tk, d)
    PROVE  \E m : Marked(tk, m, TxsOf(Last(d)), d) /\ Deepened(m, k, Len(d))
<1>3. PICK m : m = MarkAll(tk, d)
  OBVIOUS
<1>4. Marked(tk, m, TxsOf(Last(d)), d)
  BY <1>3, BlockMarked
<1>5. PICK n \in Nat : n = Len(d)
  BY ChainTypes
<1>6. k = [m EXCEPT !.tier = [t \in Txs |-> IF m.tier[t] = INCLUDED /\ DepthAt(m, t, n) >= KDepth[t]
                                            THEN K_DEPTH ELSE m.tier[t]]]
  BY <1>3, <1>5 DEF Told, UpdateDepth
<1>7. m \in Tks /\ m.tier \in [Txs -> TkTiers] /\ m.block \in [Txs -> Chains]
  BY <1>4, TkTypes DEF Marked
<1>8. /\ k.block = m.block /\ k.byBlock = m.byBlock
      /\ k.tier = [t \in Txs |-> IF m.tier[t] = INCLUDED /\ DepthAt(m, t, n) >= KDepth[t] THEN K_DEPTH ELSE m.tier[t]]
      /\ k = [tier |-> k.tier, block |-> m.block, byBlock |-> m.byBlock]
  <2>1. m = [tier |-> m.tier, block |-> m.block, byBlock |-> m.byBlock]
    BY <1>7, TkTypes
  <2>2. PICK f : f = [t \in Txs |-> IF m.tier[t] = INCLUDED /\ DepthAt(m, t, n) >= KDepth[t] THEN K_DEPTH ELSE m.tier[t]]
    OBVIOUS
  <2>3. k = [m EXCEPT !.tier = f]
    BY <1>6, <2>2
  <2>4. k = [tier |-> f, block |-> m.block, byBlock |-> m.byBlock]
    BY <2>1, <2>3
  <2> QED BY <2>2, <2>4
<1>9. ASSUME NEW t \in Txs
      PROVE  /\ k.tier[t] = (IF m.tier[t] = INCLUDED /\ DepthAt(m, t, n) >= KDepth[t] THEN K_DEPTH ELSE m.tier[t])
             /\ k.tier[t] \in TkTiers /\ k.block[t] = m.block[t] /\ DepthAt(m, t, n) = DepthAt(k, t, n)
  BY <1>7, <1>8 DEF TkTiers, DepthAt
<1>10. k \in Tks
  <2>1. k.tier \in [Txs -> TkTiers]
    BY <1>8, <1>9
  <2>2. PICK D \in SUBSET Chains : m.byBlock \in [D -> SUBSET Txs]
    BY <1>7 DEF Tks
  <2>3. PICK f \in [Txs -> TkTiers], g \in [Txs -> Chains], by \in [D -> SUBSET Txs] :
           f = k.tier /\ g = m.block /\ by = m.byBlock
    BY <1>7, <2>1, <2>2
  <2>4. [tier |-> f, block |-> g, byBlock |-> by] \in Tks
    BY <2>2, IsTk
  <2> QED BY <1>8, <2>3, <2>4
<1>11. Deepened(m, k, n)
  BY <1>8, <1>9, <1>10 DEF Deepened
<1> QED BY <1>4, <1>5, <1>11

\* The tracker hears of the next block: no tier sinks.
LEMMA ToldGood ==
    ASSUME node \in Nodes, NEW c \in Chains, Once(c), NEW b \in BlocksAfter(c), NEW tk, TrackedIn(tk, c)
    PROVE  LET d == Append(c, b)
               k == Told(tk, d) IN
           /\ TrackedIn(k, d) /\ Deep(k, Len(d)) /\ SameTracked(tk, k)
           /\ \A t \in Txs : k.tier[t] >= tk.tier[t]
           /\ \A t \in TxsOf(b) : tk.tier[t] # Untracked => k.tier[t] >= INCLUDED
<1> SUFFICES ASSUME NEW d, d = Append(c, b), NEW k, k = Told(tk, d)
             PROVE  /\ TrackedIn(k, d) /\ Deep(k, Len(d)) /\ SameTracked(tk, k)
                    /\ \A t \in Txs : k.tier[t] >= tk.tier[t]
                    /\ \A t \in TxsOf(b) : tk.tier[t] # Untracked => k.tier[t] >= INCLUDED
  OBVIOUS
<1>1. b \in Seq(node.txs) /\ tk \in Tks /\ TxsOf(b) \subseteq Txs
  BY BlocksFit, BlockTypes, NodeTypes DEF TrackedIn
<1>2. /\ d \in Chains /\ d # <<>> /\ Last(d) = b /\ Len(d) = Len(c) + 1 /\ OnChain(d, d)
      /\ \A h \in Chains : OnChain(h, c) => OnChain(h, d) /\ h # d
  BY <1>1, AppendedChain
<1>3. PICK n \in Nat : n = Len(d)
  BY <1>2, ChainTypes
<1>4. PICK m : Marked(tk, m, TxsOf(b), d) /\ Deepened(m, k, n)
  BY <1>1, <1>2, <1>3, ToldIs
<1>7. m \in Tks
  BY <1>4 DEF Marked
<1>8. k.block = m.block /\ k.byBlock = m.byBlock
  BY <1>4 DEF Deepened
<1>9. ASSUME NEW t \in Txs
      PROVE  /\ k.tier[t] = (IF m.tier[t] = INCLUDED /\ DepthAt(m, t, n) >= KDepth[t] THEN K_DEPTH ELSE m.tier[t])
             /\ DepthAt(m, t, n) = DepthAt(k, t, n)
  BY <1>4 DEF Deepened
<1>10. k \in Tks
  BY <1>4 DEF Deepened
<1>11. d \notin DOMAIN tk.byBlock
  <2>1. DOMAIN tk.byBlock \subseteq Chains
    BY <1>1, TkTypes
  <2> QED BY <1>2, <2>1 DEF TrackedIn
<1>12. ASSUME NEW t \in Txs, tk.tier[t] >= INCLUDED
       PROVE  t \notin TxsOf(b) /\ m.tier[t] = tk.tier[t] /\ m.block[t] = tk.block[t] /\ OnChain(tk.block[t], c)
  <2>1. OnChain(tk.block[t], c) /\ t \in TxsOf(Last(tk.block[t])) /\ tk.block[t] \in Chains
    BY <1>1, <1>12, TierRange DEF TrackedIn
  <2>2. t \in ChainTxs(c)
    BY <2>1, OnChainTxs
  <2>3. t \notin TxsOf(b)
    BY <2>2, NewBlockIsNew
  <2> QED BY <1>4, <2>1, <2>3 DEF Marked
<1>13. ASSUME NEW h \in DOMAIN k.byBlock PROVE OnChain(h, d) /\ k.byBlock[h] \subseteq TxsOf(Last(h))
  <2>1. CASE h = d
    <3>1. k.byBlock[d] \subseteq TxsOf(b)
      BY <1>4, <1>8, <1>11, <1>13, <2>1 DEF Marked
    <3> QED BY <1>2, <2>1, <3>1
  <2>2. CASE h # d
    <3>1. h \in DOMAIN tk.byBlock /\ k.byBlock[h] = tk.byBlock[h]
      BY <1>4, <1>8, <1>13, <2>2 DEF Marked
    <3>2. OnChain(h, c) /\ tk.byBlock[h] \subseteq TxsOf(Last(h)) /\ h \in Chains
      BY <1>1, <3>1, TkTypes DEF TrackedIn
    <3> QED BY <1>2, <3>1, <3>2
  <2> QED BY <2>1, <2>2
<1>14. ASSUME NEW t \in Txs
       PROVE  /\ m.tier[t] >= tk.tier[t] /\ (m.tier[t] = Untracked <=> tk.tier[t] = Untracked)
              /\ t \in TxsOf(b) /\ tk.tier[t] # Untracked => m.tier[t] = INCLUDED /\ m.block[t] = d
              /\ t \notin TxsOf(b) \/ tk.tier[t] = Untracked => m.tier[t] = tk.tier[t] /\ m.block[t] = tk.block[t]
  <2>1. tk.tier[t] \in {-1, 0, 1, 2, 3}
    BY <1>1, TierRange
  <2>2. CASE t \in TxsOf(b) /\ tk.tier[t] # Untracked
    <3>1. m.tier[t] = INCLUDED /\ m.block[t] = d
      BY <1>4, <2>2 DEF Marked
    <3>2. ~(tk.tier[t] >= INCLUDED)
      BY <1>12, <2>2
    <3> QED BY <2>1, <2>2, <3>1, <3>2, TierValues
  <2>3. CASE t \notin TxsOf(b) \/ tk.tier[t] = Untracked
    <3>1. m.tier[t] = tk.tier[t] /\ m.block[t] = tk.block[t]
      BY <1>4, <2>3 DEF Marked
    <3> QED BY <2>1, <2>3, <3>1
  <2> QED BY <2>2, <2>3
<1>15. ASSUME NEW t \in Txs
       PROVE  /\ k.tier[t] >= m.tier[t] /\ (k.tier[t] = Untracked <=> m.tier[t] = Untracked)
              /\ k.tier[t] >= INCLUDED <=> m.tier[t] >= INCLUDED
              /\ k.tier[t] = INCLUDED => m.tier[t] = INCLUDED /\ ~(DepthAt(m, t, n) >= KDepth[t])
  <2>1. m.tier[t] \in {-1, 0, 1, 2, 3}
    BY <1>7, TierRange
  <2> HIDE DEF DepthAt
  <2> QED BY <1>9, <2>1, TierValues
<1>16. ASSUME NEW t \in Txs, k.tier[t] >= INCLUDED
       PROVE  /\ OnChain(k.block[t], d) /\ t \in TxsOf(Last(k.block[t]))
              /\ k.block[t] \in DOMAIN k.byBlock /\ t \in k.byBlock[k.block[t]]
  <2>1. CASE t \in TxsOf(b) /\ tk.tier[t] # Untracked
    <3>1. m.block[t] = d /\ d \in DOMAIN m.byBlock /\ t \in m.byBlock[d]
      BY <1>4, <2>1 DEF Marked
    <3> QED BY <1>2, <1>8, <2>1, <3>1
  <2>2. CASE t \notin TxsOf(b) \/ tk.tier[t] = Untracked
    <3>1. m.tier[t] = tk.tier[t] /\ m.block[t] = tk.block[t] /\ m.tier[t] >= INCLUDED
      BY <1>14, <1>15, <1>16, <2>2
    <3>2. /\ OnChain(tk.block[t], c) /\ t \in TxsOf(Last(tk.block[t])) /\ tk.block[t] \in Chains
          /\ tk.block[t] \in DOMAIN tk.byBlock /\ t \in tk.byBlock[tk.block[t]]
      BY <1>1, <3>1, TierRange DEF TrackedIn
    <3>3. tk.block[t] # d /\ OnChain(tk.block[t], d)
      BY <1>2, <3>2
    <3>4. tk.block[t] \in DOMAIN m.byBlock /\ m.byBlock[tk.block[t]] = tk.byBlock[tk.block[t]]
      BY <1>4, <3>2, <3>3 DEF Marked
    <3> QED BY <1>8, <3>1, <3>2, <3>3, <3>4
  <2> QED BY <2>1, <2>2
<1>17. TrackedIn(k, d)
  BY <1>10, <1>13, <1>16 DEF TrackedIn
<1>18. Deep(k, n)
  <2> SUFFICES ASSUME NEW t \in Txs, k.tier[t] = INCLUDED PROVE DepthAt(k, t, n) < KDepth[t]
    BY DEF Deep
  <2>1. ~(DepthAt(m, t, n) >= KDepth[t]) /\ DepthAt(m, t, n) = DepthAt(k, t, n)
    BY <1>9, <1>15
  <2>2. DepthAt(k, t, n) \in Int /\ KDepth[t] \in Int
    <3>1. Len(k.block[t]) \in Nat
      BY <1>10, TierRange, ChainTypes
    <3> QED BY <3>1, FastPathAssumption DEF DepthAt
  <2> HIDE DEF DepthAt
  <2> QED BY <2>1, <2>2
<1>19. ASSUME NEW t \in Txs PROVE k.tier[t] >= tk.tier[t]
  <2>1. m.tier[t] \in {-1, 0, 1, 2, 3} /\ tk.tier[t] \in {-1, 0, 1, 2, 3} /\ k.tier[t] \in {-1, 0, 1, 2, 3}
    BY <1>1, <1>7, <1>10, TierRange
  <2>2. k.tier[t] >= m.tier[t] /\ m.tier[t] >= tk.tier[t]
    BY <1>14, <1>15
  <2> QED BY <2>1, <2>2
<1>20. SameTracked(tk, k)
  BY <1>14, <1>15 DEF SameTracked
<1>21. ASSUME NEW t \in TxsOf(b), tk.tier[t] # Untracked PROVE k.tier[t] >= INCLUDED
  <2>1. t \in Txs /\ m.tier[t] = INCLUDED /\ INCLUDED >= INCLUDED
    BY <1>1, <1>14, <1>21, TierValues
  <2> QED BY <1>15, <2>1
<1> QED BY <1>3, <1>17, <1>18, <1>19, <1>20, <1>21

\* The blocks that leave the chain when its first n stay.
LEMMA Orphaned ==
    ASSUME node \in Nodes, NEW c \in Chains, NEW n \in 0..Len(c), NEW h \in Chains, OnChain(h, c)
    PROVE  /\ h \notin Hashes(c, n) => OnChain(h, Upto(c, n))
           /\ h \in Hashes(c, n) => \E i \in n + 1..Len(c) : h = Upto(c, i)
<1>1. PICK l \in Nat : l = Len(c)
  BY ChainTypes
<1>2. PICK i \in 1..l : h = Upto(c, i)
  BY <1>1, OnChainIs
<1>3. ASSUME h \notin Hashes(c, n) PROVE OnChain(h, Upto(c, n))
  <2>1. ~(i \in n + 1..l)
    BY <1>1, <1>2, <1>3 DEF Hashes, Upto
  <2>2. i \in 1..n /\ n \in 0..l /\ i \in 0..l
    BY <1>1, <1>2, <2>1
  <2>3. PICK d \in Chains : d = Upto(c, n) /\ Len(d) = n /\ \A k \in 1..n : d[k] = c[k]
    BY UptoIs
  <2>4. i \in 0..Len(c) /\ i <= Len(d) /\ i \in 1..Len(d) /\ \A k \in 1..i : c[k] = d[k]
    BY <1>1, <2>2, <2>3
  <2>5. Upto(c, i) = Upto(d, i)
    BY <2>3, <2>4, UptoOfLonger
  <2> QED BY <1>2, <2>3, <2>4, <2>5, OnChainIs
<1>4. ASSUME h \in Hashes(c, n) PROVE \E k \in n + 1..Len(c) : h = Upto(c, k)
  BY <1>4 DEF Hashes, Upto
<1> QED BY <1>3, <1>4

\* The tracker hears of blocks that leave the chain: the tiers that sink are of
\* transactions in such a block.
LEMMA ReorgedGood ==
    ASSUME node \in Nodes, NEW c \in Chains, Once(c), NEW n \in 0..Len(c), NEW tk, TrackedIn(tk, c),
           NEW k, k = HandleReorg(tk, Hashes(c, n))
    PROVE  /\ TrackedIn(k, Upto(c, n)) /\ SameTracked(tk, k)
           /\ \A t \in Txs : k.tier[t] >= tk.tier[t] \/ \E i \in n + 1..Len(c) : tk.block[t] = Upto(c, i)
<1>1. PICK gone : gone = Hashes(c, n)
  OBVIOUS
<1>2. PICK hit : hit = {t \in UNION {tk.byBlock[h] : h \in gone \cap DOMAIN tk.byBlock} : tk.tier[t] # Untracked}
  OBVIOUS
<1>3. k = [tier |-> [t \in Txs |-> IF t \in hit THEN ADMITTED ELSE tk.tier[t]],
           block |-> [t \in Txs |-> IF t \in hit THEN <<>> ELSE tk.block[t]],
           byBlock |-> Drop(tk.byBlock, gone)]
  BY <1>1, <1>2 DEF HandleReorg
<1>4. /\ tk \in Tks /\ tk.tier \in [Txs -> TkTiers] /\ tk.block \in [Txs -> Chains]
      /\ DOMAIN tk.byBlock \subseteq Chains /\ \A h \in DOMAIN tk.byBlock : tk.byBlock[h] \subseteq Txs
  BY TkTypes DEF TrackedIn
<1>5. /\ k.tier = [t \in Txs |-> IF t \in hit THEN ADMITTED ELSE tk.tier[t]]
      /\ k.block = [t \in Txs |-> IF t \in hit THEN <<>> ELSE tk.block[t]]
      /\ k.byBlock = [h \in DOMAIN tk.byBlock \ gone |-> tk.byBlock[h]]
  BY <1>3 DEF Drop
<1>6. ASSUME NEW t \in Txs
      PROVE  /\ k.tier[t] = (IF t \in hit THEN ADMITTED ELSE tk.tier[t])
             /\ t \notin hit => k.block[t] = tk.block[t]
  BY <1>5
<1>7. DOMAIN k.byBlock = DOMAIN tk.byBlock \ gone /\ \A h \in DOMAIN k.byBlock : k.byBlock[h] = tk.byBlock[h]
  BY <1>5
<1>8. k \in Tks
  <2>1. <<>> \in Chains
    BY DEF Chains
  <2>2. PICK f \in [Txs -> TkTiers] : f = k.tier
    BY <1>4, <1>5 DEF TkTiers
  <2>3. PICK g \in [Txs -> Chains] : g = k.block
    BY <1>4, <1>5, <2>1
  <2>4. PICK D \in SUBSET Chains : D = DOMAIN tk.byBlock \ gone
    BY <1>4
  <2>5. PICK by \in [D -> SUBSET Txs] : by = k.byBlock
    BY <1>4, <1>5, <2>4
  <2>6. k = [tier |-> f, block |-> g, byBlock |-> by]
    BY <1>3, <2>2, <2>3, <2>5
  <2>7. [tier |-> f, block |-> g, byBlock |-> by] \in Tks
    BY <2>4, IsTk
  <2> QED BY <2>6, <2>7
<1>9. ASSUME NEW h \in DOMAIN k.byBlock PROVE OnChain(h, Upto(c, n)) /\ k.byBlock[h] \subseteq TxsOf(Last(h))
  <2>1. h \in DOMAIN tk.byBlock /\ h \notin gone /\ k.byBlock[h] = tk.byBlock[h] /\ h \in Chains
    BY <1>4, <1>7, <1>9
  <2>2. OnChain(h, c) /\ tk.byBlock[h] \subseteq TxsOf(Last(h))
    BY <2>1 DEF TrackedIn
  <2> QED BY <1>1, <2>1, <2>2, Orphaned
<1>10. ASSUME NEW t \in Txs, k.tier[t] >= INCLUDED
       PROVE  /\ OnChain(k.block[t], Upto(c, n)) /\ t \in TxsOf(Last(k.block[t]))
              /\ k.block[t] \in DOMAIN k.byBlock /\ t \in k.byBlock[k.block[t]]
  <2>1. t \notin hit /\ k.tier[t] = tk.tier[t] /\ k.block[t] = tk.block[t]
    <3>1. ~(ADMITTED >= INCLUDED)
      BY TierValues
    <3> QED BY <1>6, <1>10, <3>1
  <2>2. /\ OnChain(tk.block[t], c) /\ t \in TxsOf(Last(tk.block[t])) /\ tk.block[t] \in Chains
        /\ tk.block[t] \in DOMAIN tk.byBlock /\ t \in tk.byBlock[tk.block[t]]
    BY <1>4, <1>10, <2>1 DEF TrackedIn
  <2>3. tk.tier[t] # Untracked
    BY <1>10, <2>1, TierValues
  <2>4. tk.block[t] \notin gone
    BY <1>2, <2>1, <2>2, <2>3
  <2>5. OnChain(tk.block[t], Upto(c, n))
    BY <1>1, <2>2, <2>4, Orphaned
  <2> QED BY <1>7, <2>1, <2>2, <2>4, <2>5
<1>11. ASSUME NEW t \in Txs PROVE k.tier[t] >= tk.tier[t] \/ \E i \in n + 1..Len(c) : tk.block[t] = Upto(c, i)
  <2>1. tk.tier[t] \in {-1, 0, 1, 2, 3}
    BY <1>4, TierRange
  <2>2. CASE t \notin hit
    BY <1>6, <2>1, <2>2
  <2>3. CASE t \in hit /\ ~(tk.tier[t] >= INCLUDED)
    <3>1. k.tier[t] = ADMITTED
      BY <1>6, <2>3
    <3> QED BY <2>1, <2>3, <3>1, TierValues
  <2>4. CASE t \in hit /\ tk.tier[t] >= INCLUDED
    <3>1. PICK h \in gone \cap DOMAIN tk.byBlock : t \in tk.byBlock[h]
      BY <1>2, <2>4
    <3>2. h \in Chains /\ OnChain(h, c) /\ t \in TxsOf(Last(h))
      BY <1>4, <3>1 DEF TrackedIn
    <3>3. tk.block[t] \in Chains /\ OnChain(tk.block[t], c) /\ t \in TxsOf(Last(tk.block[t]))
      BY <1>4, <2>4 DEF TrackedIn
    <3>4. tk.block[t] = h
      BY <3>2, <3>3, OneBlockEach
    <3> QED BY <1>1, <3>1, <3>2, <3>4, Orphaned
  <2> QED BY <2>2, <2>3, <2>4
<1>12. SameTracked(tk, k)
  <2> SUFFICES ASSUME NEW t \in Txs PROVE k.tier[t] = Untracked <=> tk.tier[t] = Untracked
    BY DEF SameTracked
  <2>1. t \in hit => tk.tier[t] # Untracked
    BY <1>2
  <2> QED BY <1>6, <2>1, TierValues
<1>13. TrackedIn(k, Upto(c, n))
  BY <1>8, <1>9, <1>10 DEF TrackedIn
<1> QED BY <1>11, <1>12, <1>13

\* The tracker hears of transactions that are admitted: no other tier sinks.
AdmitsOnly(tk, k, S) ==
    /\ k \in Tks /\ k.block = tk.block /\ k.byBlock = tk.byBlock
    /\ \A t \in Txs : \/ k.tier[t] = tk.tier[t]
                      \/ t \in S /\ tk.tier[t] # Untracked /\ k.tier[t] = ADMITTED

LEMMA AdmitOne ==
    ASSUME NEW tk \in Tks, NEW t \in Txs
    PROVE  AdmitsOnly(tk, MarkAdmitted(tk, t), {t})
<1>1. CASE tk.tier[t] = Untracked
  BY <1>1 DEF MarkAdmitted, AdmitsOnly
<1>2. CASE tk.tier[t] # Untracked
  <2>1. PICK k : k = MarkAdmitted(tk, t)
    OBVIOUS
  <2>2. tk.tier \in [Txs -> TkTiers] /\ tk = [tier |-> tk.tier, block |-> tk.block, byBlock |-> tk.byBlock]
    BY TkTypes
  <2>3. PICK f \in [Txs -> TkTiers] : f = [tk.tier EXCEPT ![t] = ADMITTED]
    BY <2>2 DEF TkTiers
  <2>4. k = [tk EXCEPT !.tier = f]
    BY <1>2, <2>1, <2>3 DEF MarkAdmitted
  <2>5. k = [tier |-> f, block |-> tk.block, byBlock |-> tk.byBlock]
    BY <2>2, <2>4
  <2>6. k \in Tks
    <3>1. PICK g \in [Txs -> Chains], D \in SUBSET Chains : g = tk.block /\ tk.byBlock \in [D -> SUBSET Txs]
      BY DEF Tks
    <3>2. PICK by \in [D -> SUBSET Txs] : by = tk.byBlock
      BY <3>1
    <3>3. [tier |-> f, block |-> g, byBlock |-> by] \in Tks
      BY IsTk
    <3> QED BY <2>5, <3>1, <3>2, <3>3
  <2>7. \A u \in Txs : k.tier[u] = IF u = t THEN ADMITTED ELSE tk.tier[u]
    BY <2>2, <2>3, <2>5
  <2> QED BY <1>2, <2>1, <2>5, <2>6, <2>7 DEF AdmitsOnly
<1> QED BY <1>1, <1>2

LEMMA AdmitsMore ==
    ASSUME NEW a, NEW b, NEW c, NEW S, AdmitsOnly(a, b, S), AdmitsOnly(b, c, S)
    PROVE  AdmitsOnly(a, c, S)
BY TierValues DEF AdmitsOnly

LEMMA AllAdmitted ==
    ASSUME NEW tk \in Tks, NEW S \in SUBSET Txs, NEW q \in Seq(S)
    PROVE  AdmitsOnly(tk, FoldLeft(MarkAdmitted, tk, q), S)
<1>1. PICK P : P = Tks
  OBVIOUS
<1>2. AdmittedStay(P, S)
  BY <1>1, AdmitOne DEF AdmittedStay, AdmitsOnly
<1>3. PICK r : AdmittedTrace(P, S, tk, q, r) /\ r[Len(q)] = FoldLeft(MarkAdmitted, tk, q)
  BY <1>1, <1>2, AdmittedLead
<1>4. PICK l \in Nat : l = Len(q)
  BY LenProperties
<1>5. PICK B : B = {n \in 0..l : ~AdmitsOnly(tk, r[n], S)}
  OBVIOUS
<1>6. B = {}
  <2> SUFFICES ASSUME B # {} PROVE FALSE
    OBVIOUS
  <2>1. PICK n \in B : \A k \in B : n <= k
    <3>1. B \in SUBSET Nat
      BY <1>5
    <3> QED BY <3>1, LeastElement
  <2>2. CASE n = 0
    <3>1. r[0] = tk
      BY <1>3 DEF AdmittedTrace
    <3>2. AdmitsOnly(tk, tk, S)
      BY DEF AdmitsOnly
    <3> QED BY <1>5, <2>2, <3>1, <3>2
  <2>3. CASE n # 0
    <3>1. PICK m : m = n - 1
      OBVIOUS
    <3>2. n \in 1..l /\ m \in 0..l /\ m < n /\ n \in 0..l
      BY <1>5, <2>3, <3>1
    <3>3. AdmitsOnly(tk, r[m], S)
      BY <1>5, <2>1, <3>2
    <3>4. q[n] \in S /\ r[m] \in Tks /\ r[n] = MarkAdmitted(r[m], q[n])
      BY <1>1, <1>3, <1>4, <3>1, <3>2 DEF AdmittedTrace
    <3>5. AdmitsOnly(r[m], r[n], {q[n]})
      BY <3>4, AdmitOne
    <3>6. AdmitsOnly(r[m], r[n], S)
      BY <3>4, <3>5 DEF AdmitsOnly
    <3>7. AdmitsOnly(tk, r[n], S)
      BY <3>3, <3>6, AdmitsMore
    <3> QED BY <1>5, <3>2, <3>7
  <2> QED BY <2>2, <2>3
<1>7. l \in 0..l
  OBVIOUS
<1>8. AdmitsOnly(tk, r[l], S)
  BY <1>5, <1>6, <1>7
<1> QED BY <1>3, <1>4, <1>8

LEMMA SeqOfFun ==
    ASSUME NEW T, NEW k \in Nat, NEW f \in [1..k -> T]
    PROVE  f \in Seq(T) /\ Len(f) = k
<1>2. f \in Seq(T)
  BY SeqDef
<1>3. DOMAIN f = 1..k
  OBVIOUS
<1> QED BY <1>2, <1>3, LenProperties

\* The tracker hears of some blocks.
ToldAll(tk, q) == FoldLeft(Told, tk, q)

\* One block or two are told.
LEMMA ToldBlocks ==
    ASSUME node \in Nodes, NEW tk \in Tks, NEW q \in Seq(Chains \ {<<>>})
    PROVE  /\ Len(q) = 1 => ToldAll(tk, q) = Told(tk, q[1])
           /\ Len(q) = 2 => ToldAll(tk, q) = Told(Told(tk, q[1]), q[2])
<1>1. PICK P, T : P = Tks /\ T = Chains \ {<<>>}
  OBVIOUS
<1>2. ToldsStay(P, T)
  BY <1>1, ToldIs DEF ToldsStay, Deepened
<1>3. PICK r : ToldsTrace(P, T, tk, q, r) /\ r[Len(q)] = ToldAll(tk, q)
  BY <1>1, <1>2, ToldsLead DEF ToldAll
<1>4. r[0] = tk /\ \A n \in 1..Len(q) : r[n] = Told(r[n - 1], q[n])
  BY <1>3 DEF ToldsTrace
<1>5. ASSUME Len(q) = 1 PROVE r[1] = Told(tk, q[1])
  <2>1. 1 \in 1..Len(q) /\ 1 - 1 = 0
    BY <1>5
  <2> QED BY <1>4, <2>1
<1>6. ASSUME Len(q) = 2 PROVE r[2] = Told(Told(tk, q[1]), q[2])
  <2>1. 1 \in 1..Len(q) /\ 2 \in 1..Len(q) /\ 1 - 1 = 0 /\ 2 - 1 = 1
    BY <1>6
  <2>2. r[1] = Told(r[0], q[1]) /\ r[2] = Told(r[1], q[2])
    BY <1>4, <2>1
  <2> QED BY <1>4, <2>2
<1> QED BY <1>3, <1>5, <1>6

\* The hashes of the blocks of new above its first n.
Heard(n, new) == [i \in 1..Len(new) - n |-> SubSeq(new, 1, n + i)]

\* k is tk told of d and, when new has one more, of new.
ToldTwice(tk, k, d, new) ==
    \/ new = d /\ k = Told(tk, d)
    \/ \E c \in BlocksAfter(d) : new = Append(d, c) /\ k = Told(Told(tk, d), new)

\* What the tracker hears when one or two blocks follow the first n of the chain.
LEMMA HeardBlocks ==
    ASSUME node \in Nodes, chain \in Chains, Once(chain), NEW n, NEW b, NEW new, Grown(n, b, new),
           NEW tk \in Tks
    PROVE  ToldTwice(tk, ToldAll(tk, Heard(n, new)), Append(Upto(chain, n), b), new)
<1> SUFFICES ASSUME NEW hashes, hashes = Heard(n, new), NEW d, d = Append(Upto(chain, n), b)
             PROVE  \/ new = d /\ ToldAll(tk, hashes) = Told(tk, d)
                    \/ \E c \in BlocksAfter(d) : new = Append(d, c) /\ ToldAll(tk, hashes) = Told(Told(tk, d), new)
  BY DEF ToldTwice
<1>1. /\ d \in Chains /\ new \in Chains /\ Upto(chain, n) \in Chains /\ n \in Nat /\ Len(Upto(chain, n)) = n
      /\ b \in BlocksAfter(Upto(chain, n))
  BY GrownTypes
<1>2. b \in Seq(node.txs)
  BY <1>1, BlocksFit
<1>3. Len(d) = n + 1 /\ d # <<>>
  BY <1>1, <1>2, MoreOnChain
<1>4. Upto(d, n + 1) = d
  BY <1>1, <1>3, UptoAll
<1>5. PICK T : T = Chains \ {<<>>}
  OBVIOUS
<1>6. CASE new = d
  <2>1. Len(new) - n = 1 /\ n + 1 = Len(d)
    BY <1>1, <1>3, <1>6
  <2>2. hashes = [i \in 1..1 |-> SubSeq(new, 1, n + i)]
    BY <2>1 DEF Heard
  <2>3. hashes[1] = d
    <3>1. 1 \in 1..1
      OBVIOUS
    <3>2. hashes[1] = SubSeq(new, 1, n + 1)
      BY <2>2, <3>1
    <3> QED BY <1>4, <1>6, <3>2 DEF Upto
  <2>4. PICK k \in Nat : k = 1
    OBVIOUS
  <2>5. hashes \in Seq(T) /\ Len(hashes) = 1
    <3>4. d \in T /\ \A i \in 1..k : i = 1
      BY <1>1, <1>3, <1>5, <2>4
    <3>1. \A i \in 1..k : hashes[i] \in T
      BY <2>3, <3>4
    <3>2. hashes = [i \in 1..k |-> hashes[i]]
      BY <2>2, <2>4
    <3>5. hashes \in [1..k -> T]
      BY <3>1, <3>2
    <3>3. hashes \in Seq(T) /\ Len(hashes) = k
      BY <3>5, SeqOfFun
    <3> QED BY <2>4, <3>3
  <2> QED BY <1>5, <1>6, <2>3, <2>5, ToldBlocks
<1>7. CASE \E c \in BlocksAfter(d) : new = Append(d, c)
  <2>1. PICK c \in BlocksAfter(d) : new = Append(d, c)
    BY <1>7
  <2>2. c \in Seq(node.txs)
    BY <1>1, <2>1, BlocksFit
  <2>3. PICK k : k = n + 2
    OBVIOUS
  <2>4. Len(new) = k /\ new # <<>> /\ Len(new) - n = 2 /\ n + 2 = k /\ k \in Nat
    BY <1>1, <1>3, <2>1, <2>2, <2>3, MoreOnChain
  <2>5. Upto(new, k) = new
    BY <1>1, <2>4, UptoAll
  <2>6. Upto(new, n + 1) = d
    <3>1. PICK X : X = Seq(node.txs)
      OBVIOUS
    <3>2. d \in Seq(X) /\ c \in X
      BY <1>1, <2>2, <3>1 DEF Chains
    <3>3. \A i \in 1..n + 1 : d[i] = new[i]
      BY <1>3, <2>1, <3>2, AppendProperties
    <3>4. PICK m : m = n + 1
      OBVIOUS
    <3>5. m \in 0..Len(d) /\ m <= Len(new)
      BY <1>1, <1>3, <2>4, <3>4
    <3>6. Upto(d, m) = Upto(new, m)
      BY <1>1, <3>3, <3>4, <3>5, UptoOfLonger
    <3> QED BY <1>4, <3>4, <3>6
  <2>7. hashes = [i \in 1..2 |-> SubSeq(new, 1, n + i)]
    BY <2>4 DEF Heard
  <2>8. hashes[1] = d /\ hashes[2] = new
    <3>1. 1 \in 1..2 /\ 2 \in 1..2
      OBVIOUS
    <3>2. hashes[1] = SubSeq(new, 1, n + 1) /\ hashes[2] = SubSeq(new, 1, n + 2)
      BY <2>7, <3>1
    <3> QED BY <2>4, <2>5, <2>6, <3>2 DEF Upto
  <2>9. PICK w \in Nat : w = 2
    OBVIOUS
  <2>10. hashes \in Seq(T) /\ Len(hashes) = 2
    <3>1. new \in T /\ d \in T
      BY <1>1, <1>3, <1>5, <2>4
    <3>2. \A i \in 1..w : i = 1 \/ i = 2
      BY <2>9
    <3>3. \A i \in 1..w : hashes[i] \in T
      BY <2>8, <3>1, <3>2
    <3>4. hashes = [i \in 1..w |-> hashes[i]]
      BY <2>7, <2>9
    <3>5. hashes \in [1..w -> T]
      BY <3>3, <3>4
    <3>6. hashes \in Seq(T) /\ Len(hashes) = w
      BY <3>5, SeqOfFun
    <3> QED BY <2>9, <3>6
  <2>11. ToldAll(tk, hashes) = Told(Told(tk, d), new)
    BY <1>5, <2>8, <2>10, ToldBlocks
  <2> QED BY <2>1, <2>11
<1> QED BY <1>6, <1>7 DEF Grown

\* A block above the fork is not on the new chain.
LEMMA LeftBehind ==
    ASSUME node \in Nodes, chain \in Chains, Once(chain), NEW n, NEW b, NEW new, Grown(n, b, new),
           NEW i \in n + 1..Len(chain)
    PROVE  ~OnChain(Upto(chain, i), new)
<1>1. new \in Chains /\ n \in Nat /\ n <= Len(chain) /\ Common(chain, new) = n
  BY GrownTypes, GrownParts
<1>2. PICK l \in Nat, m \in Nat : l = Len(chain) /\ m = Len(new)
  BY <1>1, ChainTypes
<1>3. i \in 1..l /\ i \in 0..l /\ n < i
  BY <1>1, <1>2
<1> SUFFICES ASSUME OnChain(Upto(chain, i), new) PROVE FALSE
  OBVIOUS
<1>4. PICK h \in Chains : h = Upto(chain, i) /\ Len(h) = i
  BY <1>2, <1>3, UptoIs
<1>5. PICK j \in 1..m : h = Upto(new, j)
  BY <1>1, <1>2, <1>4, OnChainIs
<1>6. j = i
  <2>1. j \in 0..Len(new)
    BY <1>2
  <2> QED BY <1>1, <1>4, <1>5, <2>1, UptoIs
<1>7. i <= m /\ SubSeq(chain, 1, i) = SubSeq(new, 1, i)
  BY <1>4, <1>5, <1>6 DEF Upto
<1>8. PICK X : X = Seq(node.txs)
  OBVIOUS
<1>9. i <= Common(chain, new)
  <2>1. chain \in Seq(X) /\ new \in Seq(X)
    BY <1>1, <1>8 DEF Chains
  <2> QED BY <1>2, <1>3, <1>7, <2>1, CommonIs
<1> QED BY <1>1, <1>3, <1>9

-----------------------------------------------------------------------------
(* The node follows its chain.                                               *)

\* What the tracker tells, for a chain.
Tells(tk, c) == TrackedIn(tk, c) /\ Deep(tk, Len(c))

\* The node that is not asked to tracks nothing.
TracksAsAsked == "tracker" \notin node.with => tracker = NoTracker

\* The inductive invariant of the node and its tracker.
NodeIInv == FastIInv /\ Once(chain) /\ Tells(tracker, chain) /\ TracksAsAsked

LEMMA NothingTold ==
    ASSUME node \in Nodes, NEW c \in Chains
    PROVE  Tells(NoTracker, c)
<1>1. PICK f \in [Txs -> TkTiers] : f = [t \in Txs |-> Untracked]
  BY DEF TkTiers
<1>2. <<>> \in Chains
  BY DEF Chains
<1>3. PICK g \in [Txs -> Chains] : g = [t \in Txs |-> <<>>]
  BY <1>2
<1>4. PICK D \in SUBSET Chains : D = {}
  OBVIOUS
<1>5. PICK by \in [D -> SUBSET Txs] : by = [h \in {} |-> {}]
  BY <1>4
<1>6. [tier |-> f, block |-> g, byBlock |-> by] \in Tks
  BY <1>4, IsTk
<1>7. NoTracker = [tier |-> f, block |-> g, byBlock |-> by]
  BY <1>1, <1>3, <1>5 DEF NoTracker
<1>8. DOMAIN NoTracker.byBlock = {} /\ \A t \in Txs : NoTracker.tier[t] = Untracked
  BY <1>1, <1>4, <1>5, <1>7
<1>9. \A t \in Txs : ~(NoTracker.tier[t] >= INCLUDED) /\ NoTracker.tier[t] # INCLUDED
  BY <1>8, TierValues
<1> QED BY <1>6, <1>7, <1>8, <1>9 DEF Tells, TrackedIn, Deep

LEMMA TellsEarned ==
    ASSUME Tells(tracker, chain)
    PROVE  TiersAreEarned
BY DEF Tells, TrackedIn, Deep, TiersAreEarned

\* Transactions are admitted and the chain stays.
LEMMA AdmittedTells ==
    ASSUME NEW tk, NEW k, NEW c, Tells(tk, c), NEW S, AdmitsOnly(tk, k, S)
    PROVE  /\ Tells(k, c)
           /\ \A t \in Txs : k.tier[t] < tk.tier[t] => t \in S
<1>1. tk \in Tks /\ k \in Tks /\ k.block = tk.block /\ k.byBlock = tk.byBlock
  BY DEF Tells, TrackedIn, AdmitsOnly
<1>2. ASSUME NEW t \in Txs, k.tier[t] >= INCLUDED PROVE k.tier[t] = tk.tier[t]
  <2>1. ~(ADMITTED >= INCLUDED)
    BY TierValues
  <2> QED BY <1>2, <2>1 DEF AdmitsOnly
<1>3. TrackedIn(k, c)
  BY <1>1, <1>2 DEF Tells, TrackedIn
<1>4. Deep(k, Len(c))
  <2> SUFFICES ASSUME NEW t \in Txs, k.tier[t] = INCLUDED PROVE DepthAt(k, t, Len(c)) < KDepth[t]
    BY DEF Deep
  <2>1. INCLUDED >= INCLUDED
    BY TierValues
  <2>2. tk.tier[t] = INCLUDED
    BY <1>2, <2>1
  <2>3. DepthAt(tk, t, Len(c)) = DepthAt(k, t, Len(c))
    BY <1>1 DEF DepthAt
  <2> QED BY <2>2, <2>3 DEF Tells, Deep
<1>5. ASSUME NEW t \in Txs, k.tier[t] < tk.tier[t] PROVE t \in S
  <2>1. tk.tier[t] \in {-1, 0, 1, 2, 3}
    BY <1>1, TierRange
  <2>2. k.tier[t] # tk.tier[t]
    BY <1>5, <2>1
  <2> QED BY <2>2 DEF AdmitsOnly
<1> QED BY <1>3, <1>4, <1>5 DEF Tells

\* Blocks take the place of those above the first n.
LEMMA GrownTells ==
    ASSUME node \in Nodes, chain \in Chains, Once(chain), NEW n, NEW b, NEW new, Grown(n, b, new),
           NEW tk, TrackedIn(tk, chain), NEW hashes, hashes = Heard(n, new),
           NEW k, k = ToldAll(HandleReorg(tk, Hashes(chain, n)), hashes)
    PROVE  /\ Tells(k, new)
           /\ \A t \in Txs : tk.tier[t] # Untracked =>
                /\ t \in ChainTxs(new) \ ChainTxs(chain) => k.tier[t] >= INCLUDED
                /\ k.tier[t] < tk.tier[t] => ~OnChain(tk.block[t], new)
<1>1. PICK base \in Chains : base = Upto(chain, n) /\ Once(base)
  BY GrownTypes
<1>2. PICK d \in Chains : d = Append(base, b) /\ Once(d) /\ b \in BlocksAfter(base)
  BY <1>1, GrownTypes
<1>3. PICK k0 : k0 = HandleReorg(tk, Hashes(chain, n))
  OBVIOUS
<1>4. n \in 0..Len(chain)
  BY DEF Grown
<1>5. /\ TrackedIn(k0, base) /\ SameTracked(tk, k0) /\ k0 \in Tks /\ tk \in Tks
      /\ \A t \in Txs : k0.tier[t] >= tk.tier[t] \/ \E i \in n + 1..Len(chain) : tk.block[t] = Upto(chain, i)
  BY <1>1, <1>3, <1>4, ReorgedGood DEF TrackedIn
<1>6. PICK k1 : k1 = Told(k0, d)
  OBVIOUS
<1>7. /\ TrackedIn(k1, d) /\ Deep(k1, Len(d)) /\ SameTracked(k0, k1) /\ k1 \in Tks
      /\ \A t \in Txs : k1.tier[t] >= k0.tier[t]
      /\ \A t \in TxsOf(b) : k0.tier[t] # Untracked => k1.tier[t] >= INCLUDED
  BY <1>1, <1>2, <1>5, <1>6, ToldGood DEF TrackedIn
<1>8. ChainTxs(base) \subseteq ChainTxs(chain) /\ ChainTxs(d) = ChainTxs(base) \cup TxsOf(b)
  <2>1. b \in Seq(node.txs)
    BY <1>1, <1>2, BlocksFit
  <2>2. ChainTxs(d) = ChainTxs(base) \cup TxsOf(b)
    BY <1>1, <1>2, <2>1, MoreOnChain
  <2>3. ChainTxs(base) = UNION {TxsOf(chain[i]) : i \in 1..n}
    BY <1>1, <1>4, UptoIs
  <2>4. \A i \in 1..n : TxsOf(chain[i]) \subseteq ChainTxs(chain)
    <3>1. \A i \in 1..n : i \in 1..Len(chain)
      BY <1>4, ChainTypes
    <3> QED BY <3>1, ChainTypes
  <2> QED BY <2>2, <2>3, <2>4
<1>9. ASSUME NEW t \in Txs
      PROVE  /\ tk.tier[t] \in {-1, 0, 1, 2, 3} /\ k0.tier[t] \in {-1, 0, 1, 2, 3} /\ k1.tier[t] \in {-1, 0, 1, 2, 3}
             /\ tk.tier[t] # Untracked => k0.tier[t] # Untracked /\ k1.tier[t] # Untracked
             /\ tk.tier[t] # Untracked /\ t \in ChainTxs(d) \ ChainTxs(chain) => k1.tier[t] >= INCLUDED
             /\ k1.tier[t] < tk.tier[t] => ~OnChain(tk.block[t], new)
  <2>1. tk.tier[t] \in {-1, 0, 1, 2, 3} /\ k0.tier[t] \in {-1, 0, 1, 2, 3} /\ k1.tier[t] \in {-1, 0, 1, 2, 3}
    BY <1>5, <1>7, TierRange
  <2>2. tk.tier[t] # Untracked => k0.tier[t] # Untracked /\ k1.tier[t] # Untracked
    BY <1>5, <1>7 DEF SameTracked
  <2>3. tk.tier[t] # Untracked /\ t \in ChainTxs(d) \ ChainTxs(chain) => k1.tier[t] >= INCLUDED
    BY <1>7, <1>8, <2>2
  <2>4. ASSUME k1.tier[t] < tk.tier[t] PROVE ~OnChain(tk.block[t], new)
    <3>1. k1.tier[t] >= k0.tier[t]
      BY <1>7
    <3>2. ~(k0.tier[t] >= tk.tier[t])
      BY <2>1, <2>4, <3>1
    <3>3. PICK i \in n + 1..Len(chain) : tk.block[t] = Upto(chain, i)
      BY <1>5, <3>2
    <3> QED BY <3>3, LeftBehind
  <2> QED BY <2>1, <2>2, <2>3, <2>4
<1>10. ToldTwice(k0, k, d, new)
  BY <1>1, <1>2, <1>3, <1>5, HeardBlocks
<1>11. CASE new = d /\ k = k1
  <2>1. Tells(k, new)
    BY <1>7, <1>11 DEF Tells
  <2> QED BY <1>9, <1>11, <2>1
<1>12. CASE \E c \in BlocksAfter(d) : new = Append(d, c) /\ k = Told(k1, new)
  <2>1. PICK c \in BlocksAfter(d) : new = Append(d, c) /\ k = Told(k1, new)
    BY <1>12
  <2>2. /\ TrackedIn(k, new) /\ Deep(k, Len(new)) /\ k \in Tks
        /\ \A t \in Txs : k.tier[t] >= k1.tier[t]
        /\ \A t \in TxsOf(c) : k1.tier[t] # Untracked => k.tier[t] >= INCLUDED
    BY <1>2, <1>7, <2>1, ToldGood DEF TrackedIn
  <2>3. ChainTxs(new) = ChainTxs(d) \cup TxsOf(c)
    <3>1. c \in Seq(node.txs)
      BY <2>1, BlocksFit
    <3> QED BY <2>1, <3>1, MoreOnChain
  <2>4. ASSUME NEW t \in Txs, tk.tier[t] # Untracked
        PROVE  /\ t \in ChainTxs(new) \ ChainTxs(chain) => k.tier[t] >= INCLUDED
               /\ k.tier[t] < tk.tier[t] => ~OnChain(tk.block[t], new)
    <3>1. /\ tk.tier[t] \in {-1, 0, 1, 2, 3} /\ k1.tier[t] \in {-1, 0, 1, 2, 3} /\ k1.tier[t] # Untracked
          /\ t \in ChainTxs(d) \ ChainTxs(chain) => k1.tier[t] >= INCLUDED
          /\ k1.tier[t] < tk.tier[t] => ~OnChain(tk.block[t], new)
      BY <1>9, <2>4
    <3>2. k.tier[t] \in {-1, 0, 1, 2, 3} /\ k.tier[t] >= k1.tier[t]
      BY <2>2, TierRange
    <3>3. t \in TxsOf(c) => k.tier[t] >= INCLUDED
      BY <2>2, <3>1
    <3>4. k1.tier[t] >= INCLUDED => k.tier[t] >= INCLUDED
      BY <3>1, <3>2, TierValues
    <3>5. k.tier[t] < tk.tier[t] => k1.tier[t] < tk.tier[t]
      BY <3>1, <3>2
    <3> QED BY <2>3, <3>1, <3>3, <3>4, <3>5
  <2>5. Tells(k, new)
    BY <2>2 DEF Tells
  <2> QED BY <2>4, <2>5
<1> QED BY <1>6, <1>10, <1>11, <1>12 DEF ToldTwice

LEMMA NodeStarts == FastInit => NodeIInv
<1> SUFFICES ASSUME FastInit PROVE NodeIInv
  OBVIOUS
<1>1. FastIInv /\ tracker = NoTracker /\ chain = <<>>
  BY FastStarts DEF FastInit, PoolInit
<1>2. node \in Nodes /\ chain \in Chains
  BY <1>1 DEF FastIInv, PoolIInv
<1>3. Once(chain)
  <2>1. Len(chain) = 0
    BY <1>1
  <2> QED BY <2>1 DEF Once
<1> QED BY <1>1, <1>2, <1>3, NothingTold DEF NodeIInv, TracksAsAsked

\* What the node tells the tracker.
LEMMA FollowTells ==
    ASSUME Follow
    PROVE  tracker' = IF "tracker" \notin node.with THEN tracker
                      ELSE IF chain' = chain THEN FoldLeft(MarkAdmitted, tracker, SetToSeq(pool' \ pool))
                      ELSE ToldAll(HandleReorg(tracker, Hashes(chain, Common(chain, chain'))),
                                   Heard(Common(chain, chain'), chain'))
BY DEF Follow, ToldAll, Heard

LEMMA NodeMoves ==
    ASSUME NodeIInv, PoolNext, Follow
    PROVE  Once(chain') /\ Tells(tracker', chain') /\ TracksAsAsked' /\ TiersAreKept
<1>1. /\ PoolIInv /\ node \in Nodes /\ chain \in Chains /\ Once(chain) /\ Tells(tracker, chain)
      /\ TrackedIn(tracker, chain) /\ tracker \in Tks
  BY DEF NodeIInv, FastIInv, PoolIInv, Tells, TrackedIn
<1>2. node' = node /\ chain' \in Chains /\ pool' \subseteq Txs /\ IsFiniteSet(pool')
  <2>1. node' = node /\ PoolLeft
    BY <1>1, PoolSteps
  <2>2. node'.txs \subseteq Txs
    BY <1>1, <2>1, NodeTypes
  <2> QED BY <2>1, <2>2 DEF PoolLeft, PoolOK
<1>3. PICK new : new = chain'
  OBVIOUS
<1>4. new = chain \/ \E n, b : Grown(n, b, new)
  BY <1>1, <1>3, NewChains
<1>5. Once(new)
  BY <1>1, <1>4, GrownTypes
<1>6. CASE "tracker" \notin node.with
  <2>1. tracker' = NoTracker /\ tracker = NoTracker
    BY <1>6, FollowTells DEF NodeIInv, TracksAsAsked
  <2>2. Tells(tracker', chain')
    BY <1>1, <1>2, <2>1, NothingTold
  <2>3. \A t \in Txs : tracker.tier[t] = Untracked
    BY <2>1 DEF NoTracker
  <2> QED BY <1>3, <1>5, <2>1, <2>2, <2>3 DEF TracksAsAsked, TiersAreKept
<1>7. CASE "tracker" \in node.with /\ new = chain
  <2>1. PICK S \in SUBSET Txs : S = pool' \ pool /\ IsFiniteSet(S)
    <3>1. PICK S : S = pool' \ pool
      OBVIOUS
    <3>2. S \in SUBSET pool' /\ S \in SUBSET Txs
      BY <1>2, <3>1
    <3>3. IsFiniteSet(S)
      BY <1>2, <3>2, FS_Subset
    <3> QED BY <3>1, <3>2, <3>3
  <2>2. PICK q \in Seq(S) : q = SetToSeq(S)
    BY <2>1, SetInSequence
  <2>3. tracker' = FoldLeft(MarkAdmitted, tracker, q)
    BY <1>3, <1>7, <2>1, <2>2, FollowTells
  <2>4. AdmitsOnly(tracker, tracker', S)
    BY <1>1, <2>1, <2>2, <2>3, AllAdmitted
  <2>5. Tells(tracker', chain) /\ \A t \in Txs : tracker'.tier[t] < tracker.tier[t] => t \in S
    BY <1>1, <2>4, AdmittedTells
  <2>6. TracksAsAsked'
    BY <1>2, <1>7 DEF TracksAsAsked
  <2>7. TiersAreKept
    BY <1>3, <1>7, <2>1, <2>5 DEF TiersAreKept
  <2> QED BY <1>3, <1>5, <1>7, <2>5, <2>6, <2>7
<1>8. CASE "tracker" \in node.with /\ new # chain
  <2>1. PICK n, b : Grown(n, b, new)
    BY <1>4, <1>8
  <2>2. Common(chain, new) = n
    BY <1>1, <2>1, GrownParts
  <2>3. tracker' = ToldAll(HandleReorg(tracker, Hashes(chain, n)), Heard(n, new))
    BY <1>3, <1>8, <2>2, FollowTells
  <2>4. PICK k, hashes : k = tracker' /\ hashes = Heard(n, new)
    OBVIOUS
  <2>5. k = ToldAll(HandleReorg(tracker, Hashes(chain, n)), hashes)
    BY <2>3, <2>4
  <2>6. /\ Tells(k, new)
        /\ \A t \in Txs : tracker.tier[t] # Untracked =>
             /\ t \in ChainTxs(new) \ ChainTxs(chain) => k.tier[t] >= INCLUDED
             /\ k.tier[t] < tracker.tier[t] => ~OnChain(tracker.block[t], new)
    BY <1>1, <2>1, <2>4, <2>5, GrownTells
  <2>7. TracksAsAsked'
    BY <1>2, <1>8 DEF TracksAsAsked
  <2>8. TiersAreKept
    BY <1>3, <2>4, <2>6 DEF TiersAreKept
  <2> QED BY <1>3, <1>5, <2>4, <2>6, <2>7, <2>8
<1> QED BY <1>6, <1>7, <1>8

LEMMA PreflightTells ==
    ASSUME NodeIInv, NEW t \in Txs, TrackPreflight(t)
    PROVE  Tells(tracker', chain) /\ TracksAsAsked' /\ TiersAreKept
<1>1. /\ node \in Nodes /\ Tells(tracker, chain) /\ TrackedIn(tracker, chain) /\ tracker \in Tks
  BY DEF NodeIInv, FastIInv, PoolIInv, Tells, TrackedIn
<1>2. PICK tk, k : tk = tracker /\ k = tracker'
  OBVIOUS
<1>3. tk.tier[t] = Untracked /\ k = [tk EXCEPT !.tier[t] = PREFLIGHT, !.block[t] = <<>>]
  BY <1>2 DEF TrackPreflight
<1>4. /\ tk.tier \in [Txs -> TkTiers] /\ tk.block \in [Txs -> Chains]
      /\ tk = [tier |-> tk.tier, block |-> tk.block, byBlock |-> tk.byBlock]
  BY <1>1, <1>2, TkTypes
<1>5. PICK f \in [Txs -> TkTiers] : f = [tk.tier EXCEPT ![t] = PREFLIGHT]
  BY <1>4 DEF TkTiers
<1>6. PICK g \in [Txs -> Chains] : g = [tk.block EXCEPT ![t] = <<>>]
  <2>1. <<>> \in Chains
    BY DEF Chains
  <2> QED BY <1>4, <2>1
<1>7. k = [tier |-> f, block |-> g, byBlock |-> tk.byBlock]
  BY <1>3, <1>4, <1>5, <1>6
<1>8. k \in Tks
  <2>1. PICK D \in SUBSET Chains : tk.byBlock \in [D -> SUBSET Txs]
    BY <1>1, <1>2 DEF Tks
  <2>2. PICK by \in [D -> SUBSET Txs] : by = tk.byBlock
    BY <2>1
  <2>3. [tier |-> f, block |-> g, byBlock |-> by] \in Tks
    BY IsTk
  <2> QED BY <1>7, <2>2, <2>3
<1>9. ASSUME NEW u \in Txs, u # t PROVE k.tier[u] = tk.tier[u] /\ k.block[u] = tk.block[u]
  BY <1>4, <1>5, <1>6, <1>7, <1>9
<1>10. k.tier[t] = PREFLIGHT /\ k.byBlock = tk.byBlock
  BY <1>4, <1>5, <1>7
<1>11. ~(PREFLIGHT >= INCLUDED) /\ PREFLIGHT # INCLUDED
  BY TierValues
<1>12. TrackedIn(k, chain)
  <2>1. ASSUME NEW u \in Txs, k.tier[u] >= INCLUDED
        PROVE  /\ OnChain(k.block[u], chain) /\ u \in TxsOf(Last(k.block[u]))
               /\ k.block[u] \in DOMAIN k.byBlock /\ u \in k.byBlock[k.block[u]]
    <3>1. u # t
      BY <1>10, <1>11, <2>1
    <3> QED BY <1>1, <1>2, <1>9, <1>10, <2>1, <3>1 DEF TrackedIn
  <2> QED BY <1>1, <1>2, <1>8, <1>10, <2>1 DEF TrackedIn
<1>13. Deep(k, Len(chain))
  <2> SUFFICES ASSUME NEW u \in Txs, k.tier[u] = INCLUDED PROVE DepthAt(k, u, Len(chain)) < KDepth[u]
    BY DEF Deep
  <2>1. u # t
    BY <1>10, <1>11
  <2>2. tk.tier[u] = INCLUDED /\ DepthAt(k, u, Len(chain)) = DepthAt(tk, u, Len(chain))
    BY <1>9, <2>1 DEF DepthAt
  <2> QED BY <1>1, <1>2, <2>2 DEF Tells, Deep
<1>14. chain' = chain /\ node' = node /\ "tracker" \in node.with
  BY DEF TrackPreflight, poolVars
<1>15. TiersAreKept
  <2> SUFFICES ASSUME NEW u \in Txs, tk.tier[u] # Untracked PROVE ~(k.tier[u] < tk.tier[u])
    BY <1>2, <1>14 DEF TiersAreKept
  <2>1. u # t /\ tk.tier[u] \in {-1, 0, 1, 2, 3}
    BY <1>1, <1>2, <1>3, TierRange
  <2> QED BY <1>9, <2>1
<1>16. TracksAsAsked'
  BY <1>14 DEF TracksAsAsked
<1> QED BY <1>2, <1>12, <1>13, <1>15, <1>16 DEF Tells

LEMMA CleanupTells ==
    ASSUME NodeIInv, NEW t \in Txs, Cleanup(t)
    PROVE  Tells(tracker', chain) /\ TracksAsAsked' /\ TiersAreKept
<1>1. /\ node \in Nodes /\ Tells(tracker, chain) /\ TrackedIn(tracker, chain) /\ tracker \in Tks
  BY DEF NodeIInv, FastIInv, PoolIInv, Tells, TrackedIn
<1>2. PICK tk, k : tk = tracker /\ k = tracker'
  OBVIOUS
<1>3. PICK hash, left : /\ hash = tk.block[t]
                        /\ left = IF hash \in DOMAIN tk.byBlock THEN tk.byBlock[hash] \ {t} ELSE {}
  OBVIOUS
<1>4. /\ tk.tier[t] # Untracked
      /\ k = [tier |-> [tk.tier EXCEPT ![t] = Untracked], block |-> [tk.block EXCEPT ![t] = <<>>],
              byBlock |-> IF left = {} THEN Drop(tk.byBlock, {hash}) ELSE [tk.byBlock EXCEPT ![hash] = left]]
  BY <1>2, <1>3 DEF Cleanup
<1>5. /\ tk.tier \in [Txs -> TkTiers] /\ tk.block \in [Txs -> Chains]
      /\ DOMAIN tk.byBlock \subseteq Chains /\ \A h \in DOMAIN tk.byBlock : tk.byBlock[h] \subseteq Txs
  BY <1>1, <1>2, TkTypes
<1>6. PICK f \in [Txs -> TkTiers] : f = [tk.tier EXCEPT ![t] = Untracked]
  BY <1>5 DEF TkTiers
<1>7. PICK g \in [Txs -> Chains] : g = [tk.block EXCEPT ![t] = <<>>]
  <2>1. <<>> \in Chains
    BY DEF Chains
  <2> QED BY <1>5, <2>1
<1>8. PICK by : by = IF left = {} THEN Drop(tk.byBlock, {hash}) ELSE [tk.byBlock EXCEPT ![hash] = left]
  OBVIOUS
<1>9. k = [tier |-> f, block |-> g, byBlock |-> by]
  BY <1>4, <1>6, <1>7, <1>8
<1>10. /\ DOMAIN by = IF left = {} THEN DOMAIN tk.byBlock \ {hash} ELSE DOMAIN tk.byBlock
       /\ \A h \in DOMAIN by : by[h] = IF h = hash THEN left ELSE tk.byBlock[h]
       /\ by = [h \in DOMAIN by |-> by[h]]
  <2>1. CASE left = {}
    <3>1. by = [h \in DOMAIN tk.byBlock \ {hash} |-> tk.byBlock[h]]
      BY <1>8, <2>1 DEF Drop
    <3> QED BY <2>1, <3>1
  <2>2. CASE left # {}
    <3>1. by = [tk.byBlock EXCEPT ![hash] = left]
      BY <1>8, <2>2
    <3> QED BY <2>2, <3>1
  <2> QED BY <2>1, <2>2
<1>11. k \in Tks
  <2>1. PICK D \in SUBSET Chains : D = DOMAIN by
    BY <1>5, <1>10
  <2>2. \A h \in D : by[h] \subseteq Txs
    BY <1>3, <1>5, <1>10, <2>1
  <2>3. PICK m \in [D -> SUBSET Txs] : m = by
    BY <1>10, <2>1, <2>2
  <2>4. [tier |-> f, block |-> g, byBlock |-> m] \in Tks
    BY IsTk
  <2> QED BY <1>9, <2>3, <2>4
<1>12. ASSUME NEW u \in Txs, u # t PROVE k.tier[u] = tk.tier[u] /\ k.block[u] = tk.block[u]
  BY <1>5, <1>6, <1>7, <1>9, <1>12
<1>13. k.tier[t] = Untracked /\ k.byBlock = by
  BY <1>5, <1>6, <1>9
<1>14. ~(Untracked >= INCLUDED) /\ Untracked # INCLUDED
  BY TierValues
<1>15. TrackedIn(k, chain)
  <2>1. ASSUME NEW u \in Txs, k.tier[u] >= INCLUDED
        PROVE  /\ OnChain(k.block[u], chain) /\ u \in TxsOf(Last(k.block[u]))
               /\ k.block[u] \in DOMAIN by /\ u \in by[k.block[u]]
    <3>1. u # t /\ k.tier[u] = tk.tier[u] /\ k.block[u] = tk.block[u]
      BY <1>12, <1>13, <1>14, <2>1
    <3>2. /\ OnChain(tk.block[u], chain) /\ u \in TxsOf(Last(tk.block[u]))
          /\ tk.block[u] \in DOMAIN tk.byBlock /\ u \in tk.byBlock[tk.block[u]]
      BY <1>1, <1>2, <2>1, <3>1 DEF TrackedIn
    <3>3. tk.block[u] = hash => u \in left
      BY <1>3, <3>1, <3>2
    <3> QED BY <1>10, <3>1, <3>2, <3>3
  <2>2. ASSUME NEW h \in DOMAIN by PROVE OnChain(h, chain) /\ by[h] \subseteq TxsOf(Last(h))
    <3>1. h \in DOMAIN tk.byBlock /\ by[h] \subseteq tk.byBlock[h]
      BY <1>3, <1>10, <2>2
    <3> QED BY <1>1, <1>2, <3>1 DEF TrackedIn
  <2> QED BY <1>11, <1>13, <2>1, <2>2 DEF TrackedIn
<1>16. Deep(k, Len(chain))
  <2> SUFFICES ASSUME NEW u \in Txs, k.tier[u] = INCLUDED PROVE DepthAt(k, u, Len(chain)) < KDepth[u]
    BY DEF Deep
  <2>1. u # t
    BY <1>13, <1>14
  <2>2. tk.tier[u] = INCLUDED /\ DepthAt(k, u, Len(chain)) = DepthAt(tk, u, Len(chain))
    BY <1>12, <2>1 DEF DepthAt
  <2> QED BY <1>1, <1>2, <2>2 DEF Tells, Deep
<1>17. chain' = chain /\ node' = node
  BY DEF Cleanup, poolVars
<1>18. TiersAreKept
  <2> SUFFICES ASSUME NEW u \in Txs, k.tier[u] # Untracked PROVE ~(k.tier[u] < tk.tier[u])
    BY <1>2, <1>17 DEF TiersAreKept
  <2>1. u # t /\ tk.tier[u] \in {-1, 0, 1, 2, 3}
    BY <1>1, <1>2, <1>13, TierRange
  <2> QED BY <1>12, <2>1
<1>19. TracksAsAsked'
  <2>1. "tracker" \in node.with
    <3>1. tracker # NoTracker
      <4>1. NoTracker.tier[t] = Untracked
        BY DEF NoTracker
      <4> QED BY <1>2, <1>4, <4>1
    <3> QED BY <3>1 DEF NodeIInv, TracksAsAsked
  <2> QED BY <1>17, <2>1 DEF TracksAsAsked
<1> QED BY <1>2, <1>15, <1>16, <1>18, <1>19 DEF Tells

\* What every step does.
NodeFollows == ReorgKeepsTransactions /\ LeavesForAReason /\ TiersAreEarned' /\ TiersAreKept

\* The tracker tells of the chain after a step.
LEMMA TellsNow ==
    ASSUME node' = node, Once(chain'), Tells(tracker', chain')
    PROVE  Once(chain)' /\ Tells(tracker, chain)' /\ TiersAreEarned'
<1>1. Chains' = Chains
  BY DEF Chains
<1>2. Tks' = Tks
  BY <1>1 DEF Tks
<1>3. Once(chain)'
  BY DEF Once
<1>4. Tells(tracker, chain)'
  BY <1>2 DEF Tells, TrackedIn, Deep
<1>5. TiersAreEarned'
  BY DEF Tells, TrackedIn, Deep, TiersAreEarned
<1> QED BY <1>3, <1>4, <1>5

LEMMA NodeSteps == NodeIInv /\ FastNext => NodeIInv' /\ NodeFollows
<1> SUFFICES ASSUME NodeIInv, FastNext PROVE NodeIInv' /\ NodeFollows
  OBVIOUS
<1>1. FastIInv /\ PoolIInv /\ Once(chain)
  BY DEF NodeIInv, FastIInv
<1>2. FastIInv'
  BY <1>1, FastSteps
<1>3. CASE PoolNext /\ Follow
  <2>1. ReorgKeepsTransactions /\ LeavesForAReason
    BY <1>1, <1>3, PoolMoves
  <2>2. Once(chain') /\ Tells(tracker', chain') /\ TracksAsAsked' /\ TiersAreKept
    BY <1>3, NodeMoves
  <2>3. node' = node
    BY <1>1, <1>3, PoolSteps
  <2>4. Once(chain)' /\ Tells(tracker, chain)' /\ TiersAreEarned'
    BY <2>2, <2>3, TellsNow
  <2> QED BY <1>2, <2>1, <2>2, <2>4 DEF NodeIInv, NodeFollows
<1>4. CASE \E t \in Txs : TrackPreflight(t) \/ Cleanup(t)
  <2>1. Tells(tracker', chain) /\ TracksAsAsked' /\ TiersAreKept
    BY <1>4, PreflightTells, CleanupTells
  <2>2. chain' = chain /\ pool' = pool /\ node' = node
    BY <1>4 DEF TrackPreflight, Cleanup, poolVars
  <2>3. Once(chain)' /\ Tells(tracker, chain)' /\ TiersAreEarned'
    <3>1. Once(chain') /\ Tells(tracker', chain')
      BY <1>1, <2>1, <2>2
    <3> QED BY <2>2, <3>1, TellsNow
  <2>4. ReorgKeepsTransactions /\ LeavesForAReason
    <3>1. IsPrefix(chain, chain)
      BY <1>1, ChainTypes DEF IsPrefix, PoolIInv
    <3> QED BY <2>2, <3>1 DEF ReorgKeepsTransactions, LeavesForAReason
  <2> QED BY <1>2, <2>1, <2>3, <2>4 DEF NodeIInv, NodeFollows
<1> QED BY <1>3, <1>4 DEF FastNext

LEMMA NodeRests ==
    ASSUME NodeIInv, UNCHANGED <<poolVars, fast>>
    PROVE  NodeIInv'
<1>1. FastIInv'
  BY FastSteps DEF NodeIInv
<1>2. chain' = chain /\ node' = node /\ tracker' = tracker
  BY DEF poolVars, fast
<1>3. Once(chain)' /\ Tells(tracker, chain)'
  BY <1>2, TellsNow DEF NodeIInv
<1>4. TracksAsAsked'
  BY <1>2 DEF NodeIInv, TracksAsAsked
<1> QED BY <1>1, <1>3, <1>4 DEF NodeIInv

\* Through blocks and reorgs transactions enter and leave the mempool, and tiers are
\* given and taken back, as the chain says (MempoolReconciler.onBlockCommit and
\* onReorg, ConfirmationTracker.markIncluded, updateDepth and handleReorg).
THEOREM NodeAlwaysFollowsChain == FastSpec => NodeFollowsChain
<1>1. FastInit => NodeIInv
  BY NodeStarts
<1>2. NodeIInv /\ [FastNext]_<<poolVars, fast>> => NodeIInv'
  BY NodeSteps, NodeRests
<1>3. NodeIInv /\ [FastNext]_<<poolVars, fast>>
        => [ReorgKeepsTransactions /\ LeavesForAReason /\ TiersAreEarned' /\ TiersAreKept]_<<poolVars, fast>>
  BY NodeSteps DEF NodeFollows
<1> QED BY <1>1, <1>2, <1>3, PTL DEF FastSpec, NodeFollowsChain
===============================================================================
